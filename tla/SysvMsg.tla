------------------------------ MODULE SysvMsg ------------------------------
(***************************************************************************)
(* Message queues of the SysV emulation: svc_msgget, svc_msgsnd,           *)
(* svc_msgrcv and svc_msgctl of linux_abi/syscall/sysv.c.  The entry of a  *)
(* queue is created under the lock, its backing store after the lock was   *)
(* dropped, under a name that depends on the slot only; every process      *)
(* keeps the stores it has mapped in a cache.  A store is a linked list of *)
(* messages and a linked list of free cells in one array.                  *)
(***************************************************************************)
EXTENDS SysvTable, Sequences, SequencesExt

CONSTANTS
  MsgSlots,       \* 0 .. HL_IPC_MSGMNI - 1
  Capacity,       \* HL_MSG_SLOTS, messages one store can hold
  Types, Sizes,   \* message types and body sizes guests send
  Selectors,      \* [typ, except] pairs guests receive with
  QueueBytes,     \* HL_IPC_MSGMNB, the initial qbytes
  SetBytes,       \* values guests give qbytes with IPC_SET
  MaxStores       \* bound on backing stores ever created

ASSUME MsgAssumption ==
  /\ MsgSlots \subseteq Nat
  /\ Capacity \in Nat \ {0}
  /\ Types \subseteq Nat \ {0} /\ Sizes \subseteq Nat
  /\ \A s \in Selectors : s.typ \in Int /\ s.except \in BOOLEAN
  /\ QueueBytes \in Nat /\ SetBytes \subseteq Nat /\ MaxStores \in Nat

VARIABLES
  msg,       \* the queue entries of the control block
  msgName,   \* the store each slot's name refers to
  stores,    \* the backing stores ever created, in order
  msgCache,  \* g_msgcache of each process
  msgCall    \* a msgget() that is making its store

msgVars == <<msg, msgName, stores, msgCache, msgCall>>

Cells == 0 .. Capacity - 1
Nil == -1
NoStore == 0
MsgSeqs == 0 .. MaxSeq + 1

(* An entry; `sole` is history: whether, when the queue was created,       *)
(* nobody was still making a store for an earlier queue of the slot or had *)
(* left one under its name.                                                *)
FreeMsg(seq) == [inuse |-> FALSE, sole |-> FALSE, key |-> Private, seq |-> seq, uid |-> 0,
                 cuid |-> 0, shared |-> FALSE, qnum |-> 0, cbytes |-> 0, qbytes |-> 0]
MsgIdle == [step |-> "idle", idx |-> 0, seq |-> 0, store |-> NoStore]

(* A store whose magic is not set yet, and the same store initialised: no  *)
(* messages, every cell on the free list.                                  *)
RawStore == [ready |-> FALSE, head |-> 0, tail |-> 0, free |-> 0,
             next |-> [k \in Cells |-> 0], mtype |-> [k \in Cells |-> 0],
             size |-> [k \in Cells |-> 0]]
Initialised(s) == [s EXCEPT !.ready = TRUE, !.head = Nil, !.tail = Nil, !.free = 0,
                            !.next = [k \in Cells |-> IF k + 1 \in Cells THEN k + 1 ELSE Nil]]

MsgInit ==
  /\ msg = [i \in MsgSlots |-> FreeMsg(0)]
  /\ msgName = [i \in MsgSlots |-> NoStore]
  /\ stores = <<>>
  /\ msgCache = [p \in Procs |-> {}]
  /\ msgCall = [p \in Procs |-> MsgIdle]

-----------------------------------------------------------------------------
(* hl_ipc_msg_store without creation: the cached mapping of this slot and  *)
(* sequence number, else the store the name refers to now.                 *)
Cached(p, i) == {m \in msgCache[p] : m.idx = i /\ m.seq = msg[i].seq}
StoreOf(p, i) ==
  IF Cached(p, i) # {} THEN (CHOOSE m \in Cached(p, i) : TRUE).store ELSE msgName[i]
Usable(s) == s # NoStore /\ stores[s].ready
Caching(p, i, s) ==
  [msgCache EXCEPT ![p] = @ \cup {[idx |-> i, seq |-> msg[i].seq, store |-> s]}]

(* Following the links from a cell: the cells of a list, in order.         *)
Walk(s, first) ==
  LET at[k \in 0 .. Capacity] ==
        IF k = 0 THEN first ELSE IF at[k - 1] = Nil THEN Nil ELSE s.next[at[k - 1]]
      n == Cardinality({k \in DOMAIN at : at[k] # Nil})
  IN  [k \in 1 .. n |-> at[k - 1]]
Messages(s) == Walk(s, s.head)

(* Mutant: the first message of the lowest type is chosen last.            *)
ChoiceLast(s, sel) ==
  LET list == Messages(s)
      match == {k \in DOMAIN list : sel.typ = 0 \/ s.mtype[list[k]] = sel.typ}
  IN  IF match = {} THEN 0 ELSE CHOOSE k \in match : \A j \in match : k >= j

(* The position svc_msgrcv selects: the first message, the first of a type *)
(* (or not of it), or the first of the lowest type up to a limit.          *)
Choice(s, sel) ==
  LET list == Messages(s)
      type(k) == s.mtype[list[k]]
      match == {k \in DOMAIN list :
                  IF sel.typ = 0 THEN TRUE
                  ELSE IF sel.typ > 0 THEN sel.except # (type(k) = sel.typ)
                  ELSE type(k) <= -sel.typ}
      best == IF sel.typ < 0 THEN {k \in match : \A j \in match : type(k) <= type(j)}
              ELSE match
  IN  IF best = {} THEN 0 ELSE CHOOSE k \in best : \A j \in best : k <= j

(* A free cell is taken and linked behind the tail.                        *)
Linked(s, type, bytes) ==
  LET k == s.free
      t == [s EXCEPT !.free = s.next[k], !.mtype[k] = type, !.size[k] = bytes,
                     !.next[k] = Nil, !.tail = k]
  IN  IF s.tail = Nil THEN [t EXCEPT !.head = k] ELSE [t EXCEPT !.next[s.tail] = k]

(* Mutant: removing the last message leaves the tail on its cell.          *)
UnlinkedNoTail(s, k) ==
  LET list == Messages(s)
      cell == list[k]
      t == IF k = 1 THEN [s EXCEPT !.head = s.next[cell]]
           ELSE [s EXCEPT !.next[list[k - 1]] = s.next[cell]]
  IN  [t EXCEPT !.tail = IF s.tail = cell /\ k = 1 THEN Nil ELSE @,
                !.next[cell] = s.free, !.free = cell]

(* The chosen message is taken out from anywhere, its cell freed (and its  *)
(* contents, which nobody reads again, cleared).                           *)
UnlinkedAt(s, k) ==
  LET list == Messages(s)
      cell == list[k]
      before == IF k = 1 THEN Nil ELSE list[k - 1]
      t == IF k = 1 THEN [s EXCEPT !.head = s.next[cell]]
           ELSE [s EXCEPT !.next[before] = s.next[cell]]
  IN  [t EXCEPT !.tail = IF @ = cell THEN before ELSE @,
                !.next[cell] = s.free, !.free = cell, !.mtype[cell] = 0, !.size[cell] = 0]

-----------------------------------------------------------------------------
(* svc_msgget: the entry, under the lock.                                  *)
Making(p, i) == msgCall[p].step # "idle" /\ msgCall[p].idx = i
Undisturbed(i) == msgName[i] = NoStore /\ \A q \in Procs : ~Making(q, i)
MsggetEntry(p, i) ==
  /\ FirstFree(msg, i)
  /\ \E key \in Keys, shared \in Modes :
       /\ MayCreate(msg, key)
       /\ msg' = [msg EXCEPT ![i] = [Created(FreeMsg(@.seq), p, key, shared)
                                       EXCEPT !.qbytes = QueueBytes, !.sole = Undisturbed(i)]]
  /\ msgCall' = [msgCall EXCEPT ![p] = [step |-> "unlink", idx |-> i, seq |-> msg[i].seq,
                                        store |-> NoStore]]
  /\ UNCHANGED <<msgName, stores, msgCache>>

(* hl_ipc_msg_store(create), outside the lock: a stale object is unlinked, *)
MsggetUnlink(p) ==
  /\ msgCall[p].step = "unlink"
  /\ msgName' = [msgName EXCEPT ![msgCall[p].idx] = NoStore]
  /\ msgCall' = [msgCall EXCEPT ![p].step = "open"]
  /\ UNCHANGED <<msg, stores, msgCache>>

(* the name is created, or the winner of a race opened,                    *)
MsggetOpen(p) ==
  LET i == msgCall[p].idx IN
  /\ msgCall[p].step = "open"
  /\ \/ /\ msgName[i] = NoStore /\ Len(stores) < MaxStores
        /\ stores' = Append(stores, RawStore)
        /\ msgName' = [msgName EXCEPT ![i] = Len(stores) + 1]
        /\ msgCall' = [msgCall EXCEPT ![p].step = "init", ![p].store = Len(stores) + 1]
     \/ /\ msgName[i] # NoStore
        /\ msgCall' = [msgCall EXCEPT ![p].step = "init", ![p].store = msgName[i]]
        /\ UNCHANGED <<stores, msgName>>
  /\ UNCHANGED <<msg, msgCache>>

(* and a store without its magic is initialised and cached, under the      *)
(* sequence number the call began with.                                    *)
MsggetReady(p) ==
  LET w == msgCall[p] IN
  /\ w.step = "init"
  /\ stores' = [stores EXCEPT ![w.store] = IF @.ready THEN @ ELSE Initialised(@)]
  /\ msgCache' = [msgCache EXCEPT ![p] = @ \cup {[idx |-> w.idx, seq |-> w.seq,
                                                  store |-> w.store]}]
  /\ msgCall' = [msgCall EXCEPT ![p] = MsgIdle]
  /\ UNCHANGED <<msg, msgName>>

(* No object could be created: msgget() takes its entry back, if it is     *)
(* still its own.                                                          *)
MsggetFails(p) ==
  LET i == msgCall[p].idx
      mine == msg[i].inuse /\ msg[i].seq = msgCall[p].seq IN
  /\ msgCall[p].step = "open"
  /\ msg' = IF mine THEN [msg EXCEPT ![i] = FreeMsg(@.seq + 1)] ELSE msg
  /\ msgName' = IF mine THEN [msgName EXCEPT ![i] = NoStore] ELSE msgName
  /\ msgCache' = IF mine THEN [msgCache EXCEPT ![p] = {m \in @ : m.idx # i}] ELSE msgCache
  /\ msgCall' = [msgCall EXCEPT ![p] = MsgIdle]
  /\ UNCHANGED stores

(* svc_msgsnd: one pass of its loop that finds room.  A full queue, or one *)
(* without a usable store, is polled again or refused.                     *)
Msgsnd(p, i) ==
  LET s == StoreOf(p, i) IN
  /\ msg[i].inuse /\ HasAccess(p, msg[i])
  /\ msg[i].qnum < Capacity
  /\ Usable(s) /\ stores[s].free # Nil
  /\ \E type \in Types, bytes \in Sizes :
       /\ msg[i].cbytes + bytes <= msg[i].qbytes
       /\ stores' = [stores EXCEPT ![s] = Linked(@, type, bytes)]
       /\ msg' = [msg EXCEPT ![i].qnum = @ + 1, ![i].cbytes = @ + bytes]
  /\ msgCache' = Caching(p, i, s)
  /\ UNCHANGED <<msgName, msgCall>>

(* svc_msgrcv: one pass that finds a message which fits, or is truncated   *)
(* (MSG_NOERROR); the queue gives back what was sent, not what was copied. *)
Msgrcv(p, i) ==
  LET s == StoreOf(p, i) IN
  /\ msg[i].inuse /\ HasAccess(p, msg[i])
  /\ Usable(s)
  /\ \E sel \in Selectors :
       LET k == Choice(stores[s], sel) IN
       /\ k # 0
       /\ stores' = [stores EXCEPT ![s] = UnlinkedAt(@, k)]
       /\ msg' = [msg EXCEPT ![i].qnum = @ - 1,
                             ![i].cbytes = @ - stores[s].size[Messages(stores[s])[k]]]
  /\ msgCache' = Caching(p, i, s)
  /\ UNCHANGED <<msgName, msgCall>>

(* Mutant: the mapping of a removed queue stays under a reusable number.   *)
MsgRmidKeepsSeq(p, i) ==
  /\ msg[i].inuse /\ IsOwner(p, msg[i])
  /\ msg' = [msg EXCEPT ![i] = FreeMsg(@.seq)]
  /\ msgName' = [msgName EXCEPT ![i] = NoStore]
  /\ UNCHANGED <<stores, msgCache, msgCall>>

(* svc_msgctl(IPC_RMID): msg_free, for this process's cache only.          *)
MsgRmid(p, i) ==
  /\ msg[i].inuse /\ IsOwner(p, msg[i])
  /\ msg' = [msg EXCEPT ![i] = FreeMsg(@.seq + 1)]
  /\ msgName' = [msgName EXCEPT ![i] = NoStore]
  /\ msgCache' = [msgCache EXCEPT ![p] = {m \in @ : m.idx # i}]
  /\ UNCHANGED <<stores, msgCall>>

(* svc_msgctl(IPC_SET): permissions and, for the superuser without limit,  *)
(* the queue's capacity.                                                   *)
MsgSet(p, i) ==
  /\ msg[i].inuse /\ IsOwner(p, msg[i])
  /\ \E bytes \in SetBytes, uid \in Owners, shared \in Modes :
       /\ bytes <= QueueBytes \/ Uid[p] = 0
       /\ msg' = [msg EXCEPT ![i] = [WithPerm(msg[i], uid, shared)
                        EXCEPT !.qbytes = IF bytes = 0 THEN msg[i].qbytes ELSE bytes]]
  /\ UNCHANGED <<msgName, stores, msgCache, msgCall>>

MsgStep(p) == MsggetUnlink(p) \/ MsggetOpen(p) \/ MsggetReady(p) \/ MsggetFails(p)

MsgRequest(p) ==
  \E i \in MsgSlots : MsggetEntry(p, i) \/ Msgsnd(p, i) \/ Msgrcv(p, i) \/ MsgRmid(p, i) \/ MsgSet(p, i)

-----------------------------------------------------------------------------
Store == [ready : BOOLEAN, head : Cells \cup {Nil}, tail : Cells \cup {Nil},
          free : Cells \cup {Nil}, next : [Cells -> Cells \cup {Nil}],
          mtype : [Cells -> Nat], size : [Cells -> Nat]]

MsgTypeOK ==
  /\ msg \in [MsgSlots -> [inuse : BOOLEAN, sole : BOOLEAN, key : Keys \cup {Private},
                        seq : MsgSeqs, uid : Nat, cuid : Nat, shared : BOOLEAN,
                        qnum : Nat, cbytes : Nat, qbytes : Nat]]
  /\ DOMAIN stores = 1 .. Len(stores) /\ \A s \in DOMAIN stores : stores[s] \in Store
  /\ msgName \in [MsgSlots -> {NoStore} \cup DOMAIN stores]
  /\ \A p \in Procs : msgCache[p] \subseteq [idx : MsgSlots, seq : MsgSeqs, store : DOMAIN stores]
  /\ msgCall \in [Procs -> [step : {"idle", "unlink", "open", "init"},
                            idx : MsgSlots \cup {0}, seq : MsgSeqs,
                            store : {NoStore} \cup DOMAIN stores]]

Cellset(list) == {list[k] : k \in DOMAIN list}

(* A store never loses a cell: message list and free list are disjoint,    *)
(* cover the array, and the tail is the end of the list, after any mix of  *)
(* sends and receives from the middle.                                     *)
StoresAreWellFormed ==
  \A s \in DOMAIN stores : stores[s].ready =>
    LET used == Messages(stores[s])
        free == Walk(stores[s], stores[s].free) IN
    /\ Len(used) + Len(free) = Capacity
    /\ Cellset(used) \cup Cellset(free) = Cells
    /\ stores[s].tail = IF used = <<>> THEN Nil ELSE used[Len(used)]

(* Counters and store agree for every process that can reach a queue that  *)
(* was created undisturbed: qnum and cbytes, which decide who is admitted  *)
(* under the lock, describe the one list all of them use, although the     *)
(* store is made after the lock was dropped and the queue may be removed   *)
(* meanwhile.                                                              *)
QueueIsAccounted ==
  \A p \in Procs, i \in MsgSlots :
    LET s == StoreOf(p, i)
        list == Messages(stores[s]) IN
    msg[i].inuse /\ msg[i].sole /\ Usable(s) =>
      /\ msg[i].qnum = Len(list)
      /\ msg[i].cbytes = FoldSeq(+, 0, [k \in DOMAIN list |-> stores[s].size[list[k]]])

(* "Each message QUEUE is its own named object" (sysv_state.h): whatever   *)
(* store processes use for a queue, they use the same.                     *)
QueueIsOneObject ==
  \A p, q \in Procs, i \in MsgSlots :
    msg[i].inuse /\ Usable(StoreOf(p, i)) /\ Usable(StoreOf(q, i)) =>
      StoreOf(p, i) = StoreOf(q, i)

(* Per type a store is first-in first-out: a step of svc_msgsnd appends    *)
(* one cell, a step of svc_msgrcv takes out one that no earlier message of *)
(* its type precedes, and nothing else moves.                              *)
StoresAreFifo ==
  [][\A s \in DOMAIN stores : stores[s].ready =>
       LET old == Messages(stores[s])
           new == Messages(stores'[s])
           type(k) == stores[s].mtype[old[k]] IN
       \/ new = old
       \/ \E cell \in Cells : new = Append(old, cell)
       \/ \E k \in DOMAIN old : /\ new = RemoveAt(old, k)
                                /\ \A j \in 1 .. k - 1 : type(j) # type(k)]_msgVars
=============================================================================
