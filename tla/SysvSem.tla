------------------------------ MODULE SysvSem ------------------------------
(***************************************************************************)
(* Semaphore sets of the SysV emulation: svc_semget, svc_semop and         *)
(* svc_semctl of linux_abi/syscall/sysv.c.  A blocked semop() registers    *)
(* itself as a waiter, drops the lock, sleeps and tries again; SEM_UNDO is *)
(* kept in the memory of the process that asked for it.                    *)
(***************************************************************************)
EXTENDS SysvTable, Sequences, FiniteSetsExt

CONSTANTS
  SemSlots,   \* 0 .. HL_IPC_SEMMNI - 1
  Nums,       \* the semaphores of every set
  OpLists,    \* the operation lists guests pass to semop()
  SetValues,  \* the values guests pass to SETVAL
  SemMax,     \* HL_IPC_SEMVMX
  UndoMax,    \* HL_UNDO_MAX, adjustments one process can record
  MaxMarks,   \* bound on waiter marks, which may stay behind
  MaxAdjust   \* bound on one adjustment

(* Values are uint16_t.                                                    *)
Width == 65536

Op == [num : Nums, op : Int, undo : BOOLEAN, nowait : BOOLEAN]

ASSUME SemAssumption ==
  /\ SemSlots \subseteq Nat
  /\ OpLists \subseteq Seq(Op)
  /\ SemMax \in 0 .. Width - 1 /\ SetValues \subseteq 0 .. SemMax
  /\ UndoMax \in Nat /\ MaxMarks \in Nat /\ MaxAdjust \in Nat

VARIABLES
  sem,      \* the semaphore sets of the control block
  undo,     \* g_undo of each process
  semCall,  \* a semop() that is waiting
  exact     \* history: the values of a set are still the sum of what its
            \* operations did and their owners will undo

semVars == <<sem, undo, semCall, exact>>

SemSeqs == 0 .. MaxSeq + 1

FreeSem(seq) == [inuse |-> FALSE, key |-> Private, seq |-> seq, uid |-> 0, cuid |-> 0,
                 shared |-> FALSE, val |-> [n \in Nums |-> 0],
                 ncnt |-> [n \in Nums |-> 0], zcnt |-> [n \in Nums |-> 0]]
SemIdle == [step |-> "idle", idx |-> 0, seq |-> 0, ops |-> <<>>]

SemInit ==
  /\ sem = [i \in SemSlots |-> FreeSem(0)]
  /\ undo = [p \in Procs |-> {}]
  /\ semCall = [p \in Procs |-> SemIdle]
  /\ exact = [i \in SemSlots |-> TRUE]

(* sem_by_id.                                                              *)
SemById(i, seq) == sem[i].inuse /\ sem[i].seq = seq

-----------------------------------------------------------------------------
(* sem_blocking_op: the first operation that cannot proceed, checked       *)
(* against the value before the whole list; an excess ends the search.     *)
Blocks(e, o) == \/ o.op = 0 /\ e.val[o.num] # 0
                \/ o.op < 0 /\ e.val[o.num] + o.op < 0
Exceeds(e, o) == o.op > 0 /\ e.val[o.num] + o.op > SemMax
Stopping(e, ops) == {k \in DOMAIN ops : Blocks(e, ops[k]) \/ Exceeds(e, ops[k])}
Verdict(e, ops) ==
  IF Stopping(e, ops) = {} THEN "proceed"
  ELSE LET k == Min(Stopping(e, ops)) IN
       IF Exceeds(e, ops[k]) THEN "range"
       ELSE IF ops[k].nowait THEN "again" ELSE "wait"

Total(ops, chosen) == SumFunctionOnSet([k \in DOMAIN ops |-> ops[k].op], chosen)
On(ops, n) == {k \in DOMAIN ops : ops[k].num = n}

(* sem_waiters_adjust: falling operations count in ncnt, zero tests in     *)
(* zcnt; a decrement saturates.                                            *)
Falling(ops, n) == Cardinality({k \in On(ops, n) : ops[k].op < 0})
Zeroing(ops, n) == Cardinality({k \in On(ops, n) : ops[k].op = 0})
Less(count, k) == IF count < k THEN 0 ELSE count - k
Marked(e, ops) == [e EXCEPT !.ncnt = [n \in Nums |-> @[n] + Falling(ops, n)],
                            !.zcnt = [n \in Nums |-> @[n] + Zeroing(ops, n)]]
Unmarked(e, ops) == [e EXCEPT !.ncnt = [n \in Nums |-> Less(@[n], Falling(ops, n))],
                              !.zcnt = [n \in Nums |-> Less(@[n], Zeroing(ops, n))]]

(* The list is applied as a whole, each sum cut to 16 bits.                *)
Applied(e, ops) == [e EXCEPT !.val = [n \in Nums |-> (@[n] + Total(ops, On(ops, n))) % Width]]

(* sem_undo_add for each operation: an adjustment is found and changed, or *)
(* recorded while the table has room, or dropped.                          *)
UndoOps(ops, n) == {k \in On(ops, n) : ops[k].undo /\ ops[k].op # 0}
Adjusted(p, i) == {u \in undo[p] : u.idx = i /\ u.seq = sem[i].seq}
Fresh(p, i, ops) == {n \in Nums : UndoOps(ops, n) # {} /\ \A u \in Adjusted(p, i) : u.num # n}
Recorded(p, i, ops, added) ==
  {[u EXCEPT !.adj = IF u \in Adjusted(p, i) THEN @ + Total(ops, UndoOps(ops, u.num)) ELSE @]
     : u \in undo[p]}
  \cup {[idx |-> i, seq |-> sem[i].seq, num |-> n, adj |-> Total(ops, UndoOps(ops, n))] : n \in added}

-----------------------------------------------------------------------------
(* svc_semget: a new set, all values zero.                                 *)
Semget(p, i) ==
  /\ FirstFree(sem, i)
  /\ \E key \in Keys, shared \in Modes :
       /\ MayCreate(sem, key)
       /\ sem' = [sem EXCEPT ![i] = Created(FreeSem(@.seq), p, key, shared)]
  /\ exact' = [exact EXCEPT ![i] = TRUE]
  /\ UNCHANGED <<undo, semCall>>

(* A list that can proceed, in one critical section.  `added` are the      *)
(* semaphores whose first adjustment finds room in the table.              *)
SemPerform(p, i, ops, e) ==
  \E added \in SUBSET Fresh(p, i, ops) :
    /\ Cardinality(undo[p]) + Cardinality(added) <= UndoMax
    /\ added = Fresh(p, i, ops) \/ Cardinality(undo[p]) + Cardinality(added) = UndoMax
    /\ sem' = [sem EXCEPT ![i] = Applied(e, ops)]
    /\ undo' = [undo EXCEPT ![p] = Recorded(p, i, ops, added)]
    /\ \A u \in undo'[p] : u.adj \in -MaxAdjust .. MaxAdjust
    /\ exact' = [exact EXCEPT ![i] = /\ @ /\ added = Fresh(p, i, ops)
                                     /\ \A k \in DOMAIN ops : ops[k].op # 0 => ops[k].undo]

(* svc_semop, first pass of its loop: proceed, or become a waiter.  Any    *)
(* other verdict returns an error and changes nothing.                     *)
Semop(p, i) ==
  /\ sem[i].inuse
  /\ \E ops \in OpLists :
       \/ /\ Verdict(sem[i], ops) = "proceed"
          /\ SemPerform(p, i, ops, sem[i])
          /\ UNCHANGED semCall
       \/ /\ Verdict(sem[i], ops) = "wait"
          /\ sem' = [sem EXCEPT ![i] = Marked(@, ops)]
          /\ \A n \in Nums : sem'[i].ncnt[n] <= MaxMarks /\ sem'[i].zcnt[n] <= MaxMarks
          /\ semCall' = [semCall EXCEPT ![p] = [step |-> "wait", idx |-> i,
                                                seq |-> sem[i].seq, ops |-> ops]]
          /\ UNCHANGED <<undo, exact>>

(* Mutant: the retry looks the slot up without the sequence number.        *)
SemRetryAnySeq(p) ==
  LET w == semCall[p] IN
  /\ w.step = "wait"
  /\ sem[w.idx].inuse /\ Verdict(sem[w.idx], w.ops) = "proceed"
  /\ SemPerform(p, w.idx, w.ops, Unmarked(sem[w.idx], w.ops))
  /\ semCall' = [semCall EXCEPT ![p] = SemIdle]

(* svc_semop, a later pass: the set is gone, the list can proceed, or it   *)
(* has become an error, which leaves the waiter marks behind.              *)
SemRetry(p) ==
  LET w == semCall[p] IN
  /\ w.step = "wait"
  /\ \/ /\ ~SemById(w.idx, w.seq)
        /\ UNCHANGED <<sem, undo, exact>>
     \/ /\ SemById(w.idx, w.seq) /\ Verdict(sem[w.idx], w.ops) = "proceed"
        /\ SemPerform(p, w.idx, w.ops, Unmarked(sem[w.idx], w.ops))
     \/ /\ SemById(w.idx, w.seq) /\ Verdict(sem[w.idx], w.ops) \in {"range", "again"}
        /\ UNCHANGED <<sem, undo, exact>>
  /\ semCall' = [semCall EXCEPT ![p] = SemIdle]

(* Mutant: leaving the wait takes the marks off whatever set is there.     *)
SemGiveUpAnySeq(p) ==
  LET w == semCall[p] IN
  /\ w.step = "wait"
  /\ sem' = [sem EXCEPT ![w.idx] = Unmarked(@, w.ops)]
  /\ semCall' = [semCall EXCEPT ![p] = SemIdle]
  /\ UNCHANGED <<undo, exact>>

(* The deadline of semtimedop() has passed, or sysv_wait_interrupted():    *)
(* the marks go if the set is still the one waited for.                    *)
SemGiveUp(p) ==
  LET w == semCall[p] IN
  /\ w.step = "wait"
  /\ sem' = IF SemById(w.idx, w.seq)
            THEN [sem EXCEPT ![w.idx] = Unmarked(@, w.ops)] ELSE sem
  /\ semCall' = [semCall EXCEPT ![p] = SemIdle]
  /\ UNCHANGED <<undo, exact>>

(* sem_undo_clear: only the records of the calling process.                *)
Cleared(p, i, nums) == {u \in undo[p] : ~(u \in Adjusted(p, i) /\ u.num \in nums)}

(* svc_semctl(SETVAL), and SETALL when every semaphore is given.           *)
SemSetValues(p, i) ==
  /\ sem[i].inuse /\ HasAccess(p, sem[i])
  /\ \E v \in SetValues, nums \in {{n} : n \in Nums} \cup {Nums} :
       /\ sem' = [sem EXCEPT ![i].val = [n \in Nums |-> IF n \in nums THEN v ELSE @[n]]]
       /\ undo' = [undo EXCEPT ![p] = Cleared(p, i, nums)]
  /\ exact' = [exact EXCEPT ![i] = FALSE]
  /\ UNCHANGED semCall

(* svc_semctl(IPC_RMID): sem_free, at once; waiters learn on their retry,  *)
(* other processes keep adjustments that no longer match.                  *)
SemRmid(p, i) ==
  /\ sem[i].inuse /\ IsOwner(p, sem[i])
  /\ sem' = [sem EXCEPT ![i] = FreeSem(@.seq + 1)]
  /\ undo' = [undo EXCEPT ![p] = Cleared(p, i, Nums)]
  /\ UNCHANGED <<semCall, exact>>

(* svc_semctl(IPC_SET).                                                    *)
SemSet(p, i) ==
  /\ sem[i].inuse /\ IsOwner(p, sem[i])
  /\ \E uid \in Owners, shared \in Modes :
       sem' = [sem EXCEPT ![i] = WithPerm(@, uid, shared)]
  /\ UNCHANGED <<undo, semCall, exact>>

-----------------------------------------------------------------------------
(* The process hooks, for the composition in SysvIpc.                      *)

Adjustment(p, i, n) ==
  SumFunctionOnSet([u \in undo[p] |-> u.adj], {u \in Adjusted(p, i) : u.num = n})

Clamp(v) == IF v < 0 THEN 0 ELSE IF v > SemMax THEN SemMax ELSE v

(* sysv_on_exit takes back what the process recorded, for sets that still  *)
(* have the recorded sequence number.                                      *)
ApplyUndo(p) ==
  /\ sem' = [i \in SemSlots |-> IF ~sem[i].inuse THEN sem[i]
               ELSE [sem[i] EXCEPT !.val = [n \in Nums |->
                       IF \E u \in Adjusted(p, i) : u.num = n
                       THEN Clamp(@[n] - Adjustment(p, i, n)) ELSE @[n]]]]
  /\ exact' = [i \in SemSlots |-> exact[i] /\ \A n \in Nums :
                 sem[i].val[n] - Adjustment(p, i, n) \in 0 .. SemMax]
  /\ undo' = [undo EXCEPT ![p] = {}]

(* fork leaves the child without adjustments.                              *)
ForkUndo(p, c) == undo' = [undo EXCEPT ![c] = {}]

(* sysv_after_exec drops the adjustments, and a killed process takes them  *)
(* and its waiter marks with it: the values stay as they are.              *)
ForgetUndo(p) ==
  /\ undo' = [undo EXCEPT ![p] = {}]
  /\ exact' = [i \in SemSlots |-> exact[i] /\ \A u \in Adjusted(p, i) : u.adj = 0]

SemRequest(p) ==
  \E i \in SemSlots : Semget(p, i) \/ Semop(p, i) \/ SemSetValues(p, i) \/ SemRmid(p, i) \/ SemSet(p, i)

-----------------------------------------------------------------------------
SemTypeOK ==
  /\ sem \in [SemSlots -> [inuse : BOOLEAN, key : Keys \cup {Private}, seq : SemSeqs,
                        uid : Nat, cuid : Nat, shared : BOOLEAN,
                        val : [Nums -> 0 .. Width - 1],
                        ncnt : [Nums -> Nat], zcnt : [Nums -> Nat]]]
  /\ \A p \in Procs : /\ undo[p] \subseteq [idx : SemSlots, seq : SemSeqs, num : Nums, adj : Int]
                      /\ Cardinality(undo[p]) <= UndoMax
  /\ semCall \in [Procs -> [step : {"idle", "wait"}, idx : SemSlots \cup {0}, seq : SemSeqs,
                            ops : OpLists \cup {<<>>}]]
  /\ exact \in [SemSlots -> BOOLEAN]

(* The waiting operations GETNCNT and GETZCNT are asked about: an          *)
(* operation of a semop() that polls for the set now in the slot.          *)
WaitsIn(p, i) == semCall[p].step = "wait" /\ semCall[p].idx = i /\ SemById(i, semCall[p].seq)
FallingWaits(i, n) ==
  UNION {{p} \X {k \in On(semCall[p].ops, n) : semCall[p].ops[k].op < 0}
           : p \in {q \in Procs : WaitsIn(q, i)}}
ZeroWaits(i, n) ==
  UNION {{p} \X {k \in On(semCall[p].ops, n) : semCall[p].ops[k].op = 0}
           : p \in {q \in Procs : WaitsIn(q, i)}}

(* GETNCNT and GETZCNT never miss a waiter: whoever polls in svc_semop is  *)
(* counted in the set it waits for, across removal and reuse of the slot.  *)
WaitersAreCounted ==
  \A i \in SemSlots, n \in Nums :
    /\ sem[i].ncnt[n] >= Cardinality(FallingWaits(i, n))
    /\ sem[i].zcnt[n] >= Cardinality(ZeroWaits(i, n))

(* SEM_UNDO is exact across processes: while every operation on a set asks *)
(* for it and nothing was clamped, dropped or killed, each value is what   *)
(* the living processes will take back, whichever of them exit first.      *)
UndoBalances ==
  \A i \in SemSlots, n \in Nums :
    sem[i].inuse /\ exact[i]
      => sem[i].val[n] = SumFunction([p \in Procs |-> Adjustment(p, i, n)])

(* "Linux blocking semantics" (sysv_state.h:25): a semaphore stays within  *)
(* 0..SEMVMX.  Lists that name a semaphore twice break it, because         *)
(* sem_blocking_op compares each operation with the value before the list. *)
ValuesInRange == \A i \in SemSlots, n \in Nums : sem[i].val[n] <= SemMax

(* A waiter of a removed set is released (EIDRM), although removal neither *)
(* knows nor wakes it.                                                     *)
RemovalReleasesWaiters ==
  \A p \in Procs :
    (semCall[p].step = "wait" /\ ~SemById(semCall[p].idx, semCall[p].seq))
      ~> (semCall[p].step = "idle")
=============================================================================
