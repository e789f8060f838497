------------------------------ MODULE SysvShm ------------------------------
(***************************************************************************)
(* Shared memory of the SysV emulation: svc_shmget, svc_shmat, svc_shmdt   *)
(* and svc_shmctl of linux_abi/syscall/sysv.c over the entries of          *)
(* sysv_state.h.  shmat() drops the lock to open and map the segment's     *)
(* object by NAME, and the name depends on the slot only.                  *)
(***************************************************************************)
EXTENDS SysvTable

CONSTANTS
  ShmSlots,    \* 0 .. HL_IPC_SHMMNI - 1
  MaxAttach    \* HL_SHMAT_MAX, attachments one process can track

ASSUME ShmAssumption == ShmSlots \subseteq Nat /\ MaxAttach \in Nat

VARIABLES
  shm,       \* the segment entries of the control block
  shmMade,   \* history: objects created under each slot's name
  shmName,   \* the object each slot's name refers to, by its number
  shmat,     \* g_shmat of each process, with the object that is mapped
  shmCall,   \* a call, or a fork, that has dropped the lock midway
  shmLost    \* history: attachments of killed processes, by slot

shmVars == <<shm, shmMade, shmName, shmat, shmCall, shmLost>>

NoObject == 0
Positions == 1 .. MaxAttach
Seqs == 0 .. MaxSeq + 1
FreeShm(seq) == [inuse |-> FALSE, removed |-> FALSE, key |-> Private, seq |-> seq,
                 uid |-> 0, cuid |-> 0, shared |-> FALSE, nattch |-> 0,
                 object |-> NoObject]
Unused == [used |-> FALSE, idx |-> 0, seq |-> 0, wanted |-> NoObject, object |-> NoObject]
ShmIdle == [step |-> "idle", idx |-> 0, seq |-> 0, wanted |-> NoObject]

ShmInit ==
  /\ shm = [i \in ShmSlots |-> FreeShm(0)]
  /\ shmMade = [i \in ShmSlots |-> 0]
  /\ shmName = [i \in ShmSlots |-> NoObject]
  /\ shmat = [p \in Procs |-> [a \in Positions |-> Unused]]
  /\ shmCall = [p \in Procs |-> ShmIdle]
  /\ shmLost = [i \in ShmSlots |-> 0]

(* shm_by_id: the id names a slot and the sequence it was created with.    *)
ShmById(i, seq) == shm[i].inuse /\ ~shm[i].removed /\ shm[i].seq = seq

(* Mutant: the slot's sequence number is not advanced.                     *)
FreedKeepingSeq(seq) == FreeShm(seq)

(* shm_free: the name is unlinked, the entry cleared, the sequence bumped. *)
Freed(seq) == FreeShm(seq + 1)

(* svc_shmget: a new segment, whose object is created under the lock.      *)
(* Finding an existing one, and every refusal, changes nothing.            *)
Shmget(p, i) ==
  /\ FirstFree(shm, i)
  /\ \E key \in Keys, shared \in Modes :
       /\ MayCreate(shm, key)
       /\ shm' = [shm EXCEPT ![i] = [Created(FreeShm(@.seq), p, key, shared)
                                       EXCEPT !.object = shmMade[i] + 1]]
  /\ shmMade' = [shmMade EXCEPT ![i] = @ + 1]
  /\ shmName' = [shmName EXCEPT ![i] = shmMade[i] + 1]
  /\ UNCHANGED <<shmat, shmCall, shmLost>>

(* svc_shmat, first critical section: the id is looked up and the name of  *)
(* its slot taken, then the lock is dropped.                               *)
ShmatLookup(p, i) ==
  /\ ShmById(i, shm[i].seq) /\ HasAccess(p, shm[i])
  /\ shmCall' = [shmCall EXCEPT ![p] = [step |-> "open", idx |-> i, seq |-> shm[i].seq,
                                        wanted |-> shm[i].object]]
  /\ UNCHANGED <<shm, shmMade, shmName, shmat, shmLost>>

(* The first unused position of the process's attachment table.            *)
FirstUnused(p, a) == /\ ~shmat[p][a].used
                     /\ \A b \in Positions : b < a => shmat[p][b].used

(* Mutant: a mapping the table has no room for is kept and counted.        *)
ShmatMapUntracked(p) ==
  LET i == shmCall[p].idx IN
  /\ shmCall[p].step = "open" /\ shmName[i] # NoObject
  /\ shmCall' = [shmCall EXCEPT ![p].step = "count"]
  /\ shmat' = IF \E a \in Positions : FirstUnused(p, a)
              THEN [shmat EXCEPT ![p][CHOOSE a \in Positions : FirstUnused(p, a)] =
                      [used |-> TRUE, idx |-> i, seq |-> shmCall[p].seq,
                       wanted |-> shmCall[p].wanted, object |-> shmName[i]]]
              ELSE shmat
  /\ UNCHANGED <<shm, shmMade, shmName, shmLost>>

(* svc_shmat, unlocked: whatever object the name now refers to is opened,  *)
(* mapped and tracked.  The call may fail with nothing mapped: there is no *)
(* object, the address is not aligned, mmap() refuses, or the table has no *)
(* room.                                                                   *)
ShmatMap(p) ==
  LET i == shmCall[p].idx IN
  /\ shmCall[p].step = "open"
  /\ \/ /\ \E a \in Positions :
             /\ shmName[i] # NoObject /\ FirstUnused(p, a)
             /\ shmat' = [shmat EXCEPT ![p][a] = [used |-> TRUE, idx |-> i,
                                          seq |-> shmCall[p].seq, wanted |-> shmCall[p].wanted,
                                          object |-> shmName[i]]]
        /\ shmCall' = [shmCall EXCEPT ![p].step = "count"]
     \/ /\ shmCall' = [shmCall EXCEPT ![p] = ShmIdle]
        /\ UNCHANGED shmat
  /\ UNCHANGED <<shm, shmMade, shmName, shmLost>>

(* svc_shmat, second critical section: the attachment is counted if the id *)
(* still resolves; the mapping is returned either way.                     *)
ShmatCount(p) ==
  LET i == shmCall[p].idx IN
  /\ shmCall[p].step = "count"
  /\ shm' = IF ShmById(i, shmCall[p].seq) THEN [shm EXCEPT ![i].nattch = @ + 1] ELSE shm
  /\ shmCall' = [shmCall EXCEPT ![p] = ShmIdle]
  /\ UNCHANGED <<shmMade, shmName, shmat, shmLost>>

(* svc_shmdt, before the lock: the mapping goes and is forgotten.          *)
ShmdtUnmap(p, a) ==
  /\ shmat[p][a].used
  /\ shmat' = [shmat EXCEPT ![p][a] = Unused]
  /\ shmCall' = [shmCall EXCEPT ![p] = [step |-> "uncount", idx |-> shmat[p][a].idx,
                                        seq |-> shmat[p][a].seq,
                                        wanted |-> shmat[p][a].wanted]]
  /\ UNCHANGED <<shm, shmMade, shmName, shmLost>>

(* One attachment less in a slot: saturating, whatever segment lives there *)
(* now, and a removed segment goes with its last attachment.               *)
Dropped(e, n) ==
  LET left == IF e.nattch < n THEN 0 ELSE e.nattch - n IN
  IF ~e.inuse \/ n = 0 THEN e
  ELSE IF e.removed /\ left = 0 THEN Freed(e.seq) ELSE [e EXCEPT !.nattch = left]

(* The name of a slot goes when its entry is freed.                        *)
Unlinked(table) == [i \in ShmSlots |-> IF shm[i].inuse /\ ~table[i].inuse THEN NoObject
                                    ELSE shmName[i]]

(* svc_shmdt, under the lock.                                              *)
ShmdtCount(p) ==
  LET i == shmCall[p].idx
      table == [shm EXCEPT ![i] = Dropped(@, 1)] IN
  /\ shmCall[p].step = "uncount"
  /\ shm' = table
  /\ shmName' = Unlinked(table)
  /\ shmCall' = [shmCall EXCEPT ![p] = ShmIdle]
  /\ UNCHANGED <<shmMade, shmat, shmLost>>

(* svc_shmctl(IPC_RMID): the key is given up, and the segment with it once *)
(* nobody is counted as attached.                                          *)
ShmRmid(p, i) ==
  LET table == [shm EXCEPT ![i] = IF @.nattch = 0 THEN Freed(@.seq)
                                  ELSE [@ EXCEPT !.removed = TRUE, !.key = Private]] IN
  /\ ShmById(i, shm[i].seq) /\ IsOwner(p, shm[i])
  /\ shm' = table
  /\ shmName' = Unlinked(table)
  /\ UNCHANGED <<shmMade, shmat, shmCall, shmLost>>

(* svc_shmctl(IPC_SET): owner and permissions change, the creator stays.   *)
ShmSet(p, i) ==
  /\ ShmById(i, shm[i].seq) /\ IsOwner(p, shm[i])
  /\ \E uid \in Owners, shared \in Modes :
       shm' = [shm EXCEPT ![i] = WithPerm(@, uid, shared)]
  /\ UNCHANGED <<shmMade, shmName, shmat, shmCall, shmLost>>

-----------------------------------------------------------------------------
(* The process hooks, for the composition in SysvIpc.                      *)

AttachedTo(p, i) == {a \in Positions : shmat[p][a].used /\ shmat[p][a].idx = i}

(* sysv_after_exec and sysv_on_exit detach every segment of the process.   *)
DetachAll(p) ==
  LET table == [i \in ShmSlots |-> Dropped(shm[i], Cardinality(AttachedTo(p, i)))] IN
  /\ shm' = table
  /\ shmat' = [shmat EXCEPT ![p] = [a \in Positions |-> Unused]]

(* fork copies the attachment table; the child counts it once it runs.     *)
ForkAttachments(p, c) ==
  /\ shmat' = [shmat EXCEPT ![c] = shmat[p]]
  /\ shmCall' = [shmCall EXCEPT ![c] = [ShmIdle EXCEPT !.step = "fork"]]
  /\ UNCHANGED <<shm, shmMade, shmName, shmLost>>

(* sysv_after_fork in the child: every inherited attachment bumps whatever *)
(* segment is in its slot by now.                                          *)
AfterFork(c) ==
  /\ shmCall[c].step = "fork"
  /\ shm' = [i \in ShmSlots |-> IF shm[i].inuse
                             THEN [shm[i] EXCEPT !.nattch = @ + Cardinality(AttachedTo(c, i))]
                             ELSE shm[i]]
  /\ shmCall' = [shmCall EXCEPT ![c] = ShmIdle]
  /\ UNCHANGED <<shmMade, shmName, shmat, shmLost>>

(* A killed process runs no hook: its mappings vanish, its counts stay.    *)
KilledAttachments(p) ==
  /\ shmLost' = [i \in ShmSlots |-> shmLost[i] + Cardinality(AttachedTo(p, i))
                   + (IF shmCall[p].step = "uncount" /\ shmCall[p].idx = i THEN 1 ELSE 0)]
  /\ shmat' = [shmat EXCEPT ![p] = [a \in Positions |-> Unused]]
  /\ shmCall' = [shmCall EXCEPT ![p] = ShmIdle]
  /\ UNCHANGED <<shm, shmMade, shmName>>

ShmStep(p) ==
  \/ ShmatMap(p)
  \/ ShmatCount(p)
  \/ ShmdtCount(p)
  \/ AfterFork(p)

ShmRequest(p) ==
  \/ \E i \in ShmSlots : Shmget(p, i) \/ ShmatLookup(p, i) \/ ShmRmid(p, i) \/ ShmSet(p, i)
  \/ \E a \in Positions : ShmdtUnmap(p, a)

-----------------------------------------------------------------------------
ShmTypeOK ==
  /\ shm \in [ShmSlots -> [inuse : BOOLEAN, removed : BOOLEAN, key : Keys \cup {Private},
                        seq : Seqs, uid : Nat, cuid : Nat, shared : BOOLEAN,
                        nattch : Nat, object : Nat]]
  /\ shmMade \in [ShmSlots -> Nat] /\ shmName \in [ShmSlots -> Nat]
  /\ shmat \in [Procs -> [Positions -> [used : BOOLEAN, idx : ShmSlots \cup {0}, seq : Seqs,
                                        wanted : Nat, object : Nat]]]
  /\ shmCall \in [Procs -> [step : {"idle", "open", "count", "uncount", "fork"},
                            idx : ShmSlots \cup {0}, seq : Seqs, wanted : Nat]]
  /\ shmLost \in [ShmSlots -> Nat]

(* Everything that may still be counted in a slot: tracked attachments,    *)
(* detaches that have not reached the lock, and killed processes.          *)
Holders(i) ==
  Cardinality({h \in Procs \X Positions : shmat[h[1]][h[2]].used /\ shmat[h[1]][h[2]].idx = i})
  + Cardinality({p \in Procs : shmCall[p].step = "uncount" /\ shmCall[p].idx = i})
  + shmLost[i]

(* svc_shmdt, sysv_after_fork, exec and exit never leave a segment counted *)
(* by nobody, so a removed one is reclaimed with its last holder although  *)
(* attaching, counting and removing are separate critical sections.        *)
RemovedIsReclaimed ==
  \A i \in ShmSlots :
    /\ shm[i].nattch <= Holders(i)
    /\ (shm[i].inuse /\ shm[i].removed) => shm[i].nattch > 0

(* As long as the id svc_shmat was called with still names its slot, the   *)
(* mapping it made is of that segment: names are reused with slots, ids    *)
(* are not.                                                                *)
LiveIdMapsItsSegment ==
  \A p \in Procs, a \in Positions :
    LET m == shmat[p][a] IN
    m.used /\ shm[m.idx].inuse /\ shm[m.idx].seq = m.seq => m.object = shm[m.idx].object

(* "two guest processes that attach the same id map the SAME physical      *)
(* pages" (sysv_state.h:19): every mapping is of the segment svc_shmat was *)
(* asked for.  Violated: the name is opened after the lock was dropped.    *)
AttachesWhatItNamed ==
  \A p \in Procs, a \in Positions : shmat[p][a].used => shmat[p][a].object = shmat[p][a].wanted
=============================================================================
