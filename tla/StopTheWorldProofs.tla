------------------------- MODULE StopTheWorldProofs -------------------------
(***************************************************************************)
(* Safety of the stop-the-world protocol for every number of threads,      *)
(* operations and retained generations.  The invariant follows the         *)
(* argument of the code: an epoch has one owner (LockInv); who runs is     *)
(* registered as running (SlotInv); a selection made before the request    *)
(* was advanced is refused by the recheck, one made after it waits for the *)
(* gate, so nobody enters once the gate is up, and a round that passed     *)
(* every slot found everybody outside (FenceInv); so the cache changes     *)
(* only while no thread could notice (LiveInv).                            *)
(***************************************************************************)
EXTENDS StopTheWorld, TLAPS

(* Where the calls of the safepoint return to.                             *)
ReturnPoints == {"top", "poll", "lock", "enter", "reason", "delist"}

(* The type invariant, with unbounded counters.                            *)
TypeOK ==
  /\ jit \in Threads \union {NoThread}
  /\ quiesce \in Threads \union {NoThread}
  /\ reg \in Threads \union {NoThread}
  /\ gate \in BOOLEAN /\ request \in Nat
  /\ used \in [Threads -> BOOLEAN] /\ ack \in [Threads -> Nat]
  /\ translated \in [Threads -> BOOLEAN] /\ departing \in [Threads -> BOOLEAN]
  /\ execGen \in [Threads -> Nat]
  /\ irq \in [Threads -> BOOLEAN] /\ inService \in [Threads -> BOOLEAN]
  /\ sig \in [Threads -> BOOLEAN]
  /\ parked \in [Threads -> {"no", "gate", "ack"}]
  /\ pc \in [Threads -> Points] /\ ret \in [Threads -> ReturnPoints]
  /\ op \in [Threads -> Operations] /\ passed \in [Threads -> SUBSET Threads]
  /\ sel \in [Threads -> [gen : Nat, code : Nat, epoch : Nat]]
  /\ gen \in Nat /\ retired \subseteq Nat /\ map \subseteq Nat /\ code \in Nat
  /\ fatal \in BOOLEAN /\ left \in Nat

(* Points at which a thread has begun a quiescing operation.               *)
OwnPoints == GatePoints \union {"quiesce", "bump", "raise", "unlock"}

(* Points at which a thread may hold a lock.                               *)
LockPoints == JitPoints \union OwnPoints

(* A quiescer knows its operation, and only a capture waits at the         *)
(* barrier.                                                                *)
OpShape ==
  \A t \in Threads :
    /\ pc[t] \in OwnPoints => op[t] # "none"
    /\ pc[t] \in {"kick", "await", "refuse"} => op[t] = "capture"

LockInv == EpochIsOwned /\ OpShape

(* From the mark until the entry is given back.                            *)
Leaving(t) ==
  pc[t] \in {"delist", "leave"} \/ (pc[t] \in {"sp", "ack"} /\ ret[t] = "delist")

(* The registry entry of a thread agrees with the point it has reached; no *)
(* thread is ahead of the epoch.                                           *)
SlotInv ==
  \A t \in Threads :
    /\ used[t] <=> pc[t] \notin {"none", "born", "gone"}
    /\ departing[t] => Leaving(t)
    /\ pc[t] \in {"recheck", "run"} => translated[t] /\ parked[t] = "no"
    /\ pc[t] \notin {"wait", "await"} => passed[t] = {}
    /\ ack[t] <= request
    /\ sel[t].epoch <= request

(* The thread has advanced the request and has held the writer lock ever   *)
(* since, so that nobody selected a translation meanwhile.                 *)
InCharge(t) ==
  \/ pc[t] \in {"raise", "registry"}
  \/ pc[t] \in {"wait", "window", "release", "unlock"} /\ op[t] # "capture"

(* Every selection is older than the epoch of the thread in charge.        *)
Fenced == \A t \in Threads : InCharge(t) => \A u \in Threads : sel[u].epoch < request

(* A thread that is still in translated code has not answered the epoch.   *)
Behind ==
  \A t, u \in Threads :
    pc[t] \in GatePoints \union {"raise"} /\ pc[u] = "run" => ack[u] < request

(* A slot that the round has passed is out of translated code, and so is   *)
(* every slot once the wait is over.                                       *)
Passed ==
  \A t, u \in Threads :
    /\ pc[t] \in {"wait", "await"} /\ u \in passed[t] => pc[u] # "run"
    /\ pc[t] \in {"window", "release"} => pc[u] # "run"

FenceInv == Fenced /\ Behind /\ Passed

(* A translation is selected and not entered yet.                          *)
Selected(t) ==
  \/ pc[t] \in {"enter", "publish", "recheck"}
  \/ pc[t] \in {"sp", "ack"} /\ ret[t] = "enter"

(* The thread runs its selection, or would be let in by the recheck.       *)
Current(t) == pc[t] = "run" \/ (Selected(t) /\ sel[t].epoch = request)

(* The map leads only into arenas that exist, and what runs or may still   *)
(* be entered is a translation of the code now in force.                   *)
LiveInv ==
  /\ map \subseteq retired \union {gen}
  /\ \A t \in Threads :
       Current(t) => sel[t].gen \in retired \union {gen} /\ sel[t].code = code

-----------------------------------------------------------------------------
(* The initial state is well typed.                                        *)
LEMMA TypeInit == Init => TypeOK
<1> SUFFICES ASSUME Init PROVE TypeOK
  OBVIOUS
<1>1. /\ pc \in [Threads -> Points] /\ ret \in [Threads -> ReturnPoints]
      /\ op \in [Threads -> Operations] /\ parked \in [Threads -> {"no", "gate", "ack"}]
  BY DEF Init, Points, ReturnPoints, Operations
<1>2. /\ used \in [Threads -> BOOLEAN] /\ translated \in [Threads -> BOOLEAN]
      /\ departing \in [Threads -> BOOLEAN] /\ inService \in [Threads -> BOOLEAN]
      /\ irq \in [Threads -> BOOLEAN] /\ sig \in [Threads -> BOOLEAN]
  BY DEF Init, Nowhere
<1>3. /\ ack \in [Threads -> Nat] /\ execGen \in [Threads -> Nat]
      /\ passed \in [Threads -> SUBSET Threads]
      /\ sel \in [Threads -> [gen : Nat, code : Nat, epoch : Nat]]
  BY DEF Init, NoSelection
<1> QED BY <1>1, <1>2, <1>3, StopAssumption DEF Init, TypeOK

(* A move to a known point keeps the control state well typed.             *)
LEMMA GotoType ==
  ASSUME TypeOK, NEW t \in Threads, NEW p \in Points, Goto(t, p)
  PROVE  pc' \in [Threads -> Points] /\ ret' \in [Threads -> ReturnPoints]
BY DEF TypeOK, Goto, ReturnPoints

(* So does a call of the safepoint that returns to a known point.          *)
LEMMA SafepointType ==
  ASSUME TypeOK, NEW t \in Threads, NEW p \in ReturnPoints, Safepoint(t, p)
  PROVE  pc' \in [Threads -> Points] /\ ret' \in [Threads -> ReturnPoints]
BY DEF TypeOK, Safepoint, Points

(* A rotation keeps the types of the arenas and of the map.                *)
LEMMA FlushType ==
  ASSUME TypeOK, NEW keep, FlushToFresh(keep)
  PROVE  gen' \in Nat /\ retired' \subseteq Nat /\ map' \subseteq Nat /\ fatal' \in BOOLEAN
<1> DEFINE kept == IF keep THEN Evicted ELSE map
<1>1. kept \subseteq Nat /\ Reclaimed(kept) \subseteq Nat
  BY DEF Evicted, Reclaimed, TypeOK
<1> HIDE DEF kept
<1>2. CASE retired' = Reclaimed(kept) \union {gen} /\ gen' = gen + 1 /\ UNCHANGED fatal
  <2>1. map' \subseteq Nat
    BY <1>1 DEF FlushToFresh, kept
  <2> QED BY <1>1, <1>2, <2>1 DEF TypeOK
<1>3. CASE retired' = Reclaimed(kept) /\ map' = kept /\ fatal' = TRUE /\ UNCHANGED gen
  BY <1>1, <1>3 DEF TypeOK
<1> QED BY <1>2, <1>3 DEF FlushToFresh, kept

(* Every step of every thread keeps the types.                             *)
LEMMA TypeStep == TypeOK /\ [Next]_vars => TypeOK'
<1> SUFFICES ASSUME TypeOK, NEW t \in Threads, Quiesce(t) \/ Dispatch(t) \/ Environment(t)
             PROVE  TypeOK'
  BY DEF Next, vars, locks, barrier, cache, slot, cpu, TypeOK
<1>1. CASE QuiesceLock(t)
  <2>1. pc' \in [Threads -> Points] /\ ret' \in [Threads -> ReturnPoints]
    BY <1>1, GotoType, SafepointType DEF QuiesceLock, Points, ReturnPoints
  <2>2. jit' \in Threads \union {NoThread} /\ quiesce' \in Threads \union {NoThread}
    BY <1>1, StopAssumption DEF QuiesceLock, TypeOK
  <2> QED BY <2>1, <2>2, <1>1 DEF QuiesceLock, TypeOK, locks, barrier, cache, slot, cpu
<1>2. CASE Bump(t)
  BY <1>2, StopAssumption
     DEF Bump, At, Goto, TypeOK, ReturnPoints, Points, Operations, locks,
         barrier, cache, slot, cpu
<1>3. CASE Raise(t)
  BY <1>3, StopAssumption
     DEF Raise, At, Goto, TypeOK, ReturnPoints, Points, Operations, locks,
         barrier, cache, slot, cpu
<1>4. CASE Arm(t)
  BY <1>4, StopAssumption
     DEF Arm, At, Goto, Peers, TypeOK, ReturnPoints, Points, Operations,
         locks, barrier, cache, slot, cpu
<1>5. CASE Kick(t)
  BY <1>5, StopAssumption
     DEF Kick, At, Goto, TypeOK, ReturnPoints, Points, Operations, locks,
         barrier, cache, slot, cpu
<1>6. CASE \E u \in Threads : WaitSlot(t, u)
  <2> PICK u \in Threads : WaitSlot(t, u)
    BY <1>6
  <2>1. CASE irq' = [irq EXCEPT ![u] = TRUE] /\ passed' = [passed EXCEPT ![t] = {}]
    BY <2>1 DEF WaitSlot, TypeOK, locks, barrier, cache, slot, cpu
  <2>2. CASE passed' = [passed EXCEPT ![t] = @ \union {u}] /\ UNCHANGED irq
    BY <2>2 DEF WaitSlot, TypeOK, locks, barrier, cache, slot, cpu
  <2> QED BY <2>1, <2>2 DEF WaitSlot
<1>7. CASE \E u \in Threads : AwaitSlot(t, u)
  BY <1>7, StopAssumption
     DEF AwaitSlot, At, TypeOK, ReturnPoints, Points, Operations, locks,
         barrier, cache, slot, cpu
<1>8. CASE WaitDone(t)
  BY <1>8, StopAssumption
     DEF WaitDone, At, Goto, TypeOK, ReturnPoints, Points, Operations, locks,
         barrier, cache, slot, cpu
<1>9. CASE Act(t)
  <2>1. pc' \in [Threads -> Points] /\ ret' \in [Threads -> ReturnPoints]
    BY <1>9, GotoType DEF Act, Points
  <2>2. gen' \in Nat /\ retired' \subseteq Nat /\ map' \subseteq Nat /\ fatal' \in BOOLEAN
    <3>1. CASE FlushToFresh(Retain) \/ FlushToFresh(FALSE)
      BY <3>1, FlushType
    <3>2. CASE Invalidate \/ UNCHANGED cache
      BY <3>2 DEF Invalidate, cache, TypeOK
    <3> QED BY <1>9, <3>1, <3>2 DEF Act
  <2>3. code' \in Nat
    <3>1. CASE UNCHANGED code \/ code' = code + 1
      BY <3>1 DEF TypeOK
    <3> QED BY <1>9, <3>1 DEF Act, Invalidate, cache
  <2> QED BY <2>1, <2>2, <2>3, <1>9 DEF Act, TypeOK, locks, barrier, cache, slot, cpu
<1>10. CASE Release(t)
  BY <1>10, StopAssumption
     DEF Release, At, Goto, TypeOK, ReturnPoints, Points, Operations, locks,
         barrier, cache, slot, cpu
<1>11. CASE Unlock(t)
  <2>1. pc' \in [Threads -> Points] /\ ret' \in [Threads -> ReturnPoints]
    BY <1>11, GotoType, SafepointType DEF Unlock, Points, ReturnPoints
  <2>2. jit' \in Threads \union {NoThread} /\ op' \in [Threads -> Operations]
    BY <1>11, StopAssumption DEF Unlock, Operations, TypeOK
  <2> QED BY <2>1, <2>2, <1>11 DEF Unlock, TypeOK, locks, barrier, cache, slot, cpu
<1>12. CASE SafepointGate(t)
  <2>1. ret[t] \in ReturnPoints /\ ret[t] \in Points
    BY DEF TypeOK, ReturnPoints, Points
  <2>2. pc' \in [Threads -> Points] /\ ret' \in [Threads -> ReturnPoints]
    <3>1. CASE gate
      BY <1>12, <3>1 DEF SafepointGate, TypeOK, Points
    <3>2. CASE ~gate
      BY <1>12, <3>2, <2>1, GotoType DEF SafepointGate
    <3> QED BY <3>1, <3>2
  <2> QED BY <2>2, <1>12 DEF SafepointGate, TypeOK, locks, barrier, cache, slot, cpu
<1>13. CASE SafepointAck(t)
  BY <1>13, StopAssumption
     DEF SafepointAck, At, TypeOK, ReturnPoints, Points, Operations, locks,
         barrier, cache, slot, cpu
<1>14. CASE Deliver(t)
  BY <1>14, StopAssumption
     DEF Deliver, TypeOK, ReturnPoints, Points, Operations, locks, barrier,
         cache, slot, cpu
<1>15. CASE HandlerGate(t)
  BY <1>15, StopAssumption
     DEF HandlerGate, TypeOK, ReturnPoints, Points, Operations, locks,
         barrier, cache, slot, cpu
<1>16. CASE HandlerAck(t)
  BY <1>16, StopAssumption
     DEF HandlerAck, TypeOK, ReturnPoints, Points, Operations, locks, barrier,
         cache, slot, cpu
<1>17. CASE Register(t)
  BY <1>17, StopAssumption
     DEF Register, At, Goto, TypeOK, ReturnPoints, Points, Operations, locks,
         barrier, cache, slot, cpu
<1>18. CASE Enlist(t)
  BY <1>18, StopAssumption
     DEF Enlist, At, Goto, TypeOK, ReturnPoints, Points, Operations, locks,
         barrier, cache, slot, cpu
<1>19. CASE Depart(t)
  BY <1>19, StopAssumption
     DEF Depart, At, Safepoint, TypeOK, ReturnPoints, Points, Operations,
         locks, barrier, cache, slot, cpu
<1>20. CASE Delist(t)
  BY <1>20, StopAssumption
     DEF Delist, At, Goto, TypeOK, ReturnPoints, Points, Operations, locks,
         barrier, cache, slot, cpu
<1>21. CASE Unregister(t)
  BY <1>21, StopAssumption
     DEF Unregister, At, Goto, TypeOK, ReturnPoints, Points, Operations,
         locks, barrier, cache, slot, cpu
<1>22. CASE Top(t)
  <2>1. pc' \in [Threads -> Points] /\ ret' \in [Threads -> ReturnPoints]
    BY <1>22, GotoType, SafepointType DEF Top, Points, ReturnPoints
  <2>2. irq' \in [Threads -> BOOLEAN]
    BY <1>22, StopAssumption DEF Top, TypeOK
  <2> QED BY <2>1, <2>2, <1>22 DEF Top, TypeOK, locks, barrier, cache, slot, cpu
<1>23. CASE Poll(t)
  BY <1>23, StopAssumption
     DEF Poll, At, Goto, TypeOK, ReturnPoints, Points, Operations, locks,
         barrier, cache, slot, cpu
<1>24. CASE JitDispatchLock(t)
  <2>1. pc' \in [Threads -> Points] /\ ret' \in [Threads -> ReturnPoints]
    BY <1>24, GotoType, SafepointType DEF JitDispatchLock, Points, ReturnPoints
  <2>2. jit' \in Threads \union {NoThread}
    BY <1>24, StopAssumption DEF JitDispatchLock, TypeOK
  <2> QED BY <2>1, <2>2, <1>24 DEF JitDispatchLock, TypeOK, locks, barrier, cache, slot, cpu
<1>25. CASE Hit(t)
  BY <1>25, StopAssumption
     DEF Hit, At, Select, Safepoint, TypeOK, ReturnPoints, Points, Operations,
         locks, barrier, cache, slot, cpu
<1>26. CASE Translate(t)
  BY <1>26, StopAssumption
     DEF Translate, At, Select, Safepoint, TypeOK, ReturnPoints, Points,
         Operations, locks, barrier, cache, slot, cpu
<1>27. CASE Rotate(t)
  <2>1. pc' \in [Threads -> Points] /\ ret' \in [Threads -> ReturnPoints]
    BY <1>27, GotoType DEF Rotate, Points
  <2>2. op' \in [Threads -> Operations]
    BY <1>27 DEF Rotate, Operations, TypeOK
  <2>3. /\ gen' \in Nat /\ retired' \subseteq Nat /\ map' \subseteq Nat
        /\ code' \in Nat /\ fatal' \in BOOLEAN
    <3>1. CASE UNCHANGED cache
      BY <3>1 DEF cache, TypeOK
    <3>2. CASE RewindInPlace
      BY <3>2 DEF RewindInPlace, TypeOK
    <3> QED BY <1>27, <3>1, <3>2 DEF Rotate
  <2> QED BY <2>1, <2>2, <2>3, <1>27 DEF Rotate, TypeOK, locks, barrier, cache, slot, cpu
<1>28. CASE Enter(t)
  <2>1. pc' \in [Threads -> Points] /\ ret' \in [Threads -> ReturnPoints]
    BY <1>28, GotoType, SafepointType DEF Enter, Points, ReturnPoints, Retry
  <2>2. sel' \in [Threads -> [gen : Nat, code : Nat, epoch : Nat]]
    BY <1>28, StopAssumption DEF Enter, Retry, NoSelection, TypeOK
  <2> QED BY <2>1, <2>2, <1>28 DEF Enter, TypeOK, locks, barrier, cache, slot, cpu
<1>29. CASE Publish(t)
  BY <1>29, StopAssumption
     DEF Publish, At, Goto, TypeOK, ReturnPoints, Points, Operations, locks,
         barrier, cache, slot, cpu
<1>30. CASE Recheck(t)
  <2>1. pc' \in [Threads -> Points] /\ ret' \in [Threads -> ReturnPoints]
    BY <1>30, GotoType, SafepointType DEF Recheck, Retry, Points, ReturnPoints
  <2>2. translated' \in [Threads -> BOOLEAN]
    BY <1>30 DEF Recheck, TypeOK
  <2>3. sel' \in [Threads -> [gen : Nat, code : Nat, epoch : Nat]]
    BY <1>30 DEF Recheck, Retry, NoSelection, TypeOK
  <2> QED BY <2>1, <2>2, <2>3, <1>30 DEF Recheck, TypeOK, locks, barrier, cache, slot, cpu
<1>31. CASE Branch(t)
  BY <1>31, StopAssumption
     DEF Branch, At, Goto, TypeOK, ReturnPoints, Points, Operations, locks,
         barrier, cache, slot, cpu
<1>32. CASE Service(t)
  BY <1>32, StopAssumption
     DEF Service, At, Goto, TypeOK, ReturnPoints, Points, Operations, locks,
         barrier, cache, slot, cpu
<1>33. CASE NeedsRotation(t)
  BY <1>33, StopAssumption
     DEF NeedsRotation, At, Goto, TypeOK, ReturnPoints, Points, Operations,
         locks, barrier, cache, slot, cpu
<1>34. CASE Chain(t)
  BY <1>34, StopAssumption
     DEF Chain, At, TypeOK, ReturnPoints, Points, Operations, locks, barrier,
         cache, slot, cpu
<1>35. CASE Return(t)
  BY <1>35, StopAssumption
     DEF Return, At, Safepoint, NoSelection, TypeOK, ReturnPoints, Points,
         Operations, locks, barrier, cache, slot, cpu
<1>36. CASE EndService(t)
  <2>1. pc' \in [Threads -> Points] /\ ret' \in [Threads -> ReturnPoints]
    BY <1>36, GotoType, SafepointType DEF EndService, Points, ReturnPoints
  <2>2. inService' \in [Threads -> BOOLEAN]
    BY <1>36, StopAssumption DEF EndService, TypeOK
  <2> QED BY <2>1, <2>2, <1>36 DEF EndService, TypeOK, locks, barrier, cache, slot, cpu
<1>37. CASE Begin(t)
  <2>1. pc' \in [Threads -> Points] /\ ret' \in [Threads -> ReturnPoints]
    BY <1>37, GotoType, SafepointType DEF Begin, Points, ReturnPoints
  <2>2. op' \in [Threads -> Operations] /\ left' \in Nat
    BY <1>37, StopAssumption DEF Begin, Operations, TypeOK
  <2> QED BY <2>1, <2>2, <1>37 DEF Begin, TypeOK, locks, barrier, cache, slot, cpu
<1>38. CASE GiveUp(t)
  BY <1>38, StopAssumption
     DEF GiveUp, At, Goto, TypeOK, ReturnPoints, Points, Operations, locks,
         barrier, cache, slot, cpu
<1>39. CASE \E u \in Threads : Spawn(t, u)
  BY <1>39, StopAssumption
     DEF Spawn, At, TypeOK, ReturnPoints, Points, Operations, locks, barrier,
         cache, slot, cpu
<1> QED BY <1>1, <1>2, <1>3, <1>4, <1>5, <1>6, <1>7, <1>8, <1>9, <1>10, <1>11,
         <1>12, <1>13, <1>14, <1>15, <1>16, <1>17, <1>18, <1>19, <1>20, <1>21,
         <1>22, <1>23, <1>24, <1>25, <1>26, <1>27, <1>28, <1>29, <1>30, <1>31,
         <1>32, <1>33, <1>34, <1>35, <1>36, <1>37, <1>38, <1>39
       DEF Quiesce, Dispatch, Environment

(* Nobody owns anything initially.                                         *)
LEMMA LockInit == Init => LockInv
<1> SUFFICES ASSUME Init PROVE LockInv
  OBVIOUS
<1>1. \A t \in Threads : pc[t] \in {"service", "none"} /\ jit # t /\ quiesce # t /\ reg # t
  BY StopAssumption DEF Init
<1> QED BY <1>1 DEF Init, LockInv, EpochIsOwned, OpShape, GatePoints, JitPoints, OwnPoints

(* What a move changes: the point of one thread.                           *)
LEMMA GotoMoves ==
  ASSUME TypeOK, NEW t \in Threads, NEW p, Goto(t, p)
  PROVE  /\ pc'[t] = p /\ ret'[t] = "top"
         /\ \A u \in Threads : u # t => pc'[u] = pc[u] /\ ret'[u] = ret[u]
BY DEF TypeOK, Goto

(* What a call of the safepoint changes.                                   *)
LEMMA SafepointMoves ==
  ASSUME TypeOK, NEW t \in Threads, NEW p, Safepoint(t, p)
  PROVE  /\ pc'[t] = "sp" /\ ret'[t] = p
         /\ \A u \in Threads : u # t => pc'[u] = pc[u] /\ ret'[u] = ret[u]
BY DEF TypeOK, Safepoint

(* A thread that holds nothing before and after its step, and takes or     *)
(* gives nothing in it, cannot disturb the owners.                         *)
LEMMA LockFree ==
  ASSUME LockInv, NEW t \in Threads, UNCHANGED <<locks, gate, op>>,
         pc[t] \notin LockPoints, pc'[t] \notin LockPoints,
         \A u \in Threads : u # t => pc'[u] = pc[u]
  PROVE  LockInv'
BY DEF LockInv, EpochIsOwned, OpShape, LockPoints, JitPoints, GatePoints, OwnPoints, locks

(* Every step of every thread keeps the owners of locks and gate.          *)
LEMMA LockStep == TypeOK /\ LockInv /\ [Next]_vars => LockInv'
<1> SUFFICES ASSUME TypeOK, LockInv,
                    NEW t \in Threads, Quiesce(t) \/ Dispatch(t) \/ Environment(t)
             PROVE  LockInv'
  BY DEF Next, vars, locks, barrier, cache, slot, cpu, LockInv, EpochIsOwned, OpShape
<1>1. CASE QuiesceLock(t)
  <2>1. CASE quiesce = NoThread
    <3>1. Goto(t, "bump") /\ quiesce' = t /\ jit' = jit
      BY <1>1, <2>1 DEF QuiesceLock
    <3>2. pc'[t] = "bump" /\ \A u \in Threads : u # t => pc'[u] = pc[u]
      BY <3>1, GotoMoves
    <3> QED BY <1>1, <2>1, <3>1, <3>2, StopAssumption
            DEF QuiesceLock, At, barrier, LockInv, EpochIsOwned, OpShape, GatePoints,
               JitPoints, OwnPoints
  <2>2. CASE quiesce # NoThread
    <3>1. Safepoint(t, "lock") /\ jit' = NoThread /\ quiesce' = quiesce
      BY <1>1, <2>2 DEF QuiesceLock
    <3>2. pc'[t] = "sp" /\ \A u \in Threads : u # t => pc'[u] = pc[u]
      BY <3>1, SafepointMoves
    <3> QED BY <1>1, <3>1, <3>2, StopAssumption
            DEF QuiesceLock, At, barrier, LockInv, EpochIsOwned, OpShape, GatePoints,
               JitPoints, OwnPoints
  <2> QED BY <2>1, <2>2
<1>2. CASE Bump(t)
  BY <1>2, StopAssumption
     DEF Bump, At, Goto, TypeOK, LockInv, EpochIsOwned, OpShape, GatePoints,
         JitPoints, OwnPoints, locks, barrier
<1>3. CASE Raise(t)
  BY <1>3, StopAssumption
     DEF Raise, At, Goto, TypeOK, LockInv, EpochIsOwned, OpShape, GatePoints,
         JitPoints, OwnPoints, locks, barrier
<1>4. CASE Arm(t)
  BY <1>4, StopAssumption
     DEF Arm, At, Goto, TypeOK, LockInv, EpochIsOwned, OpShape, GatePoints,
         JitPoints, OwnPoints, locks, barrier
<1>5. CASE Kick(t)
  BY <1>5, StopAssumption
     DEF Kick, At, Goto, TypeOK, LockInv, EpochIsOwned, OpShape, GatePoints,
         JitPoints, OwnPoints, locks, barrier
<1>6. CASE \E u \in Threads : WaitSlot(t, u)
  BY <1>6, StopAssumption
     DEF WaitSlot, At, TypeOK, LockInv, EpochIsOwned, OpShape, GatePoints,
         JitPoints, OwnPoints, locks, barrier
<1>7. CASE \E u \in Threads : AwaitSlot(t, u)
  BY <1>7, StopAssumption
     DEF AwaitSlot, At, TypeOK, LockInv, EpochIsOwned, OpShape, GatePoints,
         JitPoints, OwnPoints, locks, barrier
<1>8. CASE WaitDone(t)
  BY <1>8, StopAssumption
     DEF WaitDone, At, Goto, TypeOK, LockInv, EpochIsOwned, OpShape,
         GatePoints, JitPoints, OwnPoints, locks, barrier
<1>9. CASE Act(t)
  BY <1>9, StopAssumption
     DEF Act, At, Goto, FlushToFresh, Invalidate, TypeOK, LockInv,
         EpochIsOwned, OpShape, GatePoints, JitPoints, OwnPoints, locks, barrier
<1>10. CASE Release(t)
  BY <1>10, StopAssumption
     DEF Release, At, Goto, TypeOK, LockInv, EpochIsOwned, OpShape,
         GatePoints, JitPoints, OwnPoints, locks, barrier
<1>11. CASE Unlock(t)
  <2>1. pc'[t] \in {"depart", "translate", "lock", "service", "top"}
        /\ (pc'[t] = "translate" <=> op[t] = "flush" /\ ~fatal)
        /\ \A u \in Threads : u # t => pc'[u] = pc[u]
    BY <1>11, GotoMoves DEF Unlock
  <2>2. op[t] \in {"flush", "activate", "map", "capture"}
    BY <1>11 DEF Unlock, At, LockInv, OpShape, OwnPoints, TypeOK, Operations
  <2>3. jit' = (IF op[t] = "capture" \/ pc'[t] = "translate" THEN jit ELSE NoThread)
    BY <1>11, <2>1, <2>2 DEF Unlock
  <2>4. /\ quiesce = t /\ reg = t /\ gate' = gate
        /\ quiesce' = NoThread /\ reg' = NoThread
        /\ op'[t] = "none" /\ \A u \in Threads : u # t => op'[u] = op[u]
    BY <1>11 DEF Unlock, At, barrier, TypeOK, LockInv, EpochIsOwned
  <2>5. OpShape'
    BY <2>1, <2>4 DEF LockInv, OpShape, OwnPoints, GatePoints
  <2>6. \A u \in Threads : (jit' = u) <=> (u = t /\ pc'[t] = "translate") \/ (u # t /\ jit = u)
    BY <1>11, <2>1, <2>2, <2>3, StopAssumption
       DEF Unlock, At, TypeOK, LockInv, EpochIsOwned, OpShape, GatePoints, JitPoints,
          OwnPoints
  <2>7. EpochIsOwned'
    BY <1>11, <2>1, <2>4, <2>6, StopAssumption
       DEF Unlock, At, LockInv, EpochIsOwned, GatePoints, JitPoints
  <2> QED BY <2>5, <2>7 DEF LockInv
<1>12. CASE SafepointGate(t)
  <2>1. ret[t] \in ReturnPoints
    BY DEF TypeOK
  <2>2. CASE gate
    BY <1>12, <2>2, LockFree
       DEF SafepointGate, At, TypeOK, barrier, LockPoints, GatePoints, JitPoints, OwnPoints
  <2>3. CASE ~gate
    <3>1. /\ pc[t] \notin LockPoints /\ pc'[t] \notin LockPoints
          /\ \A u \in Threads : u # t => pc'[u] = pc[u]
      BY <1>12, <2>1, <2>3, GotoMoves DEF SafepointGate, At, ReturnPoints,
         LockPoints, GatePoints, JitPoints, OwnPoints
    <3> QED BY <1>12, <3>1, LockFree DEF SafepointGate, barrier
  <2> QED BY <2>2, <2>3
<1>13. CASE SafepointAck(t)
  BY <1>13, StopAssumption
     DEF SafepointAck, At, TypeOK, LockInv, EpochIsOwned, OpShape, GatePoints,
         JitPoints, OwnPoints, locks, barrier
<1>14. CASE Deliver(t)
  BY <1>14, StopAssumption
     DEF Deliver, TypeOK, LockInv, EpochIsOwned, OpShape, GatePoints,
         JitPoints, OwnPoints, locks, barrier
<1>15. CASE HandlerGate(t)
  BY <1>15, StopAssumption
     DEF HandlerGate, TypeOK, LockInv, EpochIsOwned, OpShape, GatePoints,
         JitPoints, OwnPoints, locks, barrier
<1>16. CASE HandlerAck(t)
  BY <1>16, StopAssumption
     DEF HandlerAck, TypeOK, LockInv, EpochIsOwned, OpShape, GatePoints,
         JitPoints, OwnPoints, locks, barrier
<1>17. CASE Register(t)
  BY <1>17, StopAssumption
     DEF Register, At, Goto, TypeOK, LockInv, EpochIsOwned, OpShape,
         GatePoints, JitPoints, OwnPoints, locks, barrier
<1>18. CASE Enlist(t)
  BY <1>18, StopAssumption
     DEF Enlist, At, Goto, TypeOK, LockInv, EpochIsOwned, OpShape, GatePoints,
         JitPoints, OwnPoints, locks, barrier
<1>19. CASE Depart(t)
  BY <1>19, StopAssumption
     DEF Depart, At, Safepoint, TypeOK, LockInv, EpochIsOwned, OpShape,
         GatePoints, JitPoints, OwnPoints, locks, barrier
<1>20. CASE Delist(t)
  BY <1>20, StopAssumption
     DEF Delist, At, Goto, TypeOK, LockInv, EpochIsOwned, OpShape, GatePoints,
         JitPoints, OwnPoints, locks, barrier
<1>21. CASE Unregister(t)
  BY <1>21, StopAssumption
     DEF Unregister, At, Goto, TypeOK, LockInv, EpochIsOwned, OpShape,
         GatePoints, JitPoints, OwnPoints, locks, barrier
<1>22. CASE Top(t)
  <2>1. /\ pc[t] \notin LockPoints /\ pc'[t] \notin LockPoints
        /\ \A u \in Threads : u # t => pc'[u] = pc[u]
    BY <1>22, GotoMoves, SafepointMoves
       DEF Top, At, LockPoints, GatePoints, JitPoints, OwnPoints
  <2> QED BY <1>22, <2>1, LockFree DEF Top, barrier
<1>23. CASE Poll(t)
  BY <1>23, StopAssumption
     DEF Poll, At, Goto, TypeOK, LockInv, EpochIsOwned, OpShape, GatePoints,
         JitPoints, OwnPoints, locks, barrier
<1>24. CASE JitDispatchLock(t)
  <2>1. CASE /\ jit = NoThread /\ jit' = t
             /\ Goto(t, IF op[t] = "none" THEN "lookup" ELSE "quiesce")
    <3>1. /\ pc'[t] = (IF op[t] = "none" THEN "lookup" ELSE "quiesce")
          /\ \A u \in Threads : u # t => pc'[u] = pc[u]
      BY <2>1, GotoMoves
    <3> QED BY <1>24, <2>1, <3>1, StopAssumption
            DEF JitDispatchLock, At, barrier, LockInv, EpochIsOwned, OpShape,
               GatePoints, JitPoints, OwnPoints
  <2>2. CASE Safepoint(t, "lock") /\ UNCHANGED jit
    BY <1>24, <2>2, SafepointMoves, LockFree
       DEF JitDispatchLock, At, locks, barrier, LockPoints, GatePoints, JitPoints, OwnPoints
  <2> QED BY <1>24, <2>1, <2>2 DEF JitDispatchLock
<1>25. CASE Hit(t)
  BY <1>25, StopAssumption
     DEF Hit, At, Select, Safepoint, TypeOK, LockInv, EpochIsOwned, OpShape,
         GatePoints, JitPoints, OwnPoints, locks, barrier
<1>26. CASE Translate(t)
  BY <1>26, StopAssumption
     DEF Translate, At, Select, Safepoint, TypeOK, LockInv, EpochIsOwned,
         OpShape, GatePoints, JitPoints, OwnPoints, locks, barrier
<1>27. CASE Rotate(t)
  BY <1>27, StopAssumption
     DEF Rotate, At, Goto, RewindInPlace, TypeOK, LockInv, EpochIsOwned,
         OpShape, GatePoints, JitPoints, OwnPoints, locks, barrier
<1>28. CASE Enter(t)
  <2>1. /\ pc[t] \notin LockPoints /\ pc'[t] \notin LockPoints
        /\ \A u \in Threads : u # t => pc'[u] = pc[u]
    BY <1>28, GotoMoves DEF Enter, At, Retry, LockPoints, GatePoints, JitPoints, OwnPoints
  <2> QED BY <1>28, <2>1, LockFree DEF Enter, barrier
<1>29. CASE Publish(t)
  BY <1>29, StopAssumption
     DEF Publish, At, Goto, TypeOK, LockInv, EpochIsOwned, OpShape,
         GatePoints, JitPoints, OwnPoints, locks, barrier
<1>30. CASE Recheck(t)
  <2>1. /\ pc[t] \notin LockPoints /\ pc'[t] \notin LockPoints
        /\ \A u \in Threads : u # t => pc'[u] = pc[u]
    BY <1>30, GotoMoves, SafepointMoves
       DEF Recheck, At, Retry, LockPoints, GatePoints, JitPoints, OwnPoints
  <2> QED BY <1>30, <2>1, LockFree DEF Recheck, barrier
<1>31. CASE Branch(t)
  BY <1>31, StopAssumption
     DEF Branch, At, Goto, TypeOK, LockInv, EpochIsOwned, OpShape, GatePoints,
         JitPoints, OwnPoints, locks, barrier
<1>32. CASE Service(t)
  BY <1>32, StopAssumption
     DEF Service, At, Goto, TypeOK, LockInv, EpochIsOwned, OpShape,
         GatePoints, JitPoints, OwnPoints, locks, barrier
<1>33. CASE NeedsRotation(t)
  BY <1>33, StopAssumption
     DEF NeedsRotation, At, Goto, TypeOK, LockInv, EpochIsOwned, OpShape,
         GatePoints, JitPoints, OwnPoints, locks, barrier
<1>34. CASE Chain(t)
  BY <1>34, StopAssumption
     DEF Chain, At, TypeOK, LockInv, EpochIsOwned, OpShape, GatePoints,
         JitPoints, OwnPoints, locks, barrier
<1>35. CASE Return(t)
  BY <1>35, StopAssumption
     DEF Return, At, Safepoint, NoSelection, TypeOK, LockInv, EpochIsOwned,
         OpShape, GatePoints, JitPoints, OwnPoints, locks, barrier
<1>36. CASE EndService(t)
  <2>1. /\ pc[t] \notin LockPoints /\ pc'[t] \notin LockPoints
        /\ \A u \in Threads : u # t => pc'[u] = pc[u]
    BY <1>36, GotoMoves DEF EndService, At, LockPoints, GatePoints, JitPoints, OwnPoints
  <2> QED BY <1>36, <2>1, LockFree DEF EndService, barrier
<1>37. CASE Begin(t)
  BY <1>37, StopAssumption
     DEF Begin, At, Goto, TypeOK, LockInv, EpochIsOwned, OpShape, GatePoints,
         JitPoints, OwnPoints, locks, barrier
<1>38. CASE GiveUp(t)
  BY <1>38, StopAssumption
     DEF GiveUp, At, Goto, TypeOK, LockInv, EpochIsOwned, OpShape, GatePoints,
         JitPoints, OwnPoints, locks, barrier
<1>39. CASE \E u \in Threads : Spawn(t, u)
  BY <1>39, StopAssumption
     DEF Spawn, At, TypeOK, LockInv, EpochIsOwned, OpShape, GatePoints,
         JitPoints, OwnPoints, locks, barrier
<1> QED BY <1>1, <1>2, <1>3, <1>4, <1>5, <1>6, <1>7, <1>8, <1>9, <1>10, <1>11,
         <1>12, <1>13, <1>14, <1>15, <1>16, <1>17, <1>18, <1>19, <1>20, <1>21,
         <1>22, <1>23, <1>24, <1>25, <1>26, <1>27, <1>28, <1>29, <1>30, <1>31,
         <1>32, <1>33, <1>34, <1>35, <1>36, <1>37, <1>38, <1>39
       DEF Quiesce, Dispatch, Environment

(* The registry is right initially.                                        *)
LEMMA SlotInit == Init => SlotInv
<1> SUFFICES ASSUME Init, NEW t \in Threads
             PROVE  /\ used[t] <=> pc[t] \notin {"none", "born", "gone"}
                    /\ departing[t] => Leaving(t)
                    /\ pc[t] \in {"recheck", "run"} => translated[t] /\ parked[t] = "no"
                    /\ pc[t] \notin {"wait", "await"} => passed[t] = {}
                    /\ ack[t] <= request
                    /\ sel[t].epoch <= request
  BY DEF SlotInv
<1>1. pc[t] = (IF t = First THEN "service" ELSE "none") /\ (used[t] <=> t = First)
  BY DEF Init
<1>2. ~departing[t] /\ passed[t] = {} /\ ack[t] = 0 /\ sel[t].epoch = 0 /\ request = 0
  BY DEF Init, Nowhere, NoSelection
<1> QED BY <1>1, <1>2

(* A move between points at which the registry entry says nothing.         *)
LEMMA SlotMoves ==
  ASSUME SlotInv, NEW t \in Threads, UNCHANGED <<slot, parked, passed, request>>,
         \A u \in Threads : sel'[u].epoch <= request,
         pc[t] \notin {"none", "born", "gone", "wait", "await"}, ~Leaving(t),
         pc'[t] \notin {"none", "born", "gone", "wait", "await", "recheck", "run"},
         \A u \in Threads : u # t => pc'[u] = pc[u] /\ ret'[u] = ret[u]
  PROVE  SlotInv'
BY DEF SlotInv, Leaving, slot

(* Every step of every thread keeps the registry right.                    *)
LEMMA SlotStep == TypeOK /\ SlotInv /\ [Next]_vars => SlotInv'
<1> SUFFICES ASSUME TypeOK, SlotInv,
                    NEW t \in Threads, Quiesce(t) \/ Dispatch(t) \/ Environment(t)
             PROVE  SlotInv'
  BY DEF Next, vars, locks, barrier, cache, slot, cpu, SlotInv, Leaving
<1>1. CASE QuiesceLock(t)
  <2>1. /\ pc[t] \notin {"none", "born", "gone", "wait", "await"} /\ ~Leaving(t)
        /\ pc'[t] \notin {"none", "born", "gone", "wait", "await", "recheck", "run"}
        /\ \A u \in Threads : u # t => pc'[u] = pc[u] /\ ret'[u] = ret[u]
    BY <1>1, GotoMoves, SafepointMoves DEF QuiesceLock, At, Leaving
  <2>2. \A u \in Threads : sel'[u].epoch <= request
    BY <1>1 DEF QuiesceLock, SlotInv
  <2> QED BY <1>1, <2>1, <2>2, SlotMoves DEF QuiesceLock, barrier
<1>2. CASE Bump(t)
  BY <1>2, StopAssumption
     DEF Bump, At, Goto, TypeOK, SlotInv, Leaving, barrier, slot
<1>3. CASE Raise(t)
  BY <1>3, StopAssumption
     DEF Raise, At, Goto, TypeOK, SlotInv, Leaving, barrier, slot
<1>4. CASE Arm(t)
  BY <1>4, StopAssumption DEF Arm, At, Goto, TypeOK, SlotInv, Leaving, barrier, slot
<1>5. CASE Kick(t)
  BY <1>5, StopAssumption
     DEF Kick, At, Goto, TypeOK, SlotInv, Leaving, barrier, slot
<1>6. CASE \E u \in Threads : WaitSlot(t, u)
  <2>1. /\ pc[t] = "wait" /\ UNCHANGED <<slot, parked, pc, ret, request, sel>>
        /\ \A v \in Threads : v # t => passed'[v] = passed[v]
    BY <1>6 DEF WaitSlot, At, barrier, TypeOK
  <2> QED BY <2>1 DEF SlotInv, Leaving, slot
<1>7. CASE \E u \in Threads : AwaitSlot(t, u)
  BY <1>7, StopAssumption DEF AwaitSlot, At, TypeOK, SlotInv, Leaving, barrier, slot
<1>8. CASE WaitDone(t)
  BY <1>8, StopAssumption
     DEF WaitDone, At, Goto, TypeOK, SlotInv, Leaving, barrier, slot
<1>9. CASE Act(t)
  BY <1>9, StopAssumption
     DEF Act, At, Goto, FlushToFresh, Invalidate, TypeOK, SlotInv, Leaving,
         barrier, slot
<1>10. CASE Release(t)
  BY <1>10, StopAssumption
     DEF Release, At, Goto, TypeOK, SlotInv, Leaving, barrier, slot
<1>11. CASE Unlock(t)
  BY <1>11, StopAssumption
     DEF Unlock, At, Goto, TypeOK, SlotInv, Leaving, barrier, slot
<1>12. CASE SafepointGate(t)
  <2>1. /\ pc[t] = "sp" /\ ret[t] \in ReturnPoints
        /\ UNCHANGED <<slot, parked, passed, request, sel>>
    BY <1>12 DEF SafepointGate, At, TypeOK, barrier
  <2>2. /\ \/ pc'[t] = "ack" /\ ret'[t] = ret[t]
           \/ pc'[t] = ret[t]
        /\ \A u \in Threads : u # t => pc'[u] = pc[u] /\ ret'[u] = ret[u]
    <3>1. CASE gate
      BY <1>12, <3>1 DEF SafepointGate, TypeOK
    <3>2. CASE ~gate
      BY <1>12, <3>2, GotoMoves DEF SafepointGate
    <3> QED BY <3>1, <3>2
  <2> QED BY <2>1, <2>2 DEF SlotInv, Leaving, slot, ReturnPoints
<1>13. CASE SafepointAck(t)
  BY <1>13, StopAssumption
     DEF SafepointAck, At, TypeOK, SlotInv, Leaving, barrier, slot
<1>14. CASE Deliver(t)
  BY <1>14, StopAssumption DEF Deliver, TypeOK, SlotInv, Leaving, barrier, slot
<1>15. CASE HandlerGate(t)
  BY <1>15, StopAssumption DEF HandlerGate, TypeOK, SlotInv, Leaving, barrier, slot
<1>16. CASE HandlerAck(t)
  BY <1>16, StopAssumption DEF HandlerAck, TypeOK, SlotInv, Leaving, barrier, slot
<1>17. CASE Register(t)
  BY <1>17, StopAssumption
     DEF Register, At, Goto, TypeOK, SlotInv, Leaving, barrier, slot
<1>18. CASE Enlist(t)
  BY <1>18, StopAssumption
     DEF Enlist, At, Goto, TypeOK, SlotInv, Leaving, barrier, slot
<1>19. CASE Depart(t)
  BY <1>19, StopAssumption
     DEF Depart, At, Safepoint, TypeOK, SlotInv, Leaving, barrier, slot
<1>20. CASE Delist(t)
  BY <1>20, StopAssumption
     DEF Delist, At, Goto, TypeOK, SlotInv, Leaving, barrier, slot
<1>21. CASE Unregister(t)
  BY <1>21, StopAssumption
     DEF Unregister, At, Goto, TypeOK, SlotInv, Leaving, barrier, slot
<1>22. CASE Top(t)
  <2>1. /\ pc[t] \notin {"none", "born", "gone", "wait", "await"} /\ ~Leaving(t)
        /\ pc'[t] \notin {"none", "born", "gone", "wait", "await", "recheck", "run"}
        /\ \A u \in Threads : u # t => pc'[u] = pc[u] /\ ret'[u] = ret[u]
    BY <1>22, GotoMoves, SafepointMoves DEF Top, At, Leaving
  <2>2. \A u \in Threads : sel'[u].epoch <= request
    BY <1>22 DEF Top, SlotInv
  <2> QED BY <1>22, <2>1, <2>2, SlotMoves DEF Top, barrier
<1>23. CASE Poll(t)
  BY <1>23, StopAssumption
     DEF Poll, At, Goto, TypeOK, SlotInv, Leaving, barrier, slot
<1>24. CASE JitDispatchLock(t)
  BY <1>24, StopAssumption
     DEF JitDispatchLock, At, Goto, Safepoint, TypeOK, SlotInv, Leaving,
         barrier, slot
<1>25. CASE Hit(t)
  BY <1>25, StopAssumption
     DEF Hit, At, Select, Safepoint, TypeOK, SlotInv, Leaving, barrier, slot
<1>26. CASE Translate(t)
  BY <1>26, StopAssumption
     DEF Translate, At, Select, Safepoint, TypeOK, SlotInv, Leaving, barrier,
         slot
<1>27. CASE Rotate(t)
  <2>1. /\ pc[t] \notin {"none", "born", "gone", "wait", "await"} /\ ~Leaving(t)
        /\ pc'[t] \notin {"none", "born", "gone", "wait", "await", "recheck", "run"}
        /\ \A u \in Threads : u # t => pc'[u] = pc[u] /\ ret'[u] = ret[u]
    BY <1>27, GotoMoves DEF Rotate, At, Leaving
  <2>2. \A u \in Threads : sel'[u].epoch <= request
    BY <1>27 DEF Rotate, SlotInv
  <2> QED BY <1>27, <2>1, <2>2, SlotMoves DEF Rotate, barrier
<1>28. CASE Enter(t)
  <2>1. /\ pc[t] \notin {"none", "born", "gone", "wait", "await"} /\ ~Leaving(t)
        /\ pc'[t] \notin {"none", "born", "gone", "wait", "await", "recheck", "run"}
        /\ \A u \in Threads : u # t => pc'[u] = pc[u] /\ ret'[u] = ret[u]
    BY <1>28, GotoMoves DEF Enter, At, Retry, Leaving
  <2>2. \A u \in Threads : sel'[u].epoch <= request
    <3>1. CASE UNCHANGED sel
      BY <3>1 DEF SlotInv
    <3>2. CASE sel' = [sel EXCEPT ![t] = NoSelection]
      BY <3>2 DEF NoSelection, SlotInv, TypeOK
    <3> QED BY <1>28, <3>1, <3>2 DEF Enter, Retry
  <2> QED BY <1>28, <2>1, <2>2, SlotMoves DEF Enter, barrier
<1>29. CASE Publish(t)
  BY <1>29, StopAssumption
     DEF Publish, At, Goto, TypeOK, SlotInv, Leaving, barrier, slot
<1>30. CASE Recheck(t)
  BY <1>30, StopAssumption
     DEF Recheck, At, Goto, Retry, Safepoint, NoSelection, TypeOK, SlotInv,
         Leaving, barrier, slot
<1>31. CASE Branch(t)
  BY <1>31, StopAssumption
     DEF Branch, At, Goto, TypeOK, SlotInv, Leaving, barrier, slot
<1>32. CASE Service(t)
  BY <1>32, StopAssumption
     DEF Service, At, Goto, TypeOK, SlotInv, Leaving, barrier, slot
<1>33. CASE NeedsRotation(t)
  BY <1>33, StopAssumption
     DEF NeedsRotation, At, Goto, TypeOK, SlotInv, Leaving, barrier, slot
<1>34. CASE Chain(t)
  BY <1>34, StopAssumption DEF Chain, At, TypeOK, SlotInv, Leaving, barrier, slot
<1>35. CASE Return(t)
  BY <1>35, StopAssumption
     DEF Return, At, Safepoint, NoSelection, TypeOK, SlotInv, Leaving,
         barrier, slot
<1>36. CASE EndService(t)
  <2>1. /\ pc[t] \notin {"none", "born", "gone", "wait", "await"} /\ ~Leaving(t)
        /\ pc'[t] \notin {"none", "born", "gone", "wait", "await", "recheck", "run"}
        /\ \A u \in Threads : u # t => pc'[u] = pc[u] /\ ret'[u] = ret[u]
    BY <1>36, GotoMoves DEF EndService, At, Leaving
  <2>2. \A u \in Threads : sel'[u].epoch <= request
    BY <1>36 DEF EndService, SlotInv
  <2> QED BY <1>36, <2>1, <2>2, SlotMoves DEF EndService, barrier
<1>37. CASE Begin(t)
  BY <1>37, StopAssumption
     DEF Begin, At, Goto, TypeOK, SlotInv, Leaving, barrier, slot
<1>38. CASE GiveUp(t)
  BY <1>38, StopAssumption
     DEF GiveUp, At, Goto, TypeOK, SlotInv, Leaving, barrier, slot
<1>39. CASE \E u \in Threads : Spawn(t, u)
  BY <1>39, StopAssumption DEF Spawn, At, TypeOK, SlotInv, Leaving, barrier, slot
<1> QED BY <1>1, <1>2, <1>3, <1>4, <1>5, <1>6, <1>7, <1>8, <1>9, <1>10, <1>11,
         <1>12, <1>13, <1>14, <1>15, <1>16, <1>17, <1>18, <1>19, <1>20, <1>21,
         <1>22, <1>23, <1>24, <1>25, <1>26, <1>27, <1>28, <1>29, <1>30, <1>31,
         <1>32, <1>33, <1>34, <1>35, <1>36, <1>37, <1>38, <1>39
       DEF Quiesce, Dispatch, Environment

(* No epoch is under way initially.                                        *)
LEMMA FenceInit == Init => FenceInv
<1> SUFFICES ASSUME Init PROVE FenceInv
  OBVIOUS
<1>1. \A t \in Threads : pc[t] \in {"service", "none"}
  BY DEF Init
<1> QED BY <1>1 DEF FenceInv, Fenced, InCharge, Behind, Passed, GatePoints

(* Dropping a selection does not bring any thread nearer to the current    *)
(* epoch.                                                                  *)
LEMMA Unselect ==
  ASSUME TypeOK, SlotInv, NEW t \in Threads,
         UNCHANGED sel \/ sel' = [sel EXCEPT ![t] = NoSelection]
  PROVE  \A u \in Threads : sel'[u].epoch < request \/ sel'[u].epoch = sel[u].epoch
<1>1. CASE UNCHANGED sel
  BY <1>1
<1>2. CASE sel' = [sel EXCEPT ![t] = NoSelection]
  <2>1. sel'[t].epoch = 0 /\ \A u \in Threads : u # t => sel'[u] = sel[u]
    BY <1>2 DEF NoSelection, TypeOK
  <2>2. sel[t].epoch \in Nat /\ sel[t].epoch <= request /\ request \in Nat
    BY DEF TypeOK, SlotInv
  <2> QED BY <2>1, <2>2
<1> QED BY <1>1, <1>2

(* A step that ends neither in translated code nor inside an epoch, and    *)
(* selects nothing while somebody is in charge, cannot disturb the fences. *)
LEMMA FenceIdle ==
  ASSUME FenceInv, NEW t \in Threads, UNCHANGED <<request, passed>>,
         pc'[t] \notin LockPoints \ {"lookup", "peers", "translate", "quiesce", "bump"},
         pc'[t] # "run",
         \A u \in Threads : u # t => pc'[u] = pc[u] /\ op'[u] = op[u] /\ ack'[u] = ack[u],
         \A u \in Threads : sel'[u].epoch < request \/ sel'[u].epoch = sel[u].epoch
                              \/ \A v \in Threads : ~InCharge(v)
  PROVE  FenceInv'
BY DEF FenceInv, Fenced, InCharge, Behind, Passed, LockPoints, OwnPoints, JitPoints,
   GatePoints

(* Every step of every thread keeps the fences.                            *)
LEMMA FenceStep ==
  TypeOK /\ LockInv /\ SlotInv /\ FenceInv /\ [Next]_vars => FenceInv'
<1> SUFFICES ASSUME TypeOK, LockInv, SlotInv, FenceInv,
                    NEW t \in Threads, Quiesce(t) \/ Dispatch(t) \/ Environment(t)
             PROVE  FenceInv'
  BY DEF Next, vars, locks, barrier, cache, slot, cpu, FenceInv, Fenced, InCharge,
     Behind, Passed
<1>1. CASE QuiesceLock(t)
  <2>1. /\ pc'[t] \notin LockPoints \ {"lookup", "peers", "translate", "quiesce", "bump"}
        /\ pc'[t] # "run" /\ \A u \in Threads : u # t => pc'[u] = pc[u]
    BY <1>1, GotoMoves, SafepointMoves
       DEF QuiesceLock, At, LockPoints, OwnPoints, JitPoints, GatePoints
  <2>2. /\ UNCHANGED <<request, passed>>
        /\ \A u \in Threads : u # t => op'[u] = op[u] /\ ack'[u] = ack[u]
    BY <1>1 DEF QuiesceLock, barrier, slot, TypeOK
  <2>3. \A u \in Threads : sel'[u].epoch = sel[u].epoch
    BY <1>1 DEF QuiesceLock
  <2> QED BY <2>1, <2>2, <2>3, FenceIdle
<1>2. CASE Bump(t)
  BY <1>2, StopAssumption
     DEF Bump, At, Goto, TypeOK, LockInv, EpochIsOwned, JitPoints, SlotInv,
         FenceInv, Fenced, InCharge, Behind, Passed, GatePoints, barrier, slot
<1>3. CASE Raise(t)
  BY <1>3, StopAssumption
     DEF Raise, At, Goto, TypeOK, LockInv, EpochIsOwned, JitPoints, SlotInv,
         FenceInv, Fenced, InCharge, Behind, Passed, GatePoints, barrier, slot
<1>4. CASE Arm(t)
  BY <1>4, StopAssumption
     DEF Arm, At, Goto, TypeOK, LockInv, EpochIsOwned, JitPoints, SlotInv,
         FenceInv, Fenced, InCharge, Behind, Passed, GatePoints, barrier, slot
<1>5. CASE Kick(t)
  BY <1>5, StopAssumption
     DEF Kick, At, Goto, TypeOK, LockInv, EpochIsOwned, JitPoints, SlotInv,
         FenceInv, Fenced, InCharge, Behind, Passed, GatePoints, barrier, slot
<1>6. CASE \E u \in Threads : WaitSlot(t, u)
  <2> PICK u \in Threads : WaitSlot(t, u)
    BY <1>6
  <2>1. /\ pc[t] = "wait" /\ UNCHANGED <<pc, op, ack, sel, request>>
        /\ passed'[t] \in {{}, passed[t] \union {u}}
        /\ (u \in passed'[t] => ~InCacheUnanswered(u))
        /\ \A v \in Threads : v # t => passed'[v] = passed[v]
    BY DEF WaitSlot, At, barrier, slot, TypeOK
  <2>2. ~InCacheUnanswered(u) => pc[u] # "run"
    BY <2>1 DEF InCacheUnanswered, SlotInv, FenceInv, Behind, GatePoints
  <2> QED BY <2>1, <2>2 DEF FenceInv, Fenced, InCharge, Behind, Passed
<1>7. CASE \E u \in Threads : AwaitSlot(t, u)
  <2> PICK u \in Threads : AwaitSlot(t, u)
    BY <1>7
  <2>1. /\ pc[t] = "await" /\ UNCHANGED <<pc, op, ack, sel, request>>
        /\ passed'[t] \in {{}, passed[t] \union {u}}
        /\ (u \in passed'[t] => ~Unanswered(u))
        /\ \A v \in Threads : v # t => passed'[v] = passed[v]
    BY DEF AwaitSlot, At, barrier, slot, TypeOK
  <2>2. ~Unanswered(u) => pc[u] # "run"
    BY <2>1 DEF Unanswered, Member, SlotInv, Leaving, FenceInv, Behind, GatePoints
  <2> QED BY <2>1, <2>2 DEF FenceInv, Fenced, InCharge, Behind, Passed
<1>8. CASE WaitDone(t)
  <2>1. /\ pc[t] \in {"wait", "await"} /\ passed[t] = Threads
        /\ UNCHANGED <<op, ack, sel, request>>
        /\ passed'[t] = {} /\ \A v \in Threads : v # t => passed'[v] = passed[v]
    BY <1>8 DEF WaitDone, At, barrier, slot, TypeOK
  <2>2. pc'[t] = "window" /\ \A v \in Threads : v # t => pc'[v] = pc[v]
    BY <1>8, GotoMoves DEF WaitDone
  <2>3. \A u \in Threads : pc'[u] # "run"
    BY <2>1, <2>2 DEF FenceInv, Passed
  <2>4. InCharge(t)' => InCharge(t)
    BY <2>1, <2>2 DEF InCharge, LockInv, OpShape
  <2> QED BY <2>1, <2>2, <2>3, <2>4 DEF FenceInv, Fenced, InCharge, Behind, Passed
<1>9. CASE Act(t)
  BY <1>9, StopAssumption
     DEF Act, At, Goto, FlushToFresh, Invalidate, TypeOK, LockInv,
         EpochIsOwned, JitPoints, SlotInv, FenceInv, Fenced, InCharge, Behind,
         Passed, GatePoints, barrier, slot
<1>10. CASE Release(t)
  <2>1. /\ pc[t] \in {"release", "refuse"} /\ UNCHANGED <<op, ack, sel, request, passed>>
    BY <1>10 DEF Release, At, slot
  <2>2. pc'[t] = "unlock" /\ \A v \in Threads : v # t => pc'[v] = pc[v]
    BY <1>10, GotoMoves DEF Release
  <2>3. InCharge(t)' => InCharge(t)
    BY <2>1, <2>2 DEF InCharge, LockInv, OpShape
  <2> QED BY <2>1, <2>2, <2>3 DEF FenceInv, Fenced, InCharge, Behind, Passed, GatePoints
<1>11. CASE Unlock(t)
  <2>1. /\ pc'[t] \notin LockPoints \ {"lookup", "peers", "translate", "quiesce", "bump"}
        /\ pc'[t] # "run" /\ \A u \in Threads : u # t => pc'[u] = pc[u]
    BY <1>11, GotoMoves DEF Unlock, At, LockPoints, OwnPoints, JitPoints, GatePoints
  <2>2. /\ UNCHANGED <<request, passed>>
        /\ \A u \in Threads : u # t => op'[u] = op[u] /\ ack'[u] = ack[u]
    BY <1>11 DEF Unlock, barrier, slot, TypeOK
  <2>3. \A u \in Threads : sel'[u].epoch = sel[u].epoch
    BY <1>11 DEF Unlock
  <2> QED BY <2>1, <2>2, <2>3, FenceIdle
<1>12. CASE SafepointGate(t)
  <2>1. /\ pc'[t] \notin LockPoints \ {"lookup", "peers", "translate", "quiesce", "bump"}
        /\ pc'[t] # "run" /\ \A u \in Threads : u # t => pc'[u] = pc[u]
    <3>1. CASE gate
      BY <1>12, <3>1 DEF SafepointGate, TypeOK, LockPoints, OwnPoints, JitPoints, GatePoints
    <3>2. CASE ~gate
      BY <1>12, <3>2, GotoMoves
         DEF SafepointGate, TypeOK, ReturnPoints, LockPoints, OwnPoints, JitPoints,
            GatePoints
    <3> QED BY <3>1, <3>2
  <2>2. /\ UNCHANGED <<request, passed>>
        /\ \A u \in Threads : u # t => op'[u] = op[u] /\ ack'[u] = ack[u]
    BY <1>12 DEF SafepointGate, barrier, slot, TypeOK
  <2>3. \A u \in Threads : sel'[u].epoch = sel[u].epoch
    BY <1>12 DEF SafepointGate
  <2> QED BY <2>1, <2>2, <2>3, FenceIdle
<1>13. CASE SafepointAck(t)
  <2>1. /\ pc'[t] \notin LockPoints \ {"lookup", "peers", "translate", "quiesce", "bump"}
        /\ pc'[t] # "run" /\ \A u \in Threads : u # t => pc'[u] = pc[u]
    BY <1>13 DEF SafepointAck, At, TypeOK, LockPoints, OwnPoints, JitPoints, GatePoints
  <2>2. /\ UNCHANGED <<request, passed>>
        /\ \A u \in Threads : u # t => op'[u] = op[u] /\ ack'[u] = ack[u]
    BY <1>13 DEF SafepointAck, barrier, slot, TypeOK
  <2>3. \A u \in Threads : sel'[u].epoch = sel[u].epoch
    BY <1>13 DEF SafepointAck
  <2> QED BY <2>1, <2>2, <2>3, FenceIdle
<1>14. CASE Deliver(t)
  BY <1>14, StopAssumption
     DEF Deliver, TypeOK, LockInv, EpochIsOwned, JitPoints, SlotInv, FenceInv,
         Fenced, InCharge, Behind, Passed, GatePoints, barrier, slot
<1>15. CASE HandlerGate(t)
  BY <1>15, StopAssumption
     DEF HandlerGate, TypeOK, LockInv, EpochIsOwned, JitPoints, SlotInv,
         FenceInv, Fenced, InCharge, Behind, Passed, GatePoints, barrier, slot
<1>16. CASE HandlerAck(t)
  BY <1>16, StopAssumption
     DEF HandlerAck, TypeOK, LockInv, EpochIsOwned, JitPoints, SlotInv,
         FenceInv, Fenced, InCharge, Behind, Passed, GatePoints, barrier, slot
<1>17. CASE Register(t)
  <2>1. /\ pc'[t] \notin LockPoints \ {"lookup", "peers", "translate", "quiesce", "bump"}
        /\ pc'[t] # "run" /\ \A u \in Threads : u # t => pc'[u] = pc[u]
    BY <1>17, GotoMoves DEF Register, At, LockPoints, OwnPoints, JitPoints, GatePoints
  <2>2. /\ UNCHANGED <<request, passed>>
        /\ \A u \in Threads : u # t => op'[u] = op[u] /\ ack'[u] = ack[u]
    BY <1>17 DEF Register, barrier, slot, TypeOK
  <2>3. \A u \in Threads : sel'[u].epoch = sel[u].epoch
    BY <1>17 DEF Register
  <2> QED BY <2>1, <2>2, <2>3, FenceIdle
<1>18. CASE Enlist(t)
  <2>1. /\ pc'[t] \notin LockPoints \ {"lookup", "peers", "translate", "quiesce", "bump"}
        /\ pc'[t] # "run" /\ \A u \in Threads : u # t => pc'[u] = pc[u]
    BY <1>18, GotoMoves DEF Enlist, At, LockPoints, OwnPoints, JitPoints, GatePoints
  <2>2. /\ UNCHANGED <<request, passed>>
        /\ \A u \in Threads : u # t => op'[u] = op[u] /\ ack'[u] = ack[u]
    BY <1>18 DEF Enlist, barrier, slot, TypeOK
  <2>3. \A u \in Threads : sel'[u].epoch = sel[u].epoch
    BY <1>18 DEF Enlist
  <2> QED BY <2>1, <2>2, <2>3, FenceIdle
<1>19. CASE Depart(t)
  <2>1. /\ pc'[t] \notin LockPoints \ {"lookup", "peers", "translate", "quiesce", "bump"}
        /\ pc'[t] # "run" /\ \A u \in Threads : u # t => pc'[u] = pc[u]
    BY <1>19, GotoMoves, SafepointMoves
       DEF Depart, At, LockPoints, OwnPoints, JitPoints, GatePoints
  <2>2. /\ UNCHANGED <<request, passed>>
        /\ \A u \in Threads : u # t => op'[u] = op[u] /\ ack'[u] = ack[u]
    BY <1>19 DEF Depart, barrier, slot, TypeOK
  <2>3. \A u \in Threads : sel'[u].epoch = sel[u].epoch
    BY <1>19 DEF Depart
  <2> QED BY <2>1, <2>2, <2>3, FenceIdle
<1>20. CASE Delist(t)
  <2>1. /\ pc'[t] \notin LockPoints \ {"lookup", "peers", "translate", "quiesce", "bump"}
        /\ pc'[t] # "run" /\ \A u \in Threads : u # t => pc'[u] = pc[u]
    BY <1>20, GotoMoves DEF Delist, At, LockPoints, OwnPoints, JitPoints, GatePoints
  <2>2. /\ UNCHANGED <<request, passed>>
        /\ \A u \in Threads : u # t => op'[u] = op[u] /\ ack'[u] = ack[u]
    BY <1>20 DEF Delist, barrier, slot, TypeOK
  <2>3. \A u \in Threads : sel'[u].epoch = sel[u].epoch
    BY <1>20 DEF Delist
  <2> QED BY <2>1, <2>2, <2>3, FenceIdle
<1>21. CASE Unregister(t)
  <2>1. /\ pc'[t] \notin LockPoints \ {"lookup", "peers", "translate", "quiesce", "bump"}
        /\ pc'[t] # "run" /\ \A u \in Threads : u # t => pc'[u] = pc[u]
    BY <1>21, GotoMoves DEF Unregister, At, LockPoints, OwnPoints, JitPoints, GatePoints
  <2>2. /\ UNCHANGED <<request, passed>>
        /\ \A u \in Threads : u # t => op'[u] = op[u] /\ ack'[u] = ack[u]
    BY <1>21 DEF Unregister, barrier, slot, TypeOK
  <2>3. \A u \in Threads : sel'[u].epoch = sel[u].epoch
    BY <1>21 DEF Unregister
  <2> QED BY <2>1, <2>2, <2>3, FenceIdle
<1>22. CASE Top(t)
  <2>1. /\ pc'[t] \notin LockPoints \ {"lookup", "peers", "translate", "quiesce", "bump"}
        /\ pc'[t] # "run" /\ \A u \in Threads : u # t => pc'[u] = pc[u]
    BY <1>22, GotoMoves, SafepointMoves
       DEF Top, At, LockPoints, OwnPoints, JitPoints, GatePoints
  <2>2. /\ UNCHANGED <<request, passed>>
        /\ \A u \in Threads : u # t => op'[u] = op[u] /\ ack'[u] = ack[u]
    BY <1>22 DEF Top, barrier, slot, TypeOK
  <2>3. \A u \in Threads : sel'[u].epoch = sel[u].epoch
    BY <1>22 DEF Top
  <2> QED BY <2>1, <2>2, <2>3, FenceIdle
<1>23. CASE Poll(t)
  <2>1. /\ pc'[t] \notin LockPoints \ {"lookup", "peers", "translate", "quiesce", "bump"}
        /\ pc'[t] # "run" /\ \A u \in Threads : u # t => pc'[u] = pc[u]
    BY <1>23, GotoMoves DEF Poll, At, LockPoints, OwnPoints, JitPoints, GatePoints
  <2>2. /\ UNCHANGED <<request, passed>>
        /\ \A u \in Threads : u # t => op'[u] = op[u] /\ ack'[u] = ack[u]
    BY <1>23 DEF Poll, barrier, slot, TypeOK
  <2>3. \A u \in Threads : sel'[u].epoch = sel[u].epoch
    BY <1>23 DEF Poll
  <2> QED BY <2>1, <2>2, <2>3, FenceIdle
<1>24. CASE JitDispatchLock(t)
  <2>1. /\ pc'[t] \notin LockPoints \ {"lookup", "peers", "translate", "quiesce", "bump"}
        /\ pc'[t] # "run" /\ \A u \in Threads : u # t => pc'[u] = pc[u]
    BY <1>24, GotoMoves, SafepointMoves
       DEF JitDispatchLock, At, LockPoints, OwnPoints, JitPoints, GatePoints
  <2>2. /\ UNCHANGED <<request, passed>>
        /\ \A u \in Threads : u # t => op'[u] = op[u] /\ ack'[u] = ack[u]
    BY <1>24 DEF JitDispatchLock, barrier, slot, TypeOK
  <2>3. \A u \in Threads : sel'[u].epoch = sel[u].epoch
    BY <1>24 DEF JitDispatchLock
  <2> QED BY <2>1, <2>2, <2>3, FenceIdle
<1>25. CASE Hit(t)
  <2>1. /\ pc'[t] \notin LockPoints \ {"lookup", "peers", "translate", "quiesce", "bump"}
        /\ pc'[t] # "run" /\ \A u \in Threads : u # t => pc'[u] = pc[u]
    BY <1>25, SafepointMoves
       DEF Hit, At, Select, LockPoints, OwnPoints, JitPoints, GatePoints
  <2>2. /\ UNCHANGED <<request, passed>>
        /\ \A u \in Threads : u # t => op'[u] = op[u] /\ ack'[u] = ack[u]
    BY <1>25 DEF Hit, Select, barrier, slot, TypeOK
  <2>3. \A v \in Threads : ~InCharge(v)
    BY <1>25 DEF Hit, At, InCharge, LockInv, EpochIsOwned, JitPoints, GatePoints
  <2> QED BY <2>1, <2>2, <2>3, FenceIdle
<1>26. CASE Translate(t)
  <2>1. /\ pc'[t] \notin LockPoints \ {"lookup", "peers", "translate", "quiesce", "bump"}
        /\ pc'[t] # "run" /\ \A u \in Threads : u # t => pc'[u] = pc[u]
    BY <1>26, SafepointMoves
       DEF Translate, At, Select, LockPoints, OwnPoints, JitPoints, GatePoints
  <2>2. /\ UNCHANGED <<request, passed>>
        /\ \A u \in Threads : u # t => op'[u] = op[u] /\ ack'[u] = ack[u]
    BY <1>26 DEF Translate, Select, barrier, slot, TypeOK
  <2>3. \A v \in Threads : ~InCharge(v)
    BY <1>26 DEF Translate, At, InCharge, LockInv, EpochIsOwned, JitPoints, GatePoints
  <2> QED BY <2>1, <2>2, <2>3, FenceIdle
<1>27. CASE Rotate(t)
  <2>1. /\ pc'[t] \notin LockPoints \ {"lookup", "peers", "translate", "quiesce", "bump"}
        /\ pc'[t] # "run" /\ \A u \in Threads : u # t => pc'[u] = pc[u]
    BY <1>27, GotoMoves DEF Rotate, At, LockPoints, OwnPoints, JitPoints, GatePoints
  <2>2. /\ UNCHANGED <<request, passed>>
        /\ \A u \in Threads : u # t => op'[u] = op[u] /\ ack'[u] = ack[u]
    BY <1>27 DEF Rotate, barrier, slot, TypeOK
  <2>3. \A u \in Threads : sel'[u].epoch = sel[u].epoch
    BY <1>27 DEF Rotate
  <2> QED BY <2>1, <2>2, <2>3, FenceIdle
<1>28. CASE Enter(t)
  <2>1. /\ pc'[t] \notin LockPoints \ {"lookup", "peers", "translate", "quiesce", "bump"}
        /\ pc'[t] # "run" /\ \A u \in Threads : u # t => pc'[u] = pc[u]
    BY <1>28, GotoMoves DEF Enter, At, Retry, LockPoints, OwnPoints, JitPoints, GatePoints
  <2>2. /\ UNCHANGED <<request, passed>>
        /\ \A u \in Threads : u # t => op'[u] = op[u] /\ ack'[u] = ack[u]
    BY <1>28 DEF Enter, barrier, slot, TypeOK
  <2>3. \A u \in Threads : sel'[u].epoch < request \/ sel'[u].epoch = sel[u].epoch
    BY <1>28, Unselect DEF Enter, Retry
  <2> QED BY <2>1, <2>2, <2>3, FenceIdle
<1>29. CASE Publish(t)
  <2>1. /\ pc'[t] \notin LockPoints \ {"lookup", "peers", "translate", "quiesce", "bump"}
        /\ pc'[t] # "run" /\ \A u \in Threads : u # t => pc'[u] = pc[u]
    BY <1>29, GotoMoves DEF Publish, At, LockPoints, OwnPoints, JitPoints, GatePoints
  <2>2. /\ UNCHANGED <<request, passed>>
        /\ \A u \in Threads : u # t => op'[u] = op[u] /\ ack'[u] = ack[u]
    BY <1>29 DEF Publish, barrier, slot, TypeOK
  <2>3. \A u \in Threads : sel'[u].epoch = sel[u].epoch
    BY <1>29 DEF Publish
  <2> QED BY <2>1, <2>2, <2>3, FenceIdle
<1>30. CASE Recheck(t)
  <2>1. CASE Goto(t, "run") /\ ~gate /\ request = sel[t].epoch /\ UNCHANGED <<translated, sel>>
    <3>1. pc'[t] = "run" /\ \A u \in Threads : u # t => pc'[u] = pc[u]
      BY <2>1, GotoMoves
    <3>2. pc[t] = "recheck" /\ UNCHANGED <<request, passed, op, ack, sel>>
      BY <1>30, <2>1 DEF Recheck, At, barrier
    <3>3. \A u \in Threads : pc[u] \notin GatePoints \union {"raise"}
      BY <2>1 DEF LockInv, EpochIsOwned, FenceInv, Fenced, InCharge, TypeOK
    <3> QED BY <3>1, <3>2, <3>3 DEF FenceInv, Fenced, InCharge, Behind, Passed, GatePoints
  <2>2. CASE Retry(t) \/ (Safepoint(t, "enter") /\ UNCHANGED sel)
    <3>1. /\ pc'[t] \in {"top", "sp"} /\ \A u \in Threads : u # t => pc'[u] = pc[u]
      BY <2>2, GotoMoves, SafepointMoves DEF Retry
    <3>2. UNCHANGED <<request, passed, op, ack>>
      BY <1>30 DEF Recheck, barrier
    <3>3. \A u \in Threads : sel'[u].epoch < request \/ sel'[u].epoch = sel[u].epoch
      BY <2>2, Unselect DEF Retry
    <3> QED BY <3>1, <3>2, <3>3, FenceIdle DEF LockPoints, OwnPoints, JitPoints, GatePoints
  <2> QED BY <1>30, <2>1, <2>2 DEF Recheck
<1>31. CASE Branch(t)
  <2>1. /\ pc'[t] \notin LockPoints \ {"lookup", "peers", "translate", "quiesce", "bump"}
        /\ pc'[t] # "run" /\ \A u \in Threads : u # t => pc'[u] = pc[u]
    BY <1>31, GotoMoves DEF Branch, At, LockPoints, OwnPoints, JitPoints, GatePoints
  <2>2. /\ UNCHANGED <<request, passed>>
        /\ \A u \in Threads : u # t => op'[u] = op[u] /\ ack'[u] = ack[u]
    BY <1>31 DEF Branch, barrier, slot, TypeOK
  <2>3. \A u \in Threads : sel'[u].epoch = sel[u].epoch
    BY <1>31 DEF Branch
  <2> QED BY <2>1, <2>2, <2>3, FenceIdle
<1>32. CASE Service(t)
  <2>1. /\ pc'[t] \notin LockPoints \ {"lookup", "peers", "translate", "quiesce", "bump"}
        /\ pc'[t] # "run" /\ \A u \in Threads : u # t => pc'[u] = pc[u]
    BY <1>32, GotoMoves DEF Service, At, LockPoints, OwnPoints, JitPoints, GatePoints
  <2>2. /\ UNCHANGED <<request, passed>>
        /\ \A u \in Threads : u # t => op'[u] = op[u] /\ ack'[u] = ack[u]
    BY <1>32 DEF Service, barrier, slot, TypeOK
  <2>3. \A u \in Threads : sel'[u].epoch = sel[u].epoch
    BY <1>32 DEF Service
  <2> QED BY <2>1, <2>2, <2>3, FenceIdle
<1>33. CASE NeedsRotation(t)
  <2>1. /\ pc'[t] \notin LockPoints \ {"lookup", "peers", "translate", "quiesce", "bump"}
        /\ pc'[t] # "run" /\ \A u \in Threads : u # t => pc'[u] = pc[u]
    BY <1>33, GotoMoves DEF NeedsRotation, At, LockPoints, OwnPoints, JitPoints, GatePoints
  <2>2. /\ UNCHANGED <<request, passed>>
        /\ \A u \in Threads : u # t => op'[u] = op[u] /\ ack'[u] = ack[u]
    BY <1>33 DEF NeedsRotation, barrier, slot, TypeOK
  <2>3. \A u \in Threads : sel'[u].epoch = sel[u].epoch
    BY <1>33 DEF NeedsRotation
  <2> QED BY <2>1, <2>2, <2>3, FenceIdle
<1>34. CASE Chain(t)
  BY <1>34, StopAssumption
     DEF Chain, At, TypeOK, LockInv, EpochIsOwned, JitPoints, SlotInv,
         FenceInv, Fenced, InCharge, Behind, Passed, GatePoints, barrier, slot
<1>35. CASE Return(t)
  <2>1. /\ pc'[t] \notin LockPoints \ {"lookup", "peers", "translate", "quiesce", "bump"}
        /\ pc'[t] # "run" /\ \A u \in Threads : u # t => pc'[u] = pc[u]
    BY <1>35, SafepointMoves DEF Return, At, LockPoints, OwnPoints, JitPoints, GatePoints
  <2>2. /\ UNCHANGED <<request, passed>>
        /\ \A u \in Threads : u # t => op'[u] = op[u] /\ ack'[u] = ack[u]
    BY <1>35 DEF Return, barrier, slot, TypeOK
  <2>3. \A u \in Threads : sel'[u].epoch < request \/ sel'[u].epoch = sel[u].epoch
    BY <1>35, Unselect DEF Return
  <2> QED BY <2>1, <2>2, <2>3, FenceIdle
<1>36. CASE EndService(t)
  <2>1. /\ pc'[t] \notin LockPoints \ {"lookup", "peers", "translate", "quiesce", "bump"}
        /\ pc'[t] # "run" /\ \A u \in Threads : u # t => pc'[u] = pc[u]
    BY <1>36, GotoMoves DEF EndService, At, LockPoints, OwnPoints, JitPoints, GatePoints
  <2>2. /\ UNCHANGED <<request, passed>>
        /\ \A u \in Threads : u # t => op'[u] = op[u] /\ ack'[u] = ack[u]
    BY <1>36 DEF EndService, barrier, slot, TypeOK
  <2>3. \A u \in Threads : sel'[u].epoch = sel[u].epoch
    BY <1>36 DEF EndService
  <2> QED BY <2>1, <2>2, <2>3, FenceIdle
<1>37. CASE Begin(t)
  <2>1. /\ pc'[t] \notin LockPoints \ {"lookup", "peers", "translate", "quiesce", "bump"}
        /\ pc'[t] # "run" /\ \A u \in Threads : u # t => pc'[u] = pc[u]
    BY <1>37, GotoMoves DEF Begin, At, LockPoints, OwnPoints, JitPoints, GatePoints
  <2>2. /\ UNCHANGED <<request, passed>>
        /\ \A u \in Threads : u # t => op'[u] = op[u] /\ ack'[u] = ack[u]
    BY <1>37 DEF Begin, barrier, slot, TypeOK
  <2>3. \A u \in Threads : sel'[u].epoch = sel[u].epoch
    BY <1>37 DEF Begin
  <2> QED BY <2>1, <2>2, <2>3, FenceIdle
<1>38. CASE GiveUp(t)
  BY <1>38, StopAssumption
     DEF GiveUp, At, Goto, TypeOK, LockInv, EpochIsOwned, JitPoints, SlotInv,
         FenceInv, Fenced, InCharge, Behind, Passed, GatePoints, barrier, slot
<1>39. CASE \E u \in Threads : Spawn(t, u)
  BY <1>39, StopAssumption
     DEF Spawn, At, TypeOK, LockInv, EpochIsOwned, JitPoints, SlotInv,
         FenceInv, Fenced, InCharge, Behind, Passed, GatePoints, barrier, slot
<1> QED BY <1>1, <1>2, <1>3, <1>4, <1>5, <1>6, <1>7, <1>8, <1>9, <1>10, <1>11,
         <1>12, <1>13, <1>14, <1>15, <1>16, <1>17, <1>18, <1>19, <1>20, <1>21,
         <1>22, <1>23, <1>24, <1>25, <1>26, <1>27, <1>28, <1>29, <1>30, <1>31,
         <1>32, <1>33, <1>34, <1>35, <1>36, <1>37, <1>38, <1>39
       DEF Quiesce, Dispatch, Environment

(* Nothing is selected and the map is empty initially.                     *)
LEMMA LiveInit == Init => LiveInv
<1> SUFFICES ASSUME Init PROVE LiveInv
  OBVIOUS
<1>1. \A t \in Threads : pc[t] \in {"service", "none"}
  BY DEF Init
<1> QED BY <1>1 DEF Init, LiveInv, Current, Selected

(* A step that leaves the cache alone and makes no thread current.         *)
LEMMA LiveIdle ==
  ASSUME LiveInv, UNCHANGED <<gen, retired, map, code>>,
         \A u \in Threads : Current(u)' => Current(u) /\ sel'[u] = sel[u]
  PROVE  LiveInv'
BY DEF LiveInv

(* A thread that withdraws is not current any more.                        *)
LEMMA Retried ==
  ASSUME TypeOK, NEW t \in Threads, Retry(t), UNCHANGED request
  PROVE  \A u \in Threads : Current(u)' => Current(u) /\ sel'[u] = sel[u]
<1>1. pc'[t] = "top" /\ \A u \in Threads : u # t => pc'[u] = pc[u] /\ ret'[u] = ret[u]
  BY GotoMoves DEF Retry
<1>2. \A u \in Threads : u # t => sel'[u] = sel[u]
  BY DEF Retry, TypeOK
<1> QED BY <1>1, <1>2 DEF Current, Selected

(* After jit_flush_to_fresh the map still leads only into arenas that      *)
(* exist.                                                                  *)
LEMMA FlushLeadsHome ==
  ASSUME LiveInv, NEW keep, FlushToFresh(keep)
  PROVE  map' \subseteq retired' \union {gen'}
<1> DEFINE kept == IF keep THEN Evicted ELSE map
<1>1. kept \subseteq map /\ map \subseteq retired \union {gen}
  BY DEF Evicted, LiveInv
<1>2. kept \subseteq Reclaimed(kept) \union {gen}
  BY <1>1 DEF Reclaimed
<1> HIDE DEF kept
<1>3. CASE /\ retired' = Reclaimed(kept) \union {gen}
           /\ map' = (IF keep THEN kept ELSE {})
  BY <1>2, <1>3
<1>4. CASE retired' = Reclaimed(kept) /\ map' = kept /\ UNCHANGED gen
  BY <1>2, <1>4
<1> QED BY <1>3, <1>4 DEF FlushToFresh, kept

(* Every step of every thread keeps running and selected code live.        *)
LEMMA LiveStep ==
  TypeOK /\ LockInv /\ SlotInv /\ FenceInv /\ LiveInv /\ [Next]_vars => LiveInv'
<1> SUFFICES ASSUME TypeOK, LockInv, SlotInv, FenceInv, LiveInv,
                    NEW t \in Threads, Quiesce(t) \/ Dispatch(t) \/ Environment(t)
             PROVE  LiveInv'
  BY DEF Next, vars, locks, barrier, cache, slot, cpu, LiveInv, Current, Selected
<1>1. CASE QuiesceLock(t)
  BY <1>1
     DEF QuiesceLock, At, Goto, Safepoint, TypeOK, LiveInv, Current, Selected,
         barrier, cache
<1>2. CASE Bump(t)
  <2>1. \A u \in Threads : Current(u)' => Current(u) /\ sel'[u] = sel[u]
    <3> SUFFICES ASSUME NEW u \in Threads, Current(u)'
                 PROVE  Current(u) /\ sel'[u] = sel[u]
      OBVIOUS
    <3>1. request' = request + 1 /\ UNCHANGED sel /\ request \in Nat
      BY <1>2 DEF Bump, TypeOK
    <3>2. sel[u].epoch \in Nat /\ sel[u].epoch <= request
      BY DEF TypeOK, SlotInv
    <3>3. pc'[u] = "run"
      BY <3>1, <3>2 DEF Current
    <3>4. pc[u] = "run"
      BY <1>2, <3>3, GotoMoves DEF Bump
    <3> QED BY <3>1, <3>4 DEF Current
  <2> QED BY <1>2, <2>1, LiveIdle DEF Bump, cache
<1>3. CASE Raise(t)
  BY <1>3
     DEF Raise, At, Goto, TypeOK, LiveInv, Current, Selected, barrier, cache
<1>4. CASE Arm(t)
  BY <1>4
     DEF Arm, At, Goto, TypeOK, LiveInv, Current, Selected, barrier, cache
<1>5. CASE Kick(t)
  BY <1>5
     DEF Kick, At, Goto, TypeOK, LiveInv, Current, Selected, barrier, cache
<1>6. CASE \E u \in Threads : WaitSlot(t, u)
  BY <1>6
     DEF WaitSlot, At, TypeOK, LiveInv, Current, Selected, barrier, cache
<1>7. CASE \E u \in Threads : AwaitSlot(t, u)
  BY <1>7
     DEF AwaitSlot, At, TypeOK, LiveInv, Current, Selected, barrier, cache
<1>8. CASE WaitDone(t)
  BY <1>8
     DEF WaitDone, At, Goto, TypeOK, LiveInv, Current, Selected, barrier, cache
<1>9. CASE Act(t)
  <2>1. /\ pc[t] = "window" /\ pc'[t] = "release" /\ UNCHANGED <<sel, request>>
        /\ \A u \in Threads : u # t => pc'[u] = pc[u] /\ ret'[u] = ret[u]
    BY <1>9, GotoMoves DEF Act, At, barrier
  <2>2. \A u \in Threads : Current(u)' => Current(u) /\ sel'[u] = sel[u]
    BY <2>1 DEF Current, Selected
  <2>3. CASE UNCHANGED cache
    BY <2>2, <2>3, LiveIdle DEF cache
  <2>4. CASE op[t] # "capture" /\ map' \subseteq retired' \union {gen'}
    <3>1. \A u \in Threads : sel[u].epoch < request /\ pc[u] # "run"
      BY <2>1, <2>4 DEF FenceInv, Fenced, InCharge, Passed
    <3>2. \A u \in Threads : ~Current(u)
      BY <3>1 DEF Current, TypeOK
    <3> QED BY <2>2, <2>4, <3>2 DEF LiveInv
  <2>5. FlushToFresh(Retain) \/ FlushToFresh(FALSE) => map' \subseteq retired' \union {gen'}
    BY FlushLeadsHome
  <2>6. Invalidate => map' \subseteq retired' \union {gen'}
    BY DEF Invalidate
  <2> QED BY <1>9, <2>3, <2>4, <2>5, <2>6 DEF Act
<1>10. CASE Release(t)
  BY <1>10
     DEF Release, At, Goto, TypeOK, LiveInv, Current, Selected, barrier, cache
<1>11. CASE Unlock(t)
  BY <1>11
     DEF Unlock, At, Goto, TypeOK, LiveInv, Current, Selected, barrier, cache
<1>12. CASE SafepointGate(t)
  <2>1. \A u \in Threads : Current(u)' => Current(u)
    <3>1. CASE gate
      BY <1>12, <3>1 DEF SafepointGate, At, TypeOK, Current, Selected, barrier
    <3>2. CASE ~gate
      <4>1. /\ pc[t] = "sp" /\ pc'[t] = ret[t] /\ ret'[t] = "top" /\ ret[t] \in ReturnPoints
            /\ \A u \in Threads : u # t => pc'[u] = pc[u] /\ ret'[u] = ret[u]
        BY <1>12, <3>2, GotoMoves DEF SafepointGate, At, TypeOK
      <4> QED BY <1>12, <4>1 DEF SafepointGate, ReturnPoints, Current, Selected, barrier
    <3> QED BY <3>1, <3>2
  <2> QED BY <1>12, <2>1, LiveIdle DEF SafepointGate, cache
<1>13. CASE SafepointAck(t)
  BY <1>13
     DEF SafepointAck, At, TypeOK, LiveInv, Current, Selected, barrier, cache
<1>14. CASE Deliver(t)
  BY <1>14
     DEF Deliver, TypeOK, LiveInv, Current, Selected, barrier, cache
<1>15. CASE HandlerGate(t)
  BY <1>15
     DEF HandlerGate, TypeOK, LiveInv, Current, Selected, barrier, cache
<1>16. CASE HandlerAck(t)
  BY <1>16
     DEF HandlerAck, TypeOK, LiveInv, Current, Selected, barrier, cache
<1>17. CASE Register(t)
  BY <1>17
     DEF Register, At, Goto, TypeOK, LiveInv, Current, Selected, barrier, cache
<1>18. CASE Enlist(t)
  BY <1>18
     DEF Enlist, At, Goto, TypeOK, LiveInv, Current, Selected, barrier, cache
<1>19. CASE Depart(t)
  BY <1>19
     DEF Depart, At, Safepoint, TypeOK, LiveInv, Current, Selected, barrier,
         cache
<1>20. CASE Delist(t)
  BY <1>20
     DEF Delist, At, Goto, TypeOK, LiveInv, Current, Selected, barrier, cache
<1>21. CASE Unregister(t)
  BY <1>21
     DEF Unregister, At, Goto, TypeOK, LiveInv, Current, Selected, barrier,
         cache
<1>22. CASE Top(t)
  BY <1>22
     DEF Top, At, Goto, Safepoint, TypeOK, LiveInv, Current, Selected,
         barrier, cache
<1>23. CASE Poll(t)
  BY <1>23
     DEF Poll, At, Goto, TypeOK, LiveInv, Current, Selected, barrier, cache
<1>24. CASE JitDispatchLock(t)
  BY <1>24
     DEF JitDispatchLock, At, Goto, Safepoint, TypeOK, LiveInv, Current,
         Selected, barrier, cache
<1>25. CASE Hit(t)
  BY <1>25
     DEF Hit, At, Select, Safepoint, TypeOK, LiveInv, Current, Selected,
         barrier, cache
<1>26. CASE Translate(t)
  BY <1>26
     DEF Translate, At, Select, Safepoint, TypeOK, LiveInv, Current, Selected,
         barrier, cache
<1>27. CASE Rotate(t)
  <2>1. /\ pc[t] = "peers" /\ pc'[t] \in {"quiesce", "translate"}
        /\ \A u \in Threads : u # t => pc'[u] = pc[u] /\ ret'[u] = ret[u]
    BY <1>27, GotoMoves DEF Rotate, At
  <2>2. \A u \in Threads : Current(u)' => Current(u) /\ sel'[u] = sel[u]
    BY <1>27, <2>1 DEF Rotate, Current, Selected, barrier
  <2>3. CASE UNCHANGED cache
    BY <2>2, <2>3, LiveIdle DEF cache
  <2>4. CASE Peers(t) = {} /\ RewindInPlace
    <3>1. \A u \in Threads : u # t => pc[u] \in {"none", "born", "gone"}
      BY <2>4 DEF Peers, SlotInv
    <3>2. \A u \in Threads : ~Current(u)'
      BY <2>1, <2>2, <3>1 DEF Current, Selected
    <3> QED BY <2>4, <3>2 DEF RewindInPlace, LiveInv
  <2> QED BY <1>27, <2>3, <2>4 DEF Rotate
<1>28. CASE Enter(t)
  <2>1. CASE Goto(t, "publish") /\ UNCHANGED sel
    <3>1. pc'[t] = "publish" /\ \A u \in Threads : u # t => pc'[u] = pc[u] /\ ret'[u] = ret[u]
      BY <2>1, GotoMoves
    <3>2. \A u \in Threads : Current(u)' => Current(u)
      BY <1>28, <2>1, <3>1 DEF Enter, At, Current, Selected, barrier
    <3> QED BY <1>28, <2>1, <3>2, LiveIdle DEF Enter, cache
  <2>2. CASE Retry(t)
    BY <1>28, <2>2, Retried, LiveIdle DEF Enter, barrier, cache
  <2> QED BY <1>28, <2>1, <2>2 DEF Enter
<1>29. CASE Publish(t)
  BY <1>29
     DEF Publish, At, Goto, TypeOK, LiveInv, Current, Selected, barrier, cache
<1>30. CASE Recheck(t)
  <2>1. CASE Goto(t, "run") /\ request = sel[t].epoch /\ UNCHANGED sel
    <3>1. pc'[t] = "run" /\ \A u \in Threads : u # t => pc'[u] = pc[u] /\ ret'[u] = ret[u]
      BY <2>1, GotoMoves
    <3>2. \A u \in Threads : Current(u)' => Current(u)
      BY <1>30, <2>1, <3>1 DEF Recheck, At, Current, Selected, barrier
    <3> QED BY <1>30, <2>1, <3>2, LiveIdle DEF Recheck, cache
  <2>2. CASE Retry(t)
    BY <1>30, <2>2, Retried, LiveIdle DEF Recheck, barrier, cache
  <2>3. CASE Safepoint(t, "enter") /\ UNCHANGED sel
    <3>1. pc'[t] = "sp" /\ \A u \in Threads : u # t => pc'[u] = pc[u] /\ ret'[u] = ret[u]
      BY <2>3, SafepointMoves
    <3>2. \A u \in Threads : Current(u)' => Current(u)
      BY <1>30, <2>3, <3>1 DEF Recheck, At, Current, Selected, barrier
    <3> QED BY <1>30, <2>3, <3>2, LiveIdle DEF Recheck, cache
  <2> QED BY <1>30, <2>1, <2>2, <2>3 DEF Recheck
<1>31. CASE Branch(t)
  BY <1>31
     DEF Branch, At, Goto, TypeOK, LiveInv, Current, Selected, barrier, cache
<1>32. CASE Service(t)
  BY <1>32
     DEF Service, At, Goto, TypeOK, LiveInv, Current, Selected, barrier, cache
<1>33. CASE NeedsRotation(t)
  BY <1>33
     DEF NeedsRotation, At, Goto, TypeOK, LiveInv, Current, Selected, barrier,
         cache
<1>34. CASE Chain(t)
  BY <1>34
     DEF Chain, At, TypeOK, LiveInv, Current, Selected, barrier, cache
<1>35. CASE Return(t)
  BY <1>35
     DEF Return, At, Safepoint, NoSelection, TypeOK, LiveInv, Current,
         Selected, barrier, cache
<1>36. CASE EndService(t)
  BY <1>36
     DEF EndService, At, Goto, TypeOK, LiveInv, Current, Selected, barrier,
         cache
<1>37. CASE Begin(t)
  BY <1>37
     DEF Begin, At, Goto, TypeOK, LiveInv, Current, Selected, barrier, cache
<1>38. CASE GiveUp(t)
  BY <1>38
     DEF GiveUp, At, Goto, TypeOK, LiveInv, Current, Selected, barrier, cache
<1>39. CASE \E u \in Threads : Spawn(t, u)
  BY <1>39
     DEF Spawn, At, TypeOK, LiveInv, Current, Selected, barrier, cache
<1> QED BY <1>1, <1>2, <1>3, <1>4, <1>5, <1>6, <1>7, <1>8, <1>9, <1>10, <1>11,
         <1>12, <1>13, <1>14, <1>15, <1>16, <1>17, <1>18, <1>19, <1>20, <1>21,
         <1>22, <1>23, <1>24, <1>25, <1>26, <1>27, <1>28, <1>29, <1>30, <1>31,
         <1>32, <1>33, <1>34, <1>35, <1>36, <1>37, <1>38, <1>39
       DEF Quiesce, Dispatch, Environment

(* The inductive invariant.                                                *)
IInv == TypeOK /\ LockInv /\ SlotInv /\ FenceInv /\ LiveInv

(* Every reachable state of every instance satisfies the invariant.        *)
THEOREM Invariance == Spec => []IInv
<1>1. Init => IInv
  BY TypeInit, LockInit, SlotInit, FenceInit, LiveInit DEF IInv
<1>2. IInv /\ [Next]_vars => IInv'
  BY TypeStep, LockStep, SlotStep, FenceStep, LiveStep DEF IInv
<1> QED BY <1>1, <1>2, PTL DEF Spec

(* Gate, epoch and the three locks are held exactly where run_guest and    *)
(* the quiescers of cache.c hold them, for any number of threads.          *)
THEOREM EpochsAreOwned == Spec => []EpochIsOwned
<1>1. IInv => EpochIsOwned
  BY DEF IInv, LockInv
<1> QED BY <1>1, Invariance, PTL

(* No thread is in translated code, and no second window is open, while a  *)
(* quiescer of cache.c works in its window.                                *)
THEOREM WindowsAreQuiet == Spec => []WindowIsQuiet
<1>1. IInv => WindowIsQuiet
  <2> SUFFICES ASSUME IInv, NEW t \in Threads, NEW u \in Threads,
                      t # u, pc[t] \in {"window", "release"}
               PROVE  pc[u] \notin {"run", "window", "release"}
    BY DEF WindowIsQuiet
  <2>1. pc[u] # "run"
    BY DEF IInv, FenceInv, Passed
  <2>2. quiesce = t /\ (pc[u] \in {"window", "release"} => quiesce = u)
    BY DEF IInv, LockInv, EpochIsOwned, GatePoints
  <2> QED BY <2>1, <2>2
<1> QED BY <1>1, Invariance, PTL

(* A thread in translated code is in an arena that is still mapped, and    *)
(* executes the guest code and mapping now in force, whatever rotations,   *)
(* reclamations and invalidations of cache.c happened.                     *)
THEOREM RunningCodeStaysLive == Spec => []RunningCodeIsLive
<1>1. IInv => RunningCodeIsLive
  BY DEF IInv, LiveInv, Current, RunningCodeIsLive
<1> QED BY <1>1, Invariance, PTL
=============================================================================
