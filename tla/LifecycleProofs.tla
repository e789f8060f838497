-------------------------- MODULE LifecycleProofs --------------------------
(***************************************************************************)
(* Proofs about Lifecycle, for any set of containers and callers, any      *)
(* generation space, any choice of policies and any bound on faults and    *)
(* crashes.                                                                *)
(*                                                                         *)
(* The record of a container is written by many handlers, so the proofs    *)
(* are in two layers: lemmas that say what a building block of the model   *)
(* (a launch, a completion, a capture...) does to the fields that matter,  *)
(* and, on top of them, one step per action.                               *)
(***************************************************************************)
EXTENDS Lifecycle, TLAPS

Answers == Results \cup {"none", "ok", "error", "empty", "notfound", "timeout", "lost"}
RecordType == record \in [Containers -> Records]
GuestType == guest \in [Containers -> [Gens -> Guests]]
LiveType == live \in [Containers -> 0 .. MaxGeneration]
CallerType == caller \in [Callers -> Calls \cup {NoCall}]
FaultType == faults \in 0 .. MaxStorageFaults
SmallType ==
  /\ timer \in [Containers -> [Gens -> {"none", "finish", "recover"}]]
  /\ restarts \in [Containers -> 0 .. MaxGeneration]
  /\ cleanup \in [Containers -> {"none", "reaping", "poisoned"}]
  /\ failures \in [Containers -> BOOLEAN]
  /\ exits \in [Containers -> Results \cup {"none"}]
  /\ reclaim \in [Containers -> Results \cup {"none"}]
  /\ daemon \in {"up", "down"}
  /\ crashes \in 0 .. MaxCrashes
SweepType == sweep \in Sweeps

(* The parts of the type invariant, and constants that inhabit its sets.   *)
LEMMA TypeParts ==
  /\ TypeOK <=> /\ RecordType /\ GuestType /\ LiveType /\ CallerType
                /\ FaultType /\ SmallType /\ SweepType
  /\ NoGen \in 0 .. MaxGeneration
  /\ Gens \subseteq 0 .. MaxGeneration
<1>1. NoGen \in 0 .. MaxGeneration /\ Gens \subseteq 0 .. MaxGeneration
  BY LifecycleAssumption DEF LifecycleAssumption, NoGen, Gens
<1> QED BY <1>1 DEF TypeOK, RecordType, GuestType, LiveType, CallerType, FaultType,
                    SmallType, SweepType

-----------------------------------------------------------------------------
(* Type correctness.                                                       *)

(* The initial maps of the service are well typed.                         *)
LEMMA InitType == Init => TypeOK
BY LifecycleAssumption
DEF LifecycleAssumption, Init, TypeOK, Records, Guests, Sweeps, NoGuest, NoCall,
    NoSweep, NoGen, Gens, States, Phases, FreshRestart, RestartPolicies, Results

(* notify_waiters only moves calls from "parked" to "look".                *)
LEMMA NotifiedType ==
  ASSUME TypeOK, NEW c \in Containers
  PROVE  Notified(c) \in [Callers -> Calls \cup {NoCall}]
<1> SUFFICES ASSUME NEW k \in Callers, caller[k].pc = "parked"
             PROVE  [caller[k] EXCEPT !.pc = "look"] \in Calls
  BY DEF TypeOK, Notified
<1>1. caller[k] \in Calls
  BY DEF TypeOK, NoCall
<1> QED BY <1>1 DEF Calls

(* A call in progress ends as a well-typed call.                           *)
LEMMA EndedType ==
  ASSUME TypeOK, NEW k \in Callers, caller[k].pc # "idle", NEW a \in Answers
  PROVE  Ended(k, a) \in Calls
<1>1. caller[k] \in Calls
  BY DEF TypeOK, NoCall
<1>2. 0 \in 0 .. MaxGeneration
  BY LifecycleAssumption DEF LifecycleAssumption
<1> QED BY <1>1, <1>2 DEF Ended, Calls, Answers, NoGen

(* A call in progress concerns a container.                                *)
LEMMA CallTarget ==
  ASSUME TypeOK, NEW k \in Callers, caller[k].pc # "idle"
  PROVE  caller[k] \in Calls /\ caller[k].c \in Containers
BY DEF TypeOK, NoCall, Calls

(* Moving a call to another step keeps it well typed.                      *)
LEMMA StepType ==
  ASSUME TypeOK, NEW k \in Callers, caller[k].pc # "idle",
         NEW p \in {"read", "unpause", "signal", "kill", "enter", "look", "parked",
                    "remove", "done"}
  PROVE  [caller[k] EXCEPT !.pc = p] \in Calls
BY CallTarget DEF Calls

(* launch_locked writes a well-typed record, process and owner.            *)
LEMMA LaunchType ==
  ASSUME TypeOK, NEW c \in Containers, NEW e \in BOOLEAN, LaunchPublishes(c, e)
  PROVE  RecordType' /\ GuestType' /\ LiveType'
<1> DEFINE n == record[c].gen + 1
<1>1. n \in Gens /\ n \in 0 .. MaxGeneration
  BY LifecycleAssumption
  DEF LifecycleAssumption, TypeOK, LaunchPublishes, LaunchRefused, Records, Gens
<1>2. Started(record[c].restart, e) \in [count : Nat, manual : BOOLEAN]
  <2>1. record[c].restart \in [count : Nat, manual : BOOLEAN]
    BY DEF TypeOK, Records
  <2>2. [record[c].restart EXCEPT !.count = record[c].restart.count + 1]
          \in [count : Nat, manual : BOOLEAN]
    BY <2>1
  <2>3. FreshRestart \in [count : Nat, manual : BOOLEAN]
    BY DEF FreshRestart
  <2> QED BY <2>2, <2>3 DEF Started
<1>3. Launched(c, e) \in Records
  <2> HIDE DEF n
  <2> DEFINE s == Started(record[c].restart, e)
  <2>1. Launched(c, e) = [record[c] EXCEPT !.st = "running", !.gen = n,
          !.result = "none", !.ckpt = FALSE, !.diag = FALSE, !.restart = s]
    BY DEF Launched, n, TypeOK, Records
  <2> HIDE DEF s
  <2>2. record[c] \in Records /\ s \in [count : Nat, manual : BOOLEAN]
    BY <1>2 DEF TypeOK, s
  <2> QED BY <1>1, <2>1, <2>2 DEF Records, States, Results
<1>5. RecordType'
  BY <1>3 DEF TypeOK, RecordType, LaunchPublishes
<1>6. GuestType' /\ LiveType'
  BY <1>1 DEF TypeOK, LaunchPublishes, Guests, Phases, GuestType, LiveType
<1> QED BY <1>5, <1>6

(* A failed launch leaves a well-typed quarantine.                         *)
LEMMA LaunchFailsType ==
  ASSUME TypeOK, NEW c \in Containers, NEW rolled \in BOOLEAN, LaunchFails(c, rolled)
  PROVE  cleanup' \in [Containers -> {"none", "reaping", "poisoned"}]
BY DEF TypeOK, LaunchFails, ReapOutcomes

(* finish() computes a well-typed record.                                  *)
LEMMA CompletedType ==
  ASSUME TypeOK, NEW c \in Containers, NEW g \in Gens, NEW long \in BOOLEAN
  PROVE  /\ Completed(c, guest[c][g].result, long) \in Records
         /\ Completed(c, guest[c][g].result, long).st \in {"restarting", "exited"}
         /\ Completed(c, guest[c][g].result, long).result \in Results \cup {"none"}
         /\ Completed(c, guest[c][g].result, long).gen = record[c].gen
         /\ Completed(c, guest[c][g].result, long).publish = record[c].publish
<1> DEFINE r == record[c]
           s == IF guest[c][g].result = "error" THEN "fault" ELSE guest[c][g].result
<1>1. r \in Records /\ guest[c][g] \in Guests
  BY DEF TypeOK
<1>2. CompletedRun(r.restart, long) \in [count : Nat, manual : BOOLEAN]
  BY <1>1 DEF CompletedRun, Records
<1>3. s \in Results \cup {"none"}
  BY <1>1 DEF Guests, Results
<1>4. PICK t \in {"restarting", "exited"} : Completed(c, guest[c][g].result, long) =
        [r EXCEPT !.st = t, !.result = s, !.restart = CompletedRun(r.restart, long),
                  !.diag = (guest[c][g].result = "error")]
  BY DEF Completed
<1> QED BY <1>1, <1>2, <1>3, <1>4 DEF Records, States

(* A well-typed record stays well typed when one field is rewritten.       *)
LEMMA FieldType ==
  ASSUME NEW r \in Records
  PROVE  /\ \A x \in States : [r EXCEPT !.st = x] \in Records
         /\ \A x \in Results \cup {"none"} : [r EXCEPT !.result = x] \in Records
         /\ \A x \in [count : Nat, manual : BOOLEAN] : [r EXCEPT !.restart = x] \in Records
         /\ \A x \in BOOLEAN : [r EXCEPT !.ckpt = x] \in Records
         /\ \A x \in RestartPolicies : [r EXCEPT !.policy = x] \in Records
         /\ \A x \in BOOLEAN : [r EXCEPT !.auto = x] \in Records
         /\ \A x \in SUBSET Ports : [r EXCEPT !.publish = x] \in Records
         /\ r.st \in States
         /\ r.gen \in 0 .. MaxGeneration
         /\ r.result \in Results \cup {"none"}
         /\ r.restart \in [count : Nat, manual : BOOLEAN]
         /\ Manual(r.restart) \in [count : Nat, manual : BOOLEAN]
<1>1. \A x \in States : [r EXCEPT !.st = x] \in Records
  BY DEF Records
<1>2. \A x \in Results \cup {"none"} : [r EXCEPT !.result = x] \in Records
  BY DEF Records
<1>3. \A x \in [count : Nat, manual : BOOLEAN] : [r EXCEPT !.restart = x] \in Records
  BY DEF Records
<1>4. \A x \in BOOLEAN : [r EXCEPT !.ckpt = x] \in Records
  BY DEF Records
<1>5. \A x \in RestartPolicies : [r EXCEPT !.policy = x] \in Records
  BY DEF Records
<1>6. \A x \in BOOLEAN : [r EXCEPT !.auto = x] \in Records
  BY DEF Records
<1>7. \A x \in SUBSET Ports : [r EXCEPT !.publish = x] \in Records
  BY DEF Records
<1>8. /\ r.st \in States
      /\ r.gen \in 0 .. MaxGeneration
      /\ r.result \in Results \cup {"none"}
      /\ r.restart \in [count : Nat, manual : BOOLEAN]
  BY DEF Records
<1>9. Manual(r.restart) \in [count : Nat, manual : BOOLEAN]
  BY <1>8 DEF Manual
<1> QED BY <1>1, <1>2, <1>3, <1>4, <1>5, <1>6, <1>7, <1>8, <1>9

(* Storing a well-typed record keeps all of them well typed.               *)
LEMMA StoreType ==
  ASSUME TypeOK, NEW c \in Containers
  PROVE  /\ record[c] \in Records
         /\ \A r \in Records : [record EXCEPT ![c] = r] \in [Containers -> Records]
<1>1. record \in [Containers -> Records]
  BY DEF TypeOK
<1> QED BY <1>1

(* Advancing a process keeps all of them well typed.                       *)
LEMMA GuestStoreType ==
  ASSUME TypeOK, NEW c \in Containers, NEW g \in Gens
  PROVE  /\ guest[c][g] \in Guests
         /\ \A x \in Guests : [guest EXCEPT ![c][g] = x] \in [Containers -> [Gens -> Guests]]
         /\ \A p \in Phases :
              [guest EXCEPT ![c][g].phase = p] \in [Containers -> [Gens -> Guests]]
<1>1. guest \in [Containers -> [Gens -> Guests]]
  BY DEF TypeOK
<1>2. guest[c][g] \in Guests
  BY <1>1
<1>3. \A x \in Guests : [guest EXCEPT ![c][g] = x] \in [Containers -> [Gens -> Guests]]
  BY <1>1
<1>4. ASSUME NEW p \in Phases
      PROVE  [guest EXCEPT ![c][g].phase = p] \in [Containers -> [Gens -> Guests]]
  <2>1. [guest[c][g] EXCEPT !.phase = p] \in Guests
    BY <1>2 DEF Guests
  <2>2. [guest EXCEPT ![c][g].phase = p] =
        [guest EXCEPT ![c][g] = [guest[c][g] EXCEPT !.phase = p]]
    BY <1>1
  <2> QED BY <1>3, <2>1, <2>2
<1> QED BY <1>2, <1>3, <1>4

(* The handlers of the mutex that only rewrite a status.                   *)
LEMMA StatusType ==
  ASSUME TypeOK, NEW c \in Containers, NEW st \in States
  PROVE  [record EXCEPT ![c].st = st] \in [Containers -> Records]
<1>1. [record EXCEPT ![c].st = st] = [record EXCEPT ![c] = [record[c] EXCEPT !.st = st]]
  OBVIOUS
<1> QED BY <1>1, StoreType, FieldType

(* An owned process has a generation.                                      *)
LEMMA LiveGen ==
  ASSUME TypeOK, NEW c \in Containers
  PROVE  live[c] \in Gens \/ live[c] = NoGen
<1>1. live[c] \in 0 .. MaxGeneration
  BY DEF TypeOK
<1> QED BY <1>1, LifecycleAssumption DEF LifecycleAssumption, NoGen, Gens

(* Pausing and resuming keep the record and the process well typed.        *)
LEMMA PauseType ==
  ASSUME TypeOK, NEW c \in Containers, NEW from, NEW to \in States,
         NEW phase \in Phases, PauseLocked(c, from, to, phase)
  PROVE  RecordType' /\ GuestType'
<1>1. RecordType'
  BY StatusType DEF PauseLocked, RecordType
<1>2. live[c] \in Gens
  BY LiveGen DEF PauseLocked
<1>3. PICK p \in Phases : guest' = [guest EXCEPT ![c][live[c]].phase = p]
  <2>1. guest[c][live[c]].phase = "killed" \/ guest[c][live[c]].phase # "killed"
    OBVIOUS
  <2> QED BY <2>1 DEF PauseLocked, Phases
<1> QED BY <1>1, <1>2, <1>3, GuestStoreType DEF GuestType

(* Killing a process keeps the processes well typed.                       *)
LEMMA KilledType ==
  ASSUME TypeOK, NEW c \in Containers
  PROVE  Killed(c) \in [Containers -> [Gens -> Guests]]
<1>1. CASE live[c] = NoGen
  BY <1>1 DEF Killed, TypeOK
<1>2. CASE live[c] \in Gens
  <2>1. "killed" \in Phases
    BY DEF Phases
  <2>2. guest \in [Containers -> [Gens -> Guests]]
    BY DEF TypeOK
  <2> QED BY <1>2, <2>1, <2>2, GuestStoreType DEF Killed
<1> QED BY <1>1, <1>2, LiveGen

(* Stopping or continuing a process keeps the processes well typed.        *)
LEMMA StoppedType ==
  ASSUME TypeOK, NEW c \in Containers
  PROVE  Stopped(c) \subseteq [Containers -> [Gens -> Guests]]
<1>1. guest \in [Containers -> [Gens -> Guests]]
  BY DEF TypeOK
<1>2. CASE live[c] = NoGen
  BY <1>1, <1>2 DEF Stopped
<1>3. CASE live[c] \in Gens
  <2>1. \A p \in {"up", "frozen"} :
          [guest EXCEPT ![c][live[c]].phase = p] \in [Containers -> [Gens -> Guests]]
    BY <1>1, <1>3, GuestStoreType DEF Phases
  <2> QED BY <1>1, <2>1 DEF Stopped
<1> QED BY <1>2, <1>3, LiveGen

(* Cancelling a pending restart keeps the record well typed.               *)
LEMMA CancelType ==
  ASSUME TypeOK, NEW c \in Containers
  PROVE  /\ Cancelled(c) \in Records
         /\ CancelsRestart(c) => RecordType' /\ restarts' \in [Containers -> 0 .. MaxGeneration]
<1> DEFINE m == Manual(record[c].restart)
           r == [record[c] EXCEPT !.st = "exited"]
<1>1. r \in Records /\ m \in [count : Nat, manual : BOOLEAN]
  BY StoreType, FieldType DEF States
<1>2. [r EXCEPT !.restart = m] \in Records
  <2> HIDE DEF m, r
  <2> QED BY <1>1, FieldType
<1>3. Cancelled(c) = [r EXCEPT !.restart = m]
  BY DEF Cancelled
<1>4. NoGen \in 0 .. MaxGeneration
  BY LifecycleAssumption DEF LifecycleAssumption, NoGen
<1>5. restarts \in [Containers -> 0 .. MaxGeneration]
  BY DEF TypeOK
<1> HIDE DEF m, r
<1>6. Cancelled(c) \in Records
  BY <1>2, <1>3
<1> QED BY <1>4, <1>5, <1>6, StoreType DEF RecordType, CancelsRestart

(* A manual stop of a running container keeps the record well typed.       *)
LEMMA MarkType ==
  ASSUME TypeOK, NEW c \in Containers
  PROVE  [record EXCEPT ![c].restart = Manual(@)] \in [Containers -> Records]
<1> DEFINE m == Manual(record[c].restart)
<1>1. m \in [count : Nat, manual : BOOLEAN]
  BY StoreType, FieldType
<1>2. [record EXCEPT ![c].restart = Manual(@)] =
      [record EXCEPT ![c] = [record[c] EXCEPT !.restart = m]]
  OBVIOUS
<1> HIDE DEF m
<1> QED BY <1>1, <1>2, StoreType, FieldType

(* The record of a captured container is well typed.                       *)
LEMMA CapturedType ==
  ASSUME TypeOK, NEW c \in Containers
  PROVE  Captured(c) \in Records
<1> DEFINE m == Manual(record[c].restart)
           r1 == [record[c] EXCEPT !.st = "exited"]
           r2 == [r1 EXCEPT !.result = "zero"]
           r3 == [r2 EXCEPT !.ckpt = TRUE]
<1>1. r1 \in Records /\ m \in [count : Nat, manual : BOOLEAN]
  BY StoreType, FieldType DEF States
<1>5. Captured(c) = [r3 EXCEPT !.restart = m]
  BY DEF Captured
<1> HIDE DEF m, r1
<1>2. r2 \in Records
  BY <1>1, FieldType DEF Results
<1> HIDE DEF r2
<1>3. r3 \in Records
  BY <1>2, FieldType
<1> HIDE DEF r3
<1> QED BY <1>1, <1>3, <1>5, FieldType

(* Both outcomes of checkpoint_locked are well typed.                      *)
LEMMA CheckpointType ==
  ASSUME TypeOK, NEW c \in Containers, Capturable(c),
         CheckpointSucceeds(c) \/ CheckpointFails(c)
  PROVE  RecordType' /\ GuestType' /\ LiveType' /\ CallerType' /\ FaultType'
<1>1. live[c] \in Gens
  BY LifecycleAssumption DEF LifecycleAssumption, TypeOK, Capturable, NoGen, Gens
<1>2. RecordType'
  <2>1. record' = record \/ record' = [record EXCEPT ![c] = Captured(c)]
    BY DEF CheckpointSucceeds, CheckpointFails, CaptureRefused, CaptureUnrecorded,
        MembersUnrecorded, CaptureWedged
  <2> QED BY <2>1, CapturedType, StoreType, TypeParts DEF RecordType
<1>3. GuestType'
  <2>1. \A p \in Phases, r \in {"zero", "error"} :
          [guest EXCEPT ![c][live[c]] = [phase |-> p, result |-> r]]
            \in [Containers -> [Gens -> Guests]]
    BY <1>1, GuestStoreType DEF Guests
  <2>2. Released(c) \in [Containers -> [Gens -> Guests]]
    BY <2>1 DEF Released, Phases
  <2>3. guest' = guest \/ guest' = Released(c)
        \/ \E p \in {"exited", "abandoned"} :
             guest' = [guest EXCEPT ![c][live[c]] = [phase |-> p, result |-> "error"]]
    BY DEF CheckpointSucceeds, CheckpointFails, CaptureRefused, CaptureUnrecorded,
        MembersUnrecorded, CaptureWedged
  <2>4. ASSUME NEW p \in {"exited", "abandoned"},
               guest' = [guest EXCEPT ![c][live[c]] = [phase |-> p, result |-> "error"]]
        PROVE  guest' \in [Containers -> [Gens -> Guests]]
    <3>1. p \in Phases
      BY DEF Phases
    <3> QED BY <2>1, <2>4, <3>1
  <2>5. guest \in [Containers -> [Gens -> Guests]]
    BY TypeParts DEF GuestType
  <2> QED BY <2>2, <2>3, <2>4, <2>5 DEF GuestType
<1>4. LiveType'
  BY TypeParts DEF LiveType, CheckpointSucceeds, CheckpointFails, CaptureRefused, CaptureUnrecorded,
        MembersUnrecorded, CaptureWedged
<1>5. CallerType'
  <2>1. caller' = caller \/ caller' = Notified(c)
    BY DEF CheckpointSucceeds, CheckpointFails, CaptureRefused, CaptureUnrecorded,
        MembersUnrecorded, CaptureWedged
  <2> QED BY <2>1, NotifiedType, TypeParts DEF CallerType
<1>6. FaultType'
  BY TypeParts, LifecycleAssumption
  DEF LifecycleAssumption, FaultType, CheckpointSucceeds, CheckpointFails, CaptureRefused, CaptureUnrecorded,
        MembersUnrecorded, CaptureWedged,
      Charge
<1> QED BY <1>2, <1>3, <1>4, <1>5, <1>6

(* What wait() finds is an answer.                                         *)
LEMMA AnswerType ==
  ASSUME TypeOK, NEW k \in Callers, caller[k].pc # "idle"
  PROVE  Answer(k) \in Answers
<1>1. caller[k] \in Calls /\ caller[k].c \in Containers
  BY CallTarget
<1>2. /\ caller[k].exit \in Results \cup {"none"}
      /\ exits[caller[k].c] \in Results \cup {"none"}
      /\ record[caller[k].c].result \in Results \cup {"none"}
  BY <1>1 DEF TypeOK, Calls, Records
<1> QED BY <1>2, Zenon DEF Answer, Answers

(* The parts make up the invariant of the next state.                      *)
LEMMA TypeAssembly ==
  ASSUME RecordType', GuestType', LiveType', CallerType', FaultType', SmallType', SweepType'
  PROVE  TypeOK'
BY DEF TypeOK, RecordType, GuestType, LiveType, CallerType, FaultType, SmallType, SweepType

(* Parts whose variables do not change.                                    *)
LEMMA TypeUnchanged ==
  ASSUME TypeOK
  PROVE  /\ UNCHANGED record => RecordType'
         /\ UNCHANGED guest => GuestType'
         /\ UNCHANGED live => LiveType'
         /\ UNCHANGED caller => CallerType'
         /\ UNCHANGED faults => FaultType'
         /\ UNCHANGED <<timer, restarts, cleanup, failures, exits, reclaim, daemon, crashes>>
              => SmallType'
         /\ UNCHANGED sweep => SweepType'
BY TypeParts
DEF RecordType, GuestType, LiveType, CallerType, FaultType, SmallType, SweepType

(* A write that fails is one of the bounded faults.                        *)
LEMMA ChargeType ==
  ASSUME TypeOK, NEW ok \in BOOLEAN, Charge(ok), ok \/ faults < MaxStorageFaults
  PROVE  FaultType'
BY TypeParts, LifecycleAssumption DEF LifecycleAssumption, FaultType, Charge

(* Creation and launch by a client.                                        *)
LEMMA CreateType ==
  ASSUME TypeOK, NEW c \in Containers, Create(c)
  PROVE  TypeOK'
<1>1. PICK p \in Policies, a \in AutoRemoval, ports \in SUBSET Ports :
        record' = [record EXCEPT ![c] = [record[c] EXCEPT !.st = "created", !.policy = p,
                                                          !.auto = a, !.publish = ports]]
  BY DEF Create
<1> DEFINE r1 == [record[c] EXCEPT !.st = "created"]
           r2 == [r1 EXCEPT !.policy = p]
           r3 == [r2 EXCEPT !.auto = a]
           r4 == [r3 EXCEPT !.publish = ports]
<1>2. record' = [record EXCEPT ![c] = r4]
  BY <1>1
<1>3. p \in RestartPolicies /\ a \in BOOLEAN /\ "created" \in States
  BY LifecycleAssumption DEF LifecycleAssumption, States
<1>4. r1 \in Records
  BY <1>3, StoreType, FieldType
<1> HIDE DEF r1
<1>5. r2 \in Records
  BY <1>3, <1>4, FieldType
<1> HIDE DEF r2
<1>6. r3 \in Records
  BY <1>3, <1>5, FieldType
<1> HIDE DEF r3
<1>7. r4 \in Records
  BY <1>6, FieldType
<1> HIDE DEF r4
<1>8. RecordType'
  BY <1>2, <1>7, StoreType DEF RecordType
<1> QED BY <1>8, TypeUnchanged, TypeAssembly DEF Create, volatile

(* Service::start keeps the types.                                         *)
LEMMA StartType ==
  ASSUME TypeOK, NEW c \in Containers, Start(c)
  PROVE  TypeOK'
<1>1. RecordType' /\ GuestType' /\ LiveType'
  BY LaunchType, TypeUnchanged DEF Start
<1>2. CallerType' /\ SweepType'
  BY TypeUnchanged DEF Start
<1>3. FaultType'
  BY TypeUnchanged, ChargeType DEF Start, LaunchFails
<1>4. SmallType'
  <2>1. cleanup' \in [Containers -> {"none", "reaping", "poisoned"}]
    BY LaunchFailsType, TypeParts DEF Start, SmallType
  <2> QED BY <2>1, TypeParts DEF Start, SmallType
<1> QED BY <1>1, <1>2, <1>3, <1>4, TypeAssembly

(* A quarantine that ends keeps the types.                                 *)
LEMMA LateReapType ==
  ASSUME TypeOK, NEW c \in Containers, SettleLateReap(c)
  PROVE  TypeOK'
<1>1. SmallType'
  BY TypeParts DEF SettleLateReap, ReapOutcomes, SmallType
<1> QED BY <1>1, TypeUnchanged, TypeAssembly DEF SettleLateReap

(* A process that ends keeps the types.                                    *)
LEMMA ExitType ==
  ASSUME TypeOK, NEW c \in Containers, NEW g \in Gens,
         GuestExits(c, g) \/ AbandonedExits(c, g)
  PROVE  TypeOK'
<1>1. GuestType'
  <2>1. CASE GuestExits(c, g)
    <3>1. PICK r \in {"zero", "nonzero", "error"} :
            guest' = [guest EXCEPT ![c][g] = [phase |-> "exited", result |-> r]]
      BY <2>1 DEF GuestExits
    <3>2. [phase |-> "exited", result |-> r] \in Guests
      BY DEF Guests, Phases
    <3> QED BY <3>1, <3>2, GuestStoreType DEF GuestType
  <2>2. CASE AbandonedExits(c, g)
    <3>1. "settled" \in Phases
      BY DEF Phases
    <3> QED BY <2>2, <3>1, GuestStoreType DEF GuestType, AbandonedExits
  <2> QED BY <2>1, <2>2
<1> QED BY <1>1, TypeUnchanged, TypeAssembly DEF GuestExits, AbandonedExits

(* A failed append keeps the types.                                        *)
LEMMA LogFailsType ==
  ASSUME TypeOK, NEW c \in Containers, NEW g \in Gens, LogFails(c, g)
  PROVE  TypeOK'
<1>1. SmallType'
  BY TypeParts DEF LogFails, SmallType
<1>2. FaultType'
  BY ChargeType DEF LogFails
<1> QED BY <1>1, <1>2, TypeUnchanged, TypeAssembly DEF LogFails

(* finish() keeps the types.                                               *)
LEMMA FinishType ==
  ASSUME TypeOK, NEW c \in Containers, NEW g \in Gens, Finish(c, g)
  PROVE  TypeOK'
<1>1. GuestType'
  <2>1. "settled" \in Phases
    BY DEF Phases
  <2> QED BY <2>1, GuestStoreType DEF Finish, GuestType
<1>2. SweepType'
  BY TypeUnchanged DEF Finish
<1>3. CASE FinishStale(c, g)
  BY <1>1, <1>2, <1>3, TypeUnchanged, TypeAssembly DEF Finish, FinishStale
<1>4. CASE FinishUnpersisted(c, g)
  <2>1. SmallType'
    BY <1>4, TypeParts DEF Finish, FinishUnpersisted, SmallType
  <2>2. FaultType'
    BY <1>4, ChargeType DEF FinishUnpersisted
  <2> QED BY <1>1, <1>2, <1>4, <2>1, <2>2, TypeUnchanged, TypeAssembly
          DEF FinishUnpersisted
<1>5. CASE FinishPublished(c, g)
  <2>1. PICK long \in BOOLEAN :
          LET r == Completed(c, guest[c][g].result, long)
              again == r.st = "restarting" /\ live[c] # NoGen IN
          /\ record' = [record EXCEPT ![c] = r]
          /\ timer' = IF again THEN [timer EXCEPT ![c][g] = "finish"] ELSE timer
          /\ restarts' = IF again THEN [restarts EXCEPT ![c] = g] ELSE restarts
          /\ reclaim' = IF r.st = "exited" /\ r.auto
                        THEN [reclaim EXCEPT ![c] = r.result] ELSE reclaim
    BY <1>5 DEF FinishPublished
  <2> DEFINE r == Completed(c, guest[c][g].result, long)
  <2>2. r \in Records /\ r.result \in Results \cup {"none"}
    BY CompletedType
  <2>3. /\ record' = [record EXCEPT ![c] = r]
        /\ timer' = timer \/ timer' = [timer EXCEPT ![c][g] = "finish"]
        /\ restarts' = restarts \/ restarts' = [restarts EXCEPT ![c] = g]
        /\ reclaim' = reclaim \/ reclaim' = [reclaim EXCEPT ![c] = r.result]
    BY <2>1
  <2> HIDE DEF r
  <2>4. RecordType'
    BY <2>2, <2>3, StoreType DEF RecordType
  <2>5. LiveType'
    BY <1>5, TypeParts DEF FinishPublished, LiveType
  <2>6. CallerType'
    BY <1>5, NotifiedType DEF FinishPublished, CallerType
  <2>7. SmallType'
    BY <1>5, <2>2, <2>3, TypeParts DEF Finish, FinishPublished, SmallType
  <2> QED BY <1>1, <1>2, <1>5, <2>4, <2>5, <2>6, <2>7, TypeUnchanged, TypeAssembly
          DEF FinishPublished
<1> QED BY <1>3, <1>4, <1>5 DEF Finish

(* restart() and its cancellation keep the types.                          *)
LEMMA TimerType ==
  ASSUME TypeOK, NEW c \in Containers, NEW g \in Gens,
         TimerFires(c, g) \/ TimerCancelled(c, g)
  PROVE  TypeOK'
<1>1. /\ timer' \in [Containers -> [Gens -> {"none", "finish", "recover"}]]
      /\ restarts' \in [Containers -> 0 .. MaxGeneration]
  <2>1. timer' = [timer EXCEPT ![c][g] = "none"]
    BY DEF TimerFires, TimerCancelled
  <2>2. restarts' = restarts \/ restarts' = [restarts EXCEPT ![c] = NoGen]
    BY DEF TimerFires, TimerCancelled
  <2> QED BY <2>1, <2>2, TypeParts DEF SmallType
<1>2. SweepType'
  BY TypeUnchanged DEF TimerFires, TimerCancelled
<1>3. CASE TimerCancelled(c, g)
  <2>1. SmallType'
    BY <1>1, <1>3, TypeParts DEF TimerCancelled, SmallType
  <2> QED BY <1>3, <2>1, TypeUnchanged, TypeAssembly DEF TimerCancelled
<1>4. CASE TimerFires(c, g) /\ RestartStale(c, g)
  <2>1. SmallType'
    BY <1>1, <1>4, TypeParts DEF TimerFires, RestartStale, SmallType
  <2> QED BY <1>4, <2>1, TypeUnchanged, TypeAssembly DEF TimerFires, RestartStale
<1>5. CASE TimerFires(c, g) /\ RestartLaunches(c, g)
  <2>1. SmallType'
    BY <1>1, <1>5, TypeParts DEF TimerFires, RestartLaunches, SmallType
  <2>2. RecordType' /\ GuestType' /\ LiveType'
    BY <1>5, LaunchType DEF RestartLaunches
  <2> QED BY <1>5, <2>1, <2>2, TypeUnchanged, TypeAssembly DEF TimerFires, RestartLaunches
<1>6. CASE TimerFires(c, g) /\ RestartFails(c, g)
  <2>1. PICK rolled \in BOOLEAN, ok \in BOOLEAN :
          LET lost == (IF rolled THEN 1 ELSE 0) + (IF ok THEN 0 ELSE 1) IN
          /\ faults + lost <= MaxStorageFaults
          /\ LaunchFails(c, rolled)
          /\ record' = IF ok THEN [record EXCEPT ![c] =
                                    [@ EXCEPT !.st = "exited", !.result = "fault"]]
                             ELSE record
          /\ failures' = IF ok THEN failures ELSE [failures EXCEPT ![c] = TRUE]
          /\ faults' = faults + lost
    BY <1>6 DEF RestartFails
  <2>2. FaultType'
    BY <2>1, TypeParts, LifecycleAssumption DEF LifecycleAssumption, FaultType
  <2>3. RecordType'
    <3> DEFINE r1 == [record[c] EXCEPT !.st = "exited"]
               r2 == [r1 EXCEPT !.result = "fault"]
    <3>1. record' = record \/ record' = [record EXCEPT ![c] = r2]
      BY <2>1
    <3>2. r1 \in Records
      BY StoreType, FieldType DEF States
    <3> HIDE DEF r1
    <3>3. r2 \in Records
      BY <3>2, FieldType DEF Results
    <3> HIDE DEF r2
    <3> QED BY <3>1, <3>3, StoreType, TypeParts DEF RecordType
  <2>4. CallerType'
    BY <1>6, NotifiedType DEF RestartFails, CallerType
  <2>5. cleanup' \in [Containers -> {"none", "reaping", "poisoned"}]
    BY <2>1, LaunchFailsType
  <2>6. failures' \in [Containers -> BOOLEAN]
    BY <2>1, TypeParts DEF SmallType
  <2>7. SmallType'
    BY <1>1, <1>6, <2>5, <2>6, TypeParts DEF TimerFires, SmallType
  <2> QED BY <1>6, <2>2, <2>3, <2>4, <2>7, TypeUnchanged, TypeAssembly
          DEF TimerFires, RestartFails
<1> QED BY <1>3, <1>4, <1>5, <1>6 DEF TimerFires

(* Pausing and resuming by a client keep the types.                        *)
LEMMA PauseActionsType ==
  ASSUME TypeOK, NEW c \in Containers, Pause(c) \/ Unpause(c)
  PROVE  TypeOK'
<1>1. RecordType' /\ GuestType'
  BY PauseType DEF Pause, Unpause, States, Phases
<1> QED BY <1>1, TypeUnchanged, TypeAssembly DEF Pause, Unpause

(* A policy update keeps the types.                                        *)
LEMMA UpdateType ==
  ASSUME TypeOK, NEW c \in Containers, Update(c)
  PROVE  TypeOK'
<1>1. PICK p \in Policies :
        \E x \in {"exited", record[c].st} :
          record' = [record EXCEPT ![c] = [record[c] EXCEPT !.policy = p, !.st = x]]
  BY DEF Update
<1>2. PICK x \in {"exited", record[c].st} :
        record' = [record EXCEPT ![c] = [record[c] EXCEPT !.policy = p, !.st = x]]
  BY <1>1
<1> DEFINE r1 == [record[c] EXCEPT !.policy = p]
           r2 == [r1 EXCEPT !.st = x]
<1>3. record' = [record EXCEPT ![c] = r2]
  BY <1>2
<1>4. p \in RestartPolicies /\ x \in States
  BY LifecycleAssumption, StoreType, FieldType DEF LifecycleAssumption, States
<1>5. r1 \in Records
  BY <1>4, StoreType, FieldType
<1> HIDE DEF r1
<1>6. r2 \in Records
  BY <1>4, <1>5, FieldType
<1> HIDE DEF r2
<1>7. RecordType'
  BY <1>3, <1>6, StoreType DEF RecordType
<1>8. SmallType'
  <2>1. restarts' = restarts \/ restarts' = [restarts EXCEPT ![c] = NoGen]
    BY DEF Update
  <2> QED BY <2>1, TypeParts DEF Update, SmallType
<1>9. CallerType'
  <2>1. caller' = caller \/ caller' = Notified(c)
    BY DEF Update
  <2> QED BY <2>1, NotifiedType, TypeParts DEF CallerType
<1> QED BY <1>7, <1>8, <1>9, TypeUnchanged, TypeAssembly DEF Update

(* Discarding a checkpoint keeps the types.                                *)
LEMMA DiscardType ==
  ASSUME TypeOK, NEW c \in Containers, DiscardCheckpoint(c)
  PROVE  TypeOK'
<1>1. record' = [record EXCEPT ![c] = [record[c] EXCEPT !.ckpt = FALSE]]
  BY DEF DiscardCheckpoint
<1>2. RecordType'
  BY <1>1, StoreType, FieldType DEF RecordType
<1> QED BY <1>2, TypeUnchanged, TypeAssembly DEF DiscardCheckpoint, volatile

(* Both outcomes of remove() under the mutex are well typed.               *)
LEMMA RemoveLockedType ==
  ASSUME TypeOK, NEW c \in Containers, NEW x \in Results \cup {"none"}
  PROVE  /\ RemoveLocked(c, x) =>
              /\ RecordType' /\ exits' \in [Containers -> Results \cup {"none"}]
              /\ failures' \in [Containers -> BOOLEAN]
         /\ RemoveFails(c) => RecordType' /\ FaultType' /\ UNCHANGED exits
<1>1. "removed" \in States
  BY DEF States
<1>2. RemoveLocked(c, x) => RecordType'
  BY <1>1, StatusType DEF RemoveLocked, RecordType
<1>3. RemoveLocked(c, x) => exits' \in [Containers -> Results \cup {"none"}]
                            /\ failures' \in [Containers -> BOOLEAN]
  BY TypeParts DEF RemoveLocked, SmallType
<1>4. RemoveFails(c) => RecordType'
  BY <1>1, StatusType, TypeParts DEF RemoveFails, RecordType
<1>5. RemoveFails(c) => FaultType' /\ UNCHANGED exits
  BY ChargeType DEF RemoveFails
<1> QED BY <1>2, <1>3, <1>4, <1>5

(* Automatic removal keeps the types.                                      *)
LEMMA AutoRemoveType ==
  ASSUME TypeOK, NEW c \in Containers, AutoRemove(c)
  PROVE  TypeOK'
<1>1. reclaim[c] \in Results \cup {"none"}
  BY TypeParts DEF SmallType
<1>2. reclaim' \in [Containers -> Results \cup {"none"}]
  BY TypeParts DEF AutoRemove, SmallType
<1>3. CASE RemoveLocked(c, reclaim[c]) /\ caller' = Notified(c) /\ UNCHANGED faults
  <2>1. /\ RecordType' /\ exits' \in [Containers -> Results \cup {"none"}]
        /\ failures' \in [Containers -> BOOLEAN]
    BY <1>1, <1>3, RemoveLockedType
  <2>2. SmallType'
    BY <1>2, <2>1, TypeParts DEF AutoRemove, SmallType
  <2>3. CallerType'
    BY <1>3, NotifiedType DEF CallerType
  <2> QED BY <1>3, <2>1, <2>2, <2>3, TypeUnchanged, TypeAssembly DEF AutoRemove
<1>4. CASE /\ failures' = [failures EXCEPT ![c] = TRUE]
           /\ UNCHANGED <<record, exits, caller, faults>>
  <2>1. SmallType'
    BY <1>2, <1>4, TypeParts DEF AutoRemove, SmallType
  <2> QED BY <1>4, <2>1, TypeUnchanged, TypeAssembly DEF AutoRemove
<1>5. CASE RemoveFails(c) /\ failures' = [failures EXCEPT ![c] = TRUE] /\ UNCHANGED caller
  <2>1. RecordType' /\ FaultType' /\ UNCHANGED exits
    BY <1>5, RemoveLockedType
  <2>2. SmallType'
    BY <1>2, <1>5, <2>1, TypeParts DEF AutoRemove, SmallType
  <2> QED BY <1>5, <2>1, <2>2, TypeUnchanged, TypeAssembly DEF AutoRemove
<1> QED BY <1>3, <1>4, <1>5 DEF AutoRemove

(* A call that moves to a well-typed state keeps the calls well typed.     *)
LEMMA CallStoreType ==
  ASSUME TypeOK, NEW k \in Callers, NEW x \in Calls
  PROVE  /\ [caller EXCEPT ![k] = x] \in [Callers -> Calls \cup {NoCall}]
         /\ \A c \in Containers :
              [Notified(c) EXCEPT ![k] = x] \in [Callers -> Calls \cup {NoCall}]
<1>1. caller \in [Callers -> Calls \cup {NoCall}]
  BY TypeParts DEF CallerType
<1>2. \A c \in Containers : Notified(c) \in [Callers -> Calls \cup {NoCall}]
  BY NotifiedType
<1> QED BY <1>1, <1>2

(* The steps of a call that write nothing but the call itself.             *)
LEMMA QuietCallType ==
  ASSUME TypeOK, NEW k \in Callers,
         Call(k) \/ Read(k) \/ Enter(k) \/ Look(k) \/ TimesOut(k)
  PROVE  TypeOK'
<1>1. SUFFICES CallerType'
  BY <1>1, TypeUnchanged, TypeAssembly DEF Call, Read, Enter, Look, TimesOut, volatile
<1>2. SUFFICES \E x \in Calls : caller' = [caller EXCEPT ![k] = x]
  BY <1>2, CallStoreType DEF CallerType
<1>3. CASE Call(k)
  <2>1. PICK c \in Containers, op \in {"wait", "stop", "signal", "remove", "force"},
             cond \in {"not-running", "next-exit", "removed"} :
          caller' = [caller EXCEPT ![k] =
            [NoCall EXCEPT !.pc = FirstStep(op), !.op = op, !.c = c, !.cond = cond]]
    BY <1>3 DEF Call
  <2>2. FirstStep(op) \in {"enter", "remove", "read"}
    BY DEF FirstStep
  <2>3. [NoCall EXCEPT !.pc = FirstStep(op), !.op = op, !.c = c, !.cond = cond] \in Calls
    BY <2>2, TypeParts DEF NoCall, Calls
  <2> QED BY <2>1, <2>3
<1>4. CASE Read(k)
  <2>1. caller[k].pc # "idle"
    BY <1>4 DEF Read
  <2>2. \/ caller' = [caller EXCEPT ![k] = Ended(k, "notfound")]
        \/ caller' = [caller EXCEPT ![k] =
             [caller[k] EXCEPT !.pc = StepAfterRead(caller[k].op, caller[k].c)]]
    BY <1>4 DEF Read
  <2>3. Ended(k, "notfound") \in Calls
    BY <2>1, EndedType DEF Answers
  <2>4. StepAfterRead(caller[k].op, caller[k].c) \in {"kill", "remove", "unpause", "signal"}
    BY DEF StepAfterRead
  <2>5. [caller[k] EXCEPT !.pc = StepAfterRead(caller[k].op, caller[k].c)] \in Calls
    BY <2>1, <2>4, StepType
  <2> QED BY <2>2, <2>3, <2>5
<1>5. CASE Enter(k)
  <2>1. caller[k].pc # "idle"
    BY <1>5 DEF Enter
  <2>2. caller[k] \in Calls /\ caller[k].c \in Containers
    BY <2>1, CallTarget
  <2> DEFINE c == caller[k].c
             x == [caller[k] EXCEPT !.pc = "look", !.gen0 = record[c].gen,
                                    !.active0 = Owning(c)]
             a == IF exits[c] # "none" THEN exits[c] ELSE "notfound"
  <2>3. caller' = [caller EXCEPT ![k] = x] \/ caller' = [caller EXCEPT ![k] = Ended(k, a)]
    BY <1>5 DEF Enter
  <2>4. x \in Calls
    <3>1. record[c].gen \in 0 .. MaxGeneration
      BY <2>2, StoreType, FieldType
    <3> DEFINE n == record[c].gen
    <3> HIDE DEF n
    <3>2. x = [caller[k] EXCEPT !.pc = "look", !.gen0 = n, !.active0 = Owning(c)]
      BY DEF n
    <3>3. Owning(c) \in BOOLEAN /\ n \in 0 .. MaxGeneration
      BY <3>1 DEF Owning, n
    <3> QED BY <2>2, <3>2, <3>3 DEF Calls
  <2>5. Ended(k, a) \in Calls
    <3>1. a \in Answers
      BY <2>2, TypeParts DEF SmallType, Answers
    <3> QED BY <2>1, <3>1, EndedType
  <2> QED BY <2>3, <2>4, <2>5
<1>6. CASE Look(k)
  <2>1. caller[k].pc # "idle"
    BY <1>6 DEF Look
  <2>2. caller[k] \in Calls /\ caller[k].c \in Containers
    BY <2>1, CallTarget
  <2> DEFINE r == record[caller[k].c]
             e == IF r.st = "exited" THEN r.result ELSE caller[k].exit
  <2>3. \/ caller' = [caller EXCEPT ![k] = Parked(k)]
        \/ caller' = [caller EXCEPT ![k] = [caller[k] EXCEPT !.pc = "remove"]]
        \/ caller' = [caller EXCEPT ![k] = Ended(k, Answer(k))]
    <3>1. CASE Answer(k) = "none"
      BY <1>6, <3>1 DEF Look, Results
    <3>2. CASE Answer(k) # "none" /\ Answer(k) \in Results /\ caller[k].op = "force"
      BY <1>6, <3>2 DEF Look
    <3>3. CASE Answer(k) # "none" /\ ~(Answer(k) \in Results /\ caller[k].op = "force")
      BY <1>6, <3>3 DEF Look
    <3> QED BY <3>1, <3>2, <3>3
  <2>4. e \in Results \cup {"none"}
    BY <2>2, StoreType, FieldType DEF Calls
  <2>5. Parked(k) \in Calls
    <3>1. Parked(k) = [caller[k] EXCEPT !.pc = "parked", !.exit = e]
      BY DEF Parked
    <3> HIDE DEF e
    <3> QED BY <2>2, <2>4, <3>1 DEF Calls
  <2>6. [caller[k] EXCEPT !.pc = "remove"] \in Calls /\ Ended(k, Answer(k)) \in Calls
    BY <2>1, StepType, EndedType, AnswerType
  <2> QED BY <2>3, <2>5, <2>6
<1>7. CASE TimesOut(k)
  <2>1. caller[k].pc # "idle"
    BY <1>7 DEF TimesOut
  <2>2. \/ caller' = [caller EXCEPT ![k] = [caller[k] EXCEPT !.pc = "kill"]]
        \/ caller' = [caller EXCEPT ![k] = Ended(k, "timeout")]
    BY <1>7 DEF TimesOut
  <2>3. [caller[k] EXCEPT !.pc = "kill"] \in Calls /\ Ended(k, "timeout") \in Calls
    BY <2>1, StepType, EndedType DEF Answers
  <2> QED BY <2>2, <2>3
<1> QED BY <1>3, <1>4, <1>5, <1>6, <1>7

(* unpause() on behalf of a call keeps the types.                          *)
LEMMA CallUnpausesType ==
  ASSUME TypeOK, NEW k \in Callers, CallUnpauses(k)
  PROVE  TypeOK'
<1>1. caller[k].pc # "idle"
  BY DEF CallUnpauses
<1>2. caller[k].c \in Containers
  BY <1>1, CallTarget
<1>3. RecordType' /\ GuestType'
  BY <1>2, PauseType, TypeUnchanged DEF CallUnpauses, PauseUnwritten, States, Phases
<1>4. CallerType'
  <2>1. \/ caller' = [caller EXCEPT ![k] = [caller[k] EXCEPT !.pc = "signal"]]
        \/ caller' = [caller EXCEPT ![k] = Ended(k, "error")]
    BY DEF CallUnpauses
  <2>2. [caller[k] EXCEPT !.pc = "signal"] \in Calls /\ Ended(k, "error") \in Calls
    BY <1>1, StepType, EndedType DEF Answers
  <2> QED BY <2>1, <2>2, CallStoreType DEF CallerType
<1>5. FaultType'
  BY ChargeType, TypeUnchanged DEF CallUnpauses, PauseUnwritten
<1> QED BY <1>3, <1>4, <1>5, TypeUnchanged, TypeAssembly DEF CallUnpauses

(* Service::signal keeps the types.                                        *)
LEMMA SignalType ==
  ASSUME TypeOK, NEW k \in Callers, Signal(k)
  PROVE  TypeOK'
<1>1. caller[k].pc # "idle"
  BY DEF Signal
<1>2. caller[k].c \in Containers
  BY <1>1, CallTarget
<1>3. GuestType'
  <2>1. guest' = guest \/ guest' = Killed(caller[k].c) \/ guest' \in Stopped(caller[k].c)
    BY DEF Signal
  <2> QED BY <1>2, <2>1, KilledType, StoppedType, TypeParts DEF GuestType
<1>4. CallerType'
  <2>1. \/ caller' = [caller EXCEPT ![k] = Ended(k, "ok")]
        \/ caller' = [caller EXCEPT ![k] = Ended(k, "error")]
    BY DEF Signal
  <2>2. Ended(k, "ok") \in Calls /\ Ended(k, "error") \in Calls
    BY <1>1, EndedType DEF Answers
  <2> QED BY <2>1, <2>2, CallStoreType DEF CallerType
<1> QED BY <1>3, <1>4, TypeUnchanged, TypeAssembly DEF Signal

(* stop_signal() keeps the types.                                          *)
LEMMA StopSignalType ==
  ASSUME TypeOK, NEW k \in Callers, StopSignal(k)
  PROVE  TypeOK'
<1> DEFINE c == caller[k].c
           waits == [caller[k] EXCEPT !.pc = "enter", !.forced = (caller[k].pc = "kill")]
<1>1. caller[k].pc # "idle"
  BY DEF StopSignal
<1>2. caller[k] \in Calls /\ c \in Containers
  BY <1>1, CallTarget
<1>3. waits \in Calls
  BY <1>2 DEF Calls
<1>4. Ended(k, "notfound") \in Calls /\ Ended(k, "error") \in Calls
  BY <1>1, EndedType DEF Answers
<1>5. \/ /\ CancelsRestart(c)
         /\ caller' = [Notified(c) EXCEPT ![k] = waits]
         /\ UNCHANGED <<guest, faults>>
      \/ /\ record' = [record EXCEPT ![c].restart = Manual(@)]
         /\ guest' = Killed(c) \/ guest' = guest
         /\ caller' = [caller EXCEPT ![k] = waits]
         /\ UNCHANGED <<restarts, faults>>
      \/ /\ \/ caller' = [caller EXCEPT ![k] = waits]
            \/ caller' = [caller EXCEPT ![k] = Ended(k, "notfound")]
            \/ caller' = [caller EXCEPT ![k] = Ended(k, "error")]
         /\ UNCHANGED <<record, guest, restarts, faults>>
      \/ /\ faults < MaxStorageFaults /\ Charge(FALSE)
         /\ caller' = [caller EXCEPT ![k] = Ended(k, "error")]
         /\ UNCHANGED <<record, guest, restarts>>
  BY DEF StopSignal
<1> HIDE DEF waits
<1>6. CallerType'
  <2>1. \E x \in Calls : \/ caller' = [caller EXCEPT ![k] = x]
                         \/ caller' = [Notified(c) EXCEPT ![k] = x]
    BY <1>3, <1>4, <1>5
  <2> QED BY <1>2, <2>1, CallStoreType DEF CallerType
<1>7. RecordType'
  BY <1>2, <1>5, CancelType, MarkType, TypeUnchanged DEF RecordType
<1>8. GuestType'
  BY <1>2, <1>5, KilledType, TypeUnchanged DEF GuestType
<1>9. FaultType'
  BY <1>5, ChargeType, TypeUnchanged
<1>10. SmallType'
  <2>1. restarts' \in [Containers -> 0 .. MaxGeneration]
    BY <1>2, <1>5, CancelType, TypeParts DEF SmallType
  <2> QED BY <2>1, TypeParts DEF StopSignal, SmallType
<1> QED BY <1>6, <1>7, <1>8, <1>9, <1>10, TypeUnchanged, TypeAssembly DEF StopSignal

(* remove() on behalf of a client keeps the types.                         *)
LEMMA RemoveType ==
  ASSUME TypeOK, NEW k \in Callers, Remove(k)
  PROVE  TypeOK'
<1> DEFINE c == caller[k].c
<1>1. caller[k].pc # "idle"
  BY DEF Remove
<1>2. c \in Containers
  BY <1>1, CallTarget
<1>3. Ended(k, "ok") \in Calls /\ Ended(k, "error") \in Calls
  BY <1>1, EndedType DEF Answers
<1>4. CallerType'
  <2>1. \/ caller' = [Notified(c) EXCEPT ![k] = Ended(k, "ok")]
        \/ caller' = [caller EXCEPT ![k] = Ended(k, "error")]
    BY DEF Remove
  <2> QED BY <1>2, <1>3, <2>1, CallStoreType DEF CallerType
<1>5. /\ RecordType' /\ FaultType'
      /\ exits' \in [Containers -> Results \cup {"none"}]
      /\ failures' \in [Containers -> BOOLEAN]
  <2>1. CASE RemoveLocked(c, "none") /\ UNCHANGED faults
    BY <1>2, <2>1, RemoveLockedType, TypeUnchanged
  <2>2. CASE RemoveFails(c) /\ UNCHANGED failures
    <3>1. RecordType' /\ FaultType' /\ UNCHANGED exits
      BY <1>2, <2>2, RemoveLockedType
    <3> QED BY <2>2, <3>1, TypeParts DEF SmallType
  <2>3. CASE UNCHANGED <<record, exits, failures, faults>>
    BY <2>3, TypeUnchanged, TypeParts DEF SmallType
  <2> QED BY <2>1, <2>2, <2>3 DEF Remove
<1>6. SmallType'
  BY <1>5, TypeParts DEF Remove, SmallType
<1> QED BY <1>4, <1>5, <1>6, TypeUnchanged, TypeAssembly DEF Remove

(* Checkpointing one container keeps the types.                            *)
LEMMA CheckpointActionType ==
  ASSUME TypeOK, NEW c \in Containers, Checkpoint(c)
  PROVE  TypeOK'
<1>1. RecordType' /\ GuestType' /\ LiveType' /\ CallerType' /\ FaultType'
  BY CheckpointType DEF Checkpoint
<1> QED BY <1>1, TypeUnchanged, TypeAssembly DEF Checkpoint

(* The bookkeeping of checkpoint_all() is well typed.                      *)
LEMMA SweepBooksType ==
  ASSUME TypeOK, NEW c \in Containers
  PROVE  /\ NoSweep \in Sweeps
         /\ SweepDrops(c) \in Sweeps
         /\ SweepFails(c) \in Sweeps
         /\ [sweep EXCEPT !.resumed = @ \cup {c}] \in Sweeps
         /\ [SweepDrops(c) EXCEPT !.captured = @ \cup {c}] \in Sweeps
         /\ [SweepFails(c) EXCEPT !.captured = @ \cup {c}] \in Sweeps
<1>1. sweep \in Sweeps
  BY TypeParts DEF SweepType
<1>2. NoSweep \in Sweeps
  BY DEF NoSweep, Sweeps, States
<1>3. SweepDrops(c) \in Sweeps
  BY <1>1 DEF Sweeps, SweepDrops
<1>4. SweepFails(c) \in Sweeps
  BY <1>1 DEF Sweeps, SweepFails
<1>5. ASSUME NEW s \in Sweeps
      PROVE  /\ [s EXCEPT !.resumed = @ \cup {c}] \in Sweeps
             /\ [s EXCEPT !.captured = @ \cup {c}] \in Sweeps
  BY DEF Sweeps
<1> QED BY <1>1, <1>2, <1>3, <1>4, <1>5

(* checkpoint_all() settling, resuming and capturing keeps the types.      *)
LEMMA SweepForwardType ==
  ASSUME TypeOK, NEW c \in Containers,
         SweepSettles(c) \/ SweepResumes(c) \/ SweepCaptures(c)
  PROVE  TypeOK'
<1>1. CASE SweepSettles(c)
  <2>1. RecordType' /\ restarts' \in [Containers -> 0 .. MaxGeneration]
    BY <1>1, CancelType, TypeUnchanged, TypeParts DEF SweepSettles, SmallType
  <2>2. SweepType'
    BY <1>1, SweepBooksType DEF SweepSettles, SweepType
  <2>3. CallerType'
    BY <1>1, NotifiedType, TypeUnchanged DEF SweepSettles, CallerType
  <2>4. FaultType'
    BY <1>1, ChargeType, TypeUnchanged DEF SweepSettles
  <2>5. SmallType'
    BY <1>1, <2>1, TypeParts DEF SweepSettles, SmallType
  <2> QED BY <1>1, <2>1, <2>2, <2>3, <2>4, <2>5, TypeUnchanged, TypeAssembly
          DEF SweepSettles
<1>2. CASE SweepResumes(c)
  <2>1. RecordType' /\ GuestType'
    BY <1>2, PauseType, TypeUnchanged DEF SweepResumes, PauseUnwritten, States, Phases
  <2>2. SweepType'
    BY <1>2, SweepBooksType DEF SweepResumes, SweepType
  <2>3. FaultType'
    BY <1>2, ChargeType, TypeUnchanged DEF SweepResumes, PauseUnwritten
  <2> QED BY <1>2, <2>1, <2>2, <2>3, TypeUnchanged, TypeAssembly DEF SweepResumes
<1>3. CASE SweepCaptures(c)
  <2>1. RecordType' /\ GuestType' /\ LiveType' /\ CallerType' /\ FaultType'
    <3>1. \/ Capturable(c) /\ (CheckpointSucceeds(c) \/ CheckpointFails(c))
          \/ UNCHANGED <<record, guest, live, caller, faults>>
      BY <1>3 DEF SweepCaptures
    <3> QED BY <3>1, CheckpointType, TypeUnchanged
  <2>2. SweepType'
    <3>1. \/ sweep' = [SweepDrops(c) EXCEPT !.captured = @ \cup {c}]
          \/ sweep' = [SweepFails(c) EXCEPT !.captured = @ \cup {c}]
          \/ sweep' = [SweepFails(c) EXCEPT !.captured = @]
      BY <1>3 DEF SweepCaptures
    <3>2. [SweepFails(c) EXCEPT !.captured = @] = SweepFails(c)
      <4>1. SweepFails(c) \in Sweeps
        BY SweepBooksType
      <4> QED BY <4>1 DEF Sweeps
    <3> QED BY <3>1, <3>2, SweepBooksType DEF SweepType
  <2> QED BY <1>3, <2>1, <2>2, TypeUnchanged, TypeAssembly DEF SweepCaptures
<1> QED BY <1>1, <1>2, <1>3

(* The rollback of checkpoint_all() keeps the types.                       *)
LEMMA SweepRollbackType ==
  ASSUME TypeOK, NEW c \in Containers, SweepRestarts(c) \/ SweepPauses(c)
  PROVE  TypeOK'
<1>1. SweepType'
  BY SweepBooksType DEF SweepRestarts, SweepPauses, SweepType
<1>2. CASE SweepRestarts(c)
  <2>1. RecordType' /\ GuestType' /\ LiveType'
    BY <1>2, LaunchType, TypeUnchanged DEF SweepRestarts
  <2>2. FaultType'
    BY <1>2, ChargeType, TypeUnchanged DEF SweepRestarts, LaunchFails
  <2>3. cleanup' \in [Containers -> {"none", "reaping", "poisoned"}]
    BY <1>2, LaunchFailsType, TypeParts DEF SweepRestarts, SmallType
  <2>4. SmallType'
    BY <1>2, <2>3, TypeParts DEF SweepRestarts, SmallType
  <2> QED BY <1>1, <1>2, <2>1, <2>2, <2>4, TypeUnchanged, TypeAssembly DEF SweepRestarts
<1>3. CASE SweepPauses(c)
  <2>1. RecordType' /\ GuestType'
    BY <1>3, PauseType, TypeUnchanged DEF SweepPauses, PauseUnwritten, States, Phases
  <2>2. FaultType'
    BY <1>3, ChargeType, TypeUnchanged DEF SweepPauses, PauseUnwritten
  <2> QED BY <1>1, <1>3, <2>1, <2>2, TypeUnchanged, TypeAssembly DEF SweepPauses
<1> QED BY <1>2, <1>3

(* checkpoint_all() beginning, turning and returning keeps the types.      *)
LEMMA SweepStagesType ==
  ASSUME TypeOK, SweepBegins \/ SweepTurns
  PROVE  TypeOK'
<1>1. SUFFICES SweepType'
  BY <1>1, TypeUnchanged, TypeAssembly DEF SweepBegins, SweepTurns, volatile
<1>2. NoSweep \in Sweeps
  BY DEF NoSweep, Sweeps, States
<1>3. CASE SweepBegins
  <2>1. [c \in Containers |-> record[c].st] \in [Containers -> States]
    BY StoreType, FieldType
  <2> DEFINE b == [c \in Containers |-> record[c].st]
             t == {c \in Containers : Present(c)}
  <2>2. sweep' = [NoSweep EXCEPT !.phase = "capture", !.todo = t, !.before = b]
    BY <1>3 DEF SweepBegins
  <2>3. t \in SUBSET Containers /\ b \in [Containers -> States]
    BY <2>1
  <2> HIDE DEF b, t
  <2> QED BY <1>2, <2>2, <2>3 DEF Sweeps, SweepType
<1>4. CASE SweepTurns
  <2>1. sweep \in Sweeps
    BY TypeParts DEF SweepType
  <2>2. \/ sweep' = [sweep EXCEPT !.phase = "rollback", !.todo = sweep.captured]
        \/ sweep' = [sweep EXCEPT !.phase = "repause", !.todo = sweep.resumed]
        \/ sweep' = NoSweep
    BY <1>4 DEF SweepTurns
  <2> QED BY <1>2, <2>1, <2>2 DEF Sweeps, SweepType
<1> QED BY <1>3, <1>4

(* reconcile_container() computes a well-typed record.                     *)
LEMMA ReconciledType ==
  ASSUME TypeOK, NEW c \in Containers
  PROVE  Reconciled(c) \in Records
<1> DEFINE r == record[c]
           s == IF AllowsAfterDaemonRestart(r.policy) THEN "restarting" ELSE "exited"
           a1 == [r EXCEPT !.st = s]
           a2 == [a1 EXCEPT !.result = "fault"]
           m == [r.restart EXCEPT !.manual = FALSE]
           b1 == [r EXCEPT !.st = "restarting"]
           b2 == [b1 EXCEPT !.restart = m]
<1>1. r \in Records
  BY StoreType
<1>2. Reconciled(c) = a2 \/ Reconciled(c) = b2 \/ Reconciled(c) = r
  <2>1. CASE Owning(c)
    BY <2>1 DEF Reconciled, Owning
  <2>2. CASE ~Owning(c) /\ r.st = "exited" /\ r.policy.kind = "always" /\ r.restart.manual
    <3>1. Reconciled(c) = [r EXCEPT !.st = "restarting", !.restart.manual = FALSE]
      BY <2>2 DEF Reconciled
    <3> QED BY <3>1
  <2>3. CASE ~Owning(c) /\ ~(r.st = "exited" /\ r.policy.kind = "always" /\ r.restart.manual)
    BY <2>3 DEF Reconciled
  <2> QED BY <2>1, <2>2, <2>3
<1>3. s \in States
  BY DEF States
<1>4. m \in [count : Nat, manual : BOOLEAN]
  <2>1. r.restart \in [count : Nat, manual : BOOLEAN]
    BY <1>1, FieldType
  <2> QED BY <2>1
<1> HIDE DEF r, s, m
<1>5. a1 \in Records /\ b1 \in Records
  BY <1>1, <1>3, FieldType DEF States
<1> HIDE DEF a1, b1
<1>6. a2 \in Records /\ b2 \in Records
  BY <1>4, <1>5, FieldType DEF Results
<1> HIDE DEF a2, b2
<1> QED BY <1>1, <1>2, <1>6

(* The death of the daemon and the next one's startup keep the types.      *)
LEMMA DaemonType ==
  ASSUME TypeOK, Crash \/ (\E c \in Containers : Reconcile(c)) \/ Recover
  PROVE  TypeOK'
<1>1. CASE Crash
  <2>1. RecordType' /\ FaultType'
    BY <1>1, TypeUnchanged DEF Crash
  <2>2. GuestType'
    <3>1. guest \in [Containers -> [Gens -> Guests]]
      BY TypeParts DEF GuestType
    <3>2. [phase |-> "lost", result |-> "none"] \in Guests
      BY DEF Guests, Phases
    <3> QED BY <1>1, <3>1, <3>2 DEF Crash, GuestType
  <2>3. LiveType'
    BY <1>1, TypeParts DEF Crash, LiveType
  <2>4. CallerType'
    <3>1. \A k \in Callers : caller[k].pc # "idle" => Ended(k, "lost") \in Calls
      BY EndedType DEF Answers
    <3>2. caller \in [Callers -> Calls \cup {NoCall}]
      BY TypeParts DEF CallerType
    <3> QED BY <1>1, <3>1, <3>2 DEF Crash, CallerType
  <2>5. SweepType'
    BY <1>1 DEF Crash, SweepType, NoSweep, Sweeps, States
  <2>6. SmallType'
    <3>1. crashes' \in 0 .. MaxCrashes
      BY <1>1, TypeParts, LifecycleAssumption DEF LifecycleAssumption, Crash, SmallType
    <3> QED BY <1>1, <3>1, TypeParts DEF Crash, SmallType
  <2> QED BY <2>1, <2>2, <2>3, <2>4, <2>5, <2>6, TypeAssembly
<1>2. ASSUME NEW c \in Containers, Reconcile(c)
      PROVE  TypeOK'
  <2>1. RecordType'
    BY <1>2, ReconciledType, StoreType DEF Reconcile, RecordType
  <2> QED BY <1>2, <2>1, TypeUnchanged, TypeAssembly DEF Reconcile, volatile
<1>3. CASE Recover
  <2>1. ASSUME NEW c \in Containers
        PROVE  /\ record[c] \in Records
               /\ [record[c] EXCEPT !.st = "removed"] \in Records
               /\ record[c].gen \in 0 .. MaxGeneration
               /\ record[c].result \in Results \cup {"none"}
    BY StoreType, FieldType DEF States
  <2>2. RecordType'
    BY <1>3, <2>1 DEF Recover, RecordType
  <2>3. SmallType'
    <3>1. timer' \in [Containers -> [Gens -> {"none", "finish", "recover"}]]
      BY <1>3 DEF Recover
    <3>2. restarts' \in [Containers -> 0 .. MaxGeneration]
      BY <1>3, <2>1, TypeParts DEF Recover
    <3>3. exits' \in [Containers -> Results \cup {"none"}]
      BY <1>3, <2>1 DEF Recover
    <3> QED BY <1>3, <3>1, <3>2, <3>3, TypeParts DEF Recover, SmallType
  <2> QED BY <1>3, <2>2, <2>3, TypeUnchanged, TypeAssembly DEF Recover
<1> QED BY <1>1, <1>2, <1>3

(* Every step keeps the types.                                             *)
LEMMA TypeStep == TypeOK /\ [Next]_vars => TypeOK'
<1> SUFFICES ASSUME TypeOK, [Next]_vars PROVE TypeOK'
  OBVIOUS
<1>1. ASSUME NEW c \in Containers, ContainerNext(c) PROVE TypeOK'
  BY <1>1, CreateType, StartType, LateReapType, PauseActionsType, UpdateType, DiscardType,
     AutoRemoveType, CheckpointActionType, SweepForwardType, SweepRollbackType, DaemonType
  DEF ContainerNext
<1>2. ASSUME NEW c \in Containers, NEW g \in Gens, RunNext(c, g) PROVE TypeOK'
  BY <1>2, ExitType, LogFailsType, FinishType, TimerType DEF RunNext
<1>3. ASSUME NEW k \in Callers, CallerNext(k) PROVE TypeOK'
  BY <1>3, QuietCallType, CallUnpausesType, SignalType, StopSignalType, RemoveType
  DEF CallerNext
<1>4. CASE SweepBegins \/ SweepTurns \/ Crash \/ Recover
  BY <1>4, SweepStagesType, DaemonType
<1>5. CASE UNCHANGED vars
  BY <1>5, TypeUnchanged, TypeAssembly DEF vars
<1> QED BY <1>1, <1>2, <1>3, <1>4, <1>5 DEF Next

(* Every map of the service is well typed in every reachable state; in     *)
(* particular no launch leaves the generation space.                       *)
THEOREM TypeCorrect == Spec => []TypeOK
BY InitType, TypeStep, PTL DEF Spec

-----------------------------------------------------------------------------
(* Safety: processes are accounted for, quarantines hold, host ports are   *)
(* exclusive and a manual stop is honoured.                                *)
(*                                                                         *)
(* All four rest on one fact about steps (StepShape): a step either        *)
(* launches the next run of ONE container, which owned no process, had no  *)
(* quarantine and no port conflict, and leaves the others untouched; or    *)
(* it starts nothing, and every process that survives it still belongs to  *)
(* a running or paused record and to the same owner.                       *)


(* Nothing the service keeps for the container changes.                    *)
Untouched(c) ==
  record'[c] = record[c] /\ guest'[c] = guest[c] /\ live'[c] = live[c]

(* The container's next run begins.                                        *)
Launches(c) ==
  /\ ~Owning(c) /\ ~LaunchRefused(c)
  /\ Owning(c)' /\ record'[c].gen = record[c].gen + 1
  /\ record'[c].publish = record[c].publish
  /\ live'[c] = record'[c].gen
  /\ \A g \in Gens : g # record'[c].gen => guest'[c][g] = guest[c][g]
  /\ record[c].restart.manual => record'[c].restart = FreshRestart

(* No run begins, and a process that survives keeps its owner.             *)
Fades(c) ==
  /\ record'[c].gen = record[c].gen
  /\ Owning(c)' => Owning(c) /\ record'[c].publish = record[c].publish
  /\ \A g \in Gens : guest'[c][g].phase \in Alive =>
       guest[c][g].phase \in Alive /\ Owning(c)' /\ live'[c] = live[c]
  /\ cleanup'[c] # "none" => cleanup[c] # "none" \/ ~Owning(c)'

Shape ==
  \/ UNCHANGED cleanup /\ \E c \in Containers :
       Launches(c) /\ \A d \in Containers \ {c} : Untouched(d)
  \/ \A c \in Containers : Fades(c)

(* While the daemon is down nothing it owned is left.                      *)
DownIsDead ==
  daemon = "down" => /\ sweep.phase = "idle"
                     /\ \A c \in Containers, g \in Gens : guest[c][g].phase \notin Alive

(* The inductive invariant: the properties, and what startup relies on.    *)
Inv == TypeOK /\ GuestAccounted /\ QuarantineHolds /\ PortsExclusive /\ DownIsDead

-----------------------------------------------------------------------------
(* Building blocks.                                                        *)

(* A container that nothing touches fades.                                 *)
LEMMA UntouchedFades ==
  ASSUME GuestAccounted, NEW c \in Containers, Untouched(c), cleanup'[c] = cleanup[c]
  PROVE  Fades(c)
BY DEF GuestAccounted, Untouched, Fades, Owning

(* A step that touches one container only, and starts nothing, fades all.  *)
LEMMA OneFades ==
  ASSUME GuestAccounted, NEW c \in Containers, Fades(c),
         \A d \in Containers \ {c} : Untouched(d) /\ cleanup'[d] = cleanup[d]
  PROVE  Shape
BY UntouchedFades DEF Shape

(* A step that leaves records, processes, owners and quarantines alone.    *)
LEMMA QuietShape ==
  ASSUME GuestAccounted, UNCHANGED <<record, guest, live, cleanup>>
  PROVE  Shape
BY UntouchedFades DEF Shape, Untouched

(* launch_locked, on a container that owns no process.                     *)
LEMMA LaunchShape ==
  ASSUME TypeOK, NEW c \in Containers, NEW e \in BOOLEAN, LaunchPublishes(c, e),
         ~Owning(c), e \/ ~record[c].restart.manual, UNCHANGED cleanup
  PROVE  Shape
<1> DEFINE n == record[c].gen + 1
<1>1. record \in [Containers -> Records] /\ guest \in [Containers -> [Gens -> Guests]]
      /\ live \in [Containers -> 0 .. MaxGeneration]
  BY TypeParts DEF RecordType, GuestType, LiveType
<1>2. /\ record' = [record EXCEPT ![c] = Launched(c, e)]
      /\ guest' = [guest EXCEPT ![c][n] = [phase |-> "up", result |-> "none"]]
      /\ live' = [live EXCEPT ![c] = n]
      /\ ~LaunchRefused(c)
  BY DEF LaunchPublishes
<1>3. /\ Launched(c, e).st = "running" /\ Launched(c, e).gen = n
      /\ Launched(c, e).publish = record[c].publish
      /\ Launched(c, e).restart = Started(record[c].restart, e)
  <2>1. record[c] \in Records
    BY StoreType
  <2> QED BY <2>1 DEF Launched, Records
<1>4. e => Started(record[c].restart, e) = FreshRestart
  BY DEF Started
<1> HIDE DEF n
<1>5. record'[c] = Launched(c, e)
  BY <1>1, <1>2
<1>6. /\ Owning(c)' /\ record'[c].gen = record[c].gen + 1
      /\ record'[c].publish = record[c].publish
      /\ live'[c] = record'[c].gen
  BY <1>1, <1>2, <1>3, <1>5 DEF Owning, n
<1>7. \A g \in Gens : g # record'[c].gen => guest'[c][g] = guest[c][g]
  BY <1>1, <1>2, <1>3, <1>5
<1>8. record[c].restart.manual => record'[c].restart = FreshRestart
  BY <1>3, <1>4, <1>5
<1>9. Launches(c)
  BY <1>2, <1>6, <1>7, <1>8 DEF Launches
<1>10. \A d \in Containers \ {c} : Untouched(d)
  BY <1>1, <1>2 DEF Untouched
<1> QED BY <1>9, <1>10 DEF Shape

(* A new record of the same run that owns a process only if the old one    *)
(* did, while processes and owners stay.                                   *)
LEMMA RewriteShape ==
  ASSUME GuestAccounted, NEW c \in Containers,
         \A d \in Containers \ {c} : record'[d] = record[d] /\ cleanup'[d] = cleanup[d],
         UNCHANGED <<guest, live>>,
         record'[c].gen = record[c].gen,
         \/ ~Owning(c) /\ record'[c].st \notin {"running", "paused"}
         \/ /\ Owning(c) /\ record'[c].st \in {"running", "paused"}
            /\ record'[c].publish = record[c].publish /\ cleanup'[c] = cleanup[c]
  PROVE  Shape
<1>1. \A d \in Containers \ {c} : Untouched(d)
  BY DEF Untouched
<1>2. Fades(c)
  BY DEF Fades, Owning, GuestAccounted
<1> QED BY <1>1, <1>2, OneFades

(* The run of a container ends: none of its processes is left.             *)
LEMMA EndShape ==
  ASSUME GuestAccounted, NEW c \in Containers,
         \A d \in Containers \ {c} : Untouched(d), UNCHANGED cleanup,
         record'[c].gen = record[c].gen,
         Owning(c)' => Owning(c) /\ record'[c].publish = record[c].publish,
         \A g \in Gens : guest'[c][g].phase \notin Alive
  PROVE  Shape
BY OneFades DEF Fades

(* What the writes of the handlers make of a record.                       *)
LEMMA Written ==
  ASSUME TypeOK, NEW c \in Containers
  PROVE  /\ \A s \in States : LET w == [record EXCEPT ![c].st = s] IN
              /\ w[c].st = s /\ w[c].gen = record[c].gen
              /\ w[c].publish = record[c].publish
              /\ \A d \in Containers \ {c} : w[d] = record[d]
         /\ \A r : LET w == [record EXCEPT ![c] = r] IN
              w[c] = r /\ \A d \in Containers \ {c} : w[d] = record[d]
         /\ Cancelled(c).st = "exited" /\ Cancelled(c).gen = record[c].gen
         /\ Captured(c).st = "exited" /\ Captured(c).gen = record[c].gen
<1>1. record \in [Containers -> Records] /\ record[c] \in Records
  BY TypeParts DEF RecordType
<1>2. \A s \in States : LET w == [record EXCEPT ![c].st = s] IN
              /\ w[c].st = s /\ w[c].gen = record[c].gen
              /\ w[c].publish = record[c].publish
              /\ \A d \in Containers \ {c} : w[d] = record[d]
  BY <1>1 DEF Records
<1>3. Cancelled(c).st = "exited" /\ Cancelled(c).gen = record[c].gen
  BY <1>1 DEF Cancelled, Records
<1>4. Captured(c).st = "exited" /\ Captured(c).gen = record[c].gen
  BY <1>1 DEF Captured, Records
<1> QED BY <1>1, <1>2, <1>3, <1>4

(* A failed launch quarantines a container at most.                        *)
LEMMA LaunchFailsElsewhere ==
  ASSUME TypeOK, NEW c \in Containers, NEW rolled \in BOOLEAN, LaunchFails(c, rolled)
  PROVE  \A d \in Containers \ {c} : cleanup'[d] = cleanup[d]
BY TypeParts DEF LaunchFails, SmallType

(* A process of a container changes phase.                                 *)
LEMMA Phased ==
  ASSUME TypeOK, NEW c \in Containers, NEW g \in Gens, NEW p
  PROVE  LET w == [guest EXCEPT ![c][g].phase = p] IN
         /\ w[c][g].phase = p
         /\ \A h \in Gens \ {g} : w[c][h] = guest[c][h]
         /\ \A d \in Containers \ {c} : w[d] = guest[d]
<1>1. guest \in [Containers -> [Gens -> Guests]] /\ guest[c][g] \in Guests
  BY TypeParts DEF GuestType
<1> QED BY <1>1 DEF Guests

(* A process of a container is replaced.                                   *)
LEMMA Replaced ==
  ASSUME TypeOK, NEW c \in Containers, NEW g \in Gens, NEW x
  PROVE  LET w == [guest EXCEPT ![c][g] = x] IN
         /\ w[c][g] = x
         /\ \A h \in Gens \ {g} : w[c][h] = guest[c][h]
         /\ \A d \in Containers \ {c} : w[d] = guest[d]
<1>1. guest \in [Containers -> [Gens -> Guests]]
  BY TypeParts DEF GuestType
<1> QED BY <1>1

(* Pausing and resuming leave the process with its owner.                  *)
LEMMA PauseShape ==
  ASSUME TypeOK, GuestAccounted, NEW c \in Containers,
         NEW from \in {"running", "paused"}, NEW to \in {"running", "paused"},
         NEW phase \in {"up", "frozen"}, PauseLocked(c, from, to, phase),
         UNCHANGED <<live, cleanup>>
  PROVE  Shape
<1>1. to \in States /\ live[c] \in Gens
  BY LiveGen DEF States, PauseLocked
<1>2. /\ record'[c].st = to /\ record'[c].gen = record[c].gen
      /\ record'[c].publish = record[c].publish
      /\ \A d \in Containers \ {c} : record'[d] = record[d]
  BY <1>1, Written DEF PauseLocked
<1>3. PICK p : guest' = [guest EXCEPT ![c][live[c]].phase = p]
  BY DEF PauseLocked
<1>4. /\ \A h \in Gens \ {live[c]} : guest'[c][h] = guest[c][h]
      /\ \A d \in Containers \ {c} : guest'[d] = guest[d]
  BY <1>1, <1>3, Phased
<1>5. guest[c][live[c]].phase \in Alive /\ Owning(c) /\ Owning(c)'
  BY <1>2 DEF PauseLocked, Waitable, Alive, Owning
<1>6. Fades(c)
  BY <1>2, <1>4, <1>5 DEF Fades, GuestAccounted
<1>7. \A d \in Containers \ {c} : Untouched(d)
  BY <1>2, <1>4 DEF Untouched
<1> QED BY <1>6, <1>7, OneFades

(* Killing, stopping or continuing a process leaves it with its owner.     *)
LEMMA KillShape ==
  ASSUME TypeOK, GuestAccounted, NEW c \in Containers,
         guest' = guest \/ guest' = Killed(c) \/ guest' \in Stopped(c),
         UNCHANGED <<live, cleanup>>,
         \A d \in Containers \ {c} : record'[d] = record[d],
         record'[c].st = record[c].st, record'[c].gen = record[c].gen,
         record'[c].publish = record[c].publish
  PROVE  Shape
<1>0. \/ guest' = guest
      \/ /\ live[c] # NoGen /\ guest[c][live[c]].phase \in {"up", "frozen"}
         /\ \E p \in Alive : guest' = [guest EXCEPT ![c][live[c]].phase = p]
  BY DEF Killed, Stopped, Alive
<1>1. \A g \in Gens : guest'[c][g].phase \in Alive => guest[c][g].phase \in Alive
  BY <1>0, LiveGen, Phased DEF Alive
<1>2. ASSUME NEW d \in Containers \ {c} PROVE guest'[d] = guest[d]
  <2>1. CASE guest' = guest
    BY <2>1
  <2>2. ASSUME live[c] # NoGen, NEW p \in Alive,
               guest' = [guest EXCEPT ![c][live[c]].phase = p]
        PROVE  guest'[d] = guest[d]
    BY <2>2, LiveGen, Phased
  <2> QED BY <1>0, <2>1, <2>2
<1>3. Fades(c)
  BY <1>1 DEF Fades, GuestAccounted, Owning
<1>4. \A d \in Containers \ {c} : Untouched(d)
  BY <1>2 DEF Untouched
<1> QED BY <1>3, <1>4, OneFades

(* checkpoint_locked, whatever it returns, leaves no process behind a      *)
(* record that no longer owns one.                                         *)
LEMMA CheckpointShape ==
  ASSUME TypeOK, GuestAccounted, NEW c \in Containers, Capturable(c),
         CheckpointSucceeds(c) \/ CheckpointFails(c), UNCHANGED cleanup
  PROVE  Shape
<1>1. live[c] \in Gens
  BY LiveGen DEF Capturable
<1>2. CASE UNCHANGED <<record, guest, live>>
  BY <1>2, QuietShape
<1>3. CASE \E p \in {"exited", "abandoned"}, r \in {"zero", "error"} :
             guest' = [guest EXCEPT ![c][live[c]] = [phase |-> p, result |-> r]]
  <2>1. PICK p \in {"exited", "abandoned"}, r \in {"zero", "error"} :
             guest' = [guest EXCEPT ![c][live[c]] = [phase |-> p, result |-> r]]
    BY <1>3
  <2>2. /\ guest'[c][live[c]].phase = p
        /\ \A h \in Gens \ {live[c]} : guest'[c][h] = guest[c][h]
        /\ \A d \in Containers \ {c} : guest'[d] = guest[d]
    BY <1>1, <2>1, Replaced
  <2>3. \A g \in Gens : guest'[c][g].phase \notin Alive
    BY <1>1, <2>2 DEF GuestAccounted, Alive
  <2>4. record' = record \/ record' = [record EXCEPT ![c] = Captured(c)]
    BY DEF CheckpointSucceeds, CheckpointFails, CaptureRefused, CaptureUnrecorded,
        MembersUnrecorded, CaptureWedged
  <2>5. /\ record'[c].gen = record[c].gen
        /\ Owning(c)' => Owning(c) /\ record'[c].publish = record[c].publish
        /\ \A d \in Containers \ {c} : record'[d] = record[d]
    BY <2>4, Written DEF Owning
  <2>6. \A d \in Containers \ {c} : live'[d] = live[d]
    BY TypeParts DEF CheckpointSucceeds, CheckpointFails, CaptureRefused, CaptureUnrecorded,
        MembersUnrecorded, CaptureWedged, LiveType
  <2>7. \A d \in Containers \ {c} : Untouched(d)
    BY <2>2, <2>5, <2>6 DEF Untouched
  <2> QED BY <2>3, <2>5, <2>7, EndShape
<1> QED BY <1>2, <1>3 DEF CheckpointSucceeds, CheckpointFails, CaptureRefused, CaptureUnrecorded,
        MembersUnrecorded, CaptureWedged, Released

-----------------------------------------------------------------------------
(* One lemma per family of actions.                                        *)

(* Handlers that take the mutex once.                                      *)
LEMMA ClientShape ==
  ASSUME TypeOK, GuestAccounted, NEW c \in Containers,
         \/ Create(c) \/ Start(c) \/ Pause(c) \/ Unpause(c) \/ Update(c)
         \/ Checkpoint(c) \/ DiscardCheckpoint(c) \/ SettleLateReap(c) \/ AutoRemove(c)
  PROVE  Shape
<1> USE DEF volatile
<1>0. record \in [Containers -> Records] /\ record[c] \in Records
  BY TypeParts DEF RecordType
<1>1. CASE Create(c)
  <2>1. PICK q \in Policies, a \in AutoRemoval, ports \in SUBSET Ports :
          record' = [record EXCEPT ![c] = [record[c] EXCEPT !.st = "created", !.policy = q,
                                                            !.auto = a, !.publish = ports]]
    BY <1>1 DEF Create
  <2>2. /\ record'[c].st = "created" /\ record'[c].gen = record[c].gen
        /\ \A d \in Containers \ {c} : record'[d] = record[d]
    BY <1>0, <2>1 DEF Records
  <2>3. ~Owning(c)
    BY <1>1 DEF Create, Owning
  <2> QED BY <1>1, <2>2, <2>3, RewriteShape DEF Create
<1>2. CASE Start(c)
  <2>1. ~Owning(c)
    BY <1>2 DEF Start, Active, Owning
  <2>2. CASE LaunchPublishes(c, TRUE) /\ UNCHANGED cleanup
    BY <2>1, <2>2, LaunchShape
  <2>3. CASE LaunchFails(c, TRUE) /\ UNCHANGED <<record, guest, live>>
    BY <2>1, <2>3, LaunchFailsElsewhere, RewriteShape DEF Owning
  <2> QED BY <1>2, <2>2, <2>3 DEF Start
<1>3. CASE Pause(c) \/ Unpause(c)
  BY <1>3, PauseShape DEF Pause, Unpause
<1>4. CASE Update(c)
  <2>1. PICK q \in Policies, s \in States :
          /\ record' = [record EXCEPT ![c] = [record[c] EXCEPT !.policy = q, !.st = s]]
          /\ s = record[c].st \/ (record[c].st = "restarting" /\ s = "exited")
    <3>1. record[c].st \in States /\ "exited" \in States
      BY <1>0, FieldType DEF States
    <3> QED BY <1>4, <3>1 DEF Update
  <2>2. /\ record'[c].st = s /\ record'[c].gen = record[c].gen
        /\ record'[c].publish = record[c].publish
        /\ \A d \in Containers \ {c} : record'[d] = record[d]
    BY <1>0, <2>1 DEF Records
  <2> QED BY <1>4, <2>1, <2>2, RewriteShape DEF Update, Owning
<1>5. CASE Checkpoint(c)
  BY <1>5, CheckpointShape DEF Checkpoint
<1>6. CASE DiscardCheckpoint(c)
  <2>1. /\ record'[c].st = record[c].st /\ record'[c].gen = record[c].gen
        /\ \A d \in Containers \ {c} : record'[d] = record[d]
    BY <1>0, <1>6 DEF DiscardCheckpoint, Records
  <2>2. ~Owning(c)
    BY <1>6 DEF DiscardCheckpoint, Active, Owning
  <2> QED BY <1>6, <2>1, <2>2, RewriteShape DEF DiscardCheckpoint, Owning
<1>7. CASE SettleLateReap(c)
  <2>1. \A d \in Containers \ {c} : Untouched(d) /\ cleanup'[d] = cleanup[d]
    BY <1>7, TypeParts DEF SettleLateReap, SmallType, Untouched
  <2>2. Fades(c)
    BY <1>7 DEF SettleLateReap, Fades, GuestAccounted, Owning
  <2> QED BY <2>1, <2>2, OneFades
<1>8. CASE AutoRemove(c)
  <2>1. CASE /\ ~Active(c)
             /\ record' = [record EXCEPT ![c].st = "removed"]
    <3>1. /\ record'[c].st = "removed" /\ record'[c].gen = record[c].gen
          /\ \A d \in Containers \ {c} : record'[d] = record[d]
      BY <2>1, Written DEF States
    <3>2. ~Owning(c)
      BY <2>1 DEF Active, Owning
    <3> QED BY <1>8, <3>1, <3>2, RewriteShape DEF AutoRemove
  <2>2. CASE record' = record
    BY <1>8, <2>2, QuietShape DEF AutoRemove
  <2> QED BY <1>8, <2>1, <2>2 DEF AutoRemove, RemoveLocked, RemoveFails
<1> QED BY <1>1, <1>2, <1>3, <1>4, <1>5, <1>6, <1>7, <1>8

(* The end of a run: the process, its completion, its restart.             *)
LEMMA RunShape ==
  ASSUME TypeOK, GuestAccounted, NEW c \in Containers, NEW g \in Gens, RunNext(c, g)
  PROVE  Shape
<1>1. CASE GuestExits(c, g) \/ AbandonedExits(c, g)
  <2>1. /\ guest'[c][g].phase \notin Alive
        /\ \A h \in Gens \ {g} : guest'[c][h] = guest[c][h]
        /\ \A d \in Containers \ {c} : guest'[d] = guest[d]
    <3>1. CASE \E r : guest' = [guest EXCEPT ![c][g] = [phase |-> "exited", result |-> r]]
      BY <3>1, Replaced DEF Alive
    <3>2. CASE guest' = [guest EXCEPT ![c][g].phase = "settled"]
      BY <3>2, Phased DEF Alive
    <3> QED BY <1>1, <3>1, <3>2 DEF GuestExits, AbandonedExits
  <2>2. UNCHANGED <<record, live, cleanup>>
    BY <1>1 DEF GuestExits, AbandonedExits
  <2>3. Fades(c)
    BY <2>1, <2>2 DEF Fades, GuestAccounted, Owning
  <2> QED BY <2>1, <2>2, <2>3, OneFades DEF Untouched
<1>2. CASE Finish(c, g)
  <2>1. /\ guest'[c][g].phase \notin Alive
        /\ \A h \in Gens \ {g} : guest'[c][h] = guest[c][h]
        /\ \A d \in Containers \ {c} : guest'[d] = guest[d]
    BY <1>2, Phased DEF Finish, Alive
  <2>2. CASE UNCHANGED <<record, live>>
    <3>1. Fades(c)
      BY <1>2, <2>1, <2>2 DEF Finish, Fades, GuestAccounted, Owning
    <3> QED BY <1>2, <2>1, <2>2, <3>1, OneFades DEF Finish, Untouched
  <2>3. CASE FinishPublished(c, g)
    <3>1. PICK long \in BOOLEAN :
            record' = [record EXCEPT ![c] = Completed(c, guest[c][g].result, long)]
      BY <2>3 DEF FinishPublished
    <3>2. /\ record'[c].st \notin {"running", "paused"} /\ record'[c].gen = record[c].gen
          /\ \A d \in Containers \ {c} : record'[d] = record[d]
      BY <3>1, Written, CompletedType
    <3>3. \A h \in Gens : guest'[c][h].phase \notin Alive
      BY <2>1, <2>3 DEF FinishPublished, GuestAccounted
    <3>4. \A d \in Containers \ {c} : Untouched(d)
      BY <2>1, <2>3, <3>2, TypeParts DEF FinishPublished, LiveType, Untouched
    <3> QED BY <1>2, <3>2, <3>3, <3>4, EndShape DEF Finish, Owning
  <2> QED BY <1>2, <2>2, <2>3 DEF Finish, FinishStale, FinishUnpersisted
<1>3. CASE LogFails(c, g) \/ TimerCancelled(c, g) \/ (TimerFires(c, g) /\ RestartStale(c, g))
  BY <1>3, QuietShape DEF LogFails, TimerCancelled, TimerFires, RestartStale
<1>4. CASE RestartLaunches(c, g)
  BY <1>4, LaunchShape DEF RestartLaunches, Owning
<1>5. CASE RestartFails(c, g)
  <2>1. PICK rolled \in BOOLEAN, ok \in BOOLEAN :
          /\ LaunchFails(c, rolled)
          /\ record' = IF ok THEN [record EXCEPT ![c] =
                                    [@ EXCEPT !.st = "exited", !.result = "fault"]]
                             ELSE record
    BY <1>5 DEF RestartFails
  <2>2. /\ record'[c].st \notin {"running", "paused"} /\ record'[c].gen = record[c].gen
        /\ \A d \in Containers \ {c} : record'[d] = record[d]
    <3>1. record \in [Containers -> Records] /\ record[c] \in Records
      BY TypeParts DEF RecordType
    <3>2. record[c].st = "restarting"
      BY <1>5 DEF RestartFails
    <3> QED BY <2>1, <3>1, <3>2 DEF Records
  <2>3. ~Owning(c) /\ UNCHANGED <<guest, live>>
    BY <1>5 DEF RestartFails, Owning
  <2> QED BY <2>1, <2>2, <2>3, LaunchFailsElsewhere, RewriteShape
<1> QED BY <1>1, <1>2, <1>3, <1>4, <1>5 DEF RunNext, TimerFires

(* API calls that take the mutex more than once.                           *)
LEMMA CallShape ==
  ASSUME TypeOK, GuestAccounted, NEW k \in Callers, CallerNext(k)
  PROVE  Shape
<1> DEFINE c == caller[k].c
<1>1. CASE Call(k) \/ Read(k) \/ Enter(k) \/ Look(k) \/ TimesOut(k)
  BY <1>1, QuietShape DEF Call, Read, Enter, Look, TimesOut, volatile
<1>2. ASSUME CallUnpauses(k) \/ Signal(k) \/ StopSignal(k) \/ Remove(k)
      PROVE  c \in Containers
  <2>1. caller[k].pc # "idle"
    BY <1>2 DEF CallUnpauses, Signal, StopSignal, Remove
  <2> QED BY <2>1, CallTarget
<1> HIDE DEF c
<1>3. CASE CallUnpauses(k)
  <2>1. CASE PauseLocked(c, "paused", "running", "up")
    BY <1>2, <1>3, <2>1, PauseShape DEF CallUnpauses
  <2>2. CASE UNCHANGED <<record, guest>>
    BY <1>3, <2>2, QuietShape DEF CallUnpauses
  <2> QED BY <1>3, <2>1, <2>2 DEF CallUnpauses, PauseUnwritten, c
<1>4. CASE Signal(k)
  <2>1. guest' = guest \/ guest' = Killed(c) \/ guest' \in Stopped(c)
    BY <1>4 DEF Signal, c
  <2> QED BY <1>2, <1>4, <2>1, KillShape DEF Signal
<1>5. CASE StopSignal(k)
  <2>0. UNCHANGED <<live, cleanup>>
    BY <1>5 DEF StopSignal
  <2>1. CASE CancelsRestart(c) /\ UNCHANGED guest
    <3>1. /\ record'[c].st = "exited" /\ record'[c].gen = record[c].gen
          /\ \A d \in Containers \ {c} : record'[d] = record[d]
      <4>1. record \in [Containers -> Records]
        BY TypeParts DEF RecordType
      <4>2. record'[c] = Cancelled(c) /\ \A d \in Containers \ {c} : record'[d] = record[d]
        BY <1>2, <1>5, <2>1, <4>1 DEF CancelsRestart
      <4> QED BY <1>2, <1>5, <4>2, Written
    <3>2. ~Owning(c)
      BY <2>1 DEF CancelsRestart, Owning
    <3> QED BY <1>2, <1>5, <2>0, <2>1, <3>1, <3>2, RewriteShape
  <2>2. CASE /\ record' = [record EXCEPT ![c].restart = Manual(@)]
             /\ guest' = guest \/ guest' = Killed(c)
    <3>1. record \in [Containers -> Records] /\ record[c] \in Records
      BY <1>2, <1>5, TypeParts DEF RecordType
    <3>2. /\ record'[c].st = record[c].st /\ record'[c].gen = record[c].gen
          /\ record'[c].publish = record[c].publish
          /\ \A d \in Containers \ {c} : record'[d] = record[d]
      BY <1>2, <1>5, <2>2, <3>1 DEF Records
    <3> QED BY <1>2, <1>5, <2>0, <2>2, <3>2, KillShape
  <2>3. CASE UNCHANGED <<record, guest>>
    BY <2>0, <2>3, QuietShape
  <2> QED BY <1>5, <2>1, <2>2, <2>3 DEF StopSignal, c
<1>6. CASE Remove(k)
  <2>0. UNCHANGED <<guest, live, cleanup>>
    BY <1>6 DEF Remove
  <2>1. CASE ~Active(c) /\ record' = [record EXCEPT ![c].st = "removed"]
    <3>1. /\ record'[c].st = "removed" /\ record'[c].gen = record[c].gen
          /\ \A d \in Containers \ {c} : record'[d] = record[d]
      BY <1>2, <1>6, <2>1, Written DEF States
    <3>2. ~Owning(c)
      BY <2>1 DEF Active, Owning
    <3> QED BY <1>2, <1>6, <2>0, <3>1, <3>2, RewriteShape
  <2>2. CASE record' = record
    BY <2>0, <2>2, QuietShape
  <2> QED BY <1>6, <2>1, <2>2 DEF Remove, RemoveLocked, RemoveFails, c
<1> QED BY <1>1, <1>3, <1>4, <1>5, <1>6 DEF CallerNext

(* checkpoint_all(), container by container.                               *)
LEMMA SweepShape ==
  ASSUME TypeOK, GuestAccounted, NEW c \in Containers,
         \/ SweepSettles(c) \/ SweepResumes(c) \/ SweepCaptures(c)
         \/ SweepRestarts(c) \/ SweepPauses(c)
  PROVE  Shape
<1>1. CASE SweepSettles(c)
  <2>0. UNCHANGED <<guest, live, cleanup>>
    BY <1>1 DEF SweepSettles
  <2>1. CASE CancelsRestart(c)
    <3>1. record \in [Containers -> Records]
      BY TypeParts DEF RecordType
    <3>2. record'[c] = Cancelled(c) /\ \A d \in Containers \ {c} : record'[d] = record[d]
      BY <2>1, <3>1 DEF CancelsRestart
    <3>3. record'[c].st = "exited" /\ record'[c].gen = record[c].gen
      BY <3>2, Written
    <3>4. ~Owning(c)
      BY <2>1 DEF CancelsRestart, Owning
    <3> QED BY <2>0, <3>2, <3>3, <3>4, RewriteShape
  <2>2. CASE record' = record
    BY <2>0, <2>2, QuietShape
  <2> QED BY <1>1, <2>1, <2>2 DEF SweepSettles
<1>2. CASE SweepResumes(c) \/ SweepPauses(c)
  <2>0. UNCHANGED <<live, cleanup>>
    BY <1>2 DEF SweepResumes, SweepPauses
  <2>1. CASE \/ PauseLocked(c, "paused", "running", "up")
             \/ PauseLocked(c, "running", "paused", "frozen")
    BY <2>0, <2>1, PauseShape
  <2>2. CASE UNCHANGED <<record, guest>>
    BY <2>0, <2>2, QuietShape
  <2> QED BY <1>2, <2>1, <2>2 DEF SweepResumes, SweepPauses, PauseUnwritten
<1>3. CASE SweepCaptures(c)
  <2>0. UNCHANGED cleanup
    BY <1>3 DEF SweepCaptures
  <2>1. CASE Capturable(c) /\ (CheckpointSucceeds(c) \/ CheckpointFails(c))
    BY <2>0, <2>1, CheckpointShape
  <2>2. CASE UNCHANGED <<record, guest, live>>
    BY <2>0, <2>2, QuietShape
  <2> QED BY <1>3, <2>1, <2>2 DEF SweepCaptures
<1>4. CASE SweepRestarts(c)
  <2>1. ~Owning(c)
    BY <1>4 DEF SweepRestarts, Active, Owning
  <2>2. CASE LaunchPublishes(c, TRUE) /\ UNCHANGED cleanup
    BY <2>1, <2>2, LaunchShape
  <2>3. CASE (\E rolled \in BOOLEAN : LaunchFails(c, rolled)) /\ UNCHANGED <<record, guest, live>>
    BY <2>1, <2>3, LaunchFailsElsewhere, RewriteShape DEF Owning
  <2> QED BY <1>4, <2>2, <2>3 DEF SweepRestarts
<1> QED BY <1>1, <1>2, <1>3, <1>4

(* The death of the daemon and the next one's startup.                     *)
LEMMA DaemonShape ==
  ASSUME TypeOK, GuestAccounted, DownIsDead,
         Crash \/ (\E c \in Containers : Reconcile(c)) \/ Recover
  PROVE  Shape
<1>1. CASE Crash
  <2>1. \A c \in Containers, g \in Gens : guest'[c][g].phase \notin Alive
    BY <1>1, TypeParts DEF Crash, GuestType, Alive
  <2>2. \A c \in Containers : Fades(c)
    BY <1>1, <2>1 DEF Crash, Fades, Owning
  <2> QED BY <2>2 DEF Shape
<1>2. ASSUME NEW c \in Containers, Reconcile(c) PROVE Shape
  <2>1. record \in [Containers -> Records] /\ record[c] \in Records
    BY TypeParts DEF RecordType
  <2>2. record'[c] = Reconciled(c) /\ \A d \in Containers \ {c} : record'[d] = record[d]
    BY <1>2, <2>1 DEF Reconcile
  <2>3. \A g \in Gens : guest'[c][g].phase \notin Alive
    BY <1>2 DEF Reconcile, DownIsDead, volatile
  <2>4. Reconciled(c).gen = record[c].gen
    <3>1. CASE Owning(c)
      BY <2>1, <3>1 DEF Reconciled, Records, Owning
    <3>2. CASE ~Owning(c) /\ record[c].st = "exited" /\ record[c].policy.kind = "always"
               /\ record[c].restart.manual
      BY <2>1, <3>2 DEF Reconciled, Records
    <3>3. CASE ~Owning(c) /\ ~(record[c].st = "exited" /\ record[c].policy.kind = "always"
               /\ record[c].restart.manual)
      BY <3>3 DEF Reconciled
    <3> QED BY <3>1, <3>2, <3>3
  <2>5. Reconciled(c).st \notin {"running", "paused"}
    <3>1. CASE Owning(c)
      BY <2>1, <3>1 DEF Reconciled, Records, Owning
    <3>2. CASE ~Owning(c) /\ record[c].st = "exited" /\ record[c].policy.kind = "always"
               /\ record[c].restart.manual
      BY <2>1, <3>2 DEF Reconciled, Records
    <3>3. CASE ~Owning(c) /\ ~(record[c].st = "exited" /\ record[c].policy.kind = "always"
               /\ record[c].restart.manual)
      BY <3>3 DEF Reconciled, Owning
    <3> QED BY <3>1, <3>2, <3>3
  <2>6. \A d \in Containers \ {c} : Untouched(d)
    BY <1>2, <2>2 DEF Reconcile, Untouched, volatile
  <2> QED BY <1>2, <2>2, <2>3, <2>4, <2>5, <2>6, EndShape DEF Reconcile, Owning, volatile
<1>3. CASE Recover
  <2>1. ASSUME NEW c \in Containers PROVE Fades(c)
    <3>1. \/ record'[c] = record[c]
          \/ record[c].st = "exited" /\ record'[c] = [record[c] EXCEPT !.st = "removed"]
      BY <1>3 DEF Recover
    <3>2. record[c] \in Records
      BY StoreType
    <3>3. /\ record'[c].gen = record[c].gen
          /\ Owning(c)' => Owning(c) /\ record'[c].publish = record[c].publish
      BY <3>1, <3>2 DEF Records, Owning
    <3>4. \A g \in Gens : guest'[c][g].phase \notin Alive
      BY <1>3 DEF Recover, DownIsDead
    <3> QED BY <1>3, <3>3, <3>4 DEF Recover, Fades
  <2> QED BY <2>1 DEF Shape
<1> QED BY <1>1, <1>2, <1>3

(* Every step either begins the next run of one idle container or begins   *)
(* nothing.                                                                *)
LEMMA StepShape ==
  ASSUME TypeOK, GuestAccounted, DownIsDead, [Next]_vars
  PROVE  Shape
<1>1. ASSUME NEW c \in Containers, ContainerNext(c) PROVE Shape
  BY <1>1, ClientShape, SweepShape, DaemonShape DEF ContainerNext
<1>2. ASSUME NEW c \in Containers, NEW g \in Gens, RunNext(c, g) PROVE Shape
  BY <1>2, RunShape
<1>3. ASSUME NEW k \in Callers, CallerNext(k) PROVE Shape
  BY <1>3, CallShape
<1>4. CASE SweepBegins \/ SweepTurns
  BY <1>4, QuietShape DEF SweepBegins, SweepTurns, volatile
<1>5. CASE Crash \/ Recover
  BY <1>5, DaemonShape
<1>6. CASE UNCHANGED vars
  BY <1>6, QuietShape DEF vars
<1> QED BY <1>1, <1>2, <1>3, <1>4, <1>5, <1>6 DEF Next

-----------------------------------------------------------------------------
(* The invariants.                                                         *)

(* Nothing comes to life while the daemon is down.                         *)
LEMMA DownStep ==
  ASSUME TypeOK, DownIsDead, [Next]_vars
  PROVE  DownIsDead'
<1>1. ASSUME NEW c \in Containers, ContainerNext(c)
      PROVE  UNCHANGED daemon /\ (DownIsDead /\ daemon = "down" => UNCHANGED <<guest, sweep>>)
  <2>1. CASE \/ Create(c) \/ Start(c) \/ Pause(c) \/ Unpause(c) \/ Update(c)
             \/ Checkpoint(c) \/ DiscardCheckpoint(c) \/ SettleLateReap(c) \/ AutoRemove(c)
    BY <2>1 DEF Create, Start, Pause, Unpause, Update, Checkpoint, DiscardCheckpoint,
                SettleLateReap, AutoRemove, Free
  <2>2. CASE \/ SweepSettles(c) \/ SweepResumes(c) \/ SweepCaptures(c)
             \/ SweepRestarts(c) \/ SweepPauses(c)
    BY <2>2 DEF DownIsDead, SweepSettles, SweepResumes, SweepCaptures, SweepRestarts,
                SweepPauses
  <2>3. CASE Reconcile(c)
    BY <2>3 DEF Reconcile, volatile
  <2> QED BY <1>1, <2>1, <2>2, <2>3 DEF ContainerNext
<1>2. ASSUME NEW c \in Containers, NEW g \in Gens, RunNext(c, g)
      PROVE  /\ UNCHANGED daemon
             /\ daemon = "down" => /\ UNCHANGED sweep
                                   /\ UNCHANGED guest \/ AbandonedExits(c, g)
  BY <1>2 DEF RunNext, GuestExits, AbandonedExits, LogFails, Finish, TimerFires,
              TimerCancelled, Free
<1>3. ASSUME NEW k \in Callers, CallerNext(k)
      PROVE  UNCHANGED daemon /\ (daemon = "down" => UNCHANGED <<guest, sweep>>)
  BY <1>3 DEF CallerNext, Call, Read, CallUnpauses, Signal, StopSignal, Enter, Look,
              TimesOut, Remove, Free, volatile
<1>4. CASE Crash
  <2>1. \A c \in Containers, g \in Gens : guest'[c][g].phase \notin Alive
    BY <1>4, TypeParts DEF Crash, GuestType, Alive
  <2> QED BY <1>4, <2>1 DEF Crash, DownIsDead, NoSweep
<1>5. CASE Recover \/ SweepBegins
  BY <1>5 DEF Recover, SweepBegins, Free, DownIsDead
<1>6. CASE SweepTurns
  BY <1>6 DEF SweepTurns, DownIsDead, volatile
<1>7. ASSUME NEW c \in Containers, NEW g \in Gens, AbandonedExits(c, g)
      PROVE  DownIsDead'
  <2>1. \A d \in Containers, h \in Gens :
          guest'[d][h].phase \in Alive => guest[d][h].phase \in Alive
    BY <1>7, Phased DEF AbandonedExits, Alive
  <2> QED BY <1>7, <2>1 DEF AbandonedExits, DownIsDead
<1>8. CASE UNCHANGED vars
  BY <1>8 DEF vars, DownIsDead
<1> QED BY <1>1, <1>2, <1>3, <1>4, <1>5, <1>6, <1>7, <1>8 DEF Next, DownIsDead

(* A step of either shape keeps every process accounted for.               *)
LEMMA AccountedStep ==
  ASSUME TypeOK, GuestAccounted, Shape, RecordType'
  PROVE  GuestAccounted'
<1>1. ASSUME NEW c \in Containers, Launches(c), \A d \in Containers \ {c} : Untouched(d)
      PROVE  GuestAccounted'
  <2> SUFFICES ASSUME NEW d \in Containers, NEW g \in Gens, guest'[d][g].phase \in Alive
               PROVE  Owning(d)' /\ record'[d].gen = g /\ live'[d] = g
    BY DEF GuestAccounted
  <2>1. CASE d # c
    BY <1>1, <2>1 DEF Untouched, GuestAccounted, Owning
  <2>2. CASE d = c
    BY <1>1, <2>2 DEF Launches, GuestAccounted
  <2> QED BY <2>1, <2>2
<1>2. CASE \A c \in Containers : Fades(c)
  BY <1>2 DEF Fades, GuestAccounted
<1> QED BY <1>1, <1>2 DEF Shape

(* A step of either shape keeps quarantined containers from running.       *)
LEMMA QuarantineStep ==
  ASSUME QuarantineHolds, Shape
  PROVE  QuarantineHolds'
<1>1. ASSUME UNCHANGED cleanup, NEW c \in Containers, Launches(c),
             \A d \in Containers \ {c} : Untouched(d)
      PROVE  QuarantineHolds'
  BY <1>1 DEF Launches, LaunchRefused, Untouched, QuarantineHolds, Owning
<1>2. CASE \A c \in Containers : Fades(c)
  BY <1>2 DEF Fades, QuarantineHolds
<1> QED BY <1>1, <1>2 DEF Shape

(* A step of either shape keeps host ports exclusive.                      *)
LEMMA PortsStep ==
  ASSUME PortsExclusive, Shape
  PROVE  PortsExclusive'
<1>1. ASSUME NEW c \in Containers, Launches(c), \A d \in Containers \ {c} : Untouched(d)
      PROVE  PortsExclusive'
  <2>1. \A d \in Containers \ {c} : Owning(d) =>
          record[c].publish \cap record[d].publish = {}
    BY <1>1 DEF Launches, LaunchRefused, PortConflict, Active, Owning
  <2> SUFFICES ASSUME NEW d \in Containers, NEW e \in Containers, d # e,
                      Owning(d)', Owning(e)'
               PROVE  record'[d].publish \cap record'[e].publish = {}
    BY DEF PortsExclusive
  <2>2. CASE d # c /\ e # c
    BY <1>1, <2>2 DEF Untouched, PortsExclusive, Owning
  <2>3. CASE d = c
    BY <1>1, <2>1, <2>3 DEF Untouched, Launches, Owning
  <2>4. CASE e = c
    BY <1>1, <2>1, <2>4 DEF Untouched, Launches, Owning
  <2> QED BY <2>2, <2>3, <2>4
<1>2. CASE \A c \in Containers : Fades(c)
  BY <1>2 DEF Fades, PortsExclusive
<1> QED BY <1>1, <1>2 DEF Shape

(* The first daemon starts with empty maps.                                *)
LEMMA InitInv == Init => Inv
<1> SUFFICES ASSUME Init PROVE Inv
  OBVIOUS
<1>1. GuestAccounted
  BY DEF Init, GuestAccounted, NoGuest, Alive
<1>2. QuarantineHolds /\ PortsExclusive /\ DownIsDead
  BY DEF Init, QuarantineHolds, PortsExclusive, DownIsDead, Owning
<1> QED BY <1>1, <1>2, InitType DEF Inv

(* The invariant is inductive.                                             *)
LEMMA InvStep == Inv /\ [Next]_vars => Inv'
<1> SUFFICES ASSUME Inv, [Next]_vars PROVE Inv'
  OBVIOUS
<1>1. TypeOK /\ GuestAccounted /\ QuarantineHolds /\ PortsExclusive /\ DownIsDead
  BY DEF Inv
<1>2. TypeOK'
  BY <1>1, TypeStep
<1>3. Shape
  BY <1>1, StepShape
<1>4. GuestAccounted' /\ QuarantineHolds' /\ PortsExclusive' /\ DownIsDead'
  <2>1. RecordType'
    BY <1>2 DEF TypeOK, RecordType
  <2> QED BY <1>1, <1>3, <2>1, AccountedStep, QuarantineStep, PortsStep, DownStep
<1> QED BY <1>2, <1>4 DEF Inv

(* The invariant holds in every reachable state.                           *)
THEOREM Invariance == Spec => []Inv
BY InitInv, InvStep, PTL DEF Spec

(* launch.rs, restart.rs, checkpoint.rs: every process that a task of the  *)
(* daemon owns is the process of its container's recorded run, and that    *)
(* record is running or paused.                                            *)
THEOREM ProcessesAccounted == Spec => []GuestAccounted
<1>1. Inv => GuestAccounted
  BY DEF Inv
<1> QED BY <1>1, Invariance, PTL

(* rollback.rs: no container runs while a process of an unpublished launch *)
(* may still be alive.                                                     *)
THEOREM QuarantinesHold == Spec => []QuarantineHolds
<1>1. Inv => QuarantineHolds
  BY DEF Inv
<1> QED BY <1>1, Invariance, PTL

(* launch.rs: containers that publish the same host port never run at the  *)
(* same time.                                                              *)
THEOREM PortsAreExclusive == Spec => []PortsExclusive
<1>1. Inv => PortsExclusive
  BY DEF Inv
<1> QED BY <1>1, Invariance, PTL

(* A write that keeps the mark of a manual stop, or launches.              *)
Marked(c, r) ==
  record[c].restart.manual => r.restart.manual \/ r.gen # record[c].gen

(* One such write loses no mark.                                           *)
LEMMA MarkedWrite ==
  ASSUME TypeOK, NEW c \in Containers, NEW r, Marked(c, r),
         record' = [record EXCEPT ![c] = r]
  PROVE  \A d \in Containers : Marked(d, record'[d])
BY TypeParts DEF RecordType, Marked

(* The records the operations write keep the mark.                         *)
LEMMA MarkedRecords ==
  ASSUME TypeOK, NEW c \in Containers
  PROVE  /\ Marked(c, record[c]) /\ Marked(c, Cancelled(c)) /\ Marked(c, Captured(c))
         /\ \A s \in States : Marked(c, [record[c] EXCEPT !.st = s])
         /\ \A long \in BOOLEAN : \A result : Marked(c, Completed(c, result, long))
         /\ \A explicit \in BOOLEAN : Marked(c, Launched(c, explicit))
<1>1. record[c] \in Records
  BY TypeParts DEF RecordType
<1>2. Marked(c, record[c]) /\ \A s \in States : Marked(c, [record[c] EXCEPT !.st = s])
  BY <1>1 DEF Marked, Records
<1>3. Marked(c, Cancelled(c)) /\ Marked(c, Captured(c))
  BY <1>1 DEF Marked, Cancelled, Captured, Manual, Records
<1>4. ASSUME NEW long \in BOOLEAN, NEW result PROVE Marked(c, Completed(c, result, long))
  <2>1. CompletedRun(record[c].restart, long).manual = record[c].restart.manual
    BY <1>1 DEF CompletedRun, Records
  <2>2. Completed(c, result, long).restart = CompletedRun(record[c].restart, long)
    BY <1>1 DEF Completed, Records
  <2> QED BY <2>1, <2>2 DEF Marked
<1>5. ASSUME NEW explicit \in BOOLEAN PROVE Marked(c, Launched(c, explicit))
  BY <1>1 DEF Marked, Launched, Records
<1> QED BY <1>2, <1>3, <1>4, <1>5

(* Only the startup of a daemon forgets the mark without a launch.         *)
LEMMA MarksKept ==
  ASSUME TypeOK, [Next]_vars,
         ~\A c \in Containers : Marked(c, record'[c])
  PROVE  \E c \in Containers : Reconcile(c)
<1>0. record \in [Containers -> Records] /\ \A c \in Containers : record[c] \in Records
  BY TypeParts DEF RecordType
<1>1. record' # record
  BY MarkedRecords
<1>2. ASSUME NEW c \in Containers, NEW r, Marked(c, r), record' = [record EXCEPT ![c] = r]
      PROVE  FALSE
  BY <1>2, MarkedWrite
<1>3. ASSUME NEW c \in Containers, NEW s \in States,
             record' = [record EXCEPT ![c].st = s]
      PROVE  FALSE
  <2>1. record' = [record EXCEPT ![c] = [record[c] EXCEPT !.st = s]]
    BY <1>3
  <2> QED BY <1>2, <2>1, MarkedRecords
<1>4. ASSUME NEW c \in Containers, ContainerNext(c) PROVE Reconcile(c)
  <2>1. CASE Create(c)
    BY <1>0, <1>2, <2>1 DEF Create, Marked, Records
  <2>2. CASE Start(c) \/ SweepRestarts(c)
    BY <1>1, <1>2, <2>2, MarkedRecords DEF Start, SweepRestarts, LaunchPublishes
  <2>3. CASE Pause(c) \/ Unpause(c) \/ SweepResumes(c) \/ SweepPauses(c)
    BY <1>1, <1>3, <2>3 DEF Pause, Unpause, SweepResumes, SweepPauses, PauseLocked,
                            PauseUnwritten, States
  <2>4. CASE Update(c)
    BY <1>0, <1>2, <2>4 DEF Update, Marked, Records
  <2>5. CASE DiscardCheckpoint(c)
    <3>1. record' = [record EXCEPT ![c] = [record[c] EXCEPT !.ckpt = FALSE]]
      BY <2>5 DEF DiscardCheckpoint
    <3> QED BY <1>0, <1>2, <3>1 DEF Marked, Records
  <2>6. CASE Checkpoint(c) \/ SweepCaptures(c)
    BY <1>1, <1>2, <2>6, MarkedRecords
    DEF Checkpoint, SweepCaptures, CheckpointSucceeds, CheckpointFails, CaptureRefused,
        CaptureUnrecorded, MembersUnrecorded, CaptureWedged
  <2>7. CASE AutoRemove(c)
    BY <1>1, <1>3, <2>7 DEF AutoRemove, RemoveLocked, RemoveFails, States
  <2>8. CASE SweepSettles(c)
    BY <1>1, <1>2, <2>8, MarkedRecords DEF SweepSettles, CancelsRestart
  <2>9. CASE SettleLateReap(c)
    BY <1>1, <2>9 DEF SettleLateReap
  <2> QED BY <1>4, <2>1, <2>2, <2>3, <2>4, <2>5, <2>6, <2>7, <2>8, <2>9 DEF ContainerNext
<1>5. ASSUME NEW c \in Containers, NEW g \in Gens, RunNext(c, g) PROVE FALSE
  <2>1. CASE Finish(c, g)
    <3>1. CASE FinishPublished(c, g)
      <4>1. PICK long \in BOOLEAN :
              record' = [record EXCEPT ![c] = Completed(c, guest[c][g].result, long)]
        BY <3>1 DEF FinishPublished
      <4> QED BY <1>2, <4>1, MarkedRecords
    <3> QED BY <1>1, <2>1, <3>1 DEF Finish, FinishStale, FinishUnpersisted
  <2>2. CASE TimerFires(c, g)
    <3>1. CASE RestartStale(c, g)
      BY <1>1, <3>1 DEF RestartStale
    <3>2. CASE RestartLaunches(c, g)
      BY <1>2, <3>2, MarkedRecords DEF RestartLaunches, LaunchPublishes
    <3>3. CASE RestartFails(c, g)
      BY <1>0, <1>1, <1>2, <3>3 DEF RestartFails, Marked, Records
    <3> QED BY <2>2, <3>1, <3>2, <3>3 DEF TimerFires
  <2> QED BY <1>1, <1>5, <2>1, <2>2 DEF RunNext, GuestExits, AbandonedExits, LogFails,
                                        TimerCancelled
<1>6. ASSUME NEW k \in Callers, CallerNext(k) PROVE FALSE
  <2>1. CASE Call(k) \/ Read(k) \/ Signal(k) \/ Enter(k) \/ Look(k) \/ TimesOut(k)
    BY <1>1, <2>1 DEF Call, Read, Signal, Enter, Look, TimesOut
  <2> DEFINE c == caller[k].c
  <2>2. ASSUME CallUnpauses(k) \/ StopSignal(k) \/ Remove(k) PROVE c \in Containers
    <3>1. caller[k].pc # "idle"
      BY <2>2 DEF CallUnpauses, StopSignal, Remove
    <3> QED BY <3>1, CallTarget
  <2> HIDE DEF c
  <2>3. CASE CallUnpauses(k)
    BY <1>1, <1>3, <2>2, <2>3 DEF CallUnpauses, PauseLocked, PauseUnwritten, States, c
  <2>4. CASE StopSignal(k)
    <3>1. \/ record' = record \/ record' = [record EXCEPT ![c] = Cancelled(c)]
          \/ record' = [record EXCEPT ![c].restart = Manual(@)]
      BY <2>4 DEF StopSignal, CancelsRestart, c
    <3>2. CASE record' = [record EXCEPT ![c].restart = Manual(@)]
      <4>1. record' = [record EXCEPT ![c] =
                         [record[c] EXCEPT !.restart = Manual(record[c].restart)]]
        BY <3>2
      <4>2. Marked(c, [record[c] EXCEPT !.restart = Manual(record[c].restart)])
        BY <1>0, <2>2, <2>4 DEF Marked, Manual, Records
      <4> QED BY <1>2, <2>2, <2>4, <4>1, <4>2
    <3> QED BY <1>1, <1>2, <2>2, <2>4, <3>1, <3>2, MarkedRecords
  <2>5. CASE Remove(k)
    BY <1>1, <1>3, <2>2, <2>5 DEF Remove, RemoveLocked, RemoveFails, States, c
  <2> QED BY <1>6, <2>1, <2>3, <2>4, <2>5 DEF CallerNext
<1>7. CASE Recover
  BY <1>0, <1>7 DEF Recover, Marked, Records
<1>8. CASE SweepBegins \/ SweepTurns \/ Crash \/ UNCHANGED vars
  BY <1>1, <1>8 DEF SweepBegins, SweepTurns, Crash, vars
<1> QED BY <1>4, <1>5, <1>6, <1>7, <1>8 DEF Next

(* ... and then for an `always` container that is left to be restarted.    *)
LEMMA StartupForgets ==
  ASSUME TypeOK, NEW c \in Containers, NEW d \in Containers, Reconcile(d),
         record[c].restart.manual, ~record'[c].restart.manual
  PROVE  /\ daemon = "down" /\ record[c].policy.kind = "always"
         /\ record[c].st = "exited" /\ record'[c].st = "restarting"
<1>0. record \in [Containers -> Records] /\ record[c] \in Records
  BY TypeParts DEF RecordType
<1>1. c = d /\ record'[c] = Reconciled(c) /\ daemon = "down"
  BY <1>0 DEF Reconcile
<1>2. ~Owning(c)
  <2> SUFFICES ASSUME Owning(c) PROVE FALSE
    OBVIOUS
  <2> DEFINE t == IF AllowsAfterDaemonRestart(record[c].policy) THEN "restarting" ELSE "exited"
  <2>1. Reconciled(c) = [record[c] EXCEPT !.st = t, !.result = "fault"]
    BY DEF Reconciled, Owning
  <2> HIDE DEF t
  <2>2. Reconciled(c).restart = record[c].restart
    BY <1>0, <2>1 DEF Records
  <2> QED BY <1>1, <2>2
<1>3. record[c].st = "exited" /\ record[c].policy.kind = "always"
  BY <1>0, <1>1, <1>2 DEF Reconciled
<1>4. Reconciled(c) = [record[c] EXCEPT !.st = "restarting", !.restart.manual = FALSE]
  BY <1>2, <1>3 DEF Reconciled
<1> QED BY <1>0, <1>1, <1>3, <1>4 DEF Records

(* restart.rs, control.rs: whatever timers, crashes and sweeps do, a       *)
(* container that was stopped by hand keeps the mark of its stop and is    *)
(* not launched until an explicit launch forgets the stop, except that a   *)
(* daemon starting up forgets it for an `always` container.                *)
THEOREM ManualStopsHonoured == Spec => ManualStopHonoured
<1> DEFINE Honoured(c) ==
      record[c].restart.manual =>
        IF record'[c].gen # record[c].gen
        THEN record'[c].restart = FreshRestart
        ELSE ~record'[c].restart.manual =>
               /\ daemon = "down" /\ record[c].policy.kind = "always"
               /\ record[c].st = "exited" /\ record'[c].st = "restarting"
<1>1. ASSUME Inv, [Next]_vars, NEW c \in Containers PROVE Honoured(c)
  <2>1. Shape
    BY <1>1, StepShape DEF Inv
  <2>2. CASE record'[c].gen # record[c].gen
    BY <2>1, <2>2 DEF Shape, Launches, Untouched, Fades
  <2>3. ASSUME record'[c].gen = record[c].gen, record[c].restart.manual,
               ~record'[c].restart.manual
        PROVE  Honoured(c)
    <3>1. ~Marked(c, record'[c])
      BY <2>3 DEF Marked
    <3>2. PICK d \in Containers : Reconcile(d)
      BY <1>1, <3>1, MarksKept DEF Inv
    <3> QED BY <1>1, <2>3, <3>2, StartupForgets DEF Inv
  <2> QED BY <2>2, <2>3
<1>2. Inv /\ [Next]_vars => [\A c \in Containers : Honoured(c)]_vars
  BY <1>1
<1> QED BY <1>2, Invariance, PTL DEF Spec, ManualStopHonoured
=============================================================================
