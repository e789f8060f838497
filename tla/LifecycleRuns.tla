--------------------------- MODULE LifecycleRuns ---------------------------
(***************************************************************************)
(* What a container's record says of its run, for every instance of        *)
(* Lifecycle: a recorded run has its process or a recorded failure, a      *)
(* paused one is suspended, a pending restart is one its policy allows,    *)
(* and what a client sees of status and generation is ContainerStates.     *)
(*                                                                         *)
(* These rest on one fact about a step of a daemon that is up (StepTends): *)
(* it touches one container at most, moves its status along an edge of     *)
(* ContainerStates, and keeps what the record says of the run (Sound).     *)
(*                                                                         *)
(* The last two sections are about histories without a failed write: a     *)
(* wait is never left asleep after its run ended (WakeInv), and a sweep    *)
(* that undoes its checkpoints brings back the runs it took (Restoring).   *)
(***************************************************************************)
EXTENDS LifecycleProofs

(* The parts of the properties that are about one container.               *)
Allowed(c) ==
  record[c].st = "restarting" /\ ~record[c].restart.manual =>
    Allows(record[c].policy, record[c].result, record[c].restart)
Hosted(c) ==
  Owning(c) =>
    /\ live[c] = record[c].gen /\ live[c] # NoGen
    /\ \/ guest[c][record[c].gen].phase \in Alive \cup {"exited"}
       \/ failures[c] /\ faults # 0
Faithful(c) ==
  "stop-signals" \notin Env /\ live[c] # NoGen =>
    /\ guest[c][live[c]].phase = "frozen" => record[c].st = "paused"
    /\ guest[c][live[c]].phase = "up" => record[c].st = "running"
Sound(c) == Allowed(c) /\ Hosted(c) /\ Faithful(c)

(* The edges of the status of a container while the daemon is up.          *)
Turns ==
  {<<"unborn", "created">>, <<"created", "running">>, <<"exited", "running">>,
   <<"restarting", "running">>, <<"running", "paused">>, <<"paused", "running">>,
   <<"running", "restarting">>, <<"paused", "restarting">>, <<"running", "exited">>,
   <<"paused", "exited">>, <<"restarting", "exited">>, <<"created", "removed">>,
   <<"exited", "removed">>}

Begins(c) == Owning(c)' /\ ~Owning(c)
Turned(c) ==
  /\ record'[c].st = record[c].st \/ <<record[c].st, record'[c].st>> \in Turns
  /\ record'[c].gen = IF Begins(c) THEN record[c].gen + 1 ELSE record[c].gen

(* A step that touches only container c.                                   *)
Only(c) ==
  \A d \in Containers \ {c} : Untouched(d) /\ failures'[d] = failures[d]
Tends(c) == Only(c) /\ Turned(c) /\ (Sound(c) => Sound(c)')
Tended ==
  \/ \E c \in Containers : Tends(c)
  \/ UNCHANGED <<record, guest, live, failures>>

-----------------------------------------------------------------------------
(* Building blocks.                                                        *)

(* A failed write is never forgotten.                                      *)
FaultsKept == faults' = 0 => faults = 0

LEMMA FaultsGrow ==
  ASSUME TypeOK, [Next]_vars
  PROVE  FaultsKept
<1> SUFFICES ASSUME faults' = 0 PROVE faults = 0
  BY DEF FaultsKept
<1>1. faults \in Nat
  BY LifecycleAssumption, TypeParts DEF FaultType, LifecycleAssumption
<1>2. ASSUME NEW b \in BOOLEAN, Charge(b) PROVE faults = 0
  BY <1>1, <1>2 DEF Charge
<1>3. ASSUME NEW c \in Containers, ContainerNext(c) PROVE faults = 0
  <2>1. UNCHANGED faults \/ \E b \in BOOLEAN : Charge(b)
    BY <1>3 DEF ContainerNext, Create, Start, Pause, Unpause, Update, Checkpoint,
       DiscardCheckpoint, SettleLateReap, AutoRemove, Reconcile, SweepSettles, SweepResumes,
       SweepCaptures, SweepRestarts, SweepPauses, CheckpointSucceeds, CheckpointFails,
       CaptureRefused, CaptureUnrecorded, MembersUnrecorded, CaptureWedged, RemoveFails,
       PauseUnwritten
  <2> QED BY <1>2, <2>1
<1>4. ASSUME NEW c \in Containers, NEW g \in Gens, RunNext(c, g) PROVE faults = 0
  <2>1. CASE RestartFails(c, g)
    BY <1>1, <2>1 DEF RestartFails
  <2>2. \/ UNCHANGED faults \/ Charge(FALSE) \/ RestartFails(c, g)
    BY <1>4 DEF RunNext, GuestExits, AbandonedExits, LogFails, Finish, FinishStale,
       FinishUnpersisted, FinishPublished, TimerFires, RestartStale, RestartLaunches,
       TimerCancelled
  <2> QED BY <1>2, <2>1, <2>2
<1>5. ASSUME NEW k \in Callers, CallerNext(k) PROVE faults = 0
  <2>1. UNCHANGED faults \/ Charge(FALSE)
    BY <1>5 DEF CallerNext, Call, Read, CallUnpauses, Signal, StopSignal, Enter, Look,
       TimesOut, Remove, RemoveFails, PauseUnwritten
  <2> QED BY <1>2, <2>1
<1>6. CASE SweepBegins \/ SweepTurns \/ Crash \/ Recover \/ UNCHANGED vars
  BY <1>6 DEF SweepBegins, SweepTurns, Crash, Recover, vars
<1> QED BY <1>3, <1>4, <1>5, <1>6 DEF Next

(* The record is rewritten; process and owner stay.                        *)
LEMMA RewriteTends ==
  ASSUME FaultsKept, GuestAccounted, NEW c \in Containers, TypeOK, Only(c), Turned(c),
         guest'[c] = guest[c], live'[c] = live[c], Allowed(c) => Allowed(c)',
         \/ ~Owning(c) /\ record'[c].st \notin {"running", "paused"}
         \/ record'[c].st = record[c].st /\ (failures[c] => failures'[c])
  PROVE  Tends(c)
<1>1. Hosted(c) => Hosted(c)'
  BY DEF Hosted, Owning, Turned, Begins, FaultsKept
<1>2. Faithful(c) => Faithful(c)'
  <2>1. live[c] \in Gens \/ live[c] = NoGen
    BY LiveGen
  <2>2. CASE record'[c].st = record[c].st
    BY <2>2 DEF Faithful
  <2>3. CASE ~Owning(c)
    BY <2>1, <2>3 DEF Faithful, GuestAccounted, Alive
  <2> QED BY <2>2, <2>3
<1> QED BY <1>1, <1>2 DEF Tends, Sound

(* A new status, and nothing else of it, is not a pending restart.         *)
LEMMA SettledIsAllowed ==
  ASSUME NEW c \in Containers, record'[c].st # "restarting" PROVE Allowed(c)'
BY DEF Allowed

(* launch_locked.                                                          *)
LEMMA LaunchTends ==
  ASSUME FaultsKept, TypeOK, NEW c \in Containers, NEW e \in BOOLEAN, LaunchPublishes(c, e),
         record[c].st \in {"created", "exited", "restarting"}, UNCHANGED failures
  PROVE  Tends(c)
<1> DEFINE n == record[c].gen + 1
<1>1. /\ record \in [Containers -> Records] /\ guest \in [Containers -> [Gens -> Guests]]
      /\ live \in [Containers -> 0 .. MaxGeneration] /\ record[c] \in Records
  BY TypeParts DEF RecordType, GuestType, LiveType
<1>2. /\ record' = [record EXCEPT ![c] = Launched(c, e)]
      /\ guest' = [guest EXCEPT ![c][n] = [phase |-> "up", result |-> "none"]]
      /\ live' = [live EXCEPT ![c] = n]
      /\ record[c].gen # MaxGeneration
  BY DEF LaunchPublishes, LaunchRefused
<1>3. Launched(c, e).st = "running" /\ Launched(c, e).gen = n
  BY <1>1 DEF Launched, Records
<1>4. n \in Gens /\ n # NoGen
  BY <1>1, <1>2, LifecycleAssumption DEF Records, Gens, NoGen, LifecycleAssumption
<1> HIDE DEF n
<1>5. record'[c].st = "running" /\ record'[c].gen = n /\ live'[c] = n
  BY <1>1, <1>2, <1>3
<1>6. guest'[c][n].phase = "up"
  BY <1>1, <1>2, <1>4, Replaced
<1>7. Only(c)
  BY <1>1, <1>2 DEF Only, Untouched
<1>8. Turned(c)
  BY <1>5 DEF Turned, Turns, Begins, Owning, n
<1>9. Sound(c)'
  BY <1>4, <1>5, <1>6 DEF Sound, Allowed, Hosted, Faithful, Alive
<1> QED BY <1>7, <1>8, <1>9 DEF Tends

(* pause_locked and unpause_locked.                                        *)
LEMMA PauseTends ==
  ASSUME FaultsKept, TypeOK, NEW c \in Containers, UNCHANGED <<live, failures>>,
         \/ PauseLocked(c, "running", "paused", "frozen")
         \/ PauseLocked(c, "paused", "running", "up")
  PROVE  Tends(c)
<1>0. PICK from \in States, to \in States, phase \in Phases :
        /\ PauseLocked(c, from, to, phase)
        /\ \/ from = "running" /\ to = "paused" /\ phase = "frozen"
           \/ from = "paused" /\ to = "running" /\ phase = "up"
  BY DEF States, Phases
<1>1. /\ live[c] \in Gens /\ live[c] # NoGen /\ record[c].st = from
  BY <1>0, LiveGen DEF PauseLocked
<1>2. /\ record'[c].st = to /\ record'[c].gen = record[c].gen
      /\ \A d \in Containers \ {c} : record'[d] = record[d]
  BY <1>0, Written DEF PauseLocked
<1>3. PICK p : /\ guest' = [guest EXCEPT ![c][live[c]].phase = p]
               /\ p = phase \/ p = "killed"
  BY <1>0 DEF PauseLocked
<1>4. /\ guest'[c][live[c]].phase = p
      /\ \A d \in Containers \ {c} : guest'[d] = guest[d]
  BY <1>1, <1>3, Phased
<1>5. Only(c)
  BY <1>2, <1>4 DEF Only, Untouched
<1>6. Turned(c)
  BY <1>0, <1>1, <1>2 DEF Turned, Turns, Begins, Owning
<1>7. Hosted(c) => Hosted(c)'
  BY <1>0, <1>1, <1>2, <1>3, <1>4 DEF Hosted, Owning, Alive
<1>8. Faithful(c)'
  BY <1>0, <1>2, <1>3, <1>4 DEF Faithful
<1>9. Allowed(c)'
  BY <1>0, <1>2 DEF Allowed
<1> QED BY <1>5, <1>6, <1>7, <1>8, <1>9 DEF Tends, Sound

(* A signal that kills, or stops and continues, the process.               *)
LEMMA KillTends ==
  ASSUME FaultsKept, TypeOK, NEW c \in Containers, UNCHANGED <<live, failures>>,
         \/ guest' = guest \/ guest' = Killed(c)
         \/ "stop-signals" \in Env /\ guest' \in Stopped(c),
         \A d \in Containers \ {c} : record'[d] = record[d],
         record'[c].st = record[c].st, record'[c].gen = record[c].gen,
         Allowed(c) => Allowed(c)'
  PROVE  Tends(c)
<1>0. \/ guest' = guest
      \/ /\ live[c] # NoGen
         /\ \E p \in Alive : /\ guest' = [guest EXCEPT ![c][live[c]].phase = p]
                             /\ p = "killed" \/ "stop-signals" \in Env
  BY DEF Killed, Stopped, Alive
<1>1. CASE guest' = guest
  <2>1. Only(c) /\ Turned(c) /\ (Hosted(c) => Hosted(c)') /\ (Faithful(c) => Faithful(c)')
    BY <1>1 DEF Only, Untouched, Turned, Begins, Owning, Hosted, Faithful, FaultsKept
  <2> QED BY <2>1 DEF Tends, Sound
<1>2. ASSUME live[c] # NoGen, NEW p \in Alive, p = "killed" \/ "stop-signals" \in Env,
             guest' = [guest EXCEPT ![c][live[c]].phase = p]
      PROVE  Tends(c)
  <2>1. /\ guest'[c][live[c]].phase = p
        /\ \A d \in Containers \ {c} : guest'[d] = guest[d]
    <3>1. live[c] \in Gens
      BY <1>2, LiveGen
    <3> QED BY <1>2, <3>1, Phased
  <2>2. Only(c) /\ Turned(c)
    BY <2>1 DEF Only, Untouched, Turned, Begins, Owning
  <2>3. Hosted(c) => Hosted(c)'
    BY <2>1 DEF Hosted, Owning
  <2>4. Faithful(c) => Faithful(c)'
    BY <1>2, <2>1 DEF Faithful
  <2> QED BY <2>2, <2>3, <2>4 DEF Tends, Sound
<1> QED BY <1>0, <1>1, <1>2

(* stop_signal(): the manual mark, and a signal the process may ignore.    *)
LEMMA ManualTends ==
  ASSUME FaultsKept, TypeOK, NEW c \in Containers, UNCHANGED <<live, failures>>,
         record' = [record EXCEPT ![c].restart = Manual(@)],
         guest' = guest \/ guest' = Killed(c)
  PROVE  Tends(c)
<1>1. record \in [Containers -> Records] /\ record[c] \in Records
  BY TypeParts DEF RecordType
<1>2. /\ record'[c].st = record[c].st /\ record'[c].gen = record[c].gen
      /\ record'[c].restart = Manual(record[c].restart)
      /\ \A d \in Containers \ {c} : record'[d] = record[d]
  BY <1>1 DEF Records
<1>3. record'[c].restart.manual
  BY <1>1, <1>2 DEF Manual, Records
<1>4. Allowed(c)'
  BY <1>3 DEF Allowed
<1> QED BY <1>2, <1>4, KillTends

(* checkpoint_locked, whatever it returns.                                 *)
LEMMA CheckpointTends ==
  ASSUME FaultsKept, TypeOK, NEW c \in Containers, Capturable(c), record[c].st = "running",
         CheckpointSucceeds(c) \/ CheckpointFails(c), UNCHANGED failures
  PROVE  Tends(c)
<1>1. live[c] \in Gens /\ live[c] # NoGen /\ live \in [Containers -> 0 .. MaxGeneration]
  BY LiveGen, TypeParts DEF Capturable, LiveType
<1>2. CASE UNCHANGED <<record, guest, live>>
  BY <1>2 DEF Tends, Only, Untouched, Turned, Begins, Owning, Sound, Allowed, Hosted, Faithful,
     FaultsKept
<1>3. CASE \E p \in {"exited", "abandoned"}, r \in {"zero", "error"} :
             /\ guest' = [guest EXCEPT ![c][live[c]] = [phase |-> p, result |-> r]]
             /\ p = "exited" \/ record' = [record EXCEPT ![c] = Captured(c)]
  <2>1. PICK p \in {"exited", "abandoned"}, r \in {"zero", "error"} :
             /\ guest' = [guest EXCEPT ![c][live[c]] = [phase |-> p, result |-> r]]
             /\ p = "exited" \/ record' = [record EXCEPT ![c] = Captured(c)]
    BY <1>3
  <2>2. /\ guest'[c][live[c]].phase = p
        /\ \A d \in Containers \ {c} : guest'[d] = guest[d]
    BY <1>1, <2>1, Replaced
  <2>4. \/ record' = record /\ live' = live
        \/ /\ record' = [record EXCEPT ![c] = Captured(c)]
           /\ live' = live \/ live' = [live EXCEPT ![c] = NoGen]
    BY DEF CheckpointSucceeds, CheckpointFails, CaptureRefused, CaptureUnrecorded,
        MembersUnrecorded, CaptureWedged
  <2>5. /\ record'[c].gen = record[c].gen /\ record'[c].st \in {"running", "exited"}
        /\ record' = record \/ record'[c].st = "exited"
        /\ \A d \in Containers \ {c} : record'[d] = record[d]
    <3>1. CASE record' = record
      BY <3>1
    <3>2. CASE record' = [record EXCEPT ![c] = Captured(c)]
      <4>1. record'[c] = Captured(c) /\ \A d \in Containers \ {c} : record'[d] = record[d]
        BY <3>2, Written
      <4> QED BY <4>1, Written
    <3> QED BY <2>4, <3>1, <3>2
  <2>6. Only(c) /\ Turned(c)
    BY <1>1, <2>2, <2>4, <2>5 DEF Only, Untouched, Turned, Turns, Begins, Owning
  <2>7. Hosted(c) => Hosted(c)'
    <3>1. CASE record'[c].st = "exited"
      BY <3>1 DEF Hosted, Owning
    <3>2. CASE record'[c].st # "exited"
      <4>1. p = "exited" /\ live' = live /\ record' = record
        BY <3>2, <2>1, <2>4, <2>5, Written
      <4> QED BY <4>1, <2>2 DEF Hosted, Owning
    <3> QED BY <3>1, <3>2
  <2>8. Faithful(c)'
    BY <1>1, <2>2, <2>4 DEF Faithful
  <2> QED BY <2>5, <2>6, <2>7, <2>8, SettledIsAllowed DEF Tends, Sound
<1> QED BY <1>2, <1>3 DEF CheckpointSucceeds, CheckpointFails, CaptureRefused, CaptureUnrecorded,
        MembersUnrecorded, CaptureWedged, Released

-----------------------------------------------------------------------------
(* One lemma per family of actions.                                        *)

(* remove() under the mutex.                                               *)
LEMMA RemovalTends ==
  ASSUME FaultsKept, TypeOK, GuestAccounted, NEW c \in Containers, Present(c), ~Active(c),
         record' = [record EXCEPT ![c].st = "removed"], UNCHANGED <<guest, live>>,
         \A d \in Containers \ {c} : failures'[d] = failures[d]
  PROVE  Tends(c)
<1>1. /\ record'[c].st = "removed" /\ record'[c].gen = record[c].gen
      /\ \A d \in Containers \ {c} : record'[d] = record[d]
  BY Written DEF States
<1>2. record[c].st \in {"created", "exited"}
  <2>1. record[c].st \in States
    BY TypeParts DEF RecordType, Records
  <2> QED BY <2>1 DEF States, Present, Active
<1>3. Only(c) /\ Turned(c)
  BY <1>1, <1>2 DEF Only, Untouched, Turned, Turns, Begins, Owning
<1> QED BY <1>1, <1>2, <1>3, SettledIsAllowed, RewriteTends DEF Owning

(* A pending restart that is given up.                                     *)
LEMMA CancelTends ==
  ASSUME FaultsKept, TypeOK, GuestAccounted, NEW c \in Containers, CancelsRestart(c),
         UNCHANGED <<guest, live, failures>>
  PROVE  Tends(c)
<1>1. record \in [Containers -> Records]
  BY TypeParts DEF RecordType
<1>2. record'[c] = Cancelled(c) /\ \A d \in Containers \ {c} : record'[d] = record[d]
  BY <1>1 DEF CancelsRestart
<1>3. record'[c].st = "exited" /\ record'[c].gen = record[c].gen /\ record[c].st = "restarting"
  BY <1>2, Written DEF CancelsRestart
<1>4. Only(c) /\ Turned(c)
  BY <1>2, <1>3 DEF Only, Untouched, Turned, Turns, Begins, Owning
<1> QED BY <1>3, <1>4, SettledIsAllowed, RewriteTends DEF Owning

(* Handlers that take the mutex once.                                      *)
LEMMA ClientTends ==
  ASSUME FaultsKept, TypeOK, GuestAccounted, NEW c \in Containers,
         \/ Create(c) \/ Start(c) \/ Pause(c) \/ Unpause(c) \/ Update(c)
         \/ Checkpoint(c) \/ DiscardCheckpoint(c) \/ SettleLateReap(c) \/ AutoRemove(c)
  PROVE  Tended
<1> USE DEF volatile
<1>0. record \in [Containers -> Records] /\ record[c] \in Records /\ record[c].st \in States
  BY TypeParts DEF RecordType, Records
<1>1. CASE Create(c)
  <2>1. PICK q \in Policies, a \in AutoRemoval, ports \in SUBSET Ports :
          record' = [record EXCEPT ![c] = [record[c] EXCEPT !.st = "created", !.policy = q,
                                                            !.auto = a, !.publish = ports]]
    BY <1>1 DEF Create
  <2>2. /\ record'[c].st = "created" /\ record'[c].gen = record[c].gen
        /\ \A d \in Containers \ {c} : record'[d] = record[d]
    BY <1>0, <2>1 DEF Records
  <2>3. record[c].st = "unborn" /\ UNCHANGED <<guest, live, failures>>
    BY <1>1 DEF Create
  <2>4. Only(c) /\ Turned(c)
    BY <2>2, <2>3 DEF Only, Untouched, Turned, Turns, Begins, Owning
  <2> QED BY <2>2, <2>3, <2>4, SettledIsAllowed, RewriteTends DEF Owning, Tended
<1>2. CASE Start(c)
  <2>1. record[c].st \in {"created", "exited", "restarting"} /\ UNCHANGED failures
    BY <1>0, <1>2 DEF Start, Active, Present, States
  <2> QED BY <1>2, <2>1, LaunchTends DEF Start, Tended
<1>3. CASE Pause(c) \/ Unpause(c)
  BY <1>3, PauseTends DEF Pause, Unpause, Tended
<1>4. CASE Update(c)
  <2>1. PICK q \in Policies, s \in States :
          /\ record' = [record EXCEPT ![c] = [record[c] EXCEPT !.policy = q, !.st = s]]
          /\ \/ record[c].st = "restarting" /\ s = "exited"
             \/ /\ s = record[c].st
                /\ s = "restarting" => Allows(q, record[c].result, record[c].restart)
    <3>1. record[c].st \in States /\ "exited" \in States
      BY <1>0 DEF States
    <3> QED BY <1>4, <3>1 DEF Update
  <2>2. /\ record'[c].st = s /\ record'[c].gen = record[c].gen /\ record'[c].policy = q
        /\ record'[c].result = record[c].result /\ record'[c].restart = record[c].restart
        /\ \A d \in Containers \ {c} : record'[d] = record[d]
    BY <1>0, <2>1 DEF Records
  <2>3. UNCHANGED <<guest, live, failures>>
    BY <1>4 DEF Update
  <2>4. Only(c) /\ Turned(c)
    BY <2>1, <2>2, <2>3 DEF Only, Untouched, Turned, Turns, Begins, Owning
  <2>5. Allowed(c)'
    BY <2>1, <2>2 DEF Allowed
  <2> QED BY <2>1, <2>2, <2>3, <2>4, <2>5, RewriteTends DEF Owning, Tended
<1>5. CASE Checkpoint(c)
  BY <1>5, CheckpointTends DEF Checkpoint, Tended
<1>6. CASE DiscardCheckpoint(c)
  <2>1. /\ record'[c].st = record[c].st /\ record'[c].gen = record[c].gen
        /\ record'[c].policy = record[c].policy /\ record'[c].result = record[c].result
        /\ record'[c].restart = record[c].restart
        /\ \A d \in Containers \ {c} : record'[d] = record[d]
    BY <1>0, <1>6 DEF DiscardCheckpoint, Records
  <2>2. UNCHANGED <<guest, live, failures>>
    BY <1>6 DEF DiscardCheckpoint
  <2>3. Only(c) /\ Turned(c) /\ (Allowed(c) => Allowed(c)')
    BY <2>1, <2>2 DEF Only, Untouched, Turned, Begins, Owning, Allowed
  <2> QED BY <2>1, <2>2, <2>3, RewriteTends DEF Tended
<1>7. CASE SettleLateReap(c)
  BY <1>7 DEF SettleLateReap, Tended
<1>8. CASE AutoRemove(c)
  <2>0. UNCHANGED <<guest, live>> /\ \A d \in Containers \ {c} : failures'[d] = failures[d]
    BY <1>8, TypeParts DEF AutoRemove, RemoveLocked, SmallType
  <2>1. CASE Present(c) /\ ~Active(c) /\ record' = [record EXCEPT ![c].st = "removed"]
    BY <2>0, <2>1, RemovalTends DEF Tended
  <2>2. CASE record' = record /\ failures' = [failures EXCEPT ![c] = TRUE]
    <3>1. failures'[c] = TRUE
      BY <2>2, TypeParts DEF SmallType
    <3>2. Only(c) /\ Turned(c) /\ (Allowed(c) => Allowed(c)')
      BY <2>0, <2>2 DEF Only, Untouched, Turned, Begins, Owning, Allowed
    <3> QED BY <2>0, <2>2, <3>1, <3>2, RewriteTends DEF Tended
  <2> QED BY <1>8, <2>1, <2>2 DEF AutoRemove, RemoveLocked, RemoveFails
<1> QED BY <1>1, <1>2, <1>3, <1>4, <1>5, <1>6, <1>7, <1>8

(* What finish() makes of the record, and that a restart it arms is one    *)
(* the policy allows.                                                      *)
LEMMA CompletedAllowed ==
  ASSUME TypeOK, NEW c \in Containers, NEW g \in Gens, NEW long \in BOOLEAN
  PROVE  LET r == Completed(c, guest[c][g].result, long) IN
         r.st = "restarting" => Allows(r.policy, r.result, r.restart)
<1> DEFINE s == IF guest[c][g].result = "error" THEN "fault" ELSE guest[c][g].result
           z == CompletedRun(record[c].restart, long)
<1>1. record[c] \in Records
  BY StoreType
<1>2. PICK t \in {"restarting", "exited"}, b \in BOOLEAN :
        /\ Completed(c, guest[c][g].result, long) =
             [record[c] EXCEPT !.st = t, !.result = s, !.restart = z, !.diag = b]
        /\ t = "restarting" => Allows(record[c].policy, s, z)
  BY DEF Completed
<1> HIDE DEF s, z
<1> QED BY <1>1, <1>2 DEF Records

(* A process ends or its completion settles it, with the record it has.    *)
LEMMA ExitTends ==
  ASSUME FaultsKept, TypeOK, NEW c \in Containers, NEW g \in Gens,
         guest'[c][g].phase \in {"exited", "settled"},
         \A h \in Gens \ {g} : guest'[c][h] = guest[c][h],
         \A d \in Containers \ {c} : guest'[d] = guest[d] /\ failures'[d] = failures[d],
         UNCHANGED <<record, live>>, failures[c] => failures'[c],
         \/ guest'[c][g].phase = "exited" \/ guest[c][g].phase = "abandoned"
         \/ record[c].gen # g \/ ~Owning(c) \/ (failures'[c] /\ faults' # 0)
  PROVE  Tends(c)
<1>1. Only(c) /\ Turned(c) /\ (Allowed(c) => Allowed(c)')
  BY DEF Only, Untouched, Turned, Begins, Owning, Allowed
<1>2. live[c] \in Gens \/ live[c] = NoGen
  BY LiveGen
<1>3. Hosted(c) => Hosted(c)'
  BY <1>2 DEF Hosted, Owning, Alive, FaultsKept
<1>4. Faithful(c) => Faithful(c)'
  BY <1>2 DEF Faithful
<1> QED BY <1>1, <1>3, <1>4 DEF Tends, Sound

(* The end of a run: the process, its completion, its restart.             *)
LEMMA RunTends ==
  ASSUME FaultsKept, TypeOK, GuestAccounted, NEW c \in Containers, NEW g \in Gens, RunNext(c, g)
  PROVE  Tended
<1>0. record \in [Containers -> Records] /\ record[c] \in Records /\ record[c].st \in States
  BY TypeParts DEF RecordType, Records
<1>1. CASE GuestExits(c, g) \/ AbandonedExits(c, g)
  <2>1. /\ \/ guest'[c][g].phase = "exited"
           \/ guest'[c][g].phase = "settled" /\ guest[c][g].phase = "abandoned"
        /\ \A h \in Gens \ {g} : guest'[c][h] = guest[c][h]
        /\ \A d \in Containers \ {c} : guest'[d] = guest[d]
    <3>1. CASE \E r : guest' = [guest EXCEPT ![c][g] = [phase |-> "exited", result |-> r]]
      BY <3>1, Replaced
    <3>2. CASE guest' = [guest EXCEPT ![c][g].phase = "settled"] /\ AbandonedExits(c, g)
      BY <3>2, Phased DEF AbandonedExits
    <3> QED BY <1>1, <3>1, <3>2 DEF GuestExits, AbandonedExits
  <2>2. UNCHANGED <<record, live, failures>>
    BY <1>1 DEF GuestExits, AbandonedExits
  <2> QED BY <2>1, <2>2, ExitTends DEF Tended
<1>2. CASE Finish(c, g)
  <2>1. /\ guest'[c][g].phase = "settled"
        /\ \A h \in Gens \ {g} : guest'[c][h] = guest[c][h]
        /\ \A d \in Containers \ {c} : guest'[d] = guest[d]
    BY <1>2, Phased DEF Finish
  <2>2. CASE FinishStale(c, g)
    <3>1. /\ record[c].gen # g \/ ~Owning(c)
          /\ UNCHANGED <<record, live, failures>>
      BY <2>2 DEF FinishStale
    <3> QED BY <2>1, <3>1, ExitTends DEF Tended
  <2>3. CASE FinishUnpersisted(c, g)
    <3>1. failures'[c] = TRUE /\ \A d \in Containers \ {c} : failures'[d] = failures[d]
      BY <2>3, TypeParts DEF FinishUnpersisted, SmallType
    <3>2. faults' # 0
      BY <2>3, LifecycleAssumption, TypeParts
      DEF FinishUnpersisted, Charge, FaultType, LifecycleAssumption
    <3> QED BY <2>1, <2>3, <3>1, <3>2, ExitTends DEF FinishUnpersisted, Tended
  <2>4. CASE FinishPublished(c, g)
    <3>1. PICK long \in BOOLEAN :
            record' = [record EXCEPT ![c] = Completed(c, guest[c][g].result, long)]
      BY <2>4 DEF FinishPublished
    <3>2. /\ record'[c] = Completed(c, guest[c][g].result, long)
          /\ \A d \in Containers \ {c} : record'[d] = record[d]
      BY <1>0, <3>1
    <3>3. /\ record'[c].st \in {"restarting", "exited"} /\ record'[c].gen = record[c].gen
      BY <3>2, CompletedType
    <3>4. Allowed(c)'
      BY <3>2, CompletedAllowed DEF Allowed
    <3>5. live'[c] = NoGen /\ \A d \in Containers \ {c} : live'[d] = live[d]
      BY <2>4, TypeParts DEF FinishPublished, LiveType
    <3>6. UNCHANGED failures /\ Owning(c)
      BY <2>4 DEF FinishPublished
    <3>7. Only(c) /\ Turned(c)
      BY <2>1, <3>2, <3>3, <3>5, <3>6 DEF Only, Untouched, Turned, Turns, Begins, Owning
    <3>8. Hosted(c)' /\ Faithful(c)'
      BY <3>3, <3>5 DEF Hosted, Faithful, Owning
    <3> QED BY <3>4, <3>7, <3>8 DEF Tends, Sound, Tended
  <2> QED BY <1>2, <2>2, <2>3, <2>4 DEF Finish
<1>3. CASE TimerCancelled(c, g) \/ (TimerFires(c, g) /\ RestartStale(c, g))
  BY <1>3 DEF TimerCancelled, TimerFires, RestartStale, Tended
<1>4. CASE LogFails(c, g)
  <2>1. /\ failures'[c] = TRUE /\ \A d \in Containers \ {c} : failures'[d] = failures[d]
        /\ UNCHANGED <<record, guest, live>>
    BY <1>4, TypeParts DEF LogFails, SmallType
  <2>2. Only(c) /\ Turned(c) /\ (Allowed(c) => Allowed(c)')
    BY <2>1 DEF Only, Untouched, Turned, Begins, Owning, Allowed
  <2> QED BY <2>1, <2>2, RewriteTends DEF Tended
<1>5. CASE RestartLaunches(c, g)
  BY <1>5, LaunchTends DEF RestartLaunches, Tended
<1>6. CASE RestartFails(c, g)
  <2>1. PICK rolled \in BOOLEAN, ok \in BOOLEAN :
          /\ record' = IF ok THEN [record EXCEPT ![c] =
                                    [@ EXCEPT !.st = "exited", !.result = "fault"]]
                             ELSE record
          /\ failures' = IF ok THEN failures ELSE [failures EXCEPT ![c] = TRUE]
    BY <1>6 DEF RestartFails
  <2>2. UNCHANGED <<guest, live>> /\ record[c].st = "restarting"
    BY <1>6 DEF RestartFails
  <2>3. \A d \in Containers \ {c} : failures'[d] = failures[d]
    BY <2>1, TypeParts DEF SmallType
  <2>4. CASE ok
    <3>1. /\ record'[c].st = "exited" /\ record'[c].gen = record[c].gen
          /\ \A d \in Containers \ {c} : record'[d] = record[d]
      BY <1>0, <2>1, <2>4 DEF Records
    <3>2. Only(c) /\ Turned(c)
      BY <2>2, <2>3, <3>1 DEF Only, Untouched, Turned, Turns, Begins, Owning
    <3> QED BY <2>2, <3>1, <3>2, SettledIsAllowed, RewriteTends DEF Owning, Tended
  <2>5. CASE ~ok
    <3>1. failures'[c] = TRUE /\ record' = record
      BY <2>1, <2>5, TypeParts DEF SmallType
    <3>2. Only(c) /\ Turned(c) /\ (Allowed(c) => Allowed(c)')
      BY <2>2, <2>3, <3>1 DEF Only, Untouched, Turned, Begins, Owning, Allowed
    <3> QED BY <2>2, <3>1, <3>2, RewriteTends DEF Tended
  <2> QED BY <2>4, <2>5
<1> QED BY <1>1, <1>2, <1>3, <1>4, <1>5, <1>6 DEF RunNext, TimerFires

(* API calls that take the mutex more than once.                           *)
LEMMA CallTends ==
  ASSUME FaultsKept, TypeOK, GuestAccounted, NEW k \in Callers, CallerNext(k)
  PROVE  Tended
<1> DEFINE c == caller[k].c
<1>1. CASE Call(k) \/ Read(k) \/ Enter(k) \/ Look(k) \/ TimesOut(k)
  BY <1>1 DEF Call, Read, Enter, Look, TimesOut, volatile, Tended
<1>2. ASSUME CallUnpauses(k) \/ Signal(k) \/ StopSignal(k) \/ Remove(k)
      PROVE  c \in Containers
  <2>1. caller[k].pc # "idle"
    BY <1>2 DEF CallUnpauses, Signal, StopSignal, Remove
  <2> QED BY <2>1, CallTarget
<1> HIDE DEF c
<1>3. CASE CallUnpauses(k)
  <2>1. CASE PauseLocked(c, "paused", "running", "up")
    BY <1>2, <1>3, <2>1, PauseTends DEF CallUnpauses, Tended
  <2>2. CASE UNCHANGED <<record, guest>>
    BY <1>3, <2>2 DEF CallUnpauses, Tended
  <2> QED BY <1>3, <2>1, <2>2 DEF CallUnpauses, PauseUnwritten, c
<1>4. CASE Signal(k)
  <2>1. /\ \/ guest' = guest \/ guest' = Killed(c)
           \/ "stop-signals" \in Env /\ guest' \in Stopped(c)
        /\ UNCHANGED <<record, live, failures>>
    BY <1>4 DEF Signal, c
  <2> QED BY <1>2, <1>4, <2>1, KillTends DEF Tended, Allowed
<1>5. CASE StopSignal(k)
  <2>0. UNCHANGED <<live, failures>>
    BY <1>5 DEF StopSignal
  <2>1. CASE CancelsRestart(c) /\ UNCHANGED guest
    BY <1>2, <1>5, <2>0, <2>1, CancelTends DEF Tended
  <2>2. CASE /\ record' = [record EXCEPT ![c].restart = Manual(@)]
             /\ guest' = guest \/ guest' = Killed(c)
    BY <1>2, <1>5, <2>0, <2>2, ManualTends DEF Tended
  <2>3. CASE UNCHANGED <<record, guest>>
    BY <2>0, <2>3 DEF Tended
  <2> QED BY <1>5, <2>1, <2>2, <2>3 DEF StopSignal, c
<1>6. CASE Remove(k)
  <2>0. UNCHANGED <<guest, live>> /\ \A d \in Containers \ {c} : failures'[d] = failures[d]
    BY <1>6, TypeParts DEF Remove, RemoveLocked, SmallType, c
  <2>1. CASE Present(c) /\ ~Active(c) /\ record' = [record EXCEPT ![c].st = "removed"]
    BY <1>2, <1>6, <2>0, <2>1, RemovalTends DEF Tended
  <2>2. CASE record' = record /\ UNCHANGED failures
    BY <2>0, <2>2 DEF Tended
  <2> QED BY <1>6, <2>1, <2>2 DEF Remove, RemoveLocked, RemoveFails, c
<1> QED BY <1>1, <1>3, <1>4, <1>5, <1>6 DEF CallerNext

(* checkpoint_all().                                                       *)
LEMMA SweepTends ==
  ASSUME FaultsKept, TypeOK, GuestAccounted, NEW c \in Containers,
         \/ SweepSettles(c) \/ SweepResumes(c) \/ SweepCaptures(c)
         \/ SweepRestarts(c) \/ SweepPauses(c),
         SweepRestarts(c) => record[c].st = "exited"
  PROVE  Tended
<1>0. UNCHANGED failures /\ record[c].st \in States
  BY TypeParts DEF SweepSettles, SweepResumes, SweepCaptures, SweepRestarts, SweepPauses,
     RecordType, Records
<1>1. CASE SweepSettles(c)
  <2>0. UNCHANGED <<guest, live>>
    BY <1>1 DEF SweepSettles
  <2>1. CASE CancelsRestart(c)
    BY <1>0, <2>0, <2>1, CancelTends DEF Tended
  <2>2. CASE record' = record
    BY <1>0, <2>0, <2>2 DEF Tended
  <2> QED BY <1>1, <2>1, <2>2 DEF SweepSettles
<1>2. CASE SweepResumes(c) \/ SweepPauses(c)
  <2>0. UNCHANGED live
    BY <1>2 DEF SweepResumes, SweepPauses
  <2>1. CASE \/ PauseLocked(c, "paused", "running", "up")
             \/ PauseLocked(c, "running", "paused", "frozen")
    BY <1>0, <2>0, <2>1, PauseTends DEF Tended
  <2>2. CASE UNCHANGED <<record, guest>>
    BY <1>0, <2>0, <2>2 DEF Tended
  <2> QED BY <1>2, <2>1, <2>2 DEF SweepResumes, SweepPauses, PauseUnwritten
<1>3. CASE SweepCaptures(c)
  <2>1. CASE Capturable(c) /\ (CheckpointSucceeds(c) \/ CheckpointFails(c))
    BY <1>0, <1>3, <2>1, CheckpointTends DEF SweepCaptures, Tended
  <2>2. CASE UNCHANGED <<record, guest, live>>
    BY <1>0, <2>2 DEF Tended
  <2> QED BY <1>3, <2>1, <2>2 DEF SweepCaptures
<1>4. CASE SweepRestarts(c)
  <2>1. CASE LaunchPublishes(c, TRUE)
    BY <1>0, <1>4, <2>1, LaunchTends DEF Tended
  <2>2. CASE UNCHANGED <<record, guest, live>>
    BY <1>0, <2>2 DEF Tended
  <2> QED BY <1>4, <2>1, <2>2 DEF SweepRestarts
<1> QED BY <1>1, <1>2, <1>3, <1>4

-----------------------------------------------------------------------------
(* The steps of the service.                                               *)

(* What checkpoint_all() captured is settled, and left alone until its     *)
(* rollback starts it again: it holds the mutex.                           *)
SweepKeeps ==
  /\ sweep.phase = "capture" =>
       \A c \in sweep.captured : c \notin sweep.todo /\ record[c].st = "exited"
  /\ sweep.phase = "rollback" => \A c \in sweep.todo : record[c].st = "exited"

(* Whoever takes the mutex does so outside a sweep.                        *)
LEMMA OutsideSweep ==
  ASSUME [Next]_vars, sweep.phase # "idle"
  PROVE  \/ UNCHANGED <<record, sweep>>
         \/ \E c \in Containers : \/ SweepSettles(c) \/ SweepResumes(c) \/ SweepCaptures(c)
                                  \/ SweepRestarts(c) \/ SweepPauses(c)
         \/ SweepTurns
         \/ Crash
         \/ daemon = "down"
<1>1. ASSUME NEW c \in Containers, ContainerNext(c)
      PROVE  \/ SweepSettles(c) \/ SweepResumes(c) \/ SweepCaptures(c)
             \/ SweepRestarts(c) \/ SweepPauses(c) \/ daemon = "down"
  BY <1>1 DEF ContainerNext, Create, Start, Pause, Unpause, Update, Checkpoint,
     DiscardCheckpoint, SettleLateReap, AutoRemove, Reconcile, Free
<1>2. ASSUME NEW c \in Containers, NEW g \in Gens, RunNext(c, g)
      PROVE  UNCHANGED <<record, sweep>>
  BY <1>2 DEF RunNext, GuestExits, AbandonedExits, LogFails, Finish, TimerFires,
     TimerCancelled, Free
<1>3. ASSUME NEW k \in Callers, CallerNext(k) PROVE UNCHANGED <<record, sweep>>
  BY <1>3 DEF CallerNext, Call, Read, CallUnpauses, Signal, StopSignal, Enter, Look,
     TimesOut, Remove, Free
<1>4. ASSUME SweepBegins \/ Recover PROVE daemon = "down"
  BY <1>4 DEF SweepBegins, Recover, Free
<1>5. ASSUME UNCHANGED vars PROVE UNCHANGED <<record, sweep>>
  BY <1>5 DEF vars
<1> QED BY <1>1, <1>2, <1>3, <1>4, <1>5 DEF Next

(* Only checkpoint_all() itself begins a sweep.                            *)
LEMMA IdleSweep ==
  ASSUME [Next]_vars, sweep.phase = "idle"
  PROVE  sweep' = sweep \/ SweepBegins \/ Crash
<1>1. ASSUME NEW c \in Containers, ContainerNext(c) PROVE sweep' = sweep
  BY <1>1 DEF ContainerNext, Create, Start, Pause, Unpause, Update, Checkpoint,
     DiscardCheckpoint, SettleLateReap, AutoRemove, Reconcile, SweepSettles, SweepResumes,
     SweepCaptures, SweepRestarts, SweepPauses
<1>2. ASSUME NEW c \in Containers, NEW g \in Gens, RunNext(c, g) PROVE sweep' = sweep
  BY <1>2 DEF RunNext, GuestExits, AbandonedExits, LogFails, Finish, TimerFires,
     TimerCancelled
<1>3. ASSUME NEW k \in Callers, CallerNext(k) PROVE sweep' = sweep
  BY <1>3 DEF CallerNext, Call, Read, CallUnpauses, Signal, StopSignal, Enter, Look,
     TimesOut, Remove
<1>4. ASSUME SweepTurns \/ Recover \/ UNCHANGED vars PROVE sweep' = sweep
  BY <1>4 DEF SweepTurns, Recover, vars
<1> QED BY <1>1, <1>2, <1>3, <1>4 DEF Next

LEMMA SweepStep ==
  ASSUME TypeOK, DownIsDead, SweepKeeps, [Next]_vars
  PROVE  SweepKeeps'
<1>a. sweep \in Sweeps /\ record \in [Containers -> Records]
  BY DEF TypeOK
<1>1. CASE sweep.phase = "idle"
  <2>1. sweep' = sweep \/ SweepBegins \/ Crash
    BY <1>1, IdleSweep
  <2>2. CASE SweepBegins
    <3>1. sweep'.captured = {} /\ sweep'.phase = "capture"
      BY <2>2 DEF SweepBegins, NoSweep
    <3> QED BY <3>1 DEF SweepKeeps
  <2> QED BY <1>1, <2>1, <2>2 DEF SweepKeeps, Crash, NoSweep
<1>2. CASE sweep.phase # "idle"
  <2>1. CASE UNCHANGED <<record, sweep>>
    BY <2>1 DEF SweepKeeps
  <2>2. CASE Crash \/ daemon = "down"
    BY <1>2, <2>2 DEF Crash, NoSweep, SweepKeeps, DownIsDead
  <2>3. CASE SweepTurns
    <3>1. record' = record
      BY <2>3 DEF SweepTurns
    <3>2. \/ sweep'.phase \in {"idle", "repause"}
          \/ /\ sweep.phase = "capture" /\ sweep'.phase = "rollback"
             /\ sweep'.todo = sweep.captured
      BY <1>a, <2>3 DEF SweepTurns, NoSweep, Sweeps
    <3> QED BY <3>1, <3>2 DEF SweepKeeps
  <2>4. ASSUME NEW c \in Containers,
               \/ SweepSettles(c) \/ SweepResumes(c) \/ SweepCaptures(c)
        PROVE  SweepKeeps'
    <3>1. /\ sweep.phase = "capture" /\ c \in sweep.todo
      BY <2>4 DEF SweepSettles, SweepResumes, SweepCaptures
    <3>2. \A d \in Containers \ {c} : record'[d] = record[d]
      BY <1>a, <2>4 DEF SweepSettles, SweepResumes, SweepCaptures, CancelsRestart, PauseLocked,
         CheckpointSucceeds, CheckpointFails, CaptureRefused, CaptureUnrecorded,
         MembersUnrecorded, CaptureWedged, PauseUnwritten
    <3>3. /\ sweep'.phase = "capture"
          /\ \/ sweep'.captured = sweep.captured /\ sweep'.todo \subseteq sweep.todo
             \/ /\ sweep'.captured = sweep.captured \cup {c}
                /\ sweep'.todo = sweep.todo \ {c}
                /\ record'[c].st = "exited"
      <4>1. CASE SweepSettles(c) \/ SweepResumes(c)
        BY <1>a, <3>1, <4>1 DEF SweepSettles, SweepResumes, SweepDrops, SweepFails, Sweeps
      <4>2. CASE SweepCaptures(c)
        <5>1. CheckpointSucceeds(c) => record'[c].st = "exited"
          <6> SUFFICES ASSUME CheckpointSucceeds(c) PROVE record'[c].st = "exited"
            OBVIOUS
          <6>1. record'[c] = Captured(c)
            BY <1>a DEF CheckpointSucceeds
          <6> QED BY <6>1, Written
        <5> QED BY <1>a, <3>1, <4>2, <5>1 DEF SweepCaptures, SweepDrops, SweepFails, Sweeps
      <4> QED BY <2>4, <4>1, <4>2
    <3>4. sweep.captured \subseteq Containers
      BY <1>a DEF Sweeps
    <3> QED BY <3>1, <3>2, <3>3, <3>4 DEF SweepKeeps
  <2>5. ASSUME NEW c \in Containers, SweepRestarts(c) \/ SweepPauses(c)
        PROVE  SweepKeeps'
    <3>1. /\ sweep'.phase = sweep.phase /\ sweep'.todo = sweep.todo \ {c}
          /\ sweep.phase \in {"rollback", "repause"} /\ sweep.todo \subseteq Containers
      BY <1>a, <2>5 DEF SweepRestarts, SweepPauses, SweepDrops, Sweeps
    <3>2. \A d \in Containers \ {c} : record'[d] = record[d]
      BY <1>a, <2>5 DEF SweepRestarts, SweepPauses, PauseLocked, PauseUnwritten,
                           LaunchPublishes
    <3> QED BY <3>1, <3>2 DEF SweepKeeps
  <2> QED BY <1>2, <2>1, <2>2, <2>3, <2>4, <2>5, OutsideSweep
<1> QED BY <1>1, <1>2

(* A step is a step of a daemon that is up, or one around its death.       *)
LEMMA StepTends ==
  ASSUME TypeOK, GuestAccounted, DownIsDead, SweepKeeps, [Next]_vars
  PROVE  \/ daemon = "up" /\ UNCHANGED daemon /\ Tended
         \/ daemon = "down" /\ UNCHANGED <<record, daemon>>
         \/ Crash \/ Recover \/ \E c \in Containers : Reconcile(c)
<1>a. daemon \in {"up", "down"} /\ FaultsKept
  BY FaultsGrow DEF TypeOK
<1>1. ASSUME NEW c \in Containers, ContainerNext(c), ~Reconcile(c)
      PROVE  daemon = "up" /\ UNCHANGED daemon /\ Tended
  <2>1. CASE \/ Create(c) \/ Start(c) \/ Pause(c) \/ Unpause(c) \/ Update(c)
             \/ Checkpoint(c) \/ DiscardCheckpoint(c) \/ SettleLateReap(c) \/ AutoRemove(c)
    <3>1. daemon = "up" /\ UNCHANGED daemon
      BY <2>1 DEF Create, Start, Pause, Unpause, Update, Checkpoint, DiscardCheckpoint,
                  SettleLateReap, AutoRemove, Free
    <3> QED BY <1>a, <2>1, <3>1, ClientTends
  <2>2. CASE \/ SweepSettles(c) \/ SweepResumes(c) \/ SweepCaptures(c)
             \/ SweepRestarts(c) \/ SweepPauses(c)
    <3>1. daemon = "up" /\ UNCHANGED daemon
      BY <1>a, <2>2 DEF DownIsDead, SweepSettles, SweepResumes, SweepCaptures, SweepRestarts,
                  SweepPauses
    <3>2. SweepRestarts(c) => record[c].st = "exited"
      BY DEF SweepRestarts, SweepKeeps
    <3> QED BY <1>a, <2>2, <3>1, <3>2, SweepTends
  <2> QED BY <1>1, <2>1, <2>2 DEF ContainerNext
<1>2. ASSUME NEW c \in Containers, NEW g \in Gens, RunNext(c, g)
      PROVE  \/ daemon = "up" /\ UNCHANGED daemon /\ Tended
             \/ daemon = "down" /\ UNCHANGED <<record, daemon>>
  <2>1. UNCHANGED daemon /\ (daemon = "up" \/ UNCHANGED record)
    BY <1>2 DEF RunNext, GuestExits, AbandonedExits, LogFails, Finish, TimerFires,
                TimerCancelled, Free
  <2> QED BY <1>a, <1>2, <2>1, RunTends
<1>3. ASSUME NEW k \in Callers, CallerNext(k)
      PROVE  daemon = "up" /\ UNCHANGED daemon /\ Tended
  <2>1. daemon = "up" /\ UNCHANGED daemon
    BY <1>3 DEF CallerNext, Call, Read, CallUnpauses, Signal, StopSignal, Enter, Look,
                TimesOut, Remove, Free
  <2> QED BY <1>a, <1>3, <2>1, CallTends
<1>4. CASE SweepBegins \/ SweepTurns \/ UNCHANGED vars
  BY <1>a, <1>4 DEF SweepBegins, SweepTurns, volatile, vars, Tended
<1> QED BY <1>1, <1>2, <1>3, <1>4 DEF Next

-----------------------------------------------------------------------------
(* The invariants.                                                         *)

(* The inductive invariant.  Hosted and Faithful are about the daemon's    *)
(* own maps, which are gone while it is down.                              *)
RunInv ==
  /\ Inv /\ SweepKeeps
  /\ \A c \in Containers : Allowed(c)
  /\ daemon = "up" => \A c \in Containers : Hosted(c) /\ Faithful(c)

(* A container that nothing touches stays as sound as it was.              *)
LEMMA UntouchedSound ==
  ASSUME FaultsKept, NEW c \in Containers, Untouched(c), failures'[c] = failures[c], Sound(c)
  PROVE  Sound(c)'
<1>1. record'[c] = record[c] /\ guest'[c] = guest[c] /\ live'[c] = live[c]
  BY DEF Untouched
<1> QED BY <1>1 DEF Sound, Allowed, Hosted, Faithful, Owning, FaultsKept

(* reconcile_container() makes a record of the same run without a process; *)
(* if it leaves a restart pending the policy allows one after a loss.      *)
LEMMA ReconciledRecord ==
  ASSUME TypeOK, NEW c \in Containers
  PROVE  LET r == Reconciled(c) IN
         /\ r.gen = record[c].gen /\ r.policy = record[c].policy
         /\ r.st \notin {"running", "paused"}
         /\ \/ r = record[c]
            \/ /\ record[c].st \in {"running", "paused", "exited"} /\ r.st = "restarting"
               /\ record[c].policy.kind \in {"always", "unless-stopped"}
            \/ record[c].st \in {"running", "paused"} /\ r.st = "exited"
<1>1. record[c] \in Records
  BY TypeParts DEF RecordType
<1>2. CASE Owning(c)
  BY <1>1, <1>2 DEF Reconciled, Records, Owning, AllowsAfterDaemonRestart
<1>3. CASE ~Owning(c) /\ record[c].st = "exited" /\ record[c].policy.kind = "always"
           /\ record[c].restart.manual
  BY <1>1, <1>3 DEF Reconciled, Records
<1>4. CASE ~Owning(c) /\ ~(record[c].st = "exited" /\ record[c].policy.kind = "always"
           /\ record[c].restart.manual)
  BY <1>4 DEF Reconciled, Owning
<1> QED BY <1>2, <1>3, <1>4

(* Startup and death keep pending restarts allowed.                        *)
LEMMA DaemonAllowed ==
  ASSUME TypeOK, \A c \in Containers : Allowed(c),
         Crash \/ Recover \/ \E c \in Containers : Reconcile(c)
  PROVE  \A c \in Containers : Allowed(c)'
<1>a. record \in [Containers -> Records]
  BY TypeParts DEF RecordType
<1>1. CASE Crash
  BY <1>1 DEF Crash, Allowed
<1>2. CASE Recover
  <2> SUFFICES ASSUME NEW c \in Containers PROVE Allowed(c)'
    OBVIOUS
  <2>1. record'[c] = record[c] \/ record'[c] = [record[c] EXCEPT !.st = "removed"]
    BY <1>2 DEF Recover
  <2>2. record'[c] = record[c] \/ record'[c].st = "removed"
    BY <1>a, <2>1 DEF Records
  <2> QED BY <2>2 DEF Allowed
<1>3. ASSUME NEW c \in Containers, Reconcile(c) PROVE \A d \in Containers : Allowed(d)'
  <2>1. record'[c] = Reconciled(c) /\ \A d \in Containers \ {c} : record'[d] = record[d]
    BY <1>3, <1>a DEF Reconcile
  <2>2. Allowed(c)'
    BY <2>1, ReconciledRecord DEF Allowed, Allows
  <2>3. \A d \in Containers \ {c} : Allowed(d)'
    BY <2>1 DEF Allowed
  <2> QED BY <2>2, <2>3
<1> QED BY <1>1, <1>2, <1>3

(* When recover() ends, no record claims a process and none is left.       *)
LEMMA RecoverSound ==
  ASSUME TypeOK, DownIsDead, Recover, NEW c \in Containers
  PROVE  Hosted(c)' /\ Faithful(c)'
<1>1. daemon = "down" /\ Reconciled(c) = record[c] /\ UNCHANGED <<guest, live>>
  BY DEF Recover
<1>2. record[c].st \notin {"running", "paused"}
  BY <1>1, ReconciledRecord
<1>3. record'[c] = record[c] \/ record'[c].st = "removed"
  <2>1. record'[c] = record[c] \/ record'[c] = [record[c] EXCEPT !.st = "removed"]
    BY DEF Recover
  <2>2. record[c] \in Records
    BY TypeParts DEF RecordType
  <2> QED BY <2>1, <2>2 DEF Records
<1>4. Hosted(c)'
  BY <1>2, <1>3 DEF Hosted, Owning
<1>5. live[c] # NoGen => guest[c][live[c]].phase \notin Alive
  BY <1>1, LiveGen DEF DownIsDead
<1> QED BY <1>1, <1>4, <1>5 DEF Faithful, Alive

LEMMA InitRunInv == Init => RunInv
<1> SUFFICES ASSUME Init PROVE RunInv
  OBVIOUS
<1>1. SweepKeeps
  BY DEF Init, NoSweep, SweepKeeps
<1>2. ASSUME NEW c \in Containers PROVE Allowed(c) /\ Hosted(c) /\ Faithful(c)
  BY DEF Init, Allowed, Hosted, Faithful, Owning
<1> QED BY <1>1, <1>2, InitInv DEF RunInv

LEMMA RunInvStep == RunInv /\ [Next]_vars => RunInv'
<1> SUFFICES ASSUME RunInv, [Next]_vars PROVE RunInv'
  OBVIOUS
<1>1. TypeOK /\ GuestAccounted /\ DownIsDead /\ SweepKeeps
  BY DEF RunInv, Inv
<1>2. Inv' /\ SweepKeeps' /\ FaultsKept
  BY <1>1, InvStep, SweepStep, FaultsGrow DEF RunInv
<1>3. CASE daemon = "up" /\ UNCHANGED daemon /\ Tended
  <2>1. \A c \in Containers : Sound(c)
    BY <1>3 DEF RunInv, Sound
  <2>2. ASSUME NEW c \in Containers, Tends(c), NEW d \in Containers PROVE Sound(d)'
    <3>1. CASE d = c
      BY <2>1, <2>2, <3>1 DEF Tends
    <3>2. CASE d # c
      <4>1. Untouched(d) /\ failures'[d] = failures[d] /\ Sound(d)
        BY <2>1, <2>2, <3>2 DEF Tends, Only
      <4> QED BY <1>2, <4>1, UntouchedSound
    <3> QED BY <3>1, <3>2
  <2>3. ASSUME UNCHANGED <<record, guest, live, failures>>, NEW d \in Containers
        PROVE  Sound(d)'
    <3>1. Untouched(d) /\ failures'[d] = failures[d] /\ Sound(d)
      BY <2>1, <2>3 DEF Untouched
    <3> QED BY <1>2, <3>1, UntouchedSound
  <2>4. \A d \in Containers : Sound(d)'
    BY <1>3, <2>2, <2>3 DEF Tended
  <2> QED BY <1>2, <2>4 DEF RunInv, Sound
<1>4. CASE daemon = "down" /\ UNCHANGED <<record, daemon>>
  BY <1>2, <1>4 DEF RunInv, Allowed
<1>5. CASE Crash \/ \E c \in Containers : Reconcile(c)
  <2>1. daemon' = "down"
    BY <1>5 DEF Crash, Reconcile
  <2> QED BY <1>1, <1>2, <1>5, <2>1, DaemonAllowed DEF RunInv
<1>6. CASE Recover
  BY <1>1, <1>2, <1>6, DaemonAllowed, RecoverSound DEF RunInv
<1> QED BY <1>1, <1>3, <1>4, <1>5, <1>6, StepTends

(* The invariant holds in every reachable state.                           *)
THEOREM RunInvariance == Spec => []RunInv
BY InitRunInv, RunInvStep, PTL DEF Spec

(* launch.rs, restart.rs: while the daemon is up, a container recorded as  *)
(* running or paused owns the process of its generation, whose completion  *)
(* is still to come, or has a recorded failure.                            *)
THEOREM RunsHaveOwners == Spec => []RunHasOwner
<1>1. RunInv => RunHasOwner
  BY DEF RunInv, RunHasOwner, Hosted
<1> QED BY <1>1, RunInvariance, PTL

(* catalog.rs update, restart.rs finish and reconcile: whatever client     *)
(* calls, completions, crashes and startups come in between, a pending     *)
(* restart is one that the present policy allows, or is marked as stopped. *)
THEOREM PendingRestartsAllowed == Spec => []PendingRestartAllowed
<1>1. RunInv => PendingRestartAllowed
  BY DEF RunInv, PendingRestartAllowed, Allowed
<1> QED BY <1>1, RunInvariance, PTL

(* control.rs pause and unpause, checkpoint.rs sweep: as long as no client *)
(* sends STOP or CONT itself, a suspended process is recorded as paused    *)
(* and a process that can run as running.                                  *)
THEOREM PausedAreFrozen == "stop-signals" \notin Env => (Spec => []PausedIsFrozen)
<1> SUFFICES ASSUME "stop-signals" \notin Env PROVE Spec => []PausedIsFrozen
  OBVIOUS
<1>1. RunInv => PausedIsFrozen
  BY DEF RunInv, PausedIsFrozen, Faithful
<1> QED BY <1>1, RunInvariance, PTL

-----------------------------------------------------------------------------
(* Refinement: what a client sees is a behaviour of ContainerStates.       *)

(* The refinement mapping.                                                 *)
View == [c \in Containers |-> [st |-> record[c].st, gen |-> record[c].gen]]
Booting == daemon = "down"

(* A record rewritten along an edge is one step of the client's view.      *)
LEMMA Becoming ==
  ASSUME NEW c \in Containers, NEW from, NEW to, record[c].st \in from,
         record'[c].st = to, UNCHANGED daemon,
         record'[c].gen = IF to = "running" /\ record[c].st # "paused"
                          THEN record[c].gen + 1 ELSE record[c].gen,
         \A d \in Containers \ {c} : record'[d] = record[d]
  PROVE  Promise!Becomes(c, from, to)
BY DEF Promise!Becomes

(* Nothing of status or generation changes.                                *)
LEMMA ViewStays ==
  ASSUME \A c \in Containers : record'[c].st = record[c].st /\ record'[c].gen = record[c].gen
  PROVE  View' = View
BY DEF View

(* The daemon serves its clients.                                          *)
LEMMA TendsServes ==
  ASSUME TypeOK, daemon = "up", UNCHANGED daemon, NEW c \in Containers, Tends(c)
  PROVE  View' = View \/ Promise!Next
<1>1. \A d \in Containers \ {c} : record'[d] = record[d]
  BY DEF Tends, Only, Untouched
<1>2. CASE record'[c].st = record[c].st
  <2>1. record'[c].gen = record[c].gen
    BY <1>2 DEF Tends, Turned, Begins, Owning
  <2> QED BY <1>1, <1>2, <2>1, ViewStays
<1>3. CASE <<record[c].st, record'[c].st>> \in Turns
  <2>1. record'[c].gen = IF record'[c].st = "running" /\ record[c].st # "paused"
                         THEN record[c].gen + 1 ELSE record[c].gen
    BY <1>3 DEF Tends, Turned, Begins, Owning, Turns
  <2>2. \/ record[c].st \in {"unborn"} /\ record'[c].st = "created"
        \/ /\ record[c].st \in {"created", "exited", "restarting", "paused"}
           /\ record'[c].st = "running"
        \/ record[c].st \in {"running"} /\ record'[c].st = "paused"
        \/ record[c].st \in {"running", "paused"} /\ record'[c].st = "restarting"
        \/ record[c].st \in {"running", "paused", "restarting"} /\ record'[c].st = "exited"
        \/ record[c].st \in {"created", "exited"} /\ record'[c].st = "removed"
    BY <1>3 DEF Turns
  <2>3. Promise!Serves(c)
    BY <1>1, <2>1, <2>2, Becoming DEF Promise!Serves
  <2> QED BY <2>3 DEF Promise!Next
<1> QED BY <1>2, <1>3 DEF Tends, Turned

(* Startup settles one record.                                             *)
LEMMA ReconcileSettles ==
  ASSUME TypeOK, NEW c \in Containers, Reconcile(c)
  PROVE  Promise!Next
<1>1. record \in [Containers -> Records] /\ UNCHANGED daemon /\ daemon = "down"
  BY TypeParts DEF RecordType, Reconcile
<1>2. /\ record'[c] = Reconciled(c) /\ record'[c] # record[c]
      /\ \A d \in Containers \ {c} : record'[d] = record[d]
  BY <1>1 DEF Reconcile
<1>3. record'[c].gen = record[c].gen
  BY <1>2, ReconciledRecord
<1>4. \/ record[c].st \in {"running", "paused", "exited"} /\ record'[c].st = "restarting"
      \/ record[c].st \in {"running", "paused"} /\ record'[c].st = "exited"
  BY <1>2, ReconciledRecord
<1>5. Promise!Settles(c)
  BY <1>1, <1>2, <1>3, <1>4, Becoming DEF Promise!Settles
<1> QED BY <1>1, <1>5 DEF Promise!Next

(* Startup ends.                                                           *)
LEMMA RecoverBoots ==
  ASSUME TypeOK, Recover
  PROVE  Promise!Next
<1> DEFINE gone == {c \in Containers : record[c].st = "exited" /\ record[c].auto}
<1>1. daemon = "down" /\ daemon' = "up"
  BY DEF Recover
<1>2. \A c \in Containers : record[c].st \notin {"running", "paused"}
  BY ReconciledRecord DEF Recover
<1>3. \A c \in Containers :
        /\ record'[c].st = IF c \in gone THEN "removed" ELSE record[c].st
        /\ record'[c].gen = record[c].gen
  <2> SUFFICES ASSUME NEW c \in Containers
               PROVE  /\ record'[c].st = IF c \in gone THEN "removed" ELSE record[c].st
                      /\ record'[c].gen = record[c].gen
    OBVIOUS
  <2>1. record'[c] = IF c \in gone THEN [record[c] EXCEPT !.st = "removed"] ELSE record[c]
    BY DEF Recover
  <2>2. record[c] \in Records
    BY TypeParts DEF RecordType
  <2> QED BY <2>1, <2>2 DEF Records
<1>4. gone \in SUBSET {c \in Containers : record[c].st = "exited"}
  OBVIOUS
<1>5. View' = [c \in Containers |->
         [st |-> IF c \in gone THEN "removed" ELSE View[c].st, gen |-> View[c].gen]]
  BY <1>3 DEF View
<1> HIDE DEF gone
<1>6. Promise!Boots
  BY <1>1, <1>2, <1>4, <1>5 DEF Promise!Boots, View
<1> QED BY <1>6 DEF Promise!Next

(* Every step of the service is a step that ContainerStates allows, or     *)
(* invisible to it.                                                        *)
LEMMA StepServes ==
  ASSUME RunInv, [Next]_vars
  PROVE  Promise!Next \/ UNCHANGED <<View, Booting>>
<1>1. TypeOK /\ GuestAccounted /\ DownIsDead /\ SweepKeeps
  BY DEF RunInv, Inv
<1>2. CASE daemon = "up" /\ UNCHANGED daemon /\ Tended
  <2>1. ASSUME UNCHANGED record PROVE View' = View
    BY <2>1 DEF View
  <2> QED BY <1>1, <1>2, <2>1, TendsServes DEF Tended, Booting
<1>3. CASE daemon = "down" /\ UNCHANGED <<record, daemon>>
  BY <1>3 DEF View, Booting
<1>4. CASE Crash
  BY <1>4 DEF Crash, Promise!Next, Promise!Dies
<1>5. CASE Recover
  BY <1>1, <1>5, RecoverBoots
<1>6. ASSUME NEW c \in Containers, Reconcile(c) PROVE Promise!Next
  BY <1>1, <1>6, ReconcileSettles
<1> QED BY <1>1, <1>2, <1>3, <1>4, <1>5, <1>6, StepTends

(* All of the service, through crashes and startups: a client that looks   *)
(* only at status and generation sees a behaviour of ContainerStates.      *)
THEOREM PromiseKept == Spec => KeepsPromise
<1>1. Init => Promise!Init
  BY DEF Init, Promise!Init, NoGen
<1>2. RunInv /\ [Next]_vars => [Promise!Next]_<<View, Booting>>
  BY StepServes
<1>3. Spec => Promise!Init /\ [][Promise!Next]_<<View, Booting>>
  BY <1>1, <1>2, RunInvariance, PTL DEF Spec
<1> QED BY <1>3, PTL DEF KeepsPromise, Promise!Spec, View, Booting

-----------------------------------------------------------------------------
(* No lost wakeup.  As long as no write to storage failed, every step that *)
(* gives a parked wait() something to return also notifies it.             *)

(* No wait() on the container stays parked.                                *)
Wakes(c) == \A k \in Callers : caller'[k].pc = "parked" => caller'[k].c # c

(* The container has nothing new to say to a parked wait().                *)
Silent(c) ==
  \/ record'[c].st \in {"created", "running", "paused"}
  \/ /\ record'[c].st = record[c].st /\ record'[c].gen = record[c].gen
     /\ record'[c].result = record[c].result /\ record'[c].diag = record[c].diag
     /\ exits'[c] = exits[c]
     /\ failures'[c] = failures[c] \/ failures'[c] = TRUE

(* Nobody parks.                                                           *)
Still == \A k \in Callers : caller'[k].pc = "parked" => caller'[k] = caller[k]
Attends == Still /\ \A c \in Containers : Wakes(c) \/ Silent(c)

(* What a parked wait() may still be waiting for.                          *)
Waiting(k) == Answer(k) \in {"none", "error"}

LEMMA SilentWaits ==
  ASSUME TypeOK, NEW k \in Callers, NEW c \in Containers, caller[k].c = c,
         caller'[k] = caller[k], Silent(c), Waiting(k)
  PROVE  Waiting(k)'
<1>1. failures[c] \in BOOLEAN
  BY TypeParts DEF SmallType
<1>2. CASE record'[c].st \in {"created", "running", "paused"}
  BY <1>2 DEF Waiting, Answer
<1>3. CASE failures'[c] = failures[c] /\ ~(record'[c].st \in {"created", "running", "paused"})
  BY <1>3 DEF Waiting, Answer, Silent
<1>4. CASE failures'[c] = TRUE /\ ~(record'[c].st \in {"created", "running", "paused"})
  <2>1. CASE record'[c].st = "removed"
    BY <1>4, <2>1 DEF Waiting, Answer, Silent
  <2>2. CASE record'[c].st # "removed"
    BY <1>4, <2>2 DEF Waiting, Answer
  <2> QED BY <2>1, <2>2
<1> QED BY <1>2, <1>3, <1>4 DEF Silent

(* A wait() that parks found nothing to return.                            *)
LEMMA LookWaits ==
  ASSUME TypeOK, NEW k \in Callers, NEW c \in Containers, caller[k].c = c,
         Answer(k) = "none", caller'[k] = Parked(k), UNCHANGED <<record, exits, failures>>
  PROVE  Waiting(k)'
<1>1. caller[k] \in Calls \cup {NoCall}
  BY DEF TypeOK
<1>2. /\ caller'[k].c = caller[k].c /\ caller'[k].cond = caller[k].cond
      /\ caller'[k].gen0 = caller[k].gen0 /\ caller'[k].active0 = caller[k].active0
  BY <1>1 DEF Parked, Calls, NoCall
<1>3. record[c].st # "removed"
  BY <1>1 DEF Answer, TypeOK, Calls, NoCall
<1> QED BY <1>2, <1>3 DEF Waiting, Answer

(* notify_waiters.                                                         *)
LEMMA NotifiedWakes ==
  ASSUME NEW c \in Containers,
         \/ caller' = Notified(c)
         \/ \E k \in Callers : \E w : caller' = [Notified(c) EXCEPT ![k] = w] /\ w.pc # "parked"
  PROVE  Still /\ Wakes(c)
<1>1. ASSUME NEW k \in Callers, Notified(c)[k].pc = "parked"
      PROVE  Notified(c)[k] = caller[k] /\ caller[k].c # c
  <2>1. Notified(c)[k] = IF caller[k].pc = "parked" /\ caller[k].c = c
                         THEN [caller[k] EXCEPT !.pc = "look"] ELSE caller[k]
    BY DEF Notified
  <2> QED BY <1>1, <2>1
<1>2. ASSUME NEW k \in Callers, caller'[k].pc = "parked"
      PROVE  caller'[k] = Notified(c)[k]
  BY <1>2 DEF Notified
<1> QED BY <1>1, <1>2 DEF Still, Wakes

(* A step that concerns one container.                                     *)
LEMMA OneAttends ==
  ASSUME NEW c \in Containers, Still, Wakes(c) \/ Silent(c),
         \A d \in Containers \ {c} : /\ record'[d] = record[d] /\ exits'[d] = exits[d]
                                     /\ failures'[d] = failures[d]
  PROVE  Attends
BY DEF Attends, Silent

LEMMA QuietAttends ==
  ASSUME Still, UNCHANGED <<record, exits, failures>>
  PROVE  Attends
BY DEF Attends, Silent

(* launch_locked, and pause_locked.                                        *)
LEMMA LaunchAttends ==
  ASSUME TypeOK, NEW c \in Containers, UNCHANGED <<exits, failures>>, Still,
         \/ \E e \in BOOLEAN : LaunchPublishes(c, e)
         \/ PauseLocked(c, "running", "paused", "frozen")
         \/ PauseLocked(c, "paused", "running", "up")
  PROVE  Attends
<1>1. record \in [Containers -> Records] /\ record[c] \in Records
  BY TypeParts DEF RecordType
<1>2. /\ record'[c].st \in {"running", "paused"}
      /\ \A d \in Containers \ {c} : record'[d] = record[d]
  <2>1. ASSUME NEW e \in BOOLEAN, LaunchPublishes(c, e)
        PROVE  /\ record'[c].st \in {"running", "paused"}
               /\ \A d \in Containers \ {c} : record'[d] = record[d]
    <3>1. record'[c] = Launched(c, e) /\ \A d \in Containers \ {c} : record'[d] = record[d]
      BY <1>1, <2>1 DEF LaunchPublishes
    <3> QED BY <1>1, <3>1 DEF Launched, Records
  <2>2. ASSUME NEW s \in {"running", "paused"}, record' = [record EXCEPT ![c].st = s]
        PROVE  /\ record'[c].st \in {"running", "paused"}
               /\ \A d \in Containers \ {c} : record'[d] = record[d]
    BY <1>1, <2>2 DEF Records
  <2> QED BY <2>1, <2>2 DEF PauseLocked
<1> QED BY <1>2, OneAttends DEF Silent

(* A handler that writes the record and notifies.                          *)
LEMMA WriteAttends ==
  ASSUME TypeOK, NEW c \in Containers, UNCHANGED <<exits, failures>>,
         \E r : record' = [record EXCEPT ![c] = r],
         \/ caller' = Notified(c)
         \/ \E k \in Callers : \E w : caller' = [Notified(c) EXCEPT ![k] = w] /\ w.pc # "parked"
  PROVE  Attends
<1>1. record \in [Containers -> Records]
  BY TypeParts DEF RecordType
<1>2. \A d \in Containers \ {c} : record'[d] = record[d]
  BY <1>1
<1> QED BY <1>2, NotifiedWakes, OneAttends

(* checkpoint_locked.                                                      *)
LEMMA CheckpointAttends ==
  ASSUME TypeOK, NEW c \in Containers, CheckpointSucceeds(c) \/ CheckpointFails(c),
         UNCHANGED <<exits, failures>>, faults = 0, faults' = 0
  PROVE  Attends
<1>1. CASE CaptureRefused
  BY <1>1, QuietAttends DEF CaptureRefused, Still
<1>2. CASE CheckpointSucceeds(c) \/ CaptureWedged(c)
  BY <1>2, WriteAttends DEF CheckpointSucceeds, CaptureWedged
<1>3. ~CaptureUnrecorded(c) /\ ~MembersUnrecorded(c)
  BY DEF CaptureUnrecorded, MembersUnrecorded, Charge
<1> QED BY <1>1, <1>2, <1>3 DEF CheckpointFails

(* remove() under the mutex.                                               *)
LEMMA RemovalAttends ==
  ASSUME TypeOK, NEW c \in Containers, NEW a, RemoveLocked(c, a),
         \/ caller' = Notified(c)
         \/ \E k \in Callers : \E w : caller' = [Notified(c) EXCEPT ![k] = w] /\ w.pc # "parked"
  PROVE  Attends
<1>1. /\ record \in [Containers -> Records] /\ exits \in [Containers -> Results \cup {"none"}]
      /\ failures \in [Containers -> BOOLEAN]
  BY TypeParts DEF RecordType, SmallType
<1>2. \A d \in Containers \ {c} : /\ record'[d] = record[d] /\ exits'[d] = exits[d]
                                  /\ failures'[d] = failures[d]
  BY <1>1 DEF RemoveLocked
<1> QED BY <1>2, NotifiedWakes, OneAttends

(* Handlers that take the mutex once.                                      *)
LEMMA ClientAttends ==
  ASSUME TypeOK, NEW c \in Containers, faults = 0, faults' = 0,
         \/ Create(c) \/ Start(c) \/ Pause(c) \/ Unpause(c) \/ Update(c)
         \/ Checkpoint(c) \/ DiscardCheckpoint(c) \/ SettleLateReap(c) \/ AutoRemove(c)
  PROVE  Attends
<1> USE DEF volatile
<1>0. record \in [Containers -> Records] /\ record[c] \in Records
  BY TypeParts DEF RecordType
<1>1. CASE Create(c)
  <2>1. PICK q \in Policies, a \in AutoRemoval, ports \in SUBSET Ports :
          record' = [record EXCEPT ![c] = [record[c] EXCEPT !.st = "created", !.policy = q,
                                                            !.auto = a, !.publish = ports]]
    BY <1>1 DEF Create
  <2>2. /\ record'[c].st = "created"
        /\ \A d \in Containers \ {c} : record'[d] = record[d]
    BY <1>0, <2>1 DEF Records
  <2>3. UNCHANGED <<exits, failures, caller>>
    BY <1>1 DEF Create
  <2> QED BY <2>2, <2>3, OneAttends DEF Silent, Still
<1>2. CASE Start(c)
  <2>1. ~Charge(FALSE)
    BY DEF Charge
  <2>2. UNCHANGED <<exits, failures, caller>>
    BY <1>2 DEF Start
  <2>3. LaunchPublishes(c, TRUE)
    BY <1>2, <2>1 DEF Start
  <2> QED BY <2>2, <2>3, LaunchAttends DEF Still
<1>3. CASE Pause(c) \/ Unpause(c)
  BY <1>3, LaunchAttends DEF Pause, Unpause, Still
<1>4. CASE Update(c)
  <2>0. UNCHANGED <<exits, failures>>
    BY <1>4 DEF Update
  <2>1. PICK q \in Policies, cancel \in BOOLEAN :
          /\ record' = [record EXCEPT ![c] = [record[c] EXCEPT
                !.policy = q, !.st = IF cancel THEN "exited" ELSE record[c].st]]
          /\ caller' = IF cancel THEN Notified(c) ELSE caller
    BY <1>4 DEF Update
  <2>2. CASE cancel
    BY <2>0, <2>1, <2>2, WriteAttends
  <2>3. CASE ~cancel
    <3>1. /\ record'[c].st = record[c].st /\ record'[c].gen = record[c].gen
          /\ record'[c].result = record[c].result /\ record'[c].diag = record[c].diag
          /\ \A d \in Containers \ {c} : record'[d] = record[d]
      BY <1>0, <2>1, <2>3 DEF Records
    <3> QED BY <2>0, <2>1, <2>3, <3>1, OneAttends DEF Silent, Still
  <2> QED BY <2>2, <2>3
<1>5. CASE Checkpoint(c)
  BY <1>5, CheckpointAttends DEF Checkpoint
<1>6. CASE DiscardCheckpoint(c)
  <2>1. /\ record'[c].st = record[c].st /\ record'[c].gen = record[c].gen
        /\ record'[c].result = record[c].result /\ record'[c].diag = record[c].diag
        /\ \A d \in Containers \ {c} : record'[d] = record[d]
    BY <1>0, <1>6 DEF DiscardCheckpoint, Records
  <2>2. UNCHANGED <<exits, failures, caller>>
    BY <1>6 DEF DiscardCheckpoint
  <2> QED BY <2>1, <2>2, OneAttends DEF Silent, Still
<1>7. CASE SettleLateReap(c)
  BY <1>7, QuietAttends DEF SettleLateReap, Still
<1>8. CASE AutoRemove(c)
  <2>1. ~RemoveFails(c)
    BY DEF RemoveFails, Charge
  <2>2. CASE RemoveLocked(c, reclaim[c]) /\ caller' = Notified(c)
    BY <2>2, RemovalAttends
  <2>3. CASE UNCHANGED <<record, exits, caller>> /\ failures' = [failures EXCEPT ![c] = TRUE]
    <3>1. failures'[c] = TRUE /\ \A d \in Containers \ {c} : failures'[d] = failures[d]
      BY <2>3, TypeParts DEF SmallType
    <3> QED BY <2>3, <3>1, OneAttends DEF Silent, Still
  <2> QED BY <1>8, <2>1, <2>2, <2>3 DEF AutoRemove
<1> QED BY <1>1, <1>2, <1>3, <1>4, <1>5, <1>6, <1>7, <1>8

(* The end of a run: the process, its completion, its restart.             *)
LEMMA RunAttends ==
  ASSUME TypeOK, NEW c \in Containers, NEW g \in Gens, RunNext(c, g),
         faults = 0, faults' = 0
  PROVE  Attends
<1>1. CASE \/ GuestExits(c, g) \/ AbandonedExits(c, g) \/ TimerCancelled(c, g)
           \/ TimerFires(c, g) /\ RestartStale(c, g)
           \/ Finish(c, g) /\ FinishStale(c, g)
  BY <1>1, QuietAttends DEF GuestExits, AbandonedExits, TimerCancelled, TimerFires,
     RestartStale, Finish, FinishStale, Still
<1>2. ~LogFails(c, g) /\ ~FinishUnpersisted(c, g)
  BY DEF LogFails, FinishUnpersisted, Charge
<1>3. CASE Finish(c, g) /\ FinishPublished(c, g)
  BY <1>3, WriteAttends DEF Finish, FinishPublished
<1>4. CASE TimerFires(c, g) /\ RestartLaunches(c, g)
  BY <1>4, LaunchAttends DEF TimerFires, RestartLaunches, Still
<1>5. CASE TimerFires(c, g) /\ RestartFails(c, g)
  <2>1. PICK rolled \in BOOLEAN, ok \in BOOLEAN :
          /\ record' = IF ok THEN [record EXCEPT ![c] =
                                    [@ EXCEPT !.st = "exited", !.result = "fault"]]
                             ELSE record
          /\ failures' = IF ok THEN failures ELSE [failures EXCEPT ![c] = TRUE]
          /\ faults' = faults + ((IF rolled THEN 1 ELSE 0) + (IF ok THEN 0 ELSE 1))
    BY <1>5 DEF RestartFails
  <2>2. ok
    BY <2>1
  <2> QED BY <1>5, <2>1, <2>2, WriteAttends DEF TimerFires, RestartFails
<1> QED BY <1>1, <1>2, <1>3, <1>4, <1>5 DEF RunNext, Finish, TimerFires

(* API calls that take the mutex more than once, other than a wait() that  *)
(* looks.                                                                  *)
LEMMA CallAttends ==
  ASSUME TypeOK, NEW k \in Callers, CallerNext(k), ~Look(k), faults = 0, faults' = 0
  PROVE  Attends
<1> USE DEF volatile
<1> DEFINE c == caller[k].c
<1>0. caller \in [Callers -> Calls \cup {NoCall}] /\ caller[k] \in Calls \cup {NoCall}
  BY DEF TypeOK
<1>a. ASSUME NEW w, caller' = [caller EXCEPT ![k] = w], w.pc # "parked" PROVE Still
  BY <1>0, <1>a DEF Still
<1>c. ASSUME NEW p, p # "parked" PROVE [caller[k] EXCEPT !.pc = p].pc # "parked"
  BY <1>0, <1>c DEF Calls, NoCall
<1>b. \A a : Ended(k, a).pc # "parked"
  BY DEF Ended
<1>1. CASE Call(k)
  <2>1. PICK d \in Containers, op \in Ops, cond \in {"not-running", "next-exit", "removed"} :
          caller' = [caller EXCEPT ![k] = [NoCall EXCEPT
             !.pc = FirstStep(op), !.op = op, !.c = d, !.cond = cond]]
    BY <1>1 DEF Call
  <2>2. FirstStep(op) # "parked"
    BY DEF FirstStep
  <2>3. Still
    BY <1>0, <2>1, <2>2 DEF Still, NoCall
  <2> QED BY <1>1, <2>3, QuietAttends DEF Call
<1>2. CASE Read(k)
  <2>1. StepAfterRead(caller[k].op, c) # "parked"
    BY DEF StepAfterRead
  <2>2. \/ caller' = [caller EXCEPT ![k] = Ended(k, "notfound")]
        \/ caller' = [caller EXCEPT ![k] =
                       [caller[k] EXCEPT !.pc = StepAfterRead(caller[k].op, c)]]
    BY <1>2 DEF Read
  <2>3. Still
    BY <1>a, <1>b, <1>c, <2>1, <2>2
  <2> QED BY <1>2, <2>3, QuietAttends DEF Read
<1>3. CASE Enter(k)
  <2> DEFINE look == [caller[k] EXCEPT !.pc = "look", !.gen0 = record[c].gen,
                                       !.active0 = Owning(c)]
  <2>1. look.pc # "parked"
    BY <1>0 DEF Calls, NoCall
  <2>2. \/ \E a : caller' = [caller EXCEPT ![k] = Ended(k, a)]
        \/ caller' = [caller EXCEPT ![k] = look]
    BY <1>3 DEF Enter
  <2>3. Still
    BY <1>a, <1>b, <2>1, <2>2
  <2> QED BY <1>3, <2>3, QuietAttends DEF Enter
<1>4. CASE TimesOut(k)
  <2>1. PICK w : caller' = [caller EXCEPT ![k] = w] /\ w.pc # "parked"
    BY <1>0, <1>4, <1>b DEF TimesOut, Calls, NoCall
  <2> QED BY <1>4, <2>1, <1>a, QuietAttends DEF TimesOut
<1>5. ASSUME CallUnpauses(k) \/ Signal(k) \/ StopSignal(k) \/ Remove(k)
      PROVE  c \in Containers
  <2>1. caller[k].pc # "idle"
    BY <1>5 DEF CallUnpauses, Signal, StopSignal, Remove
  <2> QED BY <2>1, CallTarget
<1>6. CASE CallUnpauses(k)
  <2>1. PICK w : caller' = [caller EXCEPT ![k] = w] /\ w.pc # "parked"
    BY <1>0, <1>6, <1>b DEF CallUnpauses, Calls, NoCall
  <2>2. Still /\ UNCHANGED <<exits, failures>>
    BY <1>6, <2>1, <1>a DEF CallUnpauses
  <2> HIDE DEF c
  <2>3. CASE PauseLocked(c, "paused", "running", "up")
    BY <1>5, <1>6, <2>2, <2>3, LaunchAttends
  <2>4. CASE UNCHANGED record
    BY <2>2, <2>4, QuietAttends
  <2> QED BY <1>6, <2>3, <2>4 DEF CallUnpauses, PauseUnwritten, c
<1>7. CASE Signal(k)
  <2>1. PICK w : caller' = [caller EXCEPT ![k] = w] /\ w.pc # "parked"
    BY <1>7, <1>b DEF Signal
  <2> QED BY <1>7, <2>1, <1>a, QuietAttends DEF Signal
<1>8. CASE StopSignal(k)
  <2> DEFINE kill == caller[k].pc = "kill"
             waits == [caller[k] EXCEPT !.pc = "enter", !.forced = kill]
  <2>0. UNCHANGED <<exits, failures>>
    BY <1>8 DEF StopSignal
  <2>1. waits.pc # "parked"
    BY <1>0 DEF Calls, NoCall
  <2> HIDE DEF c, waits
  <2>2. CASE CancelsRestart(c) /\ caller' = [Notified(c) EXCEPT ![k] = waits]
    BY <1>5, <1>8, <2>0, <2>1, <2>2, WriteAttends DEF CancelsRestart
  <2>3. CASE /\ record' = [record EXCEPT ![c].restart = Manual(@)]
             /\ caller' = [caller EXCEPT ![k] = waits]
    <3>1. record \in [Containers -> Records] /\ record[c] \in Records
      BY <1>5, <1>8, TypeParts DEF RecordType
    <3>2. /\ record'[c].st = record[c].st /\ record'[c].gen = record[c].gen
          /\ record'[c].result = record[c].result /\ record'[c].diag = record[c].diag
          /\ \A d \in Containers \ {c} : record'[d] = record[d]
      BY <2>3, <3>1 DEF Records
    <3>3. Still
      BY <2>1, <2>3, <1>a
    <3> QED BY <1>5, <1>8, <2>0, <3>2, <3>3, OneAttends DEF Silent
  <2>4. CASE /\ UNCHANGED record
             /\ \E w : caller' = [caller EXCEPT ![k] = w] /\ w.pc # "parked"
    BY <2>0, <2>4, <1>a, QuietAttends
  <2>5. \/ CancelsRestart(c) /\ caller' = [Notified(c) EXCEPT ![k] = waits]
        \/ /\ record' = [record EXCEPT ![c].restart = Manual(@)]
           /\ caller' = [caller EXCEPT ![k] = waits]
        \/ /\ UNCHANGED record
           /\ \E w : caller' = [caller EXCEPT ![k] = w] /\ w.pc # "parked"
    <3>1. CASE /\ ~Active(c) /\ UNCHANGED record
               /\ caller' = [caller EXCEPT ![k] = CASE ~Present(c) -> Ended(k, "notfound")
                                                    [] Present(c) /\ kill -> waits
                                                    [] OTHER -> Ended(k, "error")]
      <4>0. Ended(k, "notfound").pc # "parked" /\ Ended(k, "error").pc # "parked"
        BY <1>b
      <4>1. CASE ~Present(c)
        <5>1. caller' = [caller EXCEPT ![k] = Ended(k, "notfound")]
          BY <3>1, <4>1
        <5> QED BY <3>1, <4>0, <5>1
      <4>2. CASE Present(c) /\ kill
        BY <2>1, <3>1, <4>2
      <4>3. CASE Present(c) /\ ~kill
        <5>1. caller' = [caller EXCEPT ![k] = Ended(k, "error")]
          BY <3>1, <4>3
        <5> QED BY <3>1, <4>0, <5>1
      <4> QED BY <4>1, <4>2, <4>3
    <3>2. CASE faults < MaxStorageFaults /\ Charge(FALSE)
      BY <3>2 DEF Charge
    <3> QED BY <1>8, <3>1, <3>2 DEF StopSignal, c, waits
  <2> QED BY <2>2, <2>3, <2>4, <2>5
<1>9. CASE Remove(k)
  <2>1. ~RemoveFails(c)
    BY DEF RemoveFails, Charge
  <2> HIDE DEF c
  <2>2. CASE RemoveLocked(c, "none") /\ caller' = [Notified(c) EXCEPT ![k] = Ended(k, "ok")]
    BY <1>5, <1>9, <1>b, <2>2, RemovalAttends
  <2>3. CASE UNCHANGED <<record, exits, failures>>
             /\ caller' = [caller EXCEPT ![k] = Ended(k, "error")]
    <3>1. Still
      <4>1. Ended(k, "error").pc # "parked"
        BY <1>b
      <4> QED BY <1>a, <2>3, <4>1
    <3> QED BY <2>3, <3>1, QuietAttends
  <2> QED BY <1>9, <2>1, <2>2, <2>3 DEF Remove, c
<1> QED BY <1>1, <1>2, <1>3, <1>4, <1>6, <1>7, <1>8, <1>9 DEF CallerNext

(* checkpoint_all().                                                       *)
LEMMA SweepAttends ==
  ASSUME TypeOK, NEW c \in Containers, faults = 0, faults' = 0,
         \/ SweepSettles(c) \/ SweepResumes(c) \/ SweepCaptures(c)
         \/ SweepRestarts(c) \/ SweepPauses(c)
  PROVE  Attends
<1>0. UNCHANGED <<exits, failures>>
  BY DEF SweepSettles, SweepResumes, SweepCaptures, SweepRestarts, SweepPauses
<1>1. CASE SweepSettles(c)
  <2>1. ~Charge(FALSE)
    BY DEF Charge
  <2>2. CASE CancelsRestart(c) /\ caller' = Notified(c)
    BY <1>0, <2>2, WriteAttends DEF CancelsRestart
  <2>3. CASE UNCHANGED <<record, caller>>
    BY <1>0, <2>3, QuietAttends DEF Still
  <2> QED BY <1>1, <2>1, <2>2, <2>3 DEF SweepSettles
<1>2. CASE SweepResumes(c) \/ SweepPauses(c)
  <2>1. Still
    BY <1>2 DEF SweepResumes, SweepPauses, Still
  <2>2. CASE UNCHANGED record
    BY <1>0, <2>1, <2>2, QuietAttends
  <2> QED BY <1>0, <1>2, <2>1, <2>2, LaunchAttends DEF SweepResumes, SweepPauses,
                                                       PauseUnwritten
<1>3. CASE SweepCaptures(c)
  <2>1. CASE CheckpointSucceeds(c) \/ CheckpointFails(c)
    BY <1>0, <2>1, CheckpointAttends
  <2>2. CASE UNCHANGED <<record, caller>>
    BY <1>0, <2>2, QuietAttends DEF Still
  <2> QED BY <1>3, <2>1, <2>2 DEF SweepCaptures
<1>4. CASE SweepRestarts(c)
  <2>1. Still
    BY <1>4 DEF SweepRestarts, Still
  <2>2. CASE UNCHANGED record
    BY <1>0, <2>1, <2>2, QuietAttends
  <2>3. CASE LaunchPublishes(c, TRUE)
    BY <1>0, <2>1, <2>3, LaunchAttends
  <2> QED BY <1>4, <2>2, <2>3 DEF SweepRestarts
<1> QED BY <1>1, <1>2, <1>3, <1>4

(* The invariant: nobody waits on a daemon that is down, and whoever waits *)
(* on one that is up has nothing to be told.                               *)
WakeInv ==
  /\ daemon = "down" => \A k \in Callers : caller[k].pc # "parked"
  /\ daemon = "up" /\ faults = 0 =>
       \A k \in Callers : caller[k].pc = "parked" => Waiting(k)

LEMMA WakeStep ==
  ASSUME TypeOK, DownIsDead, WakeInv, [Next]_vars
  PROVE  WakeInv'
<1>a. daemon \in {"up", "down"} /\ caller \in [Callers -> Calls \cup {NoCall}]
  BY DEF TypeOK
<1>1. CASE daemon = "down"
  <2>1. UNCHANGED caller
    <3>1. ASSUME NEW c \in Containers, ContainerNext(c) PROVE UNCHANGED caller
      BY <1>1, <3>1 DEF ContainerNext, Create, Start, Pause, Unpause, Update, Checkpoint,
         DiscardCheckpoint, SettleLateReap, AutoRemove, Reconcile, SweepSettles, SweepResumes,
         SweepCaptures, SweepRestarts, SweepPauses, Free, DownIsDead
    <3>2. ASSUME NEW c \in Containers, NEW g \in Gens, RunNext(c, g) PROVE UNCHANGED caller
      BY <1>1, <3>2 DEF RunNext, GuestExits, AbandonedExits, LogFails, Finish, TimerFires,
         TimerCancelled, Free
    <3>3. ASSUME NEW k \in Callers PROVE ~CallerNext(k)
      BY <1>1 DEF CallerNext, Call, Read, CallUnpauses, Signal, StopSignal, Enter, Look,
         TimesOut, Remove, Free
    <3>4. CASE SweepBegins \/ SweepTurns \/ Crash \/ Recover \/ UNCHANGED vars
      BY <1>1, <3>4 DEF SweepBegins, SweepTurns, Crash, Recover, vars
    <3> QED BY <3>1, <3>2, <3>3, <3>4 DEF Next
  <2> QED BY <1>1, <2>1 DEF WakeInv
<1>2. CASE Crash
  <2>1. daemon' = "down"
    BY <1>2 DEF Crash
  <2>2. ASSUME NEW k \in Callers PROVE caller'[k].pc # "parked"
    BY <1>2 DEF Crash, Ended
  <2> QED BY <2>1, <2>2 DEF WakeInv
<1>3. CASE daemon = "up" /\ ~Crash
  <2>1. daemon' = "up"
    <3>1. ASSUME NEW c \in Containers, ContainerNext(c) PROVE UNCHANGED daemon
      BY <3>1 DEF ContainerNext, Create, Start, Pause, Unpause, Update, Checkpoint,
         DiscardCheckpoint, SettleLateReap, AutoRemove, Reconcile, SweepSettles, SweepResumes,
         SweepCaptures, SweepRestarts, SweepPauses
    <3>2. ASSUME NEW c \in Containers, NEW g \in Gens, RunNext(c, g) PROVE UNCHANGED daemon
      BY <3>2 DEF RunNext, GuestExits, AbandonedExits, LogFails, Finish, TimerFires,
         TimerCancelled
    <3>3. ASSUME NEW k \in Callers, CallerNext(k) PROVE UNCHANGED daemon
      BY <3>3 DEF CallerNext, Call, Read, CallUnpauses, Signal, StopSignal, Enter, Look,
         TimesOut, Remove
    <3>4. CASE SweepBegins \/ SweepTurns \/ UNCHANGED vars
      BY <1>3, <3>4 DEF SweepBegins, SweepTurns, vars
    <3>5. CASE Recover
      BY <3>5 DEF Recover
    <3> QED BY <1>3, <3>1, <3>2, <3>3, <3>4, <3>5 DEF Next
  <2> SUFFICES ASSUME faults' = 0, NEW k \in Callers, caller'[k].pc = "parked"
               PROVE  Waiting(k)'
    BY <2>1 DEF WakeInv
  <2>2. faults = 0
    BY FaultsGrow DEF FaultsKept
  <2>3. ASSUME NEW j \in Callers, caller[j].pc = "parked" PROVE Waiting(j)
    BY <1>3, <2>2, <2>3 DEF WakeInv
  <2>4. CASE Attends
    <3>1. caller'[k] = caller[k] /\ caller[k].pc = "parked"
      BY <2>4 DEF Attends, Still
    <3>2. caller[k].c \in Containers
      BY <3>1, CallTarget
    <3>3. ASSUME NEW c \in Containers, c = caller[k].c PROVE Waiting(k)'
      <4>1. ~Wakes(c)
        BY <3>1, <3>3 DEF Wakes
      <4>2. Silent(c)
        BY <2>4, <4>1 DEF Attends
      <4> QED BY <2>3, <3>1, <3>3, <4>2, SilentWaits
    <3> QED BY <3>2, <3>3
  <2>5. ASSUME NEW j \in Callers, Look(j) PROVE Waiting(k)'
    <3>1. UNCHANGED <<record, exits, failures>>
      BY <2>5 DEF Look, volatile
    <3>2. caller[j].c \in Containers
      BY <2>5, CallTarget DEF Look
    <3>3. CASE k = j
      <4>1. caller'[k] = CASE Answer(k) = "none" -> Parked(k)
                           [] Answer(k) \in Results /\ caller[k].op = "force" ->
                                [caller[k] EXCEPT !.pc = "remove"]
                           [] OTHER -> Ended(k, Answer(k))
        BY <1>a, <2>5, <3>3 DEF Look
      <4>2. [caller[k] EXCEPT !.pc = "remove"].pc # "parked" /\ Ended(k, Answer(k)).pc # "parked"
        BY <1>a DEF Calls, NoCall, Ended
      <4>3. Answer(k) = "none" /\ caller'[k] = Parked(k)
        BY <4>1, <4>2 DEF Results
      <4> QED BY <3>1, <3>2, <3>3, <4>3, LookWaits
    <3>4. CASE k # j
      <4>1. caller'[k] = caller[k] /\ caller[k].pc = "parked"
        BY <1>a, <2>5, <3>4 DEF Look
      <4>2. caller[k].c \in Containers
        BY <4>1, CallTarget
      <4> QED BY <2>3, <3>1, <4>1, <4>2, SilentWaits DEF Silent
    <3> QED BY <3>3, <3>4
  <2>6. Attends \/ \E j \in Callers : Look(j)
    <3>1. ASSUME NEW c \in Containers, ContainerNext(c) PROVE Attends
      BY <1>3, <2>2, <3>1, ClientAttends, SweepAttends DEF ContainerNext, Reconcile
    <3>2. ASSUME NEW c \in Containers, NEW g \in Gens, RunNext(c, g) PROVE Attends
      BY <2>2, <3>2, RunAttends
    <3>3. ASSUME NEW j \in Callers, CallerNext(j), ~Look(j) PROVE Attends
      BY <2>2, <3>3, CallAttends
    <3>4. CASE SweepBegins \/ SweepTurns \/ UNCHANGED vars
      BY <3>4, QuietAttends DEF SweepBegins, SweepTurns, volatile, vars, Still
    <3>5. ~Recover
      BY <1>3 DEF Recover
    <3> QED BY <1>3, <3>1, <3>2, <3>3, <3>4, <3>5 DEF Next
  <2> QED BY <2>4, <2>5, <2>6
<1> QED BY <1>a, <1>1, <1>2, <1>3

(* control.rs wait against every handler that changes what a wait returns: *)
(* until a write to storage fails, a parked wait is not waiting for a      *)
(* notification that has already been sent, whatever completions, removals *)
(* and sweeps come between its look and its park.                          *)
THEOREM WakeupsNotLost == Spec => [](faults = 0 => NoLostWakeup)
<1>1. Init => WakeInv
  BY DEF Init, WakeInv, NoCall
<1>2. Inv /\ WakeInv /\ [Next]_vars => WakeInv'
  BY WakeStep DEF Inv
<1>3. WakeInv => (faults = 0 => NoLostWakeup)
  BY DEF WakeInv, NoLostWakeup, Waiting
<1> QED BY <1>1, <1>2, <1>3, Invariance, PTL DEF Spec

-----------------------------------------------------------------------------
(* A failed checkpoint_all() puts back what it stopped, as long as no      *)
(* write to storage failed and the engine starts what it is asked to.      *)

(* The container had a process when the sweep began.                       *)
Ran(c) == sweep.before[c] \in {"running", "paused"}
(* Its generation space is used up.                                        *)
Spent(c) == sweep.phase # "capture" /\ record[c].gen = MaxGeneration
(* Its process ended, and its completion waits for the mutex.              *)
Gone(c) == live[c] # NoGen /\ guest[c][live[c]].phase = "exited"
(* The sweep stopped it, and still has to start it.                        *)
Due(c) ==
  /\ record[c].st = "exited"
  /\ \/ sweep.phase = "capture" /\ c \in sweep.captured
     \/ sweep.phase = "rollback" /\ c \in sweep.todo
(* The sweep resumed it, and still has to pause it.                        *)
Resumed(c) ==
  /\ record[c].st = "running"
  /\ \/ sweep.phase \in {"capture", "rollback"} /\ c \in sweep.resumed
     \/ sweep.phase = "repause" /\ (c \in sweep.todo \/ Gone(c))

(* How far the sweep is with a container that had a process.               *)
Course(c) ==
  /\ sweep.before[c] = "running" => record[c].st = "running" \/ Spent(c) \/ Due(c)
  /\ sweep.before[c] = "paused" =>
       \/ record[c].st = "paused" \/ Spent(c)
       \/ Resumed(c)
       \/ Due(c) /\ c \in sweep.resumed

(* Nothing else is active: pending restarts are settled first.             *)
Calm(c) ==
  Active(c) =>
    \/ Ran(c)
    \/ sweep.phase = "capture" /\ c \in sweep.todo /\ record[c].st = "restarting"

(* The books of the sweep.                                                 *)
Booked(c) ==
  /\ c \in sweep.resumed => sweep.before[c] = "paused"
  /\ sweep.phase = "capture" /\ c \in sweep.captured => Ran(c)
  /\ sweep.phase = "rollback" /\ c \in sweep.todo => Ran(c)
  /\ sweep.phase = "repause" /\ c \in sweep.todo => c \in sweep.resumed

(* The ports of what ran before the sweep do not conflict.                 *)
Apart ==
  \A c, d \in Containers : c # d /\ Ran(c) /\ Ran(d) =>
    record[c].publish \cap record[d].publish = {}

Restoring ==
  sweep.phase # "idle" =>
    Apart /\ \A c \in Containers : Course(c) /\ Calm(c) /\ Booked(c)

(* Without a failed write no launch was ever rolled back.                  *)
Unquarantined == \A c \in Containers : cleanup[c] = "none"

LEMMA CleanStep ==
  ASSUME TypeOK, [Next]_vars, Unquarantined, faults = 0, faults' = 0
  PROVE  Unquarantined'
<1>0. ~Charge(FALSE)
  BY DEF Charge
<1>1. ASSUME NEW c \in Containers, ContainerNext(c) PROVE UNCHANGED cleanup
  <2>1. ~SettleLateReap(c)
    BY DEF SettleLateReap, Unquarantined
  <2>2. Start(c) => UNCHANGED cleanup
    BY <1>0 DEF Start
  <2>3. SweepRestarts(c) => UNCHANGED cleanup
    BY <1>0 DEF SweepRestarts, LaunchFails
  <2> QED BY <1>1, <2>1, <2>2, <2>3 DEF ContainerNext, Create, Pause, Unpause, Update,
     Checkpoint, DiscardCheckpoint, AutoRemove, Reconcile, SweepSettles, SweepResumes,
     SweepCaptures, SweepPauses, volatile
<1>2. ASSUME NEW c \in Containers, NEW g \in Gens, RunNext(c, g) PROVE UNCHANGED cleanup
  <2>1. CASE RestartFails(c, g)
    <3>1. PICK rolled \in BOOLEAN, ok \in BOOLEAN :
            /\ LaunchFails(c, rolled)
            /\ faults' = faults + ((IF rolled THEN 1 ELSE 0) + (IF ok THEN 0 ELSE 1))
      BY <2>1 DEF RestartFails
    <3>2. ~rolled
      BY <3>1
    <3> QED BY <3>1, <3>2 DEF LaunchFails
  <2> QED BY <1>2, <2>1 DEF RunNext, GuestExits, AbandonedExits, LogFails, Finish, TimerFires,
     RestartStale, RestartLaunches, TimerCancelled
<1>3. ASSUME NEW k \in Callers, CallerNext(k) PROVE UNCHANGED cleanup
  BY <1>3 DEF CallerNext, Call, Read, CallUnpauses, Signal, StopSignal, Enter, Look,
     TimesOut, Remove, volatile
<1>4. CASE Crash
  BY <1>4 DEF Crash, Unquarantined
<1>5. ASSUME SweepBegins \/ SweepTurns \/ Recover \/ UNCHANGED vars PROVE UNCHANGED cleanup
  BY <1>5 DEF SweepBegins, SweepTurns, Recover, vars, volatile
<1>6. ASSUME UNCHANGED cleanup PROVE Unquarantined'
  BY <1>6 DEF Unquarantined
<1> QED BY <1>1, <1>2, <1>3, <1>4, <1>5, <1>6 DEF Next

(* While a sweep holds the mutex, other steps start and settle nothing.    *)
Idles ==
  /\ UNCHANGED <<record, sweep, live>>
  /\ \A c \in Containers : Gone(c) => Gone(c)'

LEMMA OutsideIdles ==
  ASSUME TypeOK, [Next]_vars, sweep.phase # "idle"
  PROVE  \/ Idles
         \/ \E c \in Containers : \/ SweepSettles(c) \/ SweepResumes(c) \/ SweepCaptures(c)
                                  \/ SweepRestarts(c) \/ SweepPauses(c)
         \/ SweepTurns
         \/ Crash
         \/ daemon = "down"
<1>0. ASSUME UNCHANGED <<record, sweep, live, guest>> PROVE Idles
  BY <1>0 DEF Idles, Gone
<1>1. ASSUME NEW c \in Containers, ContainerNext(c)
      PROVE  \/ SweepSettles(c) \/ SweepResumes(c) \/ SweepCaptures(c)
             \/ SweepRestarts(c) \/ SweepPauses(c) \/ daemon = "down"
  BY <1>1 DEF ContainerNext, Create, Start, Pause, Unpause, Update, Checkpoint,
     DiscardCheckpoint, SettleLateReap, AutoRemove, Reconcile, Free
<1>2. ASSUME NEW c \in Containers, NEW g \in Gens, RunNext(c, g) PROVE Idles
  <2>1. CASE GuestExits(c, g) \/ AbandonedExits(c, g)
    <3>1. UNCHANGED <<record, sweep, live>>
      BY <2>1 DEF GuestExits, AbandonedExits
    <3>2. /\ \A d \in Containers \ {c} : guest'[d] = guest[d]
          /\ \A h \in Gens \ {g} : guest'[c][h] = guest[c][h]
      <4>1. CASE \E r : guest' = [guest EXCEPT ![c][g] = [phase |-> "exited", result |-> r]]
        BY <4>1, Replaced
      <4>2. CASE guest' = [guest EXCEPT ![c][g].phase = "settled"]
        BY <4>2, Phased
      <4> QED BY <2>1, <4>1, <4>2 DEF GuestExits, AbandonedExits
    <3>3. guest[c][g].phase # "exited"
      BY <2>1 DEF GuestExits, AbandonedExits
    <3>4. ASSUME NEW d \in Containers, Gone(d) PROVE Gone(d)'
      <4>1. CASE d # c
        BY <3>1, <3>2, <3>4, <4>1 DEF Gone
      <4>2. CASE d = c
        <5>1. live[d] \in Gens
          BY <3>4, LiveGen DEF Gone
        <5> QED BY <3>1, <3>2, <3>3, <3>4, <4>2, <5>1 DEF Gone
      <4> QED BY <4>1, <4>2
    <3> QED BY <3>1, <3>4 DEF Idles
  <2>2. CASE LogFails(c, g) \/ TimerCancelled(c, g)
    BY <1>0, <2>2 DEF LogFails, TimerCancelled
  <2> QED BY <1>2, <2>1, <2>2 DEF RunNext, Finish, TimerFires, Free
<1>3. ASSUME NEW k \in Callers, CallerNext(k) PROVE Idles
  BY <1>0, <1>3 DEF CallerNext, Call, Read, CallUnpauses, Signal, StopSignal, Enter, Look,
     TimesOut, Remove, Free, volatile
<1>4. ASSUME SweepBegins \/ Recover PROVE daemon = "down"
  BY <1>4 DEF SweepBegins, Recover, Free
<1>5. ASSUME UNCHANGED vars PROVE Idles
  BY <1>0, <1>5 DEF vars
<1> QED BY <1>1, <1>2, <1>3, <1>4, <1>5 DEF Next

LEMMA IdlesRestore ==
  ASSUME Restoring, Idles PROVE Restoring'
<1> SUFFICES ASSUME sweep'.phase # "idle"
             PROVE  Apart' /\ \A c \in Containers : (Course(c) /\ Calm(c) /\ Booked(c))'
  BY DEF Restoring
<1>1. record' = record /\ sweep' = sweep
  BY DEF Idles
<1>2. Apart /\ \A c \in Containers : Course(c) /\ Calm(c) /\ Booked(c)
  BY <1>1 DEF Restoring
<1>3. Apart'
  BY <1>1, <1>2 DEF Apart, Ran
<1>4. ASSUME NEW c \in Containers PROVE (Calm(c) /\ Booked(c))'
  BY <1>1, <1>2 DEF Calm, Booked, Ran, Active
<1>5. ASSUME NEW c \in Containers PROVE Course(c)'
  <2>1. Resumed(c) => Resumed(c)'
    BY <1>1 DEF Resumed, Idles
  <2>2. Course(c) /\ (Due(c) => Due(c)') /\ (Spent(c) => Spent(c)')
    BY <1>1, <1>2 DEF Due, Spent
  <2> QED BY <1>1, <2>1, <2>2 DEF Course
<1> QED BY <1>3, <1>4, <1>5

(* A step of the sweep on one container.                                   *)
Elsewhere(c) ==
  /\ sweep'.phase = sweep.phase /\ sweep'.before = sweep.before
  /\ record'[c].publish = record[c].publish
  /\ \A d \in Containers \ {c} :
       /\ Untouched(d)
       /\ d \in sweep'.todo <=> d \in sweep.todo
       /\ d \in sweep'.captured <=> d \in sweep.captured
       /\ d \in sweep'.resumed <=> d \in sweep.resumed

LEMMA OneRestores ==
  ASSUME Restoring, sweep.phase # "idle", NEW c \in Containers, Elsewhere(c),
         (Course(c) /\ Calm(c) /\ Booked(c))'
  PROVE  Restoring'
<1>1. Apart /\ \A d \in Containers : Course(d) /\ Calm(d) /\ Booked(d)
  BY DEF Restoring
<1>2. Apart'
  <2>1. \A d \in Containers : record'[d].publish = record[d].publish
    BY DEF Elsewhere, Untouched
  <2> QED BY <1>1, <2>1 DEF Apart, Ran, Elsewhere
<1>3. ASSUME NEW d \in Containers, d # c PROVE (Course(d) /\ Calm(d) /\ Booked(d))'
  <2>1. /\ record'[d] = record[d] /\ guest'[d] = guest[d] /\ live'[d] = live[d]
        /\ d \in sweep'.todo <=> d \in sweep.todo
        /\ d \in sweep'.captured <=> d \in sweep.captured
        /\ d \in sweep'.resumed <=> d \in sweep.resumed
        /\ sweep'.phase = sweep.phase /\ sweep'.before = sweep.before
    BY <1>3 DEF Elsewhere, Untouched
  <2>2. (Calm(d) /\ Booked(d))'
    BY <1>1, <2>1 DEF Calm, Booked, Ran, Active
  <2>3. (Due(d) => Due(d)') /\ (Spent(d) => Spent(d)') /\ (Resumed(d) => Resumed(d)')
    BY <2>1 DEF Due, Spent, Resumed, Gone
  <2>4. Course(d)'
    BY <1>1, <2>1, <2>3 DEF Course
  <2> QED BY <2>2, <2>4
<1> QED BY <1>2, <1>3 DEF Restoring

LEMMA SweepElsewhere ==
  ASSUME TypeOK, NEW c \in Containers, faults = 0, faults' = 0,
         \/ SweepSettles(c) \/ SweepResumes(c) \/ SweepCaptures(c)
         \/ SweepRestarts(c) \/ SweepPauses(c)
  PROVE  Elsewhere(c)
<1>0. /\ record \in [Containers -> Records] /\ record[c] \in Records
      /\ guest \in [Containers -> [Gens -> Guests]] /\ sweep \in Sweeps
      /\ live \in [Containers -> 0 .. MaxGeneration]
  BY DEF TypeOK
<1>1. /\ sweep'.phase = sweep.phase /\ sweep'.before = sweep.before
      /\ \A d \in Containers \ {c} :
           /\ d \in sweep'.todo <=> d \in sweep.todo
           /\ d \in sweep'.captured <=> d \in sweep.captured
           /\ d \in sweep'.resumed <=> d \in sweep.resumed
  <2> DEFINE Same(w) ==
        /\ w.phase = sweep.phase /\ w.before = sweep.before
        /\ \A d \in Containers \ {c} : /\ d \in w.todo <=> d \in sweep.todo
                                       /\ d \in w.captured <=> d \in sweep.captured
                                       /\ d \in w.resumed <=> d \in sweep.resumed
  <2>1. Same(SweepDrops(c)) /\ Same(SweepFails(c))
    BY <1>0 DEF SweepDrops, SweepFails, Sweeps
  <2>2. Same([sweep EXCEPT !.resumed = @ \cup {c}])
    BY <1>0 DEF Sweeps
  <2>3. ASSUME NEW m, m \in {sweep.captured, sweep.captured \cup {c}}
        PROVE  /\ Same([SweepDrops(c) EXCEPT !.captured = m])
               /\ Same([SweepFails(c) EXCEPT !.captured = m])
    BY <1>0, <2>3 DEF SweepDrops, SweepFails, Sweeps
  <2>4. SweepDrops(c).captured = sweep.captured /\ SweepFails(c).captured = sweep.captured
    BY <1>0 DEF SweepDrops, SweepFails, Sweeps
  <2>5. \/ sweep' = SweepDrops(c) \/ sweep' = SweepFails(c)
        \/ sweep' = [sweep EXCEPT !.resumed = @ \cup {c}]
        \/ \E m \in {sweep.captured, sweep.captured \cup {c}} :
             \/ sweep' = [SweepDrops(c) EXCEPT !.captured = m]
             \/ sweep' = [SweepFails(c) EXCEPT !.captured = m]
    <3>1. CASE SweepCaptures(c)
      BY <2>4, <3>1 DEF SweepCaptures
    <3> QED BY <3>1 DEF SweepSettles, SweepResumes, SweepRestarts, SweepPauses
  <2> HIDE DEF Same
  <2>6. Same(sweep')
    BY <2>1, <2>2, <2>3, <2>5
  <2> QED BY <2>6 DEF Same
<1>2. \/ UNCHANGED <<record, guest, live>>
      \/ CancelsRestart(c) /\ UNCHANGED <<guest, live>>
      \/ PauseLocked(c, "paused", "running", "up") /\ UNCHANGED live
      \/ PauseLocked(c, "running", "paused", "frozen") /\ UNCHANGED live
      \/ Capturable(c) /\ (CheckpointSucceeds(c) \/ CheckpointFails(c))
      \/ LaunchPublishes(c, TRUE)
  BY DEF SweepSettles, SweepResumes, SweepCaptures, SweepRestarts, SweepPauses,
         PauseUnwritten
<1>3. /\ record'[c].publish = record[c].publish
      /\ \A d \in Containers \ {c} : Untouched(d)
  <2>1. CASE UNCHANGED <<record, guest, live>>
    BY <2>1 DEF Untouched
  <2>2. CASE CancelsRestart(c) /\ UNCHANGED <<guest, live>>
    <3>1. record'[c] = Cancelled(c) /\ \A d \in Containers \ {c} : record'[d] = record[d]
      BY <1>0, <2>2 DEF CancelsRestart
    <3>2. Cancelled(c).publish = record[c].publish
      BY <1>0 DEF Cancelled, Records
    <3> QED BY <2>2, <3>1, <3>2 DEF Untouched
  <2>3. CASE UNCHANGED live /\ \/ PauseLocked(c, "paused", "running", "up")
                               \/ PauseLocked(c, "running", "paused", "frozen")
    <3>1. \E s, p : /\ record' = [record EXCEPT ![c].st = s]
                    /\ guest' = [guest EXCEPT ![c][live[c]].phase = p]
      BY <2>3 DEF PauseLocked
    <3> QED BY <1>0, <2>3, <3>1 DEF Records, Untouched
  <2>4. CASE CheckpointSucceeds(c) \/ CheckpointFails(c)
    <3>1. /\ record' = record \/ record' = [record EXCEPT ![c] = Captured(c)]
          /\ live' = live \/ live' = [live EXCEPT ![c] = NoGen]
          /\ guest' = guest \/ \E h : guest' = [guest EXCEPT ![c][live[c]] = h]
      BY <2>4 DEF CheckpointSucceeds, CheckpointFails, CaptureRefused, CaptureUnrecorded,
         MembersUnrecorded, CaptureWedged, Released
    <3>2. Captured(c).publish = record[c].publish
      BY <1>0 DEF Captured, Records
    <3> QED BY <1>0, <3>1, <3>2 DEF Untouched
  <2>5. CASE LaunchPublishes(c, TRUE)
    <3>1. record' = [record EXCEPT ![c] = Launched(c, TRUE)]
          /\ \E g, h : /\ live' = [live EXCEPT ![c] = g]
                       /\ guest' = [guest EXCEPT ![c][g] = h]
      BY <2>5 DEF LaunchPublishes
    <3>2. Launched(c, TRUE).publish = record[c].publish
      BY <1>0 DEF Launched, Records
    <3> QED BY <1>0, <3>1, <3>2 DEF Untouched
  <2> QED BY <1>2, <2>1, <2>2, <2>3, <2>4, <2>5
<1> QED BY <1>1, <1>3 DEF Elsewhere

(* The way forward: settle, resume, capture.                               *)
LEMMA ForwardRestores ==
  ASSUME TypeOK, Restoring, NEW c \in Containers, faults = 0, faults' = 0,
         SweepSettles(c) \/ SweepResumes(c) \/ SweepCaptures(c)
  PROVE  Restoring'
<1>0. /\ record \in [Containers -> Records] /\ record[c] \in Records /\ sweep \in Sweeps
      /\ Elsewhere(c) /\ sweep.phase = "capture" /\ c \in sweep.todo
  BY SweepElsewhere DEF TypeOK, SweepSettles, SweepResumes, SweepCaptures
<1>1. Course(c) /\ Calm(c) /\ Booked(c)
  BY <1>0 DEF Restoring
<1>2. ~Charge(FALSE)
  BY DEF Charge
<1>a. sweep'.phase = "capture" /\ sweep'.before = sweep.before
  BY <1>0 DEF Elsewhere
<1>3. CASE SweepSettles(c)
  <2>1. sweep' = SweepDrops(c)
    BY <1>2, <1>3 DEF SweepSettles
  <2>2. sweep'.captured = sweep.captured /\ sweep'.resumed = sweep.resumed
    BY <1>0, <2>1 DEF SweepDrops, Sweeps
  <2>3. \/ record' = record /\ ~Active(c)
        \/ record[c].st = "restarting" /\ record'[c] = Cancelled(c)
    BY <1>0, <1>2, <1>3 DEF SweepSettles, CancelsRestart
  <2>4. /\ ~Active(c)'
        /\ \/ record' = record
           \/ record[c].st = "restarting"
    <3>1. Cancelled(c).st = "exited"
      BY Written
    <3> QED BY <2>3, <3>1 DEF Active
  <2>5. (Calm(c) /\ Booked(c))'
    BY <1>a, <1>1, <1>0, <2>2, <2>4 DEF Calm, Booked, Ran
  <2>6. Course(c)'
    BY <1>a, <1>0, <1>1, <2>2, <2>4 DEF Course, Due, Spent, Resumed
  <2> QED BY <1>0, <2>5, <2>6, OneRestores
<1>4. CASE SweepResumes(c)
  <2>0. sweep.before[c] = "paused"
    BY <1>0, <1>1, <1>4 DEF SweepResumes, Calm, Active, Ran, Course, Due, Spent
  <2>1. CASE PauseLocked(c, "paused", "running", "up")
             /\ sweep' = [sweep EXCEPT !.resumed = @ \cup {c}]
    <3>1. /\ c \in sweep'.resumed /\ sweep'.captured = sweep.captured
          /\ sweep'.todo = sweep.todo
      BY <1>0, <2>1 DEF Sweeps
    <3>2. record'[c].st = "running"
      BY <1>0, <2>1 DEF PauseLocked, Records
    <3>3. (Calm(c) /\ Booked(c))'
      BY <1>a, <1>0, <1>1, <2>0, <3>1 DEF Calm, Booked, Ran
    <3>4. Course(c)'
      BY <1>a, <2>0, <3>1, <3>2 DEF Course, Resumed
    <3> QED BY <1>0, <3>3, <3>4, OneRestores
  <2>2. CASE record' = record /\ sweep' = SweepFails(c)
    <3>1. sweep'.captured = sweep.captured /\ sweep'.resumed = sweep.resumed
      BY <1>0, <2>2 DEF SweepFails, Sweeps
    <3>2. (Calm(c) /\ Booked(c))'
      BY <1>a, <1>0, <1>1, <2>0, <3>1 DEF Calm, Booked, Ran
    <3>3. Course(c)'
      BY <1>a, <1>4, <2>0, <2>2 DEF Course, SweepResumes
    <3> QED BY <1>0, <3>2, <3>3, OneRestores
  <2> QED BY <1>4, <2>1, <2>2 DEF SweepResumes, PauseUnwritten
<1>5. CASE SweepCaptures(c)
  <2>0. /\ record[c].st = "running" /\ Ran(c)
        /\ sweep.before[c] = "paused" => c \in sweep.resumed
    BY <1>0, <1>1, <1>5 DEF SweepCaptures, Calm, Active, Ran, Course, Due, Spent, Resumed
  <2>1. /\ sweep'.resumed = sweep.resumed
        /\ \/ sweep'.captured = sweep.captured \cup {c} /\ record'[c].st = "exited"
           \/ sweep'.captured = sweep.captured /\ record' = record
    <3>1. /\ SweepDrops(c).captured = sweep.captured /\ SweepFails(c).captured = sweep.captured
          /\ \A m : /\ [SweepDrops(c) EXCEPT !.captured = m].captured = m
                    /\ [SweepFails(c) EXCEPT !.captured = m].captured = m
                    /\ [SweepDrops(c) EXCEPT !.captured = m].resumed = sweep.resumed
                    /\ [SweepFails(c) EXCEPT !.captured = m].resumed = sweep.resumed
      BY <1>0 DEF SweepDrops, SweepFails, Sweeps
    <3>2. CASE record' = [record EXCEPT ![c] = Captured(c)]
      <4>1. record'[c].st = "exited"
        BY <1>0, <3>2, Written
      <4>2. sweep'.resumed = sweep.resumed /\ sweep'.captured = sweep.captured \cup {c}
        <5>1. \/ sweep' = [SweepDrops(c) EXCEPT !.captured = sweep.captured \cup {c}]
              \/ sweep' = [SweepFails(c) EXCEPT !.captured = sweep.captured \cup {c}]
          BY <1>5, <3>1, <4>1 DEF SweepCaptures
        <5> QED BY <3>1, <5>1
      <4> QED BY <4>1, <4>2
    <3>3. CASE record' = record /\ ~CheckpointSucceeds(c)
      <4>1. sweep' = [SweepFails(c) EXCEPT !.captured = sweep.captured]
        BY <1>5, <2>0, <3>1, <3>3 DEF SweepCaptures
      <4> QED BY <3>1, <3>3, <4>1
    <3>4. \/ record' = [record EXCEPT ![c] = Captured(c)]
          \/ record' = record /\ ~CheckpointSucceeds(c)
      BY <1>5 DEF SweepCaptures, CheckpointSucceeds, CheckpointFails, CaptureRefused,
         CaptureUnrecorded, MembersUnrecorded, CaptureWedged
    <3> QED BY <3>2, <3>3, <3>4
  <2>2. Ran(c)'
    BY <1>a, <2>0 DEF Ran
  <2>3. (Calm(c) /\ Booked(c))'
    BY <1>a, <1>1, <2>1, <2>2 DEF Calm, Booked
  <2>4. Course(c)'
    BY <1>a, <2>0, <2>1 DEF Course, Due, Resumed
  <2> QED BY <1>0, <2>3, <2>4, OneRestores
<1> QED BY <1>3, <1>4, <1>5

(* The way back: start what was captured, pause what was resumed.          *)
LEMMA BackRestores ==
  ASSUME "launch-error" \notin Env, Unquarantined, TypeOK, Restoring, SweepKeeps,
         NEW c \in Containers, faults = 0, faults' = 0, Hosted(c),
         SweepRestarts(c) \/ SweepPauses(c)
  PROVE  Restoring'
<1>0. /\ record \in [Containers -> Records] /\ record[c] \in Records /\ sweep \in Sweeps
      /\ Elsewhere(c) /\ sweep.phase \in {"rollback", "repause"} /\ c \in sweep.todo
  BY SweepElsewhere DEF TypeOK, SweepRestarts, SweepPauses
<1>1. Course(c) /\ Calm(c) /\ Booked(c) /\ Ran(c)
  BY <1>0 DEF Restoring, Booked, Ran
<1>2. /\ sweep'.phase = sweep.phase /\ sweep'.before = sweep.before
      /\ sweep'.resumed = sweep.resumed /\ c \notin sweep'.todo
  BY <1>0 DEF SweepRestarts, SweepPauses, SweepDrops, Sweeps
<1>3. (Calm(c) /\ Booked(c))'
  BY <1>0, <1>1, <1>2 DEF Calm, Booked, Ran
<1>4. CASE SweepRestarts(c)
  <2>0. sweep.phase = "rollback" /\ record[c].st = "exited"
    BY <1>4 DEF SweepRestarts, SweepKeeps
  <2>1. ~PortConflict(c)
    <3> SUFFICES ASSUME NEW d \in Containers, d # c, Active(d)
                 PROVE  record[d].publish \cap record[c].publish = {}
      BY DEF PortConflict
    <3>1. Ran(d)
      BY <2>0 DEF Restoring, Calm
    <3> QED BY <1>1, <2>0, <3>1 DEF Restoring, Apart
  <2>2. CASE LaunchPublishes(c, TRUE)
    <3>1. record'[c].st = "running"
      <4>1. record'[c] = Launched(c, TRUE)
        BY <1>0, <2>2 DEF LaunchPublishes
      <4> QED BY <1>0, <4>1 DEF Launched, Records
    <3>2. record[c].gen # MaxGeneration
      BY <2>2 DEF LaunchPublishes, LaunchRefused
    <3>3. Course(c)'
      BY <1>1, <1>2, <2>0, <3>1, <3>2 DEF Course, Due, Resumed, Spent
    <3> QED BY <1>0, <1>3, <3>3, OneRestores
  <2>3. CASE UNCHANGED record /\ \E rolled \in BOOLEAN :
               LaunchFails(c, rolled) /\ Charge(~rolled)
    <3>1. PICK rolled \in BOOLEAN : LaunchFails(c, rolled) /\ Charge(~rolled)
      BY <2>3
    <3>2. rolled = FALSE
      BY <3>1 DEF Charge
    <3>3. LaunchRefused(c)
      BY <3>1, <3>2 DEF LaunchFails
    <3>4. record[c].gen = MaxGeneration
      BY <2>1, <3>3 DEF LaunchRefused, Unquarantined
    <3>5. Course(c)'
      BY <1>2, <2>0, <2>3, <3>4 DEF Course, Spent
    <3> QED BY <1>0, <1>3, <3>5, OneRestores
  <2> QED BY <1>4, <2>2, <2>3 DEF SweepRestarts
<1>5. CASE SweepPauses(c)
  <2>0. sweep.phase = "repause" /\ sweep.before[c] = "paused"
    BY <1>0, <1>1, <1>5 DEF SweepPauses, Booked
  <2>1. CASE PauseLocked(c, "running", "paused", "frozen")
    <3>1. record'[c].st = "paused"
      BY <1>0, <2>1 DEF PauseLocked, Records
    <3>2. Course(c)'
      BY <1>2, <2>0, <3>1 DEF Course
    <3> QED BY <1>0, <1>3, <3>2, OneRestores
  <2>2. CASE /\ UNCHANGED <<record, guest, live>>
             /\ ~(record[c].st = "running" /\ live[c] # NoGen /\ Waitable(c))
    <3>1. record[c].st = "running" => Gone(c)
      BY <2>2 DEF Hosted, Owning, Gone, Waitable, Alive
    <3>2. Gone(c) => Gone(c)'
      BY <2>2 DEF Gone
    <3>3. Course(c)'
      BY <1>1, <1>2, <2>0, <2>2, <3>1, <3>2 DEF Course, Spent, Resumed, Due
    <3> QED BY <1>0, <1>3, <3>3, OneRestores
  <2>3. ~PauseUnwritten(c, "running")
    BY DEF PauseUnwritten, Charge
  <2> QED BY <1>5, <2>1, <2>2, <2>3 DEF SweepPauses
<1> QED BY <1>4, <1>5

(* checkpoint_all() begins, passes to its next stage, or returns.          *)
LEMMA TurnRestores ==
  ASSUME TypeOK, PortsExclusive, Restoring, SweepBegins \/ SweepTurns
  PROVE  Restoring'
<1>0. record' = record /\ guest' = guest /\ live' = live /\ sweep \in Sweeps
  BY DEF SweepBegins, SweepTurns, volatile, TypeOK
<1>1. CASE SweepBegins
  <2>1. /\ sweep'.phase = "capture" /\ sweep'.todo = {c \in Containers : Present(c)}
        /\ sweep'.captured = {} /\ sweep'.resumed = {}
        /\ sweep'.before = [c \in Containers |-> record[c].st]
    BY <1>1 DEF SweepBegins, NoSweep
  <2>2. ASSUME NEW c \in Containers PROVE sweep'.before[c] = record[c].st
    BY <2>1
  <2>3. Apart'
    BY <1>0, <2>2 DEF Apart, Ran, PortsExclusive, Owning
  <2>4. ASSUME NEW c \in Containers PROVE (Course(c) /\ Calm(c) /\ Booked(c))'
    <3>1. Course(c)'
      BY <1>0, <2>2 DEF Course
    <3>2. Calm(c)'
      BY <1>0, <2>1, <2>2 DEF Calm, Ran, Active, Present
    <3>3. Booked(c)'
      BY <2>1 DEF Booked
    <3> QED BY <3>1, <3>2, <3>3
  <2> QED BY <2>3, <2>4 DEF Restoring
<1>2. CASE SweepTurns /\ sweep'.phase # "idle"
  <2>1. /\ sweep.todo = {} /\ sweep.phase # "idle"
        /\ sweep'.before = sweep.before /\ sweep'.resumed = sweep.resumed
        /\ \/ /\ sweep.phase = "capture" /\ sweep'.phase = "rollback"
              /\ sweep'.todo = sweep.captured
           \/ /\ sweep.phase = "rollback" /\ sweep'.phase = "repause"
              /\ sweep'.todo = sweep.resumed
    BY <1>0, <1>2 DEF SweepTurns, NoSweep, Sweeps
  <2>2. Apart /\ \A c \in Containers : Course(c) /\ Calm(c) /\ Booked(c)
    BY <2>1 DEF Restoring
  <2>3. Apart'
    BY <1>0, <2>1, <2>2 DEF Apart, Ran
  <2>4. ASSUME NEW c \in Containers PROVE (Course(c) /\ Calm(c) /\ Booked(c))'
    <3>0. Course(c) /\ Calm(c) /\ Booked(c)
      BY <2>2
    <3>1. Course(c)'
      BY <1>0, <2>1, <3>0 DEF Course, Due, Resumed, Spent
    <3>2. Calm(c)'
      BY <1>0, <2>1, <3>0 DEF Calm, Ran, Active
    <3>3. Booked(c)'
      BY <2>1, <3>0 DEF Booked, Ran
    <3> QED BY <3>1, <3>2, <3>3
  <2> QED BY <2>3, <2>4 DEF Restoring
<1> QED BY <1>1, <1>2 DEF Restoring

LEMMA RestoringStep ==
  ASSUME "launch-error" \notin Env, RunInv, Unquarantined, Restoring, [Next]_vars,
         faults = 0, faults' = 0
  PROVE  Restoring'
<1>0. TypeOK /\ PortsExclusive /\ DownIsDead /\ SweepKeeps /\ daemon \in {"up", "down"}
  BY DEF RunInv, Inv, TypeOK
<1>1. CASE sweep.phase = "idle"
  <2>1. sweep' = sweep \/ SweepBegins \/ Crash
    BY <1>1, IdleSweep
  <2>2. CASE SweepBegins
    BY <1>0, <2>2, TurnRestores
  <2> QED BY <1>1, <2>1, <2>2 DEF Restoring, Crash, NoSweep
<1>2. CASE sweep.phase # "idle"
  <2>0. daemon = "up"
    BY <1>0, <1>2 DEF DownIsDead
  <2>1. CASE Idles
    BY <2>1, IdlesRestore
  <2>2. ASSUME NEW c \in Containers, SweepSettles(c) \/ SweepResumes(c) \/ SweepCaptures(c)
        PROVE  Restoring'
    BY <1>0, <2>2, ForwardRestores
  <2>3. ASSUME NEW c \in Containers, SweepRestarts(c) \/ SweepPauses(c) PROVE Restoring'
    <3>1. Hosted(c)
      BY <2>0 DEF RunInv
    <3> QED BY <1>0, <2>3, <3>1, BackRestores
  <2>4. CASE SweepTurns
    BY <1>0, <2>4, TurnRestores
  <2>5. CASE Crash
    BY <2>5 DEF Crash, NoSweep, Restoring
  <2> QED BY <1>0, <1>2, <2>0, <2>1, <2>2, <2>3, <2>4, <2>5, OutsideIdles
<1> QED BY <1>1, <1>2

(* checkpoint.rs checkpoint_all: while no write to storage has failed, and *)
(* with an engine that starts what it is asked to, a sweep that failed     *)
(* returns only after everything that ran or was paused before it runs or  *)
(* is paused again, in whatever order containers were captured, failed and *)
(* exited on their own.                                                    *)
THEOREM SweepsRestoreRuns ==
  "launch-error" \notin Env => (Spec => [](faults = 0 => SweepRestoresRuns))
<1> SUFFICES ASSUME "launch-error" \notin Env
             PROVE  Spec => [](faults = 0 => SweepRestoresRuns)
  OBVIOUS
<1> DEFINE Kept == faults = 0 => Unquarantined /\ Restoring
<1>1. Init => Kept
  BY DEF Init, Unquarantined, Restoring, NoSweep
<1>2. RunInv /\ Kept /\ [Next]_vars => Kept'
  <2> SUFFICES ASSUME RunInv, Kept, [Next]_vars, faults' = 0
               PROVE  Unquarantined' /\ Restoring'
    OBVIOUS
  <2>1. TypeOK
    BY DEF RunInv, Inv
  <2>2. faults = 0
    BY <2>1, FaultsGrow DEF FaultsKept
  <2> QED BY <2>1, <2>2, CleanStep, RestoringStep
<1>3. RunInv /\ Kept => (faults = 0 => SweepRestoresRuns)
  <2> SUFFICES ASSUME RunInv, Restoring, sweep.phase = "repause", sweep.todo = {},
                      NEW c \in Containers, record[c].gen < MaxGeneration
               PROVE  /\ sweep.before[c] = "running" => record[c].st = "running"
                      /\ sweep.before[c] = "paused" =>
                           record[c].st = "paused" \/ guest[c][live[c]].phase = "exited"
    BY DEF SweepRestoresRuns
  <2>1. record[c].gen # MaxGeneration
    BY LifecycleAssumption DEF LifecycleAssumption
  <2>2. Course(c)
    BY DEF Restoring
  <2> QED BY <2>1, <2>2 DEF Course, Spent, Due, Resumed, Gone
<1> HIDE DEF Kept
<1> QED BY <1>1, <1>2, <1>3, RunInvariance, PTL DEF Spec
=============================================================================
