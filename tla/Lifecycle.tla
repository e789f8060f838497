----------------------------- MODULE Lifecycle -----------------------------
(***************************************************************************)
(* The container lifecycle of hl-container: service/container/{launch,     *)
(* control, restart, removal, rollback, checkpoint, catalog}.rs.           *)
(*                                                                         *)
(* One `operations` mutex serialises the handlers, so a handler that holds *)
(* it from its first read to its last write is one action here, with every *)
(* call it makes.  What is NOT serialised is the model's subject: guest    *)
(* processes exit on their own, each launch has a completion task, each    *)
(* pending restart a timer task, API calls such as stop() and a forced     *)
(* remove() take and drop the mutex several times, writes to storage fail, *)
(* and the daemon may die between any two steps.                           *)
(*                                                                         *)
(* A run of a container is identified by <<container, generation>>: that   *)
(* pair names its process, its completion task and its restart timer, each *)
(* of which exists at most once per daemon lifetime.                       *)
(***************************************************************************)
EXTENDS Integers, FiniteSets, RestartPolicy

CONSTANTS
  Containers,        \* container ids that will ever be created
  Callers,           \* API calls that take the mutex more than once
  MaxGeneration,     \* the generation space (u64::MAX in the code)
  Policies,          \* restart policies clients use
  AutoRemoval,       \* subset of BOOLEAN: RemovalPolicy::Automatic or not
  Ports,             \* host ports clients publish
  Ops,               \* client operations that are offered
  Env,               \* environment behaviours that are offered
  MaxStorageFaults,  \* bound on failing storage writes
  MaxCrashes         \* bound on daemon deaths

ASSUME LifecycleAssumption ==
  /\ MaxGeneration \in Nat
  /\ Policies \subseteq RestartPolicies
  /\ AutoRemoval \subseteq BOOLEAN
  /\ MaxStorageFaults \in Nat
  /\ MaxCrashes \in Nat

Gens == 1 .. MaxGeneration

(* No generation, no sender, no process: generations start at 1.           *)
NoGen == 0

VARIABLES
  record,    \* durable: the persisted Container of each id
  guest,     \* per run: the process and the progress of its completion task
  live,      \* Service::live: the generation whose process is owned
  timer,     \* per run: the pending restart task, by what spawned it
  restarts,  \* Service::restarts: generation whose cancel sender is held
  cleanup,   \* launch_cleanups and launch_cleanup_failures
  failures,  \* Service::failures for the container's journal
  exits,     \* Service::exits: status of an automatically removed container
  reclaim,   \* finish() has dropped the mutex and will remove the container
  caller,    \* multi-step API calls
  sweep,     \* checkpoint_all(), which holds the mutex throughout
  daemon,    \* "up", or "down" while records are reconciled at startup
  faults, crashes

vars == <<record, guest, live, timer, restarts, cleanup, failures, exits,
          reclaim, caller, sweep, daemon, faults, crashes>>
volatile == <<guest, live, timer, restarts, cleanup, failures, exits, reclaim>>

States == {"unborn", "created", "running", "paused", "restarting", "exited",
           "removed"}
Phases == {"none", "up", "frozen", "killed", "exited", "settled", "abandoned",
           "lost"}
NoGuest == [phase |-> "none", result |-> "none"]
NoCall == [pc |-> "idle", op |-> "none", c |-> "none", cond |-> "none",
           gen0 |-> NoGen, active0 |-> FALSE, exit |-> "none",
           forced |-> FALSE, answer |-> "none"]
NoSweep == [phase |-> "idle", todo |-> {}, captured |-> {}, resumed |-> {},
            failed |-> FALSE, before |-> [c \in Containers |-> "unborn"]]

(* ContainerState::is_active, and the states that own a process.           *)
Active(c) == record[c].st \in {"running", "paused", "restarting"}
Owning(c) == record[c].st \in {"running", "paused"}
Present(c) == record[c].st \notin {"unborn", "removed"}

(* The operations mutex can be taken: the daemon is up and no sweep holds  *)
(* it.                                                                     *)
Free == daemon = "up" /\ sweep.phase = "idle"

(* Outcome of one write to container storage; a failed write leaves the    *)
(* previous record in place and uses up one of the bounded faults.         *)
Charge(ok) == faults' = IF ok THEN faults ELSE faults + 1

(* notify_waiters on a container's Notify: every parked wait looks again.  *)
Notified(c) ==
  [k \in Callers |-> IF caller[k].pc = "parked" /\ caller[k].c = c
                     THEN [caller[k] EXCEPT !.pc = "look"] ELSE caller[k]]

(* A finished call keeps what it asked for and its answer.                 *)
Ended(k, answer) ==
  [pc |-> "done", op |-> caller[k].op, c |-> caller[k].c, cond |-> caller[k].cond,
   gen0 |-> NoGen, active0 |-> FALSE, exit |-> "none", forced |-> FALSE,
   answer |-> answer]

Init ==
  /\ record = [c \in Containers |->
                [st |-> "unborn", gen |-> NoGen, result |-> "none",
                 restart |-> FreshRestart, ckpt |-> FALSE, diag |-> FALSE,
                 policy |-> [kind |-> "never", maximum |-> 0],
                 auto |-> FALSE, publish |-> {}]]
  /\ guest = [c \in Containers |-> [g \in Gens |-> NoGuest]]
  /\ live = [c \in Containers |-> NoGen]
  /\ timer = [c \in Containers |-> [g \in Gens |-> "none"]]
  /\ restarts = [c \in Containers |-> NoGen]
  /\ cleanup = [c \in Containers |-> "none"]
  /\ failures = [c \in Containers |-> FALSE]
  /\ exits = [c \in Containers |-> "none"]
  /\ reclaim = [c \in Containers |-> "none"]
  /\ caller = [k \in Callers |-> NoCall]
  /\ sweep = NoSweep
  /\ daemon = "up"
  /\ faults = 0
  /\ crashes = 0

-----------------------------------------------------------------------------
(* Creation and launch.                                                    *)

(* Service::create: the id is new, the record is inserted, the maps of the *)
(* service know nothing of it yet.                                         *)
Create(c) ==
  /\ Free /\ "create" \in Ops /\ record[c].st = "unborn"
  /\ \E p \in Policies, a \in AutoRemoval, ports \in SUBSET Ports :
       record' = [record EXCEPT ![c] = [@ EXCEPT !.st = "created", !.policy = p,
                                                 !.auto = a, !.publish = ports]]
  /\ UNCHANGED <<volatile, caller, sweep, daemon, faults, crashes>>

(* Mutant: a suspended container does not count as using its ports.        *)
PortConflictRunningOnly(c) ==
  \E d \in Containers \ {c} : /\ record[d].st \in {"running", "restarting"}
                              /\ record[d].publish \cap record[c].publish # {}

(* ensure_ports_available: another active container publishes the port.    *)
PortConflict(c) ==
  \E d \in Containers \ {c} : /\ Active(d)
                              /\ record[d].publish \cap record[c].publish # {}

(* Mutants: the generation wraps out of its space; a quarantine is ignored. *)
LaunchRefusedUnchecked(c) == cleanup[c] # "none" \/ PortConflict(c)
LaunchRefusedUnquarantined(c) == PortConflict(c) \/ record[c].gen = MaxGeneration

(* The refusals of launch_locked before it asks the runtime for a process. *)
LaunchRefused(c) ==
  \/ cleanup[c] # "none"
  \/ PortConflict(c)
  \/ record[c].gen = MaxGeneration

(* launch_locked: the record of the new run.                               *)
Launched(c, explicit) ==
  [record[c] EXCEPT !.st = "running", !.gen = @ + 1, !.result = "none",
                    !.ckpt = FALSE, !.diag = FALSE,
                    !.restart = Started(@, explicit)]

(* launch_locked, the process started and its record written.              *)
LaunchPublishes(c, explicit) ==
  LET g == record[c].gen + 1 IN
  /\ ~LaunchRefused(c)
  /\ record' = [record EXCEPT ![c] = Launched(c, explicit)]
  /\ guest' = [guest EXCEPT ![c][g] = [phase |-> "up", result |-> "none"]]
  /\ live' = [live EXCEPT ![c] = g]

(* rollback_unpublished_launch: the process is killed and waited for.  It  *)
(* is reaped in time, or its reap goes on behind a quarantine, or the wait *)
(* fails and poisons the id.                                               *)
ReapOutcomes ==
  {"none"} \cup {o \in {"reaping"} : "slow-reap" \in Env}
           \cup {o \in {"poisoned"} : "reap-error" \in Env}

(* launch_locked returns an error: refused, the runtime could not start    *)
(* the process, or (`rolled`) the record of the new run was not written.   *)
LaunchFails(c, rolled) ==
  IF rolled THEN /\ faults < MaxStorageFaults /\ ~LaunchRefused(c)
                 /\ \E o \in ReapOutcomes : cleanup' = [cleanup EXCEPT ![c] = o]
            ELSE /\ LaunchRefused(c) \/ "launch-error" \in Env
                 /\ UNCHANGED cleanup

(* settle_late_reap: the quarantine ends, or turns into poison.            *)
SettleLateReap(c) ==
  /\ Free /\ cleanup[c] = "reaping"
  /\ \E o \in ReapOutcomes \ {"reaping"} : cleanup' = [cleanup EXCEPT ![c] = o]
  /\ UNCHANGED <<record, guest, live, timer, restarts, failures, exits, reclaim,
                 caller, sweep, daemon, faults, crashes>>

(* Service::start: an inactive container, an explicit launch.  A launch    *)
(* that fails changes nothing but the quarantine.                          *)
Start(c) ==
  /\ Free /\ "start" \in Ops /\ Present(c) /\ ~Active(c)
  /\ \/ LaunchPublishes(c, TRUE) /\ UNCHANGED <<cleanup, faults>>
     \/ LaunchFails(c, TRUE) /\ Charge(FALSE) /\ UNCHANGED <<record, guest, live>>
  /\ UNCHANGED <<timer, restarts, failures, exits, reclaim, caller, sweep,
                 daemon, crashes>>

-----------------------------------------------------------------------------
(* The end of a run: the guest, its completion task, the restart timer.    *)

(* The process ends.  A suspended one cannot; a killed one reports its     *)
(* signal.  "error" stands for a wait that yields no status.               *)
GuestExits(c, g) ==
  /\ daemon = "up"
  /\ \E r \in {"zero", "nonzero"} \cup {e \in {"error"} : "wait-error" \in Env} :
       /\ \/ guest[c][g].phase = "up"
          \/ guest[c][g].phase = "killed" /\ r # "zero"
       /\ guest' = [guest EXCEPT ![c][g] = [phase |-> "exited", result |-> r]]
  /\ UNCHANGED <<record, live, timer, restarts, cleanup, failures, exits, reclaim,
                 caller, sweep, daemon, faults, crashes>>

(* An abandoned process (its output owner was aborted) ends unobserved.    *)
AbandonedExits(c, g) ==
  /\ guest[c][g].phase = "abandoned"
  /\ guest' = [guest EXCEPT ![c][g].phase = "settled"]
  /\ UNCHANGED <<record, live, timer, restarts, cleanup, failures, exits, reclaim,
                 caller, sweep, daemon, faults, crashes>>

(* The output owner of a run cannot append to the container's journal:     *)
(* append() records a failure of the container and stops draining.         *)
LogFails(c, g) ==
  /\ daemon = "up" /\ "log-error" \in Env /\ faults < MaxStorageFaults
  /\ guest[c][g].phase \in {"up", "frozen", "killed", "exited"}
  /\ failures' = [failures EXCEPT ![c] = TRUE]
  /\ Charge(FALSE)
  /\ UNCHANGED <<record, guest, live, timer, restarts, cleanup, exits, reclaim,
                 caller, sweep, daemon, crashes>>

(* finish(): what the completion of a run makes of its record.             *)
Completed(c, result, long) ==
  LET status == IF result = "error" THEN "fault" ELSE result
      restart == CompletedRun(record[c].restart, long)
  IN [record[c] EXCEPT
        !.st = IF Allows(record[c].policy, status, restart)
               THEN "restarting" ELSE "exited",
        !.result = status, !.restart = restart, !.diag = (result = "error")]

(* finish() of a run that is no longer the container's recorded run.       *)
FinishStale(c, g) ==
  /\ record[c].gen # g \/ ~Owning(c)
  /\ UNCHANGED <<record, live, timer, restarts, failures, reclaim, caller, faults>>

(* Mutant: the failure to persist an exit is swallowed.                    *)
FinishUnpersistedSilently(c, g) ==
  /\ record[c].gen = g /\ Owning(c) /\ faults < MaxStorageFaults
  /\ Charge(FALSE)
  /\ UNCHANGED <<record, live, timer, restarts, failures, reclaim, caller>>

(* finish() whose exit could not be persisted: it records the failure and  *)
(* returns, before it would notify, release the process or arm a restart.  *)
FinishUnpersisted(c, g) ==
  /\ record[c].gen = g /\ Owning(c) /\ faults < MaxStorageFaults
  /\ failures' = [failures EXCEPT ![c] = TRUE]
  /\ Charge(FALSE)
  /\ UNCHANGED <<record, live, timer, restarts, reclaim, caller>>

(* Mutant: a late completion settles whatever run the record names by now. *)
FinishPublishedAnyRun(c, g) ==
  /\ Owning(c)
  /\ record' = [record EXCEPT ![c] = Completed(c, guest[c][g].result, FALSE)]
  /\ caller' = Notified(c)
  /\ live' = [live EXCEPT ![c] = NoGen]
  /\ UNCHANGED <<timer, restarts, reclaim, failures, faults>>

(* finish() that publishes the exit: notify, drop the process, then arm    *)
(* the restart timer or leave the container to automatic removal.          *)
FinishPublished(c, g) ==
  /\ record[c].gen = g /\ Owning(c)
  /\ \E long \in BOOLEAN :
       LET r == Completed(c, guest[c][g].result, long)
           again == r.st = "restarting" /\ live[c] # NoGen IN
       /\ record' = [record EXCEPT ![c] = r]
       /\ timer' = IF again THEN [timer EXCEPT ![c][g] = "finish"] ELSE timer
       /\ restarts' = IF again THEN [restarts EXCEPT ![c] = g] ELSE restarts
       /\ reclaim' = IF r.st = "exited" /\ r.auto
                     THEN [reclaim EXCEPT ![c] = r.result] ELSE reclaim
  /\ caller' = Notified(c)
  /\ live' = [live EXCEPT ![c] = NoGen]
  /\ UNCHANGED <<failures, faults>>

(* The completion task of a run takes the mutex, once.                     *)
Finish(c, g) ==
  /\ Free /\ guest[c][g].phase = "exited"
  /\ guest' = [guest EXCEPT ![c][g].phase = "settled"]
  /\ FinishStale(c, g) \/ FinishUnpersisted(c, g) \/ FinishPublished(c, g)
  /\ UNCHANGED <<cleanup, exits, sweep, daemon, crashes>>

(* restart() after its delay, for a record that is no longer waiting for   *)
(* this timer.                                                             *)
RestartStale(c, g) ==
  /\ \/ record[c].gen # g
     \/ record[c].restart.manual
     \/ record[c].st # "restarting"
  /\ UNCHANGED <<record, guest, live, cleanup, failures, caller, faults>>

(* Mutant: the timer does not look for a manual stop.                      *)
RestartLaunchesStopped(c, g) ==
  /\ record[c].gen = g /\ record[c].st = "restarting"
  /\ LaunchPublishes(c, FALSE)
  /\ UNCHANGED <<cleanup, failures, caller, faults>>

(* restart() launches the next run, counted as automatic.                  *)
RestartLaunches(c, g) ==
  /\ record[c].gen = g /\ ~record[c].restart.manual /\ record[c].st = "restarting"
  /\ LaunchPublishes(c, FALSE)
  /\ UNCHANGED <<cleanup, failures, caller, faults>>

(* Mutant: a restart that cannot launch is dropped.                        *)
RestartFailsSilently(c, g) ==
  /\ record[c].gen = g /\ ~record[c].restart.manual /\ record[c].st = "restarting"
  /\ LaunchFails(c, FALSE)
  /\ UNCHANGED <<record, guest, live, failures, caller, faults>>

(* restart() whose launch fails settles the container as exited; if even   *)
(* that cannot be written the failure is recorded.  Both notify.           *)
RestartFails(c, g) ==
  /\ record[c].gen = g /\ ~record[c].restart.manual /\ record[c].st = "restarting"
  /\ \E rolled, ok \in BOOLEAN :
       LET lost == (IF rolled THEN 1 ELSE 0) + (IF ok THEN 0 ELSE 1) IN
       /\ faults + lost <= MaxStorageFaults
       /\ LaunchFails(c, rolled)
       /\ record' = IF ok THEN [record EXCEPT ![c] =
                                 [@ EXCEPT !.st = "exited", !.result = "fault"]]
                          ELSE record
       /\ failures' = IF ok THEN failures ELSE [failures EXCEPT ![c] = TRUE]
       /\ faults' = faults + lost
  /\ caller' = Notified(c)
  /\ UNCHANGED <<guest, live>>

(* The sleep of a timer task ends and it runs restart() under the mutex.   *)
(* restart() first drops whatever cancel sender the container has.         *)
TimerFires(c, g) ==
  /\ Free /\ timer[c][g] # "none"
  /\ timer' = [timer EXCEPT ![c][g] = "none"]
  /\ restarts' = [restarts EXCEPT ![c] = NoGen]
  /\ RestartStale(c, g) \/ RestartLaunches(c, g) \/ RestartFails(c, g)
  /\ UNCHANGED <<exits, reclaim, sweep, daemon, crashes>>

(* The other arm of the task's select!: its sender was used, dropped or    *)
(* replaced.  The task finish() spawns then removes the container's        *)
(* sender, whoever's it is by now; the one recover() spawns does not.      *)
(* Neither takes the operations mutex.                                     *)
TimerCancelled(c, g) ==
  /\ daemon = "up" /\ timer[c][g] # "none" /\ restarts[c] # g
  /\ timer' = [timer EXCEPT ![c][g] = "none"]
  /\ restarts' = IF timer[c][g] = "finish"
                 THEN [restarts EXCEPT ![c] = NoGen] ELSE restarts
  /\ UNCHANGED <<record, guest, live, cleanup, failures, exits, reclaim, caller,
                 sweep, daemon, faults, crashes>>

-----------------------------------------------------------------------------
(* Operations that take the mutex once.                                    *)

(* Running::pause and resume fail once the process has been waited for.    *)
Waitable(c) == guest[c][live[c]].phase \in {"up", "frozen", "killed"}

(* Mutant: the host call is not undone when the record cannot be written.  *)
PauseLockedNoUndo(c, from, to, phase) ==
  /\ record[c].st = from /\ live[c] # NoGen /\ Waitable(c)
  /\ record' \in {record, [record EXCEPT ![c].st = to]}
  /\ guest' = [guest EXCEPT ![c][live[c]].phase =
                 IF @ = "killed" THEN @ ELSE phase]

(* pause_locked and unpause_locked, the host call and the record.  When    *)
(* the record cannot be written the host call is undone.                   *)
PauseLocked(c, from, to, phase) ==
  /\ record[c].st = from /\ live[c] # NoGen /\ Waitable(c)
  /\ record' = [record EXCEPT ![c].st = to]
  /\ guest' = [guest EXCEPT ![c][live[c]].phase =
                 IF @ = "killed" THEN @ ELSE phase]

(* The same, when the record could not be written: an error.               *)
PauseUnwritten(c, from) ==
  /\ record[c].st = from /\ live[c] # NoGen /\ Waitable(c)
  /\ faults < MaxStorageFaults /\ Charge(FALSE)
  /\ UNCHANGED <<record, guest>>

(* Service::pause and unpause.  (One that fails changes nothing.)          *)
Pause(c) ==
  /\ Free /\ "pause" \in Ops
  /\ PauseLocked(c, "running", "paused", "frozen")
  /\ UNCHANGED <<live, timer, restarts, cleanup, failures, exits, reclaim, caller,
                 sweep, daemon, faults, crashes>>

Unpause(c) ==
  /\ Free /\ "pause" \in Ops
  /\ PauseLocked(c, "paused", "running", "up")
  /\ UNCHANGED <<live, timer, restarts, cleanup, failures, exits, reclaim, caller,
                 sweep, daemon, faults, crashes>>

(* Mutant: the new policy leaves a pending restart alone.                  *)
UpdateKeepsPending(c) ==
  /\ Free /\ "update" \in Ops /\ Present(c)
  /\ \E p \in Policies :
       record' = [record EXCEPT ![c] = [@ EXCEPT !.policy = p]]
  /\ UNCHANGED <<volatile, caller, sweep, daemon, faults, crashes>>

(* Service::update of the restart policy (the present one when only other  *)
(* limits change).  A pending restart that the policy does not allow is    *)
(* settled and its timer cancelled.                                        *)
Update(c) ==
  /\ Free /\ "update" \in Ops /\ Present(c)
  /\ \E p \in Policies :
       LET cancel == /\ record[c].st = "restarting"
                     /\ ~Allows(p, record[c].result, record[c].restart) IN
       /\ record' = [record EXCEPT ![c] =
                        [@ EXCEPT !.policy = p,
                                  !.st = IF cancel THEN "exited" ELSE record[c].st]]
       /\ restarts' = IF cancel THEN [restarts EXCEPT ![c] = NoGen] ELSE restarts
       /\ caller' = IF cancel THEN Notified(c) ELSE caller
  /\ UNCHANGED <<guest, live, timer, cleanup, failures, exits, reclaim, sweep,
                 daemon, faults, crashes>>

(* Service::discard_checkpoint.                                            *)
DiscardCheckpoint(c) ==
  /\ Free /\ "checkpoint" \in Ops /\ Present(c) /\ ~Active(c) /\ record[c].ckpt
  /\ record' = [record EXCEPT ![c].ckpt = FALSE]
  /\ UNCHANGED <<volatile, caller, sweep, daemon, faults, crashes>>

(* remove() under the mutex: an inactive container loses its record, its   *)
(* status is published for late waits, its failure is forgotten.           *)
RemoveLocked(c, completion) ==
  /\ Present(c) /\ ~Active(c)
  /\ record' = [record EXCEPT ![c].st = "removed"]
  /\ exits' = IF completion = "none" THEN exits
              ELSE [exits EXCEPT ![c] = completion]
  /\ failures' = [failures EXCEPT ![c] = FALSE]

(* remove() that fails: before its record is gone, or after, when a later  *)
(* step of the teardown (volumes, logs, executions, root filesystem)       *)
(* fails.  Either way it returns before it publishes a status or notifies. *)
RemoveFails(c) ==
  /\ Present(c) /\ ~Active(c) /\ faults < MaxStorageFaults
  /\ \E gone \in BOOLEAN :
       record' = IF gone THEN [record EXCEPT ![c].st = "removed"] ELSE record
  /\ Charge(FALSE)
  /\ UNCHANGED exits

(* finish() removing an automatic-removal container after it dropped the   *)
(* mutex.  Any error, an activation in between included, is recorded as a  *)
(* failure of the container.                                               *)
AutoRemove(c) ==
  /\ Free /\ reclaim[c] # "none"
  /\ reclaim' = [reclaim EXCEPT ![c] = "none"]
  /\ \/ /\ RemoveLocked(c, reclaim[c])
        /\ caller' = Notified(c)
        /\ UNCHANGED faults
     \/ /\ Active(c) \/ ~Present(c)
        /\ failures' = [failures EXCEPT ![c] = TRUE]
        /\ UNCHANGED <<record, exits, caller, faults>>
     \/ /\ RemoveFails(c)
        /\ failures' = [failures EXCEPT ![c] = TRUE]
        /\ UNCHANGED caller
  /\ UNCHANGED <<guest, live, timer, restarts, cleanup, sweep, daemon, crashes>>

-----------------------------------------------------------------------------
(* API calls that take the mutex more than once.                           *)

(* wait() and a plain remove() go straight to the mutex, stop(), signal()  *)
(* and a forced remove() first look without it.                            *)
FirstStep(op) == CASE op = "wait" -> "enter" [] op = "remove" -> "remove"
                   [] OTHER -> "read"

(* A client calls.                                                         *)
Call(k) ==
  /\ daemon = "up" /\ caller[k].pc = "idle"
  /\ \E c \in Containers, op \in Ops \cap {"wait", "stop", "signal", "remove", "force"},
        cond \in {"not-running", "next-exit", "removed"} :
       /\ record[c].st # "unborn"
       /\ op # "wait" => cond = "not-running"
       /\ caller' = [caller EXCEPT ![k] = [NoCall EXCEPT
             !.pc = FirstStep(op), !.op = op, !.c = c, !.cond = cond]]
  /\ UNCHANGED <<record, volatile, sweep, daemon, faults, crashes>>

(* The unlocked look of stop(), signal() and remove(force).                *)
StepAfterRead(op, c) ==
  CASE op = "force" -> IF Active(c) THEN "kill" ELSE "remove"
    [] op # "force" /\ record[c].st = "paused" -> "unpause"
    [] OTHER -> "signal"
Read(k) ==
  LET c == caller[k].c IN
  /\ daemon = "up" /\ caller[k].pc = "read"
  /\ caller' = [caller EXCEPT ![k] =
       IF ~Present(c) THEN Ended(k, "notfound")
       ELSE [@ EXCEPT !.pc = StepAfterRead(caller[k].op, c)]]
  /\ UNCHANGED <<record, volatile, sweep, daemon, faults, crashes>>

(* unpause() on behalf of stop() and signal(); an error ends the call.     *)
CallUnpauses(k) ==
  LET c == caller[k].c IN
  /\ Free /\ caller[k].pc = "unpause"
  /\ \/ /\ PauseLocked(c, "paused", "running", "up")
        /\ caller' = [caller EXCEPT ![k].pc = "signal"]
        /\ UNCHANGED faults
     \/ /\ \/ PauseUnwritten(c, "paused")
           \/ /\ ~(record[c].st = "paused" /\ live[c] # NoGen /\ Waitable(c))
              /\ UNCHANGED <<record, guest, faults>>
        /\ caller' = [caller EXCEPT ![k] = Ended(k, "error")]
  /\ UNCHANGED <<live, timer, restarts, cleanup, failures, exits, reclaim, sweep,
                 daemon, crashes>>

(* Mutant: a suspended process is not killed.                              *)
KilledUnlessFrozen(c) ==
  IF live[c] # NoGen /\ guest[c][live[c]].phase = "up"
  THEN [guest EXCEPT ![c][live[c]].phase = "killed"] ELSE guest

(* Running::signal with KILL: a no-op on a process that has been reaped.   *)
Killed(c) ==
  IF live[c] # NoGen /\ guest[c][live[c]].phase \in {"up", "frozen"}
  THEN [guest EXCEPT ![c][live[c]].phase = "killed"] ELSE guest

(* Running::signal with STOP or CONT: the host process is suspended or     *)
(* resumed, and no record says so.                                         *)
Stopped(c) ==
  IF live[c] # NoGen /\ guest[c][live[c]].phase \in {"up", "frozen"}
  THEN {[guest EXCEPT ![c][live[c]].phase = p] : p \in {"up", "frozen"}} ELSE {guest}

(* Service::signal under the mutex: the process ignores the signal, ends,  *)
(* or is stopped or continued.                                             *)
Signal(k) ==
  LET c == caller[k].c IN
  /\ Free /\ caller[k].pc = "signal" /\ caller[k].op = "signal"
  /\ IF Active(c) /\ live[c] # NoGen
     THEN /\ \/ guest' \in {guest, Killed(c)}
             \/ "stop-signals" \in Env /\ guest' \in Stopped(c)
          /\ caller' = [caller EXCEPT ![k] = Ended(k, "ok")]
     ELSE /\ caller' = [caller EXCEPT ![k] = Ended(k, "error")]
          /\ UNCHANGED guest
  /\ UNCHANGED <<record, live, timer, restarts, cleanup, failures, exits, reclaim,
                 sweep, daemon, faults, crashes>>

(* stop_signal() on a pending restart: the container is settled as         *)
(* manually stopped, its timer cancelled, its waits notified.  Also        *)
(* cancel_restart_locked().                                                *)
Cancelled(c) == [record[c] EXCEPT !.st = "exited", !.restart = Manual(@)]
CancelsRestart(c) ==
  /\ record[c].st = "restarting"
  /\ record' = [record EXCEPT ![c] = Cancelled(c)]
  /\ restarts' = [restarts EXCEPT ![c] = NoGen]

(* stop_signal(): first with the container's stop signal, which it may     *)
(* ignore, then (or at once, for a forced removal) with KILL.  An inactive *)
(* container is an error of the first and tolerated by the second.         *)
StopSignal(k) ==
  LET c == caller[k].c
      kill == caller[k].pc = "kill"
      waits == [caller[k] EXCEPT !.pc = "enter", !.forced = kill] IN
  /\ Free
  /\ kill \/ (caller[k].pc = "signal" /\ caller[k].op = "stop")
  /\ \/ /\ CancelsRestart(c)
        /\ caller' = [Notified(c) EXCEPT ![k] = waits]
        /\ UNCHANGED <<guest, faults>>
     \/ /\ Owning(c) /\ live[c] # NoGen
        /\ record' = [record EXCEPT ![c].restart = Manual(@)]
        /\ guest' \in {Killed(c)} \cup {h \in {guest} : ~kill}
        /\ caller' = [caller EXCEPT ![k] = waits]
        /\ UNCHANGED <<restarts, faults>>
     \/ /\ ~Active(c)
        /\ caller' = [caller EXCEPT ![k] =
             CASE ~Present(c) -> Ended(k, "notfound")
               [] Present(c) /\ kill -> waits
               [] OTHER -> Ended(k, "error")]
        /\ UNCHANGED <<record, guest, restarts, faults>>
     \/ /\ Active(c) /\ faults < MaxStorageFaults /\ Charge(FALSE)
        /\ caller' = [caller EXCEPT ![k] = Ended(k, "error")]
        /\ UNCHANGED <<record, guest, restarts>>
  /\ UNCHANGED <<live, timer, cleanup, failures, exits, reclaim, sweep, daemon,
                 crashes>>

(* What wait() returns for the record it finds, or "none" to park again.   *)
Answer(k) ==
  LET c == caller[k].c
      r == record[c]
      next == \/ r.gen > caller[k].gen0
              \/ caller[k].active0 /\ r.gen = caller[k].gen0 IN
  CASE r.st = "removed" /\ caller[k].cond = "removed" ->
         IF caller[k].exit # "none" THEN caller[k].exit
         ELSE IF exits[c] # "none" THEN exits[c] ELSE "empty"
    [] r.st = "removed" /\ caller[k].cond # "removed" ->
         IF exits[c] # "none" THEN exits[c] ELSE "notfound"
    [] r.st # "removed" /\ (failures[c] \/ r.diag) -> "error"
    [] r.st = "exited" /\ ~failures[c] /\ ~r.diag
         /\ caller[k].cond = "not-running" -> r.result
    [] r.st \in {"exited", "restarting"} /\ ~failures[c] /\ ~r.diag
         /\ caller[k].cond = "next-exit" /\ next -> r.result
    [] r.st = "created" /\ ~failures[c] /\ ~r.diag
         /\ caller[k].cond = "not-running" -> "error"
    [] OTHER -> "none"

(* Mutant: wait() parks before it looks at the record.                     *)
EnterParks(k) ==
  LET c == caller[k].c IN
  /\ Free /\ caller[k].pc = "enter" /\ Present(c)
  /\ caller' = [caller EXCEPT ![k] = [@ EXCEPT !.pc = "parked", !.gen0 = record[c].gen]]
  /\ UNCHANGED <<record, volatile, sweep, daemon, faults, crashes>>

(* wait() takes the mutex a first time to learn what it is waiting for.    *)
Enter(k) ==
  LET c == caller[k].c IN
  /\ Free /\ caller[k].pc = "enter"
  /\ caller' = [caller EXCEPT ![k] =
       IF Present(c)
       THEN [@ EXCEPT !.pc = "look", !.gen0 = record[c].gen, !.active0 = Owning(c)]
       ELSE Ended(k, IF exits[c] # "none" THEN exits[c] ELSE "notfound")]
  /\ UNCHANGED <<record, volatile, sweep, daemon, faults, crashes>>

(* A wait that parks remembers the last exit it saw.                       *)
Parked(k) ==
  LET r == record[caller[k].c] IN
  [caller[k] EXCEPT !.pc = "parked",
                    !.exit = IF r.st = "exited" THEN r.result ELSE caller[k].exit]

(* One turn of wait()'s loop: answer, or enable the notification and then  *)
(* let go of the mutex.  A forced removal goes on to remove; an error of   *)
(* its wait ends it.                                                       *)
Look(k) ==
  LET a == Answer(k) IN
  /\ Free /\ caller[k].pc = "look"
  /\ caller' = [caller EXCEPT ![k] =
       CASE a = "none" -> Parked(k)
         [] a \in Results /\ caller[k].op = "force" -> [@ EXCEPT !.pc = "remove"]
         [] OTHER -> Ended(k, a)]
  /\ UNCHANGED <<record, volatile, sweep, daemon, faults, crashes>>

(* The bound of stop()'s first wait, and of the wait of a forced removal.  *)
(* stop()'s second wait has none.                                          *)
TimesOut(k) ==
  /\ daemon = "up" /\ caller[k].pc \in {"enter", "look", "parked"}
  /\ \/ /\ caller[k].op = "stop" /\ ~caller[k].forced
        /\ caller' = [caller EXCEPT ![k].pc = "kill"]
     \/ /\ caller[k].op = "force"
        /\ caller' = [caller EXCEPT ![k] = Ended(k, "timeout")]
  /\ UNCHANGED <<record, volatile, sweep, daemon, faults, crashes>>

(* remove() under the mutex on behalf of a client.                         *)
Remove(k) ==
  LET c == caller[k].c IN
  /\ Free /\ caller[k].pc = "remove"
  /\ \/ /\ RemoveLocked(c, "none")
        /\ caller' = [Notified(c) EXCEPT ![k] = Ended(k, "ok")]
        /\ UNCHANGED faults
     \/ /\ RemoveFails(c)
        /\ caller' = [caller EXCEPT ![k] = Ended(k, "error")]
        /\ UNCHANGED failures
     \/ /\ Active(c) \/ ~Present(c)
        /\ caller' = [caller EXCEPT ![k] = Ended(k, "error")]
        /\ UNCHANGED <<record, exits, failures, faults>>
  /\ UNCHANGED <<guest, live, timer, restarts, cleanup, reclaim, sweep, daemon,
                 crashes>>

-----------------------------------------------------------------------------
(* Checkpoints.                                                            *)

(* The engine published its image and released the guest, which exits.     *)
Released(c) ==
  [guest EXCEPT ![c][live[c]] = [phase |-> "exited", result |-> "zero"]]

(* The record of a captured container.                                     *)
Captured(c) ==
  [record[c] EXCEPT !.st = "exited", !.result = "zero", !.ckpt = TRUE,
                    !.restart = Manual(@)]

(* checkpoint_locked() that captures and settles the container: the record *)
(* and its execution members are written, the output owner has closed.     *)
CheckpointSucceeds(c) ==
  /\ record' = [record EXCEPT ![c] = Captured(c)]
  /\ guest' = Released(c)
  /\ live' = [live EXCEPT ![c] = NoGen]
  /\ caller' = Notified(c)
  /\ UNCHANGED faults

(* A live-only execution, or the engine cannot capture: refused before     *)
(* anything is frozen.                                                     *)
CaptureRefused ==
  "refuses-capture" \in Env /\ UNCHANGED <<record, guest, live, caller, faults>>

(* Captured, but the record was not written.                               *)
CaptureUnrecorded(c) ==
  /\ faults < MaxStorageFaults /\ Charge(FALSE)
  /\ guest' = Released(c)
  /\ UNCHANGED <<record, live, caller>>

(* Captured and recorded, but arm_domain_members() could not record an     *)
(* execution: it returns before the process is released and waits notified.*)
MembersUnrecorded(c) ==
  /\ faults < MaxStorageFaults /\ Charge(FALSE) /\ "members" \in Env
  /\ record' = [record EXCEPT ![c] = Captured(c)]
  /\ guest' = Released(c)
  /\ UNCHANGED <<live, caller>>

(* Captured and recorded, but an output owner did not close in time and    *)
(* was aborted: an execution's, or the container's own after its process   *)
(* was gone or while it still ran.                                         *)
CaptureWedged(c) ==
  /\ "wedge" \in Env
  /\ record' = [record EXCEPT ![c] = Captured(c)]
  /\ \/ guest' = Released(c)
     \/ guest' \in {[guest EXCEPT ![c][live[c]] = [phase |-> p, result |-> "error"]] :
                     p \in {"exited", "abandoned"}}
  /\ live' = [live EXCEPT ![c] = NoGen]
  /\ caller' = Notified(c)
  /\ UNCHANGED faults

(* checkpoint_locked() that returns an error.                              *)
CheckpointFails(c) ==
  CaptureRefused \/ CaptureUnrecorded(c) \/ MembersUnrecorded(c) \/ CaptureWedged(c)

(* The engine can only capture a process that is still running.            *)
Capturable(c) == live[c] # NoGen /\ guest[c][live[c]].phase = "up"

(* Service::checkpoint.                                                    *)
Checkpoint(c) ==
  /\ Free /\ "checkpoint" \in Ops /\ record[c].st = "running" /\ Capturable(c)
  /\ CheckpointSucceeds(c) \/ CheckpointFails(c)
  /\ UNCHANGED <<timer, restarts, cleanup, failures, exits, reclaim, sweep, daemon,
                 crashes>>

(* checkpoint_all() takes the mutex and keeps it until it returns.         *)
SweepBegins ==
  /\ Free /\ "sweep" \in Ops
  /\ sweep' = [NoSweep EXCEPT !.phase = "capture",
                 !.todo = {c \in Containers : Present(c)},
                 !.before = [c \in Containers |-> record[c].st]]
  /\ UNCHANGED <<record, volatile, caller, daemon, faults, crashes>>

SweepDrops(c) == [sweep EXCEPT !.todo = @ \ {c}]
SweepFails(c) == [sweep EXCEPT !.todo = @ \ {c}, !.failed = TRUE]

(* checkpoint_all() on an inactive container, or a pending restart.        *)
SweepSettles(c) ==
  /\ sweep.phase = "capture" /\ c \in sweep.todo /\ ~Owning(c)
  /\ \/ /\ ~Active(c)
        /\ sweep' = SweepDrops(c)
        /\ UNCHANGED <<record, restarts, caller, faults>>
     \/ /\ CancelsRestart(c)
        /\ sweep' = SweepDrops(c)
        /\ caller' = Notified(c)
        /\ UNCHANGED faults
     \/ /\ Active(c) /\ faults < MaxStorageFaults /\ Charge(FALSE)
        /\ sweep' = SweepFails(c)
        /\ UNCHANGED <<record, restarts, caller>>
  /\ UNCHANGED <<guest, live, timer, cleanup, failures, exits, reclaim, daemon, crashes>>

(* checkpoint_all() resumes a paused container before it captures it; one  *)
(* that cannot be resumed fails the sweep.                                 *)
SweepResumes(c) ==
  /\ sweep.phase = "capture" /\ c \in sweep.todo /\ record[c].st = "paused"
  /\ \/ /\ PauseLocked(c, "paused", "running", "up")
        /\ sweep' = [sweep EXCEPT !.resumed = @ \cup {c}]
        /\ UNCHANGED faults
     \/ /\ \/ PauseUnwritten(c, "paused")
           \/ /\ ~(live[c] # NoGen /\ Waitable(c))
              /\ UNCHANGED <<record, guest, faults>>
        /\ sweep' = SweepFails(c)
  /\ UNCHANGED <<live, timer, restarts, cleanup, failures, exits, reclaim, caller,
                 daemon, crashes>>

(* Mutant: a failed capture is not restored though its image was recorded. *)
SweepCapturesForgetful(c) ==
  /\ sweep.phase = "capture" /\ c \in sweep.todo /\ record[c].st = "running"
  /\ \/ /\ Capturable(c) /\ CheckpointSucceeds(c)
        /\ sweep' = [SweepDrops(c) EXCEPT !.captured = @ \cup {c}]
     \/ Capturable(c) /\ CheckpointFails(c) /\ sweep' = SweepFails(c)
  /\ UNCHANGED <<timer, restarts, cleanup, failures, exits, reclaim, daemon, crashes>>

(* checkpoint_all() captures a running container.  A failed capture that   *)
(* left its image in the record (captured_by_exit) counts as captured.     *)
SweepCaptures(c) ==
  /\ sweep.phase = "capture" /\ c \in sweep.todo /\ record[c].st = "running"
  /\ \/ /\ Capturable(c) /\ CheckpointSucceeds(c)
        /\ sweep' = [SweepDrops(c) EXCEPT !.captured = @ \cup {c}]
     \/ /\ \/ Capturable(c) /\ CheckpointFails(c)
           \/ ~Capturable(c) /\ UNCHANGED <<record, guest, live, caller, faults>>
        /\ sweep' = [SweepFails(c) EXCEPT !.captured =
                       IF record'[c].st = "exited" THEN @ \cup {c} ELSE @]
  /\ UNCHANGED <<timer, restarts, cleanup, failures, exits, reclaim, daemon, crashes>>

(* The rollback of a failed checkpoint_all(): start what was captured...   *)
SweepRestarts(c) ==
  /\ sweep.phase = "rollback" /\ c \in sweep.todo
  /\ sweep' = SweepDrops(c)
  /\ \/ /\ ~Active(c) /\ LaunchPublishes(c, TRUE)
        /\ UNCHANGED <<cleanup, faults>>
     \/ /\ \E rolled \in BOOLEAN : ~Active(c) /\ LaunchFails(c, rolled) /\ Charge(~rolled)
        /\ UNCHANGED <<record, guest, live>>
  /\ UNCHANGED <<timer, restarts, failures, exits, reclaim, caller, daemon, crashes>>

(* ... and pause again what was resumed; an error is only reported.        *)
SweepPauses(c) ==
  /\ sweep.phase = "repause" /\ c \in sweep.todo
  /\ sweep' = SweepDrops(c)
  /\ \/ PauseLocked(c, "running", "paused", "frozen") /\ UNCHANGED faults
     \/ PauseUnwritten(c, "running")
     \/ /\ ~(record[c].st = "running" /\ live[c] # NoGen /\ Waitable(c))
        /\ UNCHANGED <<record, guest, faults>>
  /\ UNCHANGED <<live, timer, restarts, cleanup, failures, exits, reclaim, caller,
                 daemon, crashes>>

(* checkpoint_all() passes to its next stage, or returns.                  *)
SweepTurns ==
  /\ sweep.phase # "idle" /\ sweep.todo = {}
  /\ sweep' = CASE sweep.phase = "capture" /\ sweep.failed ->
                     [sweep EXCEPT !.phase = "rollback", !.todo = sweep.captured]
                [] sweep.phase = "rollback" ->
                     [sweep EXCEPT !.phase = "repause", !.todo = sweep.resumed]
                [] OTHER -> NoSweep
  /\ UNCHANGED <<record, volatile, caller, daemon, faults, crashes>>

-----------------------------------------------------------------------------
(* Daemon death and startup.                                               *)

(* The daemon dies: durable records stay, every map, task and call is      *)
(* gone, and nobody owns the processes any more.                           *)
Crash ==
  /\ daemon = "up" /\ crashes < MaxCrashes
  /\ daemon' = "down"
  /\ crashes' = crashes + 1
  /\ guest' = [c \in Containers |-> [g \in Gens |->
                IF guest[c][g].phase = "none" THEN guest[c][g]
                ELSE [phase |-> "lost", result |-> "none"]]]
  /\ live' = [c \in Containers |-> NoGen]
  /\ timer' = [c \in Containers |-> [g \in Gens |-> "none"]]
  /\ restarts' = [c \in Containers |-> NoGen]
  /\ cleanup' = [c \in Containers |-> "none"]
  /\ failures' = [c \in Containers |-> FALSE]
  /\ exits' = [c \in Containers |-> "none"]
  /\ reclaim' = [c \in Containers |-> "none"]
  /\ caller' = [k \in Callers |-> IF caller[k].pc = "idle" THEN caller[k]
                                  ELSE Ended(k, "lost")]
  /\ sweep' = NoSweep
  /\ UNCHANGED <<record, faults>>

(* reconcile_container(): what startup makes of a record that the previous *)
(* daemon left behind.                                                     *)
Reconciled(c) ==
  LET r == record[c] IN
  CASE Owning(c) ->
         [r EXCEPT !.st = IF AllowsAfterDaemonRestart(r.policy)
                          THEN "restarting" ELSE "exited",
                   !.result = "fault"]
    [] r.st = "exited" /\ r.policy.kind = "always" /\ r.restart.manual ->
         [r EXCEPT !.st = "restarting", !.restart.manual = FALSE]
    [] OTHER -> r

(* reconcile() writes one record at a time.                                *)
Reconcile(c) ==
  /\ daemon = "down" /\ Reconciled(c) # record[c]
  /\ record' = [record EXCEPT ![c] = Reconciled(c)]
  /\ UNCHANGED <<volatile, caller, sweep, daemon, faults, crashes>>

(* Mutant: startup does not wait for reconcile().                          *)
RecoverEarly ==
  /\ daemon = "down" /\ daemon' = "up"
  /\ UNCHANGED <<record, volatile, caller, sweep, faults, crashes>>

(* recover(), once reconcile() is through: a timer for every pending       *)
(* restart, then the removal of exited automatic-removal containers, whose *)
(* status stays available to late waits.                                   *)
Recover ==
  LET gone == {c \in Containers : record[c].st = "exited" /\ record[c].auto}
      again == {c \in Containers : record[c].st = "restarting"} IN
  /\ daemon = "down" /\ \A c \in Containers : Reconciled(c) = record[c]
  /\ daemon' = "up"
  /\ timer' = [c \in Containers |-> [g \in Gens |->
                IF c \in again /\ g = record[c].gen THEN "recover" ELSE "none"]]
  /\ restarts' = [c \in Containers |-> IF c \in again THEN record[c].gen ELSE NoGen]
  /\ record' = [c \in Containers |->
                 IF c \in gone THEN [record[c] EXCEPT !.st = "removed"] ELSE record[c]]
  /\ exits' = [c \in Containers |-> IF c \in gone THEN record[c].result ELSE "none"]
  /\ UNCHANGED <<guest, live, cleanup, failures, reclaim, caller, sweep, faults, crashes>>

-----------------------------------------------------------------------------
ContainerNext(c) ==
  \/ Create(c) \/ Start(c) \/ Pause(c) \/ Unpause(c) \/ Update(c)
  \/ Checkpoint(c) \/ DiscardCheckpoint(c) \/ SettleLateReap(c) \/ AutoRemove(c)
  \/ SweepSettles(c) \/ SweepResumes(c) \/ SweepCaptures(c)
  \/ SweepRestarts(c) \/ SweepPauses(c) \/ Reconcile(c)
RunNext(c, g) ==
  \/ GuestExits(c, g) \/ AbandonedExits(c, g) \/ LogFails(c, g) \/ Finish(c, g)
  \/ TimerFires(c, g) \/ TimerCancelled(c, g)
CallerNext(k) ==
  \/ Call(k) \/ Read(k) \/ CallUnpauses(k) \/ Signal(k) \/ StopSignal(k)
  \/ Enter(k) \/ Look(k) \/ TimesOut(k) \/ Remove(k)

Next ==
  \/ \E c \in Containers : ContainerNext(c)
  \/ \E c \in Containers, g \in Gens : RunNext(c, g)
  \/ \E k \in Callers : CallerNext(k)
  \/ SweepBegins \/ SweepTurns \/ Crash \/ Recover

(* Spawned tasks and calls in progress make progress; a killed process     *)
(* dies.  Clients need not call, guests need not exit, nothing need fail.  *)
Fairness ==
  /\ \A c \in Containers :
       /\ WF_vars(SettleLateReap(c)) /\ WF_vars(AutoRemove(c)) /\ WF_vars(Reconcile(c))
       /\ \A g \in Gens :
            /\ WF_vars(guest[c][g].phase = "killed" /\ GuestExits(c, g))
            /\ WF_vars(Finish(c, g))
            /\ WF_vars(TimerFires(c, g) \/ TimerCancelled(c, g))
  /\ \A k \in Callers :
       /\ WF_vars(Read(k) \/ CallUnpauses(k) \/ Signal(k) \/ StopSignal(k)
                   \/ Enter(k) \/ Look(k) \/ Remove(k))
       /\ WF_vars(TimesOut(k))
  /\ WF_vars(\E c \in Containers : SweepSettles(c) \/ SweepResumes(c) \/ SweepCaptures(c)
                                     \/ SweepRestarts(c) \/ SweepPauses(c))
  /\ WF_vars(SweepTurns) /\ WF_vars(Recover)

Spec == Init /\ [][Next]_vars
FairSpec == Spec /\ Fairness
-----------------------------------------------------------------------------
(* Properties.                                                             *)

Records == [st : States, gen : 0 .. MaxGeneration, result : Results \cup {"none"},
            restart : [count : Nat, manual : BOOLEAN], ckpt : BOOLEAN, diag : BOOLEAN,
            policy : RestartPolicies, auto : BOOLEAN, publish : SUBSET Ports]
Guests == [phase : Phases, result : {"none", "zero", "nonzero", "error"}]
Calls == [pc : {"read", "unpause", "signal", "kill", "enter", "look", "parked",
                "remove", "done"},
          op : {"wait", "stop", "signal", "remove", "force"}, c : Containers,
          cond : {"not-running", "next-exit", "removed"},
          gen0 : 0 .. MaxGeneration, active0 : BOOLEAN,
          exit : Results \cup {"none"}, forced : BOOLEAN,
          answer : Results \cup {"none", "ok", "error", "empty", "notfound",
                                "timeout", "lost"}]
Sweeps == [phase : {"idle", "capture", "rollback", "repause"},
           todo : SUBSET Containers, captured : SUBSET Containers,
           resumed : SUBSET Containers, failed : BOOLEAN,
           before : [Containers -> States]]

(* Every map of the service holds what its type in service/container.rs    *)
(* allows, and the generation of a record stays inside its space.          *)
TypeOK ==
  /\ record \in [Containers -> Records]
  /\ guest \in [Containers -> [Gens -> Guests]]
  /\ live \in [Containers -> 0 .. MaxGeneration]
  /\ timer \in [Containers -> [Gens -> {"none", "finish", "recover"}]]
  /\ restarts \in [Containers -> 0 .. MaxGeneration]
  /\ cleanup \in [Containers -> {"none", "reaping", "poisoned"}]
  /\ failures \in [Containers -> BOOLEAN]
  /\ exits \in [Containers -> Results \cup {"none"}]
  /\ reclaim \in [Containers -> Results \cup {"none"}]
  /\ daemon \in {"up", "down"}
  /\ faults \in 0 .. MaxStorageFaults
  /\ crashes \in 0 .. MaxCrashes
  /\ caller \in [Callers -> Calls \cup {NoCall}]
  /\ sweep \in Sweeps

Alive == {"up", "frozen", "killed"}

(* launch.rs, restart.rs, checkpoint.rs: a process that a task of this     *)
(* daemon owns belongs to the run its container's record names, and that   *)
(* record is running or paused.  A process nobody would ever stop, or two  *)
(* processes of one container, would violate it.                           *)
GuestAccounted ==
  \A c \in Containers, g \in Gens :
    guest[c][g].phase \in Alive => Owning(c) /\ record[c].gen = g /\ live[c] = g

(* launch.rs, restart.rs: while the daemon is up, a container recorded as  *)
(* running or paused owns the process of its generation, whose completion  *)
(* is still to come, unless the completion could not be persisted and is   *)
(* recorded as a failure.                                                  *)
RunHasOwner ==
  daemon = "up" =>
    \A c \in Containers : Owning(c) =>
      /\ live[c] = record[c].gen
      /\ \/ guest[c][record[c].gen].phase \in Alive \cup {"exited"}
         \/ failures[c]

(* control.rs pause/unpause, checkpoint.rs sweep: what the record says of  *)
(* a suspended container is what the host did to its process, unless a     *)
(* client's own STOP or CONT ("stop-signals") went behind the record.      *)
PausedIsFrozen ==
  daemon = "up" =>
    \A c \in Containers : live[c] # NoGen =>
      /\ guest[c][live[c]].phase = "frozen" => record[c].st = "paused"
      /\ guest[c][live[c]].phase = "up" => record[c].st = "running"

(* rollback.rs: a process whose launch was never published, and may still  *)
(* be alive, keeps its container from running.                             *)
QuarantineHolds ==
  \A c \in Containers : cleanup[c] # "none" => ~Owning(c)

(* catalog.rs update, restart.rs finish: a pending restart is one that the *)
(* container's present policy allows for the exit it follows, unless the   *)
(* container is marked as manually stopped.                                *)
PendingRestartAllowed ==
  \A c \in Containers :
    record[c].st = "restarting" /\ ~record[c].restart.manual =>
      Allows(record[c].policy, record[c].result, record[c].restart)

(* launch.rs ensure_ports_available: two containers that publish the same  *)
(* host port are never running (or paused) at the same time.               *)
PortsExclusive ==
  \A c, d \in Containers :
    c # d /\ Owning(c) /\ Owning(d) => record[c].publish \cap record[d].publish = {}

(* control.rs wait: a parked wait has nothing to return yet, so it is not  *)
(* waiting for a notification that has already been sent.                  *)
NoLostWakeup ==
  daemon = "up" =>
    \A k \in Callers : caller[k].pc = "parked" => Answer(k) \in {"none", "error"}

(* checkpoint.rs checkpoint_all: when a sweep that failed is about to      *)
(* return, every container that ran or was paused before it runs or is     *)
(* paused again; a paused one that ended in between is about to be         *)
(* completed.  (A launch beyond the generation space cannot succeed.)      *)
SweepRestoresRuns ==
  sweep.phase = "repause" /\ sweep.todo = {} =>
    \A c \in Containers : record[c].gen < MaxGeneration =>
      /\ sweep.before[c] = "running" => record[c].st = "running"
      /\ sweep.before[c] = "paused" =>
           record[c].st = "paused" \/ guest[c][live[c]].phase = "exited"

(* restart.rs, control.rs, rollback: a container stopped by hand stays     *)
(* stopped until it is launched explicitly (a start, or the rollback of a  *)
(* failed checkpoint_all), which forgets the stop and the restart count;   *)
(* no timer launches it.  Until then the mark of the stop is lost in one   *)
(* way: a daemon that starts up forgets it for an `always` container and   *)
(* makes that one wait for a restart (reconcile_container).                *)
ManualStopHonoured ==
  [][\A c \in Containers :
       record[c].restart.manual =>
         IF record'[c].gen # record[c].gen
         THEN record'[c].restart = FreshRestart
         ELSE ~record'[c].restart.manual =>
                /\ daemon = "down" /\ record[c].policy.kind = "always"
                /\ record[c].st = "exited" /\ record'[c].st = "restarting"]_vars

(* restart.rs: a container waiting to be restarted is eventually launched  *)
(* or settled.                                                             *)
RestartSettles ==
  \A c \in Containers : record[c].st = "restarting" ~> record[c].st # "restarting"

(* control.rs stop, removal.rs: a call that stops a container returns.     *)
StopReturns ==
  \A k \in Callers : caller[k].op \in {"stop", "force"} ~> caller[k].pc = "done"

-----------------------------------------------------------------------------
(* What the repository says of the lifecycle and the code does not keep.   *)

(* lifecycle.rs, wait: "Returns lookup, invalid-state, runtime, or         *)
(* persistence failures."  A parked wait learns that the exit it waits for *)
(* could not be persisted.                                                 *)
WaitLearnsFailure ==
  \A k \in Callers, c \in Containers :
    (caller[k].pc = "parked" /\ caller[k].c = c /\ failures[c])
      ~> caller[k].pc # "parked"

(* model/restart.rs: a container allowed to restart after daemon loss      *)
(* "should be relaunched after daemon ownership is lost".                  *)
LossIsSettled ==
  \A c \in Containers :
    (crashes > 0 /\ record[c].st = "restarting") ~> record[c].st # "restarting"

(* lifecycle.rs, wait: the failures it returns as corruption are failures  *)
(* to persist the exit ("failed to persist exit state", control.rs).       *)
FailureIsPersistence == \A c \in Containers : failures[c] => faults > 0

(* checkpoint.rs: a capture "must put back exactly what it stopped when it *)
(* cannot"; a pending restart that a failed sweep cancelled is pending     *)
(* again when the sweep returns.                                           *)
SweepRestoresPending ==
  sweep.phase = "repause" /\ sweep.todo = {} =>
    \A c \in Containers :
      sweep.before[c] = "restarting" => record[c].st = "restarting"

(* checkpoint.rs: a restore never runs beside the tree it was captured     *)
(* from ("would let those two trees overlap").                             *)
NoOverlap ==
  \A c \in Containers, g \in Gens :
    guest[c][g].phase = "abandoned" => ~Owning(c)

-----------------------------------------------------------------------------
(* A client that only looks at status and generation sees ContainerStates. *)
Promise == INSTANCE ContainerStates WITH
  view <- [c \in Containers |-> [st |-> record[c].st, gen |-> record[c].gen]],
  boot <- daemon = "down"

(* All of the service: every handler, completion, timer, sweep and startup *)
(* step is a step that ContainerStates allows, or invisible to it.         *)
KeepsPromise == Promise!Spec
=============================================================================
