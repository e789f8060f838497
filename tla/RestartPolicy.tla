--------------------------- MODULE RestartPolicy ---------------------------
(***************************************************************************)
(* The automatic-restart policy of a container and its durable             *)
(* bookkeeping: model/restart.rs of hl-container.  Exit statuses are kept  *)
(* to the distinctions the policy draws: a clean exit, a failing one, and  *)
(* the fault the service records when it does not know the status.         *)
(***************************************************************************)
EXTENDS Naturals

Results == {"zero", "nonzero", "fault"}

(* `maximum: None` is 0 here: validate() rejects Some(0), so 0 is free.    *)
RestartPolicies == [kind : {"never", "always", "unless-stopped", "on-failure"},
                    maximum : Nat]

(* Restart::default().                                                     *)
FreshRestart == [count |-> 0, manual |-> FALSE]

(* RestartPolicy::allows.                                                  *)
Allows(policy, result, restart) ==
  /\ ~restart.manual
  /\ \/ policy.kind \in {"always", "unless-stopped"}
     \/ /\ policy.kind = "on-failure"
        /\ result # "zero"
        /\ policy.maximum = 0 \/ restart.count < policy.maximum

(* RestartPolicy::allows_after_daemon_restart.                             *)
AllowsAfterDaemonRestart(policy) == policy.kind \in {"always", "unless-stopped"}

(* Restart::completed_run: a run of at least ten seconds clears the count. *)
CompletedRun(restart, long) == [restart EXCEPT !.count = IF long THEN 0 ELSE @]

(* Restart::manual.                                                        *)
Manual(restart) == [restart EXCEPT !.manual = TRUE]

(* Restart::started followed, for an automatic launch, by automatic().     *)
Started(restart, explicit) ==
  IF explicit THEN FreshRestart ELSE [restart EXCEPT !.count = @ + 1]
=============================================================================
