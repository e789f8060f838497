------------------------------ MODULE SysvIpc ------------------------------
(***************************************************************************)
(* The SysV emulation as guest processes see it: the three families over   *)
(* one control block, and the process hooks of sysv_state.h that act on    *)
(* all of them (sysv_after_fork, sysv_after_exec, sysv_on_exit).           *)
(*                                                                         *)
(* `uses` is the set of families the guests of a behaviour call.  The      *)
(* tables share no entry, so exploring the families one at a time covers   *)
(* what they can do to themselves; the hooks always run in full.           *)
(***************************************************************************)
EXTENDS SysvShm, SysvSem, SysvMsg

CONSTANTS
  Workloads,   \* the values of `uses`
  Kills        \* whether a guest process may be killed (SIGKILL, no hook)

VARIABLE uses

ASSUME IpcAssumption == Workloads \subseteq SUBSET {"shm", "sem", "msg"} /\ Kills \in BOOLEAN

vars == <<proc, uses, shmVars, semVars, msgVars>>

Init ==
  /\ proc = [p \in Procs |-> IF p = Root THEN "live" ELSE "absent"]
  /\ uses \in Workloads
  /\ ShmInit /\ SemInit /\ MsgInit

(* A process makes one call at a time.                                     *)
Ready(p) == /\ proc[p] = "live"
            /\ shmCall[p].step = "idle"
            /\ semCall[p].step = "idle"
            /\ msgCall[p].step = "idle"

Shm(p) ==
  /\ \/ Ready(p) /\ "shm" \in uses /\ ShmRequest(p)
     \/ proc[p] = "live" /\ ShmStep(p)
  /\ UNCHANGED <<proc, uses, semVars, msgVars>>

Sem(p) ==
  /\ \/ Ready(p) /\ "sem" \in uses /\ SemRequest(p)
     \/ proc[p] = "live" /\ (SemRetry(p) \/ SemGiveUp(p))
  /\ UNCHANGED <<proc, uses, shmVars, msgVars>>

Msg(p) ==
  /\ \/ Ready(p) /\ "msg" \in uses /\ MsgRequest(p)
     \/ proc[p] = "live" /\ MsgStep(p)
  /\ UNCHANGED <<proc, uses, shmVars, semVars>>

(* Mutant: the child starts with its parent's adjustments.                 *)
ForkWithUndo(p, c) ==
  /\ Ready(p) /\ proc[c] = "absent"
  /\ proc' = [proc EXCEPT ![c] = "live"]
  /\ ForkAttachments(p, c)
  /\ undo' = [undo EXCEPT ![c] = undo[p]]
  /\ msgCache' = [msgCache EXCEPT ![c] = msgCache[p]]
  /\ UNCHANGED <<uses, sem, semCall, exact, msg, msgName, stores, msgCall>>

(* fork(2): the child inherits mappings and caches; the counting part of   *)
(* sysv_after_fork runs later, in the child.                               *)
Fork(p, c) ==
  /\ Ready(p) /\ proc[c] = "absent"
  /\ proc' = [proc EXCEPT ![c] = "live"]
  /\ ForkAttachments(p, c)
  /\ ForkUndo(p, c)
  /\ msgCache' = [msgCache EXCEPT ![c] = msgCache[p]]
  /\ UNCHANGED <<uses, sem, semCall, exact, msg, msgName, stores, msgCall>>

(* sysv_after_exec: attachments and adjustments go, the cached stores stay. *)
Exec(p) ==
  /\ Ready(p)
  /\ DetachAll(p) /\ shmName' = Unlinked(shm')
  /\ ForgetUndo(p)
  /\ UNCHANGED <<proc, uses, shmMade, shmCall, shmLost, sem, semCall, msgVars>>

(* sysv_on_exit: detach, undo, and the namespace creator unlinks every     *)
(* object that is still in use; entries and mappings stay as they are.     *)
Exit(p) ==
  /\ Ready(p)
  /\ proc' = [proc EXCEPT ![p] = "gone"]
  /\ DetachAll(p)
  /\ ApplyUndo(p)
  /\ shmName' = IF p = Root THEN [i \in ShmSlots |-> IF shm'[i].inuse THEN NoObject ELSE Unlinked(shm')[i]]
                ELSE Unlinked(shm')
  /\ msgName' = IF p = Root THEN [i \in MsgSlots |-> IF msg[i].inuse THEN NoStore ELSE msgName[i]]
                ELSE msgName
  /\ msgCache' = [msgCache EXCEPT ![p] = {}]
  /\ UNCHANGED <<uses, shmMade, shmCall, shmLost, semCall, msg, stores, msgCall>>

(* A killed process runs no hook, wherever it is; a dead holder's lock is  *)
(* stolen by the next hl_ipc_lock.                                         *)
Kill(p) ==
  /\ Kills /\ proc[p] = "live"
  /\ proc' = [proc EXCEPT ![p] = "gone"]
  /\ KilledAttachments(p)
  /\ ForgetUndo(p)
  /\ semCall' = [semCall EXCEPT ![p] = SemIdle]
  /\ msgCache' = [msgCache EXCEPT ![p] = {}]
  /\ msgCall' = [msgCall EXCEPT ![p] = MsgIdle]
  /\ UNCHANGED <<uses, sem, msg, msgName, stores>>

Next ==
  \E p \in Procs :
    \/ Shm(p) \/ Sem(p) \/ Msg(p)
    \/ \E c \in Procs : Fork(p, c)
    \/ Exec(p) \/ Exit(p) \/ Kill(p)

Spec == Init /\ [][Next]_vars

(* A call that has dropped the lock goes on: the polls of svc_semop and    *)
(* the rest of shmat, shmdt and msgget are straight-line code of a running *)
(* thread.                                                                 *)
Fairness ==
  \A p \in Procs : /\ WF_vars(proc[p] = "live" /\ SemRetry(p) /\ UNCHANGED <<proc, uses, shmVars, msgVars>>)
                   /\ WF_vars(proc[p] = "live" /\ ShmStep(p) /\ UNCHANGED <<proc, uses, semVars, msgVars>>)

FairSpec == Spec /\ Fairness

TypeOK == ProcTypeOK /\ ShmTypeOK /\ SemTypeOK /\ MsgTypeOK /\ uses \in Workloads
=============================================================================
