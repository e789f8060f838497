-------------------------- MODULE ContainerStates --------------------------
(***************************************************************************)
(* What the lifecycle of hl-container promises a client that only looks at *)
(* a container's status and generation.  Generations count runs; only the  *)
(* states listed here follow each other; an active container is never      *)
(* removed, a removed one never comes back, and an exited one is revived   *)
(* without a client's start only while the daemon boots.                   *)
(***************************************************************************)
EXTENDS Integers

CONSTANT Containers

VARIABLES
  view,   \* per container: status and generation
  boot    \* the daemon is settling what an earlier one left behind

(* One container takes a step of its status; a run bumps the generation.   *)
Becomes(c, from, to) ==
  /\ view[c].st \in from
  /\ view' = [view EXCEPT ![c] =
       [st |-> to, gen |-> IF to = "running" /\ view[c].st # "paused"
                           THEN view[c].gen + 1 ELSE view[c].gen]]
  /\ UNCHANGED boot

Serves(c) ==
  \/ Becomes(c, {"unborn"}, "created")
  \/ Becomes(c, {"created", "exited", "restarting", "paused"}, "running")
  \/ Becomes(c, {"running"}, "paused")
  \/ Becomes(c, {"running", "paused"}, "restarting")
  \/ Becomes(c, {"running", "paused", "restarting"}, "exited")
  \/ Becomes(c, {"created", "exited"}, "removed")

(* Startup decides the fate of what the last daemon left running, and may  *)
(* take up again what a client had stopped.                                *)
Settles(c) ==
  \/ Becomes(c, {"running", "paused", "exited"}, "restarting")
  \/ Becomes(c, {"running", "paused"}, "exited")

Dies == ~boot /\ boot' = TRUE /\ UNCHANGED view

(* Startup ends; nothing it leaves behind claims to have a process.        *)
Boots ==
  /\ boot /\ boot' = FALSE
  /\ \A c \in Containers : view[c].st \notin {"running", "paused"}
  /\ \E gone \in SUBSET {c \in Containers : view[c].st = "exited"} :
       view' = [c \in Containers |->
         [st |-> IF c \in gone THEN "removed" ELSE view[c].st, gen |-> view[c].gen]]

Init == view = [c \in Containers |-> [st |-> "unborn", gen |-> 0]] /\ boot = FALSE
Next ==
  \/ ~boot /\ \E c \in Containers : Serves(c)
  \/ boot /\ \E c \in Containers : Settles(c)
  \/ Dies
  \/ Boots
Spec == Init /\ [][Next]_<<view, boot>>
=============================================================================
