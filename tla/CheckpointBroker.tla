-------------------------- MODULE CheckpointBroker --------------------------
(***************************************************************************)
(* The host side of one checkpoint capture (hl-engine runtime/checkpoint): *)
(* the broker every process of the captured tree talks to, one channel per *)
(* process.  It owns the phase of the capture, the ledger of the processes *)
(* that proved their membership, the groups committed to the image and the *)
(* answer a frozen process gets when it asks what to do next.              *)
(*                                                                         *)
(* Every request is served under the broker's locks, so each is a function *)
(* from the broker's state to its next state.  A channel is <<p, n>>, the  *)
(* n-th one process p opened.  Time is one flag: whether the deadline of   *)
(* the capture has passed.                                                 *)
(***************************************************************************)
EXTENDS Integers, FiniteSets

CONSTANTS Procs,     \* the processes of the captured container
          Objects    \* the shared kernel objects (pipes, sockets, signalfds) a capture drains

VARIABLE broker

NotSealed == -1
NoChannel == <<>>

Channels == Procs \X Nat

BrokerType ==
  /\ broker.up \in BOOLEAN
  /\ broker.phase \in {"Active", "Refusing", "Publishing", "Finished"}
  /\ broker.result \in {"none", "ok", "Refused", "Failed", "Deadline"}
  /\ broker.lapsed \in {"Refused", "Failed"}
  /\ broker.settler \in Channels \cup {NoChannel}
  /\ broker.channels \subseteq Channels
  /\ broker.resumed \subseteq Channels
  /\ broker.irreversible \in BOOLEAN
  /\ broker.expired \in BOOLEAN
  /\ broker.registered \subseteq Procs
  /\ broker.sealed \in 0 .. Cardinality(Procs) \cup {NotSealed}
  /\ broker.groups \subseteq Procs
  /\ broker.claims \subseteq Objects

\* A capture that has just been requested: nobody has joined it yet.
BrokerStarted ==
  [up |-> TRUE, phase |-> "Active", result |-> "none", lapsed |-> "Failed",
   settler |-> NoChannel, channels |-> {}, resumed |-> {},
   irreversible |-> FALSE, expired |-> FALSE, registered |-> {},
   sealed |-> NotSealed, groups |-> {}, claims |-> {}]

Running(b)    == b.phase \in {"Active", "Refusing"}
\* Bytes of the image are accepted while the capture runs inside its deadline.
Mutable(b)    == b.phase = "Active" /\ ~b.expired
Published(b)  == b.phase = "Finished" /\ b.result = "ok"

\* interrupt_channels() shuts every channel down.
Interrupted(b) == [b EXCEPT !.channels = {}, !.resumed = {}]

FinishedAs(b, result) == [b EXCEPT !.phase = "Finished", !.result = result]

\* fail_as(): a running capture is over, and whoever still holds a channel is told.
Failed(b, result) ==
  IF Running(b) THEN Interrupted(FinishedAs(b, result)) ELSE b

(***************************************************************************)
(* Membership.                                                             *)
(***************************************************************************)
CanRegister(b, p) == b.phase = "Active" /\ b.sealed = NotSealed /\ p \notin b.registered

Registered(b, p) == [b EXCEPT !.registered = @ \cup {p}]

\* seal() answers the count it took the first time it was asked.
Sealed(b) ==
  [b EXCEPT !.sealed = IF @ = NotSealed THEN Cardinality(b.registered) ELSE @]

(***************************************************************************)
(* Refusals.  A process names its refusal (CAPTURE_REFUSED) and withdraws  *)
(* its group (GROUP_ABORT); either one turns the capture into a refusal    *)
(* that may still be settled.                                              *)
(***************************************************************************)
DecideRefusal(b) ==
  IF b.phase = "Active"
  THEN [b EXCEPT !.phase = "Refusing", !.settler = NoChannel,
                 !.lapsed = "Refused", !.resumed = {}]
  ELSE b

AbortGroup(b) ==
  IF Mutable(b)
  THEN [b EXCEPT !.phase = "Refusing", !.settler = NoChannel,
                 !.lapsed = "Failed", !.resumed = {}]
  ELSE b

\* The settlement is claimed by the channel that asks first.
RefusalLatched(b, ch) ==
  IF b.phase = "Active"
  THEN [DecideRefusal(b) EXCEPT !.settler = ch]
  ELSE IF b.phase = "Refusing" /\ b.settler = NoChannel
       THEN [b EXCEPT !.settler = ch] ELSE b

HasLatched(b, ch) == b.phase = "Refusing" /\ b.settler = ch

\* A refusal is settled once every other channel has been told to resume.
CanSettle(b, ch) ==
  /\ HasLatched(b, ch)
  /\ ~b.expired
  /\ ~b.irreversible
  /\ b.channels \ {ch} \subseteq b.resumed

Settled(b, ch) ==
  [FinishedAs(b, "Refused") EXCEPT !.channels = @ \ {ch}]

\* A mutant: the broker forgets that something was consumed.
MarkNothing(b) == b

MarkIrreversible(b) == [b EXCEPT !.irreversible = TRUE]

(***************************************************************************)
(* What a process that has finished its own dump must do next.             *)
(***************************************************************************)
Disposition(b) ==
  CASE b.phase = "Active" /\ ~b.expired -> "HOLD"
    [] b.phase = "Publishing"           -> "HOLD"
    [] Published(b)                     -> "EXIT"
    [] OTHER                            -> "RESUME"

\* In a refusal the broker remembers which channel it told to resume.
Answered(b, ch) ==
  IF b.phase = "Refusing" /\ ~b.expired
  THEN [b EXCEPT !.resumed = @ \cup {ch}] ELSE b

(***************************************************************************)
(* A channel of a process ends: the process closed it or died.             *)
(***************************************************************************)
ChannelDropped(b, ch) ==
  LET gone == [b EXCEPT !.channels = @ \ {ch}, !.resumed = @ \ {ch}]
      lost == IF HasLatched(b, ch) THEN Failed(gone, "Failed") ELSE gone
  IN IF lost.channels = {} /\ ~(lost.phase = "Refusing" /\ lost.settler = NoChannel)
     THEN Failed(lost, "Failed") ELSE lost

(***************************************************************************)
(* The host: the deadline passes, the host notices, the broker stops.      *)
(***************************************************************************)
DeadlinePasses ==
  /\ Running(broker) /\ ~broker.expired
  /\ broker' = [broker EXCEPT !.expired = TRUE]

Lapse ==
  /\ broker.up /\ Running(broker) /\ broker.expired
  /\ broker' = Failed(broker, IF broker.phase = "Active" THEN "Deadline" ELSE broker.lapsed)

BrokerStops ==
  /\ broker.up
  /\ broker' = [Interrupted(broker) EXCEPT !.up = FALSE]
=============================================================================
