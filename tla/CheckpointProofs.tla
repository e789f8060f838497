-------------------------- MODULE CheckpointProofs --------------------------
(***************************************************************************)
(* What a capture promises, for every number of processes, shared objects, *)
(* faults and passes and every process tree it may start from: a published *)
(* manifest is exact, the tree stands still while it is published, and a   *)
(* settled refusal gives back a whole tree.                                *)
(*                                                                         *)
(* Every step has one actor at most.  What it may do to any process, its   *)
(* actor or a bystander, is said once (Enrols, Stays, Settles); so is what *)
(* may become of the broker (Onward, Ledger).  The invariant follows from  *)
(* these and from where the coordinator goes.                              *)
(***************************************************************************)
EXTENDS CheckpointCapture, FiniteSetTheorems, TLAPS

Dead == {"zombie", "gone"}
MemberLabels ==
  {"unborn", "guest", "stopped", "announce", "withdraw", "admit", "consume", "park",
   "resumed", "zombie", "gone"}
RootLabels ==
  {"unborn", "guest", "stopped", "announce", "withdraw", "admit", "consume", "resumed",
   "zombie", "gone", "reap", "check", "refuse", "latch", "settle", "seal", "count",
   "commit", "publishing"}

BrokerStates ==
  [up : BOOLEAN, phase : {"Active", "Refusing", "Publishing", "Finished"},
   result : {"none", "ok", "Refused", "Failed", "Deadline"},
   lapsed : {"Refused", "Failed"}, settler : Channels \union {NoChannel},
   channels : SUBSET Channels, resumed : SUBSET Channels,
   irreversible : BOOLEAN, expired : BOOLEAN, registered : SUBSET Procs,
   sealed : Nat \union {NotSealed}, groups : SUBSET Procs, claims : SUBSET Objects]

Types ==
  /\ broker \in BrokerStates
  /\ pc \in [Procs -> RootLabels \union MemberLabels]
  /\ pc[Root] \in RootLabels /\ \A p \in Procs \ {Root} : pc[p] \in MemberLabels
  /\ chan \in [Procs -> [n : Nat, open : BOOLEAN]]
  /\ rc \in [Procs -> {"none", "ok", "refused", "unparked"}]
  /\ fate \in [Procs -> {"none", "quit", "captured", "terminal"}]
  /\ destructive \in [Procs -> BOOLEAN]
  /\ DOMAIN claiming = Procs /\ DOMAIN todo = Procs
  /\ known \subseteq Procs \ {Root} /\ done \subseteq known /\ looking \subseteq known
  /\ asking \in known \union {Outside}
  /\ quiet \in Nat

(***************************************************************************)
(* Membership: whoever is in its dump has registered, and from the moment  *)
(* the counts agreed nobody can register any more.                         *)
(***************************************************************************)
Admitted == {"admit", "consume"}
Agreed == {"commit", "publishing"}
Membership ==
  /\ \A p \in Procs : pc[p] \in Admitted => p \in broker.registered
  /\ broker.groups \subseteq broker.registered
  /\ broker.sealed # NotSealed => broker.sealed = Cardinality(broker.registered)
  /\ pc[Root] = "count" => broker.sealed # NotSealed
  /\ pc[Root] \in Agreed \/ broker.phase = "Publishing" \/ Published(broker) =>
       broker.sealed # NotSealed /\ broker.groups = broker.registered

(***************************************************************************)
(* Freeze: as long as the capture can still be published, a process whose  *)
(* group is in the image is parked and connected, and so stays parked; and *)
(* after a quiet pass that found nobody new nobody is left who could fork. *)
(***************************************************************************)
Works == broker.up /\ (Mutable(broker) \/ broker.phase = "Publishing")
Linked(p) == chan[p].open /\ <<p, chan[p].n>> \in broker.channels
Frozen(p) == pc[p] = "park" /\ p \in broker.groups /\ rc[p] = "ok" /\ Linked(p)
Still == \A p \in Procs \ {Root} : Alive(p) => Frozen(p)
Decided == {"stopped", "admit", "consume", "seal", "count", "commit", "publishing"}
Young == {"unborn", "guest"}
Freeze ==
  /\ pc[Root] \in Young => quiet = 0
  /\ \A p \in known : pc[p] # "unborn"
  /\ broker.phase = "Publishing" => pc[Root] \in {"publishing", "zombie", "gone"}
  /\ Works =>
       /\ \A p \in Procs \ {Root} : p \in broker.groups => Frozen(p) \/ pc[p] \in Dead
       /\ \A p \in done : Frozen(p) \/ pc[p] \in Dead
       /\ pc[Root] = "reap" /\ quiet > 0 => done = known
       /\ pc[Root] = "check" /\ quiet > 0 /\ ~discovered => Still
       /\ pc[Root] \in Decided \/ broker.phase = "Publishing" => Still

(***************************************************************************)
(* Settlement: while nothing was consumed for certain, a process that may  *)
(* have lost something still holds its channel and has not been told to    *)
(* resume; so the broker does not settle.                                  *)
(***************************************************************************)
Refuses == {"announce", "withdraw"}
InOrder(p) ==
  /\ claiming[p] # NoClaim =>
       pc[p] \in {"consume", "zombie", "gone"} /\ claiming[p][1] \in todo[p]
  /\ pc[p] \in Refuses => rc[p] # "ok"
Pending(p) ==
  /\ pc[p] = "consume" /\ Linked(p)
  /\ claiming[p] # NoClaim /\ Kind[claiming[p][1]] # "signalfd"
Spared(p) == fate[p] \in {"none", "quit"}
Recoverable == broker.up /\ Running(broker) /\ ~broker.irreversible
Loyal(p) ==
  /\ destructive[p] /\ Alive(p) => Pending(p)
  /\ p # Root \/ pc[p] \notin Dead => Spared(p)
Given(p) == Spared(p) /\ (Alive(p) => ~destructive[p])
LetGo == {"resumed", "zombie", "gone"}
Settlement ==
  /\ \A p \in Procs : InOrder(p) /\ (destructive[p] => pc[p] # "unborn")
  /\ \A ch \in broker.resumed : pc[ch[1]] \in LetGo
  /\ ~broker.irreversible => (\A o \in drained : Kind[o] = "signalfd") /\ reaped = {}
  /\ Recoverable => \A p \in Procs : Loyal(p)
  /\ pc[Root] = "resumed" =>
       /\ broker.phase = "Finished" /\ broker.result = "Refused" /\ ~broker.irreversible
       /\ \A p \in Procs : Given(p)

IInv == Types /\ Membership /\ Freeze /\ Settlement

-----------------------------------------------------------------------------
(* What a step may do.                                                     *)

(* The broker goes on: a capture that is over stays over, a phase that was *)
(* left does not come back, a member stays a member, and none joins after  *)
(* the seal.                                                               *)
Onward ==
  /\ broker.up \/ ~broker'.up
  /\ broker.phase = "Finished" =>
       /\ broker'.phase = "Finished" /\ broker'.result = broker.result
       /\ broker'.irreversible = broker.irreversible
  /\ broker.phase = "Publishing" => broker'.phase \in {"Publishing", "Finished"}
  /\ broker.phase = "Refusing" => broker'.phase \in {"Refusing", "Finished"}
  /\ broker'.phase = "Publishing" => broker.phase = "Publishing" \/ Mutable(broker)
  /\ broker.expired => broker'.expired
  /\ broker.irreversible => broker'.irreversible
  /\ broker.registered \subseteq broker'.registered
  /\ broker.groups \subseteq broker'.groups
  /\ broker.sealed # NotSealed =>
       broker'.sealed = broker.sealed /\ broker'.registered = broker.registered
  /\ broker'.sealed = broker.sealed \/ broker'.sealed = Cardinality(broker'.registered)

Serving == broker.up /\ broker.phase # "Finished"

(* A process that is not the actor of the step.                            *)
Bystander(q) ==
  /\ pc'[q] = pc[q] \/ (pc[q] = "zombie" /\ pc'[q] = "gone")
  /\ chan'[q] = chan[q] /\ rc'[q] = rc[q] /\ fate'[q] = fate[q]
  /\ destructive'[q] = destructive[q] /\ claiming'[q] = claiming[q] /\ todo'[q] = todo[q]
  /\ q \in broker'.groups => q \in broker.groups
  /\ Linked(q) /\ Alive(q) /\ Serving' => Linked(q)'

(* Any process.                                                            *)
Enrols(q) ==
  /\ pc'[q] \in Admitted => pc[q] \in Admitted \/ q \in broker'.registered
  /\ q \in broker'.groups => q \in broker.groups \/ q \in broker.registered
Stays(q) ==
  /\ pc[q] \in Dead => pc'[q] \in Dead
  /\ pc[q] # "unborn" => pc'[q] # "unborn"
  /\ pc[q] = "unborn" /\ pc'[q] # "unborn" => \E r \in Procs : pc[r] = "guest"
  /\ Works' /\ Frozen(q) => Frozen(q)' \/ pc'[q] \in Dead
  /\ Works' /\ q # Root /\ q \in broker'.groups => q \in broker.groups \/ Frozen(q)'
Settles(q) ==
  /\ pc[q] \in LetGo => pc'[q] \in LetGo
  /\ InOrder(q)' /\ (destructive'[q] => pc'[q] # "unborn")
  /\ Recoverable' => Loyal(q)'
  /\ pc[Root] = "resumed" => Given(q)'

(* What was consumed, and who was told to resume.                          *)
Ledger ==
  /\ \/ broker'.irreversible
     \/ /\ \A o \in drained' : o \in drained \/ Kind[o] = "signalfd"
        /\ reaped' \subseteq reaped
  /\ \A ch \in broker'.resumed : ch \in broker.resumed \/ pc'[ch[1]] \in LetGo

(* A step of process p.                                                    *)
Acts(p) ==
  /\ Types' /\ Onward /\ Ledger
  /\ Enrols(p) /\ Stays(p) /\ Settles(p)
  /\ \A q \in Procs \ {p} : Bystander(q)

LEMMA OnwardWorks ==
  ASSUME Types, Types', Onward
  PROVE  /\ Serving' => Serving
         /\ Works' => Serving'
         /\ Recoverable' => Recoverable /\ Serving'
         /\ Works' => Works
<1>1. /\ broker.phase \in {"Active", "Refusing", "Publishing", "Finished"}
      /\ broker'.phase \in {"Active", "Refusing", "Publishing", "Finished"}
  BY DEF Types, BrokerStates
<1>2. Serving' => Serving
  BY DEF Onward, Serving
<1>3. Works' => Serving'
  BY DEF Serving, Works, Mutable
<1>4. Recoverable' => Recoverable /\ Serving'
  BY <1>1 DEF Onward, Serving, Recoverable, Running
<1>5. Works' => Works
  BY <1>1 DEF Onward, Works, Mutable
<1>. QED BY <1>2, <1>3, <1>4, <1>5

LEMMA BystanderIsFine ==
  ASSUME IInv, Types', Onward, NEW q \in Procs, Bystander(q)
  PROVE  Enrols(q) /\ Stays(q) /\ Settles(q)
<1>0. IInv /\ Types /\ Membership /\ Freeze /\ Settlement
  BY DEF IInv
<1>1. /\ Works' => Serving' /\ Works
      /\ Recoverable' => Recoverable /\ Serving'
  BY <1>0, OnwardWorks
<1>2. Enrols(q)
  BY <1>0 DEF Bystander, Enrols, Admitted, Membership
<1>3. Stays(q)
  <2>1. pc[q] \in Dead => pc'[q] \in Dead
    BY DEF Bystander, Dead
  <2>2. pc[q] # "unborn" <=> pc'[q] # "unborn"
    BY DEF Bystander
  <2>3. ASSUME Works', Frozen(q) PROVE Frozen(q)'
    BY <1>1, <2>3 DEF Bystander, Frozen, Alive, Onward
  <2>. QED BY <2>1, <2>2, <2>3 DEF Stays, Bystander
<1>4. Settles(q)
  <2>1. pc[q] \in LetGo => pc'[q] \in LetGo
    BY DEF Bystander, LetGo
  <2>2. InOrder(q)' /\ (destructive'[q] => pc'[q] # "unborn")
    BY <1>0 DEF Bystander, Settlement, InOrder, Refuses
  <2>3. Alive(q)' => Alive(q) /\ pc'[q] = pc[q]
    BY DEF Bystander, Alive
  <2>4. ASSUME Recoverable' PROVE Loyal(q)'
    <3>1. Loyal(q)
      BY <1>0, <1>1, <2>4 DEF Settlement
    <3>2. Pending(q) /\ Alive(q)' => Pending(q)'
      BY <1>1, <2>3, <2>4 DEF Bystander, Pending
    <3>. QED BY <2>3, <3>1, <3>2 DEF Bystander, Loyal, Spared, Dead
  <2>5. pc[Root] = "resumed" => Given(q)'
    BY <1>0, <2>3 DEF Bystander, Settlement, Given, Spared
  <2>. QED BY <2>1, <2>2, <2>4, <2>5 DEF Settles
<1>. QED BY <1>2, <1>3, <1>4

LEMMA EveryoneIsFine ==
  ASSUME IInv, NEW p \in Procs, Acts(p)
  PROVE  \A q \in Procs : Enrols(q) /\ Stays(q) /\ Settles(q)
  BY BystanderIsFine DEF Acts

Fine == \A q \in Procs : Enrols(q) /\ Stays(q) /\ Settles(q)

(* Nobody moves while nobody is there who could fork.                      *)
LEMMA StillKept ==
  ASSUME Types, Still, Works', Fine, pc[Root] # "guest"
  PROVE  Still'
<1>. SUFFICES ASSUME NEW q \in Procs \ {Root}, Alive(q)' PROVE Frozen(q)'
  BY DEF Still
<1>1. Stays(q)
  BY DEF Fine
<1>2. ASSUME NEW r \in Procs, pc[r] = "guest" PROVE FALSE
  BY <1>2 DEF Still, Alive, Frozen
<1>3. pc[q] # "unborn"
  BY <1>1, <1>2 DEF Stays, Alive
<1>4. pc[q] \notin Dead /\ pc'[q] \notin Dead
  BY <1>1 DEF Stays, Alive, Dead
<1>5. Frozen(q)
  BY <1>3, <1>4 DEF Still, Alive, Dead
<1>. QED BY <1>1, <1>4, <1>5 DEF Stays

(* The first part of the invariant after any step; what remains depends on *)
(* where the coordinator goes.                                             *)
Counts ==
  /\ pc'[Root] = "count" => pc[Root] = "count" \/ broker'.sealed # NotSealed
  /\ pc'[Root] \in Agreed \/ broker'.phase = "Publishing" \/ Published(broker') =>
       \/ pc[Root] \in Agreed \/ broker.phase = "Publishing" \/ Published(broker)
       \/ pc[Root] = "count" /\ CountsAgree /\ broker'.groups = broker.groups
LEMMA MembershipKept ==
  ASSUME IInv, Types', Onward, Fine, Counts
  PROVE  Membership'
<1>. USE DEF IInv
<1>1. ASSUME NEW p \in Procs, pc'[p] \in Admitted PROVE p \in broker'.registered
  BY <1>1 DEF Fine, Enrols, Membership, Onward
<1>2. broker'.groups \subseteq broker'.registered
  BY DEF Fine, Enrols, Membership, Onward, Types, BrokerStates
<1>3. broker'.sealed # NotSealed => broker'.sealed = Cardinality(broker'.registered)
  BY DEF Onward, Membership
<1>4. pc'[Root] = "count" => broker'.sealed # NotSealed
  BY DEF Counts, Onward, Membership
<1>5. ASSUME pc'[Root] \in Agreed \/ broker'.phase = "Publishing" \/ Published(broker')
      PROVE  broker'.sealed # NotSealed /\ broker'.groups = broker'.registered
  <2>1. CASE pc[Root] \in Agreed \/ broker.phase = "Publishing" \/ Published(broker)
    BY <2>1, <1>2 DEF Membership, Onward
  <2>2. CASE pc[Root] = "count" /\ CountsAgree /\ broker'.groups = broker.groups
    <3>1. IsFiniteSet(broker.registered) /\ broker.groups \in SUBSET broker.registered
      BY FS_Subset, CaptureAssumption DEF Membership, Types, BrokerStates, CaptureAssumption
    <3>2. broker.sealed # NotSealed /\ Cardinality(broker.registered) = Cardinality(broker.groups)
      BY <2>2 DEF Membership, CountsAgree
    <3>3. broker.registered = broker.groups
      BY <3>1, <3>2, FS_Subset
    <3>. QED BY <2>2, <3>2, <3>3 DEF Onward
  <2>. QED BY <1>5, <2>1, <2>2 DEF Counts
<1>. QED BY <1>1, <1>2, <1>3, <1>4, <1>5 DEF Membership

(* The parts that speak of one process.                                    *)
LEMMA PlacesKept ==
  ASSUME IInv, Types', Onward, Fine
  PROVE  /\ \A p \in known : pc'[p] # "unborn"
         /\ Works' =>
              /\ \A p \in Procs \ {Root} : p \in broker'.groups => Frozen(p)' \/ pc'[p] \in Dead
              /\ \A p \in done : Frozen(p)' \/ pc'[p] \in Dead
<1>. USE DEF IInv
<1>1. Works' => Works
  BY OnwardWorks
<1>2. \A p \in known : p \in Procs /\ pc'[p] # "unborn"
  BY DEF Types, Freeze, Fine, Stays
<1>3. ASSUME Works', NEW p \in Procs \ {Root}, p \in broker'.groups
      PROVE  Frozen(p)' \/ pc'[p] \in Dead
  BY <1>1, <1>3 DEF Freeze, Fine, Stays
<1>4. ASSUME Works', NEW p \in done PROVE Frozen(p)' \/ pc'[p] \in Dead
  BY <1>1, <1>4 DEF Types, Freeze, Fine, Stays
<1>. QED BY <1>2, <1>3, <1>4

LEMMA SettlementKept ==
  ASSUME IInv, Types', Onward, Ledger, Fine, pc'[Root] = "resumed" => pc[Root] = "resumed"
  PROVE  Settlement'
<1>. USE DEF IInv
<1>1. \A p \in Procs : InOrder(p)' /\ (destructive'[p] => pc'[p] # "unborn")
  BY DEF Fine, Settles
<1>2. ASSUME NEW ch \in broker'.resumed PROVE pc'[ch[1]] \in LetGo
  <2>1. ch[1] \in Procs
    BY <1>2 DEF Types, BrokerStates, Channels
  <2>. QED BY <2>1 DEF Ledger, Settlement, Fine, Settles
<1>3. ~broker'.irreversible => (\A o \in drained' : Kind[o] = "signalfd") /\ reaped' = {}
  BY DEF Onward, Ledger, Settlement
<1>4. Recoverable' => \A p \in Procs : Loyal(p)'
  BY DEF Fine, Settles
<1>5. ASSUME pc'[Root] = "resumed"
      PROVE  /\ broker'.phase = "Finished" /\ broker'.result = "Refused" /\ ~broker'.irreversible
             /\ \A p \in Procs : Given(p)'
  BY <1>5 DEF Onward, Settlement, Fine, Settles
<1>. QED BY <1>1, <1>2, <1>3, <1>4, <1>5 DEF Settlement

(* A step that does not end a part of the coordinator's loop.              *)
Goes ==
  /\ UNCHANGED <<known, quiet, discovered>> /\ done \subseteq done'
  /\ Works => \A p \in done' \ done : Frozen(p) \/ pc[p] \in Dead
  /\ pc'[Root] \in {"reap", "check", "resumed"} => pc'[Root] = pc[Root]
  /\ pc'[Root] \in Young => pc[Root] \in Young
  /\ pc'[Root] \in Decided => pc[Root] \in Decided
  /\ broker'.phase = "Publishing" =>
       /\ pc'[Root] \in {"publishing", "zombie", "gone"}
       /\ broker.phase = "Publishing" \/ pc[Root] \in Decided

LEMMA GoesKept ==
  ASSUME IInv, Types', Onward, Ledger, Fine, Goes, Counts
  PROVE  IInv'
<1>. USE DEF IInv
<1>1. Membership'
  BY MembershipKept
<1>2. Settlement'
  BY SettlementKept DEF Goes
<1>3. Freeze'
  <2>1. Works' => Works
    BY OnwardWorks
  <2>2. /\ \A p \in known' : pc'[p] # "unborn"
        /\ Works' =>
             /\ \A p \in Procs \ {Root} : p \in broker'.groups => Frozen(p)' \/ pc'[p] \in Dead
             /\ \A p \in done : Frozen(p)' \/ pc'[p] \in Dead
    BY PlacesKept DEF Goes
  <2>3. ASSUME Works', NEW p \in done' PROVE Frozen(p)' \/ pc'[p] \in Dead
    <3>1. p \in Procs /\ (p \in done \/ Frozen(p) \/ pc[p] \in Dead)
      BY <2>1, <2>3 DEF Goes, Types
    <3>. QED BY <2>2, <2>3, <3>1 DEF Fine, Stays
  <2>4. ASSUME Works', pc'[Root] = "check" /\ quiet' > 0 /\ ~discovered' PROVE Still'
    <3>1. Still /\ pc[Root] # "guest"
      BY <2>1, <2>4 DEF Goes, Freeze
    <3>. QED BY <2>4, <3>1, StillKept
  <2>5. ASSUME Works', pc'[Root] \in Decided \/ broker'.phase = "Publishing" PROVE Still'
    <3>1. Still /\ pc[Root] # "guest"
      BY <2>1, <2>5 DEF Goes, Freeze, Decided
    <3>. QED BY <2>5, <3>1, StillKept
  <2>6. Works' /\ pc'[Root] = "reap" /\ quiet' > 0 => done' = known'
    BY <2>1 DEF Goes, Freeze, Types
  <2>. QED BY <2>2, <2>3, <2>4, <2>5, <2>6 DEF Freeze, Goes
<1>. QED BY <1>1, <1>2, <1>3

(* A step outside the coordinator's loop and its decisions.                *)
Coasts ==
  /\ UNCHANGED <<known, done, quiet, discovered>>
  /\ pc'[Root] \in {"reap", "check", "count", "resumed", "commit", "publishing"}
       => pc'[Root] = pc[Root]
  /\ pc'[Root] \in Young => pc[Root] \in Young
  /\ pc'[Root] \in Decided => pc[Root] \in Decided
  /\ pc[Root] = "publishing" => pc'[Root] \in {"publishing", "zombie", "gone"}
  /\ broker'.phase = "Publishing" => broker.phase = "Publishing"
  /\ Published(broker') => Published(broker) \/ broker.phase = "Publishing"

LEMMA CoastKept ==
  ASSUME IInv, Types', Onward, Ledger, Fine, Coasts
  PROVE  IInv'
<1>1. Counts
  BY DEF Counts, Coasts, Agreed
<1>2. pc[Root] \in Dead => pc'[Root] \in Dead
  BY CaptureAssumption DEF Fine, Stays, CaptureAssumption
<1>3. Goes
  BY <1>2 DEF Goes, Coasts, IInv, Freeze, Dead
<1>. QED BY <1>1, <1>3, GoesKept

-----------------------------------------------------------------------------
(* Channels and actors.                                                    *)

ChanType == chan \in [Procs -> [n : Nat, open : BOOLEAN]]

(* A call that is answered leaves the caller connected.                    *)
LEMMA CallShape ==
  ASSUME Types, NEW p \in Procs, NEW b, Call(p, b),
         b.channels = broker.channels \union {Ch(p)}
  PROVE  /\ ChanType' /\ Linked(p)' /\ broker' = b
         /\ \A q \in Procs \ {p} : chan'[q] = chan[q] /\ (Linked(q) => Linked(q)')
<1>1. chan[p].n \in Nat
  BY DEF Types
<1>2. Ch(p)[2] \in Nat /\ Ch(p) = <<p, Ch(p)[2]>>
  BY <1>1 DEF Ch
<1>3. /\ chan' = [chan EXCEPT ![p] = [n |-> Ch(p)[2], open |-> TRUE]] /\ broker' = b
  BY DEF Call, Connected
<1>4. ChanType'
  BY <1>2, <1>3 DEF Types, ChanType
<1>5. chan'[p].open /\ chan'[p].n = Ch(p)[2]
  BY <1>3 DEF Types
<1>6. Linked(p)'
  BY <1>2, <1>3, <1>5 DEF Linked
<1>7. \A q \in Procs \ {p} : chan'[q] = chan[q]
  BY <1>3 DEF Types
<1>. QED BY <1>3, <1>4, <1>6, <1>7 DEF Linked

LEMMA ConnectShape ==
  ASSUME Types, NEW p \in Procs, chan' = Connected(p)
  PROVE  ChanType' /\ \A q \in Procs \ {p} : chan'[q] = chan[q]
<1>1. Ch(p)[2] \in Nat
  BY DEF Ch, Types
<1>. QED BY <1>1 DEF Connected, Types, ChanType

(* A channel is forgotten.                                                 *)
LEMMA PoisonShape ==
  ASSUME Types, NEW p \in Procs, chan' = Poisoned(p)
  PROVE  /\ ChanType'
         /\ \A q \in Procs \ {p} : chan'[q] = chan[q]
  BY DEF Types, ChanType, Poisoned

LEMMA BrokenShape ==
  ASSUME Types, NEW p \in Procs, Broken(p)
  PROVE  /\ ChanType' /\ broker' = broker /\ ~(broker.up /\ Linked(p))
         /\ \A q \in Procs \ {p} : chan'[q] = chan[q] /\ (Linked(q) => Linked(q)')
<1>1. ChanType' /\ \A q \in Procs \ {p} : chan'[q] = chan[q]
  BY PoisonShape DEF Broken
<1>2. ~(broker.up /\ Linked(p)) /\ broker' = broker
  BY DEF Broken, Reaches, Linked, Ch
<1>. QED BY <1>1, <1>2 DEF Linked

LEMMA JoinedShape ==
  ASSUME Types, NEW p \in Procs
  PROVE  /\ Joined(p) = [broker EXCEPT !.channels = broker.channels \union {Ch(p)}]
         /\ Joined(p) \in BrokerStates
         /\ Joined(p).channels = broker.channels \union {Ch(p)}
<1>1. Ch(p) \in Channels
  BY DEF Types, Ch, Channels
<1>. QED BY <1>1 DEF Joined, Types, BrokerStates

(* An actor that is not parked and claims nothing, and goes on.            *)
Busy(p) ==
  /\ pc[p] \notin {"park", "unborn", "zombie", "gone", "resumed"}
  /\ pc[p] = "consume" => claiming[p] = NoClaim
LEMMA BusyActor ==
  ASSUME IInv, Types', NEW p \in Procs, Busy(p), pc'[p] # "unborn", Alive(p)',
         Recoverable' => Recoverable,
         \/ destructive'[p] = destructive[p]
         \/ broker'.irreversible /\ pc[Root] # "resumed",
         claiming'[p] = claiming[p], fate'[p] = fate[p],
         p \in broker'.groups => p \in broker.groups, pc'[p] \in Refuses => rc'[p] # "ok"
  PROVE  Stays(p) /\ Settles(p)
<1>. USE DEF IInv
<1>1. Stays(p)
  BY DEF Stays, Busy, Dead, Frozen, Works
<1>2. Alive(p)
  BY DEF Busy, Alive
<1>3. claiming[p] = NoClaim
  BY DEF Settlement, InOrder, Busy
<1>4. Recoverable => ~destructive[p] /\ Spared(p)
  BY <1>2 DEF Settlement, Loyal, Pending, Busy, Dead
<1>5. Recoverable' => Loyal(p)'
  BY <1>4 DEF Loyal, Spared, Recoverable
<1>6. pc[Root] = "resumed" => Given(p)'
  BY <1>2 DEF Settlement, Given, Spared
<1>7. InOrder(p)'
  BY <1>3 DEF InOrder
<1>. QED BY <1>1, <1>5, <1>6, <1>7 DEF Settles, Busy, LetGo

(* An actor that dies, of itself or by the capture.                        *)
LEMMA DyingActor ==
  ASSUME IInv, Types', NEW p \in Procs, Alive(p), pc'[p] \in Dead,
         claiming'[p] = claiming[p], todo'[p] = todo[p],
         Recoverable' /\ p # Root => Spared(p)',
         pc[Root] = "resumed" => Spared(p)',
         p \in broker'.groups => p \in broker.groups
  PROVE  Stays(p) /\ Settles(p)
<1>. USE DEF IInv
<1>1. pc'[p] \notin {"unborn", "consume", "park"} /\ ~Alive(p)'
  BY DEF Dead, Alive
<1>2. Stays(p)
  BY <1>1 DEF Stays, Alive
<1>3. InOrder(p)'
  BY DEF Settlement, InOrder, Dead, Refuses
<1>4. Recoverable' => Loyal(p)'
  BY <1>1 DEF Loyal
<1>5. pc[Root] = "resumed" => Given(p)'
  BY <1>1 DEF Given
<1>. QED BY <1>1, <1>2, <1>3, <1>4, <1>5 DEF Settles, LetGo, Dead

(* The end of a process takes zombies of the init with it.                 *)
LEMMA EndsShape ==
  ASSUME Types, NEW p \in Procs, NEW why \in {"quit", "captured", "terminal"}, Ends(p, why)
  PROVE  /\ pc' \in [Procs -> RootLabels \union MemberLabels]
         /\ pc'[Root] \in RootLabels /\ \A q \in Procs \ {Root} : pc'[q] \in MemberLabels
         /\ pc'[p] \in Dead
         /\ \A q \in Procs \ {p} : pc'[q] = pc[q] \/ (pc[q] = "zombie" /\ pc'[q] = "gone")
         /\ fate' \in [Procs -> {"none", "quit", "captured", "terminal"}]
         /\ fate'[p] = why /\ \A q \in Procs \ {p} : fate'[q] = fate[q]
<1>1. /\ pc' = [q \in Procs |->
              IF q = p THEN (IF parent[p] = Outside THEN "gone" ELSE "zombie")
              ELSE IF p = Root /\ parent[q] = Root /\ pc[q] = "zombie" THEN "gone" ELSE pc[q]]
      /\ fate' = [fate EXCEPT ![p] = why]
  BY DEF Ends
<1>2. Root \in Procs
  BY CaptureAssumption DEF CaptureAssumption
<1>3. pc'[p] \in Dead
  BY <1>1 DEF Dead
<1>4. \A q \in Procs \ {p} : pc'[q] = pc[q] \/ (pc[q] = "zombie" /\ pc'[q] = "gone")
  BY <1>1
<1>5. pc' \in [Procs -> RootLabels \union MemberLabels]
  BY <1>1 DEF Types, RootLabels, MemberLabels
<1>6. \A q \in Procs \ {Root} : pc'[q] \in MemberLabels
  BY <1>3, <1>4 DEF Types, MemberLabels, Dead
<1>7. pc'[Root] \in RootLabels
  BY <1>2, <1>3, <1>4 DEF Types, RootLabels, Dead
<1>8. /\ fate' \in [Procs -> {"none", "quit", "captured", "terminal"}]
      /\ fate'[p] = why /\ \A q \in Procs \ {p} : fate'[q] = fate[q]
  BY <1>1 DEF Types
<1>. QED BY <1>3, <1>4, <1>5, <1>6, <1>7, <1>8

-----------------------------------------------------------------------------
(* The broker after each request of process p.                             *)

(* The broker goes on, keeps the channels of the others, and the image     *)
(* grows by p at most.                                                     *)
Served(p) ==
  /\ broker' \in BrokerStates /\ Onward
  /\ Serving' => broker.channels \ {Ch(p)} \subseteq broker'.channels
  /\ broker'.groups \subseteq broker.groups \union {p}
(* Nothing else happens in it.                                             *)
Quietly ==
  /\ broker'.groups = broker.groups /\ broker'.resumed \subseteq broker.resumed
  /\ broker'.sealed = broker.sealed
  /\ broker'.phase = "Publishing" => broker.phase = "Publishing"
  /\ Published(broker') => Published(broker)

LEMMA ServedNothing ==
  ASSUME Types, NEW p \in Procs, broker' = broker \/ broker' = Joined(p)
  PROVE  Served(p) /\ Quietly
<1>1. CASE broker' = broker
  BY <1>1 DEF Served, Quietly, Onward, Types
<1>2. CASE broker' = Joined(p)
  BY <1>2, JoinedShape DEF Served, Quietly, Onward, Types, BrokerStates, Mutable, Published
<1>. QED BY <1>1, <1>2

(* Two states of the broker that differ in phase, channels and answers.    *)
Alike(b, c) ==
  /\ c.up = b.up /\ c.irreversible = b.irreversible /\ c.expired = b.expired
  /\ c.registered = b.registered /\ c.sealed = b.sealed /\ c.groups = b.groups
LEMMA AbortShape ==
  ASSUME NEW b \in BrokerStates
  PROVE  /\ AbortGroup(b) \in BrokerStates /\ Alike(b, AbortGroup(b))
         /\ AbortGroup(b).channels = b.channels /\ AbortGroup(b).resumed \subseteq b.resumed
         /\ AbortGroup(b).phase = IF Mutable(b) THEN "Refusing" ELSE b.phase
         /\ AbortGroup(b).result = b.result
  BY DEF BrokerStates, AbortGroup, Alike

LEMMA RegisterShape ==
  ASSUME NEW b \in BrokerStates, NEW p \in Procs
  PROVE  /\ Registered(b, p) \in BrokerStates
         /\ Registered(b, p) = [b EXCEPT !.registered = b.registered \union {p}]
  BY DEF BrokerStates, Registered

LEMMA DecideShape ==
  ASSUME NEW b \in BrokerStates
  PROVE  /\ DecideRefusal(b) \in BrokerStates /\ Alike(b, DecideRefusal(b))
         /\ DecideRefusal(b).channels = b.channels /\ DecideRefusal(b).resumed \subseteq b.resumed
         /\ DecideRefusal(b).phase = IF b.phase = "Active" THEN "Refusing" ELSE b.phase
         /\ DecideRefusal(b).result = b.result
  BY DEF BrokerStates, DecideRefusal, Alike

LEMMA LatchShape ==
  ASSUME NEW b \in BrokerStates, NEW ch \in Channels
  PROVE  /\ RefusalLatched(b, ch) \in BrokerStates /\ Alike(b, RefusalLatched(b, ch))
         /\ RefusalLatched(b, ch).channels = b.channels
         /\ RefusalLatched(b, ch).resumed \subseteq b.resumed
         /\ RefusalLatched(b, ch).phase = IF b.phase = "Active" THEN "Refusing" ELSE b.phase
         /\ RefusalLatched(b, ch).result = b.result
<1>1. CASE b.phase = "Active"
  <2>1. DecideRefusal(b) \in BrokerStates
    BY DecideShape
  <2>2. RefusalLatched(b, ch) = [DecideRefusal(b) EXCEPT !.settler = ch]
    BY <1>1 DEF RefusalLatched
  <2>. QED BY <1>1, <2>1, <2>2, DecideShape DEF BrokerStates, Alike
<1>2. CASE b.phase # "Active"
  BY <1>2 DEF BrokerStates, RefusalLatched, Alike
<1>. QED BY <1>1, <1>2

LEMMA FailedShape ==
  ASSUME NEW b \in BrokerStates, NEW r \in {"Refused", "Failed", "Deadline"}
  PROVE  /\ Failed(b, r) \in BrokerStates /\ Alike(b, Failed(b, r))
         /\ Failed(b, r).resumed \subseteq b.resumed
         /\ Running(b) => Failed(b, r).phase = "Finished" /\ Failed(b, r).result = r
         /\ ~Running(b) => Failed(b, r) = b
<1>1. CASE Running(b)
  <2>1. Failed(b, r) = [b EXCEPT !.phase = "Finished", !.result = r, !.channels = {}, !.resumed = {}]
    BY <1>1 DEF Failed, Interrupted, FinishedAs
  <2>. QED BY <1>1, <2>1 DEF BrokerStates, Alike
<1>2. CASE ~Running(b)
  BY <1>2 DEF Failed, Alike
<1>. QED BY <1>1, <1>2

LEMMA DropShape ==
  ASSUME NEW b \in BrokerStates, NEW ch \in Channels
  PROVE  LET c == ChannelDropped(b, ch) IN
         /\ c \in BrokerStates /\ Alike(b, c) /\ c.resumed \subseteq b.resumed
         /\ \/ c.phase = b.phase /\ c.result = b.result /\ c.channels = b.channels \ {ch}
            \/ Running(b) /\ c.phase = "Finished" /\ c.result = "Failed"
<1>. DEFINE gone == [b EXCEPT !.channels = b.channels \ {ch}, !.resumed = b.resumed \ {ch}]
            lost == IF HasLatched(b, ch) THEN Failed(gone, "Failed") ELSE gone
            c == ChannelDropped(b, ch)
            fine(d) == /\ d \in BrokerStates /\ Alike(b, d) /\ d.resumed \subseteq b.resumed
                       /\ \/ d.phase = b.phase /\ d.result = b.result
                             /\ d.channels = b.channels \ {ch}
                          \/ Running(b) /\ d.phase = "Finished" /\ d.result = "Failed"
<1>1. fine(gone)
  BY DEF BrokerStates, Alike
<1>2. ASSUME NEW d, fine(d) PROVE fine(Failed(d, "Failed"))
  BY <1>2, FailedShape DEF Alike, Running
<1>3. fine(lost)
  <2>1. fine(Failed(gone, "Failed"))
    BY <1>1, <1>2
  <2>. QED BY <1>1, <2>1
<1>4. c = lost \/ c = Failed(lost, "Failed")
  BY DEF ChannelDropped
<1>5. fine(c)
  <2>1. fine(Failed(lost, "Failed"))
    BY <1>2, <1>3
  <2>. HIDE DEF lost, c, fine
  <2>. QED BY <1>3, <1>4, <2>1
<1>. QED BY <1>5

LEMMA AnswerShape ==
  ASSUME NEW b \in BrokerStates, NEW ch \in Channels
  PROVE  /\ Answered(b, ch) \in BrokerStates
         /\ Answered(b, ch) = [b EXCEPT !.resumed =
              IF b.phase = "Refusing" /\ ~b.expired THEN b.resumed \union {ch} ELSE b.resumed]
<1>1. CASE b.phase = "Refusing" /\ ~b.expired
  BY <1>1 DEF BrokerStates, Answered
<1>2. CASE ~(b.phase = "Refusing" /\ ~b.expired)
  BY <1>2 DEF BrokerStates, Answered
<1>. QED BY <1>1, <1>2

LEMMA AlikeGoes ==
  ASSUME Types, broker' \in BrokerStates, Alike(broker, broker'),
         broker'.resumed \subseteq broker.resumed,
         \/ broker'.phase = broker.phase /\ broker'.result = broker.result
         \/ /\ Running(broker) /\ broker'.phase \in {"Refusing", "Finished"}
            /\ broker'.phase = "Finished" => broker'.result # "ok"
  PROVE  Onward /\ Quietly
<1>1. broker.phase \in {"Active", "Refusing", "Publishing", "Finished"}
  BY DEF Types, BrokerStates
<1>2. Quietly
  BY DEF Alike, Quietly, Published
<1>3. Onward
  BY <1>1 DEF Alike, Onward, Running
<1>. QED BY <1>2, <1>3

(* The first call of a process, or one over its channel.                   *)
LEMMA Joins ==
  ASSUME Types, NEW p \in Procs
  PROVE  /\ Joined(p) \in BrokerStates /\ Joined(p).channels = broker.channels \union {Ch(p)}
         /\ Alike(broker, Joined(p)) /\ Joined(p).resumed = broker.resumed
         /\ Joined(p).phase = broker.phase /\ Joined(p).result = broker.result
         /\ Ch(p) \in Channels
  BY JoinedShape DEF Types, BrokerStates, Alike, Ch, Channels

LEMMA ServedRegister ==
  ASSUME Types, NEW p \in Procs, broker' = Registered(Joined(p), p), CanRegister(broker, p)
  PROVE  Served(p) /\ Quietly /\ p \in broker'.registered
<1>. DEFINE j == Joined(p)
<1>1. /\ j \in BrokerStates /\ j.channels = broker.channels \union {Ch(p)} /\ Alike(broker, j)
      /\ j.resumed = broker.resumed /\ j.phase = broker.phase /\ j.result = broker.result
  BY Joins
<1>2. broker' \in BrokerStates /\ broker' = [j EXCEPT !.registered = j.registered \union {p}]
  BY <1>1, RegisterShape
<1>. HIDE DEF j
<1>3. /\ broker'.registered = j.registered \union {p} /\ broker'.channels = j.channels
      /\ broker'.resumed = j.resumed /\ broker'.phase = j.phase /\ broker'.result = j.result
      /\ broker'.up = j.up /\ broker'.irreversible = j.irreversible
      /\ broker'.expired = j.expired /\ broker'.sealed = j.sealed /\ broker'.groups = j.groups
  BY <1>1, <1>2 DEF BrokerStates
<1>. QED BY <1>1, <1>2, <1>3 DEF Served, Quietly, Onward, Published, CanRegister, Alike

LEMMA ServedAbort ==
  ASSUME Types, NEW p \in Procs, broker' = AbortGroup(Joined(p))
  PROVE  Served(p) /\ Quietly
         /\ AbortGroup(Joined(p)).channels = broker.channels \union {Ch(p)}
<1>. DEFINE j == Joined(p)
<1>1. /\ j \in BrokerStates /\ j.channels = broker.channels \union {Ch(p)} /\ Alike(broker, j)
      /\ j.resumed = broker.resumed /\ j.phase = broker.phase /\ j.result = broker.result
  BY Joins
<1>. HIDE DEF j
<1>2. /\ broker' \in BrokerStates /\ Alike(broker, broker')
      /\ broker'.channels = j.channels /\ broker'.resumed \subseteq j.resumed
      /\ broker'.phase = IF Mutable(j) THEN "Refusing" ELSE j.phase
      /\ broker'.result = j.result
  BY <1>1, AbortShape DEF Alike, j
<1>3. Onward /\ Quietly
  BY <1>1, <1>2, AlikeGoes DEF Mutable, Running
<1>. QED BY <1>1, <1>2, <1>3 DEF Served, Alike

LEMMA ServedDrop ==
  ASSUME Types, NEW p \in Procs, broker' = ChannelDropped(Joined(p), Ch(p))
  PROVE  Served(p) /\ Quietly
<1>. DEFINE j == Joined(p)
<1>1. /\ j \in BrokerStates /\ j.channels = broker.channels \union {Ch(p)} /\ Alike(broker, j)
      /\ j.resumed = broker.resumed /\ j.phase = broker.phase /\ j.result = broker.result
      /\ Ch(p) \in Channels
  BY Joins
<1>. HIDE DEF j
<1>2. /\ broker' \in BrokerStates /\ Alike(j, broker') /\ broker'.resumed \subseteq j.resumed
      /\ \/ /\ broker'.phase = j.phase /\ broker'.result = j.result
            /\ broker'.channels = j.channels \ {Ch(p)}
         \/ Running(j) /\ broker'.phase = "Finished" /\ broker'.result = "Failed"
  BY <1>1, DropShape DEF j
<1>3. Onward /\ Quietly
  BY <1>1, <1>2, AlikeGoes DEF Alike, Running
<1>. QED BY <1>1, <1>2, <1>3 DEF Served, Alike, Serving

LEMMA ClaimShape ==
  ASSUME NEW b \in BrokerStates, NEW x \in Objects
  PROVE  LET c == [b EXCEPT !.claims = @ \union {x}] IN
         /\ c \in BrokerStates /\ c.claims = b.claims \union {x}
         /\ c.channels = b.channels /\ c.resumed = b.resumed /\ c.phase = b.phase
         /\ c.result = b.result /\ c.up = b.up /\ c.irreversible = b.irreversible
         /\ c.expired = b.expired /\ c.registered = b.registered
         /\ c.sealed = b.sealed /\ c.groups = b.groups
  BY DEF BrokerStates

(* An object is claimed.                                                   *)
LEMMA ServedClaim ==
  ASSUME Types, NEW p \in Procs, NEW o \in Objects,
         broker' = [Joined(p) EXCEPT !.claims = @ \union {o}]
  PROVE  Served(p) /\ Quietly
<1>. DEFINE j == Joined(p)
<1>1. /\ j \in BrokerStates /\ j.channels = broker.channels \union {Ch(p)} /\ Alike(broker, j)
      /\ j.resumed = broker.resumed /\ j.phase = broker.phase /\ j.result = broker.result
      /\ Ch(p) \in Channels
  BY Joins
<1>. HIDE DEF j
<1>2. /\ broker'.channels = j.channels /\ broker'.resumed = j.resumed /\ broker'.phase = j.phase
      /\ broker'.result = j.result /\ broker'.up = j.up /\ broker'.irreversible = j.irreversible
      /\ broker'.expired = j.expired /\ broker'.registered = j.registered /\ broker'.sealed = j.sealed
      /\ broker'.groups = j.groups
      /\ broker' \in BrokerStates
  BY <1>1, ClaimShape DEF j
<1>. QED BY <1>1, <1>2 DEF Served, Quietly, Onward, Published, Alike

(* Something is about to be consumed.                                      *)
LEMMA ServedMark ==
  ASSUME Types, NEW p \in Procs, broker' = MarkIrreversible(Joined(p)), Running(broker)
  PROVE  Served(p) /\ Quietly /\ broker'.irreversible
<1>. DEFINE j == Joined(p)
<1>1. /\ j \in BrokerStates /\ j.channels = broker.channels \union {Ch(p)} /\ Alike(broker, j)
      /\ j.resumed = broker.resumed /\ j.phase = broker.phase /\ j.result = broker.result
      /\ Ch(p) \in Channels
  BY Joins
<1>2. broker' = [j EXCEPT !.irreversible = TRUE]
  BY DEF MarkIrreversible
<1>. HIDE DEF j
<1>3. /\ broker'.channels = j.channels /\ broker'.resumed = j.resumed /\ broker'.phase = j.phase
      /\ broker'.result = j.result /\ broker'.up = j.up /\ broker'.expired = j.expired
      /\ broker'.registered = j.registered /\ broker'.sealed = j.sealed /\ broker'.groups = j.groups
      /\ broker'.irreversible = TRUE
      /\ broker' \in BrokerStates
  BY <1>1, <1>2 DEF BrokerStates
<1>. QED BY <1>1, <1>2, <1>3 DEF Served, Quietly, Onward, Published, Alike, Running

LEMMA GroupShape ==
  ASSUME NEW b \in BrokerStates, NEW x \in Procs
  PROVE  LET c == [b EXCEPT !.groups = @ \union {x}] IN
         /\ c \in BrokerStates /\ c.groups = b.groups \union {x}
         /\ c.channels = b.channels /\ c.resumed = b.resumed /\ c.phase = b.phase
         /\ c.result = b.result /\ c.up = b.up /\ c.irreversible = b.irreversible
         /\ c.expired = b.expired /\ c.registered = b.registered
         /\ c.sealed = b.sealed
  BY DEF BrokerStates

(* A group is committed.                                                   *)
LEMMA ServedGroup ==
  ASSUME Types, NEW p \in Procs, Mutable(broker),
         broker' = [Joined(p) EXCEPT !.groups = @ \union {p}]
  PROVE  /\ Served(p) /\ broker'.resumed = broker.resumed /\ p \in broker'.groups
         /\ broker'.phase = broker.phase /\ broker'.expired = broker.expired
         /\ broker'.sealed = broker.sealed
<1>. DEFINE j == Joined(p)
<1>1. /\ j \in BrokerStates /\ j.channels = broker.channels \union {Ch(p)} /\ Alike(broker, j)
      /\ j.resumed = broker.resumed /\ j.phase = broker.phase /\ j.result = broker.result
      /\ Ch(p) \in Channels
  BY Joins
<1>. HIDE DEF j
<1>2. /\ broker'.channels = j.channels /\ broker'.resumed = j.resumed /\ broker'.phase = j.phase
      /\ broker'.result = j.result /\ broker'.up = j.up /\ broker'.irreversible = j.irreversible
      /\ broker'.expired = j.expired /\ broker'.registered = j.registered /\ broker'.sealed = j.sealed
      /\ broker'.groups = j.groups \union {p}
      /\ broker' \in BrokerStates
  BY <1>1, GroupShape DEF j
<1>. QED BY <1>1, <1>2 DEF Served, Quietly, Onward, Published, Alike, Mutable

(* A parked process asks what to do.                                       *)
LEMMA ServedAnswer ==
  ASSUME Types, NEW p \in Procs, broker' = Answered(Joined(p), Ch(p))
  PROVE  /\ Served(p) /\ broker'.groups = broker.groups /\ broker'.phase = broker.phase
         /\ broker'.result = broker.result /\ broker'.expired = broker.expired
         /\ broker'.sealed = broker.sealed /\ broker'.irreversible = broker.irreversible
         /\ broker'.up = broker.up
         /\ \A ch \in broker'.resumed :
              ch \in broker.resumed \/ (ch = Ch(p) /\ broker.phase = "Refusing" /\ ~broker.expired)
         /\ broker'.channels = broker.channels \union {Ch(p)}
<1>. DEFINE j == Joined(p)
<1>1. /\ j \in BrokerStates /\ j.channels = broker.channels \union {Ch(p)} /\ Alike(broker, j)
      /\ j.resumed = broker.resumed /\ j.phase = broker.phase /\ j.result = broker.result
      /\ Ch(p) \in Channels
  BY Joins
<1>2. broker' = [j EXCEPT !.resumed =
        IF j.phase = "Refusing" /\ ~j.expired THEN j.resumed \union {Ch(p)} ELSE j.resumed]
  BY <1>1, AnswerShape
<1>. HIDE DEF j
<1>3. /\ broker'.channels = j.channels /\ broker'.phase = j.phase /\ broker'.result = j.result
      /\ broker'.up = j.up /\ broker'.irreversible = j.irreversible /\ broker'.expired = j.expired
      /\ broker'.registered = j.registered /\ broker'.sealed = j.sealed /\ broker'.groups = j.groups
      /\ broker'.resumed = IF j.phase = "Refusing" /\ ~j.expired THEN j.resumed \union {Ch(p)} ELSE j.resumed
      /\ broker' \in BrokerStates
  BY <1>1, <1>2 DEF BrokerStates
<1>. QED BY <1>1, <1>2, <1>3 DEF Served, Quietly, Onward, Published, Alike

-----------------------------------------------------------------------------
(* Steps of one process.                                                   *)

(* Only process p moves.                                                   *)
Moves(p) ==
  /\ pc' \in [Procs -> RootLabels \union MemberLabels]
  /\ p = Root => pc'[p] \in RootLabels
  /\ p # Root => pc'[p] \in MemberLabels
  /\ ChanType'
  /\ rc' \in [Procs -> {"none", "ok", "refused", "unparked"}]
  /\ fate' \in [Procs -> {"none", "quit", "captured", "terminal"}]
  /\ destructive' \in [Procs -> BOOLEAN]
  /\ DOMAIN claiming' = Procs /\ DOMAIN todo' = Procs
  /\ \A q \in Procs \ {p} :
       /\ pc'[q] = pc[q] \/ (pc[q] = "zombie" /\ pc'[q] = "gone")
       /\ chan'[q] = chan[q] /\ rc'[q] = rc[q] /\ fate'[q] = fate[q]
       /\ destructive'[q] = destructive[q] /\ claiming'[q] = claiming[q] /\ todo'[q] = todo[q]
Loop == <<known, done, looking, asking, quiet>>

LEMMA OthersStand ==
  ASSUME Types, NEW p \in Procs, Served(p), Moves(p)
  PROVE  \A q \in Procs \ {p} : Bystander(q)
<1>. SUFFICES ASSUME NEW q \in Procs \ {p} PROVE Bystander(q)
  OBVIOUS
<1>1. q \in broker'.groups => q \in broker.groups
  BY DEF Served
<1>2. ASSUME Linked(q), Serving' PROVE Linked(q)'
  <2>1. <<q, chan[q].n>> # Ch(p)
    BY DEF Ch
  <2>. QED BY <1>2, <2>1 DEF Linked, Served, Moves
<1>. QED BY <1>1, <1>2 DEF Bystander, Moves

LEMMA MoversTypes ==
  ASSUME Types, NEW p \in Procs, Served(p), Moves(p),
         known' \subseteq Procs \ {Root}, done' \subseteq known', looking' \subseteq known',
         asking' \in known' \union {Outside}, quiet' \in Nat
  PROVE  Types'
<1>0. Root \in Procs
  BY CaptureAssumption DEF CaptureAssumption
<1>1. pc'[Root] \in RootLabels
  BY <1>0 DEF Moves, Types, RootLabels
<1>2. \A q \in Procs \ {Root} : pc'[q] \in MemberLabels
  BY DEF Moves, Types, MemberLabels
<1>. QED BY <1>1, <1>2 DEF Types, Moves, Served, ChanType

LEMMA MoversActs ==
  ASSUME Types, NEW p \in Procs, Served(p), Moves(p), UNCHANGED Loop
  PROVE  Types' /\ \A q \in Procs \ {p} : Bystander(q)
<1>1. /\ known' \subseteq Procs \ {Root} /\ done' \subseteq known' /\ looking' \subseteq known'
      /\ asking' \in known' \union {Outside} /\ quiet' \in Nat
  BY DEF Types, Loop
<1>. QED BY <1>1, OthersStand, MoversTypes

(* A label change of one process.                                          *)
LEMMA GotoShape ==
  ASSUME Types, NEW p \in Procs, NEW l \in RootLabels \union MemberLabels, Goto(p, l)
  PROVE  /\ pc' \in [Procs -> RootLabels \union MemberLabels] /\ pc'[p] = l
         /\ \A q \in Procs \ {p} : pc'[q] = pc[q]
  BY DEF Types, Goto
LEMMA RefuseShape ==
  ASSUME Types, NEW p \in Procs, NEW r \in {"refused", "unparked"}, Refuse(p, r)
  PROVE  /\ pc' \in [Procs -> RootLabels \union MemberLabels] /\ pc'[p] = "announce"
         /\ \A q \in Procs \ {p} : pc'[q] = pc[q] /\ rc'[q] = rc[q]
         /\ rc' \in [Procs -> {"none", "ok", "refused", "unparked"}] /\ rc'[p] = r
<1>1. "announce" \in RootLabels
  BY DEF RootLabels
<1>2. /\ pc' \in [Procs -> RootLabels \union MemberLabels] /\ pc'[p] = "announce"
      /\ \A q \in Procs \ {p} : pc'[q] = pc[q]
  BY <1>1, GotoShape DEF Refuse
<1>. QED BY <1>2 DEF Types, Refuse

(* The place of the actor decides where the coordinator may be next.       *)
LEMMA MemberCoasts ==
  ASSUME IInv, NEW p \in Procs, Moves(p), Quietly, UNCHANGED <<known, done, quiet, discovered>>,
         p = Root => /\ pc[p] \notin {"publishing", "zombie", "gone"}
                     /\ pc'[p] \in Young => pc[p] \in Young
                     /\ \/ pc'[p] = pc[p]
                        \/ pc'[p] \notin {"reap", "check", "count", "resumed", "commit", "publishing"}
                     /\ pc'[p] \in Decided => pc[p] \in Decided
  PROVE  Coasts
<1>1. Root \in Procs
  BY CaptureAssumption DEF CaptureAssumption
<1>2. p # Root => pc'[Root] = pc[Root] \/ (pc[Root] = "zombie" /\ pc'[Root] = "gone")
  BY <1>1 DEF Moves
<1>. QED BY <1>2 DEF Coasts, Quietly, Decided, Young

(* Every step of a process keeps the invariant.                            *)
LEMMA ActsKeeps ==
  ASSUME IInv, NEW p \in Procs, Served(p), Moves(p), UNCHANGED Loop, Ledger,
         Enrols(p), Stays(p) /\ Settles(p), Coasts
  PROVE  IInv'
<1>1. Types' /\ \A q \in Procs \ {p} : Bystander(q)
  BY MoversActs DEF IInv
<1>2. Acts(p)
  BY <1>1 DEF Acts, Served
<1>3. Fine
  BY <1>2, EveryoneIsFine DEF Fine
<1>. QED BY <1>1, <1>3, CoastKept DEF Served

(* Where a process before its dump, or the coordinator, may go.            *)
GoesOn(p) ==
  /\ Busy(p) /\ Alive(p)' /\ pc'[p] # "unborn"
  /\ pc'[p] \in Refuses => rc'[p] # "ok"
  /\ pc'[p] \in Admitted => pc[p] \in Admitted \/ p \in broker'.registered
  /\ p = Root => /\ pc[p] # "publishing"
                 /\ pc'[p] # "guest"
                 /\ \/ pc'[p] = pc[p]
                    \/ pc'[p] \notin {"reap", "check", "count", "resumed", "commit", "publishing"}
                 /\ pc'[p] \in Decided => pc[p] \in Decided
LEMMA BusyKeeps ==
  ASSUME IInv, NEW p \in Procs, Served(p), Quietly, Moves(p), GoesOn(p),
         UNCHANGED <<Loop, discovered>>,
         \/ destructive'[p] = destructive[p]
         \/ broker'.irreversible /\ pc[Root] # "resumed",
         claiming'[p] = claiming[p], fate'[p] = fate[p],
         broker'.irreversible \/ (drained' = drained /\ reaped' \subseteq reaped)
  PROVE  IInv'
<1>. USE DEF IInv
<1>0. UNCHANGED Loop /\ UNCHANGED <<known, done, quiet, discovered>>
  BY DEF Loop
<1>1. Types'
  BY <1>0, MoversActs
<1>2. Ledger
  BY DEF Ledger, Quietly
<1>3. Enrols(p)
  BY DEF Enrols, Quietly, GoesOn
<1>4. Stays(p) /\ Settles(p)
  <2>1. Recoverable' => Recoverable
    BY <1>1, OnwardWorks DEF Served
  <2>. QED BY <1>1, <2>1, BusyActor DEF Quietly, GoesOn
<1>5. Coasts
  BY <1>0, MemberCoasts DEF GoesOn, Busy, Young
<1>. QED BY <1>0, <1>2, <1>3, <1>4, <1>5, ActsKeeps

LEMMA AnnounceKeeps ==
  ASSUME IInv, NEW p \in Procs, Announce(p), UNCHANGED coordinator
  PROVE  IInv'
<1>. USE DEF IInv
<1>0. /\ UNCHANGED <<Loop, discovered>> /\ UNCHANGED reaped
      /\ UNCHANGED <<rc, fate, todo, claiming, destructive, drained>>
  BY DEF coordinator, pass, count, Loop, Announce, walk
<1>1. Served(p) /\ Quietly
  BY ServedNothing DEF Announce
<1>2. /\ pc' \in [Procs -> RootLabels \union MemberLabels] /\ pc'[p] = "withdraw"
      /\ \A q \in Procs \ {p} : pc'[q] = pc[q]
  BY GotoShape DEF Announce, RootLabels
<1>3. Moves(p)
  BY <1>0, <1>2, PoisonShape DEF Moves, Types, Announce, RootLabels, MemberLabels
<1>4. GoesOn(p)
  BY <1>0, <1>2 DEF GoesOn, Busy, Alive, Announce, Settlement, InOrder, Refuses, Admitted, Decided
<1>. QED BY <1>0, <1>1, <1>3, <1>4, BusyKeeps

(* Both answers of a round trip that may fail.                             *)
LEMMA TripShape ==
  ASSUME Types, NEW p \in Procs, Call(p, Joined(p)) \/ Broken(p)
  PROVE  /\ Served(p) /\ Quietly /\ ChanType'
         /\ \A q \in Procs \ {p} : chan'[q] = chan[q]
<1>1. CASE Call(p, Joined(p))
  BY <1>1, CallShape, JoinedShape, ServedNothing DEF Call
<1>2. CASE Broken(p)
  BY <1>2, BrokenShape, ServedNothing
<1>. QED BY <1>1, <1>2

LEMMA WithdrawKeeps ==
  ASSUME IInv, NEW p \in Procs, Withdraw(p), UNCHANGED coordinator
  PROVE  IInv'
<1>. USE DEF IInv
<1>0. /\ UNCHANGED <<Loop, discovered>> /\ UNCHANGED reaped
      /\ UNCHANGED <<rc, fate, todo, claiming, destructive, drained>>
  BY DEF coordinator, pass, count, Loop, Withdraw, walk
<1>1. /\ Served(p) /\ Quietly /\ ChanType'
      /\ \A q \in Procs \ {p} : chan'[q] = chan[q]
  <2>1. CASE Call(p, AbortGroup(Joined(p)))
    BY <2>1, CallShape, ServedAbort DEF Call
  <2>2. CASE Broken(p)
    BY <2>2, TripShape
  <2>. QED BY <2>1, <2>2 DEF Withdraw
<1>2. rc[p] # "ok" /\ Goto(p, AfterDump(p, rc[p])) /\ pc[p] = "withdraw"
  BY DEF Settlement, InOrder, Refuses, Withdraw
<1>3. AfterDump(p, rc[p]) = IF p = Root THEN "refuse"
                            ELSE IF rc[p] = "unparked" THEN "resumed" ELSE "park"
  BY <1>2 DEF AfterDump
<1>4. /\ pc' \in [Procs -> RootLabels \union MemberLabels] /\ pc'[p] = AfterDump(p, rc[p])
      /\ \A q \in Procs \ {p} : pc'[q] = pc[q]
  BY <1>2, <1>3, GotoShape DEF RootLabels, MemberLabels
<1>5. Moves(p)
  BY <1>0, <1>1, <1>3, <1>4 DEF Moves, Types, RootLabels, MemberLabels
<1>6. GoesOn(p)
  BY <1>2, <1>3, <1>4 DEF GoesOn, Busy, Alive, Refuses, Admitted, Decided
<1>. QED BY <1>0, <1>1, <1>5, <1>6, BusyKeeps

LEMMA NoticeKeeps ==
  ASSUME IInv, NEW p \in Procs, Notice(p), UNCHANGED coordinator
  PROVE  IInv'
<1>. USE DEF IInv
<1>0. /\ UNCHANGED <<Loop, discovered>> /\ UNCHANGED reaped /\ UNCHANGED <<broker, chan>>
      /\ UNCHANGED <<fate, todo, claiming, destructive, drained>>
      /\ pc[p] = "guest" /\ p # Root
  BY DEF coordinator, pass, count, Loop, Notice, walk, channel
<1>1. Served(p) /\ Quietly
  BY <1>0, ServedNothing
<1>2. /\ pc' \in [Procs -> RootLabels \union MemberLabels] /\ pc'[p] \in {"stopped", "announce"}
      /\ \A q \in Procs \ {p} : pc'[q] = pc[q] /\ rc'[q] = rc[q]
      /\ rc' \in [Procs -> {"none", "ok", "refused", "unparked"}]
      /\ pc'[p] = "announce" => rc'[p] # "ok"
  <2>1. CASE Goto(p, "stopped") /\ UNCHANGED <<rc, faults>>
    BY <2>1, GotoShape DEF Types, RootLabels
  <2>2. CASE Fault /\ Refuse(p, "unparked")
    BY <2>2, RefuseShape
  <2>. QED BY <2>1, <2>2 DEF Notice
<1>3. Moves(p)
  BY <1>0, <1>2 DEF Moves, Types, ChanType, MemberLabels
<1>4. GoesOn(p)
  BY <1>0, <1>2 DEF GoesOn, Busy, Alive, Refuses, Admitted
<1>. QED BY <1>0, <1>1, <1>3, <1>4, BusyKeeps

LEMMA RegisterReadyKeeps ==
  ASSUME IInv, NEW p \in Procs, RegisterReady(p), UNCHANGED coordinator
  PROVE  IInv'
<1>. USE DEF IInv
<1>0. /\ UNCHANGED <<Loop, discovered>> /\ UNCHANGED reaped
      /\ UNCHANGED <<fate, todo, claiming, destructive, drained>> /\ pc[p] = "stopped"
  BY DEF coordinator, pass, count, Loop, RegisterReady, walk
<1>1. /\ Served(p) /\ Quietly /\ ChanType'
      /\ \A q \in Procs \ {p} : chan'[q] = chan[q]
      /\ pc' \in [Procs -> RootLabels \union MemberLabels]
      /\ \A q \in Procs \ {p} : pc'[q] = pc[q] /\ rc'[q] = rc[q]
      /\ rc' \in [Procs -> {"none", "ok", "refused", "unparked"}]
      /\ \/ pc'[p] = "admit" /\ p \in broker'.registered
         \/ pc'[p] = "announce" /\ rc'[p] # "ok"
  <2>1. CASE /\ Call(p, Registered(Joined(p), p)) /\ CanRegister(broker, p)
             /\ Goto(p, "admit") /\ UNCHANGED rc
    <3>1. Served(p) /\ Quietly /\ p \in broker'.registered
      BY <2>1, ServedRegister DEF Call
    <3>2. ChanType' /\ \A q \in Procs \ {p} : chan'[q] = chan[q]
      BY <2>1, ConnectShape DEF Call
    <3>. QED BY <2>1, <3>1, <3>2, GotoShape DEF Types, RootLabels
  <2>2. CASE /\ Call(p, ChannelDropped(Joined(p), Ch(p))) /\ ~CanRegister(broker, p)
             /\ Refuse(p, "unparked")
    BY <2>2, RefuseShape, ServedDrop, ConnectShape DEF Call
  <2>3. CASE Broken(p) /\ Refuse(p, "unparked")
    BY <2>3, RefuseShape, TripShape
  <2>. QED BY <2>1, <2>2, <2>3 DEF RegisterReady
<1>2. Moves(p)
  BY <1>0, <1>1 DEF Moves, Types, RootLabels, MemberLabels
<1>3. GoesOn(p)
  BY <1>0, <1>1 DEF GoesOn, Busy, Alive, Refuses, Admitted, Decided
<1>. QED BY <1>0, <1>1, <1>2, <1>3, BusyKeeps

LEMMA AdmitKeeps ==
  ASSUME IInv, NEW p \in Procs, Admit(p), UNCHANGED coordinator
  PROVE  IInv'
<1>. USE DEF IInv
<1>0. /\ UNCHANGED <<Loop, discovered>> /\ UNCHANGED reaped /\ UNCHANGED <<broker, chan>>
      /\ UNCHANGED <<fate, claiming, destructive, drained>> /\ pc[p] = "admit"
  BY DEF coordinator, pass, count, Loop, Admit, walk, channel
<1>1. Served(p) /\ Quietly
  BY <1>0, ServedNothing
<1>2. /\ pc' \in [Procs -> RootLabels \union MemberLabels]
      /\ DOMAIN todo' = Procs
      /\ \A q \in Procs \ {p} : pc'[q] = pc[q] /\ rc'[q] = rc[q] /\ todo'[q] = todo[q]
      /\ rc' \in [Procs -> {"none", "ok", "refused", "unparked"}]
      /\ pc'[p] = "consume" \/ (pc'[p] = "announce" /\ rc'[p] # "ok")
  <2>1. CASE /\ Goto(p, "consume") /\ todo' = [todo EXCEPT ![p] = holds[p]]
             /\ UNCHANGED <<rc, faults>>
    BY <2>1, GotoShape DEF Types, RootLabels
  <2>2. CASE Fault /\ (Refuse(p, "refused") \/ Refuse(p, "unparked")) /\ UNCHANGED todo
    BY <2>2, RefuseShape DEF Types
  <2>. QED BY <2>1, <2>2 DEF Admit
<1>3. Moves(p)
  BY <1>0, <1>2 DEF Moves, Types, ChanType, RootLabels, MemberLabels
<1>4. GoesOn(p)
  BY <1>0, <1>2 DEF GoesOn, Busy, Alive, Refuses, Admitted, Decided
<1>. QED BY <1>0, <1>1, <1>3, <1>4, BusyKeeps

LEMMA DeclinedShape ==
  ASSUME Types, NEW p \in Procs, NEW refused, Declined(p, refused)
  PROVE  /\ Served(p) /\ Quietly /\ ChanType'
         /\ \A q \in Procs \ {p} : chan'[q] = chan[q]
         /\ refused \/ Broken(p)
  BY TripShape DEF Declined

LEMMA ClaimKeeps ==
  ASSUME IInv, NEW p \in Procs, NEW o \in Objects, Claim(p, o), UNCHANGED coordinator
  PROVE  IInv'
<1>. USE DEF IInv
<1>0. /\ UNCHANGED <<Loop, discovered>> /\ UNCHANGED reaped /\ UNCHANGED <<fate, drained>>
      /\ pc[p] = "consume" /\ claiming[p] = NoClaim /\ o \in todo[p]
  BY DEF coordinator, pass, count, Loop, Claim
<1>1. CASE /\ Mutable(broker)
           /\ Call(p, [Joined(p) EXCEPT !.claims = @ \cup {o}])
           /\ o \notin broker.claims \/ Kind[o] = "pipe"
           /\ claiming' = [claiming EXCEPT ![p] =
                             <<o, IF o \in broker.claims THEN "lost" ELSE "won">>]
           /\ destructive' = [destructive EXCEPT ![p] = @ \/ o \in broker.claims]
           /\ UNCHANGED <<pc, rc, todo>>
  <2>1. Served(p) /\ Quietly
    BY <1>1, ServedClaim DEF Call
  <2>2. [Joined(p) EXCEPT !.claims = @ \cup {o}].channels = broker.channels \union {Ch(p)}
    BY Joins, ClaimShape
  <2>3. /\ ChanType' /\ Linked(p)'
        /\ \A q \in Procs \ {p} : chan'[q] = chan[q]
    BY <1>1, <2>2, CallShape
  <2>4. /\ DOMAIN claiming' = Procs /\ claiming'[p][1] = o /\ claiming'[p] # NoClaim
        /\ \A q \in Procs \ {p} : claiming'[q] = claiming[q]
    BY <1>1 DEF Types, NoClaim
  <2>5. /\ destructive' \in [Procs -> BOOLEAN]
        /\ \A q \in Procs \ {p} : destructive'[q] = destructive[q]
    BY <1>1 DEF Types
  <2>6. Moves(p)
    BY <1>0, <1>1, <2>3, <2>4, <2>5 DEF Moves, Types
  <2>7. Types'
    BY <1>0, <2>1, <2>6, MoversActs
  <2>8. Ledger /\ Enrols(p)
    BY <1>0, <1>1, <2>1 DEF Ledger, Quietly, Enrols
  <2>9. Stays(p)
    BY <1>0, <1>1, <2>1 DEF Stays, Quietly, Frozen, Dead
  <2>10. Settles(p)
    <3>1. Recoverable' => Recoverable
      BY <2>1, <2>7, OnwardWorks DEF Served
    <3>2. pc[Root] # "resumed"
      BY <1>1 DEF Settlement, Mutable
    <3>3. Recoverable => ~destructive[p] /\ Spared(p)
      BY <1>0 DEF Settlement, Loyal, Pending, Alive, Dead
    <3>4. o \in broker.claims => Pending(p)'
      BY <1>0, <1>1, <2>3, <2>4 DEF Pending
    <3>5. destructive'[p] <=> destructive[p] \/ o \in broker.claims
      BY <1>1 DEF Types
    <3>6. Recoverable' => Loyal(p)'
      BY <1>0, <3>1, <3>3, <3>4, <3>5 DEF Loyal, Spared
    <3>. QED BY <1>0, <1>1, <2>4, <3>2, <3>6 DEF Settles, InOrder, LetGo, Refuses
  <2>11. Coasts
    BY <1>0, <1>1, <2>1, <2>6, MemberCoasts DEF Loop
  <2>. QED BY <1>0, <2>1, <2>6, <2>8, <2>9, <2>10, <2>11, ActsKeeps
<1>2. CASE /\ Declined(p, ~Mutable(broker))
           /\ Refuse(p, "refused")
           /\ UNCHANGED <<claiming, destructive, todo>>
  <2>1. Moves(p)
    BY <1>0, <1>2, DeclinedShape, RefuseShape DEF Moves, Types, RootLabels, MemberLabels
  <2>2. GoesOn(p)
    BY <1>0, <1>2, RefuseShape DEF GoesOn, Busy, Alive, Admitted, Decided
  <2>. QED BY <1>0, <1>2, <2>1, <2>2, DeclinedShape, BusyKeeps
<1>3. CASE /\ Mutable(broker)
           /\ Call(p, [Joined(p) EXCEPT !.claims = @ \cup {o}])
           /\ todo' = [todo EXCEPT ![p] = @ \ {o}]
           /\ UNCHANGED <<claiming, destructive, pc, rc>>
  <2>1. Served(p) /\ Quietly
    BY <1>3, ServedClaim DEF Call
  <2>2. ChanType' /\ \A q \in Procs \ {p} : chan'[q] = chan[q]
    BY <1>3, ConnectShape DEF Call
  <2>3. Moves(p)
    BY <1>0, <1>3, <2>2 DEF Moves, Types
  <2>4. GoesOn(p)
    BY <1>0, <1>3 DEF GoesOn, Busy, Alive, Refuses
  <2>. QED BY <1>0, <1>3, <2>1, <2>3, <2>4, BusyKeeps
<1>. QED BY <1>1, <1>2, <1>3 DEF Claim

LEMMA DrainKeeps ==
  ASSUME IInv, NEW p \in Procs, Drain(p), UNCHANGED coordinator
  PROVE  IInv'
<1>. USE DEF IInv
<1>0. /\ UNCHANGED <<Loop, discovered>> /\ UNCHANGED reaped /\ UNCHANGED fate
      /\ pc[p] = "consume" /\ claiming[p] # NoClaim
      /\ DOMAIN claiming' = Procs /\ claiming'[p] = NoClaim
      /\ \A q \in Procs \ {p} : claiming'[q] = claiming[q]
  BY DEF coordinator, pass, count, Loop, Drain, Types
<1>1. /\ Served(p) /\ Quietly /\ ChanType'
      /\ \A q \in Procs \ {p} : chan'[q] = chan[q] /\ destructive'[q] = destructive[q]
      /\ \A q \in Procs \ {p} : todo'[q] = todo[q] /\ pc'[q] = pc[q] /\ rc'[q] = rc[q]
      /\ DOMAIN todo' = Procs /\ destructive' \in [Procs -> BOOLEAN]
      /\ pc' \in [Procs -> RootLabels \union MemberLabels]
      /\ rc' \in [Procs -> {"none", "ok", "refused", "unparked"}]
      /\ pc'[p] = "consume" \/ (pc'[p] = "announce" /\ rc'[p] # "ok")
      /\ \/ broker'.irreversible /\ Running(broker)
         \/ /\ ~Running(broker) \/ ~(broker.up /\ Linked(p))
            /\ destructive' = destructive /\ drained' = drained
  <2>1. CASE /\ Running(broker) /\ Call(p, MarkIrreversible(Joined(p)))
             /\ destructive' = [destructive EXCEPT ![p] = TRUE]
             /\ IF claiming[p][2] = "won" /\ ~Mutable(broker)
                THEN Refuse(p, "refused") /\ UNCHANGED <<drained, todo>>
                ELSE /\ drained' = IF claiming[p][2] = "won" THEN drained \cup {claiming[p][1]} ELSE drained
                     /\ todo' = [todo EXCEPT ![p] = @ \ {claiming[p][1]}]
                     /\ UNCHANGED <<pc, rc>>
    <3>1. Served(p) /\ Quietly /\ broker'.irreversible
      BY <2>1, ServedMark DEF Call
    <3>2. ChanType' /\ \A q \in Procs \ {p} : chan'[q] = chan[q]
      BY <2>1, ConnectShape DEF Call
    <3>3. /\ destructive' \in [Procs -> BOOLEAN]
          /\ \A q \in Procs \ {p} : destructive'[q] = destructive[q]
      BY <2>1 DEF Types
    <3>4. /\ \A q \in Procs \ {p} : todo'[q] = todo[q] /\ pc'[q] = pc[q] /\ rc'[q] = rc[q]
          /\ DOMAIN todo' = Procs
          /\ pc' \in [Procs -> RootLabels \union MemberLabels]
          /\ rc' \in [Procs -> {"none", "ok", "refused", "unparked"}]
          /\ pc'[p] = "consume" \/ (pc'[p] = "announce" /\ rc'[p] # "ok")
      BY <1>0, <2>1, RefuseShape DEF Types
    <3>. QED BY <2>1, <3>1, <3>2, <3>3, <3>4
  <2>2. CASE /\ Declined(p, ~Running(broker)) /\ Refuse(p, "refused")
             /\ UNCHANGED <<destructive, drained, todo>>
    BY <2>2, DeclinedShape, BrokenShape, RefuseShape DEF Types
  <2>. QED BY <2>1, <2>2 DEF Drain
<1>2. Moves(p)
  BY <1>0, <1>1 DEF Moves, Types, RootLabels, MemberLabels
<1>3. Types'
  BY <1>0, <1>1, <1>2, MoversActs
<1>4. Ledger /\ Enrols(p)
  BY <1>0, <1>1 DEF Ledger, Quietly, Enrols, Admitted
<1>5. Stays(p)
  BY <1>0, <1>1 DEF Stays, Quietly, Frozen, Dead
<1>6. Settles(p)
  <2>1. ASSUME Recoverable' PROVE Loyal(p)'
    <3>1. Recoverable
      BY <1>1, <1>3, <2>1, OnwardWorks DEF Served
    <3>2. destructive'[p] = destructive[p] /\ ~(broker.up /\ Linked(p))
      BY <1>1, <2>1, <3>1 DEF Recoverable
    <3>3. ~destructive[p] /\ Spared(p)
      BY <1>0, <3>1, <3>2 DEF Settlement, Loyal, Pending, Alive, Recoverable, Dead
    <3>. QED BY <1>0, <3>2, <3>3 DEF Loyal, Spared
  <2>2. ASSUME pc[Root] = "resumed" PROVE Given(p)'
    <3>1. Spared(p) /\ ~destructive[p] /\ ~Running(broker)
      BY <1>0, <2>2 DEF Settlement, Given, Alive, Running
    <3>. QED BY <1>0, <1>1, <3>1 DEF Given, Spared
  <2>. QED BY <1>0, <1>1, <2>1, <2>2 DEF Settles, InOrder, LetGo, Refuses
<1>7. Coasts
  BY <1>0, <1>1, <1>2, MemberCoasts DEF Loop, Decided, Young
<1>. QED BY <1>0, <1>1, <1>2, <1>4, <1>5, <1>6, <1>7, ActsKeeps

LEMMA DrainSignalsKeeps ==
  ASSUME IInv, NEW p \in Procs, DrainSignals(p), UNCHANGED coordinator
  PROVE  IInv'
<1>. USE DEF IInv
<1>0. /\ UNCHANGED <<Loop, discovered>> /\ UNCHANGED <<reaped, fate, destructive>>
      /\ pc[p] = "consume" /\ claiming[p] # NoClaim /\ Kind[claiming[p][1]] = "signalfd"
      /\ DOMAIN claiming' = Procs /\ claiming'[p] = NoClaim
      /\ \A q \in Procs \ {p} : claiming'[q] = claiming[q]
  BY DEF coordinator, pass, count, Loop, DrainSignals, Types
<1>1. /\ Served(p) /\ Quietly /\ ChanType'
      /\ \A q \in Procs \ {p} : chan'[q] = chan[q]
      /\ \A q \in Procs \ {p} : todo'[q] = todo[q] /\ pc'[q] = pc[q] /\ rc'[q] = rc[q]
      /\ DOMAIN todo' = Procs
      /\ pc' \in [Procs -> RootLabels \union MemberLabels]
      /\ rc' \in [Procs -> {"none", "ok", "refused", "unparked"}]
      /\ pc'[p] = "consume" \/ (pc'[p] = "announce" /\ rc'[p] # "ok")
      /\ drained' = drained \/ drained' = drained \union {claiming[p][1]}
  <2>1. CASE /\ Mutable(broker) /\ Call(p, Joined(p))
             /\ drained' = drained \union {claiming[p][1]}
             /\ todo' = [todo EXCEPT ![p] = @ \ {claiming[p][1]}]
             /\ UNCHANGED <<pc, rc>>
    <3>1. Served(p) /\ Quietly
      BY <2>1, TripShape
    <3>2. ChanType' /\ \A q \in Procs \ {p} : chan'[q] = chan[q]
      BY <2>1, ConnectShape DEF Call
    <3>3. DOMAIN todo' = Procs /\ \A q \in Procs \ {p} : todo'[q] = todo[q]
      BY <2>1 DEF Types
    <3>. QED BY <1>0, <2>1, <3>1, <3>2, <3>3 DEF Types
  <2>2. CASE /\ Declined(p, ~Mutable(broker)) /\ Refuse(p, "refused")
             /\ UNCHANGED <<drained, todo>>
    BY <2>2, DeclinedShape, RefuseShape DEF Types
  <2>. QED BY <2>1, <2>2 DEF DrainSignals
<1>2. Moves(p)
  BY <1>0, <1>1 DEF Moves, Types, RootLabels, MemberLabels
<1>3. Types'
  BY <1>0, <1>1, <1>2, MoversActs
<1>4. Ledger /\ Enrols(p)
  BY <1>0, <1>1 DEF Ledger, Quietly, Enrols, Admitted
<1>5. Stays(p)
  BY <1>0, <1>1 DEF Stays, Quietly, Frozen, Dead
<1>6. Settles(p)
  <2>1. Recoverable' => Loyal(p)'
    <3>1. Recoverable' => Recoverable
      BY <1>1, <1>3, OnwardWorks DEF Served
    <3>2. Recoverable => ~destructive[p] /\ Spared(p)
      BY <1>0 DEF Settlement, Loyal, Pending, Alive, Dead
    <3>. QED BY <1>0, <3>1, <3>2 DEF Loyal, Spared
  <2>2. pc[Root] = "resumed" => Given(p)'
    BY <1>0 DEF Settlement, Given, Alive, Spared
  <2>. QED BY <1>0, <1>1, <2>1, <2>2 DEF Settles, InOrder, LetGo, Refuses
<1>7. Coasts
  BY <1>0, <1>1, <1>2, MemberCoasts DEF Loop, Decided, Young
<1>. QED BY <1>0, <1>1, <1>2, <1>4, <1>5, <1>6, <1>7, ActsKeeps

LEMMA CommitGroupKeeps ==
  ASSUME IInv, NEW p \in Procs, CommitGroup(p), UNCHANGED coordinator
  PROVE  IInv'
<1>. USE DEF IInv
<1>0. /\ UNCHANGED <<Loop, discovered>> /\ UNCHANGED reaped
      /\ UNCHANGED <<fate, todo, claiming, destructive, drained>>
      /\ pc[p] = "consume" /\ todo[p] = {}
  BY DEF coordinator, pass, count, Loop, CommitGroup, walk
<1>1. claiming[p] = NoClaim
  BY <1>0 DEF Settlement, InOrder
<1>2. CASE /\ Mutable(broker) /\ Call(p, [Joined(p) EXCEPT !.groups = @ \cup {p}])
           /\ Goto(p, AfterDump(p, "ok")) /\ rc' = [rc EXCEPT ![p] = "ok"]
           /\ UNCHANGED faults
  <2>1. /\ Served(p) /\ broker'.resumed = broker.resumed /\ p \in broker'.groups
        /\ broker'.phase = broker.phase
    BY <1>2, ServedGroup DEF Call
  <2>2. [Joined(p) EXCEPT !.groups = @ \cup {p}].channels = broker.channels \union {Ch(p)}
    BY Joins, GroupShape
  <2>3. /\ ChanType' /\ Linked(p)'
        /\ \A q \in Procs \ {p} : chan'[q] = chan[q]
    BY <1>2, <2>2, CallShape
  <2>4. /\ pc' \in [Procs -> RootLabels \union MemberLabels]
        /\ pc'[p] = IF p = Root THEN "seal" ELSE "park"
        /\ \A q \in Procs \ {p} : pc'[q] = pc[q]
    BY <1>2, GotoShape DEF AfterDump, RootLabels, MemberLabels
  <2>5. /\ rc' \in [Procs -> {"none", "ok", "refused", "unparked"}] /\ rc'[p] = "ok"
        /\ \A q \in Procs \ {p} : rc'[q] = rc[q]
    BY <1>2 DEF Types
  <2>6. Moves(p)
    BY <1>0, <2>3, <2>4, <2>5 DEF Moves, Types, RootLabels, MemberLabels
  <2>7. Types'
    BY <1>0, <2>1, <2>6, MoversActs
  <2>8. Ledger
    BY <1>0, <2>1 DEF Ledger
  <2>9. Enrols(p)
    BY <1>0 DEF Enrols, Membership, Admitted
  <2>10. Stays(p)
    BY <1>0, <2>1, <2>3, <2>4, <2>5 DEF Stays, Frozen, Dead
  <2>11. Settles(p)
    <3>1. Recoverable' => Recoverable
      BY <2>1, <2>7, OnwardWorks DEF Served
    <3>2. pc[Root] # "resumed"
      BY <1>2 DEF Settlement, Mutable
    <3>3. Recoverable' => Loyal(p)'
      BY <1>0, <1>1, <3>1 DEF Settlement, Loyal, Spared, Pending, Alive, Dead
    <3>. QED BY <1>0, <1>1, <2>4, <3>2, <3>3 DEF Settles, InOrder, LetGo, Refuses
  <2>12. Coasts
    <3>1. Root \in Procs
      BY CaptureAssumption DEF CaptureAssumption
    <3>2. ~Published(broker')
      BY <1>2, <2>1 DEF Mutable, Published
    <3>. QED BY <1>0, <2>1, <2>4, <3>1, <3>2 DEF Coasts, Loop, Decided, Young
  <2>. QED BY <1>0, <2>1, <2>6, <2>8, <2>9, <2>10, <2>11, <2>12, ActsKeeps
<1>3. CASE \/ Declined(p, ~Mutable(broker)) /\ Refuse(p, "refused")
           \/ Refuse(p, "refused") /\ UNCHANGED <<broker, chan>>
  <2>1. /\ Served(p) /\ Quietly /\ ChanType'
        /\ \A q \in Procs \ {p} : chan'[q] = chan[q]
    BY <1>3, DeclinedShape, ServedNothing DEF Types, ChanType
  <2>2. Moves(p)
    BY <1>0, <1>3, <2>1, RefuseShape DEF Moves, Types, RootLabels, MemberLabels
  <2>3. GoesOn(p)
    BY <1>0, <1>1, <1>3, RefuseShape DEF GoesOn, Busy, Alive, Admitted, Decided
  <2>. QED BY <1>0, <2>1, <2>2, <2>3, BusyKeeps
<1>. QED BY <1>2, <1>3 DEF CommitGroup

(* The broker neither takes a group nor publishes.                         *)
NoProgress ==
  /\ broker'.groups = broker.groups
  /\ broker'.phase = "Publishing" => broker.phase = "Publishing"
  /\ Published(broker') => Published(broker)
LEMMA DyingKeeps ==
  ASSUME IInv, NEW p \in Procs, Served(p), NoProgress, Moves(p), Ledger,
         UNCHANGED <<Loop, discovered>>, Alive(p), pc'[p] \in Dead,
         claiming'[p] = claiming[p], todo'[p] = todo[p],
         Recoverable' /\ p # Root => Spared(p)',
         pc[Root] = "resumed" => Spared(p)'
  PROVE  IInv'
<1>. USE DEF IInv
<1>0. UNCHANGED Loop /\ UNCHANGED <<known, done, quiet, discovered>>
  BY DEF Loop
<1>1. Types'
  BY <1>0, MoversActs
<1>2. Enrols(p)
  BY DEF Enrols, NoProgress, Admitted, Dead
<1>3. Stays(p) /\ Settles(p)
  BY <1>1, DyingActor DEF NoProgress
<1>4. Coasts
  <2>1. Root \in Procs
    BY CaptureAssumption DEF CaptureAssumption
  <2>2. pc'[Root] = pc[Root] \/ pc'[Root] \in Dead
    BY <2>1 DEF Moves, Dead
  <2>. QED BY <1>0, <2>2 DEF Coasts, NoProgress, Decided, Dead, Young
<1>. QED BY <1>0, <1>2, <1>3, <1>4, ActsKeeps

LEMMA QuitKeeps ==
  ASSUME IInv, NEW p \in Procs, Quit(p), UNCHANGED coordinator
  PROVE  IInv'
<1>. USE DEF IInv
<1>0. /\ UNCHANGED <<Loop, discovered>> /\ UNCHANGED reaped /\ UNCHANGED <<broker, chan, rc>>
      /\ UNCHANGED <<todo, claiming, destructive, drained>>
      /\ Alive(p) /\ Ends(p, "quit")
  BY DEF coordinator, pass, count, Loop, Quit, walk, channel
<1>1. Served(p) /\ NoProgress
  BY <1>0, ServedNothing DEF Quietly, NoProgress
<1>2. Moves(p) /\ pc'[p] \in Dead /\ fate'[p] = "quit"
  BY <1>0, EndsShape DEF Moves, Types, ChanType, RootLabels, MemberLabels, Dead
<1>. QED BY <1>0, <1>1, <1>2, DyingKeeps DEF Spared, Ledger

LEMMA ParkKeeps ==
  ASSUME IInv, NEW p \in Procs, Park(p), UNCHANGED coordinator
  PROVE  IInv'
<1>. USE DEF IInv
<1>0. /\ UNCHANGED <<Loop, discovered>> /\ UNCHANGED reaped
      /\ UNCHANGED <<rc, todo, claiming, destructive, drained>>
      /\ pc[p] = "park" /\ Alive(p) /\ p # Root /\ claiming[p] = NoClaim
  BY DEF coordinator, pass, count, Loop, Park, walk, Types, RootLabels, Alive, Settlement, InOrder
<1>1. PICK d \in {"HOLD", "EXIT", "RESUME"} :
        /\ IF d = "HOLD" THEN UNCHANGED tree ELSE Released(p, d)
        /\ \/ Call(p, Answered(Joined(p), Ch(p))) /\ d = Disposition(broker)
           \/ Broken(p) /\ d = "RESUME"
  <2>1. Disposition(broker) \in {"HOLD", "EXIT", "RESUME"}
    BY DEF Disposition, Published, Types, BrokerStates
  <2>. QED BY <2>1 DEF Park
<1>. DEFINE h == Disposition(broker)
<1>2. /\ (broker.phase = "Active" /\ ~broker.expired) \/ broker.phase = "Publishing" => h = "HOLD"
      /\ Published(broker) => h = "EXIT"
      /\ broker.phase = "Refusing" => h = "RESUME"
      /\ h = "EXIT" => Published(broker)
  BY DEF Disposition, Published
<1>. HIDE DEF h
<1>3. /\ Served(p) /\ NoProgress /\ ChanType'
      /\ \A q \in Procs \ {p} : chan'[q] = chan[q]
      /\ broker'.phase = broker.phase /\ broker'.irreversible = broker.irreversible
      /\ broker'.up = broker.up /\ broker'.expired = broker.expired
      /\ \A ch \in broker'.resumed : ch \in broker.resumed \/ (ch[1] = p /\ d # "HOLD")
      /\ Linked(p)' \/ (d = "RESUME" /\ ~(broker.up /\ Linked(p)))
  <2>1. CASE Call(p, Answered(Joined(p), Ch(p))) /\ d = Disposition(broker)
    <3>1. /\ Served(p) /\ broker'.groups = broker.groups /\ broker'.phase = broker.phase
          /\ broker'.result = broker.result /\ broker'.expired = broker.expired
          /\ broker'.irreversible = broker.irreversible /\ broker'.up = broker.up
          /\ \A ch \in broker'.resumed :
               ch \in broker.resumed \/ (ch = Ch(p) /\ broker.phase = "Refusing")
          /\ broker'.channels = broker.channels \union {Ch(p)}
      BY <2>1, ServedAnswer DEF Call
    <3>2. /\ ChanType' /\ Linked(p)'
          /\ \A q \in Procs \ {p} : chan'[q] = chan[q]
      BY <2>1, <3>1, CallShape DEF Call
    <3>3. Ch(p)[1] = p
      BY DEF Ch
    <3>. QED BY <1>2, <2>1, <3>1, <3>2, <3>3 DEF NoProgress, Published, h
  <2>2. CASE Broken(p) /\ d = "RESUME"
    BY <2>2, BrokenShape, ServedNothing DEF NoProgress, Quietly
  <2>. QED BY <1>1, <2>1, <2>2
<1>4. ASSUME d # "HOLD" PROVE Works' => ~Frozen(p)
  BY <1>1, <1>2, <1>3, <1>4 DEF Works, Mutable, Frozen, h, Broken, Reaches, Linked, Ch
<1>5. Recoverable' => Recoverable
  BY <1>3 DEF Recoverable, Running
<1>6. Recoverable => ~destructive[p] /\ Spared(p)
  BY <1>0 DEF Settlement, Loyal, Pending
<1>7. pc[Root] = "resumed" => ~destructive[p] /\ Spared(p) /\ d # "EXIT"
  BY <1>0, <1>1, <1>2 DEF Settlement, Given, Published, h
<1>8. CASE d = "HOLD"
  <2>1. UNCHANGED <<pc, fate>>
    BY <1>1, <1>8 DEF tree
  <2>2. Moves(p)
    BY <1>0, <1>3, <2>1 DEF Moves, Types
  <2>3. Ledger /\ Enrols(p)
    BY <1>0, <1>3, <1>8, <2>1 DEF Ledger, Enrols, NoProgress
  <2>4. Stays(p)
    BY <1>0, <1>3, <1>8, <2>1 DEF Stays, Frozen, NoProgress, Dead
  <2>5. Settles(p)
    BY <1>0, <1>5, <1>6, <1>7, <2>1
    DEF Settles, InOrder, Loyal, Given, Spared, LetGo, Refuses
  <2>6. Coasts
    BY <1>0, <1>3, <2>1 DEF Coasts, Loop, NoProgress, Freeze
  <2>. QED BY <1>0, <1>3, <2>2, <2>3, <2>4, <2>5, <2>6, ActsKeeps
<1>9. CASE d # "HOLD" /\ (d = "EXIT" \/ destructive[p])
  <2>1. PICK why \in {"captured", "terminal"} : Ends(p, why)
    BY <1>1, <1>9 DEF Released
  <2>2. Moves(p) /\ pc'[p] \in Dead
    BY <1>0, <1>3, <2>1, EndsShape DEF Moves, Types, RootLabels, MemberLabels, Dead
  <2>3. ~Recoverable'
    <3>1. CASE destructive[p]
      BY <1>5, <1>6, <3>1
    <3>2. CASE d = "EXIT"
      BY <1>1, <1>2, <1>5, <3>2 DEF h, Published, Recoverable, Running
    <3>. QED BY <1>9, <3>1, <3>2
  <2>4. pc[Root] # "resumed"
    BY <1>7, <1>9
  <2>5. Ledger
    BY <1>0, <1>3, <2>2 DEF Ledger, LetGo, Dead
  <2>. QED BY <1>0, <1>3, <2>2, <2>3, <2>4, <2>5, DyingKeeps
<1>10. CASE d # "HOLD" /\ ~(d = "EXIT" \/ destructive[p])
  <2>1. Goto(p, "resumed") /\ UNCHANGED fate
    BY <1>1, <1>10 DEF Released
  <2>2. /\ pc' \in [Procs -> RootLabels \union MemberLabels] /\ pc'[p] = "resumed"
        /\ \A q \in Procs \ {p} : pc'[q] = pc[q]
    BY <2>1, GotoShape DEF RootLabels
  <2>3. Moves(p)
    BY <1>0, <1>3, <2>1, <2>2 DEF Moves, Types, MemberLabels
  <2>4. Ledger /\ Enrols(p)
    BY <1>0, <1>3, <2>2 DEF Ledger, Enrols, NoProgress, Admitted, LetGo
  <2>5. Stays(p)
    BY <1>0, <1>3, <1>4, <1>10, <2>2 DEF Stays, NoProgress, Dead
  <2>6. Settles(p)
    BY <1>0, <1>5, <1>6, <1>7, <1>10, <2>1, <2>2
    DEF Settles, InOrder, Loyal, Given, Spared, LetGo, Refuses
  <2>7. Coasts
    <3>1. pc'[Root] = pc[Root]
      BY <1>0, <2>2, CaptureAssumption DEF CaptureAssumption
    <3>. QED BY <1>0, <1>3, <3>1 DEF Coasts, Loop, NoProgress
  <2>. QED BY <1>0, <1>3, <2>3, <2>4, <2>5, <2>6, <2>7, ActsKeeps
<1>. QED BY <1>8, <1>9, <1>10

LEMMA ForkKeeps ==
  ASSUME IInv, NEW p \in Procs, NEW q \in Procs, Fork(p, q), UNCHANGED coordinator
  PROVE  IInv'
<1>. USE DEF IInv
<1>0. /\ UNCHANGED <<Loop, discovered>> /\ UNCHANGED reaped /\ UNCHANGED <<broker, chan, rc>>
      /\ UNCHANGED <<fate, todo, claiming, destructive, drained>>
      /\ pc[p] = "guest" /\ pc[q] = "unborn" /\ Goto(q, "guest")
  BY DEF coordinator, pass, count, Loop, Fork, channel
<1>1. Served(q) /\ Quietly
  BY <1>0, ServedNothing
<1>2. /\ pc' \in [Procs -> RootLabels \union MemberLabels] /\ pc'[q] = "guest"
      /\ \A r \in Procs \ {q} : pc'[r] = pc[r]
  BY <1>0, GotoShape DEF RootLabels
<1>3. Moves(q)
  BY <1>0, <1>2 DEF Moves, Types, ChanType, RootLabels, MemberLabels
<1>4. Ledger /\ Enrols(q)
  BY <1>0, <1>1, <1>2 DEF Ledger, Quietly, Enrols, Admitted
<1>5. Stays(q)
  BY <1>0, <1>1, <1>2 DEF Stays, Quietly, Frozen, Dead
<1>6. Settles(q)
  <2>1. ~destructive[q] /\ claiming[q] = NoClaim
    BY <1>0 DEF Settlement, InOrder
  <2>2. Recoverable => Spared(q)
    BY <1>0 DEF Settlement, Loyal, Dead
  <2>3. pc[Root] = "resumed" => Spared(q)
    BY DEF Settlement, Given
  <2>. QED BY <1>0, <1>2, <2>1, <2>2, <2>3
    DEF Settles, InOrder, Loyal, Given, Spared, LetGo, Refuses, Recoverable
<1>7. Coasts
  BY <1>0, <1>1, <1>2, <1>3, MemberCoasts DEF Loop, Decided, Young
<1>. QED BY <1>0, <1>1, <1>3, <1>4, <1>5, <1>6, <1>7, ActsKeeps

LEMMA WaitKeeps ==
  ASSUME IInv, NEW q \in Procs, Wait(q), UNCHANGED coordinator
  PROVE  IInv'
<1>. USE DEF IInv
<1>0. /\ UNCHANGED <<Loop, discovered>> /\ UNCHANGED reaped /\ UNCHANGED <<broker, chan, rc>>
      /\ UNCHANGED <<fate, todo, claiming, destructive, drained>>
      /\ pc[q] = "zombie" /\ Goto(q, "gone")
  BY DEF coordinator, pass, count, Loop, Wait, walk, channel
<1>1. Served(q) /\ Quietly
  BY <1>0, ServedNothing
<1>2. /\ pc' \in [Procs -> RootLabels \union MemberLabels] /\ pc'[q] = "gone"
      /\ \A r \in Procs \ {q} : pc'[r] = pc[r]
  BY <1>0, GotoShape DEF RootLabels
<1>3. Moves(q)
  BY <1>0, <1>2 DEF Moves, Types, ChanType, RootLabels, MemberLabels
<1>4. Ledger
  BY <1>0, <1>1 DEF Ledger, Quietly
<1>5. Bystander(q)
  BY <1>0, <1>2 DEF Bystander, Alive
<1>6. Types'
  BY <1>0, <1>1, <1>3, MoversActs
<1>7. Enrols(q) /\ Stays(q) /\ Settles(q)
  BY <1>1, <1>5, <1>6, BystanderIsFine DEF Served
<1>8. Coasts
  <2>1. Root \in Procs
    BY CaptureAssumption DEF CaptureAssumption
  <2>. QED BY <1>0, <1>1, <1>2, <2>1 DEF Coasts, Loop, Quietly, Decided, Young
<1>. QED BY <1>0, <1>1, <1>3, <1>4, <1>7, <1>8, ActsKeeps

-----------------------------------------------------------------------------
(* Steps of the broker and of the host: nobody moves.                      *)

LEMMA NobodyKeeps ==
  ASSUME IInv, broker' \in BrokerStates, Onward, UNCHANGED Loop,
         UNCHANGED <<discovered, pc, chan, rc, fate, todo, claiming, destructive, drained, reaped>>,
         broker'.groups = broker.groups, broker'.resumed \subseteq broker.resumed,
         broker'.phase = "Publishing" => broker.phase = "Publishing",
         Published(broker') => Published(broker) \/ broker.phase = "Publishing",
         \A q \in Procs : Linked(q) /\ Alive(q) /\ Serving' => Linked(q)'
  PROVE  IInv'
<1>. USE DEF IInv
<1>1. Types'
  BY DEF Types, Loop
<1>2. \A q \in Procs : Bystander(q)
  BY DEF Bystander
<1>3. Fine
  BY <1>1, <1>2, BystanderIsFine DEF Fine
<1>4. Ledger
  BY DEF Ledger
<1>5. Coasts
  BY DEF Coasts, Loop, Freeze
<1>. QED BY <1>1, <1>3, <1>4, <1>5, CoastKept

LEMMA BrokerKeeps ==
  ASSUME IInv, BrokerStep
  PROVE  IInv'
<1>. USE DEF IInv
<1>0. broker \in BrokerStates
  BY DEF Types
<1>1. /\ UNCHANGED Loop
      /\ UNCHANGED <<discovered, pc, chan, rc, fate, todo, claiming, destructive, drained, reaped>>
  BY DEF BrokerStep, HearRefusal, DropChannel, BrokerPublishes, coordinator, pass, count, Loop,
         members, tree, walk, channel
<1>2. CASE \E ch \in notes : HearRefusal(ch)
  <2>1. broker' = broker \/ broker' = DecideRefusal(broker)
    BY <1>2 DEF HearRefusal
  <2>2. /\ broker' \in BrokerStates /\ Alike(broker, broker') /\ broker'.channels = broker.channels
        /\ broker'.resumed \subseteq broker.resumed /\ broker'.result = broker.result
        /\ broker'.phase = broker.phase \/ (broker.phase = "Active" /\ broker'.phase = "Refusing")
    <3>1. CASE broker' = broker
      BY <1>0, <3>1 DEF Alike
    <3>2. CASE broker' = DecideRefusal(broker)
      BY <1>0, <3>2, DecideShape
    <3>. QED BY <2>1, <3>1, <3>2
  <2>3. Onward /\ Quietly
    BY <2>2, AlikeGoes DEF Running
  <2>. QED BY <1>1, <2>2, <2>3, NobodyKeeps DEF Quietly, Linked
<1>3. CASE \E ch \in broker.channels : DropChannel(ch)
  <2>1. PICK ch \in broker.channels : DropChannel(ch)
    BY <1>3
  <2>2. ch \in Channels /\ broker' = ChannelDropped(broker, ch)
    BY <1>0, <2>1 DEF BrokerStates, DropChannel
  <2>3. /\ broker' \in BrokerStates /\ Alike(broker, broker') /\ broker'.resumed \subseteq broker.resumed
        /\ \/ /\ broker'.phase = broker.phase /\ broker'.result = broker.result
              /\ broker'.channels = broker.channels \ {ch}
           \/ Running(broker) /\ broker'.phase = "Finished" /\ broker'.result = "Failed"
    BY <1>0, <2>2, DropShape
  <2>4. Onward /\ Quietly
    BY <2>3, AlikeGoes
  <2>5. ASSUME NEW q \in Procs, Linked(q), Alive(q), Serving' PROVE Linked(q)'
    <3>1. ch # <<q, chan[q].n>>
      BY <2>1, <2>5 DEF DropChannel, Linked
    <3>. QED BY <1>1, <2>3, <2>5, <3>1 DEF Linked, Serving
  <2>. QED BY <1>1, <2>3, <2>4, <2>5, NobodyKeeps DEF Quietly
<1>4. CASE Lapse
  <2>1. PICK r \in {"Refused", "Failed", "Deadline"} :
          broker' = Failed(broker, r) /\ Running(broker)
    BY <1>0, <1>4 DEF Lapse, BrokerStates
  <2>2. /\ broker' \in BrokerStates /\ Alike(broker, broker') /\ broker'.resumed \subseteq broker.resumed
        /\ broker'.phase = "Finished" /\ broker'.result = r
    BY <1>0, <2>1, FailedShape
  <2>3. Onward /\ Quietly
    BY <2>1, <2>2, AlikeGoes
  <2>. QED BY <1>1, <2>2, <2>3, NobodyKeeps DEF Quietly, Serving
<1>5. CASE BrokerPublishes
  <2>1. PICK r \in {"ok", "Failed"} :
          /\ broker.phase = "Publishing"
          /\ broker' = FinishedAs(broker, r) \/ broker' = Interrupted(FinishedAs(broker, r))
    BY <1>5 DEF BrokerPublishes
  <2>2. /\ broker' \in BrokerStates /\ Alike(broker, broker') /\ broker'.resumed \subseteq broker.resumed
        /\ broker'.phase = "Finished"
    BY <1>0, <2>1 DEF FinishedAs, Interrupted, BrokerStates, Alike
  <2>3. Onward
    BY <2>1, <2>2 DEF Onward, Alike
  <2>. QED BY <1>1, <2>1, <2>2, <2>3, NobodyKeeps DEF Alike, Serving
<1>. QED BY <1>2, <1>3, <1>4, <1>5 DEF BrokerStep

LEMMA WorldKeeps ==
  ASSUME IInv, World
  PROVE  IInv'
<1>. USE DEF IInv
<1>0. broker \in BrokerStates
  BY DEF Types
<1>1. CASE DeadlinePasses /\ UNCHANGED <<tree, channel, walk, rc, coordinator>>
  <2>1. /\ UNCHANGED Loop
        /\ UNCHANGED <<discovered, pc, chan, rc, fate, todo, claiming, destructive, drained, reaped>>
    BY <1>1 DEF coordinator, pass, count, Loop, tree, walk, channel
  <2>2. /\ broker' = [broker EXCEPT !.expired = TRUE] /\ broker' \in BrokerStates
        /\ Running(broker)
    BY <1>0, <1>1 DEF DeadlinePasses, BrokerStates
  <2>3. /\ broker'.groups = broker.groups /\ broker'.resumed = broker.resumed
        /\ broker'.phase = broker.phase /\ broker'.channels = broker.channels /\ broker'.expired
        /\ broker'.up = broker.up /\ broker'.irreversible = broker.irreversible
        /\ broker'.registered = broker.registered /\ broker'.sealed = broker.sealed
        /\ broker'.result = broker.result
    BY <1>0, <2>2 DEF BrokerStates
  <2>4. Onward
    BY <2>2, <2>3 DEF Onward
  <2>. QED BY <2>1, <2>2, <2>3, <2>4, NobodyKeeps DEF Linked, Published
<1>2. CASE BrokerStops /\ UNCHANGED <<tree, channel, walk, rc, coordinator>>
  <2>1. /\ UNCHANGED Loop
        /\ UNCHANGED <<discovered, pc, chan, rc, fate, todo, claiming, destructive, drained, reaped>>
    BY <1>2 DEF coordinator, pass, count, Loop, tree, walk, channel
  <2>2. broker' = [broker EXCEPT !.channels = {}, !.resumed = {}, !.up = FALSE]
    BY <1>2 DEF BrokerStops, Interrupted
  <2>3. /\ broker'.groups = broker.groups /\ broker'.resumed = {} /\ ~broker'.up
        /\ broker'.phase = broker.phase /\ broker'.expired = broker.expired
        /\ broker'.irreversible = broker.irreversible
        /\ broker'.registered = broker.registered /\ broker'.sealed = broker.sealed
        /\ broker'.result = broker.result /\ broker' \in BrokerStates
    BY <1>0, <2>2 DEF BrokerStates
  <2>4. Onward
    BY <2>2, <2>3 DEF Onward
  <2>. QED BY <2>1, <2>3, <2>4, NobodyKeeps DEF Serving, Published
<1>3. CASE /\ \E p \in Procs : (\E q \in Procs : Fork(p, q)) \/ Quit(p) \/ Wait(p)
           /\ UNCHANGED coordinator
  BY <1>3, ForkKeeps, QuitKeeps, WaitKeeps
<1>. QED BY <1>1, <1>2, <1>3 DEF World

-----------------------------------------------------------------------------
(* Steps of the coordinator.                                               *)

LEMMA RootIsProc ==
  Root \in Procs
  BY CaptureAssumption DEF CaptureAssumption

(* The coordinator exits, with or without a word.                          *)
LEMMA RootEndsKeeps ==
  ASSUME IInv, NEW why \in {"captured", "terminal"}, Ends(Root, why),
         Alive(Root), pc[Root] # "resumed",
         Served(Root), NoProgress, ChanType', broker'.resumed \subseteq broker.resumed,
         \A q \in Procs \ {Root} : chan'[q] = chan[q],
         UNCHANGED <<Loop, discovered, reaped, rc, todo, claiming, destructive, drained>>
  PROVE  IInv'
<1>. USE DEF IInv
<1>1. Moves(Root) /\ pc'[Root] \in Dead
  BY RootIsProc, EndsShape DEF Moves, Types, RootLabels, MemberLabels, Dead
<1>2. Ledger
  BY DEF Ledger
<1>. QED BY <1>1, <1>2, RootIsProc, DyingKeeps DEF Spared

LEMMA RefusesKeeps ==
  ASSUME IInv, CoordinatorRefuses, Alive(Root), pc[Root] # "resumed",
         UNCHANGED <<Loop, discovered, reaped, rc, todo, claiming, destructive, drained>>,
         \/ broker' = broker
         \/ Running(broker) /\ broker' = Failed(broker, "Deadline")
  PROVE  IInv'
<1>. USE DEF IInv
<1>1. Ends(Root, "terminal") /\ chan' = Poisoned(Root)
  BY DEF CoordinatorRefuses
<1>2. ChanType' /\ \A q \in Procs \ {Root} : chan'[q] = chan[q]
  BY <1>1, RootIsProc, PoisonShape
<1>3. Served(Root) /\ NoProgress /\ broker'.resumed \subseteq broker.resumed
  <2>1. CASE broker' = broker
    BY <2>1, RootIsProc, ServedNothing DEF NoProgress
  <2>2. CASE Running(broker) /\ broker' = Failed(broker, "Deadline")
    <3>1. broker \in BrokerStates
      BY DEF Types
    <3>2. /\ broker' \in BrokerStates /\ Alike(broker, broker')
          /\ broker'.resumed \subseteq broker.resumed
          /\ broker'.phase = "Finished" /\ broker'.result = "Deadline"
      BY <2>2, <3>1, FailedShape
    <3>3. Onward /\ Quietly
      BY <2>2, <3>2, AlikeGoes
    <3>. QED BY <3>2, <3>3 DEF Served, Serving, NoProgress, Quietly
  <2>. QED BY <2>1, <2>2
<1>. QED BY <1>1, <1>2, <1>3, RootEndsKeeps

LEMMA CoordinatorSame ==
  ASSUME UNCHANGED <<walk, rc, faults, coordinator>>
  PROVE  /\ UNCHANGED <<Loop, discovered, reaped, rc, todo, claiming, destructive, drained>>
         /\ UNCHANGED <<Loop, discovered>>
  BY DEF coordinator, pass, count, Loop, walk

LEMMA RefuseResumablyKeeps ==
  ASSUME IInv, RefuseResumably
  PROVE  IInv'
<1>. USE DEF IInv
<1>0. /\ UNCHANGED <<Loop, discovered, reaped, rc, todo, claiming, destructive, drained>>
      /\ UNCHANGED <<Loop, discovered>> /\ broker' = broker
      /\ pc[Root] = "refuse" /\ Alive(Root)
  BY CoordinatorSame DEF RefuseResumably, At, Alive
<1>1. CASE CoordinatorRefuses
  BY <1>0, <1>1, RefusesKeeps
<1>2. CASE chan' = Poisoned(Root) /\ Goto(Root, "latch") /\ UNCHANGED <<parent, fate>>
  <2>1. Served(Root) /\ Quietly
    BY <1>0, RootIsProc, ServedNothing
  <2>2. /\ pc' \in [Procs -> RootLabels \union MemberLabels] /\ pc'[Root] = "latch"
        /\ \A q \in Procs \ {Root} : pc'[q] = pc[q]
    BY <1>2, RootIsProc, GotoShape DEF RootLabels
  <2>3. Moves(Root)
    BY <1>0, <1>2, <2>2, RootIsProc, PoisonShape DEF Moves, Types, RootLabels
  <2>4. GoesOn(Root)
    BY <1>0, <2>2 DEF GoesOn, Busy, Alive, Refuses, Admitted, Decided
  <2>. QED BY <1>0, <1>2, <2>1, <2>3, <2>4, RootIsProc, BusyKeeps
<1>. QED BY <1>1, <1>2 DEF RefuseResumably

LEMMA ServedLatch ==
  ASSUME Types, NEW p \in Procs, broker' = RefusalLatched(Joined(p), Ch(p))
  PROVE  Served(p) /\ Quietly
<1>. DEFINE j == Joined(p)
<1>1. /\ j \in BrokerStates /\ j.channels = broker.channels \union {Ch(p)} /\ Alike(broker, j)
      /\ j.resumed = broker.resumed /\ j.phase = broker.phase /\ j.result = broker.result
      /\ Ch(p) \in Channels
  BY Joins
<1>. HIDE DEF j
<1>2. /\ broker' \in BrokerStates /\ Alike(j, broker')
      /\ broker'.channels = j.channels /\ broker'.resumed \subseteq j.resumed
      /\ broker'.phase = IF j.phase = "Active" THEN "Refusing" ELSE j.phase
      /\ broker'.result = j.result
  BY <1>1, LatchShape DEF j
<1>3. Onward /\ Quietly
  BY <1>1, <1>2, AlikeGoes DEF Alike, Running
<1>. QED BY <1>1, <1>2, <1>3 DEF Served, Alike

LEMMA LatchKeeps ==
  ASSUME IInv, Latch
  PROVE  IInv'
<1>. USE DEF IInv
<1>0. /\ UNCHANGED <<Loop, discovered, reaped, rc, todo, claiming, destructive, drained>>
      /\ UNCHANGED <<Loop, discovered>> /\ UNCHANGED fate /\ pc[Root] = "latch"
  BY CoordinatorSame DEF Latch, At
<1>1. /\ Served(Root) /\ Quietly /\ ChanType'
      /\ \A q \in Procs \ {Root} : chan'[q] = chan[q] /\ pc'[q] = pc[q]
      /\ pc' \in [Procs -> RootLabels \union MemberLabels] /\ pc'[Root] \in {"latch", "settle"}
  <2>1. CASE /\ Call(Root, RefusalLatched(Joined(Root), Ch(Root)))
             /\ Goto(Root, IF HasLatched(broker', Ch(Root)) THEN "settle" ELSE "latch")
    <3>1. Served(Root) /\ Quietly
      BY <2>1, RootIsProc, ServedLatch DEF Call
    <3>2. ChanType' /\ \A q \in Procs \ {Root} : chan'[q] = chan[q]
      BY <2>1, RootIsProc, ConnectShape DEF Call
    <3>3. PICK l \in {"latch", "settle"} : Goto(Root, l)
      BY <2>1
    <3>. QED BY <3>1, <3>2, <3>3, RootIsProc, GotoShape DEF RootLabels
  <2>2. CASE Broken(Root) /\ UNCHANGED pc
    BY <1>0, <2>2, RootIsProc, TripShape DEF Types
  <2>. QED BY <2>1, <2>2 DEF Latch
<1>2. Moves(Root)
  BY <1>0, <1>1 DEF Moves, Types, RootLabels
<1>3. GoesOn(Root)
  BY <1>0, <1>1 DEF GoesOn, Busy, Alive, Refuses, Admitted, Decided
<1>. QED BY <1>0, <1>1, <1>2, <1>3, RootIsProc, BusyKeeps

LEMMA GiveUpKeeps ==
  ASSUME IInv, GiveUp
  PROVE  IInv'
<1>. USE DEF IInv
<1>0. /\ UNCHANGED <<Loop, discovered, reaped, rc, todo, claiming, destructive, drained>>
      /\ UNCHANGED <<broker, chan>> /\ pc[Root] \in {"latch", "settle"} /\ Ends(Root, "terminal")
  BY CoordinatorSame DEF GiveUp, At, channel
<1>. QED BY <1>0, RootIsProc, ServedNothing, RootEndsKeeps
     DEF NoProgress, Alive, Types, ChanType

LEMMA PublishesKeeps ==
  ASSUME IInv, Publishes
  PROVE  IInv'
<1>. USE DEF IInv
<1>0. /\ UNCHANGED <<Loop, discovered, reaped, rc, todo, claiming, destructive, drained>>
      /\ UNCHANGED broker /\ pc[Root] = "publishing" /\ Alive(Root)
  BY DEF Publishes, At, Alive, pass, count, walk, Loop
<1>1. CASE Ends(Root, "captured") /\ UNCHANGED <<chan, notes>>
  BY <1>0, <1>1, RootIsProc, ServedNothing, RootEndsKeeps DEF NoProgress, Types, ChanType
<1>2. CASE CoordinatorRefuses
  BY <1>0, <1>2, RefusesKeeps
<1>. QED BY <1>1, <1>2 DEF Publishes

LEMMA ReapKeeps ==
  ASSUME IInv, Reap
  PROVE  IInv'
<1>. USE DEF IInv
<1>0. /\ UNCHANGED <<Loop, discovered>> /\ UNCHANGED <<rc, todo, claiming, drained>>
      /\ pc[Root] = "reap" /\ Alive(Root)
  BY DEF Reap, At, Alive, pass, count, Loop
<1>1. CASE \E z \in Corpses :
             /\ Running(broker) /\ Call(Root, MarkIrreversible(Joined(Root)))
             /\ Goto(z, "gone")
             /\ destructive' = [destructive EXCEPT ![Root] = TRUE]
             /\ UNCHANGED <<parent, fate, notes>>
  <2>1. PICK z \in Procs : /\ pc[z] = "zombie" /\ z # Root /\ Goto(z, "gone")
                           /\ Running(broker) /\ Call(Root, MarkIrreversible(Joined(Root)))
                           /\ destructive' = [destructive EXCEPT ![Root] = TRUE]
                           /\ UNCHANGED fate
    BY <1>0, <1>1 DEF Corpses
  <2>2. Served(Root) /\ Quietly /\ broker'.irreversible
    BY <2>1, RootIsProc, ServedMark DEF Call
  <2>3. ChanType' /\ \A q \in Procs \ {Root} : chan'[q] = chan[q]
    BY <2>1, RootIsProc, ConnectShape DEF Call
  <2>4. /\ pc' \in [Procs -> RootLabels \union MemberLabels] /\ pc'[Root] = "reap"
        /\ \A q \in Procs : pc'[q] = pc[q] \/ (pc[q] = "zombie" /\ pc'[q] = "gone")
    BY <1>0, <2>1, RootIsProc, GotoShape DEF RootLabels
  <2>5. Moves(Root)
    BY <1>0, <2>1, <2>3, <2>4 DEF Moves, Types, RootLabels
  <2>6. GoesOn(Root)
    BY <1>0, <2>4 DEF GoesOn, Busy, Alive, Refuses, Admitted, Decided
  <2>. QED BY <1>0, <2>1, <2>2, <2>5, <2>6, RootIsProc, BusyKeeps
<1>2. CASE CoordinatorRefuses /\ UNCHANGED <<broker, destructive, reaped>>
  BY <1>0, <1>2, RefusesKeeps
<1>. QED BY <1>1, <1>2 DEF Reap

(* A step of the coordinator that ends nothing.                            *)
LEMMA RootIsFine ==
  ASSUME IInv, Types', Served(Root), broker'.groups = broker.groups, Moves(Root), Busy(Root),
         Alive(Root)', pc'[Root] \notin {"unborn"} \union Refuses \union Admitted,
         UNCHANGED <<fate, destructive, claiming>>
  PROVE  Fine
<1>. USE DEF IInv
<1>1. \A q \in Procs \ {Root} : Bystander(q)
  BY RootIsProc, OthersStand
<1>2. Enrols(Root)
  BY DEF Enrols
<1>3. Stays(Root) /\ Settles(Root)
  <2>1. Recoverable' => Recoverable
    BY OnwardWorks DEF Served
  <2>. QED BY <2>1, RootIsProc, BusyActor
<1>. QED BY <1>1, <1>2, <1>3, BystanderIsFine DEF Fine, Served

(* A pass over the processes the coordinator knows.                        *)
LEMMA LookKeeps ==
  ASSUME IInv, pc[Root] = "check", looking' \subseteq known, asking' \in known \union {Outside},
         \/ Call(Root, Joined(Root)) \/ Broken(Root)
         \/ UNCHANGED <<broker, chan>>,
         UNCHANGED <<pc, rc, fate, todo, claiming, destructive, drained, reaped>>,
         UNCHANGED <<known, quiet, discovered>>,
         \/ done' = done
         \/ \E p \in known : done' = done \union {p} /\ (p \in broker.groups \/ pc[p] \in Dead)
  PROVE  IInv'
<1>. USE DEF IInv
<1>1. /\ Served(Root) /\ Quietly /\ ChanType'
      /\ \A q \in Procs \ {Root} : chan'[q] = chan[q]
  BY RootIsProc, TripShape, ServedNothing DEF Types, ChanType
<1>2. Moves(Root)
  BY <1>1 DEF Moves, Types
<1>3. Types'
  <2>1. done' \subseteq known' /\ known' \subseteq Procs \ {Root} /\ quiet' \in Nat
    BY DEF Types
  <2>. QED BY <1>1, <1>2, <2>1, RootIsProc, MoversTypes
<1>4. Fine
  BY <1>1, <1>2, <1>3, RootIsFine DEF Busy, Alive, Refuses, Admitted, Quietly
<1>5. Ledger /\ Counts
  BY <1>1 DEF Ledger, Counts, Quietly, Agreed
<1>6. Goes
  <2>1. done \subseteq done'
    OBVIOUS
  <2>2. Works => \A p \in done' \ done : Frozen(p) \/ pc[p] \in Dead
    BY DEF Freeze, Types
  <2>3. broker'.phase # "Publishing"
    BY <1>1 DEF Quietly, Freeze
  <2>. QED BY <2>1, <2>2, <2>3 DEF Goes
<1>. QED BY <1>1, <1>3, <1>4, <1>5, <1>6, GoesKept DEF Served

LEMMA PassStepsKeep ==
  ASSUME IInv, (\E p \in Procs : LookAt(p)) \/ StillThere \/ AskRegistered
  PROVE  IInv'
<1>. USE DEF IInv
<1>1. /\ pc[Root] = "check" /\ UNCHANGED <<known, quiet, discovered>>
      /\ UNCHANGED <<pc, rc, fate, todo, claiming, destructive, drained, reaped>>
  BY DEF LookAt, StillThere, AskRegistered, At, tree, walk, members, count
<1>2. CASE \E p \in Procs : LookAt(p)
  <2>1. PICK p \in Procs : LookAt(p)
    BY <1>2
  <2>2. p \in known /\ looking' \subseteq known /\ asking' \in known \union {Outside}
    BY <2>1 DEF LookAt, Types
  <2>3. done' = done \/ (done' = done \union {p} /\ p \in broker.groups)
    BY <2>1 DEF LookAt
  <2>. QED BY <1>1, <2>1, <2>2, <2>3, LookKeeps DEF LookAt
<1>3. CASE StillThere
  <2>1. looking' \subseteq known /\ asking' = Outside /\ done' = done /\ UNCHANGED <<broker, chan>>
    BY <1>3 DEF StillThere, Types, members, channel
  <2>. QED BY <1>1, <2>1, LookKeeps
<1>4. CASE AskRegistered
  <2>1. asking \in known /\ looking' \subseteq known /\ asking' = Outside /\ pc[asking] \in Dead
    BY <1>4 DEF AskRegistered, Types, Dead
  <2>2. done' = done \/ done' = done \union {asking}
    BY <1>4 DEF AskRegistered
  <2>. QED BY <1>1, <1>4, <2>1, <2>2, LookKeeps DEF AskRegistered
<1>. QED BY <1>2, <1>3, <1>4

(* The coordinator goes from one part of its loop to another.              *)
LEMMA LoopKeeps ==
  ASSUME IInv, Types', Moves(Root), Served(Root), Quietly,
         pc[Root] \in {"guest", "reap", "check"},
         pc'[Root] \in {"reap", "check", "stopped", "refuse"},
         UNCHANGED <<fate, destructive, claiming, drained>>, reaped' \subseteq reaped,
         done' \subseteq done, \A p \in known' : pc[p] # "unborn",
         Works /\ pc'[Root] = "reap" /\ quiet' > 0 => done' = known',
         \/ Works /\ pc'[Root] = "check" /\ quiet' > 0 /\ ~discovered'
         \/ Works /\ pc'[Root] = "stopped"
         => Still /\ pc[Root] # "guest"
  PROVE  IInv'
<1>. USE DEF IInv
<1>1. Fine
  BY RootIsFine DEF Busy, Alive, Refuses, Admitted, Quietly
<1>2. Onward /\ Ledger /\ Counts
  BY DEF Served, Ledger, Counts, Quietly, Agreed
<1>3. Membership'
  BY <1>1, <1>2, MembershipKept
<1>4. Settlement'
  BY <1>1, <1>2, SettlementKept
<1>5. Freeze'
  <2>1. Works' => Works
    BY <1>2, OnwardWorks
  <2>2. broker'.phase # "Publishing"
    BY DEF Quietly, Freeze
  <2>3. \A p \in known' : pc'[p] # "unborn"
    BY <1>1 DEF Types, Fine, Stays
  <2>4. Works' =>
          /\ \A p \in Procs \ {Root} : p \in broker'.groups => Frozen(p)' \/ pc'[p] \in Dead
          /\ \A p \in done' : Frozen(p)' \/ pc'[p] \in Dead
    BY <1>1, <1>2, PlacesKept
  <2>5. ASSUME Works', \/ pc'[Root] = "check" /\ quiet' > 0 /\ ~discovered'
                       \/ pc'[Root] \in Decided
        PROVE  Still'
    BY <1>1, <2>1, <2>5, StillKept DEF Decided
  <2>6. pc'[Root] \notin Young
    BY DEF Young
  <2>. QED BY <2>1, <2>2, <2>3, <2>4, <2>5, <2>6 DEF Freeze
<1>. QED BY <1>3, <1>4, <1>5

LEMMA CoordinateKeeps ==
  ASSUME IInv, Coordinate
  PROVE  IInv'
<1>. USE DEF IInv
<1>0. /\ UNCHANGED Loop /\ UNCHANGED <<reaped, rc, todo, claiming, destructive, drained>>
      /\ UNCHANGED <<broker, chan, fate>> /\ pc[Root] = "guest" /\ Goto(Root, "reap")
      /\ UNCHANGED <<known, done, quiet>>
  BY CoordinatorSame DEF Coordinate, At, channel, coordinator, pass, count, Loop, walk
<1>1. Served(Root) /\ Quietly
  BY <1>0, RootIsProc, ServedNothing
<1>2. /\ pc' \in [Procs -> RootLabels \union MemberLabels] /\ pc'[Root] = "reap"
      /\ \A q \in Procs \ {Root} : pc'[q] = pc[q]
  BY <1>0, RootIsProc, GotoShape DEF RootLabels
<1>3. Moves(Root)
  BY <1>0, <1>2 DEF Moves, Types, ChanType, RootLabels
<1>4. Types'
  BY <1>0, <1>1, <1>3, RootIsProc, MoversActs
<1>5. quiet = 0 /\ \A p \in known : pc[p] # "unborn"
  BY <1>0 DEF Freeze, Young
<1>. QED BY <1>0, <1>1, <1>2, <1>3, <1>4, <1>5, LoopKeeps

LEMMA ScanKeeps ==
  ASSUME IInv, Scan
  PROVE  IInv'
<1>. USE DEF IInv
<1>. DEFINE new == {p \in Procs \ {Root} : Alive(p)} \ known
<1>0. /\ UNCHANGED <<reaped, rc, todo, claiming, destructive, drained>>
      /\ UNCHANGED <<broker, chan, fate, done, quiet>> /\ pc[Root] = "reap" /\ Goto(Root, "check")
      /\ known' = known \union new /\ discovered' = (new # {}) /\ looking' = known' \ done
      /\ asking' = Outside
  BY DEF Scan, At, channel, count, walk
<1>. HIDE DEF new
<1>1. Served(Root) /\ Quietly
  BY <1>0, RootIsProc, ServedNothing
<1>2. /\ pc' \in [Procs -> RootLabels \union MemberLabels] /\ pc'[Root] = "check"
      /\ \A q \in Procs \ {Root} : pc'[q] = pc[q]
  BY <1>0, RootIsProc, GotoShape DEF RootLabels
<1>3. Moves(Root)
  BY <1>0, <1>2 DEF Moves, Types, ChanType, RootLabels
<1>4. /\ known' \subseteq Procs \ {Root} /\ done' \subseteq known' /\ looking' \subseteq known'
      /\ asking' \in known' \union {Outside} /\ quiet' \in Nat
  BY <1>0 DEF Types, new
<1>5. Types'
  BY <1>1, <1>3, <1>4, RootIsProc, MoversTypes
<1>6. \A p \in known' : pc[p] # "unborn"
  BY <1>0 DEF Freeze, new, Alive
<1>7. ASSUME Works, quiet > 0, ~discovered' PROVE Still
  <2>1. done = known /\ new = {}
    BY <1>0, <1>7 DEF Freeze
  <2>. SUFFICES ASSUME NEW p \in Procs \ {Root}, Alive(p) PROVE Frozen(p)
    BY DEF Still
  <2>2. p \in done
    BY <2>1 DEF new
  <2>. QED BY <1>7, <2>2 DEF Freeze, Alive, Dead
<1>. QED BY <1>0, <1>1, <1>2, <1>3, <1>5, <1>6, <1>7, LoopKeeps

LEMMA PassEndsKeeps ==
  ASSUME IInv, PassEnds
  PROVE  IInv'
<1>. USE DEF IInv
<1>0. /\ UNCHANGED <<rc, todo, claiming, destructive, drained, fate, looking, asking>>
      /\ pc[Root] = "check" /\ looking = {} /\ asking = Outside
      /\ Call(Root, Joined(Root)) \/ Broken(Root)
  BY DEF PassEnds, At, walk
<1>1. /\ Served(Root) /\ Quietly /\ ChanType'
      /\ \A q \in Procs \ {Root} : chan'[q] = chan[q]
  BY <1>0, RootIsProc, TripShape
<1>2. /\ reaped' \subseteq reaped
      /\ \/ LeaveLoop("stopped") /\ NextQuiet = QuietPasses
         \/ LeaveLoop("refuse")
         \/ Goto(Root, "reap") /\ quiet' = NextQuiet /\ UNCHANGED <<known, done>>
  BY DEF PassEnds
<1>3. PICK l \in {"stopped", "refuse", "reap"} :
        /\ Goto(Root, l)
        /\ l = "stopped" => NextQuiet = QuietPasses
        /\ \/ known' = {} /\ done' = {} /\ quiet' = 0
           \/ l = "reap" /\ quiet' = NextQuiet /\ UNCHANGED <<known, done>>
  BY <1>2 DEF LeaveLoop
<1>4. /\ pc' \in [Procs -> RootLabels \union MemberLabels] /\ pc'[Root] = l
      /\ \A q \in Procs \ {Root} : pc'[q] = pc[q]
  BY <1>3, RootIsProc, GotoShape DEF RootLabels
<1>5. Moves(Root)
  BY <1>0, <1>1, <1>4 DEF Moves, Types, RootLabels
<1>6. quiet \in Nat /\ NextQuiet \in Nat /\ (NextQuiet > 0 => IsQuiet)
      /\ (NextQuiet = QuietPasses => quiet > 0)
  BY DEF Types, NextQuiet, QuietPasses
<1>7. /\ known' \subseteq Procs \ {Root} /\ done' \subseteq known' /\ looking' \subseteq known'
      /\ asking' \in known' \union {Outside} /\ quiet' \in Nat
  BY <1>0, <1>3, <1>6 DEF Types
<1>8. Types'
  BY <1>1, <1>5, <1>7, RootIsProc, MoversTypes
<1>9. done' \subseteq done /\ \A p \in known' : pc[p] # "unborn"
  BY <1>3 DEF Freeze
<1>10. Works /\ l = "reap" /\ quiet' > 0 => done' = known'
  BY <1>3, <1>6 DEF IsQuiet
<1>11. Works /\ l = "stopped" => Still
  BY <1>0, <1>3, <1>6 DEF IsQuiet, Freeze, QuietPasses
<1>. QED BY <1>0, <1>1, <1>2, <1>4, <1>5, <1>8, <1>9, <1>10, <1>11, LoopKeeps

LEMMA SettledShape ==
  ASSUME NEW b \in BrokerStates, NEW ch \in Channels
  PROVE  /\ Settled(b, ch) \in BrokerStates /\ Alike(b, Settled(b, ch))
         /\ Settled(b, ch).resumed = b.resumed
         /\ Settled(b, ch).phase = "Finished" /\ Settled(b, ch).result = "Refused"
  BY DEF BrokerStates, Settled, FinishedAs, Alike

(* A refusal that is settled: whoever may have lost something would still  *)
(* hold a channel that was not told to resume.                             *)
LEMMA SettleKeeps ==
  ASSUME IInv, Settle
  PROVE  IInv'
<1>. USE DEF IInv
<1>0. /\ UNCHANGED <<Loop, discovered, reaped, rc, todo, claiming, destructive, drained>>
      /\ UNCHANGED <<Loop, discovered>> /\ UNCHANGED fate /\ pc[Root] = "settle"
      /\ UNCHANGED <<known, done, quiet>>
  BY CoordinatorSame DEF Settle, At, Loop
<1>1. CASE Declined(Root, ~CanSettle(Joined(Root), Ch(Root))) /\ UNCHANGED pc
  <2>1. /\ Served(Root) /\ Quietly /\ ChanType'
        /\ \A q \in Procs \ {Root} : chan'[q] = chan[q]
    BY <1>1, RootIsProc, DeclinedShape
  <2>2. Moves(Root)
    BY <1>0, <1>1, <2>1 DEF Moves, Types
  <2>3. GoesOn(Root)
    BY <1>0, <1>1 DEF GoesOn, Busy, Alive, Refuses, Admitted, Decided
  <2>. QED BY <1>0, <2>1, <2>2, <2>3, RootIsProc, BusyKeeps
<1>2. CASE /\ CanSettle(Joined(Root), Ch(Root))
           /\ Call(Root, Settled(Joined(Root), Ch(Root)))
           /\ Goto(Root, "resumed")
  <2>. DEFINE j == Joined(Root)
  <2>1. /\ j \in BrokerStates /\ j.channels = broker.channels \union {Ch(Root)} /\ Alike(broker, j)
        /\ j.resumed = broker.resumed /\ j.phase = broker.phase /\ j.result = broker.result
        /\ Ch(Root) \in Channels
    BY RootIsProc, Joins
  <2>. HIDE DEF j
  <2>2. /\ broker.up /\ broker.phase = "Refusing" /\ ~broker.irreversible
        /\ broker.channels \ {Ch(Root)} \subseteq broker.resumed
    BY <1>2, <2>1 DEF CanSettle, HasLatched, Call, Reaches, Alike, j
  <2>3. /\ broker' \in BrokerStates /\ Alike(broker, broker') /\ broker'.resumed = broker.resumed
        /\ broker'.phase = "Finished" /\ broker'.result = "Refused"
    BY <1>2, <2>1, SettledShape DEF Call, Alike, j
  <2>4. Onward /\ Quietly
    BY <2>2, <2>3, AlikeGoes DEF Running
  <2>5. Served(Root)
    BY <2>3, <2>4 DEF Served, Serving, Quietly
  <2>6. ChanType' /\ \A q \in Procs \ {Root} : chan'[q] = chan[q]
    BY <1>2, RootIsProc, ConnectShape DEF Call
  <2>7. /\ pc' \in [Procs -> RootLabels \union MemberLabels] /\ pc'[Root] = "resumed"
        /\ \A q \in Procs \ {Root} : pc'[q] = pc[q]
    BY <1>2, RootIsProc, GotoShape DEF RootLabels
  <2>8. Moves(Root)
    BY <1>0, <2>6, <2>7 DEF Moves, Types, RootLabels
  <2>9. Types'
    BY <1>0, <2>5, <2>8, RootIsProc, MoversActs
  <2>10. Fine
    BY <1>0, <2>4, <2>5, <2>7, <2>8, <2>9, RootIsFine DEF Quietly, Busy, Alive, Refuses, Admitted
  <2>11. Ledger /\ Counts
    BY <1>0, <2>3, <2>4, <2>7 DEF Ledger, Counts, Quietly, Agreed, Published
  <2>12. Membership'
    BY <2>4, <2>9, <2>10, <2>11, MembershipKept
  <2>13. Freeze'
    <3>1. ~Works' /\ broker'.phase # "Publishing"
      BY <2>3 DEF Works, Mutable
    <3>2. \A p \in known' : pc'[p] # "unborn"
      BY <1>0, <2>4, <2>9, <2>10, PlacesKept
    <3>. QED BY <2>7, <3>1, <3>2 DEF Freeze, Young
  <2>14. \A p \in Procs : Given(p)'
    <3>. SUFFICES ASSUME NEW p \in Procs PROVE Given(p)'
      OBVIOUS
    <3>1. Recoverable /\ Loyal(p)
      BY <2>2 DEF Recoverable, Running, Settlement
    <3>2. ~Pending(p)
      <4>. SUFFICES ASSUME Pending(p) PROVE FALSE
        OBVIOUS
      <4>1. pc[p] = "consume" /\ <<p, chan[p].n>> \in broker.channels
        BY DEF Pending, Linked
      <4>2. <<p, chan[p].n>> # Ch(Root)
        BY <1>0, <4>1 DEF Ch
      <4>3. pc[p] \in LetGo
        BY <2>2, <4>1, <4>2 DEF Settlement
      <4>. QED BY <4>1, <4>3 DEF LetGo
    <3>3. Spared(p) /\ (Alive(p) => ~destructive[p])
      BY <1>0, <3>1, <3>2 DEF Loyal, Dead
    <3>4. Alive(p)' => Alive(p)
      BY <1>0, <2>7 DEF Alive
    <3>. QED BY <1>0, <3>3, <3>4 DEF Given, Spared
  <2>15. Settlement'
    <3>1. \A p \in Procs : InOrder(p)' /\ (destructive'[p] => pc'[p] # "unborn")
      BY <2>10 DEF Fine, Settles
    <3>2. ASSUME NEW ch \in broker'.resumed PROVE pc'[ch[1]] \in LetGo
      <4>1. ch[1] \in Procs
        BY <2>3, <3>2 DEF BrokerStates, Channels
      <4>. QED BY <2>3, <2>10, <3>2, <4>1 DEF Settlement, Fine, Settles
    <3>3. ~broker'.irreversible /\ (\A o \in drained' : Kind[o] = "signalfd") /\ reaped' = {}
      BY <1>0, <2>2, <2>3 DEF Settlement, Alike
    <3>4. ~Recoverable'
      BY <2>3 DEF Recoverable, Running
    <3>. QED BY <2>3, <2>14, <3>1, <3>2, <3>3, <3>4 DEF Settlement
  <2>. QED BY <2>9, <2>12, <2>13, <2>15
<1>. QED BY <1>1, <1>2 DEF Settle

(* The coordinator seals, counts and commits.                              *)
LEMMA DecisionKeeps ==
  ASSUME IInv, NEW l \in {"count", "commit", "publishing"}, Goto(Root, l), Served(Root),
         chan' = Connected(Root), pc[Root] \in {"seal", "count", "commit"},
         broker'.groups = broker.groups, broker'.resumed = broker.resumed, Counts,
         broker'.phase = "Publishing" => l = "publishing",
         UNCHANGED <<fate, walk, rc, faults, coordinator>>
  PROVE  IInv'
<1>. USE DEF IInv
<1>0. /\ UNCHANGED <<Loop, discovered, reaped, rc, todo, claiming, destructive, drained>>
      /\ UNCHANGED Loop /\ UNCHANGED <<known, done, quiet, discovered>>
  BY CoordinatorSame DEF Loop
<1>1. /\ pc' \in [Procs -> RootLabels \union MemberLabels] /\ pc'[Root] = l
      /\ \A q \in Procs \ {Root} : pc'[q] = pc[q]
  BY RootIsProc, GotoShape DEF RootLabels
<1>2. ChanType' /\ \A q \in Procs \ {Root} : chan'[q] = chan[q]
  BY RootIsProc, ConnectShape
<1>3. Moves(Root)
  BY <1>0, <1>1, <1>2 DEF Moves, Types, RootLabels
<1>4. Types'
  BY <1>0, <1>3, RootIsProc, MoversActs
<1>5. Fine
  BY <1>0, <1>1, <1>3, <1>4, RootIsFine DEF Busy, Alive, Refuses, Admitted
<1>6. Ledger
  BY <1>0 DEF Ledger
<1>7. Goes
  BY <1>0, <1>1 DEF Goes, Young, Decided
<1>. QED BY <1>4, <1>5, <1>6, <1>7, GoesKept DEF Served

LEMMA SealShape ==
  ASSUME NEW b \in BrokerStates
  PROVE  LET c == Sealed(b) IN
         /\ c \in BrokerStates
         /\ c.sealed = IF b.sealed = NotSealed THEN Cardinality(b.registered) ELSE b.sealed
         /\ c.sealed # NotSealed
         /\ c.channels = b.channels /\ c.resumed = b.resumed /\ c.phase = b.phase
         /\ c.result = b.result /\ c.up = b.up /\ c.irreversible = b.irreversible
         /\ c.expired = b.expired /\ c.registered = b.registered /\ c.groups = b.groups
<1>1. Cardinality(b.registered) \in Nat /\ NotSealed \notin Nat
  BY FS_Subset, FS_CardinalityType, CaptureAssumption
     DEF CaptureAssumption, BrokerStates, NotSealed
<1>2. Sealed(b) = [b EXCEPT !.sealed =
                     IF b.sealed = NotSealed THEN Cardinality(b.registered) ELSE b.sealed]
  BY DEF Sealed, BrokerStates
<1>. QED BY <1>1, <1>2 DEF BrokerStates

LEMMA SealKeeps ==
  ASSUME IInv, Seal
  PROVE  IInv'
<1>. USE DEF IInv
<1>0. pc[Root] = "seal" /\ UNCHANGED <<walk, rc, faults, coordinator>>
  BY DEF Seal, At
<1>1. CASE /\ broker.phase \in {"Active", "Publishing"}
           /\ Call(Root, Sealed(Joined(Root)))
           /\ Goto(Root, "count") /\ UNCHANGED <<parent, fate, notes>>
  <2>. DEFINE j == Joined(Root)
  <2>1. /\ j \in BrokerStates /\ j.channels = broker.channels \union {Ch(Root)} /\ Alike(broker, j)
        /\ j.resumed = broker.resumed /\ j.phase = broker.phase /\ j.result = broker.result
    BY RootIsProc, Joins
  <2>. HIDE DEF j
  <2>2. /\ broker' \in BrokerStates
        /\ broker'.sealed = IF j.sealed = NotSealed THEN Cardinality(j.registered) ELSE j.sealed
        /\ broker'.sealed # NotSealed
        /\ broker'.channels = j.channels /\ broker'.resumed = j.resumed /\ broker'.phase = j.phase
        /\ broker'.result = j.result /\ broker'.up = j.up /\ broker'.irreversible = j.irreversible
        /\ broker'.expired = j.expired /\ broker'.registered = j.registered /\ broker'.groups = j.groups
    BY <1>1, <2>1, SealShape DEF Call, j
  <2>3. Onward
    BY <2>1, <2>2 DEF Onward, Alike
  <2>4. Served(Root) /\ broker'.groups = broker.groups /\ broker'.resumed = broker.resumed
    BY <2>1, <2>2, <2>3 DEF Served, Alike
  <2>5. broker.phase # "Publishing" /\ broker'.phase = broker.phase /\ broker'.result = broker.result
    BY <1>0, <2>1, <2>2 DEF Freeze
  <2>6. Counts
    <3>1. pc'[Root] = "count"
      BY <1>1, RootIsProc, GotoShape DEF RootLabels
    <3>. QED BY <2>2, <2>5, <3>1 DEF Counts, Agreed, Published
  <2>. QED BY <1>0, <1>1, <2>4, <2>5, <2>6, DecisionKeeps DEF Call
<1>2. CASE CoordinatorRefuses /\ UNCHANGED broker
  BY <1>0, <1>2, CoordinatorSame, RefusesKeeps DEF Alive
<1>. QED BY <1>1, <1>2 DEF Seal

LEMMA CountKeeps ==
  ASSUME IInv, Count
  PROVE  IInv'
<1>. USE DEF IInv
<1>0. pc[Root] = "count" /\ UNCHANGED <<walk, rc, faults, coordinator>>
  BY DEF Count, At
<1>1. CASE /\ broker.phase # "Finished" /\ CountsAgree
           /\ Call(Root, Joined(Root))
           /\ Goto(Root, "commit") /\ UNCHANGED <<parent, fate, notes>>
  <2>1. Served(Root) /\ Quietly
    BY <1>1, RootIsProc, ServedNothing DEF Call
  <2>2. /\ broker'.groups = broker.groups /\ broker'.resumed = broker.resumed
        /\ broker'.phase = broker.phase
    BY <1>1, RootIsProc, Joins DEF Call, Alike
  <2>3. Counts
    <3>1. pc'[Root] = "commit"
      BY <1>1, RootIsProc, GotoShape DEF RootLabels
    <3>. QED BY <1>0, <1>1, <2>2, <3>1 DEF Counts
  <2>4. broker'.phase # "Publishing"
    BY <1>0, <2>2 DEF Freeze
  <2>. QED BY <1>0, <1>1, <2>1, <2>2, <2>3, <2>4, DecisionKeeps DEF Call
<1>2. CASE CoordinatorRefuses /\ UNCHANGED broker
  BY <1>0, <1>2, CoordinatorSame, RefusesKeeps DEF Alive
<1>. QED BY <1>1, <1>2 DEF Count

LEMMA PublishShape ==
  ASSUME NEW b \in BrokerStates
  PROVE  LET c == [b EXCEPT !.phase = "Publishing"] IN
         /\ c \in BrokerStates /\ Alike(b, c) /\ c.phase = "Publishing"
         /\ c.channels = b.channels /\ c.resumed = b.resumed
  BY DEF BrokerStates, Alike

LEMMA CommitKeeps ==
  ASSUME IInv, Commit
  PROVE  IInv'
<1>. USE DEF IInv
<1>0. pc[Root] = "commit" /\ UNCHANGED <<walk, rc, faults, coordinator>>
  BY DEF Commit, At
<1>1. CASE /\ Mutable(broker)
           /\ Call(Root, [Joined(Root) EXCEPT !.phase = "Publishing"])
           /\ Goto(Root, "publishing") /\ UNCHANGED <<parent, fate, notes>>
  <2>. DEFINE j == Joined(Root)
  <2>1. /\ j \in BrokerStates /\ j.channels = broker.channels \union {Ch(Root)} /\ Alike(broker, j)
        /\ j.resumed = broker.resumed
    BY RootIsProc, Joins
  <2>. HIDE DEF j
  <2>2. /\ broker' \in BrokerStates /\ Alike(j, broker') /\ broker'.phase = "Publishing"
        /\ broker'.channels = j.channels /\ broker'.resumed = j.resumed
    BY <1>1, <2>1, PublishShape DEF Call, j
  <2>3. Onward
    BY <1>1, <2>1, <2>2 DEF Onward, Alike, Mutable
  <2>4. Served(Root) /\ broker'.groups = broker.groups /\ broker'.resumed = broker.resumed
    BY <2>1, <2>2, <2>3 DEF Served, Alike
  <2>5. Counts
    <3>1. pc'[Root] = "publishing"
      BY <1>1, RootIsProc, GotoShape DEF RootLabels
    <3>. QED BY <1>0, <3>1 DEF Counts, Agreed
  <2>. QED BY <1>0, <1>1, <2>4, <2>5, DecisionKeeps DEF Call
<1>2. CASE /\ broker' = IF Reaches(Root) /\ broker.phase = "Active"
                        THEN Failed(broker, "Deadline") ELSE broker
           /\ CoordinatorRefuses
  BY <1>0, <1>2, CoordinatorSame, RefusesKeeps DEF Alive, Running
<1>. QED BY <1>1, <1>2 DEF Commit

-----------------------------------------------------------------------------
(* The invariant and what it says.                                         *)

LEMMA InitIInv ==
  ASSUME Init
  PROVE  IInv
<1>1. broker \in BrokerStates
  BY DEF Init, BrokerStarted, BrokerStates, NotSealed, NoChannel
<1>2. /\ pc \in [Procs -> Young] /\ pc[Root] \in Young
  BY RootIsProc DEF Init, Young
<1>3. Types
  BY <1>1, <1>2 DEF Types, Init, Young, RootLabels, MemberLabels
<1>4. Membership
  BY <1>2 DEF Membership, Init, BrokerStarted, Young, Admitted, Agreed, Published
<1>5. Freeze
  BY <1>2 DEF Freeze, Init, BrokerStarted, Young, Decided
<1>6. Settlement
  BY <1>2 DEF Settlement, Init, BrokerStarted, Young, InOrder, Refuses, Loyal, Spared
<1>. QED BY <1>3, <1>4, <1>5, <1>6 DEF IInv

LEMMA NextIInv ==
  ASSUME IInv, [Next]_vars
  PROVE  IInv'
<1>1. CASE \E p \in Procs : MemberStep(p) /\ UNCHANGED coordinator
  BY <1>1, AnnounceKeeps, WithdrawKeeps, NoticeKeeps, RegisterReadyKeeps, AdmitKeeps, ClaimKeeps,
     DrainKeeps, DrainSignalsKeeps, CommitGroupKeeps, ParkKeeps DEF MemberStep
<1>2. CASE CoordinatorStep
  BY <1>2, CoordinateKeeps, ReapKeeps, ScanKeeps, PassStepsKeep, PassEndsKeeps,
     RefuseResumablyKeeps, LatchKeeps, SettleKeeps, GiveUpKeeps, SealKeeps, CountKeeps, CommitKeeps,
     PublishesKeeps DEF CoordinatorStep
<1>3. CASE BrokerStep
  BY <1>3, BrokerKeeps
<1>4. CASE World
  BY <1>4, WorldKeeps
<1>5. CASE UNCHANGED vars
  <2>1. UNCHANGED <<broker, pc, chan, rc, fate, destructive, claiming, todo, drained, known, done,
                    looking, asking, quiet, discovered, reaped>>
    BY <1>5 DEF vars, members, coordinator, tree, channel, walk, pass, count
  <2>. QED BY <2>1 DEF IInv, Types, Membership, Freeze, Settlement, Works, Frozen, Still, Linked,
            Alive, InOrder, Recoverable, Loyal, Pending, Spared, Given
<1>. QED BY <1>1, <1>2, <1>3, <1>4, <1>5 DEF Next

(* Every state of a capture satisfies the invariant.                       *)
THEOREM CaptureInvariance ==
  Spec => []IInv
  BY InitIInv, NextIInv, PTL DEF Spec

(* A published image holds exactly the processes that proved their         *)
(* membership, however the tree forked, died and refused while it was      *)
(* counted (ckpt_publish_manifest, coordinator.c).                         *)
THEOREM ManifestExact ==
  Spec => []ManifestIsExact
<1>1. IInv => ManifestIsExact
  BY DEF IInv, Membership, ManifestIsExact
<1>. QED BY <1>1, CaptureInvariance, PTL

(* While the manifest is published every other live process of the         *)
(* container is in the image, parked, and has refused nothing              *)
(* (ckpt_coordinate, coordinator.c).                                       *)
THEOREM TreeFrozen ==
  Spec => []PublishedTreeIsFrozen
<1>1. IInv => PublishedTreeIsFrozen
  BY DEF IInv, Freeze, Works, Still, Frozen, PublishedTreeIsFrozen
<1>. QED BY <1>1, CaptureInvariance, PTL

(* A coordinator that settled its refusal gives back its tree, whole but   *)
(* for the signals of a signalfd (ckpt_settle_resumable_refusal,           *)
(* coordinator.c).                                                         *)
THEOREM SettledWhole ==
  Spec => []SettledTreeIsWhole
<1>1. IInv => SettledTreeIsWhole
  BY DEF IInv, Settlement, Given, Spared, SettledTreeIsWhole, Published
<1>. QED BY <1>1, CaptureInvariance, PTL
=============================================================================
