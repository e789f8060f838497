-------------------------- MODULE CheckpointCapture --------------------------
(***************************************************************************)
(* One capture of a container: its processes, the broker and the           *)
(* coordinator (linux_abi/checkpoint/coordinator.c), which is the          *)
(* container init itself.                                                  *)
(*                                                                         *)
(* The coordinator makes passes over the process table.  A pass reaps and  *)
(* records exited children, adopts and interrupts processes it has not     *)
(* seen, and asks of every process not finished yet whether its group is   *)
(* committed, or whether it died without ever joining.  After two quiet    *)
(* passes it dumps itself, seals the membership, compares it with the      *)
(* groups and publishes the manifest.  Anything else ends in a refusal,    *)
(* which gives the tree back if nothing was consumed.                      *)
(***************************************************************************)
EXTENDS CheckpointMember

CONSTANTS StallPasses,   \* CKPT_RENDEZVOUS_STALL_PASSES
          ChurnPasses,   \* CKPT_RENDEZVOUS_CHURN_PASSES
          ReapedMax,     \* CKPT_REAPED_MAX
          Timed,         \* does the deadline pass in any case, or count as a fault?
          Trees          \* the process trees a capture may start from

\* A mutant: one quiet pass is enough.
OneQuietPass == 1

\* CKPT_ENUMERATION_QUIET_PASSES
QuietPasses == 2

VARIABLES known, done,         \* the processes adopted, and those waited for no more
          looking, asking,     \* this pass: processes left to look at, the one being asked about
          discovered, settled, \* this pass: was a process adopted, did one finish
          quiet, stalled, churning,
          reaped,              \* the exit statuses the coordinator took and wrote down
          discarded            \* those its last reap took after the manifest was published

pass  == <<looking, asking, discovered, settled>>
count == <<quiet, stalled, churning>>
coordinator == <<known, done, pass, count, reaped, discarded>>
vars == <<broker, members, coordinator>>

TypeOK ==
  /\ BrokerType /\ MemberType
  /\ known \subseteq Procs /\ done \subseteq known /\ looking \subseteq known
  /\ asking \in known \cup {Outside}
  /\ discovered \in BOOLEAN /\ settled \in BOOLEAN
  /\ quiet \in 0 .. QuietPasses /\ stalled \in 0 .. StallPasses /\ churning \in 0 .. ChurnPasses
  /\ reaped \subseteq Procs /\ Cardinality(reaped) <= ReapedMax
  /\ discarded \subseteq Procs

Init ==
  /\ broker = BrokerStarted
  /\ \E t \in Trees :
       /\ parent = t.parent /\ holds = t.holds
       /\ pc = [p \in Procs |-> IF p \in t.born THEN "guest" ELSE "unborn"]
  /\ chan = [p \in Procs |-> [n |-> 0, open |-> FALSE]] /\ notes = {}
  /\ todo = [p \in Procs |-> {}] /\ claiming = [p \in Procs |-> NoClaim]
  /\ destructive = [p \in Procs |-> FALSE] /\ drained = {}
  /\ rc = [p \in Procs |-> "none"] /\ fate = [p \in Procs |-> "none"]
  /\ faults = 0
  /\ known = {} /\ done = {} /\ looking = {} /\ asking = Outside
  /\ discovered = FALSE /\ settled = FALSE
  /\ quiet = 0 /\ stalled = 0 /\ churning = 0
  /\ reaped = {} /\ discarded = {}

At(label) == pc[Root] = label

\* ckpt_coordinator_refuse: announce the refusal and exit.
CoordinatorRefuses ==
  /\ notes' = IF chan[Root].open /\ Reaches(Root) THEN notes \cup {Ch(Root)} ELSE notes
  /\ Ends(Root, "terminal")
  /\ chan' = Poisoned(Root)

(***************************************************************************)
(* The rendezvous.                                                         *)
(***************************************************************************)
\* The init sees the generation at its safepoint and becomes the coordinator.
Coordinate ==
  /\ At("guest") /\ Goto(Root, "reap")
  /\ UNCHANGED <<broker, parent, fate, channel, walk, rc, faults, coordinator>>

Corpses == {p \in Procs : pc[p] = "zombie" /\ parent[p] = Root}

\* The broker is told before a status is destroyed; a status too many ends the capture.
Reap ==
  /\ At("reap")
  /\ \E z \in Corpses :
       \/ /\ Running(broker) /\ Call(Root, MarkIrreversible(Joined(Root)))
          /\ Cardinality(reaped) < ReapedMax
          /\ Goto(z, "gone") /\ reaped' = reaped \cup {z}
          /\ destructive' = [destructive EXCEPT ![Root] = TRUE]
          /\ UNCHANGED <<parent, fate, notes>>
       \/ /\ ~(Reaches(Root) /\ Running(broker)) \/ Cardinality(reaped) = ReapedMax
          /\ CoordinatorRefuses
          /\ UNCHANGED <<broker, destructive, reaped>>
  /\ UNCHANGED <<holds, todo, claiming, drained, rc, faults, known, done, pass, count, discarded>>

\* Every live process of the container that is not known yet is adopted and kicked.
\* One step stands for one listing of the pid map, which "enumerates the tree at
\* one instant", and the test of each listed process that follows it.  (A process
\* that forks after the listing and dies before its test leaves a child that this
\* pass misses; the next pass lists the child.  Only a chain of such processes, one
\* for each quiet pass, would stay out of sight: the model does not have it.)
Scan ==
  /\ At("reap") /\ Corpses = {}
  /\ LET new == {p \in Procs \ {Root} : Alive(p)} \ known IN
       /\ known' = known \cup new
       /\ discovered' = (new # {})
       /\ looking' = known' \ done
  /\ settled' = FALSE /\ asking' = Outside
  /\ Goto(Root, "check")
  /\ UNCHANGED <<broker, parent, fate, channel, walk, rc, faults, done, count, reaped, discarded>>

\* Is the group of this process in the image?  If not, is it still there?
LookAt(p) ==
  /\ At("check") /\ asking = Outside
  /\ p \in looking
  /\ Call(Root, Joined(Root)) \/ Broken(Root)
  /\ IF Reaches(Root) /\ broker.phase # "Finished" /\ p \in broker.groups
     THEN /\ done' = done \cup {p} /\ settled' = TRUE
          /\ looking' = looking \ {p} /\ UNCHANGED asking
     ELSE /\ asking' = p /\ UNCHANGED <<done, settled, looking>>
  /\ UNCHANGED <<tree, notes, walk, rc, faults, known, discovered, count, reaped, discarded>>

\* ckpt_peer_never_contributed: gone first, and only then never registered.
StillThere ==
  /\ At("check") /\ asking # Outside
  /\ pc[asking] # "gone"
  /\ looking' = looking \ {asking} /\ asking' = Outside
  /\ UNCHANGED <<broker, members, known, done, discovered, settled, count, reaped, discarded>>

NeverRegistered(p) == Reaches(Root) /\ broker.phase # "Finished" /\ p \notin broker.registered

AskRegistered ==
  /\ At("check") /\ asking # Outside
  /\ pc[asking] = "gone"
  /\ Call(Root, Joined(Root)) \/ Broken(Root)
  /\ IF NeverRegistered(asking)
     THEN done' = done \cup {asking} /\ settled' = TRUE
     ELSE UNCHANGED <<done, settled>>
  /\ looking' = looking \ {asking} /\ asking' = Outside
  /\ UNCHANGED <<tree, notes, walk, rc, faults, known, discovered, count, reaped, discarded>>

IsQuiet == done = known /\ ~discovered

\* A pass without news counts as stalled unless a process still waited for burnt time.
Outstanding == {p \in known \ done : Alive(p)}

\* The loop's locals end with the loop.
LeaveLoop(label) ==
  /\ Goto(Root, label)
  /\ known' = {} /\ done' = {} /\ discovered' = FALSE /\ settled' = FALSE
  /\ quiet' = 0 /\ stalled' = 0 /\ churning' = 0

NextQuiet   == IF IsQuiet THEN quiet + 1 ELSE 0
NextStalled == IF discovered \/ settled THEN 0 ELSE stalled + 1
NextChurn   == IF discovered THEN churning + 1 ELSE 0

PassEnds ==
  /\ At("check") /\ looking = {} /\ asking = Outside
  /\ Call(Root, Joined(Root)) \/ Broken(Root)
  /\ \/ /\ NextQuiet = QuietPasses
        /\ reaped' = reaped \ (IF Reaches(Root) THEN broker.groups ELSE {})
        /\ LeaveLoop("stopped")
     \/ /\ NextQuiet < QuietPasses /\ UNCHANGED reaped
        /\ IF Reaches(Root) /\ broker.phase = "Refusing"
           THEN LeaveLoop("refuse")
           ELSE \E still \in {NextStalled} \cup {0 : p \in Outstanding} :
                  IF still = StallPasses \/ NextChurn = ChurnPasses
                  THEN LeaveLoop("refuse")
                  ELSE /\ quiet' = NextQuiet /\ stalled' = still /\ churning' = NextChurn
                       /\ Goto(Root, "reap")
                       /\ UNCHANGED <<known, done, discovered, settled>>
  /\ UNCHANGED <<parent, fate, notes, walk, rc, faults, looking, asking, discarded>>

(***************************************************************************)
(* ckpt_settle_resumable_refusal: announce, claim the settlement and ask   *)
(* for it until the tree has been given back.                              *)
(***************************************************************************)
RefuseResumably ==
  /\ At("refuse")
  /\ IF destructive[Root]
     THEN CoordinatorRefuses
     ELSE /\ notes' = IF chan[Root].open /\ Reaches(Root) THEN notes \cup {Ch(Root)} ELSE notes
          /\ chan' = Poisoned(Root)
          /\ Goto(Root, "latch") /\ UNCHANGED <<parent, fate>>
  /\ UNCHANGED <<broker, walk, rc, faults, coordinator>>

Latch ==
  /\ At("latch")
  /\ \/ /\ Call(Root, RefusalLatched(Joined(Root), Ch(Root)))
        /\ Goto(Root, IF HasLatched(broker', Ch(Root)) THEN "settle" ELSE "latch")
     \/ Broken(Root) /\ UNCHANGED pc
  /\ UNCHANGED <<parent, fate, notes, walk, rc, faults, coordinator>>

Settle ==
  /\ At("settle")
  /\ \/ /\ CanSettle(Joined(Root), Ch(Root))
        /\ Call(Root, Settled(Joined(Root), Ch(Root)))
        /\ Goto(Root, "resumed")
     \/ /\ Declined(Root, ~CanSettle(Joined(Root), Ch(Root)))
        /\ UNCHANGED pc
  /\ UNCHANGED <<parent, fate, notes, walk, rc, faults, coordinator>>

\* Every pass was spent.
GiveUp ==
  /\ \/ At("latch") /\ ~(broker.up /\ HasLatched(RefusalLatched(Joined(Root), Ch(Root)), Ch(Root)))
     \/ At("settle") /\ ~(Reaches(Root) /\ CanSettle(Joined(Root), Ch(Root)))
  /\ Ends(Root, "terminal")
  /\ UNCHANGED <<broker, channel, walk, rc, faults, coordinator>>

(***************************************************************************)
(* ckpt_publish_manifest: seal the membership, count the groups, commit.   *)
(***************************************************************************)
Seal ==
  /\ At("seal")
  /\ \/ /\ broker.phase \in {"Active", "Publishing"}
        /\ Call(Root, Sealed(Joined(Root)))
        /\ Goto(Root, "count") /\ UNCHANGED <<parent, fate, notes>>
     \/ /\ ~(Reaches(Root) /\ broker.phase \in {"Active", "Publishing"})
        /\ CoordinatorRefuses /\ UNCHANGED broker
  /\ UNCHANGED <<walk, rc, faults, coordinator>>

\* A mutant: only a surplus of groups is refused.
CountsNoSurplus == Cardinality(broker.groups) <= broker.sealed

CountsAgree == Cardinality(broker.groups) = broker.sealed

Count ==
  /\ At("count")
  /\ \/ /\ broker.phase # "Finished" /\ CountsAgree
        /\ Call(Root, Joined(Root))
        /\ Goto(Root, "commit") /\ UNCHANGED <<parent, fate, notes>>
     \/ /\ ~(Reaches(Root) /\ broker.phase # "Finished" /\ CountsAgree)
        /\ CoordinatorRefuses /\ UNCHANGED broker
  /\ UNCHANGED <<walk, rc, faults, coordinator>>

Commit ==
  /\ At("commit")
  /\ \/ /\ Mutable(broker)
        /\ Call(Root, [Joined(Root) EXCEPT !.phase = "Publishing"])
        /\ Goto(Root, "publishing") /\ UNCHANGED <<parent, fate, notes>>
     \/ /\ ~(Reaches(Root) /\ Mutable(broker))
        /\ broker' = IF Reaches(Root) /\ broker.phase = "Active"
                     THEN Failed(broker, "Deadline") ELSE broker
        /\ CoordinatorRefuses
  /\ UNCHANGED <<walk, rc, faults, coordinator>>

\* The store commits the generation or rejects it.
BrokerPublishes ==
  /\ broker.up /\ broker.phase = "Publishing"
  /\ \/ broker' = FinishedAs(broker, "ok") /\ UNCHANGED faults
     \/ /\ Fault
        /\ \/ broker' = FinishedAs(broker, "Failed")
           \/ broker' = Interrupted(FinishedAs(broker, "Failed"))
  /\ UNCHANGED <<tree, channel, walk, rc, coordinator>>

\* The last reap destroys what it finds; then the init exits.
Publishes ==
  /\ At("publishing")
  /\ ~Reaches(Root) \/ broker.phase = "Finished"
  /\ IF Reaches(Root) /\ Published(broker)
     THEN /\ discarded' = Corpses
          /\ Ends(Root, "captured")
          /\ UNCHANGED <<chan, notes>>
     ELSE CoordinatorRefuses /\ UNCHANGED discarded
  /\ UNCHANGED <<broker, walk, rc, faults, known, done, pass, count, reaped>>

(***************************************************************************)
(* The system.                                                             *)
(***************************************************************************)
MemberStep(p) ==
  \/ Announce(p) \/ Withdraw(p) \/ Notice(p) \/ RegisterReady(p) \/ Admit(p)
  \/ \E o \in Objects : Claim(p, o)
  \/ Drain(p) \/ DrainSignals(p) \/ CommitGroup(p) \/ Park(p)

CoordinatorStep ==
  \/ Coordinate \/ Reap \/ Scan \/ (\E p \in Procs : LookAt(p)) \/ StillThere \/ AskRegistered \/ PassEnds
  \/ RefuseResumably \/ Latch \/ Settle \/ GiveUp
  \/ Seal \/ Count \/ Commit \/ Publishes

BrokerStep ==
  \/ /\ \E ch \in notes : HearRefusal(ch)
     /\ UNCHANGED coordinator
  \/ /\ \E ch \in broker.channels : DropChannel(ch)
     /\ UNCHANGED coordinator
  \/ Lapse /\ UNCHANGED <<members, coordinator>>
  \/ BrokerPublishes

World ==
  \/ /\ DeadlinePasses
     /\ IF Timed THEN UNCHANGED faults ELSE Fault
     /\ UNCHANGED <<tree, channel, walk, rc, coordinator>>
  \/ BrokerStops /\ Fault /\ UNCHANGED <<tree, channel, walk, rc, coordinator>>
  \/ /\ \E p \in Procs : (\E q \in Procs : Fork(p, q)) \/ Quit(p) \/ Wait(p)
     /\ UNCHANGED coordinator

Next ==
  \/ \E p \in Procs : MemberStep(p) /\ UNCHANGED coordinator
  \/ CoordinatorStep
  \/ BrokerStep
  \/ World

Spec == Init /\ [][Next]_vars

(***************************************************************************)
(* What a capture promises.                                                *)
(***************************************************************************)
\* A published image holds exactly the processes that proved membership, however
\* the tree forked and died while it was counted (ckpt_publish_manifest).
ManifestIsExact == Published(broker) => broker.groups = broker.registered

\* The reap after the publication is "deliberately NOT recording" because
\* "Nothing unrecorded can reach it" (coordinator.c:131-135).
FinalReapLosesNothing == discarded \subseteq broker.groups

\* A process whose pipe the capture emptied is not handed back to its guest:
\* "resuming would hand the guest a silently emptied pipe or socket" (capture.c).
ResumedIsWhole == \A p \in Procs : pc[p] = "resumed" => holds[p] \cap drained = {}

\* From the moment the manifest is being published, every other live process of
\* the container is in the image, parked, and has refused nothing.
PublishedTreeIsFrozen ==
  broker.up /\ broker.phase = "Publishing" =>
    \A p \in Procs \ {Root} : Alive(p) => p \in broker.groups /\ pc[p] = "park" /\ rc[p] = "ok"

\* A coordinator that settled its refusal (ckpt_settle_resumable_refusal) gives
\* back its tree: no pipe or socket was drained, no exit status was taken, no
\* process was put to death by the capture, and nothing was published.  (Of what
\* a capture consumes only the signals of a signalfd may be missing.)
SettledTreeIsWhole ==
  pc[Root] = "resumed" =>
    /\ \A o \in drained : Kind[o] = "signalfd"
    /\ reaped = {}
    /\ \A p \in Procs : fate[p] \in {"none", "quit"}
    /\ ~Published(broker)

\* ckpt_capture_signalfd: "A capture that is refused is required to leave the
\* container exactly as it found it" (descriptor_capture.c:193-194): when the
\* refusal is settled, nothing a process held has been drained.
RefusalRestores == pc[Root] = "resumed" => drained = {}

\* A frozen process is always released, whoever dies: its park ends.
ParkEnds == \A p \in Procs : pc[p] = "park" ~> pc[p] # "park"

\* The init does not coordinate for ever: it resumes or it exits.
CaptureEnds == pc[Root] = "reap" ~> pc[Root] \in {"resumed", "zombie", "gone"}

FairSpec ==
  /\ Spec
  /\ WF_vars(DeadlinePasses /\ UNCHANGED <<members, coordinator>>)
  /\ WF_vars(CoordinatorStep) /\ WF_vars(GiveUp) /\ WF_vars(BrokerStep)
  /\ \A p \in Procs : WF_vars(MemberStep(p) /\ UNCHANGED coordinator)
=============================================================================
