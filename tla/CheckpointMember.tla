-------------------------- MODULE CheckpointMember --------------------------
(***************************************************************************)
(* A process of the captured tree (linux_abi/checkpoint: ckpt_poll,        *)
(* ckpt_dump_self, the descriptor capture and the park), with the channel  *)
(* it talks to the broker through (engine/checkpoint_channel.c).           *)
(*                                                                         *)
(* At a safepoint a process sees the new generation, stops its threads,    *)
(* proves its membership, is admitted, claims and drains the shared        *)
(* objects it holds, commits its group and parks until it is released.  A  *)
(* process that cannot go on names its refusal, withdraws its group and,   *)
(* if it had begun its dump, parks as well.  Each round trip to the broker *)
(* is one step; guest code, deaths and the other processes run in between. *)
(***************************************************************************)
EXTENDS CheckpointBroker

CONSTANTS Root,       \* the container init, which coordinates the capture
          Outside,    \* the parent of a process that is not of this container
          Kind,       \* what each object is
          MaxFaults   \* bound on deaths, refusals and failures together

ASSUME CaptureAssumption ==
  /\ IsFiniteSet(Procs) /\ Root \in Procs /\ Outside \notin Procs
  /\ MaxFaults \in Nat /\ Kind \in [Objects -> {"pipe", "socket", "signalfd"}]

VARIABLES pc, parent, holds,   \* the process tree and the descriptors it shares
          chan, notes,         \* channels to the broker; announcements still in flight
          todo, claiming,      \* descriptor walk: objects left, the one being claimed
          destructive,         \* g_ckpt_capture_destructive
          rc, fate,            \* the result of the dump; how the process ended
          drained,             \* the objects whose contents have left the kernel
          faults

NoClaim == <<>>

tree    == <<pc, parent, fate>>
channel == <<chan, notes>>
walk    == <<holds, todo, claiming, destructive, drained>>
members == <<tree, channel, walk, rc, faults>>

Alive(p)  == pc[p] \notin {"unborn", "zombie", "gone"}
\* Guest code runs before the generation is seen and after the process was let go.
Free(p)   == pc[p] \in {"guest", "resumed"}

MemberType ==
  /\ pc \in [Procs -> STRING]
  /\ parent \in [Procs -> Procs \cup {Outside}]
  /\ holds \in [Procs -> SUBSET Objects] /\ todo \in [Procs -> SUBSET Objects]
  /\ chan \in [Procs -> [n : Nat, open : BOOLEAN]]
  /\ notes \subseteq Channels
  /\ claiming \in [Procs -> (Objects \X {"won", "lost"}) \cup {NoClaim}]
  /\ destructive \in [Procs -> BOOLEAN]
  /\ rc \in [Procs -> {"none", "ok", "refused", "unparked"}]
  /\ fate \in [Procs -> {"none", "quit", "captured", "terminal"}]
  /\ drained \subseteq Objects
  /\ faults \in 0 .. MaxFaults

Fault == faults < MaxFaults /\ faults' = faults + 1

(***************************************************************************)
(* The channel.  The first call of a process announces a new channel; a    *)
(* call that fails forgets the channel, so the next one opens another.     *)
(***************************************************************************)
Ch(p)        == IF chan[p].open THEN <<p, chan[p].n>> ELSE <<p, chan[p].n + 1>>
Connected(p) == [chan EXCEPT ![p] = [n |-> Ch(p)[2], open |-> TRUE]]
Poisoned(p)  == [chan EXCEPT ![p].open = FALSE]
Reaches(p)   == broker.up /\ (chan[p].open => Ch(p) \in broker.channels)
Joined(p)    == [broker EXCEPT !.channels = @ \cup {Ch(p)}]

Call(p, next) == Reaches(p) /\ broker' = next /\ chan' = Connected(p)
Broken(p)     == ~Reaches(p) /\ chan' = Poisoned(p) /\ UNCHANGED broker

\* A call whose answer is an error, or that got no answer.
Declined(p, refused) == (refused /\ Call(p, Joined(p))) \/ Broken(p)

Goto(p, label) == pc' = [pc EXCEPT ![p] = label]

(***************************************************************************)
(* Refusing: the announcement is sent without waiting for an answer and    *)
(* costs the process its channel; the group is withdrawn over a new one.   *)
(***************************************************************************)
Refuse(p, result) == Goto(p, "announce") /\ rc' = [rc EXCEPT ![p] = result]

Announce(p) ==
  /\ pc[p] = "announce"
  /\ notes' = IF chan[p].open /\ Reaches(p) THEN notes \cup {Ch(p)} ELSE notes
  /\ chan' = Poisoned(p)
  /\ Goto(p, "withdraw")
  /\ UNCHANGED <<broker, parent, fate, walk, rc, faults>>

\* Where a process goes when ckpt_dump_self is over.
AfterDump(p, result) ==
  IF p = Root THEN (IF result = "ok" THEN "seal" ELSE "refuse")
              ELSE (IF result = "unparked" THEN "resumed" ELSE "park")

Withdraw(p) ==
  /\ pc[p] = "withdraw"
  /\ Call(p, AbortGroup(Joined(p))) \/ Broken(p)
  /\ Goto(p, AfterDump(p, rc[p]))
  /\ UNCHANGED <<parent, fate, notes, walk, rc, faults>>

\* The broker reads an announcement of a process that is still there.
HearRefusal(ch) ==
  /\ ch \in notes
  /\ notes' = notes \ {ch}
  /\ broker' = IF ch \in broker.channels /\ Alive(ch[1]) THEN DecideRefusal(broker) ELSE broker
  /\ UNCHANGED <<tree, chan, walk, rc, faults>>

\* The broker sees the end of a channel after everything that was sent on it.
DropChannel(ch) ==
  /\ ch \in broker.channels \ notes
  /\ ~Alive(ch[1]) \/ ~chan[ch[1]].open \/ chan[ch[1]].n # ch[2]
  /\ broker' = ChannelDropped(broker, ch)
  /\ UNCHANGED members

(***************************************************************************)
(* The dump.                                                               *)
(***************************************************************************)
\* The leader of the process sees the generation and stops its threads.
Notice(p) ==
  /\ pc[p] = "guest" /\ p # Root
  /\ \/ Goto(p, "stopped") /\ UNCHANGED <<rc, faults>>
     \/ Fault /\ Refuse(p, "unparked")
  /\ UNCHANGED <<broker, parent, fate, channel, walk>>

RegisterReady(p) ==
  /\ pc[p] = "stopped"
  /\ \/ /\ Call(p, Registered(Joined(p), p)) /\ CanRegister(broker, p)
        /\ Goto(p, "admit") /\ UNCHANGED rc
     \/ /\ Call(p, ChannelDropped(Joined(p), Ch(p))) /\ ~CanRegister(broker, p)
        /\ Refuse(p, "unparked")
     \/ Broken(p) /\ Refuse(p, "unparked")
  /\ UNCHANGED <<parent, fate, notes, walk, faults>>

\* First walk: every gate is asked and nothing is claimed.  A process with a
\* seccomp filter is refused before its dump begins.
Admit(p) ==
  /\ pc[p] = "admit"
  /\ \/ /\ Goto(p, "consume") /\ todo' = [todo EXCEPT ![p] = holds[p]]
        /\ UNCHANGED <<rc, faults>>
     \/ Fault /\ (Refuse(p, "refused") \/ Refuse(p, "unparked")) /\ UNCHANGED todo
  /\ UNCHANGED <<broker, parent, fate, channel, holds, claiming, destructive, drained>>

\* Second walk: the first process to claim an object drains it.  The other
\* holders of a pipe are as damaged as it is; those of a socket or a signalfd
\* have nothing left to do for it.
Claim(p, o) ==
  /\ pc[p] = "consume" /\ claiming[p] = NoClaim
  /\ o \in todo[p]
  /\ \/ /\ Mutable(broker)
        /\ Call(p, [Joined(p) EXCEPT !.claims = @ \cup {o}])
        /\ \/ /\ o \notin broker.claims \/ Kind[o] = "pipe"
              /\ claiming' = [claiming EXCEPT ![p] =
                                <<o, IF o \in broker.claims THEN "lost" ELSE "won">>]
              /\ destructive' = [destructive EXCEPT ![p] = @ \/ o \in broker.claims]
              /\ UNCHANGED todo
           \/ /\ o \in broker.claims /\ Kind[o] # "pipe"
              /\ todo' = [todo EXCEPT ![p] = @ \ {o}]
              /\ UNCHANGED <<claiming, destructive>>
        /\ UNCHANGED <<pc, rc>>
     \/ /\ Declined(p, ~Mutable(broker))
        /\ Refuse(p, "refused")
        /\ UNCHANGED <<claiming, destructive, todo>>
  /\ UNCHANGED <<parent, fate, notes, holds, drained, faults>>

\* A pipe or a socket: the broker is told first; the winner then opens the
\* object in the image, and only an open object is filled from the queue.
Drain(p) ==
  /\ pc[p] = "consume" /\ claiming[p] # NoClaim /\ Kind[claiming[p][1]] # "signalfd"
  /\ claiming' = [claiming EXCEPT ![p] = NoClaim]
  /\ \/ /\ Running(broker) /\ Call(p, MarkIrreversible(Joined(p)))
        /\ destructive' = [destructive EXCEPT ![p] = TRUE]
        /\ IF claiming[p][2] = "won" /\ ~Mutable(broker)
           THEN Refuse(p, "refused") /\ UNCHANGED <<drained, todo>>
           ELSE /\ drained' = IF claiming[p][2] = "won" THEN drained \cup {claiming[p][1]} ELSE drained
                /\ todo' = [todo EXCEPT ![p] = @ \ {claiming[p][1]}]
                /\ UNCHANGED <<pc, rc>>
     \/ /\ Declined(p, ~Running(broker))
        /\ Refuse(p, "refused")
        /\ UNCHANGED <<destructive, drained, todo>>
  /\ UNCHANGED <<parent, fate, notes, holds, faults>>

\* A signalfd: its winner opens the object and takes the queued signals, and
\* tells neither the broker nor itself that they are gone.
DrainSignals(p) ==
  /\ pc[p] = "consume" /\ claiming[p] # NoClaim /\ Kind[claiming[p][1]] = "signalfd"
  /\ claiming' = [claiming EXCEPT ![p] = NoClaim]
  /\ \/ /\ Mutable(broker) /\ Call(p, Joined(p))
        /\ drained' = drained \cup {claiming[p][1]}
        /\ todo' = [todo EXCEPT ![p] = @ \ {claiming[p][1]}]
        /\ UNCHANGED <<pc, rc>>
     \/ /\ Declined(p, ~Mutable(broker))
        /\ Refuse(p, "refused")
        /\ UNCHANGED <<drained, todo>>
  /\ UNCHANGED <<parent, fate, notes, holds, destructive, faults>>

CommitGroup(p) ==
  /\ pc[p] = "consume" /\ todo[p] = {}
  /\ \/ /\ Mutable(broker) /\ Call(p, [Joined(p) EXCEPT !.groups = @ \cup {p}])
        /\ Goto(p, AfterDump(p, "ok")) /\ rc' = [rc EXCEPT ![p] = "ok"]
        /\ UNCHANGED faults
     \/ /\ Declined(p, ~Mutable(broker))
        /\ Refuse(p, "refused") /\ UNCHANGED faults
     \/ Fault /\ Refuse(p, "refused") /\ UNCHANGED <<broker, chan>>
  /\ UNCHANGED <<parent, fate, notes, walk>>

(***************************************************************************)
(* The end of a process: its children go to the container init, and it     *)
(* stays a zombie until its parent collects it.                            *)
(***************************************************************************)
Ends(p, why) ==
  /\ pc' = [q \in Procs |->
              IF q = p THEN (IF parent[p] = Outside THEN "gone" ELSE "zombie")
              ELSE IF p = Root /\ parent[q] = Root /\ pc[q] = "zombie" THEN "gone" ELSE pc[q]]
  /\ parent' = [q \in Procs |->
                  IF parent[q] # p THEN parent[q]
                  ELSE IF p = Root \/ ~Alive(Root) THEN Outside ELSE Root]
  /\ fate' = [fate EXCEPT ![p] = why]

\* ckpt_poll after the park: the image owns the process, or its queues are
\* gone, or nothing happened to it and the guest runs on.
Released(p, disposition) ==
  IF disposition = "EXIT" \/ destructive[p]
  THEN Ends(p, IF disposition = "EXIT" /\ rc[p] = "ok" THEN "captured" ELSE "terminal")
  ELSE Goto(p, "resumed") /\ UNCHANGED <<parent, fate>>

\* A mutant: a round trip that fails reads as HOLD.
ParkThroughSilence(p) ==
  /\ pc[p] = "park"
  /\ \/ /\ Call(p, Answered(Joined(p), Ch(p)))
        /\ IF Disposition(broker) = "HOLD" THEN UNCHANGED tree
                                           ELSE Released(p, Disposition(broker))
     \/ Broken(p) /\ UNCHANGED tree
  /\ UNCHANGED <<notes, walk, rc, faults>>

Park(p) ==
  /\ pc[p] = "park"
  /\ \/ /\ Call(p, Answered(Joined(p), Ch(p)))
        /\ IF Disposition(broker) = "HOLD" THEN UNCHANGED tree
                                           ELSE Released(p, Disposition(broker))
     \/ Broken(p) /\ Released(p, "RESUME")
  /\ UNCHANGED <<notes, walk, rc, faults>>

(***************************************************************************)
(* The guest, and death from outside.  What a process that was let go does *)
(* afterwards is left out: it and its children have seen the generation    *)
(* and take no further part in the capture.                                *)
(***************************************************************************)
Fork(p, q) ==
  /\ pc[p] = "guest" /\ pc[q] = "unborn"
  /\ Goto(q, "guest")
  /\ parent' = [parent EXCEPT ![q] = p]
  /\ holds' = [holds EXCEPT ![q] = holds[p]]
  /\ UNCHANGED <<broker, fate, channel, todo, claiming, destructive, drained, rc, faults>>

Quit(p) ==
  /\ Alive(p) /\ pc[p] # "resumed"
  /\ \/ pc[p] = "guest" /\ p # Root /\ UNCHANGED faults
     \/ Fault
  /\ Ends(p, "quit")
  /\ UNCHANGED <<broker, channel, walk, rc>>

Wait(q) ==
  /\ pc[q] = "zombie"
  /\ parent[q] \in Procs => Free(parent[q])
  /\ Goto(q, "gone")
  /\ UNCHANGED <<broker, parent, fate, channel, walk, rc, faults>>
=============================================================================
