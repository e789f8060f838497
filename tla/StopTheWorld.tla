---------------------------- MODULE StopTheWorld ----------------------------
(***************************************************************************)
(* How the guest threads of one process are stopped while the code cache,  *)
(* the mappings or a checkpoint change under them: the dispatcher loop     *)
(* (engine/dispatch.c, run_guest) and the quiescing protocol               *)
(* (translator/cache.c).                                                   *)
(*                                                                         *)
(* A quiescer (cache rotation "flush", BUS "activate", mapping or SMC      *)
(* window "map", checkpoint "capture") takes the locks jit -> quiesce ->   *)
(* reg, advances `request`, raises `gate` and waits for its peers.  A peer *)
(* answers at a safepoint: it stores `request` in its ack and stays while  *)
(* the gate is up.  Before it enters translated code it publishes that it  *)
(* is about to and looks at the gate again.                                *)
(*                                                                         *)
(* Every thread is one registry slot.  pc names the point of the           *)
(* dispatcher the thread has reached; a shared load or store that another  *)
(* thread could see separately is a step of its own.  All loads and stores *)
(* are sequentially consistent, which the seq_cst of the code gives the    *)
(* gate, the request and in_translated.                                    *)
(***************************************************************************)
EXTENDS Naturals, FiniteSets

CONSTANTS
  Threads,    \* guest threads that may ever exist
  First,      \* the thread whose clone() makes the process threaded
  NoThread,   \* owner of a free lock
  MaxOps,     \* bound on the quiescing operations of a behaviour
  Window,     \* generations the map keeps besides the current one (3 in the code)
  Retain      \* whether a rotation keeps the map of younger generations (g_smc_seen)

ASSUME StopAssumption ==
  First \in Threads /\ NoThread \notin Threads /\ MaxOps \in Nat
    /\ Window \in Nat \ {0} /\ Retain \in BOOLEAN

VARIABLES
  jit, quiesce, reg,  \* owners of g_jit_lock, g_quiesce_lock, g_stw_reg_lock
  gate, request,      \* g_dispatch_gate, g_dispatch_request
  used, ack, translated, departing, execGen,  \* the fields of g_stw_threads, by thread
  irq, inService,     \* those of cpu a thread polls or publishes, by thread
  sig,                \* whether STW_SIG is pending for a thread
  parked,             \* "no", or the next load of stw_park_handler: "gate", "ack"
  pc, ret, op,        \* dispatcher point, where a safepoint returns to, open operation
  passed,             \* slots the round of the wait in progress has passed
  sel,                \* selected translation: its generation, code version, epoch
  gen, retired, map,  \* g_cache_gen, retired arenas, generations the map leads to
  code,               \* version of the guest code and mapping translations stand for
  fatal,              \* g_jit_fatal
  left                \* operations left (bound)

locks == <<jit, quiesce, reg>>
barrier == <<gate, request>>
slot == <<used, ack, translated, departing, execGen>>
cpu == <<irq, inService, sig>>
cache == <<gen, retired, map, code, fatal>>
vars == <<locks, barrier, slot, cpu, parked, pc, ret, op, passed, sel, cache, left>>

Operations == {"none", "flush", "activate", "map", "capture"}
Points == {"none", "born", "enlist", "top", "sp", "ack", "poll", "lock", "lookup",
           "peers", "translate", "enter", "publish", "recheck", "run", "reason", "service",
           "quiesce", "bump", "raise", "registry", "kick", "wait", "await",
           "window", "release", "refuse", "unlock", "depart", "delist", "leave", "gone"}

NoSelection == [gen |-> 0, code |-> 0, epoch |-> 0]
Nowhere == [t \in Threads |-> FALSE]

(* The first thread has run alone and is in the clone() that creates the   *)
(* next thread: from here on the dispatcher takes its threaded paths.      *)
Init ==
  /\ jit = NoThread /\ quiesce = NoThread /\ reg = NoThread
  /\ gate = FALSE /\ request = 0
  /\ used = [t \in Threads |-> t = First]
  /\ ack = [t \in Threads |-> 0] /\ execGen = [t \in Threads |-> 0]
  /\ translated = Nowhere /\ departing = Nowhere
  /\ inService = [t \in Threads |-> t = First]
  /\ irq = Nowhere /\ sig = Nowhere
  /\ parked = [t \in Threads |-> "no"]
  /\ pc = [t \in Threads |-> IF t = First THEN "service" ELSE "none"]
  /\ ret = [t \in Threads |-> "top"]
  /\ op = [t \in Threads |-> "none"]
  /\ passed = [t \in Threads |-> {}]
  /\ sel = [t \in Threads |-> NoSelection]
  /\ gen = 1 /\ retired = {} /\ map = {} /\ code = 0 /\ fatal = FALSE
  /\ left = MaxOps

(* A signal sent to a thread is delivered before its next step.  A local   *)
(* of run_guest that is dead (ret, sel, passed) has a fixed value.         *)
At(t, point) == pc[t] = point /\ parked[t] = "no" /\ ~sig[t]
Goto(t, point) == pc' = [pc EXCEPT ![t] = point] /\ ret' = [ret EXCEPT ![t] = "top"]
Safepoint(t, point) == pc' = [pc EXCEPT ![t] = "sp"] /\ ret' = [ret EXCEPT ![t] = point]
Peers(t) == {u \in Threads \ {t} : used[u]}
Member(u) == used[u] /\ ~departing[u]

-----------------------------------------------------------------------------
(* The safepoint: stw_dispatch_safepoint_slot loads the gate, and while it *)
(* is up answers with the request it then reads.                           *)
SafepointGate(t) ==
  /\ At(t, "sp")
  /\ IF gate THEN pc' = [pc EXCEPT ![t] = "ack"] /\ UNCHANGED ret ELSE Goto(t, ret[t])
  /\ UNCHANGED <<locks, barrier, slot, cpu, parked, op, passed, sel, cache, left>>

SafepointAck(t) ==
  /\ At(t, "ack")
  /\ ack' = [ack EXCEPT ![t] = request]
  /\ pc' = [pc EXCEPT ![t] = "sp"]
  /\ UNCHANGED <<locks, barrier, used, translated, departing, execGen, cpu, parked,
                 ret, op, passed, sel, cache, left>>

(* stw_park_handler on STW_SIG: a thread outside translated code and       *)
(* outside a syscall stays in the handler, wherever it was, and answers;   *)
(* any other only sees its irq raised.  With the gate down the handler     *)
(* returns (nothing raises g_stw_active).                                  *)
Deliver(t) ==
  /\ sig[t] /\ parked[t] = "no"
  /\ LET seen == gate /\ used[t]
         stays == seen /\ ~translated[t] /\ ~inService[t]
     IN /\ sig' = [sig EXCEPT ![t] = FALSE]
        /\ irq' = [irq EXCEPT ![t] = @ \/ seen]
        /\ parked' = [parked EXCEPT ![t] = IF stays THEN "gate" ELSE "no"]
  /\ UNCHANGED <<locks, barrier, slot, inService, pc, ret, op, passed, sel, cache, left>>

HandlerGate(t) ==
  /\ parked[t] = "gate"
  /\ parked' = [parked EXCEPT ![t] = IF gate THEN "ack" ELSE "no"]
  /\ UNCHANGED <<locks, barrier, slot, cpu, pc, ret, op, passed, sel, cache, left>>

HandlerAck(t) ==
  /\ parked[t] = "ack"
  /\ ack' = [ack EXCEPT ![t] = request]
  /\ parked' = [parked EXCEPT ![t] = "gate"]
  /\ UNCHANGED <<locks, barrier, used, translated, departing, execGen, cpu, pc,
                 ret, op, passed, sel, cache, left>>

-----------------------------------------------------------------------------
(* A thread's life: spawn_thread makes the host thread, run_guest          *)
(* registers it (stw_register, then thread_register), and its last steps   *)
(* mark it departing, pass one more safepoint and give both entries back.  *)
Spawn(t, u) ==
  /\ At(t, "service") /\ pc[u] = "none"
  /\ pc' = [pc EXCEPT ![u] = "born"]
  /\ UNCHANGED <<locks, barrier, slot, cpu, parked, ret, op, passed, sel, cache, left>>

Register(t) ==
  /\ At(t, "born") /\ reg = NoThread
  /\ used' = [used EXCEPT ![t] = TRUE]
  /\ ack' = [ack EXCEPT ![t] = request]
  /\ translated' = [translated EXCEPT ![t] = FALSE]
  /\ departing' = [departing EXCEPT ![t] = FALSE]
  /\ execGen' = [execGen EXCEPT ![t] = gen]
  /\ Goto(t, "enlist")
  /\ UNCHANGED <<locks, barrier, cpu, parked, op, passed, sel, cache, left>>

Enlist(t) ==
  /\ At(t, "enlist")
  /\ Goto(t, "top")
  /\ UNCHANGED <<locks, barrier, slot, cpu, parked, op, passed, sel, cache, left>>

(* Mutant: the thread leaves without saying so.                            *)
DepartUnmarked(t) ==
  /\ At(t, "depart")
  /\ Safepoint(t, "delist")
  /\ UNCHANGED <<locks, barrier, slot, cpu, parked, op, passed, sel, cache, left>>

Depart(t) ==
  /\ At(t, "depart")
  /\ departing' = [departing EXCEPT ![t] = TRUE]
  /\ Safepoint(t, "delist")
  /\ UNCHANGED <<locks, barrier, used, ack, translated, execGen, cpu, parked, op,
                 passed, sel, cache, left>>

Delist(t) ==
  /\ At(t, "delist")
  /\ Goto(t, "leave")
  /\ UNCHANGED <<locks, barrier, slot, cpu, parked, op, passed, sel, cache, left>>

Unregister(t) ==
  /\ At(t, "leave") /\ reg = NoThread
  /\ used' = [used EXCEPT ![t] = FALSE]
  /\ ack' = [ack EXCEPT ![t] = 0] /\ execGen' = [execGen EXCEPT ![t] = 0]
  /\ translated' = [translated EXCEPT ![t] = FALSE]
  /\ departing' = [departing EXCEPT ![t] = FALSE]
  /\ irq' = [irq EXCEPT ![t] = FALSE] /\ sig' = [sig EXCEPT ![t] = FALSE]
  /\ inService' = [inService EXCEPT ![t] = FALSE]
  /\ Goto(t, "gone")
  /\ UNCHANGED <<locks, barrier, parked, op, passed, sel, cache, left>>

-----------------------------------------------------------------------------
(* The dispatcher loop.                                                    *)

(* Loop top: a fatal engine ends the thread; the irq is consumed; the      *)
(* thread passes the loop-top safepoint.                                   *)
Top(t) ==
  /\ At(t, "top")
  /\ \/ fatal /\ Goto(t, "depart") /\ UNCHANGED irq
     \/ /\ ~fatal
        /\ irq' = [irq EXCEPT ![t] = FALSE]
        /\ Safepoint(t, "poll")
  /\ UNCHANGED <<locks, barrier, slot, inService, sig, parked, op, passed, sel,
                 cache, left>>

(* ckpt_poll() with nothing requested: on to the cache lookup.             *)
Poll(t) ==
  /\ At(t, "poll")
  /\ Goto(t, "lock")
  /\ UNCHANGED <<locks, barrier, slot, cpu, parked, op, passed, sel, cache, left>>

(* smc_commit takes the writer lock with a plain pthread_mutex_lock; every *)
(* other thread tries it and passes a safepoint after each failure.        *)
BlocksOnJit(t) == op[t] = "map" /\ ~inService[t]

JitDispatchLock(t) ==
  /\ At(t, "lock")
  /\ \/ /\ jit = NoThread
        /\ jit' = t
        /\ Goto(t, IF op[t] = "none" THEN "lookup" ELSE "quiesce")
     \/ /\ jit # NoThread /\ ~BlocksOnJit(t)
        /\ Safepoint(t, "lock")
        /\ UNCHANGED jit
  /\ UNCHANGED <<quiesce, reg, barrier, slot, cpu, parked, op, passed, sel, cache, left>>

(* With the writer lock still held, the thread publishes the generation it *)
(* is about to execute and remembers the request as its epoch.             *)
Select(t, g) ==
  /\ sel' = [sel EXCEPT ![t] = [gen |-> g, code |-> code, epoch |-> request]]
  /\ execGen' = [execGen EXCEPT ![t] = g]
  /\ jit' = NoThread
  /\ Safepoint(t, "enter")
  /\ UNCHANGED <<used, ack, translated, departing>>

Hit(t) ==
  /\ At(t, "lookup")
  /\ \E g \in map : Select(t, g)
  /\ UNCHANGED <<quiesce, reg, barrier, cpu, parked, op, passed, cache, left>>

Translate(t) ==
  /\ At(t, "lookup") \/ At(t, "translate")
  /\ map' = map \union {gen}
  /\ Select(t, gen)
  /\ UNCHANGED <<quiesce, reg, barrier, cpu, parked, op, passed,
                 gen, retired, code, fatal, left>>

(* A miss with the arena full (jit_cache_needs_rotation).                  *)
NeedsRotation(t) ==
  /\ At(t, "lookup") /\ left > 0
  /\ left' = left - 1
  /\ Goto(t, "peers")
  /\ UNCHANGED <<locks, barrier, slot, cpu, parked, op, passed, sel, cache>>

RewindInPlace == gen' = gen + 1 /\ map' = {} /\ UNCHANGED <<retired, code, fatal>>

(* stw_peers_live decides between a stop-the-world flush and rewinding the *)
(* arena in place, which reuses its bytes under a new generation.          *)
Rotate(t) ==
  /\ At(t, "peers") /\ reg = NoThread
  /\ \/ /\ Peers(t) # {}
        /\ op' = [op EXCEPT ![t] = "flush"]
        /\ Goto(t, "quiesce")
        /\ UNCHANGED cache
     \/ /\ Peers(t) = {}
        /\ RewindInPlace
        /\ Goto(t, "translate")
        /\ UNCHANGED op
  /\ UNCHANGED <<locks, barrier, slot, cpu, parked, passed, sel, left>>

(* stw_before_translated: refuse a selection of an older epoch, publish    *)
(* in_translated, and only then look at gate and request again; a thread   *)
(* that sees either moved withdraws.                                       *)
Retry(t) == Goto(t, "top") /\ sel' = [sel EXCEPT ![t] = NoSelection]

Enter(t) ==
  /\ At(t, "enter")
  /\ \/ request # sel[t].epoch /\ Retry(t)
     \/ request = sel[t].epoch /\ Goto(t, "publish") /\ UNCHANGED sel
  /\ UNCHANGED <<locks, barrier, slot, cpu, parked, op, passed, cache, left>>

Publish(t) ==
  /\ At(t, "publish")
  /\ translated' = [translated EXCEPT ![t] = TRUE]
  /\ Goto(t, "recheck")
  /\ UNCHANGED <<locks, barrier, used, ack, departing, execGen, cpu, parked, op,
                 passed, sel, cache, left>>

(* Mutants: enter whatever moved meanwhile; look at the gate only.         *)
RecheckNothing(t) ==
  /\ At(t, "recheck")
  /\ Goto(t, "run")
  /\ UNCHANGED <<locks, barrier, slot, cpu, parked, op, passed, sel, cache, left>>

RecheckGateOnly(t) ==
  /\ At(t, "recheck")
  /\ \/ ~gate /\ Goto(t, "run") /\ UNCHANGED translated
     \/ /\ gate
        /\ translated' = [translated EXCEPT ![t] = FALSE]
        /\ Safepoint(t, "enter")
  /\ UNCHANGED <<locks, barrier, used, ack, departing, execGen, cpu, parked, op,
                 passed, sel, cache, left>>

Recheck(t) ==
  /\ At(t, "recheck")
  /\ \/ /\ ~gate /\ request = sel[t].epoch
        /\ Goto(t, "run")
        /\ UNCHANGED <<translated, sel>>
     \/ /\ gate \/ request # sel[t].epoch
        /\ translated' = [translated EXCEPT ![t] = FALSE]
        /\ IF request # sel[t].epoch THEN Retry(t) ELSE Safepoint(t, "enter") /\ UNCHANGED sel
  /\ UNCHANGED <<locks, barrier, used, ack, departing, execGen, cpu, parked, op, passed,
                 cache, left>>

(* In the cache: a block goes on to another translation through the IBTC   *)
(* without the dispatcher, or returns to it (stw_after_translated).        *)
Chain(t) ==
  /\ At(t, "run")
  /\ \E g \in map : sel' = [sel EXCEPT ![t] = [gen |-> g, code |-> @.code, epoch |-> @.epoch]]
  /\ UNCHANGED <<locks, barrier, slot, cpu, parked, pc, ret, op, passed, cache, left>>

Return(t) ==
  /\ At(t, "run")
  /\ translated' = [translated EXCEPT ![t] = FALSE]
  /\ execGen' = [execGen EXCEPT ![t] = 0]
  /\ sel' = [sel EXCEPT ![t] = NoSelection]
  /\ Safepoint(t, "reason")
  /\ UNCHANGED <<locks, barrier, used, ack, departing, cpu, parked, op, passed,
                 cache, left>>

(* Why the block returned: a branch, or a syscall.                         *)
Branch(t) ==
  /\ At(t, "reason")
  /\ Goto(t, "top")
  /\ UNCHANGED <<locks, barrier, slot, cpu, parked, op, passed, sel, cache, left>>

Service(t) ==
  /\ At(t, "reason")
  /\ inService' = [inService EXCEPT ![t] = TRUE]
  /\ Goto(t, "service")
  /\ UNCHANGED <<locks, barrier, slot, irq, sig, parked, op, passed, sel, cache, left>>

EndService(t) ==
  /\ At(t, "service")
  /\ inService' = [inService EXCEPT ![t] = FALSE]
  /\ Goto(t, "top") \/ Goto(t, "depart")
  /\ UNCHANGED <<locks, barrier, slot, irq, sig, parked, op, passed, sel, cache, left>>

-----------------------------------------------------------------------------
(* The quiescers.  A syscall opens a mapping window or activates a BUS     *)
(* guard, smc_commit opens a window after a block returned, and            *)
(* ckpt_dump_self arms a capture at the loop top.                          *)
Begin(t) ==
  /\ left > 0 /\ left' = left - 1
  /\ \E point \in {"service", "reason", "poll"}, o \in {"map", "activate", "capture"} :
       /\ At(t, point)
       /\ <<point, o>> \in {<<"service", "map">>, <<"service", "activate">>,
                            <<"reason", "map">>, <<"poll", "capture">>}
       /\ op' = [op EXCEPT ![t] = o]
  /\ Goto(t, "lock")
  /\ UNCHANGED <<locks, barrier, slot, cpu, parked, passed, sel, cache>>

(* stw_quiesce_lock never waits for an epoch with the writer lock held.    *)
QuiesceLock(t) ==
  /\ At(t, "quiesce")
  /\ \/ quiesce = NoThread /\ quiesce' = t /\ Goto(t, "bump") /\ UNCHANGED jit
     \/ quiesce # NoThread /\ jit' = NoThread /\ Safepoint(t, "lock") /\ UNCHANGED quiesce
  /\ UNCHANGED <<reg, barrier, slot, cpu, parked, op, passed, sel, cache, left>>

Bump(t) ==
  /\ At(t, "bump")
  /\ request' = request + 1
  /\ Goto(t, "raise")
  /\ UNCHANGED <<locks, gate, slot, cpu, parked, op, passed, sel, cache, left>>

Raise(t) ==
  /\ At(t, "raise")
  /\ gate' = TRUE
  /\ Goto(t, "registry")
  /\ UNCHANGED <<locks, request, slot, cpu, parked, op, passed, sel, cache, left>>

(* The arming scan under the registry lock.  A capture interrupts every    *)
(* peer and gives the writer lock back; the others only those in the cache.*)
Arm(t) ==
  /\ At(t, "registry") /\ reg = NoThread
  /\ reg' = t
  /\ ack' = IF Member(t) THEN [ack EXCEPT ![t] = request] ELSE ack
  /\ LET called == {u \in Peers(t) : Member(u) /\ (op[t] = "capture" \/ translated[u])}
     IN irq' = [u \in Threads |-> irq[u] \/ u \in called]
  /\ jit' = IF op[t] = "capture" THEN NoThread ELSE jit
  /\ Goto(t, IF op[t] = "capture" THEN "kick" ELSE "wait")
  /\ UNCHANGED <<quiesce, barrier, used, translated, departing, execGen,
                 inService, sig, parked, op, passed, sel, cache, left>>

(* ckpt_interrupt_threads: irq and STW_SIG, once, for every peer in the    *)
(* thread registry (thread_register .. thread_unregister).                 *)
Listed(u) == pc[u] \notin {"none", "born", "enlist", "leave", "gone"}

Kick(t) ==
  /\ At(t, "kick")
  /\ irq' = [u \in Threads |-> irq[u] \/ (u # t /\ Listed(u))]
  /\ sig' = [u \in Threads |-> sig[u] \/ (u # t /\ Listed(u))]
  /\ Goto(t, "await")
  /\ UNCHANGED <<locks, barrier, slot, inService, parked, op, passed, sel, cache, left>>

(* One slot of a round of stw_wait_translated_acks: a peer in translated   *)
(* code that has not answered is interrupted again and the round starts    *)
(* over; the wait ends with a round that passed every slot.                *)
InCacheUnanswered(u) == used[u] /\ translated[u] /\ ack[u] < request

WaitSlot(t, u) ==
  /\ At(t, "wait") /\ u \notin passed[t]
  /\ \/ /\ InCacheUnanswered(u)
        /\ irq' = [irq EXCEPT ![u] = TRUE]
        /\ passed' = [passed EXCEPT ![t] = {}]
     \/ /\ ~InCacheUnanswered(u)
        /\ passed' = [passed EXCEPT ![t] = @ \union {u}]
        /\ UNCHANGED irq
  /\ UNCHANGED <<locks, barrier, slot, inService, sig, parked, pc, ret, op, sel,
                 cache, left>>

(* One slot of a round of stw_checkpoint_wait: every member must answer.   *)
Unanswered(u) == Member(u) /\ ack[u] < request

AwaitSlot(t, u) ==
  /\ At(t, "await") /\ u \notin passed[t]
  /\ passed' = [passed EXCEPT ![t] = IF Unanswered(u) THEN {} ELSE @ \union {u}]
  /\ UNCHANGED <<locks, barrier, slot, cpu, parked, pc, ret, op, sel, cache, left>>

WaitDone(t) ==
  /\ At(t, "wait") \/ At(t, "await")
  /\ passed[t] = Threads
  /\ passed' = [passed EXCEPT ![t] = {}]
  /\ Goto(t, "window")
  /\ UNCHANGED <<locks, barrier, slot, cpu, parked, op, sel, cache, left>>

(* The checkpoint's wait is bounded: the capture is refused and the        *)
(* barrier lowered.                                                        *)
GiveUp(t) ==
  /\ At(t, "await") /\ \E u \in Threads : Unanswered(u)
  /\ passed' = [passed EXCEPT ![t] = {}]
  /\ Goto(t, "refuse")
  /\ UNCHANGED <<locks, barrier, slot, cpu, parked, op, sel, cache, left>>

(* A rotation that keeps the map first drops the translations of the       *)
(* generation that leaves the sliding window.                              *)
Evicted == map \ {g \in map : gen >= Window /\ g = gen - Window}

GenInUse(g) == \E u \in Threads : used[u] /\ execGen[u] = g

(* What reclaim_retired leaves: a retired arena stays while a thread       *)
(* publishes its generation or the map leads into it.                      *)
Reclaimed(kept) == {g \in retired : GenInUse(g) \/ g \in kept}

(* jit_flush_to_fresh: evict, reclaim, retire the current arena and start  *)
(* a new generation.  The fresh arena may be unavailable.                  *)
FlushToFresh(keep) ==
  LET kept == IF keep THEN Evicted ELSE map
  IN \/ /\ retired' = Reclaimed(kept) \union {gen}
        /\ gen' = gen + 1
        /\ map' = IF keep THEN kept ELSE {}
        /\ UNCHANGED fatal
     \/ /\ retired' = Reclaimed(kept) /\ map' = kept /\ fatal' = TRUE
        /\ UNCHANGED gen

(* smc_commit drops every translation of the code that changed.            *)
Invalidate == map' = {} /\ code' = code + 1 /\ UNCHANGED <<gen, retired, fatal>>

(* What the window is for.  An activation and a window that invalidates    *)
(* code leave no translation of the old code in the map.                   *)
Act(t) ==
  /\ At(t, "window")
  /\ \/ op[t] = "flush" /\ FlushToFresh(Retain) /\ UNCHANGED code
     \/ op[t] = "activate" /\ FlushToFresh(FALSE) /\ code' = IF fatal' THEN code ELSE code + 1
     \/ op[t] = "map" /\ Invalidate
     \/ op[t] \in {"map", "capture"} /\ UNCHANGED cache
  /\ Goto(t, "release")
  /\ UNCHANGED <<locks, barrier, slot, cpu, parked, op, passed, sel, left>>

Release(t) ==
  /\ At(t, "release") \/ At(t, "refuse")
  /\ gate' = FALSE
  /\ Goto(t, "unlock")
  /\ UNCHANGED <<locks, request, slot, cpu, parked, op, passed, sel, cache, left>>

(* The locks are given back in the order registry, quiesce, jit.  A flush  *)
(* keeps the writer lock to translate; if it failed, the thread exits.     *)
Unlock(t) ==
  /\ At(t, "unlock")
  /\ reg' = NoThread /\ quiesce' = NoThread
  /\ jit' = IF op[t] \in {"map", "activate"} \/ (op[t] = "flush" /\ fatal)
              THEN NoThread ELSE jit
  /\ op' = [op EXCEPT ![t] = "none"]
  /\ Goto(t, CASE op[t] = "flush" -> IF fatal THEN "depart" ELSE "translate"
               [] op[t] = "capture" -> "lock"
               [] OTHER -> IF inService[t] THEN "service" ELSE "top")
  /\ UNCHANGED <<barrier, slot, cpu, parked, passed, sel, cache, left>>

-----------------------------------------------------------------------------
(* Steps the thread takes by itself once it can.                           *)
Quiesce(t) ==
  \/ QuiesceLock(t) \/ Bump(t) \/ Raise(t) \/ Arm(t) \/ Kick(t)
  \/ \E u \in Threads : WaitSlot(t, u) \/ AwaitSlot(t, u)
  \/ WaitDone(t) \/ Act(t) \/ Release(t) \/ Unlock(t)

Dispatch(t) ==
  \/ SafepointGate(t) \/ SafepointAck(t) \/ Deliver(t) \/ HandlerGate(t) \/ HandlerAck(t)
  \/ Register(t) \/ Enlist(t) \/ Depart(t) \/ Delist(t) \/ Unregister(t)
  \/ Top(t) \/ Poll(t) \/ JitDispatchLock(t) \/ Hit(t) \/ Translate(t) \/ Rotate(t)
  \/ Enter(t) \/ Publish(t) \/ Recheck(t) \/ Branch(t) \/ Service(t)

(* Steps the guest, the host or the load decides on.                       *)
Environment(t) ==
  \/ NeedsRotation(t) \/ Chain(t) \/ Return(t) \/ EndService(t) \/ Begin(t) \/ GiveUp(t)
  \/ \E u \in Threads : Spawn(t, u)

Next == \E t \in Threads : Quiesce(t) \/ Dispatch(t) \/ Environment(t)

Spec == Init /\ [][Next]_vars

(* Every thread is scheduled.  Translated code returns and a host call     *)
(* ends once the thread's irq is up: emitted blocks poll it, and the kick  *)
(* that raised it breaks the host wait.                                    *)
Interrupted(t) == irq[t] /\ (Return(t) \/ EndService(t))

Fairness == \A t \in Threads :
  WF_vars(Quiesce(t)) /\ WF_vars(Dispatch(t)) /\ WF_vars(Interrupted(t))

FairSpec == Spec /\ Fairness
-----------------------------------------------------------------------------
(* The gate belongs to the owner of the epoch lock, who is past raising    *)
(* it, and the three locks are held exactly where the code holds them: no  *)
(* second quiescer raises or lowers a gate, and the writer lock is never   *)
(* held while a thread waits for the epoch.                                *)
JitPoints == {"lookup", "peers", "translate", "quiesce", "bump", "raise", "registry"}
GatePoints == {"registry", "kick", "wait", "await", "window", "release", "refuse"}

EpochIsOwned ==
  \A t \in Threads :
    /\ quiesce = t <=> pc[t] \in GatePoints \union {"bump", "raise", "unlock"}
    /\ reg = t <=> pc[t] \in (GatePoints \ {"registry"}) \union {"unlock"}
    /\ gate <=> \E u \in Threads : pc[u] \in GatePoints
    /\ jit = t <=> \/ pc[t] \in JitPoints
                   \/ /\ pc[t] \in {"wait", "window", "release", "unlock"}
                      /\ op[t] # "capture"

(* While a quiescer's window is open, from the end of its wait until it    *)
(* lowers the gate, it is the only open window and no other thread is in   *)
(* translated code.                                                        *)
WindowIsQuiet ==
  \A t, u \in Threads :
    t # u /\ pc[t] \in {"window", "release"}
      => pc[u] \notin {"run", "window", "release"}

(* A thread in translated code is in an arena that is still mapped and     *)
(* executes a translation of the code and mapping now in force: rotation,  *)
(* reclamation and invalidation never leave it behind.                     *)
RunningCodeIsLive ==
  \A t \in Threads : pc[t] = "run" =>
    sel[t].gen \in retired \union {gen} /\ sel[t].code = code

(* The checkpoint barrier is reached by the answers of the peers, never    *)
(* only by giving up: nobody waits for it while it waits for him.          *)
BarrierConverges == \A t \in Threads : pc[t] = "await" ~> pc[t] # "await"

(* While a capture is written, no thread it lists executes guest code or a *)
(* syscall.                                                                *)
ListedAreStopped ==
  \A t, u \in Threads :
    t # u /\ op[t] = "capture" /\ pc[t] = "window" /\ Member(u)
      => ~(At(u, "run") \/ At(u, "service"))

(* While a capture is written, every guest thread that exists and is not   *)
(* on its way out is in the inventory.                                     *)
InventoryIsWhole ==
  \A t, u \in Threads :
    op[t] = "capture" /\ pc[t] = "window" => pc[u] # "born"
=============================================================================
