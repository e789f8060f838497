---------------------------- MODULE PidNamespace ----------------------------
(***************************************************************************)
(* The calls of guest processes that the identity registry serves: a       *)
(* launch joins (state.c), fork publishes its child from both sides        *)
(* (clone.c), setpgid and setsid (scheduling.c, rare.c), getpgid           *)
(* (control.c) and the wait that retires a child (wait.c).  Processes exit *)
(* when they like and may be killed in the middle of a call.               *)
(***************************************************************************)
EXTENDS IdentityRegistry, FiniteSets

CONSTANTS
  Plans,      \* the ids the host gives out, the number of launches by the daemon,
              \* and the calls of each thread
  Kills,      \* the requests a process may be killed in
  MaxGuest,   \* bound on numbers, of which a plan needs one per launch and fork
  MaxKills    \* bound on kills in a call

ASSUME NamespaceAssumption ==
  /\ \A plan \in Plans :
       plan.ids \in Seq(Procs) /\ plan.launches \in Nat /\ DOMAIN plan.calls = Threads
  /\ MaxGuest \in Nat /\ MaxKills \in Nat

VARIABLES
  self,    \* g_self_gpid: the number a process knows itself by
  left,    \* what is left of the plan
  kills    \* number of kills so far

vars == <<registryVars, self, left, kills>>

Guests == 1 .. MaxGuest
Main(p) == <<p, 1>>
Of(p) == {t \in Threads : t[1] = p}

Init ==
  /\ RegistryInit
  /\ self = [p \in Procs |-> 0]
  /\ left \in Plans /\ kills = 0

(* The host gives out an id that is no process, group or session.          *)
Assignable(p) ==
  /\ left.ids # <<>> /\ p = Head(left.ids) /\ ~Exists(p)
  /\ \A q \in Procs : Exists(q) => pgrp[q] # p /\ sess[q] # p

(* A thread asks the registry, or looks something up first.                *)
Turn(t, point, r, w) ==
  /\ Go(t, point) /\ req' = [req EXCEPT ![t] = r] /\ want' = [want EXCEPT ![t] = w]
  /\ ok' = [ok EXCEPT ![t] = FALSE] /\ found' = [found EXCEPT ![t] = Free]
  /\ UNCHANGED <<storage, lock, then, pos, todo, seen>>
Ask(t, r) == Turn(t, "lock", r, NoWant)
LookUp(t, r, w) == Turn(t, "look", r, w)
Finish(t) == Turn(t, "idle", NoRequest, NoWant)

(* Every thread of a process that knows its number may run.                *)
Begin(t) ==
  /\ self' = [self EXCEPT ![t[1]] = req[t].guest]
  /\ at' = [u \in Threads |-> IF u[1] = t[1] THEN "idle" ELSE at[u]]
  /\ req' = [req EXCEPT ![t] = NoRequest] /\ ok' = [ok EXCEPT ![t] = FALSE]
  /\ UNCHANGED <<storage, lock, then, pos, todo, want, seen, found>>

(* A running thread makes the next call of its plan.                       *)
Calls(t, call) ==
  /\ at[t] = "idle" /\ call \in left.calls[t]
  /\ left' = [left EXCEPT !.calls[t] = @ \ {call},
                          !.ids = IF call = "fork" THEN Tail(@) ELSE @]
  /\ UNCHANGED kills

-----------------------------------------------------------------------------
(* Processes come and go.                                                  *)

(* Processes are over: the kernel drops their record lock, a parent can    *)
(* wait for its child, and children of a process that is over pass to the  *)
(* host, which does not tell the registry when it reaps them.              *)
Ends(over, reaped) ==
  /\ st' = [p \in Procs |->
       IF p \in reaped THEN "gone"
       ELSE IF p \in over THEN IF parent[p] \in Procs THEN "zombie" ELSE "gone"
       ELSE IF st[p] = "zombie" /\ parent[p] \in over THEN "gone" ELSE st[p]]
  /\ parent' = [p \in Procs |-> IF p \in reaped \/ parent[p] \in over THEN Nobody ELSE parent[p]]
  /\ lock' = IF \E p \in over : \E t \in Of(p) : lock = <<t>> THEN <<>> ELSE lock
  /\ self' = [p \in Procs |-> IF p \in over THEN 0 ELSE self[p]]
  /\ UNCHANGED <<storage, pgrp, sess>>

(* Their threads stop; locals that are dead are reset.                     *)
Stops(over, resting) ==
  LET halts(t) == t[1] \in over
      rests(t) == t \in resting
  IN /\ at' = [t \in Threads |-> IF halts(t) THEN "dead" ELSE IF rests(t) THEN "idle" ELSE at[t]]
     /\ req' = [t \in Threads |-> IF halts(t) \/ rests(t) THEN NoRequest ELSE req[t]]
     /\ then' = [t \in Threads |-> IF halts(t) THEN "repair" ELSE then[t]]
     /\ pos' = [t \in Threads |-> IF halts(t) THEN 1 ELSE pos[t]]
     /\ todo' = [t \in Threads |-> IF halts(t) THEN <<>> ELSE todo[t]]
     /\ want' = [t \in Threads |-> IF halts(t) THEN NoWant ELSE want[t]]
     /\ found' = [t \in Threads |-> IF halts(t) THEN Free ELSE found[t]]
     /\ seen' = [t \in Threads |-> IF halts(t) THEN Start ELSE seen[t]]
     /\ ok' = [t \in Threads |-> IF halts(t) \/ rests(t) THEN FALSE ELSE ok[t]]
Dies(p) == Ends({p}, {}) /\ Stops({p}, {})

(* container_pid_namespace_begin of a launch: the daemon forks it, in a    *)
(* group and a session that are its own or from outside.                   *)
Launch(p, g, s) ==
  /\ left.launches > 0 /\ Assignable(p)
  /\ g \in {p} \union Outside /\ s \in {p} \union Outside /\ (s = p => g = p)
  /\ left' = [left EXCEPT !.launches = @ - 1, !.ids = Tail(@)]
  /\ st' = [st EXCEPT ![p] = "live"] /\ parent' = [parent EXCEPT ![p] = Nobody]
  /\ pgrp' = [pgrp EXCEPT ![p] = g] /\ sess' = [sess EXCEPT ![p] = s]
  /\ Ask(Main(p), Request("join", p, 0, g, 0))
  /\ UNCHANGED <<self, kills>>
Joined(t) ==
  /\ at[t] = "done" /\ req[t].op = "join" /\ ok[t]
  /\ Begin(t)
  /\ UNCHANGED <<hostVars, left, kills>>
JoinFailed(t) ==
  /\ at[t] = "done" /\ req[t].op = "join" /\ ~ok[t]
  /\ Dies(t[1])
  /\ UNCHANGED <<left, kills>>

(* clone: a number is allocated without the lock, the child is forked and  *)
(* both sides publish it.                                                  *)
Fork(t, c) ==
  /\ Assignable(c) /\ Calls(t, "fork")
  /\ next' = [next EXCEPT !["pid"] = @ + 1]
  /\ st' = [st EXCEPT ![c] = "live"] /\ parent' = [parent EXCEPT ![c] = t[1]]
  /\ pgrp' = [pgrp EXCEPT ![c] = pgrp[t[1]]] /\ sess' = [sess EXCEPT ![c] = sess[t[1]]]
  /\ at' = [at EXCEPT ![t] = "lock", ![Main(c)] = "lock"]
  /\ LET r == Request("publish", c, next["pid"], Nobody, 0)
     IN req' = [req EXCEPT ![t] = r, ![Main(c)] = r]
  /\ UNCHANGED <<word, bank, journal, semantic, poisoned, lock, then, pos, todo, ok, want, seen,
                 found, self>>
ChildPublished(t) ==
  /\ at[t] = "done" /\ req[t].op = "publish" /\ req[t].proc = t[1] /\ ok[t]
  /\ Begin(t)
  /\ UNCHANGED <<hostVars, left, kills>>
ParentPublished(t) ==
  /\ at[t] = "done" /\ req[t].op = "publish" /\ req[t].proc # t[1] /\ ok[t]
  /\ Finish(t)
  /\ UNCHANGED <<hostVars, self, left, kills>>
(* The fork fails, because the child could not be published or, after it   *)
(* was, because its snapshot or its task failed: the child exits, and the  *)
(* parent kills it, whatever it does by then, and reaps it for the host    *)
(* alone.                                                                  *)
ChildAbandoned(t) ==
  /\ at[t] = "done" /\ req[t].op = "publish" /\ req[t].proc = t[1]
  /\ Dies(t[1])
  /\ UNCHANGED <<left, kills>>
ParentAbandons(t) ==
  /\ at[t] = "done" /\ req[t].op = "publish" /\ req[t].proc # t[1]
  /\ LET child == {c \in Procs : c = req[t].proc /\ parent[c] = t[1]}
     IN Ends(child, child) /\ Stops(child, {t})
  /\ UNCHANGED <<left, kills>>

(* A process exits between calls, or is killed in one.                     *)
Idle(t) == at[t] \in {"idle", "dead"}
InKills(t) == (IF req[t].op = "publish" /\ req[t].proc # t[1] THEN "fork" ELSE req[t].op) \in Kills
Exit(p) ==
  /\ st[p] = "live" /\ self[p] # 0 /\ \A t \in Of(p) : Idle(t)
  /\ Dies(p)
  /\ UNCHANGED <<left, kills>>
Kill(p) ==
  /\ st[p] = "live" /\ kills < MaxKills
  /\ \E t \in Of(p) : ~Idle(t)
  /\ \A t \in Of(p) : ~Idle(t) => InKills(t)
  /\ Dies(p)
  /\ kills' = kills + 1 /\ UNCHANGED left

-----------------------------------------------------------------------------
(* The calls of a running process.                                         *)

(* setpgid(a0, a1): 0 is the caller, or the group of the process.  Both    *)
(* are looked up, the process first; a group that is unknown may be the    *)
(* one its leader is about to found.                                       *)
SetPgid(t, a0, a1) ==
  /\ Calls(t, "setpgid")
  /\ LET p == t[1]
         r == Request("resolve", Nobody, IF a0 = 0 THEN self[p] ELSE a0, Nobody, a1)
     IN IF a0 # 0
        THEN LookUp(t, r, Want("pid", FALSE, a0))
        ELSE IF a1 # 0
        THEN LookUp(t, [r EXCEPT !.op = "resolveGroup", !.proc = p], Want("pgid", FALSE, a1))
        ELSE Ask(t, Request("setpgid", p, self[p], p, self[p]))
  /\ UNCHANGED <<hostVars, self>>
Resolved(t) ==
  /\ at[t] = "looked" /\ req[t].op = "resolve" /\ ok[t]
  /\ LET r == req[t]
         q == found[t].host
     IN IF r.name # 0
        THEN LookUp(t, [r EXCEPT !.op = "resolveGroup", !.proc = q], Want("pgid", FALSE, r.name))
        ELSE Ask(t, Request("setpgid", q, r.guest, q, r.guest))
  /\ UNCHANGED <<hostVars, self, left, kills>>
ResolvedGroup(t) ==
  /\ at[t] = "looked" /\ req[t].op = "resolveGroup"
  /\ LET r == req[t] IN
       /\ ok[t] \/ r.name = r.guest
       /\ Ask(t, Request("setpgid", r.proc, r.guest,
                         IF ok[t] THEN found[t].host ELSE r.proc, r.name))
  /\ UNCHANGED <<hostVars, self, left, kills>>
Unresolved(t) ==
  /\ at[t] = "looked" /\ ~ok[t]
  /\ \/ req[t].op = "resolve"
     \/ req[t].op = "resolveGroup" /\ req[t].name # req[t].guest
  /\ Finish(t)
  /\ UNCHANGED <<hostVars, self, left, kills>>

SetSid(t) ==
  /\ Calls(t, "setsid")
  /\ Ask(t, Request("setsid", t[1], self[t[1]], t[1], self[t[1]]))
  /\ UNCHANGED <<hostVars, self>>

(* getpgid(0).                                                             *)
AskGroup(t) ==
  /\ Calls(t, "getpgid")
  /\ LookUp(t, Request("getpgid", t[1], 0, Nobody, 0), Want("pgid", TRUE, pgrp[t[1]]))
  /\ UNCHANGED <<hostVars, self>>

(* wait4: the host has reaped the child; what the registry knows of it is  *)
(* looked up, and retired only if the lookup answers.                      *)
Wait(t, c) ==
  /\ Calls(t, "wait") /\ st[c] = "zombie" /\ parent[c] = t[1]
  /\ st' = [st EXCEPT ![c] = "gone"] /\ parent' = [parent EXCEPT ![c] = Nobody]
  /\ LookUp(t, Request("waited", c, 0, Nobody, 0), Want("pid", TRUE, c))
  /\ UNCHANGED <<pgrp, sess, self>>
Waited(t) ==
  /\ at[t] = "looked" /\ req[t].op = "waited" /\ ok[t]
  /\ Ask(t, [req[t] EXCEPT !.op = "reap"])
  /\ UNCHANGED <<hostVars, self, left, kills>>

Return(t) ==
  /\ \/ at[t] = "done" /\ req[t].op \in {"setpgid", "setsid", "reap"}
     \/ at[t] = "looked" /\ req[t].op = "getpgid"
     \/ at[t] = "looked" /\ req[t].op = "waited" /\ ~ok[t]
  /\ Finish(t)
  /\ UNCHANGED <<hostVars, self, left, kills>>

Registry(t) == Step(t) /\ UNCHANGED <<self, left, kills>>

Next ==
  \/ \E p \in Procs, g, s \in Hosts : Launch(p, g, s)
  \/ \E p \in Procs : Exit(p) \/ Kill(p)
  \/ \E t \in Threads :
       \/ Registry(t) \/ Joined(t) \/ JoinFailed(t)
       \/ \E c \in Procs : Fork(t, c) \/ Wait(t, c)
       \/ ChildPublished(t) \/ ParentPublished(t) \/ ChildAbandoned(t) \/ ParentAbandons(t)
       \/ \E a0, a1 \in {0} \union Guests : SetPgid(t, a0, a1)
       \/ Resolved(t) \/ ResolvedGroup(t) \/ Unresolved(t)
       \/ SetSid(t) \/ AskGroup(t) \/ Waited(t) \/ Return(t)
Spec == Init /\ [][Next]_vars

-----------------------------------------------------------------------------
(* Properties.                                                             *)

Entries(k) == {Live(k)[i] : i \in Slots} \ {Free}

(* What a lookup in the published maps would answer now.                   *)
Answers(w) == {e \in Entries(w.kind) : IF w.byHost THEN e.host = w.key ELSE e.guest = w.key}

(* A lookup that is about to accept its answer has the one of the maps     *)
(* that are published now, whatever transactions, deaths and recoveries    *)
(* it overlapped.                                                          *)
ReadIsCurrent ==
  \A t \in Threads :
    at[t] = "recheck" /\ seen[t] = word =>
      IF found[t] = Free THEN Answers(want[t]) = {} ELSE found[t] \in Answers(want[t])

(* A process has one number, a number one process, and a group or session  *)
(* led by a known process has the number of its leader.                    *)
LeadersNameGroups ==
  /\ \A e, f \in Entries("pid") : e.host = f.host <=> e.guest = f.guest
  /\ \A k \in {"pgid", "sid"} : \A e \in Entries(k), f \in Entries("pid") :
       e.host = f.host => e.guest = f.guest

(* "In particular, reaping a group leader retires its process identity     *)
(* without retiring the group identity" (state.c): a known living process  *)
(* can learn its group and its session while lookups are answered.         *)
Knows(p) == \E e \in Entries("pid") : e.host = p
MembersAreNamed ==
  ~Closed =>
    \A p \in Procs :
      st[p] = "live" /\ Knows(p) =>
        /\ \E e \in Entries("pgid") : e.host = pgrp[p]
        /\ \E e \in Entries("sid") : e.host = sess[p]

(* No step takes the name of its group or session from a process that was  *)
(* known before it and is after it, lives, and has not left the group or   *)
(* session: not the reaping of its leader, not a recovery, not a call that *)
(* moves somebody else.                                                    *)
Given(k, h) == {e \in Entries(k) : e.host = h}
NamesAreKept ==
  [][\A p \in Procs :
       Knows(p) /\ Knows(p)' /\ st'[p] = "live" =>
         /\ pgrp'[p] = pgrp[p] => Given("pgid", pgrp[p]) \subseteq Given("pgid", pgrp[p])'
         /\ sess'[p] = sess[p] => Given("sid", sess[p]) \subseteq Given("sid", sess[p])']_vars

(* The registry is given up only over a process that is gone, or a full    *)
(* table: as long as the host can be asked, recovery finds out what became *)
(* of an interrupted setpgid or setsid.                                    *)
PoisonedByLoss ==
  poisoned =>
    \/ semantic.op # "none" /\ GetPgid(semantic.proc) = Nobody
    \/ \E k \in {"pgid", "sid"} : Cardinality(Entries(k)) = Capacity

PublishedNames == [k \in Kinds |-> {<<e.guest, e.host>> : e \in Entries(k)}]
Maps == INSTANCE IdentityMaps WITH names <- PublishedNames

(* Every transaction is published at once or not at all.                   *)
Atomic == Maps!Spec
=============================================================================
