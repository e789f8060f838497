-------------------------- MODULE IdentityRegistry --------------------------
(***************************************************************************)
(* linux_abi/container/pidmap.c: the identity registry that all processes  *)
(* of a container keep in shared memory.  Each of its three maps has two   *)
(* banks.  A writer journals a slot, writes it in the inactive bank, flips *)
(* the commit word, and copies the journaled slots to the other bank; it   *)
(* can die between any two stores, and the next writer finishes or undoes  *)
(* what it left.  setpgid and setsid change the host as well: a semantic   *)
(* record says what was meant, and recovery asks the host what became of   *)
(* it.  Readers take no lock.                                              *)
(*                                                                         *)
(* A stretch between two shared stores of a writer, or between two loads   *)
(* of a reader that a store can come between, is an action.                *)
(***************************************************************************)
EXTENDS Integers, Sequences

CONSTANTS
  Procs,      \* host processes
  Threads,    \* pairs of a process and a thread number
  Outside,    \* host groups and sessions that no process of the container leads
  Capacity,   \* HL_LINUX_PIDMAP_CAPACITY
  Visible,    \* the states of a process for which the host answers getpgid
  Nobody      \* no host id

ASSUME IdentityAssumption ==
  /\ Threads \subseteq Procs \X Nat
  /\ Capacity \in Nat \ {0}
  /\ Visible \in {{"live"}, {"live", "zombie"}}
  /\ Procs \cap Outside = {} /\ Nobody \notin Procs \union Outside

VARIABLES
  word, bank, journal, next, semantic, poisoned,  \* the storage
  lock,                      \* the thread that holds mutex and record lock, as <<t>>
  st, pgrp, sess, parent,    \* the host's processes
  at, then, pos, todo,       \* each thread: its point, where a mirror pass leads
                             \* to, its position, its staged updates
  req, ok,                   \* its request, and how the last one ended
  want, seen, found          \* of a lookup: what it looks for, the word it loaded,
                             \* what it found

storage == <<word, bank, journal, next, semantic, poisoned>>
hostVars == <<st, pgrp, sess, parent>>
locals == <<at, then, pos, todo, req, ok, want, seen, found>>
registryVars == <<storage, lock, hostVars, locals>>

Kinds == {"pid", "pgid", "sid"}
Hosts == Procs \union Outside
Slots == 1 .. Capacity
Start == [gen |-> 0, bank |-> 0]
Free == [guest |-> 0, host |-> Nobody]
NoSemantic == [op |-> "none", proc |-> Nobody, guest |-> 0, group |-> Nobody, name |-> 0,
               oldGroup |-> Nobody, oldSession |-> Nobody]

(* A request: the host process it is about and its guest number, the host  *)
(* group and the guest's name for it; made once its host call was made.    *)
Request(op, proc, guest, group, name) ==
  [op |-> op, proc |-> proc, guest |-> guest, group |-> group, name |-> name, made |-> FALSE]
NoRequest == Request("none", Nobody, 0, Nobody, 0)

Want(k, byHost, key) == [kind |-> k, byHost |-> byHost, key |-> key]
NoWant == Want("pid", FALSE, 0)

LookPoints == {"look", "scan", "recheck", "looked"}
LockedPoints == {"mirror", "repair", "body", "host", "stage", "store", "commit", "clear",
                 "fail", "unlock"}
Points == {"dead", "idle", "lock", "done"} \union LookPoints \union LockedPoints

RegistryInit ==
  /\ word = Start
  /\ bank = [b \in {0, 1} |-> [k \in Kinds |-> [i \in Slots |-> Free]]]
  /\ journal = <<>>
  /\ next = [k \in Kinds |-> 1]
  /\ semantic = NoSemantic /\ poisoned = FALSE
  /\ lock = <<>>
  /\ st = [p \in Procs |-> "unborn"]
  /\ pgrp = [p \in Procs |-> Nobody] /\ sess = [p \in Procs |-> Nobody]
  /\ parent = [p \in Procs |-> Nobody]
  /\ at = [t \in Threads |-> "dead"] /\ then = [t \in Threads |-> "repair"]
  /\ pos = [t \in Threads |-> 1] /\ todo = [t \in Threads |-> <<>>]
  /\ req = [t \in Threads |-> NoRequest] /\ ok = [t \in Threads |-> FALSE]
  /\ want = [t \in Threads |-> NoWant]
  /\ seen = [t \in Threads |-> Start]
  /\ found = [t \in Threads |-> Free]

Go(t, point) == at' = [at EXCEPT ![t] = point]
End(t, good) == Go(t, "unlock") /\ ok' = [ok EXCEPT ![t] = good]

Active == word.bank
Inactive == 1 - word.bank
Live(k) == bank[Active][k]
Staged(k) == bank[Inactive][k]

(* map_find_guest, map_find_empty, registry_guest_for_host: the first slot *)
(* that fits; 0 when there is none.                                        *)
First(I) == IF I = {} THEN 0 ELSE CHOOSE i \in I : \A j \in I : i <= j
SlotOfGuest(b, g) == First({i \in Slots : b[i].guest = g})
EmptySlot(b) == First({i \in Slots : b[i] = Free})
GuestOfHost(k, h) ==
  LET i == First({j \in Slots : Live(k)[j].host = h}) IN IF i = 0 THEN 0 ELSE Live(k)[i].guest

Update(k, g, h) == [kind |-> k, guest |-> g, host |-> h]

(* The host's answers, external: a process that is gone has neither.       *)
GetPgid(p) == IF st[p] \in Visible THEN pgrp[p] ELSE Nobody
GetSid(p) == IF st[p] \in Visible THEN sess[p] ELSE Nobody

-----------------------------------------------------------------------------
(* Locking and recovery.                                                   *)

(* Mutant: a new writer does not look at the journal.                      *)
TakeLockAsIs(t) ==
  /\ at[t] = "lock" /\ lock = <<>>
  /\ lock' = <<t>> /\ Go(t, "repair")
  /\ UNCHANGED <<storage, hostVars, then, pos, todo, req, ok, want, seen, found>>

(* registry_lock, and the start of registry_recover_banks_locked.          *)
TakeLock(t) ==
  /\ at[t] = "lock" /\ lock = <<>>
  /\ lock' = <<t>>
  /\ Go(t, "mirror") /\ pos' = [pos EXCEPT ![t] = 1] /\ then' = [then EXCEPT ![t] = "repair"]
  /\ UNCHANGED <<storage, hostVars, todo, req, ok, want, seen, found>>

(* registry_recover_banks_locked: the journaled slots are copied from the  *)
(* bank in force, one after the other, then the journal is emptied.        *)
Mirror(t) ==
  /\ at[t] = "mirror" /\ pos[t] <= Len(journal)
  /\ LET e == journal[pos[t]] IN
       bank' = [bank EXCEPT ![Inactive][e.kind][e.slot] = Live(e.kind)[e.slot]]
  /\ pos' = [pos EXCEPT ![t] = @ + 1]
  /\ UNCHANGED <<word, journal, next, semantic, poisoned, lock, hostVars, at, then, todo, req,
                 ok, want, seen, found>>
Mirrored(t) ==
  /\ at[t] = "mirror" /\ pos[t] > Len(journal)
  /\ journal' = <<>>
  /\ Go(t, then[t]) /\ pos' = [pos EXCEPT ![t] = 1] /\ then' = [then EXCEPT ![t] = "repair"]
  /\ UNCHANGED <<word, bank, next, semantic, poisoned, lock, hostVars, todo, req, ok,
                 want, seen, found>>

(* Mutants: a repaired group gets the number of the process; the session   *)
(* is compared with the old group.                                         *)
RepairNamesProcess ==
  <<Update("pgid", semantic.guest, semantic.group)>>
    \o (IF semantic.op = "setsid" THEN <<Update("sid", semantic.guest, semantic.proc)>> ELSE <<>>)
UntouchedGroupTwice ==
  /\ GetPgid(semantic.proc) = semantic.oldGroup
  /\ semantic.op = "setsid" => GetSid(semantic.proc) = semantic.oldGroup

(* registry_recover_semantic_locked: what the host has made of the call    *)
(* that somebody, or this thread itself, announced.                        *)
RepairUpdates ==
  IF semantic.op = "setpgid"
  THEN <<Update("pgid", semantic.name, semantic.group)>>
  ELSE <<Update("pgid", semantic.guest, semantic.proc),
         Update("sid", semantic.guest, semantic.proc)>>
HappenedOnHost ==
  IF semantic.op = "setpgid"
  THEN GetPgid(semantic.proc) = semantic.group
  ELSE GetPgid(semantic.proc) = semantic.proc /\ GetSid(semantic.proc) = semantic.proc
UntouchedOnHost ==
  /\ GetPgid(semantic.proc) = semantic.oldGroup
  /\ semantic.op = "setsid" => GetSid(semantic.proc) = semantic.oldSession

(* The caller goes on.  A poisoned registry serves a reap alone.           *)
Recovered(t) ==
  IF req[t].made \/ (poisoned /\ req[t].op # "reap") THEN "unlock" ELSE "body"

NothingToRepair(t) ==
  /\ at[t] = "repair" /\ semantic.op = "none"
  /\ Go(t, Recovered(t))
  /\ UNCHANGED <<storage, lock, hostVars, then, pos, todo, req, ok, want, seen, found>>
RepairForward(t) ==
  /\ at[t] = "repair" /\ semantic.op # "none" /\ HappenedOnHost
  /\ Go(t, "stage") /\ todo' = [todo EXCEPT ![t] = RepairUpdates]
  /\ UNCHANGED <<storage, lock, hostVars, then, pos, req, ok, want, seen, found>>
RepairBack(t) ==
  /\ at[t] = "repair" /\ semantic.op # "none" /\ ~HappenedOnHost /\ UntouchedOnHost
  /\ Go(t, "clear")
  /\ UNCHANGED <<storage, lock, hostVars, then, pos, todo, req, ok, want, seen, found>>
RepairPoisons(t) ==
  /\ at[t] = "repair" /\ semantic.op # "none" /\ ~HappenedOnHost /\ ~UntouchedOnHost
  /\ poisoned' = TRUE
  /\ End(t, FALSE)
  /\ UNCHANGED <<word, bank, journal, next, semantic, lock, hostVars, then, pos, todo, req,
                 want, seen, found>>
Clear(t) ==
  /\ at[t] = "clear"
  /\ semantic' = NoSemantic
  /\ Go(t, Recovered(t)) /\ ok' = [ok EXCEPT ![t] = req[t].made]
  /\ UNCHANGED <<word, bank, journal, next, poisoned, lock, hostVars, then, pos, todo, req,
                 want, seen, found>>

-----------------------------------------------------------------------------
(* registry_apply_staged_locked.                                           *)

SlotFor(u) ==
  LET i == SlotOfGuest(Staged(u.kind), u.guest)
  IN IF i = 0 /\ u.host # Nobody THEN EmptySlot(Staged(u.kind)) ELSE i

(* A slot is found and journaled.                                          *)
Stage(t) ==
  /\ at[t] = "stage"
  /\ LET u == todo[t][pos[t]] IN
       /\ SlotFor(u) # 0
       /\ journal' = Append(journal, [kind |-> u.kind, slot |-> SlotFor(u)])
  /\ Go(t, "store")
  /\ UNCHANGED <<word, bank, next, semantic, poisoned, lock, hostVars, then, pos, todo, req, ok,
                 want, seen, found>>
(* There is none: what was staged is undone.                               *)
StageFails(t) ==
  /\ at[t] = "stage" /\ SlotFor(todo[t][pos[t]]) = 0
  /\ Go(t, "mirror") /\ pos' = [pos EXCEPT ![t] = 1] /\ then' = [then EXCEPT ![t] = "fail"]
  /\ UNCHANGED <<storage, lock, hostVars, todo, req, ok, want, seen, found>>

(* pidmap_raise_next.                                                      *)
Raise(n, g) == IF n <= g THEN g + 1 ELSE n

Store(t) ==
  /\ at[t] = "store"
  /\ LET u == todo[t][pos[t]]
         e == journal[Len(journal)]
     IN /\ bank' = [bank EXCEPT ![Inactive][e.kind][e.slot] =
                      IF u.host = Nobody THEN Free ELSE [guest |-> u.guest, host |-> u.host]]
        /\ next' = IF u.host = Nobody THEN next ELSE [next EXCEPT ![u.kind] = Raise(@, u.guest)]
  /\ Go(t, IF pos[t] < Len(todo[t]) THEN "stage" ELSE "commit")
  /\ pos' = [pos EXCEPT ![t] = @ + 1]
  /\ UNCHANGED <<word, journal, semantic, poisoned, lock, hostVars, then, todo, req, ok,
                 want, seen, found>>

(* Mutant: the commit word names the bank alone.                           *)
CommitBankOnly(t) ==
  /\ at[t] = "commit"
  /\ word' = [gen |-> 0, bank |-> Inactive]
  /\ Go(t, "mirror") /\ pos' = [pos EXCEPT ![t] = 1]
  /\ then' = [then EXCEPT ![t] = IF semantic.op = "none" THEN "unlock" ELSE "clear"]
  /\ todo' = [todo EXCEPT ![t] = <<>>] /\ ok' = [ok EXCEPT ![t] = TRUE]
  /\ UNCHANGED <<bank, journal, next, semantic, poisoned, lock, hostVars, req, want, seen,
                 found>>

(* The commit word is the only publication point of all maps.  A committed *)
(* repair goes on to clear the semantic record.                            *)
Commit(t) ==
  /\ at[t] = "commit"
  /\ word' = [gen |-> word.gen + 1, bank |-> Inactive]
  /\ Go(t, "mirror") /\ pos' = [pos EXCEPT ![t] = 1]
  /\ then' = [then EXCEPT ![t] = IF semantic.op = "none" THEN "unlock" ELSE "clear"]
  /\ todo' = [todo EXCEPT ![t] = <<>>] /\ ok' = [ok EXCEPT ![t] = TRUE]
  /\ UNCHANGED <<bank, journal, next, semantic, poisoned, lock, hostVars, req, want, seen,
                 found>>

(* A repair that finds no slot poisons the registry, and so does a reap.   *)
Fail(t) ==
  /\ at[t] = "fail"
  /\ poisoned' = (poisoned \/ semantic.op # "none" \/ req[t].op = "reap")
  /\ End(t, FALSE) /\ todo' = [todo EXCEPT ![t] = <<>>]
  /\ UNCHANGED <<word, bank, journal, next, semantic, lock, hostVars, then, pos, req, want,
                 seen, found>>

(* registry_unlock.                                                        *)
Unlock(t) ==
  /\ at[t] = "unlock"
  /\ lock' = <<>>
  /\ Go(t, "done")
  /\ UNCHANGED <<storage, hostVars, then, pos, todo, req, ok, want, seen, found>>

-----------------------------------------------------------------------------
(* The requests, once the lock is held and recovery is done.               *)

Apply(t, updates) == Go(t, "stage") /\ todo' = [todo EXCEPT ![t] = updates]

(* hl_linux_identity_registry_join: a known process keeps its number.      *)
JoinAgain(t) ==
  /\ at[t] = "body" /\ req[t].op = "join"
  /\ GuestOfHost("pid", req[t].proc) # 0
  /\ End(t, TRUE) /\ req' = [req EXCEPT ![t].guest = GuestOfHost("pid", req[t].proc)]
  /\ UNCHANGED <<storage, lock, hostVars, then, pos, todo, want, seen, found>>
(* The first one is 1; a group or session that the process leads has its   *)
(* number, another one the number it is known by, or a new one.            *)
JoinNew(t) ==
  /\ at[t] = "body" /\ req[t].op = "join"
  /\ GuestOfHost("pid", req[t].proc) = 0
  /\ LET p == req[t].proc
         init == SlotOfGuest(Live("pid"), 1) # 0
         gp == IF init THEN next["pid"] ELSE 1
         groupKnown == GuestOfHost("pgid", pgrp[p])
         newGroup == groupKnown = 0 /\ pgrp[p] # p
         gg == IF groupKnown # 0 THEN groupKnown ELSE IF newGroup THEN next["pgid"] ELSE gp
         sessKnown == GuestOfHost("sid", sess[p])
         newSess == sessKnown = 0 /\ sess[p] # p /\ sess[p] # pgrp[p]
         gs == IF sessKnown # 0 THEN sessKnown
               ELSE IF newSess THEN next["sid"] ELSE IF sess[p] = p THEN gp ELSE gg
     IN /\ next' = [next EXCEPT !["pid"] = IF init THEN @ + 1 ELSE @,
                                !["pgid"] = IF newGroup THEN @ + 1 ELSE @,
                                !["sid"] = IF newSess THEN @ + 1 ELSE @]
        /\ req' = [req EXCEPT ![t].guest = gp]
        /\ Apply(t, <<Update("pid", gp, p), Update("pgid", gg, pgrp[p]),
                       Update("sid", gs, sess[p])>>)
  /\ UNCHANGED <<word, bank, journal, semantic, poisoned, lock, hostVars, then, pos, ok,
                 want, seen, found>>

(* hl_linux_pidmap_add of the number a fork allocated.                     *)
Publish(t) ==
  /\ at[t] = "body" /\ req[t].op = "publish"
  /\ Apply(t, <<Update("pid", req[t].guest, req[t].proc)>>)
  /\ UNCHANGED <<storage, lock, hostVars, then, pos, req, ok, want, seen, found>>

(* registry_semantic_begin.                                                *)
Announce(t) ==
  /\ at[t] = "body" /\ req[t].op \in {"setpgid", "setsid"}
  /\ LET r == req[t] IN
       IF GetPgid(r.proc) = Nobody
       THEN End(t, FALSE) /\ UNCHANGED semantic
       ELSE /\ semantic' = [op |-> r.op, proc |-> r.proc, guest |-> r.guest, group |-> r.group,
                            name |-> r.name, oldGroup |-> pgrp[r.proc],
                            oldSession |-> sess[r.proc]]
            /\ Go(t, "host") /\ UNCHANGED ok
  /\ UNCHANGED <<word, bank, journal, next, poisoned, lock, hostVars, then, pos, todo, req,
                 want, seen, found>>

(* The host's conditions for setsid and setpgid, external.                 *)
Exists(q) == st[q] \in {"live", "zombie"}
MaySetSid(p) == \A q \in Procs : Exists(q) => pgrp[q] # p
MaySetPgid(p, q, g) ==
  /\ q = p \/ parent[q] = p
  /\ Exists(q) /\ sess[q] = sess[p] /\ sess[q] # q
  /\ g = q \/ \E r \in Procs : Exists(r) /\ pgrp[r] = g /\ sess[r] = sess[p]

(* hl_linux_identity_registry_setsid and _setpgid: the host call, then     *)
(* recovery of what was announced; or it failed and nothing was meant.     *)
HostCall(t) ==
  /\ at[t] = "host"
  /\ LET r == req[t] IN
       IF r.op = "setsid"
       THEN /\ MaySetSid(r.proc)
            /\ pgrp' = [pgrp EXCEPT ![r.proc] = r.proc] /\ sess' = [sess EXCEPT ![r.proc] = r.proc]
       ELSE /\ MaySetPgid(t[1], r.proc, r.group)
            /\ pgrp' = [pgrp EXCEPT ![r.proc] = r.group] /\ UNCHANGED sess
  /\ Go(t, "repair") /\ req' = [req EXCEPT ![t].made = TRUE]
  /\ UNCHANGED <<storage, lock, st, parent, then, pos, todo, ok, want, seen, found>>
HostRefuses(t) ==
  /\ at[t] = "host"
  /\ req[t].op = "setsid" => ~MaySetSid(req[t].proc)
  /\ semantic' = NoSemantic
  /\ End(t, FALSE)
  /\ UNCHANGED <<word, bank, journal, next, poisoned, lock, hostVars, then, pos, todo, req,
                 want, seen, found>>

(* Mutant: only its leader keeps a group or session.                       *)
ReferencedByLeader(k, removed, h) ==
  h # removed /\ \E i \in Slots : Live("pid")[i].host = h

(* registry_host_identity_referenced and hl_linux_identity_registry_reap:  *)
(* groups and sessions go that no other known process is in.               *)
Referenced(k, removed, h) ==
  \E i \in Slots :
    LET q == Live("pid")[i].host IN
      /\ q \in Procs \ {removed}
      /\ (IF k = "sid" THEN GetSid(q) ELSE GetPgid(q)) = h
Removals(k, removed) ==
  LET upTo[n \in Nat] ==
        IF n = 0 THEN <<>>
        ELSE IF Live(k)[n] = Free \/ Referenced(k, removed, Live(k)[n].host) THEN upTo[n - 1]
        ELSE Append(upTo[n - 1], Update(k, Live(k)[n].guest, Nobody))
  IN upTo[Capacity]
Reap(t) ==
  /\ at[t] = "body" /\ req[t].op = "reap"
  /\ LET p == req[t].proc
         g == GuestOfHost("pid", p)
     IN IF g = 0
        THEN End(t, FALSE) /\ UNCHANGED todo
        ELSE /\ Apply(t, <<Update("pid", g, Nobody)>> \o Removals("pgid", p) \o Removals("sid", p))
             /\ UNCHANGED ok
  /\ UNCHANGED <<storage, lock, hostVars, then, pos, req, want, seen, found>>

-----------------------------------------------------------------------------
(* pidmap_checked: a lookup by number or by host id, without a lock.       *)

Closed == poisoned \/ semantic.op # "none"

Look(t) ==
  /\ at[t] = "look"
  /\ IF Closed
     THEN Go(t, "looked") /\ ok' = [ok EXCEPT ![t] = FALSE] /\ UNCHANGED <<seen, found, pos>>
     ELSE /\ Go(t, "scan") /\ seen' = [seen EXCEPT ![t] = word]
          /\ found' = [found EXCEPT ![t] = Free] /\ pos' = [pos EXCEPT ![t] = 1]
          /\ UNCHANGED ok
  /\ UNCHANGED <<storage, lock, hostVars, then, todo, req, want>>

Sought(t, e) ==
  /\ e # Free
  /\ IF want[t].byHost THEN e.host = want[t].key ELSE e.guest = want[t].key
Scan(t) ==
  /\ at[t] = "scan"
  /\ LET e == bank[seen[t].bank][want[t].kind][pos[t]]
     IN /\ found' = [found EXCEPT ![t] = IF Sought(t, e) THEN e ELSE @]
        /\ Go(t, IF Sought(t, e) \/ pos[t] = Capacity THEN "recheck" ELSE "scan")
  /\ pos' = [pos EXCEPT ![t] = IF at'[t] = "scan" THEN @ + 1 ELSE 1]
  /\ UNCHANGED <<storage, lock, hostVars, then, todo, req, ok, want, seen>>

(* A word that moved starts the scan again.                                *)
Recheck(t) ==
  /\ at[t] = "recheck"
  /\ IF word # seen[t]
     THEN /\ Go(t, "scan") /\ seen' = [seen EXCEPT ![t] = word]
          /\ found' = [found EXCEPT ![t] = Free] /\ UNCHANGED ok
     ELSE /\ Go(t, "looked") /\ ok' = [ok EXCEPT ![t] = ~Closed /\ found[t] # Free]
          /\ seen' = [seen EXCEPT ![t] = Start] /\ UNCHANGED found
  /\ UNCHANGED <<storage, lock, hostVars, then, pos, todo, req, want>>

Step(t) ==
  \/ TakeLock(t) \/ Mirror(t) \/ Mirrored(t)
  \/ NothingToRepair(t) \/ RepairForward(t) \/ RepairBack(t) \/ RepairPoisons(t) \/ Clear(t)
  \/ Stage(t) \/ StageFails(t) \/ Store(t) \/ Commit(t) \/ Fail(t) \/ Unlock(t)
  \/ JoinAgain(t) \/ JoinNew(t) \/ Publish(t) \/ Announce(t)
  \/ HostCall(t) \/ HostRefuses(t) \/ Reap(t)
  \/ Look(t) \/ Scan(t) \/ Recheck(t)
=============================================================================
