--------------------------- MODULE IdentityNames ---------------------------
(***************************************************************************)
(* Names and transactions of the identity registry, for every number of    *)
(* processes, threads and slots and every plan.                            *)
(*                                                                         *)
(* NameInv: the pairs of a number and a host process that are published,   *)
(* announced, carried by a thread or known to a process are one to one.    *)
(* Every pair is a copy of one that was known, but for those of a launch   *)
(* and a fork, whose number is at the counter and whose host id the host   *)
(* has just given out.  That such an id is not one the registry or a       *)
(* request still remembers is the hypothesis FreshIds.                     *)
(*                                                                         *)
(* LossInv: what the host says of an announced call, as long as it is      *)
(* announced, and which updates of a repair have no slot.                  *)
(*                                                                         *)
(* The last section shows that the commit words are steps of IdentityMaps. *)
(***************************************************************************)
EXTENDS IdentityProofs, FiniteSetTheorems

-----------------------------------------------------------------------------
(* Numbers: who takes which number for which host process.                 *)

Named(g, h) == [guest |-> g, host |-> h]

(* The pairs that a thread is about to publish, has looked up, or has in   *)
(* its request.                                                            *)
Carried(t) ==
  {Named(todo[t][j].guest, todo[t][j].host) : j \in {i \in DOMAIN todo[t] : todo[t][i].host # Nobody}}
    \union {e \in {found[t]} : at[t] = "looked" /\ ok[t]}
    \union {e \in {Named(req[t].guest, req[t].proc)} :
              \/ req[t].op \in {"publish", "setpgid", "setsid", "resolveGroup"}
              \/ req[t].op = "join" /\ ok[t] /\ req[t].guest # 0}
    \union {e \in {Named(req[t].name, req[t].group)} : req[t].op \in {"setpgid", "setsid"}}
Mapped == UNION {Entries(k) : k \in Kinds}
Meant ==
  {e \in {Named(semantic.guest, semantic.proc), Named(semantic.name, semantic.group)} :
     semantic.op # "none"}
Recorded == Mapped \union Meant
InHand == UNION {Carried(t) : t \in Threads}
Selves == {Named(self[p], p) : p \in {q \in Procs : self[q] # 0}}
Known == Recorded \union InHand \union Selves

(* The host does not give out an id that is in a pair or in a request: the *)
(* hypothesis of what follows.                                             *)
Remembered == {e.host : e \in Known} \union {req[t].proc : t \in Threads}
FreshIds == \A p \in Procs : st[p] # "live" /\ st'[p] = "live" => p \notin Remembered

(* Of processes, pairs are one to one.                                     *)
OfProcs == {e \in Known : e.host \in Procs}
Agree == \A e, f \in OfProcs : e.guest = f.guest <=> e.host = f.host

(* Number 1 is given once, to a process that nobody can wait for; larger   *)
(* ones are below the counter.  Until it is given there is nothing but     *)
(* the launch that takes it.                                               *)
Opened == \E e \in Entries("pid") : e.guest = 1
FirstOne(t) ==
  todo[t] # <<>> /\ ~Opened =>
    /\ req[t].op = "join" /\ todo[t][1].guest = 1
    /\ at[t] \in Applying /\ pos[t] > 1 => next["pid"] > 1
Numbered ==
  /\ Opened => next["pid"] > 1
  /\ Recorded # {} => Opened
  /\ \A p \in Procs : self[p] # 0 => Opened
  /\ \A t \in Threads :
       /\ req[t].op = "publish" => Opened
       /\ req[t].op = "join" /\ ok[t] /\ req[t].guest # 0 => Opened
       /\ FirstOne(t)
  /\ \A e \in OfProcs :
       /\ e.guest # 1 => e.guest < next["pid"]
       /\ e.guest = 1 => parent[e.host] = Nobody
       /\ e.guest = 1 =>
            \A t \in Threads : req[t].op \in {"waited", "reap"} => req[t].proc # e.host

(* A process that joins is unknown to everyone until it has a number.      *)
Unstarted(t) ==
  \/ at[t] \in {"lock", "repair", "body", "clear"}
  \/ at[t] = "mirror" /\ then[t] \in {"repair", "clear"}
  \/ at[t] \in Applying /\ semantic.op # "none"
Newcomer(t) == req[t].op = "join" /\ req[t].guest = 0
Stranger(t) ==
  /\ \A e \in Known : e.host # t[1]
  /\ \A u \in Threads : u # t => req[u].proc # t[1]
  /\ parent[t[1]] = Nobody
  /\ pgrp[t[1]] \in {t[1]} \union Outside /\ sess[t[1]] \in {t[1]} \union Outside
Unknown ==
  \A t \in Threads :
    /\ req[t].op = "join" /\ Unstarted(t) => Newcomer(t)
    /\ Newcomer(t) => Stranger(t)

NameInv == Agree /\ Numbered /\ Unknown

-----------------------------------------------------------------------------
(* Numbers.                                                                *)

(* Who knows a pair: the maps, the semantic record, a thread, a process.   *)
LEMMA KnownIs ==
  \A e : e \in Known <=>
    \/ \E k \in Kinds : e \in Entries(k)
    \/ semantic.op # "none" /\ e \in {Named(semantic.guest, semantic.proc), Named(semantic.name, semantic.group)}
    \/ \E t \in Threads : e \in Carried(t)
    \/ \E p \in Procs : self[p] # 0 /\ e = Named(self[p], p)
<1>. TAKE e
<1>1. e \in Mapped <=> \E k \in Kinds : e \in Entries(k)
  BY DEF Mapped
<1>2. e \in Meant <=> semantic.op # "none"
                        /\ e \in {Named(semantic.guest, semantic.proc), Named(semantic.name, semantic.group)}
  BY DEF Meant
<1>3. e \in InHand <=> \E t \in Threads : e \in Carried(t)
  BY DEF InHand
<1>4. e \in Selves <=> \E p \in Procs : self[p] # 0 /\ e = Named(self[p], p)
  BY DEF Selves
<1>. QED BY <1>1, <1>2, <1>3, <1>4 DEF Known, Recorded

LEMMA CarriedIs ==
  ASSUME NEW t
  PROVE  \A e : e \in Carried(t) <=>
           \/ \E j \in DOMAIN todo[t] :
                todo[t][j].host # Nobody /\ e = Named(todo[t][j].guest, todo[t][j].host)
           \/ at[t] = "looked" /\ ok[t] /\ e = found[t]
           \/ /\ \/ req[t].op \in {"publish", "setpgid", "setsid", "resolveGroup"}
                 \/ req[t].op = "join" /\ ok[t] /\ req[t].guest # 0
              /\ e = Named(req[t].guest, req[t].proc)
           \/ req[t].op \in {"setpgid", "setsid"} /\ e = Named(req[t].name, req[t].group)
  BY DEF Carried

(* A pair and its two parts.                                               *)
LEMMA Pair == ASSUME NEW g, NEW h PROVE Named(g, h).guest = g /\ Named(g, h).host = h
  BY DEF Named

(* Pairs are well typed.                                                   *)
LEMMA KnownTypes ==
  ASSUME CallInv, NEW e \in Known
  PROVE  e.guest \in Nat
<1>1. CASE \E k \in Kinds : e \in Entries(k)
  <2>1. PICK k \in Kinds, i \in Slots : e = Live(k)[i] /\ e # Free
    BY <1>1 DEF Entries
  <2>. QED BY <2>1, BankTypes DEF AnyEntry, Numbers
<1>2. CASE semantic.op # "none" /\ e \in {Named(semantic.guest, semantic.proc), Named(semantic.name, semantic.group)}
  BY <1>2, RepairsAre, Pair DEF Announced, Numbers
<1>3. ASSUME NEW t \in Threads, e \in Carried(t) PROVE e.guest \in Nat
  <2>1. req[t] \in AnyRequest /\ found[t] \in AnyEntry /\ todo[t] \in Seq(AnyUpdate)
    BY DEF CallInv, LocalTypes
  <2>2. \A j \in DOMAIN todo[t] : todo[t][j] \in AnyUpdate
    BY <2>1, ElementOf
  <2>3. \A j \in DOMAIN todo[t] : todo[t][j].guest \in Nat
    BY <2>2 DEF AnyUpdate, Numbers
  <2>4. found[t].guest \in Nat /\ req[t].guest \in Nat /\ req[t].name \in Nat
    BY <2>1 DEF AnyRequest, AnyEntry, Free, Numbers
  <2>. QED BY <1>3, <2>3, <2>4, CarriedIs, Pair
<1>4. ASSUME NEW p \in Procs, e = Named(self[p], p) PROVE e.guest \in Nat
  BY <1>4, Pair DEF CallInv, HostTypes
<1>. QED BY <1>1, <1>2, <1>3, <1>4, KnownIs

(* A process runs only when number 1 is taken.                             *)
LEMMA Speaks ==
  ASSUME CallInv, Numbered, NEW t \in Threads, at[t] # "dead", req[t].op # "join"
  PROVE  Opened
<1>1. t[1] \in Procs
  BY IdentityAssumption DEF IdentityAssumption
<1>2. CASE Starting(t)
  BY <1>2 DEF Numbered, Starting
<1>3. CASE ~Starting(t)
  BY <1>1, <1>3 DEF Numbered, CallInv, LifeInv
<1>. QED BY <1>2, <1>3

(* A thread with updates is between lock and unlock, at a point of its     *)
(* transaction.                                                            *)
LEMMA Holds ==
  ASSUME CallInv, RecoveryInv, NEW t \in Threads, todo[t] # <<>>
  PROVE  lock = <<t>> /\ at[t] \in LockedPoints \ {"body", "repair", "host", "clear", "unlock"}
  BY DEF RecoveryInv, Paced, LockInv, LockedPoints, Applying

(* Before that, only the launch that takes it is known.                    *)
LEMMA Unopened ==
  ASSUME CallInv, RecoveryInv, NameInv, ~Opened, NEW e \in Known
  PROVE  \E t \in Threads : todo[t] # <<>> /\ lock = <<t>>
<1>1. Recorded = {} /\ \A p \in Procs : self[p] = 0
  BY DEF NameInv, Numbered
<1>2. \E t \in Threads : e \in Carried(t)
  <2>1. e \in Recorded \/ e \in InHand \/ e \in Selves
    BY DEF Known
  <2>. QED BY <1>1, <2>1 DEF InHand, Selves
<1>3. PICK t \in Threads : e \in Carried(t)
  BY <1>2
<1>4. CASE at[t] # "dead" /\ req[t].op # "join"
  BY <1>4, Speaks DEF NameInv
<1>5. CASE at[t] = "dead"
  <2>1. req[t] = NoRequest
    BY <1>5 DEF CallInv, Asked
  <2>2. \E j \in DOMAIN todo[t] : TRUE
    BY <1>3, <1>5, <2>1, CarriedIs, RequestTypes
  <2>3. todo[t] # <<>>
    BY <2>2
  <2>. QED BY <2>3, Holds
<1>6. CASE at[t] # "dead" /\ req[t].op = "join"
  <2>1. at[t] # "looked"
    BY <1>6 DEF CallInv, Asked, LookPoints
  <2>2. ~(ok[t] /\ req[t].guest # 0)
    BY <1>6 DEF NameInv, Numbered
  <2>3. \E j \in DOMAIN todo[t] : TRUE
    BY <1>3, <1>6, <2>1, <2>2, CarriedIs
  <2>4. todo[t] # <<>>
    BY <2>3
  <2>. QED BY <2>4, Holds
<1>. QED BY <1>4, <1>5, <1>6

(* What a step may make of a thread.                                       *)
Means(t) ==
  \/ req'[t].proc = req[t].proc \/ req'[t].proc = Nobody
  \/ \E e \in OfProcs : e.host = req'[t].proc
  \/ parent[req'[t].proc] # Nobody
Proper(t) ==
  /\ req'[t].op = "publish" => Opened'
  /\ req'[t].op = "join" /\ ok'[t] /\ req'[t].guest # 0 => Opened'
  /\ FirstOne(t)'
  /\ req'[t].op \in {"waited", "reap"} =>
       \/ req[t].op \in {"waited", "reap"} /\ req'[t].proc = req[t].proc
       \/ parent[req'[t].proc] # Nobody
Decent(t) ==
  /\ Proper(t) /\ Means(t)
  /\ req'[t].op = "join" /\ Unstarted(t)' => Newcomer(t)'
  /\ Newcomer(t)' => Newcomer(t)

(* What holds of a pair holds of it after a step.                          *)
LEMMA OldPair ==
  ASSUME CallInv, NameInv, CallInv', next'["pid"] >= next["pid"],
         NEW e \in OfProcs, parent'[e.host] \in {parent[e.host], Nobody},
         \A t \in Threads : Proper(t)
  PROVE  /\ e.guest # 1 => e.guest < next'["pid"]
         /\ e.guest = 1 => parent'[e.host] = Nobody
         /\ e.guest = 1 => \A t \in Threads : req'[t].op \in {"waited", "reap"} => req'[t].proc # e.host
<1>1. /\ e.guest # 1 => e.guest < next["pid"]
      /\ e.guest = 1 => parent[e.host] = Nobody
      /\ e.guest = 1 => \A t \in Threads : req[t].op \in {"waited", "reap"} => req[t].proc # e.host
  BY DEF NameInv, Numbered
<1>2. next["pid"] \in Nat /\ next'["pid"] \in Nat
  BY DEF CallInv, StorageTypes, Kinds, Numbers
<1>3. e.guest # 1 => e.guest < next'["pid"]
  <2>1. e.guest \in Nat
    BY KnownTypes DEF OfProcs
  <2>. QED BY <1>1, <1>2, <2>1
<1>4. e.guest = 1 => parent'[e.host] = Nobody
  BY <1>1
<1>5. e.guest = 1 => \A t \in Threads : req'[t].op \in {"waited", "reap"} => req'[t].proc # e.host
  BY <1>1 DEF Proper
<1>. QED BY <1>3, <1>4, <1>5

(* A step that tells nobody a number that was not known.                   *)
LEMMA OldNumbers ==
  ASSUME CallInv, NameInv, CallInv',
         Known' \subseteq Known,
         Recorded' # {} => Opened', \A p \in Procs : self'[p] # 0 => Opened',
         Opened' => next'["pid"] > 1, next'["pid"] >= next["pid"],
         \A e \in OfProcs : parent'[e.host] \in {parent[e.host], Nobody},
         \A t \in Threads : Proper(t)
  PROVE  Agree' /\ Numbered'
<1>1. OfProcs' \subseteq OfProcs
  BY DEF OfProcs
<1>2. Agree'
  BY <1>1 DEF NameInv, Agree
<1>3. ASSUME NEW e \in OfProcs'
      PROVE  /\ e.guest # 1 => e.guest < next'["pid"]
             /\ e.guest = 1 => parent'[e.host] = Nobody
             /\ e.guest = 1 => \A t \in Threads : req'[t].op \in {"waited", "reap"} => req'[t].proc # e.host
  BY <1>1, <1>3, OldPair
<1>. QED BY <1>2, <1>3 DEF Numbered, Proper

(* A step that gives a new number to a process that nobody knows.          *)
LEMMA NewNumber ==
  ASSUME CallInv, NameInv, CallInv',
         NEW p \in Procs, \A e \in Known : e.host # p, NEW g \in Nat,
         OfProcs' \subseteq OfProcs \union {Named(g, p)},
         \/ Opened /\ g = next["pid"] /\ next'["pid"] = g + 1
         \/ /\ g = 1 /\ OfProcs = {} /\ parent'[p] = Nobody
            /\ \A t \in Threads : req'[t].op \in {"waited", "reap"} => req'[t].proc # p,
         Recorded' # {} => Opened', \A q \in Procs : self'[q] # 0 => Opened',
         Opened' => next'["pid"] > 1, next'["pid"] >= next["pid"],
         \A e \in OfProcs : parent'[e.host] \in {parent[e.host], Nobody},
         \A t \in Threads : Proper(t)
  PROVE  Agree' /\ Numbered'
<1>1. next["pid"] \in Nat /\ next'["pid"] \in Nat /\ (Opened => next["pid"] > 1)
  BY DEF CallInv, StorageTypes, Kinds, Numbers, NameInv, Numbered
<1>2. Named(g, p).guest = g /\ Named(g, p).host = p
  BY Pair
<1>3. \A e \in OfProcs : e.host # p /\ e.guest # g
  <2>1. \A e \in OfProcs : e.host # p
    BY DEF OfProcs
  <2>2. ASSUME NEW e \in OfProcs PROVE e.guest # g
    <3>1. e.guest \in Nat
      BY KnownTypes DEF OfProcs
    <3>2. e.guest # 1 => e.guest < next["pid"]
      BY DEF NameInv, Numbered
    <3>. QED BY <1>1, <2>2, <3>1, <3>2
  <2>. QED BY <2>1, <2>2
<1>. DEFINE n == Named(g, p)
<1>4. Agree'
  <2>1. \A e, f \in OfProcs : e.guest = f.guest <=> e.host = f.host
    BY DEF NameInv, Agree
  <2>2. n.guest = g /\ n.host = p /\ OfProcs' \subseteq OfProcs \union {n}
    BY <1>2
  <2>. HIDE DEF n
  <2>3. \A e, f \in OfProcs' : e.guest = f.guest <=> e.host = f.host
    BY <1>3, <2>1, <2>2
  <2>. QED BY <2>3 DEF Agree
<1>5. ASSUME NEW e \in OfProcs'
      PROVE  /\ e.guest # 1 => e.guest < next'["pid"]
             /\ e.guest = 1 => parent'[e.host] = Nobody
             /\ e.guest = 1 => \A t \in Threads : req'[t].op \in {"waited", "reap"} => req'[t].proc # e.host
  <2>1. CASE e \in OfProcs
    BY <2>1, OldPair
  <2>2. CASE e = n
    <3>1. e.guest = g /\ e.host = p
      BY <1>2, <2>2
    <3>. HIDE DEF n
    <3>. QED BY <1>1, <3>1
  <2>. QED BY <1>5, <2>1, <2>2
<1>. QED BY <1>4, <1>5 DEF Numbered, Proper

(* A step that makes no new pair known keeps the invariant of the names.   *)
LEMMA Copies ==
  ASSUME CallInv, RecoveryInv, NameInv, CallInv',
         Known' \subseteq Known,
         Recorded' # {} => Opened', \A p \in Procs : self'[p] # 0 => Opened',
         Opened' => next'["pid"] > 1, next'["pid"] >= next["pid"],
         \A p \in Procs : parent'[p] \in {parent[p], Nobody},
         \A p \in Procs : (\A e \in Known : e.host # p) => pgrp'[p] = pgrp[p] /\ sess'[p] = sess[p],
         \A t \in Threads : Decent(t)
  PROVE  NameInv'
<1>1. \A e \in OfProcs : e.host \in Procs
  BY DEF OfProcs
<1>2. Agree' /\ Numbered'
  BY <1>1, OldNumbers DEF Decent
<1>3. ASSUME NEW t \in Threads, Newcomer(t)' PROVE Stranger(t)'
  <2>1. Newcomer(t) /\ Stranger(t) /\ t[1] \in Procs
    BY <1>3, IdentityAssumption DEF Decent, NameInv, Unknown, IdentityAssumption
  <2>2. \A e \in Known' : e.host # t[1]
    BY <2>1 DEF Stranger
  <2>3. ASSUME NEW u \in Threads, u # t PROVE req'[u].proc # t[1]
    <3>1. req[u].proc # t[1] /\ \A e \in OfProcs : e.host # t[1]
      BY <2>1, <2>3 DEF Stranger, OfProcs
    <3>2. parent[t[1]] = Nobody /\ t[1] # Nobody
      BY <2>1, IdentityAssumption DEF Stranger, IdentityAssumption
    <3>. QED BY <3>1, <3>2 DEF Decent, Means
  <2>4. /\ parent'[t[1]] = Nobody
        /\ pgrp'[t[1]] \in {t[1]} \union Outside /\ sess'[t[1]] \in {t[1]} \union Outside
    BY <2>1 DEF Stranger
  <2>. QED BY <2>2, <2>3, <2>4 DEF Stranger
<1>4. Unknown'
  BY <1>3 DEF Unknown, Decent
<1>. QED BY <1>2, <1>4 DEF NameInv

Still(t) ==
  /\ at'[t] = at[t] /\ then'[t] = then[t] /\ pos'[t] = pos[t] /\ todo'[t] = todo[t]
  /\ req'[t] = req[t] /\ ok'[t] = ok[t] /\ found'[t] = found[t]

(* A thread that stands still.                                             *)
LEMMA StillCarries == ASSUME NEW t, Still(t) PROVE Carried(t)' = Carried(t)
  BY DEF Still, Carried

LEMMA StillDecent ==
  ASSUME CallInv, CallInv', NameInv, NEW t \in Threads, Still(t),
         at[t] \in Applying => semantic' = semantic,
         Opened => Opened', next'["pid"] >= next["pid"]
  PROVE  Decent(t)
<1>1. next["pid"] \in Nat /\ next'["pid"] \in Nat
  BY DEF CallInv, StorageTypes, Kinds, Numbers
<1>2. /\ req[t].op = "publish" => Opened
      /\ req[t].op = "join" /\ ok[t] /\ req[t].guest # 0 => Opened
      /\ FirstOne(t)
  BY DEF NameInv, Numbered
<1>3. FirstOne(t)'
  BY <1>1, <1>2 DEF FirstOne, Still
<1>4. req[t].op = "join" /\ Unstarted(t) => Newcomer(t)
  BY DEF NameInv, Unknown
<1>5. Newcomer(t)' <=> Newcomer(t)
  BY DEF Newcomer, Still
<1>6. Unstarted(t)' => Unstarted(t)
  BY DEF Unstarted, Still
<1>7. Means(t)
  BY DEF Means, Still
<1>. QED BY <1>2, <1>3, <1>4, <1>5, <1>6, <1>7 DEF Decent, Proper, Still

(* A step of one thread.                                                   *)
LEMMA ThreadNames ==
  ASSUME CallInv, CallInv', RecoveryInv, NameInv, NEW t \in Threads,
         \A u \in Threads : u # t => Still(u),
         \A u \in Threads : u # t /\ at[u] \in Applying => semantic' = semantic,
         UNCHANGED self,
         Recorded' \subseteq Known, Carried(t)' \subseteq Known,
         Recorded' # {} => Opened', Opened => Opened',
         Opened' => next'["pid"] > 1, next'["pid"] >= next["pid"],
         \A p \in Procs : parent'[p] \in {parent[p], Nobody},
         \A p \in Procs : (\A e \in Known : e.host # p) => pgrp'[p] = pgrp[p] /\ sess'[p] = sess[p],
         Decent(t)
  PROVE  NameInv'
<1>1. \A u \in Threads : Decent(u)
  BY StillDecent
<1>2. InHand' \subseteq Known
  <2>1. \A u \in Threads : Carried(u)' \subseteq Known
    <3>1. \A u \in Threads : u # t => Carried(u)' = Carried(u)
      BY StillCarries
    <3>2. \A u \in Threads : Carried(u) \subseteq Known
      BY KnownIs
    <3>. QED BY <3>1, <3>2
  <2>. QED BY <2>1 DEF InHand
<1>3. Selves' \subseteq Known
  BY DEF Selves, Known
<1>4. Known' \subseteq Known
  BY <1>2, <1>3 DEF Known
<1>5. \A p \in Procs : self'[p] # 0 => Opened'
  BY DEF NameInv, Numbered
<1>. QED BY <1>1, <1>4, <1>5, Copies

(* The maps, as long as banks and commit word are the same.                *)
LEMMA SameNames ==
  ASSUME UNCHANGED <<word, bank>>
  PROVE  /\ \A k : Entries(k)' = Entries(k)
         /\ Mapped' = Mapped
         /\ Opened' <=> Opened
<1>1. \A k : Entries(k)' = Entries(k)
  BY SameMaps
<1>. QED BY <1>1 DEF Mapped, Opened

(* A step of one thread that leaves the storage alone.                     *)
LEMMA QuietNames ==
  ASSUME CallInv, CallInv', RecoveryInv, NameInv, NEW t \in Threads,
         \A u \in Threads : u # t => Still(u),
         UNCHANGED <<word, bank, semantic, self>>,
         next'["pid"] = next["pid"],
         Carried(t)' \subseteq Known,
         \A p \in Procs : parent'[p] \in {parent[p], Nobody},
         \A p \in Procs : (\A e \in Known : e.host # p) => pgrp'[p] = pgrp[p] /\ sess'[p] = sess[p],
         Opened' = Opened /\ next'["pid"] = next["pid"] => Decent(t)
  PROVE  NameInv'
<1>1. Mapped' = Mapped /\ (Opened' <=> Opened)
  BY SameNames
<1>2. Recorded' = Recorded
  BY <1>1 DEF Recorded, Meant
<1>3. Recorded \subseteq Known /\ (Recorded # {} => Opened) /\ (Opened => next["pid"] > 1)
  BY DEF Known, NameInv, Numbered
<1>4. Decent(t) /\ (Recorded' # {} => Opened') /\ (Opened' => next'["pid"] > 1)
  BY <1>1, <1>2, <1>3
<1>5. next'["pid"] >= next["pid"]
  BY DEF CallInv, StorageTypes, Kinds, Numbers
<1>. QED BY <1>1, <1>2, <1>3, <1>4, <1>5, ThreadNames

(* A pair is what its parts are.                                           *)
LEMMA Whole ==
  ASSUME NEW k \in Kinds, NEW e \in EntryOf(k), e # Free
  PROVE  e = Named(e.guest, e.host) /\ e.guest # 0
  BY DEF EntryOf, Named, Members, Numbers

(* The next request of a thread carries no pair that was not known.        *)
LEMMA TurnNames ==
  ASSUME CallInv, CallInv', RecoveryInv, NameInv, NEW t \in Threads, at[t] \notin LockedPoints,
         NEW x \in {"lock", "look", "idle"}, NEW r, NEW w, Turn(t, x, r, w),
         UNCHANGED <<pgrp, sess, self>>,
         \A p \in Procs : parent'[p] \in {parent[p], Nobody},
         r.op \notin {"join", "publish"},
         r.op \in {"setpgid", "setsid", "resolveGroup"} => Named(r.guest, r.proc) \in Known,
         r.op \in {"setpgid", "setsid"} => Named(r.name, r.group) \in Known,
         \/ r.proc = req[t].proc \/ r.proc = Nobody
         \/ \E e \in OfProcs : e.host = r.proc
         \/ parent[r.proc] # Nobody,
         r.op \in {"waited", "reap"} =>
           (req[t].op \in {"waited", "reap"} /\ r.proc = req[t].proc) \/ parent[r.proc] # Nobody
  PROVE  NameInv'
<1>1. /\ UNCHANGED <<word, bank, journal, semantic, next, lock, then, pos, todo>>
      /\ \A u \in Threads : u # t =>
           at'[u] = at[u] /\ req'[u] = req[u] /\ ok'[u] = ok[u] /\ found'[u] = found[u]
      /\ at'[t] = x /\ ok'[t] = FALSE /\ req'[t] = r
  BY DEF Turn, Go, storage, CallInv, LocalTypes
<1>2. \A u \in Threads : u # t => Still(u)
  BY <1>1 DEF Still
<1>3. todo'[t] = <<>>
  BY <1>1, Restful
<1>4. Carried(t)' \subseteq Known
  BY <1>1, <1>3 DEF Carried
<1>5. Decent(t)
  <2>1. FirstOne(t)'
    BY <1>3 DEF FirstOne
  <2>2. ~Newcomer(t)'
    BY <1>1 DEF Newcomer
  <2>. QED BY <1>1, <2>1, <2>2 DEF Decent, Proper, Means
<1>. QED BY <1>1, <1>2, <1>4, <1>5, QuietNames

(* A process knows its own pair.                                           *)
LEMMA SelfKnown ==
  ASSUME CallInv, NEW t \in Threads, at[t] = "idle"
  PROVE  /\ Named(self[t[1]], t[1]) \in Known
         /\ \E e \in OfProcs : e.host = t[1]
         /\ t[1] \in Procs
<1>1. t[1] \in Procs /\ self[t[1]] # 0
  BY Running
<1>2. Named(self[t[1]], t[1]) \in Known
  BY <1>1 DEF Selves, Known
<1>. QED BY <1>1, <1>2, Pair DEF OfProcs

LEMMA SetPgidNames ==
  ASSUME CallInv, CallInv', RecoveryInv, NameInv, NEW t \in Threads,
         NEW a0 \in {0} \union Guests, NEW a1 \in {0} \union Guests, SetPgid(t, a0, a1)
  PROVE  NameInv'
<1>. DEFINE p == t[1]
            r == Request("resolve", Nobody, IF a0 = 0 THEN self[p] ELSE a0, Nobody, a1)
            s == [r EXCEPT !.op = "resolveGroup", !.proc = p]
            m == Request("setpgid", p, self[p], p, self[p])
<1>1. /\ at[t] = "idle" /\ at[t] \notin LockedPoints /\ UNCHANGED <<pgrp, sess, parent, self>>
      /\ \/ Turn(t, "look", r, Want("pid", FALSE, a0))
         \/ a0 = 0 /\ Turn(t, "look", s, Want("pgid", FALSE, a1))
         \/ Turn(t, "lock", m, NoWant)
  BY DEF SetPgid, Calls, hostVars, LookUp, Ask, LockedPoints
<1>2. /\ r.op = "resolve" /\ r.proc = Nobody
      /\ s.op = "resolveGroup" /\ s.proc = p /\ (a0 = 0 => s.guest = self[p])
      /\ m.op = "setpgid" /\ m.proc = p /\ m.guest = self[p] /\ m.group = p /\ m.name = self[p]
  BY DEF Request
<1>3. Named(self[p], p) \in Known /\ \E e \in OfProcs : e.host = p
  BY <1>1, SelfKnown
<1>. HIDE DEF p, r, s, m
<1>4. CASE Turn(t, "look", r, Want("pid", FALSE, a0))
  BY <1>1, <1>2, <1>4, TurnNames
<1>5. CASE a0 = 0 /\ Turn(t, "look", s, Want("pgid", FALSE, a1))
  BY <1>1, <1>2, <1>3, <1>5, TurnNames
<1>6. CASE Turn(t, "lock", m, NoWant)
  BY <1>1, <1>2, <1>3, <1>6, TurnNames
<1>. QED BY <1>1, <1>4, <1>5, <1>6

LEMMA OwnNames ==
  ASSUME CallInv, CallInv', RecoveryInv, NameInv, NEW t \in Threads, SetSid(t) \/ AskGroup(t)
  PROVE  NameInv'
<1>. DEFINE p == t[1]
            s == Request("setsid", p, self[p], p, self[p])
            g == Request("getpgid", p, 0, Nobody, 0)
<1>1. /\ at[t] = "idle" /\ at[t] \notin LockedPoints /\ UNCHANGED <<pgrp, sess, parent, self>>
      /\ \/ Turn(t, "lock", s, NoWant)
         \/ Turn(t, "look", g, Want("pgid", TRUE, pgrp[p]))
  BY DEF SetSid, AskGroup, Calls, hostVars, LookUp, Ask, LockedPoints
<1>2. /\ s.op = "setsid" /\ s.proc = p /\ s.guest = self[p] /\ s.group = p /\ s.name = self[p]
      /\ g.op = "getpgid" /\ g.proc = p
  BY DEF Request
<1>3. Named(self[p], p) \in Known /\ \E e \in OfProcs : e.host = p
  BY <1>1, SelfKnown
<1>. HIDE DEF p, s, g
<1>4. CASE Turn(t, "lock", s, NoWant)
  BY <1>1, <1>2, <1>3, <1>4, TurnNames
<1>5. CASE Turn(t, "look", g, Want("pgid", TRUE, pgrp[p]))
  BY <1>1, <1>2, <1>3, <1>5, TurnNames
<1>. QED BY <1>1, <1>4, <1>5

(* So does a thread know the pair it looked up.                            *)
LEMMA FoundKnown ==
  ASSUME CallInv, NEW t \in Threads, at[t] = "looked", ok[t], req[t].op \in {"resolve", "resolveGroup"}
  PROVE  /\ found[t] \in Known
         /\ req[t].op = "resolve" => found[t] = Named(req[t].guest, found[t].host) /\ found[t].host \in Procs
         /\ req[t].op = "resolveGroup" => found[t] = Named(req[t].name, found[t].host)
<1>1. found[t] \in Known
  BY CarriedIs, KnownIs
<1>2. found[t] # Free /\ Sought(t, found[t]) /\ found[t] \in EntryOf(want[t].kind) /\ want[t].kind \in Kinds
  BY DEF CallInv, Answered, LocalTypes
<1>3. found[t] = Named(found[t].guest, found[t].host)
  BY <1>2, Whole
<1>4. /\ req[t].op = "resolve" => want[t] = Want("pid", FALSE, req[t].guest)
      /\ req[t].op = "resolveGroup" => want[t] = Want("pgid", FALSE, req[t].name)
  BY DEF CallInv, Asked
<1>5. /\ req[t].op = "resolve" => want[t].kind = "pid" /\ found[t].guest = req[t].guest
      /\ req[t].op = "resolveGroup" => found[t].guest = req[t].name
  BY <1>2, <1>4 DEF Sought, Want
<1>6. req[t].op = "resolve" => found[t].host \in Procs
  BY <1>2, <1>5 DEF EntryOf, Members
<1>. QED BY <1>1, <1>3, <1>5, <1>6

LEMMA ResolvedNames ==
  ASSUME CallInv, CallInv', RecoveryInv, NameInv, NEW t \in Threads, Resolved(t)
  PROVE  NameInv'
<1>1. PICK q : q = found[t].host
  OBVIOUS
<1>. DEFINE r == req[t]
            s == [r EXCEPT !.op = "resolveGroup", !.proc = q]
            m == Request("setpgid", q, r.guest, q, r.guest)
<1>2. /\ at[t] = "looked" /\ at[t] \notin LockedPoints /\ UNCHANGED <<pgrp, sess, parent, self>>
      /\ ok[t] /\ req[t].op = "resolve"
      /\ \/ Turn(t, "look", s, Want("pgid", FALSE, req[t].name))
         \/ Turn(t, "lock", m, NoWant)
  BY <1>1 DEF Resolved, hostVars, LookUp, Ask, LockedPoints
<1>3. req[t] \in AnyRequest
  BY DEF CallInv, LocalTypes
<1>4. /\ s.op = "resolveGroup" /\ s.proc = q /\ s.guest = req[t].guest
      /\ m.op = "setpgid" /\ m.proc = q /\ m.guest = req[t].guest /\ m.group = q /\ m.name = req[t].guest
  BY <1>3 DEF Request, AnyRequest
<1>5. Named(req[t].guest, q) \in Known /\ \E e \in OfProcs : e.host = q
  BY <1>1, <1>2, FoundKnown, Pair DEF OfProcs
<1>. HIDE DEF r, s, m
<1>6. CASE Turn(t, "look", s, Want("pgid", FALSE, req[t].name))
  BY <1>2, <1>4, <1>5, <1>6, TurnNames
<1>7. CASE Turn(t, "lock", m, NoWant)
  BY <1>2, <1>4, <1>5, <1>7, TurnNames
<1>. QED BY <1>2, <1>6, <1>7

LEMMA ResolvedGroupNames ==
  ASSUME CallInv, CallInv', RecoveryInv, NameInv, NEW t \in Threads, ResolvedGroup(t)
  PROVE  NameInv'
<1>1. PICK h : h = IF ok[t] THEN found[t].host ELSE req[t].proc
  OBVIOUS
<1>. DEFINE m == Request("setpgid", req[t].proc, req[t].guest, h, req[t].name)
<1>2. /\ at[t] = "looked" /\ at[t] \notin LockedPoints /\ UNCHANGED <<pgrp, sess, parent, self>>
      /\ req[t].op = "resolveGroup" /\ (ok[t] \/ req[t].name = req[t].guest)
      /\ Turn(t, "lock", m, NoWant)
  BY <1>1 DEF ResolvedGroup, hostVars, Ask, LockedPoints
<1>3. /\ m.op = "setpgid" /\ m.proc = req[t].proc /\ m.guest = req[t].guest
      /\ m.group = h /\ m.name = req[t].name
  BY DEF Request
<1>4. Named(req[t].guest, req[t].proc) \in Known
  BY <1>2, CarriedIs, KnownIs
<1>5. Named(req[t].name, h) \in Known
  BY <1>1, <1>2, <1>4, FoundKnown
<1>. HIDE DEF m
<1>. QED BY <1>2, <1>3, <1>4, <1>5, TurnNames

LEMMA WaitNames ==
  ASSUME CallInv, CallInv', RecoveryInv, NameInv, NEW t \in Threads, NEW c \in Procs, Wait(t, c)
  PROVE  NameInv'
<1>. DEFINE r == Request("waited", c, 0, Nobody, 0)
<1>1. /\ at[t] = "idle" /\ at[t] \notin LockedPoints /\ UNCHANGED <<pgrp, sess, self>>
      /\ parent' = [parent EXCEPT ![c] = Nobody] /\ parent[c] = t[1]
      /\ Turn(t, "look", r, Want("pid", TRUE, c))
  BY DEF Wait, Calls, LookUp, LockedPoints
<1>2. r.op = "waited" /\ r.proc = c
  BY DEF Request
<1>3. parent[c] # Nobody
  BY <1>1, IdentityAssumption DEF IdentityAssumption
<1>4. \A p \in Procs : parent'[p] \in {parent[p], Nobody}
  BY <1>1 DEF CallInv, HostTypes
<1>. HIDE DEF r
<1>. QED BY <1>1, <1>2, <1>3, <1>4, TurnNames

LEMMA ReturnNames ==
  ASSUME CallInv, CallInv', RecoveryInv, NameInv, NEW t \in Threads,
         Waited(t) \/ Unresolved(t) \/ Return(t) \/ ParentPublished(t)
  PROVE  NameInv'
<1>. DEFINE r == [req[t] EXCEPT !.op = "reap"]
<1>1. /\ at[t] \in {"looked", "done"} /\ at[t] \notin LockedPoints /\ UNCHANGED <<pgrp, sess, parent, self>>
      /\ \/ Turn(t, "idle", NoRequest, NoWant)
         \/ Turn(t, "lock", r, NoWant) /\ req[t].op = "waited"
  BY DEF Waited, Unresolved, Return, ParentPublished, hostVars, Finish, Ask, LockedPoints
<1>2. r.op = "reap" /\ r.proc = req[t].proc /\ NoRequest.op = "none" /\ NoRequest.proc = Nobody
  BY DEF NoRequest, Request, CallInv, LocalTypes, AnyRequest
<1>. HIDE DEF r
<1>3. CASE Turn(t, "idle", NoRequest, NoWant)
  BY <1>1, <1>2, <1>3, TurnNames
<1>4. CASE Turn(t, "lock", r, NoWant) /\ req[t].op = "waited"
  BY <1>1, <1>2, <1>4, TurnNames
<1>. QED BY <1>1, <1>3, <1>4

(* A thread that stops or rests with no request.                           *)
Quits(t) ==
  /\ at'[t] \in {"idle", "dead"} /\ req'[t] = NoRequest /\ todo'[t] = <<>> /\ ok'[t] = FALSE

(* It carries nothing.                                                     *)
LEMMA QuitsDecently ==
  ASSUME NEW t \in Threads, Quits(t)
  PROVE  Carried(t)' = {} /\ Decent(t)
<1>1. NoRequest.op = "none" /\ NoRequest.proc = Nobody
  BY DEF NoRequest, Request
<1>2. Carried(t)' = {}
  BY <1>1 DEF Quits, Carried
<1>3. FirstOne(t)'
  BY DEF Quits, FirstOne
<1>. QED BY <1>1, <1>2, <1>3 DEF Quits, Decent, Proper, Means, Newcomer

(* A process that has joined knows its own number from then on.            *)
LEMMA BeginNames ==
  ASSUME CallInv, CallInv', RecoveryInv, NameInv, NEW t \in Threads, Joined(t) \/ ChildPublished(t)
  PROVE  NameInv'
<1>1. /\ Begin(t) /\ UNCHANGED hostVars /\ at[t] = "done" /\ ok[t]
      /\ req[t].op = "join" \/ (req[t].op = "publish" /\ req[t].proc = t[1])
  BY DEF Joined, ChildPublished
<1>2. t[1] \in Procs
  BY IdentityAssumption DEF IdentityAssumption
<1>3. /\ UNCHANGED <<word, bank, next, semantic, pos, then, todo, found, parent, pgrp, sess>>
      /\ self' = [self EXCEPT ![t[1]] = req[t].guest]
      /\ at' = [u \in Threads |-> IF u[1] = t[1] THEN "idle" ELSE at[u]]
      /\ req' = [req EXCEPT ![t] = NoRequest] /\ ok' = [ok EXCEPT ![t] = FALSE]
  BY <1>1 DEF Begin, storage, hostVars
<1>4. req[t].op = "join" => req[t].guest # 0 /\ req[t].proc = t[1]
  <2>1. ~Clearing(t) /\ Earned(t) /\ Asked(t)
    BY <1>1 DEF Clearing, RecoveryInv, CallInv
  <2>. QED BY <1>1, <2>1 DEF Earned, Asked
<1>5. Named(req[t].guest, t[1]) \in Known /\ Opened
  <2>1. req[t].proc = t[1]
    BY <1>1, <1>4
  <2>2. Named(req[t].guest, req[t].proc) \in Carried(t)
    BY <1>1, <1>4, CarriedIs
  <2>3. Opened
    BY <1>1, <1>4 DEF NameInv, Numbered
  <2>. QED BY <2>1, <2>2, <2>3, KnownIs
<1>6. ASSUME NEW u \in Threads, u[1] = t[1] PROVE Quits(u)
  <2>1. u = t \/ at[u] = "dead"
    BY <1>1, <1>6 DEF CallInv, LifeInv, Starting
  <2>2. at[u] \notin LockedPoints /\ at'[u] = "idle"
    BY <1>1, <1>3, <1>6, <2>1 DEF LockedPoints
  <2>3. todo'[u] = <<>>
    BY <1>3, <2>2, Restful
  <2>4. req'[u] = NoRequest
    BY <1>3, <2>1 DEF CallInv, Asked, LocalTypes
  <2>5. ok'[u] = FALSE
    BY <1>3, <2>1, <2>2, Restful DEF CallInv, LocalTypes, Undecided
  <2>. QED BY <2>2, <2>3, <2>4, <2>5 DEF Quits
<1>7. ASSUME NEW u \in Threads, u[1] # t[1] PROVE Still(u)
  BY <1>3, <1>7 DEF Still, CallInv, LocalTypes
<1>8. Mapped' = Mapped /\ (Opened' <=> Opened) /\ Meant' = Meant
  BY <1>3, SameNames DEF Meant
<1>9. \A u \in Threads : Carried(u)' \subseteq Known
  <2>1. ASSUME NEW u \in Threads PROVE Carried(u)' \subseteq Known
    BY <1>6, <1>7, QuitsDecently, StillCarries, KnownIs
  <2>. QED BY <2>1
<1>10. Known' \subseteq Known
  <2>1. Selves' \subseteq Known
    <3>1. ASSUME NEW p \in Procs, self'[p] # 0 PROVE Named(self'[p], p) \in Known
      <4>1. self'[p] = IF p = t[1] THEN req[t].guest ELSE self[p]
        BY <1>3 DEF CallInv, HostTypes
      <4>. QED BY <1>5, <3>1, <4>1, KnownIs
    <3>. QED BY <3>1 DEF Selves
  <2>2. InHand' \subseteq Known
    BY <1>9 DEF InHand
  <2>. QED BY <1>8, <2>1, <2>2 DEF Known, Recorded
<1>11. next'["pid"] >= next["pid"]
  BY <1>3 DEF CallInv, StorageTypes, Kinds, Numbers
<1>12. \A u \in Threads : Decent(u)
  BY <1>3, <1>6, <1>7, <1>8, <1>11, QuitsDecently, StillDecent
<1>. QED BY <1>3, <1>5, <1>8, <1>10, <1>11, <1>12, Copies DEF NameInv, Numbered

(* Processes that end leave fewer pairs.                                   *)
LEMMA StopNames ==
  ASSUME CallInv, CallInv', RecoveryInv, NameInv, NEW over, over \subseteq Procs, NEW reaped, NEW resting,
         \A t \in Threads : t \in resting => at[t] \notin LockedPoints,
         Ends(over, reaped), Stops(over, resting)
  PROVE  NameInv'
<1>1. /\ UNCHANGED <<word, bank, next, semantic, pgrp, sess>>
      /\ parent' = [p \in Procs |-> IF p \in reaped \/ parent[p] \in over THEN Nobody ELSE parent[p]]
      /\ self' = [p \in Procs |-> IF p \in over THEN 0 ELSE self[p]]
  BY DEF Ends, storage
<1>2. ASSUME NEW t \in Threads PROVE Quits(t) \/ Still(t)
  <2>1. CASE t[1] \in over
    BY <2>1 DEF Stops, Quits
  <2>2. CASE t[1] \notin over /\ t \in resting
    BY <2>2, Restful DEF Stops, Quits
  <2>3. CASE t[1] \notin over /\ t \notin resting
    BY <2>3 DEF Stops, Still
  <2>. QED BY <2>1, <2>2, <2>3
<1>3. Mapped' = Mapped /\ (Opened' <=> Opened) /\ Meant' = Meant
  BY <1>1, SameNames DEF Meant
<1>4. next'["pid"] >= next["pid"]
  BY <1>1 DEF CallInv, StorageTypes, Kinds, Numbers
<1>5. \A u \in Threads : Decent(u)
  BY <1>1, <1>2, <1>3, <1>4, QuitsDecently, StillDecent
<1>6. Known' \subseteq Known
  <2>1. \A u \in Threads : Carried(u)' \subseteq Known
    BY <1>2, QuitsDecently, StillCarries, KnownIs
  <2>2. InHand' \subseteq Known
    BY <2>1 DEF InHand
  <2>3. Selves' \subseteq Selves
    BY <1>1 DEF Selves
  <2>. QED BY <1>3, <2>2, <2>3 DEF Known, Recorded
<1>7. ASSUME NEW p \in Procs
      PROVE  /\ parent'[p] \in {parent[p], Nobody} /\ (self'[p] # 0 => self[p] # 0)
             /\ pgrp'[p] = pgrp[p] /\ sess'[p] = sess[p]
  BY <1>1
<1>8. /\ Recorded' # {} => Opened'
      /\ \A p \in Procs : self'[p] # 0 => Opened'
      /\ Opened' => next'["pid"] > 1
  BY <1>1, <1>3, <1>7 DEF NameInv, Numbered, Recorded
<1>. QED BY <1>4, <1>5, <1>6, <1>7, <1>8, Copies

(* The ends of processes make no pair known.                               *)
LEMMA LifeNames ==
  ASSUME CallInv, CallInv', RecoveryInv, NameInv,
         \/ \E p \in Procs : Exit(p) \/ Kill(p)
         \/ \E t \in Threads :
              Joined(t) \/ JoinFailed(t) \/ ChildPublished(t) \/ ChildAbandoned(t) \/ ParentAbandons(t)
  PROVE  NameInv'
<1>1. ASSUME NEW p \in Procs, Dies(p) PROVE NameInv'
  <2>1. Ends({p}, {}) /\ Stops({p}, {})
    BY <1>1 DEF Dies
  <2>. QED BY <2>1, StopNames
<1>2. ASSUME NEW t \in Threads, JoinFailed(t) \/ ChildAbandoned(t) PROVE NameInv'
  <2>1. t[1] \in Procs
    BY IdentityAssumption DEF IdentityAssumption
  <2>. QED BY <1>1, <1>2, <2>1 DEF JoinFailed, ChildAbandoned
<1>3. ASSUME NEW t \in Threads, ParentAbandons(t) PROVE NameInv'
  <2>. DEFINE child == {c \in Procs : c = req[t].proc /\ parent[c] = t[1]}
  <2>1. Ends(child, child) /\ Stops(child, {t}) /\ at[t] = "done"
    BY <1>3 DEF ParentAbandons
  <2>2. child \subseteq Procs
    OBVIOUS
  <2>. HIDE DEF child
  <2>. QED BY <2>1, <2>2, StopNames DEF LockedPoints
<1>. QED BY <1>1, <1>2, <1>3, BeginNames DEF Exit, Kill

(* A thread with a request runs in a process that exists.                  *)
LEMMA Awake ==
  ASSUME CallInv, NEW t \in Threads, req[t].op # "none"
  PROVE  Exists(t[1])
<1>1. NoRequest.op = "none"
  BY DEF NoRequest, Request
<1>2. at[t] # "dead"
  BY <1>1 DEF CallInv, Asked
<1>. QED BY <1>2 DEF CallInv, LifeInv, Exists

(* A launch: the process is unknown, and asks to join.                     *)
LEMMA LaunchNames ==
  ASSUME CallInv, CallInv', RecoveryInv, NameInv, FreshIds, NEW p \in Procs,
         NEW g \in Hosts, NEW s \in Hosts, Launch(p, g, s)
  PROVE  NameInv'
<1>. DEFINE t == Main(p)
            r == Request("join", p, 0, g, 0)
<1>1. /\ Turn(t, "lock", r, NoWant) /\ ~Exists(p) /\ UNCHANGED self
      /\ g \in {p} \union Outside /\ s \in {p} \union Outside
      /\ st' = [st EXCEPT ![p] = "live"] /\ parent' = [parent EXCEPT ![p] = Nobody]
      /\ pgrp' = [pgrp EXCEPT ![p] = g] /\ sess' = [sess EXCEPT ![p] = s]
  BY DEF Launch, Assignable, Ask
<1>2. t[1] = p /\ r.op = "join" /\ r.guest = 0 /\ r.proc = p
  BY DEF Main, Request
<1>. HIDE DEF t, r
<1>3. t \in Threads => at[t] = "dead" /\ at[t] \notin LockedPoints
  BY <1>1, <1>2, Asleep DEF LockedPoints
<1>4. /\ UNCHANGED <<word, bank, next, semantic, then, pos, todo>>
      /\ \A u \in Threads : u # t =>
           at'[u] = at[u] /\ req'[u] = req[u] /\ ok'[u] = ok[u] /\ found'[u] = found[u]
      /\ t \in Threads => at'[t] = "lock" /\ ok'[t] = FALSE /\ req'[t] = r
  BY <1>1 DEF Turn, Go, storage, CallInv, LocalTypes
<1>5. ASSUME NEW u \in Threads, u # t PROVE Still(u)
  BY <1>4, <1>5 DEF Still
<1>6. t \in Threads => todo'[t] = <<>> /\ todo[t] = <<>>
  BY <1>3, <1>4, Restful
<1>7. p \notin Remembered
  <2>1. st[p] # "live"
    BY <1>1 DEF Exists
  <2>2. st'[p] = "live"
    BY <1>1 DEF CallInv, HostTypes
  <2>. QED BY <2>1, <2>2 DEF FreshIds
<1>8. (\A e \in Known : e.host # p) /\ (\A u \in Threads : req[u].proc # p)
  BY <1>7 DEF Remembered
<1>9. Mapped' = Mapped /\ (Opened' <=> Opened) /\ Meant' = Meant
  BY <1>4, SameNames DEF Meant
<1>10. Known' \subseteq Known
  <2>1. t \in Threads => Carried(t)' = {}
    BY <1>2, <1>4, <1>6 DEF Carried
  <2>2. \A u \in Threads : Carried(u)' \subseteq Known
    BY <1>5, <2>1, StillCarries, KnownIs
  <2>3. Selves' = Selves
    BY <1>1 DEF Selves
  <2>. QED BY <1>9, <2>2, <2>3 DEF Known, Recorded, InHand
<1>11. next'["pid"] >= next["pid"]
  BY <1>4 DEF CallInv, StorageTypes, Kinds, Numbers
<1>12. \A u \in Threads : u # t => Decent(u)
  BY <1>4, <1>5, <1>9, <1>11, StillDecent
<1>13. \A u \in Threads : Proper(u)
  <2>1. t \in Threads => Proper(t)
    BY <1>2, <1>4, <1>6 DEF Proper, FirstOne
  <2>. QED BY <1>12, <2>1 DEF Decent
<1>14. \A q \in Procs : q # p => /\ parent'[q] = parent[q] /\ pgrp'[q] = pgrp[q] /\ sess'[q] = sess[q]
  BY <1>1 DEF CallInv, HostTypes
<1>15. parent'[p] = Nobody /\ pgrp'[p] = g /\ sess'[p] = s
  BY <1>1 DEF CallInv, HostTypes
<1>16. \A q \in Procs : parent'[q] \in {parent[q], Nobody}
  BY <1>14, <1>15
<1>17. Agree' /\ Numbered'
  <2>1. /\ Recorded' # {} => Opened'
        /\ \A q \in Procs : self'[q] # 0 => Opened'
        /\ Opened' => next'["pid"] > 1
    BY <1>1, <1>4, <1>9 DEF NameInv, Numbered, Recorded
  <2>2. \A e \in OfProcs : e.host \in Procs
    BY DEF OfProcs
  <2>. QED BY <1>10, <1>11, <1>13, <1>16, <2>1, <2>2, OldNumbers
<1>18. ASSUME NEW u \in Threads, Newcomer(u)' PROVE Stranger(u)'
  <2>1. CASE u = t
    <3>1. u[1] = p
      BY <1>2, <2>1
    <3>2. \A v \in Threads : v # u => req'[v].proc # u[1]
      BY <1>4, <1>8, <2>1, <3>1
    <3>. QED BY <1>1, <1>8, <1>10, <1>15, <3>1, <3>2 DEF Stranger
  <2>2. CASE u # t
    <3>1. Newcomer(u) /\ Stranger(u) /\ u[1] \in Procs
      BY <1>12, <1>18, <2>2, IdentityAssumption DEF Decent, NameInv, Unknown, IdentityAssumption
    <3>2. u[1] # p
      BY <1>1, <3>1, Awake DEF Newcomer
    <3>3. \A v \in Threads : v # u => req'[v].proc # u[1]
      BY <1>2, <1>4, <3>1, <3>2 DEF Stranger
    <3>. QED BY <1>10, <1>14, <3>1, <3>2, <3>3 DEF Stranger
  <2>. QED BY <2>1, <2>2
<1>19. Unknown'
  <2>1. t \in Threads => Newcomer(t)'
    BY <1>2, <1>4 DEF Newcomer
  <2>. QED BY <1>12, <1>18, <2>1 DEF Unknown, Decent
<1>. QED BY <1>17, <1>19 DEF NameInv

(* A fork: parent and child are about to publish a number that is new.     *)
LEMMA ForkNames ==
  ASSUME CallInv, CallInv', RecoveryInv, NameInv, FreshIds, NEW t \in Threads, NEW c \in Procs, Fork(t, c)
  PROVE  NameInv'
<1>. DEFINE m == Main(c)
            r == Request("publish", c, next["pid"], Nobody, 0)
<1>1. /\ at[t] = "idle" /\ ~Exists(c) /\ UNCHANGED <<self>>
      /\ at' = [at EXCEPT ![t] = "lock", ![m] = "lock"]
      /\ req' = [req EXCEPT ![t] = r, ![m] = r]
      /\ UNCHANGED <<word, bank, semantic, then, pos, todo, ok, found>>
      /\ next' = [next EXCEPT !["pid"] = @ + 1]
      /\ st' = [st EXCEPT ![c] = "live"] /\ parent' = [parent EXCEPT ![c] = t[1]]
      /\ pgrp' = [pgrp EXCEPT ![c] = pgrp[t[1]]] /\ sess' = [sess EXCEPT ![c] = sess[t[1]]]
  BY DEF Fork, Assignable, Calls
<1>2. m[1] = c /\ r.op = "publish" /\ r.guest = next["pid"] /\ r.proc = c
  BY DEF Main, Request
<1>. HIDE DEF m, r
<1>3. m \in Threads => at[m] = "dead" /\ at[m] \notin LockedPoints
  BY <1>1, <1>2, Asleep DEF LockedPoints
<1>4. at[t] \notin LockedPoints
  BY <1>1 DEF LockedPoints
<1>5. ASSUME NEW u \in Threads, u # t, u # m PROVE Still(u)
  BY <1>1, <1>5 DEF Still, CallInv, LocalTypes
<1>6. ASSUME NEW u \in Threads, u = t \/ u = m
      PROVE  at'[u] = "lock" /\ req'[u] = r /\ ok'[u] = FALSE /\ todo'[u] = <<>>
  <2>1. at[u] \in {"idle", "dead"} /\ at[u] \notin LockedPoints
    BY <1>1, <1>3, <1>4, <1>6
  <2>2. at'[u] = "lock" /\ req'[u] = r
    BY <1>1, <1>6 DEF CallInv, LocalTypes
  <2>3. ok[u] = FALSE
    BY <2>1, Restful DEF Undecided, CallInv, LocalTypes
  <2>. QED BY <1>1, <2>1, <2>2, <2>3, Restful
<1>7. \A e \in Known : e.host # c
  <2>1. st[c] # "live" /\ st'[c] = "live"
    BY <1>1 DEF Exists, CallInv, HostTypes
  <2>. QED BY <2>1 DEF FreshIds, Remembered
<1>8. Mapped' = Mapped /\ (Opened' <=> Opened) /\ Meant' = Meant
  BY <1>1, SameNames DEF Meant
<1>9. Opened
  BY <1>1, Running DEF NameInv, Numbered
<1>10. next["pid"] \in Nat /\ next'["pid"] = next["pid"] + 1 /\ next["pid"] > 1
  BY <1>1, <1>9 DEF CallInv, StorageTypes, Kinds, Numbers, NameInv, Numbered
<1>11. Known' \subseteq Known \union {Named(next["pid"], c)}
  <2>1. ASSUME NEW u \in Threads, u = t \/ u = m PROVE Carried(u)' \subseteq {Named(next["pid"], c)}
    <3>1. /\ at'[u] = "lock" /\ todo'[u] = <<>> /\ req'[u].op = "publish"
          /\ req'[u].guest = next["pid"] /\ req'[u].proc = c
      BY <1>2, <1>6, <2>1
    <3>. QED BY <3>1 DEF Carried
  <2>2. \A u \in Threads : Carried(u)' \subseteq Known \union {Named(next["pid"], c)}
    <3>1. \A u \in Threads : u # t /\ u # m => Carried(u)' = Carried(u)
      BY <1>5, StillCarries
    <3>. QED BY <2>1, <3>1, KnownIs
  <2>3. Selves' = Selves
    BY <1>1 DEF Selves
  <2>. QED BY <1>8, <2>2, <2>3 DEF Known, Recorded, InHand
<1>12. \A u \in Threads : u # t /\ u # m => Decent(u)
  <2>1. next'["pid"] >= next["pid"]
    BY <1>10
  <2>. QED BY <1>1, <1>5, <1>8, <2>1, StillDecent
<1>13. \A u \in Threads : Proper(u)
  <2>1. ASSUME NEW u \in Threads, u = t \/ u = m PROVE Proper(u)
    BY <1>2, <1>6, <1>8, <1>9, <2>1 DEF Proper, FirstOne
  <2>. QED BY <1>12, <2>1 DEF Decent
<1>14. \A q \in Procs : q # c => /\ parent'[q] = parent[q] /\ pgrp'[q] = pgrp[q] /\ sess'[q] = sess[q]
  BY <1>1 DEF CallInv, HostTypes
<1>15. Agree' /\ Numbered'
  <2>1. OfProcs' \subseteq OfProcs \union {Named(next["pid"], c)}
    BY <1>11 DEF OfProcs
  <2>2. /\ Recorded' # {} => Opened'
        /\ \A q \in Procs : self'[q] # 0 => Opened'
        /\ Opened' => next'["pid"] > 1
    BY <1>8, <1>9, <1>10
  <2>3. \A e \in OfProcs : parent'[e.host] \in {parent[e.host], Nobody}
    BY <1>7, <1>14 DEF OfProcs
  <2>4. next'["pid"] >= next["pid"]
    BY <1>10
  <2>. QED BY <1>7, <1>9, <1>10, <1>13, <2>1, <2>2, <2>3, <2>4, NewNumber
<1>16. ASSUME NEW u \in Threads, Newcomer(u)' PROVE Stranger(u)'
  <2>1. u # t /\ u # m
    BY <1>2, <1>6, <1>16 DEF Newcomer
  <2>2. Newcomer(u) /\ Stranger(u) /\ u[1] \in Procs
    BY <1>12, <1>16, <2>1, IdentityAssumption DEF Decent, NameInv, Unknown, IdentityAssumption
  <2>3. u[1] # c
    BY <1>1, <2>2, Awake DEF Newcomer
  <2>4. \A v \in Threads : v # u => req'[v].proc # u[1]
    <3>1. \A v \in Threads : v # u /\ v # t /\ v # m => req'[v] = req[v]
      BY <1>5 DEF Still
    <3>. QED BY <1>2, <1>6, <2>2, <2>3, <3>1 DEF Stranger
  <2>5. \A e \in Known' : e.host # u[1]
    BY <1>11, <2>2, <2>3, Pair DEF Stranger
  <2>. QED BY <1>14, <2>2, <2>3, <2>4, <2>5 DEF Stranger
<1>17. Unknown'
  <2>1. \A u \in Threads : u = t \/ u = m => req'[u].op # "join"
    BY <1>2, <1>6
  <2>. QED BY <1>12, <1>16, <2>1 DEF Unknown, Decent
<1>. QED BY <1>15, <1>17 DEF NameInv

(* A step of a writer that stores nothing.                                 *)
Plods(t) ==
  /\ \A u \in Threads : u # t => Still(u)
  /\ UNCHANGED <<word, bank, semantic, self, next, parent, pgrp, sess>>
  /\ req'[t] = req[t] /\ todo'[t] \in {todo[t], <<>>}
  /\ ok'[t] \in {ok[t], FALSE} /\ at'[t] # "looked"
  /\ at'[t] \in Applying => at[t] \in Applying /\ pos'[t] = pos[t]
  /\ Unstarted(t)' => Unstarted(t)

(* It makes no pair known.                                                 *)
LEMMA PlodsNames ==
  ASSUME CallInv, CallInv', RecoveryInv, NameInv, NEW t \in Threads, Plods(t)
  PROVE  NameInv'
<1>1. Carried(t)' \subseteq Carried(t)
  <2>1. at'[t] # "looked" /\ req'[t] = req[t] /\ (ok'[t] => ok[t])
    BY DEF Plods
  <2>2. CASE todo'[t] = todo[t]
    BY <2>1, <2>2 DEF Carried
  <2>3. CASE todo'[t] = <<>>
    BY <2>1, <2>3 DEF Carried
  <2>. QED BY <2>2, <2>3 DEF Plods
<1>2. Carried(t)' \subseteq Known
  BY <1>1, KnownIs
<1>3. Opened' <=> Opened
  BY SameNames DEF Plods
<1>4. FirstOne(t)'
  <2>1. FirstOne(t)
    BY DEF NameInv, Numbered
  <2>. QED BY <1>3, <2>1 DEF FirstOne, Plods
<1>5. Decent(t)
  <2>1. Proper(t)
    BY <1>3, <1>4 DEF Plods, Proper, NameInv, Numbered
  <2>2. Means(t)
    BY DEF Plods, Means
  <2>3. Newcomer(t)' <=> Newcomer(t)
    BY DEF Plods, Newcomer
  <2>4. req[t].op = "join" /\ Unstarted(t) => Newcomer(t)
    BY DEF NameInv, Unknown
  <2>. QED BY <2>1, <2>2, <2>3, <2>4 DEF Decent, Plods
<1>. QED BY <1>2, <1>5, QuietNames DEF Plods

LEMMA PlodSteps ==
  ASSUME CallInv, RecoveryInv, NEW t \in Threads, UNCHANGED self,
         \/ TakeLock(t) \/ Mirrored(t) \/ NothingToRepair(t) \/ RepairBack(t) \/ RepairPoisons(t)
         \/ Stage(t) \/ StageFails(t) \/ Fail(t) \/ Unlock(t)
  PROVE  Plods(t)
<1>. USE DEF Go, End, storage, hostVars
<1>1. /\ at \in [Threads -> Points] /\ then \in [Threads -> Places] /\ pos \in [Threads -> Numbers]
      /\ todo \in [Threads -> Seq(AnyUpdate)] /\ ok \in [Threads -> BOOLEAN] /\ Paced(t)
  BY DEF CallInv, LocalTypes, RecoveryInv
<1>2. UNCHANGED <<word, bank, semantic, self, next, parent, pgrp, sess, req, found>>
  BY DEF TakeLock, Mirrored, NothingToRepair, RepairBack, RepairPoisons, Stage, StageFails, Fail, Unlock
<1>. DEFINE Others == \A u \in Threads : u # t =>
              /\ at'[u] = at[u] /\ then'[u] = then[u] /\ pos'[u] = pos[u]
              /\ todo'[u] = todo[u] /\ ok'[u] = ok[u]
            Own == /\ todo'[t] \in {todo[t], <<>>} /\ ok'[t] \in {ok[t], FALSE} /\ at'[t] # "looked"
                   /\ at'[t] \in Applying => at[t] \in Applying /\ pos'[t] = pos[t]
                   /\ Unstarted(t)' => Unstarted(t)
<1>3a. SUFFICES Others /\ Own
  BY <1>2 DEF Plods, Still
<1>. USE DEF Applying, Unstarted
<1>3. CASE TakeLock(t)
  <2>1. at[t] = "lock" /\ at' = [at EXCEPT ![t] = "mirror"] /\ pos' = [pos EXCEPT ![t] = 1]
        /\ then' = [then EXCEPT ![t] = "repair"] /\ UNCHANGED <<todo, ok, semantic>>
    BY <1>3 DEF TakeLock
  <2>. QED BY <1>1, <1>2, <2>1
<1>4. CASE Mirrored(t)
  <2>1. at[t] = "mirror" /\ at' = [at EXCEPT ![t] = then[t]] /\ pos' = [pos EXCEPT ![t] = 1]
        /\ then' = [then EXCEPT ![t] = "repair"] /\ UNCHANGED <<todo, ok, semantic>>
    BY <1>4 DEF Mirrored
  <2>. QED BY <1>1, <1>2, <2>1 DEF Places
<1>5. CASE NothingToRepair(t) \/ RepairBack(t) \/ RepairPoisons(t)
  <2>1. PICK x \in {"body", "unlock", "clear"} : at[t] = "repair" /\ at' = [at EXCEPT ![t] = x]
    BY <1>5 DEF NothingToRepair, RepairBack, RepairPoisons, Recovered
  <2>2. UNCHANGED <<pos, then, todo, semantic>> /\ (ok' = ok \/ ok' = [ok EXCEPT ![t] = FALSE])
    BY <1>5 DEF NothingToRepair, RepairBack, RepairPoisons
  <2>. QED BY <1>1, <1>2, <2>1, <2>2
<1>6. CASE Stage(t)
  <2>1. at[t] = "stage" /\ at' = [at EXCEPT ![t] = "store"] /\ UNCHANGED <<pos, then, todo, ok, semantic>>
    BY <1>6 DEF Stage
  <2>. QED BY <1>1, <1>2, <2>1
<1>7. CASE StageFails(t)
  <2>1. at[t] = "stage" /\ at' = [at EXCEPT ![t] = "mirror"] /\ pos' = [pos EXCEPT ![t] = 1]
        /\ then' = [then EXCEPT ![t] = "fail"] /\ UNCHANGED <<todo, ok, semantic>>
    BY <1>7 DEF StageFails
  <2>. QED BY <1>1, <1>2, <2>1
<1>8. CASE Fail(t)
  <2>1. at[t] = "fail" /\ at' = [at EXCEPT ![t] = "unlock"] /\ todo' = [todo EXCEPT ![t] = <<>>]
        /\ ok' = [ok EXCEPT ![t] = FALSE] /\ UNCHANGED <<pos, then, semantic>>
    BY <1>8 DEF Fail
  <2>. QED BY <1>1, <1>2, <2>1
<1>9. CASE Unlock(t)
  <2>1. at[t] = "unlock" /\ at' = [at EXCEPT ![t] = "done"] /\ UNCHANGED <<pos, then, todo, ok, semantic>>
    BY <1>9 DEF Unlock
  <2>. QED BY <1>1, <1>2, <2>1
<1>. QED BY <1>3, <1>4, <1>5, <1>6, <1>7, <1>8, <1>9

(* A writer that starts a transaction.                                     *)
LEMMA ListsNames ==
  ASSUME CallInv, CallInv', RecoveryInv, NameInv, NEW t \in Threads,
         at' = [at EXCEPT ![t] = "stage"], todo' = [todo EXCEPT ![t] = todo'[t]],
         UNCHANGED <<word, bank, semantic, self, next, parent, pgrp, sess, then, pos, req, ok, found>>,
         Opened, req[t].op # "join" \/ semantic.op # "none", at[t] \in {"repair", "body"},
         \A j \in DOMAIN todo'[t] : todo'[t][j].host # Nobody =>
            Named(todo'[t][j].guest, todo'[t][j].host) \in Known
  PROVE  NameInv'
<1>1. \A u \in Threads : u # t => Still(u)
  BY DEF Still, CallInv, LocalTypes
<1>2. at'[t] = "stage"
  BY DEF CallInv, LocalTypes
<1>3. Carried(t)' \subseteq Known
  <2>1. \A e : e \in Carried(t)' =>
          \/ \E j \in DOMAIN todo'[t] :
               todo'[t][j].host # Nobody /\ e = Named(todo'[t][j].guest, todo'[t][j].host)
          \/ /\ \/ req[t].op \in {"publish", "setpgid", "setsid", "resolveGroup"}
                \/ req[t].op = "join" /\ ok[t] /\ req[t].guest # 0
             /\ e = Named(req[t].guest, req[t].proc)
          \/ req[t].op \in {"setpgid", "setsid"} /\ e = Named(req[t].name, req[t].group)
    BY <1>2 DEF Carried
  <2>2. \A e : e \in Carried(t)' => e \in Known
    BY <2>1, CarriedIs, KnownIs
  <2>. QED BY <2>2
<1>4. Decent(t)
  <2>1. Opened'
    BY SameNames
  <2>2. Proper(t)
    BY <2>1 DEF Proper, FirstOne
  <2>3. Newcomer(t)' <=> Newcomer(t)
    BY DEF Newcomer
  <2>4. req[t].op = "join" /\ Unstarted(t)' => Newcomer(t)
    <3>1. Unstarted(t)' => semantic.op # "none"
      BY <1>2 DEF Unstarted, Applying
    <3>2. req[t].op = "join" /\ Unstarted(t) => Newcomer(t)
      BY DEF NameInv, Unknown
    <3>. QED BY <3>1, <3>2 DEF Unstarted
  <2>. QED BY <2>2, <2>3, <2>4 DEF Decent, Means
<1>. QED BY <1>1, <1>3, <1>4, QuietNames

(* The updates of a repair are those of the semantic record, of a          *)
(* publication those of its request, and a reap gives nothing a name.      *)
LEMMA ForwardNames ==
  ASSUME CallInv, CallInv', RecoveryInv, NameInv, NEW t \in Threads, RepairForward(t), UNCHANGED self
  PROVE  NameInv'
<1>1. /\ at[t] = "repair" /\ semantic.op # "none"
      /\ at' = [at EXCEPT ![t] = "stage"] /\ todo' = [todo EXCEPT ![t] = RepairUpdates]
      /\ UNCHANGED <<word, bank, semantic, next, parent, pgrp, sess, then, pos, req, ok, found>>
  BY DEF RepairForward, Go, storage, hostVars
<1>2. todo'[t] = RepairUpdates /\ todo' = [todo EXCEPT ![t] = todo'[t]]
  BY <1>1 DEF CallInv, LocalTypes
<1>3. /\ Named(semantic.guest, semantic.proc) \in Known /\ Named(semantic.name, semantic.group) \in Known
      /\ Recorded # {}
  BY <1>1 DEF Meant, Recorded, Known
<1>4. Opened
  BY <1>3 DEF NameInv, Numbered
<1>5. \A j \in DOMAIN RepairUpdates :
        Named(RepairUpdates[j].guest, RepairUpdates[j].host) \in Known
  BY <1>3 DEF RepairUpdates, Update
<1>. QED BY <1>1, <1>2, <1>4, <1>5, ListsNames

LEMMA PublishNames ==
  ASSUME CallInv, CallInv', RecoveryInv, NameInv, NEW t \in Threads, Publish(t), UNCHANGED self
  PROVE  NameInv'
<1>1. PICK s : s = <<Update("pid", req[t].guest, req[t].proc)>>
  OBVIOUS
<1>2. /\ at[t] = "body" /\ req[t].op = "publish"
      /\ at' = [at EXCEPT ![t] = "stage"] /\ todo' = [todo EXCEPT ![t] = s]
      /\ UNCHANGED <<word, bank, semantic, next, parent, pgrp, sess, then, pos, req, ok, found>>
  BY <1>1 DEF Publish, Apply, Go, storage, hostVars
<1>3. todo'[t] = s /\ todo' = [todo EXCEPT ![t] = todo'[t]]
  BY <1>2 DEF CallInv, LocalTypes
<1>4. Opened
  BY <1>2 DEF NameInv, Numbered
<1>5. \A j \in DOMAIN s : Named(s[j].guest, s[j].host) \in Known
  <2>1. Named(req[t].guest, req[t].proc) \in Known
    BY <1>2, CarriedIs, KnownIs
  <2>. QED BY <1>1, <2>1 DEF Update
<1>. QED BY <1>2, <1>3, <1>4, <1>5, ListsNames

LEMMA ReapNames ==
  ASSUME CallInv, CallInv', RecoveryInv, RecoveryInv', NameInv, NEW t \in Threads, Reap(t), UNCHANGED self
  PROVE  NameInv'
<1>1. /\ at[t] = "body" /\ req[t].op = "reap"
      /\ UNCHANGED <<word, bank, semantic, next, parent, pgrp, sess, then, pos, req, found>>
  BY DEF Reap, storage, hostVars
<1>2. CASE at' = [at EXCEPT ![t] = "unlock"] /\ ok' = [ok EXCEPT ![t] = FALSE] /\ UNCHANGED todo
  <2>1. at'[t] = "unlock" /\ ok'[t] = FALSE
    BY <1>2 DEF CallInv, LocalTypes
  <2>2. \A u \in Threads : u # t => Still(u)
    BY <1>1, <1>2 DEF Still, CallInv, LocalTypes
  <2>3. Unstarted(t)' => Unstarted(t)
    BY <2>1 DEF Unstarted, Applying
  <2>4. Plods(t)
    BY <1>1, <1>2, <2>1, <2>2, <2>3 DEF Plods, Applying
  <2>. QED BY <2>4, PlodsNames
<1>3. CASE at' = [at EXCEPT ![t] = "stage"] /\ UNCHANGED ok /\ todo' = [todo EXCEPT ![t] = todo'[t]]
  <2>1. at'[t] = "stage" /\ req'[t].op = "reap"
    BY <1>1, <1>3 DEF CallInv, LocalTypes
  <2>2. semantic'.op = "none"
    BY <1>1 DEF RecoveryInv, Paced
  <2>3. ReapList(t)'
    BY <2>1, <2>2 DEF RecoveryInv, BankInv, Applying, Listed
  <2>4. /\ \A j \in DOMAIN todo'[t] : todo'[t][j].host = Nobody
        /\ \E e : e \in Entries("pid")'
    BY <2>3 DEF ReapList
  <2>5. Entries("pid")' = Entries("pid")
    BY <1>1, SameNames
  <2>6. Recorded # {}
    BY <2>4, <2>5 DEF Recorded, Mapped, Kinds
  <2>7. Opened
    BY <2>6 DEF NameInv, Numbered
  <2>. QED BY <1>1, <1>3, <2>4, <2>7, ListsNames
<1>. QED BY <1>2, <1>3 DEF Reap, End, Apply, Go, CallInv, LocalTypes

(* A launch finds its process unknown.                                     *)
LEMMA NeverAgain ==
  ASSUME CallInv, RecoveryInv, NameInv, NEW t \in Threads
  PROVE  ~JoinAgain(t)
<1>. SUFFICES ASSUME JoinAgain(t) PROVE FALSE
  OBVIOUS
<1>1. at[t] = "body" /\ req[t].op = "join" /\ GuestOfHost("pid", req[t].proc) # 0
  BY DEF JoinAgain
<1>2. req[t].proc = t[1] /\ t[1] \in Procs
  BY <1>1, IdentityAssumption DEF CallInv, Asked, IdentityAssumption
<1>3. PICK i \in Slots : Live("pid")[i] = [guest |-> GuestOfHost("pid", t[1]), host |-> t[1]]
  BY <1>1, <1>2, KnownNumber DEF Kinds, Hosts
<1>4. Live("pid")[i] # Free /\ Live("pid")[i].host = t[1]
  BY <1>2, <1>3, IdentityAssumption DEF Free, IdentityAssumption
<1>5. Live("pid")[i] \in Known
  BY <1>4, KnownIs DEF Entries, Kinds
<1>6. Stranger(t)
  BY <1>1 DEF NameInv, Unknown, Unstarted
<1>. QED BY <1>4, <1>5, <1>6 DEF Stranger

(* The host changes the group of a process that is known.                  *)
LEMMA HostNames ==
  ASSUME CallInv, CallInv', RecoveryInv, NameInv, NEW t \in Threads, HostCall(t), UNCHANGED self
  PROVE  NameInv'
<1>1. /\ at[t] = "host" /\ req[t].op \in {"setpgid", "setsid"} /\ req[t].proc \in Procs
      /\ at' = [at EXCEPT ![t] = "repair"] /\ req' = [req EXCEPT ![t].made = TRUE]
      /\ UNCHANGED <<word, bank, semantic, next, parent, then, pos, todo, ok, found>>
  BY DEF HostCall, Go, storage, CallInv, Asked
<1>2. \A p \in Procs : p # req[t].proc => pgrp'[p] = pgrp[p] /\ sess'[p] = sess[p]
  BY DEF HostCall, CallInv, HostTypes
<1>3. Named(req[t].guest, req[t].proc) \in Known
  BY <1>1, CarriedIs, KnownIs
<1>4. \A p \in Procs : (\A e \in Known : e.host # p) => pgrp'[p] = pgrp[p] /\ sess'[p] = sess[p]
  BY <1>2, <1>3, Pair
<1>5. \A u \in Threads : u # t => Still(u)
  BY <1>1 DEF Still, CallInv, LocalTypes
<1>6. /\ at'[t] = "repair" /\ req'[t].op = req[t].op /\ req'[t].proc = req[t].proc
      /\ req'[t].guest = req[t].guest /\ req'[t].group = req[t].group /\ req'[t].name = req[t].name
  BY <1>1 DEF CallInv, LocalTypes, AnyRequest
<1>7. Carried(t)' \subseteq Carried(t)
  BY <1>1, <1>6 DEF Carried
<1>8. Carried(t)' \subseteq Known
  BY <1>7, KnownIs
<1>9. todo[t] = <<>>
  BY <1>1 DEF RecoveryInv, Paced, Applying
<1>10. Decent(t)
  BY <1>1, <1>6, <1>9 DEF Decent, Proper, FirstOne, Means, Newcomer
<1>. QED BY <1>1, <1>4, <1>5, <1>8, <1>10, QuietNames

(* A lookup answers with a pair of the maps.                               *)
LEMMA LookNames ==
  ASSUME CallInv, CallInv', ReadInv, RecoveryInv, NameInv, NEW t \in Threads,
         Look(t) \/ Scan(t) \/ Recheck(t), UNCHANGED self
  PROVE  NameInv'
<1>. USE DEF Go, storage, hostVars
<1>1. /\ at[t] \in LookPoints /\ at[t] \notin LockedPoints
      /\ UNCHANGED <<word, bank, semantic, next, parent, pgrp, sess, then, todo, req>>
      /\ \A u \in Threads : u # t =>
           at'[u] = at[u] /\ pos'[u] = pos[u] /\ ok'[u] = ok[u] /\ found'[u] = found[u]
  BY DEF Look, Scan, Recheck, LookPoints, LockedPoints, CallInv, LocalTypes
<1>2. \A u \in Threads : u # t => Still(u)
  BY <1>1 DEF Still
<1>3. req[t].op \in {"resolve", "resolveGroup", "getpgid", "waited"} /\ todo[t] = <<>>
  BY <1>1, Restful DEF CallInv, Asked
<1>4. at'[t] = "looked" /\ ok'[t] => found'[t] \in Known
  <2>. SUFFICES ASSUME at'[t] = "looked", ok'[t] PROVE found'[t] \in Known
    OBVIOUS
  <2>1. /\ at[t] = "recheck" /\ word = seen[t] /\ found'[t] = found[t] /\ found[t] # Free
    <3>1. ~Look(t)
      BY DEF Look, CallInv, LocalTypes
    <3>2. ~Scan(t)
      <4>1. Scan(t) => at'[t] \in {"scan", "recheck"}
        BY DEF Scan, CallInv, LocalTypes
      <4>. QED BY <4>1
    <3>3. Recheck(t) /\ word = seen[t]
      <4>1. Recheck(t)
        BY <3>1, <3>2
      <4>2. word # seen[t] => at' = [at EXCEPT ![t] = "scan"]
        BY <4>1 DEF Recheck
      <4>3. DOMAIN at = Threads
        BY DEF CallInv, LocalTypes
      <4>. QED BY <4>1, <4>2, <4>3
    <3>4. at[t] = "recheck" /\ found' = found /\ ok' = [ok EXCEPT ![t] = ~Closed /\ found[t] # Free]
      BY <3>3 DEF Recheck
    <3>5. found[t] # Free
      BY <3>4 DEF CallInv, LocalTypes
    <3>. QED BY <3>3, <3>4, <3>5
  <2>2. PICK j \in Slots : found[t] = Entry(t, j)
    BY <2>1 DEF ReadInv, Accepting
  <2>3. want[t].kind \in Kinds
    BY DEF CallInv, LocalTypes
  <2>4. found[t] = Live(want[t].kind)[j]
    BY <2>2 DEF Entry, Live, Active
  <2>5. found[t] \in Entries(want[t].kind)
    BY <2>1, <2>4 DEF Entries
  <2>. QED BY <2>1, <2>3, <2>5, KnownIs
<1>5. Carried(t)' \subseteq Known
  <2>1. \A e : e \in Carried(t)' =>
          \/ at'[t] = "looked" /\ ok'[t] /\ e = found'[t]
          \/ req[t].op = "resolveGroup" /\ e = Named(req[t].guest, req[t].proc)
    BY <1>1, <1>3 DEF Carried
  <2>2. \A e : e \in Carried(t)' => e \in Known
    BY <1>4, <2>1, CarriedIs, KnownIs
  <2>. QED BY <2>2
<1>6. Decent(t)
  BY <1>1, <1>3 DEF Decent, Proper, FirstOne, Means, Newcomer
<1>. QED BY <1>1, <1>2, <1>5, <1>6, QuietNames

(* A call is announced with pairs that are known, and the record cleared.  *)
LEMMA AnnounceNames ==
  ASSUME CallInv, CallInv', RecoveryInv, NameInv, NEW t \in Threads, UNCHANGED self,
         Announce(t) \/ Clear(t) \/ HostRefuses(t)
  PROVE  NameInv'
<1>. USE DEF Go, End, storage, hostVars
<1>1. /\ at[t] \in {"body", "clear", "host"} /\ at[t] \in LockedPoints
      /\ UNCHANGED <<word, bank, next, parent, pgrp, sess, then, pos, todo, req, found>>
      /\ \A u \in Threads : u # t => at'[u] = at[u] /\ ok'[u] = ok[u]
  BY DEF Announce, Clear, HostRefuses, LockedPoints, CallInv, LocalTypes
<1>2. \A u \in Threads : u # t => Still(u)
  BY <1>1 DEF Still
<1>3. \A u \in Threads : u # t => at[u] \notin Applying
  <2>1. lock \in {<<>>, <<t>>}
    BY <1>1 DEF RecoveryInv, LockInv
  <2>. QED BY <2>1, Alone DEF Applying, LockedPoints
<1>4. todo[t] = <<>> /\ todo'[t] = <<>>
  BY <1>1 DEF RecoveryInv, Paced, Applying
<1>5. Recorded' \subseteq Known
  <2>1. Mapped' = Mapped
    BY <1>1, SameNames
  <2>2. Meant' \subseteq Known
    <3>1. CASE Announce(t) /\ GetPgid(req[t].proc) # Nobody
      <4>1. /\ semantic'.guest = req[t].guest /\ semantic'.proc = req[t].proc
            /\ semantic'.name = req[t].name /\ semantic'.group = req[t].group
        BY <3>1 DEF Announce
      <4>2. Named(req[t].guest, req[t].proc) \in Known /\ Named(req[t].name, req[t].group) \in Known
        BY <3>1, CarriedIs, KnownIs DEF Announce
      <4>. QED BY <4>1, <4>2 DEF Meant
    <3>2. CASE semantic' = semantic
      BY <3>2 DEF Meant, Known, Recorded
    <3>3. CASE semantic' = NoSemantic
      BY <3>3 DEF Meant, NoSemantic
    <3>. QED BY <3>1, <3>2, <3>3 DEF Announce, Clear, HostRefuses
  <2>. QED BY <2>1, <2>2 DEF Recorded, Known
<1>6. /\ at'[t] \in {"unlock", "host", "body"}
      /\ req[t].op = "join" => at[t] = "clear"
      /\ ok'[t] => ok[t] \/ req[t].op # "join"
  <2>1. /\ DOMAIN at = Threads /\ DOMAIN ok = Threads
        /\ at[t] = "host" => req[t].op # "join"
    BY DEF CallInv, LocalTypes, Asked
  <2>2. CASE Announce(t)
    BY <2>1, <2>2 DEF Announce, End, Go
  <2>3. CASE Clear(t)
    <3>1. \E x \in {"unlock", "body"} : at' = [at EXCEPT ![t] = x]
      BY <2>3 DEF Clear, Recovered, Go
    <3>2. /\ at[t] = "clear" /\ ok' = [ok EXCEPT ![t] = req[t].made]
          /\ req[t].made => req[t].op # "join"
      BY <2>3 DEF Clear, CallInv, Asked
    <3>. QED BY <2>1, <3>1, <3>2
  <2>4. CASE HostRefuses(t)
    BY <2>1, <2>4 DEF HostRefuses, End, Go
  <2>. QED BY <2>2, <2>3, <2>4
<1>7. Carried(t)' \subseteq Known
  <2>1. Carried(t)' \subseteq Carried(t)
    BY <1>1, <1>4, <1>6 DEF Carried
  <2>. QED BY <2>1, KnownIs
<1>8. Opened' <=> Opened
  BY <1>1, SameNames
<1>9. Known # {} => Opened
  <2>1. ASSUME NEW e \in Known, ~Opened PROVE FALSE
    <3>1. PICK u \in Threads : todo[u] # <<>> /\ lock = <<u>>
      BY <2>1, Unopened
    <3>2. lock = <<t>>
      BY <1>1 DEF RecoveryInv, LockInv
    <3>. QED BY <1>4, <3>1, <3>2
  <2>. QED BY <2>1
<1>10. Decent(t)
  <2>1. Proper(t)
    BY <1>1, <1>4, <1>6, <1>8 DEF Proper, FirstOne, NameInv, Numbered
  <2>2. req[t].op = "join" => Newcomer(t)
    BY <1>6 DEF NameInv, Unknown, Unstarted
  <2>3. Newcomer(t)' <=> Newcomer(t)
    BY <1>1 DEF Newcomer
  <2>4. Means(t)
    BY <1>1 DEF Means
  <2>. QED BY <1>1, <2>1, <2>2, <2>3, <2>4 DEF Decent
<1>11. /\ Recorded' # {} => Opened'
       /\ Opened' => next'["pid"] > 1
       /\ next'["pid"] >= next["pid"]
  <2>1. next["pid"] \in Nat
    BY DEF CallInv, StorageTypes, Kinds, Numbers
  <2>. QED BY <1>1, <1>5, <1>8, <1>9, <2>1 DEF NameInv, Numbered
<1>. QED BY <1>1, <1>2, <1>3, <1>5, <1>7, <1>8, <1>10, <1>11, ThreadNames

(* Until number 1 is given, the only transaction is the launch that takes  *)
(* it.                                                                     *)
LEMMA FirstJoin ==
  ASSUME CallInv, RecoveryInv, NameInv, NEW t \in Threads, at[t] \in Applying, ~Opened
  PROVE  /\ semantic.op = "none" /\ req[t].op = "join" /\ JoinList(t)
         /\ todo[t][1] = Update("pid", 1, t[1]) /\ Len(todo[t]) = 3
         /\ pos[t] > 1 => next["pid"] > 1
         /\ t[1] \in Procs
<1>1. Recorded = {}
  BY DEF NameInv, Numbered
<1>2. semantic.op = "none"
  BY <1>1 DEF Recorded, Meant
<1>3. Listed(t) /\ Paced(t) /\ FirstOne(t)
  BY DEF RecoveryInv, BankInv, NameInv, Numbered
<1>4. todo[t] # <<>>
  BY <1>2, <1>3 DEF Listed, JoinList, ReapList
<1>5. req[t].op = "join" /\ todo[t][1].guest = 1 /\ (pos[t] > 1 => next["pid"] > 1)
  BY <1>3, <1>4 DEF FirstOne
<1>6. JoinList(t)
  BY <1>2, <1>3, <1>5 DEF Listed
<1>7. todo[t][1] = Update("pid", 1, t[1])
  BY <1>5, <1>6 DEF JoinList, Update
<1>. QED BY <1>2, <1>5, <1>6, <1>7, IdentityAssumption DEF JoinList, IdentityAssumption

(* What is written in the bank that is not in force is nobody's name yet.  *)
LEMMA StoresNames ==
  ASSUME CallInv, CallInv', RecoveryInv, NameInv, NEW t \in Threads, UNCHANGED self,
         Mirror(t) \/ Store(t)
  PROVE  NameInv'
<1>. USE DEF Go, hostVars
<1>1. /\ UNCHANGED <<word, semantic, parent, pgrp, sess, then, todo, req, ok, found>>
      /\ \A u \in Threads : u # t => at'[u] = at[u] /\ pos'[u] = pos[u]
      /\ Paced(t)
  BY DEF Mirror, Store, CallInv, LocalTypes, RecoveryInv
<1>2. \A k \in Kinds : Entries(k)' = Entries(k)
  <2>1. \E k, i, e : bank' = [bank EXCEPT ![Inactive][k][i] = e]
    <3>1. CASE Mirror(t)
      <4>1. PICK e : e = journal[pos[t]]
        OBVIOUS
      <4>2. bank' = [bank EXCEPT ![Inactive][e.kind][e.slot] = Live(e.kind)[e.slot]]
        BY <3>1, <4>1 DEF Mirror
      <4>. QED BY <4>2
    <3>2. CASE Store(t)
      <4>1. PICK e : e = journal[Len(journal)]
        OBVIOUS
      <4>2. PICK f : f = IF todo[t][pos[t]].host = Nobody THEN Free
                         ELSE [guest |-> todo[t][pos[t]].guest, host |-> todo[t][pos[t]].host]
        OBVIOUS
      <4>3. bank' = [bank EXCEPT ![Inactive][e.kind][e.slot] = f]
        BY <3>2, <4>1, <4>2 DEF Store
      <4>. QED BY <4>3
    <3>. QED BY <3>1, <3>2
  <2>2. PICK k, i, e : bank' = [bank EXCEPT ![Inactive][k][i] = e]
    BY <2>1
  <2>3. \A l : Live(l)' = Live(l)
    BY <1>1, <2>2, BankTypes DEF Live, Active
  <2>. QED BY <2>3 DEF Entries
<1>3. (Opened' <=> Opened) /\ Recorded' = Recorded
  BY <1>1, <1>2 DEF Opened, Recorded, Mapped, Meant, Kinds
<1>4. \A u \in Threads : u # t => Still(u)
  BY <1>1 DEF Still
<1>5. /\ Mirror(t) => at'[t] = at[t] /\ at[t] = "mirror" /\ next' = next
      /\ Store(t) => at[t] = "store" /\ at'[t] \in {"stage", "commit"} /\ pos'[t] = pos[t] + 1
  BY DEF Mirror, Store, CallInv, LocalTypes
<1>6. next["pid"] \in Nat /\ next'["pid"] \in Nat
  BY DEF CallInv, StorageTypes, Kinds, Numbers
<1>7. Store(t) =>
        /\ next'["pid"] >= next["pid"]
        /\ todo[t][pos[t]] = Update("pid", 1, t[1]) => next'["pid"] > 1
  <2>. SUFFICES ASSUME Store(t)
                PROVE  /\ next'["pid"] >= next["pid"]
                       /\ todo[t][pos[t]] = Update("pid", 1, t[1]) => next'["pid"] > 1
    OBVIOUS
  <2>1. PICK u : u = todo[t][pos[t]]
    OBVIOUS
  <2>2. u \in AnyUpdate
    BY <1>1, <2>1, UpdateIs DEF Store
  <2>3. next' = IF u.host = Nobody THEN next ELSE [next EXCEPT ![u.kind] = Raise(@, u.guest)]
    BY <2>1 DEF Store
  <2>4. next["pid"] \in Nat /\ u.guest \in Nat /\ u.kind \in Kinds /\ DOMAIN next = Kinds
    BY <2>2 DEF CallInv, StorageTypes, Kinds, Numbers, AnyUpdate
  <2>5. next'["pid"] = IF u.host # Nobody /\ u.kind = "pid" THEN Raise(next["pid"], u.guest) ELSE next["pid"]
    BY <2>3, <2>4 DEF Kinds
  <2>6. Raise(next["pid"], u.guest) >= next["pid"] /\ Raise(next["pid"], u.guest) > u.guest
    BY <2>4 DEF Raise
  <2>7. u = Update("pid", 1, t[1]) => u.host # Nobody /\ u.kind = "pid" /\ u.guest = 1
    BY IdentityAssumption DEF Update, IdentityAssumption
  <2>. QED BY <2>1, <2>4, <2>5, <2>6, <2>7
<1>8. next'["pid"] >= next["pid"]
  BY <1>5, <1>6, <1>7
<1>9. FirstOne(t)'
  <2>1. CASE Mirror(t)
    BY <1>1, <1>3, <1>5, <2>1 DEF FirstOne, NameInv, Numbered, Applying
  <2>2. CASE Store(t) /\ ~Opened
    <3>1. at[t] = "store" /\ at[t] \in Applying /\ pos'[t] = pos[t] + 1
      BY <2>2 DEF Store, Applying, CallInv, LocalTypes
    <3>2. /\ req[t].op = "join" /\ todo[t][1] = Update("pid", 1, t[1])
          /\ pos[t] > 1 => next["pid"] > 1
      BY <2>2, <3>1, FirstJoin
    <3>3. pos[t] \in Nat \ {0}
      BY DEF CallInv, LocalTypes, Numbers
    <3>4. next'["pid"] > 1
      BY <1>6, <1>7, <1>8, <2>2, <3>2, <3>3
    <3>5. todo[t][1].guest = 1
      BY <3>2 DEF Update
    <3>. QED BY <1>1, <3>1, <3>2, <3>4, <3>5 DEF FirstOne, Applying
  <2>3. CASE Opened
    BY <1>3, <2>3 DEF FirstOne
  <2>. QED BY <1>5, <2>1, <2>2, <2>3
<1>10. Decent(t)
  <2>1. Proper(t) /\ Means(t)
    BY <1>1, <1>3, <1>9 DEF Proper, Means, NameInv, Numbered
  <2>2. Unstarted(t)' => Unstarted(t)
    BY <1>1, <1>5 DEF Unstarted, Applying
  <2>3. Newcomer(t)' <=> Newcomer(t)
    BY <1>1 DEF Newcomer
  <2>. QED BY <1>1, <2>1, <2>2, <2>3 DEF Decent, NameInv, Unknown
<1>11. Carried(t)' \subseteq Known
  <2>1. Carried(t)' = Carried(t)
    BY <1>1, <1>5 DEF Carried
  <2>. QED BY <2>1, KnownIs
<1>12. /\ Recorded' \subseteq Known
       /\ Recorded' # {} => Opened'
       /\ Opened' => next'["pid"] > 1
  BY <1>3, <1>6, <1>8 DEF NameInv, Numbered, Known
<1>. QED BY <1>1, <1>3, <1>4, <1>8, <1>10, <1>11, <1>12, ThreadNames

(* The commit word publishes what its writer carried.                      *)
LEMMA CommitNames ==
  ASSUME CallInv, CallInv', RecoveryInv, NameInv, NEW t \in Threads, Commit(t), UNCHANGED self
  PROVE  NameInv'
<1>1. /\ UNCHANGED <<semantic, next, parent, pgrp, sess, req, found>>
      /\ at' = [at EXCEPT ![t] = "mirror"] /\ pos' = [pos EXCEPT ![t] = 1]
      /\ then' = [then EXCEPT ![t] = IF semantic.op = "none" THEN "unlock" ELSE "clear"]
      /\ todo' = [todo EXCEPT ![t] = <<>>] /\ ok' = [ok EXCEPT ![t] = TRUE]
      /\ at[t] = "commit" /\ at[t] \in Applying
  BY DEF Commit, Go, hostVars, Applying
<1>2. \A k \in Kinds : Entries(k)' = Applied(t, k)
  BY CommitRecovers
<1>3. /\ Listed(t) /\ todo[t] \in Seq(AnyUpdate) /\ pos[t] = Len(todo[t]) + 1
      /\ at \in [Threads -> Points] /\ then \in [Threads -> Places]
  BY <1>1 DEF RecoveryInv, BankInv, Paced, CallInv, LocalTypes
<1>4. \A u \in Threads : u # t => Still(u)
  BY <1>1 DEF Still, CallInv, LocalTypes
<1>5. /\ at'[t] = "mirror" /\ todo'[t] = <<>> /\ ok'[t] /\ then'[t] # "repair"
      /\ then'[t] = "clear" => semantic.op # "none"
  BY <1>1, <1>3 DEF CallInv, LocalTypes
(* All updates are done.                                                   *)
<1>6. \A k, u : u \in Done(t, k) <=> \E j \in DOMAIN todo[t] : u = todo[t][j] /\ u.kind = k
  <2>1. 1 .. pos[t] - 1 = DOMAIN todo[t]
    BY <1>3
  <2>. QED BY <2>1 DEF Done
<1>7. Mapped' \subseteq Known
  <2>1. ASSUME NEW k \in Kinds, NEW e \in Applied(t, k) PROVE e \in Known
    <3>1. CASE e \in Entries(k)
      BY <3>1, KnownIs
    <3>2. CASE e \notin Entries(k)
      <4>1. PICK u \in Done(t, k) : u.host # Nobody /\ e = [guest |-> u.guest, host |-> u.host]
        BY <3>2 DEF Applied
      <4>2. PICK j \in DOMAIN todo[t] : u = todo[t][j]
        BY <1>6
      <4>. QED BY <4>1, <4>2, CarriedIs, KnownIs DEF Named
    <3>. QED BY <3>1, <3>2
  <2>. QED BY <1>2, <2>1 DEF Mapped
(* Number 1 is not taken back.                                             *)
<1>8. Opened => Opened'
  <2>. SUFFICES ASSUME Opened, \A e \in Applied(t, "pid") : e.guest # 1 PROVE FALSE
    BY <1>2 DEF Opened, Kinds
  <2>1. PICK e \in Entries("pid") : e.guest = 1
    BY DEF Opened
  <2>2. PICK u \in Done(t, "pid") : u.guest = 1
    BY <2>1 DEF Applied
  <2>3. u.host = Nobody
    <3>1. [guest |-> u.guest, host |-> u.host].guest = 1
      BY <2>2
    <3>. QED BY <2>2, <3>1 DEF Applied
  <2>4. PICK j \in DOMAIN todo[t] : u = todo[t][j] /\ u.kind = "pid"
    BY <1>6
  <2>5. semantic.op = "none" /\ req[t].op = "reap" /\ ReapList(t)
    <3>1. t[1] # Nobody /\ (req[t].op = "publish" => req[t].proc # Nobody)
      <4>1. t[1] \in Procs /\ Nobody \notin Procs
        BY IdentityAssumption DEF IdentityAssumption
      <4>2. req[t].op = "publish" => req[t].proc \in Procs
        BY DEF CallInv, Asked
      <4>. QED BY <4>1, <4>2
    <3>2. semantic.op # "none" => todo[t] # RepairUpdates
      BY <2>4 DEF RepairUpdates, Update
    <3>3. semantic.op = "none" /\ req[t].op = "join" => ~JoinList(t)
      <4>1. ASSUME JoinList(t) PROVE FALSE
        <5>1. /\ todo[t][1].host = t[1] /\ todo[t][2].kind = "pgid" /\ todo[t][3].kind = "sid"
              /\ j \in {1, 2, 3}
          BY <1>3, <2>4, <4>1 DEF JoinList, Update
        <5>. QED BY <2>3, <2>4, <3>1, <5>1
      <4>. QED BY <4>1
    <3>4. req[t].op = "publish" => todo[t] # <<Update("pid", req[t].guest, req[t].proc)>>
      BY <2>3, <2>4, <3>1 DEF Update
    <3>. QED BY <1>3, <3>2, <3>3, <3>4 DEF Listed
  <2>6. j = 1
    BY <2>4, <2>5 DEF ReapList
  <2>7. PICK f : f = [guest |-> todo[t][1].guest, host |-> req[t].proc]
    OBVIOUS
  <2>8. f \in Entries("pid") /\ f.guest = 1 /\ f.host = req[t].proc
    BY <2>2, <2>4, <2>5, <2>6, <2>7 DEF ReapList
  <2>9. req[t].proc \in Procs
    BY <2>5 DEF CallInv, Asked
  <2>10. f \in OfProcs
    BY <2>8, <2>9, KnownIs DEF OfProcs, Kinds
  <2>. QED BY <2>5, <2>8, <2>10 DEF NameInv, Numbered
(* The first transaction gives it.                                         *)
<1>9. ~Opened => Opened' /\ next["pid"] > 1
  <2>. SUFFICES ASSUME ~Opened PROVE Opened' /\ next["pid"] > 1
    OBVIOUS
  <2>1. /\ todo[t][1] = Update("pid", 1, t[1]) /\ Len(todo[t]) = 3
        /\ pos[t] > 1 => next["pid"] > 1
        /\ t[1] \in Procs
    BY <1>1, FirstJoin
  <2>2. pos[t] > 1
    BY <1>3, <2>1
  <2>3. PICK u : u = todo[t][1]
    OBVIOUS
  <2>4. u.kind = "pid" /\ u.guest = 1 /\ u.host = t[1] /\ u.host # Nobody
    BY <2>1, <2>3, IdentityAssumption DEF Update, IdentityAssumption
  <2>5. u \in Done(t, "pid")
    BY <1>3, <1>6, <2>1, <2>3, <2>4
  <2>6. [guest |-> u.guest, host |-> u.host] \in Applied(t, "pid")
    BY <2>4, <2>5 DEF Applied
  <2>7. Opened'
    BY <1>2, <2>4, <2>6 DEF Opened, Kinds
  <2>. QED BY <2>1, <2>2, <2>7
<1>10. /\ Opened' /\ Recorded' \subseteq Known
       /\ next'["pid"] > 1 /\ next'["pid"] >= next["pid"]
  <2>1. next["pid"] \in Nat /\ next' = next /\ (Opened => next["pid"] > 1)
    BY <1>1 DEF CallInv, StorageTypes, Kinds, Numbers, NameInv, Numbered
  <2>2. Meant' \subseteq Known
    BY <1>1 DEF Meant, Known, Recorded
  <2>. QED BY <1>7, <1>8, <1>9, <2>1, <2>2 DEF Recorded
<1>11. Carried(t)' \subseteq Known
  <2>1. \A e : e \in Carried(t)' =>
          \/ /\ \/ req[t].op \in {"publish", "setpgid", "setsid", "resolveGroup"}
                \/ req[t].op = "join" /\ req[t].guest # 0
             /\ e = Named(req[t].guest, req[t].proc)
          \/ req[t].op \in {"setpgid", "setsid"} /\ e = Named(req[t].name, req[t].group)
    BY <1>1, <1>5 DEF Carried
  <2>2. req[t].op = "join" /\ req[t].guest # 0 => Named(req[t].guest, req[t].proc) \in Known
    <3>. SUFFICES ASSUME req[t].op = "join", req[t].guest # 0
                  PROVE  Named(req[t].guest, req[t].proc) \in Known
      OBVIOUS
    <3>1. semantic.op = "none"
      BY <1>1 DEF NameInv, Unknown, Unstarted, Newcomer
    <3>2. JoinList(t) /\ req[t].proc = t[1] /\ t[1] # Nobody
      BY <1>3, <3>1, IdentityAssumption DEF Listed, CallInv, Asked, IdentityAssumption
    <3>3. 1 \in DOMAIN todo[t] /\ todo[t][1].guest = req[t].guest /\ todo[t][1].host = t[1]
      BY <1>3, <3>2 DEF JoinList, Update
    <3>. QED BY <3>2, <3>3, CarriedIs, KnownIs
  <2>3. \A e : e \in Carried(t)' => e \in Known
    BY <2>1, <2>2, CarriedIs, KnownIs
  <2>. QED BY <2>3
<1>12. Decent(t)
  <2>1. Proper(t)
    BY <1>1, <1>5, <1>10 DEF Proper, FirstOne
  <2>2. Newcomer(t)' <=> Newcomer(t)
    BY <1>1 DEF Newcomer
  <2>3. Unstarted(t)' => Unstarted(t)
    BY <1>1, <1>5 DEF Unstarted, Applying
  <2>. QED BY <1>1, <2>1, <2>2, <2>3 DEF Decent, Means, NameInv, Unknown
<1>. QED BY <1>1, <1>4, <1>10, <1>11, <1>12, ThreadNames

(* A launch takes a number for a process that nobody knows.                *)
LEMMA JoinNewNames ==
  ASSUME CallInv, CallInv', RecoveryInv, NameInv, NEW t \in Threads, JoinNew(t), UNCHANGED self
  PROVE  NameInv'
<1>1. PICK p : p = t[1]
  OBVIOUS
<1>2. /\ at[t] = "body" /\ at[t] \in LockedPoints /\ req[t].op = "join" /\ req[t].proc = p
      /\ p \in Procs /\ p # Nobody
      /\ at' = [at EXCEPT ![t] = "stage"]
      /\ UNCHANGED <<word, bank, semantic, parent, pgrp, sess, then, pos, ok, found>>
  <2>1. p \in Procs /\ p # Nobody
    BY <1>1, IdentityAssumption DEF IdentityAssumption
  <2>2. at[t] = "body" /\ req[t].op = "join" /\ at' = [at EXCEPT ![t] = "stage"]
    BY DEF JoinNew, Apply, Go
  <2>3. UNCHANGED <<word, bank, semantic, parent, pgrp, sess, then, pos, ok, found>>
    BY DEF JoinNew, hostVars
  <2>4. req[t].proc = p
    BY <1>1, <2>2 DEF CallInv, Asked
  <2>. QED BY <2>1, <2>2, <2>3, <2>4 DEF LockedPoints
<1>3. PICK gp, gg, gs \in Numbers : JoinsAs(t, gp, gg, gs)
  BY JoinNewIs
<1>4. PICK s : s = <<Update("pid", gp, p), Update("pgid", gg, pgrp[p]), Update("sid", gs, sess[p])>>
  OBVIOUS
<1>5. /\ todo' = [todo EXCEPT ![t] = s] /\ req' = [req EXCEPT ![t].guest = gp]
      /\ Len(s) = 3 /\ DOMAIN s = {1, 2, 3}
      /\ s[1].guest = gp /\ s[1].host = p
      /\ s[2].guest = gg /\ s[2].host = pgrp[p] /\ s[3].guest = gs /\ s[3].host = sess[p]
  BY <1>1, <1>3, <1>4 DEF JoinsAs, Update
<1>6. /\ at'[t] = "stage" /\ todo'[t] = s
      /\ req'[t].op = "join" /\ req'[t].proc = p /\ req'[t].guest = gp
      /\ pos'[t] = 1 /\ ok'[t] = FALSE /\ semantic.op = "none" /\ todo[t] = <<>>
  <2>1. pos[t] = 1 /\ ok[t] = FALSE /\ semantic.op = "none" /\ todo[t] = <<>>
    <3>1. Paced(t) /\ Earned(t) /\ ok[t] \in BOOLEAN
      BY DEF RecoveryInv, CallInv, LocalTypes
    <3>2. pos[t] = 1 /\ semantic.op = "none" /\ todo[t] = <<>>
      BY <1>2, <3>1 DEF Paced, Applying
    <3>. QED BY <1>2, <3>1, <3>2 DEF Earned, Undecided
  <2>. QED BY <1>2, <1>5, <2>1 DEF CallInv, LocalTypes, AnyRequest
<1>7. \A u \in Threads : u # t => Still(u)
  BY <1>2, <1>5 DEF Still, CallInv, LocalTypes
<1>8. Newcomer(t) /\ Stranger(t)
  BY <1>2 DEF NameInv, Unknown, Unstarted
<1>9. /\ \A e \in Known : e.host # p
      /\ \A u \in Threads : u # t => req[u].proc # p
      /\ parent[p] = Nobody /\ pgrp[p] \in {p} \union Outside /\ sess[p] \in {p} \union Outside
  BY <1>1, <1>8 DEF Stranger
<1>10. (Opened' <=> Opened) /\ Mapped' = Mapped /\ Meant' = Meant
  BY <1>2, SameNames DEF Meant
(* It leads its group and session, or they are from outside.               *)
<1>11. (pgrp[p] = p => gg = gp) /\ (sess[p] = p => gs = gp)
  <2>1. ASSUME NEW k \in Kinds, NEW i \in Slots, NEW g \in Numbers, Live(k)[i] = [guest |-> g, host |-> p]
        PROVE  FALSE
    <3>1. PICK e : e = Live(k)[i]
      OBVIOUS
    <3>2. e.host = p /\ e # Free
      BY <1>2, <2>1, <3>1 DEF Free
    <3>3. e \in Known
      BY <3>1, <3>2, KnownIs DEF Entries
    <3>. QED BY <1>9, <3>2, <3>3
  <2>2. \A i \in Slots : /\ Live("pgid")[i] # [guest |-> gg, host |-> p]
                         /\ Live("sid")[i] # [guest |-> gs, host |-> p]
    BY <2>1 DEF Kinds
  <2>3. /\ \/ \E i \in Slots : Live("pgid")[i] = [guest |-> gg, host |-> pgrp[p]]
           \/ \A i \in Slots : Live("pgid")[i].host # pgrp[p] /\ (pgrp[p] = p => gg = gp)
        /\ \/ \E i \in Slots : Live("sid")[i] = [guest |-> gs, host |-> sess[p]]
           \/ \A i \in Slots : Live("sid")[i].host # sess[p] /\ (sess[p] = p => gs = gp)
    BY <1>1, <1>3 DEF JoinsAs
  <2>4. \E i \in Slots : TRUE
    BY IdentityAssumption DEF IdentityAssumption, Slots
  <2>. QED BY <2>2, <2>3, <2>4
<1>12. OfProcs' \subseteq OfProcs \union {Named(gp, p)}
  <2>1. \A e : e \in Carried(t)' <=> \E j \in {1, 2, 3} : s[j].host # Nobody /\ e = Named(s[j].guest, s[j].host)
    BY <1>5, <1>6 DEF Carried
  <2>2. \A e : e \in Carried(t)' =>
          e = Named(gp, p) \/ e = Named(gg, pgrp[p]) \/ e = Named(gs, sess[p])
    BY <1>5, <2>1
  <2>3. ASSUME NEW e \in Carried(t)', e.host \in Procs PROVE e = Named(gp, p)
    <3>1. (pgrp[p] \notin Procs \/ pgrp[p] = p) /\ (sess[p] \notin Procs \/ sess[p] = p)
      BY <1>9, IdentityAssumption DEF IdentityAssumption
    <3>2. CASE e = Named(gg, pgrp[p])
      BY <1>11, <2>3, <3>1, <3>2, Pair
    <3>3. CASE e = Named(gs, sess[p])
      BY <1>11, <2>3, <3>1, <3>3, Pair
    <3>. QED BY <2>2, <2>3, <3>2, <3>3
  <2>4. \A u \in Threads : u # t => Carried(u)' = Carried(u)
    BY <1>7, StillCarries
  <2>5. \A e : e \in InHand' => e \in Carried(t)' \/ e \in Known
    <3>1. \A u \in Threads : Carried(u) \subseteq Known
      BY KnownIs
    <3>. QED BY <2>4, <3>1 DEF InHand
  <2>6. \A e : e \in Known' => e \in Carried(t)' \/ e \in Known
    BY <1>10, <2>5 DEF Known, Recorded, Selves
  <2>. QED BY <2>3, <2>6 DEF OfProcs
<1>13. \A e \in Known' : e.host \in Procs => e \in OfProcs \/ e.host = p
  BY <1>12, Pair DEF OfProcs
(* Nothing else is known before number 1 is given.                         *)
<1>14. ~Opened => OfProcs = {}
  <2>1. ASSUME ~Opened, NEW e \in Known PROVE FALSE
    <3>1. PICK u \in Threads : todo[u] # <<>> /\ lock = <<u>>
      BY <2>1, Unopened
    <3>2. lock = <<t>>
      BY <1>2 DEF RecoveryInv, LockInv
    <3>. QED BY <1>6, <3>1, <3>2
  <2>. QED BY <2>1 DEF OfProcs
<1>15. /\ gp \in Nat /\ next["pid"] \in Nat
       /\ \/ Opened /\ gp = next["pid"] /\ next'["pid"] = gp + 1
          \/ ~Opened /\ gp = 1 /\ next'["pid"] = next["pid"]
  <2>1. Opened <=> \E i \in Slots : Live("pid")[i].guest = 1
    BY DEF Opened, Entries, Free
  <2>2. gp \in Nat /\ next["pid"] \in Nat
    BY <1>3 DEF Numbers, CallInv, StorageTypes, Kinds
  <2>. QED BY <1>3, <2>1, <2>2 DEF JoinsAs
<1>16. next'["pid"] >= next["pid"] /\ (Opened => next'["pid"] > 1)
  BY <1>15 DEF NameInv, Numbered
<1>17. \A u \in Threads : u # t => Decent(u)
  BY <1>2, <1>7, <1>10, <1>16, StillDecent
<1>18. \A u \in Threads : Proper(u)
  <2>1. FirstOne(t)'
    <3>1. ~Opened => gp = 1
      BY <1>15
    <3>2. ~(pos'[t] > 1)
      BY <1>6
    <3>. QED BY <1>5, <1>6, <1>10, <3>1, <3>2 DEF FirstOne
  <2>2. Proper(t)
    BY <1>6, <2>1 DEF Proper
  <2>. QED BY <1>17, <2>2 DEF Decent
<1>19. Agree' /\ Numbered'
  <2>1. /\ Recorded' # {} => Opened'
        /\ \A q \in Procs : self'[q] # 0 => Opened'
        /\ Opened' => next'["pid"] > 1
    BY <1>10, <1>16 DEF NameInv, Numbered, Recorded
  <2>2. \A e \in OfProcs : parent'[e.host] \in {parent[e.host], Nobody}
    BY <1>2
  <2>3. \A u \in Threads : req'[u].op \in {"waited", "reap"} => req'[u].proc # p
    BY <1>6, <1>7, <1>9 DEF Still
  <2>4. \/ Opened /\ gp = next["pid"] /\ next'["pid"] = gp + 1
        \/ /\ gp = 1 /\ OfProcs = {} /\ parent'[p] = Nobody
           /\ \A u \in Threads : req'[u].op \in {"waited", "reap"} => req'[u].proc # p
    BY <1>2, <1>9, <1>14, <1>15, <2>3
  <2>. QED BY <1>2, <1>9, <1>12, <1>15, <1>16, <1>18, <2>1, <2>2, <2>4, NewNumber
<1>20. ASSUME NEW u \in Threads, Newcomer(u)' PROVE Stranger(u)'
  <2>1. u # t
    BY <1>6, <1>20 DEF Newcomer, Numbers
  <2>2. Newcomer(u) /\ Stranger(u) /\ u[1] \in Procs
    BY <1>17, <1>20, <2>1, IdentityAssumption DEF Decent, NameInv, Unknown, IdentityAssumption
  <2>3. u[1] # p
    BY <1>2, <2>1, <2>2 DEF Stranger
  <2>4. \A e \in Known' : e.host # u[1]
    BY <1>13, <2>2, <2>3 DEF Stranger, OfProcs
  <2>5. \A v \in Threads : v # u => req'[v].proc # u[1]
    BY <1>6, <1>7, <2>2, <2>3 DEF Stranger, Still
  <2>. QED BY <1>2, <2>2, <2>4, <2>5 DEF Stranger
<1>21. Unknown'
  <2>1. ~Unstarted(t)'
    BY <1>2, <1>6 DEF Unstarted, Applying
  <2>. QED BY <1>17, <1>20, <2>1 DEF Unknown, Decent
<1>. QED BY <1>19, <1>21 DEF NameInv

(* Every action keeps NameInv when the host gives out fresh ids.           *)
LEMMA RegistryNames ==
  ASSUME CallInv, CallInv', ReadInv, RecoveryInv, RecoveryInv', NameInv, NEW t \in Threads, Registry(t)
  PROVE  NameInv'
<1>1. Step(t) /\ UNCHANGED self
  BY DEF Registry
<1>2. CASE Look(t) \/ Scan(t) \/ Recheck(t)
  BY <1>1, <1>2, LookNames
<1>3. CASE \/ TakeLock(t) \/ Mirrored(t) \/ NothingToRepair(t) \/ RepairBack(t) \/ RepairPoisons(t)
           \/ Stage(t) \/ StageFails(t) \/ Fail(t) \/ Unlock(t)
  BY <1>1, <1>3, PlodSteps, PlodsNames
<1>4. CASE \/ Mirror(t) \/ Store(t) \/ Commit(t) \/ RepairForward(t) \/ Clear(t)
           \/ JoinAgain(t) \/ JoinNew(t) \/ Publish(t) \/ Announce(t)
           \/ HostCall(t) \/ HostRefuses(t) \/ Reap(t)
  BY <1>1, <1>4, StoresNames, CommitNames, ForwardNames, AnnounceNames, NeverAgain, JoinNewNames,
     PublishNames, HostNames, ReapNames
<1>. QED BY <1>1, <1>2, <1>3, <1>4 DEF Step

LEMMA StutterNames ==
  ASSUME CallInv, CallInv', RecoveryInv, NameInv, UNCHANGED vars
  PROVE  NameInv'
<1>1. /\ UNCHANGED <<word, bank, next, semantic, parent, pgrp, sess, self>>
      /\ UNCHANGED <<at, then, pos, todo, req, ok, found>>
  BY DEF vars, registryVars, storage, locals, hostVars
<1>2. \A u \in Threads : Still(u)
  BY <1>1 DEF Still
<1>3. Mapped' = Mapped /\ (Opened' <=> Opened) /\ Meant' = Meant
  BY <1>1, SameNames DEF Meant
<1>4. Known' \subseteq Known
  BY <1>1, <1>2, <1>3, StillCarries DEF Known, Recorded, InHand, Selves
<1>5. next'["pid"] >= next["pid"]
  BY <1>1 DEF CallInv, StorageTypes, Kinds, Numbers
<1>6. \A u \in Threads : Decent(u)
  BY <1>1, <1>2, <1>3, <1>5, StillDecent
<1>. QED BY <1>1, <1>3, <1>4, <1>5, <1>6, Copies DEF NameInv, Numbered, Recorded

LEMMA NameStep ==
  ASSUME CallInv, CallInv', ReadInv, RecoveryInv, RecoveryInv', NameInv, [Next]_vars, [FreshIds]_vars
  PROVE  NameInv'
<1>1. CASE UNCHANGED vars
  BY <1>1, StutterNames
<1>2. CASE Next /\ FreshIds
  <2>1. CASE \E p \in Procs, g, s \in Hosts : Launch(p, g, s)
    BY <1>2, <2>1, LaunchNames
  <2>2. CASE \E p \in Procs : Exit(p) \/ Kill(p)
    BY <2>2, LifeNames
  <2>3. ASSUME NEW t \in Threads, Registry(t) PROVE NameInv'
    BY <2>3, RegistryNames
  <2>4. ASSUME NEW t \in Threads,
               Joined(t) \/ JoinFailed(t) \/ ChildPublished(t) \/ ChildAbandoned(t) \/ ParentAbandons(t)
        PROVE  NameInv'
    BY <2>4, LifeNames
  <2>5. ASSUME NEW t \in Threads, NEW c \in Procs, Fork(t, c) \/ Wait(t, c) PROVE NameInv'
    BY <1>2, <2>5, ForkNames, WaitNames
  <2>6. ASSUME NEW t \in Threads,
               \/ \E a0, a1 \in {0} \union Guests : SetPgid(t, a0, a1)
               \/ Resolved(t) \/ ResolvedGroup(t) \/ SetSid(t) \/ AskGroup(t)
               \/ Waited(t) \/ Unresolved(t) \/ Return(t) \/ ParentPublished(t)
        PROVE  NameInv'
    BY <2>6, SetPgidNames, ResolvedNames, ResolvedGroupNames, OwnNames, ReturnNames
  <2>. QED BY <1>2, <2>1, <2>2, <2>3, <2>4, <2>5, <2>6 DEF Next
<1>. QED BY <1>1, <1>2

(* At first nothing has a name.                                            *)
LEMMA FirstNames == Init => NameInv
<1>. SUFFICES ASSUME Init PROVE NameInv
  OBVIOUS
<1>1. \A t \in Threads : /\ at[t] = "dead" /\ req[t] = NoRequest /\ todo[t] = <<>> /\ ok[t] = FALSE
  BY DEF Init, RegistryInit
<1>2. NoRequest.op = "none"
  BY DEF NoRequest, Request
<1>3. \A k \in Kinds : Entries(k) = {}
  BY DEF Init, RegistryInit, Entries, Live, Active, Start
<1>4. semantic.op = "none" /\ \A p \in Procs : self[p] = 0
  BY DEF Init, RegistryInit, NoSemantic
<1>5. Recorded = {}
  BY <1>3, <1>4 DEF Recorded, Mapped, Meant
<1>6. Known = {}
  <2>1. \A t \in Threads : Carried(t) = {}
    BY <1>1, <1>2 DEF Carried
  <2>. QED BY <1>4, <1>5, <2>1 DEF Known, InHand, Selves
<1>7. ~Opened
  BY <1>3 DEF Opened, Kinds
<1>. QED BY <1>1, <1>2, <1>4, <1>5, <1>6, <1>7
     DEF NameInv, Agree, Numbered, Unknown, OfProcs, FirstOne, Newcomer

(* A group or session that its leader founded has the number of the        *)
(* leader.                                                                 *)
LEMMA NamesOfLeaders == CallInv /\ NameInv => LeadersNameGroups
<1>. SUFFICES ASSUME CallInv, NameInv PROVE LeadersNameGroups
  OBVIOUS
<1>1. \A k \in Kinds : Entries(k) \subseteq Known
  BY KnownIs
<1>2. \A e \in Entries("pid") : e.host \in Procs /\ e \in OfProcs
  <2>1. ASSUME NEW i \in Slots, Live("pid")[i] # Free PROVE Live("pid")[i].host \in Procs
    BY <2>1, BankTypes DEF EntryOf, Members, Kinds
  <2>. QED BY <1>1, <2>1 DEF Entries, OfProcs, Kinds
<1>3. ASSUME NEW e \in Entries("pid"), NEW f \in Entries("pid") PROVE e.host = f.host <=> e.guest = f.guest
  BY <1>2 DEF NameInv, Agree
<1>4. ASSUME NEW k \in {"pgid", "sid"}, NEW e \in Entries(k), NEW f \in Entries("pid"), e.host = f.host
      PROVE  e.guest = f.guest
  <2>1. e \in OfProcs
    BY <1>1, <1>2, <1>4 DEF OfProcs, Kinds
  <2>. QED BY <1>2, <1>4, <2>1 DEF NameInv, Agree
<1>. QED BY <1>3, <1>4 DEF LeadersNameGroups

(* Numbers and host ids of processes are one to one in everything that is  *)
(* published, announced, carried by a thread or known to a process, as     *)
(* long as the host gives out no id that the registry or a request still   *)
(* remembers.                                                              *)
THEOREM NamesInvariance == Spec /\ [][FreshIds]_vars => []NameInv
<1>1. Spec => []ReadInv /\ [](CallInv /\ RecoveryInv)
  BY ReadInvariance, RecoveryInvariance, PTL
<1>2. /\ CallInv /\ RecoveryInv /\ ReadInv /\ NameInv /\ (CallInv /\ RecoveryInv)'
      /\ [Next]_vars /\ [FreshIds]_vars
      => NameInv'
  BY NameStep
<1>. QED BY <1>1, <1>2, FirstNames, PTL DEF Spec

(* A group or session that is named and whose leader is a known process    *)
(* has the number of its leader: getpgid and getsid of a leader answer     *)
(* with its own pid, whoever died in setpgid, setsid or a launch           *)
(* (registry_recover_semantic_locked repairs with the announced number).   *)
THEOREM LeadersAreNamed == Spec /\ [][FreshIds]_vars => []LeadersNameGroups
  BY NamesInvariance, RecoveryInvariance, NamesOfLeaders, PTL

-----------------------------------------------------------------------------
(* Losses.                                                                 *)

(* No slot is left for a number, and some update of a repair from the n-th *)
(* on has none.                                                            *)
FullFor(k, g) == \A i \in Slots : Live(k)[i] # Free /\ Live(k)[i].guest # g
Stuck(n) ==
  \E j \in DOMAIN RepairUpdates :
    j >= n /\ FullFor(RepairUpdates[j].kind, RepairUpdates[j].guest)
Unanswered == GetPgid(semantic.proc) = Nobody

(* The host knows the announced process as it was before the call or after *)
(* it; what poisons is a process that is gone or a map that is full.       *)
Lost == Unanswered \/ (HappenedOnHost /\ Stuck(1))
Witnessed ==
  /\ semantic.op = "setpgid" => pgrp[semantic.proc] \in {semantic.oldGroup, semantic.group}
  /\ semantic.op = "setsid" =>
       \/ pgrp[semantic.proc] = semantic.oldGroup /\ sess[semantic.proc] = semantic.oldSession
       \/ pgrp[semantic.proc] = semantic.proc /\ sess[semantic.proc] = semantic.proc
  /\ poisoned => semantic.op # "none" /\ Lost
Announces(t) ==
  /\ semantic.op = req[t].op /\ semantic.proc = req[t].proc /\ semantic.group = req[t].group
(* The first update for which no slot has been found.                      *)
Ahead(t) == IF at[t] = "store" THEN pos[t] + 1 ELSE pos[t]
Losing(t) ==
  /\ at[t] = "host" => ~poisoned /\ Announces(t)
  /\ at[t] \in Applying /\ semantic.op # "none" => Unanswered \/ HappenedOnHost
  /\ at[t] \in Applying /\ poisoned => Stuck(Ahead(t))
  /\ at[t] = "fail" \/ (at[t] = "mirror" /\ then[t] = "fail") =>
       IF semantic.op = "none" THEN req[t].op # "reap" ELSE Lost
  /\ poisoned => ~Clearing(t)
LossInv == Witnessed /\ \A t \in Threads : Losing(t)

-----------------------------------------------------------------------------
(* Losses.                                                                 *)

(* What the host answers of the announced process does not change, unless  *)
(* it is gone.                                                             *)
Persists ==
  semantic.op # "none" =>
    /\ pgrp'[semantic.proc] = pgrp[semantic.proc] /\ sess'[semantic.proc] = sess[semantic.proc]
    /\ st'[semantic.proc] \in Visible => st[semantic.proc] \in Visible

(* What the host said of the announced call stays what it says, or the     *)
(* process is gone.                                                        *)
LEMMA AnswersPersist ==
  ASSUME semantic.op # "none", UNCHANGED semantic, Persists
  PROVE  /\ Unanswered => Unanswered'
         /\ HappenedOnHost => HappenedOnHost' \/ Unanswered'
<1>1. /\ pgrp'[semantic.proc] = pgrp[semantic.proc] /\ sess'[semantic.proc] = sess[semantic.proc]
      /\ st'[semantic.proc] \in Visible => st[semantic.proc] \in Visible
  BY DEF Persists
<1>2. \/ GetPgid(semantic.proc)' = Nobody
      \/ /\ GetPgid(semantic.proc)' = GetPgid(semantic.proc)
         /\ GetSid(semantic.proc)' = GetSid(semantic.proc)
  BY <1>1 DEF GetPgid, GetSid
<1>. QED BY <1>2 DEF Unanswered, HappenedOnHost

(* The maps in force and what a repair stores stay as they are.            *)
LEMMA StuckStays ==
  ASSUME UNCHANGED semantic, \A k \in Kinds : Live(k)' = Live(k)
  PROVE  \A n : Stuck(n)' <=> Stuck(n)
<1>1. RepairUpdates' = RepairUpdates
  BY DEF RepairUpdates
<1>2. \A j \in DOMAIN RepairUpdates : RepairUpdates[j].kind \in Kinds
  BY DEF RepairUpdates, Update, Kinds
<1>3. \A j \in DOMAIN RepairUpdates :
        FullFor(RepairUpdates[j].kind, RepairUpdates[j].guest)'
          <=> FullFor(RepairUpdates[j].kind, RepairUpdates[j].guest)
  <2>1. PICK R : R = RepairUpdates
    OBVIOUS
  <2>2. \A k \in Kinds : \A g : FullFor(k, g)' <=> FullFor(k, g)
    BY DEF FullFor
  <2>3. \A j \in DOMAIN R : FullFor(R[j].kind, R[j].guest)' <=> FullFor(R[j].kind, R[j].guest)
    BY <1>2, <2>1, <2>2
  <2>4. \A j \in DOMAIN RepairUpdates :
          FullFor(RepairUpdates[j].kind, RepairUpdates[j].guest)' <=> FullFor(R[j].kind, R[j].guest)'
    BY <1>1, <2>1 DEF FullFor
  <2>. QED BY <2>1, <2>3, <2>4
<1>. QED BY <1>1, <1>3 DEF Stuck

(* A loss is not undone by a step that leaves the maps and the announced   *)
(* call alone.                                                             *)
LEMMA LostStays ==
  ASSUME semantic.op # "none", UNCHANGED semantic, Persists, \A k \in Kinds : Live(k)' = Live(k), Lost
  PROVE  Lost'
  BY AnswersPersist, StuckStays DEF Lost

(* A step of others, and what of it holds of the one that holds the lock.  *)
LEMMA WitnessStays ==
  ASSUME LossInv, UNCHANGED <<semantic, poisoned>>, Persists, \A k \in Kinds : Live(k)' = Live(k)
  PROVE  Witnessed'
<1>1. poisoned => semantic.op # "none" /\ Lost'
  BY LostStays DEF LossInv, Witnessed
<1>2. /\ semantic.op = "setpgid" => pgrp'[semantic.proc] \in {semantic.oldGroup, semantic.group}
      /\ semantic.op = "setsid" =>
           \/ pgrp'[semantic.proc] = semantic.oldGroup /\ sess'[semantic.proc] = semantic.oldSession
           \/ pgrp'[semantic.proc] = semantic.proc /\ sess'[semantic.proc] = semantic.proc
  BY DEF LossInv, Witnessed, Persists
<1>. QED BY <1>1, <1>2 DEF Witnessed

(* A thread that stays where it is, and one that is not between lock and   *)
(* unlock.                                                                 *)
LEMMA SameLosing ==
  ASSUME LossInv, NEW t \in Threads,
         at'[t] = at[t], then'[t] = then[t], pos'[t] = pos[t], req'[t] = req[t],
         UNCHANGED <<semantic, poisoned>>, Persists, \A k \in Kinds : Live(k)' = Live(k)
  PROVE  Losing(t)'
<1>1. Losing(t)
  BY DEF LossInv
<1>2. at[t] = "host" => ~poisoned /\ Announces(t)'
  BY <1>1 DEF Losing, Announces
<1>3. at[t] \in Applying /\ semantic.op # "none" => Unanswered' \/ HappenedOnHost'
  BY <1>1, AnswersPersist DEF Losing
<1>4. at[t] \in Applying /\ poisoned => Stuck(Ahead(t))'
  <2>1. PICK n : n = Ahead(t)
    OBVIOUS
  <2>2. at[t] \in Applying /\ poisoned => Stuck(n)
    BY <1>1, <2>1 DEF Losing
  <2>3. Stuck(n)' <=> Stuck(n)
    BY StuckStays
  <2>4. Ahead(t)' = n
    BY <2>1 DEF Ahead
  <2>. QED BY <2>2, <2>3, <2>4 DEF Stuck
<1>5. at[t] = "fail" \/ (at[t] = "mirror" /\ then[t] = "fail") =>
        IF semantic.op = "none" THEN req[t].op # "reap" ELSE Lost'
  BY <1>1, LostStays DEF Losing
<1>6. poisoned => ~Clearing(t)'
  BY <1>1 DEF Losing, Clearing
<1>. QED BY <1>2, <1>3, <1>4, <1>5, <1>6 DEF Losing, Applying

LEMMA OutsideLosing ==
  ASSUME NEW t, at'[t] \notin LockedPoints
  PROVE  Losing(t)'
  BY DEF Losing, Applying, Clearing, LockedPoints

(* A step outside the lock.                                                *)
LEMMA OthersLose ==
  ASSUME LossInv, UNCHANGED <<semantic, poisoned>>, Persists, \A k \in Kinds : Live(k)' = Live(k),
         \A t \in Threads :
            \/ at'[t] \notin LockedPoints
            \/ at'[t] = at[t] /\ then'[t] = then[t] /\ pos'[t] = pos[t] /\ req'[t] = req[t]
  PROVE  LossInv'
<1>1. \A t \in Threads : Losing(t)'
  BY SameLosing, OutsideLosing
<1>. QED BY <1>1, WitnessStays DEF LossInv

(* A step of the thread that holds the lock: only it can lose.             *)
LEMMA HolderLoses ==
  ASSUME CallInv, RecoveryInv, NEW t \in Threads, Held(t), Witnessed', Losing(t)'
  PROVE  LossInv'
<1>1. ASSUME NEW u \in Threads, u # t PROVE at'[u] \notin LockedPoints
  BY <1>1, Alone DEF Held, CallInv, LocalTypes
<1>2. \A u \in Threads : Losing(u)'
  BY <1>1, OutsideLosing
<1>. QED BY <1>2 DEF LossInv

(* The process that a call was announced for is known.                     *)
LEMMA AnnouncedKnown ==
  ASSUME semantic.op # "none"
  PROVE  semantic.proc \in Remembered
<1>1. Named(semantic.guest, semantic.proc) \in Known
  BY DEF Meant, Recorded, Known
<1>. QED BY <1>1, Pair DEF Remembered

(* Steps outside the lock.                                                 *)
LEMMA TurnLoses ==
  ASSUME CallInv, RecoveryInv, LossInv, NEW t, t \in Threads => at[t] \notin LockedPoints,
         NEW x \in {"lock", "look", "idle"}, NEW r, NEW w, Turn(t, x, r, w), Persists
  PROVE  LossInv'
<1>1. /\ UNCHANGED <<word, bank, semantic, poisoned, then, pos>>
      /\ \A u \in Threads : u # t => at'[u] = at[u] /\ req'[u] = req[u]
      /\ t \in Threads => at'[t] = x
  BY DEF Turn, Go, storage, CallInv, LocalTypes
<1>2. x \notin LockedPoints
  BY DEF LockedPoints
<1>. QED BY <1>1, <1>2, SameMaps, OthersLose

(* Lookups, starts and ends of processes lose nothing.                     *)
LEMMA LookLoses ==
  ASSUME CallInv, RecoveryInv, LossInv, NEW t \in Threads, Unlock(t) \/ Look(t) \/ Scan(t) \/ Recheck(t)
  PROVE  LossInv'
<1>. USE DEF Go, storage, hostVars
<1>1. /\ UNCHANGED <<word, bank, semantic, poisoned, then, req, pgrp, sess, st>>
      /\ \A u \in Threads : u # t => at'[u] = at[u] /\ pos'[u] = pos[u]
      /\ at'[t] \notin LockedPoints
  BY DEF Unlock, Look, Scan, Recheck, LockedPoints, CallInv, LocalTypes
<1>. QED BY <1>1, SameMaps, OthersLose DEF Persists

LEMMA BeginLoses ==
  ASSUME CallInv, RecoveryInv, LossInv, NEW t \in Threads, Begin(t), UNCHANGED hostVars
  PROVE  LossInv'
<1>1. /\ UNCHANGED <<word, bank, semantic, poisoned, then, pos, pgrp, sess, st>>
      /\ \A u \in Threads : u[1] = t[1] => at'[u] = "idle"
      /\ \A u \in Threads : u[1] # t[1] => at'[u] = at[u] /\ req'[u] = req[u]
  BY DEF Begin, storage, hostVars, CallInv, LocalTypes
<1>2. "idle" \notin LockedPoints
  BY DEF LockedPoints
<1>. QED BY <1>1, <1>2, SameMaps, OthersLose DEF Persists

LEMMA StopLoses ==
  ASSUME CallInv, RecoveryInv, LossInv, NEW over, NEW reaped, NEW resting,
         \A p \in over : p \in reaped \/ st[p] = "live",
         Ends(over, reaped), Stops(over, resting)
  PROVE  LossInv'
<1>1. /\ UNCHANGED <<word, bank, semantic, poisoned, pgrp, sess>>
      /\ st' = [p \in Procs |->
           IF p \in reaped THEN "gone"
           ELSE IF p \in over THEN IF parent[p] \in Procs THEN "zombie" ELSE "gone"
           ELSE IF st[p] = "zombie" /\ parent[p] \in over THEN "gone" ELSE st[p]]
  BY DEF Ends, storage
<1>2. \A t \in Threads :
        \/ at'[t] \notin LockedPoints
        \/ at'[t] = at[t] /\ then'[t] = then[t] /\ pos'[t] = pos[t] /\ req'[t] = req[t]
  BY DEF Stops, LockedPoints
<1>3. Persists
  <2>. SUFFICES ASSUME semantic.op # "none", st'[semantic.proc] \in Visible
                PROVE  st[semantic.proc] \in Visible
    BY <1>1 DEF Persists
  <2>1. semantic.proc \in Procs
    BY RepairsAre DEF Announced
  <2>. QED BY <1>1, <2>1, IdentityAssumption DEF IdentityAssumption
<1>. QED BY <1>1, <1>2, <1>3, SameMaps, OthersLose

(* The host gives the announced process's id to nobody else.               *)
LEMMA BornPersists ==
  ASSUME CallInv, FreshIds, NEW c \in Procs, ~Exists(c), NEW g, NEW s,
         st' = [st EXCEPT ![c] = "live"], pgrp' = [pgrp EXCEPT ![c] = g], sess' = [sess EXCEPT ![c] = s]
  PROVE  Persists
<1>. SUFFICES ASSUME semantic.op # "none" PROVE Persists
  BY DEF Persists
<1>1. st[c] # "live" /\ st'[c] = "live"
  BY DEF Exists, CallInv, HostTypes
<1>2. c # semantic.proc
  BY <1>1, AnnouncedKnown DEF FreshIds
<1>3. semantic.proc \in Procs
  BY RepairsAre DEF Announced
<1>. QED BY <1>2, <1>3 DEF Persists, CallInv, HostTypes

LEMMA BirthLoses ==
  ASSUME CallInv, RecoveryInv, LossInv, FreshIds, NEW c \in Procs,
         (\E g, s \in Hosts : Launch(c, g, s)) \/ (\E t \in Threads : Fork(t, c))
  PROVE  LossInv'
<1>1. ASSUME NEW g \in Hosts, NEW s \in Hosts, Launch(c, g, s) PROVE LossInv'
  <2>. DEFINE t == Main(c)
              r == Request("join", c, 0, g, 0)
  <2>1. /\ Turn(t, "lock", r, NoWant) /\ ~Exists(c)
        /\ st' = [st EXCEPT ![c] = "live"]
        /\ pgrp' = [pgrp EXCEPT ![c] = g] /\ sess' = [sess EXCEPT ![c] = s]
    BY <1>1 DEF Launch, Assignable, Ask
  <2>2. t[1] = c
    BY DEF Main
  <2>. HIDE DEF t, r
  <2>3. t \in Threads => at[t] \notin LockedPoints
    BY <2>1, <2>2, Asleep DEF LockedPoints
  <2>4. Persists
    BY <2>1, BornPersists
  <2>. QED BY <2>1, <2>3, <2>4, TurnLoses
<1>2. ASSUME NEW t \in Threads, Fork(t, c) PROVE LossInv'
  <2>. DEFINE m == Main(c)
              r == Request("publish", c, next["pid"], Nobody, 0)
  <2>1. /\ at' = [at EXCEPT ![t] = "lock", ![m] = "lock"] /\ ~Exists(c)
        /\ req' = [req EXCEPT ![t] = r, ![m] = r]
        /\ UNCHANGED <<word, bank, semantic, poisoned, then, pos>>
        /\ st' = [st EXCEPT ![c] = "live"]
        /\ pgrp' = [pgrp EXCEPT ![c] = pgrp[t[1]]] /\ sess' = [sess EXCEPT ![c] = sess[t[1]]]
    BY <1>2 DEF Fork, Assignable, Calls
  <2>. HIDE DEF m, r
  <2>2. Persists
    BY <2>1, BornPersists
  <2>3. \A u \in Threads :
          \/ at'[u] \notin LockedPoints
          \/ at'[u] = at[u] /\ then'[u] = then[u] /\ pos'[u] = pos[u] /\ req'[u] = req[u]
    BY <2>1 DEF LockedPoints, CallInv, LocalTypes
  <2>. QED BY <2>1, <2>2, <2>3, SameMaps, OthersLose
<1>. QED BY <1>1, <1>2

(* Calls of the guest take no lock before they ask the registry.           *)
LEMMA GuestLoses ==
  ASSUME CallInv, RecoveryInv, LossInv, NEW t \in Threads,
         \/ \E c \in Procs : Wait(t, c)
         \/ \E a0, a1 \in {0} \union Guests : SetPgid(t, a0, a1)
         \/ Resolved(t) \/ ResolvedGroup(t) \/ Unresolved(t)
         \/ SetSid(t) \/ AskGroup(t) \/ Waited(t) \/ Return(t) \/ ParentPublished(t)
  PROVE  LossInv'
<1>. USE DEF Ask, LookUp, Finish, Calls
<1>1. ASSUME NEW x \in {"lock", "look", "idle"}, NEW r, NEW w, Turn(t, x, r, w),
             at[t] \in {"idle", "looked", "done"}, Persists
      PROVE  LossInv'
  BY <1>1, TurnLoses DEF LockedPoints
<1>2. UNCHANGED hostVars => Persists
  BY DEF hostVars, Persists
<1>3. ASSUME NEW c \in Procs, Wait(t, c) PROVE LossInv'
  <2>1. st' = [st EXCEPT ![c] = "gone"] /\ UNCHANGED <<pgrp, sess>>
    BY <1>3 DEF Wait
  <2>2. Persists
    BY <2>1, RepairsAre, IdentityAssumption DEF Persists, IdentityAssumption, Announced, CallInv, HostTypes
  <2>. QED BY <1>1, <1>3, <2>2 DEF Wait
<1>4. CASE \E a0, a1 \in {0} \union Guests : SetPgid(t, a0, a1)
  BY <1>1, <1>2, <1>4 DEF SetPgid
<1>5. CASE Resolved(t)
  BY <1>1, <1>2, <1>5 DEF Resolved
<1>6. CASE ResolvedGroup(t)
  BY <1>1, <1>2, <1>6 DEF ResolvedGroup
<1>7. CASE Unresolved(t)
  BY <1>1, <1>2, <1>7 DEF Unresolved
<1>8. CASE SetSid(t) \/ AskGroup(t)
  BY <1>1, <1>2, <1>8 DEF SetSid, AskGroup
<1>9. CASE Waited(t)
  BY <1>1, <1>2, <1>9 DEF Waited
<1>10. CASE Return(t)
  BY <1>1, <1>2, <1>10 DEF Return
<1>11. CASE ParentPublished(t)
  BY <1>1, <1>2, <1>11 DEF ParentPublished
<1>. QED BY <1>3, <1>4, <1>5, <1>6, <1>7, <1>8, <1>9, <1>10, <1>11

LEMMA LifeLoses ==
  ASSUME CallInv, RecoveryInv, LossInv,
         \/ \E p \in Procs : Exit(p) \/ Kill(p)
         \/ \E t \in Threads :
              Joined(t) \/ JoinFailed(t) \/ ChildPublished(t) \/ ChildAbandoned(t) \/ ParentAbandons(t)
  PROVE  LossInv'
<1>1. ASSUME NEW p \in Procs, Dies(p), st[p] = "live" PROVE LossInv'
  <2>1. Ends({p}, {}) /\ Stops({p}, {})
    BY <1>1 DEF Dies
  <2>. QED BY <1>1, <2>1, StopLoses
<1>2. ASSUME NEW t \in Threads, JoinFailed(t) \/ ChildAbandoned(t) PROVE LossInv'
  <2>1. t[1] \in Procs /\ st[t[1]] = "live"
    BY <1>2, IdentityAssumption DEF IdentityAssumption, JoinFailed, ChildAbandoned, CallInv, LifeInv
  <2>. QED BY <1>1, <1>2, <2>1 DEF JoinFailed, ChildAbandoned
<1>3. ASSUME NEW t \in Threads, ParentAbandons(t) PROVE LossInv'
  <2>. DEFINE child == {c \in Procs : c = req[t].proc /\ parent[c] = t[1]}
  <2>1. Ends(child, child) /\ Stops(child, {t})
    BY <1>3 DEF ParentAbandons
  <2>. HIDE DEF child
  <2>. QED BY <2>1, StopLoses
<1>4. ASSUME NEW t \in Threads, Joined(t) \/ ChildPublished(t) PROVE LossInv'
  BY <1>4, BeginLoses DEF Joined, ChildPublished
<1>. QED BY <1>1, <1>2, <1>3, <1>4 DEF Exit, Kill

(* The steps of the thread that holds the lock.                            *)
LocksUp(t) ==
  \/ TakeLock(t) \/ Mirror(t) \/ Mirrored(t)
  \/ NothingToRepair(t) \/ RepairForward(t) \/ RepairBack(t) \/ RepairPoisons(t) \/ Clear(t)
  \/ Stage(t) \/ StageFails(t) \/ Store(t) \/ Commit(t) \/ Fail(t)
  \/ JoinAgain(t) \/ JoinNew(t) \/ Publish(t) \/ Announce(t)
  \/ HostCall(t) \/ HostRefuses(t) \/ Reap(t)

(* The thread that holds the lock goes on holding it.                      *)
LEMMA HoldsOn ==
  ASSUME CallInv, RecoveryInv, NEW t \in Threads, LocksUp(t)
  PROVE  Held(t)
<1>1. PICK x \in LockedPoints : at' = [at EXCEPT ![t] = x]
  <2>1. CASE Mirror(t)
    <3>1. at'= [at EXCEPT ![t] = "mirror"]
      BY <2>1 DEF Mirror, CallInv, LocalTypes
    <3>. QED BY <3>1 DEF LockedPoints
  <2>2. CASE Mirrored(t)
    BY <2>2 DEF Mirrored, Go, CallInv, LocalTypes, Places, LockedPoints
  <2>3. CASE NothingToRepair(t) \/ Clear(t)
    BY <2>3 DEF NothingToRepair, Clear, Go, Recovered, LockedPoints
  <2>4. CASE \/ TakeLock(t) \/ RepairForward(t) \/ RepairBack(t) \/ RepairPoisons(t)
             \/ Stage(t) \/ StageFails(t) \/ Store(t) \/ Commit(t) \/ Fail(t)
    BY <2>4 DEF TakeLock, RepairForward, RepairBack, RepairPoisons, Stage, StageFails, Store, Commit,
                Fail, End, Go, LockedPoints
  <2>5. CASE \/ JoinAgain(t) \/ JoinNew(t) \/ Publish(t) \/ Announce(t)
             \/ HostCall(t) \/ HostRefuses(t) \/ Reap(t)
    <3>1. JoinNew(t) => at' = [at EXCEPT ![t] = "stage"]
      BY DEF JoinNew, Apply, Go
    <3>. QED BY <2>5, <3>1 DEF JoinAgain, Publish, Announce, HostCall, HostRefuses, Reap, Apply, End, Go, LockedPoints
  <2>. QED BY <2>1, <2>2, <2>3, <2>4, <2>5 DEF LocksUp
<1>2. at'[t] \in LockedPoints /\ at' = [at EXCEPT ![t] = at'[t]]
  BY <1>1 DEF CallInv, LocalTypes
<1>3. lock' = <<t>> /\ lock \in {<<>>, <<t>>}
  <2>1. CASE TakeLock(t)
    BY <2>1 DEF TakeLock
  <2>2. CASE ~TakeLock(t)
    <3>1. at[t] \in LockedPoints /\ lock' = lock
      BY <2>2 DEF LocksUp, Mirror, Mirrored, NothingToRepair, RepairForward, RepairBack, RepairPoisons,
         Clear, Stage, StageFails, Store, Commit, Fail, JoinAgain, JoinNew, Publish, Announce,
         HostCall, HostRefuses, Reap, LockedPoints
    <3>. QED BY <3>1 DEF RecoveryInv, LockInv
  <2>. QED BY <2>1, <2>2
<1>4. ASSUME NEW u \in Threads, u # t
      PROVE  then'[u] = then[u] /\ pos'[u] = pos[u] /\ todo'[u] = todo[u] /\ req'[u] = req[u] /\ ok'[u] = ok[u]
  <2>1. CASE \/ TakeLock(t) \/ Mirror(t) \/ Mirrored(t)
             \/ NothingToRepair(t) \/ RepairForward(t) \/ RepairBack(t) \/ RepairPoisons(t) \/ Clear(t)
    BY <1>4, <2>1 DEF TakeLock, Mirror, Mirrored, NothingToRepair, RepairForward, RepairBack, RepairPoisons,
         Clear, End, CallInv, LocalTypes
  <2>2. CASE Stage(t) \/ StageFails(t) \/ Store(t) \/ Commit(t) \/ Fail(t)
    BY <1>4, <2>2 DEF Stage, StageFails, Store, Commit, Fail, End, CallInv, LocalTypes
  <2>3. CASE JoinNew(t)
    BY <1>4, <2>3 DEF JoinNew, Apply, CallInv, LocalTypes
  <2>4. CASE \/ JoinAgain(t) \/ Publish(t) \/ Announce(t) \/ HostCall(t) \/ HostRefuses(t) \/ Reap(t)
    BY <1>4, <2>4 DEF JoinAgain, Publish, Announce, HostCall, HostRefuses, Reap, Apply, End, CallInv, LocalTypes
  <2>. QED BY <2>1, <2>2, <2>3, <2>4 DEF LocksUp
<1>. QED BY <1>2, <1>3, <1>4 DEF Held

(* A store leaves the maps in force alone.                                 *)
LEMMA LiveStays ==
  ASSUME CallInv, UNCHANGED word, NEW k, NEW i, NEW e, bank' = [bank EXCEPT ![Inactive][k][i] = e]
  PROVE  \A l : Live(l)' = Live(l)
  BY BankTypes DEF Live, Active

(* A step of it that leaves the maps, the record and the host alone.       *)
LEMMA HolderStays ==
  ASSUME CallInv, RecoveryInv, LossInv, NEW t \in Threads, LocksUp(t),
         UNCHANGED <<semantic, poisoned, pgrp, sess, st>>, \A k \in Kinds : Live(k)' = Live(k),
         Losing(t)'
  PROVE  LossInv'
<1>1. Persists
  BY DEF Persists
<1>. QED BY <1>1, WitnessStays, HoldsOn, HolderLoses

(* What a poisoned registry waits for.                                     *)
LEMMA PoisonIs ==
  ASSUME CallInv, LossInv
  PROVE  /\ poisoned => semantic.op # "none" /\ Lost
         /\ semantic.op # "none" => semantic \in Announced
         /\ semantic.op # "none" /\ HappenedOnHost => ~Unanswered
         /\ semantic.op # "none" /\ UntouchedOnHost => ~Unanswered
         /\ semantic.op # "none" /\ ~HappenedOnHost /\ ~UntouchedOnHost => Unanswered
<1>1. semantic.op # "none" => semantic \in Announced
  BY DEF CallInv, StorageTypes, NoSemantic
<1>2. Nobody \notin Hosts
  BY IdentityAssumption DEF IdentityAssumption, Hosts
<1>3. semantic.op # "none" /\ HappenedOnHost => ~Unanswered
  BY <1>1, <1>2 DEF HappenedOnHost, Unanswered, Announced, Hosts
<1>4. semantic.op # "none" /\ UntouchedOnHost => ~Unanswered
  BY <1>1, <1>2 DEF UntouchedOnHost, Unanswered, Announced
<1>5. semantic.op # "none" /\ ~HappenedOnHost /\ ~UntouchedOnHost => Unanswered
  <2>. SUFFICES ASSUME semantic.op # "none", ~Unanswered PROVE HappenedOnHost \/ UntouchedOnHost
    OBVIOUS
  <2>1. GetPgid(semantic.proc) = pgrp[semantic.proc] /\ GetSid(semantic.proc) = sess[semantic.proc]
    BY DEF Unanswered, GetPgid, GetSid
  <2>. QED BY <1>1, <2>1 DEF LossInv, Witnessed, HappenedOnHost, UntouchedOnHost, Announced
<1>. QED BY <1>1, <1>3, <1>4, <1>5 DEF LossInv, Witnessed

(* Steps before and after a transaction.                                   *)
LEMMA LocksLose ==
  ASSUME CallInv, RecoveryInv, LossInv, NEW t \in Threads,
         \/ TakeLock(t) \/ Mirror(t) \/ Mirrored(t) \/ NothingToRepair(t)
         \/ RepairForward(t) \/ RepairBack(t)
  PROVE  LossInv'
<1>. USE DEF Go, storage, hostVars
<1>1. LocksUp(t)
  BY DEF LocksUp
<1>2. UNCHANGED <<word, semantic, poisoned, pgrp, sess, st, req>>
  BY DEF TakeLock, Mirror, Mirrored, NothingToRepair, RepairForward, RepairBack
<1>3. \A k \in Kinds : Live(k)' = Live(k)
  <2>1. CASE Mirror(t)
    <3>1. PICK e : e = journal[pos[t]]
      OBVIOUS
    <3>2. bank' = [bank EXCEPT ![Inactive][e.kind][e.slot] = Live(e.kind)[e.slot]]
      BY <2>1, <3>1 DEF Mirror
    <3>. QED BY <1>2, <3>2, LiveStays
  <2>2. CASE ~Mirror(t)
    <3>1. UNCHANGED bank
      BY <2>2 DEF TakeLock, Mirrored, NothingToRepair, RepairForward, RepairBack
    <3>. QED BY <1>2, <3>1, SameMaps
  <2>. QED BY <2>1, <2>2
<1>4. Losing(t) /\ Paced(t)
  BY DEF LossInv, RecoveryInv
<1>5. UNCHANGED semantic /\ (Lost => Lost')
  <2>1. Persists
    BY <1>2 DEF Persists
  <2>2. semantic.op # "none" => (Lost => Lost')
    BY <1>2, <1>3, <2>1, LostStays
  <2>3. (Unanswered' <=> Unanswered) /\ (HappenedOnHost' <=> HappenedOnHost)
    BY <1>2 DEF Unanswered, HappenedOnHost, GetPgid, GetSid
  <2>4. Stuck(1)' <=> Stuck(1)
    BY <1>2, <1>3, StuckStays
  <2>. QED BY <1>2, <2>3, <2>4 DEF Lost
<1>6. CASE TakeLock(t)
  <2>1. at'[t] = "mirror" /\ then'[t] = "repair"
    BY <1>6 DEF TakeLock, CallInv, LocalTypes
  <2>2. Losing(t)'
    BY <2>1 DEF Losing, Applying, Clearing
  <2>. QED BY <1>1, <1>2, <1>3, <2>2, HolderStays
<1>7. CASE Mirror(t)
  <2>1. at'[t] = "mirror" /\ at[t] = "mirror" /\ then'[t] = then[t]
    BY <1>7 DEF Mirror
  <2>2. Losing(t)'
    BY <1>2, <1>4, <1>5, <2>1 DEF Losing, Applying, Clearing
  <2>. QED BY <1>1, <1>2, <1>3, <2>2, HolderStays
<1>8. CASE Mirrored(t)
  <2>1. at[t] = "mirror" /\ at'[t] = then[t] /\ then[t] \in {"repair", "clear", "unlock", "fail"}
    BY <1>8 DEF Mirrored, CallInv, LocalTypes, Places
  <2>2. Losing(t)'
    BY <1>2, <1>4, <1>5, <2>1 DEF Losing, Applying, Clearing
  <2>. QED BY <1>1, <1>2, <1>3, <2>2, HolderStays
<1>9. CASE NothingToRepair(t)
  <2>1. at'[t] \in {"unlock", "body"}
    BY <1>9 DEF NothingToRepair, Recovered, CallInv, LocalTypes
  <2>2. Losing(t)'
    BY <2>1 DEF Losing, Applying, Clearing
  <2>. QED BY <1>1, <1>2, <1>3, <2>2, HolderStays
<1>10. CASE RepairForward(t)
  <2>1. at[t] = "repair" /\ at'[t] = "stage" /\ pos'[t] = pos[t] /\ semantic.op # "none" /\ HappenedOnHost
    BY <1>10 DEF RepairForward, CallInv, LocalTypes
  <2>2. pos[t] = 1
    BY <1>4, <2>1 DEF Paced
  <2>3. HappenedOnHost'
    BY <1>2, <2>1 DEF HappenedOnHost, GetPgid, GetSid
  <2>4. poisoned => Stuck(1)
    BY <2>1, PoisonIs DEF Lost
  <2>5. Stuck(1)' <=> Stuck(1)
    BY <1>2, <1>3, StuckStays
  <2>6. Ahead(t)' = 1
    BY <2>1, <2>2 DEF Ahead
  <2>7. poisoned' => Stuck(Ahead(t))'
    BY <1>2, <2>4, <2>5, <2>6 DEF Stuck
  <2>8. Losing(t)'
    BY <2>1, <2>3, <2>7 DEF Losing, Applying, Clearing
  <2>. QED BY <1>1, <1>2, <1>3, <2>8, HolderStays
<1>11. CASE RepairBack(t)
  <2>1. at'[t] = "clear" /\ semantic.op # "none" /\ ~HappenedOnHost /\ UntouchedOnHost
    BY <1>11 DEF RepairBack, CallInv, LocalTypes
  <2>2. ~poisoned
    BY <2>1, PoisonIs DEF Lost
  <2>3. Losing(t)'
    BY <1>2, <2>1, <2>2 DEF Losing, Applying, Clearing
  <2>. QED BY <1>1, <1>2, <1>3, <2>3, HolderStays
<1>. QED BY <1>6, <1>7, <1>8, <1>9, <1>10, <1>11

(* registry_poison_locked: after a repair that the host could not answer   *)
(* for, or that found its map full.                                        *)
LEMMA PoisonLoses ==
  ASSUME CallInv, RecoveryInv, LossInv, NEW t \in Threads, RepairPoisons(t) \/ Fail(t)
  PROVE  LossInv'
<1>. USE DEF End, Go, storage, hostVars
<1>1. /\ UNCHANGED <<word, bank, semantic, pgrp, sess, st>> /\ at'[t] = "unlock"
      /\ Losing(t) /\ LocksUp(t)
  BY DEF RepairPoisons, Fail, CallInv, LocalTypes, LossInv, LocksUp
<1>2. Losing(t)'
  BY <1>1 DEF Losing, Applying, Clearing
<1>3. poisoned' => semantic.op # "none" /\ Lost
  <2>1. CASE RepairPoisons(t)
    BY <2>1, PoisonIs DEF RepairPoisons, Lost
  <2>2. CASE Fail(t)
    <3>1. at[t] = "fail" /\ poisoned' = (poisoned \/ semantic.op # "none" \/ req[t].op = "reap")
      BY <2>2 DEF Fail
    <3>2. IF semantic.op = "none" THEN req[t].op # "reap" ELSE Lost
      BY <1>1, <3>1 DEF Losing
    <3>. QED BY <3>1, <3>2, PoisonIs
  <2>. QED BY <2>1, <2>2
<1>4. Lost' <=> Lost
  <2>1. (Unanswered' <=> Unanswered) /\ (HappenedOnHost' <=> HappenedOnHost)
    BY <1>1 DEF Unanswered, HappenedOnHost, GetPgid, GetSid
  <2>2. Stuck(1)' <=> Stuck(1)
    BY <1>1, SameMaps, StuckStays
  <2>. QED BY <2>1, <2>2 DEF Lost
<1>5. Witnessed'
  BY <1>1, <1>3, <1>4 DEF Witnessed, LossInv
<1>. QED BY <1>1, <1>2, <1>5, HoldsOn, HolderLoses

(* What a request does that finds nothing to repair, or has repaired it.   *)
LEMMA BodyLoses ==
  ASSUME CallInv, RecoveryInv, LossInv, NEW t \in Threads,
         Clear(t) \/ JoinAgain(t) \/ JoinNew(t) \/ Publish(t) \/ Reap(t)
  PROVE  LossInv'
<1>. USE DEF End, Go, Apply, storage, hostVars
<1>1. LocksUp(t) /\ Losing(t) /\ Paced(t)
  BY DEF LocksUp, LossInv, RecoveryInv
<1>2. CASE Clear(t)
  <2>1. at[t] = "clear" /\ semantic' = NoSemantic /\ poisoned' = poisoned /\ at'[t] \in {"unlock", "body"}
    BY <1>2 DEF Clear, Recovered, CallInv, LocalTypes
  <2>2. ~poisoned'
    BY <1>1, <2>1 DEF Losing, Clearing
  <2>3. Witnessed'
    BY <2>1, <2>2 DEF Witnessed, NoSemantic
  <2>4. Losing(t)'
    BY <2>1, <2>2 DEF Losing, Applying, Clearing
  <2>. QED BY <1>1, <2>3, <2>4, HoldsOn, HolderLoses
<1>3. CASE JoinAgain(t) \/ JoinNew(t) \/ Publish(t) \/ Reap(t)
  <2>1. /\ at[t] = "body" /\ at'[t] \in {"unlock", "stage"}
        /\ UNCHANGED <<word, bank, semantic, poisoned, pgrp, sess, st>>
    <3>1. CASE JoinNew(t)
      BY <3>1 DEF JoinNew, CallInv, LocalTypes
    <3>2. CASE JoinAgain(t) \/ Publish(t) \/ Reap(t)
      BY <3>2 DEF JoinAgain, Publish, Reap, CallInv, LocalTypes
    <3>. QED BY <1>3, <3>1, <3>2
  <2>2. semantic.op = "none" /\ ~poisoned
    BY <1>1, <2>1, PoisonIs DEF Paced
  <2>3. Losing(t)'
    BY <2>1, <2>2 DEF Losing, Applying, Clearing
  <2>. QED BY <1>1, <2>1, <2>3, SameMaps, HolderStays
<1>. QED BY <1>2, <1>3

(* The call is announced, and the host makes it or does not.               *)
LEMMA HostLoses ==
  ASSUME CallInv, RecoveryInv, LossInv, NEW t \in Threads, Announce(t) \/ HostCall(t) \/ HostRefuses(t)
  PROVE  LossInv'
<1>. USE DEF End, Go, storage, hostVars
<1>1. LocksUp(t) /\ Losing(t) /\ Paced(t) /\ Asked(t)
  BY DEF LocksUp, LossInv, RecoveryInv, CallInv
<1>2. CASE Announce(t)
  <2>1. at[t] = "body" /\ UNCHANGED <<word, bank, poisoned, pgrp, sess, st, req>> /\ req[t].op \in {"setpgid", "setsid"}
    BY <1>2 DEF Announce
  <2>2. semantic.op = "none" /\ ~poisoned
    BY <1>1, <2>1, PoisonIs DEF Paced
  <2>3. \/ at'[t] = "unlock" /\ semantic' = semantic
        \/ /\ at'[t] = "host"
           /\ semantic' = [op |-> req[t].op, proc |-> req[t].proc, guest |-> req[t].guest,
                           group |-> req[t].group, name |-> req[t].name,
                           oldGroup |-> pgrp[req[t].proc], oldSession |-> sess[req[t].proc]]
    BY <1>2 DEF Announce, CallInv, LocalTypes
  <2>4. Witnessed'
    BY <2>1, <2>2, <2>3 DEF Witnessed
  <2>5. Losing(t)'
    BY <2>1, <2>2, <2>3 DEF Losing, Announces, Applying, Clearing
  <2>. QED BY <1>1, <2>4, <2>5, HoldsOn, HolderLoses
<1>3. CASE HostCall(t)
  <2>1. at[t] = "host" /\ UNCHANGED <<semantic, poisoned>> /\ at'[t] = "repair"
    BY <1>3 DEF HostCall, CallInv, LocalTypes
  <2>2. ~poisoned /\ Announces(t)
    BY <1>1, <2>1 DEF Losing
  <2>3. req[t].proc \in Procs /\ req[t].op \in {"setpgid", "setsid"}
    BY <1>1, <2>1 DEF Asked
  <2>4. IF req[t].op = "setsid"
        THEN pgrp'[req[t].proc] = req[t].proc /\ sess'[req[t].proc] = req[t].proc
        ELSE pgrp'[req[t].proc] = req[t].group
    BY <1>3, <2>3 DEF HostCall, CallInv, HostTypes
  <2>5. Witnessed'
    BY <2>1, <2>2, <2>3, <2>4 DEF Witnessed, Announces
  <2>6. Losing(t)'
    BY <2>1, <2>2 DEF Losing, Applying, Clearing
  <2>. QED BY <1>1, <2>5, <2>6, HoldsOn, HolderLoses
<1>4. CASE HostRefuses(t)
  <2>1. at[t] = "host" /\ semantic' = NoSemantic /\ poisoned' = poisoned /\ at'[t] = "unlock"
    BY <1>4 DEF HostRefuses, CallInv, LocalTypes
  <2>2. ~poisoned
    BY <1>1, <2>1 DEF Losing
  <2>3. Witnessed' /\ Losing(t)'
    BY <2>1, <2>2 DEF Witnessed, NoSemantic, Losing, Applying, Clearing
  <2>. QED BY <1>1, <2>3, HoldsOn, HolderLoses
<1>. QED BY <1>2, <1>3, <1>4

(* A repair has not yet touched the map that its next update is for.       *)
LEMMA NotYetTouched ==
  ASSUME CallInv, RecoveryInv, NEW t \in Threads, at[t] = "stage", semantic.op # "none"
  PROVE  /\ todo[t] = RepairUpdates /\ pos[t] \in DOMAIN RepairUpdates
         /\ todo[t][pos[t]] \in AnyUpdate /\ todo[t][pos[t]].host # Nobody
         /\ \A i \in Slots : Staged(todo[t][pos[t]].kind)[i] = Live(todo[t][pos[t]].kind)[i]
<1>1. Paced(t) /\ Listed(t)
  BY DEF RecoveryInv, BankInv, Applying
<1>2. todo[t] = RepairUpdates /\ RepairUpdates \in Seq(AnyUpdate) /\ semantic \in Announced
  BY <1>1, RepairsAre DEF Listed
<1>3. pos[t] \in DOMAIN RepairUpdates /\ Len(journal) = pos[t] - 1 /\ pos[t] \in Nat \ {0}
  BY <1>1, <1>2 DEF Paced, CallInv, LocalTypes, Numbers
<1>4. todo[t][pos[t]] \in AnyUpdate
  BY <1>2, <1>3, ElementOf
<1>5. todo[t][pos[t]].host # Nobody
  <2>1. semantic.proc # Nobody /\ semantic.group # Nobody
    BY <1>2, IdentityAssumption DEF IdentityAssumption, Announced, Hosts
  <2>. QED BY <1>2, <1>3, <2>1 DEF RepairUpdates, Update
<1>6. \A j \in DOMAIN RepairUpdates : j < pos[t] => RepairUpdates[j].kind # RepairUpdates[pos[t]].kind
  BY <1>3 DEF RepairUpdates, Update
<1>7. PICK k : k = todo[t][pos[t]].kind
  OBVIOUS
<1>8. k \in Kinds
  BY <1>4, <1>7 DEF AnyUpdate
<1>9. ASSUME NEW i \in Slots, Staged(k)[i] # Live(k)[i] PROVE FALSE
  <2>1. PICK j \in 1 .. Len(journal) : journal[j] = [kind |-> k, slot |-> i]
    BY <1>8, <1>9 DEF RecoveryInv, Mirrorable
  <2>2. journal[j].kind = k /\ j \in DOMAIN journal
    BY <2>1 DEF CallInv, StorageTypes
  <2>3. journal[j].kind = todo[t][j].kind
    BY <1>1, <2>2 DEF Paced, Applying
  <2>4. j < pos[t] /\ j \in DOMAIN RepairUpdates
    BY <1>2, <1>3, <2>1
  <2>. QED BY <1>2, <1>6, <1>7, <2>2, <2>3, <2>4
<1>. QED BY <1>2, <1>3, <1>4, <1>5, <1>7, <1>9

(* The next update of a repair finds no slot just when its map is full.    *)
LEMMA FullIs ==
  ASSUME CallInv, RecoveryInv, NEW t \in Threads, at[t] = "stage", semantic.op # "none"
  PROVE  SlotFor(todo[t][pos[t]]) = 0
           <=> FullFor(RepairUpdates[pos[t]].kind, RepairUpdates[pos[t]].guest)
<1>1. PICK u : u = todo[t][pos[t]]
  OBVIOUS
<1>2. /\ u = RepairUpdates[pos[t]] /\ u.host # Nobody
      /\ \A i \in Slots : Staged(u.kind)[i] = Live(u.kind)[i]
  BY <1>1, NotYetTouched
<1>3. 0 \notin Slots
  BY DEF Slots
<1>4. SlotFor(u) = 0 <=> \A i \in Slots : Staged(u.kind)[i].guest # u.guest /\ Staged(u.kind)[i] # Free
  BY <1>2, <1>3, SlotOfGuestIs, EmptySlotIs DEF SlotFor
<1>. QED BY <1>1, <1>2, <1>4 DEF FullFor

(* A slot is found for the next update of a repair, or its map is full.    *)
LEMMA StageLoses ==
  ASSUME CallInv, RecoveryInv, LossInv, NEW t \in Threads, Stage(t) \/ StageFails(t)
  PROVE  LossInv'
<1>. USE DEF Go, storage, hostVars
<1>1. LocksUp(t) /\ Losing(t) /\ Paced(t) /\ at[t] = "stage" /\ Applies(t)
  BY DEF LocksUp, LossInv, RecoveryInv, Stage, StageFails, BankInv, Applying, Applies
<1>2. UNCHANGED <<word, bank, semantic, poisoned, pgrp, sess, st, req>>
  BY DEF Stage, StageFails
<1>3. \A k \in Kinds : Live(k)' = Live(k)
  BY <1>2, SameMaps
<1>4. /\ Unanswered' <=> Unanswered
      /\ HappenedOnHost' <=> HappenedOnHost
      /\ \A n : Stuck(n)' <=> Stuck(n)
  <2>1. (Unanswered' <=> Unanswered) /\ (HappenedOnHost' <=> HappenedOnHost)
    BY <1>2 DEF Unanswered, HappenedOnHost, GetPgid, GetSid
  <2>. QED BY <1>2, <1>3, <2>1, StuckStays
<1>5. semantic.op # "none" => Unanswered \/ HappenedOnHost
  BY <1>1 DEF Losing, Applying
<1>6. pos[t] \in Nat \ {0}
  BY DEF CallInv, LocalTypes, Numbers
<1>7. CASE Stage(t)
  <2>1. at'[t] = "store" /\ pos'[t] = pos[t] /\ SlotFor(todo[t][pos[t]]) # 0
    BY <1>7 DEF Stage, CallInv, LocalTypes
  <2>2. poisoned => Stuck(pos[t])
    BY <1>1 DEF Losing, Applying, Ahead
  <2>3. poisoned => Stuck(pos[t] + 1)
    <3>. SUFFICES ASSUME poisoned PROVE Stuck(pos[t] + 1)
      OBVIOUS
    <3>1. semantic.op # "none"
      BY PoisonIs
    <3>2. PICK j \in DOMAIN RepairUpdates :
            j >= pos[t] /\ FullFor(RepairUpdates[j].kind, RepairUpdates[j].guest)
      BY <2>2 DEF Stuck
    <3>3. j # pos[t]
      BY <1>1, <2>1, <3>1, <3>2, FullIs
    <3>4. j \in Nat
      BY RepairsAre, <3>1
    <3>5. j >= pos[t] + 1
      BY <1>6, <3>2, <3>3, <3>4
    <3>. QED BY <3>2, <3>5 DEF Stuck
  <2>4. Ahead(t)' = pos[t] + 1
    BY <2>1 DEF Ahead
  <2>5. PICK n : n = pos[t] + 1
    OBVIOUS
  <2>6. Stuck(n)' <=> Stuck(n)
    BY <1>4
  <2>7. poisoned' => Stuck(Ahead(t))'
    BY <1>2, <2>3, <2>4, <2>5, <2>6 DEF Stuck
  <2>8. Losing(t)'
    BY <1>2, <1>4, <1>5, <2>1, <2>7 DEF Losing, Applying, Clearing
  <2>. QED BY <1>1, <1>2, <1>3, <2>8, HolderStays
<1>8. CASE StageFails(t)
  <2>1. at'[t] = "mirror" /\ then'[t] = "fail" /\ SlotFor(todo[t][pos[t]]) = 0
    BY <1>8 DEF StageFails, CallInv, LocalTypes
  <2>2. semantic.op # "none" => Stuck(1)
    <3>. SUFFICES ASSUME semantic.op # "none" PROVE Stuck(1)
      OBVIOUS
    <3>1. FullFor(RepairUpdates[pos[t]].kind, RepairUpdates[pos[t]].guest)
      BY <1>1, <2>1, FullIs
    <3>2. pos[t] \in DOMAIN RepairUpdates
      BY <1>1, NotYetTouched
    <3>. QED BY <1>6, <3>1, <3>2 DEF Stuck
  <2>3. semantic.op # "none" => Lost'
    BY <1>4, <1>5, <2>2 DEF Lost
(* A number that a reap takes is in the map.                               *)
  <2>4. semantic.op = "none" => req[t].op # "reap"
    <3>. SUFFICES ASSUME semantic.op = "none", req[t].op = "reap" PROVE FALSE
      OBVIOUS
    <3>1. ReapList(t)
      BY <1>1 DEF Applies, Listed
    <3>2. pos[t] \in DOMAIN todo[t] /\ todo[t] \in Seq(AnyUpdate)
      BY <1>1, <1>6 DEF Paced, CallInv, LocalTypes
    <3>3. PICK u : u = todo[t][pos[t]]
      OBVIOUS
    <3>4. u \in AnyUpdate
      BY <3>2, <3>3, ElementOf
    <3>5. PICK e \in Entries(u.kind) : e.guest = u.guest
      BY <3>1, <3>2, <3>3 DEF ReapList
    <3>6. \A v \in Done(t, u.kind) : v.guest # e.guest
      <4>1. ASSUME NEW j \in 1 .. pos[t] - 1, todo[t][j].kind = u.kind, todo[t][j].guest = u.guest PROVE FALSE
        <5>1. j \in DOMAIN todo[t] /\ j # pos[t]
          BY <1>6, <3>2
        <5>. QED BY <1>1, <3>2, <3>3, <4>1, <5>1 DEF Applies, Distinct
      <4>. QED BY <3>5, <4>1 DEF Done
    <3>7. e \in StagedEntries(u.kind)
      BY <1>1, <3>4, <3>5, <3>6 DEF Applies, Applied, AnyUpdate
    <3>8. PICK i \in Slots : Staged(u.kind)[i] = e
      BY <3>7 DEF StagedEntries
    <3>9. SlotOfGuest(Staged(u.kind), u.guest) \in Slots
      BY <3>5, <3>8, SlotOfGuestIs
    <3>10. 0 \notin Slots
      BY DEF Slots
    <3>. QED BY <2>1, <3>3, <3>9, <3>10 DEF SlotFor
  <2>5. Losing(t)'
    BY <1>2, <2>1, <2>3, <2>4 DEF Losing, Applying, Clearing
  <2>. QED BY <1>1, <1>2, <1>3, <2>5, HolderStays
<1>. QED BY <1>7, <1>8

(* A store says nothing of the slots still to be found.                    *)
LEMMA StoreLoses ==
  ASSUME CallInv, RecoveryInv, LossInv, NEW t \in Threads, Store(t)
  PROVE  LossInv'
<1>. USE DEF Go, storage, hostVars
<1>1. LocksUp(t) /\ Losing(t) /\ at[t] = "store" /\ pos[t] \in Nat
  BY DEF LocksUp, LossInv, Store, CallInv, LocalTypes, Numbers
<1>2. UNCHANGED <<word, semantic, poisoned, pgrp, sess, st, req>>
  BY DEF Store
<1>3. \A k \in Kinds : Live(k)' = Live(k)
  <2>1. PICK e : e = journal[Len(journal)]
    OBVIOUS
  <2>2. PICK f : f = IF todo[t][pos[t]].host = Nobody THEN Free
                     ELSE [guest |-> todo[t][pos[t]].guest, host |-> todo[t][pos[t]].host]
    OBVIOUS
  <2>3. bank' = [bank EXCEPT ![Inactive][e.kind][e.slot] = f]
    BY <2>1, <2>2 DEF Store
  <2>. QED BY <1>2, <2>3, LiveStays
<1>4. at'[t] \in {"stage", "commit"} /\ pos'[t] = pos[t] + 1
  BY DEF Store, CallInv, LocalTypes
<1>5. (Unanswered' <=> Unanswered) /\ (HappenedOnHost' <=> HappenedOnHost)
  BY <1>2 DEF Unanswered, HappenedOnHost, GetPgid, GetSid
<1>6. PICK n : n = Ahead(t)
  OBVIOUS
<1>7. Stuck(n)' <=> Stuck(n)
  BY <1>2, <1>3, StuckStays
<1>8. Ahead(t)' = n
  BY <1>1, <1>4, <1>6 DEF Ahead
<1>9. poisoned => Stuck(n)
  BY <1>1, <1>6 DEF Losing, Applying
<1>10. poisoned' => Stuck(Ahead(t))'
  BY <1>2, <1>7, <1>8, <1>9 DEF Stuck
<1>11. semantic.op # "none" => Unanswered' \/ HappenedOnHost'
  BY <1>1, <1>5 DEF Losing, Applying
<1>12. Losing(t)'
  BY <1>2, <1>4, <1>10, <1>11 DEF Losing, Applying, Clearing
<1>. QED BY <1>1, <1>2, <1>3, <1>12, HolderStays

(* A repair that found all its slots is not the repair of a full map.      *)
LEMMA CommitLoses ==
  ASSUME CallInv, RecoveryInv, LossInv, NEW t \in Threads, Commit(t)
  PROVE  LossInv'
<1>. USE DEF Go, storage, hostVars
<1>1. /\ LocksUp(t) /\ Losing(t) /\ Paced(t) /\ Listed(t) /\ at[t] = "commit"
      /\ todo[t] \in Seq(AnyUpdate)
  BY DEF LocksUp, LossInv, RecoveryInv, BankInv, Applying, Commit, CallInv, LocalTypes
<1>2. UNCHANGED <<semantic, poisoned, pgrp, sess, st, req>>
  BY DEF Commit
<1>3. ~poisoned
  <2>. SUFFICES ASSUME poisoned PROVE FALSE
    OBVIOUS
  <2>1. semantic.op # "none"
    BY PoisonIs
  <2>2. todo[t] = RepairUpdates /\ pos[t] = Len(todo[t]) + 1
    BY <1>1, <2>1 DEF Listed, Paced
  <2>3. Stuck(pos[t])
    BY <1>1 DEF Losing, Applying, Ahead
  <2>4. PICK j \in DOMAIN todo[t] : j >= pos[t]
    BY <2>2, <2>3 DEF Stuck
  <2>5. j \in 1 .. Len(todo[t]) /\ Len(todo[t]) \in Nat
    BY <1>1
  <2>. QED BY <2>2, <2>4, <2>5
<1>4. at'[t] = "mirror" /\ then'[t] \in {"unlock", "clear"}
  BY DEF Commit, CallInv, LocalTypes
<1>5. Losing(t)'
  BY <1>2, <1>3, <1>4 DEF Losing, Applying, Clearing
<1>6. Witnessed'
  BY <1>2, <1>3 DEF LossInv, Witnessed
<1>. QED BY <1>1, <1>5, <1>6, HoldsOn, HolderLoses

(* Every action keeps LossInv when the host gives out fresh ids.           *)
LEMMA RegistryLoses ==
  ASSUME CallInv, RecoveryInv, LossInv, NEW t \in Threads, Registry(t)
  PROVE  LossInv'
<1>1. Step(t)
  BY DEF Registry
<1>2. CASE \/ TakeLock(t) \/ Mirror(t) \/ Mirrored(t) \/ NothingToRepair(t)
           \/ RepairForward(t) \/ RepairBack(t) \/ RepairPoisons(t) \/ Fail(t)
  BY <1>2, LocksLose, PoisonLoses
<1>3. CASE \/ Clear(t) \/ JoinAgain(t) \/ JoinNew(t) \/ Publish(t) \/ Reap(t)
           \/ Announce(t) \/ HostCall(t) \/ HostRefuses(t)
  BY <1>3, BodyLoses, HostLoses
<1>4. CASE Stage(t) \/ StageFails(t) \/ Store(t) \/ Commit(t)
  BY <1>4, StageLoses, StoreLoses, CommitLoses
<1>5. CASE Unlock(t) \/ Look(t) \/ Scan(t) \/ Recheck(t)
  BY <1>5, LookLoses
<1>. QED BY <1>1, <1>2, <1>3, <1>4, <1>5 DEF Step

LEMMA LossStep ==
  ASSUME CallInv, RecoveryInv, LossInv, [Next]_vars, [FreshIds]_vars
  PROVE  LossInv'
<1>1. CASE UNCHANGED vars
  <2>1. UNCHANGED <<word, bank, semantic, poisoned, at, then, pos, req, pgrp, sess, st>>
    BY <1>1 DEF vars, registryVars, storage, hostVars, locals
  <2>. QED BY <2>1, SameMaps, OthersLose DEF Persists
<1>2. CASE Next /\ FreshIds
  <2>1. CASE \E p \in Procs, g, s \in Hosts : Launch(p, g, s)
    BY <1>2, <2>1, BirthLoses
  <2>2. CASE \E p \in Procs : Exit(p) \/ Kill(p)
    BY <2>2, LifeLoses
  <2>3. ASSUME NEW t \in Threads, Registry(t) PROVE LossInv'
    BY <2>3, RegistryLoses
  <2>4. ASSUME NEW t \in Threads,
               Joined(t) \/ JoinFailed(t) \/ ChildPublished(t) \/ ChildAbandoned(t) \/ ParentAbandons(t)
        PROVE  LossInv'
    BY <2>4, LifeLoses
  <2>5. ASSUME NEW t \in Threads, NEW c \in Procs, Fork(t, c) \/ Wait(t, c) PROVE LossInv'
    BY <1>2, <2>5, BirthLoses, GuestLoses
  <2>6. ASSUME NEW t \in Threads,
               \/ \E a0, a1 \in {0} \union Guests : SetPgid(t, a0, a1)
               \/ Resolved(t) \/ ResolvedGroup(t) \/ SetSid(t) \/ AskGroup(t)
               \/ Waited(t) \/ Unresolved(t) \/ Return(t) \/ ParentPublished(t)
        PROVE  LossInv'
    BY <2>6, GuestLoses
  <2>. QED BY <1>2, <2>1, <2>2, <2>3, <2>4, <2>5, <2>6 DEF Next
<1>. QED BY <1>1, <1>2

(* At first nothing is announced and nothing lost.                         *)
LEMMA FirstLoses == Init => LossInv
<1>. SUFFICES ASSUME Init PROVE LossInv
  OBVIOUS
<1>1. semantic.op = "none" /\ ~poisoned /\ \A t \in Threads : at[t] = "dead"
  BY DEF Init, RegistryInit, NoSemantic
<1>. QED BY <1>1 DEF LossInv, Witnessed, Losing, Applying, Clearing

(* A map without a slot for a number is full.                              *)
LEMMA FullMaps ==
  ASSUME CallInv, RecoveryInv, NEW k \in Kinds, NEW g, FullFor(k, g)
  PROVE  Cardinality(Entries(k)) = Capacity
<1>1. PICK b : b = Live(k)
  OBVIOUS
<1>2. /\ b \in [Slots -> AnyEntry] /\ Unique(b) /\ \A i \in Slots : b[i] # Free
      /\ Entries(k) = {b[i] : i \in Slots}
  BY <1>1, BankTypes DEF RecoveryInv, BankInv, FullFor, Entries
<1>3. b \in Bijection(Slots, Entries(k))
  <2>1. \A i \in Slots : b[i].guest # 0
    BY <1>2 DEF AnyEntry, Numbers
  <2>2. \A i, j \in Slots : b[i] = b[j] => i = j
    BY <1>2, <2>1 DEF Unique
  <2>3. b \in [Slots -> Entries(k)]
    BY <1>2
  <2>. QED BY <1>2, <2>2, <2>3 DEF Bijection, Injection, Surjection, IsInjective
<1>4. Capacity \in Nat \ {0}
  BY IdentityAssumption DEF IdentityAssumption
<1>5. IsFiniteSet(Slots) /\ Cardinality(Slots) = Capacity
  BY <1>4, FS_Interval DEF Slots
<1>. QED BY <1>3, <1>5, FS_Bijection DEF ExistsBijection

(* A registry that is given up over a process that can still be asked has  *)
(* a full map.                                                             *)
LEMMA WhatIsLost == CallInv /\ RecoveryInv /\ LossInv => PoisonedByLoss
<1>. SUFFICES ASSUME CallInv, RecoveryInv, LossInv, poisoned, ~Unanswered
              PROVE  \E k \in {"pgid", "sid"} : Cardinality(Entries(k)) = Capacity
  BY PoisonIs DEF PoisonedByLoss, Unanswered
<1>1. Stuck(1)
  BY PoisonIs DEF Lost
<1>2. PICK j \in DOMAIN RepairUpdates : FullFor(RepairUpdates[j].kind, RepairUpdates[j].guest)
  BY <1>1 DEF Stuck
<1>3. RepairUpdates[j].kind \in {"pgid", "sid"}
  BY DEF RepairUpdates, Update
<1>4. PICK k \in {"pgid", "sid"} : k = RepairUpdates[j].kind
  BY <1>3
<1>5. Cardinality(Entries(k)) = Capacity
  BY <1>2, <1>4, FullMaps DEF Kinds
<1>. QED BY <1>5

(* What recovery will find: the host knows the announced process as it was *)
(* before the call or after it, and a registry that is given up waits for  *)
(* a process that is gone or for a map that is full.                       *)
THEOREM LossInvariance == Spec /\ [][FreshIds]_vars => []LossInv
<1>1. CallInv /\ RecoveryInv /\ LossInv /\ [Next]_vars /\ [FreshIds]_vars => LossInv'
  BY LossStep
<1>. QED BY <1>1, FirstLoses, RecoveryInvariance, PTL DEF Spec

(* registry_poison_locked is reached only over a process that is gone or a *)
(* table that is full: as long as the host can be asked, recovery decides  *)
(* what became of an interrupted setpgid or setsid.                        *)
THEOREM PoisonIsLoss == Spec /\ [][FreshIds]_vars => []PoisonedByLoss
  BY LossInvariance, RecoveryInvariance, WhatIsLost, PTL

-----------------------------------------------------------------------------
(* Transactions.                                                           *)

NamesOf(k) == {<<e.guest, e.host>> : e \in Entries(k)}
(* The bound of the abstract maps.                                         *)
NumbersFit == \A k \in Kinds : \A e \in Entries(k) : e.guest \in Guests

(* Entries of the maps.                                                    *)
LEMMA EntriesAre ==
  ASSUME CallInv, NEW k \in Kinds, NEW e \in Entries(k)
  PROVE  e \in [guest : Numbers, host : Members(k)] /\ e.host \in Hosts /\ e = [guest |-> e.guest, host |-> e.host]
<1>1. PICK i \in Slots : e = Live(k)[i] /\ e # Free
  BY DEF Entries
<1>2. e \in [guest : Numbers, host : Members(k)]
  BY <1>1, BankTypes DEF EntryOf
<1>. QED BY <1>2 DEF Members, Hosts

(* The pairs of a map are of its numbers and host ids.                     *)
LEMMA NamesTypes ==
  ASSUME CallInv, NumbersFit, NEW k \in Kinds
  PROVE  NamesOf(k) \subseteq Guests \X Hosts
  BY EntriesAre DEF NamesOf, NumbersFit

(* A transaction that is committed names what it carried: a number that    *)
(* stood for something stands for the same.                                *)
LEMMA NamesAdded ==
  ASSUME CallInv, RecoveryInv, NameInv, Outside = {}, NEW t \in Threads, Commit(t), NEW k \in Kinds,
         \A j \in DOMAIN todo[t] : todo[t][j].kind = k => todo[t][j].host # Nobody
  PROVE  /\ \A x : x \in NamesOf(k)' <=>
              \/ x \in NamesOf(k)
              \/ \E j \in DOMAIN todo[t] :
                   todo[t][j].kind = k /\ x = <<todo[t][j].guest, todo[t][j].host>>
         /\ \A j \in DOMAIN todo[t] : todo[t][j].kind = k =>
              \A x \in NamesOf(k) : x[1] = todo[t][j].guest => x[2] = todo[t][j].host
<1>1. at[t] = "commit" /\ Paced(t) /\ todo[t] \in Seq(AnyUpdate)
  BY DEF Commit, RecoveryInv, CallInv, LocalTypes
<1>2. \A u : u \in Done(t, k) <=> \E j \in DOMAIN todo[t] : u = todo[t][j] /\ u.kind = k
  <2>1. 1 .. pos[t] - 1 = DOMAIN todo[t]
    BY <1>1 DEF Paced
  <2>. QED BY <2>1 DEF Done
<1>3. Hosts = Procs
  BY DEF Hosts
<1>4. ASSUME NEW j \in DOMAIN todo[t], todo[t][j].kind = k, NEW e \in Entries(k), e.guest = todo[t][j].guest
      PROVE  e.host = todo[t][j].host
  <2>1. todo[t][j] \in AnyUpdate /\ todo[t][j].host # Nobody
    BY <1>1, <1>4, ElementOf
  <2>2. Named(todo[t][j].guest, todo[t][j].host) \in OfProcs
    <3>1. todo[t][j].host \in Procs
      BY <1>3, <2>1 DEF AnyUpdate, SomeHost
    <3>2. Named(todo[t][j].guest, todo[t][j].host) \in Known
      BY <2>1, CarriedIs, KnownIs
    <3>. QED BY <3>1, <3>2, Pair DEF OfProcs
  <2>3. e \in OfProcs
    BY <1>3, EntriesAre, KnownIs DEF OfProcs
  <2>. QED BY <1>4, <2>2, <2>3, Pair DEF NameInv, Agree
<1>5. Entries(k)' = Applied(t, k)
  BY CommitRecovers
<1>6. ASSUME NEW e
      PROVE  e \in Applied(t, k) <=>
               \/ e \in Entries(k)
               \/ \E j \in DOMAIN todo[t] :
                    todo[t][j].kind = k /\ e = [guest |-> todo[t][j].guest, host |-> todo[t][j].host]
  <2>1. e \in Applied(t, k) <=>
          \/ e \in Entries(k) /\ \A u \in Done(t, k) : u.guest # e.guest
          \/ \E u \in Done(t, k) : u.host # Nobody /\ e = [guest |-> u.guest, host |-> u.host]
    BY DEF Applied
  <2>2. (\E u \in Done(t, k) : u.host # Nobody /\ e = [guest |-> u.guest, host |-> u.host]) <=>
          \E j \in DOMAIN todo[t] :
            todo[t][j].kind = k /\ e = [guest |-> todo[t][j].guest, host |-> todo[t][j].host]
    BY <1>2
  <2>3. ASSUME e \in Entries(k), NEW u \in Done(t, k), u.guest = e.guest
        PROVE  u.host # Nobody /\ e = [guest |-> u.guest, host |-> u.host]
    <3>1. PICK j \in DOMAIN todo[t] : u = todo[t][j] /\ u.kind = k
      BY <1>2
    <3>2. u.host # Nobody /\ e.host = u.host
      BY <1>4, <2>3, <3>1
    <3>. QED BY <2>3, <3>2, EntriesAre
  <2>. QED BY <2>1, <2>2, <2>3
<1>7. ASSUME NEW x
      PROVE  x \in NamesOf(k)' <=>
               \/ x \in NamesOf(k)
               \/ \E j \in DOMAIN todo[t] :
                    todo[t][j].kind = k /\ x = <<todo[t][j].guest, todo[t][j].host>>
  <2>1. x \in NamesOf(k)' <=> \E e \in Applied(t, k) : x = <<e.guest, e.host>>
    BY <1>5 DEF NamesOf
  <2>2. x \in NamesOf(k) <=> \E e \in Entries(k) : x = <<e.guest, e.host>>
    BY DEF NamesOf
  <2>3. ASSUME NEW e \in Applied(t, k), x = <<e.guest, e.host>>
        PROVE  \/ x \in NamesOf(k)
               \/ \E j \in DOMAIN todo[t] :
                    todo[t][j].kind = k /\ x = <<todo[t][j].guest, todo[t][j].host>>
    BY <1>6, <2>2, <2>3
  <2>4. ASSUME NEW e \in Entries(k), x = <<e.guest, e.host>> PROVE x \in NamesOf(k)'
    BY <1>6, <2>1, <2>4
  <2>5. ASSUME NEW j \in DOMAIN todo[t], todo[t][j].kind = k, x = <<todo[t][j].guest, todo[t][j].host>>
        PROVE  x \in NamesOf(k)'
    <3>1. PICK e : e = [guest |-> todo[t][j].guest, host |-> todo[t][j].host]
      OBVIOUS
    <3>2. e \in Applied(t, k)
      BY <1>6, <2>5, <3>1
    <3>3. x = <<e.guest, e.host>>
      BY <2>5, <3>1
    <3>. QED BY <2>1, <3>2, <3>3
  <2>. QED BY <2>1, <2>2, <2>3, <2>4, <2>5
<1>8. \A j \in DOMAIN todo[t] : todo[t][j].kind = k =>
        \A x \in NamesOf(k) : x[1] = todo[t][j].guest => x[2] = todo[t][j].host
  BY <1>4 DEF NamesOf
<1>. QED BY <1>7, <1>8

(* The abstract maps before and after a transaction, as IdentityMaps has   *)
(* them: a launch joins, a number is published, a group is entered, a      *)
(* session is led, a process is retired.                                   *)
NamedPairs(G) == G \X Hosts
OpenIn(n, k, p) == \A x \in n[k] : x[1] = p[1] => x[2] = p[2]
Joins(G, n, m) ==
  \E p, g, s \in NamedPairs(G) :
    /\ OpenIn(n, "pid", p) /\ OpenIn(n, "pgid", g) /\ OpenIn(n, "sid", s)
    /\ m = [n EXCEPT !["pid"] = @ \union {p}, !["pgid"] = @ \union {g}, !["sid"] = @ \union {s}]
Publishes(G, n, m) == \E p \in NamedPairs(G) : OpenIn(n, "pid", p) /\ m = [n EXCEPT !["pid"] = @ \union {p}]
Enters(G, n, m) == \E g \in NamedPairs(G) : OpenIn(n, "pgid", g) /\ m = [n EXCEPT !["pgid"] = @ \union {g}]
Leads(G, n, m) ==
  \E s \in NamedPairs(G) :
    /\ OpenIn(n, "pgid", s) /\ OpenIn(n, "sid", s)
    /\ m = [n EXCEPT !["pgid"] = @ \union {s}, !["sid"] = @ \union {s}]
Retires(n, m) ==
  /\ \E p \in n["pid"] : m["pid"] = n["pid"] \ {p}
  /\ \A k \in {"pgid", "sid"} : m[k] \subseteq n[k]

(* A launch, from its three pairs.                                         *)
LEMMA JoinsBy ==
  ASSUME NEW G, NEW n, NEW m, NEW a \in NamedPairs(G), NEW b \in NamedPairs(G), NEW c \in NamedPairs(G),
         OpenIn(n, "pid", a), OpenIn(n, "pgid", b), OpenIn(n, "sid", c),
         m = [n EXCEPT !["pid"] = @ \union {a}, !["pgid"] = @ \union {b}, !["sid"] = @ \union {c}]
  PROVE  Joins(G, n, m)
<1>1. \E p, g, s \in NamedPairs(G) :
        /\ OpenIn(n, "pid", p) /\ OpenIn(n, "pgid", g) /\ OpenIn(n, "sid", s)
        /\ m = [n EXCEPT !["pid"] = @ \union {p}, !["pgid"] = @ \union {g}, !["sid"] = @ \union {s}]
  <2>. WITNESS a \in NamedPairs(G), b \in NamedPairs(G), c \in NamedPairs(G)
  <2>. QED OBVIOUS
<1>. QED BY <1>1 DEF Joins

(* A commit is one step of the abstract maps.                              *)
LEMMA AtomicCommit ==
  ASSUME CallInv, CallInv', RecoveryInv, NameInv, Outside = {}, NEW t \in Threads, Commit(t),
         NEW n, NEW m, n = [k \in Kinds |-> NamesOf(k)], m = [k \in Kinds |-> NamesOf(k)'],
         NEW G, \A k \in Kinds : \A x \in m[k] : x[1] \in G
  PROVE  Joins(G, n, m) \/ Publishes(G, n, m) \/ Enters(G, n, m) \/ Leads(G, n, m) \/ Retires(n, m)
<1>. DEFINE S == todo[t]
            Adds(k, p) == OpenIn(n, k, p) /\ p \in NamedPairs(G) /\ m[k] = n[k] \union {p}
<1>1. /\ at[t] = "commit" /\ Paced(t) /\ Listed(t) /\ Distinct(S) /\ S \in Seq(AnyUpdate)
      /\ pos[t] = Len(S) + 1
  BY DEF Commit, RecoveryInv, BankInv, Applying, CallInv, LocalTypes, Paced
<1>2. DOMAIN n = Kinds /\ DOMAIN m = Kinds /\ \A k \in Kinds : n[k] = NamesOf(k) /\ m[k] = NamesOf(k)'
  OBVIOUS
<1>3. \A k \in Kinds : \A x \in m[k] : x[1] \in G
  OBVIOUS
(* A map with one update, or none.                                         *)
<1>4. ASSUME NEW k \in Kinds, NEW j \in DOMAIN S, S[j].kind = k, S[j].host # Nobody,
             \A i \in DOMAIN S : S[i].kind = k => i = j
      PROVE  Adds(k, <<S[j].guest, S[j].host>>)
  <2>1. \A i \in DOMAIN S : S[i].kind = k => S[i].host # Nobody
    BY <1>4
  <2>2. \A x : x \in NamesOf(k)' <=> x \in NamesOf(k) \/ x = <<S[j].guest, S[j].host>>
    BY <1>4, <2>1, NamesAdded
  <2>3. \A x \in NamesOf(k) : x[1] = S[j].guest => x[2] = S[j].host
    BY <1>4, <2>1, NamesAdded
  <2>4. m[k] = n[k] \union {<<S[j].guest, S[j].host>>}
    BY <1>2, <2>2
  <2>5. S[j].host \in Hosts /\ S[j].guest \in G
    <3>1. S[j] \in AnyUpdate
      BY <1>1, ElementOf
    <3>2. <<S[j].guest, S[j].host>> \in m[k]
      BY <2>4
    <3>. QED BY <1>3, <1>4, <3>1, <3>2 DEF AnyUpdate, SomeHost
  <2>. QED BY <1>2, <2>3, <2>4, <2>5 DEF OpenIn, NamedPairs
<1>5. ASSUME NEW k \in Kinds, \A i \in DOMAIN S : S[i].kind # k PROVE m[k] = n[k]
  <2>1. \A x : x \in NamesOf(k)' <=> x \in NamesOf(k)
    BY <1>5, NamesAdded
  <2>. QED BY <1>2, <2>1
<1>. HIDE DEF Adds
<1>6. \A k \in Kinds : \A p : Adds(k, p) => OpenIn(n, k, p) /\ p \in NamedPairs(G) /\ m[k] = n[k] \union {p}
  BY DEF Adds
<1>7. /\ m = [k \in Kinds |-> m[k]]
      /\ DOMAIN n = Kinds
  BY <1>2
<1>8. CASE semantic.op # "none"
  <2>1. S = RepairUpdates /\ semantic \in Announced
    BY <1>1, <1>8, RepairsAre DEF Listed
  <2>2. semantic.proc # Nobody /\ semantic.group # Nobody
    BY <2>1, IdentityAssumption DEF IdentityAssumption, Announced, Hosts
  <2>3. CASE semantic.op = "setpgid"
    <3>1. /\ DOMAIN S = {1} /\ S[1].kind = "pgid" /\ S[1].host # Nobody
      BY <2>1, <2>2, <2>3 DEF RepairUpdates, Update
    <3>2. Adds("pgid", <<S[1].guest, S[1].host>>)
      BY <1>4, <3>1 DEF Kinds
    <3>3. m["pid"] = n["pid"] /\ m["sid"] = n["sid"]
      BY <1>5, <3>1 DEF Kinds
    <3>4. PICK g : g = <<S[1].guest, S[1].host>>
      OBVIOUS
    <3>5. m = [n EXCEPT !["pgid"] = @ \union {g}]
      BY <1>6, <1>7, <3>2, <3>3, <3>4 DEF Kinds
    <3>6. g \in NamedPairs(G) /\ OpenIn(n, "pgid", g)
      BY <1>6, <3>2, <3>4 DEF Kinds
    <3>. QED BY <3>5, <3>6 DEF Enters
  <2>4. CASE semantic.op = "setsid"
    <3>1. /\ DOMAIN S = {1, 2} /\ S[1].kind = "pgid" /\ S[1].host # Nobody /\ S[2].kind = "sid"
          /\ S[2].host = S[1].host /\ S[2].guest = S[1].guest
      BY <2>1, <2>2, <2>4 DEF RepairUpdates, Update
    <3>2. Adds("pgid", <<S[1].guest, S[1].host>>) /\ Adds("sid", <<S[1].guest, S[1].host>>)
      <4>1. Adds("pgid", <<S[1].guest, S[1].host>>)
        BY <1>4, <3>1 DEF Kinds
      <4>2. Adds("sid", <<S[2].guest, S[2].host>>)
        BY <1>4, <3>1 DEF Kinds
      <4>. QED BY <3>1, <4>1, <4>2
    <3>3. m["pid"] = n["pid"]
      BY <1>5, <3>1 DEF Kinds
    <3>4. PICK s : s = <<S[1].guest, S[1].host>>
      OBVIOUS
    <3>5. m = [n EXCEPT !["pgid"] = @ \union {s}, !["sid"] = @ \union {s}]
      BY <1>6, <1>7, <3>2, <3>3, <3>4 DEF Kinds
    <3>6. s \in NamedPairs(G) /\ OpenIn(n, "pgid", s) /\ OpenIn(n, "sid", s)
      BY <1>6, <3>2, <3>4 DEF Kinds
    <3>. QED BY <3>5, <3>6 DEF Leads
  <2>. QED BY <1>8, <2>1, <2>3, <2>4 DEF Announced
<1>9. CASE semantic.op = "none" /\ req[t].op = "join" /\ JoinList(t)
  <2>1. /\ DOMAIN S = {1, 2, 3} /\ S[1].kind = "pid" /\ S[2].kind = "pgid" /\ S[3].kind = "sid"
        /\ S[1].host = t[1] /\ S[2].host = pgrp[t[1]] /\ S[3].host = sess[t[1]]
    BY <1>1, <1>9 DEF JoinList, Update
  <2>2. S[1].host # Nobody /\ S[2].host # Nobody /\ S[3].host # Nobody
    <3>1. t[1] \in Procs /\ st[t[1]] = "live"
      BY <1>1, IdentityAssumption DEF IdentityAssumption, CallInv, LifeInv
    <3>2. pgrp[t[1]] \in Hosts /\ sess[t[1]] \in Hosts
      BY <3>1 DEF CallInv, HostTypes, Exists
    <3>. QED BY <2>1, <3>1, <3>2, IdentityAssumption DEF IdentityAssumption, Hosts
  <2>3. /\ Adds("pid", <<S[1].guest, S[1].host>>) /\ Adds("pgid", <<S[2].guest, S[2].host>>)
        /\ Adds("sid", <<S[3].guest, S[3].host>>)
    BY <1>4, <2>1, <2>2 DEF Kinds
  <2>4. PICK p, g, s : p = <<S[1].guest, S[1].host>> /\ g = <<S[2].guest, S[2].host>> /\ s = <<S[3].guest, S[3].host>>
    OBVIOUS
  <2>5. m = [n EXCEPT !["pid"] = @ \union {p}, !["pgid"] = @ \union {g}, !["sid"] = @ \union {s}]
    BY <1>6, <1>7, <2>3, <2>4 DEF Kinds
  <2>6. /\ p \in NamedPairs(G) /\ g \in NamedPairs(G) /\ s \in NamedPairs(G)
        /\ OpenIn(n, "pid", p) /\ OpenIn(n, "pgid", g) /\ OpenIn(n, "sid", s)
    BY <1>6, <2>3, <2>4 DEF Kinds
  <2>7. Joins(G, n, m)
    BY <2>5, <2>6, JoinsBy
  <2>. QED BY <2>7
<1>10. CASE semantic.op = "none" /\ req[t].op = "publish" /\ S = <<Update("pid", req[t].guest, req[t].proc)>>
  <2>1. DOMAIN S = {1} /\ S[1].kind = "pid" /\ S[1].host = req[t].proc
    BY <1>10 DEF Update
  <2>2. S[1].host # Nobody
    <3>1. req[t].proc \in Procs /\ Nobody \notin Procs
      BY <1>10, IdentityAssumption DEF IdentityAssumption, CallInv, Asked
    <3>. QED BY <2>1, <3>1
  <2>3. Adds("pid", <<S[1].guest, S[1].host>>)
    BY <1>4, <2>1, <2>2 DEF Kinds
  <2>4. m["pgid"] = n["pgid"] /\ m["sid"] = n["sid"]
    BY <1>5, <2>1 DEF Kinds
  <2>5. PICK p : p = <<S[1].guest, S[1].host>>
    OBVIOUS
  <2>6. m = [n EXCEPT !["pid"] = @ \union {p}]
    BY <1>6, <1>7, <2>3, <2>4, <2>5 DEF Kinds
  <2>7. p \in NamedPairs(G) /\ OpenIn(n, "pid", p)
    BY <1>6, <2>3, <2>5 DEF Kinds
  <2>. QED BY <2>6, <2>7 DEF Publishes
<1>11. CASE semantic.op = "none" /\ req[t].op = "reap" /\ ReapList(t)
  <2>1. /\ S # <<>> /\ S[1].kind = "pid"
        /\ [guest |-> S[1].guest, host |-> req[t].proc] \in Entries("pid")
        /\ \A j \in DOMAIN S : S[j].host = Nobody /\ (j # 1 => S[j].kind # "pid")
    BY <1>11 DEF ReapList
  <2>2. \A k \in Kinds : Entries(k)' = Applied(t, k)
    BY CommitRecovers
  <2>3. \A k, u : u \in Done(t, k) <=> \E j \in DOMAIN S : u = S[j] /\ u.kind = k
    <3>1. 1 .. pos[t] - 1 = DOMAIN S
      BY <1>1
    <3>. QED BY <3>1 DEF Done
  <2>4. \A k \in Kinds : \A e : e \in Entries(k)' <=> e \in Entries(k) /\ \A u \in Done(t, k) : u.guest # e.guest
    <3>1. \A k, u : u \in Done(t, k) => u.host = Nobody
      BY <2>1, <2>3
    <3>. QED BY <2>2, <3>1 DEF Applied
  <2>5. \A k \in {"pgid", "sid"} : m[k] \subseteq n[k]
    BY <1>2, <2>4 DEF NamesOf, Kinds
  <2>6. PICK g, h : g = S[1].guest /\ h = req[t].proc
    OBVIOUS
  <2>7. \A e : e \in Entries("pid")' <=> e \in Entries("pid") /\ e.guest # g
    <3>1. \A u : u \in Done(t, "pid") <=> u = S[1]
      <4>1. 1 \in DOMAIN S
        BY <1>1, <2>1
      <4>. QED BY <2>1, <2>3, <4>1
    <3>. QED BY <2>4, <2>6, <3>1 DEF Kinds
  <2>8. \A e \in Entries("pid") : e.guest = g => e.host = h
    <3>1. PICK f : f = [guest |-> g, host |-> h]
      OBVIOUS
    <3>2. f \in Entries("pid") /\ f.guest = g /\ f.host = h
      BY <2>1, <2>6, <3>1
    <3>3. \A e \in Entries("pid") : e \in OfProcs
      BY EntriesAre, KnownIs DEF OfProcs, Kinds, Members
    <3>. QED BY <3>2, <3>3 DEF NameInv, Agree
  <2>9. <<g, h>> \in n["pid"]
    <3>1. PICK f : f = [guest |-> g, host |-> h]
      OBVIOUS
    <3>2. f \in Entries("pid") /\ <<g, h>> = <<f.guest, f.host>>
      BY <2>1, <2>6, <3>1
    <3>. QED BY <1>2, <3>2 DEF NamesOf, Kinds
  <2>10. m["pid"] = n["pid"] \ {<<g, h>>}
    <3>1. \A x : x \in m["pid"] <=> \E e : e \in Entries("pid") /\ e.guest # g /\ x = <<e.guest, e.host>>
      BY <1>2, <2>7 DEF NamesOf, Kinds
    <3>2. \A x : x \in n["pid"] <=> \E e : e \in Entries("pid") /\ x = <<e.guest, e.host>>
      BY <1>2 DEF NamesOf, Kinds
    <3>. QED BY <2>8, <3>1, <3>2
  <2>. QED BY <2>5, <2>9, <2>10 DEF Retires
<1>. QED BY <1>1, <1>8, <1>9, <1>10, <1>11 DEF Listed

(* Every step but a commit leaves the published maps alone.                *)
LEMMA MapsStay ==
  ASSUME CallInv, [Next]_vars, \A t \in Threads : ~Commit(t)
  PROVE  \A k : NamesOf(k)' = NamesOf(k)
<1>. USE DEF Go, End, Apply, storage, registryVars
<1>1. ASSUME UNCHANGED <<word, bank>> PROVE \A k : NamesOf(k)' = NamesOf(k)
  BY <1>1, SameMaps DEF NamesOf
<1>2. CASE UNCHANGED vars
  BY <1>1, <1>2 DEF vars
<1>3. \A t, r, w, p : Turn(t, p, r, w) => UNCHANGED <<word, bank>>
  BY DEF Turn
<1>4. /\ \A t : Finish(t) => UNCHANGED <<word, bank>>
      /\ \A t, r : Ask(t, r) => UNCHANGED <<word, bank>>
      /\ \A t, r, w : LookUp(t, r, w) => UNCHANGED <<word, bank>>
  BY <1>3 DEF Ask, LookUp, Finish
<1>5. /\ \A t : Begin(t) => UNCHANGED <<word, bank>>
      /\ \A over, reaped : Ends(over, reaped) => UNCHANGED <<word, bank>>
  BY DEF Begin, Ends
<1>6. /\ \A p : Dies(p) => UNCHANGED <<word, bank>>
  BY <1>5 DEF Dies
<1>7. CASE \/ \E p \in Procs, g, s \in Hosts : Launch(p, g, s)
           \/ \E p \in Procs : Exit(p) \/ Kill(p)
  BY <1>1, <1>4, <1>6, <1>7 DEF Launch, Exit, Kill
<1>8. ASSUME NEW t \in Threads,
             \/ Joined(t) \/ JoinFailed(t) \/ ChildPublished(t) \/ ParentPublished(t)
             \/ ChildAbandoned(t) \/ ParentAbandons(t)
      PROVE  UNCHANGED <<word, bank>>
  BY <1>4, <1>5, <1>6, <1>8 DEF Joined, JoinFailed, ChildPublished, ParentPublished, ChildAbandoned,
     ParentAbandons
<1>9. ASSUME NEW t \in Threads, \E c \in Procs : Fork(t, c) \/ Wait(t, c) PROVE UNCHANGED <<word, bank>>
  BY <1>4, <1>9 DEF Fork, Wait
<1>10. ASSUME NEW t \in Threads,
             \/ \E a0, a1 \in {0} \union Guests : SetPgid(t, a0, a1)
             \/ Resolved(t) \/ ResolvedGroup(t) \/ Unresolved(t)
             \/ SetSid(t) \/ AskGroup(t) \/ Waited(t) \/ Return(t)
      PROVE  UNCHANGED <<word, bank>>
  BY <1>4, <1>10 DEF SetPgid, Resolved, ResolvedGroup, Unresolved, SetSid, AskGroup, Waited, Return
<1>11. ASSUME NEW t \in Threads, Registry(t) PROVE \A k : NamesOf(k)' = NamesOf(k)
  <2>1. ASSUME \A l : Live(l)' = Live(l) PROVE \A k : NamesOf(k)' = NamesOf(k)
    BY <2>1 DEF NamesOf, Entries
  <2>2. Step(t)
    BY <1>11 DEF Registry
  <2>3. CASE Mirror(t)
    <3>1. PICK e : e = journal[pos[t]]
      OBVIOUS
    <3>2. bank' = [bank EXCEPT ![Inactive][e.kind][e.slot] = Live(e.kind)[e.slot]] /\ UNCHANGED word
      BY <2>3, <3>1 DEF Mirror
    <3>. QED BY <2>1, <3>2, LiveStays
  <2>4. CASE Store(t)
    <3>1. PICK e : e = journal[Len(journal)]
      OBVIOUS
    <3>2. PICK f : f = IF todo[t][pos[t]].host = Nobody THEN Free
                       ELSE [guest |-> todo[t][pos[t]].guest, host |-> todo[t][pos[t]].host]
      OBVIOUS
    <3>3. bank' = [bank EXCEPT ![Inactive][e.kind][e.slot] = f] /\ UNCHANGED word
      BY <2>4, <3>1, <3>2 DEF Store
    <3>. QED BY <2>1, <3>3, LiveStays
  <2>5. CASE \/ TakeLock(t) \/ Mirrored(t) \/ NothingToRepair(t) \/ RepairForward(t) \/ RepairBack(t)
             \/ RepairPoisons(t) \/ Clear(t) \/ Stage(t) \/ StageFails(t) \/ Fail(t) \/ Unlock(t)
    BY <1>1, <2>5 DEF TakeLock, Mirrored, NothingToRepair, RepairForward, RepairBack,
       RepairPoisons, Clear, Stage, StageFails, Fail, Unlock
  <2>6. CASE \/ JoinAgain(t) \/ JoinNew(t) \/ Publish(t) \/ Announce(t) \/ HostCall(t) \/ HostRefuses(t)
             \/ Reap(t) \/ Look(t) \/ Scan(t) \/ Recheck(t)
    BY <1>1, <2>6 DEF JoinAgain, JoinNew, Publish, Announce, HostCall, HostRefuses, Reap, Look, Scan, Recheck
  <2>. QED BY <2>2, <2>3, <2>4, <2>5, <2>6 DEF Step
<1>. QED BY <1>1, <1>2, <1>3, <1>4, <1>5, <1>7, <1>8, <1>9, <1>10, <1>11 DEF Next

(* A step of the registry is a step of the maps, or none.                  *)
LEMMA AtomicStep ==
  ASSUME CallInv, CallInv', RecoveryInv, NameInv, Outside = {}, [Next]_vars,
         NEW n, NEW m, n = [k \in Kinds |-> NamesOf(k)], m = [k \in Kinds |-> NamesOf(k)'],
         NEW G, \A k \in Kinds : \A x \in m[k] : x[1] \in G
  PROVE  m = n \/ Joins(G, n, m) \/ Publishes(G, n, m) \/ Enters(G, n, m) \/ Leads(G, n, m) \/ Retires(n, m)
<1>1. CASE \A t \in Threads : ~Commit(t)
  BY <1>1, MapsStay
<1>2. ASSUME NEW t \in Threads, Commit(t)
      PROVE  Joins(G, n, m) \/ Publishes(G, n, m) \/ Enters(G, n, m) \/ Leads(G, n, m) \/ Retires(n, m)
  BY <1>2, AtomicCommit
<1>. QED BY <1>1, <1>2

(* At first the maps are empty.                                            *)
LEMMA FirstMaps == Init => \A k \in Kinds : NamesOf(k) = {}
<1>. SUFFICES ASSUME Init PROVE \A k \in Kinds : NamesOf(k) = {}
  OBVIOUS
<1>1. \A k \in Kinds : Entries(k) = {}
  BY DEF Init, RegistryInit, Entries, Live, Active, Start
<1>. QED BY <1>1 DEF NamesOf

(* The maps with numbers without a bound.                                  *)
AllMaps == INSTANCE IdentityMaps WITH Guests <- Nat, names <- PublishedNames

(* The steps as steps of IdentityMaps, with numbers without a bound and    *)
(* with those of an instance.                                              *)
LEMMA StepIsAtomic ==
  ASSUME CallInv, CallInv', RecoveryInv, NameInv, Outside = {}, [Next]_vars
  PROVE  /\ AllMaps!Next \/ UNCHANGED PublishedNames
         /\ NumbersFit' => Maps!Next \/ UNCHANGED PublishedNames
<1>1. PICK n : n = [k \in Kinds |-> NamesOf(k)]
  OBVIOUS
<1>2. PICK m : m = [k \in Kinds |-> NamesOf(k)']
  OBVIOUS
<1>3. n = PublishedNames
  BY <1>1 DEF NamesOf, PublishedNames
<1>4. m = PublishedNames'
  BY <1>2 DEF NamesOf, PublishedNames, Kinds
<1>5. \A k \in Kinds : \A x \in m[k] : x[1] \in Nat
  <2>1. \A k \in Kinds : \A e \in Entries(k)' : e.guest \in Nat
    <3>1. word'.bank \in {0, 1} /\ bank' \in [{0, 1} -> [Kinds -> [Slots -> AnyEntry]]]
      BY DEF CallInv, StorageTypes, Words
    <3>. QED BY <3>1 DEF Entries, Live, Active, AnyEntry, Numbers
  <2>. QED BY <1>2, <2>1 DEF NamesOf
<1>6. NumbersFit' => \A k \in Kinds : \A x \in m[k] : x[1] \in Guests
  BY <1>2 DEF NumbersFit, NamesOf, Guests
<1>7. ASSUME NEW G, \A k \in Kinds : \A x \in m[k] : x[1] \in G
      PROVE  m = n \/ Joins(G, n, m) \/ Publishes(G, n, m) \/ Enters(G, n, m) \/ Leads(G, n, m) \/ Retires(n, m)
  BY <1>1, <1>2, <1>7, AtomicStep
<1>8. m = n \/ Joins(Nat, n, m) \/ Publishes(Nat, n, m) \/ Enters(Nat, n, m) \/ Leads(Nat, n, m) \/ Retires(n, m)
  BY <1>5, <1>7
<1>9. NumbersFit' => m = n \/ Joins(Guests, n, m) \/ Publishes(Guests, n, m) \/ Enters(Guests, n, m)
                           \/ Leads(Guests, n, m) \/ Retires(n, m)
  BY <1>6, <1>7
<1>10. AllMaps!Next \/ m = n
  <2>1. ASSUME Joins(Nat, n, m) PROVE AllMaps!Join
    <3>1. PICK a \in Nat \X Hosts, b \in Nat \X Hosts, c \in Nat \X Hosts :
            /\ OpenIn(n, "pid", a) /\ OpenIn(n, "pgid", b) /\ OpenIn(n, "sid", c)
            /\ m = [n EXCEPT !["pid"] = @ \union {a}, !["pgid"] = @ \union {b}, !["sid"] = @ \union {c}]
      BY <2>1 DEF Joins, NamedPairs
    <3>2. a \in AllMaps!Pairs /\ b \in AllMaps!Pairs /\ c \in AllMaps!Pairs
      BY DEF AllMaps!Pairs
    <3>3. \E p, g, s \in AllMaps!Pairs :
            /\ AllMaps!Open("pid", p) /\ AllMaps!Open("pgid", g) /\ AllMaps!Open("sid", s)
            /\ PublishedNames' = [PublishedNames EXCEPT !["pid"] = @ \union {p}, !["pgid"] = @ \union {g},
                                                        !["sid"] = @ \union {s}]
      <4>. USE <3>2
      <4>. WITNESS a \in AllMaps!Pairs, b \in AllMaps!Pairs, c \in AllMaps!Pairs
      <4>. QED BY <1>3, <1>4, <3>1 DEF AllMaps!Open, OpenIn
    <3>. QED BY <3>3 DEF AllMaps!Join
  <2>2. Publishes(Nat, n, m) => AllMaps!Publish
    BY <1>3, <1>4 DEF AllMaps!Publish, AllMaps!Open, AllMaps!Pairs, Publishes, OpenIn, NamedPairs
  <2>3. Enters(Nat, n, m) => AllMaps!EnterGroup
    BY <1>3, <1>4 DEF AllMaps!EnterGroup, AllMaps!Open, AllMaps!Pairs, Enters, OpenIn, NamedPairs
  <2>4. Leads(Nat, n, m) => AllMaps!LeadSession
    BY <1>3, <1>4 DEF AllMaps!LeadSession, AllMaps!Open, AllMaps!Pairs, Leads, OpenIn, NamedPairs
  <2>5. Retires(n, m) => AllMaps!Retire
    BY <1>3, <1>4 DEF AllMaps!Retire, AllMaps!Open, AllMaps!Pairs, Retires, OpenIn, NamedPairs
  <2>. QED BY <1>3, <1>4, <1>8, <2>1, <2>2, <2>3, <2>4, <2>5 DEF AllMaps!Next
<1>11. NumbersFit' => Maps!Next \/ m = n
  <2>1. ASSUME Joins(Guests, n, m) PROVE Maps!Join
    <3>1. PICK a \in Guests \X Hosts, b \in Guests \X Hosts, c \in Guests \X Hosts :
            /\ OpenIn(n, "pid", a) /\ OpenIn(n, "pgid", b) /\ OpenIn(n, "sid", c)
            /\ m = [n EXCEPT !["pid"] = @ \union {a}, !["pgid"] = @ \union {b}, !["sid"] = @ \union {c}]
      BY <2>1 DEF Joins, NamedPairs
    <3>2. a \in Maps!Pairs /\ b \in Maps!Pairs /\ c \in Maps!Pairs
      BY DEF Maps!Pairs
    <3>3. \E p, g, s \in Maps!Pairs :
            /\ Maps!Open("pid", p) /\ Maps!Open("pgid", g) /\ Maps!Open("sid", s)
            /\ PublishedNames' = [PublishedNames EXCEPT !["pid"] = @ \union {p}, !["pgid"] = @ \union {g},
                                                        !["sid"] = @ \union {s}]
      <4>. USE <3>2
      <4>. WITNESS a \in Maps!Pairs, b \in Maps!Pairs, c \in Maps!Pairs
      <4>. QED BY <1>3, <1>4, <3>1 DEF Maps!Open, OpenIn
    <3>. QED BY <3>3 DEF Maps!Join
  <2>2. Publishes(Guests, n, m) => Maps!Publish
    BY <1>3, <1>4 DEF Maps!Publish, Maps!Open, Maps!Pairs, Publishes, OpenIn, NamedPairs
  <2>3. Enters(Guests, n, m) => Maps!EnterGroup
    BY <1>3, <1>4 DEF Maps!EnterGroup, Maps!Open, Maps!Pairs, Enters, OpenIn, NamedPairs
  <2>4. Leads(Guests, n, m) => Maps!LeadSession
    BY <1>3, <1>4 DEF Maps!LeadSession, Maps!Open, Maps!Pairs, Leads, OpenIn, NamedPairs
  <2>5. Retires(n, m) => Maps!Retire
    BY <1>3, <1>4 DEF Maps!Retire, Maps!Open, Maps!Pairs, Retires, OpenIn, NamedPairs
  <2>. QED BY <1>3, <1>4, <1>9, <2>1, <2>2, <2>3, <2>4, <2>5 DEF Maps!Next
<1>. QED BY <1>3, <1>4, <1>10, <1>11

(* The initial states map to the initial state.                            *)
LEMMA FirstIsAtomic == Init => AllMaps!Init /\ Maps!Init
<1>. SUFFICES ASSUME Init PROVE AllMaps!Init /\ Maps!Init
  OBVIOUS
<1>1. PublishedNames = [k \in Kinds |-> {}]
  BY FirstMaps DEF NamesOf, PublishedNames
<1>. QED BY <1>1 DEF AllMaps!Init, Maps!Init, AllMaps!Kinds, Maps!Kinds, Kinds

(* Every step of every process is one step of the abstract maps or none: a *)
(* client sees a launch with its three identities, a new session with its  *)
(* two, the end of a process with the groups it frees, or nothing of them, *)
(* and a number that names something is not given to something else. No    *)
(* groups from outside, as the pair of launches into one shows.            *)
THEOREM TransactionsAreWhole ==
  Outside = {} => (Spec /\ [][FreshIds]_vars => AllMaps!Spec)
<1>. SUFFICES ASSUME Outside = {} PROVE Spec /\ [][FreshIds]_vars => AllMaps!Spec
  OBVIOUS
<1>1. CallInv /\ CallInv' /\ RecoveryInv /\ NameInv /\ [Next]_vars
        => [AllMaps!Next]_PublishedNames
  BY StepIsAtomic
<1>. QED BY <1>1, FirstIsAtomic, RecoveryInvariance, NamesInvariance, PTL DEF Spec, AllMaps!Spec

(* The same for the abstract maps of a bounded instance, as the runs check *)
(* them: for the behaviours whose published numbers are within the bound.  *)
THEOREM TransactionsAreAtomic ==
  Outside = {} => (Spec /\ [][FreshIds]_vars /\ []NumbersFit => Atomic)
<1>. SUFFICES ASSUME Outside = {} PROVE Spec /\ [][FreshIds]_vars /\ []NumbersFit => Atomic
  OBVIOUS
<1>1. CallInv /\ CallInv' /\ RecoveryInv /\ NameInv /\ NumbersFit' /\ [Next]_vars
        => [Maps!Next]_PublishedNames
  BY StepIsAtomic
<1>. QED BY <1>1, FirstIsAtomic, RecoveryInvariance, NamesInvariance, PTL DEF Spec, Atomic, Maps!Spec
=============================================================================
