----------------------------- MODULE SysvProofs -----------------------------
(***************************************************************************)
(* Shared memory, semaphores and message queues of the SysV emulation, for *)
(* every number of processes, slots, attachments and cells and every mix   *)
(* of calls, forks, exits and kills: a removed segment is reclaimed with   *)
(* its last holder, a live id maps its own segment, no waiter goes         *)
(* uncounted, SEM_UNDO takes back what was done, a message store loses no  *)
(* cell and delivers in order, and a queue's counters describe its store.  *)
(*                                                                         *)
(* A call drops the lock between its parts and remembers slot and sequence *)
(* number.  The arguments rest on what may become of a slot meanwhile      *)
(* (Evolves): a remembered number never becomes the number of a later      *)
(* entry, because it was passed when the slot was freed (Older).           *)
(***************************************************************************)
EXTENDS SysvIpc, FiniteSetTheorems, SequenceTheorems, WellFoundedInduction, TLAPS

(***************************************************************************)
(* Shared memory: the invariant.                                           *)
(***************************************************************************)

(* A number handed out for an entry: of the segment in it, or of an        *)
(* earlier one.                                                            *)
Older(e, seq) == seq <= e.seq /\ (~e.inuse => seq < e.seq)

(* Entries: the sequence bound, the count of a free slot, of a removed     *)
(* segment, and the name.                                                  *)
Entries ==
  \A i \in ShmSlots :
    /\ shm[i].inuse => shm[i].seq <= MaxSeq
    /\ ~shm[i].inuse => shm[i].nattch = 0
    /\ shm[i].inuse /\ shm[i].removed => shm[i].nattch > 0
    /\ shm[i].inuse => shmName[i] \in {NoObject, shm[i].object}

(* Calls that have dropped the lock.                                       *)
Calls ==
  \A p \in Procs :
    /\ shmCall[p].step \in {"open", "count", "uncount"} => shmCall[p].idx \in ShmSlots
    /\ shmCall[p].step = "open" => Older(shm[shmCall[p].idx], shmCall[p].seq)
    /\ shmCall[p].step = "count" =>
         \E a \in Positions : shmat[p][a].used /\ shmat[p][a].idx = shmCall[p].idx
    /\ proc[p] = "absent" =>
         shmCall[p].step = "idle" /\ \A a \in Positions : ~shmat[p][a].used

(* An attachment: of the segment in its slot, or of an earlier one.        *)
Sound(m, table) ==
  m.used => /\ m.idx \in ShmSlots
            /\ Older(table[m.idx], m.seq)
            /\ table[m.idx].inuse /\ table[m.idx].seq = m.seq
                 => m.object = table[m.idx].object
Attachments == \A p \in Procs, a \in Positions : Sound(shmat[p][a], shm)

(* What the count of a slot may still hold: the attachments of every       *)
(* process but a child that has yet to count its own, those whose detach   *)
(* is under way and those of killed processes, less the ones that shmat    *)
(* has mapped and not counted.                                             *)
Tracked(i) ==
  {h \in Procs \X Positions : /\ shmat[h[1]][h[2]].used /\ shmat[h[1]][h[2]].idx = i
                              /\ shmCall[h[1]].step # "fork"}
Counting(i) == {p \in Procs : shmCall[p].step = "count" /\ shmCall[p].idx = i}
Leaving(i) == {p \in Procs : shmCall[p].step = "uncount" /\ shmCall[p].idx = i}
Balanced(i) ==
  shm[i].nattch + Cardinality(Counting(i))
    <= Cardinality(Tracked(i)) + Cardinality(Leaving(i)) + shmLost[i]
Counts == \A i \in ShmSlots : Balanced(i)

Shape == ShmTypeOK /\ Entries /\ Calls /\ Attachments
ShmInv == Shape /\ Counts

(***************************************************************************)
(* Semaphores: the invariant.                                              *)
(***************************************************************************)

(* An entry as far as waiting is concerned; the other fields are left open. *)
SemEntry(e) ==
  e \in [inuse : BOOLEAN, key : {e.key}, seq : Nat, uid : {e.uid}, cuid : {e.cuid},
         shared : {e.shared}, val : {e.val}, ncnt : [Nums -> Nat], zcnt : [Nums -> Nat]]
SemTypes ==
  /\ sem \in [SemSlots -> {sem[i] : i \in SemSlots}]
  /\ \A i \in SemSlots : SemEntry(sem[i])
  /\ semCall \in [Procs -> [step : {"idle", "wait"}, idx : SemSlots \cup {0}, seq : Nat,
                            ops : OpLists \cup {<<>>}]]

(* A waiter remembers a set that is or was in its slot.                    *)
Waiters ==
  \A p \in Procs :
    semCall[p].step = "wait" =>
      /\ semCall[p].idx \in SemSlots /\ semCall[p].ops \in OpLists
      /\ semCall[p].seq <= sem[semCall[p].idx].seq
      /\ ~sem[semCall[p].idx].inuse => semCall[p].seq < sem[semCall[p].idx].seq

(* The two kinds of waiting operations, and the field that counts each.    *)
Kinds == {"falling", "zero"}
Sel(kind, ops, n) ==
  IF kind = "falling" THEN {k \in On(ops, n) : ops[k].op < 0}
  ELSE {k \in On(ops, n) : ops[k].op = 0}
Mark(kind, e) == IF kind = "falling" THEN e.ncnt ELSE e.zcnt

(* Operations of several calls, told apart by the caller.                  *)
Stack(W, R) == UNION {{p} \X R[p] : p \in W}
Here(i) == {p \in Procs : WaitsIn(p, i)}
Chosen(kind, n) == [p \in Procs |-> Sel(kind, semCall[p].ops, n)]
Covered(kind, i, n) ==
  Mark(kind, sem[i])[n] >= Cardinality(Stack(Here(i), Chosen(kind, n)))

SemInv ==
  /\ SemTypes /\ Waiters
  /\ \A kind \in Kinds, i \in SemSlots, n \in Nums : Covered(kind, i, n)

(***************************************************************************)
(* What may become of a slot in one step: it keeps its segment, which may  *)
(* lose its name; its segment is freed; or a segment is made in it.        *)
(***************************************************************************)
Evolves(i) ==
  \/ /\ shm'[i].inuse = shm[i].inuse /\ shm'[i].seq = shm[i].seq
     /\ shm'[i].object = shm[i].object
  \/ shm[i].inuse /\ ~shm'[i].inuse /\ shm'[i].seq = shm[i].seq + 1
  \/ ~shm[i].inuse /\ shm'[i].inuse /\ shm'[i].seq = shm[i].seq

(* A remembered number stays a number of the segment or of an earlier one. *)
LEMMA OlderKept ==
  ASSUME ShmTypeOK, ShmTypeOK', NEW i \in ShmSlots, NEW seq \in Nat,
         Evolves(i), Older(shm[i], seq)
  PROVE  Older(shm'[i], seq)
<1>1. shm[i].seq \in Nat /\ shm'[i].seq \in Nat
  BY SysvAssumption DEF ShmTypeOK, Seqs
<1>2. QED
  BY <1>1 DEF Evolves, Older

LEMMA SoundKept ==
  ASSUME ShmTypeOK, ShmTypeOK', \A i \in ShmSlots : Evolves(i),
         NEW m, m.seq \in Nat, Sound(m, shm)
  PROVE  Sound(m, shm')
<1> SUFFICES ASSUME m.used
             PROVE  /\ m.idx \in ShmSlots
                    /\ Older(shm'[m.idx], m.seq)
                    /\ shm'[m.idx].inuse /\ shm'[m.idx].seq = m.seq
                         => m.object = shm'[m.idx].object
  BY DEF Sound
<1>1. m.idx \in ShmSlots /\ Older(shm[m.idx], m.seq) /\ Evolves(m.idx)
  BY DEF Sound
<1>2. Older(shm'[m.idx], m.seq)
  BY <1>1, OlderKept
<1>3. shm[m.idx].seq \in Nat
  BY <1>1, SysvAssumption DEF ShmTypeOK, Seqs
<1>4. ASSUME shm'[m.idx].inuse, shm'[m.idx].seq = m.seq
      PROVE  m.object = shm'[m.idx].object
  BY <1>1, <1>3, <1>4 DEF Evolves, Older, Sound
<1>5. QED
  BY <1>1, <1>2, <1>4

(* Attachments that were there before, of whichever process.               *)
LEMMA AttachmentsKept ==
  ASSUME ShmTypeOK, ShmTypeOK', Attachments, \A i \in ShmSlots : Evolves(i),
         \A p \in Procs, a \in Positions : shmat'[p][a].used =>
           \E q \in Procs, b \in Positions : shmat'[p][a] = shmat[q][b]
  PROVE  Attachments'
<1> SUFFICES ASSUME NEW p \in Procs, NEW a \in Positions, shmat'[p][a].used
             PROVE  Sound(shmat'[p][a], shm')
  BY DEF Attachments, Sound
<1>1. PICK q \in Procs, b \in Positions : shmat'[p][a] = shmat[q][b]
  OBVIOUS
<1>2. shmat[q][b].seq \in Nat /\ Sound(shmat[q][b], shm)
  BY SysvAssumption DEF Attachments, ShmTypeOK, Seqs
<1>3. QED
  BY <1>1, <1>2, SoundKept

(* Calls that go on, end, or begin as they may.                            *)
Begins(p) ==
  \/ shmCall'[p].step \in {"idle", "fork"}
  \/ shmCall'[p].step = "uncount" /\ shmCall'[p].idx \in ShmSlots
  \/ /\ shmCall'[p].step = "open" /\ shmCall'[p].idx \in ShmSlots
     /\ Older(shm'[shmCall'[p].idx], shmCall'[p].seq)
  \/ /\ shmCall'[p].step = "count" /\ shmCall'[p].idx \in ShmSlots
     /\ \E a \in Positions : shmat'[p][a].used /\ shmat'[p][a].idx = shmCall'[p].idx

LEMMA CallsKept ==
  ASSUME ShmTypeOK, ShmTypeOK', Calls, \A i \in ShmSlots : Evolves(i),
         \A p \in Procs : (shmCall'[p] = shmCall[p] /\ shmat'[p] = shmat[p]) \/ Begins(p),
         \A p \in Procs : proc'[p] = "absent" =>
           proc[p] = "absent" /\ shmCall'[p] = shmCall[p] /\ shmat'[p] = shmat[p]
  PROVE  Calls'
<1> SUFFICES ASSUME NEW p \in Procs
             PROVE  /\ shmCall'[p].step \in {"open", "count", "uncount"}
                         => shmCall'[p].idx \in ShmSlots
                    /\ shmCall'[p].step = "open"
                         => Older(shm'[shmCall'[p].idx], shmCall'[p].seq)
                    /\ shmCall'[p].step = "count" =>
                         \E a \in Positions : /\ shmat'[p][a].used
                                              /\ shmat'[p][a].idx = shmCall'[p].idx
                    /\ proc'[p] = "absent" =>
                         shmCall'[p].step = "idle" /\ \A a \in Positions : ~shmat'[p][a].used
  BY DEF Calls
<1>1. CASE shmCall'[p] = shmCall[p] /\ shmat'[p] = shmat[p]
  <2>1. shmCall[p].seq \in Nat
    BY SysvAssumption DEF ShmTypeOK, Seqs
  <2>2. shmCall[p].step = "open" => Older(shm'[shmCall[p].idx], shmCall[p].seq)
    BY <2>1, OlderKept DEF Calls
  <2>3. QED
    BY <1>1, <2>2 DEF Calls
<1>2. CASE Begins(p)
  BY <1>2 DEF Begins, Calls
<1>3. QED
  BY <1>1, <1>2

(***************************************************************************)
(* Counting.                                                               *)
(***************************************************************************)
LEMMA FiniteParts ==
  /\ \A S \in SUBSET Procs : IsFiniteSet(S) /\ Cardinality(S) \in Nat
  /\ \A S \in SUBSET Positions : IsFiniteSet(S) /\ Cardinality(S) \in Nat
  /\ \A S \in SUBSET (Procs \X Positions) : IsFiniteSet(S) /\ Cardinality(S) \in Nat
<1>1. IsFiniteSet(Procs) /\ IsFiniteSet(Positions)
  BY SysvAssumption, ShmAssumption, FS_Interval DEF Positions
<1>2. IsFiniteSet(Procs \X Positions)
  BY <1>1, FS_Product
<1>3. QED
  BY <1>1, <1>2, FS_Subset, FS_CardinalityType

(* One position for each process: no more processes than positions.        *)
LEMMA OneEach ==
  ASSUME NEW C \in SUBSET Procs, NEW T \in SUBSET (Procs \X Positions),
         \A p \in C : \E a \in Positions : <<p, a>> \in T
  PROVE  Cardinality(C) <= Cardinality(T)
<1> DEFINE f == [p \in C |-> <<p, CHOOSE a \in Positions : <<p, a>> \in T>>]
<1>1. \A p \in C : f[p] \in T /\ f[p][1] = p
  OBVIOUS
<1>2. f \in Injection(C, T)
  <2>1. f \in [C -> T]
    BY <1>1
  <2>2. \A p, q \in C : f[p] = f[q] => p = q
    BY <1>1
  <2>3. QED
    BY <2>1, <2>2 DEF Injection, IsInjective
<1>3. QED
  BY <1>2, FS_Injection, FiniteParts

(* A slot nobody is counted in, whoever is about to be.                    *)
LEMMA NothingCounted ==
  ASSUME ShmTypeOK', Calls', NEW i \in ShmSlots, shm'[i].nattch = 0
  PROVE  Balanced(i)'
<1>1. Cardinality(Counting(i)') <= Cardinality(Tracked(i)')
  <2>1. Counting(i)' \in SUBSET Procs /\ Tracked(i)' \in SUBSET (Procs \X Positions)
    BY DEF Counting, Tracked
  <2>2. \A p \in Counting(i)' : \E a \in Positions : <<p, a>> \in Tracked(i)'
    BY DEF Calls, Counting, Tracked
  <2>3. QED
    BY <2>1, <2>2, OneEach
<1>2. /\ Cardinality(Counting(i)') \in Nat /\ Cardinality(Leaving(i)') \in Nat
      /\ Cardinality(Tracked(i)') \in Nat /\ shmLost'[i] \in Nat
  BY FiniteParts DEF ShmTypeOK, Counting, Leaving, Tracked
<1>3. QED
  BY <1>1, <1>2 DEF Balanced

(* The attachments of one process are as many pairs.                       *)
LEMMA OneRow ==
  ASSUME NEW p \in Procs, NEW A \in SUBSET Positions
  PROVE  /\ {p} \X A \in SUBSET (Procs \X Positions)
         /\ Cardinality({p} \X A) = Cardinality(A)
<1>1. {p} \X A \in SUBSET (Procs \X Positions)
  OBVIOUS
<1>2. Cardinality({p} \X A) = 1 * Cardinality(A)
  <2>1. IsFiniteSet({p}) /\ Cardinality({p}) = 1
    BY FS_Singleton
  <2>2. IsFiniteSet(A)
    BY FiniteParts
  <2>3. QED
    BY <2>1, <2>2, FS_Product
<1>3. QED
  BY <1>1, <1>2, FiniteParts

(* Disjoint parts add up.                                                  *)
LEMMA Parts ==
  ASSUME NEW S \in SUBSET (Procs \X Positions), NEW T \in SUBSET (Procs \X Positions),
         S \cap T = {}
  PROVE  Cardinality(S \cup T) = Cardinality(S) + Cardinality(T)
<1>1. Cardinality(S \cup T) = Cardinality(S) + Cardinality(T) - Cardinality(S \cap T)
  BY FS_Union, FiniteParts
<1>2. Cardinality(S \cap T) = 0
  BY FS_EmptySet
<1>3. QED
  BY <1>1, <1>2, FiniteParts

(***************************************************************************)
(* The steps of shared memory.                                             *)
(***************************************************************************)

(* The parts of a count that is not touched.                               *)
LEMMA Untouched ==
  ASSUME ShmTypeOK, ShmTypeOK', NEW i \in ShmSlots, Balanced(i),
         shm'[i].nattch = shm[i].nattch, shmLost'[i] = shmLost[i],
         Counting(i)' = Counting(i), Tracked(i)' = Tracked(i), Leaving(i)' = Leaving(i)
  PROVE  Balanced(i)'
  BY DEF Balanced

ShmEntry ==
  [inuse : BOOLEAN, removed : BOOLEAN, key : Keys \cup {Private}, seq : Seqs, uid : Nat,
   cuid : Nat, shared : BOOLEAN, nattch : Nat, object : Nat]

LEMMA FreedEntry ==
  ASSUME NEW seq \in Seqs
  PROVE  /\ FreeShm(seq) \in ShmEntry
         /\ ~FreeShm(seq).inuse /\ FreeShm(seq).nattch = 0 /\ FreeShm(seq).seq = seq
  BY DEF FreeShm, ShmEntry, NoObject

LEMMA ChangedEntry ==
  ASSUME NEW e \in ShmEntry, NEW b \in BOOLEAN, NEW key \in Keys \cup {Private},
         NEW n \in Nat
  PROVE  /\ [e EXCEPT !.removed = b, !.key = key] \in ShmEntry
         /\ [e EXCEPT !.nattch = n] \in ShmEntry
         /\ [e EXCEPT !.object = n] \in ShmEntry
  BY DEF ShmEntry

LEMMA PermEntry ==
  ASSUME NEW e \in ShmEntry, NEW uid \in Nat, NEW b \in BOOLEAN
  PROVE  LET d == WithPerm(e, uid, b) IN
         /\ d \in ShmEntry /\ d.inuse = e.inuse /\ d.removed = e.removed
         /\ d.seq = e.seq /\ d.object = e.object /\ d.nattch = e.nattch
  BY DEF ShmEntry, WithPerm

LEMMA RemovedEntry ==
  ASSUME NEW e \in ShmEntry
  PROVE  [e EXCEPT !.removed = TRUE, !.key = Private] \in ShmEntry
<1>1. PICK b \in BOOLEAN : b = TRUE
  OBVIOUS
<1>2. [e EXCEPT !.removed = b, !.key = Private] \in ShmEntry
  BY ChangedEntry
<1>3. QED
  BY <1>1, <1>2, Zenon

LEMMA CreatedEntry ==
  ASSUME NEW e \in ShmEntry, NEW p \in Procs, NEW key \in Keys, NEW shared \in BOOLEAN
  PROVE  /\ Created(e, p, key, shared) \in ShmEntry
         /\ Created(e, p, key, shared).inuse
         /\ Created(e, p, key, shared).removed = e.removed
         /\ Created(e, p, key, shared).seq = e.seq
         /\ Created(e, p, key, shared).nattch = e.nattch
<1>0. PICK b \in BOOLEAN : b = TRUE
  OBVIOUS
<1>1. Created(e, p, key, shared) =
        [e EXCEPT !.inuse = b, !.key = key, !.uid = Uid[p], !.cuid = Uid[p],
                  !.shared = shared]
  BY <1>0, Zenon DEF Created
<1>2. Uid[p] \in Nat
  BY SysvAssumption
<1>3. QED
  BY <1>0, <1>1, <1>2 DEF ShmEntry

LEMMA ShmStutters ==
  ASSUME ShmInv, UNCHANGED shmVars,
         \A p \in Procs : proc'[p] = "absent" => proc[p] = "absent"
  PROVE  ShmInv'
<1>1. ShmTypeOK' /\ Entries' /\ Attachments'
  BY DEF ShmInv, Shape, shmVars, ShmTypeOK, Entries, Attachments
<1>2. Calls'
  BY DEF ShmInv, Shape, shmVars, Calls
<1>3. Counts'
  BY DEF ShmInv, shmVars, Counts, Balanced, Counting, Tracked, Leaving
<1>4. QED
  BY <1>1, <1>2, <1>3 DEF ShmInv, Shape

LEMMA ShmgetKeeps ==
  ASSUME ShmInv, NEW p \in Procs, NEW i \in ShmSlots, Shmget(p, i), proc' = proc
  PROVE  ShmInv'
<1> USE DEF ShmInv, Shape
<1>1. PICK e \in ShmEntry :
        /\ shm' = [shm EXCEPT ![i] = e]
        /\ e.inuse /\ ~e.removed /\ e.seq = shm[i].seq /\ e.nattch = 0
        /\ e.object = shmMade[i] + 1
  <2>1. PICK key \in Keys, shared \in Modes :
          shm' = [shm EXCEPT ![i] = [Created(FreeShm(shm[i].seq), p, key, shared)
                                       EXCEPT !.object = shmMade[i] + 1]]
    BY DEF Shmget
  <2> DEFINE e == [Created(FreeShm(shm[i].seq), p, key, shared)
                     EXCEPT !.object = shmMade[i] + 1]
  <2>2. shm[i].seq \in Seqs /\ shmMade[i] \in Nat /\ Uid[p] \in Nat /\ shared \in BOOLEAN
    BY SysvAssumption DEF ShmTypeOK
  <2>3. /\ e \in ShmEntry
        /\ e.inuse /\ ~e.removed /\ e.seq = shm[i].seq /\ e.nattch = 0
        /\ e.object = shmMade[i] + 1
    <3>1. FreeShm(shm[i].seq) \in ShmEntry /\ ~FreeShm(shm[i].seq).removed
      BY <2>2, FreedEntry DEF FreeShm
    <3> DEFINE c == Created(FreeShm(shm[i].seq), p, key, shared)
    <3>2. /\ c \in ShmEntry /\ c.inuse /\ ~c.removed /\ c.seq = shm[i].seq
          /\ c.nattch = 0
      <4>1. FreeShm(shm[i].seq).seq = shm[i].seq /\ FreeShm(shm[i].seq).nattch = 0
        BY <2>2, FreedEntry
      <4> DEFINE f == FreeShm(shm[i].seq)
      <4>2. f \in ShmEntry /\ shared \in BOOLEAN
        BY <2>2, <3>1
      <4> HIDE DEF f
      <4>3. LET d == Created(f, p, key, shared) IN
            d \in ShmEntry /\ d.inuse /\ d.removed = f.removed /\ d.seq = f.seq
              /\ d.nattch = f.nattch
        BY <4>2, CreatedEntry
      <4>4. QED
        BY <3>1, <4>1, <4>3 DEF f
    <3> HIDE DEF c
    <3>3. [c EXCEPT !.object = shmMade[i] + 1] \in ShmEntry
      BY <2>2, <3>2 DEF ShmEntry
    <3>4. QED
      BY <2>2, <3>2, <3>3 DEF c, ShmEntry
  <2>4. QED
    BY <2>1, <2>3
<1>2. shm[i].seq \in Seqs /\ ~shm[i].inuse /\ shm[i].seq <= MaxSeq
  BY DEF Shmget, FirstFree, ShmTypeOK
<1>3. /\ shmMade' = [shmMade EXCEPT ![i] = @ + 1]
      /\ shmName' = [shmName EXCEPT ![i] = shmMade[i] + 1]
      /\ shmat' = shmat /\ shmCall' = shmCall /\ shmLost' = shmLost
  BY DEF Shmget
<1>4. ShmTypeOK'
  BY <1>1, <1>2, <1>3, SysvAssumption DEF ShmTypeOK, ShmEntry
<1>5. \A j \in ShmSlots : Evolves(j)
  BY <1>1, <1>2, <1>3 DEF Evolves, ShmTypeOK
<1>6. Entries'
  BY <1>1, <1>2, <1>3 DEF Entries, ShmTypeOK
<1>7. Attachments'
  BY <1>3, <1>4, <1>5, AttachmentsKept
<1>8. Calls'
  BY <1>3, <1>4, <1>5, CallsKept
<1>9. ASSUME NEW j \in ShmSlots PROVE Balanced(j)'
  <2>1. CASE j = i
    BY <1>1, <1>4, <1>8, <2>1, NothingCounted DEF ShmTypeOK
  <2>2. CASE j # i
    BY <1>1, <1>3, <2>2 DEF Counts, Balanced, Counting, Tracked, Leaving, ShmTypeOK
  <2>3. QED
    BY <2>1, <2>2
<1>10. QED
  BY <1>4, <1>6, <1>7, <1>8, <1>9 DEF Counts

LEMMA ShmatLookupKeeps ==
  ASSUME ShmInv, NEW p \in Procs, NEW i \in ShmSlots, ShmatLookup(p, i),
         shmCall[p].step = "idle", proc' = proc, proc[p] = "live"
  PROVE  ShmInv'
<1> USE DEF ShmInv, Shape
<1>1. /\ shm' = shm /\ shmMade' = shmMade /\ shmName' = shmName /\ shmat' = shmat
      /\ shmLost' = shmLost
      /\ shmCall' = [shmCall EXCEPT ![p] = [step |-> "open", idx |-> i, seq |-> shm[i].seq,
                                            wanted |-> shm[i].object]]
      /\ shm[i].inuse
  BY DEF ShmatLookup, ShmById
<1>2. ShmTypeOK'
  BY <1>1 DEF ShmTypeOK
<1>3. \A j \in ShmSlots : Evolves(j)
  BY <1>1 DEF Evolves
<1>4. Entries'
  BY <1>1 DEF Entries
<1>5. Attachments'
  BY <1>1, <1>2, <1>3, AttachmentsKept
<1>6. Calls'
  <2>1. Begins(p)
    BY <1>1, SysvAssumption DEF Begins, Older, ShmTypeOK, Seqs
  <2>2. \A q \in Procs : q # p => shmCall'[q] = shmCall[q]
    BY <1>1 DEF ShmTypeOK
  <2>3. QED
    BY <1>1, <1>2, <1>3, <2>1, <2>2, CallsKept
<1>7. ASSUME NEW j \in ShmSlots PROVE Balanced(j)'
  <2>1. Counting(j)' = Counting(j) /\ Leaving(j)' = Leaving(j) /\ Tracked(j)' = Tracked(j)
    BY <1>1 DEF Counting, Leaving, Tracked, ShmTypeOK
  <2>2. QED
    BY <1>1, <1>2, <2>1, Untouched DEF Counts
<1>8. QED
  BY <1>2, <1>4, <1>5, <1>6, <1>7 DEF Counts

LEMMA ShmRmidKeeps ==
  ASSUME ShmInv, NEW p \in Procs, NEW i \in ShmSlots, ShmRmid(p, i), proc' = proc
  PROVE  ShmInv'
<1> USE DEF ShmInv, Shape
<1>1. /\ shm' = [shm EXCEPT ![i] = IF shm[i].nattch = 0 THEN FreeShm(shm[i].seq + 1)
                                   ELSE [shm[i] EXCEPT !.removed = TRUE, !.key = Private]]
      /\ shm[i].inuse /\ shm[i].seq \in Nat /\ shm[i].seq <= MaxSeq
  BY SysvAssumption DEF ShmRmid, Freed, ShmById, Entries, ShmTypeOK, Seqs
<1>2. /\ shmName' \in [ShmSlots -> Nat]
      /\ \A j \in ShmSlots : shmName'[j] \in {shmName[j], NoObject}
      /\ shmMade' = shmMade /\ shmat' = shmat /\ shmCall' = shmCall /\ shmLost' = shmLost
  BY DEF ShmRmid, Unlinked, NoObject, ShmTypeOK
<1>3. ShmTypeOK'
  <2>1. shm[i].seq + 1 \in Seqs
    BY <1>1, SysvAssumption DEF Seqs
  <2>2. shm'[i] \in ShmEntry
    <3>1. CASE shm[i].nattch = 0
      BY <1>1, <2>1, <3>1, FreedEntry DEF ShmTypeOK
    <3>2. CASE shm[i].nattch # 0
      <4>1. shm'[i] = [shm[i] EXCEPT !.removed = TRUE, !.key = Private]
        BY <1>1, <3>2 DEF ShmTypeOK
      <4>2. shm[i] \in ShmEntry
        BY DEF ShmTypeOK, ShmEntry
      <4>3. QED
        BY <4>1, <4>2, RemovedEntry
    <3>3. QED
      BY <3>1, <3>2
  <2>3. shm' \in [ShmSlots -> ShmEntry]
    BY <1>1, <2>2 DEF ShmTypeOK, ShmEntry
  <2>4. QED
    BY <1>2, <2>3 DEF ShmTypeOK, ShmEntry
<1>4. \A j \in ShmSlots : Evolves(j)
  BY <1>1, <1>2 DEF Evolves, ShmTypeOK, FreeShm
<1>5. Entries'
  BY <1>1, <1>2 DEF Entries, ShmTypeOK, FreeShm
<1>6. Attachments'
  BY <1>2, <1>3, <1>4, AttachmentsKept
<1>7. Calls'
  BY <1>2, <1>3, <1>4, CallsKept
<1>8. ASSUME NEW j \in ShmSlots PROVE Balanced(j)'
  <2>1. shm'[j].nattch = shm[j].nattch
    BY <1>1 DEF ShmTypeOK, FreeShm
  <2>2. QED
    BY <1>2, <2>1 DEF Counts, Balanced, Counting, Tracked, Leaving
<1>9. QED
  BY <1>3, <1>5, <1>6, <1>7, <1>8 DEF Counts

LEMMA ShmSetKeeps ==
  ASSUME ShmInv, NEW p \in Procs, NEW i \in ShmSlots, ShmSet(p, i), proc' = proc
  PROVE  ShmInv'
<1> USE DEF ShmInv, Shape
<1>1. PICK uid \in Owners, shared \in Modes :
        shm' = [shm EXCEPT ![i] = WithPerm(shm[i], uid, shared)]
  BY DEF ShmSet
<1>2. /\ shmMade' = shmMade /\ shmName' = shmName /\ shmat' = shmat
      /\ shmCall' = shmCall /\ shmLost' = shmLost
  BY DEF ShmSet
<1> DEFINE d == WithPerm(shm[i], uid, shared)
<1>3. /\ d \in ShmEntry /\ d.inuse = shm[i].inuse /\ d.removed = shm[i].removed
      /\ d.seq = shm[i].seq /\ d.object = shm[i].object /\ d.nattch = shm[i].nattch
  <2>1. uid \in Nat /\ shared \in BOOLEAN
    BY SysvAssumption
  <2>2. shm[i] \in ShmEntry
    BY DEF ShmTypeOK, ShmEntry
  <2>3. QED
    BY <2>1, <2>2, PermEntry
<1> HIDE DEF d
<1>4. /\ shm' \in [ShmSlots -> ShmEntry]
      /\ \A j \in ShmSlots :
           /\ shm'[j].inuse = shm[j].inuse /\ shm'[j].removed = shm[j].removed
           /\ shm'[j].seq = shm[j].seq /\ shm'[j].object = shm[j].object
           /\ shm'[j].nattch = shm[j].nattch
  <2>1. shm' = [shm EXCEPT ![i] = d]
    BY <1>1 DEF d
  <2>2. shm' \in [ShmSlots -> ShmEntry]
    BY <1>3, <2>1 DEF ShmTypeOK, ShmEntry
  <2>3. shm'[i] = d /\ \A j \in ShmSlots : j # i => shm'[j] = shm[j]
    BY <2>1 DEF ShmTypeOK
  <2>4. QED
    BY <1>3, <2>2, <2>3
<1>5. ShmTypeOK' /\ (\A j \in ShmSlots : Evolves(j)) /\ Entries'
  <2>1. ShmTypeOK'
    BY <1>2, <1>4 DEF ShmTypeOK, ShmEntry
  <2>2. \A j \in ShmSlots : Evolves(j)
    BY <1>4 DEF Evolves
  <2>3. Entries'
    BY <1>2, <1>4 DEF Entries
  <2>4. QED
    BY <2>1, <2>2, <2>3
<1>6. Attachments'
  BY <1>2, <1>5, AttachmentsKept
<1>7. Calls'
  BY <1>2, <1>5, CallsKept
<1>8. ASSUME NEW j \in ShmSlots PROVE Balanced(j)'
  BY <1>2, <1>4 DEF Counts, Balanced, Counting, Tracked, Leaving
<1>9. QED
  BY <1>5, <1>6, <1>7, <1>8 DEF Counts

(* A call that ends takes its process out of the sets it was in.           *)
LEMMA CallEnds ==
  ASSUME ShmTypeOK, NEW p \in Procs, NEW i \in ShmSlots,
         shmCall' = [shmCall EXCEPT ![p] = ShmIdle], shmat' = shmat,
         shmCall[p].step # "fork"
  PROVE  /\ Counting(i)' = Counting(i) \ {p} /\ Leaving(i)' = Leaving(i) \ {p}
         /\ Tracked(i)' = Tracked(i)
         /\ Begins(p) /\ \A q \in Procs : q # p => shmCall'[q] = shmCall[q]
<1>1. shmCall'[p].step = "idle" /\ \A q \in Procs : q # p => shmCall'[q] = shmCall[q]
  BY DEF ShmTypeOK, ShmIdle
<1>2. Counting(i)' = Counting(i) \ {p} /\ Leaving(i)' = Leaving(i) \ {p}
  BY <1>1 DEF Counting, Leaving
<1>3. Tracked(i)' = Tracked(i)
  BY <1>1 DEF Tracked
<1>4. QED
  BY <1>1, <1>2, <1>3 DEF Begins

LEMMA IdleType ==
  ASSUME ShmTypeOK, NEW p \in Procs, shmCall' = [shmCall EXCEPT ![p] = ShmIdle]
  PROVE  shmCall' \in [Procs -> [step : {"idle", "open", "count", "uncount", "fork"},
                                 idx : ShmSlots \cup {0}, seq : Seqs, wanted : Nat]]
<1>1. 0 \in Seqs
  BY SysvAssumption DEF Seqs
<1>2. QED
  BY <1>1 DEF ShmTypeOK, ShmIdle, NoObject

(* The sizes of the sets a count is made of.                               *)
LEMMA PartSizes ==
  ASSUME NEW i \in ShmSlots
  PROVE  /\ IsFiniteSet(Counting(i)) /\ Cardinality(Counting(i)) \in Nat
         /\ IsFiniteSet(Leaving(i)) /\ Cardinality(Leaving(i)) \in Nat
         /\ IsFiniteSet(Tracked(i)) /\ Cardinality(Tracked(i)) \in Nat
<1>1. Counting(i) \in SUBSET Procs /\ Leaving(i) \in SUBSET Procs
  BY DEF Counting, Leaving
<1>2. Tracked(i) \in SUBSET (Procs \X Positions)
  BY DEF Tracked
<1>3. QED
  BY <1>1, <1>2, FiniteParts

(* What a step adds to a count and to its parts, it may not owe to nobody. *)
LEMMA Shifted ==
  ASSUME ShmTypeOK, ShmTypeOK', NEW i \in ShmSlots, Balanced(i),
         NEW n \in Int, NEW c \in Int, NEW t \in Int, NEW l \in Int, NEW k \in Int,
         shm'[i].nattch <= shm[i].nattch + n,
         Cardinality(Counting(i)') <= Cardinality(Counting(i)) + c,
         Cardinality(Tracked(i)') >= Cardinality(Tracked(i)) + t,
         Cardinality(Leaving(i)') >= Cardinality(Leaving(i)) + l,
         shmLost'[i] >= shmLost[i] + k,
         n + c <= t + l + k
  PROVE  Balanced(i)'
<1>1. /\ shm[i].nattch \in Nat /\ shmLost[i] \in Nat
      /\ shm'[i].nattch \in Nat /\ shmLost'[i] \in Nat
  BY DEF ShmTypeOK
<1>2. /\ Cardinality(Counting(i)) \in Nat /\ Cardinality(Leaving(i)) \in Nat
      /\ Cardinality(Tracked(i)) \in Nat
  BY PartSizes
<1>3. /\ Cardinality(Counting(i)') \in Nat /\ Cardinality(Leaving(i)') \in Nat
      /\ Cardinality(Tracked(i)') \in Nat
  <2>1. Counting(i)' \in SUBSET Procs /\ Leaving(i)' \in SUBSET Procs
    BY DEF Counting, Leaving
  <2>2. Tracked(i)' \in SUBSET (Procs \X Positions)
    BY DEF Tracked
  <2>3. QED
    BY <2>1, <2>2, FiniteParts
<1>4. QED
  BY <1>1, <1>2, <1>3 DEF Balanced

LEMMA ShmatMapKeeps ==
  ASSUME ShmInv, NEW p \in Procs, ShmatMap(p), proc' = proc, proc[p] = "live"
  PROVE  ShmInv'
<1> USE DEF ShmInv, Shape
<1> DEFINE i == shmCall[p].idx
<1>1. /\ shm' = shm /\ shmMade' = shmMade /\ shmName' = shmName /\ shmLost' = shmLost
      /\ shmCall[p].step = "open" /\ i \in ShmSlots /\ Older(shm[i], shmCall[p].seq)
  BY DEF ShmatMap, Calls
<1>2. (\A j \in ShmSlots : Evolves(j)) /\ Entries'
  BY <1>1 DEF Evolves, Entries
<1>3. ASSUME NEW a \in Positions, shmName[i] # NoObject, FirstUnused(p, a),
             shmat' = [shmat EXCEPT ![p][a] =
                         [used |-> TRUE, idx |-> i, seq |-> shmCall[p].seq,
                          wanted |-> shmCall[p].wanted, object |-> shmName[i]]],
             shmCall' = [shmCall EXCEPT ![p].step = "count"]
      PROVE  ShmInv'
  <2> DEFINE m == [used |-> TRUE, idx |-> i, seq |-> shmCall[p].seq,
                   wanted |-> shmCall[p].wanted, object |-> shmName[i]]
  <2>1. /\ m \in [used : BOOLEAN, idx : ShmSlots \cup {0}, seq : Seqs, wanted : Nat, object : Nat]
        /\ m.used /\ m.idx = i /\ m.seq = shmCall[p].seq /\ m.object = shmName[i]
    BY <1>1 DEF ShmTypeOK
  <2> HIDE DEF m
  <2>2. shmat' = [shmat EXCEPT ![p][a] = m]
    BY <1>3 DEF m
  <2>3. /\ shmat'[p][a] = m /\ ~shmat[p][a].used
        /\ \A q \in Procs, b \in Positions : q # p \/ b # a => shmat'[q][b] = shmat[q][b]
        /\ \A q \in Procs : q # p => shmat'[q] = shmat[q] /\ shmCall'[q] = shmCall[q]
        /\ shmCall'[p].step = "count" /\ shmCall'[p].idx = i
    BY <1>3, <2>2 DEF ShmTypeOK, FirstUnused
  <2>4. ShmTypeOK'
    <3>1. shmat' \in [Procs -> [Positions -> [used : BOOLEAN, idx : ShmSlots \cup {0},
                                              seq : Seqs, wanted : Nat, object : Nat]]]
      BY <2>1, <2>2 DEF ShmTypeOK
    <3>2. shmCall' \in [Procs -> [step : {"idle", "open", "count", "uncount", "fork"},
                                  idx : ShmSlots \cup {0}, seq : Seqs, wanted : Nat]]
      BY <1>3 DEF ShmTypeOK
    <3>3. QED
      BY <1>1, <3>1, <3>2 DEF ShmTypeOK
  <2>5. Attachments'
    <3>1. Sound(m, shm)
      BY <1>1, <1>3, <2>1 DEF Sound, Entries
    <3>2. QED
      BY <1>1, <2>3, <3>1 DEF Attachments
  <2>6. Calls'
    <3>1. Begins(p)
      BY <1>1, <2>1, <2>3 DEF Begins
    <3>2. QED
      BY <1>2, <2>3, <2>4, <3>1, CallsKept
  <2>7. ASSUME NEW j \in ShmSlots PROVE Balanced(j)'
    <3>1. Leaving(j)' = Leaving(j)
      BY <1>1, <2>3 DEF Leaving
    <3>2. CASE j = i
      <4>1. Counting(j)' = Counting(j) \cup {p} /\ p \notin Counting(j)
        BY <1>1, <2>3, <3>2 DEF Counting
      <4>2. Tracked(j)' = Tracked(j) \cup {<<p, a>>} /\ <<p, a>> \notin Tracked(j)
        BY <1>1, <2>1, <2>3, <3>2 DEF Tracked
      <4>3. IsFiniteSet(Counting(j)) /\ IsFiniteSet(Tracked(j))
        BY PartSizes
      <4>4. Cardinality(Counting(j)') = Cardinality(Counting(j)) + 1
        BY <4>1, <4>3, FS_AddElement
      <4>5. Cardinality(Tracked(j)') = Cardinality(Tracked(j)) + 1
        BY <4>2, <4>3, FS_AddElement
      <4>6. /\ shm'[j].nattch <= shm[j].nattch + 0 /\ shmLost'[j] >= shmLost[j] + 0
            /\ Cardinality(Counting(j)') <= Cardinality(Counting(j)) + 1
            /\ Cardinality(Tracked(j)') >= Cardinality(Tracked(j)) + 1
            /\ Cardinality(Leaving(j)') >= Cardinality(Leaving(j)) + 0
        BY <1>1, <3>1, <4>4, <4>5, PartSizes DEF ShmTypeOK
      <4>7. Balanced(j)
        BY DEF Counts
      <4>8. QED
        BY <2>4, <4>6, <4>7, Shifted
    <3>3. CASE j # i
      <4>1. Counting(j)' = Counting(j)
        BY <1>1, <2>3, <3>3 DEF Counting
      <4>2. Tracked(j)' = Tracked(j)
        BY <1>1, <2>1, <2>3, <3>3 DEF Tracked
      <4>3. QED
        BY <1>1, <3>1, <4>1, <4>2 DEF Counts, Balanced
    <3>4. QED
      BY <3>2, <3>3
  <2>8. QED
    BY <1>2, <2>4, <2>5, <2>6, <2>7 DEF Counts
<1>4. ASSUME shmCall' = [shmCall EXCEPT ![p] = ShmIdle], shmat' = shmat
      PROVE  ShmInv'
  <2>1. ShmTypeOK'
    BY <1>1, <1>4, IdleType DEF ShmTypeOK
  <2>2. Attachments'
    BY <1>2, <1>4, <2>1, AttachmentsKept
  <2>3. Calls'
    BY <1>1, <1>2, <1>4, <2>1, CallEnds, CallsKept
  <2>4. ASSUME NEW j \in ShmSlots PROVE Balanced(j)'
    <3>1. /\ Counting(j)' = Counting(j) \ {p} /\ Leaving(j)' = Leaving(j) \ {p}
          /\ Tracked(j)' = Tracked(j)
      BY <1>1, <1>4, CallEnds
    <3>2. p \notin Counting(j) /\ p \notin Leaving(j)
      BY <1>1 DEF Counting, Leaving
    <3>3. Counting(j)' = Counting(j) /\ Leaving(j)' = Leaving(j)
      BY <3>1, <3>2
    <3>4. QED
      BY <1>1, <2>1, <3>1, <3>3, Untouched DEF Counts
  <2>5. QED
    BY <1>2, <2>1, <2>2, <2>3, <2>4 DEF Counts
<1>5. QED
  BY <1>3, <1>4 DEF ShmatMap

LEMMA ShmatCountKeeps ==
  ASSUME ShmInv, NEW p \in Procs, ShmatCount(p), proc' = proc, proc[p] = "live"
  PROVE  ShmInv'
<1> USE DEF ShmInv, Shape
<1> DEFINE i == shmCall[p].idx
<1>1. /\ shmMade' = shmMade /\ shmName' = shmName /\ shmat' = shmat /\ shmLost' = shmLost
      /\ shmCall' = [shmCall EXCEPT ![p] = ShmIdle]
      /\ shmCall[p].step = "count" /\ i \in ShmSlots
  BY DEF ShmatCount, Calls
<1>2. \/ shm' = shm
      \/ shm' = [shm EXCEPT ![i] = [shm[i] EXCEPT !.nattch = shm[i].nattch + 1]] /\ shm[i].inuse
  BY DEF ShmatCount, ShmById
<1>3. shm' \in [ShmSlots -> ShmEntry]
  <2>1. shm[i] \in ShmEntry /\ shm[i].nattch + 1 \in Nat
    BY <1>1 DEF ShmTypeOK, ShmEntry
  <2>2. [shm[i] EXCEPT !.nattch = shm[i].nattch + 1] \in ShmEntry
    BY <2>1 DEF ShmEntry
  <2>3. QED
    BY <1>2, <2>2 DEF ShmTypeOK, ShmEntry
<1>4. ShmTypeOK'
  BY <1>1, <1>3, IdleType DEF ShmTypeOK, ShmEntry
<1>5. \A j \in ShmSlots : /\ shm'[j].inuse = shm[j].inuse /\ shm'[j].removed = shm[j].removed
                          /\ shm'[j].seq = shm[j].seq /\ shm'[j].object = shm[j].object
                          /\ \/ shm'[j].nattch = shm[j].nattch
                             \/ j = i /\ shm[j].inuse /\ shm'[j].nattch = shm[j].nattch + 1
  BY <1>1, <1>2 DEF ShmTypeOK
<1>6. (\A j \in ShmSlots : Evolves(j)) /\ Entries'
  <2>1. \A j \in ShmSlots : Evolves(j)
    BY <1>5 DEF Evolves
  <2>2. Entries'
    BY <1>1, <1>5 DEF Entries, ShmTypeOK
  <2>3. QED
    BY <2>1, <2>2
<1>7. Attachments'
  BY <1>1, <1>4, <1>6, AttachmentsKept
<1>8. Calls'
  BY <1>1, <1>4, <1>6, CallEnds, CallsKept
<1>9. ASSUME NEW j \in ShmSlots PROVE Balanced(j)'
  <2>1. /\ Counting(j)' = Counting(j) \ {p} /\ Leaving(j)' = Leaving(j)
        /\ Tracked(j)' = Tracked(j)
    BY <1>1, CallEnds DEF Leaving
  <2>2. shm[j].nattch \in Nat /\ shmLost[j] \in Nat
    BY DEF ShmTypeOK
  <2>3. CASE j = i
    <3>1. p \in Counting(j)
      BY <1>1, <2>3 DEF Counting
    <3>2. IsFiniteSet(Counting(j))
      BY PartSizes
    <3>3. Cardinality(Counting(j)') = Cardinality(Counting(j)) - 1
      BY <2>1, <3>1, <3>2, FS_RemoveElement
    <3>4. /\ shm'[j].nattch <= shm[j].nattch + 1 /\ shmLost'[j] >= shmLost[j] + 0
          /\ Cardinality(Counting(j)') <= Cardinality(Counting(j)) + (-1)
          /\ Cardinality(Tracked(j)') >= Cardinality(Tracked(j)) + 0
          /\ Cardinality(Leaving(j)') >= Cardinality(Leaving(j)) + 0
      BY <1>1, <1>5, <2>1, <2>2, <3>3, PartSizes
    <3>5. Balanced(j)
      BY DEF Counts
    <3>6. QED
      BY <1>4, <3>4, <3>5, Shifted
  <2>4. CASE j # i
    <3>1. Counting(j)' = Counting(j) /\ shm'[j].nattch = shm[j].nattch
      BY <1>5, <2>1, <2>4 DEF Counting
    <3>2. QED
      BY <1>1, <2>1, <3>1 DEF Counts, Balanced
  <2>5. QED
    BY <2>3, <2>4
<1>10. QED
  BY <1>4, <1>6, <1>7, <1>8, <1>9 DEF Counts

(* What becomes of an entry that loses attachments (Dropped): its count    *)
(* falls or saturates, whichever way it takes.                             *)
EntryOK(e) ==
  /\ e.inuse => e.seq <= MaxSeq
  /\ ~e.inuse => e.nattch = 0
  /\ e.inuse /\ e.removed => e.nattch > 0

LEMMA DroppedEntry ==
  ASSUME NEW e \in ShmEntry, NEW n \in Nat, EntryOK(e)
  PROVE  LET d == Dropped(e, n) IN
         /\ d \in ShmEntry /\ EntryOK(d)
         /\ d.nattch = IF e.nattch < n THEN 0 ELSE e.nattch - n
         /\ \/ d.inuse = e.inuse /\ d.seq = e.seq /\ d.object = e.object
            \/ e.inuse /\ ~d.inuse /\ d.seq = e.seq + 1
<1> DEFINE left == IF e.nattch < n THEN 0 ELSE e.nattch - n
           d == Dropped(e, n)
<1>1. left \in Nat /\ e.nattch \in Nat
  BY DEF ShmEntry
<1>2. CASE ~e.inuse \/ n = 0
  <2>1. d = e
    BY <1>2 DEF Dropped
  <2>2. left = e.nattch
    BY <1>1, <1>2 DEF EntryOK
  <2>3. QED
    BY <2>1, <2>2
<1>3. CASE e.inuse /\ n # 0 /\ e.removed /\ left = 0
  <2>1. d = FreeShm(e.seq + 1)
    BY <1>3 DEF Dropped, Freed
  <2>2. e.seq + 1 \in Seqs
    BY <1>3, SysvAssumption DEF EntryOK, ShmEntry, Seqs
  <2>3. d \in ShmEntry /\ ~d.inuse /\ d.nattch = 0 /\ d.seq = e.seq + 1
    BY <2>1, <2>2, FreedEntry
  <2> HIDE DEF d
  <2>4. QED
    BY <1>3, <2>3 DEF EntryOK, d
<1>4. CASE e.inuse /\ n # 0 /\ ~(e.removed /\ left = 0)
  <2>1. d = [e EXCEPT !.nattch = left]
    BY <1>4 DEF Dropped
  <2> HIDE DEF left
  <2>2. /\ d \in ShmEntry /\ d.nattch = left /\ d.inuse = e.inuse /\ d.seq = e.seq
        /\ d.object = e.object /\ d.removed = e.removed
    BY <1>1, <2>1 DEF ShmEntry
  <2>3. EntryOK(d)
    BY <1>1, <1>4, <2>2 DEF EntryOK
  <2>4. QED
    BY <2>2, <2>3 DEF left
<1>5. QED
  BY <1>2, <1>3, <1>4

(* A step that drops attachments from slots, and at most unlinks names.    *)
LEMMA DropKeeps ==
  ASSUME ShmInv, NEW n \in [ShmSlots -> Nat],
         shm' = [i \in ShmSlots |-> Dropped(shm[i], n[i])],
         shmMade' = shmMade, shmLost' = shmLost, shmName' \in [ShmSlots -> Nat],
         \A i \in ShmSlots : shmName'[i] \in {shmName[i], NoObject}
  PROVE  /\ shm' \in [ShmSlots -> ShmEntry] /\ Entries'
         /\ \A i \in ShmSlots :
              /\ Evolves(i)
              /\ shm'[i].nattch = IF shm[i].nattch < n[i] THEN 0 ELSE shm[i].nattch - n[i]
<1> USE DEF ShmInv, Shape
<1>1. \A i \in ShmSlots : shm[i] \in ShmEntry /\ EntryOK(shm[i])
  BY DEF Entries, EntryOK, ShmTypeOK, ShmEntry
<1>2. \A i \in ShmSlots :
        /\ shm'[i] \in ShmEntry /\ EntryOK(shm'[i])
        /\ shm'[i].nattch = IF shm[i].nattch < n[i] THEN 0 ELSE shm[i].nattch - n[i]
        /\ \/ /\ shm'[i].inuse = shm[i].inuse /\ shm'[i].seq = shm[i].seq
              /\ shm'[i].object = shm[i].object
           \/ shm[i].inuse /\ ~shm'[i].inuse /\ shm'[i].seq = shm[i].seq + 1
  <2> TAKE i \in ShmSlots
  <2>1. shm'[i] = Dropped(shm[i], n[i]) /\ n[i] \in Nat
    OBVIOUS
  <2>2. QED
    BY <1>1, <2>1, DroppedEntry
<1>3. shm' \in [ShmSlots -> ShmEntry]
  BY <1>2
<1>4. \A i \in ShmSlots : Evolves(i)
  BY <1>2 DEF Evolves
<1>5. Entries'
  <2>1. \A i \in ShmSlots : shm'[i].inuse => shmName'[i] \in {NoObject, shm'[i].object}
    BY <1>2 DEF Entries
  <2>2. QED
    BY <1>2, <2>1 DEF Entries, EntryOK
<1>6. QED
  BY <1>2, <1>3, <1>4, <1>5

LEMMA ShmdtUnmapKeeps ==
  ASSUME ShmInv, NEW p \in Procs, NEW a \in Positions, ShmdtUnmap(p, a),
         shmCall[p].step = "idle", proc' = proc, proc[p] = "live"
  PROVE  ShmInv'
<1> USE DEF ShmInv, Shape
<1> DEFINE i == shmat[p][a].idx
<1>1. /\ shm' = shm /\ shmMade' = shmMade /\ shmName' = shmName /\ shmLost' = shmLost
      /\ shmat[p][a].used /\ shmat' = [shmat EXCEPT ![p][a] = Unused]
      /\ shmCall' = [shmCall EXCEPT ![p] = [step |-> "uncount", idx |-> i,
                       seq |-> shmat[p][a].seq, wanted |-> shmat[p][a].wanted]]
  BY DEF ShmdtUnmap
<1>2. i \in ShmSlots
  BY <1>1 DEF Attachments, Sound
<1>3. /\ ~shmat'[p][a].used
      /\ \A q \in Procs, b \in Positions : q # p \/ b # a => shmat'[q][b] = shmat[q][b]
      /\ \A q \in Procs : q # p => shmat'[q] = shmat[q] /\ shmCall'[q] = shmCall[q]
      /\ shmCall'[p].step = "uncount" /\ shmCall'[p].idx = i
  BY <1>1 DEF ShmTypeOK, Unused
<1>4. ShmTypeOK'
  <2>1. Unused \in [used : BOOLEAN, idx : ShmSlots \cup {0}, seq : Seqs,
                     wanted : Nat, object : Nat]
    BY SysvAssumption DEF Unused, Seqs, NoObject
  <2>2. shmat' \in [Procs -> [Positions -> [used : BOOLEAN, idx : ShmSlots \cup {0},
                                            seq : Seqs, wanted : Nat, object : Nat]]]
    BY <1>1, <2>1 DEF ShmTypeOK
  <2>3. shmCall' \in [Procs -> [step : {"idle", "open", "count", "uncount", "fork"},
                                idx : ShmSlots \cup {0}, seq : Seqs, wanted : Nat]]
    BY <1>1, <1>2 DEF ShmTypeOK
  <2>4. QED
    BY <1>1, <2>2, <2>3 DEF ShmTypeOK
<1>5. (\A j \in ShmSlots : Evolves(j)) /\ Entries'
  BY <1>1 DEF Evolves, Entries
<1>6. Attachments'
  BY <1>3, <1>4, <1>5, AttachmentsKept
<1>7. Calls'
  <2>1. Begins(p)
    BY <1>2, <1>3 DEF Begins
  <2>2. QED
    BY <1>3, <1>4, <1>5, <2>1, CallsKept
<1>8. ASSUME NEW j \in ShmSlots PROVE Balanced(j)'
  <2>1. Counting(j)' = Counting(j)
    BY <1>3 DEF Counting
  <2>2. Balanced(j) /\ IsFiniteSet(Tracked(j)) /\ IsFiniteSet(Leaving(j))
    BY PartSizes DEF Counts
  <2>3. CASE j = i
    <3>1. Tracked(j)' = Tracked(j) \ {<<p, a>>} /\ <<p, a>> \in Tracked(j)
      BY <1>1, <1>3, <2>3 DEF Tracked
    <3>2. Leaving(j)' = Leaving(j) \cup {p} /\ p \notin Leaving(j)
      BY <1>3, <2>3 DEF Leaving
    <3>3. Cardinality(Tracked(j)') = Cardinality(Tracked(j)) - 1
      BY <2>2, <3>1, FS_RemoveElement
    <3>4. Cardinality(Leaving(j)') = Cardinality(Leaving(j)) + 1
      BY <2>2, <3>2, FS_AddElement
    <3>5. /\ shm'[j].nattch <= shm[j].nattch + 0 /\ shmLost'[j] >= shmLost[j] + 0
          /\ Cardinality(Counting(j)') <= Cardinality(Counting(j)) + 0
          /\ Cardinality(Tracked(j)') >= Cardinality(Tracked(j)) + (-1)
          /\ Cardinality(Leaving(j)') >= Cardinality(Leaving(j)) + 1
      BY <1>1, <2>1, <3>3, <3>4, PartSizes DEF ShmTypeOK
    <3>6. QED
      BY <1>4, <2>2, <3>5, Shifted
  <2>4. CASE j # i
    <3>1. Tracked(j)' = Tracked(j)
      BY <1>1, <1>3, <2>4 DEF Tracked
    <3>2. Leaving(j)' = Leaving(j)
      BY <1>3, <2>4 DEF Leaving
    <3>3. QED
      BY <1>1, <1>4, <2>1, <2>2, <3>1, <3>2, Untouched
  <2>5. QED
    BY <2>3, <2>4
<1>9. QED
  BY <1>4, <1>5, <1>6, <1>7, <1>8 DEF Counts

LEMMA ShmdtCountKeeps ==
  ASSUME ShmInv, NEW p \in Procs, ShmdtCount(p), proc' = proc, proc[p] = "live"
  PROVE  ShmInv'
<1> USE DEF ShmInv, Shape
<1> DEFINE i == shmCall[p].idx
           n == [j \in ShmSlots |-> IF j = i THEN 1 ELSE 0]
<1>1. /\ shm' = [shm EXCEPT ![i] = Dropped(shm[i], 1)]
      /\ shmMade' = shmMade /\ shmat' = shmat /\ shmLost' = shmLost
      /\ shmCall' = [shmCall EXCEPT ![p] = ShmIdle]
      /\ shmCall[p].step = "uncount" /\ i \in ShmSlots
  BY DEF ShmdtCount, Calls
<1>2. /\ shmName' \in [ShmSlots -> Nat]
      /\ \A j \in ShmSlots : shmName'[j] \in {shmName[j], NoObject}
  BY DEF ShmdtCount, Unlinked, NoObject, ShmTypeOK
<1>3. n \in [ShmSlots -> Nat] /\ n[i] = 1 /\ \A j \in ShmSlots : j # i => n[j] = 0
  BY <1>1
<1> HIDE DEF n
<1>4. shm' = [j \in ShmSlots |-> Dropped(shm[j], n[j])]
  <2>1. \A j \in ShmSlots : j # i => Dropped(shm[j], n[j]) = shm[j]
    BY <1>3 DEF Dropped
  <2>2. QED
    BY <1>1, <1>3, <2>1 DEF ShmTypeOK
<1>5. /\ shm' \in [ShmSlots -> ShmEntry] /\ Entries'
      /\ \A j \in ShmSlots :
           /\ Evolves(j)
           /\ shm'[j].nattch = IF shm[j].nattch < n[j] THEN 0 ELSE shm[j].nattch - n[j]
  BY <1>1, <1>2, <1>3, <1>4, DropKeeps
<1>6. ShmTypeOK'
  BY <1>1, <1>2, <1>5, IdleType DEF ShmTypeOK, ShmEntry
<1>7. Attachments'
  BY <1>1, <1>5, <1>6, AttachmentsKept
<1>8. Calls'
  BY <1>1, <1>5, <1>6, CallEnds, CallsKept
<1>9. ASSUME NEW j \in ShmSlots PROVE Balanced(j)'
  <2>1. /\ Counting(j)' = Counting(j) /\ Leaving(j)' = Leaving(j) \ {p}
        /\ Tracked(j)' = Tracked(j)
    <3>1. p \notin Counting(j)
      BY <1>1 DEF Counting
    <3>2. /\ Counting(j)' = Counting(j) \ {p} /\ Leaving(j)' = Leaving(j) \ {p}
          /\ Tracked(j)' = Tracked(j)
      BY <1>1, CallEnds
    <3>3. QED
      BY <3>1, <3>2
  <2>2. Balanced(j) /\ IsFiniteSet(Leaving(j)) /\ shm[j].nattch \in Nat /\ shmLost[j] \in Nat
    BY PartSizes DEF Counts, ShmTypeOK
  <2>3. CASE j = i /\ shm[j].nattch >= 1
    <3>1. p \in Leaving(j)
      BY <1>1, <2>3 DEF Leaving
    <3>2. Cardinality(Leaving(j)') = Cardinality(Leaving(j)) - 1
      BY <2>1, <2>2, <3>1, FS_RemoveElement
    <3>3. shm'[j].nattch = shm[j].nattch - 1
      BY <1>3, <1>5, <2>2, <2>3
    <3>4. /\ Cardinality(Counting(j)) \in Nat /\ Cardinality(Leaving(j)) \in Nat
          /\ Cardinality(Tracked(j)) \in Nat
      BY PartSizes
    <3>5. shm'[j].nattch + Cardinality(Counting(j)')
            <= Cardinality(Tracked(j)') + Cardinality(Leaving(j)') + shmLost'[j]
      BY <1>1, <2>1, <2>2, <3>2, <3>3, <3>4 DEF Balanced
    <3>6. QED
      BY <3>5 DEF Balanced
  <2>4. CASE j = i /\ ~(shm[j].nattch >= 1)
    <3>1. shm'[j].nattch = 0
      BY <1>3, <1>5, <2>2, <2>4
    <3>2. QED
      BY <1>6, <1>8, <3>1, NothingCounted
  <2>5. CASE j # i
    <3>1. Leaving(j)' = Leaving(j)
      BY <1>1, <2>1, <2>5 DEF Leaving
    <3>2. shm'[j].nattch = shm[j].nattch
      BY <1>3, <1>5, <2>2, <2>5
    <3>3. QED
      BY <1>1, <1>6, <2>1, <2>2, <3>1, <3>2, Untouched
  <2>6. QED
    BY <2>3, <2>4, <2>5
<1>10. QED
  BY <1>5, <1>6, <1>7, <1>8, <1>9 DEF Counts

(***************************************************************************)
(* The process hooks.                                                      *)
(***************************************************************************)

(* A process that gives up its whole table takes as many pairs out as it   *)
(* had attachments in the slot.                                            *)
LEMMA RowLeaves ==
  ASSUME ShmTypeOK, NEW p \in Procs, NEW i \in ShmSlots, shmCall[p].step # "fork",
         shmat' = [shmat EXCEPT ![p] = [a \in Positions |-> Unused]],
         shmCall'[p].step = "idle",
         \A q \in Procs : q # p => shmCall'[q] = shmCall[q]
  PROVE  Cardinality(Tracked(i)) = Cardinality(Tracked(i)') + Cardinality(AttachedTo(p, i))
<1> DEFINE row == {p} \X AttachedTo(p, i)
<1>1. AttachedTo(p, i) \in SUBSET Positions
  BY DEF AttachedTo
<1>2. /\ \A a \in Positions : ~shmat'[p][a].used
      /\ \A q \in Procs : q # p => shmat'[q] = shmat[q]
  BY DEF ShmTypeOK, Unused
<1>3. Tracked(i) = Tracked(i)' \cup row
  <2>1. \A q \in Procs, a \in Positions :
          <<q, a>> \in Tracked(i) <=> <<q, a>> \in Tracked(i)' \/ <<q, a>> \in row
    BY <1>2 DEF Tracked, AttachedTo
  <2>2. /\ Tracked(i) \subseteq Procs \X Positions /\ Tracked(i)' \subseteq Procs \X Positions
        /\ row \subseteq Procs \X Positions
    BY <1>1 DEF Tracked
  <2> HIDE DEF row
  <2>3. QED
    BY <2>1, <2>2
<1>4. Tracked(i)' \cap row = {}
  BY <1>2 DEF Tracked
<1>5. /\ Tracked(i)' \in SUBSET (Procs \X Positions)
      /\ row \in SUBSET (Procs \X Positions) /\ Cardinality(row) = Cardinality(AttachedTo(p, i))
  BY <1>1, OneRow DEF Tracked
<1> HIDE DEF row
<1>6. QED
  BY <1>3, <1>4, <1>5, Parts

LEMMA RowType ==
  ASSUME ShmTypeOK, NEW p \in Procs,
         shmat' = [shmat EXCEPT ![p] = [a \in Positions |-> Unused]]
  PROVE  /\ shmat' \in [Procs -> [Positions -> [used : BOOLEAN, idx : ShmSlots \cup {0},
                                                seq : Seqs, wanted : Nat, object : Nat]]]
         /\ \A a \in Positions : ~shmat'[p][a].used
         /\ \A q \in Procs : q # p => shmat'[q] = shmat[q]
<1>1. Unused \in [used : BOOLEAN, idx : ShmSlots \cup {0}, seq : Seqs, wanted : Nat, object : Nat]
  BY SysvAssumption DEF Unused, Seqs, NoObject
<1>2. ~Unused.used
  BY DEF Unused
<1>3. QED
  BY <1>1, <1>2 DEF ShmTypeOK

LEMMA RowSize ==
  ASSUME NEW p \in Procs, NEW i \in ShmSlots
  PROVE  Cardinality(AttachedTo(p, i)) \in Nat
<1>1. AttachedTo(p, i) \in SUBSET Positions
  BY DEF AttachedTo
<1>2. QED
  BY <1>1, FiniteParts

(* sysv_after_exec and sysv_on_exit.                                       *)
LEMMA DetachAllKeeps ==
  ASSUME ShmInv, NEW p \in Procs, DetachAll(p), shmCall[p].step = "idle",
         proc[p] = "live", \A q \in Procs : proc'[q] = "absent" => proc[q] = "absent" /\ q # p,
         shmName' \in [ShmSlots -> Nat],
         \A i \in ShmSlots : shmName'[i] \in {shmName[i], NoObject},
         UNCHANGED <<shmMade, shmCall, shmLost>>
  PROVE  ShmInv'
<1> USE DEF ShmInv, Shape
<1> DEFINE n == [i \in ShmSlots |-> Cardinality(AttachedTo(p, i))]
<1>1. /\ shm' = [i \in ShmSlots |-> Dropped(shm[i], n[i])]
      /\ shmat' = [shmat EXCEPT ![p] = [a \in Positions |-> Unused]]
      /\ shmMade' = shmMade /\ shmCall' = shmCall /\ shmLost' = shmLost
  BY DEF DetachAll
<1>2. n \in [ShmSlots -> Nat] /\ \A i \in ShmSlots : n[i] = Cardinality(AttachedTo(p, i))
  BY RowSize
<1> HIDE DEF n
<1>3. /\ shm' \in [ShmSlots -> ShmEntry] /\ Entries'
      /\ \A i \in ShmSlots :
           /\ Evolves(i)
           /\ shm'[i].nattch = IF shm[i].nattch < n[i] THEN 0 ELSE shm[i].nattch - n[i]
  BY <1>1, <1>2, DropKeeps
<1>4. ShmTypeOK'
  BY <1>1, <1>3, RowType DEF ShmTypeOK, ShmEntry
<1>5. Attachments'
  <2>1. \A q \in Procs, a \in Positions : shmat'[q][a].used => shmat'[q][a] = shmat[q][a]
    BY <1>1, RowType
  <2>2. QED
    BY <1>3, <1>4, <2>1, AttachmentsKept
<1>6. Calls'
  <2>1. Begins(p)
    BY <1>1 DEF Begins
  <2>2. \A q \in Procs : q # p => shmat'[q] = shmat[q]
    BY <1>1, RowType
  <2>3. QED
    BY <1>1, <1>3, <1>4, <2>1, <2>2, CallsKept
<1>7. ASSUME NEW i \in ShmSlots PROVE Balanced(i)'
  <2>1. Counting(i)' = Counting(i) /\ Leaving(i)' = Leaving(i)
    BY <1>1 DEF Counting, Leaving
  <2>2. Cardinality(Tracked(i)) = Cardinality(Tracked(i)') + n[i]
    BY <1>1, <1>2, RowLeaves
  <2>3. Balanced(i) /\ shm[i].nattch \in Nat /\ shmLost[i] \in Nat /\ n[i] \in Nat
    BY <1>2 DEF Counts, ShmTypeOK
  <2>4. CASE shm[i].nattch < n[i]
    <3>1. shm'[i].nattch = 0
      BY <1>3, <2>4
    <3>2. QED
      BY <1>4, <1>6, <3>1, NothingCounted
  <2>5. CASE ~(shm[i].nattch < n[i])
    <3>1. Cardinality(Tracked(i)') \in Nat
      <4>1. Tracked(i)' \in SUBSET (Procs \X Positions)
        BY DEF Tracked
      <4>2. QED
        BY <4>1, FiniteParts
    <3>2. /\ Cardinality(Counting(i)) \in Nat /\ Cardinality(Leaving(i)) \in Nat
          /\ Cardinality(Tracked(i)) \in Nat
      BY PartSizes
    <3>3. shm'[i].nattch + Cardinality(Counting(i)')
            <= Cardinality(Tracked(i)') + Cardinality(Leaving(i)') + shmLost'[i]
      BY <1>1, <1>3, <2>1, <2>2, <2>3, <2>5, <3>1, <3>2 DEF Balanced
    <3>4. QED
      BY <3>3 DEF Balanced
  <2>6. QED
    BY <2>4, <2>5
<1>8. QED
  BY <1>3, <1>4, <1>5, <1>6, <1>7 DEF Counts

LEMMA KilledKeeps ==
  ASSUME ShmInv, NEW p \in Procs, KilledAttachments(p),
         \A q \in Procs : proc'[q] = "absent" => proc[q] = "absent" /\ q # p
  PROVE  ShmInv'
<1> USE DEF ShmInv, Shape
<1>1. /\ shm' = shm /\ shmMade' = shmMade /\ shmName' = shmName
      /\ shmat' = [shmat EXCEPT ![p] = [a \in Positions |-> Unused]]
      /\ shmCall' = [shmCall EXCEPT ![p] = ShmIdle]
  BY DEF KilledAttachments
<1>2. \A i \in ShmSlots :
        shmLost'[i] = shmLost[i] + Cardinality(AttachedTo(p, i))
                        + (IF shmCall[p].step = "uncount" /\ shmCall[p].idx = i THEN 1 ELSE 0)
  BY DEF KilledAttachments
<1>3. ShmTypeOK'
  <2>1. shmLost' \in [ShmSlots -> Nat]
    <3>1. DOMAIN shmLost' = ShmSlots
          /\ shmLost' = [i \in ShmSlots |-> shmLost'[i]]
      BY DEF KilledAttachments
    <3>2. \A i \in ShmSlots : shmLost'[i] \in Nat
      <4> TAKE i \in ShmSlots
      <4>1. shmLost[i] \in Nat /\ Cardinality(AttachedTo(p, i)) \in Nat
        BY RowSize DEF ShmTypeOK
      <4>2. QED
        BY <1>2, <4>1
    <3>3. QED
      BY <3>1, <3>2
  <2>2. QED
    BY <1>1, <2>1, IdleType, RowType DEF ShmTypeOK
<1>4. /\ shmCall'[p].step = "idle" /\ \A q \in Procs : q # p => shmCall'[q] = shmCall[q]
      /\ \A a \in Positions : ~shmat'[p][a].used
      /\ \A q \in Procs : q # p => shmat'[q] = shmat[q]
  BY <1>1, RowType DEF ShmTypeOK, ShmIdle
<1>5. (\A i \in ShmSlots : Evolves(i)) /\ Entries'
  BY <1>1 DEF Evolves, Entries
<1>6. Attachments'
  BY <1>3, <1>4, <1>5, AttachmentsKept
<1>7. Calls'
  <2>1. Begins(p)
    BY <1>4 DEF Begins
  <2>2. QED
    BY <1>3, <1>4, <1>5, <2>1, CallsKept
<1>8. ASSUME NEW i \in ShmSlots PROVE Balanced(i)'
  <2> DEFINE n == Cardinality(AttachedTo(p, i))
             u == IF shmCall[p].step = "uncount" /\ shmCall[p].idx = i THEN 1 ELSE 0
  <2>1. n \in Nat /\ u \in Nat /\ shmLost[i] \in Nat /\ shmLost'[i] = shmLost[i] + n + u
    BY <1>2, RowSize DEF ShmTypeOK
  <2>2. Balanced(i) /\ IsFiniteSet(Leaving(i)) /\ IsFiniteSet(Counting(i))
    BY PartSizes DEF Counts
  <2>3. Cardinality(Leaving(i)') >= Cardinality(Leaving(i)) + (0 - u)
    <3>1. Leaving(i)' = Leaving(i) \ {p} /\ (p \in Leaving(i) => u = 1)
      BY <1>4 DEF Leaving
    <3>2. Cardinality(Leaving(i)') =
            IF p \in Leaving(i) THEN Cardinality(Leaving(i)) - 1 ELSE Cardinality(Leaving(i))
      BY <2>2, <3>1, FS_RemoveElement
    <3> HIDE DEF u
    <3>3. QED
      BY <2>1, <3>1, <3>2, PartSizes
  <2>4. Cardinality(Counting(i)') <= Cardinality(Counting(i)) + 0
    <3>1. Counting(i)' = Counting(i) \ {p}
      BY <1>4 DEF Counting
    <3>2. Cardinality(Counting(i)') =
            IF p \in Counting(i) THEN Cardinality(Counting(i)) - 1 ELSE Cardinality(Counting(i))
      BY <2>2, <3>1, FS_RemoveElement
    <3>3. QED
      BY <3>2, PartSizes
  <2>5. Cardinality(Tracked(i)') >= Cardinality(Tracked(i)) + (0 - n)
    <3>1. CASE shmCall[p].step = "fork"
      <4>1. Tracked(i)' = Tracked(i)
        BY <1>4, <3>1 DEF Tracked
      <4> HIDE DEF n
      <4>2. QED
        BY <2>1, <4>1, PartSizes
    <3>2. CASE shmCall[p].step # "fork"
      <4>1. Cardinality(Tracked(i)) = Cardinality(Tracked(i)') + n
        BY <1>1, <1>4, <3>2, RowLeaves
      <4>2. Cardinality(Tracked(i)') \in Nat
        <5>1. Tracked(i)' \in SUBSET (Procs \X Positions)
          BY DEF Tracked
        <5>2. QED
          BY <5>1, FiniteParts
      <4> HIDE DEF n
      <4>3. QED
        BY <2>1, <4>1, <4>2
    <3>3. QED
      BY <3>1, <3>2
  <2> HIDE DEF n, u
  <2>6. shm'[i].nattch <= shm[i].nattch + 0 /\ shmLost'[i] >= shmLost[i] + (n + u)
    BY <1>1, <2>1 DEF ShmTypeOK
  <2>7. /\ 0 - u \in Int /\ 0 - n \in Int /\ n + u \in Int
        /\ 0 + 0 <= (0 - n) + (0 - u) + (n + u)
    BY <2>1
  <2>8. QED
    BY <1>3, <2>2, <2>3, <2>4, <2>5, <2>6, <2>7, Shifted
<1>9. QED
  BY <1>3, <1>5, <1>6, <1>7, <1>8 DEF Counts

(* fork: the child has a copy of the table that it has yet to count.       *)
LEMMA ForkKeeps ==
  ASSUME ShmInv, NEW p \in Procs, NEW c \in Procs, ForkAttachments(p, c),
         proc[c] = "absent", proc' = [proc EXCEPT ![c] = "live"], ProcTypeOK
  PROVE  ShmInv'
<1> USE DEF ShmInv, Shape
<1>1. /\ shm' = shm /\ shmMade' = shmMade /\ shmName' = shmName /\ shmLost' = shmLost
      /\ shmat' = [shmat EXCEPT ![c] = shmat[p]]
      /\ shmCall' = [shmCall EXCEPT ![c] = [ShmIdle EXCEPT !.step = "fork"]]
      /\ shmCall[c].step = "idle" /\ \A a \in Positions : ~shmat[c][a].used
  BY DEF ForkAttachments, Calls
<1>2. /\ shmCall'[c].step = "fork"
      /\ shmat'[c] = shmat[p]
      /\ \A q \in Procs : q # c => shmCall'[q] = shmCall[q] /\ shmat'[q] = shmat[q]
  BY <1>1 DEF ShmTypeOK, ShmIdle
<1>3. ShmTypeOK'
  <2>1. [ShmIdle EXCEPT !.step = "fork"] \in
          [step : {"idle", "open", "count", "uncount", "fork"},
           idx : ShmSlots \cup {0}, seq : Seqs, wanted : Nat]
    BY SysvAssumption DEF ShmIdle, NoObject, Seqs
  <2>2. shmCall' \in [Procs -> [step : {"idle", "open", "count", "uncount", "fork"},
                                idx : ShmSlots \cup {0}, seq : Seqs, wanted : Nat]]
    BY <1>1, <2>1 DEF ShmTypeOK
  <2>3. shmat' \in [Procs -> [Positions -> [used : BOOLEAN, idx : ShmSlots \cup {0},
                                            seq : Seqs, wanted : Nat, object : Nat]]]
    BY <1>1 DEF ShmTypeOK
  <2>4. QED
    BY <1>1, <2>2, <2>3 DEF ShmTypeOK
<1>4. (\A i \in ShmSlots : Evolves(i)) /\ Entries'
  BY <1>1 DEF Evolves, Entries
<1>5. Attachments'
  <2>1. \A q \in Procs, a \in Positions :
          \E r \in Procs, b \in Positions : shmat'[q][a] = shmat[r][b]
    BY <1>2
  <2>2. QED
    BY <1>3, <1>4, <2>1, AttachmentsKept
<1>6. Calls'
  <2>1. Begins(c)
    BY <1>2 DEF Begins
  <2>2. \A q \in Procs : proc'[q] = "absent" => q # c /\ proc[q] = "absent"
    BY DEF ProcTypeOK
  <2>3. QED
    BY <1>2, <1>3, <1>4, <2>1, <2>2, CallsKept
<1>7. ASSUME NEW i \in ShmSlots PROVE Balanced(i)'
  <2>1. Counting(i)' = Counting(i) /\ Leaving(i)' = Leaving(i)
    BY <1>1, <1>2 DEF Counting, Leaving
  <2>2. Tracked(i)' = Tracked(i)
    BY <1>1, <1>2 DEF Tracked
  <2>3. QED
    BY <1>1, <1>3, <2>1, <2>2, Untouched DEF Counts
<1>8. QED
  BY <1>3, <1>4, <1>5, <1>6, <1>7 DEF Counts

(* sysv_after_fork: the child counts its copies.                           *)
LEMMA AfterForkKeeps ==
  ASSUME ShmInv, NEW c \in Procs, AfterFork(c), proc' = proc, proc[c] = "live"
  PROVE  ShmInv'
<1> USE DEF ShmInv, Shape
<1>1. /\ shmCall[c].step = "fork" /\ shmCall' = [shmCall EXCEPT ![c] = ShmIdle]
      /\ shmMade' = shmMade /\ shmName' = shmName /\ shmat' = shmat /\ shmLost' = shmLost
      /\ shm' = [i \in ShmSlots |->
                   IF shm[i].inuse
                   THEN [shm[i] EXCEPT !.nattch = shm[i].nattch + Cardinality(AttachedTo(c, i))]
                   ELSE shm[i]]
  BY DEF AfterFork
<1>2. \A i \in ShmSlots :
        /\ shm'[i] \in ShmEntry
        /\ shm'[i].inuse = shm[i].inuse /\ shm'[i].removed = shm[i].removed
        /\ shm'[i].seq = shm[i].seq /\ shm'[i].object = shm[i].object
        /\ shm'[i].nattch = IF shm[i].inuse
                            THEN shm[i].nattch + Cardinality(AttachedTo(c, i))
                            ELSE shm[i].nattch
  <2> TAKE i \in ShmSlots
  <2> DEFINE n == Cardinality(AttachedTo(c, i))
  <2>1. shm[i] \in ShmEntry /\ n \in Nat
    BY RowSize DEF ShmTypeOK, ShmEntry
  <2>2. shm'[i] = IF shm[i].inuse THEN [shm[i] EXCEPT !.nattch = shm[i].nattch + n] ELSE shm[i]
    BY <1>1
  <2> HIDE DEF n
  <2>3. QED
    BY <2>1, <2>2 DEF n, ShmEntry
<1>3. shm' \in [ShmSlots -> ShmEntry]
  BY <1>1, <1>2
<1>4. ShmTypeOK'
  BY <1>1, <1>3, IdleType DEF ShmTypeOK, ShmEntry
<1>5. \A i \in ShmSlots : Evolves(i)
  BY <1>2 DEF Evolves
<1>6. Entries'
  <2>1. \A i \in ShmSlots : shm[i].nattch \in Nat /\ Cardinality(AttachedTo(c, i)) \in Nat
    BY RowSize DEF ShmTypeOK
  <2>2. QED
    BY <1>1, <1>2, <2>1 DEF Entries
<1>7. Attachments'
  BY <1>1, <1>4, <1>5, AttachmentsKept
<1>8. /\ shmCall'[c].step = "idle" /\ \A q \in Procs : q # c => shmCall'[q] = shmCall[q]
  BY <1>1 DEF ShmTypeOK, ShmIdle
<1>9. Calls'
  <2>1. Begins(c)
    BY <1>8 DEF Begins
  <2>2. QED
    BY <1>1, <1>4, <1>5, <1>8, <2>1, CallsKept
<1>10. ASSUME NEW i \in ShmSlots PROVE Balanced(i)'
  <2> DEFINE row == {c} \X AttachedTo(c, i)
             n == Cardinality(AttachedTo(c, i))
  <2>1. Counting(i)' = Counting(i) /\ Leaving(i)' = Leaving(i)
    BY <1>1, <1>8 DEF Counting, Leaving
  <2>2. AttachedTo(c, i) \in SUBSET Positions
    BY DEF AttachedTo
  <2>3. Tracked(i)' = Tracked(i) \cup row
    <3>1. \A q \in Procs, a \in Positions :
            <<q, a>> \in Tracked(i)' <=> <<q, a>> \in Tracked(i) \/ <<q, a>> \in row
      BY <1>1, <1>8 DEF Tracked, AttachedTo
    <3>2. /\ Tracked(i) \subseteq Procs \X Positions /\ Tracked(i)' \subseteq Procs \X Positions
          /\ row \subseteq Procs \X Positions
      BY <2>2 DEF Tracked
    <3> HIDE DEF row
    <3>3. QED
      BY <3>1, <3>2
  <2>4. Tracked(i) \cap row = {}
    BY <1>1 DEF Tracked
  <2>5. /\ Tracked(i) \in SUBSET (Procs \X Positions)
        /\ row \in SUBSET (Procs \X Positions) /\ Cardinality(row) = n
    BY <2>2, OneRow DEF Tracked
  <2>6. n \in Nat /\ shm[i].nattch \in Nat /\ Balanced(i)
    BY RowSize DEF ShmTypeOK, Counts
  <2>7. shm'[i].nattch <= shm[i].nattch + n
    BY <1>2, <2>6
  <2> HIDE DEF row, n
  <2>8. Cardinality(Tracked(i)') = Cardinality(Tracked(i)) + n
    BY <2>3, <2>4, <2>5, Parts
  <2>9. /\ shmLost'[i] >= shmLost[i] + 0
        /\ Cardinality(Counting(i)') <= Cardinality(Counting(i)) + 0
        /\ Cardinality(Tracked(i)') >= Cardinality(Tracked(i)) + n
        /\ Cardinality(Leaving(i)') >= Cardinality(Leaving(i)) + 0
    BY <1>1, <2>1, <2>6, <2>8, PartSizes DEF ShmTypeOK
  <2>10. QED
    BY <1>4, <2>6, <2>7, <2>9, Shifted
<1>11. QED
  BY <1>4, <1>5, <1>6, <1>7, <1>9, <1>10 DEF Counts

(***************************************************************************)
(* Semaphores: operations of several calls.                                *)
(***************************************************************************)
LEMMA StackFinite ==
  ASSUME NEW W \in SUBSET Procs, NEW R, \A p \in W : IsFiniteSet(R[p])
  PROVE  IsFiniteSet(Stack(W, R)) /\ Cardinality(Stack(W, R)) \in Nat
<1> DEFINE f == [p \in W |-> {p} \X R[p]]
           rows == {{p} \X R[p] : p \in W}
<1>1. IsFiniteSet(W)
  BY FiniteParts
<1>2. f \in Surjection(W, rows)
  <2>1. f \in [W -> rows]
    OBVIOUS
  <2>2. \A r \in rows : \E p \in W : f[p] = r
    OBVIOUS
  <2>3. QED
    BY <2>1, <2>2 DEF Surjection
<1>3. IsFiniteSet(rows)
  BY <1>1, <1>2, FS_Surjection
<1>4. \A r \in rows : IsFiniteSet(r)
  <2>1. ASSUME NEW p \in W PROVE IsFiniteSet({p} \X R[p])
    <3>1. IsFiniteSet({p})
      BY FS_Singleton
    <3>2. QED
      BY <3>1, FS_Product
  <2>2. QED
    BY <2>1
<1> HIDE DEF rows
<1>5. IsFiniteSet(UNION rows)
  BY <1>3, <1>4, FS_UNION
<1>6. QED
  BY <1>5, FS_CardinalityType DEF rows, Stack

(* Fewer calls, fewer operations; another call adds its own.               *)
LEMMA StackMonotone ==
  ASSUME NEW V \in SUBSET Procs, NEW W \in SUBSET V, NEW Q, NEW R,
         \A p \in V : IsFiniteSet(R[p]), \A p \in W : Q[p] = R[p]
  PROVE  Cardinality(Stack(W, Q)) <= Cardinality(Stack(V, R))
<1>1. Stack(W, Q) \subseteq Stack(V, R)
  BY DEF Stack
<1>2. QED
  BY <1>1, StackFinite, FS_Subset

LEMMA StackAdds ==
  ASSUME NEW W \in SUBSET Procs, NEW R, NEW p \in Procs, p \notin W,
         \A q \in W \cup {p} : IsFiniteSet(R[q])
  PROVE  Cardinality(Stack(W \cup {p}, R)) = Cardinality(Stack(W, R)) + Cardinality(R[p])
<1>1. Stack(W \cup {p}, R) = Stack(W, R) \cup ({p} \X R[p])
  BY DEF Stack
<1>2. Stack(W, R) \cap ({p} \X R[p]) = {}
  BY DEF Stack
<1>3. IsFiniteSet(Stack(W, R)) /\ Cardinality(Stack(W, R)) \in Nat
  BY StackFinite
<1>4. IsFiniteSet({p}) /\ Cardinality({p}) = 1
  BY FS_Singleton
<1>5. /\ IsFiniteSet({p} \X R[p]) /\ Cardinality({p} \X R[p]) = 1 * Cardinality(R[p])
      /\ Cardinality(R[p]) \in Nat
  BY <1>4, FS_Product, FS_CardinalityType
<1>6. Cardinality(Stack(W, R) \cap ({p} \X R[p])) = 0
  BY <1>2, FS_EmptySet
<1>7. Cardinality(Stack(W \cup {p}, R)) =
        Cardinality(Stack(W, R)) + Cardinality({p} \X R[p])
          - Cardinality(Stack(W, R) \cap ({p} \X R[p]))
  BY <1>1, <1>3, <1>5, FS_Union
<1>8. QED
  BY <1>3, <1>5, <1>6, <1>7

LEMMA SelFinite ==
  ASSUME NEW ops \in OpLists, NEW n, NEW kind
  PROVE  IsFiniteSet(Sel(kind, ops, n)) /\ Cardinality(Sel(kind, ops, n)) \in Nat
<1>1. ops \in Seq(Op)
  BY SemAssumption
<1>2. DOMAIN ops = 1 .. Len(ops) /\ Len(ops) \in Nat
  BY <1>1
<1>3. IsFiniteSet(DOMAIN ops)
  BY <1>2, FS_Interval
<1>4. Sel(kind, ops, n) \subseteq DOMAIN ops
  BY DEF Sel, On
<1>5. QED
  BY <1>3, <1>4, FS_Subset, FS_CardinalityType

LEMMA ChosenFinite ==
  ASSUME SemTypes, Waiters, NEW kind, NEW n, NEW i
  PROVE  /\ Here(i) \in SUBSET Procs
         /\ \A p \in Here(i) : IsFiniteSet(Chosen(kind, n)[p])
<1>1. Here(i) \in SUBSET Procs
  BY DEF Here
<1>2. ASSUME NEW p \in Here(i) PROVE IsFiniteSet(Chosen(kind, n)[p])
  <2>1. p \in Procs /\ semCall[p].ops \in OpLists
    BY DEF Here, WaitsIn, Waiters
  <2>2. QED
    BY <2>1, SelFinite DEF Chosen
<1>3. QED
  BY <1>1, <1>2

(***************************************************************************)
(* Semaphores: entries.                                                    *)
(***************************************************************************)
LEMMA FreeSemEntry ==
  ASSUME NEW seq \in Nat
  PROVE  SemEntry(FreeSem(seq)) /\ ~FreeSem(seq).inuse /\ FreeSem(seq).seq = seq
  BY DEF SemEntry, FreeSem

LEMMA CreatedSem ==
  ASSUME NEW e, SemEntry(e), NEW p, NEW key, NEW shared
  PROVE  LET c == Created(e, p, key, shared) IN
         SemEntry(c) /\ c.inuse /\ c.seq = e.seq
<1>0. PICK b \in BOOLEAN : b = TRUE
  OBVIOUS
<1> DEFINE c == [e EXCEPT !.inuse = b, !.key = key, !.uid = Uid[p], !.cuid = Uid[p],
                          !.shared = shared]
<1>1. Created(e, p, key, shared) = c
  BY <1>0, Zenon DEF Created
<1>2. SemEntry(c) /\ c.inuse = b /\ c.seq = e.seq
  BY DEF SemEntry
<1> HIDE DEF c
<1>3. QED
  BY <1>0, <1>1, <1>2

(* What the other updates of an entry do: none changes its identity.       *)
SameSem(d, e) == d.inuse = e.inuse /\ d.seq = e.seq

LEMMA SemUpdates ==
  ASSUME NEW e, SemEntry(e), NEW v
  PROVE  LET d == [e EXCEPT !.val = v] IN
         SemEntry(d) /\ SameSem(d, e) /\ \A kind \in Kinds : Mark(kind, d) = Mark(kind, e)
  BY DEF SemEntry, SameSem, Mark

LEMMA PermUpdates ==
  ASSUME NEW e, SemEntry(e), NEW uid, NEW shared
  PROVE  LET d == WithPerm(e, uid, shared) IN
         SemEntry(d) /\ SameSem(d, e) /\ \A kind \in Kinds : Mark(kind, d) = Mark(kind, e)
  BY DEF WithPerm, SemEntry, SameSem, Mark

LEMMA SemMarks ==
  ASSUME NEW e, SemEntry(e), NEW ops \in OpLists
  PROVE  /\ SemEntry(Marked(e, ops)) /\ SameSem(Marked(e, ops), e)
         /\ SemEntry(Unmarked(e, ops)) /\ SameSem(Unmarked(e, ops), e)
         /\ \A kind \in Kinds, n \in Nums :
              /\ Mark(kind, Marked(e, ops))[n] =
                   Mark(kind, e)[n] + Cardinality(Sel(kind, ops, n))
              /\ Mark(kind, Unmarked(e, ops))[n] =
                   Less(Mark(kind, e)[n], Cardinality(Sel(kind, ops, n)))
<1>1. \A n \in Nums : /\ Falling(ops, n) = Cardinality(Sel("falling", ops, n))
                      /\ Zeroing(ops, n) = Cardinality(Sel("zero", ops, n))
  BY DEF Falling, Zeroing, Sel
<1>2. \A n \in Nums : Falling(ops, n) \in Nat /\ Zeroing(ops, n) \in Nat
  BY <1>1, SelFinite
<1> DEFINE up == [n \in Nums |-> e.ncnt[n] + Falling(ops, n)]
           uz == [n \in Nums |-> e.zcnt[n] + Zeroing(ops, n)]
           dp == [n \in Nums |-> Less(e.ncnt[n], Falling(ops, n))]
           dz == [n \in Nums |-> Less(e.zcnt[n], Zeroing(ops, n))]
<1>3. /\ up \in [Nums -> Nat] /\ uz \in [Nums -> Nat]
      /\ dp \in [Nums -> Nat] /\ dz \in [Nums -> Nat]
  BY <1>2 DEF SemEntry, Less
<1>4. /\ Marked(e, ops) = [e EXCEPT !.ncnt = up, !.zcnt = uz]
      /\ Unmarked(e, ops) = [e EXCEPT !.ncnt = dp, !.zcnt = dz]
  BY DEF Marked, Unmarked
<1>5. /\ \A n \in Nums : up[n] = e.ncnt[n] + Falling(ops, n)
      /\ \A n \in Nums : uz[n] = e.zcnt[n] + Zeroing(ops, n)
      /\ \A n \in Nums : dp[n] = Less(e.ncnt[n], Falling(ops, n))
      /\ \A n \in Nums : dz[n] = Less(e.zcnt[n], Zeroing(ops, n))
  OBVIOUS
<1> HIDE DEF up, uz, dp, dz
<1>6. /\ SemEntry(Marked(e, ops)) /\ SameSem(Marked(e, ops), e)
      /\ Marked(e, ops).ncnt = up /\ Marked(e, ops).zcnt = uz
  BY <1>3, <1>4 DEF SemEntry, SameSem
<1>7. /\ SemEntry(Unmarked(e, ops)) /\ SameSem(Unmarked(e, ops), e)
      /\ Unmarked(e, ops).ncnt = dp /\ Unmarked(e, ops).zcnt = dz
  BY <1>3, <1>4 DEF SemEntry, SameSem
<1>8. QED
  BY <1>1, <1>5, <1>6, <1>7 DEF Mark, Kinds

(***************************************************************************)
(* Semaphores: the steps.                                                  *)
(***************************************************************************)
SemEvolves(i) ==
  \/ SameSem(sem'[i], sem[i])
  \/ sem[i].inuse /\ ~sem'[i].inuse /\ sem'[i].seq = sem[i].seq + 1
  \/ ~sem[i].inuse /\ sem'[i].inuse /\ sem'[i].seq = sem[i].seq

(* What may become of the marks: they stay, the process that leaves takes  *)
(* its own, or the set they were in is not in the slot any more.           *)
MarksMove(p, i) ==
  \/ ~(sem[i].inuse /\ sem'[i].inuse)
  \/ \A kind \in Kinds, n \in Nums : Mark(kind, sem'[i])[n] = Mark(kind, sem[i])[n]
  \/ /\ WaitsIn(p, i) /\ semCall'[p].step = "idle"
     /\ \A kind \in Kinds, n \in Nums :
          Mark(kind, sem'[i])[n] =
            Less(Mark(kind, sem[i])[n], Cardinality(Sel(kind, semCall[p].ops, n)))

LEMMA MarkType ==
  ASSUME NEW e, SemEntry(e), NEW kind \in Kinds, NEW n \in Nums
  PROVE  Mark(kind, e)[n] \in Nat
  BY DEF SemEntry, Mark

(* A waiter that stays a waiter was one before, of the same set.           *)
LEMMA StaysHere ==
  ASSUME SemTypes, SemTypes', Waiters, NEW i \in SemSlots, SemEvolves(i),
         NEW p \in Procs, semCall'[p] = semCall[p], WaitsIn(p, i)'
  PROVE  WaitsIn(p, i) /\ sem[i].inuse /\ sem'[i].inuse
<1>1. /\ semCall[p].step = "wait" /\ semCall[p].idx = i
      /\ sem'[i].inuse /\ sem'[i].seq = semCall[p].seq
  BY DEF WaitsIn, SemById
<1>2. /\ semCall[p].seq \in Nat /\ sem[i].seq \in Nat /\ semCall[p].seq <= sem[i].seq
      /\ ~sem[i].inuse => semCall[p].seq < sem[i].seq
  BY <1>1 DEF Waiters, SemTypes, SemEntry
<1>3. sem[i].inuse /\ sem[i].seq = semCall[p].seq
  <2>1. CASE SameSem(sem'[i], sem[i])
    BY <1>1, <2>1 DEF SameSem
  <2>2. CASE sem[i].inuse /\ ~sem'[i].inuse
    BY <1>1, <2>2
  <2>3. CASE ~sem[i].inuse /\ sem'[i].seq = sem[i].seq
    BY <1>1, <1>2, <2>3
  <2>4. QED
    BY <2>1, <2>2, <2>3 DEF SemEvolves
<1>4. QED
  BY <1>1, <1>3 DEF WaitsIn, SemById

LEMMA WaitersKept ==
  ASSUME SemTypes, SemTypes', Waiters, \A i \in SemSlots : SemEvolves(i),
         \A p \in Procs : \/ semCall'[p] = semCall[p]
                          \/ semCall'[p].step = "idle"
                          \/ /\ semCall'[p].idx \in SemSlots /\ semCall'[p].ops \in OpLists
                             /\ sem'[semCall'[p].idx].inuse
                             /\ semCall'[p].seq = sem'[semCall'[p].idx].seq
  PROVE  Waiters'
<1> SUFFICES ASSUME NEW p \in Procs, semCall'[p].step = "wait"
             PROVE  /\ semCall'[p].idx \in SemSlots /\ semCall'[p].ops \in OpLists
                    /\ semCall'[p].seq <= sem'[semCall'[p].idx].seq
                    /\ ~sem'[semCall'[p].idx].inuse
                         => semCall'[p].seq < sem'[semCall'[p].idx].seq
  BY DEF Waiters
<1>1. CASE semCall'[p] = semCall[p]
  <2> DEFINE i == semCall[p].idx
  <2>1. /\ i \in SemSlots /\ semCall[p].ops \in OpLists /\ semCall[p].seq \in Nat
        /\ semCall[p].seq <= sem[i].seq /\ (~sem[i].inuse => semCall[p].seq < sem[i].seq)
    BY <1>1 DEF Waiters, SemTypes
  <2>2. sem[i].seq \in Nat /\ sem'[i].seq \in Nat /\ SemEvolves(i)
    BY <2>1 DEF SemTypes, SemEntry
  <2>3. QED
    BY <1>1, <2>1, <2>2 DEF SemEvolves, SameSem
<1>2. CASE semCall'[p] # semCall[p]
  BY <1>2 DEF SemTypes, SemEntry
<1>3. QED
  BY <1>1, <1>2

(* A step in which nobody begins to wait.                                  *)
LEMMA SemKeeps ==
  ASSUME SemInv, SemTypes', NEW p \in Procs,
         \A q \in Procs : q # p => semCall'[q] = semCall[q],
         semCall'[p] = semCall[p] \/ semCall'[p].step = "idle",
         \A i \in SemSlots : SemEvolves(i) /\ MarksMove(p, i)
  PROVE  SemInv'
<1> USE DEF SemInv
<1>1. Waiters'
  BY WaitersKept
<1>2. ASSUME NEW kind \in Kinds, NEW i \in SemSlots, NEW n \in Nums PROVE Covered(kind, i, n)'
  <2> DEFINE new == Here(i)'
             old == Here(i)
             Q == Chosen(kind, n)'
             R == Chosen(kind, n)
  <2>1. \A q \in new : /\ q \in Procs /\ semCall'[q] = semCall[q]
                       /\ q \in old /\ sem[i].inuse /\ sem'[i].inuse
    <3> TAKE q \in new
    <3>1. q \in Procs /\ WaitsIn(q, i)' /\ semCall'[q].step = "wait"
      BY DEF Here, WaitsIn
    <3>2. semCall'[q] = semCall[q]
      BY <3>1
    <3>3. QED
      BY <3>1, <3>2, StaysHere DEF Here
  <2>2. \A q \in new : Q[q] = R[q]
    BY <2>1 DEF Chosen
  <2>3. old \in SUBSET Procs /\ \A q \in old : IsFiniteSet(R[q])
    BY ChosenFinite
  <2>4. /\ Mark(kind, sem[i])[n] \in Nat /\ Mark(kind, sem'[i])[n] \in Nat
        /\ Mark(kind, sem[i])[n] >= Cardinality(Stack(old, R))
    <3>1. SemEntry(sem[i]) /\ SemEntry(sem'[i])
      BY DEF SemTypes
    <3>2. Covered(kind, i, n)
      OBVIOUS
    <3>3. QED
      BY <3>1, <3>2, MarkType DEF Covered
  <2> SUFFICES Mark(kind, sem'[i])[n] >= Cardinality(Stack(new, Q))
    BY DEF Covered
  <2>5. CASE ~(sem[i].inuse /\ sem'[i].inuse)
    <3>1. new = {}
      BY <2>1, <2>5
    <3>2. Stack(new, Q) = {}
      BY <3>1 DEF Stack
    <3> HIDE DEF new, Q
    <3>3. QED
      BY <2>4, <3>2, FS_EmptySet
  <2>6. CASE Mark(kind, sem'[i])[n] = Mark(kind, sem[i])[n]
    <3>1. new \in SUBSET old
      BY <2>1
    <3> HIDE DEF new, old, Q, R
    <3>2. Cardinality(Stack(new, Q)) <= Cardinality(Stack(old, R))
      BY <2>2, <2>3, <3>1, StackMonotone
    <3>3. Cardinality(Stack(new, Q)) \in Nat /\ Cardinality(Stack(old, R)) \in Nat
      BY <2>2, <2>3, <3>1, StackFinite
    <3>4. QED
      BY <2>4, <2>6, <3>2, <3>3
  <2>7. CASE /\ WaitsIn(p, i) /\ semCall'[p].step = "idle"
             /\ Mark(kind, sem'[i])[n] =
                  Less(Mark(kind, sem[i])[n], Cardinality(Sel(kind, semCall[p].ops, n)))
    <3> DEFINE rest == old \ {p}
    <3>1. p \in old /\ R[p] = Sel(kind, semCall[p].ops, n)
      BY <2>7 DEF Here, Chosen
    <3>2. new \in SUBSET rest
      BY <2>1, <2>7 DEF Here, WaitsIn
    <3> HIDE DEF new, old, Q, R
    <3>3. /\ rest \in SUBSET Procs /\ rest \cup {p} = old /\ p \notin rest
          /\ \A q \in rest : IsFiniteSet(R[q])
      BY <2>3, <3>1
    <3>4. Cardinality(Stack(old, R)) = Cardinality(Stack(rest, R)) + Cardinality(R[p])
      BY <2>3, <3>1, <3>3, StackAdds
    <3> HIDE DEF rest
    <3>5. Cardinality(Stack(new, Q)) <= Cardinality(Stack(rest, R))
      BY <2>2, <3>2, <3>3, StackMonotone
    <3>6. /\ Cardinality(Stack(new, Q)) \in Nat /\ Cardinality(Stack(rest, R)) \in Nat
          /\ Cardinality(R[p]) \in Nat
      BY <2>2, <2>3, <3>1, <3>2, <3>3, StackFinite, FS_CardinalityType
    <3>7. QED
      BY <2>4, <2>7, <3>1, <3>4, <3>5, <3>6 DEF Less
  <2>8. QED
    BY <2>5, <2>6, <2>7 DEF MarksMove
<1>3. QED
  BY <1>1, <1>2

(* A step that only one set takes part in.                                 *)
LEMMA OneSet ==
  ASSUME SemTypes, NEW i \in SemSlots, NEW e, SemEntry(e), sem' = [sem EXCEPT ![i] = e],
         semCall' \in [Procs -> [step : {"idle", "wait"}, idx : SemSlots \cup {0}, seq : Nat,
                                 ops : OpLists \cup {<<>>}]]
  PROVE  SemTypes' /\ sem'[i] = e /\ \A j \in SemSlots : j # i => sem'[j] = sem[j]
<1>1. sem'[i] = e /\ \A j \in SemSlots : j # i => sem'[j] = sem[j]
  BY DEF SemTypes
<1>2. \A j \in SemSlots : SemEntry(sem'[j])
  BY <1>1 DEF SemTypes
<1>3. sem' = [j \in SemSlots |-> sem'[j]]
  BY DEF SemTypes
<1>4. sem' \in [SemSlots -> {sem'[j] : j \in SemSlots}]
  BY <1>3
<1>5. QED
  BY <1>1, <1>2, <1>4 DEF SemTypes

LEMMA SemIdleType ==
  ASSUME SemTypes, NEW p \in Procs, semCall' = [semCall EXCEPT ![p] = SemIdle]
  PROVE  /\ semCall' \in [Procs -> [step : {"idle", "wait"}, idx : SemSlots \cup {0},
                                    seq : Nat, ops : OpLists \cup {<<>>}]]
         /\ semCall'[p].step = "idle" /\ \A q \in Procs : q # p => semCall'[q] = semCall[q]
  BY DEF SemTypes, SemIdle

LEMMA SemStutters ==
  ASSUME SemInv, NEW p \in Procs, sem' = sem,
         semCall' = semCall \/ semCall' = [semCall EXCEPT ![p] = SemIdle]
  PROVE  SemInv'
<1> USE DEF SemInv
<1>1. /\ semCall' \in [Procs -> [step : {"idle", "wait"}, idx : SemSlots \cup {0},
                                 seq : Nat, ops : OpLists \cup {<<>>}]]
      /\ semCall'[p] = semCall[p] \/ semCall'[p].step = "idle"
      /\ \A q \in Procs : q # p => semCall'[q] = semCall[q]
  BY SemIdleType DEF SemTypes
<1>2. SemTypes'
  BY <1>1 DEF SemTypes
<1>3. \A i \in SemSlots : SemEvolves(i) /\ MarksMove(p, i)
  BY DEF SemEvolves, SameSem, MarksMove
<1>4. QED
  BY <1>1, <1>2, <1>3, SemKeeps

(* Updates of one entry that keep its marks and do not end a wait.         *)
LEMMA SemUpdateKeeps ==
  ASSUME SemInv, NEW p \in Procs, NEW i \in SemSlots, NEW e, SemEntry(e),
         sem' = [sem EXCEPT ![i] = e], semCall' = semCall,
         \/ SameSem(e, sem[i]) /\ \A kind \in Kinds : Mark(kind, e) = Mark(kind, sem[i])
         \/ sem[i].inuse /\ ~e.inuse /\ e.seq = sem[i].seq + 1
         \/ ~sem[i].inuse /\ e.inuse /\ e.seq = sem[i].seq
  PROVE  SemInv'
<1>1. SemTypes' /\ sem'[i] = e /\ \A j \in SemSlots : j # i => sem'[j] = sem[j]
  BY OneSet DEF SemInv, SemTypes
<1>2. \A j \in SemSlots : SemEvolves(j) /\ MarksMove(p, j)
  BY <1>1 DEF SemEvolves, SameSem, MarksMove
<1>3. QED
  BY <1>1, <1>2, SemKeeps

LEMMA SemgetKeeps ==
  ASSUME SemInv, NEW p \in Procs, NEW i \in SemSlots, Semget(p, i)
  PROVE  SemInv'
<1>1. PICK key \in Keys, shared \in Modes :
        sem' = [sem EXCEPT ![i] = Created(FreeSem(sem[i].seq), p, key, shared)]
  BY DEF Semget
<1> DEFINE e == Created(FreeSem(sem[i].seq), p, key, shared)
<1>2. semCall' = semCall /\ ~sem[i].inuse /\ sem[i].seq \in Nat
  BY DEF Semget, FirstFree, SemInv, SemTypes, SemEntry
<1>3. SemEntry(e) /\ e.inuse /\ e.seq = sem[i].seq
  <2>1. SemEntry(FreeSem(sem[i].seq)) /\ FreeSem(sem[i].seq).seq = sem[i].seq
    BY <1>2, FreeSemEntry
  <2> DEFINE f == FreeSem(sem[i].seq)
  <2> HIDE DEF f
  <2>2. SemEntry(f) => LET c == Created(f, p, key, shared) IN
                       SemEntry(c) /\ c.inuse /\ c.seq = f.seq
    BY CreatedSem
  <2>3. QED
    BY <2>1, <2>2 DEF f
<1> HIDE DEF e
<1>4. sem' = [sem EXCEPT ![i] = e]
  BY <1>1 DEF e
<1>5. QED
  BY <1>2, <1>3, <1>4, SemUpdateKeeps

LEMMA SemRmidKeeps ==
  ASSUME SemInv, NEW p \in Procs, NEW i \in SemSlots, SemRmid(p, i)
  PROVE  SemInv'
<1>1. sem' = [sem EXCEPT ![i] = FreeSem(sem[i].seq + 1)] /\ semCall' = semCall
      /\ sem[i].inuse /\ sem[i].seq \in Nat
  BY DEF SemRmid, SemInv, SemTypes, SemEntry
<1>2. LET e == FreeSem(sem[i].seq + 1) IN
      SemEntry(e) /\ ~e.inuse /\ e.seq = sem[i].seq + 1
  BY <1>1, FreeSemEntry
<1>3. QED
  BY <1>1, <1>2, SemUpdateKeeps

LEMMA SemSetKeeps ==
  ASSUME SemInv, NEW p \in Procs, NEW i \in SemSlots,
         SemSet(p, i) \/ SemSetValues(p, i)
  PROVE  SemInv'
<1>1. SemEntry(sem[i])
  BY DEF SemInv, SemTypes
<1>2. CASE SemSet(p, i)
  <2>1. PICK uid \in Owners, shared \in Modes :
          sem' = [sem EXCEPT ![i] = WithPerm(sem[i], uid, shared)]
    BY <1>2 DEF SemSet
  <2>2. semCall' = semCall
    BY <1>2 DEF SemSet
  <2> DEFINE s == sem[i]
             e == WithPerm(s, uid, shared)
  <2>3. /\ SemEntry(e) /\ SameSem(e, sem[i])
        /\ \A kind \in Kinds : Mark(kind, e) = Mark(kind, sem[i])
    <3>1. SemEntry(s)
      BY <1>1
    <3> HIDE DEF s
    <3>2. SemEntry(e) /\ SameSem(e, s) /\ \A kind \in Kinds : Mark(kind, e) = Mark(kind, s)
      BY <3>1, PermUpdates
    <3> HIDE DEF e
    <3>3. QED
      BY <3>2 DEF s
  <2> HIDE DEF e
  <2>4. sem' = [sem EXCEPT ![i] = e]
    BY <2>1 DEF e
  <2>5. QED
    BY <2>2, <2>3, <2>4, SemUpdateKeeps
<1>3. CASE SemSetValues(p, i)
  <2>1. PICK v : sem' = [sem EXCEPT ![i] = [sem[i] EXCEPT !.val = v]]
    BY <1>3 DEF SemSetValues
  <2>2. semCall' = semCall
    BY <1>3 DEF SemSetValues
  <2> DEFINE e == [sem[i] EXCEPT !.val = v]
  <2>3. /\ SemEntry(e) /\ SameSem(e, sem[i])
        /\ \A kind \in Kinds : Mark(kind, e) = Mark(kind, sem[i])
    BY <1>1, SemUpdates
  <2> HIDE DEF e
  <2>4. sem' = [sem EXCEPT ![i] = e]
    BY <2>1 DEF e
  <2>5. QED
    BY <2>2, <2>3, <2>4, SemUpdateKeeps
<1>4. QED
  BY <1>2, <1>3

(* A list that is carried out changes values only.                         *)
LEMMA Performed ==
  ASSUME NEW p, NEW i, NEW ops, NEW e, SemEntry(e), SemPerform(p, i, ops, e)
  PROVE  \E d : /\ SemEntry(d) /\ SameSem(d, e)
                /\ \A kind \in Kinds : Mark(kind, d) = Mark(kind, e)
                /\ sem' = [sem EXCEPT ![i] = d]
<1>1. sem' = [sem EXCEPT ![i] = Applied(e, ops)]
  BY DEF SemPerform
<1>2. PICK v : Applied(e, ops) = [e EXCEPT !.val = v]
  BY DEF Applied
<1> DEFINE d == [e EXCEPT !.val = v]
<1>3. SemEntry(d) /\ SameSem(d, e) /\ \A kind \in Kinds : Mark(kind, d) = Mark(kind, e)
  BY SemUpdates
<1>4. sem' = [sem EXCEPT ![i] = d]
  BY <1>1, <1>2
<1> HIDE DEF d
<1>5. QED
  BY <1>3, <1>4

(* svc_semop, first pass: proceed, or become a waiter that is counted.     *)
LEMMA SemopKeeps ==
  ASSUME SemInv, NEW p \in Procs, NEW i \in SemSlots, Semop(p, i),
         semCall[p].step = "idle"
  PROVE  SemInv'
<1> USE DEF SemInv
<1>1. PICK ops \in OpLists :
        \/ SemPerform(p, i, ops, sem[i]) /\ semCall' = semCall
        \/ /\ sem' = [sem EXCEPT ![i] = Marked(sem[i], ops)]
           /\ semCall' = [semCall EXCEPT ![p] = [step |-> "wait", idx |-> i,
                                                 seq |-> sem[i].seq, ops |-> ops]]
  BY DEF Semop
<1>2. sem[i].inuse /\ SemEntry(sem[i])
  BY DEF Semop, SemTypes
<1>3. CASE SemPerform(p, i, ops, sem[i]) /\ semCall' = semCall
  <2>1. PICK d : /\ SemEntry(d) /\ SameSem(d, sem[i])
                 /\ \A kind \in Kinds : Mark(kind, d) = Mark(kind, sem[i])
                 /\ sem' = [sem EXCEPT ![i] = d]
    BY <1>2, <1>3, Performed
  <2>2. QED
    BY <1>3, <2>1, SemUpdateKeeps
<1>4. CASE /\ sem' = [sem EXCEPT ![i] = Marked(sem[i], ops)]
           /\ semCall' = [semCall EXCEPT ![p] = [step |-> "wait", idx |-> i,
                                                 seq |-> sem[i].seq, ops |-> ops]]
  <2> DEFINE d == Marked(sem[i], ops)
  <2>1. /\ SemEntry(d) /\ SameSem(d, sem[i])
        /\ \A kind \in Kinds, n \in Nums :
             Mark(kind, d)[n] = Mark(kind, sem[i])[n] + Cardinality(Sel(kind, ops, n))
    BY <1>2, SemMarks
  <2> HIDE DEF d
  <2>2. /\ semCall' \in [Procs -> [step : {"idle", "wait"}, idx : SemSlots \cup {0},
                                   seq : Nat, ops : OpLists \cup {<<>>}]]
        /\ semCall'[p].step = "wait" /\ semCall'[p].idx = i /\ semCall'[p].ops = ops
        /\ semCall'[p].seq = sem[i].seq
        /\ \A q \in Procs : q # p => semCall'[q] = semCall[q]
    BY <1>2, <1>4 DEF SemTypes, SemEntry
  <2>3. SemTypes' /\ sem'[i] = d /\ \A j \in SemSlots : j # i => sem'[j] = sem[j]
    BY <1>4, <2>1, <2>2, OneSet DEF d
  <2>4. \A j \in SemSlots : SemEvolves(j)
    BY <2>1, <2>3 DEF SemEvolves, SameSem
  <2>5. Waiters'
    <3>1. sem'[i].inuse /\ sem'[i].seq = sem[i].seq
      BY <1>2, <2>1, <2>3 DEF SameSem
    <3>2. QED
      BY <2>2, <2>3, <2>4, <3>1, WaitersKept
  <2>6. ASSUME NEW kind \in Kinds, NEW j \in SemSlots, NEW n \in Nums
        PROVE  Covered(kind, j, n)'
    <3> DEFINE new == Here(j)'
               old == Here(j)
               Q == Chosen(kind, n)'
               R == Chosen(kind, n)
    <3>1. /\ old \in SUBSET Procs /\ p \notin old /\ \A q \in old : IsFiniteSet(R[q])
      BY ChosenFinite DEF Here, WaitsIn
    <3>2. \A q \in old : Q[q] = R[q]
      BY <2>2, <3>1 DEF Chosen
    <3>3. Q[p] = Sel(kind, ops, n) /\ IsFiniteSet(Q[p]) /\ Cardinality(Q[p]) \in Nat
      BY <2>2, SelFinite DEF Chosen
    <3>4. /\ Mark(kind, sem[j])[n] \in Nat /\ Mark(kind, sem'[j])[n] \in Nat
          /\ Mark(kind, sem[j])[n] >= Cardinality(Stack(old, R))
      <4>1. SemEntry(sem[j]) /\ SemEntry(sem'[j])
        BY <2>3 DEF SemTypes
      <4>2. Covered(kind, j, n)
        OBVIOUS
      <4>3. QED
        BY <4>1, <4>2, MarkType DEF Covered
    <3>5. new = IF j = i THEN old \cup {p} ELSE old
      <4>1. sem'[j].inuse = sem[j].inuse /\ sem'[j].seq = sem[j].seq
        BY <2>1, <2>3 DEF SameSem
      <4>2. \A q \in Procs : q # p => (WaitsIn(q, j)' <=> WaitsIn(q, j))
        BY <2>2, <4>1 DEF WaitsIn, SemById
      <4>3. WaitsIn(p, j)' <=> j = i
        BY <1>2, <2>2, <4>1 DEF WaitsIn, SemById
      <4>4. QED
        BY <3>1, <4>2, <4>3 DEF Here
    <3> SUFFICES Mark(kind, sem'[j])[n] >= Cardinality(Stack(new, Q))
      BY DEF Covered
    <3> HIDE DEF new, old, Q, R
    <3>6. /\ Cardinality(Stack(old, Q)) <= Cardinality(Stack(old, R))
          /\ Cardinality(Stack(old, Q)) \in Nat /\ Cardinality(Stack(old, R)) \in Nat
      BY <3>1, <3>2, StackMonotone, StackFinite
    <3>7. CASE j = i
      <4>1. Cardinality(Stack(new, Q)) = Cardinality(Stack(old, Q)) + Cardinality(Q[p])
        BY <3>1, <3>2, <3>3, <3>5, <3>7, StackAdds
      <4>2. Mark(kind, sem'[j])[n] = Mark(kind, sem[j])[n] + Cardinality(Q[p])
        BY <2>1, <2>3, <3>3, <3>7
      <4>3. QED
        BY <3>3, <3>4, <3>6, <4>1, <4>2
    <3>8. CASE j # i
      BY <2>3, <3>4, <3>5, <3>6, <3>8
    <3>9. QED
      BY <3>7, <3>8
  <2>7. QED
    BY <2>3, <2>5, <2>6
<1>5. QED
  BY <1>1, <1>3, <1>4

(* svc_semop, a later pass, and the end of a wait without the operations.  *)
LEMMA SemLeaveKeeps ==
  ASSUME SemInv, NEW p \in Procs, SemRetry(p) \/ SemGiveUp(p)
  PROVE  SemInv'
<1> USE DEF SemInv
<1> DEFINE i == semCall[p].idx
           ops == semCall[p].ops
<1>1. semCall' = [semCall EXCEPT ![p] = SemIdle] /\ semCall[p].step = "wait"
  BY DEF SemRetry, SemGiveUp
<1>2. i \in SemSlots /\ ops \in OpLists /\ SemEntry(sem[i])
  BY <1>1 DEF Waiters, SemTypes
<1>3. CASE sem' = sem
  BY <1>1, <1>3, SemStutters
<1>4. ASSUME SemById(i, semCall[p].seq), NEW d, SemEntry(d),
             SameSem(d, Unmarked(sem[i], ops)),
             \A kind \in Kinds : Mark(kind, d) = Mark(kind, Unmarked(sem[i], ops)),
             sem' = [sem EXCEPT ![i] = d]
      PROVE  SemInv'
  <2>1. /\ SameSem(d, sem[i])
        /\ \A kind \in Kinds, n \in Nums :
             Mark(kind, d)[n] = Less(Mark(kind, sem[i])[n], Cardinality(Sel(kind, ops, n)))
    BY <1>2, <1>4, SemMarks DEF SameSem
  <2>2. SemTypes' /\ sem'[i] = d /\ \A j \in SemSlots : j # i => sem'[j] = sem[j]
    BY <1>1, <1>2, <1>4, SemIdleType, OneSet
  <2>3. WaitsIn(p, i)
    BY <1>1, <1>4 DEF WaitsIn
  <2>4. semCall'[p].step = "idle" /\ \A q \in Procs : q # p => semCall'[q] = semCall[q]
    BY <1>1, SemIdleType
  <2>5. \A j \in SemSlots : SemEvolves(j) /\ MarksMove(p, j)
    <3> TAKE j \in SemSlots
    <3>1. CASE j = i
      BY <2>1, <2>2, <2>3, <2>4, <3>1 DEF SemEvolves, MarksMove
    <3>2. CASE j # i
      BY <2>2, <3>2 DEF SemEvolves, SameSem, MarksMove
    <3>3. QED
      BY <3>1, <3>2
  <2>6. QED
    BY <2>2, <2>4, <2>5, SemKeeps
<1>5. SemEntry(Unmarked(sem[i], ops))
  BY <1>2, SemMarks
<1>6. CASE SemRetry(p)
  <2>1. \/ sem' = sem
        \/ SemById(i, semCall[p].seq) /\ SemPerform(p, i, ops, Unmarked(sem[i], ops))
    BY <1>6 DEF SemRetry
  <2>2. CASE SemById(i, semCall[p].seq) /\ SemPerform(p, i, ops, Unmarked(sem[i], ops))
    <3>1. PICK d : /\ SemEntry(d) /\ SameSem(d, Unmarked(sem[i], ops))
                   /\ \A kind \in Kinds : Mark(kind, d) = Mark(kind, Unmarked(sem[i], ops))
                   /\ sem' = [sem EXCEPT ![i] = d]
      BY <1>5, <2>2, Performed
    <3>2. QED
      BY <1>4, <2>2, <3>1
  <2>3. QED
    BY <1>3, <2>1, <2>2
<1>7. CASE SemGiveUp(p)
  <2>1. \/ sem' = sem
        \/ /\ SemById(i, semCall[p].seq)
           /\ sem' = [sem EXCEPT ![i] = Unmarked(sem[i], ops)]
    BY <1>7 DEF SemGiveUp
  <2>2. QED
    BY <1>3, <1>4, <1>5, <2>1 DEF SameSem
<1>8. QED
  BY <1>6, <1>7

(* sysv_on_exit: the adjustments change values only.                       *)
LEMMA ApplyUndoKeeps ==
  ASSUME SemInv, NEW p \in Procs, ApplyUndo(p), semCall' = semCall
  PROVE  SemInv'
<1> USE DEF SemInv
<1>1. \A i \in SemSlots : /\ SemEntry(sem'[i]) /\ SameSem(sem'[i], sem[i])
                          /\ \A kind \in Kinds : Mark(kind, sem'[i]) = Mark(kind, sem[i])
  <2> TAKE i \in SemSlots
  <2>1. SemEntry(sem[i])
    BY DEF SemTypes
  <2>2. CASE ~sem[i].inuse
    BY <2>1, <2>2 DEF ApplyUndo, SameSem
  <2>3. CASE sem[i].inuse
    <3>1. PICK v : sem'[i] = [sem[i] EXCEPT !.val = v]
      BY <2>3 DEF ApplyUndo
    <3> DEFINE e == sem[i]
               d == [e EXCEPT !.val = v]
    <3>2. SemEntry(e)
      BY <2>1
    <3> HIDE DEF e
    <3>3. SemEntry(d) /\ SameSem(d, e) /\ \A kind \in Kinds : Mark(kind, d) = Mark(kind, e)
      BY <3>2, SemUpdates
    <3>4. sem'[i] = d
      BY <3>1 DEF e
    <3> HIDE DEF d
    <3>5. QED
      BY <3>3, <3>4 DEF e
  <2>4. QED
    BY <2>2, <2>3
<1>2. SemTypes'
  <2>1. sem' = [i \in SemSlots |-> sem'[i]]
    BY DEF ApplyUndo
  <2>2. sem' \in [SemSlots -> {sem'[i] : i \in SemSlots}]
    BY <2>1
  <2>3. QED
    BY <1>1, <2>2 DEF SemTypes
<1>3. \A i \in SemSlots : SemEvolves(i) /\ MarksMove(p, i)
  BY <1>1 DEF SemEvolves, MarksMove
<1>4. QED
  BY <1>2, <1>3, SemKeeps

(***************************************************************************)
(* The composition.                                                        *)
(***************************************************************************)
LEMMA ShmStarts ==
  ASSUME Init
  PROVE  ProcTypeOK /\ ShmInv
<1> USE DEF Init, ShmInit
<1>1. ProcTypeOK
  BY DEF ProcTypeOK
<1>2. ShmTypeOK
  BY SysvAssumption DEF ShmTypeOK, FreeShm, Unused, ShmIdle, NoObject, Seqs
<1>3. Entries /\ Calls /\ Attachments
  BY SysvAssumption DEF Entries, Calls, Attachments, Sound, FreeShm, Unused, ShmIdle, NoObject
<1>4. ASSUME NEW i \in ShmSlots PROVE Balanced(i)
  <2>1. Counting(i) = {} /\ shm[i].nattch = 0 /\ shmLost[i] = 0
    BY DEF Counting, ShmIdle, FreeShm
  <2>2. QED
    BY <2>1, PartSizes, FS_EmptySet DEF Balanced
<1>5. QED
  BY <1>1, <1>2, <1>3, <1>4 DEF ShmInv, Shape, Counts

LEMMA SemStarts ==
  ASSUME Init
  PROVE  SemInv
<1> USE DEF Init, SemInit
<1>1. \A i \in SemSlots : SemEntry(sem[i])
  <2>1. SemEntry(FreeSem(0))
    BY FreeSemEntry
  <2>2. QED
    BY <2>1
<1>2. SemTypes
  <2>1. sem = [i \in SemSlots |-> sem[i]]
    OBVIOUS
  <2>2. sem \in [SemSlots -> {sem[i] : i \in SemSlots}]
    BY <2>1
  <2>3. QED
    BY <1>1, <2>2 DEF SemTypes, SemIdle
<1>3. Waiters
  BY DEF Waiters, SemIdle
<1>4. ASSUME NEW kind \in Kinds, NEW i \in SemSlots, NEW n \in Nums PROVE Covered(kind, i, n)
  <2>1. Here(i) = {}
    BY DEF Here, WaitsIn, SemIdle
  <2>2. Stack(Here(i), Chosen(kind, n)) = {}
    BY <2>1 DEF Stack
  <2>3. Mark(kind, sem[i])[n] \in Nat
    BY <1>1, MarkType
  <2>4. QED
    BY <2>2, <2>3, FS_EmptySet DEF Covered
<1>5. QED
  BY <1>2, <1>3, <1>4 DEF SemInv

(* Every step, by its actor.                                               *)
LEMMA ShmPreserved ==
  ASSUME ProcTypeOK, ShmInv, [Next]_vars
  PROVE  ProcTypeOK' /\ ShmInv'
<1>1. CASE UNCHANGED vars
  <2>1. UNCHANGED shmVars /\ proc' = proc
    BY <1>1 DEF vars
  <2>2. QED
    BY <2>1, ShmStutters DEF ProcTypeOK
<1>2. ASSUME NEW p \in Procs, Shm(p) PROVE ProcTypeOK' /\ ShmInv'
  <2>1. proc' = proc
    BY <1>2 DEF Shm
  <2>2. CASE Ready(p) /\ ShmRequest(p)
    <3>1. proc[p] = "live" /\ shmCall[p].step = "idle"
      BY <2>2 DEF Ready
    <3>2. ShmInv'
      BY <2>1, <2>2, <3>1, ShmgetKeeps, ShmatLookupKeeps, ShmRmidKeeps, ShmSetKeeps,
         ShmdtUnmapKeeps DEF ShmRequest
    <3>3. QED
      BY <2>1, <3>2 DEF ProcTypeOK
  <2>3. CASE proc[p] = "live" /\ ShmStep(p)
    <3>1. ShmInv'
      BY <2>1, <2>3, ShmatMapKeeps, ShmatCountKeeps, ShmdtCountKeeps, AfterForkKeeps
         DEF ShmStep
    <3>2. QED
      BY <2>1, <3>1 DEF ProcTypeOK
  <2>4. QED
    BY <1>2, <2>2, <2>3 DEF Shm
<1>3. ASSUME NEW p \in Procs, Sem(p) \/ Msg(p) PROVE ProcTypeOK' /\ ShmInv'
  <2>1. UNCHANGED shmVars /\ proc' = proc
    BY <1>3 DEF Sem, Msg
  <2>2. QED
    BY <2>1, ShmStutters DEF ProcTypeOK
<1>4. ASSUME NEW p \in Procs, NEW c \in Procs, Fork(p, c) PROVE ProcTypeOK' /\ ShmInv'
  <2>1. /\ ForkAttachments(p, c) /\ proc[c] = "absent"
        /\ proc' = [proc EXCEPT ![c] = "live"]
    BY <1>4 DEF Fork
  <2>2. QED
    BY <2>1, ForkKeeps DEF ProcTypeOK
<1>5. ASSUME NEW p \in Procs, Exec(p) PROVE ProcTypeOK' /\ ShmInv'
  <2>1. /\ proc[p] = "live" /\ shmCall[p].step = "idle" /\ proc' = proc
        /\ DetachAll(p) /\ UNCHANGED <<shmMade, shmCall, shmLost>>
    BY <1>5 DEF Exec, Ready
  <2>2. /\ shmName' \in [ShmSlots -> Nat]
        /\ \A i \in ShmSlots : shmName'[i] \in {shmName[i], NoObject}
    BY <1>5 DEF Exec, Unlinked, NoObject, ShmInv, Shape, ShmTypeOK
  <2>3. QED
    BY <2>1, <2>2, DetachAllKeeps DEF ProcTypeOK
<1>6. ASSUME NEW p \in Procs, Exit(p) PROVE ProcTypeOK' /\ ShmInv'
  <2>1. /\ proc[p] = "live" /\ shmCall[p].step = "idle"
        /\ proc' = [proc EXCEPT ![p] = "gone"]
        /\ DetachAll(p) /\ UNCHANGED <<shmMade, shmCall, shmLost>>
    BY <1>6 DEF Exit, Ready
  <2>2. /\ shmName' \in [ShmSlots -> Nat]
        /\ \A i \in ShmSlots : shmName'[i] \in {shmName[i], NoObject}
    <3>1. \/ shmName' = Unlinked(shm')
          \/ shmName' = [i \in ShmSlots |-> IF shm'[i].inuse THEN NoObject
                                            ELSE Unlinked(shm')[i]]
      BY <1>6 DEF Exit
    <3>2. /\ Unlinked(shm') \in [ShmSlots -> Nat]
          /\ \A i \in ShmSlots : Unlinked(shm')[i] \in {shmName[i], NoObject}
      BY DEF Unlinked, NoObject, ShmInv, Shape, ShmTypeOK
    <3>3. QED
      BY <3>1, <3>2 DEF NoObject
  <2>3. \A q \in Procs : proc'[q] = "absent" => proc[q] = "absent" /\ q # p
    BY <2>1 DEF ProcTypeOK
  <2>4. ProcTypeOK'
    BY <2>1 DEF ProcTypeOK
  <2>5. QED
    BY <2>1, <2>2, <2>3, <2>4, DetachAllKeeps
<1>7. ASSUME NEW p \in Procs, Kill(p) PROVE ProcTypeOK' /\ ShmInv'
  <2>1. /\ proc[p] = "live" /\ proc' = [proc EXCEPT ![p] = "gone"]
        /\ KilledAttachments(p)
    BY <1>7 DEF Kill
  <2>2. \A q \in Procs : proc'[q] = "absent" => proc[q] = "absent" /\ q # p
    BY <2>1 DEF ProcTypeOK
  <2>3. ProcTypeOK'
    BY <2>1 DEF ProcTypeOK
  <2>4. QED
    BY <2>1, <2>2, <2>3, KilledKeeps
<1>8. QED
  BY <1>1, <1>2, <1>3, <1>4, <1>5, <1>6, <1>7 DEF Next

LEMMA SemPreserved ==
  ASSUME SemInv, [Next]_vars
  PROVE  SemInv'
<1>1. CASE UNCHANGED vars
  <2>1. sem' = sem /\ semCall' = semCall
    BY <1>1 DEF vars, semVars
  <2>2. QED
    BY <2>1, SysvAssumption, SemStutters
<1>2. ASSUME NEW p \in Procs, Sem(p) PROVE SemInv'
  <2>1. CASE Ready(p) /\ SemRequest(p)
    <3>1. semCall[p].step = "idle"
      BY <2>1 DEF Ready
    <3>2. QED
      BY <2>1, <3>1, SemgetKeeps, SemopKeeps, SemSetKeeps, SemRmidKeeps DEF SemRequest
  <2>2. CASE SemRetry(p) \/ SemGiveUp(p)
    BY <2>2, SemLeaveKeeps
  <2>3. QED
    BY <1>2, <2>1, <2>2 DEF Sem
<1>3. ASSUME NEW p \in Procs, Shm(p) \/ Msg(p) \/ Exec(p) \/ \E c \in Procs : Fork(p, c)
      PROVE  SemInv'
  <2>1. sem' = sem /\ semCall' = semCall
    BY <1>3 DEF Shm, Msg, Exec, Fork, semVars
  <2>2. QED
    BY <2>1, SemStutters
<1>4. ASSUME NEW p \in Procs, Exit(p) PROVE SemInv'
  BY <1>4, ApplyUndoKeeps DEF Exit
<1>5. ASSUME NEW p \in Procs, Kill(p) PROVE SemInv'
  BY <1>5, SemStutters DEF Kill
<1>6. QED
  BY <1>1, <1>2, <1>3, <1>4, <1>5 DEF Next

-----------------------------------------------------------------------------
(* The argument for shared memory: what every slot, call and attachment    *)
(* satisfies at every step of any mix of guest processes.                  *)
THEOREM ShmInvariance == Spec => [](ProcTypeOK /\ ShmInv)
<1>1. Init => ProcTypeOK /\ ShmInv
  BY ShmStarts
<1>2. ProcTypeOK /\ ShmInv /\ [Next]_vars => (ProcTypeOK /\ ShmInv)'
  BY ShmPreserved
<1>3. QED
  BY <1>1, <1>2, PTL DEF Spec

(* svc_shmdt, sysv_after_fork, exec and exit: no segment is counted by     *)
(* nobody, so a removed one goes with its last holder.                     *)
THEOREM SegmentsReclaimed == Spec => []RemovedIsReclaimed
<1>1. ShmInv => RemovedIsReclaimed
  <2> SUFFICES ASSUME ShmInv, NEW i \in ShmSlots
               PROVE  /\ shm[i].nattch <= Holders(i)
                      /\ (shm[i].inuse /\ shm[i].removed) => shm[i].nattch > 0
    BY DEF RemovedIsReclaimed
  <2> DEFINE held == {h \in Procs \X Positions :
                        shmat[h[1]][h[2]].used /\ shmat[h[1]][h[2]].idx = i}
  <2>1. held \in SUBSET (Procs \X Positions)
    OBVIOUS
  <2>2. Tracked(i) \in SUBSET held
    BY DEF Tracked
  <2>3. Holders(i) = Cardinality(held) + Cardinality(Leaving(i)) + shmLost[i]
    BY DEF Holders, Leaving
  <2> HIDE DEF held
  <2>4. Cardinality(Tracked(i)) <= Cardinality(held) /\ Cardinality(held) \in Nat
    BY <2>1, <2>2, FiniteParts, FS_Subset
  <2>5. Balanced(i) /\ shm[i].nattch \in Nat /\ shmLost[i] \in Nat
    BY DEF ShmInv, Shape, Counts, ShmTypeOK
  <2>6. shm[i].nattch <= Holders(i)
    BY <2>3, <2>4, <2>5, PartSizes DEF Balanced
  <2>7. (shm[i].inuse /\ shm[i].removed) => shm[i].nattch > 0
    BY DEF ShmInv, Shape, Entries
  <2>8. QED
    BY <2>6, <2>7
<1>2. QED
  BY <1>1, ShmInvariance, PTL

(* svc_shmat: as long as the id a mapping was made with still names its    *)
(* slot, the mapping is of that segment, although the object was opened by *)
(* the name of the slot after the lock had been dropped.                   *)
THEOREM LiveIds == Spec => []LiveIdMapsItsSegment
<1>1. ShmInv => LiveIdMapsItsSegment
  BY DEF ShmInv, Shape, Attachments, Sound, LiveIdMapsItsSegment
<1>2. QED
  BY <1>1, ShmInvariance, PTL

(* svc_semop: whoever polls is counted in the set it waits for, across     *)
(* removal and reuse of the slot.                                          *)
THEOREM WaitersCounted == Spec => []WaitersAreCounted
<1>1. Init => SemInv
  BY SemStarts
<1>2. SemInv /\ [Next]_vars => SemInv'
  BY SemPreserved
<1>3. SemInv => WaitersAreCounted
  <2> SUFFICES ASSUME SemInv, NEW i \in SemSlots, NEW n \in Nums
               PROVE  /\ sem[i].ncnt[n] >= Cardinality(FallingWaits(i, n))
                      /\ sem[i].zcnt[n] >= Cardinality(ZeroWaits(i, n))
    BY DEF WaitersAreCounted
  <2>1. FallingWaits(i, n) = Stack(Here(i), Chosen("falling", n))
    BY DEF FallingWaits, Stack, Here, Chosen, Sel
  <2>2. ZeroWaits(i, n) = Stack(Here(i), Chosen("zero", n))
    BY DEF ZeroWaits, Stack, Here, Chosen, Sel
  <2>3. Covered("falling", i, n) /\ Covered("zero", i, n)
    BY DEF SemInv, Kinds
  <2>4. QED
    BY <2>1, <2>2, <2>3 DEF Covered, Mark
<1>4. QED
  BY <1>1, <1>2, <1>3, PTL DEF Spec

(***************************************************************************)
(* Sums over finite sets.                                                  *)
(***************************************************************************)

Smaller == {s \in Nat \X Nat : s[1] < s[2]}

LEMMA Least ==
  ASSUME NEW S, S \subseteq Nat, S # {}
  PROVE  \E n \in S : \A m \in S : n <= m
<1>1. IsWellFoundedOn(Smaller, Nat)
  BY NatLessThanWellFounded DEF OpToRel, Smaller
<1>2. PICK n \in S : \A m \in S : <<m, n>> \notin Smaller
  BY <1>1, WFMin
<1>3. ASSUME NEW m \in S PROVE n <= m
  <2>1. m \in Nat /\ n \in Nat
    OBVIOUS
  <2>2. ~(m < n)
    BY <1>2, <2>1 DEF Smaller
  <2>. QED BY <2>1, <2>2
<1>. QED BY <1>3

Pick(s) == CHOOSE x \in s : TRUE

(* g adds up f over the members of D.                                      *)
Adds(g, f, D) ==
  g = [s \in D |-> IF s = {} THEN 0 ELSE f[Pick(s)] + g[s \ {Pick(s)}]]

LEMMA Unfolded ==
  ASSUME NEW f, NEW S
  PROVE  SumFunctionOnSet(f, S) = (CHOOSE g : Adds(g, f, SUBSET S))[S]
BY DEF SumFunctionOnSet, FoldFunctionOnSet, MapThenFoldSet, Adds, Pick

(* Such a function exists: it is extended from the sets of one size to the *)
(* sets of the next.                                                       *)
LEMMA AddsExists ==
  ASSUME NEW f, NEW S, IsFiniteSet(S)
  PROVE  \E g : Adds(g, f, SUBSET S)
<1> DEFINE D(n) == {s \in SUBSET S : Cardinality(s) <= n}
           Bad == {n \in Nat : ~\E g : Adds(g, f, D(n))}
<1>1. \A s \in SUBSET S : IsFiniteSet(s) /\ Cardinality(s) \in Nat
  BY FS_Subset, FS_CardinalityType
<1>2. \A s \in SUBSET S : Cardinality(s) <= Cardinality(S)
  BY FS_Subset
<1>3. Bad = {}
  <2> SUFFICES ASSUME Bad # {} PROVE FALSE
    OBVIOUS
  <2>1. Bad \subseteq Nat
    OBVIOUS
  <2>2. \E n \in Bad : \A m \in Bad : n <= m
    <3> HIDE DEF Bad
    <3> QED BY <2>1, Least
  <2>3. PICK n \in Bad : \A m \in Bad : n <= m
    BY <2>2
  <2>4. CASE n = 0
    <3>1. \A s \in D(0) : s = {}
      BY <1>1, FS_EmptySet
    <3> DEFINE g == [s \in D(0) |-> 0]
    <3>2. Adds(g, f, D(0))
      BY <3>1 DEF Adds
    <3> QED BY <2>4, <3>2
  <2>5. CASE n # 0
    <3>1. n - 1 \in Nat /\ n - 1 \notin Bad
      <4>1. n \in Nat
        BY <2>1
      <4> HIDE DEF Bad
      <4> QED BY <2>3, <2>5, <4>1
    <3>2. PICK g : Adds(g, f, D(n - 1))
      BY <3>1
    <3> DEFINE h == [s \in D(n) |-> IF s = {} THEN 0 ELSE f[Pick(s)] + g[s \ {Pick(s)}]]
    <3>3. ASSUME NEW s \in D(n), s # {} PROVE h[s \ {Pick(s)}] = g[s \ {Pick(s)}]
      <4> DEFINE t == s \ {Pick(s)}
      <4>1. Pick(s) \in s
        BY <3>3 DEF Pick
      <4>2. Cardinality(t) = Cardinality(s) - 1 /\ t \in SUBSET S /\ Cardinality(s) <= n
            /\ Cardinality(s) \in Nat
        BY <1>1, <4>1, FS_RemoveElement
      <4>3. t \in D(n - 1) /\ t \in D(n)
        BY <4>2
      <4> HIDE DEF t, D
      <4>4. g[t] = IF t = {} THEN 0 ELSE f[Pick(t)] + g[t \ {Pick(t)}]
        BY <3>2, <4>3 DEF Adds
      <4>5. h[t] = IF t = {} THEN 0 ELSE f[Pick(t)] + g[t \ {Pick(t)}]
        BY <4>3
      <4> QED BY <4>4, <4>5 DEF t
    <3>4. Adds(h, f, D(n))
      <4>1. \A s \in D(n) : h[s] = IF s = {} THEN 0 ELSE f[Pick(s)] + h[s \ {Pick(s)}]
        <5> HIDE DEF D
        <5> QED BY <3>3
      <4>2. h = [s \in D(n) |-> h[s]]
        OBVIOUS
      <4> HIDE DEF h, D
      <4> QED BY <4>1, <4>2 DEF Adds
    <3> QED BY <3>4
  <2> QED BY <2>4, <2>5
<1>4. Cardinality(S) \in Nat
  BY FS_CardinalityType
<1>5. D(Cardinality(S)) = SUBSET S
  BY <1>2
<1> QED BY <1>3, <1>4, <1>5

(* A set of subsets of a finite set has a smallest member.                 *)
LEMMA Minimal ==
  ASSUME NEW S, IsFiniteSet(S), NEW B, B \subseteq SUBSET S, B # {}
  PROVE  \E s \in B : \A t \in SUBSET s : t # s => t \notin B
<1> DEFINE Lengths == {Cardinality(s) : s \in B}
<1>1. \A s \in B : IsFiniteSet(s) /\ Cardinality(s) \in Nat
  BY FS_Subset, FS_CardinalityType
<1>2. Lengths \subseteq Nat /\ Lengths # {}
  BY <1>1
<1>3. \E n \in Lengths : \A m \in Lengths : n <= m
  <2> HIDE DEF Lengths
  <2> QED BY <1>2, Least
<1>4. PICK s \in B : \A u \in B : Cardinality(s) <= Cardinality(u)
  BY <1>3
<1>5. ASSUME NEW t \in SUBSET s, t # s, t \in B PROVE FALSE
  <2>1. Cardinality(t) <= Cardinality(s) /\ Cardinality(t) # Cardinality(s)
    BY <1>1, <1>5, FS_Subset
  <2> QED BY <1>1, <1>4, <1>5, <2>1
<1> QED BY <1>5

(* Two of them agree where both are defined.                               *)
LEMMA AddsAgree ==
  ASSUME NEW f, NEW S, IsFiniteSet(S), NEW T \in SUBSET S, NEW g, NEW h,
         Adds(g, f, SUBSET S), Adds(h, f, SUBSET T)
  PROVE  g[T] = h[T]
<1> DEFINE Bad == {s \in SUBSET T : g[s] # h[s]}
<1>1. SUFFICES ASSUME Bad # {} PROVE FALSE
  OBVIOUS
<1>2. IsFiniteSet(T) /\ Bad \subseteq SUBSET T
  BY FS_Subset
<1>3. PICK s \in Bad : \A t \in SUBSET s : t # s => t \notin Bad
  <2> HIDE DEF Bad
  <2> QED BY <1>1, <1>2, Minimal
<1>4. /\ g[s] = IF s = {} THEN 0 ELSE f[Pick(s)] + g[s \ {Pick(s)}]
      /\ h[s] = IF s = {} THEN 0 ELSE f[Pick(s)] + h[s \ {Pick(s)}]
  BY DEF Adds
<1>5. s # {}
  BY <1>4
<1>6. Pick(s) \in s
  BY <1>5 DEF Pick
<1>7. g[s \ {Pick(s)}] = h[s \ {Pick(s)}]
  BY <1>3, <1>6
<1> QED BY <1>4, <1>7

(* What a sum is: nothing for the empty set, one term and the rest.        *)
LEMMA SumStep ==
  ASSUME NEW f, NEW S, IsFiniteSet(S)
  PROVE  SumFunctionOnSet(f, S) =
           IF S = {} THEN 0 ELSE f[Pick(S)] + SumFunctionOnSet(f, S \ {Pick(S)})
<1> DEFINE T == S \ {Pick(S)}
           g == CHOOSE x : Adds(x, f, SUBSET S)
           h == CHOOSE x : Adds(x, f, SUBSET T)
<1>1. IsFiniteSet(T) /\ T \in SUBSET S
  BY FS_RemoveElement
<1>2. Adds(g, f, SUBSET S)
  BY AddsExists
<1>3. Adds(h, f, SUBSET T)
  BY <1>1, AddsExists
<1>4. g[T] = h[T]
  <2> HIDE DEF g, h, T
  <2> QED BY <1>1, <1>2, <1>3, AddsAgree
<1>5. SumFunctionOnSet(f, S) = g[S] /\ SumFunctionOnSet(f, T) = h[T]
  BY Unfolded
<1>6. g[S] = IF S = {} THEN 0 ELSE f[Pick(S)] + g[T]
  <2> HIDE DEF g
  <2> QED BY <1>2 DEF Adds
<1> QED BY <1>4, <1>5, <1>6

LEMMA SumEmpty ==
  ASSUME NEW f
  PROVE  SumFunctionOnSet(f, {}) = 0
BY SumStep, FS_EmptySet

(* The order of the terms does not matter.                                 *)
LEMMA SumRemoves ==
  ASSUME NEW f, NEW S, IsFiniteSet(S), \A x \in S : f[x] \in Int
  PROVE  /\ SumFunctionOnSet(f, S) \in Int
         /\ \A x \in S : SumFunctionOnSet(f, S) = f[x] + SumFunctionOnSet(f, S \ {x})
<1> DEFINE Sum(s) == SumFunctionOnSet(f, s)
           Good(s) == Sum(s) \in Int /\ \A x \in s : Sum(s) = f[x] + Sum(s \ {x})
           Bad == {s \in SUBSET S : ~Good(s)}
<1>1. SUFFICES ASSUME Bad # {} PROVE FALSE
  OBVIOUS
<1>2. Bad \subseteq SUBSET S
  OBVIOUS
<1>3. PICK s \in Bad : \A t \in SUBSET s : t # s => t \notin Bad
  <2> HIDE DEF Bad
  <2> QED BY <1>1, <1>2, Minimal
<1>4. IsFiniteSet(s) /\ s \in SUBSET S /\ ~Good(s)
  BY FS_Subset
<1>5. \A t \in SUBSET s : t # s => Good(t)
  <2> HIDE DEF Good
  <2> QED BY <1>3, <1>4
<1>6. s # {}
  <2>1. Sum({}) = 0
    BY SumEmpty
  <2>2. Good({})
    BY <2>1
  <2> HIDE DEF Good
  <2> QED BY <1>4, <2>2
<1> DEFINE c == Pick(s)
<1>7. c \in s
  BY <1>6 DEF Pick
<1>8. Sum(s) = f[c] + Sum(s \ {c})
  BY <1>4, <1>6, SumStep
<1> HIDE DEF c, Sum, Bad
<1>9. Sum(s \ {c}) \in Int /\ f[c] \in Int
  BY <1>4, <1>5, <1>7
<1>10. ASSUME NEW x \in s, x # c PROVE Sum(s) = f[x] + Sum(s \ {x})
  <2> DEFINE r == s \ {c, x}
             a == s \ {c}
             b == s \ {x}
  <2>1. /\ f[x] \in Int /\ x \in a /\ c \in b /\ a \ {x} = r /\ b \ {c} = r
        /\ a \in SUBSET s /\ b \in SUBSET s /\ r \in SUBSET s /\ a # s /\ b # s /\ r # s
    BY <1>4, <1>7, <1>10
  <2> HIDE DEF r, a, b
  <2>2. Good(a) /\ Good(b) /\ Good(r)
    <3> HIDE DEF Good
    <3> QED BY <1>5, <2>1
  <2>3. Sum(a) = f[x] + Sum(r) /\ Sum(b) = f[c] + Sum(r) /\ Sum(r) \in Int
    BY <2>1, <2>2
  <2>4. Sum(s) = f[x] + Sum(b)
    BY <1>8, <1>9, <2>1, <2>3 DEF a
  <2> QED BY <2>4 DEF b
<1>11. Good(s)
  <2>1. Sum(s) \in Int
    BY <1>8, <1>9
  <2>2. ASSUME NEW x \in s PROVE Sum(s) = f[x] + Sum(s \ {x})
    <3>1. CASE x = c
      BY <1>8, <3>1
    <3>2. CASE x # c
      BY <1>10, <3>2
    <3> QED BY <3>1, <3>2
  <2> QED BY <2>1, <2>2
<1> QED BY <1>4, <1>11

(* Terms that are 0 add up to 0.                                           *)
LEMMA SumZero ==
  ASSUME NEW f, NEW S, IsFiniteSet(S), \A x \in S : f[x] = 0
  PROVE  SumFunctionOnSet(f, S) = 0
<1> DEFINE Bad == {s \in SUBSET S : SumFunctionOnSet(f, s) # 0}
<1>1. SUFFICES ASSUME Bad # {} PROVE FALSE
  OBVIOUS
<1>2. Bad \subseteq SUBSET S
  OBVIOUS
<1>3. PICK s \in Bad : \A t \in SUBSET s : t # s => t \notin Bad
  <2> HIDE DEF Bad
  <2> QED BY <1>1, <1>2, Minimal
<1>4. PICK x : x \in s
  BY SumEmpty
<1>5. IsFiniteSet(s) /\ f[x] = 0
  BY <1>4, FS_Subset
<1>6. SumFunctionOnSet(f, s) = f[x] + SumFunctionOnSet(f, s \ {x})
  BY <1>4, <1>5, SumRemoves
<1>7. SumFunctionOnSet(f, s \ {x}) = 0
  BY <1>3, <1>4
<1> QED BY <1>5, <1>6, <1>7

(* A sum depends on its terms only.                                        *)
LEMMA SumSame ==
  ASSUME NEW f, NEW g, NEW S, IsFiniteSet(S), \A x \in S : f[x] \in Int /\ f[x] = g[x]
  PROVE  SumFunctionOnSet(f, S) = SumFunctionOnSet(g, S)
<1> DEFINE Bad == {s \in SUBSET S : SumFunctionOnSet(f, s) # SumFunctionOnSet(g, s)}
<1>1. SUFFICES ASSUME Bad # {} PROVE FALSE
  OBVIOUS
<1>2. Bad \subseteq SUBSET S
  OBVIOUS
<1>3. PICK s \in Bad : \A t \in SUBSET s : t # s => t \notin Bad
  <2> HIDE DEF Bad
  <2> QED BY <1>1, <1>2, Minimal
<1>4. PICK x : x \in s
  BY SumEmpty
<1>5. IsFiniteSet(s) /\ f[x] = g[x]
  BY <1>4, FS_Subset
<1>6. /\ SumFunctionOnSet(f, s) = f[x] + SumFunctionOnSet(f, s \ {x})
      /\ SumFunctionOnSet(g, s) = g[x] + SumFunctionOnSet(g, s \ {x})
  BY <1>4, <1>5, SumRemoves
<1>7. SumFunctionOnSet(f, s \ {x}) = SumFunctionOnSet(g, s \ {x})
  BY <1>3, <1>4
<1> QED BY <1>5, <1>6, <1>7

(* When one term changes, the sum changes by as much.                      *)
LEMMA SumMoves ==
  ASSUME NEW f, NEW g, NEW S, IsFiniteSet(S), NEW y \in S, NEW d \in Int,
         \A x \in S : f[x] \in Int /\ g[x] \in Int,
         \A x \in S : x # y => g[x] = f[x],
         g[y] = f[y] + d
  PROVE  SumFunctionOnSet(g, S) = SumFunctionOnSet(f, S) + d
<1>1. IsFiniteSet(S \ {y})
  BY FS_RemoveElement
<1>2. /\ SumFunctionOnSet(f, S) = f[y] + SumFunctionOnSet(f, S \ {y})
      /\ SumFunctionOnSet(g, S) = g[y] + SumFunctionOnSet(g, S \ {y})
  BY SumRemoves
<1>3. SumFunctionOnSet(f, S \ {y}) = SumFunctionOnSet(g, S \ {y})
  BY <1>1, SumSame
<1>4. SumFunctionOnSet(f, S \ {y}) \in Int /\ f[y] \in Int
  BY <1>1, SumRemoves
<1> QED BY <1>2, <1>3, <1>4

(* A sum with at most one term that is not 0.                              *)
LEMMA SumSingle ==
  ASSUME NEW f, NEW S, IsFiniteSet(S), NEW y \in S, f[y] \in Int,
         \A x \in S : x # y => f[x] = 0
  PROVE  SumFunctionOnSet(f, S) = f[y]
<1>1. SumFunctionOnSet(f, S) = f[y] + SumFunctionOnSet(f, S \ {y})
  BY SumRemoves
<1>2. SumFunctionOnSet(f, S \ {y}) = 0
  BY SumZero, FS_RemoveElement
<1> QED BY <1>1, <1>2

(***************************************************************************)
(* SEM_UNDO: the invariant.                                                *)
(***************************************************************************)

(* The adjustments of one process: at most one for a semaphore of a set,   *)
(* and none for a set that is still to come.                               *)
UndoRecord == [idx : SemSlots, seq : Nat, num : Nums, adj : Int]
OneRecord(U) ==
  \A u, v \in U : u.idx = v.idx /\ u.seq = v.seq /\ u.num = v.num => u = v
Known(U, table) == \A u \in U : Older(table[u.idx], u.seq)
Undos ==
  /\ undo \in [Procs -> SUBSET UndoRecord]
  /\ \A p \in Procs : OneRecord(undo[p]) /\ Known(undo[p], sem)
  /\ \A p \in Procs : proc[p] # "live" => undo[p] = {}

Values ==
  /\ \A i \in SemSlots : sem[i].val \in [Nums -> 0 .. SemMax]
  /\ exact \in [SemSlots -> BOOLEAN]

(* What U takes back from semaphore n of the set seq in slot i.            *)
Holding(U, i, seq, n) == {u \in U : u.idx = i /\ u.seq = seq /\ u.num = n}
Amount(U, i, seq, n) == SumFunctionOnSet([u \in U |-> u.adj], Holding(U, i, seq, n))
Amounts(owner, i, seq, n) == [p \in Procs |-> Amount(owner[p], i, seq, n)]
Level(i) ==
  sem[i].inuse /\ exact[i] =>
    \A n \in Nums : sem[i].val[n] = SumFunctionOnSet(Amounts(undo, i, sem[i].seq, n), Procs)

UndoInv == Undos /\ Values /\ \A i \in SemSlots : Level(i)

(* No list changes a semaphore twice.                                      *)
ChangesOnce ==
  \A ops \in OpLists, n \in Nums : \A j, k \in On(ops, n) :
    ops[j].op # 0 /\ ops[k].op # 0 => j = k

-----------------------------------------------------------------------------
(* What an adjustment is worth.                                            *)
LEMMA AmountIs ==
  ASSUME NEW U, U \subseteq UndoRecord, OneRecord(U), NEW i, NEW seq, NEW n
  PROVE  /\ Amount(U, i, seq, n) \in Int
         /\ Holding(U, i, seq, n) = {} => Amount(U, i, seq, n) = 0
         /\ \A u \in Holding(U, i, seq, n) : Amount(U, i, seq, n) = u.adj
<1> DEFINE H == Holding(U, i, seq, n)
           f == [u \in U |-> u.adj]
<1>1. H \subseteq U /\ \A u \in H : f[u] = u.adj /\ u.adj \in Int
  BY DEF Holding, UndoRecord
<1>2. CASE H = {}
  <2>1. Amount(U, i, seq, n) = 0
    BY <1>2, SumEmpty DEF Amount
  <2> QED BY <1>2, <2>1
<1>3. ASSUME NEW u \in H PROVE Amount(U, i, seq, n) = u.adj
  <2>1. \A v \in H : v = u
    BY DEF Holding, OneRecord
  <2> HIDE DEF H, f
  <2>2. H = {u} /\ IsFiniteSet(H)
    <3>1. H = {u}
      BY <2>1
    <3> QED BY <3>1, FS_Singleton
  <2>3. SumFunctionOnSet(f, H) = f[u]
    BY <1>1, <2>2, SumSingle
  <2> QED BY <1>1, <2>3 DEF Amount, H, f
<1> QED BY <1>1, <1>2, <1>3

LEMMA AdjustmentIs ==
  ASSUME NEW p \in Procs, NEW i, NEW n
  PROVE  /\ Adjustment(p, i, n) = Amount(undo[p], i, sem[i].seq, n)
         /\ {u \in Adjusted(p, i) : u.num = n} = Holding(undo[p], i, sem[i].seq, n)
<1>1. {u \in Adjusted(p, i) : u.num = n} = Holding(undo[p], i, sem[i].seq, n)
  BY DEF Adjusted, Holding
<1> QED BY <1>1 DEF Adjustment, Amount

(* The invariant states what the property does.                            *)
LEMMA LevelIsBalance ==
  ASSUME UndoInv
  PROVE  UndoBalances
<1> SUFFICES ASSUME NEW i \in SemSlots, NEW n \in Nums, sem[i].inuse /\ exact[i]
             PROVE  sem[i].val[n] = SumFunction([p \in Procs |-> Adjustment(p, i, n)])
  BY DEF UndoBalances
<1>1. [p \in Procs |-> Adjustment(p, i, n)] = Amounts(undo, i, sem[i].seq, n)
  BY AdjustmentIs DEF Amounts
<1>2. DOMAIN Amounts(undo, i, sem[i].seq, n) = Procs
  BY DEF Amounts
<1> QED BY <1>1, <1>2 DEF UndoInv, Level, SumFunction

(* A step of one process moves a value and what the process takes back by  *)
(* as much.                                                                *)
Together(p, i) ==
  /\ sem[i].inuse /\ exact[i] /\ sem'[i].seq = sem[i].seq
  /\ \A n \in Nums : Amount(undo'[p], i, sem[i].seq, n) =
                       Amount(undo[p], i, sem[i].seq, n) + (sem'[i].val[n] - sem[i].val[n])
Starts(i) ==
  /\ ~sem[i].inuse /\ sem'[i].seq = sem[i].seq /\ undo' = undo
  /\ \A n \in Nums : sem'[i].val[n] = 0

LEMMA LevelKept ==
  ASSUME UndoInv, Undos', Values', NEW p \in Procs, NEW i \in SemSlots,
         \A q \in Procs : q # p => undo'[q] = undo[q],
         sem'[i].inuse /\ exact'[i] => Together(p, i) \/ Starts(i)
  PROVE  Level(i)'
<1> SUFFICES ASSUME sem'[i].inuse, exact'[i], NEW n \in Nums
             PROVE  sem'[i].val[n] = SumFunctionOnSet(Amounts(undo', i, sem'[i].seq, n), Procs)
  BY DEF Level
<1>0. IsFiniteSet(Procs)
  BY SysvAssumption
<1>1. \A q \in Procs : /\ undo[q] \subseteq UndoRecord /\ OneRecord(undo[q])
                       /\ undo'[q] \subseteq UndoRecord /\ OneRecord(undo'[q])
  BY DEF UndoInv, Undos
<1>2. CASE Together(p, i)
  <2> DEFINE s == sem[i].seq
             f == Amounts(undo, i, s, n)
             g == Amounts(undo', i, s, n)
             d == sem'[i].val[n] - sem[i].val[n]
  <2>1. sem[i].val[n] \in Int /\ sem'[i].val[n] \in Int /\ d \in Int
    BY SemAssumption DEF UndoInv, Values
  <2>2. \A q \in Procs : f[q] = Amount(undo[q], i, s, n) /\ g[q] = Amount(undo'[q], i, s, n)
    BY DEF Amounts
  <2>3. \A q \in Procs : f[q] \in Int /\ g[q] \in Int
    BY <1>1, <2>2, AmountIs
  <2>4. g[p] = f[p] + d
    BY <1>2, <2>2 DEF Together
  <2>5. \A q \in Procs : q # p => g[q] = f[q]
    BY <2>2
  <2>6. sem[i].val[n] = SumFunctionOnSet(f, Procs)
    BY <1>2 DEF Together, UndoInv, Level
  <2>7. sem'[i].seq = s
    BY <1>2 DEF Together
  <2> HIDE DEF f, g, d
  <2>8. SumFunctionOnSet(g, Procs) = SumFunctionOnSet(f, Procs) + d
    BY <1>0, <2>1, <2>3, <2>4, <2>5, SumMoves
  <2>9. sem'[i].val[n] = SumFunctionOnSet(g, Procs)
    BY <2>1, <2>6, <2>8 DEF d
  <2> QED BY <2>7, <2>9 DEF g
<1>3. CASE Starts(i)
  <2> DEFINE s == sem[i].seq
             g == Amounts(undo', i, s, n)
  <2>1. \A q \in Procs : Holding(undo'[q], i, s, n) = {}
    <3> SUFFICES ASSUME NEW q \in Procs, NEW u \in undo[q], u.idx = i PROVE u.seq # s
      BY <1>3 DEF Holding, Starts
    <3>1. Older(sem[i], u.seq)
      BY DEF UndoInv, Undos, Known
    <3>2. u.seq < sem[i].seq
      BY <1>3, <3>1 DEF Older, Starts
    <3>3. u.seq \in Nat
      BY <1>1 DEF UndoRecord
    <3> QED BY <3>2, <3>3
  <2>2. \A q \in Procs : g[q] = 0
    BY <1>1, <2>1, AmountIs DEF Amounts
  <2>3. SumFunctionOnSet(g, Procs) = 0
    <3> HIDE DEF g
    <3> QED BY <1>0, <2>2, SumZero
  <2> QED BY <1>3, <2>3 DEF Starts
<1> QED BY <1>2, <1>3

LEMMA KnownKept ==
  ASSUME SemTypes, SemTypes', \A i \in SemSlots : SemEvolves(i),
         NEW U, U \subseteq UndoRecord, Known(U, sem)
  PROVE  Known(U, sem')
<1> SUFFICES ASSUME NEW u \in U PROVE Older(sem'[u.idx], u.seq)
  BY DEF Known
<1>1. u.idx \in SemSlots /\ u.seq \in Nat /\ Older(sem[u.idx], u.seq)
  BY DEF UndoRecord, Known
<1> DEFINE i == u.idx
<1>2. sem[i].seq \in Nat /\ sem'[i].seq \in Nat /\ SemEvolves(i)
  BY <1>1 DEF SemTypes, SemEntry
<1> QED BY <1>1, <1>2 DEF SemEvolves, SameSem, Older

(* The invariant after a step of process p that leaves it with V.          *)
LEMMA UndoKeeps ==
  ASSUME UndoInv, SemTypes, SemTypes', Values', \A i \in SemSlots : SemEvolves(i),
         NEW p \in Procs, NEW V, undo' = [undo EXCEPT ![p] = V],
         V \subseteq UndoRecord, OneRecord(V), Known(V, sem'),
         \A q \in Procs : proc'[q] # "live" => IF q = p THEN V = {} ELSE proc[q] # "live",
         \A i \in SemSlots : sem'[i].inuse /\ exact'[i] => Together(p, i) \/ Starts(i)
  PROVE  UndoInv'
<1>1. undo \in [Procs -> SUBSET UndoRecord]
  BY DEF UndoInv, Undos
<1>2. undo'[p] = V /\ \A q \in Procs : q # p => undo'[q] = undo[q]
  BY <1>1
<1>3. Undos'
  <2>1. undo' \in [Procs -> SUBSET UndoRecord]
    BY <1>1
  <2>2. ASSUME NEW q \in Procs PROVE OneRecord(undo'[q]) /\ Known(undo'[q], sem')
    <3>1. CASE q = p
      BY <1>2, <3>1
    <3>2. CASE q # p
      <4>1. undo'[q] = undo[q] /\ undo[q] \subseteq UndoRecord /\ OneRecord(undo[q])
            /\ Known(undo[q], sem)
        BY <1>1, <1>2, <3>2 DEF UndoInv, Undos
      <4> QED BY <4>1, KnownKept
    <3> QED BY <3>1, <3>2
  <2>3. \A q \in Procs : proc'[q] # "live" => undo'[q] = {}
    BY <1>2 DEF UndoInv, Undos
  <2> QED BY <2>1, <2>2, <2>3 DEF Undos
<1>4. \A i \in SemSlots : Level(i)'
  BY <1>2, <1>3, LevelKept
<1> QED BY <1>3, <1>4 DEF UndoInv

(* Some of the adjustments of a process.                                   *)
LEMMA PartOfUndo ==
  ASSUME UndoInv, NEW p \in Procs, NEW V, V \subseteq undo[p]
  PROVE  V \subseteq UndoRecord /\ OneRecord(V) /\ Known(V, sem)
<1>1. undo[p] \subseteq UndoRecord /\ OneRecord(undo[p]) /\ Known(undo[p], sem)
  BY DEF UndoInv, Undos
<1> QED BY <1>1 DEF OneRecord, Known

LEMMA AmountType ==
  ASSUME UndoInv, NEW p \in Procs, NEW i, NEW seq, NEW n
  PROVE  Amount(undo[p], i, seq, n) \in Int
<1>1. undo[p] \subseteq UndoRecord /\ OneRecord(undo[p])
  BY DEF UndoInv, Undos
<1> QED BY <1>1, AmountIs

LEMMA ValueType ==
  ASSUME UndoInv, NEW i \in SemSlots, NEW n \in Nums
  PROVE  sem[i].val[n] \in 0 .. SemMax /\ sem[i].val[n] \in Int
BY SemAssumption DEF UndoInv, Values

(* Steps that leave values and adjustments alone.                          *)
LEMMA UndoQuiet ==
  ASSUME UndoInv, SemTypes, SemTypes', undo' = undo, exact' = exact,
         \A i \in SemSlots : SameSem(sem'[i], sem[i]) /\ sem'[i].val = sem[i].val,
         \A q \in Procs : proc'[q] # "live" => proc[q] # "live"
  PROVE  UndoInv'
<1>1. PICK p \in Procs : TRUE
  BY SysvAssumption
<1> DEFINE V == undo[p]
<1>2. undo' = [undo EXCEPT ![p] = V]
  BY DEF UndoInv, Undos
<1>3. Values' /\ \A i \in SemSlots : SemEvolves(i)
  BY DEF UndoInv, Values, SemEvolves
<1>4. V \subseteq UndoRecord /\ OneRecord(V) /\ Known(V, sem)
  BY PartOfUndo
<1>5. Known(V, sem')
  BY <1>3, <1>4, KnownKept
<1>6. \A q \in Procs : proc'[q] # "live" => IF q = p THEN V = {} ELSE proc[q] # "live"
  BY DEF UndoInv, Undos
<1>7. ASSUME NEW i \in SemSlots, sem'[i].inuse, exact'[i] PROVE Together(p, i)
  <2>1. \A n \in Nums : Amount(undo[p], i, sem[i].seq, n) \in Int /\ sem[i].val[n] \in Int
    BY AmountType, ValueType
  <2> QED BY <1>7, <2>1 DEF Together, SameSem
<1> HIDE DEF V
<1> QED BY <1>2, <1>3, <1>4, <1>5, <1>6, <1>7, UndoKeeps

(* svc_semget.                                                             *)
LEMMA SemgetUndo ==
  ASSUME UndoInv, SemTypes, SemTypes', NEW p \in Procs, NEW i \in SemSlots, Semget(p, i),
         proc' = proc
  PROVE  UndoInv'
<1>1. PICK key \in Keys, shared \in Modes :
        sem' = [sem EXCEPT ![i] = Created(FreeSem(sem[i].seq), p, key, shared)]
  BY DEF Semget
<1>2. /\ undo' = undo /\ ~sem[i].inuse /\ sem[i].seq \in Nat
      /\ exact' = [exact EXCEPT ![i] = TRUE]
  BY DEF Semget, FirstFree, SemTypes, SemEntry
<1>3. /\ sem'[i].inuse /\ sem'[i].seq = sem[i].seq /\ sem'[i].val = [n \in Nums |-> 0]
      /\ \A j \in SemSlots : j # i => sem'[j] = sem[j]
  BY <1>1 DEF Created, FreeSem, SemTypes
<1>4. Values'
  BY <1>2, <1>3, SemAssumption DEF UndoInv, Values
<1>5. \A j \in SemSlots : SemEvolves(j)
  BY <1>2, <1>3 DEF SemEvolves, SameSem
<1> DEFINE V == undo[p]
<1>6. undo' = [undo EXCEPT ![p] = V]
  BY <1>2 DEF UndoInv, Undos
<1>7. V \subseteq UndoRecord /\ OneRecord(V) /\ Known(V, sem)
  BY PartOfUndo
<1>8. Known(V, sem')
  BY <1>5, <1>7, KnownKept
<1>9. \A q \in Procs : proc'[q] # "live" => IF q = p THEN V = {} ELSE proc[q] # "live"
  BY DEF UndoInv, Undos
<1>10. Starts(i)
  BY <1>2, <1>3 DEF Starts
<1>11. ASSUME NEW j \in SemSlots, j # i, sem'[j].inuse, exact'[j] PROVE Together(p, j)
  <2>1. \A n \in Nums : Amount(undo[p], j, sem[j].seq, n) \in Int /\ sem[j].val[n] \in Int
    BY AmountType, ValueType
  <2>2. exact[j]
    BY <1>2, <1>11 DEF UndoInv, Values
  <2> QED BY <1>2, <1>3, <1>11, <2>1, <2>2 DEF Together
<1> HIDE DEF V
<1>12. \A j \in SemSlots : sem'[j].inuse /\ exact'[j] => Together(p, j) \/ Starts(j)
  BY <1>10, <1>11
<1> QED BY <1>4, <1>5, <1>6, <1>7, <1>8, <1>9, <1>12, UndoKeeps

(* A process drops adjustments of one set, which is not exact any more, or *)
(* is gone.                                                                *)
LEMMA ClearedUndo ==
  ASSUME UndoInv, SemTypes, SemTypes', Values', NEW p \in Procs, NEW i \in SemSlots,
         NEW nums, undo' = [undo EXCEPT ![p] = Cleared(p, i, nums)], proc' = proc,
         SemEvolves(i), ~(sem'[i].inuse /\ exact'[i]),
         \A j \in SemSlots : j # i => sem'[j] = sem[j] /\ exact'[j] = exact[j]
  PROVE  UndoInv'
<1> DEFINE V == Cleared(p, i, nums)
<1>1. V \subseteq undo[p]
  BY DEF Cleared
<1>2. V \subseteq UndoRecord /\ OneRecord(V) /\ Known(V, sem)
  BY <1>1, PartOfUndo
<1>3. \A j \in SemSlots : SemEvolves(j)
  BY DEF SemEvolves, SameSem
<1>4. Known(V, sem')
  BY <1>2, <1>3, KnownKept
<1>5. \A q \in Procs : proc'[q] # "live" => IF q = p THEN V = {} ELSE proc[q] # "live"
  BY <1>1 DEF UndoInv, Undos
<1>6. ASSUME NEW j \in SemSlots, sem'[j].inuse, exact'[j] PROVE Together(p, j)
  <2>1. j # i /\ sem'[j] = sem[j] /\ exact'[j] = exact[j]
    BY <1>6
  <2>2. undo'[p] = V
    BY DEF UndoInv, Undos
  <2>4. ASSUME NEW n \in Nums
        PROVE  Amount(undo'[p], j, sem[j].seq, n) =
                 Amount(undo[p], j, sem[j].seq, n) + (sem'[j].val[n] - sem[j].val[n])
    <3> DEFINE U == undo[p]
               s == sem[j].seq
    <3>1. Holding(V, j, s, n) = Holding(U, j, s, n)
      BY <2>1 DEF Holding, Cleared, Adjusted
    <3>2. U \subseteq UndoRecord /\ OneRecord(U)
      BY PartOfUndo
    <3>3. Amount(U, j, s, n) \in Int /\ sem[j].val[n] \in Int
      BY AmountType, ValueType
    <3> HIDE DEF U, s, V
    <3>4. Amount(V, j, s, n) = Amount(U, j, s, n)
      <4>1. CASE Holding(U, j, s, n) = {}
        BY <1>2, <3>1, <3>2, <4>1, AmountIs
      <4>2. CASE Holding(U, j, s, n) # {}
        <5>1. PICK u : u \in Holding(U, j, s, n)
          BY <4>2
        <5> QED BY <1>2, <3>1, <3>2, <5>1, AmountIs
      <4> QED BY <4>1, <4>2
    <3> QED BY <2>1, <2>2, <3>3, <3>4 DEF U, s
  <2> QED BY <1>6, <2>1, <2>4 DEF Together
<1> HIDE DEF V
<1>7. undo' = [undo EXCEPT ![p] = V]
  BY DEF V
<1> QED BY <1>2, <1>3, <1>4, <1>5, <1>6, <1>7, UndoKeeps

(* svc_semctl: SETVAL and SETALL, IPC_RMID.                                *)
LEMMA SemctlUndo ==
  ASSUME UndoInv, SemTypes, SemTypes', NEW p \in Procs, NEW i \in SemSlots, proc' = proc,
         SemSetValues(p, i) \/ SemRmid(p, i)
  PROVE  UndoInv'
<1>1. CASE SemSetValues(p, i)
  <2>1. PICK v \in SetValues, nums \in {{n} : n \in Nums} \cup {Nums} :
          /\ sem' = [sem EXCEPT ![i].val = [n \in Nums |-> IF n \in nums THEN v ELSE sem[i].val[n]]]
          /\ undo' = [undo EXCEPT ![p] = Cleared(p, i, nums)]
    BY <1>1 DEF SemSetValues
  <2>2. exact' = [exact EXCEPT ![i] = FALSE]
    BY <1>1 DEF SemSetValues
  <2>3. exact'[i] = FALSE /\ \A j \in SemSlots : j # i => sem'[j] = sem[j] /\ exact'[j] = exact[j]
    BY <2>1, <2>2 DEF UndoInv, Values, SemTypes
  <2>4. /\ sem'[i].inuse = sem[i].inuse /\ sem'[i].seq = sem[i].seq
        /\ sem'[i].val = [n \in Nums |-> IF n \in nums THEN v ELSE sem[i].val[n]]
    <3> DEFINE w == [n \in Nums |-> IF n \in nums THEN v ELSE sem[i].val[n]]
    <3> HIDE DEF w
    <3>1. sem' = [sem EXCEPT ![i].val = w]
      BY <2>1 DEF w
    <3>2. SemEntry(sem[i])
      BY DEF SemTypes
    <3>3. sem'[i].inuse = sem[i].inuse /\ sem'[i].seq = sem[i].seq /\ sem'[i].val = w
      BY <3>1, <3>2 DEF SemTypes, SemEntry
    <3> QED BY <3>3 DEF w
  <2>5. v \in 0 .. SemMax
    BY SemAssumption
  <2>6. Values'
    BY <2>2, <2>3, <2>4, <2>5 DEF UndoInv, Values
  <2>7. SemEvolves(i)
    BY <2>4 DEF SemEvolves, SameSem
  <2> QED BY <2>1, <2>3, <2>6, <2>7, ClearedUndo
<1>2. CASE SemRmid(p, i)
  <2>1. /\ sem' = [sem EXCEPT ![i] = FreeSem(sem[i].seq + 1)] /\ sem[i].inuse
        /\ undo' = [undo EXCEPT ![p] = Cleared(p, i, Nums)] /\ exact' = exact
    BY <1>2 DEF SemRmid
  <2>2. /\ sem'[i].inuse = FALSE /\ sem'[i].seq = sem[i].seq + 1
        /\ sem'[i].val = [n \in Nums |-> 0]
        /\ \A j \in SemSlots : j # i => sem'[j] = sem[j]
    BY <2>1 DEF FreeSem, SemTypes
  <2>3. Values'
    BY <2>1, <2>2, SemAssumption DEF UndoInv, Values
  <2>4. SemEvolves(i)
    BY <2>1, <2>2 DEF SemEvolves
  <2> QED BY <2>1, <2>2, <2>3, <2>4, ClearedUndo
<1> QED BY <1>1, <1>2

(* sysv_after_exec, and the death of a process without its hook.           *)
LEMMA ForgetKeeps ==
  ASSUME UndoInv, SemTypes, SemTypes', sem' = sem, NEW p \in Procs, ForgetUndo(p),
         \A q \in Procs : proc'[q] # "live" /\ q # p => proc[q] # "live"
  PROVE  UndoInv'
<1> DEFINE V == {}
<1>1. V \subseteq UndoRecord /\ OneRecord(V) /\ Known(V, sem')
  BY DEF OneRecord, Known
<1>2. undo' = [undo EXCEPT ![p] = V] /\ undo'[p] = {}
  BY DEF ForgetUndo, UndoInv, Undos
<1>3. \A j \in SemSlots : SemEvolves(j)
  BY DEF SemEvolves, SameSem
<1>4. exact' = [i \in SemSlots |-> exact[i] /\ \A u \in Adjusted(p, i) : u.adj = 0]
  BY DEF ForgetUndo
<1>5. Values'
  BY <1>4 DEF UndoInv, Values
<1>6. ASSUME NEW i \in SemSlots, sem'[i].inuse, exact'[i] PROVE Together(p, i)
  <2>1. exact[i] /\ \A u \in Adjusted(p, i) : u.adj = 0
    BY <1>4, <1>6
  <2>2. ASSUME NEW n \in Nums
        PROVE  Amount(undo[p], i, sem[i].seq, n) = 0 /\ Amount(undo'[p], i, sem[i].seq, n) = 0
    <3> DEFINE U == undo[p]
               s == sem[i].seq
    <3>1. U \subseteq UndoRecord /\ OneRecord(U)
      BY PartOfUndo
    <3>2. \A u \in Holding(U, i, s, n) : u.adj = 0
      BY <2>1 DEF Holding, Adjusted
    <3>3. Holding({}, i, s, n) = {}
      BY DEF Holding
    <3>4. Amount({}, i, s, n) = 0
      BY <1>1, <3>3, AmountIs
    <3> HIDE DEF U, s
    <3>5. Amount(U, i, s, n) = 0
      <4>1. CASE Holding(U, i, s, n) = {}
        BY <3>1, <4>1, AmountIs
      <4>2. CASE Holding(U, i, s, n) # {}
        <5>1. PICK u : u \in Holding(U, i, s, n)
          BY <4>2
        <5> QED BY <3>1, <3>2, <5>1, AmountIs
      <4> QED BY <4>1, <4>2
    <3> QED BY <1>2, <3>4, <3>5 DEF U, s
  <2>3. \A n \in Nums : sem[i].val[n] \in Int
    BY ValueType
  <2> QED BY <1>6, <2>1, <2>2, <2>3 DEF Together
<1>7. \A q \in Procs : proc'[q] # "live" => IF q = p THEN V = {} ELSE proc[q] # "live"
  OBVIOUS
<1> HIDE DEF V
<1> QED BY <1>1, <1>2, <1>3, <1>5, <1>6, <1>7, UndoKeeps

(* sysv_on_exit takes the adjustments back.                                *)
LEMMA ApplyUndoBalances ==
  ASSUME UndoInv, SemTypes, SemTypes', NEW p \in Procs, ApplyUndo(p),
         \A q \in Procs : proc'[q] # "live" /\ q # p => proc[q] # "live"
  PROVE  UndoInv'
<1> DEFINE V == {}
           W(i) == [n \in Nums |-> IF \E u \in Adjusted(p, i) : u.num = n
                                   THEN Clamp(sem[i].val[n] - Adjustment(p, i, n))
                                   ELSE sem[i].val[n]]
<1>1. V \subseteq UndoRecord /\ OneRecord(V) /\ Known(V, sem')
  BY DEF OneRecord, Known
<1>2. undo' = [undo EXCEPT ![p] = V] /\ undo'[p] = {}
  BY DEF ApplyUndo, UndoInv, Undos
<1>3. ASSUME NEW i \in SemSlots
      PROVE  /\ SameSem(sem'[i], sem[i])
             /\ sem[i].inuse => sem'[i].val = W(i)
             /\ ~sem[i].inuse => sem'[i].val = sem[i].val
  <2>1. sem'[i] = IF ~sem[i].inuse THEN sem[i] ELSE [sem[i] EXCEPT !.val = W(i)]
    BY DEF ApplyUndo
  <2>2. SemEntry(sem[i])
    BY DEF SemTypes
  <2> HIDE DEF W
  <2> QED BY <2>1, <2>2 DEF SemEntry, SameSem
<1>4. \A j \in SemSlots : SemEvolves(j)
  BY <1>3 DEF SemEvolves
<1>5. exact' = [i \in SemSlots |-> exact[i] /\ \A n \in Nums :
                  sem[i].val[n] - Adjustment(p, i, n) \in 0 .. SemMax]
  BY DEF ApplyUndo
<1>6. ASSUME NEW i \in SemSlots, NEW n \in Nums
      PROVE  /\ Adjustment(p, i, n) \in Int
             /\ (\A u \in Adjusted(p, i) : u.num # n) => Adjustment(p, i, n) = 0
             /\ Adjustment(p, i, n) = Amount(undo[p], i, sem[i].seq, n)
  <2> DEFINE U == undo[p]
             s == sem[i].seq
  <2>1. U \subseteq UndoRecord /\ OneRecord(U)
    BY PartOfUndo
  <2>2. Adjustment(p, i, n) = Amount(U, i, s, n)
    BY AdjustmentIs
  <2>3. {u \in Adjusted(p, i) : u.num = n} = Holding(U, i, s, n)
    BY AdjustmentIs
  <2> HIDE DEF U, s
  <2>4. Amount(U, i, s, n) \in Int /\ (Holding(U, i, s, n) = {} => Amount(U, i, s, n) = 0)
    BY <2>1, AmountIs
  <2> QED BY <2>2, <2>3, <2>4 DEF U, s
<1>7. \A i \in SemSlots : W(i) \in [Nums -> 0 .. SemMax]
  BY <1>6, ValueType, SemAssumption DEF Clamp
<1>8. Values'
  <2> HIDE DEF W
  <2> QED BY <1>3, <1>5, <1>7 DEF UndoInv, Values
<1>9. ASSUME NEW i \in SemSlots, sem'[i].inuse, exact'[i] PROVE Together(p, i)
  <2>1. /\ sem[i].inuse /\ exact[i] /\ sem'[i].seq = sem[i].seq /\ sem'[i].val = W(i)
        /\ \A n \in Nums : sem[i].val[n] - Adjustment(p, i, n) \in 0 .. SemMax
    BY <1>3, <1>5, <1>9 DEF SameSem
  <2>2. ASSUME NEW n \in Nums
        PROVE  Amount(undo'[p], i, sem[i].seq, n) =
                 Amount(undo[p], i, sem[i].seq, n) + (sem'[i].val[n] - sem[i].val[n])
    <3>1. Amount(undo'[p], i, sem[i].seq, n) = 0
      <4> DEFINE s == sem[i].seq
      <4>1. Holding({}, i, s, n) = {}
        BY DEF Holding
      <4> HIDE DEF s
      <4>2. Amount({}, i, s, n) = 0
        BY <1>1, <4>1, AmountIs
      <4> QED BY <1>2, <4>2 DEF s
    <3>2. sem'[i].val[n] = sem[i].val[n] - Adjustment(p, i, n)
      <4>1. sem'[i].val[n] = W(i)[n] /\ sem[i].val[n] \in Int
        BY <2>1, ValueType
      <4>2. Clamp(sem[i].val[n] - Adjustment(p, i, n)) = sem[i].val[n] - Adjustment(p, i, n)
        BY <2>1, SemAssumption DEF Clamp
      <4> QED BY <1>6, <4>1, <4>2
    <3>3. sem[i].val[n] \in Int
      BY ValueType
    <3> QED BY <1>6, <3>1, <3>2, <3>3
  <2> QED BY <2>1, <2>2 DEF Together
<1>10. \A q \in Procs : proc'[q] # "live" => IF q = p THEN V = {} ELSE proc[q] # "live"
  OBVIOUS
<1> HIDE DEF V, W
<1> QED BY <1>1, <1>2, <1>4, <1>8, <1>9, <1>10, UndoKeeps

(* What a list that can proceed adds to one semaphore.                     *)
LEMMA TotalsAre ==
  ASSUME ChangesOnce, NEW ops \in OpLists, NEW n \in Nums
  PROVE  /\ Total(ops, On(ops, n)) \in Int /\ Total(ops, UndoOps(ops, n)) \in Int
         /\ UndoOps(ops, n) = {} => Total(ops, UndoOps(ops, n)) = 0
         /\ (\A k \in DOMAIN ops : ops[k].op # 0 => ops[k].undo)
              => Total(ops, UndoOps(ops, n)) = Total(ops, On(ops, n))
         /\ \A e : e.val[n] \in 0 .. SemMax /\ Stopping(e, ops) = {}
                     => e.val[n] + Total(ops, On(ops, n)) \in 0 .. SemMax
<1> DEFINE f == [k \in DOMAIN ops |-> ops[k].op]
           A == On(ops, n)
           B == UndoOps(ops, n)
<1>1. ops \in Seq(Op)
  BY SemAssumption
<1>2. DOMAIN ops = 1 .. Len(ops) /\ Len(ops) \in Nat
  BY <1>1
<1>3. \A k \in DOMAIN ops : ops[k] \in Op
  BY <1>1, <1>2
<1>4. /\ A \subseteq DOMAIN ops /\ B \subseteq A
      /\ B = {k \in A : ops[k].undo /\ ops[k].op # 0}
  BY DEF On, UndoOps
<1>5. IsFiniteSet(A) /\ IsFiniteSet(B)
  <2>1. IsFiniteSet(DOMAIN ops)
    BY <1>2, FS_Interval
  <2> HIDE DEF A, B
  <2> QED BY <1>4, <2>1, FS_Subset
<1>6. \A k \in A : f[k] = ops[k].op /\ f[k] \in Int
  BY <1>3, <1>4 DEF Op
<1>7. Total(ops, A) = SumFunctionOnSet(f, A) /\ Total(ops, B) = SumFunctionOnSet(f, B)
  BY DEF Total
<1>8. \A j, k \in A : f[j] # 0 /\ f[k] # 0 => j = k
  BY <1>6 DEF ChangesOnce
<1>9. \A e : Stopping(e, ops) = {} =>
        \A k \in A : /\ f[k] < 0 => ~(e.val[n] + f[k] < 0)
                     /\ f[k] > 0 => ~(e.val[n] + f[k] > SemMax)
  <2> SUFFICES ASSUME NEW e, Stopping(e, ops) = {}, NEW k \in A
               PROVE  /\ f[k] < 0 => ~(e.val[n] + f[k] < 0)
                      /\ f[k] > 0 => ~(e.val[n] + f[k] > SemMax)
    OBVIOUS
  <2>1. k \in DOMAIN ops /\ ops[k].num = n
    BY DEF On
  <2>2. ~Blocks(e, ops[k]) /\ ~Exceeds(e, ops[k])
    BY <2>1 DEF Stopping
  <2> QED BY <1>6, <2>1, <2>2 DEF Blocks, Exceeds
<1>10. SumFunctionOnSet(f, A) \in Int /\ SumFunctionOnSet(f, B) \in Int
  <2> HIDE DEF f, A, B
  <2> QED BY <1>4, <1>5, <1>6, SumRemoves
<1>11. B = {} => SumFunctionOnSet(f, B) = 0
  BY SumEmpty
<1>12. CASE \A k \in A : f[k] = 0
  <2>1. SumFunctionOnSet(f, A) = 0
    <3> HIDE DEF f, A
    <3> QED BY <1>5, <1>12, SumZero
  <2>2. B = {}
    BY <1>4, <1>6, <1>12
  <2> QED BY <1>7, <1>11, <2>1, <2>2, SemAssumption
<1>13. ASSUME NEW k \in A, f[k] # 0
       PROVE  /\ SumFunctionOnSet(f, A) = f[k]
              /\ (ops[k].undo => SumFunctionOnSet(f, B) = f[k])
  <2>1. \A j \in A : j # k => f[j] = 0
    BY <1>8, <1>13
  <2>2. SumFunctionOnSet(f, A) = f[k]
    <3> HIDE DEF f, A
    <3> QED BY <1>5, <1>6, <2>1, SumSingle
  <2>3. ASSUME ops[k].undo PROVE SumFunctionOnSet(f, B) = f[k]
    <3>1. k \in B
      BY <1>4, <1>6, <1>13, <2>3
    <3> HIDE DEF f, A, B
    <3> QED BY <1>4, <1>5, <1>6, <2>1, <3>1, SumSingle
  <2> QED BY <2>2, <2>3
<1>14. CASE \E k \in A : f[k] # 0
  <2>1. PICK k \in A : f[k] # 0
    BY <1>14
  <2>2. SumFunctionOnSet(f, A) = f[k] /\ (ops[k].undo => SumFunctionOnSet(f, B) = f[k])
    BY <1>13, <2>1
  <2>3. k \in DOMAIN ops /\ ops[k].op # 0 /\ f[k] \in Int
    BY <1>4, <1>6, <2>1
  <2> HIDE DEF f, A, B
  <2>4. \A e : e.val[n] \in 0 .. SemMax /\ Stopping(e, ops) = {}
                     => e.val[n] + f[k] \in 0 .. SemMax
    <3> SUFFICES ASSUME NEW e, e.val[n] \in 0 .. SemMax, Stopping(e, ops) = {}
                 PROVE  e.val[n] + f[k] \in 0 .. SemMax
      OBVIOUS
    <3>1. /\ f[k] < 0 => ~(e.val[n] + f[k] < 0)
          /\ f[k] > 0 => ~(e.val[n] + f[k] > SemMax)
      BY <1>9, <2>1
    <3> QED BY <2>1, <2>3, <3>1, SemAssumption
  <2>5. /\ Total(ops, A) = f[k] /\ (ops[k].undo => Total(ops, B) = f[k])
        /\ Total(ops, A) \in Int /\ Total(ops, B) \in Int
        /\ B = {} => Total(ops, B) = 0
    BY <1>7, <1>10, <1>11, <2>2
  <2> QED BY <2>3, <2>4, <2>5 DEF A, B
<1> QED BY <1>12, <1>14

(* The adjustments after a list was carried out.                           *)
LEMMA RecordedIs ==
  ASSUME UndoInv, SemTypes, ChangesOnce, NEW p \in Procs, NEW i \in SemSlots,
         NEW ops \in OpLists, NEW added, added \subseteq Fresh(p, i, ops), sem[i].inuse
  PROVE  LET V == Recorded(p, i, ops, added)
             s == sem[i].seq IN
         /\ V \subseteq UndoRecord /\ OneRecord(V) /\ Known(V, sem)
         /\ \A j \in SemSlots, n \in Nums :
              j # i => Amount(V, j, sem[j].seq, n) = Amount(undo[p], j, sem[j].seq, n)
         /\ added = Fresh(p, i, ops) =>
              \A n \in Nums : Amount(V, i, s, n) =
                                Amount(undo[p], i, s, n) + Total(ops, UndoOps(ops, n))
<1> DEFINE U == undo[p]
           V == Recorded(p, i, ops, added)
           s == sem[i].seq
           T(n) == Total(ops, UndoOps(ops, n))
           Mine(u) == u.idx = i /\ u.seq = s
           Bump(u) == [u EXCEPT !.adj = IF u \in Adjusted(p, i) THEN u.adj + T(u.num) ELSE u.adj]
           New(n) == [idx |-> i, seq |-> s, num |-> n, adj |-> T(n)]
<1>1. U \subseteq UndoRecord /\ OneRecord(U) /\ Known(U, sem)
  BY PartOfUndo
<1>2. s \in Nat
  BY DEF SemTypes, SemEntry
<1>3. \A n \in Nums : T(n) \in Int /\ (UndoOps(ops, n) = {} => T(n) = 0)
  BY TotalsAre
<1>4. V = {Bump(u) : u \in U} \cup {New(n) : n \in added}
  BY DEF Recorded
<1>5. \A u \in U : u \in Adjusted(p, i) <=> Mine(u)
  BY DEF Adjusted
<1>6. \A n \in Nums : n \in Fresh(p, i, ops) <=>
        UndoOps(ops, n) # {} /\ \A u \in U : Mine(u) => u.num # n
  BY <1>5 DEF Fresh, Adjusted
<1>7. added \subseteq Nums
  BY DEF Fresh
<1>8. ASSUME NEW u \in U
      PROVE  /\ Bump(u) \in UndoRecord
             /\ Bump(u).idx = u.idx /\ Bump(u).seq = u.seq /\ Bump(u).num = u.num
             /\ Bump(u).adj = IF Mine(u) THEN u.adj + T(u.num) ELSE u.adj
  <2>1. u \in UndoRecord
    BY <1>1
  <2>2. u.num \in Nums /\ u.adj \in Int
    BY <2>1 DEF UndoRecord
  <2> DEFINE a == IF u \in Adjusted(p, i) THEN u.adj + T(u.num) ELSE u.adj
  <2> HIDE DEF T
  <2>3. a \in Int /\ a = IF Mine(u) THEN u.adj + T(u.num) ELSE u.adj
    BY <1>3, <1>5, <2>2
  <2>4. Bump(u) = [u EXCEPT !.adj = a]
    OBVIOUS
  <2> HIDE DEF a, Bump
  <2>5. /\ Bump(u) \in UndoRecord /\ Bump(u).adj = a
        /\ Bump(u).idx = u.idx /\ Bump(u).seq = u.seq /\ Bump(u).num = u.num
    BY <2>1, <2>3, <2>4 DEF UndoRecord
  <2> QED BY <2>3, <2>5
<1>9. ASSUME NEW n \in added
      PROVE  /\ New(n) \in UndoRecord /\ New(n).idx = i /\ New(n).seq = s
             /\ New(n).num = n /\ New(n).adj = T(n)
  <2> HIDE DEF T, s
  <2> QED BY <1>2, <1>3, <1>7 DEF UndoRecord
<1> HIDE DEF Bump, New, T, V
<1>10. V \subseteq UndoRecord
  BY <1>4, <1>8, <1>9
<1>11. OneRecord(V)
  <2> SUFFICES ASSUME NEW v \in V, NEW w \in V,
                      v.idx = w.idx /\ v.seq = w.seq /\ v.num = w.num
               PROVE  v = w
    BY DEF OneRecord
  <2>1. CASE \E u \in U : v = Bump(u)
    <3>1. PICK u \in U : v = Bump(u)
      BY <2>1
    <3>2. CASE \E x \in U : w = Bump(x)
      <4>1. PICK x \in U : w = Bump(x)
        BY <3>2
      <4>2. u.idx = x.idx /\ u.seq = x.seq /\ u.num = x.num
        BY <1>8, <3>1, <4>1
      <4>3. u = x
        BY <1>1, <4>2 DEF OneRecord
      <4> QED BY <3>1, <4>1, <4>3
    <3>3. CASE \E n \in added : w = New(n)
      <4>1. PICK n \in added : w = New(n)
        BY <3>3
      <4>2. Mine(u) /\ u.num = n
        BY <1>8, <1>9, <3>1, <4>1
      <4> QED BY <1>6, <1>7, <4>2
    <3> QED BY <1>4, <3>2, <3>3
  <2>2. CASE \E n \in added : v = New(n)
    <3>1. PICK n \in added : v = New(n)
      BY <2>2
    <3>2. CASE \E x \in U : w = Bump(x)
      <4>1. PICK x \in U : w = Bump(x)
        BY <3>2
      <4>2. Mine(x) /\ x.num = n
        BY <1>8, <1>9, <3>1, <4>1
      <4> QED BY <1>6, <1>7, <4>2
    <3>3. CASE \E m \in added : w = New(m)
      <4>1. PICK m \in added : w = New(m)
        BY <3>3
      <4>2. m = n
        BY <1>9, <3>1, <4>1
      <4> QED BY <3>1, <4>1, <4>2
    <3> QED BY <1>4, <3>2, <3>3
  <2> QED BY <1>4, <2>1, <2>2
<1>12. Known(V, sem)
  <2> SUFFICES ASSUME NEW v \in V PROVE Older(sem[v.idx], v.seq)
    BY DEF Known
  <2>1. CASE \E u \in U : v = Bump(u)
    BY <1>1, <1>8, <2>1 DEF Known
  <2>2. CASE \E n \in added : v = New(n)
    BY <1>2, <1>9, <2>2 DEF Older
  <2> QED BY <1>4, <2>1, <2>2
<1>13. ASSUME NEW j \in SemSlots, NEW n \in Nums, j # i
       PROVE  Amount(V, j, sem[j].seq, n) = Amount(U, j, sem[j].seq, n)
  <2> DEFINE r == sem[j].seq
  <2> HIDE DEF r, U
  <2>1. ASSUME NEW u \in Holding(U, j, r, n) PROVE Amount(V, j, r, n) = Amount(U, j, r, n)
    <3>1. u \in U /\ u.idx = j /\ u.seq = r /\ u.num = n
      BY DEF Holding
    <3>2. Bump(u) \in V /\ Bump(u).adj = u.adj /\ Bump(u).idx = j /\ Bump(u).seq = r
          /\ Bump(u).num = n
      BY <1>4, <1>8, <1>13, <3>1
    <3>3. Bump(u) \in Holding(V, j, r, n)
      BY <3>2 DEF Holding
    <3>4. Amount(V, j, r, n) = Bump(u).adj /\ Amount(U, j, r, n) = u.adj
      BY <1>1, <1>10, <1>11, <3>3, AmountIs
    <3> QED BY <3>2, <3>4
  <2>2. ASSUME Holding(U, j, r, n) = {} PROVE Amount(V, j, r, n) = Amount(U, j, r, n)
    <3>1. Holding(V, j, r, n) = {}
      <4> SUFFICES ASSUME NEW v \in V, v.idx = j, v.seq = r, v.num = n PROVE FALSE
        BY DEF Holding
      <4>1. PICK u \in U : v = Bump(u)
        BY <1>4, <1>9, <1>13
      <4>2. u \in Holding(U, j, r, n)
        BY <1>8, <4>1 DEF Holding
      <4> QED BY <2>2, <4>2
    <3> QED BY <1>1, <1>10, <1>11, <2>2, <3>1, AmountIs
  <2>3. Amount(V, j, r, n) = Amount(U, j, r, n)
    BY <2>1, <2>2
  <2> QED BY <2>3 DEF r
<1>14. ASSUME NEW n \in Nums, added = Fresh(p, i, ops)
       PROVE  Amount(V, i, s, n) = Amount(U, i, s, n) + T(n)
  <2> HIDE DEF s, U
  <2>1. ASSUME NEW u \in Holding(U, i, s, n)
        PROVE  Amount(V, i, s, n) = Amount(U, i, s, n) + T(n)
    <3>1. u \in U /\ Mine(u) /\ u.num = n
      BY DEF Holding
    <3>2. Bump(u) \in V /\ Bump(u).adj = u.adj + T(n) /\ Bump(u).idx = i /\ Bump(u).seq = s
          /\ Bump(u).num = n
      BY <1>4, <1>8, <3>1
    <3>3. Bump(u) \in Holding(V, i, s, n)
      BY <3>2 DEF Holding
    <3>4. Amount(V, i, s, n) = Bump(u).adj /\ Amount(U, i, s, n) = u.adj
      BY <1>1, <1>10, <1>11, <3>3, AmountIs
    <3> QED BY <3>2, <3>4
  <2>2. CASE Holding(U, i, s, n) = {}
    <3>1. Amount(U, i, s, n) = 0
      BY <1>1, <2>2, AmountIs
    <3>2. \A u \in U : Mine(u) => u.num # n
      BY <2>2 DEF Holding
    <3>3. CASE UndoOps(ops, n) = {}
      <4>1. n \notin added /\ T(n) = 0
        BY <1>3, <1>6, <1>14, <3>3
      <4>2. Holding(V, i, s, n) = {}
        <5> SUFFICES ASSUME NEW v \in V, v.idx = i, v.seq = s, v.num = n PROVE FALSE
          BY DEF Holding
        <5>1. PICK u \in U : v = Bump(u)
          BY <1>4, <1>9, <4>1
        <5> QED BY <1>8, <3>2, <5>1
      <4>3. Amount(V, i, s, n) = 0
        BY <1>10, <1>11, <4>2, AmountIs
      <4> QED BY <3>1, <4>1, <4>3
    <3>4. CASE UndoOps(ops, n) # {}
      <4>1. n \in added
        BY <1>6, <1>14, <3>2, <3>4
      <4>2. New(n) \in Holding(V, i, s, n)
        BY <1>4, <1>9, <4>1 DEF Holding
      <4>3. Amount(V, i, s, n) = T(n)
        BY <1>9, <1>10, <1>11, <4>1, <4>2, AmountIs
      <4> QED BY <1>3, <3>1, <4>3
    <3> QED BY <3>3, <3>4
  <2> QED BY <2>1, <2>2
<1> QED BY <1>10, <1>11, <1>12, <1>13, <1>14 DEF T, V

(* svc_semop: a list is carried out, on the first pass or after a wait.    *)
LEMMA PerformUndo ==
  ASSUME UndoInv, SemTypes, SemTypes', ChangesOnce, NEW p \in Procs, NEW i \in SemSlots,
         NEW ops \in OpLists, NEW e, SemEntry(e), SameSem(e, sem[i]), e.val = sem[i].val,
         sem[i].inuse, Verdict(sem[i], ops) = "proceed", SemPerform(p, i, ops, e),
         proc[p] = "live", proc' = proc
  PROVE  UndoInv'
<1>1. PICK added \in SUBSET Fresh(p, i, ops) :
        /\ sem' = [sem EXCEPT ![i] = Applied(e, ops)]
        /\ undo' = [undo EXCEPT ![p] = Recorded(p, i, ops, added)]
        /\ exact' = [exact EXCEPT ![i] = /\ exact[i] /\ added = Fresh(p, i, ops)
                                         /\ \A k \in DOMAIN ops : ops[k].op # 0 => ops[k].undo]
  BY DEF SemPerform
<1> DEFINE V == Recorded(p, i, ops, added)
           s == sem[i].seq
           A(n) == Total(ops, On(ops, n))
           w == [n \in Nums |-> (e.val[n] + A(n)) % Width]
<1>2. /\ V \subseteq UndoRecord /\ OneRecord(V) /\ Known(V, sem)
      /\ \A j \in SemSlots, n \in Nums :
           j # i => Amount(V, j, sem[j].seq, n) = Amount(undo[p], j, sem[j].seq, n)
      /\ added = Fresh(p, i, ops) =>
           \A n \in Nums : Amount(V, i, s, n) =
                             Amount(undo[p], i, s, n) + Total(ops, UndoOps(ops, n))
  BY RecordedIs
<1>3. Stopping(sem[i], ops) = {}
  BY DEF Verdict
<1>4. \A n \in Nums : /\ A(n) \in Int /\ sem[i].val[n] \in Int
                      /\ sem[i].val[n] + A(n) \in 0 .. SemMax
  <2> TAKE n \in Nums
  <2>1. sem[i].val[n] \in 0 .. SemMax /\ sem[i].val[n] \in Int
    BY ValueType
  <2> QED BY <1>3, <2>1, TotalsAre
<1>5. \A n \in Nums : w[n] = sem[i].val[n] + A(n)
  <2> TAKE n \in Nums
  <2>1. w[n] = (sem[i].val[n] + A(n)) % Width
    OBVIOUS
  <2>2. ASSUME NEW x \in 0 .. SemMax PROVE x % Width = x
    <3>1. x \in Int /\ 0 <= x /\ x < 65536
      BY SemAssumption DEF Width
    <3> HIDE DEF w
    <3> QED BY <3>1, SMTT(60) DEF Width
  <2> QED BY <1>4, <2>1, <2>2
<1>6. Applied(e, ops) = [e EXCEPT !.val = w]
  BY DEF Applied
<1>7. w \in [Nums -> 0 .. SemMax]
  <2>1. w = [n \in Nums |-> w[n]]
    OBVIOUS
  <2> HIDE DEF w, A
  <2> QED BY <1>4, <1>5, <2>1
<1> HIDE DEF w, A, V
<1>8. /\ SameSem(sem'[i], sem[i]) /\ sem'[i].val = w
      /\ \A j \in SemSlots : j # i => sem'[j] = sem[j]
  <2>1. sem' = [sem EXCEPT ![i] = [e EXCEPT !.val = w]]
    BY <1>1, <1>6
  <2>2. sem'[i] = [e EXCEPT !.val = w] /\ \A j \in SemSlots : j # i => sem'[j] = sem[j]
    BY <2>1 DEF SemTypes
  <2> QED BY <2>2 DEF SameSem, SemEntry
<1>9. \A j \in SemSlots : SemEvolves(j)
  BY <1>8 DEF SemEvolves, SameSem
<1>10. exact \in [SemSlots -> BOOLEAN]
  BY DEF UndoInv, Values
<1>11. /\ exact' \in [SemSlots -> BOOLEAN]
       /\ \A j \in SemSlots : j # i => exact'[j] = exact[j]
       /\ exact'[i] => /\ exact[i] /\ added = Fresh(p, i, ops)
                       /\ \A k \in DOMAIN ops : ops[k].op # 0 => ops[k].undo
  <2> DEFINE b == /\ exact[i] /\ added = Fresh(p, i, ops)
                  /\ \A k \in DOMAIN ops : ops[k].op # 0 => ops[k].undo
  <2>1. exact' = [exact EXCEPT ![i] = b] /\ b \in BOOLEAN
    BY <1>1
  <2>2. b => /\ exact[i] /\ added = Fresh(p, i, ops)
             /\ \A k \in DOMAIN ops : ops[k].op # 0 => ops[k].undo
    OBVIOUS
  <2> HIDE DEF b
  <2> QED BY <1>10, <2>1, <2>2
<1>12. Values'
  BY <1>7, <1>8, <1>11 DEF UndoInv, Values
<1>13. Known(V, sem')
  BY <1>2, <1>9, KnownKept
<1>14. undo' = [undo EXCEPT ![p] = V] /\ undo'[p] = V
  BY <1>1 DEF UndoInv, Undos, V
<1>15. \A q \in Procs : proc'[q] # "live" => IF q = p THEN V = {} ELSE proc[q] # "live"
  OBVIOUS
<1>16. ASSUME NEW j \in SemSlots, sem'[j].inuse, exact'[j] PROVE Together(p, j)
  <2>1. \A n \in Nums : Amount(undo[p], j, sem[j].seq, n) \in Int /\ sem[j].val[n] \in Int
    BY AmountType, ValueType
  <2>2. CASE j # i
    BY <1>2, <1>8, <1>11, <1>14, <1>16, <2>1, <2>2 DEF Together
  <2>3. CASE j = i
    <3>1. /\ exact[i] /\ added = Fresh(p, i, ops)
          /\ \A k \in DOMAIN ops : ops[k].op # 0 => ops[k].undo
      BY <1>11, <1>16, <2>3
    <3>2. \A n \in Nums : Total(ops, UndoOps(ops, n)) = A(n)
      BY <3>1, TotalsAre DEF A
    <3>3. \A n \in Nums : Amount(V, i, s, n) = Amount(undo[p], i, s, n) + A(n)
      BY <1>2, <3>1, <3>2
    <3>4. \A n \in Nums : A(n) = sem'[i].val[n] - sem[i].val[n]
      BY <1>4, <1>5, <1>8
    <3>5. sem'[i].seq = s
      BY <1>8 DEF SameSem
    <3> QED BY <1>14, <2>3, <3>1, <3>3, <3>4, <3>5 DEF Together
  <2> QED BY <2>2, <2>3
<1> QED BY <1>2, <1>9, <1>12, <1>13, <1>14, <1>15, <1>16, UndoKeeps

(* Marks do not touch the values.                                          *)
LEMMA MarksKeepValues ==
  ASSUME NEW e, SemEntry(e), NEW ops \in OpLists
  PROVE  Marked(e, ops).val = e.val /\ Unmarked(e, ops).val = e.val
BY DEF Marked, Unmarked, SemEntry

LEMMA SemopUndo ==
  ASSUME UndoInv, SemInv, SemTypes', ChangesOnce, NEW p \in Procs, NEW i \in SemSlots,
         Semop(p, i), proc[p] = "live", proc' = proc
  PROVE  UndoInv'
<1>1. SemTypes /\ SemEntry(sem[i]) /\ sem[i].inuse
  BY DEF SemInv, SemTypes, Semop
<1>2. PICK ops \in OpLists :
        \/ Verdict(sem[i], ops) = "proceed" /\ SemPerform(p, i, ops, sem[i])
        \/ sem' = [sem EXCEPT ![i] = Marked(sem[i], ops)] /\ undo' = undo /\ exact' = exact
  BY DEF Semop
<1>3. CASE Verdict(sem[i], ops) = "proceed" /\ SemPerform(p, i, ops, sem[i])
  BY <1>1, <1>3, PerformUndo DEF SameSem
<1>4. CASE sem' = [sem EXCEPT ![i] = Marked(sem[i], ops)] /\ undo' = undo /\ exact' = exact
  <2>1. /\ sem'[i] = Marked(sem[i], ops)
        /\ \A j \in SemSlots : j # i => sem'[j] = sem[j]
    BY <1>1, <1>4 DEF SemTypes
  <2>2. SameSem(sem'[i], sem[i]) /\ sem'[i].val = sem[i].val
    BY <1>1, <2>1, SemMarks, MarksKeepValues
  <2>3. \A j \in SemSlots : SameSem(sem'[j], sem[j]) /\ sem'[j].val = sem[j].val
    BY <2>1, <2>2 DEF SameSem
  <2> QED BY <1>1, <1>4, <2>3, UndoQuiet
<1> QED BY <1>2, <1>3, <1>4

LEMMA SemLeaveUndo ==
  ASSUME UndoInv, SemInv, SemTypes', ChangesOnce, NEW p \in Procs,
         SemRetry(p) \/ SemGiveUp(p), proc[p] = "live", proc' = proc
  PROVE  UndoInv'
<1> DEFINE i == semCall[p].idx
           ops == semCall[p].ops
<1>1. semCall[p].step = "wait"
  BY DEF SemRetry, SemGiveUp
<1>2. SemTypes /\ i \in SemSlots /\ ops \in OpLists /\ SemEntry(sem[i])
  BY <1>1 DEF SemInv, Waiters, SemTypes
<1>3. \/ sem' = sem /\ undo' = undo /\ exact' = exact
      \/ sem' = [sem EXCEPT ![i] = Unmarked(sem[i], ops)] /\ undo' = undo /\ exact' = exact
      \/ /\ SemById(i, semCall[p].seq) /\ Verdict(sem[i], ops) = "proceed"
         /\ SemPerform(p, i, ops, Unmarked(sem[i], ops))
  BY DEF SemRetry, SemGiveUp
<1> HIDE DEF i, ops
<1>4. CASE sem' = sem /\ undo' = undo /\ exact' = exact
  BY <1>2, <1>4, UndoQuiet DEF SameSem
<1>5. /\ SameSem(Unmarked(sem[i], ops), sem[i]) /\ Unmarked(sem[i], ops).val = sem[i].val
      /\ SemEntry(Unmarked(sem[i], ops))
  BY <1>2, SemMarks, MarksKeepValues
<1>6. CASE sem' = [sem EXCEPT ![i] = Unmarked(sem[i], ops)] /\ undo' = undo /\ exact' = exact
  <2>1. /\ sem'[i] = Unmarked(sem[i], ops)
        /\ \A j \in SemSlots : j # i => sem'[j] = sem[j]
    BY <1>2, <1>6 DEF SemTypes
  <2>2. \A j \in SemSlots : SameSem(sem'[j], sem[j]) /\ sem'[j].val = sem[j].val
    BY <1>5, <2>1 DEF SameSem
  <2> QED BY <1>2, <1>6, <2>2, UndoQuiet
<1>7. CASE /\ SemById(i, semCall[p].seq) /\ Verdict(sem[i], ops) = "proceed"
           /\ SemPerform(p, i, ops, Unmarked(sem[i], ops))
  BY <1>2, <1>5, <1>7, PerformUndo DEF SemById
<1> QED BY <1>3, <1>4, <1>6, <1>7

LEMMA SemSetUndo ==
  ASSUME UndoInv, SemTypes, SemTypes', NEW p \in Procs, NEW i \in SemSlots, SemSet(p, i),
         proc' = proc
  PROVE  UndoInv'
<1>1. PICK uid \in Owners, shared \in Modes :
        sem' = [sem EXCEPT ![i] = WithPerm(sem[i], uid, shared)]
  BY DEF SemSet
<1>2. undo' = undo /\ exact' = exact
  BY DEF SemSet
<1>3. /\ sem'[i] = WithPerm(sem[i], uid, shared)
      /\ \A j \in SemSlots : j # i => sem'[j] = sem[j]
  BY <1>1 DEF SemTypes
<1>4. SameSem(sem'[i], sem[i]) /\ sem'[i].val = sem[i].val
  <2>1. SemEntry(sem[i])
    BY DEF SemTypes
  <2> QED BY <1>3, <2>1 DEF WithPerm, SameSem, SemEntry
<1>5. \A j \in SemSlots : SameSem(sem'[j], sem[j]) /\ sem'[j].val = sem[j].val
  BY <1>3, <1>4 DEF SameSem
<1> QED BY <1>2, <1>5, UndoQuiet

LEMMA UndoStarts ==
  ASSUME Init
  PROVE  UndoInv
<1> USE DEF Init, SemInit
<1>1. Undos
  BY DEF Undos, OneRecord, Known
<1>2. Values
  BY SemAssumption DEF Values, FreeSem
<1>3. \A i \in SemSlots : Level(i)
  BY DEF Level, FreeSem
<1> QED BY <1>1, <1>2, <1>3 DEF UndoInv

(* Every step, by its actor.                                               *)
LEMMA UndoPreserved ==
  ASSUME ChangesOnce, ProcTypeOK, SemInv, SemInv', UndoInv, [Next]_vars
  PROVE  UndoInv'
<1>0. SemTypes /\ SemTypes'
  BY DEF SemInv
<1>1. ASSUME UNCHANGED semVars, \A q \in Procs : proc'[q] # "live" => proc[q] # "live"
      PROVE  UndoInv'
  BY <1>0, <1>1, UndoQuiet DEF semVars, SameSem
<1>2. CASE UNCHANGED vars
  BY <1>1, <1>2 DEF vars
<1>3. ASSUME NEW p \in Procs, Shm(p) \/ Msg(p) PROVE UndoInv'
  BY <1>1, <1>3 DEF Shm, Msg
<1>4. ASSUME NEW p \in Procs, Sem(p) PROVE UndoInv'
  <2>1. proc' = proc /\ proc[p] = "live"
    BY <1>4 DEF Sem, Ready
  <2>2. CASE SemRequest(p)
    BY <1>0, <2>1, <2>2, SemgetUndo, SemopUndo, SemctlUndo, SemSetUndo DEF SemRequest
  <2>3. CASE SemRetry(p) \/ SemGiveUp(p)
    BY <1>0, <2>1, <2>3, SemLeaveUndo
  <2> QED BY <1>4, <2>2, <2>3 DEF Sem
<1>5. ASSUME NEW p \in Procs, NEW c \in Procs, Fork(p, c) PROVE UndoInv'
  <2>1. /\ proc[c] = "absent" /\ proc' = [proc EXCEPT ![c] = "live"]
        /\ undo' = [undo EXCEPT ![c] = {}] /\ sem' = sem /\ exact' = exact
    BY <1>5 DEF Fork, ForkUndo
  <2>2. undo[c] = {} /\ undo \in [Procs -> SUBSET UndoRecord]
    BY <2>1 DEF UndoInv, Undos
  <2>3. undo' = undo
    BY <2>1, <2>2
  <2>4. \A q \in Procs : proc'[q] # "live" => proc[q] # "live"
    BY <2>1 DEF ProcTypeOK
  <2> QED BY <1>0, <2>1, <2>3, <2>4, UndoQuiet DEF SameSem
<1>6. ASSUME NEW p \in Procs, Exec(p) \/ Kill(p) PROVE UndoInv'
  <2>1. /\ sem' = sem /\ ForgetUndo(p)
        /\ proc' = proc \/ proc' = [proc EXCEPT ![p] = "gone"]
    BY <1>6 DEF Exec, Kill
  <2>2. \A q \in Procs : proc'[q] # "live" /\ q # p => proc[q] # "live"
    BY <2>1 DEF ProcTypeOK
  <2> QED BY <1>0, <2>1, <2>2, ForgetKeeps
<1>7. ASSUME NEW p \in Procs, Exit(p) PROVE UndoInv'
  <2>1. ApplyUndo(p) /\ proc' = [proc EXCEPT ![p] = "gone"]
    BY <1>7 DEF Exit
  <2>2. \A q \in Procs : proc'[q] # "live" /\ q # p => proc[q] # "live"
    BY <2>1 DEF ProcTypeOK
  <2> QED BY <1>0, <2>1, <2>2, ApplyUndoBalances
<1> QED BY <1>2, <1>3, <1>4, <1>5, <1>6, <1>7 DEF Next

(* SEM_UNDO is exact across processes, for any number of processes, sets   *)
(* and semaphores, as long as no operation list changes a semaphore twice: *)
(* what the living processes will take back is what a value is, and every  *)
(* value stays within 0..SEMVMX.                                           *)
THEOREM UndoIsExact == ChangesOnce => (Spec => [](UndoBalances /\ ValuesInRange))
<1> SUFFICES ASSUME ChangesOnce PROVE Spec => [](UndoBalances /\ ValuesInRange)
  OBVIOUS
<1>1. Init => ProcTypeOK /\ ShmInv /\ SemInv /\ UndoInv
  BY ShmStarts, SemStarts, UndoStarts
<1>2. ProcTypeOK /\ ShmInv /\ SemInv /\ UndoInv /\ [Next]_vars
        => (ProcTypeOK /\ ShmInv /\ SemInv /\ UndoInv)'
  BY ShmPreserved, SemPreserved, UndoPreserved
<1>3. UndoInv => UndoBalances /\ ValuesInRange
  <2>1. ASSUME UndoInv, NEW i \in SemSlots, NEW n \in Nums PROVE sem[i].val[n] <= SemMax
    BY <2>1, ValueType, SemAssumption
  <2> QED BY <2>1, LevelIsBalance DEF ValuesInRange
<1> QED BY <1>1, <1>2, <1>3, PTL DEF Spec

(***************************************************************************)
(* Message stores: the lists.                                              *)
(***************************************************************************)

(* The links of a store lead from `first` through the cells of L and end.  *)
Chain(next, first, L) ==
  /\ L \in Seq(Cells)
  /\ \A j, k \in 1 .. Len(L) : L[j] = L[k] => j = k
  /\ first = IF Len(L) = 0 THEN Nil ELSE L[1]
  /\ \A j \in 1 .. Len(L) : next[L[j]] = IF j = Len(L) THEN Nil ELSE L[j + 1]

(* U are the messages of a store and F its free cells: every cell is in    *)
(* one of the two.                                                         *)
Lists(s, U, F) ==
  /\ Chain(s.next, s.head, U) /\ Chain(s.next, s.free, F)
  /\ s.tail = IF Len(U) = 0 THEN Nil ELSE U[Len(U)]
  /\ \A j \in 1 .. Len(U), k \in 1 .. Len(F) : U[j] # F[k]
  /\ \A c \in Cells : \/ \E j \in 1 .. Len(U) : U[j] = c
                      \/ \E k \in 1 .. Len(F) : F[k] = c

LEMMA CellsAre ==
  /\ Cells \subseteq Int /\ Nil \notin Cells /\ 0 \in Cells
  /\ IsFiniteSet(Cells) /\ Cardinality(Cells) = Capacity
  /\ Capacity \in Nat /\ Capacity # 0
<1>1. Capacity \in Nat /\ Capacity # 0
  BY MsgAssumption
<1>2. IsFiniteSet(Cells) /\ Cardinality(Cells) = Capacity
  BY <1>1, FS_Interval DEF Cells
<1> QED BY <1>1, <1>2 DEF Cells, Nil

LEMMA LengthOf ==
  ASSUME NEW S, NEW n \in Nat, NEW L \in [1 .. n -> S]
  PROVE  L \in Seq(S) /\ Len(L) = n
<1>1. L \in Seq(S)
  BY SeqDef
<1>2. Len(L) \in Nat /\ DOMAIN L = 1 .. Len(L) /\ DOMAIN L = 1 .. n
  BY <1>1, LenProperties
<1>3. n # 0 => n <= Len(L)
  <2>1. n # 0 => n \in 1 .. n
    OBVIOUS
  <2> QED BY <1>2, <2>1
<1>4. Len(L) # 0 => Len(L) <= n
  <2>1. Len(L) # 0 => Len(L) \in 1 .. Len(L)
    BY <1>2
  <2> QED BY <1>2, <2>1
<1> QED BY <1>1, <1>2, <1>3, <1>4

(* A sequence without repetitions has as many members as its length.       *)
LEMMA DistinctLength ==
  ASSUME NEW L \in Seq(Cells), \A j, k \in 1 .. Len(L) : L[j] = L[k] => j = k
  PROVE  /\ IsFiniteSet(Cellset(L)) /\ Cardinality(Cellset(L)) = Len(L)
         /\ Cellset(L) \subseteq Cells /\ Len(L) <= Capacity /\ Len(L) \in Nat
<1>1. Len(L) \in Nat /\ L \in [1 .. Len(L) -> Cells] /\ DOMAIN L = 1 .. Len(L)
  BY LenProperties
<1>2. L \in Bijection(1 .. Len(L), Cellset(L))
  BY <1>1 DEF Bijection, Injection, Surjection, IsInjective, Cellset
<1>3. IsFiniteSet(1 .. Len(L)) /\ Cardinality(1 .. Len(L)) = Len(L)
  BY <1>1, FS_Interval
<1>4. IsFiniteSet(Cellset(L)) /\ Cardinality(Cellset(L)) = Len(L)
  BY <1>2, <1>3, FS_Bijection DEF ExistsBijection
<1>5. Cellset(L) \in SUBSET Cells
  BY <1>1 DEF Cellset
<1>6. Cardinality(Cellset(L)) <= Capacity
  BY <1>5, CellsAre, FS_Subset
<1> QED BY <1>1, <1>4, <1>5, <1>6

(* The walk of the model, as the function it is chosen to be.              *)
Follows(at, s, first) ==
  at = [k \in 0 .. Capacity |->
          IF k = 0 THEN first ELSE IF at[k - 1] = Nil THEN Nil ELSE s.next[at[k - 1]]]
Trail(s, first) == CHOOSE at : Follows(at, s, first)

LEMMA WalkUnfolded ==
  ASSUME NEW s, NEW first
  PROVE  Walk(s, first) =
           LET n == Cardinality({k \in DOMAIN Trail(s, first) : Trail(s, first)[k] # Nil})
           IN  [k \in 1 .. n |-> Trail(s, first)[k - 1]]
BY DEF Walk, Trail, Follows

(* Walking along a chain gives its cells.                                  *)
LEMMA WalkIs ==
  ASSUME NEW s, NEW first, NEW L, Chain(s.next, first, L)
  PROVE  Walk(s, first) = L
<1> DEFINE N == Len(L)
           h == [k \in 0 .. Capacity |-> IF k < N THEN L[k + 1] ELSE Nil]
           at == Trail(s, first)
<1>1. L \in Seq(Cells) /\ \A j, k \in 1 .. N : L[j] = L[k] => j = k
  BY DEF Chain
<1>2. N \in Nat /\ N <= Capacity /\ Capacity \in Nat
  BY <1>1, DistinctLength, CellsAre
<1>3. L \in [1 .. N -> Cells]
  BY <1>1, LenProperties
<1>4. \A k \in 1 .. N : L[k] # Nil
  BY <1>3, CellsAre
<1> HIDE DEF N
<1>5. ASSUME NEW k \in 0 .. Capacity
      PROVE  h[k] = IF k = 0 THEN first ELSE IF h[k - 1] = Nil THEN Nil ELSE s.next[h[k - 1]]
  <2>1. CASE k = 0
    BY <1>2, <2>1 DEF Chain, N
  <2>2. CASE k # 0
    <3>1. k - 1 \in 0 .. Capacity
      BY <1>2, <2>2
    <3>2. h[k - 1] = IF k - 1 < N THEN L[k] ELSE Nil
      BY <3>1
    <3>3. h[k] = IF k < N THEN L[k + 1] ELSE Nil
      OBVIOUS
    <3> HIDE DEF h
    <3>4. CASE k - 1 < N
      <4>1. k \in 1 .. N
        BY <1>2, <2>2, <3>4
      <4>2. s.next[L[k]] = IF k = N THEN Nil ELSE L[k + 1]
        BY <4>1 DEF Chain, N
      <4> QED BY <1>2, <1>4, <2>2, <3>2, <3>3, <3>4, <4>1, <4>2
    <3>5. CASE ~(k - 1 < N)
      BY <1>2, <2>2, <3>2, <3>3, <3>5
    <3> QED BY <3>4, <3>5
  <2> QED BY <2>1, <2>2
<1>6. Follows(h, s, first)
  <2>1. h = [k \in 0 .. Capacity |-> h[k]]
    OBVIOUS
  <2> HIDE DEF h
  <2> QED BY <1>5, <2>1 DEF Follows
<1>7. Follows(at, s, first)
  <2> HIDE DEF h
  <2> QED BY <1>6 DEF Trail
<1>8. \A k \in 0 .. Capacity : at[k] = h[k]
  <2> DEFINE Bad == {k \in 0 .. Capacity : at[k] # h[k]}
  <2> SUFFICES ASSUME Bad # {} PROVE FALSE
    OBVIOUS
  <2>1. Bad \subseteq Nat
    BY <1>2
  <2>2. PICK k \in Bad : \A m \in Bad : k <= m
    <3> HIDE DEF Bad
    <3> QED BY <2>1, Least
  <2>3. at[k] = IF k = 0 THEN first ELSE IF at[k - 1] = Nil THEN Nil ELSE s.next[at[k - 1]]
    <3> HIDE DEF at
    <3> QED BY <1>7 DEF Follows
  <2>4. h[k] = IF k = 0 THEN first ELSE IF h[k - 1] = Nil THEN Nil ELSE s.next[h[k - 1]]
    <3> HIDE DEF h
    <3> QED BY <1>5
  <2> HIDE DEF at, h
  <2>5. CASE k = 0
    BY <2>3, <2>4, <2>5
  <2>6. CASE k # 0
    <3>1. k - 1 \in 0 .. Capacity /\ ~(k <= k - 1)
      BY <1>2, <2>6
    <3>2. at[k - 1] = h[k - 1]
      BY <2>2, <3>1
    <3> QED BY <2>3, <2>4, <2>6, <3>2
  <2> QED BY <2>5, <2>6
<1>9. DOMAIN at = 0 .. Capacity
  <2> HIDE DEF at
  <2> QED BY <1>7 DEF Follows
<1>10. {k \in DOMAIN at : at[k] # Nil} = 0 .. N - 1
  <2>1. \A k \in 0 .. Capacity : h[k] # Nil <=> k < N
    <3> TAKE k \in 0 .. Capacity
    <3>1. k < N => k + 1 \in 1 .. N
      BY <1>2
    <3> QED BY <1>4, <3>1
  <2> HIDE DEF at, h
  <2>2. \A k \in 0 .. Capacity : at[k] # Nil <=> k < N
    BY <1>8, <2>1
  <2> QED BY <1>2, <1>9, <2>2
<1>11. Cardinality(0 .. N - 1) = N
  BY <1>2, FS_Interval
<1>12. Walk(s, first) = [k \in 1 .. N |-> at[k - 1]]
  <2>1. Walk(s, first) =
           LET n == Cardinality({k \in DOMAIN at : at[k] # Nil})
           IN  [k \in 1 .. n |-> at[k - 1]]
    BY WalkUnfolded
  <2> HIDE DEF at
  <2> QED BY <1>10, <1>11, <2>1
<1>13. ASSUME NEW k \in 1 .. N PROVE at[k - 1] = L[k]
  <2>1. k - 1 \in 0 .. Capacity /\ k - 1 < N /\ k - 1 + 1 = k
    BY <1>2
  <2>2. h[k - 1] = L[k]
    BY <2>1
  <2> HIDE DEF at, h
  <2> QED BY <1>8, <2>1, <2>2
<1> HIDE DEF at
<1> QED BY <1>3, <1>12, <1>13

(* What the property says of a store, from its lists.                      *)
LEMMA ListsAre ==
  ASSUME NEW s, NEW U, NEW F, Lists(s, U, F)
  PROVE  /\ Messages(s) = U /\ Walk(s, s.free) = F
         /\ Len(U) + Len(F) = Capacity
         /\ Cellset(U) \cup Cellset(F) = Cells
         /\ s.tail = IF U = <<>> THEN Nil ELSE U[Len(U)]
<1>1. Chain(s.next, s.head, U) /\ Chain(s.next, s.free, F)
  BY DEF Lists
<1>2. Messages(s) = U /\ Walk(s, s.free) = F
  BY <1>1, WalkIs DEF Messages
<1>3. U \in Seq(Cells) /\ F \in Seq(Cells)
  BY <1>1 DEF Chain
<1>4. /\ IsFiniteSet(Cellset(U)) /\ Cardinality(Cellset(U)) = Len(U) /\ Cellset(U) \subseteq Cells
      /\ IsFiniteSet(Cellset(F)) /\ Cardinality(Cellset(F)) = Len(F) /\ Cellset(F) \subseteq Cells
      /\ Len(U) \in Nat /\ Len(F) \in Nat
  BY <1>1, <1>3, DistinctLength DEF Chain
<1>5. DOMAIN U = 1 .. Len(U) /\ DOMAIN F = 1 .. Len(F)
  BY <1>3, LenProperties
<1>6. Cellset(U) \cup Cellset(F) = Cells /\ Cellset(U) \cap Cellset(F) = {}
  <2>1. \A x : /\ x \in Cellset(U) <=> \E j \in 1 .. Len(U) : U[j] = x
               /\ x \in Cellset(F) <=> \E k \in 1 .. Len(F) : F[k] = x
    BY <1>5 DEF Cellset
  <2>2. \A c \in Cells : c \in Cellset(U) \/ c \in Cellset(F)
    BY <2>1 DEF Lists
  <2>3. ASSUME NEW x, x \in Cellset(U), x \in Cellset(F) PROVE FALSE
    BY <2>1, <2>3 DEF Lists
  <2> QED BY <1>4, <2>2, <2>3
<1>7. Len(U) + Len(F) = Capacity
  <2>1. Cardinality(Cells) = Len(U) + Len(F) - Cardinality({})
    BY <1>4, <1>6, FS_Union
  <2> QED BY <1>4, <2>1, CellsAre, FS_EmptySet
<1>8. U = <<>> <=> Len(U) = 0
  BY <1>3, EmptySeq
<1> QED BY <1>2, <1>6, <1>7, <1>8 DEF Lists

(* An initialised store: no message, the cells in order on the free list.  *)
LEMMA InitialisedLists ==
  ASSUME NEW s \in Store
  PROVE  LET t == Initialised(s) IN
         t \in Store /\ t.ready /\ t.size = s.size /\ \E F : Lists(t, <<>>, F)
<1> DEFINE t == Initialised(s)
           nx == [k \in Cells |-> IF k + 1 \in Cells THEN k + 1 ELSE Nil]
           F == [k \in 1 .. Capacity |-> k - 1]
<1>1. nx \in [Cells -> Cells \cup {Nil}]
  OBVIOUS
<1>2. \A k \in Cells : nx[k] = IF k + 1 \in Cells THEN k + 1 ELSE Nil
  OBVIOUS
<1> HIDE DEF nx
<1>3. t = [s EXCEPT !.ready = TRUE, !.head = Nil, !.tail = Nil, !.free = 0, !.next = nx]
  BY DEF Initialised, nx
<1>4. /\ t \in Store /\ t.ready /\ t.head = Nil /\ t.tail = Nil /\ t.free = 0 /\ t.next = nx
      /\ t.size = s.size
  BY <1>1, <1>3, CellsAre DEF Store
<1> HIDE DEF t
<1>5. Capacity \in Nat /\ Capacity # 0
  BY CellsAre
<1>6. F \in [1 .. Capacity -> Cells] /\ \A k \in 1 .. Capacity : F[k] = k - 1
  BY <1>5 DEF Cells
<1> HIDE DEF F
<1>7. F \in Seq(Cells) /\ Len(F) = Capacity
  BY <1>5, <1>6, LengthOf
<1>8. Len(F) = Capacity
  BY <1>7
<1>9. Chain(t.next, t.free, F)
  <2>1. \A j, k \in 1 .. Capacity : F[j] = F[k] => j = k
    BY <1>5, <1>6
  <2>2. 0 = F[1]
    BY <1>5, <1>6
  <2>3. ASSUME NEW j \in 1 .. Capacity
        PROVE  nx[F[j]] = IF j = Capacity THEN Nil ELSE F[j + 1]
    <3>1. F[j] = j - 1 /\ F[j] \in Cells
      BY <1>5, <1>6 DEF Cells
    <3>2. j # Capacity => F[j + 1] = j /\ j \in Cells
      BY <1>5, <1>6 DEF Cells
    <3>3. j = Capacity => j \notin Cells
      BY <1>5 DEF Cells
    <3>4. nx[F[j]] = IF j \in Cells THEN j ELSE Nil
      BY <1>2, <3>1
    <3> QED BY <3>2, <3>3, <3>4
  <2> QED BY <1>4, <1>5, <1>7, <1>8, <2>1, <2>2, <2>3 DEF Chain
<1>10. Chain(t.next, t.head, <<>>)
  BY <1>4, EmptySeq DEF Chain
<1>11. \A c \in Cells : \E k \in 1 .. Len(F) : F[k] = c
  <2> TAKE c \in Cells
  <2>1. c + 1 \in 1 .. Capacity /\ c + 1 - 1 = c
    BY <1>5 DEF Cells
  <2>2. F[c + 1] = c
    BY <1>6, <2>1 DEF Cells
  <2> QED BY <1>8, <2>1, <2>2
<1>12. Lists(t, <<>>, F)
  BY <1>4, <1>9, <1>10, <1>11, EmptySeq DEF Lists
<1> QED BY <1>4, <1>12 DEF t

(* A sent message takes the first free cell.                               *)
LEMMA LinkedFields ==
  ASSUME NEW s \in Store, s.free \in Cells, NEW type \in Nat, NEW bytes \in Nat
  PROVE  LET k == s.free
             t == Linked(s, type, bytes) IN
         /\ t \in Store /\ t.ready = s.ready /\ t.tail = k /\ t.free = s.next[k]
         /\ t.head = IF s.tail = Nil THEN k ELSE s.head
         /\ t.size = [s.size EXCEPT ![k] = bytes] /\ t.mtype = [s.mtype EXCEPT ![k] = type]
         /\ t.next = IF s.tail = Nil THEN [s.next EXCEPT ![k] = Nil]
                     ELSE [[s.next EXCEPT ![k] = Nil] EXCEPT ![s.tail] = k]
<1> DEFINE k == s.free
           n1 == [s.next EXCEPT ![k] = Nil]
           m == [s.mtype EXCEPT ![k] = type]
           z == [s.size EXCEPT ![k] = bytes]
           f == s.next[k]
           t == [s EXCEPT !.free = f, !.mtype = m, !.size = z, !.next = n1, !.tail = k]
<1>1. /\ n1 \in [Cells -> Cells \cup {Nil}] /\ m \in [Cells -> Nat] /\ z \in [Cells -> Nat]
      /\ f \in Cells \cup {Nil} /\ k \in Cells
  BY DEF Store
<1>2. Linked(s, type, bytes) =
        IF s.tail = Nil THEN [t EXCEPT !.head = k] ELSE [t EXCEPT !.next[s.tail] = k]
  BY DEF Linked, Store
<1>3. [n1 EXCEPT ![s.tail] = k] \in [Cells -> Cells \cup {Nil}]
  BY <1>1
<1> HIDE DEF n1, m, z, f, k
<1>4. /\ t \in Store /\ t.ready = s.ready /\ t.tail = k /\ t.free = f /\ t.head = s.head
      /\ t.size = z /\ t.mtype = m /\ t.next = n1
  BY <1>1 DEF Store
<1> HIDE DEF t
<1>5. CASE s.tail = Nil
  <2>1. Linked(s, type, bytes) = [t EXCEPT !.head = k]
    BY <1>2, <1>5
  <2>2. LET u == [t EXCEPT !.head = k] IN
        /\ u \in Store /\ u.ready = s.ready /\ u.tail = k /\ u.free = f /\ u.head = k
        /\ u.size = z /\ u.mtype = m /\ u.next = n1
    BY <1>1, <1>4 DEF Store
  <2> QED BY <1>5, <2>1, <2>2 DEF n1, m, z, f, k
<1>6. CASE s.tail # Nil
  <2> DEFINE n2 == [n1 EXCEPT ![s.tail] = k]
  <2>0. n2 \in [Cells -> Cells \cup {Nil}]
    BY <1>3
  <2>1. Linked(s, type, bytes) = [t EXCEPT !.next = n2]
    BY <1>2, <1>4, <1>6 DEF Store
  <2> HIDE DEF n2
  <2>2. LET u == [t EXCEPT !.next = n2] IN
        /\ u \in Store /\ u.ready = s.ready /\ u.tail = k /\ u.free = f /\ u.head = s.head
        /\ u.size = z /\ u.mtype = m /\ u.next = n2
    BY <1>1, <1>4, <2>0 DEF Store
  <2> QED BY <1>6, <2>1, <2>2 DEF n2, n1, m, z, f, k
<1> QED BY <1>5, <1>6

LEMMA LinkedLists ==
  ASSUME NEW s \in Store, NEW U, NEW F, Lists(s, U, F), s.free # Nil,
         NEW type \in Nat, NEW bytes \in Nat
  PROVE  LET k == s.free
             t == Linked(s, type, bytes) IN
         /\ k \in Cells /\ (\A j \in 1 .. Len(U) : U[j] # k)
         /\ t \in Store /\ t.ready = s.ready
         /\ t.size[k] = bytes /\ (\A x \in Cells : x # k => t.size[x] = s.size[x])
         /\ Lists(t, Append(U, k), Tail(F))
<1> DEFINE k == s.free
           t == Linked(s, type, bytes)
           n == Len(U)
           m == Len(F)
           A == Append(U, k)
           T == Tail(F)
<1>1. /\ U \in Seq(Cells) /\ F \in Seq(Cells) /\ n \in Nat /\ m \in Nat
      /\ U \in [1 .. n -> Cells] /\ F \in [1 .. m -> Cells]
  BY LenProperties DEF Lists, Chain
<1>2. m # 0 /\ k = F[1] /\ F # <<>>
  BY <1>1, EmptySeq DEF Lists, Chain
<1>3. k \in Cells
  BY <1>1, <1>2
<1>4. /\ t \in Store /\ t.ready = s.ready /\ t.tail = k /\ t.free = s.next[k]
      /\ t.head = IF s.tail = Nil THEN k ELSE s.head
      /\ t.size = [s.size EXCEPT ![k] = bytes] /\ t.mtype = [s.mtype EXCEPT ![k] = type]
      /\ t.next = IF s.tail = Nil THEN [s.next EXCEPT ![k] = Nil]
                  ELSE [[s.next EXCEPT ![k] = Nil] EXCEPT ![s.tail] = k]
  BY <1>3, LinkedFields
<1>5. A \in Seq(Cells) /\ Len(A) = n + 1 /\ A[n + 1] = k /\ \A j \in 1 .. n : A[j] = U[j]
  BY <1>1, <1>3, AppendProperties
<1>6. T \in Seq(Cells) /\ Len(T) = m - 1 /\ \A j \in 1 .. m - 1 : T[j] = F[j + 1]
  BY <1>1, <1>2, HeadTailProperties
<1>7. /\ \A i, j \in 1 .. n : U[i] = U[j] => i = j
      /\ \A i, j \in 1 .. m : F[i] = F[j] => i = j
      /\ \A i \in 1 .. n, j \in 1 .. m : U[i] # F[j]
      /\ \A j \in 1 .. n : s.next[U[j]] = IF j = n THEN Nil ELSE U[j + 1]
      /\ \A j \in 1 .. m : s.next[F[j]] = IF j = m THEN Nil ELSE F[j + 1]
      /\ s.head = IF n = 0 THEN Nil ELSE U[1]
      /\ s.tail = IF n = 0 THEN Nil ELSE U[n]
      /\ \A c \in Cells : (\E j \in 1 .. n : U[j] = c) \/ (\E j \in 1 .. m : F[j] = c)
  BY DEF Lists, Chain
<1>8. s.next \in [Cells -> Cells \cup {Nil}]
  BY DEF Store
<1> HIDE DEF A, T, t, n, m, k
<1>9. 1 \in 1 .. m /\ (n # 0 => n \in 1 .. n /\ U[n] \in Cells /\ U[n] # Nil /\ U[n] # k)
  BY <1>1, <1>2, <1>7, CellsAre
<1>10. \A j \in 1 .. n : U[j] # k
  BY <1>2, <1>7, <1>9
<1>11. \A j \in 1 .. m : F[j] = k <=> j = 1
  BY <1>2, <1>7, <1>9
<1>12. \A c \in Cells : t.next[c] = IF n # 0 /\ c = U[n] THEN k
                                    ELSE IF c = k THEN Nil ELSE s.next[c]
  <2>1. CASE n = 0
    <3>1. t.next = [s.next EXCEPT ![k] = Nil]
      BY <1>4, <1>7, <2>1
    <3> QED BY <1>8, <2>1, <3>1
  <2>2. CASE n # 0
    <3>1. s.tail = U[n] /\ U[n] # Nil
      BY <1>7, <1>9, <2>2
    <3>2. t.next = [[s.next EXCEPT ![k] = Nil] EXCEPT ![U[n]] = k]
      BY <1>4, <3>1
    <3> QED BY <1>8, <1>9, <2>2, <3>2
  <2> QED BY <2>1, <2>2
<1>13. Chain(t.next, t.head, A)
  <2>1. \A i, j \in 1 .. n + 1 : A[i] = A[j] => i = j
    <3> SUFFICES ASSUME NEW i \in 1 .. n + 1, NEW j \in 1 .. n + 1, A[i] = A[j] PROVE i = j
      OBVIOUS
    <3>1. i = n + 1 \/ i \in 1 .. n
      BY <1>1
    <3>2. j = n + 1 \/ j \in 1 .. n
      BY <1>1
    <3> QED BY <1>5, <1>7, <1>10, <3>1, <3>2
  <2>2. t.head = A[1]
    <3>1. CASE n = 0
      BY <1>4, <1>5, <1>7, <3>1
    <3>2. CASE n # 0
      <4>1. 1 \in 1 .. n
        BY <1>1, <3>2
      <4> QED BY <1>4, <1>5, <1>7, <1>9, <3>2, <4>1
    <3> QED BY <3>1, <3>2
  <2>3. ASSUME NEW j \in 1 .. n + 1
        PROVE  t.next[A[j]] = IF j = n + 1 THEN Nil ELSE A[j + 1]
    <3>1. CASE j = n + 1
      BY <1>3, <1>5, <1>9, <1>12, <3>1
    <3>2. CASE j = n /\ n # 0
      BY <1>1, <1>5, <1>9, <1>12, <3>2
    <3>3. CASE j # n /\ j # n + 1
      <4>1. j \in 1 .. n /\ j + 1 \in 1 .. n /\ n \in 1 .. n /\ n # 0
        BY <1>1, <3>3
      <4>2. U[j] \in Cells /\ U[j] # U[n] /\ U[j] # k
        BY <1>1, <1>7, <1>10, <3>3, <4>1
      <4>3. t.next[U[j]] = U[j + 1]
        BY <1>7, <1>12, <3>3, <4>1, <4>2
      <4> QED BY <1>5, <3>3, <4>1, <4>3
    <3>4. j = n => n # 0
      BY <1>1
    <3> QED BY <3>1, <3>2, <3>3, <3>4
  <2> QED BY <1>1, <1>5, <2>1, <2>2, <2>3 DEF Chain
<1>14. Chain(t.next, t.free, T)
  <2>1. \A i, j \in 1 .. m - 1 : T[i] = T[j] => i = j
    <3> SUFFICES ASSUME NEW i \in 1 .. m - 1, NEW j \in 1 .. m - 1, T[i] = T[j] PROVE i = j
      OBVIOUS
    <3>1. i + 1 \in 1 .. m /\ j + 1 \in 1 .. m /\ F[i + 1] = F[j + 1]
      BY <1>1, <1>6
    <3>2. i + 1 = j + 1
      BY <1>7, <3>1
    <3> QED BY <3>2
  <2>2. t.free = IF m - 1 = 0 THEN Nil ELSE T[1]
    <3>1. t.free = IF 1 = m THEN Nil ELSE F[2]
      BY <1>2, <1>4, <1>7, <1>9
    <3>2. m - 1 # 0 => 1 \in 1 .. m - 1
      BY <1>1, <1>2
    <3> QED BY <1>1, <1>6, <3>1, <3>2
  <2>3. ASSUME NEW j \in 1 .. m - 1
        PROVE  t.next[T[j]] = IF j = m - 1 THEN Nil ELSE T[j + 1]
    <3>1. j + 1 \in 1 .. m /\ j + 1 # 1 /\ T[j] = F[j + 1]
      BY <1>1, <1>6
    <3>2. F[j + 1] \in Cells /\ F[j + 1] # k /\ (n # 0 => F[j + 1] # U[n])
      BY <1>1, <1>7, <1>9, <1>11, <3>1
    <3>3. t.next[T[j]] = IF j + 1 = m THEN Nil ELSE F[j + 1 + 1]
      BY <1>7, <1>12, <3>1, <3>2
    <3>4. j + 1 # m => j + 1 \in 1 .. m - 1
      BY <1>1
    <3> QED BY <1>1, <1>6, <3>3, <3>4
  <2> QED BY <1>1, <1>2, <1>6, <2>1, <2>2, <2>3 DEF Chain
<1>15. t.tail = IF n + 1 = 0 THEN Nil ELSE A[n + 1]
  BY <1>1, <1>4, <1>5
<1>16. ASSUME NEW i \in 1 .. n + 1, NEW j \in 1 .. m - 1 PROVE A[i] # T[j]
  <2>1. j + 1 \in 1 .. m /\ j + 1 # 1 /\ T[j] = F[j + 1]
    BY <1>1, <1>6
  <2>2. i = n + 1 \/ i \in 1 .. n
    BY <1>1
  <2> QED BY <1>5, <1>7, <1>11, <2>1, <2>2
<1>17. ASSUME NEW c \in Cells
       PROVE  (\E i \in 1 .. n + 1 : A[i] = c) \/ (\E j \in 1 .. m - 1 : T[j] = c)
  <2>1. CASE \E i \in 1 .. n : U[i] = c
    <3>1. PICK i \in 1 .. n : U[i] = c
      BY <2>1
    <3>2. i \in 1 .. n + 1 /\ A[i] = c
      BY <1>1, <1>5, <3>1
    <3> QED BY <3>2
  <2>2. CASE \E j \in 1 .. m : F[j] = c
    <3>1. PICK j \in 1 .. m : F[j] = c
      BY <2>2
    <3>2. CASE j = 1
      <4>1. n + 1 \in 1 .. n + 1 /\ A[n + 1] = c
        BY <1>1, <1>2, <1>5, <3>1, <3>2
      <4> QED BY <4>1
    <3>3. CASE j # 1
      <4>1. j - 1 \in 1 .. m - 1 /\ j - 1 + 1 = j
        BY <1>1, <3>3
      <4>2. T[j - 1] = c
        BY <1>6, <3>1, <4>1
      <4> QED BY <4>1, <4>2
    <3> QED BY <3>2, <3>3
  <2> QED BY <1>7, <2>1, <2>2
<1>18. Lists(t, A, T)
  BY <1>5, <1>6, <1>13, <1>14, <1>15, <1>16, <1>17 DEF Lists
<1>19. t.size[k] = bytes /\ \A x \in Cells : x # k => t.size[x] = s.size[x]
  BY <1>3, <1>4 DEF Store
<1> QED BY <1>3, <1>4, <1>10, <1>18, <1>19 DEF t, A, T, n, k

LEMMA RemovedAt ==
  ASSUME NEW S, NEW L \in Seq(S), NEW k \in 1 .. Len(L)
  PROVE  /\ RemoveAt(L, k) \in Seq(S) /\ Len(RemoveAt(L, k)) = Len(L) - 1
         /\ \A j \in 1 .. Len(L) - 1 :
              RemoveAt(L, k)[j] = IF j < k THEN L[j] ELSE L[j + 1]
<1> DEFINE n == Len(L)
           a == SubSeq(L, 1, k - 1)
           b == SubSeq(L, k + 1, n)
<1>1. n \in Nat /\ k \in Int /\ 1 <= k /\ k <= n /\ \A j \in 1 .. n : L[j] \in S
  BY LenProperties
<1>2. /\ a \in Seq(S) /\ Len(a) = IF 1 <= k - 1 THEN k - 1 - 1 + 1 ELSE 0
      /\ \A i \in 1 .. k - 1 - 1 + 1 : a[i] = L[1 + i - 1]
  <2>1. \A i \in 1 .. k - 1 : L[i] \in S
    BY <1>1
  <2> QED BY <1>1, <2>1, SubSeqProperties
<1>3. /\ b \in Seq(S) /\ Len(b) = IF k + 1 <= n THEN n - (k + 1) + 1 ELSE 0
      /\ \A i \in 1 .. n - (k + 1) + 1 : b[i] = L[k + 1 + i - 1]
  <2>1. \A i \in k + 1 .. n : L[i] \in S
    BY <1>1
  <2> QED BY <1>1, <2>1, SubSeqProperties
<1> HIDE DEF a, b, n
<1>4. Len(a) = k - 1 /\ Len(b) = n - k
  BY <1>1, <1>2, <1>3
<1>5. /\ a \o b \in Seq(S) /\ Len(a \o b) = Len(a) + Len(b)
      /\ \A i \in 1 .. Len(a) + Len(b) :
           (a \o b)[i] = IF i <= Len(a) THEN a[i] ELSE b[i - Len(a)]
  BY <1>2, <1>3, ConcatProperties
<1>6. ASSUME NEW j \in 1 .. n - 1 PROVE (a \o b)[j] = IF j < k THEN L[j] ELSE L[j + 1]
  <2>1. (a \o b)[j] = IF j <= k - 1 THEN a[j] ELSE b[j - (k - 1)]
    BY <1>1, <1>4, <1>5
  <2>2. CASE j < k
    <3>1. j \in 1 .. k - 1 - 1 + 1 /\ 1 + j - 1 = j
      BY <1>1, <2>2
    <3> QED BY <1>1, <1>2, <2>1, <2>2, <3>1
  <2>3. CASE ~(j < k)
    <3>1. j - (k - 1) \in 1 .. n - (k + 1) + 1 /\ k + 1 + (j - (k - 1)) - 1 = j + 1
      BY <1>1, <2>3
    <3>2. b[j - (k - 1)] = L[j + 1]
      BY <1>3, <3>1
    <3> QED BY <1>1, <2>1, <2>3, <3>2
  <2> QED BY <2>2, <2>3
<1>7. RemoveAt(L, k) = a \o b
  BY DEF RemoveAt, a, b, n
<1> DEFINE R == a \o b
<1> HIDE DEF R
<1>8. R \in Seq(S) /\ Len(R) = n - 1
  BY <1>1, <1>4, <1>5 DEF R
<1>9. \A j \in 1 .. n - 1 : R[j] = IF j < k THEN L[j] ELSE L[j + 1]
  BY <1>6 DEF R
<1>10. RemoveAt(L, k) = R
  BY <1>7 DEF R
<1> QED BY <1>8, <1>9, <1>10 DEF n

(* A received message leaves from anywhere in its list, and its cell is    *)
(* the first free one: c is the cell, b the one before it.                 *)
IsUnlinked(s, t, k, c, b) ==
  /\ t \in Store /\ t.ready = s.ready /\ t.free = c
  /\ t.tail = IF s.tail = c THEN b ELSE s.tail
  /\ t.head = IF k = 1 THEN s.next[c] ELSE s.head
  /\ t.size = [s.size EXCEPT ![c] = 0] /\ t.mtype = [s.mtype EXCEPT ![c] = 0]
  /\ t.next = IF k = 1 THEN [s.next EXCEPT ![c] = s.free]
              ELSE [[s.next EXCEPT ![b] = s.next[c]] EXCEPT ![c] = s.free]

LEMMA UnlinkedFields ==
  ASSUME NEW s \in Store, NEW U, Messages(s) = U, NEW k, U[k] \in Cells,
         k # 1 => U[k - 1] \in Cells /\ U[k - 1] # U[k]
  PROVE  IsUnlinked(s, UnlinkedAt(s, k), k, U[k], IF k = 1 THEN Nil ELSE U[k - 1])
<1> DEFINE c == U[k]
           b == IF k = 1 THEN Nil ELSE U[k - 1]
           h == IF k = 1 THEN s.next[c] ELSE s.head
           n1 == IF k = 1 THEN s.next ELSE [s.next EXCEPT ![b] = s.next[c]]
           n2 == [n1 EXCEPT ![c] = s.free]
           m == [s.mtype EXCEPT ![c] = 0]
           z == [s.size EXCEPT ![c] = 0]
           t == [s EXCEPT !.head = h, !.next = n1]
           l == IF s.tail = c THEN b ELSE s.tail
<1>1. /\ n1 \in [Cells -> Cells \cup {Nil}] /\ n2 \in [Cells -> Cells \cup {Nil}]
      /\ m \in [Cells -> Nat] /\ z \in [Cells -> Nat]
      /\ h \in Cells \cup {Nil} /\ c \in Cells /\ l \in Cells \cup {Nil}
  BY DEF Store
<1>2. t = IF k = 1 THEN [s EXCEPT !.head = s.next[c]] ELSE [s EXCEPT !.next[b] = s.next[c]]
  BY DEF Store
<1>3. UnlinkedAt(s, k) =
        LET u == IF k = 1 THEN [s EXCEPT !.head = s.next[c]] ELSE [s EXCEPT !.next[b] = s.next[c]]
        IN  [u EXCEPT !.tail = IF @ = c THEN b ELSE @, !.next[c] = s.free, !.free = c,
                      !.mtype[c] = 0, !.size[c] = 0]
  BY DEF UnlinkedAt
<1> HIDE DEF h, n1, l, c, b
<1>4. /\ t \in Store /\ t.ready = s.ready /\ t.tail = s.tail /\ t.head = h
      /\ t.size = s.size /\ t.mtype = s.mtype /\ t.next = n1
  BY <1>1 DEF Store
<1> HIDE DEF t
<1>5. UnlinkedAt(s, k) =
        [t EXCEPT !.tail = IF @ = c THEN b ELSE @, !.next[c] = s.free, !.free = c,
                  !.mtype[c] = 0, !.size[c] = 0]
  BY <1>2, <1>3
<1>6. UnlinkedAt(s, k) =
        [t EXCEPT !.tail = l, !.next = n2, !.free = c, !.mtype = m, !.size = z]
  BY <1>4, <1>5 DEF l, Store
<1> HIDE DEF n2, m, z
<1>7. LET u == [t EXCEPT !.tail = l, !.next = n2, !.free = c, !.mtype = m, !.size = z] IN
      /\ u \in Store /\ u.ready = s.ready /\ u.tail = l /\ u.free = c /\ u.head = h
      /\ u.size = z /\ u.mtype = m /\ u.next = n2
  BY <1>1, <1>4 DEF Store
<1>8. n2 = IF k = 1 THEN [s.next EXCEPT ![c] = s.free]
           ELSE [[s.next EXCEPT ![b] = s.next[c]] EXCEPT ![c] = s.free]
  BY DEF n2, n1
<1> QED BY <1>6, <1>7, <1>8 DEF l, h, m, z, c, b, IsUnlinked

LEMMA UnlinkedLists ==
  ASSUME NEW s \in Store, NEW U, NEW F, Lists(s, U, F), NEW k \in 1 .. Len(U)
  PROVE  LET c == U[k]
             t == UnlinkedAt(s, k) IN
         /\ c \in Cells /\ t \in Store /\ t.ready = s.ready
         /\ (\A x \in Cells : x # c => t.size[x] = s.size[x])
         /\ Lists(t, RemoveAt(U, k), <<c>> \o F)
<1> DEFINE c == U[k]
           t == UnlinkedAt(s, k)
           b == IF k = 1 THEN Nil ELSE U[k - 1]
           n == Len(U)
           m == Len(F)
           A == RemoveAt(U, k)
           T == <<c>> \o F
<1>1. /\ U \in Seq(Cells) /\ F \in Seq(Cells) /\ n \in Nat /\ m \in Nat
      /\ U \in [1 .. n -> Cells] /\ F \in [1 .. m -> Cells]
  BY LenProperties DEF Lists, Chain
<1>2. /\ \A i, j \in 1 .. n : U[i] = U[j] => i = j
      /\ \A i, j \in 1 .. m : F[i] = F[j] => i = j
      /\ \A i \in 1 .. n, j \in 1 .. m : U[i] # F[j]
      /\ \A j \in 1 .. n : s.next[U[j]] = IF j = n THEN Nil ELSE U[j + 1]
      /\ \A j \in 1 .. m : s.next[F[j]] = IF j = m THEN Nil ELSE F[j + 1]
      /\ s.head = IF n = 0 THEN Nil ELSE U[1]
      /\ s.free = IF m = 0 THEN Nil ELSE F[1]
      /\ s.tail = IF n = 0 THEN Nil ELSE U[n]
      /\ \A x \in Cells : (\E j \in 1 .. n : U[j] = x) \/ (\E j \in 1 .. m : F[j] = x)
  BY DEF Lists, Chain
<1>3. /\ k \in Int /\ 1 <= k /\ k <= n /\ n # 0 /\ c \in Cells /\ n \in 1 .. n /\ 1 \in 1 .. n
      /\ (k # 1 => k - 1 \in 1 .. n /\ U[k - 1] \in Cells /\ U[k - 1] # c)
  <2>1. k \in Int /\ 1 <= k /\ k <= n /\ n # 0 /\ c \in Cells /\ n \in 1 .. n /\ 1 \in 1 .. n
    BY <1>1
  <2>2. k # 1 => k - 1 \in 1 .. n /\ k - 1 # k
    BY <1>1
  <2> QED BY <1>1, <1>2, <2>1, <2>2
<1>4. Messages(s) = U
  BY ListsAre
<1>5. /\ t \in Store /\ t.ready = s.ready /\ t.free = c
      /\ t.tail = IF s.tail = c THEN b ELSE s.tail
      /\ t.head = IF k = 1 THEN s.next[c] ELSE s.head
      /\ t.size = [s.size EXCEPT ![c] = 0] /\ t.mtype = [s.mtype EXCEPT ![c] = 0]
      /\ t.next = IF k = 1 THEN [s.next EXCEPT ![c] = s.free]
                  ELSE [[s.next EXCEPT ![b] = s.next[c]] EXCEPT ![c] = s.free]
  <2>1. U[k] \in Cells
    BY <1>3
  <2>2. k # 1 => U[k - 1] \in Cells /\ U[k - 1] # U[k]
    BY <1>3
  <2>3. IsUnlinked(s, UnlinkedAt(s, k), k, U[k], IF k = 1 THEN Nil ELSE U[k - 1])
    BY <1>4, <2>1, <2>2, UnlinkedFields
  <2> HIDE DEF n, m, A, T
  <2> QED BY <2>3 DEF IsUnlinked
<1>6. /\ A \in Seq(Cells) /\ Len(A) = n - 1
      /\ \A j \in 1 .. n - 1 : A[j] = IF j < k THEN U[j] ELSE U[j + 1]
  BY <1>1, RemovedAt
<1>7. /\ T \in Seq(Cells) /\ Len(T) = m + 1 /\ T[1] = c
      /\ \A j \in 1 .. m : T[j + 1] = F[j]
  <2> DEFINE o == <<c>>
  <2>1. o \in Seq(Cells) /\ Len(o) = 1 /\ o[1] = c
    BY <1>3
  <2> HIDE DEF o
  <2>2. /\ o \o F \in Seq(Cells) /\ Len(o \o F) = 1 + m
        /\ \A i \in 1 .. 1 + m : (o \o F)[i] = IF i <= 1 THEN o[i] ELSE F[i - 1]
    <3>1. /\ o \o F \in Seq(Cells) /\ Len(o \o F) = Len(o) + Len(F)
          /\ \A i \in 1 .. Len(o) + Len(F) : (o \o F)[i] = IF i <= Len(o) THEN o[i] ELSE F[i - Len(o)]
      BY <1>1, <2>1, ConcatProperties
    <3> QED BY <2>1, <3>1
  <2>3. (o \o F)[1] = c /\ \A j \in 1 .. m : (o \o F)[j + 1] = F[j]
    <3>1. 1 \in 1 .. 1 + m /\ \A j \in 1 .. m : j + 1 \in 1 .. 1 + m /\ ~(j + 1 <= 1) /\ j + 1 - 1 = j
      BY <1>1
    <3> QED BY <2>1, <2>2, <3>1
  <2> QED BY <1>1, <2>2, <2>3 DEF o
<1>8. s.next \in [Cells -> Cells \cup {Nil}]
  BY DEF Store
<1>9. \A x \in Cells : t.next[x] = IF x = c THEN s.free
                                   ELSE IF k # 1 /\ x = U[k - 1] THEN s.next[c] ELSE s.next[x]
  <2>1. CASE k = 1
    <3>1. t.next = [s.next EXCEPT ![c] = s.free]
      BY <1>5, <2>1
    <3> HIDE DEF t, c
    <3> QED BY <1>8, <2>1, <3>1
  <2>2. CASE k # 1
    <3> DEFINE d == U[k - 1]
    <3>1. t.next = [[s.next EXCEPT ![d] = s.next[c]] EXCEPT ![c] = s.free]
          /\ d \in Cells /\ d # c
      BY <1>3, <1>5, <2>2
    <3> HIDE DEF t, c, d
    <3>2. \A x \in Cells : t.next[x] = IF x = c THEN s.free
                                       ELSE IF x = d THEN s.next[c] ELSE s.next[x]
      BY <1>8, <3>1
    <3> QED BY <2>2, <3>2 DEF d
  <2> QED BY <2>1, <2>2
<1> HIDE DEF A, T, t, n, m, b, c
<1>10. \A j \in 1 .. n : U[j] = c <=> j = k
  BY <1>2 DEF c, n
<1>11. \A j \in 1 .. n : k # 1 => (U[j] = U[k - 1] <=> j = k - 1)
  BY <1>2, <1>3
<1>12. \A j \in 1 .. m : F[j] # c /\ (k # 1 => F[j] # U[k - 1])
  BY <1>2, <1>3 DEF c, n
<1>13. s.next[c] = IF k = n THEN Nil ELSE U[k + 1]
  BY <1>2 DEF c, n
<1>14. Chain(t.next, t.head, A)
  <2>1. \A i, j \in 1 .. n - 1 : A[i] = A[j] => i = j
    <3> SUFFICES ASSUME NEW i \in 1 .. n - 1, NEW j \in 1 .. n - 1, A[i] = A[j] PROVE i = j
      OBVIOUS
    <3> DEFINE x == IF i < k THEN i ELSE i + 1
               y == IF j < k THEN j ELSE j + 1
    <3>1. x \in 1 .. n /\ y \in 1 .. n /\ A[i] = U[x] /\ A[j] = U[y]
      BY <1>1, <1>3, <1>6
    <3>2. x = y
      <4> HIDE DEF x, y
      <4>1. U[x] = U[y]
        BY <3>1
      <4>2. \A f, g \in 1 .. n : U[f] = U[g] => f = g
        BY <1>2
      <4> QED BY <3>1, <4>1, <4>2
    <3> QED BY <1>3, <3>2
  <2>2. t.head = IF n - 1 = 0 THEN Nil ELSE A[1]
    <3>1. CASE k = 1
      <4>1. t.head = IF 1 = n THEN Nil ELSE U[2]
        BY <1>5, <1>13, <3>1
      <4>2. n - 1 # 0 => 1 \in 1 .. n - 1
        BY <1>1, <1>3
      <4> QED BY <1>1, <1>3, <1>6, <3>1, <4>1, <4>2
    <3>2. CASE k # 1
      <4>1. t.head = U[1]
        BY <1>2, <1>3, <1>5, <3>2
      <4>2. 1 \in 1 .. n - 1 /\ 1 < k /\ n - 1 # 0
        BY <1>1, <1>3, <3>2
      <4> QED BY <1>6, <4>1, <4>2
    <3> QED BY <3>1, <3>2
  <2>3. ASSUME NEW j \in 1 .. n - 1
        PROVE  t.next[A[j]] = IF j = n - 1 THEN Nil ELSE A[j + 1]
    <3>0. j \in Int /\ 1 <= j /\ j <= n - 1 /\ (j # n - 1 => j + 1 \in 1 .. n - 1)
      BY <1>1
    <3>1. CASE j + 1 < k
      <4>1. j \in 1 .. n /\ j # k /\ j # k - 1 /\ j < k /\ j # n /\ j # n - 1 /\ k - 1 # 0
        BY <1>1, <1>3, <3>0, <3>1
      <4>2. A[j] = U[j] /\ A[j + 1] = U[j + 1] /\ U[j] \in Cells
        BY <1>1, <1>6, <3>0, <3>1, <4>1
      <4>3. t.next[U[j]] = s.next[U[j]]
        BY <1>9, <1>10, <1>11, <4>1, <4>2
      <4> QED BY <1>2, <4>1, <4>2, <4>3
    <3>2. CASE j + 1 = k
      <4>1. j \in 1 .. n /\ j = k - 1 /\ j < k /\ k # 1 /\ j # k
        BY <1>1, <1>3, <3>0, <3>2
      <4>2. A[j] = U[j] /\ U[j] \in Cells /\ U[j] # c
        BY <1>1, <1>6, <1>10, <4>1
      <4>3. t.next[A[j]] = IF k = n THEN Nil ELSE U[k + 1]
        BY <1>9, <1>13, <4>1, <4>2
      <4>4. k # n => A[j + 1] = U[k + 1]
        BY <1>1, <1>3, <1>6, <3>0, <3>2
      <4> QED BY <1>1, <1>3, <3>0, <3>2, <4>3, <4>4
    <3>3. CASE j >= k
      <4>1. j + 1 \in 1 .. n /\ j + 1 # k /\ j + 1 # k - 1 /\ ~(j < k) /\ ~(j + 1 < k)
        BY <1>1, <1>3, <3>0, <3>3
      <4>2. A[j] = U[j + 1] /\ U[j + 1] \in Cells
        BY <1>1, <1>6, <4>1
      <4>3. t.next[A[j]] = s.next[U[j + 1]]
        BY <1>9, <1>10, <1>11, <4>1, <4>2
      <4>4. s.next[U[j + 1]] = IF j + 1 = n THEN Nil ELSE U[j + 1 + 1]
        BY <1>2, <4>1
      <4>5. j # n - 1 => A[j + 1] = U[j + 1 + 1]
        BY <1>6, <3>0, <4>1
      <4> QED BY <1>1, <3>0, <4>3, <4>4, <4>5
    <3> QED BY <1>3, <3>0, <3>1, <3>2, <3>3
  <2> QED BY <1>1, <1>3, <1>6, <2>1, <2>2, <2>3 DEF Chain
<1>15. Chain(t.next, t.free, T)
  <2>1. \A j \in 1 .. m + 1 : j = 1 \/ (j - 1 \in 1 .. m /\ T[j] = F[j - 1])
    <3> TAKE j \in 1 .. m + 1
    <3>1. j = 1 \/ (j - 1 \in 1 .. m /\ j - 1 + 1 = j)
      BY <1>1
    <3> QED BY <1>7, <3>1
  <2>2. \A i, j \in 1 .. m + 1 : T[i] = T[j] => i = j
    <3> SUFFICES ASSUME NEW i \in 1 .. m + 1, NEW j \in 1 .. m + 1, T[i] = T[j] PROVE i = j
      OBVIOUS
    <3>1. CASE i = 1 \/ j = 1
      BY <1>7, <1>12, <2>1, <3>1
    <3>2. CASE i # 1 /\ j # 1
      <4>1. i - 1 = j - 1
        BY <1>2, <2>1, <3>2
      <4> QED BY <4>1
    <3> QED BY <3>1, <3>2
  <2>3. ASSUME NEW j \in 1 .. m + 1
        PROVE  t.next[T[j]] = IF j = m + 1 THEN Nil ELSE T[j + 1]
    <3>1. CASE j = 1
      <4>1. t.next[T[j]] = s.free
        BY <1>3, <1>7, <1>9, <3>1
      <4>2. m # 0 => 1 \in 1 .. m
        BY <1>1
      <4> QED BY <1>1, <1>2, <1>7, <3>1, <4>1, <4>2
    <3>2. CASE j # 1
      <4>1. j - 1 \in 1 .. m /\ T[j] = F[j - 1] /\ F[j - 1] \in Cells
        BY <1>1, <2>1, <3>2
      <4>2. t.next[T[j]] = s.next[F[j - 1]]
        BY <1>9, <1>12, <4>1
      <4>3. s.next[F[j - 1]] = IF j - 1 = m THEN Nil ELSE F[j - 1 + 1]
        BY <1>2, <4>1
      <4>4. j # m + 1 => T[j + 1] = F[j]
        BY <1>1, <1>7
      <4> QED BY <1>1, <4>2, <4>3, <4>4
    <3> QED BY <3>1, <3>2
  <2>4. Len(T) = m + 1 /\ Len(T) # 0 /\ t.free = T[1]
    BY <1>1, <1>5, <1>7
  <2> QED BY <1>7, <2>2, <2>3, <2>4 DEF Chain
<1>16. t.tail = IF n - 1 = 0 THEN Nil ELSE A[n - 1]
  <2>1. s.tail = c <=> k = n
    BY <1>2, <1>3, <1>10
  <2>2. n - 1 # 0 => n - 1 \in 1 .. n - 1
    BY <1>1, <1>3
  <2>3. CASE k = n
    <3>1. t.tail = b
      BY <1>5, <2>1, <2>3
    <3>2. n - 1 # 0 => A[n - 1] = U[k - 1] /\ b = U[k - 1]
      BY <1>1, <1>3, <1>6, <2>2, <2>3 DEF b
    <3>3. n - 1 = 0 => b = Nil
      BY <1>1, <1>3, <2>3 DEF b
    <3> QED BY <3>1, <3>2, <3>3
  <2>4. CASE k # n
    <3>1. t.tail = U[n]
      BY <1>2, <1>3, <1>5, <2>1, <2>4
    <3>2. ~(n - 1 < k) /\ n - 1 # 0 /\ n - 1 + 1 = n
      BY <1>1, <1>3, <2>4
    <3> QED BY <1>6, <2>2, <3>1, <3>2
  <2> QED BY <2>3, <2>4
<1>17. ASSUME NEW i \in 1 .. n - 1, NEW j \in 1 .. m + 1 PROVE A[i] # T[j]
  <2> DEFINE x == IF i < k THEN i ELSE i + 1
  <2>1. x \in 1 .. n /\ x # k /\ A[i] = U[x]
    BY <1>1, <1>3, <1>6
  <2> HIDE DEF x
  <2>2. CASE j = 1
    BY <1>7, <1>10, <2>1, <2>2
  <2>3. CASE j # 1
    <3>1. j - 1 \in 1 .. m /\ j - 1 + 1 = j
      BY <1>1, <2>3
    <3>2. T[j] = F[j - 1]
      BY <1>7, <3>1
    <3> QED BY <1>2, <2>1, <3>1, <3>2
  <2> QED BY <2>2, <2>3
<1>18. ASSUME NEW x \in Cells
       PROVE  (\E i \in 1 .. n - 1 : A[i] = x) \/ (\E j \in 1 .. m + 1 : T[j] = x)
  <2>1. CASE \E i \in 1 .. n : U[i] = x
    <3>1. PICK i \in 1 .. n : U[i] = x
      BY <2>1
    <3>2. CASE i = k
      <4>1. 1 \in 1 .. m + 1 /\ T[1] = x
        BY <1>1, <1>7, <3>1, <3>2 DEF c
      <4> QED BY <4>1
    <3>3. CASE i < k
      <4>1. i \in 1 .. n - 1 /\ A[i] = x
        BY <1>1, <1>3, <1>6, <3>1, <3>3
      <4> QED BY <4>1
    <3>4. CASE i > k
      <4>1. i - 1 \in 1 .. n - 1 /\ ~(i - 1 < k) /\ i - 1 + 1 = i
        BY <1>1, <1>3, <3>4
      <4>2. A[i - 1] = x
        BY <1>6, <3>1, <4>1
      <4> QED BY <4>1, <4>2
    <3> QED BY <1>1, <1>3, <3>2, <3>3, <3>4
  <2>2. CASE \E j \in 1 .. m : F[j] = x
    <3>1. PICK j \in 1 .. m : F[j] = x
      BY <2>2
    <3>2. j + 1 \in 1 .. m + 1 /\ T[j + 1] = x
      BY <1>1, <1>7, <3>1
    <3> QED BY <3>2
  <2> QED BY <1>2, <2>1, <2>2
<1>19. Lists(t, A, T)
  BY <1>6, <1>7, <1>14, <1>15, <1>16, <1>17, <1>18 DEF Lists
<1>20. \A x \in Cells : x # c => t.size[x] = s.size[x]
  BY <1>3, <1>5 DEF Store
<1> QED BY <1>3, <1>5, <1>19, <1>20 DEF t, A, T, c

(***************************************************************************)
(* Message stores: the invariant.                                          *)
(***************************************************************************)

MsgRecord == [inuse : BOOLEAN, sole : BOOLEAN, key : Keys \cup {Private}, seq : Nat,
              uid : Nat, cuid : Nat, shared : BOOLEAN, qnum : Int, cbytes : Int, qbytes : Nat]
MsgMapping == [idx : MsgSlots, seq : Nat, store : DOMAIN stores]
MsgWork == [step : {"idle", "unlink", "open", "init"}, idx : MsgSlots \cup {0}, seq : Nat,
            store : {NoStore} \cup DOMAIN stores]
MsgShape ==
  /\ msg \in [MsgSlots -> MsgRecord]
  /\ stores \in Seq(Store)
  /\ msgName \in [MsgSlots -> {NoStore} \cup DOMAIN stores]
  /\ msgCache \in [Procs -> SUBSET MsgMapping]
  /\ msgCall \in [Procs -> MsgWork]
  /\ \A p \in Procs : /\ msgCall[p].step # "idle" => msgCall[p].idx \in MsgSlots
                      /\ msgCall[p].step = "init" => msgCall[p].store \in DOMAIN stores

StoreLists == \A s \in DOMAIN stores : stores[s].ready => \E U, F : Lists(stores[s], U, F)
MsgInv == MsgShape /\ StoreLists

(* The chosen message is in the list, and no earlier one has its type.     *)
LEMMA ChoiceIs ==
  ASSUME NEW s \in Store, NEW U, NEW F, Lists(s, U, F), NEW sel, Choice(s, sel) # 0
  PROVE  LET k == Choice(s, sel) IN
         k \in 1 .. Len(U) /\ \A j \in 1 .. k - 1 : s.mtype[U[j]] # s.mtype[U[k]]
<1> DEFINE type(k) == s.mtype[U[k]]
           fits(x) == IF sel.typ = 0 THEN TRUE
                      ELSE IF sel.typ > 0 THEN sel.except # (x = sel.typ)
                      ELSE x <= -sel.typ
           match == {k \in 1 .. Len(U) : fits(type(k))}
           best == IF sel.typ < 0 THEN {k \in match : \A j \in match : type(k) <= type(j)}
                   ELSE match
           k == Choice(s, sel)
<1>1. Messages(s) = U
  BY ListsAre
<1>2. Len(U) \in Nat /\ DOMAIN U = 1 .. Len(U)
  <2>1. U \in Seq(Cells)
    BY DEF Lists, Chain
  <2> QED BY <2>1, LenProperties
<1>3. k = IF best = {} THEN 0 ELSE CHOOSE x \in best : \A j \in best : x <= j
  BY <1>1, <1>2 DEF Choice
<1> HIDE DEF fits, type, k
<1>4. best \subseteq 1 .. Len(U)
  OBVIOUS
<1>5. ASSUME NEW x \in best, NEW y \in 1 .. Len(U), type(y) = type(x) PROVE y \in best
  BY <1>5
<1> HIDE DEF best
<1>6. best # {} /\ best \subseteq Nat
  BY <1>2, <1>3, <1>4 DEF k
<1>7. \E x \in best : \A j \in best : x <= j
  BY <1>6, Least
<1>8. k \in best /\ \A j \in best : k <= j
  BY <1>3, <1>6, <1>7
<1>9. k \in 1 .. Len(U)
  BY <1>4, <1>8
<1>10. ASSUME NEW j \in 1 .. k - 1 PROVE type(j) # type(k)
  <2>1. j \in 1 .. Len(U) /\ ~(k <= j)
    BY <1>2, <1>9
  <2> QED BY <1>5, <1>8, <2>1
<1> QED BY <1>9, <1>10 DEF k, type

(* What a step may do to the stores.                                       *)
Puts(s, t) == stores' = [stores EXCEPT ![s] = t]
StoresMove ==
  \/ stores' = stores
  \/ stores' = Append(stores, RawStore)
  \/ \E s \in DOMAIN stores :
       \/ ~stores[s].ready /\ Puts(s, Initialised(stores[s]))
       \/ /\ stores[s].ready /\ stores[s].free # Nil
          /\ \E type \in Types, bytes \in Sizes : Puts(s, Linked(stores[s], type, bytes))
       \/ /\ stores[s].ready
          /\ \E sel \in Selectors :
               LET k == Choice(stores[s], sel) IN k # 0 /\ Puts(s, UnlinkedAt(stores[s], k))

LEMMA RawIsStore == RawStore \in Store /\ ~RawStore.ready
BY CellsAre DEF RawStore, Store

(* A step changes one list, by one cell, and keeps the lists.              *)
Appended(s, t) ==
  \E U, F, c : /\ Lists(s, U, F) /\ c \in Cells /\ \E G : Lists(t, Append(U, c), G)
Taken(s, t) ==
  \E U, F : /\ Lists(s, U, F)
            /\ \E k \in 1 .. Len(U) : /\ \E G : Lists(t, RemoveAt(U, k), G)
                                      /\ \A j \in 1 .. k - 1 : s.mtype[U[j]] # s.mtype[U[k]]
Effect(s, t) ==
  \/ t = s
  \/ ~s.ready /\ \E U, F : Lists(t, U, F)
  \/ s.ready /\ t.ready /\ (Appended(s, t) \/ Taken(s, t))

LEMMA Effects ==
  ASSUME stores \in Seq(Store), StoreLists, StoresMove
  PROVE  /\ stores' \in Seq(Store) /\ Len(stores) <= Len(stores') /\ DOMAIN stores \subseteq DOMAIN stores'
         /\ \A s \in DOMAIN stores : Effect(stores[s], stores'[s])
         /\ \A s \in DOMAIN stores' : s \in DOMAIN stores \/ ~stores'[s].ready
<1>1. Len(stores) \in Nat /\ DOMAIN stores = 1 .. Len(stores) /\ \A s \in DOMAIN stores : stores[s] \in Store
  BY LenProperties
<1>2. CASE stores' = stores
  BY <1>1, <1>2 DEF Effect
<1>3. CASE stores' = Append(stores, RawStore)
  <2>1. /\ stores' \in Seq(Store) /\ Len(stores') = Len(stores) + 1
        /\ \A i \in 1 .. Len(stores) : stores'[i] = stores[i]
        /\ stores'[Len(stores) + 1] = RawStore
    BY <1>3, RawIsStore, AppendProperties
  <2>2. DOMAIN stores' = 1 .. Len(stores) + 1
    BY <2>1, LenProperties
  <2>3. \A s \in 1 .. Len(stores) + 1 : s \in 1 .. Len(stores) \/ s = Len(stores) + 1
    BY <1>1
  <2>4. Len(stores) <= Len(stores') /\ DOMAIN stores \subseteq DOMAIN stores'
    BY <1>1, <2>1, <2>2
  <2>5. \A s \in DOMAIN stores' : s \in DOMAIN stores \/ ~stores'[s].ready
    BY <1>1, <2>1, <2>2, <2>3, RawIsStore
  <2>6. \A s \in DOMAIN stores : stores'[s] = stores[s]
    BY <1>1, <2>1
  <2> QED BY <2>1, <2>4, <2>5, <2>6 DEF Effect
<1>4. ASSUME NEW s \in DOMAIN stores, NEW t \in Store, Puts(s, t), Effect(stores[s], t)
      PROVE  /\ stores' \in Seq(Store) /\ Len(stores') = Len(stores) /\ DOMAIN stores' = DOMAIN stores
             /\ \A r \in DOMAIN stores : Effect(stores[r], stores'[r])
  <2>1. /\ stores' \in Seq(Store) /\ Len(stores') = Len(stores)
        /\ DOMAIN stores' = DOMAIN stores /\ stores'[s] = t
        /\ \A r \in DOMAIN stores : r # s => stores'[r] = stores[r]
    <3>1. stores' = [stores EXCEPT ![s] = t]
      BY <1>4 DEF Puts
    <3>2. stores' \in [1 .. Len(stores) -> Store]
      BY <1>1, <3>1
    <3> QED BY <1>1, <3>1, <3>2, LengthOf
  <2> QED BY <1>4, <2>1 DEF Effect
<1>5. ASSUME NEW s \in DOMAIN stores, ~stores[s].ready, Puts(s, Initialised(stores[s]))
      PROVE  /\ stores' \in Seq(Store) /\ Len(stores') = Len(stores) /\ DOMAIN stores' = DOMAIN stores
             /\ \A r \in DOMAIN stores : Effect(stores[r], stores'[r])
  <2> DEFINE t == Initialised(stores[s])
  <2>1. t \in Store /\ \E F : Lists(t, <<>>, F)
    BY <1>1, InitialisedLists
  <2>2. Effect(stores[s], t)
    BY <1>5, <2>1 DEF Effect
  <2> HIDE DEF t
  <2> QED BY <1>4, <1>5, <2>1, <2>2 DEF t
<1>6. ASSUME NEW s \in DOMAIN stores, stores[s].ready, stores[s].free # Nil,
             NEW type \in Types, NEW bytes \in Sizes, Puts(s, Linked(stores[s], type, bytes))
      PROVE  /\ stores' \in Seq(Store) /\ Len(stores') = Len(stores) /\ DOMAIN stores' = DOMAIN stores
             /\ \A r \in DOMAIN stores : Effect(stores[r], stores'[r])
  <2> DEFINE t == Linked(stores[s], type, bytes)
  <2>1. type \in Nat /\ bytes \in Nat
    BY MsgAssumption
  <2>2. PICK U, F : Lists(stores[s], U, F)
    BY <1>6 DEF StoreLists
  <2>3. /\ stores[s].free \in Cells /\ t \in Store /\ t.ready = stores[s].ready
        /\ Lists(t, Append(U, stores[s].free), Tail(F))
    BY <1>1, <1>6, <2>1, <2>2, LinkedLists
  <2> HIDE DEF t
  <2>4. Effect(stores[s], t)
    BY <1>6, <2>2, <2>3 DEF Effect, Appended
  <2> QED BY <1>4, <1>6, <2>3, <2>4 DEF t
<1>7. ASSUME NEW s \in DOMAIN stores, stores[s].ready, NEW sel \in Selectors,
             Choice(stores[s], sel) # 0, Puts(s, UnlinkedAt(stores[s], Choice(stores[s], sel)))
      PROVE  /\ stores' \in Seq(Store) /\ Len(stores') = Len(stores) /\ DOMAIN stores' = DOMAIN stores
             /\ \A r \in DOMAIN stores : Effect(stores[r], stores'[r])
  <2> DEFINE k == Choice(stores[s], sel)
             t == UnlinkedAt(stores[s], k)
  <2>2. PICK U, F : Lists(stores[s], U, F)
    BY <1>7 DEF StoreLists
  <2>3. k \in 1 .. Len(U) /\ \A j \in 1 .. k - 1 : stores[s].mtype[U[j]] # stores[s].mtype[U[k]]
    BY <1>1, <1>7, <2>2, ChoiceIs
  <2> HIDE DEF k
  <2>4. t \in Store /\ t.ready = stores[s].ready /\ Lists(t, RemoveAt(U, k), <<U[k]>> \o F)
    BY <1>1, <2>2, <2>3, UnlinkedLists
  <2> HIDE DEF t
  <2>5. Effect(stores[s], t)
    BY <1>7, <2>2, <2>3, <2>4 DEF Effect, Taken
  <2> QED BY <1>4, <1>7, <2>4, <2>5 DEF t, k
<1>8. ASSUME stores' \in Seq(Store), Len(stores') = Len(stores), DOMAIN stores' = DOMAIN stores,
             \A r \in DOMAIN stores : Effect(stores[r], stores'[r])
      PROVE  /\ stores' \in Seq(Store) /\ Len(stores) <= Len(stores') /\ DOMAIN stores \subseteq DOMAIN stores'
             /\ \A s \in DOMAIN stores : Effect(stores[s], stores'[s])
             /\ \A s \in DOMAIN stores' : s \in DOMAIN stores \/ ~stores'[s].ready
  BY <1>1, <1>8
<1>9. ASSUME stores' # stores, stores' # Append(stores, RawStore)
      PROVE  /\ stores' \in Seq(Store) /\ Len(stores') = Len(stores) /\ DOMAIN stores' = DOMAIN stores
             /\ \A r \in DOMAIN stores : Effect(stores[r], stores'[r])
  BY <1>5, <1>6, <1>7, <1>9 DEF StoresMove
<1> QED BY <1>2, <1>3, <1>8, <1>9

LEMMA ListsKept ==
  ASSUME stores \in Seq(Store), StoreLists, StoresMove
  PROVE  StoreLists'
<1> SUFFICES ASSUME NEW s \in DOMAIN stores', stores'[s].ready
             PROVE  \E U, F : Lists(stores'[s], U, F)
  BY DEF StoreLists
<1>1. s \in DOMAIN stores /\ Effect(stores[s], stores'[s])
  BY Effects
<1> QED BY <1>1 DEF Effect, Appended, Taken, StoreLists

(* The properties of the runs.                                             *)
LEMMA ListsAreWellFormed ==
  ASSUME StoreLists
  PROVE  StoresAreWellFormed
BY ListsAre DEF StoreLists, StoresAreWellFormed

Fifo ==
  \A s \in DOMAIN stores : stores[s].ready =>
       LET old == Messages(stores[s])
           new == Messages(stores'[s])
           type(k) == stores[s].mtype[old[k]] IN
       \/ new = old
       \/ \E cell \in Cells : new = Append(old, cell)
       \/ \E k \in DOMAIN old : /\ new = RemoveAt(old, k)
                                /\ \A j \in 1 .. k - 1 : type(j) # type(k)

LEMMA MovesAreFifo ==
  ASSUME stores \in Seq(Store), StoreLists, StoresMove
  PROVE  Fifo
<1> SUFFICES ASSUME NEW s \in DOMAIN stores, stores[s].ready
             PROVE  LET old == Messages(stores[s])
                        new == Messages(stores'[s])
                        type(k) == stores[s].mtype[old[k]] IN
                    \/ new = old
                    \/ \E cell \in Cells : new = Append(old, cell)
                    \/ \E k \in DOMAIN old : /\ new = RemoveAt(old, k)
                                             /\ \A j \in 1 .. k - 1 : type(j) # type(k)
  BY DEF Fifo
<1>1. Effect(stores[s], stores'[s])
  BY Effects
<1>2. CASE stores'[s] = stores[s]
  BY <1>2
<1>3. CASE Appended(stores[s], stores'[s])
  <2>1. PICK U, F, c, G : /\ Lists(stores[s], U, F) /\ c \in Cells
                          /\ Lists(stores'[s], Append(U, c), G)
    BY <1>3 DEF Appended
  <2>2. Messages(stores[s]) = U /\ Messages(stores'[s]) = Append(U, c)
    BY <2>1, ListsAre
  <2> QED BY <2>1, <2>2
<1>4. CASE Taken(stores[s], stores'[s])
  <2>1. PICK U, F : /\ Lists(stores[s], U, F)
                    /\ \E k \in 1 .. Len(U) :
                         /\ \E G : Lists(stores'[s], RemoveAt(U, k), G)
                         /\ \A j \in 1 .. k - 1 : stores[s].mtype[U[j]] # stores[s].mtype[U[k]]
    BY <1>4 DEF Taken
  <2>2. PICK k \in 1 .. Len(U) :
               /\ \E G : Lists(stores'[s], RemoveAt(U, k), G)
               /\ \A j \in 1 .. k - 1 : stores[s].mtype[U[j]] # stores[s].mtype[U[k]]
    BY <2>1
  <2>3. Messages(stores[s]) = U /\ Messages(stores'[s]) = RemoveAt(U, k)
    BY <2>1, <2>2, ListsAre
  <2>4. DOMAIN U = 1 .. Len(U)
    <3>1. U \in Seq(Cells)
      BY <2>1 DEF Lists, Chain
    <3> QED BY <3>1, LenProperties
  <2> QED BY <2>2, <2>3, <2>4
<1> QED BY <1>1, <1>2, <1>3, <1>4 DEF Effect

(***************************************************************************)
(* Message queues: what each action does.                                  *)
(***************************************************************************)

LEMMA MsgRecords ==
  ASSUME NEW e \in MsgRecord
  PROVE  /\ FreeMsg(e.seq) \in MsgRecord /\ FreeMsg(e.seq + 1) \in MsgRecord
         /\ \A p \in Procs, key \in Keys, shared \in Modes, sole \in BOOLEAN :
              [Created(FreeMsg(e.seq), p, key, shared) EXCEPT !.qbytes = QueueBytes, !.sole = sole]
                \in MsgRecord
         /\ \A uid \in Owners, shared \in Modes, bytes \in SetBytes :
              LET d == WithPerm(e, uid, shared) IN
              [d EXCEPT !.qbytes = IF bytes = 0 THEN e.qbytes ELSE bytes] \in MsgRecord
<1>1. QueueBytes \in Nat /\ SetBytes \subseteq Nat
  BY MsgAssumption
<1>2. FreeMsg(e.seq) \in MsgRecord /\ FreeMsg(e.seq + 1) \in MsgRecord
  BY DEF FreeMsg, MsgRecord
<1>3. ASSUME NEW p \in Procs, NEW key \in Keys, NEW shared \in Modes, NEW sole \in BOOLEAN
      PROVE  [Created(FreeMsg(e.seq), p, key, shared) EXCEPT !.qbytes = QueueBytes, !.sole = sole]
               \in MsgRecord
  <2>1. Uid[p] \in Nat /\ shared \in BOOLEAN /\ e.seq \in Nat
    BY SysvAssumption DEF MsgRecord
  <2> DEFINE f == FreeMsg(e.seq)
             u == Uid[p]
             c == [f EXCEPT !.inuse = TRUE, !.key = key, !.uid = u, !.cuid = u, !.shared = shared]
  <2>2. f \in MsgRecord /\ u \in Nat /\ key \in Keys \cup {Private}
    BY <1>2, <2>1
  <2>3. Created(f, p, key, shared) = c
    BY DEF Created
  <2> HIDE DEF f, u
  <2>4. c \in MsgRecord
    BY <2>1, <2>2 DEF MsgRecord
  <2> HIDE DEF c
  <2>5. [c EXCEPT !.qbytes = QueueBytes, !.sole = sole] \in MsgRecord
    BY <1>1, <2>4 DEF MsgRecord
  <2> QED BY <2>3, <2>5 DEF f
<1>4. ASSUME NEW uid \in Owners, NEW shared \in Modes, NEW bytes \in SetBytes
      PROVE  LET d == WithPerm(e, uid, shared) IN
             [d EXCEPT !.qbytes = IF bytes = 0 THEN e.qbytes ELSE bytes] \in MsgRecord
  <2>1. uid \in Nat /\ shared \in BOOLEAN
    BY SysvAssumption
  <2> QED BY <1>1, <2>1 DEF WithPerm, MsgRecord
<1> QED BY <1>2, <1>3, <1>4

(* The store a process reaches a queue through exists, or there is none.   *)
LEMMA StoreOfIs ==
  ASSUME MsgShape, NEW p \in Procs, NEW i \in MsgSlots
  PROVE  /\ StoreOf(p, i) \in {NoStore} \cup DOMAIN stores
         /\ \/ StoreOf(p, i) = msgName[i]
            \/ [idx |-> i, seq |-> msg[i].seq, store |-> StoreOf(p, i)] \in msgCache[p]
<1>1. CASE Cached(p, i) = {}
  BY <1>1 DEF StoreOf, MsgShape
<1>2. CASE Cached(p, i) # {}
  <2> DEFINE m == CHOOSE m \in Cached(p, i) : TRUE
  <2>1. m \in Cached(p, i)
    BY <1>2
  <2>2. StoreOf(p, i) = m.store
    BY <1>2 DEF StoreOf
  <2> HIDE DEF m
  <2>3. m \in msgCache[p] /\ m \in MsgMapping /\ m.idx = i /\ m.seq = msg[i].seq
    BY <2>1 DEF Cached, MsgShape
  <2>4. m = [idx |-> i, seq |-> msg[i].seq, store |-> m.store] /\ m.store \in DOMAIN stores
    BY <2>3 DEF MsgMapping
  <2> QED BY <2>2, <2>3, <2>4
<1> QED BY <1>1, <1>2

LEMMA ShapeGrows ==
  ASSUME DOMAIN stores \subseteq DOMAIN stores'
  PROVE  MsgMapping \subseteq MsgMapping' /\ MsgWork \subseteq MsgWork'
BY DEF MsgMapping, MsgWork

LEMMA MsgWorkIdle == MsgIdle \in MsgWork /\ MsgIdle.step = "idle"
BY DEF MsgIdle, MsgWork

(* The parts of the shape, after a step that moves the stores.             *)
LEMMA ShapeParts ==
  ASSUME MsgInv, StoresMove,
         msg' \in [MsgSlots -> MsgRecord],
         msgName' \in [MsgSlots -> {NoStore} \cup DOMAIN stores'],
         msgCache' \in [Procs -> SUBSET MsgMapping'],
         msgCall' \in [Procs -> MsgWork'],
         \A p \in Procs : \/ msgCall'[p] = msgCall[p]
                          \/ /\ msgCall'[p].step # "idle" => msgCall'[p].idx \in MsgSlots
                             /\ msgCall'[p].step = "init" => msgCall'[p].store \in DOMAIN stores'
  PROVE  MsgInv'
<1>1. stores \in Seq(Store) /\ StoreLists
  BY DEF MsgInv, MsgShape
<1>2. stores' \in Seq(Store) /\ DOMAIN stores \subseteq DOMAIN stores'
  BY <1>1, Effects
<1>3. StoreLists'
  BY <1>1, ListsKept
<1>4. \A p \in Procs : /\ msgCall'[p].step # "idle" => msgCall'[p].idx \in MsgSlots
                       /\ msgCall'[p].step = "init" => msgCall'[p].store \in DOMAIN stores'
  BY <1>2 DEF MsgInv, MsgShape
<1>5. MsgShape'
  BY <1>2, <1>4 DEF MsgShape
<1> QED BY <1>3, <1>5 DEF MsgInv

LEMMA SameStores ==
  ASSUME MsgInv, stores' = stores
  PROVE  StoresMove /\ MsgMapping' = MsgMapping /\ MsgWork' = MsgWork
BY DEF StoresMove, MsgMapping, MsgWork

LEMMA MsgParts ==
  ASSUME MsgInv
  PROVE  /\ msg \in [MsgSlots -> MsgRecord] /\ stores \in Seq(Store)
         /\ msgName \in [MsgSlots -> {NoStore} \cup DOMAIN stores]
         /\ msgCache \in [Procs -> SUBSET MsgMapping] /\ msgCall \in [Procs -> MsgWork]
         /\ \A p \in Procs : /\ msgCall[p].step # "idle" => msgCall[p].idx \in MsgSlots
                             /\ msgCall[p].step = "init" => msgCall[p].store \in DOMAIN stores
BY DEF MsgInv, MsgShape

LEMMA MsgQuiet ==
  ASSUME MsgInv, UNCHANGED <<msg, stores>>,
         msgName' \in [MsgSlots -> {NoStore} \cup DOMAIN stores],
         msgCache' \in [Procs -> SUBSET MsgMapping],
         msgCall' \in [Procs -> MsgWork],
         \A p \in Procs : msgCall'[p] = msgCall[p] \/ msgCall'[p] = MsgIdle
  PROVE  MsgInv' /\ StoresMove
<1>1. StoresMove /\ MsgMapping' = MsgMapping /\ MsgWork' = MsgWork
  BY SameStores
<1> QED BY <1>1, MsgParts, MsgWorkIdle, ShapeParts

LEMMA MsggetEntryKeeps ==
  ASSUME MsgInv, NEW p \in Procs, NEW i \in MsgSlots, MsggetEntry(p, i)
  PROVE  MsgInv' /\ StoresMove
<1> USE MsgParts
<1> DEFINE w == [step |-> "unlink", idx |-> i, seq |-> msg[i].seq, store |-> NoStore]
<1>1. PICK key \in Keys, shared \in Modes :
        msg' = [msg EXCEPT ![i] = [Created(FreeMsg(msg[i].seq), p, key, shared)
                                     EXCEPT !.qbytes = QueueBytes, !.sole = Undisturbed(i)]]
  BY DEF MsggetEntry
<1>2. msgName' = msgName /\ stores' = stores /\ msgCache' = msgCache /\ msgCall' = [msgCall EXCEPT ![p] = w]
  BY DEF MsggetEntry
<1>3. StoresMove /\ MsgMapping' = MsgMapping /\ MsgWork' = MsgWork
  BY <1>2, SameStores
<1>4. msg' \in [MsgSlots -> MsgRecord]
  <2>1. Undisturbed(i) \in BOOLEAN
    BY DEF Undisturbed
  <2> QED BY <1>1, <2>1, MsgRecords
<1>5. w \in MsgWork /\ w.idx \in MsgSlots /\ w.step # "init"
  BY DEF MsgWork, MsgRecord
<1> HIDE DEF w
<1>6. msgCall' \in [Procs -> MsgWork] /\ \A q \in Procs : msgCall'[q] = msgCall[q] \/ msgCall'[q] = w
  BY <1>2, <1>5
<1>7. msgName' \in [MsgSlots -> {NoStore} \cup DOMAIN stores']
  BY <1>2
<1> QED BY <1>2, <1>3, <1>4, <1>5, <1>6, <1>7, ShapeParts

LEMMA MsggetUnlinkKeeps ==
  ASSUME MsgInv, NEW p \in Procs, MsggetUnlink(p)
  PROVE  MsgInv' /\ StoresMove
<1> USE MsgParts
<1> DEFINE i == msgCall[p].idx
           w == [msgCall[p] EXCEPT !.step = "open"]
<1>1. /\ i \in MsgSlots /\ msg' = msg /\ stores' = stores /\ msgCache' = msgCache
      /\ msgName' = [msgName EXCEPT ![i] = NoStore] /\ msgCall' = [msgCall EXCEPT ![p] = w]
  BY DEF MsggetUnlink
<1>2. StoresMove /\ MsgMapping' = MsgMapping /\ MsgWork' = MsgWork
  BY <1>1, SameStores
<1>3. w \in MsgWork /\ w.idx \in MsgSlots /\ w.step # "init"
  BY <1>1 DEF MsgWork
<1> HIDE DEF w, i
<1>4. msgCall' \in [Procs -> MsgWork] /\ \A q \in Procs : msgCall'[q] = msgCall[q] \/ msgCall'[q] = w
  BY <1>1, <1>3
<1>5. msgName' \in [MsgSlots -> {NoStore} \cup DOMAIN stores']
  BY <1>1
<1> QED BY <1>1, <1>2, <1>3, <1>4, <1>5, ShapeParts

(* The object a maker opens.                                               *)
LEMMA MsggetOpenIs ==
  ASSUME MsgInv, NEW p \in Procs, MsggetOpen(p)
  PROVE  \E s : LET i == msgCall[p].idx
                    w == [msgCall[p] EXCEPT !.step = "init", !.store = s] IN
           /\ i \in MsgSlots /\ msg' = msg /\ msgCache' = msgCache
           /\ msgCall' = [msgCall EXCEPT ![p] = w]
           /\ \/ /\ s = Len(stores) + 1 /\ stores' = Append(stores, RawStore) /\ msgName[i] = NoStore
                 /\ msgName' = [msgName EXCEPT ![i] = s]
              \/ /\ s = msgName[i] /\ s # NoStore /\ stores' = stores /\ msgName' = msgName
<1> DEFINE i == msgCall[p].idx
<1>0. i \in MsgSlots /\ msg' = msg /\ msgCache' = msgCache /\ p \in DOMAIN msgCall
  BY MsgParts DEF MsggetOpen
<1>1. CASE /\ msgName[i] = NoStore /\ stores' = Append(stores, RawStore)
           /\ msgName' = [msgName EXCEPT ![i] = Len(stores) + 1]
           /\ msgCall' = [msgCall EXCEPT ![p].step = "init", ![p].store = Len(stores) + 1]
  <2>1. msgCall' = [msgCall EXCEPT ![p] = [msgCall[p] EXCEPT !.step = "init", !.store = Len(stores) + 1]]
    BY <1>0, <1>1, MsgParts
  <2> QED BY <1>0, <1>1, <2>1
<1>2. CASE /\ msgName[i] # NoStore /\ UNCHANGED <<stores, msgName>>
           /\ msgCall' = [msgCall EXCEPT ![p].step = "init", ![p].store = msgName[i]]
  <2>1. msgCall' = [msgCall EXCEPT ![p] = [msgCall[p] EXCEPT !.step = "init", !.store = msgName[i]]]
    BY <1>0, <1>2, MsgParts
  <2> QED BY <1>0, <1>2, <2>1
<1> QED BY <1>1, <1>2 DEF MsggetOpen

LEMMA MsggetOpenKeeps ==
  ASSUME MsgInv, NEW p \in Procs, MsggetOpen(p)
  PROVE  MsgInv' /\ StoresMove
<1> USE MsgParts
<1> DEFINE i == msgCall[p].idx
           w(s) == [msgCall[p] EXCEPT !.step = "init", !.store = s]
<1>1. PICK s : /\ i \in MsgSlots /\ msg' = msg /\ msgCache' = msgCache
               /\ msgCall' = [msgCall EXCEPT ![p] = w(s)]
               /\ \/ /\ s = Len(stores) + 1 /\ stores' = Append(stores, RawStore) /\ msgName[i] = NoStore
                     /\ msgName' = [msgName EXCEPT ![i] = s]
                  \/ /\ s = msgName[i] /\ s # NoStore /\ stores' = stores /\ msgName' = msgName
  BY MsggetOpenIs
<1>2. StoresMove
  BY <1>1 DEF StoresMove
<1>3. stores' \in Seq(Store) /\ DOMAIN stores \subseteq DOMAIN stores' /\ Len(stores) \in Nat
  BY <1>2, Effects, LenProperties DEF MsgInv
<1>4. s \in DOMAIN stores'
  <2>1. CASE stores' = stores
    BY <1>1, <1>3, <2>1, AppendProperties, RawIsStore
  <2>2. CASE stores' = Append(stores, RawStore) /\ s = Len(stores) + 1
    <3>1. Len(stores') = Len(stores) + 1 /\ DOMAIN stores' = 1 .. Len(stores')
      BY <1>3, <2>2, AppendProperties, RawIsStore, LenProperties
    <3> QED BY <1>3, <2>2, <3>1
  <2> QED BY <1>1, <2>1, <2>2
<1>5. MsgMapping \subseteq MsgMapping' /\ MsgWork \subseteq MsgWork'
  BY <1>3, ShapeGrows
<1>6. w(s) \in MsgWork' /\ w(s).idx \in MsgSlots /\ w(s).store = s
  BY <1>1, <1>4 DEF MsgWork
<1> HIDE DEF w
<1>7. /\ msgCall' \in [Procs -> MsgWork']
      /\ \A q \in Procs : msgCall'[q] = msgCall[q] \/ msgCall'[q] = w(s)
  BY <1>1, <1>5, <1>6
<1>8. msgName' \in [MsgSlots -> {NoStore} \cup DOMAIN stores']
  BY <1>1, <1>3, <1>4
<1>9. msgCache' \in [Procs -> SUBSET MsgMapping']
  BY <1>1, <1>5
<1> QED BY <1>1, <1>2, <1>4, <1>6, <1>7, <1>8, <1>9, ShapeParts

LEMMA MsggetReadyKeeps ==
  ASSUME MsgInv, NEW p \in Procs, MsggetReady(p)
  PROVE  MsgInv' /\ StoresMove
<1> USE MsgParts
<1> DEFINE w == msgCall[p]
           m == [idx |-> w.idx, seq |-> w.seq, store |-> w.store]
           t == stores[w.store]
<1>1. /\ w.step = "init" /\ w.idx \in MsgSlots /\ w.store \in DOMAIN stores
      /\ stores' = [stores EXCEPT ![w.store] = IF t.ready THEN t ELSE Initialised(t)]
      /\ msgCache' = [msgCache EXCEPT ![p] = msgCache[p] \cup {m}]
      /\ msgCall' = [msgCall EXCEPT ![p] = MsgIdle] /\ msg' = msg /\ msgName' = msgName
  BY DEF MsggetReady
<1>2. StoresMove
  <2>1. t.ready => stores' = stores
    BY <1>1
  <2>2. ~t.ready => Puts(w.store, Initialised(t))
    BY <1>1 DEF Puts
  <2> QED BY <1>1, <2>1, <2>2 DEF StoresMove
<1>3. DOMAIN stores \subseteq DOMAIN stores'
  BY <1>2, Effects DEF MsgInv
<1>4. MsgMapping \subseteq MsgMapping' /\ MsgWork \subseteq MsgWork'
  BY <1>3, ShapeGrows
<1>5. m \in MsgMapping
  BY <1>1 DEF MsgMapping, MsgWork
<1> HIDE DEF m, w
<1>6. msgCache' \in [Procs -> SUBSET MsgMapping']
  BY <1>1, <1>4, <1>5
<1>7. msgCall' \in [Procs -> MsgWork'] /\ \A q \in Procs : msgCall'[q] = msgCall[q] \/ msgCall'[q] = MsgIdle
  BY <1>1, <1>4, MsgWorkIdle
<1>8. msgName' \in [MsgSlots -> {NoStore} \cup DOMAIN stores'] /\ msg' \in [MsgSlots -> MsgRecord]
  BY <1>1, <1>3
<1> QED BY <1>2, <1>6, <1>7, <1>8, MsgWorkIdle, ShapeParts

(* A freed entry, by msgget() that failed or by IPC_RMID.                  *)
MsgFrees(p, i) ==
  /\ msg' = [msg EXCEPT ![i] = FreeMsg(msg[i].seq + 1)]
  /\ msgName' = [msgName EXCEPT ![i] = NoStore]
  /\ msgCache' = [msgCache EXCEPT ![p] = {m \in msgCache[p] : m.idx # i}]
  /\ stores' = stores

LEMMA MsgFreesKeeps ==
  ASSUME MsgInv, NEW p \in Procs, NEW i \in MsgSlots, MsgFrees(p, i),
         msgCall' = msgCall \/ msgCall' = [msgCall EXCEPT ![p] = MsgIdle]
  PROVE  MsgInv' /\ StoresMove
<1> USE MsgParts
<1>1. StoresMove /\ MsgMapping' = MsgMapping /\ MsgWork' = MsgWork
  BY SameStores DEF MsgFrees
<1>2. msg' \in [MsgSlots -> MsgRecord]
  <2>1. FreeMsg(msg[i].seq + 1) \in MsgRecord
    BY MsgRecords
  <2> QED BY <2>1 DEF MsgFrees
<1>3. msgName' \in [MsgSlots -> {NoStore} \cup DOMAIN stores'] /\ msgCache' \in [Procs -> SUBSET MsgMapping]
  BY DEF MsgFrees
<1>4. msgCall' \in [Procs -> MsgWork] /\ \A q \in Procs : msgCall'[q] = msgCall[q] \/ msgCall'[q] = MsgIdle
  BY MsgWorkIdle
<1> QED BY <1>1, <1>2, <1>3, <1>4, MsgWorkIdle, ShapeParts

LEMMA MsggetFailsKeeps ==
  ASSUME MsgInv, NEW p \in Procs, MsggetFails(p)
  PROVE  MsgInv' /\ StoresMove
<1> DEFINE i == msgCall[p].idx
<1>1. i \in MsgSlots /\ msgCall' = [msgCall EXCEPT ![p] = MsgIdle] /\ stores' = stores
  BY MsgParts DEF MsggetFails
<1>2. \/ MsgFrees(p, i)
      \/ msg' = msg /\ msgName' = msgName /\ msgCache' = msgCache
  BY DEF MsggetFails, MsgFrees
<1>3. CASE MsgFrees(p, i)
  BY <1>1, <1>3, MsgFreesKeeps
<1>4. CASE msg' = msg /\ msgName' = msgName /\ msgCache' = msgCache
  <2>1. msgCall' \in [Procs -> MsgWork] /\ \A q \in Procs : msgCall'[q] = msgCall[q] \/ msgCall'[q] = MsgIdle
    BY <1>1, MsgParts, MsgWorkIdle
  <2> QED BY <1>1, <1>4, <2>1, MsgParts, MsgQuiet
<1> QED BY <1>2, <1>3, <1>4

(* A send or a receive, on the store the process reaches.                  *)
LEMMA MsgTransferKeeps ==
  ASSUME MsgInv, StoresMove, NEW p \in Procs, NEW i \in MsgSlots, NEW n \in Int, NEW b \in Int,
         StoreOf(p, i) # NoStore,
         msg' = [msg EXCEPT ![i] = [msg[i] EXCEPT !.qnum = n, !.cbytes = b]],
         msgCache' = Caching(p, i, StoreOf(p, i)), UNCHANGED <<msgName, msgCall>>
  PROVE  MsgInv'
<1> USE MsgParts
<1> DEFINE s == StoreOf(p, i)
           m == [idx |-> i, seq |-> msg[i].seq, store |-> s]
<1>1. s \in DOMAIN stores
  BY StoreOfIs DEF MsgInv
<1>2. DOMAIN stores \subseteq DOMAIN stores'
  BY Effects DEF MsgInv
<1>3. MsgMapping \subseteq MsgMapping' /\ MsgWork \subseteq MsgWork'
  BY <1>2, ShapeGrows
<1>4. m \in MsgMapping
  BY <1>1 DEF MsgMapping, MsgRecord
<1>5. msgCache' = [msgCache EXCEPT ![p] = msgCache[p] \cup {m}]
  BY DEF Caching
<1> HIDE DEF m, s
<1>6. msgCache' \in [Procs -> SUBSET MsgMapping'] /\ msgCall' \in [Procs -> MsgWork']
  BY <1>3, <1>4, <1>5
<1>7. [msg[i] EXCEPT !.qnum = n, !.cbytes = b] \in MsgRecord
  <2> DEFINE e == msg[i]
  <2>1. e \in MsgRecord
    OBVIOUS
  <2> HIDE DEF e
  <2>2. [e EXCEPT !.qnum = n, !.cbytes = b] \in MsgRecord
    BY <2>1 DEF MsgRecord
  <2> QED BY <2>2 DEF e
<1>8. msgName' \in [MsgSlots -> {NoStore} \cup DOMAIN stores'] /\ msg' \in [MsgSlots -> MsgRecord]
  BY <1>2, <1>7
<1> QED BY <1>6, <1>8, ShapeParts

Transfer(p, i, n, b) ==
  /\ msg' = [msg EXCEPT ![i] = [msg[i] EXCEPT !.qnum = n, !.cbytes = b]]
  /\ msgCache' = Caching(p, i, StoreOf(p, i))
  /\ msgName' = msgName /\ msgCall' = msgCall

LEMMA MsgsndIs ==
  ASSUME MsgInv, NEW p \in Procs, NEW i \in MsgSlots, Msgsnd(p, i)
  PROVE  LET s == StoreOf(p, i) IN
         /\ s \in DOMAIN stores /\ s # NoStore /\ stores[s].ready /\ stores[s].free # Nil
         /\ msg[i].inuse
         /\ \E type \in Types, bytes \in Sizes :
              /\ Puts(s, Linked(stores[s], type, bytes))
              /\ Transfer(p, i, msg[i].qnum + 1, msg[i].cbytes + bytes)
<1> USE MsgParts
<1> DEFINE s == StoreOf(p, i)
<1>1. s \in DOMAIN stores /\ s # NoStore
  BY StoreOfIs DEF MsgInv, Msgsnd, Usable
<1>2. PICK type \in Types, bytes \in Sizes :
        /\ stores' = [stores EXCEPT ![s] = Linked(stores[s], type, bytes)]
        /\ msg' = [msg EXCEPT ![i].qnum = msg[i].qnum + 1, ![i].cbytes = msg[i].cbytes + bytes]
  <2>1. PICK type \in Types, bytes \in Sizes :
        /\ stores' = [stores EXCEPT ![s] = Linked(@, type, bytes)]
        /\ msg' = [msg EXCEPT ![i].qnum = @ + 1, ![i].cbytes = @ + bytes]
    BY DEF Msgsnd
  <2> HIDE DEF s
  <2>2. stores' = [stores EXCEPT ![s] = Linked(stores[s], type, bytes)]
    BY <2>1
  <2>3. msg' = [msg EXCEPT ![i].qnum = msg[i].qnum + 1, ![i].cbytes = msg[i].cbytes + bytes]
    BY <2>1 DEF MsgRecord
  <2> QED BY <2>2, <2>3
<1>3. msg' = [msg EXCEPT ![i] = [msg[i] EXCEPT !.qnum = msg[i].qnum + 1, !.cbytes = msg[i].cbytes + bytes]]
  BY <1>2 DEF MsgRecord
<1>4. Puts(s, Linked(stores[s], type, bytes))
  BY <1>2 DEF Puts
<1>5. /\ stores[s].ready /\ stores[s].free # Nil /\ msg[i].inuse
      /\ msgCache' = Caching(p, i, s) /\ msgName' = msgName /\ msgCall' = msgCall
  BY DEF Msgsnd, Usable
<1> HIDE DEF s
<1>6. Transfer(p, i, msg[i].qnum + 1, msg[i].cbytes + bytes)
  BY <1>3, <1>5 DEF Transfer, s
<1> QED BY <1>1, <1>4, <1>5, <1>6 DEF s

LEMMA MsgrcvIs ==
  ASSUME MsgInv, NEW p \in Procs, NEW i \in MsgSlots, Msgrcv(p, i)
  PROVE  LET s == StoreOf(p, i) IN
         /\ s \in DOMAIN stores /\ s # NoStore /\ stores[s].ready /\ msg[i].inuse
         /\ \E sel \in Selectors :
              LET k == Choice(stores[s], sel) IN
              /\ k # 0 /\ Puts(s, UnlinkedAt(stores[s], k))
              /\ Transfer(p, i, msg[i].qnum - 1,
                          msg[i].cbytes - stores[s].size[Messages(stores[s])[k]])
<1> USE MsgParts
<1> DEFINE s == StoreOf(p, i)
<1>1. s \in DOMAIN stores /\ s # NoStore
  BY StoreOfIs DEF MsgInv, Msgrcv, Usable
<1>2. PICK sel \in Selectors :
        LET k == Choice(stores[s], sel) IN
        /\ k # 0
        /\ stores' = [stores EXCEPT ![s] = UnlinkedAt(@, k)]
        /\ msg' = [msg EXCEPT ![i].qnum = @ - 1,
                              ![i].cbytes = @ - stores[s].size[Messages(stores[s])[k]]]
  BY DEF Msgrcv
<1> DEFINE k == Choice(stores[s], sel)
           z == stores[s].size[Messages(stores[s])[k]]
<1>3. /\ stores[s].ready /\ msg[i].inuse
      /\ msgCache' = Caching(p, i, s) /\ msgName' = msgName /\ msgCall' = msgCall
  BY DEF Msgrcv, Usable
<1>4. /\ k # 0 /\ stores' = [stores EXCEPT ![s] = UnlinkedAt(stores[s], k)]
      /\ msg' = [msg EXCEPT ![i].qnum = @ - 1, ![i].cbytes = @ - z]
  BY <1>2
<1> HIDE DEF s, k, z
<1>5. msg' = [msg EXCEPT ![i] = [msg[i] EXCEPT !.qnum = msg[i].qnum - 1, !.cbytes = msg[i].cbytes - z]]
  BY <1>4 DEF MsgRecord
<1>6. Transfer(p, i, msg[i].qnum - 1, msg[i].cbytes - z)
  BY <1>3, <1>5 DEF Transfer, s
<1>7. Puts(s, UnlinkedAt(stores[s], k))
  BY <1>4 DEF Puts
<1> QED BY <1>1, <1>3, <1>4, <1>6, <1>7 DEF s, k, z

LEMMA MsgsndKeeps ==
  ASSUME MsgInv, NEW p \in Procs, NEW i \in MsgSlots, Msgsnd(p, i)
  PROVE  MsgInv' /\ StoresMove
<1> DEFINE s == StoreOf(p, i)
<1>1. PICK type \in Types, bytes \in Sizes :
        /\ s \in DOMAIN stores /\ s # NoStore /\ stores[s].ready /\ stores[s].free # Nil
        /\ Puts(s, Linked(stores[s], type, bytes))
        /\ Transfer(p, i, msg[i].qnum + 1, msg[i].cbytes + bytes)
  BY MsgsndIs
<1>2. StoresMove
  <2> HIDE DEF s
  <2> QED BY <1>1 DEF StoresMove
<1>3. msg[i].qnum + 1 \in Int /\ msg[i].cbytes + bytes \in Int
  BY MsgParts, MsgAssumption DEF MsgRecord
<1> QED BY <1>1, <1>2, <1>3, MsgTransferKeeps DEF Transfer

(* The cell a receive takes.                                               *)
LEMMA ChosenCell ==
  ASSUME MsgInv, NEW s \in DOMAIN stores, stores[s].ready, NEW sel, Choice(stores[s], sel) # 0
  PROVE  LET k == Choice(stores[s], sel)
             U == Messages(stores[s]) IN
         /\ \E F : Lists(stores[s], U, F)
         /\ k \in 1 .. Len(U) /\ U[k] \in Cells /\ stores[s].size[U[k]] \in Nat
         /\ stores[s] \in Store
<1>1. PICK U, F : Lists(stores[s], U, F)
  BY DEF MsgInv, StoreLists
<1>2. stores[s] \in Store
  BY MsgParts, LenProperties
<1>3. Messages(stores[s]) = U /\ Choice(stores[s], sel) \in 1 .. Len(U)
  BY <1>1, <1>2, ListsAre, ChoiceIs
<1>4. \A k \in 1 .. Len(U) : U[k] \in Cells
  <2>1. U \in Seq(Cells)
    BY <1>1 DEF Lists, Chain
  <2> QED BY <2>1, LenProperties
<1>5. \A c \in Cells : stores[s].size[c] \in Nat
  BY <1>2 DEF Store
<1> QED BY <1>1, <1>2, <1>3, <1>4, <1>5

LEMMA MsgrcvKeeps ==
  ASSUME MsgInv, NEW p \in Procs, NEW i \in MsgSlots, Msgrcv(p, i)
  PROVE  MsgInv' /\ StoresMove
<1> DEFINE s == StoreOf(p, i)
<1>1. PICK sel \in Selectors :
        LET k == Choice(stores[s], sel) IN
        /\ s \in DOMAIN stores /\ s # NoStore /\ stores[s].ready
        /\ k # 0 /\ Puts(s, UnlinkedAt(stores[s], k))
        /\ Transfer(p, i, msg[i].qnum - 1, msg[i].cbytes - stores[s].size[Messages(stores[s])[k]])
  BY MsgrcvIs
<1> DEFINE k == Choice(stores[s], sel)
           z == stores[s].size[Messages(stores[s])[k]]
<1>2. StoresMove
  <2> HIDE DEF s
  <2> QED BY <1>1 DEF StoresMove
<1>3. z \in Nat
  <2> HIDE DEF s
  <2> QED BY <1>1, ChosenCell
<1>4. Transfer(p, i, msg[i].qnum - 1, msg[i].cbytes - z) /\ StoreOf(p, i) # NoStore
  BY <1>1
<1> HIDE DEF s, k, z
<1>5. msg[i].qnum - 1 \in Int /\ msg[i].cbytes - z \in Int
  BY <1>3, MsgParts DEF MsgRecord
<1> QED BY <1>2, <1>4, <1>5, MsgTransferKeeps DEF Transfer

LEMMA MsgRmidKeeps ==
  ASSUME MsgInv, NEW p \in Procs, NEW i \in MsgSlots, MsgRmid(p, i)
  PROVE  MsgInv' /\ StoresMove
<1>1. MsgFrees(p, i) /\ msgCall' = msgCall
  BY DEF MsgRmid, MsgFrees
<1> QED BY <1>1, MsgFreesKeeps

LEMMA MsgSetKeeps ==
  ASSUME MsgInv, NEW p \in Procs, NEW i \in MsgSlots, MsgSet(p, i)
  PROVE  MsgInv' /\ StoresMove
<1> USE MsgParts
<1>1. PICK bytes \in SetBytes, uid \in Owners, shared \in Modes :
        msg' = [msg EXCEPT ![i] = [WithPerm(msg[i], uid, shared)
                        EXCEPT !.qbytes = IF bytes = 0 THEN msg[i].qbytes ELSE bytes]]
  BY DEF MsgSet
<1> DEFINE d == WithPerm(msg[i], uid, shared)
           e == [d EXCEPT !.qbytes = IF bytes = 0 THEN msg[i].qbytes ELSE bytes]
<1>2. msg' = [msg EXCEPT ![i] = e]
  BY ONLY <1>1
<1>3. e \in MsgRecord
  BY MsgRecords
<1> HIDE DEF e
<1>4. msg' \in [MsgSlots -> MsgRecord]
  BY <1>2, <1>3
<1>5. UNCHANGED <<msgName, stores, msgCache, msgCall>>
  BY DEF MsgSet
<1>6. StoresMove /\ MsgMapping' = MsgMapping /\ MsgWork' = MsgWork
  BY <1>5, SameStores
<1> QED BY <1>4, <1>5, <1>6, ShapeParts

(* The process hooks: names and mappings go, or are copied.                *)
LEMMA MsgHooksKeep ==
  ASSUME MsgInv, NEW p \in Procs, (\E c \in Procs : Fork(p, c)) \/ Exec(p) \/ Exit(p) \/ Kill(p)
  PROVE  MsgInv' /\ StoresMove
<1> USE MsgParts
<1>1. UNCHANGED <<msg, stores>>
  BY DEF Fork, Exec, Exit, Kill, msgVars
<1>2. /\ msgCall' \in [Procs -> MsgWork]
      /\ \A q \in Procs : msgCall'[q] = msgCall[q] \/ msgCall'[q] = MsgIdle
  <2>1. msgCall' = msgCall \/ msgCall' = [msgCall EXCEPT ![p] = MsgIdle]
    BY DEF Fork, Exec, Exit, Kill, msgVars
  <2> QED BY <2>1, MsgWorkIdle
<1>3. msgCache' \in [Procs -> SUBSET MsgMapping]
  <2>1. \/ msgCache' = msgCache
        \/ msgCache' = [msgCache EXCEPT ![p] = {}]
        \/ \E c \in Procs : msgCache' = [msgCache EXCEPT ![c] = msgCache[p]]
    BY DEF Fork, Exec, Exit, Kill, msgVars
  <2> QED BY <2>1
<1>4. msgName' \in [MsgSlots -> {NoStore} \cup DOMAIN stores]
  <2>1. \/ msgName' = msgName
        \/ msgName' = [i \in MsgSlots |-> IF msg[i].inuse THEN NoStore ELSE msgName[i]]
    BY DEF Fork, Exec, Exit, Kill, msgVars
  <2> QED BY <2>1
<1> QED BY <1>1, <1>2, <1>3, <1>4, MsgQuiet

LEMMA MsgStarts ==
  ASSUME Init
  PROVE  MsgInv
<1> USE DEF Init, MsgInit
<1>1. msg \in [MsgSlots -> MsgRecord]
  BY DEF FreeMsg, MsgRecord
<1>2. stores = <<>> /\ stores \in Seq(Store) /\ DOMAIN stores = {}
  BY EmptySeq, LenProperties
<1>3. msgCall \in [Procs -> MsgWork] /\ \A p \in Procs : msgCall[p].step = "idle"
  BY MsgWorkIdle
<1>4. MsgShape
  BY <1>1, <1>2, <1>3 DEF MsgShape
<1>5. StoreLists
  BY <1>2 DEF StoreLists
<1> QED BY <1>4, <1>5 DEF MsgInv

LEMMA MsgPreserved ==
  ASSUME MsgInv, [Next]_vars
  PROVE  MsgInv' /\ StoresMove
<1>1. ASSUME UNCHANGED msgVars PROVE MsgInv' /\ StoresMove
  <2>1. UNCHANGED <<msg, stores, msgName, msgCache, msgCall>>
    BY <1>1 DEF msgVars
  <2> QED BY <2>1, MsgParts, MsgQuiet
<1>2. CASE UNCHANGED vars
  BY <1>1, <1>2 DEF vars
<1>3. ASSUME NEW p \in Procs, Shm(p) \/ Sem(p) PROVE MsgInv' /\ StoresMove
  BY <1>1, <1>3 DEF Shm, Sem
<1>4. ASSUME NEW p \in Procs, Msg(p) PROVE MsgInv' /\ StoresMove
  <2>1. CASE MsgRequest(p)
    BY <2>1, MsggetEntryKeeps, MsgsndKeeps, MsgrcvKeeps, MsgRmidKeeps, MsgSetKeeps DEF MsgRequest
  <2>2. CASE MsgStep(p)
    BY <2>2, MsggetUnlinkKeeps, MsggetOpenKeeps, MsggetReadyKeeps, MsggetFailsKeeps DEF MsgStep
  <2> QED BY <1>4, <2>1, <2>2 DEF Msg
<1>5. ASSUME NEW p \in Procs, (\E c \in Procs : Fork(p, c)) \/ Exec(p) \/ Exit(p) \/ Kill(p)
      PROVE  MsgInv' /\ StoresMove
  BY <1>5, MsgHooksKeep
<1> QED BY <1>2, <1>3, <1>4, <1>5 DEF Next

(* A message store never loses a cell, whatever is sent and received, for  *)
(* every capacity and any number of queues and processes, also when queues *)
(* are removed while another process still makes or uses their store: the  *)
(* list of messages and the free list share the cells of the array.        *)
THEOREM StoresKeepCells == Spec => []StoresAreWellFormed
<1>1. Init => MsgInv
  BY MsgStarts
<1>2. MsgInv /\ [Next]_vars => MsgInv'
  BY MsgPreserved
<1>3. MsgInv => StoresAreWellFormed
  BY ListsAreWellFormed DEF MsgInv
<1> QED BY <1>1, <1>2, <1>3, PTL DEF Spec

(* Every store delivers the messages of one type in the order they were    *)
(* sent: a step appends a message or takes out the first of its type.      *)
THEOREM StoresDeliverInOrder == Spec => StoresAreFifo
<1>1. Init => MsgInv
  BY MsgStarts
<1>2. MsgInv /\ [Next]_vars => MsgInv'
  BY MsgPreserved
<1>3. MsgInv /\ [Next]_vars => Fifo
  BY MsgPreserved, MovesAreFifo DEF MsgInv, MsgShape
<1>4. MsgInv /\ [Next]_vars => [Fifo]_msgVars
  BY <1>3
<1>5. Spec => [][Fifo]_msgVars
  BY <1>1, <1>2, <1>4, PTL DEF Spec
<1> QED BY <1>5 DEF StoresAreFifo, Fifo

(***************************************************************************)
(* Message queues: the counters.                                           *)
(***************************************************************************)

(* The stores processes reach as the queue of a slot with a sequence       *)
(* number: mapped by one of them, named, or just being made.               *)
Reach ==
  {m \in MsgMapping :
     \/ \E p \in Procs : m \in msgCache[p]
     \/ msgName[m.idx] = m.store /\ msg[m.idx].seq = m.seq
     \/ \E p \in Procs : /\ msgCall[p].step = "init" /\ msgCall[p].idx = m.idx
                         /\ msgCall[p].seq = m.seq /\ msgCall[p].store = m.store}

(* A queue that was created while nobody made a store for its slot or had  *)
(* left one under its name; a store reached as that queue.                 *)
Sole(i) == msg[i].inuse /\ msg[i].sole
Current(m) == Sole(m.idx) /\ msg[m.idx].seq = m.seq

(* Such a queue has one store, its store no other queue.                   *)
OneStore ==
  \A m, n \in Reach : Current(m) => (m.store = n.store <=> m.idx = n.idx /\ m.seq = n.seq)

(* Nobody keeps or makes a store for a queue yet to come.                  *)
Reached ==
  \A p \in Procs :
    /\ \A m \in msgCache[p] : Older(msg[m.idx], m.seq)
    /\ msgCall[p].step # "idle" => Older(msg[msgCall[p].idx], msgCall[p].seq)

(* The maker of its store: there is one, the entry is its own, and until   *)
(* the store is there nobody reaches one.                                  *)
Makers ==
  /\ \A p \in Procs :
       LET w == msgCall[p] IN
       w.step # "idle" /\ Sole(w.idx) =>
         /\ msg[w.idx].seq = w.seq
         /\ w.step \in {"unlink", "open"} =>
              /\ msg[w.idx].qnum = 0 /\ msg[w.idx].cbytes = 0
              /\ \A m \in Reach : ~(m.idx = w.idx /\ m.seq = w.seq)
  /\ \A p, q \in Procs : /\ msgCall[p].step # "idle" /\ msgCall[q].step # "idle"
                         /\ msgCall[p].idx = msgCall[q].idx /\ Sole(msgCall[p].idx)
                         => p = q

(* The counters of an entry describe a store.                              *)
Bytes(t) == SumFunctionOnSet(t.size, Cellset(Messages(t)))
Matches(e, t) ==
  IF t.ready THEN e.qnum = Len(Messages(t)) /\ e.cbytes = Bytes(t)
  ELSE e.qnum = 0 /\ e.cbytes = 0
Accounts ==
  \A m \in Reach : Current(m) => Matches(msg[m.idx], stores[m.store])

AccInv == OneStore /\ Reached /\ Makers /\ Accounts

(* The members of a list, after a send and after a receive.                *)
LEMMA AppendedCells ==
  ASSUME NEW U \in Seq(Cells), NEW c \in Cells
  PROVE  Cellset(Append(U, c)) = Cellset(U) \cup {c}
<1> DEFINE A == Append(U, c)
           n == Len(U)
<1>1. /\ n \in Nat /\ DOMAIN U = 1 .. n /\ A \in Seq(Cells) /\ Len(A) = n + 1
      /\ (\A i \in 1 .. n : A[i] = U[i]) /\ A[n + 1] = c
  BY AppendProperties, LenProperties
<1>2. DOMAIN A = 1 .. n + 1
  BY <1>1, LenProperties
<1> HIDE DEF A, n
<1>3. \A j \in 1 .. n + 1 : j \in 1 .. n \/ j = n + 1
  BY <1>1
<1>4. n + 1 \in 1 .. n + 1 /\ \A j \in 1 .. n : j \in 1 .. n + 1
  BY <1>1
<1>5. \A x : (\E j \in 1 .. n + 1 : A[j] = x) <=> ((\E j \in 1 .. n : U[j] = x) \/ x = c)
  BY <1>1, <1>3, <1>4
<1>6. /\ \A x : x \in Cellset(A) <=> \E j \in 1 .. n + 1 : A[j] = x
      /\ \A x : x \in Cellset(U) <=> \E j \in 1 .. n : U[j] = x
  BY <1>1, <1>2 DEF Cellset
<1> QED BY <1>5, <1>6 DEF A

LEMMA RemainingCells ==
  ASSUME NEW U \in Seq(Cells), \A j, k \in 1 .. Len(U) : U[j] = U[k] => j = k,
         NEW k \in 1 .. Len(U)
  PROVE  Cellset(RemoveAt(U, k)) = Cellset(U) \ {U[k]} /\ U[k] \in Cellset(U)
<1> DEFINE A == RemoveAt(U, k)
           n == Len(U)
<1>1. /\ n \in Nat /\ DOMAIN U = 1 .. n /\ A \in Seq(Cells) /\ Len(A) = n - 1
      /\ \A j \in 1 .. n - 1 : A[j] = IF j < k THEN U[j] ELSE U[j + 1]
  BY RemovedAt, LenProperties
<1>2. DOMAIN A = 1 .. n - 1
  BY <1>1, LenProperties
<1> HIDE DEF A, n
<1>3. \A j \in 1 .. n - 1 : /\ j < k => j \in 1 .. n /\ j # k
                            /\ ~(j < k) => j + 1 \in 1 .. n /\ j + 1 # k
  BY <1>1 DEF n
<1>4. ASSUME NEW x, NEW j \in 1 .. n - 1, A[j] = x
      PROVE  x # U[k] /\ \E i \in 1 .. n : U[i] = x
  BY <1>1, <1>3, <1>4 DEF n
<1>5. ASSUME NEW x, NEW i \in 1 .. n, U[i] = x, x # U[k]
      PROVE  \E j \in 1 .. n - 1 : A[j] = x
  <2>1. CASE i < k
    <3>1. i \in 1 .. n - 1
      BY <1>1, <2>1 DEF n
    <3> QED BY <1>1, <1>5, <2>1, <3>1
  <2>2. CASE ~(i < k)
    <3>1. i # k
      BY <1>5
    <3>2. i - 1 \in 1 .. n - 1 /\ ~(i - 1 < k) /\ i - 1 + 1 = i
      BY <1>1, <2>2, <3>1 DEF n
    <3>3. A[i - 1] = U[i]
      BY <1>1, <3>2
    <3> QED BY <1>5, <3>2, <3>3
  <2> QED BY <2>1, <2>2
<1>6. /\ \A x : x \in Cellset(A) <=> \E j \in 1 .. n - 1 : A[j] = x
      /\ \A x : x \in Cellset(U) <=> \E j \in 1 .. n : U[j] = x
  BY <1>1, <1>2 DEF Cellset
<1> QED BY <1>4, <1>5, <1>6 DEF A, n

(* The counters follow the store.                                          *)
LEMMA MatchesInitialised ==
  ASSUME NEW s \in Store, ~s.ready, NEW e, Matches(e, s)
  PROVE  Matches(e, Initialised(s))
<1> DEFINE t == Initialised(s)
<1>1. PICK F : t.ready /\ Lists(t, <<>>, F)
  BY InitialisedLists
<1> HIDE DEF t
<1>2. Messages(t) = <<>> /\ Len(<<>>) = 0
  BY <1>1, ListsAre
<1>3. Cellset(<<>>) = {}
  BY DEF Cellset
<1>4. Bytes(t) = 0
  BY <1>2, <1>3, SumEmpty DEF Bytes
<1> QED BY <1>1, <1>2, <1>4 DEF Matches, t

LEMMA BytesIs ==
  ASSUME NEW s \in Store, NEW U, NEW F, Lists(s, U, F)
  PROVE  /\ Messages(s) = U /\ U \in Seq(Cells) /\ Len(U) \in Nat
         /\ IsFiniteSet(Cellset(U)) /\ Cellset(U) \subseteq Cells
         /\ \A c \in Cells : s.size[c] \in Int
         /\ Bytes(s) = SumFunctionOnSet(s.size, Cellset(U)) /\ Bytes(s) \in Int
<1>0. Messages(s) = U
  BY ListsAre
<1>1. Messages(s) = U /\ U \in Seq(Cells) /\ \A j, k \in 1 .. Len(U) : U[j] = U[k] => j = k
  BY <1>0 DEF Lists, Chain
<1>2. IsFiniteSet(Cellset(U)) /\ Cellset(U) \subseteq Cells /\ Len(U) \in Nat
  BY <1>1, DistinctLength
<1>3. \A c \in Cells : s.size[c] \in Int
  BY DEF Store
<1>4. Bytes(s) = SumFunctionOnSet(s.size, Cellset(U))
  BY <1>1 DEF Bytes
<1>5. Bytes(s) \in Int
  BY <1>2, <1>3, <1>4, SumRemoves
<1> QED BY <1>1, <1>2, <1>3, <1>4, <1>5

LEMMA MatchesLinked ==
  ASSUME NEW s \in Store, NEW U, NEW F, Lists(s, U, F), s.ready, s.free # Nil,
         NEW type \in Nat, NEW bytes \in Nat, NEW e, Matches(e, s),
         NEW d, d.qnum = e.qnum + 1, d.cbytes = e.cbytes + bytes
  PROVE  Matches(d, Linked(s, type, bytes))
<1> DEFINE t == Linked(s, type, bytes)
           k == s.free
           A == Append(U, k)
<1>1. /\ k \in Cells /\ (\A j \in 1 .. Len(U) : U[j] # k) /\ t \in Store /\ t.ready
      /\ t.size[k] = bytes /\ (\A c \in Cells : c # k => t.size[c] = s.size[c])
      /\ Lists(t, A, Tail(F))
  <2>1. /\ k \in Cells /\ (\A j \in 1 .. Len(U) : U[j] # k) /\ t \in Store /\ t.ready = s.ready
        /\ t.size[k] = bytes /\ (\A c \in Cells : c # k => t.size[c] = s.size[c])
        /\ Lists(t, A, Tail(F))
    <3>1. k \in Cells /\ (\A j \in 1 .. Len(U) : U[j] # k) /\ Lists(t, A, Tail(F))
      BY LinkedLists
    <3>2. t \in Store /\ t.ready = s.ready
      BY LinkedLists
    <3>3. t.size[k] = bytes
      BY LinkedLists
    <3>4. ASSUME NEW c \in Cells, c # k PROVE t.size[c] = s.size[c]
      BY <3>4, LinkedLists
    <3> QED BY <3>1, <3>2, <3>3, <3>4
  <2> HIDE DEF t, k, A
  <2> QED BY <2>1
<1> HIDE DEF t, k
<1>2. /\ Messages(s) = U /\ U \in Seq(Cells) /\ Len(U) \in Nat /\ IsFiniteSet(Cellset(U))
      /\ Cellset(U) \subseteq Cells /\ (\A c \in Cells : s.size[c] \in Int)
      /\ Bytes(s) = SumFunctionOnSet(s.size, Cellset(U)) /\ Bytes(s) \in Int
  BY BytesIs
<1>3. /\ Messages(t) = A /\ IsFiniteSet(Cellset(A)) /\ (\A c \in Cells : t.size[c] \in Int)
      /\ Bytes(t) = SumFunctionOnSet(t.size, Cellset(A)) /\ Cellset(A) \subseteq Cells
  BY <1>1, BytesIs
<1>4. Len(A) = Len(U) + 1
  BY <1>1, <1>2, AppendProperties
<1>5. Cellset(A) = Cellset(U) \cup {k} /\ k \notin Cellset(U)
  <2>1. DOMAIN U = 1 .. Len(U)
    BY <1>2, LenProperties
  <2> QED BY <1>1, <1>2, <2>1, AppendedCells DEF Cellset
<1> HIDE DEF A
<1>6. t.size[k] = bytes /\ \A c \in Cells : c # k => t.size[c] = s.size[c]
  BY <1>1 DEF Store
<1>7. Bytes(t) = t.size[k] + SumFunctionOnSet(t.size, Cellset(A) \ {k})
  BY <1>3, <1>5, SumRemoves
<1>8. Cellset(A) \ {k} = Cellset(U)
  BY <1>5
<1>9. SumFunctionOnSet(s.size, Cellset(U)) = SumFunctionOnSet(t.size, Cellset(U))
  <2>1. \A c \in Cellset(U) : s.size[c] \in Int /\ s.size[c] = t.size[c]
    BY <1>2, <1>5, <1>6
  <2> QED BY <1>2, <2>1, SumSame
<1>10. Bytes(t) = Bytes(s) + bytes
  <2>1. Bytes(t) = bytes + SumFunctionOnSet(t.size, Cellset(U))
    BY <1>6, <1>7, <1>8
  <2>2. SumFunctionOnSet(t.size, Cellset(U)) = Bytes(s)
    BY <1>2, <1>9
  <2>3. Bytes(s) \in Int /\ Bytes(t) = bytes + Bytes(s)
    BY <1>2, <2>1, <2>2
  <2> QED BY <2>3
<1> QED BY <1>1, <1>2, <1>3, <1>4, <1>10 DEF Matches, t

LEMMA MatchesUnlinked ==
  ASSUME NEW s \in Store, NEW U, NEW F, Lists(s, U, F), s.ready, NEW k \in 1 .. Len(U),
         NEW e, Matches(e, s), NEW d, d.qnum = e.qnum - 1, d.cbytes = e.cbytes - s.size[U[k]]
  PROVE  Matches(d, UnlinkedAt(s, k))
<1> DEFINE t == UnlinkedAt(s, k)
           c == U[k]
           A == RemoveAt(U, k)
           G == <<c>> \o F
<1>1. /\ c \in Cells /\ t \in Store /\ t.ready
      /\ (\A x \in Cells : x # c => t.size[x] = s.size[x]) /\ Lists(t, A, G)
  <2>1. /\ c \in Cells /\ t \in Store /\ t.ready = s.ready
        /\ (\A x \in Cells : x # c => t.size[x] = s.size[x]) /\ Lists(t, A, G)
    BY UnlinkedLists
  <2> HIDE DEF t, c, A, G
  <2> QED BY <2>1
<1>2. /\ Messages(s) = U /\ U \in Seq(Cells) /\ Len(U) \in Nat /\ IsFiniteSet(Cellset(U))
      /\ Cellset(U) \subseteq Cells /\ (\A x \in Cells : s.size[x] \in Int)
      /\ Bytes(s) = SumFunctionOnSet(s.size, Cellset(U)) /\ Bytes(s) \in Int
  BY BytesIs
<1>3. Cellset(A) = Cellset(U) \ {c} /\ c \in Cellset(U) /\ Len(A) = Len(U) - 1
  <2>1. \A i, j \in 1 .. Len(U) : U[i] = U[j] => i = j
    BY DEF Lists, Chain
  <2>2. Len(A) = Len(U) - 1
    BY <1>2, RemovedAt
  <2> QED BY <1>2, <2>1, <2>2, RemainingCells
<1> HIDE DEF t, c, A, G
<1>4. /\ Messages(t) = A /\ IsFiniteSet(Cellset(A)) /\ (\A x \in Cells : t.size[x] \in Int)
      /\ Bytes(t) = SumFunctionOnSet(t.size, Cellset(A)) /\ Bytes(t) \in Int /\ Cellset(A) \subseteq Cells
  BY <1>1, BytesIs
<1>5. \A x \in Cells : x # c => t.size[x] = s.size[x]
  BY <1>1 DEF Store
<1>6. Bytes(s) = s.size[c] + SumFunctionOnSet(s.size, Cellset(U) \ {c})
  BY <1>2, <1>3, SumRemoves
<1>7. SumFunctionOnSet(t.size, Cellset(A)) = SumFunctionOnSet(s.size, Cellset(A))
  <2>1. \A x \in Cellset(A) : t.size[x] \in Int /\ t.size[x] = s.size[x]
    BY <1>3, <1>4, <1>5
  <2> QED BY <1>4, <2>1, SumSame
<1>8. Bytes(t) = Bytes(s) - s.size[c]
  BY <1>1, <1>2, <1>3, <1>4, <1>6, <1>7
<1> QED BY <1>1, <1>2, <1>3, <1>4, <1>8 DEF Matches, t, c

(* What may become of an entry that is not created.                        *)
MsgEvolves(i) ==
  \/ msg'[i].inuse = msg[i].inuse /\ msg'[i].seq = msg[i].seq /\ msg'[i].sole = msg[i].sole
  \/ msg[i].inuse /\ ~msg'[i].inuse /\ msg'[i].seq = msg[i].seq + 1

LEMMA MsgSeqIs ==
  ASSUME MsgInv, NEW i \in MsgSlots
  PROVE  msg[i].seq \in Nat /\ msg[i].inuse \in BOOLEAN /\ msg[i].qnum \in Int /\ msg[i].cbytes \in Int
BY MsgParts DEF MsgRecord

LEMMA ReachIs ==
  ASSUME MsgInv, NEW m \in Reach
  PROVE  m.idx \in MsgSlots /\ m.seq \in Nat /\ m.store \in DOMAIN stores
BY DEF Reach, MsgMapping

LEMMA MsgOlderKept ==
  ASSUME MsgInv, MsgInv', NEW i \in MsgSlots, NEW q \in Nat, MsgEvolves(i), Older(msg[i], q)
  PROVE  Older(msg'[i], q)
<1>1. msg[i].seq \in Nat /\ msg'[i].seq \in Nat
  BY MsgSeqIs, MsgParts DEF MsgRecord, MsgInv, MsgShape
<1> QED BY <1>1 DEF MsgEvolves, Older

(* A step after which nobody reaches more than before.                     *)
LEMMA ReachShrinks ==
  ASSUME MsgInv, OneStore, Reach' \subseteq Reach, \A i \in MsgSlots : MsgEvolves(i)
  PROVE  OneStore'
<1>1. ASSUME NEW m \in Reach', NEW n \in Reach', Current(m)'
      PROVE  m.store = n.store <=> m.idx = n.idx /\ m.seq = n.seq
  <2>1. m \in Reach /\ n \in Reach /\ m.idx \in MsgSlots
    BY ReachIs
  <2>2. Current(m)
    BY <1>1, <2>1 DEF Current, Sole, MsgEvolves
  <2> QED BY <2>1, <2>2 DEF OneStore
<1> QED BY <1>1 DEF OneStore

(* The makers of stores before and after a step.                           *)
MakersStay ==
  \A p \in Procs : msgCall'[p].step # "idle" =>
    /\ msgCall[p].step # "idle"
    /\ msgCall'[p].idx = msgCall[p].idx /\ msgCall'[p].seq = msgCall[p].seq
    /\ msgCall'[p].step \in {"unlink", "open"} => msgCall[p].step \in {"unlink", "open"}

(* A mapping of a queue that is or was.                                    *)
Dated(m) == m.idx \in MsgSlots /\ m.seq \in Nat /\ Older(msg[m.idx], m.seq)

LEMMA CacheDated ==
  ASSUME MsgInv, Reached, NEW p \in Procs, NEW m \in msgCache[p]
  PROVE  Dated(m)
<1>1. m \in MsgMapping
  BY MsgParts
<1> QED BY <1>1 DEF Dated, Reached, MsgMapping

LEMMA ReachedKept ==
  ASSUME MsgInv, MsgInv', Reached, MakersStay, \A i \in MsgSlots : MsgEvolves(i),
         \A p \in Procs : \A m \in msgCache'[p] : Dated(m)
  PROVE  Reached'
<1>1. ASSUME NEW p \in Procs, NEW m \in msgCache'[p] PROVE Older(msg'[m.idx], m.seq)
  <2>1. m.idx \in MsgSlots /\ m.seq \in Nat /\ Older(msg[m.idx], m.seq)
    BY DEF Dated
  <2> QED BY <2>1, MsgOlderKept
<1>2. ASSUME NEW p \in Procs, msgCall'[p].step # "idle"
      PROVE  Older(msg'[msgCall'[p].idx], msgCall'[p].seq)
  <2> DEFINE i == msgCall[p].idx
             q == msgCall[p].seq
  <2>1. msgCall[p].step # "idle" /\ msgCall'[p].idx = i /\ msgCall'[p].seq = q
    BY <1>2 DEF MakersStay
  <2>2. i \in MsgSlots /\ q \in Nat
    BY <2>1, MsgParts DEF MsgWork
  <2>3. Older(msg[i], q)
    BY <2>1 DEF Reached
  <2> HIDE DEF i, q
  <2>4. Older(msg'[i], q)
    BY <2>2, <2>3, MsgOlderKept
  <2> QED BY <2>1, <2>4
<1> QED BY <1>1, <1>2 DEF Reached

LEMMA MakersKept ==
  ASSUME MsgInv, Makers, Reach' \subseteq Reach, MakersStay,
         \A i \in MsgSlots : MsgEvolves(i),
         \A p \in Procs : msgCall'[p].step \in {"unlink", "open"} =>
           LET i == msgCall[p].idx IN
           Sole(i) /\ msg'[i].inuse =>
             msg'[i].qnum = msg[i].qnum /\ msg'[i].cbytes = msg[i].cbytes
  PROVE  Makers'
<1>1. ASSUME NEW p \in Procs, msgCall'[p].step # "idle",
             msg'[msgCall'[p].idx].inuse, msg'[msgCall'[p].idx].sole
      PROVE  /\ msgCall[p].step # "idle" /\ Sole(msgCall[p].idx)
             /\ LET w == msgCall'[p] IN
                /\ msg'[w.idx].seq = w.seq
                /\ w.step \in {"unlink", "open"} =>
                     /\ msg'[w.idx].qnum = 0 /\ msg'[w.idx].cbytes = 0
                     /\ \A m \in Reach' : ~(m.idx = w.idx /\ m.seq = w.seq)
  <2> DEFINE i == msgCall[p].idx
             q == msgCall[p].seq
             w == msgCall'[p]
  <2>1. /\ msgCall[p].step # "idle" /\ w.idx = i /\ w.seq = q
        /\ w.step \in {"unlink", "open"} => msgCall[p].step \in {"unlink", "open"}
    BY <1>1 DEF MakersStay
  <2>2. i \in MsgSlots /\ q \in Nat
    BY <2>1, MsgParts DEF MsgWork
  <2>3. Sole(i) /\ msg'[i].seq = msg[i].seq /\ msg'[i].inuse
    BY <1>1, <2>1, <2>2 DEF MsgEvolves, Sole
  <2>4. msg[i].seq = q
    BY <2>1, <2>3 DEF Makers
  <2>5. ASSUME w.step \in {"unlink", "open"}
        PROVE  /\ msg'[i].qnum = 0 /\ msg'[i].cbytes = 0
               /\ \A m \in Reach' : ~(m.idx = i /\ m.seq = q)
    BY <2>1, <2>3, <2>5 DEF Makers
  <2> HIDE DEF i, q
  <2>6. msgCall[p].step # "idle" /\ Sole(msgCall[p].idx)
    BY <2>1, <2>3 DEF i
  <2> QED BY <2>1, <2>2, <2>3, <2>4, <2>5, <2>6
<1>2. ASSUME NEW p \in Procs, NEW q \in Procs, msgCall'[p].step # "idle", msgCall'[q].step # "idle",
             msgCall'[p].idx = msgCall'[q].idx,
             msg'[msgCall'[p].idx].inuse, msg'[msgCall'[p].idx].sole
      PROVE  p = q
  <2>1. msgCall[p].step # "idle" /\ Sole(msgCall[p].idx)
    BY <1>1, <1>2
  <2>2. msgCall[q].step # "idle" /\ msgCall[p].idx = msgCall[q].idx
    BY <1>2 DEF MakersStay
  <2> QED BY <2>1, <2>2 DEF Makers
<1> QED BY <1>1, <1>2 DEF Makers, Sole

(* A step that reaches no store anew and leaves the counters alone.        *)
LEMMA AccQuiet ==
  ASSUME MsgInv, MsgInv', AccInv, stores' = stores, Reach' \subseteq Reach, MakersStay,
         \A i \in MsgSlots : MsgEvolves(i),
         \A i \in MsgSlots : msg[i].inuse /\ msg'[i].inuse =>
           msg'[i].qnum = msg[i].qnum /\ msg'[i].cbytes = msg[i].cbytes,
         \A p \in Procs : \A m \in msgCache'[p] : Dated(m)
  PROVE  AccInv'
<1>1. OneStore' /\ Reached'
  BY ReachShrinks, ReachedKept DEF AccInv
<1>2. Makers'
  <2>1. ASSUME NEW p \in Procs, msgCall'[p].step \in {"unlink", "open"}
        PROVE  LET i == msgCall[p].idx IN
               Sole(i) /\ msg'[i].inuse =>
                 msg'[i].qnum = msg[i].qnum /\ msg'[i].cbytes = msg[i].cbytes
    <3>1. msgCall[p].step # "idle"
      BY <2>1 DEF MakersStay
    <3>2. msgCall[p].idx \in MsgSlots
      BY <3>1, MsgParts
    <3> QED BY <3>2 DEF Sole
  <2> QED BY <2>1, MakersKept DEF AccInv
<1>3. ASSUME NEW m \in Reach', Current(m)'
      PROVE  Matches(msg'[m.idx], stores'[m.store])
  <2>1. m \in Reach /\ m.idx \in MsgSlots
    BY ReachIs
  <2>2. Current(m) /\ msg[m.idx].inuse /\ msg'[m.idx].inuse
    BY <1>3, <2>1 DEF Current, Sole, MsgEvolves
  <2>3. Matches(msg[m.idx], stores[m.store])
    BY <2>1, <2>2 DEF AccInv, Accounts
  <2> QED BY <2>1, <2>2, <2>3 DEF Matches
<1>4. Accounts'
  BY <1>3 DEF Accounts
<1> QED BY <1>1, <1>2, <1>4 DEF AccInv

LEMMA NoStoreIsNone ==
  ASSUME MsgInv
  PROVE  NoStore \notin DOMAIN stores
<1>1. DOMAIN stores = 1 .. Len(stores)
  BY MsgParts, LenProperties
<1> QED BY <1>1 DEF NoStore

(* How a step shows that it reaches no store anew.                         *)
LEMMA ReachFrom ==
  ASSUME MsgInv, MsgInv', DOMAIN stores' = DOMAIN stores,
         \A p \in Procs : msgCache'[p] \subseteq Reach,
         \A i \in MsgSlots : \/ msgName'[i] = NoStore
                             \/ msgName'[i] = msgName[i] /\ msg'[i].seq = msg[i].seq,
         \A p \in Procs : msgCall'[p].step = "init" => msgCall'[p] = msgCall[p]
  PROVE  Reach' \subseteq Reach
<1> SUFFICES ASSUME NEW m \in Reach', m \notin Reach PROVE FALSE
  OBVIOUS
<1>1. m \in MsgMapping
  BY DEF Reach, MsgMapping
<1>2. m.idx \in MsgSlots /\ m.store \in DOMAIN stores
  BY <1>1 DEF MsgMapping
<1>3. m.store # NoStore
  BY <1>2, NoStoreIsNone
<1>4. \/ \E p \in Procs : m \in msgCache'[p]
      \/ msgName'[m.idx] = m.store /\ msg'[m.idx].seq = m.seq
      \/ \E p \in Procs : /\ msgCall'[p].step = "init" /\ msgCall'[p].idx = m.idx
                          /\ msgCall'[p].seq = m.seq /\ msgCall'[p].store = m.store
  BY DEF Reach
<1>5. CASE \E p \in Procs : m \in msgCache'[p]
  BY <1>5
<1>6. CASE msgName'[m.idx] = m.store /\ msg'[m.idx].seq = m.seq
  BY <1>1, <1>2, <1>3, <1>6 DEF Reach
<1>7. CASE \E p \in Procs : /\ msgCall'[p].step = "init" /\ msgCall'[p].idx = m.idx
                            /\ msgCall'[p].seq = m.seq /\ msgCall'[p].store = m.store
  BY <1>1, <1>7 DEF Reach
<1> QED BY <1>4, <1>5, <1>6, <1>7

LEMMA CacheReaches ==
  ASSUME MsgInv, NEW p \in Procs
  PROVE  msgCache[p] \subseteq Reach
BY MsgParts DEF Reach

(* A step on the store of one queue.                                       *)
LEMMA AccMoves ==
  ASSUME MsgInv, MsgInv', AccInv, Reach' \subseteq Reach, MakersStay,
         NEW m \in Reach, NEW t, Puts(m.store, t),
         \A i \in MsgSlots : /\ msg'[i].inuse = msg[i].inuse /\ msg'[i].seq = msg[i].seq
                             /\ msg'[i].sole = msg[i].sole,
         \A i \in MsgSlots : i # m.idx => msg'[i] = msg[i],
         msg'[m.idx] = msg[m.idx] \/ msg[m.idx].seq = m.seq,
         Current(m) => Matches(msg'[m.idx], t),
         \A p \in Procs : \A n \in msgCache'[p] : Dated(n)
  PROVE  AccInv'
<1>0. m.idx \in MsgSlots /\ m.seq \in Nat /\ m.store \in DOMAIN stores
  BY ReachIs
<1>1. \A i \in MsgSlots : MsgEvolves(i)
  BY DEF MsgEvolves
<1>2. OneStore' /\ Reached'
  BY <1>1, ReachShrinks, ReachedKept DEF AccInv
<1>3. Makers'
  <2>1. ASSUME NEW p \in Procs, msgCall'[p].step \in {"unlink", "open"}, Sole(msgCall[p].idx)
        PROVE  LET i == msgCall[p].idx IN
               msg'[i].qnum = msg[i].qnum /\ msg'[i].cbytes = msg[i].cbytes
    <3>1. msgCall[p].step # "idle" /\ msgCall[p].step \in {"unlink", "open"}
      BY <2>1 DEF MakersStay
    <3>2. msgCall[p].idx \in MsgSlots /\ msg[msgCall[p].idx].seq = msgCall[p].seq
      BY <2>1, <3>1, MsgParts DEF AccInv, Makers
    <3>3. ~(m.idx = msgCall[p].idx /\ m.seq = msgCall[p].seq)
      BY <2>1, <3>1 DEF AccInv, Makers
    <3>4. msg'[msgCall[p].idx] = msg[msgCall[p].idx]
      BY <3>2, <3>3
    <3> QED BY <3>4
  <2> QED BY <1>1, <2>1, MakersKept DEF AccInv
<1>4. ASSUME NEW n \in Reach', Current(n)'
      PROVE  Matches(msg'[n.idx], stores'[n.store])
  <2>1. n \in Reach /\ n.idx \in MsgSlots /\ n.store \in DOMAIN stores
    BY ReachIs
  <2>2. Current(n)
    BY <1>4, <2>1 DEF Current, Sole
  <2>3. n.store = m.store <=> n.idx = m.idx /\ n.seq = m.seq
    BY <2>1, <2>2 DEF AccInv, OneStore
  <2>4. CASE n.store = m.store
    <3>1. stores'[n.store] = t
      BY <1>0, <2>4 DEF Puts
    <3>2. Current(m)
      BY <2>2, <2>3, <2>4 DEF Current
    <3> QED BY <2>3, <2>4, <3>1, <3>2
  <2>5. CASE n.store # m.store
    <3>1. msg'[n.idx] = msg[n.idx]
      BY <2>1, <2>2, <2>3, <2>5 DEF Current
    <3>2. stores'[n.store] = stores[n.store]
      BY <2>1, <2>5 DEF Puts
    <3> QED BY <2>1, <2>2, <3>1, <3>2 DEF AccInv, Accounts
  <2> QED BY <2>4, <2>5
<1>5. Accounts'
  BY <1>4 DEF Accounts
<1> QED BY <1>2, <1>3, <1>5 DEF AccInv

LEMMA MakersIdle ==
  ASSUME MsgInv, NEW p \in Procs, msgCall' = msgCall \/ msgCall' = [msgCall EXCEPT ![p] = MsgIdle]
  PROVE  MakersStay /\ \A q \in Procs : msgCall'[q].step = "init" => msgCall'[q] = msgCall[q]
<1>1. \A q \in Procs : msgCall'[q].step # "idle" => msgCall'[q] = msgCall[q]
  BY MsgParts, MsgWorkIdle
<1> QED BY <1>1 DEF MakersStay

LEMMA ReadyAccounts ==
  ASSUME MsgInv, MsgInv', AccInv, NEW p \in Procs, MsggetReady(p)
  PROVE  AccInv'
<1> USE MsgParts
<1> DEFINE w == msgCall[p]
           m == [idx |-> w.idx, seq |-> w.seq, store |-> w.store]
           s == stores[w.store]
           t == IF s.ready THEN s ELSE Initialised(s)
<1>1. /\ w.step = "init" /\ w.idx \in MsgSlots /\ w.store \in DOMAIN stores /\ w \in MsgWork
      /\ stores' = [stores EXCEPT ![w.store] = t]
      /\ msgCache' = [msgCache EXCEPT ![p] = msgCache[p] \cup {m}]
      /\ msgCall' = [msgCall EXCEPT ![p] = MsgIdle] /\ msg' = msg /\ msgName' = msgName
  BY DEF MsggetReady
<1>2. m \in Reach
  BY <1>1 DEF Reach, MsgMapping, MsgWork
<1>3. m.idx = w.idx /\ m.seq = w.seq /\ m.store = w.store
  OBVIOUS
<1> HIDE DEF m, w, t
<1>4. Dated(m)
  BY <1>1, <1>3 DEF AccInv, Reached, Dated, MsgWork, w
<1>5. Current(m) => Matches(msg[m.idx], s)
  BY <1>2, <1>3 DEF AccInv, Accounts
<1>6. s \in Store
  BY <1>1, LenProperties
<1>7. Current(m) => Matches(msg[m.idx], t)
  <2> HIDE DEF s
  <2> QED BY <1>5, <1>6, MatchesInitialised DEF t
<1>8. DOMAIN stores' = DOMAIN stores /\ Puts(m.store, t)
  BY <1>1, <1>3 DEF Puts
<1>9. MakersStay /\ \A q \in Procs : msgCall'[q].step = "init" => msgCall'[q] = msgCall[q]
  BY <1>1, MakersIdle
<1>10. Reach' \subseteq Reach
  <2>1. \A q \in Procs : msgCache'[q] \subseteq Reach
    BY <1>1, <1>2, CacheReaches
  <2> QED BY <1>1, <1>8, <1>9, <2>1, ReachFrom
<1>11. /\ Current(m) => Matches(msg'[m.idx], t)
       /\ msg'[m.idx] = msg[m.idx] /\ \A i \in MsgSlots : msg'[i] = msg[i]
  BY <1>1, <1>7
<1>12. \A q \in Procs : \A n \in msgCache'[q] : Dated(n)
  BY <1>1, <1>4, CacheDated DEF AccInv
<1> QED BY <1>2, <1>8, <1>9, <1>10, <1>11, <1>12, AccMoves

(* What a send and a receive share.                                        *)
LEMMA TransferAccounts ==
  ASSUME MsgInv, MsgInv', AccInv, NEW p \in Procs, NEW i \in MsgSlots, StoreOf(p, i) # NoStore,
         NEW t, Puts(StoreOf(p, i), t), NEW n \in Int, NEW b \in Int, Transfer(p, i, n, b),
         msg[i].inuse, Sole(i) => Matches(msg'[i], t)
  PROVE  AccInv'
<1> USE MsgParts
<1> DEFINE s == StoreOf(p, i)
           m == [idx |-> i, seq |-> msg[i].seq, store |-> s]
<1>1. s \in DOMAIN stores /\ (s = msgName[i] \/ m \in msgCache[p])
  BY StoreOfIs DEF MsgInv
<1>2. m \in Reach
  BY <1>1, MsgSeqIs DEF Reach, MsgMapping
<1>3. /\ msg' = [msg EXCEPT ![i] = [msg[i] EXCEPT !.qnum = n, !.cbytes = b]]
      /\ msgCache' = [msgCache EXCEPT ![p] = msgCache[p] \cup {m}]
      /\ msgName' = msgName /\ msgCall' = msgCall
  BY DEF Transfer, Caching
<1>4. m.idx = i /\ m.seq = msg[i].seq /\ m.store = s
  OBVIOUS
<1> HIDE DEF m, s
<1>5. \A j \in MsgSlots : j # m.idx => msg'[j] = msg[j]
  BY <1>3, <1>4
<1>6. msg'[i].inuse = msg[i].inuse /\ msg'[i].seq = msg[i].seq /\ msg'[i].sole = msg[i].sole
  <2> DEFINE e == msg[i]
  <2>1. e \in MsgRecord /\ msg'[i] = [e EXCEPT !.qnum = n, !.cbytes = b]
    BY <1>3
  <2> HIDE DEF e
  <2>2. msg'[i].inuse = e.inuse /\ msg'[i].seq = e.seq /\ msg'[i].sole = e.sole
    BY <2>1 DEF MsgRecord
  <2> QED BY <2>2 DEF e
<1>7. \A j \in MsgSlots : /\ msg'[j].inuse = msg[j].inuse /\ msg'[j].seq = msg[j].seq
                          /\ msg'[j].sole = msg[j].sole
  BY <1>4, <1>5, <1>6
<1>8. MakersStay /\ \A q \in Procs : msgCall'[q].step = "init" => msgCall'[q] = msgCall[q]
  BY <1>3, MakersIdle
<1>9. DOMAIN stores' = DOMAIN stores /\ Puts(m.store, t)
  BY <1>4 DEF Puts, s
<1>10. Reach' \subseteq Reach
  <2>1. \A q \in Procs : msgCache'[q] \subseteq Reach
    BY <1>2, <1>3, CacheReaches
  <2> QED BY <1>3, <1>7, <1>8, <1>9, <2>1, ReachFrom
<1>11. msg[m.idx].seq = m.seq /\ (Current(m) => Matches(msg'[m.idx], t))
  BY <1>4 DEF Current
<1>12. Dated(m)
  BY <1>4, MsgSeqIs DEF Dated, Older
<1>13. \A q \in Procs : \A x \in msgCache'[q] : Dated(x)
  BY <1>3, <1>12, CacheDated DEF AccInv
<1> QED BY <1>2, <1>5, <1>7, <1>8, <1>9, <1>10, <1>11, <1>13, AccMoves

LEMMA TransferFields ==
  ASSUME MsgInv, NEW p \in Procs, NEW i \in MsgSlots, NEW n \in Int, NEW b \in Int, Transfer(p, i, n, b)
  PROVE  msg'[i].qnum = n /\ msg'[i].cbytes = b
<1> DEFINE e == msg[i]
<1>1. e \in MsgRecord /\ msg'[i] = [e EXCEPT !.qnum = n, !.cbytes = b]
  BY MsgParts DEF Transfer
<1> HIDE DEF e
<1> QED BY <1>1 DEF MsgRecord

(* The counters describe the store a process uses.                         *)
LEMMA UsedMatches ==
  ASSUME MsgInv, AccInv, NEW p \in Procs, NEW i \in MsgSlots, StoreOf(p, i) # NoStore, Sole(i)
  PROVE  StoreOf(p, i) \in DOMAIN stores /\ Matches(msg[i], stores[StoreOf(p, i)])
<1> DEFINE s == StoreOf(p, i)
           m == [idx |-> i, seq |-> msg[i].seq, store |-> s]
<1>1. s \in DOMAIN stores /\ (s = msgName[i] \/ m \in msgCache[p])
  BY StoreOfIs DEF MsgInv
<1>2. m \in Reach
  BY <1>1, MsgSeqIs DEF Reach, MsgMapping
<1>3. m.idx = i /\ m.seq = msg[i].seq /\ m.store = s
  OBVIOUS
<1> HIDE DEF m, s
<1>4. Matches(msg[i], stores[s])
  BY <1>2, <1>3 DEF AccInv, Accounts, Current
<1> QED BY <1>1, <1>4 DEF s

LEMMA SendAccounts ==
  ASSUME MsgInv, MsgInv', AccInv, NEW p \in Procs, NEW i \in MsgSlots, Msgsnd(p, i)
  PROVE  AccInv'
<1> DEFINE s == StoreOf(p, i)
<1>1. PICK type \in Types, bytes \in Sizes :
        /\ s \in DOMAIN stores /\ s # NoStore /\ stores[s].ready /\ stores[s].free # Nil
        /\ Puts(s, Linked(stores[s], type, bytes))
        /\ Transfer(p, i, msg[i].qnum + 1, msg[i].cbytes + bytes)
  BY MsgsndIs
<1>2. type \in Nat /\ bytes \in Nat /\ msg[i].qnum + 1 \in Int /\ msg[i].cbytes + bytes \in Int
  BY MsgSeqIs, MsgAssumption
<1>3. msg'[i].qnum = msg[i].qnum + 1 /\ msg'[i].cbytes = msg[i].cbytes + bytes
  BY <1>1, <1>2, TransferFields
<1>4. Sole(i) => Matches(msg[i], stores[s])
  BY <1>1, UsedMatches
<1>5. PICK U, F : Lists(stores[s], U, F)
  BY <1>1 DEF MsgInv, StoreLists
<1>6. stores[s] \in Store
  BY <1>1, MsgParts, LenProperties
<1> HIDE DEF s
<1>7. Sole(i) => Matches(msg'[i], Linked(stores[s], type, bytes))
  BY <1>1, <1>2, <1>3, <1>4, <1>5, <1>6, MatchesLinked
<1>8. msg[i].inuse
  BY DEF Msgsnd
<1> QED BY <1>1, <1>2, <1>7, <1>8, TransferAccounts DEF s

LEMMA ReceiveAccounts ==
  ASSUME MsgInv, MsgInv', AccInv, NEW p \in Procs, NEW i \in MsgSlots, Msgrcv(p, i)
  PROVE  AccInv'
<1> DEFINE s == StoreOf(p, i)
           U == Messages(stores[s])
<1>1. PICK sel \in Selectors :
        LET k == Choice(stores[s], sel) IN
        /\ s \in DOMAIN stores /\ s # NoStore /\ stores[s].ready
        /\ k # 0 /\ Puts(s, UnlinkedAt(stores[s], k))
        /\ Transfer(p, i, msg[i].qnum - 1, msg[i].cbytes - stores[s].size[U[k]])
  BY MsgrcvIs
<1> DEFINE k == Choice(stores[s], sel)
           z == stores[s].size[U[k]]
<1>2. /\ s \in DOMAIN stores /\ s # NoStore /\ stores[s].ready /\ k # 0
      /\ Puts(s, UnlinkedAt(stores[s], k))
      /\ Transfer(p, i, msg[i].qnum - 1, msg[i].cbytes - z)
  BY <1>1
<1>3. (Sole(i) => Matches(msg[i], stores[s])) /\ msg[i].inuse
  BY <1>2, UsedMatches DEF Msgrcv
<1> HIDE DEF s
<1>4. /\ \E F : Lists(stores[s], U, F)
      /\ k \in 1 .. Len(U) /\ z \in Nat /\ stores[s] \in Store
  BY <1>2, ChosenCell
<1>5. PICK F : Lists(stores[s], U, F)
  BY <1>4
<1>6. msg[i].qnum - 1 \in Int /\ msg[i].cbytes - z \in Int
  <2> HIDE DEF z
  <2> QED BY <1>4, MsgSeqIs
<1>7. msg'[i].qnum = msg[i].qnum - 1 /\ msg'[i].cbytes = msg[i].cbytes - z
  <2> HIDE DEF z
  <2> QED BY <1>2, <1>6, TransferFields
<1> HIDE DEF U, k
<1>8. Sole(i) => Matches(msg'[i], UnlinkedAt(stores[s], k))
  BY <1>2, <1>3, <1>4, <1>5, <1>7, MatchesUnlinked
<1> HIDE DEF z
<1> QED BY <1>2, <1>3, <1>6, <1>8, TransferAccounts DEF s

(* A new entry: nobody reaches a store under its number yet.               *)
LEMMA EntryAccounts ==
  ASSUME MsgInv, MsgInv', AccInv, NEW p \in Procs, NEW i \in MsgSlots, MsggetEntry(p, i),
         msgCall[p].step = "idle"
  PROVE  AccInv'
<1> USE MsgParts
<1> DEFINE w == [step |-> "unlink", idx |-> i, seq |-> msg[i].seq, store |-> NoStore]
           f == FreeMsg(msg[i].seq)
<1>1. PICK key \in Keys, shared \in Modes :
        msg' = [msg EXCEPT ![i] = [Created(FreeMsg(msg[i].seq), p, key, shared)
                                     EXCEPT !.qbytes = QueueBytes, !.sole = Undisturbed(i)]]
  BY DEF MsggetEntry
<1>2. /\ msgName' = msgName /\ stores' = stores /\ msgCache' = msgCache
      /\ msgCall' = [msgCall EXCEPT ![p] = w] /\ ~msg[i].inuse
  BY DEF MsggetEntry, FirstFree
<1>3. /\ msg'[i].inuse /\ msg'[i].seq = msg[i].seq /\ msg'[i].qnum = 0 /\ msg'[i].cbytes = 0
      /\ msg'[i].sole = Undisturbed(i) /\ \A j \in MsgSlots : j # i => msg'[j] = msg[j]
  BY <1>1 DEF Created, FreeMsg
<1>4. w.step = "unlink" /\ w.idx = i /\ w.seq = msg[i].seq
  OBVIOUS
<1> HIDE DEF w
<1>5. msgCall'[p] = w /\ \A q \in Procs : q # p => msgCall'[q] = msgCall[q]
  BY <1>2
<1>6. Reach' \subseteq Reach
  <2>1. \A q \in Procs : msgCall'[q].step = "init" => msgCall'[q] = msgCall[q]
    BY <1>4, <1>5
  <2>2. \A j \in MsgSlots : msgName'[j] = msgName[j] /\ msg'[j].seq = msg[j].seq
    BY <1>2, <1>3
  <2>3. \A q \in Procs : msgCache'[q] \subseteq Reach
    BY <1>2, CacheReaches
  <2> QED BY <1>2, <2>1, <2>2, <2>3, ReachFrom
<1>7. Reached'
  <2>1. ASSUME NEW j \in MsgSlots, NEW q \in Nat, Older(msg[j], q) PROVE Older(msg'[j], q)
    <3>1. CASE j = i
      BY <1>2, <1>3, <2>1, <3>1, MsgSeqIs DEF Older
    <3>2. CASE j # i
      BY <1>3, <2>1, <3>2
    <3> QED BY <3>1, <3>2
  <2>2. ASSUME NEW q \in Procs, NEW m \in msgCache'[q] PROVE Older(msg'[m.idx], m.seq)
    BY <1>2, <2>1, CacheDated DEF AccInv, Dated
  <2>3. ASSUME NEW q \in Procs, msgCall'[q].step # "idle"
        PROVE  Older(msg'[msgCall'[q].idx], msgCall'[q].seq)
    <3>1. CASE q = p
      BY <1>3, <1>4, <1>5, <3>1, MsgSeqIs DEF Older
    <3>2. CASE q # p
      <4>1. msgCall'[q] = msgCall[q]
        BY <1>5, <3>2
      <4>2. msgCall[q].idx \in MsgSlots /\ msgCall[q].seq \in Nat
        BY <2>3, <4>1 DEF MsgWork
      <4>3. Older(msg[msgCall[q].idx], msgCall[q].seq)
        BY <2>3, <4>1 DEF AccInv, Reached
      <4> QED BY <2>1, <4>1, <4>2, <4>3
    <3> QED BY <3>1, <3>2
  <2> QED BY <2>2, <2>3 DEF Reached
<1>8. ASSUME Undisturbed(i), NEW m \in Reach PROVE ~(m.idx = i /\ m.seq = msg[i].seq)
  <2> SUFFICES ASSUME m.idx = i, m.seq = msg[i].seq PROVE FALSE
    OBVIOUS
  <2>1. m.store # NoStore
    BY ReachIs, NoStoreIsNone
  <2>2. PICK q \in Procs : m \in msgCache[q]
    BY <1>8, <2>1 DEF Reach, Undisturbed, Making
  <2>3. Older(msg[i], msg[i].seq)
    BY <2>2 DEF AccInv, Reached
  <2> QED BY <1>2, <2>3, MsgSeqIs DEF Older
<1>9. ASSUME NEW m \in Reach, Current(m)' PROVE m.idx # i /\ m.idx \in MsgSlots /\ Current(m)
  <2>1. m.idx \in MsgSlots
    BY ReachIs
  <2>2. m.idx # i
    BY <1>3, <1>8, <1>9 DEF Current, Sole
  <2> QED BY <1>3, <1>9, <2>1, <2>2 DEF Current, Sole
<1>10. OneStore'
  <2>1. ASSUME NEW m \in Reach', NEW n \in Reach', Current(m)'
        PROVE  m.store = n.store <=> m.idx = n.idx /\ m.seq = n.seq
    BY <1>6, <1>9, <2>1 DEF AccInv, OneStore
  <2> QED BY <2>1 DEF OneStore
<1>11. ASSUME NEW q \in Procs, q # p, msgCall[q].step # "idle",
              msg'[msgCall[q].idx].inuse, msg'[msgCall[q].idx].sole
       PROVE  /\ msgCall[q].idx # i /\ Sole(msgCall[q].idx)
              /\ msg'[msgCall[q].idx] = msg[msgCall[q].idx]
  <2>1. msgCall[q].idx \in MsgSlots
    BY <1>11
  <2>2. msgCall[q].idx # i
    BY <1>3, <1>11 DEF Undisturbed, Making
  <2> QED BY <1>3, <1>11, <2>1, <2>2 DEF Sole
<1>12. Makers'
  <2>1. ASSUME NEW q \in Procs, msgCall'[q].step # "idle",
               msg'[msgCall'[q].idx].inuse, msg'[msgCall'[q].idx].sole
        PROVE  LET v == msgCall'[q] IN
               /\ msg'[v.idx].seq = v.seq
               /\ v.step \in {"unlink", "open"} =>
                    /\ msg'[v.idx].qnum = 0 /\ msg'[v.idx].cbytes = 0
                    /\ \A m \in Reach' : ~(m.idx = v.idx /\ m.seq = v.seq)
    <3>1. CASE q = p
      <4>1. Undisturbed(i)
        BY <1>3, <1>4, <1>5, <2>1, <3>1
      <4> QED BY <1>3, <1>4, <1>5, <1>6, <1>8, <3>1, <4>1
    <3>2. CASE q # p
      <4>1. msgCall'[q] = msgCall[q]
        BY <1>5, <3>2
      <4>2. Sole(msgCall[q].idx) /\ msg'[msgCall[q].idx] = msg[msgCall[q].idx]
        BY <1>11, <2>1, <3>2, <4>1
      <4> QED BY <1>6, <2>1, <4>1, <4>2 DEF AccInv, Makers
    <3> QED BY <3>1, <3>2
  <2>2. ASSUME NEW q \in Procs, NEW r \in Procs, msgCall'[q].step # "idle", msgCall'[r].step # "idle",
               msgCall'[q].idx = msgCall'[r].idx,
               msg'[msgCall'[q].idx].inuse, msg'[msgCall'[q].idx].sole
        PROVE  q = r
    <3>1. CASE q = p \/ r = p
      BY <1>4, <1>5, <1>11, <2>2, <3>1
    <3>2. CASE q # p /\ r # p
      <4>1. msgCall'[q] = msgCall[q] /\ msgCall'[r] = msgCall[r]
        BY <1>5, <3>2
      <4>2. Sole(msgCall[q].idx)
        BY <1>11, <2>2, <3>2, <4>1
      <4> QED BY <2>2, <4>1, <4>2 DEF AccInv, Makers
    <3> QED BY <3>1, <3>2
  <2> QED BY <2>1, <2>2 DEF Makers, Sole
<1>13. Accounts'
  <2>1. ASSUME NEW m \in Reach', Current(m)'
        PROVE  Matches(msg'[m.idx], stores'[m.store])
    <3>1. m \in Reach
      BY <1>6
    <3>2. m.idx # i /\ m.idx \in MsgSlots /\ Current(m)
      BY <1>9, <2>1, <3>1
    <3> QED BY <1>2, <1>3, <3>1, <3>2 DEF AccInv, Accounts
  <2> QED BY <2>1 DEF Accounts
<1> QED BY <1>7, <1>10, <1>12, <1>13 DEF AccInv

LEMMA UnlinkAccounts ==
  ASSUME MsgInv, MsgInv', AccInv, NEW p \in Procs, MsggetUnlink(p)
  PROVE  AccInv'
<1> USE MsgParts
<1> DEFINE i == msgCall[p].idx
           w == [msgCall[p] EXCEPT !.step = "open"]
<1>1. /\ i \in MsgSlots /\ msg' = msg /\ stores' = stores /\ msgCache' = msgCache
      /\ msgName' = [msgName EXCEPT ![i] = NoStore] /\ msgCall' = [msgCall EXCEPT ![p] = w]
      /\ msgCall[p].step = "unlink"
  BY DEF MsggetUnlink
<1>2. w.step = "open" /\ w.idx = i /\ w.seq = msgCall[p].seq
  BY DEF MsgWork
<1> HIDE DEF w
<1>3. msgCall'[p] = w /\ \A q \in Procs : q # p => msgCall'[q] = msgCall[q]
  BY <1>1
<1>4. MakersStay /\ \A q \in Procs : msgCall'[q].step = "init" => msgCall'[q] = msgCall[q]
  BY <1>1, <1>2, <1>3 DEF MakersStay
<1> HIDE DEF i
<1>5. \A j \in MsgSlots : msgName'[j] = NoStore \/ msgName'[j] = msgName[j]
  BY <1>1
<1>6. Reach' \subseteq Reach
  BY <1>1, <1>4, <1>5, CacheReaches, ReachFrom
<1>7. \A j \in MsgSlots : MsgEvolves(j)
  BY <1>1 DEF MsgEvolves
<1>8. \A q \in Procs : \A m \in msgCache'[q] : Dated(m)
  BY <1>1, CacheDated DEF AccInv
<1> QED BY <1>1, <1>4, <1>6, <1>7, <1>8, AccQuiet

(* The maker of a queue's own store creates the name, and the store is    *)
(* empty; any other maker creates or opens one for a queue that is not     *)
(* spoken of.                                                              *)
LEMMA OpenAccounts ==
  ASSUME MsgInv, MsgInv', AccInv, NEW p \in Procs, MsggetOpen(p)
  PROVE  AccInv'
<1> USE MsgParts
<1> DEFINE i == msgCall[p].idx
           q == msgCall[p].seq
           w(s) == [msgCall[p] EXCEPT !.step = "init", !.store = s]
           fresh(s) == s \notin DOMAIN stores /\ stores'[s] = RawStore
<1>1. msgCall[p].step = "open" /\ i \in MsgSlots /\ q \in Nat /\ msgCall[p] \in MsgWork
  BY DEF MsggetOpen, MsgWork
<1>2. Sole(i) => /\ msg[i].seq = q /\ msg[i].qnum = 0 /\ msg[i].cbytes = 0
                 /\ \A x \in Reach : ~(x.idx = i /\ x.seq = q)
  BY <1>1 DEF AccInv, Makers
<1>3. PICK s : /\ i \in MsgSlots /\ msg' = msg /\ msgCache' = msgCache
               /\ msgCall' = [msgCall EXCEPT ![p] = w(s)]
               /\ \/ /\ s = Len(stores) + 1 /\ stores' = Append(stores, RawStore) /\ msgName[i] = NoStore
                     /\ msgName' = [msgName EXCEPT ![i] = s]
                  \/ /\ s = msgName[i] /\ s # NoStore /\ stores' = stores /\ msgName' = msgName
  BY MsggetOpenIs
<1>4. /\ msgName'[i] = s /\ \A j \in MsgSlots : j # i => msgName'[j] = msgName[j]
  BY <1>1, <1>3
<1>5. (\A n \in DOMAIN stores : stores'[n] = stores[n]) /\ (fresh(s) \/ (s = msgName[i] /\ s # NoStore))
  <2>1. Len(stores) \in Nat /\ DOMAIN stores = 1 .. Len(stores)
    BY LenProperties
  <2>2. CASE s = Len(stores) + 1 /\ stores' = Append(stores, RawStore)
    <3>1. /\ \A n \in 1 .. Len(stores) : stores'[n] = stores[n]
          /\ stores'[s] = RawStore
      BY <2>2, AppendProperties, RawIsStore
    <3> QED BY <2>1, <2>2, <3>1
  <2>3. CASE s = msgName[i] /\ s # NoStore /\ stores' = stores
    BY <2>3
  <2> QED BY <1>3, <2>2, <2>3
<1>6. w(s).step = "init" /\ w(s).idx = i /\ w(s).seq = q /\ w(s).store = s
  BY <1>1 DEF MsgWork
<1> HIDE DEF w, fresh
<1>7. msgCall'[p] = w(s) /\ \A r \in Procs : r # p => msgCall'[r] = msgCall[r]
  BY <1>3
<1>8. ASSUME NEW x \in Reach', x \notin Reach
      PROVE  x.idx = i /\ x.store = s /\ (x.seq = q \/ x.seq = msg[i].seq)
  <2>1. x \in MsgMapping' /\ x.idx \in MsgSlots /\ x.seq \in Nat /\ x.store \in DOMAIN stores'
    BY DEF Reach, MsgMapping
  <2>2. \/ \E r \in Procs : x \in msgCache'[r]
        \/ msgName'[x.idx] = x.store /\ msg'[x.idx].seq = x.seq
        \/ \E r \in Procs : /\ msgCall'[r].step = "init" /\ msgCall'[r].idx = x.idx
                            /\ msgCall'[r].seq = x.seq /\ msgCall'[r].store = x.store
    BY DEF Reach
  <2>3. CASE \E r \in Procs : x \in msgCache'[r]
    BY <1>3, <1>8, <2>3, CacheReaches
  <2>4. CASE msgName'[x.idx] = x.store /\ msg'[x.idx].seq = x.seq
    <3>1. CASE x.idx = i
      BY <1>3, <1>4, <2>4, <3>1
    <3>2. CASE x.idx # i
      <4>1. msgName[x.idx] = x.store /\ msg[x.idx].seq = x.seq
        BY <1>3, <1>4, <2>1, <2>4, <3>2
      <4>2. x.store # NoStore
        BY <2>1, MsgParts, NoStoreIsNone, LenProperties DEF NoStore, MsgInv, MsgShape
      <4>3. x.store \in DOMAIN stores
        BY <2>1, <4>1, <4>2
      <4>4. x \in MsgMapping
        BY <2>1, <4>3 DEF MsgMapping
      <4> QED BY <1>8, <4>1, <4>4 DEF Reach
    <3> QED BY <3>1, <3>2
  <2>5. ASSUME NEW r \in Procs, msgCall'[r].step = "init", msgCall'[r].idx = x.idx,
               msgCall'[r].seq = x.seq, msgCall'[r].store = x.store
        PROVE  x.idx = i /\ x.seq = q /\ x.store = s
    <3>1. CASE r = p
      BY <1>6, <1>7, <2>5, <3>1
    <3>2. CASE r # p
      <4>1. msgCall'[r] = msgCall[r]
        BY <1>7, <3>2
      <4>2. x.store \in DOMAIN stores
        BY <2>5, <4>1
      <4>3. x \in MsgMapping
        BY <2>1, <4>2 DEF MsgMapping
      <4>4. x \in Reach
        BY <2>5, <4>1, <4>3 DEF Reach
      <4> QED BY <1>8, <4>4
    <3> QED BY <3>1, <3>2
  <2> QED BY <2>2, <2>3, <2>4, <2>5
<1>9. s = msgName[i] /\ s # NoStore => [idx |-> i, seq |-> msg[i].seq, store |-> s] \in Reach
  BY <1>1, MsgSeqIs DEF Reach, MsgMapping
<1> HIDE DEF i, q
<1>10. Sole(i) => fresh(s)
  <2> SUFFICES ASSUME Sole(i), s = msgName[i], s # NoStore PROVE FALSE
    BY <1>5
  <2> DEFINE z == [idx |-> i, seq |-> msg[i].seq, store |-> s]
  <2>1. z \in Reach /\ z.idx = i /\ z.seq = msg[i].seq
    BY <1>9
  <2> HIDE DEF z
  <2> QED BY <1>2, <2>1
<1>11. ASSUME NEW x \in Reach, Current(x) PROVE x.store # s /\ (x.idx = i => x.seq = q) /\ ~(x.idx = i /\ x.seq = q)
  <2>1. ~(x.idx = i /\ x.seq = q) /\ (x.idx = i => x.seq = q)
    BY <1>2, <1>11 DEF Current
  <2>2. CASE fresh(s)
    BY <2>1, <2>2, ReachIs DEF fresh
  <2>3. CASE s = msgName[i] /\ s # NoStore
    <3> DEFINE z == [idx |-> i, seq |-> msg[i].seq, store |-> s]
    <3>1. z \in Reach /\ z.idx = i /\ z.store = s
      BY <1>9, <2>3
    <3> HIDE DEF z
    <3>2. x.store = z.store <=> x.idx = z.idx /\ x.seq = z.seq
      BY <1>11, <3>1 DEF AccInv, OneStore
    <3> QED BY <2>1, <3>1, <3>2
  <2> QED BY <1>5, <2>1, <2>2, <2>3
<1>12. ASSUME NEW x \in Reach' PROVE Current(x)' <=> Current(x)
  BY <1>3 DEF Current, Sole
<1>13. OneStore'
  <2>1. ASSUME NEW x \in Reach', NEW y \in Reach', Current(x)
        PROVE  x.store = y.store <=> x.idx = y.idx /\ x.seq = y.seq
    <3>1. CASE x \in Reach /\ y \in Reach
      BY <2>1, <3>1 DEF AccInv, OneStore
    <3>2. CASE x \in Reach /\ y \notin Reach
      <4>1. y.idx = i /\ y.store = s
        BY <1>8, <3>2
      <4>2. x.store # s /\ x.idx # i
        BY <1>11, <2>1, <3>2
      <4> QED BY <4>1, <4>2
    <3>3. CASE x \notin Reach
      <4>1. x.idx = i /\ x.store = s /\ Sole(i) /\ x.seq = q /\ msg[i].seq = q
        BY <1>2, <1>8, <2>1, <3>3 DEF Current
      <4>2. CASE y \in Reach
        <5>1. ~(y.idx = i /\ y.seq = q) /\ y.store # s
          BY <1>2, <1>10, <4>1, <4>2, ReachIs DEF fresh
        <5> QED BY <4>1, <5>1
      <4>3. CASE y \notin Reach
        BY <1>8, <4>1, <4>3
      <4> QED BY <4>2, <4>3
    <3> QED BY <3>1, <3>2, <3>3
  <2> QED BY <1>12, <2>1 DEF OneStore
<1>14. Reached'
  <2>1. ASSUME NEW r \in Procs, msgCall'[r].step # "idle"
        PROVE  /\ msgCall[r].step # "idle" /\ msgCall'[r].idx = msgCall[r].idx
               /\ msgCall'[r].seq = msgCall[r].seq
    BY <1>1, <1>6, <1>7, <2>1 DEF i, q
  <2> QED BY <1>3, <2>1 DEF AccInv, Reached
<1>15. Makers'
  <2>1. ASSUME NEW r \in Procs, msgCall'[r].step # "idle", Sole(msgCall'[r].idx)
        PROVE  LET v == msgCall'[r] IN
               /\ msg'[v.idx].seq = v.seq
               /\ v.step \in {"unlink", "open"} =>
                    /\ msg'[v.idx].qnum = 0 /\ msg'[v.idx].cbytes = 0
                    /\ \A x \in Reach' : ~(x.idx = v.idx /\ x.seq = v.seq)
    <3>1. CASE r = p
      BY <1>2, <1>3, <1>6, <1>7, <2>1, <3>1
    <3>2. CASE r # p
      <4>1. msgCall'[r] = msgCall[r]
        BY <1>7, <3>2
      <4>2. msgCall[r].idx # i
        BY <1>1, <2>1, <3>2, <4>1 DEF AccInv, Makers, i
      <4>3. msgCall[r].step \in {"unlink", "open"} =>
              \A x \in Reach' : ~(x.idx = msgCall[r].idx /\ x.seq = msgCall[r].seq)
        BY <1>8, <2>1, <4>1, <4>2 DEF AccInv, Makers
      <4> QED BY <1>3, <2>1, <4>1, <4>3 DEF AccInv, Makers
    <3> QED BY <3>1, <3>2
  <2>2. ASSUME NEW a \in Procs, NEW b \in Procs, msgCall'[a].step # "idle", msgCall'[b].step # "idle",
               msgCall'[a].idx = msgCall'[b].idx, Sole(msgCall'[a].idx)
        PROVE  a = b
    <3>1. ASSUME NEW r \in Procs, msgCall'[r].step # "idle"
          PROVE  msgCall[r].step # "idle" /\ msgCall'[r].idx = msgCall[r].idx
      BY <1>1, <1>6, <1>7, <3>1 DEF i
    <3> QED BY <2>2, <3>1 DEF AccInv, Makers
  <2>3. \A r \in Procs : msg'[msgCall'[r].idx].inuse /\ msg'[msgCall'[r].idx].sole
                         => Sole(msgCall'[r].idx)
    BY <1>3 DEF Sole
  <2> QED BY <2>1, <2>2, <2>3 DEF Makers, Sole
<1>16. Accounts'
  <2>1. ASSUME NEW x \in Reach', Current(x)
        PROVE  Matches(msg'[x.idx], stores'[x.store])
    <3>1. CASE x \in Reach
      BY <1>3, <1>5, <2>1, <3>1, ReachIs DEF AccInv, Accounts
    <3>2. CASE x \notin Reach
      <4>1. x.idx = i /\ x.store = s /\ Sole(i)
        BY <1>8, <2>1, <3>2 DEF Current
      <4> QED BY <1>2, <1>3, <1>10, <4>1, RawIsStore DEF Matches, fresh
    <3> QED BY <3>1, <3>2
  <2> QED BY <1>12, <2>1 DEF Accounts
<1> QED BY <1>13, <1>14, <1>15, <1>16 DEF AccInv

(* An entry is freed, whoever still makes a store for it.                  *)
LEMMA FreesAccounts ==
  ASSUME MsgInv, MsgInv', AccInv, NEW p \in Procs, NEW i \in MsgSlots, MsgFrees(p, i), msg[i].inuse,
         msgCall' = msgCall \/ msgCall' = [msgCall EXCEPT ![p] = MsgIdle]
  PROVE  AccInv'
<1> USE MsgParts
<1>1. /\ msg'[i] = FreeMsg(msg[i].seq + 1) /\ \A j \in MsgSlots : j # i => msg'[j] = msg[j]
  BY DEF MsgFrees
<1>2. ~msg'[i].inuse /\ msg'[i].seq = msg[i].seq + 1
  BY <1>1 DEF FreeMsg
<1>3. /\ msgName'[i] = NoStore /\ \A j \in MsgSlots : j # i => msgName'[j] = msgName[j]
  BY DEF MsgFrees
<1>4. stores' = stores /\ \A q \in Procs : msgCache'[q] \subseteq msgCache[q]
  BY DEF MsgFrees
<1>5. MakersStay /\ \A q \in Procs : msgCall'[q].step = "init" => msgCall'[q] = msgCall[q]
  BY MakersIdle
<1>6. \A j \in MsgSlots : MsgEvolves(j)
  BY <1>1, <1>2 DEF MsgEvolves
<1>7. Reach' \subseteq Reach
  <2>1. \A q \in Procs : msgCache'[q] \subseteq Reach
    BY <1>4, CacheReaches
  <2>2. \A j \in MsgSlots : \/ msgName'[j] = NoStore
                            \/ msgName'[j] = msgName[j] /\ msg'[j].seq = msg[j].seq
    BY <1>1, <1>3
  <2> QED BY <1>4, <1>5, <2>1, <2>2, ReachFrom
<1>8. \A j \in MsgSlots : msg[j].inuse /\ msg'[j].inuse =>
         msg'[j].qnum = msg[j].qnum /\ msg'[j].cbytes = msg[j].cbytes
  BY <1>1, <1>2
<1>9. \A q \in Procs : \A m \in msgCache'[q] : Dated(m)
  BY <1>4, CacheDated DEF AccInv
<1> QED BY <1>4, <1>5, <1>6, <1>7, <1>8, <1>9, AccQuiet

LEMMA RmidAccounts ==
  ASSUME MsgInv, MsgInv', AccInv, NEW p \in Procs, NEW i \in MsgSlots, MsgRmid(p, i)
  PROVE  AccInv'
<1>1. MsgFrees(p, i) /\ msgCall' = msgCall /\ msg[i].inuse
  BY DEF MsgRmid, MsgFrees
<1> QED BY <1>1, FreesAccounts

LEMMA SetAccounts ==
  ASSUME MsgInv, MsgInv', AccInv, NEW p \in Procs, NEW i \in MsgSlots, MsgSet(p, i)
  PROVE  AccInv'
<1> USE MsgParts
<1>1. PICK bytes \in SetBytes, uid \in Owners, shared \in Modes :
        msg' = [msg EXCEPT ![i] = [WithPerm(msg[i], uid, shared)
                        EXCEPT !.qbytes = IF bytes = 0 THEN msg[i].qbytes ELSE bytes]]
  BY DEF MsgSet
<1>2. UNCHANGED <<msgName, stores, msgCache, msgCall>>
  BY DEF MsgSet
<1> DEFINE e == msg[i]
           b == IF bytes = 0 THEN e.qbytes ELSE bytes
<1>3. e \in MsgRecord /\ msg'[i] = [WithPerm(e, uid, shared) EXCEPT !.qbytes = b]
  BY <1>1
<1> HIDE DEF e, b
<1>4. /\ msg'[i].inuse = e.inuse /\ msg'[i].seq = e.seq /\ msg'[i].sole = e.sole
      /\ msg'[i].qnum = e.qnum /\ msg'[i].cbytes = e.cbytes
  BY <1>3 DEF WithPerm, MsgRecord
<1>5. \A j \in MsgSlots : /\ msg'[j].inuse = msg[j].inuse /\ msg'[j].seq = msg[j].seq
                          /\ msg'[j].sole = msg[j].sole
                          /\ msg'[j].qnum = msg[j].qnum /\ msg'[j].cbytes = msg[j].cbytes
  BY <1>1, <1>4 DEF e
<1>6. MakersStay
  BY <1>2, MakersIdle
<1>7. Reach' \subseteq Reach
  BY <1>2, <1>5, CacheReaches, ReachFrom
<1>8. \A j \in MsgSlots : MsgEvolves(j)
  BY <1>5 DEF MsgEvolves
<1>9. \A q \in Procs : \A m \in msgCache'[q] : Dated(m)
  BY <1>2, CacheDated DEF AccInv
<1> QED BY <1>2, <1>5, <1>6, <1>7, <1>8, <1>9, AccQuiet

(* Steps that touch neither entries nor stores: names and mappings may go, *)
(* a mapping may be copied.                                                *)
LEMMA HooksAccount ==
  ASSUME MsgInv, MsgInv', AccInv, NEW p \in Procs, UNCHANGED <<msg, stores>>,
         \A q \in Procs : \E r \in Procs : msgCache'[q] \subseteq msgCache[r],
         \A i \in MsgSlots : msgName'[i] = NoStore \/ msgName'[i] = msgName[i],
         msgCall' = msgCall \/ msgCall' = [msgCall EXCEPT ![p] = MsgIdle]
  PROVE  AccInv'
<1>1. MakersStay /\ \A q \in Procs : msgCall'[q].step = "init" => msgCall'[q] = msgCall[q]
  BY MakersIdle
<1>2. \A q \in Procs : msgCache'[q] \subseteq Reach
  BY CacheReaches
<1>3. Reach' \subseteq Reach
  BY <1>1, <1>2, ReachFrom
<1>4. \A j \in MsgSlots : MsgEvolves(j)
  BY DEF MsgEvolves
<1>5. \A q \in Procs : \A m \in msgCache'[q] : Dated(m)
  BY CacheDated DEF AccInv
<1> QED BY <1>1, <1>3, <1>4, <1>5, AccQuiet

(* msgget() gives up: the entry is its own, or was removed meanwhile.      *)
LEMMA FailsAccounts ==
  ASSUME MsgInv, MsgInv', AccInv, NEW p \in Procs, MsggetFails(p)
  PROVE  AccInv'
<1> USE MsgParts
<1> DEFINE i == msgCall[p].idx
           mine == msg[i].inuse /\ msg[i].seq = msgCall[p].seq
<1>1. i \in MsgSlots /\ msgCall' = [msgCall EXCEPT ![p] = MsgIdle] /\ stores' = stores
  BY DEF MsggetFails
<1>2. CASE mine
  <2>1. MsgFrees(p, i)
    BY <1>2 DEF MsggetFails, MsgFrees
  <2> QED BY <1>1, <1>2, <2>1, FreesAccounts
<1>3. CASE ~mine
  <2>1. msg' = msg /\ msgName' = msgName /\ msgCache' = msgCache
    BY <1>3 DEF MsggetFails
  <2> QED BY <1>1, <2>1, HooksAccount
<1> QED BY <1>2, <1>3

LEMMA AccStarts ==
  ASSUME Init
  PROVE  AccInv
<1>1. Reach = {}
  <2>1. DOMAIN stores = {}
    BY EmptySeq, LenProperties DEF Init, MsgInit
  <2>2. MsgMapping = {}
    BY <2>1 DEF MsgMapping
  <2> QED BY <2>2 DEF Reach
<1>2. \A p \in Procs : msgCall[p].step = "idle"
  BY MsgWorkIdle DEF Init, MsgInit
<1>3. \A p \in Procs : msgCache[p] = {}
  BY DEF Init, MsgInit
<1> QED BY <1>1, <1>2, <1>3 DEF AccInv, OneStore, Reached, Makers, Accounts

LEMMA AccPreserved ==
  ASSUME MsgInv, MsgInv', AccInv, [Next]_vars
  PROVE  AccInv'
<1> USE MsgParts
<1>1. ASSUME UNCHANGED msgVars PROVE AccInv'
  <2>1. UNCHANGED <<msg, stores, msgName, msgCache, msgCall>>
    BY <1>1 DEF msgVars
  <2>2. Root \in Procs
    BY SysvAssumption
  <2> QED BY <2>1, <2>2, HooksAccount
<1>2. CASE UNCHANGED vars
  BY <1>1, <1>2 DEF vars
<1>3. ASSUME NEW p \in Procs, Shm(p) \/ Sem(p) PROVE AccInv'
  BY <1>1, <1>3 DEF Shm, Sem
<1>4. ASSUME NEW p \in Procs, Msg(p) PROVE AccInv'
  <2>1. CASE Ready(p) /\ MsgRequest(p)
    BY <2>1, EntryAccounts, SendAccounts, ReceiveAccounts, RmidAccounts, SetAccounts DEF MsgRequest, Ready
  <2>2. CASE MsgStep(p)
    BY <2>2, UnlinkAccounts, OpenAccounts, ReadyAccounts, FailsAccounts DEF MsgStep
  <2> QED BY <1>4, <2>1, <2>2 DEF Msg
<1>5. ASSUME NEW p \in Procs, (\E c \in Procs : Fork(p, c)) \/ Exec(p) \/ Exit(p) \/ Kill(p)
      PROVE  AccInv'
  <2>1. UNCHANGED <<msg, stores>>
    BY <1>5 DEF Fork, Exec, Exit, Kill, msgVars
  <2>2. msgCall' = msgCall \/ msgCall' = [msgCall EXCEPT ![p] = MsgIdle]
    BY <1>5 DEF Fork, Exec, Exit, Kill, msgVars
  <2>3. \A q \in Procs : \E r \in Procs : msgCache'[q] \subseteq msgCache[r]
    <3>1. \/ msgCache' = msgCache
          \/ msgCache' = [msgCache EXCEPT ![p] = {}]
          \/ \E c \in Procs : msgCache' = [msgCache EXCEPT ![c] = msgCache[p]]
      BY <1>5 DEF Fork, Exec, Exit, Kill, msgVars
    <3>2. CASE msgCache' = msgCache
      BY <3>2
    <3>3. CASE msgCache' = [msgCache EXCEPT ![p] = {}]
      BY <3>3
    <3>4. CASE \E c \in Procs : msgCache' = [msgCache EXCEPT ![c] = msgCache[p]]
      BY <3>4
    <3> QED BY <3>1, <3>2, <3>3, <3>4
  <2>4. \A i \in MsgSlots : msgName'[i] = NoStore \/ msgName'[i] = msgName[i]
    <3>1. \/ msgName' = msgName
          \/ msgName' = [i \in MsgSlots |-> IF msg[i].inuse THEN NoStore ELSE msgName[i]]
      BY <1>5 DEF Fork, Exec, Exit, Kill, msgVars
    <3> QED BY <3>1
  <2> QED BY <2>1, <2>2, <2>3, <2>4, HooksAccount
<1> QED BY <1>2, <1>3, <1>4, <1>5 DEF Next

(* The sum over the positions of a list is the sum over its cells.         *)
LEMMA SumOverCells ==
  ASSUME NEW f, NEW L \in Seq(Cells), \A j, k \in 1 .. Len(L) : L[j] = L[k] => j = k,
         \A c \in Cells : f[c] \in Int
  PROVE  FoldSeq(+, 0, [k \in DOMAIN L |-> f[L[k]]]) = SumFunctionOnSet(f, Cellset(L))
<1> DEFINE n == Len(L)
           g == [k \in DOMAIN L |-> f[L[k]]]
           Of(S) == {L[k] : k \in S}
           Bad == {S \in SUBSET (1 .. n) : SumFunctionOnSet(g, S) # SumFunctionOnSet(f, Of(S))}
<1>1. n \in Nat /\ DOMAIN L = 1 .. n /\ IsFiniteSet(1 .. n) /\ \A k \in 1 .. n : L[k] \in Cells
  BY LenProperties, FS_Interval
<1>2. FoldSeq(+, 0, g) = SumFunctionOnSet(g, DOMAIN g)
  BY DEF FoldSeq, FoldFunction, SumFunctionOnSet
<1>3. DOMAIN g = 1 .. n /\ \A k \in 1 .. n : g[k] = f[L[k]] /\ g[k] \in Int
  BY <1>1
<1> HIDE DEF g
<1>4. Bad = {}
  <2> SUFFICES ASSUME Bad # {} PROVE FALSE
    OBVIOUS
  <2>1. Bad \subseteq SUBSET (1 .. n)
    OBVIOUS
  <2>2. PICK S \in Bad : \A T \in SUBSET S : T # S => T \notin Bad
    <3> HIDE DEF Bad
    <3> QED BY <1>1, <2>1, Minimal
  <2>3. S \in SUBSET (1 .. n) /\ SumFunctionOnSet(g, S) # SumFunctionOnSet(f, Of(S))
    OBVIOUS
  <2>4. S # {}
    <3>1. Of({}) = {}
      OBVIOUS
    <3> QED BY <2>3, <3>1, SumEmpty
  <2>5. PICK k : k \in S
    BY <2>4
  <2> DEFINE T == S \ {k}
  <2>6. Of(T) = Of(S) \ {L[k]} /\ L[k] \in Of(S) /\ T # S /\ T \in SUBSET S
    BY <1>1, <2>3, <2>5
  <2>7. IsFiniteSet(S) /\ IsFiniteSet(Of(S)) /\ Of(S) \subseteq Cells
    <3>1. IsFiniteSet(S)
      BY <1>1, <2>3, FS_Subset
    <3>2. Of(S) \in SUBSET Cells
      BY <1>1, <2>3
    <3> QED BY <3>1, <3>2, CellsAre, FS_Subset
  <2> HIDE DEF Of
  <2>8. SumFunctionOnSet(g, T) = SumFunctionOnSet(f, Of(T))
    BY <2>2, <2>3, <2>6
  <2>9. SumFunctionOnSet(g, S) = g[k] + SumFunctionOnSet(g, T)
    <3>1. \A x \in S : g[x] \in Int
      BY <1>3, <2>3
    <3>2. \A x \in S : SumFunctionOnSet(g, S) = g[x] + SumFunctionOnSet(g, S \ {x})
      <4> HIDE DEF Bad, T
      <4>1. IsFiniteSet(S)
        BY <2>7
      <4> QED BY ONLY <3>1, <4>1, SumRemoves
    <3> QED BY <2>5, <3>2
  <2>10. SumFunctionOnSet(f, Of(S)) = f[L[k]] + SumFunctionOnSet(f, Of(T))
    <3>1. \A x \in Of(S) : f[x] \in Int
      BY <2>7
    <3>2. SumFunctionOnSet(f, Of(S)) = f[L[k]] + SumFunctionOnSet(f, Of(S) \ {L[k]})
      BY <2>6, <2>7, <3>1, SumRemoves
    <3> QED BY <2>6, <3>2
  <2> QED BY <1>3, <2>3, <2>5, <2>8, <2>9, <2>10
<1>5. SumFunctionOnSet(g, 1 .. n) = SumFunctionOnSet(f, Of(1 .. n))
  BY <1>4
<1>6. Of(1 .. n) = Cellset(L)
  BY <1>1 DEF Cellset
<1> QED BY <1>2, <1>3, <1>5, <1>6 DEF g

LEMMA AccountsAgree ==
  ASSUME MsgInv, AccInv
  PROVE  QueueIsAccounted
<1> SUFFICES ASSUME NEW p \in Procs, NEW i \in MsgSlots, Usable(StoreOf(p, i)), Sole(i)
             PROVE  LET s == StoreOf(p, i)
                        list == Messages(stores[s]) IN
                    /\ msg[i].qnum = Len(list)
                    /\ msg[i].cbytes = FoldSeq(+, 0, [k \in DOMAIN list |-> stores[s].size[list[k]]])
  BY DEF QueueIsAccounted, Sole
<1> DEFINE s == StoreOf(p, i)
           L == Messages(stores[s])
<1>1. s # NoStore /\ stores[s].ready
  BY DEF Usable
<1>2. s \in DOMAIN stores /\ Matches(msg[i], stores[s])
  BY <1>1, UsedMatches
<1> HIDE DEF s
<1>3. PICK U, F : Lists(stores[s], U, F)
  BY <1>1, <1>2 DEF MsgInv, StoreLists
<1>4. stores[s] \in Store
  BY <1>2, MsgParts, LenProperties
<1>5. /\ L = U /\ U \in Seq(Cells) /\ (\A c \in Cells : stores[s].size[c] \in Int)
      /\ Bytes(stores[s]) = SumFunctionOnSet(stores[s].size, Cellset(U))
  BY <1>3, <1>4, BytesIs
<1>6. \A j, k \in 1 .. Len(U) : U[j] = U[k] => j = k
  BY <1>3 DEF Lists, Chain
<1>7. msg[i].qnum = Len(L) /\ msg[i].cbytes = Bytes(stores[s])
  BY <1>1, <1>2 DEF Matches
<1> HIDE DEF L
<1>8. FoldSeq(+, 0, [k \in DOMAIN U |-> stores[s].size[U[k]]]) = SumFunctionOnSet(stores[s].size, Cellset(U))
  BY <1>5, <1>6, SumOverCells
<1>9. /\ msg[i].qnum = Len(L)
      /\ msg[i].cbytes = FoldSeq(+, 0, [k \in DOMAIN L |-> stores[s].size[L[k]]])
  BY <1>5, <1>7, <1>8
<1> QED BY <1>9 DEF s, L

(* The counters that admit senders describe the one list every process     *)
(* uses, for any number of queues and processes, across removals while the *)
(* store is being made, failed creations, forks, exits and kills, for      *)
(* every queue that was created while nobody was still making a store for  *)
(* its slot or had left one under its name.                                *)
THEOREM QueuesAreAccounted == Spec => []QueueIsAccounted
<1>1. Init => MsgInv /\ AccInv
  BY MsgStarts, AccStarts
<1>2. MsgInv /\ AccInv /\ [Next]_vars => (MsgInv /\ AccInv)'
  BY MsgPreserved, AccPreserved
<1>3. MsgInv /\ AccInv => QueueIsAccounted
  BY AccountsAgree
<1> QED BY <1>1, <1>2, <1>3, PTL DEF Spec
=============================================================================
