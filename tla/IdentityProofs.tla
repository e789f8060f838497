--------------------------- MODULE IdentityProofs ---------------------------
(***************************************************************************)
(* Readers and recovery of the identity registry, for every number of      *)
(* processes, threads and slots and every plan.                            *)
(*                                                                         *)
(* A lookup that takes no lock answers from the maps that are published    *)
(* when it accepts its answer: a writer touches only the bank that is not  *)
(* in force, and the commit word never returns to an old value, so that a  *)
(* reader whose word is still the published one has seen one unchanged     *)
(* bank (ReadInv).                                                         *)
(*                                                                         *)
(* A writer can die between any two stores.  RecoveryInv says what the     *)
(* next one relies on; it rests on CallInv, which has the types, and says  *)
(* which thread can run and what its request can be at each of its points. *)
(***************************************************************************)
EXTENDS PidNamespace, WellFoundedInduction, TLAPS

Words == [gen : Nat, bank : {0, 1}]
Reading == {"scan", "recheck"}
Places == {"repair", "unlock", "clear", "fail"}   \* where a mirror pass leads to

(* The types of what a lookup depends on.                                  *)
ReadTypes ==
  /\ word \in Words
  /\ DOMAIN bank = {0, 1}
  /\ at \in [Threads -> Points]
  /\ then \in [Threads -> Places]
  /\ pos \in [Threads -> Nat]
  /\ seen \in [Threads -> Words]
  /\ DOMAIN want = Threads /\ DOMAIN found = Threads

(* What the reader's slot holds in the bank in force.                      *)
Entry(t, j) == bank[word.bank][want[t].kind][j]

(* A reader is never ahead of the commit word.  If it is not behind, the   *)
(* slots it has passed are those in force, and none was the one it seeks.  *)
Behind(t) == at[t] \in Reading => seen[t].gen <= word.gen
Scanning(t) ==
  at[t] = "scan" =>
    /\ pos[t] \in Slots
    /\ seen[t].gen = word.gen =>
         /\ seen[t] = word /\ found[t] = Free
         /\ \A j \in Slots : j < pos[t] => ~Sought(t, Entry(t, j))
Accepting(t) ==
  at[t] = "recheck" =>
    /\ pos[t] = 1
    /\ seen[t].gen = word.gen =>
         /\ seen[t] = word
         /\ found[t] = Free => \A j \in Slots : ~Sought(t, Entry(t, j))
         /\ found[t] # Free =>
              \E j \in Slots : found[t] = Entry(t, j) /\ Sought(t, Entry(t, j))

ReadInv == ReadTypes /\ \A t \in Threads : Behind(t) /\ Scanning(t) /\ Accepting(t)

-----------------------------------------------------------------------------
(* What a step may do to readers.                                          *)

(* The bank in force is not written, and the word stays.                   *)
Quiet == word' = word /\ bank'[word.bank] = bank[word.bank]

(* A thread reads on as it did, or does not read.                          *)
Undisturbed(t) ==
  \/ at'[t] \notin Reading
  \/ /\ at'[t] = at[t] /\ pos'[t] = pos[t] /\ want'[t] = want[t]
     /\ seen'[t] = seen[t] /\ found'[t] = found[t]

LEMMA SlotsFromOne == Slots \subseteq Nat \ {0} /\ 1 \in Slots /\ Capacity \in Nat
  BY IdentityAssumption DEF Slots, IdentityAssumption

(* Every reader that goes on is still right about the bank in force.       *)
LEMMA QuietStep ==
  ASSUME ReadInv, ReadTypes', Quiet, NEW t \in Threads, Undisturbed(t)
  PROVE  (Behind(t) /\ Scanning(t) /\ Accepting(t))'
<1>1. CASE at'[t] \notin Reading
  BY <1>1 DEF Reading, Behind, Scanning, Accepting
<1>2. CASE at'[t] \in Reading
  <2>1. /\ at'[t] = at[t] /\ pos'[t] = pos[t] /\ want'[t] = want[t]
        /\ seen'[t] = seen[t] /\ found'[t] = found[t] /\ word' = word
    BY <1>2 DEF Undisturbed, Quiet
  <2>2. \A j : Entry(t, j)' = Entry(t, j)
    BY <2>1 DEF Entry, Quiet
  <2>3. \A e : Sought(t, e)' <=> Sought(t, e)
    BY <2>1 DEF Sought
  <2>4. Behind(t) /\ Scanning(t) /\ Accepting(t)
    BY DEF ReadInv
  <2>5. Behind(t)'
    BY <2>1, <2>4 DEF Behind
  <2>6. Scanning(t)'
    BY <2>1, <2>2, <2>3, <2>4 DEF Scanning
  <2>7. Accepting(t)'
    BY <2>1, <2>2, <2>3, <2>4 DEF Accepting
  <2>. QED BY <2>5, <2>6, <2>7
<1>. QED BY <1>1, <1>2

(* A flip of the commit word leaves every reader behind.                   *)
LEMMA FlipStep ==
  ASSUME ReadInv, NEW u \in Threads, Commit(u), NEW t \in Threads
  PROVE  (Behind(t) /\ Scanning(t) /\ Accepting(t))'
<1>1. /\ word'.gen = word.gen + 1 /\ word.gen \in Nat /\ seen[t].gen \in Nat
      /\ seen' = seen
  BY DEF ReadInv, ReadTypes, Words, Commit
<1>2. CASE at'[t] \notin Reading
  BY <1>2 DEF Reading, Behind, Scanning, Accepting
<1>3. CASE at'[t] \in Reading
  <2>1. t # u /\ at'[t] = at[t] /\ pos'[t] = pos[t]
    BY <1>3 DEF Commit, Go, Reading, ReadInv, ReadTypes
  <2>2. seen'[t].gen < word'.gen
    BY <1>1, <1>3, <2>1 DEF ReadInv, Behind
  <2>3. at[t] = "scan" => pos[t] \in Slots
    BY DEF ReadInv, Scanning
  <2>4. at[t] = "recheck" => pos[t] = 1
    BY DEF ReadInv, Accepting
  <2>5. Behind(t)'
    BY <1>1, <2>2, <1>3 DEF Behind
  <2>6. Scanning(t)'
    BY <1>1, <2>1, <2>2, <2>3 DEF Scanning, Slots
  <2>7. Accepting(t)'
    BY <1>1, <2>1, <2>2, <2>4 DEF Accepting
  <2>. QED BY <2>5, <2>6, <2>7
<1>. QED BY <1>2, <1>3

-----------------------------------------------------------------------------
(* The three steps of a lookup.                                            *)

LEMMA LookStep ==
  ASSUME ReadInv, NEW t \in Threads, Look(t)
  PROVE  ReadInv'
<1>1. ReadTypes'
  <2>1. CASE Closed
    BY <2>1 DEF Look, Go, ReadInv, ReadTypes, Points, LookPoints, storage
  <2>2. CASE ~Closed
    BY <2>2 DEF Look, Go, ReadInv, ReadTypes, Points, LookPoints, storage
  <2>. QED BY <2>1, <2>2
<1>2. Quiet
  BY DEF Look, Quiet, storage
<1>3. ASSUME NEW u \in Threads, u # t PROVE Undisturbed(u)
  BY <1>3 DEF Look, Go, ReadInv, ReadTypes, Undisturbed
<1>4. CASE at'[t] \notin Reading
  BY <1>1, <1>2, <1>3, <1>4, QuietStep DEF ReadInv, Undisturbed
<1>5. CASE at'[t] \in Reading
  <2>1. at'[t] = "scan" /\ seen'[t] = word /\ found'[t] = Free /\ pos'[t] = 1 /\ word' = word
    BY <1>2, <1>5 DEF Look, Go, ReadInv, ReadTypes, Reading, Quiet
  <2>2. \A j \in Slots : ~(j < 1)
    BY SlotsFromOne
  <2>3. (Behind(t) /\ Scanning(t) /\ Accepting(t))'
    BY <2>1, <2>2, SlotsFromOne
    DEF Behind, Scanning, Accepting, ReadInv, ReadTypes, Words, Slots, Free
  <2>. QED BY <1>1, <1>2, <1>3, <2>3, QuietStep DEF ReadInv
<1>. QED BY <1>4, <1>5

LEMMA ScanStep ==
  ASSUME ReadInv, NEW t \in Threads, Scan(t)
  PROVE  ReadInv'
<1>1. at[t] = "scan" /\ pos[t] \in Slots /\ pos[t] \in Nat
  BY SlotsFromOne DEF Scan, ReadInv, Scanning
<1>2. at'[t] \in Reading
  BY DEF Scan, Go, ReadInv, ReadTypes, Reading
<1>3. ReadTypes'
  BY <1>1 DEF Scan, Go, ReadInv, ReadTypes, Words, Points, LookPoints, storage
<1>4. Quiet
  BY DEF Scan, Quiet, storage
<1>5. ASSUME NEW u \in Threads, u # t PROVE Undisturbed(u)
  BY <1>5 DEF Scan, Go, ReadInv, ReadTypes, Undisturbed
<1>6. /\ seen' = seen /\ want' = want /\ word' = word /\ bank' = bank
  BY DEF Scan, storage
<1>7. /\ \A j : Entry(t, j)' = Entry(t, j)
      /\ \A e : Sought(t, e)' <=> Sought(t, e)
  BY <1>6 DEF Entry, Sought
<1>8. Behind(t)'
  BY <1>1, <1>6 DEF Behind, ReadInv, Reading
<1>9. CASE seen[t].gen # word.gen
  <2>1. Scanning(t)'
    <3>1. CASE at'[t] = "scan"
      <4>1. pos[t] # Capacity /\ pos'[t] = pos[t] + 1
        BY <1>1, <3>1 DEF Scan, Go, ReadInv, ReadTypes
      <4>2. pos'[t] \in Slots
        BY <1>1, <4>1, SlotsFromOne DEF Slots
      <4>. QED BY <1>6, <1>9, <4>2 DEF Scanning, Slots
    <3>. QED BY <3>1 DEF Scanning
  <2>2. Accepting(t)'
    BY <1>1, <1>6, <1>9 DEF Scan, Go, ReadInv, ReadTypes, Accepting
  <2>. QED BY <1>3, <1>4, <1>5, <1>8, <2>1, <2>2, QuietStep DEF ReadInv
<1>10. CASE seen[t].gen = word.gen
  <2>1. /\ seen[t] = word /\ found[t] = Free
        /\ \A j \in Slots : j < pos[t] => ~Sought(t, Entry(t, j))
    BY <1>1, <1>10 DEF ReadInv, Scanning
  <2>2. bank[seen[t].bank][want[t].kind][pos[t]] = Entry(t, pos[t])
    BY <2>1 DEF Entry
  <2>3. CASE Sought(t, Entry(t, pos[t]))
    <3>1. at'[t] = "recheck" /\ found'[t] = Entry(t, pos[t]) /\ pos'[t] = 1
      BY <2>2, <2>3 DEF Scan, Go, ReadInv, ReadTypes
    <3>2. Entry(t, pos[t]) # Free
      BY <2>3 DEF Sought
    <3>3. Scanning(t)' /\ Accepting(t)'
      BY <1>1, <1>6, <1>7, <2>1, <2>3, <3>1, <3>2 DEF Scanning, Accepting, Slots, Free
    <3>. QED BY <1>3, <1>4, <1>5, <1>8, <3>3, QuietStep DEF ReadInv
  <2>4. CASE ~Sought(t, Entry(t, pos[t]))
    <3>1. found'[t] = Free
      BY <2>1, <2>2, <2>4 DEF Scan, ReadInv, ReadTypes
    <3>2. CASE pos[t] = Capacity
      <4>1. at'[t] = "recheck" /\ pos'[t] = 1
        BY <3>2 DEF Scan, Go, ReadInv, ReadTypes
      <4>2. \A j \in Slots : ~Sought(t, Entry(t, j))
        BY <2>1, <2>4, <3>2, SlotsFromOne DEF Slots
      <4>3. Scanning(t)' /\ Accepting(t)'
        BY <1>6, <1>7, <2>1, <3>1, <4>1, <4>2 DEF Scanning, Accepting, Slots, Free
      <4>. QED BY <1>3, <1>4, <1>5, <1>8, <4>3, QuietStep DEF ReadInv
    <3>3. CASE pos[t] # Capacity
      <4>1. at'[t] = "scan" /\ pos'[t] = pos[t] + 1
        BY <2>2, <2>4, <3>3 DEF Scan, Go, ReadInv, ReadTypes
      <4>2. pos'[t] \in Slots
        BY <1>1, <3>3, <4>1, SlotsFromOne DEF Slots
      <4>3. \A j \in Slots : j < pos'[t] => ~Sought(t, Entry(t, j))
        BY <1>1, <2>1, <2>4, <4>1, SlotsFromOne DEF Slots
      <4>4. Scanning(t)' /\ Accepting(t)'
        BY <1>6, <1>7, <2>1, <3>1, <4>1, <4>2, <4>3 DEF Scanning, Accepting, Slots, Free
      <4>. QED BY <1>3, <1>4, <1>5, <1>8, <4>4, QuietStep DEF ReadInv
    <3>. QED BY <3>2, <3>3
  <2>. QED BY <2>3, <2>4
<1>. QED BY <1>9, <1>10

LEMMA RecheckStep ==
  ASSUME ReadInv, NEW t \in Threads, Recheck(t)
  PROVE  ReadInv'
<1>1. at[t] = "recheck" /\ pos[t] = 1
  BY DEF Recheck, ReadInv, Accepting
<1>2. ReadTypes'
  BY DEF Recheck, Go, Start, ReadInv, ReadTypes, Words, Points, Places, LookPoints, storage
<1>3. Quiet
  BY DEF Recheck, Quiet, storage
<1>4. ASSUME NEW u \in Threads, u # t PROVE Undisturbed(u)
  BY <1>4 DEF Recheck, Go, ReadInv, ReadTypes, Undisturbed
<1>5. CASE word = seen[t]
  <2>1. at'[t] \notin Reading
    BY <1>5 DEF Recheck, Go, ReadInv, ReadTypes, Reading
  <2>. QED BY <1>2, <1>3, <1>4, <2>1, QuietStep DEF ReadInv, Undisturbed
<1>6. CASE word # seen[t]
  <2>1. at'[t] = "scan" /\ seen'[t] = word /\ found'[t] = Free /\ pos'[t] = 1 /\ word' = word
    BY <1>1, <1>3, <1>6 DEF Recheck, Go, ReadInv, ReadTypes, Quiet
  <2>2. \A j \in Slots : ~(j < 1)
    BY SlotsFromOne
  <2>3. (Behind(t) /\ Scanning(t) /\ Accepting(t))'
    BY <2>1, <2>2, SlotsFromOne
    DEF Behind, Scanning, Accepting, ReadInv, ReadTypes, Words, Slots, Free
  <2>. QED BY <1>2, <1>3, <1>4, <2>3, QuietStep DEF ReadInv
<1>. QED BY <1>5, <1>6

-----------------------------------------------------------------------------
(* Steps of writers.                                                       *)

(* A thread that does not read moves on, the maps in force are left alone. *)
Writes(t) ==
  /\ \E x \in Points \ Reading : at' = [at EXCEPT ![t] = x]
  /\ word' = word /\ want' = want /\ seen' = seen /\ found' = found
  /\ DOMAIN bank' = {0, 1} /\ bank'[word.bank] = bank[word.bank]
  /\ pos' \in [Threads -> Nat] /\ \A u \in Threads : u # t => pos'[u] = pos[u]
  /\ then' \in [Threads -> Places]

LEMMA QuietWrite ==
  ASSUME ReadInv, NEW t \in Threads, Writes(t)
  PROVE  ReadInv'
<1>1. PICK x \in Points \ Reading : at' = [at EXCEPT ![t] = x]
  BY DEF Writes
<1>2. ReadTypes'
  BY <1>1 DEF Writes, ReadInv, ReadTypes, Places
<1>3. Quiet
  BY DEF Writes, Quiet
<1>4. \A u \in Threads : Undisturbed(u)
  BY <1>1 DEF Writes, Undisturbed, ReadInv, ReadTypes
<1>. QED BY <1>2, <1>3, <1>4, QuietStep DEF ReadInv

(* The inactive bank is another one than the bank in force.                *)
LEMMA OtherBank ==
  ASSUME ReadTypes, NEW k, NEW i, NEW e, bank' = [bank EXCEPT ![Inactive][k][i] = e]
  PROVE  DOMAIN bank' = {0, 1} /\ bank'[word.bank] = bank[word.bank]
<1>1. word.bank \in {0, 1} /\ Inactive \in {0, 1} /\ Inactive # word.bank
  BY DEF ReadTypes, Words, Inactive
<1>. QED BY <1>1 DEF ReadTypes

LEMMA RecoverySteps ==
  ASSUME ReadInv, NEW t \in Threads,
         \/ TakeLock(t) \/ Mirror(t) \/ Mirrored(t) \/ NothingToRepair(t) \/ RepairForward(t)
         \/ RepairBack(t) \/ RepairPoisons(t) \/ Clear(t)
  PROVE  ReadInv'
<1>. USE DEF Go, End, Points, LookPoints, LockedPoints, Reading, Places, storage, hostVars
<1>1. CASE TakeLock(t)
  BY <1>1, QuietWrite DEF TakeLock, Writes, ReadInv, ReadTypes
<1>2. CASE Mirror(t)
  <2>1. DOMAIN bank' = {0, 1} /\ bank'[word.bank] = bank[word.bank]
    BY <1>2, OtherBank DEF Mirror, ReadInv
  <2>2. at' = [at EXCEPT ![t] = "mirror"]
    BY <1>2 DEF Mirror, ReadInv, ReadTypes
  <2>3. /\ word' = word /\ want' = want /\ seen' = seen /\ found' = found /\ then' = then
        /\ pos' = [pos EXCEPT ![t] = @ + 1]
    BY <1>2 DEF Mirror
  <2>4. pos' \in [Threads -> Nat] /\ \A u \in Threads : u # t => pos'[u] = pos[u]
    BY <2>3 DEF ReadInv, ReadTypes
  <2>5. \E x \in Points \ Reading : at' = [at EXCEPT ![t] = x]
    BY <2>2
  <2>6. then' \in [Threads -> Places]
    BY <2>3 DEF ReadInv, ReadTypes
  <2>7. Writes(t)
    BY <2>1, <2>3, <2>4, <2>5, <2>6 DEF Writes
  <2>. QED BY <2>7, QuietWrite
<1>3. CASE Mirrored(t)
  BY <1>3, QuietWrite DEF Mirrored, Writes, ReadInv, ReadTypes
<1>4. CASE NothingToRepair(t)
  BY <1>4, QuietWrite DEF NothingToRepair, Recovered, Writes, ReadInv, ReadTypes
<1>5. CASE RepairForward(t)
  BY <1>5, QuietWrite DEF RepairForward, Writes, ReadInv, ReadTypes
<1>6. CASE RepairBack(t)
  BY <1>6, QuietWrite DEF RepairBack, Writes, ReadInv, ReadTypes
<1>7. CASE RepairPoisons(t)
  BY <1>7, QuietWrite DEF RepairPoisons, Writes, ReadInv, ReadTypes
<1>8. CASE Clear(t)
  BY <1>8, QuietWrite DEF Clear, Recovered, Writes, ReadInv, ReadTypes
<1>. QED BY <1>1, <1>2, <1>3, <1>4, <1>5, <1>6, <1>7, <1>8

LEMMA TransactionSteps ==
  ASSUME ReadInv, NEW t \in Threads,
         Stage(t) \/ StageFails(t) \/ Store(t) \/ Fail(t) \/ Unlock(t)
  PROVE  ReadInv'
<1>. USE DEF Go, End, Points, LookPoints, LockedPoints, Reading, Places, storage, hostVars
<1>1. CASE Stage(t)
  BY <1>1, QuietWrite DEF Stage, Writes, ReadInv, ReadTypes
<1>2. CASE StageFails(t)
  BY <1>2, QuietWrite DEF StageFails, Writes, ReadInv, ReadTypes
<1>3. CASE Store(t)
  <2>1. DOMAIN bank' = {0, 1} /\ bank'[word.bank] = bank[word.bank]
    BY <1>3, OtherBank DEF Store, ReadInv
  <2>2. at' = [at EXCEPT ![t] = "stage"] \/ at' = [at EXCEPT ![t] = "commit"]
    BY <1>3 DEF Store
  <2>3. /\ word' = word /\ want' = want /\ seen' = seen /\ found' = found /\ then' = then
        /\ pos' = [pos EXCEPT ![t] = @ + 1]
    BY <1>3 DEF Store
  <2>. QED BY <2>1, <2>2, <2>3, QuietWrite DEF Writes, ReadInv, ReadTypes
<1>4. CASE Fail(t)
  BY <1>4, QuietWrite DEF Fail, Writes, ReadInv, ReadTypes
<1>5. CASE Unlock(t)
  BY <1>5, QuietWrite DEF Unlock, Writes, ReadInv, ReadTypes
<1>. QED BY <1>1, <1>2, <1>3, <1>4, <1>5

LEMMA CommitStep ==
  ASSUME ReadInv, NEW t \in Threads, Commit(t)
  PROVE  ReadInv'
<1>1. word' \in Words
  BY DEF Commit, Inactive, ReadInv, ReadTypes, Words
<1>2. ReadTypes'
  BY <1>1 DEF Commit, Go, ReadInv, ReadTypes, Points, LockedPoints, Places
<1>. QED BY <1>2, FlipStep DEF ReadInv

LEMMA RequestSteps ==
  ASSUME ReadInv, NEW t \in Threads,
         \/ JoinAgain(t) \/ JoinNew(t) \/ Publish(t) \/ Announce(t)
         \/ HostCall(t) \/ HostRefuses(t) \/ Reap(t)
  PROVE  ReadInv'
<1>. USE DEF Go, End, Apply, Points, LookPoints, LockedPoints, Reading, Places, storage,
             hostVars
<1>1. CASE JoinAgain(t)
  BY <1>1, QuietWrite DEF JoinAgain, Writes, ReadInv, ReadTypes
<1>2. CASE JoinNew(t)
  <2>1. /\ at' = [at EXCEPT ![t] = "stage"] /\ then' = then /\ pos' = pos
        /\ UNCHANGED <<word, bank, want, seen, found>>
    BY <1>2 DEF JoinNew
  <2>. QED BY <2>1, QuietWrite DEF Writes, ReadInv, ReadTypes
<1>3. CASE Publish(t)
  BY <1>3, QuietWrite DEF Publish, Writes, ReadInv, ReadTypes
<1>4. CASE Announce(t)
  <2>1. \/ at' = [at EXCEPT ![t] = "unlock"]
        \/ at' = [at EXCEPT ![t] = "host"]
    BY <1>4 DEF Announce
  <2>. QED BY <1>4, <2>1, QuietWrite DEF Announce, Writes, ReadInv, ReadTypes
<1>5. CASE HostCall(t)
  BY <1>5, QuietWrite DEF HostCall, Writes, ReadInv, ReadTypes
<1>6. CASE HostRefuses(t)
  BY <1>6, QuietWrite DEF HostRefuses, Writes, ReadInv, ReadTypes
<1>7. CASE Reap(t)
  <2>1. \/ at' = [at EXCEPT ![t] = "unlock"]
        \/ at' = [at EXCEPT ![t] = "stage"]
    BY <1>7 DEF Reap
  <2>. QED BY <1>7, <2>1, QuietWrite DEF Reap, Writes, ReadInv, ReadTypes
<1>. QED BY <1>1, <1>2, <1>3, <1>4, <1>5, <1>6, <1>7

LEMMA RegistryStep ==
  ASSUME ReadInv, NEW t \in Threads, Registry(t)
  PROVE  ReadInv'
  BY LookStep, ScanStep, RecheckStep, RecoverySteps, TransactionSteps, CommitStep, RequestSteps
  DEF Registry, Step

-----------------------------------------------------------------------------
(* Steps of the guest's calls.                                             *)

LEMMA TurnStep ==
  ASSUME ReadInv, NEW t, NEW x \in {"lock", "look", "idle"}, NEW r, NEW w,
         Turn(t, x, r, w)
  PROVE  ReadInv'
<1>1. ReadTypes'
  BY DEF Turn, Go, Points, LookPoints, ReadInv, ReadTypes, storage
<1>2. Quiet
  BY DEF Turn, Quiet, storage
<1>3. \A u \in Threads : Undisturbed(u)
  BY DEF Turn, Go, Undisturbed, Reading, ReadInv, ReadTypes
<1>. QED BY <1>1, <1>2, <1>3, QuietStep DEF ReadInv

LEMMA AskStep ==
  ASSUME ReadInv, NEW t, NEW r, Ask(t, r)
  PROVE  ReadInv'
  BY TurnStep DEF Ask
LEMMA LookUpStep ==
  ASSUME ReadInv, NEW t \in Threads, NEW r, NEW w, LookUp(t, r, w)
  PROVE  ReadInv'
  BY TurnStep DEF LookUp
LEMMA FinishStep ==
  ASSUME ReadInv, NEW t \in Threads, Finish(t)
  PROVE  ReadInv'
  BY TurnStep DEF Finish

LEMMA BeginStep ==
  ASSUME ReadInv, NEW t \in Threads, Begin(t)
  PROVE  ReadInv'
<1>1. ReadTypes'
  BY DEF Begin, Points, ReadInv, ReadTypes, storage
<1>2. Quiet
  BY DEF Begin, Quiet, storage
<1>3. \A u \in Threads : Undisturbed(u)
  BY DEF Begin, Undisturbed, Reading, ReadInv, ReadTypes
<1>. QED BY <1>1, <1>2, <1>3, QuietStep DEF ReadInv

LEMMA StopStep ==
  ASSUME ReadInv, NEW over, NEW reaped, NEW resting, Ends(over, reaped), Stops(over, resting)
  PROVE  ReadInv'
<1>1. ReadTypes'
  <2>1. at' \in [Threads -> Points] /\ then' \in [Threads -> Places] /\ pos' \in [Threads -> Nat]
    BY DEF Stops, Points, Places, ReadInv, ReadTypes
  <2>2. seen' \in [Threads -> Words]
    BY DEF Stops, Start, Words, ReadInv, ReadTypes
  <2>3. DOMAIN want' = Threads /\ DOMAIN found' = Threads
    BY DEF Stops
  <2>4. word' = word /\ bank' = bank
    BY DEF Ends, storage
  <2>. QED BY <2>1, <2>2, <2>3, <2>4 DEF ReadInv, ReadTypes, Places
<1>2. Quiet
  BY DEF Ends, Quiet, storage
<1>3. ASSUME NEW u \in Threads PROVE Undisturbed(u)
  BY DEF Stops, Undisturbed, Reading, ReadInv, ReadTypes
<1>. QED BY <1>1, <1>2, <1>3, QuietStep DEF ReadInv

LEMMA ForkStep ==
  ASSUME ReadInv, NEW t \in Threads, NEW c \in Procs, Fork(t, c)
  PROVE  ReadInv'
<1>1. ReadTypes'
  BY DEF Fork, Points, ReadInv, ReadTypes
<1>2. Quiet
  BY DEF Fork, Quiet
<1>3. \A u \in Threads : Undisturbed(u)
  BY DEF Fork, Undisturbed, Reading, ReadInv, ReadTypes
<1>. QED BY <1>1, <1>2, <1>3, QuietStep DEF ReadInv

LEMMA LifeSteps ==
  ASSUME ReadInv,
         \/ \E p \in Procs, g, s \in Hosts : Launch(p, g, s)
         \/ \E p \in Procs : Exit(p) \/ Kill(p)
         \/ \E t \in Threads :
              \/ Joined(t) \/ JoinFailed(t) \/ ChildPublished(t) \/ ParentPublished(t)
              \/ ChildAbandoned(t) \/ ParentAbandons(t)
  PROVE  ReadInv'
<1>1. CASE \E p \in Procs, g, s \in Hosts : Launch(p, g, s)
  BY <1>1, AskStep DEF Launch
<1>2. CASE \E p \in Procs : Exit(p) \/ Kill(p)
  BY <1>2, StopStep DEF Exit, Kill, Dies
<1>3. ASSUME NEW t \in Threads, Joined(t) \/ ChildPublished(t) PROVE ReadInv'
  BY <1>3, BeginStep DEF Joined, ChildPublished
<1>4. ASSUME NEW t \in Threads, JoinFailed(t) \/ ChildAbandoned(t) PROVE ReadInv'
  BY <1>4, StopStep DEF JoinFailed, ChildAbandoned, Dies
<1>5. ASSUME NEW t \in Threads, ParentPublished(t) PROVE ReadInv'
  BY <1>5, FinishStep DEF ParentPublished
<1>6. ASSUME NEW t \in Threads, ParentAbandons(t) PROVE ReadInv'
  BY <1>6, StopStep DEF ParentAbandons
<1>. QED BY <1>1, <1>2, <1>3, <1>4, <1>5, <1>6

LEMMA CallSteps ==
  ASSUME ReadInv, NEW t \in Threads,
         \/ \E c \in Procs : Fork(t, c) \/ Wait(t, c)
         \/ \E a0, a1 \in {0} \union Guests : SetPgid(t, a0, a1)
         \/ Resolved(t) \/ ResolvedGroup(t) \/ Unresolved(t)
         \/ SetSid(t) \/ AskGroup(t) \/ Waited(t) \/ Return(t)
  PROVE  ReadInv'
<1>1. CASE \E c \in Procs : Fork(t, c)
  BY <1>1, ForkStep
<1>2. CASE \E c \in Procs : Wait(t, c)
  BY <1>2, LookUpStep DEF Wait
<1>3. CASE \E a0, a1 \in {0} \union Guests : SetPgid(t, a0, a1)
  BY <1>3, LookUpStep, AskStep DEF SetPgid
<1>4. CASE Resolved(t)
  BY <1>4, LookUpStep, AskStep DEF Resolved
<1>5. CASE ResolvedGroup(t)
  BY <1>5, AskStep DEF ResolvedGroup
<1>6. CASE Unresolved(t)
  BY <1>6, FinishStep DEF Unresolved
<1>7. CASE SetSid(t)
  BY <1>7, AskStep DEF SetSid
<1>8. CASE AskGroup(t)
  BY <1>8, LookUpStep DEF AskGroup
<1>9. CASE Waited(t)
  BY <1>9, AskStep DEF Waited
<1>10. CASE Return(t)
  BY <1>10, FinishStep DEF Return
<1>. QED
  BY <1>1, <1>2, <1>3, <1>4, <1>5, <1>6, <1>7, <1>8, <1>9, <1>10

LEMMA StutterStep == ReadInv /\ UNCHANGED vars => ReadInv'
<1>. SUFFICES ASSUME ReadInv, UNCHANGED vars PROVE ReadInv'
  OBVIOUS
<1>1. UNCHANGED <<word, bank, at, then, pos, seen, want, found>>
  BY DEF vars, registryVars, storage, locals
<1>2. ReadTypes' /\ Quiet /\ \A u \in Threads : Undisturbed(u)
  BY <1>1 DEF ReadInv, ReadTypes, Quiet, Undisturbed
<1>. QED BY <1>2, QuietStep DEF ReadInv

-----------------------------------------------------------------------------
(* What the reader of pidmap_checked knows, as an invariant of every       *)
(* behaviour: passed slots are those of the bank in force as long as its   *)
(* commit word is.                                                         *)
THEOREM ReadInvariance == Spec => []ReadInv
<1>1. Init => ReadInv
  <2>. SUFFICES ASSUME Init PROVE ReadInv
    OBVIOUS
  <2>1. ReadTypes
    BY DEF Init, RegistryInit, ReadTypes, Words, Start, Points, Places
  <2>2. \A t \in Threads : at[t] = "dead"
    BY DEF Init, RegistryInit
  <2>. QED BY <2>1, <2>2 DEF ReadInv, Behind, Scanning, Accepting, Reading
<1>2. ReadInv /\ [Next]_vars => ReadInv'
  BY StutterStep, LifeSteps, RegistryStep, CallSteps DEF Next
<1>. QED BY <1>1, <1>2, PTL DEF Spec

(* pidmap_checked takes no lock and starts again when the commit word has  *)
(* moved: the answer it accepts is the one of the maps published then, for *)
(* every number of processes, threads, slots and calls, whoever dies.      *)
THEOREM ReadsAreCurrent == Spec => []ReadIsCurrent
<1>1. ReadInv => ReadIsCurrent
  <2>. SUFFICES ASSUME ReadInv, NEW t \in Threads, at[t] = "recheck", seen[t] = word
       PROVE  IF found[t] = Free THEN Answers(want[t]) = {} ELSE found[t] \in Answers(want[t])
    BY DEF ReadIsCurrent
  <2>1. /\ found[t] = Free => \A j \in Slots : ~Sought(t, Entry(t, j))
        /\ found[t] # Free =>
             \E j \in Slots : found[t] = Entry(t, j) /\ Sought(t, Entry(t, j))
    BY DEF ReadInv, Accepting
  <2>2. \A j \in Slots : Entry(t, j) = Live(want[t].kind)[j]
    BY DEF Entry, Live, Active
  <2>3. \A e : e \in Answers(want[t]) <=> \E j \in Slots : e = Entry(t, j) /\ Sought(t, e)
    BY <2>2 DEF Answers, Entries, Sought
  <2>. QED BY <2>1, <2>3
<1>. QED BY <1>1, ReadInvariance, PTL

-----------------------------------------------------------------------------
(* Recovery: what every state keeps, whoever has died.                     *)

Numbers == Nat \ {0}
Members(k) == IF k = "pid" THEN Procs ELSE Hosts
SomeHost == Hosts \union {Nobody}
EntryOf(k) == {Free} \union [guest : Numbers, host : Members(k)]
AnyEntry == {Free} \union [guest : Numbers, host : Hosts]
AnyUpdate == {u \in [kind : Kinds, guest : Numbers, host : SomeHost] :
                u.host = Nobody \/ u.host \in Members(u.kind)}
Ops == {"none", "join", "publish", "setpgid", "setsid", "reap",
        "resolve", "resolveGroup", "getpgid", "waited"}
AnyRequest == [op : Ops, proc : Procs \union {Nobody}, guest : Nat, group : SomeHost,
               name : Nat, made : BOOLEAN]
Announced == [op : {"setpgid", "setsid"}, proc : Procs, guest : Numbers, group : Hosts,
              name : Numbers, oldGroup : Hosts, oldSession : Hosts]

StorageTypes ==
  /\ word \in Words
  /\ bank \in [{0, 1} -> [Kinds -> [Slots -> AnyEntry]]]
  /\ \A b \in {0, 1}, i \in Slots : bank[b]["pid"][i] \in EntryOf("pid")
  /\ journal \in Seq([kind : Kinds, slot : Slots])
  /\ next \in [Kinds -> Numbers]
  /\ semantic \in Announced \union {NoSemantic}
  /\ poisoned \in BOOLEAN
HostTypes ==
  /\ st \in [Procs -> {"unborn", "live", "zombie", "gone"}]
  /\ pgrp \in [Procs -> SomeHost] /\ sess \in [Procs -> SomeHost]
  /\ parent \in [Procs -> Procs \union {Nobody}]
  /\ self \in [Procs -> Nat]
  /\ \A p \in Procs : Exists(p) => pgrp[p] \in Hosts /\ sess[p] \in Hosts
LocalTypes ==
  /\ at \in [Threads -> Points] /\ then \in [Threads -> Places]
  /\ pos \in [Threads -> Numbers] /\ todo \in [Threads -> Seq(AnyUpdate)]
  /\ req \in [Threads -> AnyRequest] /\ ok \in [Threads -> BOOLEAN]
  /\ DOMAIN want = Threads /\ seen \in [Threads -> Words]
  /\ found \in [Threads -> AnyEntry]
  /\ \A t \in Threads : want[t].kind \in Kinds

(* A thread runs in a living process, which knows its number unless it is  *)
(* being started; then no other thread of it runs.                         *)
Starting(t) ==
  at[t] # "dead" /\ (req[t].op = "join" \/ (req[t].op = "publish" /\ req[t].proc = t[1]))
LifeInv ==
  /\ \A p \in Procs : self[p] # 0 => st[p] = "live"
  /\ \A t \in Threads :
       /\ at[t] # "dead" => st[t[1]] = "live"
       /\ at[t] # "dead" /\ ~Starting(t) => self[t[1]] # 0
       /\ Starting(t) => self[t[1]] = 0
       /\ Starting(t) => \A u \in Threads : u # t /\ u[1] = t[1] => at[u] = "dead"

(* The request a thread can have at each of its points.                    *)
Served == {"lock", "done"} \union LockedPoints
Asked(t) ==
  /\ at[t] \in Served => req[t].op \in {"join", "publish", "setpgid", "setsid", "reap"}
  /\ at[t] \in LookPoints => req[t].op \in {"resolve", "resolveGroup", "getpgid", "waited"}
  /\ at[t] \in {"idle", "dead"} => req[t] = NoRequest
  /\ at[t] = "host" => req[t].op \in {"setpgid", "setsid"}
  /\ req[t].made => req[t].op \in {"setpgid", "setsid"}
  /\ req[t].op = "join" => req[t].proc = t[1]
  /\ req[t].op \in {"publish", "setpgid", "setsid", "resolveGroup"} =>
       req[t].proc \in Procs /\ req[t].guest # 0
  /\ req[t].op \in {"waited", "reap"} => req[t].proc \in Procs
  /\ req[t].op \in {"setpgid", "setsid"} => req[t].group \in Hosts /\ req[t].name # 0
  /\ req[t].op = "setsid" =>
       req[t].proc = t[1] /\ req[t].group = t[1] /\ req[t].name = req[t].guest
  /\ req[t].op = "resolve" => req[t].guest # 0 /\ want[t] = Want("pid", FALSE, req[t].guest)
  /\ req[t].op = "resolveGroup" => req[t].name # 0 /\ want[t] = Want("pgid", FALSE, req[t].name)
(* What a lookup found is what it sought.                                  *)
Answered(t) ==
  /\ at[t] \in {"scan", "recheck", "looked"} /\ found[t] # Free =>
       Sought(t, found[t]) /\ found[t] \in EntryOf(want[t].kind)
  /\ at[t] = "look" => found[t] = Free
  /\ at[t] = "looked" /\ ok[t] => found[t] # Free

CallInv ==
  /\ StorageTypes /\ HostTypes /\ LocalTypes /\ LifeInv
  /\ \A t \in Threads : Asked(t) /\ Answered(t)

(* One thread at a time is between lock and unlock.                        *)
LockInv == \A t \in Threads : at[t] \in LockedPoints <=> lock = <<t>>

(* The bank that is not in force differs only in slots that are journaled  *)
(* and that a mirror pass has still to reach.                              *)
Mirrorable ==
  \A k \in Kinds, i \in Slots :
    \/ Staged(k)[i] = Live(k)[i]
    \/ \E j \in 1 .. Len(journal) :
         /\ journal[j] = [kind |-> k, slot |-> i]
         /\ \A t \in Threads : at[t] = "mirror" => pos[t] <= j

Applying == {"stage", "store", "commit"}
(* Where a transaction is.                                                 *)
Paced(t) ==
  /\ at[t] \in {"repair", "body", "host", "clear", "fail", "unlock"} =>
       journal = <<>> /\ pos[t] = 1
  /\ at[t] = "stage" => Len(journal) = pos[t] - 1 /\ pos[t] <= Len(todo[t])
  /\ at[t] = "store" =>
       /\ Len(journal) = pos[t] /\ pos[t] <= Len(todo[t])
       /\ SlotFor(todo[t][pos[t]]) \in Slots
       /\ journal[pos[t]] = [kind |-> todo[t][pos[t]].kind, slot |-> SlotFor(todo[t][pos[t]])]
  /\ at[t] = "commit" => pos[t] = Len(todo[t]) + 1 /\ Len(journal) = Len(todo[t])
  /\ at[t] \in Applying => \A j \in DOMAIN journal : journal[j].kind = todo[t][j].kind
  /\ todo[t] # <<>> => (at[t] \in Applying \union {"fail"} \/ (at[t] = "mirror" /\ then[t] = "fail"))
  /\ at[t] = "body" => semantic.op = "none"

(* No number is in two slots of a map.                                     *)
Unique(b) == \A i, j \in Slots : b[i].guest = b[j].guest /\ b[i].guest # 0 => i = j

(* The transactions there are.                                             *)
Distinct(s) ==
  \A i, j \in DOMAIN s : i # j => s[i].kind # s[j].kind \/ s[i].guest # s[j].guest
JoinList(t) ==
  /\ Len(todo[t]) = 3
  /\ todo[t][1] = Update("pid", req[t].guest, t[1])
  /\ todo[t][2] = Update("pgid", todo[t][2].guest, pgrp[t[1]])
  /\ todo[t][3] = Update("sid", todo[t][3].guest, sess[t[1]])
ReapList(t) ==
  /\ todo[t] # <<>> /\ todo[t][1].kind = "pid"
  /\ [guest |-> todo[t][1].guest, host |-> req[t].proc] \in Entries("pid")
  /\ \A j \in DOMAIN todo[t] :
       /\ todo[t][j].host = Nobody
       /\ j # 1 => todo[t][j].kind # "pid"
       /\ \E e \in Entries(todo[t][j].kind) : e.guest = todo[t][j].guest
Listed(t) ==
  \/ semantic.op # "none" /\ todo[t] = RepairUpdates
  \/ /\ semantic.op = "none"
     /\ \/ req[t].op = "join" /\ JoinList(t)
        \/ req[t].op = "publish" /\ todo[t] = <<Update("pid", req[t].guest, req[t].proc)>>
        \/ req[t].op = "reap" /\ ReapList(t)

(* What the bank not in force holds: the maps in force, changed by the     *)
(* updates that were stored.                                               *)
StagedEntries(k) == {Staged(k)[i] : i \in Slots} \ {Free}
Done(t, k) == {todo[t][j] : j \in {i \in 1 .. pos[t] - 1 : todo[t][i].kind = k}}
Applied(t, k) ==
  {e \in Entries(k) : \A u \in Done(t, k) : u.guest # e.guest}
    \union {[guest |-> u.guest, host |-> u.host] : u \in {v \in Done(t, k) : v.host # Nobody}}

BankInv ==
  /\ \A k \in Kinds : Unique(Live(k))
  /\ \A t \in Threads : at[t] \in Applying =>
       /\ Listed(t) /\ Distinct(todo[t])
       /\ \A k \in Kinds : Unique(Staged(k)) /\ StagedEntries(k) = Applied(t, k)

(* A call has not succeeded before its transaction is published, and a     *)
(* launch that has joined has a number.                                    *)
Undecided(t) ==
  \/ at[t] \in {"dead", "idle", "lock", "repair", "body", "host", "fail"} \union Applying
  \/ at[t] = "mirror" /\ then[t] \in {"repair", "fail"}
Clearing(t) == at[t] = "clear" \/ (at[t] = "mirror" /\ then[t] = "clear")
Earned(t) ==
  /\ Undecided(t) => ~ok[t]
  /\ req[t].op = "join" /\ ok[t] /\ ~Clearing(t) => req[t].guest # 0

RecoveryInv ==
  /\ LockInv /\ Mirrorable /\ BankInv
  /\ \A t \in Threads : Paced(t) /\ Earned(t)

-----------------------------------------------------------------------------
(* The least number of a set, and what the searches of the maps return.    *)

Smaller == {s \in Nat \X Nat : s[1] < s[2]}

(* A set of positions that is not empty has a least one.                   *)
LEMMA Least ==
  ASSUME NEW S, S \subseteq Nat, S # {}
  PROVE  \E n \in S : \A m \in S : n <= m
<1>1. IsWellFoundedOn(Smaller, Nat)
  BY NatLessThanWellFounded DEF OpToRel, Smaller
<1>2. PICK n \in S : \A m \in S : <<m, n>> \notin Smaller
  BY <1>1, WFMin
<1>3. ASSUME NEW m \in S PROVE n <= m
  <2>1. m \in Nat /\ n \in Nat
    OBVIOUS
  <2>2. ~(m < n)
    BY <1>2, <2>1 DEF Smaller
  <2>. QED BY <2>1, <2>2
<1>. QED BY <1>3

(* A set of numbers that has 0, and each number's successor up to a bound. *)
LEMMA Upwards ==
  ASSUME NEW S, NEW N \in Nat, 0 \in S, \A n \in Nat : n \in S /\ n < N => n + 1 \in S
  PROVE  N \in S
<1>. SUFFICES ASSUME N \notin S PROVE FALSE
  OBVIOUS
<1>. DEFINE Missing == {m \in 0 .. N : m \notin S}
<1>1. Missing \subseteq Nat /\ N \in Missing
  OBVIOUS
<1>2. \E n \in Missing : \A m \in Missing : n <= m
  <2>. HIDE DEF Missing
  <2>. QED BY <1>1, Least
<1>3. PICK n \in Missing : \A m \in Missing : n <= m
  BY <1>2
<1>4. n # 0 /\ n - 1 \in 0 .. N /\ ~(n <= n - 1)
  OBVIOUS
<1>5. n - 1 \in S /\ n - 1 < N /\ n - 1 + 1 = n
  BY <1>3, <1>4
<1>. QED BY <1>3, <1>5

(* map_find_guest and map_find_empty return the first slot that fits, or 0 *)
(* when none does.                                                         *)
LEMMA FirstIs ==
  ASSUME NEW I, I \subseteq Slots
  PROVE  /\ First(I) \in I \union {0}
         /\ First(I) = 0 <=> I = {}
<1>1. Slots \subseteq Nat /\ 0 \notin Slots
  BY DEF Slots
<1>2. CASE I = {}
  BY <1>2 DEF First
<1>3. CASE I # {}
  <2>1. \E i \in I : \A j \in I : i <= j
    BY <1>1, <1>3, Least
  <2>. QED BY <1>1, <1>3, <2>1 DEF First
<1>. QED BY <1>2, <1>3

(* The slot of a number, and the first empty slot.                         *)
LEMMA SlotOfGuestIs ==
  ASSUME NEW b, NEW g
  PROVE  \/ SlotOfGuest(b, g) \in Slots /\ b[SlotOfGuest(b, g)].guest = g
         \/ SlotOfGuest(b, g) = 0 /\ \A i \in Slots : b[i].guest # g
<1>. DEFINE I == {i \in Slots : b[i].guest = g}
<1>1. /\ First(I) \in I \union {0}
      /\ First(I) = 0 <=> I = {}
  BY FirstIs
<1>. QED BY <1>1 DEF SlotOfGuest

LEMMA EmptySlotIs ==
  ASSUME NEW b
  PROVE  \/ EmptySlot(b) \in Slots /\ b[EmptySlot(b)] = Free
         \/ EmptySlot(b) = 0 /\ \A i \in Slots : b[i] # Free
<1>. DEFINE I == {i \in Slots : b[i] = Free}
<1>1. /\ First(I) \in I \union {0}
      /\ First(I) = 0 <=> I = {}
  BY FirstIs
<1>. QED BY <1>1 DEF EmptySlot

(* A number in a map is never 0.                                           *)
LEMMA GuestOfHostIs ==
  ASSUME NEW k, NEW h, \A i \in Slots : Live(k)[i] = Free \/ Live(k)[i].guest # 0, h # Nobody
  PROVE  \/ /\ GuestOfHost(k, h) # 0
            /\ \E i \in Slots : Live(k)[i].host = h /\ GuestOfHost(k, h) = Live(k)[i].guest
         \/ /\ GuestOfHost(k, h) = 0
            /\ \A i \in Slots : Live(k)[i].host # h
<1>. DEFINE I == {i \in Slots : Live(k)[i].host = h}
<1>1. /\ First(I) \in I \union {0}
      /\ First(I) = 0 <=> I = {}
  BY FirstIs
<1>2. 0 \notin Slots
  BY DEF Slots
<1>3. CASE I = {}
  BY <1>1, <1>3 DEF GuestOfHost
<1>4. CASE I # {}
  <2>1. First(I) \in I /\ First(I) # 0
    BY <1>1, <1>4
  <2>2. GuestOfHost(k, h) = Live(k)[First(I)].guest
    BY <2>1 DEF GuestOfHost
  <2>3. First(I) \in Slots /\ Live(k)[First(I)].host = h
    BY <2>1
  <2>4. Live(k)[First(I)].guest # 0
    BY <2>3 DEF Free
  <2>. HIDE DEF I
  <2>. QED BY <2>2, <2>3, <2>4
<1>. QED BY <1>3, <1>4

-----------------------------------------------------------------------------
(* The groups and sessions that a reap removes are all there, each once.   *)
Removed(k, s) ==
  /\ s \in Seq(AnyUpdate)
  /\ \A j \in DOMAIN s :
       s[j].kind = k /\ s[j].host = Nobody /\ \E e \in Entries(k) : e.guest = s[j].guest
  /\ \A i, j \in DOMAIN s : i # j => s[i].guest # s[j].guest

(* hl_linux_identity_registry_reap removes entries of the maps only, each  *)
(* number once.                                                            *)
LEMMA RemovalsAre ==
  ASSUME NEW k \in Kinds, NEW removed, StorageTypes, Unique(Live(k))
  PROVE  Removed(k, Removals(k, removed))
<1>. DEFINE keeps(n) == Live(k)[n] = Free \/ Referenced(k, removed, Live(k)[n].host)
            step(v, n) == IF keeps(n) THEN v ELSE Append(v, Update(k, Live(k)[n].guest, Nobody))
            upTo[n \in Nat] ==
              IF n = 0 THEN <<>>
              ELSE IF Live(k)[n] = Free \/ Referenced(k, removed, Live(k)[n].host) THEN upTo[n - 1]
              ELSE Append(upTo[n - 1], Update(k, Live(k)[n].guest, Nobody))
<1>1. Removals(k, removed) = upTo[Capacity]
  BY DEF Removals
<1>2. \A n \in Nat : upTo[n] = IF n = 0 THEN <<>> ELSE step(upTo[n - 1], n)
  <2>1. NatInductiveDefHypothesis(upTo, <<>>, step)
    BY DEF NatInductiveDefHypothesis
  <2>2. NatInductiveDefConclusion(upTo, <<>>, step)
    BY <2>1, NatInductiveDef
  <2>. QED BY <2>2 DEF NatInductiveDefConclusion
<1>. HIDE DEF upTo
<1>. DEFINE P(n) ==
       /\ upTo[n] \in Seq(AnyUpdate)
       /\ \A j \in DOMAIN upTo[n] : \E i \in 1 .. n :
            Live(k)[i] # Free /\ upTo[n][j] = Update(k, Live(k)[i].guest, Nobody)
       /\ \A i, j \in DOMAIN upTo[n] : i # j => upTo[n][i].guest # upTo[n][j].guest
<1>3. P(0)
  <2>1. upTo[0] = <<>>
    BY <1>2
  <2>. QED BY <2>1
<1>4. ASSUME NEW n \in Nat, P(n), n < Capacity PROVE P(n + 1)
  <2>1. n + 1 \in Slots
    BY <1>4, SlotsFromOne DEF Slots
  <2>2. upTo[n + 1] = step(upTo[n], n + 1)
    BY <1>2
  <2>3. CASE keeps(n + 1)
    BY <1>4, <2>2, <2>3
  <2>4. CASE ~keeps(n + 1)
    <3>. DEFINE u == Update(k, Live(k)[n + 1].guest, Nobody)
    <3>1. Live(k)[n + 1] # Free /\ Live(k)[n + 1] \in AnyEntry
      BY <2>1, <2>4 DEF StorageTypes, Live, Active, Words
    <3>2. Live(k)[n + 1].guest \in Numbers
      BY <3>1 DEF AnyEntry
    <3>3. u \in AnyUpdate
      BY <3>2 DEF AnyUpdate, Update, SomeHost
    <3>4. upTo[n + 1] = Append(upTo[n], u)
      BY <2>2, <2>4
    <3>5. \A j \in DOMAIN upTo[n] : upTo[n][j].guest # u.guest
      <4>. SUFFICES ASSUME NEW j \in DOMAIN upTo[n] PROVE upTo[n][j].guest # u.guest
        OBVIOUS
      <4>1. PICK i \in 1 .. n : Live(k)[i] # Free /\ upTo[n][j] = Update(k, Live(k)[i].guest, Nobody)
        BY <1>4
      <4>2. i \in Slots /\ i # n + 1
        BY <1>4, SlotsFromOne DEF Slots
      <4>3. Live(k)[i].guest # Live(k)[n + 1].guest
        BY <2>1, <3>2, <4>2 DEF Unique, Numbers
      <4>. QED BY <4>1, <4>3 DEF Update
    <3>. HIDE DEF step, keeps, u
    <3>6. upTo[n + 1] \in Seq(AnyUpdate)
      BY <1>4, <3>3, <3>4
    <3>7. DOMAIN upTo[n + 1] = DOMAIN upTo[n] \union {Len(upTo[n]) + 1}
      BY <1>4, <3>3, <3>4
    <3>8. \A j \in DOMAIN upTo[n] : upTo[n + 1][j] = upTo[n][j]
      BY <1>4, <3>3, <3>4
    <3>9. upTo[n + 1][Len(upTo[n]) + 1] = u
      BY <1>4, <3>3, <3>4
    <3>10. 1 .. n \subseteq 1 .. n + 1 /\ n + 1 \in 1 .. n + 1
      OBVIOUS
    <3>11. \A j \in DOMAIN upTo[n + 1] : \E i \in 1 .. n + 1 :
             Live(k)[i] # Free /\ upTo[n + 1][j] = Update(k, Live(k)[i].guest, Nobody)
      BY <1>4, <3>1, <3>7, <3>8, <3>9, <3>10 DEF u
    <3>12. \A i, j \in DOMAIN upTo[n + 1] : i # j => upTo[n + 1][i].guest # upTo[n + 1][j].guest
      BY <1>4, <3>5, <3>7, <3>8, <3>9
    <3>. QED BY <3>6, <3>11, <3>12
  <2>. QED BY <2>3, <2>4
<1>5. P(Capacity)
  <2>. HIDE DEF P
  <2>. DEFINE S == {n \in Nat : P(n)}
  <2>1. 0 \in S /\ Capacity \in Nat
    BY <1>3, SlotsFromOne
  <2>2. \A n \in Nat : n \in S /\ n < Capacity => n + 1 \in S
    BY <1>4
  <2>. HIDE DEF S
  <2>3. Capacity \in S
    BY <2>1, <2>2, Upwards
  <2>. QED BY <2>3 DEF S
<1>6. \A i \in 1 .. Capacity : Live(k)[i] # Free => Live(k)[i] \in Entries(k)
  BY DEF Entries, Slots
<1>. HIDE DEF P
<1>7. \A j \in DOMAIN upTo[Capacity] :
        /\ upTo[Capacity][j].kind = k /\ upTo[Capacity][j].host = Nobody
        /\ \E e \in Entries(k) : e.guest = upTo[Capacity][j].guest
  <2>. SUFFICES ASSUME NEW j \in DOMAIN upTo[Capacity]
       PROVE  /\ upTo[Capacity][j].kind = k /\ upTo[Capacity][j].host = Nobody
              /\ \E e \in Entries(k) : e.guest = upTo[Capacity][j].guest
    OBVIOUS
  <2>1. PICK i \in 1 .. Capacity :
          Live(k)[i] # Free /\ upTo[Capacity][j] = Update(k, Live(k)[i].guest, Nobody)
    BY <1>5 DEF P
  <2>2. Live(k)[i] \in Entries(k)
    BY <1>6, <2>1
  <2>. QED BY <2>1, <2>2 DEF Update
<1>. QED BY <1>1, <1>5, <1>7 DEF P, Removed

-----------------------------------------------------------------------------
(* The types, and the requests of the threads.                             *)

(* A thread that serves its request moves on; the request keeps what it is *)
(* about.                                                                  *)
Serves(t) ==
  /\ at[t] \in {"lock"} \union LockedPoints
  /\ at' = [at EXCEPT ![t] = at'[t]] /\ at'[t] \in {"done"} \union LockedPoints
  /\ at'[t] = "host" => req[t].op \in {"setpgid", "setsid"}
  /\ \/ req' = req
     \/ req[t].op \in {"setpgid", "setsid"} /\ req' = [req EXCEPT ![t].made = TRUE]
     \/ \E g \in Nat : req[t].op = "join" /\ req' = [req EXCEPT ![t].guest = g]
  /\ UNCHANGED <<st, self, want, seen, found>>
  /\ ok' \in [Threads -> BOOLEAN] /\ \A u \in Threads : u # t => ok'[u] = ok[u]
  /\ then' \in [Threads -> Places] /\ pos' \in [Threads -> Numbers]
  /\ todo' \in [Threads -> Seq(AnyUpdate)]

(* A step of the registry for a thread: what it may do to the requests,    *)
(* and to the locals of its thread.                                        *)
LEMMA ServesRequest ==
  ASSUME CallInv, NEW t \in Threads, Serves(t)
  PROVE  /\ req' \in [Threads -> AnyRequest]
         /\ \A u \in Threads : u # t => req'[u] = req[u]
         /\ \A u \in Threads :
              /\ req'[u].op = req[u].op /\ req'[u].proc = req[u].proc
              /\ req'[u].group = req[u].group /\ req'[u].name = req[u].name
              /\ req'[u].guest = req[u].guest \/ req[u].op = "join"
              /\ req'[u].made => req[u].made \/ req[u].op \in {"setpgid", "setsid"}
<1>1. req \in [Threads -> AnyRequest]
  BY DEF CallInv, LocalTypes
<1>2. CASE req' = req
  BY <1>1, <1>2
<1>3. CASE req[t].op \in {"setpgid", "setsid"} /\ req' = [req EXCEPT ![t].made = TRUE]
  BY <1>1, <1>3 DEF AnyRequest
<1>4. ASSUME NEW g \in Nat, req[t].op = "join", req' = [req EXCEPT ![t].guest = g]
      PROVE  /\ req' \in [Threads -> AnyRequest]
             /\ \A u \in Threads : u # t => req'[u] = req[u]
             /\ \A u \in Threads :
                  /\ req'[u].op = req[u].op /\ req'[u].proc = req[u].proc
                  /\ req'[u].group = req[u].group /\ req'[u].name = req[u].name
                  /\ req'[u].guest = req[u].guest \/ req[u].op = "join"
                  /\ req'[u].made => req[u].made \/ req[u].op \in {"setpgid", "setsid"}
  BY <1>1, <1>4 DEF AnyRequest
<1>. QED BY <1>2, <1>3, <1>4 DEF Serves

LEMMA ServesLocals ==
  ASSUME CallInv, NEW t \in Threads, Serves(t)
  PROVE  LocalTypes' /\ LifeInv' /\ \A u \in Threads : Asked(u)' /\ Answered(u)'
<1>1. PICK x \in {"done"} \union LockedPoints :
        at' = [at EXCEPT ![t] = x] /\ (x = "host" => req[t].op \in {"setpgid", "setsid"})
  BY DEF Serves
<1>2. /\ req' \in [Threads -> AnyRequest]
      /\ \A u \in Threads : u # t => req'[u] = req[u]
      /\ \A u \in Threads :
           /\ req'[u].op = req[u].op /\ req'[u].proc = req[u].proc
           /\ req'[u].group = req[u].group /\ req'[u].name = req[u].name
           /\ req'[u].guest = req[u].guest \/ req[u].op = "join"
           /\ req'[u].made => req[u].made \/ req[u].op \in {"setpgid", "setsid"}
  BY ServesRequest
<1>3. at \in [Threads -> Points] /\ at[t] # "dead" /\ x # "dead"
  BY DEF CallInv, LocalTypes, Serves, LockedPoints
<1>4. LocalTypes'
  BY <1>1, <1>2 DEF Serves, CallInv, LocalTypes, Points
<1>5. \A u \in Threads : (at'[u] # "dead" <=> at[u] # "dead") /\ (Starting(u)' <=> Starting(u))
  BY <1>1, <1>2, <1>3 DEF Starting
<1>6. LifeInv'
  BY <1>5 DEF Serves, CallInv, LifeInv
<1>7. ASSUME NEW u \in Threads PROVE Asked(u)' /\ Answered(u)'
  <2>1. Asked(u) /\ Answered(u) /\ want' = want /\ found' = found
    BY DEF CallInv, Serves
  <2>2. CASE u # t
    <3>1. at'[u] = at[u] /\ req'[u] = req[u] /\ ok'[u] = ok[u]
      BY <1>1, <1>2, <1>3, <2>2 DEF Serves
    <3>2. Asked(u)'
      BY <2>1, <3>1 DEF Asked
    <3>3. Answered(u)'
      BY <2>1, <3>1 DEF Answered, Sought
    <3>. QED BY <3>2, <3>3
  <2>3. CASE u = t
    <3>1. at'[t] = x /\ at[t] \in {"lock"} \union LockedPoints
      BY <1>1, <1>3 DEF Serves
    <3>2. Answered(t)'
      BY <3>1 DEF Answered, LockedPoints
    <3>3. req[t].op \in {"join", "publish", "setpgid", "setsid", "reap"}
      BY <2>1, <2>3, <3>1 DEF Asked, Served
    <3>4. /\ req'[t].op = req[t].op /\ req'[t].proc = req[t].proc
          /\ req'[t].group = req[t].group /\ req'[t].name = req[t].name
          /\ req'[t].guest = req[t].guest \/ req[t].op = "join"
          /\ req'[t].made => req[t].made \/ req[t].op \in {"setpgid", "setsid"}
      BY <1>2
    <3>5. Asked(t)'
      BY <1>1, <2>1, <2>3, <3>1, <3>3, <3>4
      DEF Asked, Served, LockedPoints, LookPoints
    <3>. QED BY <2>3, <3>2, <3>5
  <2>. QED BY <2>2, <2>3
<1>. QED BY <1>4, <1>6, <1>7

LEMMA ServesStep ==
  ASSUME CallInv, NEW t \in Threads, Serves(t), StorageTypes', UNCHANGED <<pgrp, sess, parent>>
  PROVE  CallInv'
<1>1. HostTypes'
  BY DEF Serves, CallInv, HostTypes, Exists
<1>. QED BY <1>1, ServesLocals DEF CallInv

(* The words, the banks and the entries of the maps.                       *)
LEMMA BankTypes ==
  ASSUME CallInv
  PROVE  /\ word \in Words /\ word.bank \in {0, 1} /\ Inactive \in {0, 1} /\ Inactive # Active
         /\ Active = word.bank
         /\ bank \in [{0, 1} -> [Kinds -> [Slots -> AnyEntry]]]
         /\ \A k \in Kinds : Live(k) \in [Slots -> AnyEntry] /\ Staged(k) \in [Slots -> AnyEntry]
         /\ \A k \in Kinds, i \in Slots : Live(k)[i] \in EntryOf(k) /\ Staged(k)[i] \in EntryOf(k)
<1>1. word \in Words /\ word.bank \in {0, 1} /\ Inactive \in {0, 1} /\ Inactive # Active
      /\ Active = word.bank
  BY DEF CallInv, StorageTypes, Words, Active, Inactive
<1>2. bank \in [{0, 1} -> [Kinds -> [Slots -> AnyEntry]]]
  BY DEF CallInv, StorageTypes
<1>3. \A k \in Kinds : Live(k) \in [Slots -> AnyEntry] /\ Staged(k) \in [Slots -> AnyEntry]
  BY <1>1, <1>2 DEF Live, Staged
<1>4. ASSUME NEW k \in Kinds, NEW i \in Slots
      PROVE  Live(k)[i] \in EntryOf(k) /\ Staged(k)[i] \in EntryOf(k)
  <2>1. CASE k = "pid"
    BY <1>1, <2>1 DEF CallInv, StorageTypes, Live, Staged
  <2>2. CASE k # "pid"
    BY <1>3, <2>2 DEF AnyEntry, EntryOf, Members
  <2>. QED BY <2>1, <2>2
<1>. QED BY <1>1, <1>2, <1>3, <1>4

(* An element of a sequence is of the set the sequence is over.            *)
LEMMA ElementOf ==
  ASSUME NEW S, NEW s \in Seq(S), NEW i \in 1 .. Len(s)
  PROVE  s[i] \in S
  OBVIOUS

(* A slot of the bank that is not in force gets an entry of its map.       *)
LEMMA StoredTypes ==
  ASSUME CallInv, NEW k \in Kinds, NEW i \in Slots, NEW e \in EntryOf(k),
         bank' = [bank EXCEPT ![Inactive][k][i] = e]
  PROVE  /\ bank' \in [{0, 1} -> [Kinds -> [Slots -> AnyEntry]]]
         /\ \A b \in {0, 1}, j \in Slots : bank'[b]["pid"][j] \in EntryOf("pid")
<1>1. Inactive \in {0, 1} /\ bank \in [{0, 1} -> [Kinds -> [Slots -> AnyEntry]]]
  BY BankTypes
<1>2. e \in AnyEntry
  BY DEF EntryOf, AnyEntry, Members, Hosts
<1>3. \A b \in {0, 1}, j \in Slots : bank[b]["pid"][j] \in EntryOf("pid")
  BY DEF CallInv, StorageTypes
<1>4. bank' \in [{0, 1} -> [Kinds -> [Slots -> AnyEntry]]]
  BY <1>1, <1>2
<1>5. \A b \in {0, 1}, j \in Slots :
        bank'[b]["pid"][j] = IF b = Inactive /\ k = "pid" /\ j = i THEN e ELSE bank[b]["pid"][j]
  BY <1>1 DEF Kinds
<1>. QED BY <1>3, <1>4, <1>5

(* The registry copies, repairs and goes on with well typed updates, and   *)
(* no request changes under the thread that made it.                       *)
LEMMA MirrorCalls ==
  ASSUME CallInv, NEW t \in Threads, Mirror(t), UNCHANGED self
  PROVE  CallInv'
<1>1. pos[t] \in 1 .. Len(journal) /\ journal \in Seq([kind : Kinds, slot : Slots])
  BY DEF CallInv, LocalTypes, StorageTypes, Numbers, Mirror
<1>. DEFINE e == journal[pos[t]]
<1>2. e.kind \in Kinds /\ e.slot \in Slots
  <2>1. e \in [kind : Kinds, slot : Slots]
    BY <1>1, ElementOf
  <2>. QED BY <2>1
<1>3. Live(e.kind)[e.slot] \in EntryOf(e.kind)
  BY <1>2, BankTypes
<1>4. bank' = [bank EXCEPT ![Inactive][e.kind][e.slot] = Live(e.kind)[e.slot]]
  BY DEF Mirror
<1>. HIDE DEF e
<1>5. StorageTypes'
  <2>1. /\ bank' \in [{0, 1} -> [Kinds -> [Slots -> AnyEntry]]]
        /\ \A b \in {0, 1}, j \in Slots : bank'[b]["pid"][j] \in EntryOf("pid")
    BY <1>2, <1>3, <1>4, StoredTypes
  <2>. QED BY <2>1 DEF Mirror, CallInv, StorageTypes
<1>6. Serves(t)
  BY DEF Mirror, Serves, CallInv, LocalTypes, LockedPoints, Numbers, hostVars
<1>. QED BY <1>5, <1>6, ServesStep DEF Mirror, hostVars

LEMMA RecoveryCalls ==
  ASSUME CallInv, NEW t \in Threads,
         \/ TakeLock(t) \/ Mirrored(t) \/ NothingToRepair(t)
         \/ RepairBack(t) \/ RepairPoisons(t) \/ Clear(t),
         UNCHANGED self
  PROVE  CallInv'
<1>. USE DEF Go, End, LockedPoints, Places, storage, hostVars
<1>1. /\ at \in [Threads -> Points] /\ then \in [Threads -> Places]
      /\ pos \in [Threads -> Numbers] /\ todo \in [Threads -> Seq(AnyUpdate)]
      /\ ok \in [Threads -> BOOLEAN]
  BY DEF CallInv, LocalTypes
<1>2. StorageTypes
  BY DEF CallInv
<1>3. req[t] \in AnyRequest
  BY DEF CallInv, LocalTypes
<1>4. CASE TakeLock(t)
  <2>1. Serves(t)
    BY <1>1, <1>4 DEF TakeLock, Serves, Numbers
  <2>2. StorageTypes'
    BY <1>2, <1>4 DEF TakeLock, StorageTypes
  <2>. QED BY <1>4, <2>1, <2>2, ServesStep DEF TakeLock
<1>5. CASE Mirrored(t)
  <2>1. at'[t] = then[t] /\ then[t] \in Places /\ at' = [at EXCEPT ![t] = then[t]]
    BY <1>1, <1>5 DEF Mirrored
  <2>2. then' \in [Threads -> Places] /\ pos' \in [Threads -> Numbers]
    BY <1>1, <1>5 DEF Mirrored, Numbers
  <2>3. Serves(t)
    BY <1>1, <1>5, <2>1, <2>2 DEF Mirrored, Serves
  <2>4. StorageTypes'
    BY <1>2, <1>5 DEF Mirrored, StorageTypes
  <2>. QED BY <1>5, <2>3, <2>4, ServesStep DEF Mirrored
<1>6. CASE NothingToRepair(t)
  <2>1. Serves(t)
    BY <1>1, <1>6 DEF NothingToRepair, Serves, Recovered
  <2>2. StorageTypes'
    BY <1>2, <1>6 DEF NothingToRepair, StorageTypes
  <2>. QED BY <1>6, <2>1, <2>2, ServesStep DEF NothingToRepair
<1>7. CASE RepairBack(t)
  <2>1. Serves(t)
    BY <1>1, <1>7 DEF RepairBack, Serves
  <2>2. StorageTypes'
    BY <1>2, <1>7 DEF RepairBack, StorageTypes
  <2>. QED BY <1>7, <2>1, <2>2, ServesStep DEF RepairBack
<1>8. CASE RepairPoisons(t)
  <2>1. Serves(t)
    BY <1>1, <1>8 DEF RepairPoisons, Serves
  <2>2. StorageTypes'
    BY <1>2, <1>8 DEF RepairPoisons, StorageTypes
  <2>. QED BY <1>8, <2>1, <2>2, ServesStep DEF RepairPoisons
<1>9. CASE Clear(t)
  <2>1. Serves(t)
    BY <1>1, <1>3, <1>9 DEF Clear, Serves, Recovered, AnyRequest
  <2>2. StorageTypes'
    BY <1>2, <1>9 DEF Clear, StorageTypes
  <2>. QED BY <1>9, <2>1, <2>2, ServesStep DEF Clear
<1>. QED BY <1>4, <1>5, <1>6, <1>7, <1>8, <1>9

(* What a repair writes.                                                   *)
LEMMA RepairsAre ==
  ASSUME CallInv, semantic.op # "none"
  PROVE  RepairUpdates \in Seq(AnyUpdate) /\ semantic \in Announced
<1>1. semantic \in Announced
  BY DEF CallInv, StorageTypes, NoSemantic
<1>2. /\ Update("pgid", semantic.name, semantic.group) \in AnyUpdate
      /\ Update("pgid", semantic.guest, semantic.proc) \in AnyUpdate
      /\ Update("sid", semantic.guest, semantic.proc) \in AnyUpdate
  BY <1>1 DEF Announced, AnyUpdate, Update, Kinds, SomeHost, Hosts, Members
<1>. QED BY <1>1, <1>2 DEF RepairUpdates

LEMMA ForwardCalls ==
  ASSUME CallInv, NEW t \in Threads, RepairForward(t), UNCHANGED self
  PROVE  CallInv'
<1>1. RepairUpdates \in Seq(AnyUpdate)
  BY RepairsAre DEF RepairForward
<1>2. Serves(t)
  BY <1>1 DEF RepairForward, Go, Serves, CallInv, LocalTypes, LockedPoints, storage, hostVars
<1>3. StorageTypes'
  BY DEF RepairForward, CallInv, StorageTypes, storage
<1>. QED BY <1>2, <1>3, ServesStep DEF RepairForward, hostVars

(* The slot that registry_apply_staged_locked chooses holds the number     *)
(* already, or is free; there is none when the map is full or a number to  *)
(* remove is not there.                                                    *)
LEMMA SlotForIs ==
  ASSUME NEW u
  PROVE  \/ /\ SlotFor(u) \in Slots
            /\ \/ Staged(u.kind)[SlotFor(u)].guest = u.guest
               \/ /\ u.host # Nobody /\ Staged(u.kind)[SlotFor(u)] = Free
                  /\ \A i \in Slots : Staged(u.kind)[i].guest # u.guest
         \/ /\ SlotFor(u) = 0
            /\ \A i \in Slots : Staged(u.kind)[i].guest # u.guest
            /\ u.host # Nobody => \A i \in Slots : Staged(u.kind)[i] # Free
<1>1. 0 \notin Slots
  BY DEF Slots
<1>. QED BY <1>1, SlotOfGuestIs, EmptySlotIs DEF SlotFor

(* The update that a transaction is at.                                    *)
LEMMA UpdateIs ==
  ASSUME CallInv, NEW t \in Threads, Paced(t), at[t] \in {"stage", "store"}
  PROVE  /\ pos[t] \in DOMAIN todo[t] /\ pos[t] \in Numbers /\ todo[t] \in Seq(AnyUpdate)
         /\ todo[t][pos[t]] \in AnyUpdate /\ journal \in Seq([kind : Kinds, slot : Slots])
<1>1. pos[t] \in Numbers /\ todo[t] \in Seq(AnyUpdate) /\ journal \in Seq([kind : Kinds, slot : Slots])
  BY DEF CallInv, LocalTypes, StorageTypes
<1>2. pos[t] <= Len(todo[t])
  BY DEF Paced
<1>3. pos[t] \in 1 .. Len(todo[t])
  BY <1>1, <1>2 DEF Numbers
<1>4. todo[t][pos[t]] \in AnyUpdate
  BY <1>1, <1>3, ElementOf
<1>. QED BY <1>1, <1>3, <1>4

(* What is stored: the update, in the slot that was journaled for it.      *)
LEMMA StoreIs ==
  ASSUME CallInv, NEW t \in Threads, Paced(t), Store(t)
  PROVE  LET u == todo[t][pos[t]]
             e == IF u.host = Nobody THEN Free ELSE [guest |-> u.guest, host |-> u.host]
         IN /\ u \in AnyUpdate /\ u.kind \in Kinds /\ SlotFor(u) \in Slots
            /\ e \in EntryOf(u.kind)
            /\ journal[pos[t]] = [kind |-> u.kind, slot |-> SlotFor(u)]
            /\ bank' = [bank EXCEPT ![Inactive][u.kind][SlotFor(u)] = e]
<1>. DEFINE u == todo[t][pos[t]]
            e == IF u.host = Nobody THEN Free ELSE [guest |-> u.guest, host |-> u.host]
<1>1. /\ u \in AnyUpdate /\ pos[t] \in Numbers
  BY UpdateIs DEF Store
<1>2. /\ Len(journal) = pos[t] /\ SlotFor(u) \in Slots
      /\ journal[pos[t]] = [kind |-> u.kind, slot |-> SlotFor(u)]
  BY DEF Paced, Store
<1>3. bank' = [bank EXCEPT ![Inactive][u.kind][SlotFor(u)] = e]
  <2>1. bank' = [bank EXCEPT ![Inactive][journal[Len(journal)].kind][journal[Len(journal)].slot] = e]
    BY DEF Store
  <2>. HIDE DEF e, u
  <2>2. journal[Len(journal)].kind = u.kind /\ journal[Len(journal)].slot = SlotFor(u)
    BY <1>2
  <2>. QED BY <2>1, <2>2
<1>. HIDE DEF u
<1>4. e \in EntryOf(u.kind) /\ u.kind \in Kinds
  BY <1>1 DEF AnyUpdate, EntryOf, Numbers, SomeHost
<1>. HIDE DEF e
<1>5. /\ u \in AnyUpdate /\ u.kind \in Kinds /\ SlotFor(u) \in Slots
      /\ e \in EntryOf(u.kind)
      /\ journal[pos[t]] = [kind |-> u.kind, slot |-> SlotFor(u)]
      /\ bank' = [bank EXCEPT ![Inactive][u.kind][SlotFor(u)] = e]
  BY <1>1, <1>2, <1>3, <1>4
<1>. QED BY <1>5 DEF u, e

LEMMA StoreCalls ==
  ASSUME CallInv, NEW t \in Threads, Paced(t), Store(t), UNCHANGED self
  PROVE  CallInv'
<1>. DEFINE u == todo[t][pos[t]]
            e == IF u.host = Nobody THEN Free ELSE [guest |-> u.guest, host |-> u.host]
<1>1. /\ u \in AnyUpdate /\ u.kind \in Kinds /\ SlotFor(u) \in Slots
      /\ e \in EntryOf(u.kind)
      /\ bank' = [bank EXCEPT ![Inactive][u.kind][SlotFor(u)] = e]
  BY StoreIs
<1>2. next' \in [Kinds -> Numbers]
  <2>1. next \in [Kinds -> Numbers]
    BY DEF CallInv, StorageTypes
  <2>2. u.guest \in Numbers
    BY <1>1 DEF AnyUpdate
  <2>3. next' = next \/ next' = [next EXCEPT ![u.kind] = Raise(@, u.guest)]
    BY DEF Store
  <2>. HIDE DEF u
  <2>4. \A n \in Numbers : Raise(n, u.guest) \in Numbers
    BY <2>2 DEF Raise, Numbers
  <2>. QED BY <1>1, <2>1, <2>3, <2>4
<1>3. UNCHANGED <<word, journal, semantic, poisoned>>
  BY DEF Store
<1>4. Serves(t)
  <2>1. /\ at \in [Threads -> Points] /\ then \in [Threads -> Places]
        /\ pos \in [Threads -> Numbers] /\ todo \in [Threads -> Seq(AnyUpdate)]
        /\ ok \in [Threads -> BOOLEAN]
    BY DEF CallInv, LocalTypes
  <2>2. /\ at[t] = "store" /\ at' = [at EXCEPT ![t] = at'[t]] /\ at'[t] \in {"stage", "commit"}
        /\ pos' = [pos EXCEPT ![t] = @ + 1] /\ UNCHANGED <<then, todo, ok>>
    BY <2>1 DEF Store, Go
  <2>3. UNCHANGED <<st, want, seen, found, req>>
    BY DEF Store, hostVars
  <2>4. pos' \in [Threads -> Numbers]
    BY <2>1, <2>2 DEF Numbers
  <2>. QED BY <2>1, <2>2, <2>3, <2>4 DEF Serves, LockedPoints
<1>. HIDE DEF u, e
<1>5. StorageTypes'
  <2>1. /\ bank' \in [{0, 1} -> [Kinds -> [Slots -> AnyEntry]]]
        /\ \A b \in {0, 1}, j \in Slots : bank'[b]["pid"][j] \in EntryOf("pid")
    BY <1>1, StoredTypes
  <2>. QED BY <1>2, <1>3, <2>1 DEF CallInv, StorageTypes
<1>. QED BY <1>4, <1>5, ServesStep DEF Store, hostVars

LEMMA TransactionCalls ==
  ASSUME CallInv, NEW t \in Threads, Paced(t),
         Stage(t) \/ StageFails(t) \/ Commit(t) \/ Fail(t) \/ Unlock(t),
         UNCHANGED self
  PROVE  CallInv'
<1>. USE DEF Go, End, LockedPoints, Places, storage, hostVars
<1>1. /\ at \in [Threads -> Points] /\ then \in [Threads -> Places]
      /\ pos \in [Threads -> Numbers] /\ todo \in [Threads -> Seq(AnyUpdate)]
      /\ ok \in [Threads -> BOOLEAN]
  BY DEF CallInv, LocalTypes
<1>2. StorageTypes
  BY DEF CallInv
<1>3. CASE Stage(t)
  <2>1. Serves(t)
    BY <1>1, <1>3 DEF Stage, Serves
  <2>. DEFINE e == [kind |-> todo[t][pos[t]].kind, slot |-> SlotFor(todo[t][pos[t]])]
  <2>2. e \in [kind : Kinds, slot : Slots]
    <3>1. todo[t][pos[t]] \in AnyUpdate
      BY <1>3, UpdateIs DEF Stage
    <3>2. SlotFor(todo[t][pos[t]]) \in Slots
      BY <1>3, SlotForIs DEF Stage
    <3>. QED BY <3>1, <3>2 DEF AnyUpdate
  <2>3. journal' = Append(journal, e)
    BY <1>3 DEF Stage
  <2>. HIDE DEF e
  <2>4. journal' \in Seq([kind : Kinds, slot : Slots])
    BY <1>2, <2>2, <2>3 DEF StorageTypes
  <2>5. StorageTypes'
    BY <1>2, <1>3, <2>4 DEF Stage, StorageTypes
  <2>. QED BY <1>3, <2>1, <2>5, ServesStep DEF Stage
<1>4. CASE StageFails(t)
  <2>1. Serves(t)
    BY <1>1, <1>4 DEF StageFails, Serves, Numbers
  <2>2. StorageTypes'
    BY <1>2, <1>4 DEF StageFails, StorageTypes
  <2>. QED BY <1>4, <2>1, <2>2, ServesStep DEF StageFails
<1>5. CASE Commit(t)
  <2>1. then' \in [Threads -> Places] /\ pos' \in [Threads -> Numbers]
    BY <1>1, <1>5 DEF Commit, Numbers
  <2>2. todo' \in [Threads -> Seq(AnyUpdate)] /\ ok' \in [Threads -> BOOLEAN]
    BY <1>1, <1>5 DEF Commit
  <2>3. Serves(t)
    BY <1>1, <1>5, <2>1, <2>2 DEF Commit, Serves
  <2>4. word' \in Words
    BY <1>5, BankTypes DEF Commit, Words
  <2>5. StorageTypes'
    BY <1>2, <1>5, <2>4 DEF Commit, StorageTypes
  <2>. QED BY <1>5, <2>3, <2>5, ServesStep DEF Commit
<1>6. CASE Fail(t)
  <2>1. Serves(t)
    BY <1>1, <1>6 DEF Fail, Serves
  <2>2. StorageTypes'
    BY <1>2, <1>6 DEF Fail, StorageTypes
  <2>. QED BY <1>6, <2>1, <2>2, ServesStep DEF Fail
<1>7. CASE Unlock(t)
  <2>1. Serves(t)
    BY <1>1, <1>7 DEF Unlock, Serves
  <2>2. StorageTypes'
    BY <1>2, <1>7 DEF Unlock, StorageTypes
  <2>. QED BY <1>7, <2>1, <2>2, ServesStep DEF Unlock
<1>. QED BY <1>3, <1>4, <1>5, <1>6, <1>7

(* The number of a host id is in a slot of the map, or the host id is in   *)
(* none.                                                                   *)
LEMMA KnownNumber ==
  ASSUME CallInv, NEW k \in Kinds, NEW h \in Hosts
  PROVE  \/ /\ GuestOfHost(k, h) \in Numbers
            /\ \E i \in Slots : Live(k)[i] = [guest |-> GuestOfHost(k, h), host |-> h]
         \/ /\ GuestOfHost(k, h) = 0
            /\ \A i \in Slots : Live(k)[i].host # h
<1>1. \A i \in Slots : Live(k)[i] \in AnyEntry
  BY BankTypes
<1>2. h # Nobody
  BY IdentityAssumption DEF IdentityAssumption, Hosts
<1>3. \A i \in Slots : Live(k)[i] = Free \/ Live(k)[i].guest # 0
  BY <1>1 DEF AnyEntry, Numbers
<1>4. CASE GuestOfHost(k, h) = 0
  BY <1>2, <1>3, <1>4, GuestOfHostIs
<1>5. CASE GuestOfHost(k, h) # 0
  <2>1. PICK i \in Slots : Live(k)[i].host = h /\ GuestOfHost(k, h) = Live(k)[i].guest
    BY <1>2, <1>3, <1>5, GuestOfHostIs
  <2>2. Live(k)[i] \in AnyEntry /\ Live(k)[i] # Free
    BY <1>1, <1>2, <2>1 DEF Free
  <2>. QED BY <2>1, <2>2 DEF AnyEntry
<1>. QED BY <1>4, <1>5

(* What a launch joins with.                                               *)
JoinsAs(t, gp, gg, gs) ==
  LET p == t[1] IN
  /\ req' = [req EXCEPT ![t].guest = gp]
  /\ todo' = [todo EXCEPT ![t] = <<Update("pid", gp, p), Update("pgid", gg, pgrp[p]),
                                   Update("sid", gs, sess[p])>>]
  /\ next' \in [Kinds -> Numbers]
  /\ \A i \in Slots : Live("pid")[i].host # p
  /\ \/ gp = 1 /\ next'["pid"] = next["pid"] /\ \A i \in Slots : Live("pid")[i].guest # 1
     \/ /\ gp = next["pid"] /\ next'["pid"] = next["pid"] + 1
        /\ \E i \in Slots : Live("pid")[i].guest = 1
  /\ \/ \E i \in Slots : Live("pgid")[i] = [guest |-> gg, host |-> pgrp[p]]
     \/ \A i \in Slots : Live("pgid")[i].host # pgrp[p] /\ (pgrp[p] = p => gg = gp)
  /\ \/ \E i \in Slots : Live("sid")[i] = [guest |-> gs, host |-> sess[p]]
     \/ \A i \in Slots : Live("sid")[i].host # sess[p] /\ (sess[p] = p => gs = gp)

(* A launch gets a number, and one for its group and its session.          *)
LEMMA JoinNewIs ==
  ASSUME CallInv, NEW t \in Threads, JoinNew(t)
  PROVE  /\ t[1] \in Procs /\ pgrp[t[1]] \in Hosts /\ sess[t[1]] \in Hosts
         /\ \E gp, gg, gs \in Numbers : JoinsAs(t, gp, gg, gs)
<1>1. /\ at[t] = "body" /\ req[t].op = "join" /\ req[t].proc = t[1] /\ st[t[1]] = "live"
  BY DEF JoinNew, CallInv, Asked, LifeInv
<1>2. t[1] \in Procs
  BY IdentityAssumption DEF IdentityAssumption
<1>3. pgrp[t[1]] \in Hosts /\ sess[t[1]] \in Hosts
  BY <1>1, <1>2 DEF CallInv, HostTypes, Exists
<1>. DEFINE p == t[1]
            init == SlotOfGuest(Live("pid"), 1) # 0
            gp == IF init THEN next["pid"] ELSE 1
            groupKnown == GuestOfHost("pgid", pgrp[p])
            newGroup == groupKnown = 0 /\ pgrp[p] # p
            gg == IF groupKnown # 0 THEN groupKnown ELSE IF newGroup THEN next["pgid"] ELSE gp
            sessKnown == GuestOfHost("sid", sess[p])
            newSess == sessKnown = 0 /\ sess[p] # p /\ sess[p] # pgrp[p]
            gs == IF sessKnown # 0 THEN sessKnown
                  ELSE IF newSess THEN next["sid"] ELSE IF sess[p] = p THEN gp ELSE gg
<1>4. next \in [Kinds -> Numbers]
  BY DEF CallInv, StorageTypes
<1>5. \/ /\ groupKnown \in Numbers
         /\ \E i \in Slots : Live("pgid")[i] = [guest |-> groupKnown, host |-> pgrp[p]]
      \/ groupKnown = 0 /\ \A i \in Slots : Live("pgid")[i].host # pgrp[p]
  BY <1>3, KnownNumber DEF Kinds
<1>6. \/ /\ sessKnown \in Numbers
         /\ \E i \in Slots : Live("sid")[i] = [guest |-> sessKnown, host |-> sess[p]]
      \/ sessKnown = 0 /\ \A i \in Slots : Live("sid")[i].host # sess[p]
  BY <1>3, KnownNumber DEF Kinds
<1>7. gp \in Numbers /\ gg \in Numbers /\ gs \in Numbers
  BY <1>4, <1>5, <1>6 DEF Kinds, Numbers
<1>8. /\ req' = [req EXCEPT ![t].guest = gp]
      /\ todo' = [todo EXCEPT ![t] = <<Update("pid", gp, p), Update("pgid", gg, pgrp[p]),
                                       Update("sid", gs, sess[p])>>]
      /\ next' = [next EXCEPT !["pid"] = IF init THEN @ + 1 ELSE @,
                              !["pgid"] = IF newGroup THEN @ + 1 ELSE @,
                              !["sid"] = IF newSess THEN @ + 1 ELSE @]
  BY <1>1 DEF JoinNew, Apply
<1>9. \A i \in Slots : Live("pid")[i].host # p
  <2>1. GuestOfHost("pid", p) = 0
    BY <1>1 DEF JoinNew
  <2>. QED BY <1>2, <2>1, KnownNumber DEF Kinds, Hosts, Numbers
<1>10. IF init THEN \E i \in Slots : Live("pid")[i].guest = 1
       ELSE \A i \in Slots : Live("pid")[i].guest # 1
  <2>1. 0 \notin Slots
    BY DEF Slots
  <2>. QED BY <2>1, SlotOfGuestIs
<1>11. next' \in [Kinds -> Numbers] /\ next'["pid"] = IF init THEN next["pid"] + 1 ELSE next["pid"]
  BY <1>4, <1>8 DEF Kinds, Numbers
<1>12. \/ \E i \in Slots : Live("pgid")[i] = [guest |-> gg, host |-> pgrp[p]]
       \/ \A i \in Slots : Live("pgid")[i].host # pgrp[p] /\ (pgrp[p] = p => gg = gp)
  BY <1>5 DEF Numbers
<1>13. \/ \E i \in Slots : Live("sid")[i] = [guest |-> gs, host |-> sess[p]]
       \/ \A i \in Slots : Live("sid")[i].host # sess[p] /\ (sess[p] = p => gs = gp)
  BY <1>6 DEF Numbers
<1>14. \/ gp = 1 /\ next'["pid"] = next["pid"] /\ \A i \in Slots : Live("pid")[i].guest # 1
       \/ /\ gp = next["pid"] /\ next'["pid"] = next["pid"] + 1
          /\ \E i \in Slots : Live("pid")[i].guest = 1
  BY <1>10, <1>11
<1>. HIDE DEF gp, gg, gs
<1>15. JoinsAs(t, gp, gg, gs)
  BY <1>8, <1>9, <1>11, <1>12, <1>13, <1>14 DEF JoinsAs
<1>. QED BY <1>2, <1>3, <1>7, <1>15

LEMMA JoinNewCalls ==
  ASSUME CallInv, NEW t \in Threads, JoinNew(t), UNCHANGED self
  PROVE  CallInv'
<1>1. t[1] \in Procs /\ pgrp[t[1]] \in Hosts /\ sess[t[1]] \in Hosts
  BY JoinNewIs
<1>2. PICK gp, gg, gs \in Numbers : JoinsAs(t, gp, gg, gs)
  BY JoinNewIs
<1>. DEFINE s == <<Update("pid", gp, t[1]), Update("pgid", gg, pgrp[t[1]]), Update("sid", gs, sess[t[1]])>>
<1>3. s \in Seq(AnyUpdate)
  <2>1. /\ Update("pid", gp, t[1]) \in AnyUpdate /\ Update("pgid", gg, pgrp[t[1]]) \in AnyUpdate
        /\ Update("sid", gs, sess[t[1]]) \in AnyUpdate
    BY <1>1 DEF AnyUpdate, Update, Kinds, SomeHost, Hosts, Members
  <2>. QED BY <2>1
<1>4. todo' = [todo EXCEPT ![t] = s] /\ req' = [req EXCEPT ![t].guest = gp] /\ next' \in [Kinds -> Numbers]
  BY <1>2 DEF JoinsAs
<1>. HIDE DEF s
<1>5. /\ at \in [Threads -> Points] /\ then \in [Threads -> Places]
      /\ pos \in [Threads -> Numbers] /\ todo \in [Threads -> Seq(AnyUpdate)]
      /\ ok \in [Threads -> BOOLEAN]
  BY DEF CallInv, LocalTypes
<1>6. /\ at[t] = "body" /\ req[t].op = "join" /\ at' = [at EXCEPT ![t] = "stage"]
      /\ UNCHANGED <<word, bank, journal, semantic, poisoned, lock, hostVars, then, pos, ok, want,
                     seen, found>>
  BY DEF JoinNew, Apply, Go
<1>7. todo' \in [Threads -> Seq(AnyUpdate)]
  BY <1>3, <1>4, <1>5
<1>8. gp \in Nat
  BY DEF Numbers
<1>9. Serves(t)
  BY <1>4, <1>5, <1>6, <1>7, <1>8 DEF Serves, LockedPoints, hostVars
<1>10. StorageTypes'
  BY <1>4, <1>6 DEF CallInv, StorageTypes
<1>. QED BY <1>6, <1>9, <1>10, ServesStep DEF hostVars

(* What a reap takes away.                                                 *)
LEMMA ReapIs ==
  ASSUME CallInv, \A k \in Kinds : Unique(Live(k)), NEW p \in Procs, GuestOfHost("pid", p) # 0
  PROVE  LET s == <<Update("pid", GuestOfHost("pid", p), Nobody)>>
                    \o Removals("pgid", p) \o Removals("sid", p)
         IN /\ s \in Seq(AnyUpdate) /\ s # <<>> /\ Distinct(s)
            /\ s[1] = Update("pid", GuestOfHost("pid", p), Nobody)
            /\ [guest |-> s[1].guest, host |-> p] \in Entries("pid")
            /\ \A j \in DOMAIN s :
                 /\ s[j].host = Nobody
                 /\ j # 1 => s[j].kind # "pid"
                 /\ \E e \in Entries(s[j].kind) : e.guest = s[j].guest
<1>. DEFINE g == GuestOfHost("pid", p)
            u == Update("pid", g, Nobody)
            G == Removals("pgid", p)
            S == Removals("sid", p)
            s == <<u>> \o G \o S
<1>1. Removed("pgid", G) /\ Removed("sid", S)
  BY RemovalsAre DEF CallInv, Kinds
<1>2. g \in Numbers /\ \E i \in Slots : Live("pid")[i] = [guest |-> g, host |-> p]
  BY KnownNumber DEF Kinds, Hosts
<1>3. [guest |-> g, host |-> p] \in Entries("pid")
  <2>1. [guest |-> g, host |-> p] # Free
    BY IdentityAssumption DEF IdentityAssumption, Free
  <2>. QED BY <1>2, <2>1 DEF Entries
<1>4. u \in AnyUpdate /\ u.guest = g /\ u.kind = "pid" /\ u.host = Nobody
  BY <1>2 DEF AnyUpdate, Update, Kinds, SomeHost
<1>. HIDE DEF u, G, S, g
<1>5. G \in Seq(AnyUpdate) /\ S \in Seq(AnyUpdate)
  BY <1>1 DEF Removed
<1>6. s \in Seq(AnyUpdate) /\ Len(s) = 1 + Len(G) + Len(S)
  BY <1>4, <1>5
<1>7. /\ s[1] = u
      /\ \A j \in DOMAIN s :
           \/ j = 1
           \/ j - 1 \in DOMAIN G /\ s[j] = G[j - 1]
           \/ j - 1 - Len(G) \in DOMAIN S /\ s[j] = S[j - 1 - Len(G)]
  <2>1. <<u>> \o G \in Seq(AnyUpdate) /\ Len(<<u>> \o G) = 1 + Len(G)
    BY <1>4, <1>5
  <2>2. ASSUME NEW j \in DOMAIN s, j # 1, j <= 1 + Len(G)
        PROVE  j - 1 \in DOMAIN G /\ s[j] = G[j - 1]
    BY <1>4, <1>5, <1>6, <2>1, <2>2
  <2>3. ASSUME NEW j \in DOMAIN s, ~(j <= 1 + Len(G))
        PROVE  j - 1 - Len(G) \in DOMAIN S /\ s[j] = S[j - 1 - Len(G)]
    BY <1>4, <1>5, <1>6, <2>1, <2>3
  <2>4. s[1] = u
    BY <1>4, <1>5, <1>6, <2>1
  <2>. QED BY <2>2, <2>3, <2>4
<1>. HIDE DEF s
<1>8. \A j \in DOMAIN s :
        /\ s[j].host = Nobody
        /\ j # 1 => s[j].kind # "pid"
        /\ \E e \in Entries(s[j].kind) : e.guest = s[j].guest
  BY <1>1, <1>3, <1>4, <1>7 DEF Removed
<1>9. Distinct(s)
  <2>. SUFFICES ASSUME NEW i \in DOMAIN s, NEW j \in DOMAIN s, i # j
       PROVE s[i].kind # s[j].kind \/ s[i].guest # s[j].guest
    BY DEF Distinct
  <2>0. i \in Nat /\ j \in Nat /\ Len(G) \in Nat
    BY <1>5, <1>6
  <2>1. /\ \A m \in DOMAIN G : G[m].kind = "pgid"
        /\ \A m \in DOMAIN S : S[m].kind = "sid"
        /\ \A m, n \in DOMAIN G : m # n => G[m].guest # G[n].guest
        /\ \A m, n \in DOMAIN S : m # n => S[m].guest # S[n].guest
    BY <1>1 DEF Removed
  <2>. QED BY <1>4, <1>7, <2>0, <2>1
<1>10. s # <<>>
  BY <1>5, <1>6
<1>. QED BY <1>3, <1>4, <1>6, <1>7, <1>8, <1>9, <1>10 DEF s, u, G, S, g

(* The requests of the guest, once the lock is held.                       *)
LEMMA RequestCalls ==
  ASSUME CallInv, \A k \in Kinds : Unique(Live(k)), NEW t \in Threads,
         JoinAgain(t) \/ Publish(t) \/ Announce(t) \/ HostRefuses(t) \/ Reap(t),
         UNCHANGED self
  PROVE  CallInv'
<1>. USE DEF Go, End, LockedPoints, Places, storage, hostVars
<1>1. /\ at \in [Threads -> Points] /\ then \in [Threads -> Places]
      /\ pos \in [Threads -> Numbers] /\ todo \in [Threads -> Seq(AnyUpdate)]
      /\ ok \in [Threads -> BOOLEAN]
  BY DEF CallInv, LocalTypes
<1>2. StorageTypes /\ Asked(t)
  BY DEF CallInv
<1>3. CASE JoinAgain(t)
  <2>1. req[t].proc \in Procs
    BY <1>2, <1>3, IdentityAssumption DEF JoinAgain, Asked, IdentityAssumption
  <2>2. GuestOfHost("pid", req[t].proc) \in Nat
    <3>1. req[t].proc \in Hosts /\ "pid" \in Kinds
      BY <2>1 DEF Kinds, Hosts
    <3>2. GuestOfHost("pid", req[t].proc) \in Numbers \/ GuestOfHost("pid", req[t].proc) = 0
      BY <3>1, KnownNumber
    <3>. QED BY <3>2 DEF Numbers
  <2>3. Serves(t)
    BY <1>1, <1>3, <2>2 DEF JoinAgain, Serves
  <2>4. StorageTypes'
    BY <1>2, <1>3 DEF JoinAgain, StorageTypes
  <2>. QED BY <1>3, <2>3, <2>4, ServesStep DEF JoinAgain
<1>4. CASE Publish(t)
  <2>1. req[t].proc \in Procs /\ req[t].guest \in Numbers
    BY <1>2, <1>4 DEF Publish, Asked, CallInv, LocalTypes, AnyRequest, Numbers
  <2>2. <<Update("pid", req[t].guest, req[t].proc)>> \in Seq(AnyUpdate)
    BY <2>1 DEF AnyUpdate, Update, Kinds, SomeHost, Hosts, Members
  <2>3. Serves(t)
    BY <1>1, <1>4, <2>2 DEF Publish, Apply, Serves
  <2>4. StorageTypes'
    BY <1>2, <1>4 DEF Publish, StorageTypes
  <2>. QED BY <1>4, <2>3, <2>4, ServesStep DEF Publish
<1>5. CASE Announce(t)
  <2>1. Serves(t)
    BY <1>1, <1>5 DEF Announce, Serves
  <2>2. semantic' \in Announced \union {NoSemantic}
    <3>1. CASE GetPgid(req[t].proc) = Nobody
      BY <1>2, <1>5, <3>1 DEF Announce, StorageTypes
    <3>2. CASE GetPgid(req[t].proc) # Nobody
      <4>1. /\ req[t].proc \in Procs /\ req[t].guest \in Numbers /\ req[t].group \in Hosts
            /\ req[t].name \in Numbers /\ req[t].op \in {"setpgid", "setsid"}
        BY <1>2, <1>5 DEF Announce, Asked, CallInv, LocalTypes, AnyRequest, Numbers
      <4>2. pgrp[req[t].proc] \in Hosts /\ sess[req[t].proc] \in Hosts
        BY <3>2, <4>1, IdentityAssumption
        DEF GetPgid, IdentityAssumption, CallInv, HostTypes, Exists
      <4>. QED BY <1>5, <3>2, <4>1, <4>2 DEF Announce, Announced
    <3>. QED BY <3>1, <3>2
  <2>3. StorageTypes'
    BY <1>2, <1>5, <2>2 DEF Announce, StorageTypes
  <2>. QED BY <1>5, <2>1, <2>3, ServesStep DEF Announce
<1>6. CASE HostRefuses(t)
  <2>1. Serves(t)
    BY <1>1, <1>6 DEF HostRefuses, Serves
  <2>2. StorageTypes'
    BY <1>2, <1>6 DEF HostRefuses, StorageTypes
  <2>. QED BY <1>6, <2>1, <2>2, ServesStep DEF HostRefuses
<1>7. CASE Reap(t)
  <2>1. todo' \in [Threads -> Seq(AnyUpdate)]
    <3>1. CASE GuestOfHost("pid", req[t].proc) = 0
      BY <1>1, <1>7, <3>1 DEF Reap
    <3>2. CASE GuestOfHost("pid", req[t].proc) # 0
      <4>1. req[t].proc \in Procs
        BY <1>2, <1>7 DEF Reap, Asked
      <4>. DEFINE s == <<Update("pid", GuestOfHost("pid", req[t].proc), Nobody)>>
                    \o Removals("pgid", req[t].proc) \o Removals("sid", req[t].proc)
      <4>2. s \in Seq(AnyUpdate)
        BY <3>2, <4>1, ReapIs
      <4>3. todo' = [todo EXCEPT ![t] = s]
        BY <1>7, <3>2 DEF Reap, Apply
      <4>. HIDE DEF s
      <4>. QED BY <1>1, <4>2, <4>3
    <3>. QED BY <3>1, <3>2
  <2>2. /\ at[t] = "body" /\ at'[t] \in {"stage", "unlock"} /\ at' = [at EXCEPT ![t] = at'[t]]
        /\ ok' \in [Threads -> BOOLEAN] /\ \A u \in Threads : u # t => ok'[u] = ok[u]
    <3>1. CASE GuestOfHost("pid", req[t].proc) = 0
      BY <1>1, <1>7, <3>1 DEF Reap
    <3>2. CASE GuestOfHost("pid", req[t].proc) # 0
      BY <1>1, <1>7, <3>2 DEF Reap, Apply
    <3>. QED BY <3>1, <3>2
  <2>3. UNCHANGED <<storage, lock, hostVars, then, pos, req, want, seen, found>>
    BY <1>7 DEF Reap
  <2>4. Serves(t)
    BY <1>1, <2>1, <2>2, <2>3 DEF Serves
  <2>5. StorageTypes'
    BY <1>2, <2>3 DEF StorageTypes
  <2>. QED BY <2>3, <2>4, <2>5, ServesStep
<1>. QED BY <1>3, <1>4, <1>5, <1>6, <1>7

LEMMA HostCalls ==
  ASSUME CallInv, NEW t \in Threads, HostCall(t), UNCHANGED self
  PROVE  CallInv'
<1>1. /\ at \in [Threads -> Points] /\ then \in [Threads -> Places]
      /\ pos \in [Threads -> Numbers] /\ todo \in [Threads -> Seq(AnyUpdate)]
      /\ ok \in [Threads -> BOOLEAN]
  BY DEF CallInv, LocalTypes
<1>2. Serves(t)
  <2>1. req[t].op \in {"setpgid", "setsid"}
    BY DEF HostCall, CallInv, Asked
  <2>. QED BY <1>1, <2>1 DEF HostCall, Go, Serves, LockedPoints, storage
<1>3. StorageTypes'
  BY DEF HostCall, CallInv, StorageTypes, storage
<1>4. req[t].proc \in Procs /\ req[t].group \in Hosts /\ req[t].op \in {"setpgid", "setsid"}
  BY DEF HostCall, CallInv, Asked
<1>5. HostTypes'
  BY <1>4 DEF HostCall, CallInv, HostTypes, Exists, SomeHost, Hosts
<1>. QED BY <1>2, <1>3, <1>5, ServesLocals DEF CallInv

(* A lookup leaves with what it sought, or with nothing.                   *)
LEMMA LookCalls ==
  ASSUME CallInv, ReadInv, NEW t \in Threads, Look(t) \/ Scan(t) \/ Recheck(t), UNCHANGED self
  PROVE  CallInv'
<1>1. /\ at \in [Threads -> Points] /\ pos \in [Threads -> Numbers] /\ ok \in [Threads -> BOOLEAN]
      /\ seen \in [Threads -> Words] /\ found \in [Threads -> AnyEntry] /\ word \in Words
      /\ DOMAIN want = Threads /\ \A u \in Threads : want[u].kind \in Kinds
  BY DEF CallInv, LocalTypes, StorageTypes
<1>2. /\ UNCHANGED <<storage, lock, hostVars, then, todo, req, want>>
      /\ at[t] \in {"look", "scan", "recheck"}
  BY DEF Look, Scan, Recheck
<1>3. /\ at' = [at EXCEPT ![t] = at'[t]] /\ at'[t] \in {"scan", "recheck", "looked"}
  BY <1>1, <1>2 DEF Look, Scan, Recheck, Go
<1>4. /\ ok' \in [Threads -> BOOLEAN] /\ \A u \in Threads : u # t => ok'[u] = ok[u]
  BY <1>1 DEF Look, Scan, Recheck
<1>5. /\ seen' \in [Threads -> Words]
  BY <1>1 DEF Look, Scan, Recheck, Words, Start
<1>6. at[t] = "scan" => /\ pos[t] \in Slots
                        /\ bank[seen[t].bank][want[t].kind][pos[t]] \in EntryOf(want[t].kind)
  <2>. SUFFICES ASSUME at[t] = "scan" PROVE
         pos[t] \in Slots /\ bank[seen[t].bank][want[t].kind][pos[t]] \in EntryOf(want[t].kind)
    OBVIOUS
  <2>1. pos[t] \in Slots
    BY DEF ReadInv, Scanning
  <2>2. seen[t].bank \in {0, 1} /\ want[t].kind \in Kinds
    BY <1>1 DEF Words
  <2>3. bank[seen[t].bank][want[t].kind][pos[t]] \in AnyEntry
    BY <2>1, <2>2, BankTypes
  <2>4. CASE want[t].kind = "pid"
    BY <2>1, <2>2, <2>4 DEF CallInv, StorageTypes
  <2>5. CASE want[t].kind # "pid"
    BY <2>1, <2>3, <2>5 DEF AnyEntry, EntryOf, Members
  <2>. QED BY <2>1, <2>4, <2>5
<1>7. pos' \in [Threads -> Numbers]
  <2>1. CASE Look(t)
    BY <1>1, <2>1 DEF Look, Numbers
  <2>2. CASE Scan(t)
    <3>1. pos' = [pos EXCEPT ![t] = IF at'[t] = "scan" THEN @ + 1 ELSE 1]
      BY <2>2 DEF Scan
    <3>. QED BY <1>1, <3>1 DEF Numbers
  <2>3. CASE Recheck(t)
    BY <1>1, <2>3 DEF Recheck
  <2>. QED BY <2>1, <2>2, <2>3
<1>8. /\ found' \in [Threads -> AnyEntry] /\ \A u \in Threads : u # t => found'[u] = found[u]
      /\ found'[t] # Free => Sought(t, found'[t]) /\ found'[t] \in EntryOf(want[t].kind)
      /\ at'[t] = "looked" /\ ok'[t] => found'[t] # Free
  <2>1. Answered(t)
    BY DEF CallInv
  <2>2. CASE Look(t)
    BY <1>1, <2>1, <2>2 DEF Look, Answered, AnyEntry, Go
  <2>3. CASE Scan(t)
    <3>. DEFINE e == bank[seen[t].bank][want[t].kind][pos[t]]
    <3>1. found' = [found EXCEPT ![t] = IF Sought(t, e) THEN e ELSE @] /\ at'[t] # "looked"
      BY <1>1, <2>3 DEF Scan, Go
    <3>2. e \in EntryOf(want[t].kind) /\ e \in AnyEntry
      BY <1>6, <2>3 DEF Scan, EntryOf, AnyEntry, Members, Hosts
    <3>. HIDE DEF e
    <3>3. found[t] # Free => Sought(t, found[t]) /\ found[t] \in EntryOf(want[t].kind)
      BY <2>1, <2>3 DEF Answered, Scan
    <3>4. Sought(t, e) => found'[t] = e
      BY <1>1, <3>1
    <3>5. ~Sought(t, e) => found'[t] = found[t]
      BY <1>1, <3>1
    <3>. QED BY <1>1, <3>1, <3>2, <3>3, <3>4, <3>5
  <2>4. CASE Recheck(t)
    BY <1>1, <2>1, <2>4 DEF Recheck, Answered, AnyEntry, Go
  <2>. QED BY <2>2, <2>3, <2>4
<1>9. StorageTypes' /\ HostTypes'
  BY <1>2 DEF storage, hostVars, CallInv, StorageTypes, HostTypes, Exists
<1>10. LocalTypes'
  BY <1>1, <1>2, <1>3, <1>4, <1>5, <1>7, <1>8 DEF CallInv, LocalTypes, Points, LookPoints
<1>11. LifeInv'
  <2>1. \A u \in Threads : (at'[u] # "dead" <=> at[u] # "dead") /\ (Starting(u)' <=> Starting(u))
    BY <1>1, <1>2, <1>3 DEF Starting
  <2>. QED BY <1>2, <2>1 DEF hostVars, CallInv, LifeInv
<1>12. ASSUME NEW u \in Threads PROVE Asked(u)' /\ Answered(u)'
  <2>1. Asked(u) /\ Answered(u) /\ want' = want /\ req' = req
    BY <1>2 DEF CallInv
  <2>2. CASE u # t
    <3>1. at'[u] = at[u] /\ ok'[u] = ok[u] /\ found'[u] = found[u]
      BY <1>1, <1>3, <1>4, <1>8, <2>2
    <3>2. Asked(u)'
      BY <2>1, <3>1 DEF Asked
    <3>3. Answered(u)'
      BY <2>1, <3>1 DEF Answered, Sought
    <3>. QED BY <3>2, <3>3
  <2>3. CASE u = t
    <3>1. Asked(t)'
      BY <1>2, <1>3, <2>1, <2>3 DEF Asked, Served, LockedPoints, LookPoints
    <3>2. Answered(t)'
      BY <1>3, <1>8, <2>1 DEF Answered, Sought
    <3>. QED BY <2>3, <3>1, <3>2
  <2>. QED BY <2>2, <2>3
<1>. QED BY <1>9, <1>10, <1>11, <1>12 DEF CallInv

LEMMA RegistryCalls ==
  ASSUME CallInv, ReadInv, RecoveryInv, NEW t \in Threads, Registry(t)
  PROVE  CallInv'
<1>1. Paced(t) /\ \A k \in Kinds : Unique(Live(k))
  BY DEF RecoveryInv, BankInv
<1>2. UNCHANGED self /\ Step(t)
  BY DEF Registry
<1>3. CASE \/ TakeLock(t) \/ Mirrored(t) \/ NothingToRepair(t)
           \/ RepairBack(t) \/ RepairPoisons(t) \/ Clear(t)
  BY <1>2, <1>3, RecoveryCalls
<1>4. CASE Mirror(t) \/ RepairForward(t)
  BY <1>2, <1>4, MirrorCalls, ForwardCalls
<1>5. CASE Store(t)
  BY <1>1, <1>2, <1>5, StoreCalls
<1>6. CASE Stage(t) \/ StageFails(t) \/ Commit(t) \/ Fail(t) \/ Unlock(t)
  BY <1>1, <1>2, <1>6, TransactionCalls
<1>7. CASE JoinAgain(t) \/ Publish(t) \/ Announce(t) \/ HostRefuses(t) \/ Reap(t)
  BY <1>1, <1>2, <1>7, RequestCalls
<1>8. CASE JoinNew(t) \/ HostCall(t)
  BY <1>2, <1>8, JoinNewCalls, HostCalls
<1>9. CASE Look(t) \/ Scan(t) \/ Recheck(t)
  BY <1>2, <1>9, LookCalls
<1>. QED BY <1>2, <1>3, <1>4, <1>5, <1>6, <1>7, <1>8, <1>9 DEF Step

(* A thread that knows its number goes on to its next request.             *)
LEMMA TurnSets ==
  ASSUME CallInv, NEW t \in Threads, NEW x \in {"lock", "look", "idle"}, NEW r, NEW w,
         Turn(t, x, r, w)
  PROVE  /\ at'[t] = x /\ req'[t] = r /\ want'[t] = w /\ found'[t] = Free /\ ok'[t] = FALSE
         /\ \A u \in Threads : u # t =>
              /\ at'[u] = at[u] /\ req'[u] = req[u] /\ want'[u] = want[u] /\ found'[u] = found[u]
              /\ ok'[u] = ok[u]
         /\ UNCHANGED <<storage, lock, then, pos, todo, seen>>
  BY DEF Turn, Go, CallInv, LocalTypes

(* The next request of a thread, well typed, keeps the invariant.          *)
LEMMA TurnLocals ==
  ASSUME CallInv, NEW t \in Threads, NEW x \in {"lock", "look", "idle"}, NEW r \in AnyRequest, NEW w,
         w.kind \in Kinds, Turn(t, x, r, w), Asked(t)'
  PROVE  StorageTypes' /\ LocalTypes' /\ \A u \in Threads : Asked(u)' /\ Answered(u)'
<1>1. StorageTypes'
  BY DEF Turn, storage, CallInv, StorageTypes
<1>2. LocalTypes'
  BY DEF Turn, Go, CallInv, LocalTypes, Points, LookPoints, AnyEntry
<1>3. ASSUME NEW u \in Threads PROVE Asked(u)' /\ Answered(u)'
  <2>1. CASE u # t
    <3>1. /\ at'[u] = at[u] /\ req'[u] = req[u] /\ want'[u] = want[u] /\ found'[u] = found[u]
          /\ ok'[u] = ok[u] /\ Asked(u) /\ Answered(u)
      BY <2>1, TurnSets DEF CallInv
    <3>2. Asked(u)'
      BY <3>1 DEF Asked
    <3>3. Answered(u)'
      BY <3>1 DEF Answered, Sought
    <3>. QED BY <3>2, <3>3
  <2>2. CASE u = t
    <3>1. at'[t] = x /\ found'[t] = Free
      BY TurnSets
    <3>. QED BY <2>2, <3>1 DEF Answered
  <2>. QED BY <2>1, <2>2
<1>. QED BY <1>1, <1>2, <1>3

LEMMA TurnCalls ==
  ASSUME CallInv, NEW t \in Threads, NEW x \in {"lock", "look", "idle"}, NEW r \in AnyRequest, NEW w,
         w.kind \in Kinds, Turn(t, x, r, w), Asked(t)',
         at[t] # "dead", ~Starting(t), r.op \notin {"join", "publish"},
         HostTypes', UNCHANGED self, \A p \in Procs : st[p] = "live" => st'[p] = "live"
  PROVE  CallInv'
<1>1. StorageTypes' /\ LocalTypes' /\ \A u \in Threads : Asked(u)' /\ Answered(u)'
  BY TurnLocals
<1>2. /\ at'[t] = x /\ req'[t] = r
      /\ \A u \in Threads : u # t => at'[u] = at[u] /\ req'[u] = req[u]
  BY DEF Turn, Go, CallInv, LocalTypes
<1>3. \A u \in Threads : (at'[u] # "dead" <=> at[u] # "dead") /\ (Starting(u)' <=> Starting(u))
  BY <1>2 DEF Starting
<1>4. \A u \in Threads : u[1] \in Procs
  BY IdentityAssumption DEF IdentityAssumption
<1>5. LifeInv'
  BY <1>3, <1>4 DEF CallInv, LifeInv
<1>. QED BY <1>1, <1>5 DEF CallInv

(* Requests and lookups are of the shapes that clone, setpgid, setsid and  *)
(* wait4 give them.                                                        *)
LEMMA RequestTypes ==
  /\ NoRequest \in AnyRequest /\ NoRequest.op = "none" /\ NoRequest.made = FALSE
  /\ \A op \in Ops, p \in Procs \union {Nobody}, g \in Nat, h \in SomeHost, n \in Nat :
       Request(op, p, g, h, n) \in AnyRequest
  /\ NoWant.kind \in Kinds
  /\ \A k \in Kinds : \A b, h : Want(k, b, h).kind \in Kinds
  BY DEF Request, NoRequest, AnyRequest, SomeHost, Ops, NoWant, Want, Kinds

LEMMA FinishCalls ==
  ASSUME CallInv, NEW t \in Threads, Finish(t), at[t] # "dead", ~Starting(t),
         UNCHANGED <<hostVars, self>>
  PROVE  CallInv'
<1>1. Turn(t, "idle", NoRequest, NoWant)
  BY DEF Finish
<1>2. at'[t] = "idle" /\ req'[t] = NoRequest
  BY <1>1, TurnSets
<1>3. Asked(t)'
  BY <1>2, RequestTypes DEF Asked, Served, LockedPoints, LookPoints
<1>4. HostTypes'
  BY DEF hostVars, CallInv, HostTypes, Exists
<1>. QED BY <1>1, <1>3, <1>4, TurnCalls, RequestTypes DEF hostVars

(* A running thread of a process that knows its number.                    *)
LEMMA Running ==
  ASSUME CallInv, NEW t \in Threads, at[t] = "idle"
  PROVE  /\ at[t] # "dead" /\ ~Starting(t) /\ t[1] \in Procs
         /\ self[t[1]] \in Nat /\ self[t[1]] # 0 /\ st[t[1]] = "live"
<1>1. req[t].op = "none"
  BY RequestTypes DEF CallInv, Asked
<1>2. ~Starting(t)
  BY <1>1 DEF Starting
<1>3. t[1] \in Procs
  BY IdentityAssumption DEF IdentityAssumption
<1>. QED BY <1>2, <1>3 DEF CallInv, LifeInv, HostTypes

LEMMA SetPgidCalls ==
  ASSUME CallInv, NEW t \in Threads, NEW a0 \in {0} \union Guests, NEW a1 \in {0} \union Guests,
         SetPgid(t, a0, a1)
  PROVE  CallInv'
<1>1. at[t] = "idle" /\ UNCHANGED <<hostVars, self>>
  BY DEF SetPgid, Calls
<1>2. /\ at[t] # "dead" /\ ~Starting(t) /\ t[1] \in Procs
      /\ self[t[1]] \in Nat /\ self[t[1]] # 0
  BY <1>1, Running
<1>3. a0 \in Nat /\ a1 \in Nat
  BY DEF Guests
<1>4. HostTypes'
  BY <1>1 DEF hostVars, CallInv, HostTypes, Exists
<1>5. Nobody \in SomeHost /\ t[1] \in SomeHost /\ t[1] \in Hosts
  BY <1>2 DEF SomeHost, Hosts
<1>6. CASE a0 # 0
  <2>. DEFINE r == Request("resolve", Nobody, a0, Nobody, a1)
              w == Want("pid", FALSE, a0)
  <2>1. Turn(t, "look", r, w)
    BY <1>6 DEF SetPgid, LookUp
  <2>2. r \in AnyRequest /\ w.kind \in Kinds
    BY <1>3, <1>5, RequestTypes DEF Ops, Kinds
  <2>3. r.op = "resolve" /\ r.guest = a0 /\ ~r.made
    BY DEF Request
  <2>. HIDE DEF r, w
  <2>4. at'[t] = "look" /\ req'[t] = r /\ want'[t] = w
    BY <2>1 DEF Turn, Go, CallInv, LocalTypes
  <2>5. Asked(t)'
    BY <1>6, <2>3, <2>4 DEF Asked, Served, LockedPoints, LookPoints, w
  <2>. QED BY <1>1, <1>2, <1>4, <2>1, <2>2, <2>3, <2>5, TurnCalls DEF hostVars
<1>7. CASE a0 = 0 /\ a1 # 0
  <2>. DEFINE q == Request("resolve", Nobody, self[t[1]], Nobody, a1)
              r == [q EXCEPT !.op = "resolveGroup", !.proc = t[1]]
              w == Want("pgid", FALSE, a1)
  <2>1. Turn(t, "look", r, w)
    BY <1>7 DEF SetPgid, LookUp
  <2>2. /\ q \in AnyRequest /\ q.op = "resolve" /\ q.guest = self[t[1]] /\ q.name = a1
        /\ q.made = FALSE
    <3>1. q \in AnyRequest
      BY <1>2, <1>3, <1>5, RequestTypes DEF Ops
    <3>. QED BY <3>1 DEF Request
  <2>. HIDE DEF q
  <2>3. r \in AnyRequest /\ w.kind \in Kinds
    BY <1>2, <2>2, RequestTypes DEF AnyRequest, Ops, Kinds
  <2>4. r.op = "resolveGroup" /\ r.guest = self[t[1]] /\ ~r.made /\ r.proc = t[1] /\ r.name = a1
    BY <2>2 DEF AnyRequest
  <2>. HIDE DEF r
  <2>. HIDE DEF w
  <2>5. at'[t] = "look" /\ req'[t] = r /\ want'[t] = w
    BY <2>1 DEF Turn, Go, CallInv, LocalTypes
  <2>6. Asked(t)'
    BY <1>2, <1>7, <2>4, <2>5 DEF Asked, Served, LockedPoints, LookPoints, w
  <2>. QED BY <1>1, <1>2, <1>4, <2>1, <2>3, <2>4, <2>6, TurnCalls DEF hostVars
<1>8. CASE a0 = 0 /\ a1 = 0
  <2>. DEFINE r == Request("setpgid", t[1], self[t[1]], t[1], self[t[1]])
  <2>1. Turn(t, "lock", r, NoWant)
    BY <1>8 DEF SetPgid, Ask
  <2>2. r \in AnyRequest
    BY <1>2, <1>5, RequestTypes DEF Ops
  <2>3. /\ r.op = "setpgid" /\ r.guest = self[t[1]] /\ ~r.made /\ r.proc = t[1] /\ r.group = t[1]
        /\ r.name = self[t[1]]
    BY DEF Request
  <2>. HIDE DEF r
  <2>4. at'[t] = "lock" /\ req'[t] = r
    BY <2>1 DEF Turn, Go, CallInv, LocalTypes
  <2>5. Asked(t)'
    BY <1>2, <1>5, <2>3, <2>4 DEF Asked, Served, LockedPoints, LookPoints
  <2>. QED BY <1>1, <1>2, <1>4, <2>1, <2>2, <2>3, <2>5, TurnCalls, RequestTypes DEF hostVars
<1>. QED BY <1>6, <1>7, <1>8

(* The answer of a lookup by number.                                       *)
LEMMA AnswerIs ==
  ASSUME CallInv, NEW t \in Threads, at[t] = "looked"
  PROVE  /\ at[t] # "dead" /\ ~Starting(t) /\ req[t] \in AnyRequest /\ ~req[t].made
         /\ ok[t] => /\ found[t] \in AnyEntry /\ found[t] # Free /\ Sought(t, found[t])
                     /\ found[t].host \in Members(want[t].kind)
<1>1. Asked(t) /\ Answered(t) /\ req[t] \in AnyRequest /\ found[t] \in AnyEntry
  BY DEF CallInv, LocalTypes
<1>2. req[t].op \in {"resolve", "resolveGroup", "getpgid", "waited"}
  BY <1>1 DEF Asked, LookPoints
<1>3. ~Starting(t) /\ ~req[t].made
  BY <1>1, <1>2 DEF Starting, Asked
<1>4. ok[t] => found[t] # Free /\ Sought(t, found[t]) /\ found[t] \in EntryOf(want[t].kind)
  BY <1>1 DEF Answered
<1>. QED BY <1>1, <1>3, <1>4 DEF EntryOf

LEMMA ResolvedCalls ==
  ASSUME CallInv, NEW t \in Threads, Resolved(t)
  PROVE  CallInv'
<1>1. at[t] = "looked" /\ req[t].op = "resolve" /\ ok[t] /\ UNCHANGED <<hostVars, self>>
  BY DEF Resolved
<1>2. /\ at[t] # "dead" /\ ~Starting(t) /\ req[t] \in AnyRequest /\ ~req[t].made
      /\ found[t].host \in Members(want[t].kind)
  BY <1>1, AnswerIs
<1>3. Asked(t)
  BY DEF CallInv
<1>4. req[t].guest # 0 /\ found[t].host \in Procs
  BY <1>1, <1>2, <1>3 DEF Asked, Want, Members
<1>5. HostTypes'
  BY <1>1 DEF hostVars, CallInv, HostTypes, Exists
<1>. DEFINE q == found[t].host
<1>6. CASE req[t].name # 0
  <2>. DEFINE r == [req[t] EXCEPT !.op = "resolveGroup", !.proc = q]
              w == Want("pgid", FALSE, req[t].name)
  <2>1. Turn(t, "look", r, w)
    BY <1>6 DEF Resolved, LookUp
  <2>2. /\ r \in AnyRequest /\ w.kind \in Kinds /\ r.op = "resolveGroup" /\ ~r.made
        /\ r.proc = q /\ r.guest = req[t].guest /\ r.name = req[t].name
    BY <1>2, <1>4, RequestTypes DEF AnyRequest, Ops, Kinds
  <2>. HIDE DEF r, w
  <2>3. at'[t] = "look" /\ req'[t] = r /\ want'[t] = w
    BY <2>1 DEF Turn, Go, CallInv, LocalTypes
  <2>4. Asked(t)'
    BY <1>4, <1>6, <2>2, <2>3 DEF Asked, Served, LockedPoints, LookPoints, w
  <2>. QED BY <1>1, <1>2, <1>5, <2>1, <2>2, <2>4, TurnCalls DEF hostVars
<1>7. CASE req[t].name = 0
  <2>. DEFINE r == Request("setpgid", q, req[t].guest, q, req[t].guest)
  <2>1. Turn(t, "lock", r, NoWant)
    BY <1>7 DEF Resolved, Ask
  <2>2. r \in AnyRequest
    BY <1>2, <1>4, RequestTypes DEF Ops, SomeHost, Hosts, AnyRequest
  <2>3. /\ r.op = "setpgid" /\ r.guest = req[t].guest /\ ~r.made /\ r.proc = q /\ r.group = q
        /\ r.name = req[t].guest
    BY DEF Request
  <2>. HIDE DEF r
  <2>4. at'[t] = "lock" /\ req'[t] = r
    BY <2>1 DEF Turn, Go, CallInv, LocalTypes
  <2>5. Asked(t)'
    BY <1>4, <2>3, <2>4 DEF Asked, Served, LockedPoints, LookPoints, Hosts
  <2>. QED BY <1>1, <1>2, <1>5, <2>1, <2>2, <2>3, <2>5, TurnCalls, RequestTypes DEF hostVars
<1>. QED BY <1>6, <1>7

LEMMA ResolvedGroupCalls ==
  ASSUME CallInv, NEW t \in Threads, ResolvedGroup(t)
  PROVE  CallInv'
<1>1. at[t] = "looked" /\ req[t].op = "resolveGroup" /\ UNCHANGED <<hostVars, self>>
  BY DEF ResolvedGroup
<1>2. /\ at[t] # "dead" /\ ~Starting(t) /\ req[t] \in AnyRequest
      /\ ok[t] => found[t].host \in Members(want[t].kind)
  BY <1>1, AnswerIs
<1>3. Asked(t)
  BY DEF CallInv
<1>. DEFINE h == IF ok[t] THEN found[t].host ELSE req[t].proc
<1>4. /\ req[t].guest # 0 /\ req[t].proc \in Procs /\ req[t].name # 0
      /\ h \in Hosts
  BY <1>1, <1>2, <1>3 DEF Asked, Want, Members, Hosts
<1>5. HostTypes'
  BY <1>1 DEF hostVars, CallInv, HostTypes, Exists
<1>. DEFINE r == Request("setpgid", req[t].proc, req[t].guest, h, req[t].name)
<1>6. Turn(t, "lock", r, NoWant)
  BY DEF ResolvedGroup, Ask
<1>7. r \in AnyRequest
  BY <1>2, <1>4, RequestTypes DEF Ops, SomeHost, AnyRequest
<1>8. /\ r.op = "setpgid" /\ r.guest = req[t].guest /\ ~r.made /\ r.proc = req[t].proc /\ r.group = h
      /\ r.name = req[t].name
  BY DEF Request
<1>. HIDE DEF r, h
<1>9. at'[t] = "lock" /\ req'[t] = r
  BY <1>6 DEF Turn, Go, CallInv, LocalTypes
<1>10. Asked(t)'
  BY <1>4, <1>8, <1>9 DEF Asked, Served, LockedPoints, LookPoints
<1>. QED BY <1>1, <1>2, <1>5, <1>6, <1>7, <1>8, <1>10, TurnCalls, RequestTypes DEF hostVars

LEMMA OwnCalls ==
  ASSUME CallInv, NEW t \in Threads, SetSid(t) \/ AskGroup(t)
  PROVE  CallInv'
<1>1. at[t] = "idle" /\ UNCHANGED <<hostVars, self>>
  BY DEF SetSid, AskGroup, Calls
<1>2. /\ at[t] # "dead" /\ ~Starting(t) /\ t[1] \in Procs /\ self[t[1]] \in Nat /\ self[t[1]] # 0
  BY <1>1, Running
<1>3. HostTypes'
  BY <1>1 DEF hostVars, CallInv, HostTypes, Exists
<1>4. t[1] \in Hosts /\ t[1] \in SomeHost /\ Nobody \in SomeHost
  BY <1>2 DEF Hosts, SomeHost
<1>5. CASE SetSid(t)
  <2>. DEFINE r == Request("setsid", t[1], self[t[1]], t[1], self[t[1]])
  <2>1. Turn(t, "lock", r, NoWant)
    BY <1>5 DEF SetSid, Ask
  <2>2. r \in AnyRequest
    BY <1>2, <1>4, RequestTypes DEF Ops
  <2>3. /\ r.op = "setsid" /\ r.guest = self[t[1]] /\ ~r.made /\ r.proc = t[1] /\ r.group = t[1]
        /\ r.name = self[t[1]]
    BY DEF Request
  <2>. HIDE DEF r
  <2>4. at'[t] = "lock" /\ req'[t] = r
    BY <2>1 DEF Turn, Go, CallInv, LocalTypes
  <2>5. Asked(t)'
    BY <1>2, <1>4, <2>3, <2>4 DEF Asked, Served, LockedPoints, LookPoints
  <2>. QED BY <1>1, <1>2, <1>3, <2>1, <2>2, <2>3, <2>5, TurnCalls, RequestTypes DEF hostVars
<1>6. CASE AskGroup(t)
  <2>. DEFINE r == Request("getpgid", t[1], 0, Nobody, 0)
              w == Want("pgid", TRUE, pgrp[t[1]])
  <2>1. Turn(t, "look", r, w)
    BY <1>6 DEF AskGroup, LookUp
  <2>2. r \in AnyRequest /\ w.kind \in Kinds
    BY <1>2, <1>4, RequestTypes DEF Ops, Kinds
  <2>3. r.op = "getpgid" /\ ~r.made
    BY DEF Request
  <2>. HIDE DEF r, w
  <2>4. at'[t] = "look" /\ req'[t] = r
    BY <2>1 DEF Turn, Go, CallInv, LocalTypes
  <2>5. Asked(t)'
    BY <2>3, <2>4 DEF Asked, Served, LockedPoints, LookPoints
  <2>. QED BY <1>1, <1>2, <1>3, <2>1, <2>2, <2>3, <2>5, TurnCalls DEF hostVars
<1>. QED BY <1>5, <1>6

LEMMA WaitCalls ==
  ASSUME CallInv, NEW t \in Threads, NEW c \in Procs, Wait(t, c)
  PROVE  CallInv'
<1>1. at[t] = "idle" /\ st[c] = "zombie" /\ UNCHANGED <<pgrp, sess, self>>
  BY DEF Wait, Calls
<1>2. /\ at[t] # "dead" /\ ~Starting(t)
  BY <1>1, Running
<1>3. HostTypes' /\ \A p \in Procs : st[p] = "live" => st'[p] = "live"
  <2>1. st' = [st EXCEPT ![c] = "gone"] /\ parent' = [parent EXCEPT ![c] = Nobody]
    BY DEF Wait
  <2>. QED BY <1>1, <2>1 DEF CallInv, HostTypes, Exists
<1>. DEFINE r == Request("waited", c, 0, Nobody, 0)
            w == Want("pid", TRUE, c)
<1>4. Turn(t, "look", r, w)
  BY DEF Wait, LookUp
<1>5. r \in AnyRequest /\ w.kind \in Kinds
  BY RequestTypes DEF Ops, Kinds, SomeHost
<1>6. r.op = "waited" /\ ~r.made /\ r.proc = c
  BY DEF Request
<1>. HIDE DEF r, w
<1>7. at'[t] = "look" /\ req'[t] = r
  BY <1>4 DEF Turn, Go, CallInv, LocalTypes
<1>8. Asked(t)'
  BY <1>6, <1>7 DEF Asked, Served, LockedPoints, LookPoints
<1>. QED BY <1>1, <1>2, <1>3, <1>4, <1>5, <1>6, <1>8, TurnCalls

LEMMA WaitedCalls ==
  ASSUME CallInv, NEW t \in Threads, Waited(t)
  PROVE  CallInv'
<1>1. at[t] = "looked" /\ req[t].op = "waited" /\ UNCHANGED <<hostVars, self>>
  BY DEF Waited
<1>2. at[t] # "dead" /\ ~Starting(t) /\ req[t] \in AnyRequest /\ ~req[t].made
  BY <1>1, AnswerIs
<1>3. Asked(t)
  BY DEF CallInv
<1>4. HostTypes'
  BY <1>1 DEF hostVars, CallInv, HostTypes, Exists
<1>. DEFINE r == [req[t] EXCEPT !.op = "reap"]
<1>5. Turn(t, "lock", r, NoWant)
  BY DEF Waited, Ask
<1>6. r \in AnyRequest /\ r.op = "reap" /\ ~r.made /\ r.proc = req[t].proc
  BY <1>2 DEF AnyRequest, Ops
<1>. HIDE DEF r
<1>7. at'[t] = "lock" /\ req'[t] = r
  BY <1>5 DEF Turn, Go, CallInv, LocalTypes
<1>8. Asked(t)'
  BY <1>1, <1>3, <1>6, <1>7 DEF Asked, Served, LockedPoints, LookPoints
<1>. QED BY <1>1, <1>2, <1>4, <1>5, <1>6, <1>8, TurnCalls, RequestTypes DEF hostVars

LEMMA ReturnCalls ==
  ASSUME CallInv, NEW t \in Threads, Unresolved(t) \/ Return(t) \/ ParentPublished(t)
  PROVE  CallInv'
<1>1. Finish(t) /\ UNCHANGED <<hostVars, self>>
  BY DEF Unresolved, Return, ParentPublished
<1>2. at[t] # "dead" /\ ~Starting(t)
  <2>1. CASE at[t] = "looked"
    BY <2>1, AnswerIs
  <2>2. CASE at[t] # "looked"
    BY <2>2 DEF Unresolved, Return, ParentPublished, Starting
  <2>. QED BY <2>1, <2>2
<1>. QED BY <1>1, <1>2, FinishCalls

(* The threads of a process that does not exist.                           *)
LEMMA Asleep ==
  ASSUME CallInv, NEW p \in Procs, ~Exists(p)
  PROVE  /\ self[p] = 0
         /\ \A t \in Threads : t[1] = p => at[t] = "dead" /\ req[t] = NoRequest
<1>1. st[p] # "live"
  BY DEF Exists
<1>2. \A t \in Threads : t[1] = p => at[t] = "dead"
  BY <1>1 DEF CallInv, LifeInv
<1>3. \A t \in Threads : at[t] = "dead" => req[t] = NoRequest
  BY DEF CallInv, Asked
<1>. QED BY <1>1, <1>2, <1>3 DEF CallInv, LifeInv

(* A process begins with one thread, that asks for its number.             *)
LEMMA LaunchCalls ==
  ASSUME CallInv, NEW p \in Procs, NEW g \in Hosts, NEW s \in Hosts, Launch(p, g, s)
  PROVE  CallInv'
<1>. DEFINE t == Main(p)
            r == Request("join", p, 0, g, 0)
<1>1. /\ Turn(t, "lock", r, NoWant) /\ ~Exists(p) /\ UNCHANGED self
      /\ st' = [st EXCEPT ![p] = "live"] /\ parent' = [parent EXCEPT ![p] = Nobody]
      /\ pgrp' = [pgrp EXCEPT ![p] = g] /\ sess' = [sess EXCEPT ![p] = s]
  BY DEF Launch, Assignable, Ask
<1>2. /\ self[p] = 0
      /\ \A u \in Threads : u[1] = p => at[u] = "dead" /\ req[u] = NoRequest
  BY <1>1, Asleep
<1>3. HostTypes'
  BY <1>1 DEF CallInv, HostTypes, Exists, SomeHost
<1>4. r \in AnyRequest /\ r.op = "join" /\ ~r.made /\ r.proc = p
  <2>1. r \in AnyRequest
    BY RequestTypes DEF Ops, SomeHost
  <2>. QED BY <2>1 DEF Request
<1>5. t[1] = p
  BY DEF Main
<1>. HIDE DEF r, t
<1>6. \A u \in Threads : u # t => at'[u] = at[u] /\ req'[u] = req[u]
  BY <1>1 DEF Turn, Go, CallInv, LocalTypes
<1>7. t \in Threads => at'[t] = "lock" /\ req'[t] = r
  BY <1>1 DEF Turn, Go, CallInv, LocalTypes
<1>8. StorageTypes' /\ LocalTypes' /\ \A u \in Threads : Asked(u)' /\ Answered(u)'
  <2>1. CASE t \in Threads
    <3>1. Asked(t)'
      BY <1>4, <1>5, <1>7, <2>1 DEF Asked, Served, LockedPoints, LookPoints
    <3>. QED BY <1>1, <1>4, <2>1, <3>1, TurnLocals, RequestTypes
  <2>2. CASE t \notin Threads
    <3>1. /\ at' = at /\ req' = req /\ found' = found /\ ok' = ok
          /\ UNCHANGED <<storage, then, pos, todo, seen>>
      BY <1>1, <2>2 DEF Turn, Go, CallInv, LocalTypes
    <3>2. DOMAIN want' = Threads /\ \A u \in Threads : want'[u] = want[u]
      BY <1>1, <2>2 DEF Turn, CallInv, LocalTypes
    <3>3. StorageTypes' /\ LocalTypes'
      BY <3>1, <3>2 DEF storage, CallInv, StorageTypes, LocalTypes
    <3>4. ASSUME NEW u \in Threads PROVE Asked(u)' /\ Answered(u)'
      <4>1. Asked(u) /\ Answered(u) /\ want'[u] = want[u]
        BY <3>2 DEF CallInv
      <4>2. Asked(u)'
        BY <3>1, <4>1 DEF Asked
      <4>3. Answered(u)'
        BY <3>1, <4>1 DEF Answered, Sought
      <4>. QED BY <4>2, <4>3
    <3>. QED BY <3>3, <3>4
  <2>. QED BY <2>1, <2>2
<1>9. LifeInv'
  <2>1. ASSUME NEW u \in Threads
        PROVE  /\ at'[u] # "dead" => st'[u[1]] = "live"
               /\ at'[u] # "dead" /\ ~Starting(u)' => self'[u[1]] # 0
               /\ Starting(u)' => self'[u[1]] = 0
               /\ Starting(u)' => \A v \in Threads : v # u /\ v[1] = u[1] => at'[v] = "dead"
    <3>1. u[1] \in Procs
      BY IdentityAssumption DEF IdentityAssumption
    <3>2. CASE u = t
      <4>1. Starting(u)'
        BY <1>4, <1>5, <1>7, <3>2 DEF Starting
      <4>2. st'[u[1]] = "live" /\ self'[u[1]] = 0
        BY <1>1, <1>2, <1>5, <3>1, <3>2 DEF CallInv, HostTypes
      <4>. QED BY <1>2, <1>5, <1>6, <3>2, <4>1, <4>2
    <3>3. CASE u # t /\ u[1] = p
      BY <1>2, <1>6, <3>3 DEF Starting
    <3>4. CASE u[1] # p
      <4>1. u # t /\ at'[u] = at[u] /\ req'[u] = req[u] /\ st'[u[1]] = st[u[1]]
        BY <1>1, <1>5, <1>6, <3>1, <3>4 DEF CallInv, HostTypes
      <4>2. Starting(u)' <=> Starting(u)
        BY <4>1 DEF Starting
      <4>3. \A v \in Threads : v[1] = u[1] => at'[v] = at[v]
        BY <1>5, <1>6, <3>4
      <4>. QED BY <1>1, <4>1, <4>2, <4>3 DEF CallInv, LifeInv
    <3>. QED BY <3>2, <3>3, <3>4
  <2>2. \A q \in Procs : self'[q] # 0 => st'[q] = "live"
    BY <1>1 DEF CallInv, LifeInv, HostTypes
  <2>. QED BY <2>1, <2>2 DEF LifeInv
<1>. QED BY <1>3, <1>8, <1>9 DEF CallInv

LEMMA ForkCalls ==
  ASSUME CallInv, NEW t \in Threads, NEW c \in Procs, Fork(t, c)
  PROVE  CallInv'
<1>. DEFINE m == Main(c)
            r == Request("publish", c, next["pid"], Nobody, 0)
<1>1. /\ at[t] = "idle" /\ ~Exists(c)
      /\ st' = [st EXCEPT ![c] = "live"] /\ parent' = [parent EXCEPT ![c] = t[1]]
      /\ pgrp' = [pgrp EXCEPT ![c] = pgrp[t[1]]] /\ sess' = [sess EXCEPT ![c] = sess[t[1]]]
      /\ next' = [next EXCEPT !["pid"] = @ + 1]
      /\ at' = [at EXCEPT ![t] = "lock", ![m] = "lock"]
      /\ req' = [req EXCEPT ![t] = r, ![m] = r]
      /\ UNCHANGED <<word, bank, journal, semantic, poisoned, lock, then, pos, todo, ok, want, seen,
                     found, self>>
  BY DEF Fork, Assignable, Calls
<1>2. /\ at[t] # "dead" /\ ~Starting(t) /\ t[1] \in Procs
      /\ self[t[1]] \in Nat /\ self[t[1]] # 0 /\ st[t[1]] = "live"
  BY <1>1, Running
<1>3. /\ self[c] = 0
      /\ \A u \in Threads : u[1] = c => at[u] = "dead" /\ req[u] = NoRequest
  BY <1>1, Asleep
<1>4. t[1] # c
  BY <1>2, <1>3
<1>5. next \in [Kinds -> Numbers] /\ next["pid"] \in Numbers
  BY DEF CallInv, StorageTypes, Kinds
<1>6. StorageTypes'
  BY <1>1, <1>5 DEF CallInv, StorageTypes, Numbers, Kinds
<1>7. HostTypes'
  BY <1>1, <1>2 DEF CallInv, HostTypes, Exists, SomeHost
<1>8. r \in AnyRequest /\ r.op = "publish" /\ ~r.made /\ r.proc = c /\ r.guest # 0
  <2>1. r \in AnyRequest
    BY <1>5, RequestTypes DEF Ops, SomeHost, Numbers
  <2>. QED BY <1>5, <2>1 DEF Request, Numbers
<1>9. m[1] = c
  BY DEF Main
<1>. HIDE DEF r, m
<1>10. /\ \A u \in Threads : u # t /\ u # m => at'[u] = at[u] /\ req'[u] = req[u]
       /\ \A u \in Threads : u = t \/ u = m => at'[u] = "lock" /\ req'[u] = r
  BY <1>1 DEF CallInv, LocalTypes
<1>11. LocalTypes'
  BY <1>1, <1>8 DEF CallInv, LocalTypes, Points
<1>12. ASSUME NEW u \in Threads PROVE Asked(u)' /\ Answered(u)'
  <2>1. CASE u # t /\ u # m
    <3>1. Asked(u) /\ Answered(u) /\ at'[u] = at[u] /\ req'[u] = req[u]
      BY <1>10, <2>1 DEF CallInv
    <3>. QED BY <1>1, <3>1 DEF Asked, Answered, Sought
  <2>2. CASE u = t \/ u = m
    <3>1. at'[u] = "lock" /\ req'[u] = r
      BY <1>10, <2>2
    <3>. QED BY <1>8, <3>1 DEF Asked, Answered, Served, LockedPoints, LookPoints
  <2>. QED BY <2>1, <2>2
<1>13. LifeInv'
  <2>1. ASSUME NEW u \in Threads
        PROVE  /\ at'[u] # "dead" => st'[u[1]] = "live"
               /\ at'[u] # "dead" /\ ~Starting(u)' => self'[u[1]] # 0
               /\ Starting(u)' => self'[u[1]] = 0
               /\ Starting(u)' => \A v \in Threads : v # u /\ v[1] = u[1] => at'[v] = "dead"
    <3>1. u[1] \in Procs
      BY IdentityAssumption DEF IdentityAssumption
    <3>2. CASE u = m
      <4>1. Starting(u)'
        BY <1>8, <1>9, <1>10, <3>2 DEF Starting
      <4>2. st'[u[1]] = "live" /\ self'[u[1]] = 0
        BY <1>1, <1>3, <1>9, <3>1, <3>2 DEF CallInv, HostTypes
      <4>. QED BY <1>3, <1>4, <1>9, <1>10, <3>2, <4>1, <4>2
    <3>3. CASE u # m /\ u[1] = c
      BY <1>3, <1>4, <1>10, <3>3 DEF Starting
    <3>4. CASE u[1] # c
      <4>1. u # m /\ st'[u[1]] = st[u[1]]
        BY <1>1, <1>9, <3>1, <3>4 DEF CallInv, HostTypes
      <4>2. (at'[u] # "dead" <=> at[u] # "dead") /\ (Starting(u)' <=> Starting(u))
        BY <1>2, <1>4, <1>8, <1>10, <4>1 DEF Starting
      <4>3. \A v \in Threads : v[1] = u[1] => (at'[v] # "dead" <=> at[v] # "dead")
        BY <1>2, <1>9, <1>10, <3>4
      <4>. QED BY <1>1, <4>1, <4>2, <4>3 DEF CallInv, LifeInv
    <3>. QED BY <3>2, <3>3, <3>4
  <2>2. \A q \in Procs : self'[q] # 0 => st'[q] = "live"
    BY <1>1 DEF CallInv, LifeInv, HostTypes
  <2>. QED BY <2>1, <2>2 DEF LifeInv
<1>. QED BY <1>6, <1>7, <1>11, <1>12, <1>13 DEF CallInv

(* It knows its number, and all its threads may run; or it is over, and    *)
(* none does.                                                              *)
LEMMA BeginCalls ==
  ASSUME CallInv, NEW t \in Threads, Starting(t), req[t].guest # 0, Begin(t), UNCHANGED hostVars
  PROVE  CallInv'
<1>1. t[1] \in Procs /\ st[t[1]] = "live" /\ req[t].guest \in Nat /\ at[t] # "dead"
  BY IdentityAssumption DEF IdentityAssumption, CallInv, LifeInv, LocalTypes, AnyRequest, Starting
<1>2. /\ self' = [self EXCEPT ![t[1]] = req[t].guest]
      /\ at' = [u \in Threads |-> IF u[1] = t[1] THEN "idle" ELSE at[u]]
      /\ req' = [req EXCEPT ![t] = NoRequest] /\ ok' = [ok EXCEPT ![t] = FALSE]
      /\ UNCHANGED <<storage, lock, then, pos, todo, want, seen, found>>
  BY DEF Begin
<1>3. StorageTypes' /\ HostTypes'
  BY <1>1, <1>2 DEF storage, hostVars, CallInv, StorageTypes, HostTypes, Exists
<1>4. LocalTypes'
  BY <1>2, RequestTypes DEF CallInv, LocalTypes, Points
<1>5. \A u \in Threads : u[1] = t[1] => at'[u] = "idle" /\ req'[u] = NoRequest
  BY <1>2 DEF CallInv, LifeInv, LocalTypes, Asked
<1>6. \A u \in Threads : u[1] # t[1] => at'[u] = at[u] /\ req'[u] = req[u] /\ ok'[u] = ok[u]
  BY <1>2 DEF CallInv, LocalTypes
<1>7. ASSUME NEW u \in Threads PROVE Asked(u)' /\ Answered(u)'
  <2>1. CASE u[1] # t[1]
    <3>1. Asked(u) /\ Answered(u) /\ at'[u] = at[u] /\ req'[u] = req[u] /\ ok'[u] = ok[u]
      BY <1>6, <2>1 DEF CallInv
    <3>. QED BY <1>2, <3>1 DEF Asked, Answered, Sought
  <2>2. CASE u[1] = t[1]
    <3>1. at'[u] = "idle" /\ req'[u] = NoRequest
      BY <1>5, <2>2
    <3>. QED BY <3>1, RequestTypes DEF Asked, Answered, Served, LockedPoints, LookPoints
  <2>. QED BY <2>1, <2>2
<1>8. LifeInv'
  <2>1. ASSUME NEW u \in Threads
        PROVE  /\ at'[u] # "dead" => st'[u[1]] = "live"
               /\ at'[u] # "dead" /\ ~Starting(u)' => self'[u[1]] # 0
               /\ Starting(u)' => self'[u[1]] = 0
               /\ Starting(u)' => \A v \in Threads : v # u /\ v[1] = u[1] => at'[v] = "dead"
    <3>1. u[1] \in Procs
      BY IdentityAssumption DEF IdentityAssumption
    <3>2. CASE u[1] = t[1]
      <4>1. ~Starting(u)'
        BY <1>5, <3>2, RequestTypes DEF Starting
      <4>2. st'[u[1]] = "live" /\ self'[u[1]] # 0
        BY <1>1, <1>2, <3>2 DEF hostVars, CallInv, HostTypes
      <4>. QED BY <4>1, <4>2
    <3>3. CASE u[1] # t[1]
      <4>1. Starting(u)' <=> Starting(u)
        BY <1>6, <3>3 DEF Starting
      <4>2. self'[u[1]] = self[u[1]] /\ st' = st
        BY <1>2, <3>1, <3>3 DEF hostVars, CallInv, HostTypes
      <4>3. \A v \in Threads : v[1] = u[1] => at'[v] = at[v]
        BY <1>6, <3>3
      <4>. QED BY <4>1, <4>2, <4>3 DEF CallInv, LifeInv
    <3>. QED BY <3>2, <3>3
  <2>2. \A q \in Procs : self'[q] # 0 => st'[q] = "live"
    BY <1>1, <1>2 DEF hostVars, CallInv, LifeInv, HostTypes
  <2>. QED BY <2>1, <2>2 DEF LifeInv
<1>. QED BY <1>3, <1>4, <1>7, <1>8 DEF CallInv

LEMMA StopCalls ==
  ASSUME CallInv, NEW over, over \subseteq Procs, NEW reaped, reaped \subseteq over, NEW resting,
         \A p \in over : p \in reaped \/ st[p] = "live",
         \A t \in resting : t \in Threads => at[t] # "dead" /\ ~Starting(t),
         Ends(over, reaped), Stops(over, resting)
  PROVE  CallInv'
<1>1. /\ st' = [p \in Procs |->
           IF p \in reaped THEN "gone"
           ELSE IF p \in over THEN IF parent[p] \in Procs THEN "zombie" ELSE "gone"
           ELSE IF st[p] = "zombie" /\ parent[p] \in over THEN "gone" ELSE st[p]]
      /\ parent' = [p \in Procs |-> IF p \in reaped \/ parent[p] \in over THEN Nobody ELSE parent[p]]
      /\ self' = [p \in Procs |-> IF p \in over THEN 0 ELSE self[p]]
      /\ UNCHANGED <<storage, pgrp, sess>>
  BY DEF Ends
<1>2. StorageTypes'
  BY <1>1 DEF storage, CallInv, StorageTypes
<1>3. HostTypes'
  <2>1. st' \in [Procs -> {"unborn", "live", "zombie", "gone"}]
    BY <1>1 DEF CallInv, HostTypes
  <2>2. parent' \in [Procs -> Procs \union {Nobody}] /\ self' \in [Procs -> Nat]
    BY <1>1 DEF CallInv, HostTypes
  <2>3. \A p \in Procs : Exists(p)' => Exists(p)
    BY <1>1 DEF Exists
  <2>. QED BY <1>1, <2>1, <2>2, <2>3 DEF CallInv, HostTypes
<1>4. LocalTypes'
  <2>1. at' \in [Threads -> Points] /\ then' \in [Threads -> Places] /\ pos' \in [Threads -> Numbers]
    BY DEF Stops, CallInv, LocalTypes, Points, Places, Numbers
  <2>2. todo' \in [Threads -> Seq(AnyUpdate)] /\ req' \in [Threads -> AnyRequest]
    BY RequestTypes DEF Stops, CallInv, LocalTypes
  <2>3. ok' \in [Threads -> BOOLEAN] /\ seen' \in [Threads -> Words] /\ found' \in [Threads -> AnyEntry]
    BY DEF Stops, CallInv, LocalTypes, Words, Start, AnyEntry
  <2>4. DOMAIN want' = Threads /\ \A t \in Threads : want'[t].kind \in Kinds
    BY RequestTypes DEF Stops, CallInv, LocalTypes
  <2>. QED BY <2>1, <2>2, <2>3, <2>4 DEF LocalTypes
<1>5. ASSUME NEW t \in Threads
      PROVE  \/ at'[t] = "dead" /\ req'[t] = NoRequest /\ t[1] \in over
             \/ at'[t] = "idle" /\ req'[t] = NoRequest /\ t \in resting /\ t[1] \notin over
             \/ /\ at'[t] = at[t] /\ req'[t] = req[t] /\ want'[t] = want[t] /\ found'[t] = found[t]
                /\ ok'[t] = ok[t] /\ t[1] \notin over
  BY DEF Stops
<1>6. ASSUME NEW t \in Threads PROVE Asked(t)' /\ Answered(t)'
  <2>1. Asked(t) /\ Answered(t)
    BY DEF CallInv
  <2>2. CASE at'[t] \in {"dead", "idle"} /\ req'[t] = NoRequest
    BY <2>2, RequestTypes DEF Asked, Answered, Served, LockedPoints, LookPoints
  <2>3. CASE /\ at'[t] = at[t] /\ req'[t] = req[t] /\ want'[t] = want[t] /\ found'[t] = found[t]
             /\ ok'[t] = ok[t]
    BY <2>1, <2>3 DEF Asked, Answered, Sought
  <2>. QED BY <1>5, <2>2, <2>3
<1>7. LifeInv'
  <2>1. \A p \in Procs : self'[p] # 0 => st'[p] = "live"
    BY <1>1 DEF CallInv, LifeInv, HostTypes
  <2>2. ASSUME NEW t \in Threads
        PROVE  /\ at'[t] # "dead" => at[t] # "dead" /\ t[1] \notin over
               /\ Starting(t)' => Starting(t)
               /\ at'[t] # "dead" /\ ~Starting(t)' => ~Starting(t)
    BY <1>5, RequestTypes DEF Starting
  <2>3. ASSUME NEW t \in Threads
        PROVE  /\ at'[t] # "dead" => st'[t[1]] = "live"
               /\ at'[t] # "dead" /\ ~Starting(t)' => self'[t[1]] # 0
               /\ Starting(t)' => self'[t[1]] = 0
               /\ Starting(t)' => \A v \in Threads : v # t /\ v[1] = t[1] => at'[v] = "dead"
    <3>1. t[1] \in Procs
      BY IdentityAssumption DEF IdentityAssumption
    <3>2. t[1] \notin over => st'[t[1]] = IF st[t[1]] = "zombie" THEN st'[t[1]] ELSE st[t[1]]
      BY <1>1, <3>1
    <3>3. t[1] \notin over => self'[t[1]] = self[t[1]]
      BY <1>1, <3>1
    <3>4. \A v \in Threads : at[v] = "dead" => at'[v] = "dead"
      BY <2>2
    <3>5. Starting(t)' => at'[t] # "dead"
      BY DEF Starting
    <3>. QED BY <2>2, <3>2, <3>3, <3>4, <3>5 DEF CallInv, LifeInv
  <2>. QED BY <2>1, <2>3 DEF LifeInv
<1>. QED BY <1>2, <1>3, <1>4, <1>6, <1>7 DEF CallInv

(* Every action keeps CallInv, of the types, of the life of a thread and   *)
(* of the shape of its request.                                            *)
LEMMA LifeCalls ==
  ASSUME CallInv, \A t \in Threads : Earned(t),
         \/ \E p \in Procs, g, s \in Hosts : Launch(p, g, s)
         \/ \E p \in Procs : Exit(p) \/ Kill(p)
         \/ \E t \in Threads :
              \/ Joined(t) \/ JoinFailed(t) \/ ChildPublished(t) \/ ParentPublished(t)
              \/ ChildAbandoned(t) \/ ParentAbandons(t)
  PROVE  CallInv'
<1>1. CASE \E p \in Procs, g, s \in Hosts : Launch(p, g, s)
  BY <1>1, LaunchCalls
<1>2. ASSUME NEW p \in Procs, st[p] = "live", Dies(p) PROVE CallInv'
  <2>1. Ends({p}, {}) /\ Stops({p}, {})
    BY <1>2 DEF Dies
  <2>. QED BY <1>2, <2>1, StopCalls
<1>3. ASSUME NEW p \in Procs, Exit(p) \/ Kill(p) PROVE CallInv'
  BY <1>2, <1>3 DEF Exit, Kill
<1>4. ASSUME NEW t \in Threads, Joined(t) \/ ChildPublished(t) PROVE CallInv'
  <2>1. /\ Starting(t) /\ at[t] = "done" /\ ok[t] /\ Begin(t) /\ UNCHANGED hostVars
        /\ req[t].op \in {"join", "publish"}
    BY <1>4 DEF Joined, ChildPublished, Starting
  <2>2. req[t].guest # 0
    BY <2>1 DEF Earned, Clearing, CallInv, Asked
  <2>. QED BY <2>1, <2>2, BeginCalls
<1>5. ASSUME NEW t \in Threads, JoinFailed(t) \/ ChildAbandoned(t) PROVE CallInv'
  <2>1. at[t] = "done" /\ Dies(t[1])
    BY <1>5 DEF JoinFailed, ChildAbandoned
  <2>2. t[1] \in Procs /\ st[t[1]] = "live"
    BY <2>1, IdentityAssumption DEF IdentityAssumption, CallInv, LifeInv
  <2>. QED BY <1>2, <2>1, <2>2
<1>6. ASSUME NEW t \in Threads, ParentPublished(t) PROVE CallInv'
  BY <1>6, ReturnCalls
<1>7. ASSUME NEW t \in Threads, ParentAbandons(t) PROVE CallInv'
  <2>. DEFINE child == {c \in Procs : c = req[t].proc /\ parent[c] = t[1]}
  <2>1. Ends(child, child) /\ Stops(child, {t}) /\ at[t] # "dead" /\ ~Starting(t)
    BY <1>7 DEF ParentAbandons, Starting
  <2>2. child \subseteq Procs
    OBVIOUS
  <2>. HIDE DEF child
  <2>. QED BY <2>1, <2>2, StopCalls
<1>. QED BY <1>1, <1>3, <1>4, <1>5, <1>6, <1>7

LEMMA GuestCalls ==
  ASSUME CallInv, NEW t \in Threads,
         \/ \E c \in Procs : Fork(t, c) \/ Wait(t, c)
         \/ \E a0, a1 \in {0} \union Guests : SetPgid(t, a0, a1)
         \/ Resolved(t) \/ ResolvedGroup(t) \/ Unresolved(t)
         \/ SetSid(t) \/ AskGroup(t) \/ Waited(t) \/ Return(t)
  PROVE  CallInv'
  BY ForkCalls, WaitCalls, SetPgidCalls, ResolvedCalls, ResolvedGroupCalls, ReturnCalls, OwnCalls,
     WaitedCalls

LEMMA StutterCalls == CallInv /\ UNCHANGED vars => CallInv'
<1>. SUFFICES ASSUME CallInv, UNCHANGED vars PROVE CallInv'
  OBVIOUS
<1>1. UNCHANGED <<storage, hostVars, locals, lock, self>>
  BY DEF vars, registryVars
<1>2. StorageTypes' /\ HostTypes' /\ LocalTypes'
  BY <1>1 DEF storage, hostVars, locals, CallInv, StorageTypes, HostTypes, LocalTypes, Exists
<1>3. LifeInv'
  BY <1>1 DEF hostVars, locals, CallInv, LifeInv, Starting
<1>4. ASSUME NEW t \in Threads PROVE Asked(t)' /\ Answered(t)'
  <2>1. Asked(t) /\ Answered(t) /\ UNCHANGED <<at, req, want, ok, found>>
    BY <1>1 DEF locals, CallInv
  <2>2. Asked(t)'
    BY <2>1 DEF Asked
  <2>3. Answered(t)'
    BY <2>1 DEF Answered, Sought
  <2>. QED BY <2>2, <2>3
<1>. QED BY <1>2, <1>3, <1>4 DEF CallInv

(* Every step keeps CallInv, as long as a launch that has joined has a     *)
(* number (Earned, of RecoveryInv).                                        *)
LEMMA CallsInvariant ==
  ASSUME CallInv, ReadInv, RecoveryInv, [Next]_vars
  PROVE  CallInv'
<1>1. \A t \in Threads : Earned(t)
  BY DEF RecoveryInv
<1>. QED BY <1>1, LifeCalls, GuestCalls, RegistryCalls, StutterCalls DEF Next

-----------------------------------------------------------------------------
(* Recovery.                                                               *)

(* A thread that has nothing to do with the maps.                          *)
Same(t) ==
  /\ at'[t] = at[t] /\ then'[t] = then[t] /\ pos'[t] = pos[t] /\ todo'[t] = todo[t]
  /\ req'[t] = req[t] /\ ok'[t] = ok[t]
  /\ at[t] \in LockedPoints => pgrp'[t[1]] = pgrp[t[1]] /\ sess'[t[1]] = sess[t[1]]
Rests(t) ==
  /\ at'[t] \notin LockedPoints /\ todo'[t] = <<>>
  /\ ok'[t] => ~Undecided(t)' /\ (req'[t].op = "join" => req'[t].guest # 0)

(* A step that leaves the maps and the record alone, and every thread as   *)
(* it was or at rest.                                                      *)
LEMMA Bystanders ==
  ASSUME RecoveryInv, UNCHANGED <<word, bank, journal, semantic>>, LockInv',
         \A t \in Threads : Same(t) \/ Rests(t)
  PROVE  RecoveryInv'
<1>1. \A k : Live(k)' = Live(k) /\ Staged(k)' = Staged(k)
  BY DEF Live, Staged, Active, Inactive
<1>2. \A k : Entries(k)' = Entries(k) /\ StagedEntries(k)' = StagedEntries(k)
  BY <1>1 DEF Entries, StagedEntries
<1>3. Mirrorable'
  <2>. SUFFICES ASSUME NEW k \in Kinds, NEW i \in Slots, Staged(k)[i] # Live(k)[i]
       PROVE \E j \in 1 .. Len(journal) :
               /\ journal[j] = [kind |-> k, slot |-> i]
               /\ \A t \in Threads : at'[t] = "mirror" => pos'[t] <= j
    BY <1>1 DEF Mirrorable
  <2>1. PICK j \in 1 .. Len(journal) :
          /\ journal[j] = [kind |-> k, slot |-> i]
          /\ \A t \in Threads : at[t] = "mirror" => pos[t] <= j
    BY DEF RecoveryInv, Mirrorable
  <2>2. \A t \in Threads : at'[t] = "mirror" => pos'[t] <= j
    BY <2>1 DEF Same, Rests, LockedPoints
  <2>. QED BY <2>1, <2>2
<1>4. ASSUME NEW t \in Threads, Rests(t)
      PROVE  Paced(t)' /\ Earned(t)' /\ at'[t] \notin Applying
  <2>1. Paced(t)'
    BY <1>4 DEF Rests, Paced, LockedPoints, Applying
  <2>2. Earned(t)'
    BY <1>4 DEF Rests, Earned
  <2>. QED BY <1>4, <2>1, <2>2 DEF Rests, LockedPoints, Applying
<1>5. ASSUME NEW t \in Threads, Same(t)
      PROVE  /\ Paced(t)' /\ Earned(t)'
             /\ at'[t] \in Applying =>
                  /\ Listed(t)' /\ Distinct(todo[t])'
                  /\ \A k \in Kinds : Unique(Staged(k))' /\ (StagedEntries(k) = Applied(t, k))'
  <2>1. Paced(t) /\ Earned(t)
    BY DEF RecoveryInv
  <2>2. \A u : SlotFor(u)' = SlotFor(u)
    BY <1>1 DEF SlotFor, SlotOfGuest, EmptySlot
  <2>3. Paced(t)'
    BY <1>5, <2>1, <2>2 DEF Same, Paced
  <2>4. Earned(t)'
    BY <1>5, <2>1 DEF Same, Earned, Undecided, Clearing
  <2>5. ASSUME at'[t] \in Applying
        PROVE  /\ Listed(t)' /\ Distinct(todo[t])'
               /\ \A k \in Kinds : Unique(Staged(k))' /\ (StagedEntries(k) = Applied(t, k))'
    <3>1. /\ Listed(t) /\ Distinct(todo[t])
          /\ \A k \in Kinds : Unique(Staged(k)) /\ StagedEntries(k) = Applied(t, k)
      BY <1>5, <2>5 DEF Same, RecoveryInv, BankInv
    <3>2. /\ at[t] \in LockedPoints /\ todo'[t] = todo[t] /\ pos'[t] = pos[t] /\ req'[t] = req[t]
          /\ pgrp'[t[1]] = pgrp[t[1]] /\ sess'[t[1]] = sess[t[1]]
      BY <1>5, <2>5 DEF Same, Applying, LockedPoints
    <3>3. RepairUpdates' = RepairUpdates
      BY DEF RepairUpdates
    <3>4. ReapList(t) => ReapList(t)'
      BY <1>2, <3>2 DEF ReapList
    <3>5. JoinList(t) => JoinList(t)'
      BY <3>2 DEF JoinList
    <3>6. Listed(t)'
      BY <3>1, <3>2, <3>3, <3>4, <3>5 DEF Listed
    <3>7. Distinct(todo[t])'
      BY <3>1, <3>2 DEF Distinct
    <3>8. \A k \in Kinds : Unique(Staged(k))'
      BY <1>1, <3>1 DEF Unique
    <3>9. \A k : Applied(t, k)' = Applied(t, k)
      BY <1>2, <3>2 DEF Applied, Done
    <3>. QED BY <1>2, <3>1, <3>6, <3>7, <3>8, <3>9
  <2>. QED BY <2>3, <2>4, <2>5
<1>6. \A k \in Kinds : Unique(Live(k))'
  BY <1>1 DEF RecoveryInv, BankInv, Unique
<1>7. BankInv'
  BY <1>4, <1>5, <1>6 DEF BankInv
<1>. QED BY <1>3, <1>4, <1>5, <1>7 DEF RecoveryInv

(* The holder of the lock takes a step.                                    *)
Held(t) ==
  /\ lock' = <<t>> /\ lock \in {<<>>, <<t>>} /\ at'[t] \in LockedPoints
  /\ at' = [at EXCEPT ![t] = at'[t]]
  /\ \A u \in Threads : u # t =>
       then'[u] = then[u] /\ pos'[u] = pos[u] /\ todo'[u] = todo[u] /\ req'[u] = req[u] /\ ok'[u] = ok[u]
Applies(t) ==
  /\ Listed(t) /\ Distinct(todo[t])
  /\ \A k \in Kinds : Unique(Staged(k)) /\ StagedEntries(k) = Applied(t, k)

(* No other thread is between lock and unlock.                             *)
LEMMA Alone ==
  ASSUME CallInv, RecoveryInv, NEW t \in Threads, lock \in {<<>>, <<t>>}
  PROVE  \A u \in Threads : u # t => at[u] \notin LockedPoints
  BY DEF RecoveryInv, LockInv

(* A step of the thread that holds the lock: what has to be shown is about *)
(* this thread alone.                                                      *)
LEMMA HolderStep ==
  ASSUME CallInv, RecoveryInv, NEW t \in Threads, Held(t),
         Mirrorable', \A k \in Kinds : Unique(Live(k))', Paced(t)', Earned(t)',
         at'[t] \in Applying => Applies(t)'
  PROVE  RecoveryInv'
<1>1. \A u \in Threads : u # t => at[u] \notin LockedPoints
  BY Alone DEF Held
<1>2. /\ \A u \in Threads : u # t => at'[u] = at[u]
      /\ at'[t] \in LockedPoints /\ lock' = <<t>>
  BY DEF Held, CallInv, LocalTypes
<1>3. LockInv'
  BY <1>1, <1>2 DEF LockInv
<1>4. ASSUME NEW u \in Threads, u # t PROVE Paced(u)' /\ Earned(u)' /\ at'[u] \notin Applying
  <2>1. Paced(u) /\ Earned(u) /\ at'[u] = at[u] /\ at'[u] \notin LockedPoints
    BY <1>1, <1>2, <1>4 DEF RecoveryInv
  <2>2. then'[u] = then[u] /\ pos'[u] = pos[u] /\ todo'[u] = todo[u] /\ req'[u] = req[u] /\ ok'[u] = ok[u]
    BY <1>4 DEF Held
  <2>3. Paced(u)'
    BY <2>1, <2>2 DEF Paced, LockedPoints, Applying
  <2>4. Earned(u)'
    BY <2>1, <2>2 DEF Earned, Undecided, Clearing
  <2>. QED BY <2>1, <2>3, <2>4 DEF LockedPoints, Applying
<1>5. BankInv'
  BY <1>4 DEF BankInv, Applies
<1>. QED BY <1>3, <1>4, <1>5 DEF RecoveryInv

(* The maps are left alone, and what is journaled.                         *)
LEMMA SameMaps ==
  ASSUME UNCHANGED <<word, bank>>
  PROVE  /\ \A k : Live(k)' = Live(k) /\ Staged(k)' = Staged(k)
         /\ \A k : Entries(k)' = Entries(k) /\ StagedEntries(k)' = StagedEntries(k)
         /\ \A u : SlotFor(u)' = SlotFor(u)
<1>1. \A k : Live(k)' = Live(k) /\ Staged(k)' = Staged(k)
  BY DEF Live, Staged, Active, Inactive
<1>2. \A k : Entries(k)' = Entries(k) /\ StagedEntries(k)' = StagedEntries(k)
  BY <1>1 DEF Entries, StagedEntries
<1>3. \A u : SlotFor(u)' = SlotFor(u)
  BY <1>1 DEF SlotFor, SlotOfGuest, EmptySlot
<1>. QED BY <1>1, <1>2, <1>3

(* A step that stores nothing: slots that were journaled stay so, and the  *)
(* mirror passes that there are start again.                               *)
LEMMA StillMirrorable ==
  ASSUME CallInv, RecoveryInv, NEW t \in Threads, UNCHANGED <<word, bank, journal>>, Held(t),
         at'[t] = "mirror" => pos'[t] = 1
  PROVE  Mirrorable' /\ \A k \in Kinds : Unique(Live(k))'
<1>1. \A k : Live(k)' = Live(k) /\ Staged(k)' = Staged(k)
  BY SameMaps
<1>2. ASSUME NEW k \in Kinds, NEW i \in Slots, Staged(k)[i] # Live(k)[i]
      PROVE \E j \in 1 .. Len(journal) :
              /\ journal[j] = [kind |-> k, slot |-> i]
              /\ \A u \in Threads : at'[u] = "mirror" => pos'[u] <= j
  <2>1. PICK j \in 1 .. Len(journal) : journal[j] = [kind |-> k, slot |-> i]
    BY <1>2 DEF RecoveryInv, Mirrorable
  <2>2. \A u \in Threads : u # t => at'[u] # "mirror"
    BY Alone DEF Held, CallInv, LocalTypes, LockedPoints
  <2>3. \A u \in Threads : at'[u] = "mirror" => pos'[u] <= j
    BY <2>2
  <2>. QED BY <2>1, <2>3
<1>3. Mirrorable'
  BY <1>1, <1>2 DEF Mirrorable
<1>. QED BY <1>1, <1>3 DEF RecoveryInv, BankInv, Unique

(* The new writer takes the lock, and finds nothing to repair, undoes the  *)
(* announced call, gives the registry up or goes on to its own request.    *)
LEMMA RecoverSteps ==
  ASSUME CallInv, RecoveryInv, NEW t \in Threads,
         TakeLock(t) \/ NothingToRepair(t) \/ RepairBack(t) \/ RepairPoisons(t) \/ Clear(t)
  PROVE  RecoveryInv'
<1>. USE DEF Go, End, storage
<1>1. /\ at \in [Threads -> Points] /\ then \in [Threads -> Places] /\ pos \in [Threads -> Numbers]
      /\ todo \in [Threads -> Seq(AnyUpdate)] /\ ok \in [Threads -> BOOLEAN] /\ Asked(t)
  BY DEF CallInv, LocalTypes
<1>2. Paced(t) /\ Earned(t) /\ (at[t] \in LockedPoints => lock = <<t>>)
  BY DEF RecoveryInv, LockInv
<1>3. CASE TakeLock(t)
  <2>1. Held(t) /\ at'[t] = "mirror" /\ pos'[t] = 1 /\ UNCHANGED <<word, bank, journal>>
    BY <1>1, <1>3 DEF TakeLock, Held, LockedPoints
  <2>2. Paced(t)' /\ Earned(t)'
    BY <1>1, <1>2, <1>3 DEF TakeLock, Paced, Earned, Undecided, Clearing, Applying
  <2>. QED BY <2>1, <2>2, HolderStep, StillMirrorable DEF Applying
<1>4. CASE NothingToRepair(t)
  <2>1. Held(t) /\ at'[t] \in {"body", "unlock"} /\ UNCHANGED <<word, bank, journal>>
    BY <1>1, <1>2, <1>4 DEF NothingToRepair, Recovered, Held, LockedPoints
  <2>2. Paced(t)'
    BY <1>2, <1>4, <2>1 DEF NothingToRepair, Paced, Applying
  <2>3. Earned(t)'
    BY <1>2, <1>4, <2>1 DEF NothingToRepair, Earned, Undecided, Clearing
  <2>. QED BY <2>1, <2>2, <2>3, HolderStep, StillMirrorable DEF Applying
<1>5. CASE RepairBack(t)
  <2>1. Held(t) /\ at'[t] = "clear" /\ UNCHANGED <<word, bank, journal>>
    BY <1>1, <1>2, <1>5 DEF RepairBack, Held, LockedPoints
  <2>2. Paced(t)' /\ Earned(t)'
    BY <1>2, <1>5, <2>1 DEF RepairBack, Paced, Earned, Undecided, Clearing, Applying
  <2>. QED BY <2>1, <2>2, HolderStep, StillMirrorable DEF Applying
<1>6. CASE RepairPoisons(t)
  <2>1. Held(t) /\ at'[t] = "unlock" /\ ok'[t] = FALSE /\ UNCHANGED <<word, bank, journal>>
    BY <1>1, <1>2, <1>6 DEF RepairPoisons, Held, LockedPoints
  <2>2. Paced(t)' /\ Earned(t)'
    BY <1>2, <1>6, <2>1 DEF RepairPoisons, Paced, Earned, Applying
  <2>. QED BY <2>1, <2>2, HolderStep, StillMirrorable DEF Applying
<1>7. CASE Clear(t)
  <2>1. Held(t) /\ at'[t] \in {"body", "unlock"} /\ UNCHANGED <<word, bank, journal>>
    BY <1>1, <1>2, <1>7 DEF Clear, Recovered, Held, LockedPoints
  <2>2. ok'[t] = req[t].made /\ semantic'.op = "none" /\ (req[t].made => at'[t] = "unlock") /\ req' = req
    BY <1>1, <1>7 DEF Clear, Recovered, NoSemantic
  <2>3. Paced(t)'
    BY <1>2, <1>7, <2>1, <2>2 DEF Clear, Paced, Applying
  <2>4. req[t].made => req[t].op # "join"
    BY <1>1 DEF Asked
  <2>5. Earned(t)'
    BY <2>1, <2>2, <2>4 DEF Earned, Undecided, Applying
  <2>. QED BY <2>1, <2>3, <2>5, HolderStep, StillMirrorable DEF Applying
<1>. QED BY <1>3, <1>4, <1>5, <1>6, <1>7

(* A slot is copied from the bank in force: one slot fewer differs,        *)
(* however far the writer before it got.                                   *)
LEMMA MirrorRecovers ==
  ASSUME CallInv, RecoveryInv, NEW t \in Threads, Mirror(t)
  PROVE  RecoveryInv'
<1>1. /\ at \in [Threads -> Points] /\ pos \in [Threads -> Numbers] /\ Paced(t) /\ Earned(t)
      /\ journal \in Seq([kind : Kinds, slot : Slots]) /\ lock = <<t>> /\ at[t] = "mirror"
  BY DEF Mirror, CallInv, LocalTypes, StorageTypes, RecoveryInv, LockInv, LockedPoints
<1>2. /\ UNCHANGED <<word, journal, next, semantic, poisoned, lock, hostVars, at, then, todo, req, ok>>
      /\ pos' = [pos EXCEPT ![t] = @ + 1]
  BY DEF Mirror
<1>3. Held(t) /\ at'[t] = "mirror" /\ pos'[t] = pos[t] + 1
  BY <1>1, <1>2 DEF Held, LockedPoints
<1>4. Paced(t)' /\ Earned(t)'
  BY <1>1, <1>2 DEF Paced, Earned, Undecided, Clearing, Applying
<1>. DEFINE e == journal[pos[t]]
<1>5. pos[t] \in 1 .. Len(journal)
  BY <1>1 DEF Mirror, Numbers
<1>6. e \in [kind : Kinds, slot : Slots]
  BY <1>1, <1>5, ElementOf
<1>7. bank' = [bank EXCEPT ![Inactive][e.kind][e.slot] = Live(e.kind)[e.slot]]
  BY DEF Mirror
<1>. HIDE DEF e
<1>8. \A k \in Kinds : Live(k)' = Live(k)
  BY <1>2, <1>7, BankTypes DEF Live, Active
<1>9. \A k \in Kinds, i \in Slots :
        Staged(k)'[i] = IF k = e.kind /\ i = e.slot THEN Live(k)[i] ELSE Staged(k)[i]
  <2>1. Inactive' = Inactive
    BY <1>2 DEF Inactive
  <2>. QED BY <1>6, <1>7, <2>1, BankTypes DEF Staged
<1>10. Mirrorable'
  <2>. SUFFICES ASSUME NEW k \in Kinds, NEW i \in Slots, Staged(k)'[i] # Live(k)[i]
       PROVE \E j \in 1 .. Len(journal) :
               /\ journal[j] = [kind |-> k, slot |-> i]
               /\ \A u \in Threads : at'[u] = "mirror" => pos'[u] <= j
    BY <1>2, <1>8 DEF Mirrorable
  <2>1. Staged(k)[i] # Live(k)[i] /\ ~(k = e.kind /\ i = e.slot)
    BY <1>9
  <2>2. PICK j \in 1 .. Len(journal) :
          /\ journal[j] = [kind |-> k, slot |-> i]
          /\ \A u \in Threads : at[u] = "mirror" => pos[u] <= j
    BY <2>1 DEF RecoveryInv, Mirrorable
  <2>3. j # pos[t]
    BY <2>1, <2>2 DEF e
  <2>4. pos[t] <= j /\ pos[t] \in Nat /\ j \in Nat
    BY <1>1, <2>2 DEF Numbers
  <2>5. pos'[t] <= j
    BY <1>3, <2>3, <2>4
  <2>6. \A u \in Threads : u # t => at'[u] # "mirror"
    BY <1>1, <1>2, Alone DEF LockedPoints
  <2>7. \A u \in Threads : at'[u] = "mirror" => pos'[u] <= j
    BY <2>5, <2>6
  <2>. QED BY <2>2, <2>7
<1>11. \A k \in Kinds : Unique(Live(k))'
  BY <1>8 DEF RecoveryInv, BankInv, Unique
<1>. QED BY <1>3, <1>4, <1>10, <1>11, HolderStep DEF Applying

(* When all journaled slots are copied the two banks are equal.            *)
LEMMA MirroredRecovers ==
  ASSUME CallInv, RecoveryInv, NEW t \in Threads, Mirrored(t)
  PROVE  RecoveryInv'
<1>1. /\ at \in [Threads -> Points] /\ pos \in [Threads -> Numbers] /\ Paced(t) /\ Earned(t)
      /\ then \in [Threads -> Places]
      /\ journal \in Seq([kind : Kinds, slot : Slots]) /\ lock = <<t>> /\ at[t] = "mirror"
  BY DEF Mirrored, CallInv, LocalTypes, StorageTypes, RecoveryInv, LockInv, LockedPoints
<1>2. /\ UNCHANGED <<word, bank, next, semantic, poisoned, lock, hostVars, todo, req, ok>>
      /\ pos' = [pos EXCEPT ![t] = 1] /\ then' = [then EXCEPT ![t] = "repair"]
      /\ at' = [at EXCEPT ![t] = then[t]] /\ journal' = <<>> /\ pos[t] > Len(journal)
  BY DEF Mirrored, Go
<1>3. Held(t) /\ at'[t] = then[t] /\ pos'[t] = 1 /\ at'[t] \in Places
  BY <1>1, <1>2 DEF Held, LockedPoints, Places
<1>4. Paced(t)'
  BY <1>1, <1>2, <1>3 DEF Paced, Applying, Places
<1>5. Earned(t)'
  BY <1>1, <1>2, <1>3 DEF Earned, Undecided, Clearing, Applying, Places
<1>6. \A k : Live(k)' = Live(k) /\ Staged(k)' = Staged(k)
  BY <1>2, SameMaps
<1>7. \A k \in Kinds, i \in Slots : Staged(k)[i] = Live(k)[i]
  <2>. SUFFICES ASSUME NEW k \in Kinds, NEW i \in Slots, Staged(k)[i] # Live(k)[i] PROVE FALSE
    OBVIOUS
  <2>1. PICK j \in 1 .. Len(journal) : pos[t] <= j
    BY <1>1 DEF RecoveryInv, Mirrorable
  <2>. QED BY <1>1, <1>2, <2>1 DEF Numbers
<1>8. Mirrorable' /\ \A k \in Kinds : Unique(Live(k))'
  BY <1>6, <1>7 DEF Mirrorable, RecoveryInv, BankInv, Unique
<1>. QED BY <1>3, <1>4, <1>5, <1>8, HolderStep DEF Applying, Places

(* A transaction starts from two equal banks.                              *)
LEMMA EqualBanks ==
  ASSUME CallInv, RecoveryInv, journal = <<>>
  PROVE  \A k \in Kinds : /\ \A i \in Slots : Staged(k)[i] = Live(k)[i]
                          /\ StagedEntries(k) = Entries(k)
                          /\ Unique(Staged(k))
<1>1. \A k \in Kinds, i \in Slots : Staged(k)[i] = Live(k)[i]
  BY DEF RecoveryInv, Mirrorable
<1>. QED BY <1>1 DEF StagedEntries, Entries, RecoveryInv, BankInv, Unique

(* A transaction starts: the staged bank is the bank in force, nothing is  *)
(* journaled.                                                              *)
LEMMA Starts ==
  ASSUME CallInv, RecoveryInv, NEW t \in Threads, at[t] \in {"repair", "body"},
         UNCHANGED <<word, bank, journal, pos>>, Held(t), at'[t] = "stage",
         todo'[t] # <<>>, todo'[t] \in Seq(AnyUpdate), ok'[t] = ok[t],
         Listed(t)', Distinct(todo[t])'
  PROVE  RecoveryInv'
<1>1. /\ journal = <<>> /\ pos[t] = 1 /\ Earned(t)
  BY DEF RecoveryInv, Paced
<1>2. Mirrorable' /\ \A k \in Kinds : Unique(Live(k))'
  BY StillMirrorable
<1>3. Paced(t)'
  BY <1>1 DEF Paced, Applying
<1>4. Earned(t)'
  BY <1>1 DEF Earned, Undecided, Clearing, Applying
<1>5. \A k \in Kinds : Unique(Staged(k))' /\ (StagedEntries(k) = Entries(k))'
  BY <1>1, EqualBanks, SameMaps DEF Unique
<1>6. \A k : Done(t, k)' = {}
  BY <1>1 DEF Done
<1>7. \A k : Applied(t, k)' = Entries(k)'
  BY <1>6 DEF Applied
<1>8. Applies(t)'
  BY <1>5, <1>7 DEF Applies
<1>. QED BY <1>2, <1>3, <1>4, <1>8, HolderStep

(* A repair, a launch, a publication and a reap start transactions whose   *)
(* updates are about distinct numbers.                                     *)
LEMMA ForwardRecovers ==
  ASSUME CallInv, RecoveryInv, NEW t \in Threads, RepairForward(t)
  PROVE  RecoveryInv'
<1>1. /\ at \in [Threads -> Points] /\ todo \in [Threads -> Seq(AnyUpdate)] /\ lock = <<t>>
  BY DEF RepairForward, CallInv, LocalTypes, RecoveryInv, LockInv, LockedPoints
<1>2. RepairUpdates \in Seq(AnyUpdate) /\ semantic \in Announced
  BY RepairsAre DEF RepairForward
<1>3. /\ at[t] = "repair" /\ semantic.op # "none"
      /\ at' = [at EXCEPT ![t] = "stage"] /\ todo' = [todo EXCEPT ![t] = RepairUpdates]
      /\ UNCHANGED <<storage, lock, hostVars, then, pos, req, ok, want, seen, found>>
  BY DEF RepairForward, Go
<1>4. Held(t) /\ at'[t] = "stage" /\ todo'[t] = RepairUpdates
  BY <1>1, <1>3 DEF Held, LockedPoints
<1>5. RepairUpdates # <<>> /\ Distinct(RepairUpdates)
  <2>1. CASE semantic.op = "setpgid"
    BY <2>1 DEF RepairUpdates, Distinct
  <2>2. CASE semantic.op # "setpgid"
    BY <2>2 DEF RepairUpdates, Distinct, Update
  <2>. QED BY <2>1, <2>2
<1>6. RepairUpdates' = RepairUpdates
  BY <1>3 DEF RepairUpdates, storage
<1>7. Listed(t)'
  BY <1>3, <1>4, <1>6 DEF Listed, storage
<1>8. Distinct(todo[t])'
  BY <1>4, <1>5 DEF Distinct
<1>. QED BY <1>2, <1>3, <1>4, <1>5, <1>7, <1>8, Starts DEF storage

LEMMA JoinNewRecovers ==
  ASSUME CallInv, RecoveryInv, NEW t \in Threads, JoinNew(t)
  PROVE  RecoveryInv'
<1>1. /\ at \in [Threads -> Points] /\ todo \in [Threads -> Seq(AnyUpdate)] /\ lock = <<t>>
      /\ req \in [Threads -> AnyRequest] /\ semantic.op = "none" /\ req[t].op = "join"
  BY DEF JoinNew, CallInv, LocalTypes, RecoveryInv, LockInv, LockedPoints, Paced
<1>2. t[1] \in Procs /\ pgrp[t[1]] \in Hosts /\ sess[t[1]] \in Hosts
  BY JoinNewIs
<1>3. PICK gp, gg, gs \in Numbers : JoinsAs(t, gp, gg, gs)
  BY JoinNewIs
<1>. DEFINE s == <<Update("pid", gp, t[1]), Update("pgid", gg, pgrp[t[1]]), Update("sid", gs, sess[t[1]])>>
<1>4. todo' = [todo EXCEPT ![t] = s] /\ req' = [req EXCEPT ![t].guest = gp]
  BY <1>3 DEF JoinsAs
<1>5. /\ at[t] = "body" /\ at' = [at EXCEPT ![t] = "stage"]
      /\ UNCHANGED <<word, bank, journal, semantic, poisoned, lock, hostVars, then, pos, ok, want,
                     seen, found>>
  BY DEF JoinNew, Apply, Go
<1>6. s \in Seq(AnyUpdate)
  <2>1. /\ Update("pid", gp, t[1]) \in AnyUpdate /\ Update("pgid", gg, pgrp[t[1]]) \in AnyUpdate
        /\ Update("sid", gs, sess[t[1]]) \in AnyUpdate
    BY <1>2 DEF AnyUpdate, Update, Kinds, SomeHost, Hosts, Members
  <2>. QED BY <2>1
<1>7. /\ Len(s) = 3 /\ s[1] = Update("pid", gp, t[1]) /\ s[2] = Update("pgid", gg, pgrp[t[1]])
      /\ s[3] = Update("sid", gs, sess[t[1]]) /\ s # <<>>
  OBVIOUS
<1>8. Distinct(s)
  BY DEF Distinct, Update
<1>. HIDE DEF s
<1>9. /\ Held(t) /\ at'[t] = "stage" /\ todo'[t] = s /\ req'[t].guest = gp /\ req'[t].op = "join"
  BY <1>1, <1>4, <1>5 DEF Held, LockedPoints, AnyRequest
<1>10. JoinList(t)'
  BY <1>5, <1>7, <1>9 DEF JoinList, hostVars, Update
<1>11. Listed(t)'
  BY <1>1, <1>5, <1>9, <1>10 DEF Listed
<1>12. Distinct(todo[t])'
  BY <1>8, <1>9 DEF Distinct
<1>. QED BY <1>5, <1>6, <1>7, <1>9, <1>11, <1>12, Starts

LEMMA PublishRecovers ==
  ASSUME CallInv, RecoveryInv, NEW t \in Threads, Publish(t)
  PROVE  RecoveryInv'
<1>1. /\ at \in [Threads -> Points] /\ todo \in [Threads -> Seq(AnyUpdate)] /\ lock = <<t>>
      /\ req[t] \in AnyRequest /\ semantic.op = "none" /\ req[t].op = "publish"
      /\ req[t].proc \in Procs /\ req[t].guest # 0
  BY DEF Publish, CallInv, LocalTypes, RecoveryInv, LockInv, LockedPoints, Paced, Asked
<1>. DEFINE u == Update("pid", req[t].guest, req[t].proc)
<1>2. /\ at[t] = "body" /\ at' = [at EXCEPT ![t] = "stage"] /\ todo' = [todo EXCEPT ![t] = <<u>>]
      /\ UNCHANGED <<storage, lock, hostVars, then, pos, req, ok, want, seen, found>>
  BY DEF Publish, Apply, Go
<1>3. u \in AnyUpdate
  BY <1>1 DEF AnyUpdate, Update, Kinds, SomeHost, Hosts, Members, AnyRequest, Numbers
<1>4. Held(t) /\ at'[t] = "stage" /\ todo'[t] = <<u>>
  BY <1>1, <1>2 DEF Held, LockedPoints
<1>5. Listed(t)'
  BY <1>1, <1>2, <1>4 DEF Listed, storage, Update
<1>. HIDE DEF u
<1>6. <<u>> \in Seq(AnyUpdate) /\ <<u>> # <<>> /\ Distinct(<<u>>)
  BY <1>3 DEF Distinct
<1>7. Distinct(todo[t])'
  BY <1>4, <1>6 DEF Distinct
<1>. QED BY <1>2, <1>4, <1>5, <1>6, <1>7, Starts DEF storage

LEMMA ReapRecovers ==
  ASSUME CallInv, RecoveryInv, NEW t \in Threads, Reap(t)
  PROVE  RecoveryInv'
<1>1. /\ at \in [Threads -> Points] /\ todo \in [Threads -> Seq(AnyUpdate)] /\ lock = <<t>>
      /\ ok \in [Threads -> BOOLEAN]
      /\ semantic.op = "none" /\ req[t].op = "reap" /\ req[t].proc \in Procs /\ Paced(t) /\ at[t] = "body"
  BY DEF Reap, CallInv, LocalTypes, RecoveryInv, LockInv, LockedPoints, Paced, Asked
<1>2. UNCHANGED <<storage, lock, hostVars, then, pos, req, want, seen, found>>
  BY DEF Reap
<1>3. CASE GuestOfHost("pid", req[t].proc) = 0
  <2>1. Held(t) /\ at'[t] = "unlock" /\ ok'[t] = FALSE /\ todo' = todo
    BY <1>1, <1>2, <1>3 DEF Reap, End, Go, Held, LockedPoints
  <2>2. Paced(t)' /\ Earned(t)'
    BY <1>1, <1>2, <2>1 DEF storage, Paced, Earned, Applying
  <2>. QED BY <1>2, <2>1, <2>2, HolderStep, StillMirrorable DEF Applying, storage
<1>4. CASE GuestOfHost("pid", req[t].proc) # 0
  <2>. DEFINE s == <<Update("pid", GuestOfHost("pid", req[t].proc), Nobody)>>
                     \o Removals("pgid", req[t].proc) \o Removals("sid", req[t].proc)
  <2>1. at' = [at EXCEPT ![t] = "stage"] /\ todo' = [todo EXCEPT ![t] = s] /\ ok' = ok
    BY <1>4 DEF Reap, Apply, Go
  <2>2. /\ s \in Seq(AnyUpdate) /\ s # <<>> /\ Distinct(s)
        /\ s[1] = Update("pid", GuestOfHost("pid", req[t].proc), Nobody)
        /\ [guest |-> s[1].guest, host |-> req[t].proc] \in Entries("pid")
        /\ \A j \in DOMAIN s :
             /\ s[j].host = Nobody
             /\ j # 1 => s[j].kind # "pid"
             /\ \E e \in Entries(s[j].kind) : e.guest = s[j].guest
    BY <1>1, <1>4, ReapIs DEF RecoveryInv, BankInv
  <2>. HIDE DEF s
  <2>3. Held(t) /\ at'[t] = "stage" /\ todo'[t] = s
    BY <1>1, <1>2, <2>1 DEF Held, LockedPoints
  <2>4. \A k : Entries(k)' = Entries(k)
    BY <1>2, SameMaps DEF storage
  <2>5. ReapList(t)'
    <3>1. PICK v : v = s
      OBVIOUS
    <3>2. /\ todo'[t] = v /\ v # <<>> /\ v[1].kind = "pid"
          /\ \A j \in DOMAIN v : v[j].host = Nobody /\ (j # 1 => v[j].kind # "pid")
      BY <2>2, <2>3, <3>1 DEF Update
    <3>3. \A j \in DOMAIN v : \E e \in Entries(v[j].kind)' : e.guest = v[j].guest
      BY <2>2, <2>4, <3>1
    <3>4. [guest |-> v[1].guest, host |-> req'[t].proc] \in Entries("pid")'
      BY <1>2, <2>2, <2>4, <3>1
    <3>. QED BY <3>2, <3>3, <3>4 DEF ReapList
  <2>6. Listed(t)'
    BY <1>1, <1>2, <2>5 DEF Listed, storage
  <2>7. Distinct(todo[t])'
    BY <2>2, <2>3 DEF Distinct
  <2>. QED BY <1>1, <1>2, <2>1, <2>2, <2>3, <2>6, <2>7, Starts DEF storage
<1>. QED BY <1>3, <1>4

(* Requests that start no transaction.                                     *)
LEMMA BodySteps ==
  ASSUME CallInv, RecoveryInv, NEW t \in Threads,
         JoinAgain(t) \/ Announce(t) \/ HostCall(t) \/ HostRefuses(t)
  PROVE  RecoveryInv'
<1>. USE DEF Go, End, storage, hostVars
<1>1. /\ at \in [Threads -> Points] /\ then \in [Threads -> Places] /\ pos \in [Threads -> Numbers]
      /\ todo \in [Threads -> Seq(AnyUpdate)] /\ ok \in [Threads -> BOOLEAN]
      /\ req \in [Threads -> AnyRequest]
  BY DEF CallInv, LocalTypes
<1>2. Paced(t) /\ Earned(t) /\ lock = <<t>> /\ Asked(t)
  BY DEF RecoveryInv, LockInv, CallInv, LockedPoints, JoinAgain, Announce, HostCall, HostRefuses
<1>3. CASE JoinAgain(t)
  <2>1. Held(t) /\ at'[t] = "unlock" /\ UNCHANGED <<word, bank, journal, pos, todo>>
    BY <1>1, <1>2, <1>3 DEF JoinAgain, Held, LockedPoints
  <2>2. Paced(t)'
    BY <1>2, <1>3, <2>1 DEF JoinAgain, Paced, Applying
  <2>3. req'[t].guest # 0
    BY <1>1, <1>3 DEF JoinAgain, AnyRequest
  <2>4. Earned(t)'
    BY <2>1, <2>3 DEF Earned, Undecided, Clearing, Applying
  <2>. QED BY <2>1, <2>2, <2>4, HolderStep, StillMirrorable DEF Applying
<1>4. CASE Announce(t)
  <2>1. /\ Held(t) /\ at'[t] \in {"unlock", "host"} /\ UNCHANGED <<word, bank, journal, pos, todo, req>>
        /\ ~ok'[t]
    BY <1>1, <1>2, <1>4 DEF Announce, Held, LockedPoints, Earned, Undecided
  <2>2. Paced(t)'
    BY <1>2, <1>4, <2>1 DEF Announce, Paced, Applying
  <2>3. Earned(t)'
    BY <2>1 DEF Earned
  <2>. QED BY <2>1, <2>2, <2>3, HolderStep, StillMirrorable DEF Applying
<1>5. CASE HostCall(t)
  <2>1. /\ Held(t) /\ at'[t] = "repair" /\ UNCHANGED <<word, bank, journal, pos, todo, ok>>
    BY <1>1, <1>2, <1>5 DEF HostCall, Held, LockedPoints
  <2>2. Paced(t)'
    BY <1>2, <1>5, <2>1 DEF HostCall, Paced, Applying
  <2>3. Earned(t)'
    BY <1>2, <1>5, <2>1 DEF HostCall, Earned, Undecided
  <2>. QED BY <2>1, <2>2, <2>3, HolderStep, StillMirrorable DEF Applying
<1>6. CASE HostRefuses(t)
  <2>1. /\ Held(t) /\ at'[t] = "unlock" /\ UNCHANGED <<word, bank, journal, pos, todo>> /\ ~ok'[t]
    BY <1>1, <1>2, <1>6 DEF HostRefuses, Held, LockedPoints
  <2>2. Paced(t)'
    BY <1>2, <1>6, <2>1 DEF HostRefuses, Paced, Applying
  <2>3. Earned(t)'
    BY <2>1 DEF Earned
  <2>. QED BY <2>1, <2>2, <2>3, HolderStep, StillMirrorable DEF Applying
<1>. QED BY <1>3, <1>4, <1>5, <1>6

(* A slot is chosen for the update and journaled.                          *)
LEMMA StageRecovers ==
  ASSUME CallInv, RecoveryInv, NEW t \in Threads, Stage(t)
  PROVE  RecoveryInv'
<1>1. /\ at \in [Threads -> Points] /\ pos \in [Threads -> Numbers] /\ Paced(t) /\ Earned(t)
      /\ journal \in Seq([kind : Kinds, slot : Slots]) /\ lock = <<t>> /\ at[t] = "stage"
      /\ Applies(t)
  BY DEF Stage, CallInv, LocalTypes, StorageTypes, RecoveryInv, LockInv, LockedPoints, BankInv,
         Applying, Applies
<1>. DEFINE u == todo[t][pos[t]]
            e == [kind |-> u.kind, slot |-> SlotFor(u)]
<1>2. /\ UNCHANGED <<word, bank, next, semantic, poisoned, lock, hostVars, then, pos, todo, req, ok>>
      /\ at' = [at EXCEPT ![t] = "store"] /\ journal' = Append(journal, e) /\ SlotFor(u) # 0
  BY DEF Stage, Go
<1>3. Held(t) /\ at'[t] = "store"
  BY <1>1, <1>2 DEF Held, LockedPoints
<1>4. u \in AnyUpdate /\ SlotFor(u) \in Slots
  BY <1>1, <1>2, UpdateIs, SlotForIs
<1>5. e \in [kind : Kinds, slot : Slots]
  BY <1>4 DEF AnyUpdate
<1>6. \A v : SlotFor(v)' = SlotFor(v)
  BY <1>2, SameMaps
<1>7. /\ Len(journal) = pos[t] - 1 /\ pos[t] <= Len(todo[t]) /\ pos[t] \in Nat
      /\ \A j \in DOMAIN journal : journal[j].kind = todo[t][j].kind
  BY <1>1 DEF Paced, Applying, Numbers
<1>. HIDE DEF e
<1>8. /\ Len(journal') = pos[t] /\ journal'[pos[t]] = e /\ DOMAIN journal' = DOMAIN journal \union {pos[t]}
      /\ \A j \in DOMAIN journal : journal'[j] = journal[j]
  BY <1>1, <1>2, <1>5, <1>7
<1>9. Paced(t)'
  <2>1. \A j \in DOMAIN journal' : journal'[j].kind = todo[t][j].kind
    BY <1>7, <1>8 DEF e
  <2>2. PICK v : v = u
    OBVIOUS
  <2>3. /\ SlotFor(v)' \in Slots /\ journal'[pos[t]] = [kind |-> v.kind, slot |-> SlotFor(v)']
        /\ todo'[t][pos'[t]] = v /\ pos'[t] = pos[t]
    BY <1>2, <1>4, <1>6, <1>8, <2>2 DEF e
  <2>. QED BY <1>2, <1>3, <1>7, <1>8, <2>1, <2>3 DEF Paced, Applying
<1>10. Earned(t)'
  BY <1>1, <1>2, <1>3 DEF Earned, Undecided, Applying
<1>11. \A k : /\ Live(k)' = Live(k) /\ Staged(k)' = Staged(k)
              /\ Entries(k)' = Entries(k) /\ StagedEntries(k)' = StagedEntries(k)
  BY <1>2, SameMaps
<1>12. Mirrorable'
  <2>1. ASSUME NEW k \in Kinds, NEW i \in Slots, Staged(k)[i] # Live(k)[i]
        PROVE  \E j \in 1 .. Len(journal') : journal'[j] = [kind |-> k, slot |-> i]
    <3>1. PICK j \in 1 .. Len(journal) : journal[j] = [kind |-> k, slot |-> i]
      BY <2>1 DEF RecoveryInv, Mirrorable
    <3>2. j \in DOMAIN journal
      BY <1>1, <3>1
    <3>3. journal'[j] = journal[j] /\ j \in 1 .. Len(journal')
      BY <1>1, <1>7, <1>8, <3>1, <3>2
    <3>. QED BY <3>1, <3>3
  <2>2. \A v \in Threads : at'[v] # "mirror"
    BY <1>1, <1>2, Alone DEF LockedPoints
  <2>. QED BY <1>11, <2>1, <2>2 DEF Mirrorable
<1>13. \A k \in Kinds : Unique(Live(k))'
  BY <1>11 DEF RecoveryInv, BankInv, Unique
<1>14. Applies(t)'
  <2>1. Listed(t)'
    <3>1. Listed(t) /\ UNCHANGED <<semantic, pos, todo, req, pgrp, sess>>
      BY <1>1, <1>2 DEF Applies, hostVars
    <3>2. RepairUpdates' = RepairUpdates
      BY <3>1 DEF RepairUpdates
    <3>3. (ReapList(t) => ReapList(t)') /\ (JoinList(t) => JoinList(t)')
      BY <1>11, <3>1 DEF ReapList, JoinList
    <3>. QED BY <3>1, <3>2, <3>3 DEF Listed
  <2>2. Distinct(todo[t])'
    BY <1>1, <1>2 DEF Applies, Distinct
  <2>3. \A k : Applied(t, k)' = Applied(t, k)
    BY <1>2, <1>11 DEF Applied, Done
  <2>4. \A k \in Kinds : Unique(Staged(k))'
    BY <1>1, <1>11 DEF Applies, Unique
  <2>. QED BY <1>1, <1>11, <2>1, <2>2, <2>3, <2>4 DEF Applies
<1>. QED BY <1>3, <1>9, <1>10, <1>12, <1>13, <1>14, HolderStep

(* A transaction that finds no slot is given up; the journaled slots are   *)
(* restored.                                                               *)
LEMMA EndSteps ==
  ASSUME CallInv, RecoveryInv, NEW t \in Threads, StageFails(t) \/ Fail(t)
  PROVE  RecoveryInv'
<1>. USE DEF Go, End, storage
<1>1. /\ at \in [Threads -> Points] /\ then \in [Threads -> Places] /\ pos \in [Threads -> Numbers]
      /\ todo \in [Threads -> Seq(AnyUpdate)] /\ ok \in [Threads -> BOOLEAN]
  BY DEF CallInv, LocalTypes
<1>2. Paced(t) /\ Earned(t) /\ lock = <<t>>
  BY DEF RecoveryInv, LockInv, LockedPoints, StageFails, Fail
<1>3. CASE StageFails(t)
  <2>1. /\ Held(t) /\ at'[t] = "mirror" /\ pos'[t] = 1 /\ then'[t] = "fail"
        /\ UNCHANGED <<word, bank, journal, ok, todo>>
    BY <1>1, <1>2, <1>3 DEF StageFails, Held, LockedPoints
  <2>2. Paced(t)' /\ Earned(t)'
    BY <1>2, <1>3, <2>1 DEF StageFails, Paced, Earned, Undecided, Clearing, Applying
  <2>. QED BY <2>1, <2>2, HolderStep, StillMirrorable DEF Applying
<1>4. CASE Fail(t)
  <2>1. Held(t) /\ at'[t] = "unlock" /\ ~ok'[t] /\ UNCHANGED <<word, bank, journal, pos>> /\ todo'[t] = <<>>
    BY <1>1, <1>2, <1>4 DEF Fail, Held, LockedPoints
  <2>2. Paced(t)' /\ Earned(t)'
    BY <1>2, <1>4, <2>1 DEF Fail, Paced, Earned, Applying
  <2>. QED BY <2>1, <2>2, HolderStep, StillMirrorable DEF Applying
<1>. QED BY <1>3, <1>4

(* The commit word turns the staged bank into the bank in force: the maps  *)
(* then hold all updates of the transaction and nothing else new.          *)
LEMMA CommitRecovers ==
  ASSUME CallInv, RecoveryInv, NEW t \in Threads, Commit(t)
  PROVE  RecoveryInv' /\ \A k \in Kinds : Entries(k)' = Applied(t, k)
<1>1. /\ at \in [Threads -> Points] /\ then \in [Threads -> Places] /\ pos \in [Threads -> Numbers]
      /\ todo \in [Threads -> Seq(AnyUpdate)] /\ ok \in [Threads -> BOOLEAN]
      /\ Paced(t) /\ Earned(t) /\ lock = <<t>> /\ at[t] = "commit" /\ Applies(t)
  BY DEF Commit, CallInv, LocalTypes, RecoveryInv, LockInv, LockedPoints, BankInv, Applying, Applies
<1>2. /\ word'.bank = Inactive /\ at' = [at EXCEPT ![t] = "mirror"] /\ pos' = [pos EXCEPT ![t] = 1]
      /\ then' = [then EXCEPT ![t] = IF semantic.op = "none" THEN "unlock" ELSE "clear"]
      /\ todo' = [todo EXCEPT ![t] = <<>>] /\ ok' = [ok EXCEPT ![t] = TRUE]
      /\ UNCHANGED <<bank, journal, semantic, lock, hostVars, req>>
  BY DEF Commit, Go
<1>3. Held(t) /\ at'[t] = "mirror" /\ pos'[t] = 1 /\ todo'[t] = <<>>
  BY <1>1, <1>2 DEF Held, LockedPoints
<1>4. \A k : Live(k)' = Staged(k) /\ Staged(k)' = Live(k)
  <2>1. word.bank \in {0, 1}
    BY BankTypes
  <2>2. Active' = Inactive /\ Inactive' = Active
    BY <1>2, <2>1 DEF Active, Inactive
  <2>. QED BY <1>2, <2>2 DEF Live, Staged
<1>5. Paced(t)'
  BY <1>3 DEF Paced, Applying
<1>6. Earned(t)'
  <2>1. CASE semantic.op # "none"
    BY <1>1, <1>2, <1>3, <2>1 DEF Earned, Undecided, Clearing, Applying
  <2>2. CASE semantic.op = "none"
    <3>1. req[t].op = "join" => JoinList(t)
      BY <1>1, <2>2 DEF Applies, Listed
    <3>2. ASSUME JoinList(t) PROVE todo[t][1] \in AnyUpdate /\ req[t].guest = todo[t][1].guest
      <4>1. todo[t] \in Seq(AnyUpdate) /\ 1 \in 1 .. Len(todo[t])
        BY <1>1, <3>2 DEF JoinList
      <4>2. todo[t][1] \in AnyUpdate
        BY <4>1, ElementOf
      <4>. QED BY <3>2, <4>2 DEF JoinList, Update
    <3>3. req[t].op = "join" => req[t].guest # 0
      BY <3>1, <3>2 DEF AnyUpdate, Numbers
    <3>4. then'[t] = "unlock"
      BY <1>1, <1>2, <2>2
    <3>. QED BY <1>2, <1>3, <3>3, <3>4 DEF Earned, Undecided, Applying
  <2>. QED BY <2>1, <2>2
<1>7. Mirrorable'
  <2>1. ASSUME NEW k \in Kinds, NEW i \in Slots, Live(k)[i] # Staged(k)[i]
        PROVE  \E j \in 1 .. Len(journal) :
                 /\ journal[j] = [kind |-> k, slot |-> i]
                 /\ \A v \in Threads : at'[v] = "mirror" => pos'[v] <= j
    <3>1. PICK j \in 1 .. Len(journal) : journal[j] = [kind |-> k, slot |-> i]
      BY <2>1 DEF RecoveryInv, Mirrorable
    <3>2. \A v \in Threads : v # t => at'[v] # "mirror"
      BY <1>1, <1>2, Alone DEF LockedPoints
    <3>3. \A v \in Threads : at'[v] = "mirror" => pos'[v] <= j
      BY <1>3, <3>2
    <3>. QED BY <3>1, <3>3
  <2>2. \A k : (Staged(k)' = Live(k)) /\ (Live(k)' = Staged(k)) /\ journal' = journal
    BY <1>2, <1>4
  <2>. QED BY <2>1, <2>2 DEF Mirrorable
<1>8. \A k \in Kinds : Unique(Live(k))'
  BY <1>1, <1>4 DEF Applies, Unique
<1>9. \A k \in Kinds : Entries(k)' = Applied(t, k)
  BY <1>1, <1>4 DEF Applies, Entries, StagedEntries
<1>. QED BY <1>3, <1>5, <1>6, <1>7, <1>8, <1>9, HolderStep DEF Applying

(* A bank in which the slot that was chosen for a number is written.       *)
LEMMA Overwritten ==
  ASSUME NEW b, NEW c, NEW i \in Slots, NEW g \in Numbers, NEW e,
         Unique(b), \A j \in Slots : c[j] = IF j = i THEN e ELSE b[j],
         e = Free \/ e.guest = g,
         \/ b[i].guest = g
         \/ b[i] = Free /\ \A j \in Slots : b[j].guest # g
  PROVE  /\ Unique(c)
         /\ {c[j] : j \in Slots} \ {Free}
              = {x \in {b[j] : j \in Slots} \ {Free} : x.guest # g} \union ({e} \ {Free})
<1>1. g # 0 /\ Free.guest = 0
  BY DEF Numbers, Free
<1>2. \A j \in Slots : b[j].guest = g => j = i
  BY <1>1 DEF Unique
<1>3. Unique(c)
  <2>. SUFFICES ASSUME NEW m \in Slots, NEW n \in Slots, c[m].guest = c[n].guest, c[m].guest # 0
       PROVE m = n
    BY DEF Unique
  <2>1. CASE m # i /\ n # i
    BY <2>1 DEF Unique
  <2>2. CASE m = i \/ n = i
    BY <1>1, <1>2, <2>2
  <2>. QED BY <2>1, <2>2
<1>4. ASSUME NEW x, x \in {c[j] : j \in Slots} \ {Free}
      PROVE  x \in {y \in {b[j] : j \in Slots} \ {Free} : y.guest # g} \union ({e} \ {Free})
  <2>1. PICK j \in Slots : x = c[j] /\ x # Free
    BY <1>4
  <2>. QED BY <1>2, <2>1
<1>5. ASSUME NEW x, x \in {b[j] : j \in Slots} \ {Free}, x.guest # g
      PROVE  x \in {c[j] : j \in Slots} \ {Free}
  <2>1. PICK j \in Slots : x = b[j] /\ x # Free
    BY <1>5
  <2>2. j # i
    BY <1>1, <1>5, <2>1
  <2>. QED BY <2>1, <2>2
<1>6. ASSUME e # Free PROVE e \in {c[j] : j \in Slots} \ {Free}
  BY <1>6
<1>. QED BY <1>3, <1>4, <1>5, <1>6

(* The entries of a map changed by the updates of a set, and one more.     *)
Changed(E, F) ==
  {x \in E : \A v \in F : v.guest # x.guest}
    \union {[guest |-> v.guest, host |-> v.host] : v \in {w \in F : w.host # Nobody}}

EntryFor(u) == IF u.host = Nobody THEN Free ELSE [guest |-> u.guest, host |-> u.host]

(* One more update applied to a set of entries.                            *)
LEMMA OneMore ==
  ASSUME NEW E, NEW D, NEW u, u.guest # 0, \A v \in D : v.guest # u.guest
  PROVE  \A x : x \in Changed(E, D \union {u}) <=>
                (x \in Changed(E, D) /\ x.guest # u.guest) \/ (x = EntryFor(u) /\ EntryFor(u) # Free)
<1>1. CASE u.host = Nobody
  BY <1>1 DEF Changed, EntryFor
<1>2. CASE u.host # Nobody
  <2>1. EntryFor(u) = [guest |-> u.guest, host |-> u.host] /\ EntryFor(u) # Free
    BY <1>2 DEF Free, EntryFor
  <2>. QED BY <1>2, <2>1 DEF Changed
<1>. QED BY <1>1, <1>2

(* The updates that are stored, after one more store.                      *)
LEMMA DoneGrows ==
  ASSUME NEW t, NEW k, pos[t] \in Numbers, UNCHANGED todo, pos'[t] = pos[t] + 1
  PROVE  Done(t, k)' = IF todo[t][pos[t]].kind = k THEN Done(t, k) \union {todo[t][pos[t]]} ELSE Done(t, k)
<1>1. 1 .. pos[t] = (1 .. pos[t] - 1) \union {pos[t]}
  BY DEF Numbers
<1>2. 1 .. pos'[t] - 1 = 1 .. pos[t]
  BY DEF Numbers
<1>3. Done(t, k)' = {todo[t][j] : j \in {i \in 1 .. pos[t] : todo[t][i].kind = k}}
  BY <1>2 DEF Done
<1>. QED BY <1>1, <1>3 DEF Done

(* The staged bank holds the maps in force changed by the updates stored   *)
(* so far, also after this one.                                            *)
LEMMA StoreRecovers ==
  ASSUME CallInv, RecoveryInv, NEW t \in Threads, Store(t)
  PROVE  RecoveryInv'
<1>1. /\ at \in [Threads -> Points] /\ pos \in [Threads -> Numbers] /\ Paced(t) /\ Earned(t)
      /\ journal \in Seq([kind : Kinds, slot : Slots]) /\ lock = <<t>> /\ at[t] = "store"
      /\ Applies(t)
  BY DEF Store, CallInv, LocalTypes, StorageTypes, RecoveryInv, LockInv, LockedPoints, BankInv,
         Applying, Applies
<1>2. /\ UNCHANGED <<word, journal, semantic, poisoned, lock, hostVars, then, todo, req, ok>>
      /\ at' = [at EXCEPT ![t] = IF pos[t] < Len(todo[t]) THEN "stage" ELSE "commit"]
      /\ pos' = [pos EXCEPT ![t] = @ + 1]
  BY DEF Store, Go
<1>3. Held(t) /\ at'[t] = (IF pos[t] < Len(todo[t]) THEN "stage" ELSE "commit") /\ pos'[t] = pos[t] + 1
  BY <1>1, <1>2 DEF Held, LockedPoints
<1>20. PICK u : u = todo[t][pos[t]]
  OBVIOUS
<1>21. PICK e : e = IF u.host = Nobody THEN Free ELSE [guest |-> u.guest, host |-> u.host]
  OBVIOUS
<1>4. /\ u = todo[t][pos[t]]
      /\ e = IF u.host = Nobody THEN Free ELSE [guest |-> u.guest, host |-> u.host]
      /\ u \in AnyUpdate /\ u.kind \in Kinds /\ SlotFor(u) \in Slots
      /\ journal[pos[t]] = [kind |-> u.kind, slot |-> SlotFor(u)]
      /\ bank' = [bank EXCEPT ![Inactive][u.kind][SlotFor(u)] = e]
  BY <1>1, <1>20, <1>21, StoreIs
<1>5. PICK i \in Slots : i = SlotFor(u)
  BY <1>4
<1>6. /\ \A k \in Kinds : Live(k)' = Live(k)
      /\ \A k \in Kinds, j \in Slots :
           Staged(k)'[j] = IF k = u.kind /\ j = i THEN e ELSE Staged(k)[j]
  <2>1. Inactive' = Inactive
    BY <1>2 DEF Inactive
  <2>2. \A k \in Kinds : Live(k)' = Live(k)
    BY <1>2, <1>4, BankTypes DEF Live, Active
  <2>. QED BY <1>4, <1>5, <2>1, <2>2, BankTypes DEF Staged
<1>7. \A k \in Kinds : Entries(k)' = Entries(k)
  BY <1>6 DEF Entries
<1>8. Paced(t)'
  <2>1. /\ Len(journal) = pos[t] /\ pos[t] <= Len(todo[t]) /\ pos[t] \in Nat /\ Len(todo[t]) \in Nat
        /\ \A j \in DOMAIN journal : journal[j].kind = todo[t][j].kind
    BY <1>1, UpdateIs DEF Paced, Applying, Numbers
  <2>. QED BY <1>2, <1>3, <2>1 DEF Paced, Applying
<1>9. Earned(t)'
  BY <1>1, <1>2, <1>3 DEF Earned, Undecided, Applying
<1>10. Mirrorable'
  <2>1. ASSUME NEW k \in Kinds, NEW j \in Slots, Staged(k)'[j] # Live(k)[j]
        PROVE  \E m \in 1 .. Len(journal) : journal[m] = [kind |-> k, slot |-> j]
    <3>1. CASE k = u.kind /\ j = i
      <4>1. pos[t] \in 1 .. Len(journal)
        BY <1>1 DEF Paced, Numbers
      <4>. QED BY <1>4, <1>5, <3>1, <4>1
    <3>2. CASE ~(k = u.kind /\ j = i)
      BY <1>6, <2>1, <3>2 DEF RecoveryInv, Mirrorable
    <3>. QED BY <3>1, <3>2
  <2>2. \A v \in Threads : at'[v] # "mirror"
    BY <1>1, <1>2, Alone DEF LockedPoints
  <2>. QED BY <1>2, <1>6, <2>1, <2>2 DEF Mirrorable
<1>11. \A k \in Kinds : Unique(Live(k))'
  BY <1>6 DEF RecoveryInv, BankInv, Unique
<1>12. Listed(t)' /\ Distinct(todo[t])'
  <2>1. Listed(t) /\ UNCHANGED <<semantic, todo, req, pgrp, sess>>
    BY <1>1, <1>2 DEF Applies, hostVars
  <2>2. RepairUpdates' = RepairUpdates
    BY <2>1 DEF RepairUpdates
  <2>3. ReapList(t) => ReapList(t)'
    <3>1. todo[t] \in Seq(AnyUpdate)
      BY DEF CallInv, LocalTypes
    <3>2. \A j \in DOMAIN todo[t] : todo[t][j].kind \in Kinds
      BY <3>1, ElementOf DEF AnyUpdate
    <3>3. "pid" \in Kinds
      BY DEF Kinds
    <3>. QED BY <1>7, <2>1, <3>2, <3>3 DEF ReapList
  <2>4. JoinList(t) => JoinList(t)'
    BY <2>1 DEF JoinList
  <2>5. Distinct(todo[t])'
    BY <1>1, <2>1 DEF Applies, Distinct
  <2>. QED BY <2>1, <2>2, <2>3, <2>4, <2>5 DEF Listed
<1>13. ASSUME NEW k \in Kinds PROVE Unique(Staged(k))' /\ (StagedEntries(k) = Applied(t, k))'
  <2>1. Unique(Staged(k)) /\ StagedEntries(k) = Applied(t, k) /\ Distinct(todo[t])
    BY <1>1 DEF Applies
  <2>2. Done(t, k)' = IF u.kind = k THEN Done(t, k) \union {u} ELSE Done(t, k)
    BY <1>1, <1>2, <1>3, <1>4, DoneGrows
  <2>3. CASE k # u.kind
    <3>1. Applied(t, k)' = Applied(t, k)
      BY <1>7, <2>2, <2>3 DEF Applied
    <3>. QED BY <1>6, <2>1, <2>3, <3>1 DEF StagedEntries, Unique
  <2>4. CASE k = u.kind
    <3>1. PICK b, c : b = Staged(k) /\ c = Staged(k)'
      OBVIOUS
    <3>2. /\ \A j \in Slots : c[j] = IF j = i THEN e ELSE b[j]
          /\ e = Free \/ (e.guest = u.guest /\ u.guest \in Numbers)
          /\ \/ b[i].guest = u.guest
             \/ b[i] = Free /\ \A j \in Slots : b[j].guest # u.guest
      <4>1. u.guest \in Numbers
        BY <1>4 DEF AnyUpdate
      <4>2. \/ b[i].guest = u.guest
            \/ b[i] = Free /\ \A j \in Slots : b[j].guest # u.guest
        <5>1. i # 0
          BY DEF Slots
        <5>. QED BY <1>5, <2>4, <3>1, <5>1, SlotForIs
      <4>3. \A j \in Slots : c[j] = IF j = i THEN e ELSE b[j]
        <5>1. \A j \in Slots : Staged(k)'[j] = IF j = i THEN e ELSE Staged(k)[j]
          BY <1>6, <2>4
        <5>. QED BY <3>1, <5>1
      <4>4. e = Free \/ e.guest = u.guest
        BY <1>4
      <4>. QED BY <4>1, <4>2, <4>3, <4>4
    <3>3. u.guest \in Numbers
      BY <1>4 DEF AnyUpdate
    <3>4. /\ Unique(c)
          /\ {c[j] : j \in Slots} \ {Free}
               = {x \in {b[j] : j \in Slots} \ {Free} : x.guest # u.guest} \union ({e} \ {Free})
      <4>1. Unique(b) /\ i \in Slots
        BY <2>1, <3>1
      <4>. QED BY <3>2, <3>3, <4>1, Overwritten
    <3>5. Unique(Staged(k))'
      BY <3>1, <3>4 DEF Unique
    <3>6. StagedEntries(k)' = {x \in Applied(t, k) : x.guest # u.guest} \union ({e} \ {Free})
      BY <2>1, <3>1, <3>4 DEF StagedEntries
    <3>7. \A v \in Done(t, k) : v.guest # u.guest
      <4>1. pos[t] \in DOMAIN todo[t] /\ pos[t] \in Numbers /\ todo[t] \in Seq(AnyUpdate)
        BY <1>1, UpdateIs
      <4>. SUFFICES ASSUME NEW m \in 1 .. pos[t] - 1, todo[t][m].kind = k PROVE todo[t][m].guest # u.guest
        BY DEF Done
      <4>2. m \in DOMAIN todo[t] /\ m # pos[t]
        BY <4>1 DEF Numbers
      <4>. QED BY <1>4, <2>1, <2>4, <4>1, <4>2 DEF Distinct
    <3>8. Applied(t, k)' = {x \in Applied(t, k) : x.guest # u.guest} \union ({e} \ {Free})
      <4>1. Done(t, k)' = Done(t, k) \union {u} /\ Entries(k)' = Entries(k)
        BY <1>7, <2>2, <2>4
      <4>2. Applied(t, k) = Changed(Entries(k), Done(t, k))
        BY DEF Applied, Changed
      <4>3. Applied(t, k)' = Changed(Entries(k), Done(t, k) \union {u})
        BY <4>1 DEF Applied, Changed
      <4>4. \A x : x \in Changed(Entries(k), Done(t, k) \union {u}) <=>
                     (x \in Changed(Entries(k), Done(t, k)) /\ x.guest # u.guest) \/ (x = e /\ e # Free)
        <5>1. u.guest # 0 /\ e = EntryFor(u)
          BY <1>4 DEF EntryFor, AnyUpdate, Numbers
        <5>2. PICK E : E = Entries(k)
          OBVIOUS
        <5>3. PICK D : D = Done(t, k)
          OBVIOUS
        <5>4. \A v \in D : v.guest # u.guest
          BY <3>7, <5>3
        <5>5. \A x : x \in Changed(E, D \union {u}) <=>
                     (x \in Changed(E, D) /\ x.guest # u.guest) \/ (x = e /\ e # Free)
          BY <5>1, <5>4, OneMore
        <5>. QED BY <5>2, <5>3, <5>5
      <4>. QED BY <4>2, <4>3, <4>4
    <3>. QED BY <3>5, <3>6, <3>8
  <2>. QED BY <2>3, <2>4
<1>14. Applies(t)'
  BY <1>12, <1>13 DEF Applies
<1>. QED BY <1>3, <1>8, <1>9, <1>10, <1>11, <1>14, HolderStep

(* Steps that have nothing to do with the maps.                            *)
LEMMA Restful ==
  ASSUME CallInv, RecoveryInv, NEW t \in Threads, at[t] \notin LockedPoints
  PROVE  todo[t] = <<>> /\ lock # <<t>> /\ (Undecided(t) => ~ok[t])
  BY DEF RecoveryInv, LockInv, Paced, Earned, Applying, LockedPoints

(* Between two requests, and in a lookup, a thread holds no lock.          *)
LEMMA TurnRecovers ==
  ASSUME CallInv, RecoveryInv, NEW t, t \in Threads => at[t] \notin LockedPoints,
         NEW x \in {"lock", "look", "idle"}, NEW r, NEW w, Turn(t, x, r, w),
         \A u \in Threads : at[u] \in LockedPoints => pgrp'[u[1]] = pgrp[u[1]] /\ sess'[u[1]] = sess[u[1]]
  PROVE  RecoveryInv'
<1>1. /\ UNCHANGED <<word, bank, journal, semantic, lock, then, pos, todo>>
      /\ \A u \in Threads : u # t => at'[u] = at[u] /\ req'[u] = req[u] /\ ok'[u] = ok[u]
      /\ t \in Threads => at'[t] = x /\ ok'[t] = FALSE
  BY DEF Turn, Go, storage, CallInv, LocalTypes
<1>2. \A u \in Threads : u # t => Same(u)
  BY <1>1 DEF Same
<1>3. t \in Threads => Rests(t)
  BY <1>1, Restful DEF Rests, LockedPoints
<1>4. LockInv'
  <2>1. LockInv
    BY DEF RecoveryInv
  <2>2. t \in Threads => at'[t] \notin LockedPoints /\ lock # <<t>>
    BY <1>1, Restful DEF LockedPoints
  <2>. QED BY <1>1, <2>1, <2>2 DEF LockInv
<1>. QED BY <1>1, <1>2, <1>3, <1>4, Bystanders

LEMMA LookRecovers ==
  ASSUME CallInv, RecoveryInv, NEW t \in Threads, Unlock(t) \/ Look(t) \/ Scan(t) \/ Recheck(t)
  PROVE  RecoveryInv'
<1>. USE DEF Go, storage, hostVars
<1>1. /\ at \in [Threads -> Points] /\ ok \in [Threads -> BOOLEAN] /\ Paced(t) /\ Earned(t) /\ LockInv
      /\ Asked(t) /\ pos \in [Threads -> Numbers]
  BY DEF CallInv, LocalTypes, RecoveryInv
<1>2. /\ UNCHANGED <<word, bank, journal, semantic, then, todo, req, pgrp, sess>>
      /\ \A u \in Threads : u # t => at'[u] = at[u] /\ pos'[u] = pos[u] /\ ok'[u] = ok[u]
      /\ at'[t] \notin LockedPoints /\ todo[t] = <<>>
      /\ (at[t] = "unlock" /\ lock' = <<>>) \/ (at[t] \notin LockedPoints /\ lock' = lock)
  <2>1. CASE Unlock(t)
    <3>1. todo[t] = <<>>
      BY <1>1, <2>1 DEF Unlock, Paced, Applying
    <3>2. at' = [at EXCEPT ![t] = "done"] /\ at[t] = "unlock" /\ lock' = <<>>
      BY <2>1 DEF Unlock
    <3>3. UNCHANGED <<word, bank, journal, semantic, then, pos, ok, todo, req, pgrp, sess>>
      BY <2>1 DEF Unlock
    <3>. QED BY <1>1, <3>1, <3>2, <3>3 DEF LockedPoints
  <2>2. CASE Look(t)
    BY <1>1, <2>2, Restful DEF Look, LockedPoints
  <2>3. CASE Scan(t)
    BY <1>1, <2>3, Restful DEF Scan, LockedPoints
  <2>4. CASE Recheck(t)
    BY <1>1, <2>4, Restful DEF Recheck, LockedPoints
  <2>. QED BY <2>1, <2>2, <2>3, <2>4
<1>3. \A u \in Threads : u # t => Same(u)
  BY <1>2 DEF Same
<1>4. Rests(t)
  <2>1. at'[t] \in {"done", "looked", "scan", "recheck"}
    BY <1>1 DEF Unlock, Look, Scan, Recheck
  <2>2. ~Undecided(t)'
    BY <2>1 DEF Undecided, Applying
  <2>3. req[t].op = "join" => at[t] = "unlock" /\ ok' = ok
    BY <1>1 DEF Unlock, Look, Scan, Recheck, Asked, LookPoints
  <2>. QED BY <1>1, <1>2, <2>2, <2>3 DEF Rests, Earned, Clearing
<1>5. LockInv'
  BY <1>1, <1>2 DEF LockInv, LockedPoints
<1>. QED BY <1>2, <1>3, <1>4, <1>5, Bystanders

LEMMA BeginRecovers ==
  ASSUME CallInv, RecoveryInv, NEW t \in Threads, Starting(t), at[t] = "done", Begin(t), UNCHANGED hostVars
  PROVE  RecoveryInv'
<1>1. /\ at' = [u \in Threads |-> IF u[1] = t[1] THEN "idle" ELSE at[u]]
      /\ req' = [req EXCEPT ![t] = NoRequest] /\ ok' = [ok EXCEPT ![t] = FALSE]
      /\ UNCHANGED <<word, bank, journal, semantic, lock, then, pos, todo, pgrp, sess>>
  BY DEF Begin, storage, hostVars
<1>2. \A u \in Threads : u # t /\ u[1] = t[1] => at[u] = "dead"
  BY DEF CallInv, LifeInv
<1>3. ASSUME NEW u \in Threads, u[1] # t[1] PROVE Same(u) /\ at'[u] = at[u]
  <2>1. u # t
    BY <1>3
  <2>2. at'[u] = at[u] /\ req'[u] = req[u] /\ ok'[u] = ok[u]
    BY <1>1, <1>3, <2>1 DEF CallInv, LocalTypes
  <2>. QED BY <1>1, <2>2 DEF Same
<1>4. ASSUME NEW u \in Threads, u[1] = t[1] PROVE Rests(u) /\ at[u] \notin LockedPoints /\ at'[u] \notin LockedPoints
  <2>1. at[u] \in {"dead", "done"} /\ at'[u] = "idle"
    BY <1>1, <1>2, <1>4
  <2>2. at[u] = "dead" => ~ok[u]
    BY Restful DEF Undecided, LockedPoints
  <2>3. ~ok'[u]
    BY <1>1, <1>2, <1>4, <2>2 DEF CallInv, LocalTypes
  <2>. QED BY <1>1, <2>1, <2>3, Restful DEF Rests, LockedPoints
<1>5. LockInv'
  BY <1>1, <1>3, <1>4 DEF RecoveryInv, LockInv
<1>. QED BY <1>1, <1>3, <1>4, <1>5, Bystanders

(* A thread can stop between any two stores: the lock is dropped, the      *)
(* journal says which slots the next writer has to copy.                   *)
LEMMA StopRecovers ==
  ASSUME CallInv, RecoveryInv, NEW over, over \subseteq Procs, NEW reaped, NEW resting,
         \A t \in Threads : t \in resting => at[t] \notin LockedPoints,
         Ends(over, reaped), Stops(over, resting)
  PROVE  RecoveryInv'
<1>1. /\ lock' = IF \E p \in over : \E t \in Of(p) : lock = <<t>> THEN <<>> ELSE lock
      /\ UNCHANGED <<word, bank, journal, semantic, pgrp, sess>>
  BY DEF Ends, storage
<1>2. ASSUME NEW t \in Threads
      PROVE  \/ at'[t] = "dead" /\ todo'[t] = <<>> /\ ok'[t] = FALSE /\ t[1] \in over
             \/ /\ at'[t] = "idle" /\ todo'[t] = todo[t] /\ ok'[t] = FALSE
                /\ at[t] \notin LockedPoints /\ t[1] \notin over
             \/ /\ at'[t] = at[t] /\ then'[t] = then[t] /\ pos'[t] = pos[t] /\ todo'[t] = todo[t]
                /\ req'[t] = req[t] /\ ok'[t] = ok[t] /\ t[1] \notin over
  BY DEF Stops
<1>3. \A t \in Threads : Same(t) \/ Rests(t)
  BY <1>1, <1>2, Restful DEF Same, Rests, LockedPoints
<1>4. LockInv'
  <2>. SUFFICES ASSUME NEW t \in Threads PROVE at'[t] \in LockedPoints <=> lock' = <<t>>
    BY DEF LockInv
  <2>1. at[t] \in LockedPoints <=> lock = <<t>>
    BY DEF RecoveryInv, LockInv
  <2>2. CASE t[1] \in over
    <3>1. lock' # <<t>>
      BY <1>1, <2>2 DEF Of
    <3>. QED BY <1>2, <2>2, <3>1 DEF LockedPoints
  <2>3. CASE t[1] \notin over
    <3>1. lock' = <<t>> <=> lock = <<t>>
      <4>1. ASSUME lock = <<t>>, NEW p \in over, NEW v \in Of(p), lock = <<v>> PROVE FALSE
        <5>1. v = t
          BY <4>1
        <5>. QED BY <2>3, <4>1, <5>1 DEF Of
      <4>2. lock = <<t>> => lock' = lock
        BY <1>1, <4>1
      <4>3. lock' # <<>> => lock' = lock
        BY <1>1
      <4>. QED BY <4>2, <4>3
    <3>. QED BY <1>2, <2>1, <2>3, <3>1 DEF LockedPoints
  <2>. QED BY <2>2, <2>3
<1>. QED BY <1>1, <1>3, <1>4, Bystanders

(* A process that is created has no thread between lock and unlock.        *)
LEMMA BornRecovers ==
  ASSUME CallInv, RecoveryInv, NEW c \in Procs, ~Exists(c), NEW g, NEW s,
         pgrp' = [pgrp EXCEPT ![c] = g], sess' = [sess EXCEPT ![c] = s]
  PROVE  \A u \in Threads : at[u] \in LockedPoints => pgrp'[u[1]] = pgrp[u[1]] /\ sess'[u[1]] = sess[u[1]]
<1>1. \A u \in Threads : u[1] = c => at[u] = "dead"
  BY Asleep
<1>2. \A u \in Threads : at[u] \in LockedPoints => u[1] # c
  BY <1>1 DEF LockedPoints
<1>3. \A u \in Threads : u[1] \in Procs
  BY IdentityAssumption DEF IdentityAssumption
<1>. QED BY <1>2, <1>3 DEF CallInv, HostTypes

LEMMA LaunchRecovers ==
  ASSUME CallInv, RecoveryInv, NEW p \in Procs, NEW g \in Hosts, NEW s \in Hosts, Launch(p, g, s)
  PROVE  RecoveryInv'
<1>. DEFINE t == Main(p)
            r == Request("join", p, 0, g, 0)
<1>1. /\ Turn(t, "lock", r, NoWant) /\ ~Exists(p)
      /\ pgrp' = [pgrp EXCEPT ![p] = g] /\ sess' = [sess EXCEPT ![p] = s]
  BY DEF Launch, Assignable, Ask
<1>2. t[1] = p
  BY DEF Main
<1>. HIDE DEF t, r
<1>3. t \in Threads => at[t] \notin LockedPoints
  BY <1>1, <1>2, Asleep DEF LockedPoints
<1>4. \A u \in Threads : at[u] \in LockedPoints => pgrp'[u[1]] = pgrp[u[1]] /\ sess'[u[1]] = sess[u[1]]
  BY <1>1, BornRecovers
<1>. QED BY <1>1, <1>3, <1>4, TurnRecovers

LEMMA ForkRecovers ==
  ASSUME CallInv, RecoveryInv, NEW t \in Threads, NEW c \in Procs, Fork(t, c)
  PROVE  RecoveryInv'
<1>. DEFINE m == Main(c)
            r == Request("publish", c, next["pid"], Nobody, 0)
<1>1. /\ at[t] = "idle" /\ ~Exists(c)
      /\ at' = [at EXCEPT ![t] = "lock", ![m] = "lock"]
      /\ req' = [req EXCEPT ![t] = r, ![m] = r]
      /\ UNCHANGED <<word, bank, journal, semantic, lock, then, pos, todo, ok>>
      /\ pgrp' = [pgrp EXCEPT ![c] = pgrp[t[1]]] /\ sess' = [sess EXCEPT ![c] = sess[t[1]]]
  BY DEF Fork, Assignable, Calls
<1>2. m[1] = c
  BY DEF Main
<1>. HIDE DEF m, r
<1>3. m \in Threads => at[m] = "dead"
  BY <1>1, <1>2, Asleep
<1>4. \A u \in Threads : at[u] \in LockedPoints => pgrp'[u[1]] = pgrp[u[1]] /\ sess'[u[1]] = sess[u[1]]
  BY <1>1, BornRecovers
<1>5. ASSUME NEW u \in Threads, u # t, u # m PROVE Same(u) /\ at'[u] = at[u]
  BY <1>1, <1>4, <1>5 DEF Same, CallInv, LocalTypes
<1>6. ASSUME NEW u \in Threads, u = t \/ u = m PROVE Rests(u) /\ at'[u] \notin LockedPoints /\ at[u] \notin LockedPoints
  <2>1. at'[u] = "lock" /\ at[u] \in {"idle", "dead"}
    BY <1>1, <1>3, <1>6 DEF CallInv, LocalTypes
  <2>2. at[u] \notin LockedPoints /\ Undecided(u)
    BY <2>1 DEF LockedPoints, Undecided
  <2>3. ~ok'[u] /\ todo'[u] = <<>>
    BY <1>1, <2>2, Restful
  <2>. QED BY <2>1, <2>2, <2>3 DEF Rests, LockedPoints
<1>7. LockInv'
  BY <1>1, <1>5, <1>6 DEF RecoveryInv, LockInv
<1>. QED BY <1>1, <1>5, <1>6, <1>7, Bystanders

(* Every action keeps RecoveryInv.                                         *)
LEMMA GuestRecovers ==
  ASSUME CallInv, RecoveryInv, NEW t \in Threads,
         \/ \E c \in Procs : Wait(t, c)
         \/ \E a0, a1 \in {0} \union Guests : SetPgid(t, a0, a1)
         \/ Resolved(t) \/ ResolvedGroup(t) \/ Unresolved(t)
         \/ SetSid(t) \/ AskGroup(t) \/ Waited(t) \/ Return(t) \/ ParentPublished(t)
  PROVE  RecoveryInv'
<1>. USE DEF Ask, LookUp, Finish, Calls
<1>1. ASSUME NEW x \in {"lock", "look", "idle"}, NEW r, NEW w, Turn(t, x, r, w),
             at[t] \in {"idle", "looked", "done"}, UNCHANGED <<pgrp, sess>>
      PROVE  RecoveryInv'
  BY <1>1, TurnRecovers DEF LockedPoints
<1>2. CASE \E c \in Procs : Wait(t, c)
  BY <1>1, <1>2 DEF Wait
<1>3. CASE \E a0, a1 \in {0} \union Guests : SetPgid(t, a0, a1)
  BY <1>1, <1>3 DEF SetPgid, hostVars
<1>4. CASE Resolved(t)
  BY <1>1, <1>4 DEF Resolved, hostVars
<1>5. CASE ResolvedGroup(t)
  BY <1>1, <1>5 DEF ResolvedGroup, hostVars
<1>6. CASE Unresolved(t)
  BY <1>1, <1>6 DEF Unresolved, hostVars
<1>7. CASE SetSid(t)
  BY <1>1, <1>7 DEF SetSid, hostVars
<1>8. CASE AskGroup(t)
  BY <1>1, <1>8 DEF AskGroup, hostVars
<1>9. CASE Waited(t)
  BY <1>1, <1>9 DEF Waited, hostVars
<1>10. CASE Return(t)
  BY <1>1, <1>10 DEF Return, hostVars
<1>11. CASE ParentPublished(t)
  BY <1>1, <1>11 DEF ParentPublished, hostVars
<1>. QED BY <1>2, <1>3, <1>4, <1>5, <1>6, <1>7, <1>8, <1>9, <1>10, <1>11

LEMMA LifeRecovers ==
  ASSUME CallInv, RecoveryInv,
         \/ \E p \in Procs : Exit(p) \/ Kill(p)
         \/ \E t \in Threads :
              Joined(t) \/ JoinFailed(t) \/ ChildPublished(t) \/ ChildAbandoned(t) \/ ParentAbandons(t)
  PROVE  RecoveryInv'
<1>1. ASSUME NEW p \in Procs, Dies(p) PROVE RecoveryInv'
  <2>1. Ends({p}, {}) /\ Stops({p}, {})
    BY <1>1 DEF Dies
  <2>. QED BY <2>1, StopRecovers
<1>2. ASSUME NEW t \in Threads, Joined(t) \/ ChildPublished(t) PROVE RecoveryInv'
  <2>1. Starting(t) /\ at[t] = "done" /\ Begin(t) /\ UNCHANGED hostVars
    BY <1>2 DEF Joined, ChildPublished, Starting
  <2>. QED BY <2>1, BeginRecovers
<1>3. ASSUME NEW t \in Threads, JoinFailed(t) \/ ChildAbandoned(t) PROVE RecoveryInv'
  <2>1. t[1] \in Procs
    BY IdentityAssumption DEF IdentityAssumption
  <2>. QED BY <1>1, <1>3, <2>1 DEF JoinFailed, ChildAbandoned
<1>4. ASSUME NEW t \in Threads, ParentAbandons(t) PROVE RecoveryInv'
  <2>. DEFINE child == {c \in Procs : c = req[t].proc /\ parent[c] = t[1]}
  <2>1. Ends(child, child) /\ Stops(child, {t}) /\ at[t] = "done"
    BY <1>4 DEF ParentAbandons
  <2>2. child \subseteq Procs
    OBVIOUS
  <2>. HIDE DEF child
  <2>. QED BY <2>1, <2>2, StopRecovers DEF LockedPoints
<1>. QED BY <1>1, <1>2, <1>3, <1>4 DEF Exit, Kill

LEMMA RegistryRecovers ==
  ASSUME CallInv, RecoveryInv, NEW t \in Threads, Registry(t)
  PROVE  RecoveryInv'
  BY RecoverSteps, MirrorRecovers, MirroredRecovers, ForwardRecovers, StageRecovers, EndSteps, StoreRecovers,
     CommitRecovers, LookRecovers, BodySteps, JoinNewRecovers, PublishRecovers, ReapRecovers
  DEF Registry, Step

LEMMA StutterRecovers ==
  ASSUME CallInv, RecoveryInv, UNCHANGED vars
  PROVE  RecoveryInv'
<1>1. UNCHANGED <<word, bank, journal, semantic, lock, pgrp, sess, at, then, pos, todo, req, ok>>
  BY DEF vars, registryVars, storage, locals, hostVars
<1>2. \A t \in Threads : Same(t)
  BY <1>1 DEF Same
<1>3. LockInv'
  BY <1>1 DEF RecoveryInv, LockInv
<1>. QED BY <1>1, <1>2, <1>3, Bystanders

(* Every step keeps what recovery relies on, a death at any point          *)
(* included.                                                               *)
LEMMA RecoveryStep ==
  ASSUME CallInv, RecoveryInv, [Next]_vars
  PROVE  RecoveryInv'
  BY LaunchRecovers, LifeRecovers, ForkRecovers, GuestRecovers, RegistryRecovers, StutterRecovers DEF Next

(* The state in which nothing runs.                                        *)
LEMMA AtFirst == Init => CallInv /\ RecoveryInv
<1>. SUFFICES ASSUME Init PROVE CallInv /\ RecoveryInv
  OBVIOUS
<1>1. \A t \in Threads : /\ at[t] = "dead" /\ req[t] = NoRequest /\ todo[t] = <<>> /\ ok[t] = FALSE
                         /\ found[t] = Free /\ want[t] = NoWant
  BY DEF Init, RegistryInit
<1>2. StorageTypes
  <2>1. word \in Words /\ next \in [Kinds -> Numbers] /\ semantic = NoSemantic /\ poisoned = FALSE
    BY DEF Init, RegistryInit, Words, Start, Numbers
  <2>2. journal \in Seq([kind : Kinds, slot : Slots])
    BY DEF Init, RegistryInit
  <2>3. /\ bank \in [{0, 1} -> [Kinds -> [Slots -> AnyEntry]]]
        /\ \A b \in {0, 1}, i \in Slots : bank[b]["pid"][i] \in EntryOf("pid")
    BY DEF Init, RegistryInit, AnyEntry, EntryOf, Kinds
  <2>. QED BY <2>1, <2>2, <2>3 DEF StorageTypes
<1>3. HostTypes
  BY DEF Init, RegistryInit, HostTypes, SomeHost, Exists
<1>4. LocalTypes
  BY RequestTypes DEF Init, RegistryInit, LocalTypes, Points, Places, Numbers, Words, Start, AnyEntry
<1>5. LifeInv
  BY <1>1 DEF Init, LifeInv, Starting
<1>6. \A t \in Threads : Asked(t) /\ Answered(t)
  BY <1>1, RequestTypes DEF Asked, Answered, Served, LockedPoints, LookPoints
<1>7. LockInv
  BY <1>1 DEF Init, RegistryInit, LockInv, LockedPoints
<1>8. Mirrorable
  BY DEF Init, RegistryInit, Mirrorable, Staged, Live, Active, Inactive, Start
<1>9. BankInv
  BY <1>1 DEF Init, RegistryInit, BankInv, Unique, Live, Active, Start, Free, Applying
<1>10. \A t \in Threads : Paced(t) /\ Earned(t)
  BY <1>1 DEF Paced, Earned, Applying
<1>. QED BY <1>2, <1>3, <1>4, <1>5, <1>6, <1>7, <1>8, <1>9, <1>10 DEF CallInv, RecoveryInv

(* The banks of the registry are recoverable in every reachable state,     *)
(* whichever process has died between any two stores of pidmap.c: one      *)
(* thread at a time is between lock and unlock, the bank that is not in    *)
(* force differs from the other only in slots that are journaled and not   *)
(* yet mirrored, a transaction has staged exactly the updates of its list, *)
(* and no number is in two slots of a map.                                 *)
THEOREM RecoveryInvariance == Spec => [](CallInv /\ RecoveryInv)
<1>1. Spec => []ReadInv
  BY ReadInvariance
<1>2. CallInv /\ RecoveryInv /\ ReadInv /\ [Next]_vars => (CallInv /\ RecoveryInv)'
  BY CallsInvariant, RecoveryStep
<1>. QED BY <1>1, <1>2, AtFirst, PTL DEF Spec
=============================================================================
