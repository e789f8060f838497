-------------------------- MODULE SocketOwnerProofs --------------------------
(***************************************************************************)
(* Safety of socket ownership for every number of processes, threads,      *)
(* objects and slots.  The invariant follows the argument of the code.     *)
(* The two locks leave one writer at a time, and the sequence is odd while *)
(* it works (NsInv).  Only that writer stores into the table, which it     *)
(* leaves settled when the sequence turns even (TableInv, WriterInv); so   *)
(* a reader that saw the same even sequence before and after its loads     *)
(* read one publication (ReaderInv).                                       *)
(***************************************************************************)
EXTENDS SocketOwner, FiniteSetTheorems, TLAPS

Runs(t) == live[Of(t)] = "live"

(***************************************************************************)
(* The namespace transaction.                                              *)
(***************************************************************************)

(* Steps at which the record lock is held, for writing and for reading.    *)
WriteHeld == {"claim", "open", "in", "publish", "release"}
ReadHeld == {"readCheck", "readUnlock"}

(* The flag of a process has one holder, which knows it.                   *)
FlagInv ==
  /\ FlagHasHolder
  /\ \A t \in Threads : Runs(t) /\ tx[t].step \in FlagSteps => flag[Of(t)]
  /\ \A t, u \in Threads :
       /\ Runs(t) /\ Of(t) = Of(u)
       /\ tx[t].step \in FlagSteps /\ tx[u].step \in FlagSteps
       => t = u
  /\ \A t \in Threads : live[Of(t)] = "absent" => tx[t].step = "out"

(* The record lock is exclusive when it is held for writing.               *)
LockInv ==
  /\ \A t \in Threads : Runs(t) /\ tx[t].step \in WriteHeld => lock[Of(t)] = "write"
  /\ \A t \in Threads : Runs(t) /\ tx[t].step \in ReadHeld => lock[Of(t)] = "read"
  /\ \A p, q \in Procs : lock[p] = "write" /\ p # q => lock[q] = "none"

(* What the thread that holds the writer lock knows of the shared state.   *)
Knows(t) ==
  /\ tx[t].step = "open" => /\ ~Odd(sequence) /\ sequence < MaxSequence - 1
                            /\ owner = tx[t].ident
  /\ tx[t].step = "in" => /\ WriterValid(t) /\ sequence < MaxSequence
                          /\ tx[t].depth >= 1
  /\ tx[t].step = "publish" => /\ Odd(sequence) /\ sequence = tx[t].gen
                               /\ sequence < MaxSequence
SeqInv == \A t \in Threads : Runs(t) => Knows(t)

NsInv == NsTypeOK /\ FlagInv /\ LockInv /\ SeqInv

(***************************************************************************)
(* The calls and the table.                                                *)
(***************************************************************************)
WriterCalls == {"prepare", "bind", "identify", "commit", "payload", "live", "rollback",
                "finish", "end", "lookup", "store", "relive"}
BeginSteps == {"flag", "record", "claim", "open", "refuse"}
EndSteps == {"publish", "release", "clear"}
ReadSteps == {"readFlag", "readRecord", "readCheck", "readUnlock", "readClear"}

(* A thread is in the transaction its call is waiting for.                 *)
Matched(t) ==
  /\ tx[t].step \in BeginSteps => call[t].step \in {"prepare", "lookup"}
  /\ tx[t].step = "in" => call[t].step \in WriterCalls
  /\ tx[t].step \in EndSteps => call[t].step = "end"
  /\ tx[t].step \in ReadSteps => call[t].step \in {"outer", "begun"}
CallInv == \A t \in Threads : Matched(t)

Lives == {i \in Slots : slots[i].kind = "live"}
Claims == {i \in Slots : slots[i].kind = "claiming"}

(* A search for the key of slot i does not stop before it.                 *)
Reach(i) ==
  \E n \in Probes :
    /\ i = Probe(slots[i].key, n)
    /\ \A m \in 0 .. n - 1 : slots[Probe(slots[i].key, m)].kind # "empty"

(* Slot i has the payload of a record.                                     *)
Written(i) == slots[i].key \in ObjectKeys /\ slots[i].user \in Users /\ Reach(i)
Unheld(key) == \A j \in Slots : ~Holds(j, key)

TableInv ==
  /\ \A i \in Slots : slots[i].kind = "live" => Written(i)
  /\ \A i, j \in Slots : slots[i].kind = "live" /\ Holds(j, slots[i].key) => i = j

(* Claims and quota of the table when nobody, and when a writer, is at it. *)
Settled == Claims = {} /\ occupied = Cardinality(Lives)
Reserved(t) ==
  /\ Claims = {call[t].ticket} /\ occupied = Cardinality(Lives) + 1
  /\ slots[call[t].ticket].stamp = call[t].stamp
  /\ call[t].stamp + 1 < nextStamp
Committing(t) ==
  /\ Reserved(t) /\ slots[call[t].slot].kind \in Reusable
  /\ slots[call[t].slot].key = call[t].key
  /\ Written(call[t].slot) /\ Unheld(call[t].key)
Mutating(t) ==
  /\ Claims = {call[t].slot} /\ occupied = Cardinality(Lives) + 1
  /\ Written(call[t].slot) /\ Unheld(slots[call[t].slot].key)

Working(t) ==
  /\ call[t].step \in {"prepare", "lookup", "rollback", "finish", "end"} => Settled
  /\ call[t].step \in {"bind", "identify", "commit"} => Reserved(t)
  /\ call[t].step \in {"identify", "commit"} => call[t].key \in ObjectKeys
  /\ call[t].step = "payload" => Committing(t)
  /\ call[t].step = "live" => /\ Claims = {call[t].ticket}
                              /\ occupied = Cardinality(Lives)
  /\ call[t].step \in {"store", "relive"} => Mutating(t)

WriterInv ==
  /\ ~Odd(sequence) => Settled
  /\ \A t \in Threads : At(t, "publish") => Settled
  /\ \A t \in Threads : At(t, "in") => Working(t)

(* The object at the path has a record, or is the writer's to deal with.   *)
Owned == file # NoFile => ~Unheld(file)
Keeping(t) ==
  /\ call[t].step \in {"prepare", "lookup", "bind", "finish", "end"} => Owned
  /\ call[t].step \in {"identify", "commit", "payload", "rollback"}
       => file \in {NoFile, call[t].key}
  /\ call[t].step = "live"
       => file = NoFile \/ (file = call[t].key /\ Holds(call[t].slot, call[t].key))
  /\ call[t].step \in {"store", "relive"} => Owned \/ slots[call[t].slot].key = file
NoLinks == \A t \in Threads : job[t] # "link"
FileInv ==
  ~poisoned /\ NoLinks =>
    /\ ~Odd(sequence) => Owned
    /\ \A t \in Threads : At(t, "publish") => Owned
    /\ \A t \in Threads : At(t, "in") => Keeping(t)

(***************************************************************************)
(* The readers.                                                            *)
(***************************************************************************)
ProbeCalls == {"probe", "load", "recheck", "after", "validate", "accept"}
ReadCalls == {"inner", "begun", "before", "again"} \union ProbeCalls

(* What a reader knows if the sequence is the one it began with.           *)
Read(t) ==
  LET c == call[t] IN
  /\ ~Odd(sequence)
  /\ c.step = "probe" => \A m \in 0 .. c.probe - 1 :
       slots[Probe(c.key, m)].kind # "empty" /\ ~Holds(Probe(c.key, m), c.key)
  /\ c.step = "load" => Holds(c.slot, c.key)
  /\ c.step = "recheck" => c.got
  /\ c.step \in {"recheck", "after", "validate", "accept"} =>
       IF c.got THEN Holds(c.slot, c.key) /\ c.user = slots[c.slot].user ELSE Unheld(c.key)

Reading(t) ==
  /\ tx[t].seen <= sequence /\ call[t].outer <= sequence
  /\ call[t].step \in ReadCalls => call[t].key \in ObjectKeys
  /\ call[t].step \in ProbeCalls =>
       /\ call[t].outer <= call[t].before /\ call[t].before <= sequence
       /\ call[t].before = sequence => Read(t)
Published == ~Odd(sequence) => \A k \in ObjectKeys : committed[k] = Recorded[k]
ReaderInv == Published /\ \A t \in Threads : Reading(t)

Inv == TypeOK /\ NsInv /\ CallInv /\ TableInv /\ WriterInv /\ FileInv /\ ReaderInv

(***************************************************************************)
(* Lemmas about the operators.                                             *)
(***************************************************************************)

(* The sequence is odd every other step.                                   *)
LEMMA OddStep == \A n \in Nat : Odd(n + 1) <=> ~Odd(n)
BY DEF Odd

(* A probe sequence stays in the table.                                    *)
LEMMA ProbeIsSlot == \A k \in ObjectKeys, n \in Nat : Probe(k, n) \in Slots
<1> SUFFICES ASSUME NEW k \in ObjectKeys, NEW n \in Nat PROVE Probe(k, n) \in Slots
  OBVIOUS
<1>1. Hash[k] \in Nat /\ Capacity \in Nat /\ Capacity > 0
  BY RegistryAssumption DEF Slots
<1> QED BY <1>1 DEF Probe, Slots

(* It passes every slot once.                                              *)
LEMMA ProbeOnce ==
  \A k \in ObjectKeys, n, m \in Probes : Probe(k, n) = Probe(k, m) => n = m
<1> SUFFICES ASSUME NEW k \in ObjectKeys, NEW n \in Probes, NEW m \in Probes,
                    Probe(k, n) = Probe(k, m)
             PROVE n = m
  OBVIOUS
<1> DEFINE h == Hash[k]
<1>1. h \in 0 .. Capacity - 1 /\ Capacity \in Nat /\ Capacity > 0
  BY RegistryAssumption DEF Slots
<1>2. ASSUME NEW x \in Probes PROVE (h + x) % Capacity \in {h + x, h + x - Capacity}
  BY <1>1, <1>2 DEF Probes
<1> QED BY <1>1, <1>2 DEF Probe, Probes

(***************************************************************************)
(* The namespace transaction: one writer.                                  *)
(***************************************************************************)

(* What the calls of a thread, and the others, do to the primitive.        *)
NsBy(t) ==
  \/ NsStep(t) \/ Begin(t) \/ Nest(t) \/ ReadBegin(t)
  \/ At(t, "in") /\ \E poison \in BOOLEAN : EndFrom(t, poison)
  \/ UNCHANGED nsVars
NsNext ==
  \/ \E t \in Threads : NsBy(t)
  \/ \E t \in Threads, q \in Procs : Fork(t, q)
  \/ \E p \in Procs : Die(p)
  \/ UNCHANGED nsVars

LEMMA NsSteps ==
  /\ [Next]_vars => NsNext
  /\ \A t \in Threads : Step(t) \/ Start(t) \/ Nested(t) => NsBy(t)
<1> USE DEF Entered, Doing, InTx, At
<1>1. ASSUME NEW t \in Threads, Step(t) PROVE NsBy(t)
  BY <1>1 DEF Step, NsBy, NsProgress, Refusal, Prepare, BindSocket, Identify, CommitStart,
     CommitState, CommitDone, Rollback, FinishBind, Lookup, Store, Relive, Ended, OuterBegun,
     StatFile, InnerStart, InnerBegun, LookBefore, LookProbe, LookLoad, LookRecheck,
     LookAfter, Validate, Again, StatDone, EndCall, Finish, FinishClaim
<1>2. ASSUME NEW t \in Threads, Start(t) \/ Nested(t) PROVE NsBy(t)
  BY <1>2 DEF Start, StartWriter, Unlink, StatStart, Nested, NsBy
<1>3. ASSUME UNCHANGED vars PROVE NsNext
  BY <1>3 DEF vars, NsNext
<1> QED BY <1>1, <1>2, <1>3 DEF Next, NsNext, ForkProcess, DieProcess

(* Two threads that hold the record lock for writing are one.              *)
LEMMA SoleWriter ==
  ASSUME FlagInv, LockInv, NEW t \in Threads, NEW u \in Threads, Runs(t), Runs(u),
         tx[t].step \in WriteHeld, tx[u].step \in WriteHeld
  PROVE  t = u
<1>1. Of(t) \in Procs /\ Of(u) \in Procs
  BY DEF Threads, Of
<1>2. Of(t) = Of(u)
  BY <1>1 DEF LockInv
<1> QED BY <1>2 DEF FlagInv, Runs, WriteHeld, FlagSteps

(* The thread-local part of the type.                                      *)
TxRec == [step : Steps, depth : 0 .. MaxDepth, gen : 0 .. MaxSequence,
          ident : 0 .. MaxSequence, seen : 0 .. MaxSequence, failed : BOOLEAN]

LEMMA GoTyped ==
  ASSUME tx \in [Threads -> TxRec], NEW t \in Threads, NEW s \in Steps, Go(t, s)
  PROVE  tx' \in [Threads -> TxRec]
BY DEF Go, TxRec

LEMMA ReturnTyped ==
  ASSUME tx \in [Threads -> TxRec], NEW t \in Threads, NEW b \in BOOLEAN, Return(t, b)
  PROVE  tx' \in [Threads -> TxRec]
BY DEF Return, TxRec, Steps

(* Every step keeps the types: the sequence stops short of its maximum.    *)
LEMMA NsTyped == NsInv /\ NsNext => NsTypeOK'
<1> SUFFICES ASSUME NsInv, NsNext PROVE NsTypeOK'
  OBVIOUS
<1>a. tx \in [Threads -> TxRec]
  BY DEF NsInv, NsTypeOK, TxRec
<1>b. tx' \in [Threads -> TxRec] <=> tx' \in [Threads -> TxRec]'
  BY DEF TxRec
<1> USE NamespaceAssumption DEF Of
<1>c. \A t \in Threads : Of(t) \in Procs
  BY DEF Threads
<1>d. "out" \in Steps /\ \A s \in FlagSteps : s \in Steps
  BY DEF Steps
<1>e. ASSUME tx' \in [Threads -> TxRec], sequence' \in 0 .. MaxSequence,
             owner' \in 0 .. MaxSequence, nextOwner' \in 0 .. MaxSequence,
             poisoned' \in BOOLEAN, live' \in [Procs -> {"absent", "live", "gone"}],
             flag' \in [Procs -> BOOLEAN], lock' \in [Procs -> {"none", "read", "write"}]
      PROVE  NsTypeOK'
  BY <1>e DEF NsTypeOK, TxRec
<1>1. ASSUME NEW t \in Threads, NsStep(t) PROVE NsTypeOK'
  <2>1. CASE TakeFlag(t)
    <3>1. tx' \in [Threads -> TxRec]
      BY <2>1, <1>a, <1>d, GoTyped DEF TakeFlag, FlagSteps
    <3> QED BY <2>1, <3>1, <1>c, <1>e DEF TakeFlag, sharedVars, lockVars, NsInv, NsTypeOK
  <2>2. CASE FlagTimeout(t)
    <3>1. tx' \in [Threads -> TxRec]
      BY <2>2, <1>a, ReturnTyped DEF FlagTimeout
    <3> QED BY <2>2, <3>1, <1>c, <1>e DEF FlagTimeout, sharedVars, lockVars, NsInv, NsTypeOK
  <2>3. CASE TakeWriteLock(t)
    <3>1. tx' \in [Threads -> TxRec]
      BY <2>3, <1>a, <1>d, GoTyped DEF TakeWriteLock, FlagSteps
    <3> QED BY <2>3, <3>1, <1>c, <1>e DEF TakeWriteLock, sharedVars, lockVars, NsInv, NsTypeOK
  <2>4. CASE TakeReadLock(t)
    <3>1. tx' \in [Threads -> TxRec]
      BY <2>4, <1>a, <1>d, GoTyped DEF TakeReadLock, FlagSteps
    <3> QED BY <2>4, <3>1, <1>c, <1>e DEF TakeReadLock, sharedVars, lockVars, NsInv, NsTypeOK
  <2>5. CASE RecordTimeout(t)
    <3>1. tx' \in [Threads -> TxRec]
      BY <2>5, <1>a, ReturnTyped DEF RecordTimeout
    <3> QED BY <2>5, <3>1, <1>c, <1>e DEF RecordTimeout, sharedVars, lockVars, NsInv, NsTypeOK
  <2>6. CASE Claim(t)
    <3>1. nextOwner + 1 \in 0 .. MaxSequence
      BY <2>6 DEF Claim, NsInv, NsTypeOK, Exhausted
    <3>2. tx' \in [Threads -> TxRec]
      BY <2>6, <3>1, <1>a, <1>d DEF Claim, TxRec, FlagSteps
    <3> QED BY <2>6, <3>1, <3>2, <1>c, <1>e DEF Claim, sharedVars, lockVars, NsInv, NsTypeOK
  <2>7. CASE Refuse(t)
    <3>1. tx' \in [Threads -> TxRec]
      BY <2>7, <1>a, <1>d, GoTyped DEF Refuse, FlagSteps
    <3> QED BY <2>7, <3>1, <1>c, <1>e DEF Refuse, sharedVars, lockVars, NsInv, NsTypeOK
  <2>8. CASE Refused(t)
    <3>1. tx' \in [Threads -> TxRec]
      BY <2>8, <1>a, ReturnTyped DEF Refused
    <3> QED BY <2>8, <3>1, <1>c, <1>e DEF Refused, sharedVars, lockVars, NsInv, NsTypeOK
  <2>9. CASE Open(t)
    <3>1. sequence + 1 \in 0 .. MaxSequence /\ 1 \in 0 .. MaxDepth
      BY <2>9 DEF Open, NsInv, NsTypeOK, SeqInv, Knows, Runs, At
    <3>2. tx' \in [Threads -> TxRec]
      BY <2>9, <3>1, <1>a, <1>d DEF Open, TxRec, FlagSteps
    <3> QED BY <2>9, <3>1, <3>2, <1>c, <1>e DEF Open, sharedVars, lockVars, NsInv, NsTypeOK
  <2>10. CASE Publish(t)
    <3>1. sequence + 1 \in 0 .. MaxSequence /\ 0 \in 0 .. MaxSequence
      BY <2>10 DEF Publish, NsInv, NsTypeOK, SeqInv, Knows, Runs, At
    <3>2. tx' \in [Threads -> TxRec]
      BY <2>10, <3>1, <1>a, <1>d DEF Publish, TxRec, FlagSteps
    <3> QED BY <2>10, <3>1, <3>2, <1>c, <1>e DEF Publish, sharedVars, lockVars, NsInv, NsTypeOK
  <2>11. CASE Release(t)
    <3>1. tx' \in [Threads -> TxRec]
      BY <2>11, <1>a, <1>d, GoTyped DEF Release, FlagSteps
    <3> QED BY <2>11, <3>1, <1>c, <1>e DEF Release, sharedVars, lockVars, NsInv, NsTypeOK
  <2>12. CASE Clear(t)
    <3>1. tx' \in [Threads -> TxRec]
      BY <2>12, <1>a, ReturnTyped DEF Clear
    <3> QED BY <2>12, <3>1, <1>c, <1>e DEF Clear, sharedVars, lockVars, NsInv, NsTypeOK
  <2>13. CASE ReadCheck(t)
    <3>1. sequence \in 0 .. MaxSequence /\ poisoned' \in BOOLEAN
      BY <2>13 DEF ReadCheck, NsInv, NsTypeOK
    <3>2. tx' \in [Threads -> TxRec]
      BY <2>13, <3>1, <1>a, <1>d DEF ReadCheck, TxRec, FlagSteps
    <3> QED BY <2>13, <3>1, <3>2, <1>c, <1>e DEF ReadCheck, sharedVars, lockVars, NsInv, NsTypeOK
  <2>14. CASE ReadUnlock(t)
    <3>1. tx' \in [Threads -> TxRec]
      BY <2>14, <1>a, <1>d, GoTyped DEF ReadUnlock, FlagSteps
    <3> QED BY <2>14, <3>1, <1>c, <1>e DEF ReadUnlock, sharedVars, lockVars, NsInv, NsTypeOK
  <2>15. CASE ReadClear(t)
    <3>1. tx' \in [Threads -> TxRec]
      BY <2>15, <1>a, ReturnTyped DEF ReadClear, TxRec
    <3> QED BY <2>15, <3>1, <1>c, <1>e DEF ReadClear, sharedVars, lockVars, NsInv, NsTypeOK
  <2> QED BY <1>1, <2>1, <2>2, <2>3, <2>4, <2>5, <2>6, <2>7, <2>8, <2>9, <2>10, <2>11, <2>12,
     <2>13, <2>14, <2>15 DEF NsStep
<1>2. ASSUME NEW t \in Threads, Begin(t) \/ Nest(t) \/ ReadBegin(t) PROVE NsTypeOK'
  <2>1. tx' \in [Threads -> TxRec]
    <3>1. CASE Begin(t) BY <3>1, <1>a, GoTyped DEF Begin, Steps
    <3>2. CASE Nest(t) BY <3>2, <1>a DEF Nest, TxRec
    <3>3. CASE ReadBegin(t)
      <4>1. CASE tx' = [tx EXCEPT ![t].seen = sequence, ![t].failed = FALSE]
        <5>1. sequence \in 0 .. MaxSequence
          BY DEF NsInv, NsTypeOK
        <5> QED BY <4>1, <5>1, <1>a DEF TxRec
      <4> QED BY <3>3, <4>1, <1>a, GoTyped, ReturnTyped DEF ReadBegin, Steps
    <3> QED BY <1>2, <3>1, <3>2, <3>3
  <2> QED BY <1>2, <2>1, <1>e DEF Begin, Nest, ReadBegin, sharedVars, lockVars, NsInv, NsTypeOK
<1>3. ASSUME NEW t \in Threads, NEW poison \in BOOLEAN, At(t, "in"), EndFrom(t, poison)
      PROVE  NsTypeOK'
  <2>1. tx' \in [Threads -> TxRec]
    <3>1. tx[t].depth \in 1 .. MaxDepth /\ tx[t].depth - 1 \in 0 .. MaxDepth
      BY <1>3, <1>a DEF At, SeqInv, Knows, Runs, NsInv, TxRec
    <3> QED BY <1>3, <3>1, <1>a, <1>d DEF EndFrom, TxRec, FlagSteps
  <2> QED BY <1>3, <2>1, <1>e DEF EndFrom, lockVars, NsInv, NsTypeOK
<1>4. ASSUME NEW t \in Threads, NEW q \in Procs, Fork(t, q) PROVE NsTypeOK'
  <2>1. tx' \in [Threads -> TxRec]
    <3>1. Outside \in TxRec
      BY <1>d DEF Outside, TxRec
    <3> QED BY <1>4, <1>a, <3>1 DEF Fork
  <2> QED BY <1>4, <2>1, <1>e DEF Fork, sharedVars, NsInv, NsTypeOK
<1>5. ASSUME NEW p \in Procs, Die(p) PROVE NsTypeOK'
  BY <1>5, <1>a, <1>e DEF Die, sharedVars, NsInv, NsTypeOK
<1>6. ASSUME UNCHANGED nsVars PROVE NsTypeOK'
  BY <1>6 DEF nsVars, NsInv, NsTypeOK
<1> QED BY <1>1, <1>2, <1>3, <1>4, <1>5, <1>6 DEF NsNext, NsBy

(* A step of one thread, as the two locks and the shared state see it.     *)
Alone(t) == Runs(t) /\ live' = live /\ \A u \in Threads : u # t => tx'[u] = tx[u]

FlagMove(t) ==
  \/ flag' = flag /\ (tx'[t].step \in FlagSteps <=> tx[t].step \in FlagSteps)
  \/ /\ ~flag[Of(t)] /\ flag' = [flag EXCEPT ![Of(t)] = TRUE]
     /\ tx'[t].step \in FlagSteps
  \/ /\ tx[t].step \in FlagSteps /\ flag' = [flag EXCEPT ![Of(t)] = FALSE]
     /\ tx'[t].step \notin FlagSteps

LockMove(t) ==
  \/ /\ lock' = lock
     /\ tx'[t].step \in WriteHeld => tx[t].step \in WriteHeld
     /\ tx'[t].step \in ReadHeld => tx[t].step \in ReadHeld
  \/ /\ tx[t].step \in FlagSteps /\ lock' = [lock EXCEPT ![Of(t)] = "none"]
     /\ tx'[t].step \notin WriteHeld \union ReadHeld
  \/ /\ tx[t].step \in FlagSteps /\ Unlocked(Of(t))
     /\ lock' = [lock EXCEPT ![Of(t)] = "write"] /\ tx'[t].step \notin ReadHeld
  \/ /\ tx[t].step \in FlagSteps /\ Unwritten(Of(t))
     /\ lock' = [lock EXCEPT ![Of(t)] = "read"] /\ tx'[t].step \notin WriteHeld

SeqMove(t) ==
  /\ UNCHANGED <<sequence, owner>> \/ tx[t].step \in WriteHeld
  /\ Knows(t)'

Move(t) == Alone(t) /\ FlagMove(t) /\ LockMove(t) /\ SeqMove(t)

(* Such a step keeps the invariant.                                        *)
LEMMA MoveSafe ==
  ASSUME NsInv, NsTypeOK', NEW t \in Threads, Move(t)
  PROVE  NsInv'
<1>a. \A u \in Threads : Of(u) \in Procs
  BY DEF Threads, Of
<1>b. \A u \in Threads : Runs(u)' <=> Runs(u)
  BY DEF Move, Alone, Runs
<1>c. /\ flag \in [Procs -> BOOLEAN] /\ lock \in [Procs -> {"none", "read", "write"}]
      /\ FlagInv /\ LockInv /\ SeqInv
      /\ Runs(t) /\ live' = live /\ \A u \in Threads : u # t => tx'[u] = tx[u]
      /\ FlagMove(t) /\ LockMove(t) /\ SeqMove(t)
  BY DEF NsInv, NsTypeOK, Move, Alone
<1>1. FlagInv'
  <2>1. FlagHasHolder'
    <3> SUFFICES ASSUME NEW p \in Procs, live'[p] = "live", flag'[p]
                 PROVE  \E n \in Nums : tx'[<<p, n>>].step \in FlagSteps
      BY DEF FlagHasHolder
    <3>1. PICK m \in Nums : t = <<Of(t), m>>
      BY DEF Threads, Of
    <3>2. CASE p = Of(t) /\ tx'[t].step \in FlagSteps
      BY <3>1, <3>2
    <3>3. CASE p # Of(t) /\ flag[p]
      <4>1. PICK n \in Nums : tx[<<p, n>>].step \in FlagSteps
        BY <3>3, <1>c DEF FlagInv, FlagHasHolder
      <4> QED BY <4>1, <3>3, <3>1, <1>c DEF Threads
    <3>4. CASE p = Of(t) /\ flag[p] /\ tx'[t].step \notin FlagSteps /\ flag' = flag
      <4>1. PICK n \in Nums : tx[<<p, n>>].step \in FlagSteps
        BY <3>4, <1>c DEF FlagInv, FlagHasHolder
      <4>2. tx[t].step \notin FlagSteps
        BY <3>4, <1>c, <1>a DEF FlagMove
      <4> QED BY <4>1, <4>2, <1>c DEF Threads
    <3> QED BY <3>2, <3>3, <3>4, <1>a, <1>c DEF FlagMove
  <2>2. \A u \in Threads : Runs(u)' /\ tx'[u].step \in FlagSteps => flag'[Of(u)]
    BY <1>a, <1>b, <1>c DEF FlagInv, FlagMove
  <2>3. \A u, v \in Threads :
          /\ Runs(u)' /\ Of(u) = Of(v)
          /\ tx'[u].step \in FlagSteps /\ tx'[v].step \in FlagSteps
          => u = v
    BY <1>a, <1>b, <1>c DEF FlagInv, FlagMove, Runs
  <2>4. \A u \in Threads : live'[Of(u)] = "absent" => tx'[u].step = "out"
    BY <1>c DEF FlagInv, Runs
  <2> QED BY <2>1, <2>2, <2>3, <2>4 DEF FlagInv, Of
<1>2. LockInv'
  <2>0. \A u \in Threads : tx[t].step \in FlagSteps /\ Of(u) = Of(t) /\ u # t
                             => tx[u].step \notin FlagSteps
    BY <1>c DEF FlagInv
  <2>1. \A u \in Threads : tx[u].step \in WriteHeld \union ReadHeld => tx[u].step \in FlagSteps
    BY DEF WriteHeld, ReadHeld, FlagSteps
  <2>2. ASSUME NEW u \in Threads, Runs(u)', tx'[u].step \in WriteHeld
        PROVE  lock'[Of(u)] = "write"
    <3>1. CASE u = t
      BY <2>2, <3>1, <1>a, <1>b, <1>c DEF LockInv, LockMove
    <3>2. CASE u # t
      BY <2>2, <3>2, <2>0, <2>1, <1>a, <1>b, <1>c DEF LockInv, LockMove
    <3> QED BY <3>1, <3>2
  <2>3. ASSUME NEW u \in Threads, Runs(u)', tx'[u].step \in ReadHeld
        PROVE  lock'[Of(u)] = "read"
    <3>1. CASE u = t
      BY <2>3, <3>1, <1>a, <1>b, <1>c DEF LockInv, LockMove
    <3>2. CASE u # t
      BY <2>3, <3>2, <2>0, <2>1, <1>a, <1>b, <1>c DEF LockInv, LockMove
    <3> QED BY <3>1, <3>2
  <2>4. \A p, q \in Procs : lock'[p] = "write" /\ p # q => lock'[q] = "none"
    BY <1>a, <1>c DEF LockInv, LockMove, Unlocked, Unwritten
  <2> QED BY <2>2, <2>3, <2>4 DEF LockInv, Of
<1>3. SeqInv'
  <2> SUFFICES ASSUME NEW u \in Threads, Runs(u)' PROVE Knows(u)'
    BY DEF SeqInv
  <2>1. CASE u = t
    BY <2>1, <1>c DEF SeqMove
  <2>2. CASE u # t /\ UNCHANGED <<sequence, owner>>
    BY <2>2, <1>b, <1>c DEF SeqInv, Knows, WriterValid
  <2>3. CASE u # t /\ tx[t].step \in WriteHeld
    <3>1. tx[u].step \notin WriteHeld /\ tx'[u] = tx[u]
      BY <2>3, <1>b, <1>c, SoleWriter
    <3> QED BY <3>1 DEF Knows, WriteHeld
  <2> QED BY <2>1, <2>2, <2>3, <1>c DEF SeqMove
<1> QED BY <1>1, <1>2, <1>3 DEF NsInv

(* Every step of the primitive by a thread is one.                         *)
LEMMA ThreadMoves ==
  ASSUME NsInv, NEW t \in Threads,
         \/ NsStep(t) \/ Begin(t) \/ Nest(t) \/ ReadBegin(t)
         \/ At(t, "in") /\ \E poison \in BOOLEAN : EndFrom(t, poison)
  PROVE  Move(t)
<1>a. /\ tx \in [Threads -> TxRec] /\ Of(t) \in Procs /\ tx[t].step \in Steps
      /\ sequence \in Nat /\ owner \in Nat /\ nextOwner \in Nat
      /\ MaxSequence \in Nat /\ MaxSequence % 2 = 1
      /\ tx[t].depth \in Nat
      /\ Runs(t) => Knows(t)
      /\ Runs(t) => (tx[t].step \in FlagSteps => flag[Of(t)])
  BY NamespaceAssumption DEF NsInv, NsTypeOK, TxRec, Threads, Of, SeqInv, FlagInv
<1> USE DEF Move, Alone, FlagMove, LockMove, SeqMove, At, Runs, FlagSteps, WriteHeld, ReadHeld
<1>1. CASE TakeFlag(t)
  <2>1. \/ tx[t].step = "flag" /\ tx'[t].step = "record"
        \/ tx[t].step = "readFlag" /\ tx'[t].step = "readRecord"
    BY <1>1, <1>a DEF TakeFlag, Go, TxRec
  <2>2. Runs(t) /\ live' = live /\ lock' = lock /\ UNCHANGED <<sequence, owner>>
    BY <1>1 DEF TakeFlag, sharedVars
  <2>3. \A u \in Threads : u # t => tx'[u] = tx[u]
    BY <1>1, <1>a DEF TakeFlag, Go
  <2>4. ~flag[Of(t)] /\ flag' = [flag EXCEPT ![Of(t)] = TRUE]
    BY <1>1 DEF TakeFlag
  <2> QED BY <2>1, <2>2, <2>3, <2>4 DEF Knows
<1>2. CASE FlagTimeout(t)
  BY <1>2, <1>a DEF FlagTimeout, Go, Return, Knows, sharedVars, lockVars
<1>3. CASE TakeWriteLock(t)
  BY <1>3, <1>a DEF TakeWriteLock, Go, Return, Knows, sharedVars, lockVars
<1>4. CASE TakeReadLock(t)
  BY <1>4, <1>a DEF TakeReadLock, Go, Return, Knows, sharedVars, lockVars
<1>5. CASE RecordTimeout(t)
  BY <1>5, <1>a DEF RecordTimeout, Go, Return, Knows, sharedVars, lockVars
<1>6. CASE Claim(t)
  <2>1. tx'[t] = [tx[t] EXCEPT !.step = "open", !.ident = nextOwner + 1]
    BY <1>6, <1>a DEF Claim
  <2>2. tx[t].step = "claim" /\ tx'[t].step = "open" /\ tx'[t].ident = owner'
    BY <1>6, <2>1, <1>a DEF Claim, TxRec
  <2>3. ~Odd(sequence) /\ sequence < MaxSequence - 1
    BY <1>6, <1>a DEF Claim, Exhausted, Odd, NsInv, NsTypeOK
  <2>4. /\ Runs(t) /\ live' = live /\ lock' = lock /\ flag' = flag /\ sequence' = sequence
        /\ \A u \in Threads : u # t => tx'[u] = tx[u]
    BY <1>6, <1>a DEF Claim, lockVars
  <2> QED BY <2>2, <2>3, <2>4 DEF Knows
<1>7. CASE Refuse(t)
  BY <1>7, <1>a DEF Refuse, Go, Return, Knows, sharedVars, lockVars
<1>8. CASE Refused(t)
  BY <1>8, <1>a DEF Refused, Go, Return, Knows, sharedVars, lockVars
<1>9. CASE Open(t)
  <2>1. tx'[t] = [tx[t] EXCEPT !.step = "in", !.gen = sequence + 1, !.depth = 1,
                               !.failed = FALSE]
    BY <1>9, <1>a DEF Open
  <2>2. /\ tx[t].step = "open" /\ tx'[t].step = "in" /\ tx'[t].ident = tx[t].ident
        /\ tx'[t].gen = sequence + 1 /\ tx'[t].depth = 1
    BY <1>9, <2>1, <1>a DEF Open, TxRec
  <2>3. ~Odd(sequence) /\ sequence < MaxSequence - 1 /\ owner = tx[t].ident
    BY <1>9, <2>2, <1>a DEF Open, Knows
  <2>4. /\ Runs(t) /\ live' = live /\ lock' = lock /\ flag' = flag /\ owner' = owner
        /\ sequence' = sequence + 1 /\ \A u \in Threads : u # t => tx'[u] = tx[u]
    BY <1>9, <1>a DEF Open, lockVars
  <2>5. Knows(t)'
    BY <2>2, <2>3, <2>4, <1>a, OddStep DEF Knows, WriterValid
  <2> QED BY <2>2, <2>4, <2>5
<1>10. CASE Publish(t)
  BY <1>10, <1>a DEF Publish, Go, Return, Knows, sharedVars, lockVars, Odd
<1>11. CASE Release(t)
  BY <1>11, <1>a DEF Release, Go, Return, Knows, sharedVars, lockVars
<1>12. CASE Clear(t)
  BY <1>12, <1>a DEF Clear, Go, Return, Knows, sharedVars, lockVars
<1>13. CASE ReadCheck(t)
  BY <1>13, <1>a DEF ReadCheck, Go, Return, Knows, sharedVars, lockVars
<1>14. CASE ReadUnlock(t)
  BY <1>14, <1>a DEF ReadUnlock, Go, Return, Knows, sharedVars, lockVars
<1>15. CASE ReadClear(t)
  BY <1>15, <1>a DEF ReadClear, Go, Return, Knows, sharedVars, lockVars
<1>16. CASE Begin(t)
  BY <1>16, <1>a DEF Begin, Go, Return, Knows, sharedVars, lockVars
<1>17. CASE Nest(t)
  <2>1. tx'[t] = [tx[t] EXCEPT !.depth = @ + 1]
    BY <1>17, <1>a DEF Nest
  <2>2. /\ tx[t].step = "in" /\ tx'[t].step = "in" /\ tx'[t].ident = tx[t].ident
        /\ tx'[t].gen = tx[t].gen /\ tx'[t].depth >= 1
    BY <1>17, <2>1, <1>a DEF Nest, TxRec
  <2>3. /\ Runs(t) /\ live' = live /\ lock' = lock /\ flag' = flag
        /\ UNCHANGED <<sequence, owner>> /\ \A u \in Threads : u # t => tx'[u] = tx[u]
    BY <1>17, <1>a DEF Nest, lockVars, sharedVars
  <2>4. Knows(t)'
    BY <2>2, <2>3, <1>a DEF Knows, WriterValid
  <2> QED BY <2>2, <2>3, <2>4
<1>18. CASE ReadBegin(t)
  <2>1. tx[t].step = "out" /\ tx'[t].step \in {"out", "readFlag"}
    BY <1>18, <1>a DEF ReadBegin, Go, Return, TxRec
  <2>2. \A u \in Threads : u # t => tx'[u] = tx[u]
    BY <1>18, <1>a DEF ReadBegin, Go, Return
  <2>3. /\ Runs(t) /\ live' = live /\ lock' = lock /\ flag' = flag
        /\ UNCHANGED <<sequence, owner>>
    BY <1>18 DEF ReadBegin, lockVars, sharedVars
  <2> QED BY <2>1, <2>2, <2>3 DEF Knows
<1>19. CASE At(t, "in") /\ \E poison \in BOOLEAN : EndFrom(t, poison)
  <2>1. PICK poison \in BOOLEAN : EndFrom(t, poison)
    BY <1>19
  <2>2. tx'[t] = [tx[t] EXCEPT !.depth = @ - 1,
                               !.step = IF tx[t].depth = 1 THEN "publish" ELSE "in"]
    BY <2>1, <1>a DEF EndFrom
  <2>3. /\ tx[t].step = "in" /\ tx'[t].ident = tx[t].ident /\ tx'[t].gen = tx[t].gen
        /\ tx'[t].step = (IF tx[t].depth = 1 THEN "publish" ELSE "in")
        /\ tx'[t].depth = tx[t].depth - 1
    BY <1>19, <2>2, <1>a DEF TxRec
  <2>4. /\ Runs(t) /\ live' = live /\ lock' = lock /\ flag' = flag /\ sequence' = sequence
        /\ owner' = (IF tx[t].depth = 1 THEN 0 ELSE owner)
        /\ \A u \in Threads : u # t => tx'[u] = tx[u]
    BY <1>19, <2>1, <1>a DEF EndFrom, lockVars
  <2>5. Knows(t)'
    BY <2>3, <2>4, <1>a DEF Knows, WriterValid
  <2> QED BY <2>3, <2>4, <2>5
<1> QED BY <1>1, <1>2, <1>3, <1>4, <1>5, <1>6, <1>7, <1>8, <1>9, <1>10, <1>11, <1>12, <1>13,
   <1>14, <1>15, <1>16, <1>17, <1>18, <1>19 DEF NsStep

(* A fork starts a process whose threads hold nothing.                     *)
LEMMA ForkSafe ==
  ASSUME NsInv, NsTypeOK', NEW t \in Threads, NEW q \in Procs, Fork(t, q)
  PROVE  NsInv'
<1>a. /\ tx \in [Threads -> TxRec] /\ live \in [Procs -> {"absent", "live", "gone"}]
      /\ flag \in [Procs -> BOOLEAN]
      /\ FlagInv /\ LockInv /\ SeqInv /\ live[q] = "absent"
  BY DEF NsInv, NsTypeOK, TxRec, Fork
<1>b. \A u \in Threads : Of(u) \in Procs
  BY DEF Threads, Of
<1>c. /\ live' = [live EXCEPT ![q] = "live"] /\ flag' = [flag EXCEPT ![q] = FALSE]
      /\ tx' = [tx EXCEPT ![<<q, MainNum>>] = Outside]
      /\ lock' = lock /\ UNCHANGED <<sequence, owner>>
  BY DEF Fork, sharedVars
<1>d. <<q, MainNum>> \in Threads /\ Of(<<q, MainNum>>) = q
  BY NamespaceAssumption DEF Threads, Of
<1>1. \A u \in Threads : tx'[u] = tx[u] \/ (Of(u) = q /\ tx'[u] = Outside)
  BY <1>a, <1>c, <1>d
<1>2. \A u \in Threads : Of(u) = q => tx'[u].step = "out"
  BY <1>1, <1>a DEF FlagInv, Outside
<1>3. \A u \in Threads : Of(u) # q => tx'[u] = tx[u] /\ Runs(u)' = Runs(u)
  BY <1>1, <1>a, <1>b, <1>c DEF Runs
<1>4. FlagInv'
  <2>1. FlagHasHolder'
    <3> SUFFICES ASSUME NEW p \in Procs, live'[p] = "live", flag'[p]
                 PROVE  \E n \in Nums : tx'[<<p, n>>].step \in FlagSteps
      BY DEF FlagHasHolder
    <3>1. p # q /\ live[p] = "live" /\ flag[p]
      BY <1>a, <1>c
    <3>2. PICK n \in Nums : tx[<<p, n>>].step \in FlagSteps
      BY <3>1, <1>a DEF FlagInv, FlagHasHolder
    <3>3. <<p, n>> \in Threads /\ Of(<<p, n>>) = p
      BY DEF Threads, Of
    <3> QED BY <3>1, <3>2, <3>3, <1>3
  <2>2. \A u \in Threads : Of(u) # q /\ Runs(u)' /\ tx'[u].step \in FlagSteps => flag'[Of(u)]
    BY <1>3, <1>a, <1>b, <1>c DEF FlagInv, Runs
  <2>3. \A u \in Threads : tx'[u].step \in FlagSteps => Of(u) # q
    BY <1>2 DEF FlagSteps
  <2>4. \A u, v \in Threads :
          /\ Runs(u)' /\ Of(u) = Of(v)
          /\ tx'[u].step \in FlagSteps /\ tx'[v].step \in FlagSteps
          => u = v
    BY <2>3, <1>3, <1>a DEF FlagInv
  <2>5. \A u \in Threads : live'[Of(u)] = "absent" => tx'[u].step = "out"
    BY <1>2, <1>3, <1>a, <1>b, <1>c DEF FlagInv
  <2> QED BY <2>1, <2>2, <2>3, <2>4, <2>5 DEF FlagInv, Of
<1>5. LockInv'
  <2>1. \A u \in Threads : tx'[u].step \in WriteHeld \union ReadHeld => Of(u) # q
    BY <1>2 DEF WriteHeld, ReadHeld
  <2>2. \A u \in Threads : Runs(u)' /\ tx'[u].step \in WriteHeld => lock'[Of(u)] = "write"
    BY <2>1, <1>3, <1>a, <1>c DEF LockInv
  <2>3. \A u \in Threads : Runs(u)' /\ tx'[u].step \in ReadHeld => lock'[Of(u)] = "read"
    BY <2>1, <1>3, <1>a, <1>c DEF LockInv
  <2> QED BY <2>2, <2>3, <1>a, <1>c DEF LockInv, Of
<1>6. SeqInv'
  BY <1>2, <1>3, <1>a, <1>c DEF SeqInv, Knows, WriterValid
<1> QED BY <1>4, <1>5, <1>6 DEF NsInv

(* A death leaves its threads where they are, without the lock.            *)
LEMMA DieSafe ==
  ASSUME NsInv, NsTypeOK', NEW p \in Procs, Die(p)
  PROVE  NsInv'
<1>a. /\ live \in [Procs -> {"absent", "live", "gone"}]
      /\ lock \in [Procs -> {"none", "read", "write"}]
      /\ FlagInv /\ LockInv /\ SeqInv
      /\ live' = [live EXCEPT ![p] = "gone"] /\ lock' = [lock EXCEPT ![p] = "none"]
      /\ flag' = flag /\ tx' = tx /\ UNCHANGED <<sequence, owner>>
  BY DEF NsInv, NsTypeOK, Die, sharedVars
<1>b. \A u \in Threads : Of(u) \in Procs
  BY DEF Threads, Of
<1>1. \A u \in Threads : Runs(u)' => Runs(u) /\ Of(u) # p
  BY <1>a, <1>b DEF Runs
<1>2. FlagInv'
  <2>1. FlagHasHolder'
    BY <1>a DEF FlagInv, FlagHasHolder
  <2>2. \A u \in Threads : live'[Of(u)] = "absent" => tx'[u].step = "out"
    BY <1>a, <1>b DEF FlagInv
  <2> QED BY <2>1, <2>2, <1>1, <1>a DEF FlagInv, Of
<1>3. LockInv'
  <2>1. \A u \in Threads : Runs(u)' /\ tx'[u].step \in WriteHeld => lock'[Of(u)] = "write"
    BY <1>1, <1>a, <1>b DEF LockInv
  <2>2. \A u \in Threads : Runs(u)' /\ tx'[u].step \in ReadHeld => lock'[Of(u)] = "read"
    BY <1>1, <1>a, <1>b DEF LockInv
  <2>3. \A r, q \in Procs : lock'[r] = "write" /\ r # q => lock'[q] = "none"
    BY <1>a DEF LockInv
  <2> QED BY <2>1, <2>2, <2>3 DEF LockInv, Of
<1>4. SeqInv'
  BY <1>1, <1>a DEF SeqInv, Knows, WriterValid
<1> QED BY <1>2, <1>3, <1>4 DEF NsInv

LEMMA NsInitially == NsInit => NsInv
<1> SUFFICES ASSUME NsInit PROVE NsInv
  OBVIOUS
<1>1. \A t \in Threads : tx[t].step = "out"
  BY DEF NsInit, Outside
<1>2. NsTypeOK
  <2>1. Outside \in TxRec
    BY NamespaceAssumption DEF Outside, TxRec, Steps
  <2>2. tx \in [Threads -> TxRec]
    BY <2>1 DEF NsInit
  <2>3. live \in [Procs -> {"absent", "live", "gone"}]
    BY DEF NsInit
  <2>4. flag \in [Procs -> BOOLEAN] /\ lock \in [Procs -> {"none", "read", "write"}]
    BY DEF NsInit
  <2>5. /\ sequence \in 0 .. MaxSequence /\ owner \in 0 .. MaxSequence
        /\ nextOwner \in 0 .. MaxSequence
    <3>1. sequence = 0 /\ owner = 0 /\ nextOwner = 0
      BY DEF NsInit
    <3> QED BY <3>1, NamespaceAssumption
  <2>6. poisoned \in BOOLEAN
    BY DEF NsInit
  <2> QED BY <2>2, <2>3, <2>4, <2>5, <2>6 DEF NsTypeOK, TxRec
<1>3. FlagInv
  BY <1>1 DEF NsInit, FlagInv, FlagHasHolder, FlagSteps
<1>4. LockInv
  BY <1>1 DEF NsInit, LockInv, WriteHeld, ReadHeld
<1>5. SeqInv
  BY <1>1 DEF SeqInv, Knows
<1> QED BY <1>2, <1>3, <1>4, <1>5 DEF NsInv

LEMMA NsPreserved == NsInv /\ NsNext => NsInv'
<1> SUFFICES ASSUME NsInv, NsNext PROVE NsInv'
  OBVIOUS
<1>0. NsTypeOK'
  BY NsTyped
<1>1. ASSUME NEW t \in Threads, NsStep(t) \/ Begin(t) \/ Nest(t) \/ ReadBegin(t) PROVE NsInv'
  BY <1>0, <1>1, ThreadMoves, MoveSafe
<1>2. ASSUME NEW t \in Threads, At(t, "in"), \E poison \in BOOLEAN : EndFrom(t, poison)
      PROVE  NsInv'
  BY <1>0, <1>2, ThreadMoves, MoveSafe
<1>3. ASSUME UNCHANGED nsVars PROVE NsInv'
  BY <1>3 DEF nsVars, NsInv, NsTypeOK, FlagInv, FlagHasHolder, LockInv, SeqInv, Knows,
     WriterValid, Runs
<1> QED BY <1>0, <1>1, <1>2, <1>3, ForkSafe, DieSafe DEF NsNext, NsBy

LEMMA NsAlways == Spec => []NsInv
<1>1. Init => NsInv
  BY NsInitially DEF Init
<1>2. NsInv /\ [Next]_vars => NsInv'
  BY NsSteps, NsPreserved
<1> QED BY <1>1, <1>2, PTL DEF Spec

(* The thread inside a transaction is the one the shared state names, and  *)
(* holds the flag of its process and the record lock, whatever forks, dies *)
(* or times out (namespace_transaction_begin): one writer at a time.       *)
THEOREM WriterAlone == Spec => []WriterIsAlone
<1>1. NsInv => WriterIsAlone
  BY DEF NsInv, WriterIsAlone, SeqInv, Knows, FlagInv, LockInv, At, Runs, FlagSteps, WriteHeld
<1> QED BY <1>1, NsAlways, PTL

(* A set flag is held by a thread of the living process: no error path of  *)
(* namespace_transaction_begin or _end, and no fork, leaves it set.        *)
THEOREM FlagHeld == Spec => []FlagHasHolder
<1>1. NsInv => FlagHasHolder
  BY DEF NsInv, FlagInv
<1> QED BY <1>1, NsAlways, PTL

(* Who changes the sequence: a writer about to open, or to publish.        *)
LEMMA SequenceMoves ==
  ASSUME NsInv, NsNext, sequence' # sequence
  PROVE  /\ sequence' = sequence + 1
         /\ \E t \in Threads : /\ Runs(t) /\ live' = live
                               /\ Open(t) \/ Publish(t)
BY DEF NsNext, NsBy, NsStep, TakeFlag, FlagTimeout, TakeWriteLock, TakeReadLock, RecordTimeout,
   Claim,
   Refuse, Refused, Open, Publish, Release, Clear, ReadCheck, ReadUnlock, ReadClear, Begin, Nest,
   ReadBegin, EndFrom, Fork, Die, nsVars, sharedVars, At, Runs

(* The sequence that a writer left odd is never moved again: claims refuse *)
(* it, so its half-made changes are not taken for published ones.          *)
THEOREM AbandonedIsClosed == Spec => AbandonedStaysClosed
<1>1. NsInv /\ [Next]_vars => [Abandoned => UNCHANGED sequence]_sequence
  <2> SUFFICES ASSUME NsInv, [Next]_vars, Abandoned, sequence' # sequence PROVE FALSE
    OBVIOUS
  <2>1. PICK t \in Threads : Runs(t) /\ (Open(t) \/ Publish(t))
    BY NsSteps, SequenceMoves
  <2>2. tx[t].step \in {"open", "publish"} /\ Knows(t)
    BY <2>1 DEF Open, Publish, At, NsInv, SeqInv
  <2> QED BY <2>1, <2>2 DEF Abandoned, Knows, Runs
<1> QED BY <1>1, NsAlways, PTL DEF Spec, AbandonedStaysClosed

(***************************************************************************)
(* The calls.                                                              *)
(***************************************************************************)
CallRec == [step : CallSteps, key : ObjectKeys \cup {NoKey}, ticket : Slots,
            stamp : 0 .. MaxStamp, slot : Slots, outer : 0 .. MaxSequence,
            before : 0 .. MaxSequence, probe : 0 .. Capacity,
            user : Users \cup {0}, got : BOOLEAN, tries : 0 .. MaxTries,
            looks : 0 .. MaxLooks]

(* A step of a thread leaves the calls of the others alone.                *)
CallFrame(t) ==
  call' \in [Threads -> CallRec] /\ \A u \in Threads : u # t => call'[u] = call[u]

LEMMA ToFrame ==
  ASSUME call \in [Threads -> CallRec], NEW t \in Threads, NEW s \in CallSteps, To(t, s)
  PROVE  /\ CallFrame(t)
         /\ call'[t] = [call[t] EXCEPT !.step = s] /\ call'[t].step = s
         /\ call'[t].key = call[t].key /\ call'[t].ticket = call[t].ticket
         /\ call'[t].stamp = call[t].stamp /\ call'[t].slot = call[t].slot
         /\ call'[t].outer = call[t].outer /\ call'[t].before = call[t].before
         /\ call'[t].user = call[t].user /\ call'[t].got = call[t].got
<1>1. /\ call' = [u \in Threads |-> IF u = t THEN [call[t] EXCEPT !.step = s] ELSE call[u]]
      /\ call[t] \in CallRec
  BY DEF To
<1>2. [call[t] EXCEPT !.step = s] \in CallRec
  BY <1>1 DEF CallRec
<1> QED BY <1>1, <1>2 DEF CallFrame, CallRec

LEMMA DoneFrame ==
  ASSUME call \in [Threads -> CallRec], NEW t \in Threads, Done(t)
  PROVE  CallFrame(t) /\ call'[t] = Waiting
<1>1. Waiting \in CallRec
  <2>1. /\ 0 \in Slots /\ 0 \in 0 .. MaxStamp /\ 0 \in 0 .. MaxSequence /\ 0 \in 0 .. Capacity
        /\ 0 \in 0 .. MaxTries /\ 0 \in 0 .. MaxLooks /\ "idle" \in CallSteps
    BY RegistryAssumption, NamespaceAssumption, SocketAssumption DEF CallSteps, Slots
  <2> QED BY <2>1 DEF Waiting, CallRec
<1> QED BY <1>1 DEF Done, CallFrame

(* Every step of a thread is framed so.                                    *)
LEMMA Framed ==
  ASSUME TypeOK, ReaderInv, NEW t \in Threads, Step(t) \/ Start(t) \/ Nested(t)
  PROVE  CallFrame(t)
<1>a. call \in [Threads -> CallRec] /\ call[t] \in CallRec
  BY DEF TypeOK, CallRec
<1>b. ASSUME call' = call PROVE CallFrame(t)
  BY <1>a, <1>b DEF CallFrame
<1>e. /\ call[t].looks \in 0 .. MaxLooks /\ call[t].tries \in 0 .. MaxTries
      /\ call[t].probe \in 0 .. Capacity
      /\ MaxLooks \in Nat /\ MaxTries \in Nat /\ Capacity \in Nat
  BY <1>a, SocketAssumption, RegistryAssumption DEF CallRec
<1>c. ASSUME NEW r \in CallRec, call' = [call EXCEPT ![t] = r] PROVE CallFrame(t)
  BY <1>a, <1>c DEF CallFrame
<1>d. ASSUME Retry(t, "inner") PROVE CallFrame(t)
  <2>1. ASSUME call[t].tries < MaxTries
        PROVE  [call[t] EXCEPT !.step = "inner", !.tries = @ + 1, !.looks = 0] \in CallRec
    <3>1. call[t].tries + 1 \in 0 .. MaxTries /\ 0 \in 0 .. MaxLooks
      BY <2>1, <1>e
    <3> QED BY <3>1, <1>a DEF CallRec, CallSteps
  <2>2. CASE call[t].tries < MaxTries
    <3>1. call' = [call EXCEPT ![t] = [call[t] EXCEPT !.step = "inner", !.tries = @ + 1,
                                                      !.looks = 0]]
      BY <1>d, <2>2, <1>a DEF Retry
    <3> QED BY <3>1, <2>1, <2>2, <1>c
  <2> QED BY <1>d, <2>2, <1>a, ToFrame DEF Retry, CallSteps
<1>1. CASE NsProgress(t)
  BY <1>1, <1>b DEF NsProgress
<1>2. CASE Refusal(t)
  BY <1>2, <1>a, DoneFrame DEF Refusal
<1>3. CASE Prepare(t)
  <2>1. CASE \E i \in Slots : /\ CanReserve
                             /\ call' = [call EXCEPT ![t].step = "bind", ![t].ticket = i,
                                                     ![t].stamp = nextStamp]
    <3>1. PICK i \in Slots : call' = [call EXCEPT ![t].step = "bind", ![t].ticket = i,
                                                  ![t].stamp = nextStamp]
      BY <2>1
    <3>2. nextStamp \in 0 .. MaxStamp
      BY <2>1, RegistryAssumption DEF CanReserve, HasStamps, TypeOK, RegTypeOK
    <3>3. [call[t] EXCEPT !.step = "bind", !.ticket = i, !.stamp = nextStamp] \in CallRec
      BY <3>2, <1>a DEF CallRec, CallSteps
    <3> QED BY <3>1, <3>3, <1>c, <1>a
  <2> QED BY <1>3, <2>1, <1>a, ToFrame DEF Prepare, Reserve, EndCall, CallSteps
<1>4. CASE BindSocket(t)
  <2>1. ASSUME NEW k \in ObjectKeys,
               call' = [call EXCEPT ![t].step = "identify", ![t].key = k]
        PROVE  CallFrame(t)
    <3>1. [call[t] EXCEPT !.step = "identify", !.key = k] \in CallRec
      BY <1>a DEF CallRec, CallSteps
    <3> QED BY <2>1, <3>1, <1>c, <1>a
  <2> QED BY <1>4, <2>1, <1>a, ToFrame DEF BindSocket, FinishClaim, Finish, EndCall, CallSteps
<1>5. CASE Identify(t)
  BY <1>5, <1>a, ToFrame DEF Identify, FinishClaim, Finish, EndCall, CallSteps
<1>6. CASE CommitStart(t)
  <2>1. ASSUME NEW i \in Slots, call' = [call EXCEPT ![t].step = "payload", ![t].slot = i]
        PROVE  CallFrame(t)
    <3>1. [call[t] EXCEPT !.step = "payload", !.slot = i] \in CallRec
      BY <1>a DEF CallRec, CallSteps
    <3> QED BY <2>1, <3>1, <1>c, <1>a
  <2> QED BY <1>6, <2>1, <1>a, ToFrame DEF CommitStart, CallSteps
<1>7. CASE CommitState(t)
  BY <1>7, <1>a, ToFrame DEF CommitState, CallSteps
<1>8. CASE CommitDone(t)
  BY <1>8, <1>a, ToFrame DEF CommitDone, CallSteps
<1>9. CASE Rollback(t)
  BY <1>9, <1>a, ToFrame DEF Rollback, Finish, EndCall, CallSteps
<1>10. CASE FinishBind(t)
  BY <1>10, <1>a, ToFrame DEF FinishBind, Finish, EndCall, CallSteps
<1>11. CASE Lookup(t)
  <2>1. ASSUME NEW i \in Slots, call' = [call EXCEPT ![t].step = "store", ![t].slot = i]
        PROVE  CallFrame(t)
    <3>1. [call[t] EXCEPT !.step = "store", !.slot = i] \in CallRec
      BY <1>a DEF CallRec, CallSteps
    <3> QED BY <2>1, <3>1, <1>c, <1>a
  <2> QED BY <1>11, <2>1, <1>a, ToFrame DEF Lookup, EndCall, CallSteps
<1>12. CASE Store(t)
  BY <1>12, <1>a, ToFrame DEF Store, CallSteps
<1>13. CASE Relive(t)
  BY <1>13, <1>a, ToFrame DEF Relive, EndCall, CallSteps
<1>14. CASE Ended(t)
  BY <1>14, <1>a, DoneFrame DEF Ended
<1>15. CASE OuterBegun(t)
  <2>1. tx[t].seen \in 0 .. MaxSequence
    BY DEF TypeOK, NsTypeOK
  <2>2. [call[t] EXCEPT !.step = "stat", !.outer = tx[t].seen] \in CallRec
    BY <2>1, <1>a DEF CallRec, CallSteps
  <2> QED BY <1>15, <2>2, <1>a, <1>c, DoneFrame DEF OuterBegun
<1>16. CASE StatFile(t)
  <2>1. ASSUME file # NoFile
        PROVE  [call[t] EXCEPT !.step = "inner", !.key = file, !.got = FALSE, !.looks = 0]
                 \in CallRec
    <3>1. file \in ObjectKeys /\ 0 \in 0 .. MaxLooks
      BY <2>1, SocketAssumption DEF TypeOK
    <3> QED BY <3>1, <1>a DEF CallRec, CallSteps
  <2> QED BY <1>16, <2>1, <1>a, <1>c, DoneFrame DEF StatFile
<1>17. CASE InnerStart(t)
  BY <1>17, <1>a, ToFrame DEF InnerStart, CallSteps
<1>18. CASE InnerBegun(t)
  BY <1>18, <1>a, ToFrame DEF InnerBegun, CallSteps
<1>19. CASE LookBefore(t)
  <2>1. ASSUME call[t].looks # MaxLooks
        PROVE  [call[t] EXCEPT !.step = "probe", !.before = sequence, !.probe = 0,
                               !.looks = @ + 1] \in CallRec
    <3>1. /\ sequence \in 0 .. MaxSequence /\ 0 \in 0 .. Capacity
          /\ call[t].looks + 1 \in 0 .. MaxLooks
      <4>1. sequence \in 0 .. MaxSequence
        BY DEF TypeOK, NsTypeOK
      <4> QED BY <4>1, <2>1, <1>e
    <3> QED BY <3>1, <1>a DEF CallRec, CallSteps
  <2>2. CASE ~(Odd(sequence) \/ call[t].looks = MaxLooks)
    <3>1. call' = [call EXCEPT ![t] = [call[t] EXCEPT !.step = "probe", !.before = sequence,
                                                      !.probe = 0, !.looks = @ + 1]]
      BY <1>19, <2>2, <1>a DEF LookBefore
    <3> QED BY <3>1, <2>1, <2>2, <1>c
  <2> QED BY <1>19, <2>2, <1>a, ToFrame DEF LookBefore, CallSteps
<1>20. CASE LookProbe(t)
  <2> DEFINE i == Probe(call[t].key, call[t].probe)
  <2>1. [call[t] EXCEPT !.step = "after", !.got = FALSE] \in CallRec
    BY <1>a DEF CallRec, CallSteps
  <2>2. [call[t] EXCEPT !.step = "load", !.slot = i, !.stamp = slots[i].stamp] \in CallRec
    <3>1. call[t].key \in ObjectKeys /\ call[t].probe \in Nat
      BY <1>20, <1>a DEF LookProbe, Doing, ReaderInv, Reading, ReadCalls, ProbeCalls, CallRec
    <3>2. i \in Slots
      BY <3>1, ProbeIsSlot
    <3>3. slots[i].stamp \in 0 .. MaxStamp
      BY <3>2 DEF TypeOK, RegTypeOK
    <3>4. ASSUME NEW j \in Slots, NEW x \in 0 .. MaxStamp
          PROVE  [call[t] EXCEPT !.step = "load", !.slot = j, !.stamp = x] \in CallRec
      BY <1>a DEF CallRec, CallSteps
    <3> QED BY <3>2, <3>3, <3>4
  <2>3. ASSUME call[t].probe # Capacity PROVE [call[t] EXCEPT !.probe = @ + 1] \in CallRec
    <3>1. call[t].probe + 1 \in 0 .. Capacity
      BY <2>3, <1>e
    <3> QED BY <3>1, <1>a DEF CallRec
  <2>4. \/ call' = [call EXCEPT ![t].step = "after", ![t].got = FALSE]
        \/ call' = [call EXCEPT ![t].step = "load", ![t].slot = i, ![t].stamp = slots[i].stamp]
        \/ call[t].probe # Capacity /\ call' = [call EXCEPT ![t].probe = @ + 1]
    BY <1>20 DEF LookProbe
  <2> HIDE DEF i
  <2>5. \/ call' = [call EXCEPT ![t] = [call[t] EXCEPT !.step = "after", !.got = FALSE]]
        \/ call' = [call EXCEPT ![t] = [call[t] EXCEPT !.step = "load", !.slot = i,
                                                      !.stamp = slots[i].stamp]]
        \/ /\ call[t].probe # Capacity
           /\ call' = [call EXCEPT ![t] = [call[t] EXCEPT !.probe = @ + 1]]
    BY <2>4, <1>a
  <2> QED BY <2>1, <2>2, <2>3, <2>5, <1>c
<1>21. CASE LookLoad(t)
  <2>1. slots[call[t].slot].user \in Users \cup {0}
    BY <1>a DEF TypeOK, RegTypeOK, CallRec
  <2>2. [call[t] EXCEPT !.step = "recheck", !.user = slots[call[t].slot].user, !.got = TRUE]
          \in CallRec
    BY <2>1, <1>a DEF CallRec, CallSteps
  <2> QED BY <1>21, <2>2, <1>a, <1>c DEF LookLoad
<1>22. CASE LookRecheck(t)
  BY <1>22, <1>a, ToFrame DEF LookRecheck, CallSteps
<1>23. CASE LookAfter(t)
  BY <1>23, <1>a, ToFrame DEF LookAfter, CallSteps
<1>24. CASE Validate(t)
  <2>1. ASSUME Retry(t, "inner") PROVE CallFrame(t)
    BY <2>1, <1>d
  <2> QED BY <1>24, <2>1, <1>a, ToFrame DEF Validate, CallSteps
<1>25. CASE Again(t)
  <2>1. ASSUME Retry(t, "inner") PROVE CallFrame(t)
    BY <2>1, <1>d
  <2> QED BY <1>25, <2>1, <1>a, ToFrame DEF Again, CallSteps
<1>26. CASE StatDone(t)
  <2>1. ASSUME call[t].tries < MaxTries
        PROVE  [call[t] EXCEPT !.step = "outer", !.tries = @ + 1] \in CallRec
    <3>1. call[t].tries + 1 \in 0 .. MaxTries
      BY <2>1, <1>e
    <3> QED BY <3>1, <1>a DEF CallRec, CallSteps
  <2>2. CASE /\ call[t].tries < MaxTries
             /\ call' = [call EXCEPT ![t].step = "outer", ![t].tries = @ + 1]
    <3>1. call' = [call EXCEPT ![t] = [call[t] EXCEPT !.step = "outer", !.tries = @ + 1]]
      BY <2>2, <1>a
    <3> QED BY <3>1, <2>1, <2>2, <1>c
  <2> QED BY <1>26, <2>2, <1>a, DoneFrame DEF StatDone
<1>27. CASE Start(t)
  BY <1>27, <1>a, <1>b, ToFrame DEF Start, StartWriter, Unlink, StatStart, CallSteps
<1>28. CASE Nested(t)
  BY <1>28, <1>b DEF Nested, callVars
<1> QED BY <1>1, <1>2, <1>3, <1>4, <1>5, <1>6, <1>7, <1>8, <1>9, <1>10, <1>11, <1>12, <1>13,
   <1>14, <1>15, <1>16, <1>17, <1>18, <1>19, <1>20, <1>21, <1>22, <1>23, <1>24, <1>25, <1>26,
   <1>27, <1>28 DEF Step

(* A step of a thread leaves the transactions of the others alone.         *)
TxFrame(t) == live' = live /\ \A u \in Threads : u # t => tx'[u] = tx[u]

LEMMA TxFramed ==
  ASSUME NsInv, NEW t \in Threads, Step(t) \/ Start(t) \/ Nested(t)
  PROVE  TxFrame(t)
<1>1. CASE UNCHANGED nsVars
  BY <1>1 DEF nsVars, TxFrame
<1> QED BY <1>1, NsSteps, ThreadMoves DEF NsBy, Move, Alone, TxFrame

(* The end of a transaction: published, or back in the outer one.          *)
LEMMA EndFacts ==
  ASSUME NsInv, NEW t \in Threads, tx[t].step = "in", NEW poison \in BOOLEAN, EndFrom(t, poison)
  PROVE  /\ tx'[t].step \in {"publish", "in"} /\ tx'[t].seen = tx[t].seen
         /\ sequence' = sequence /\ poisoned' = (poisoned \/ poison)
<1>1. tx \in [Threads -> TxRec]
  BY DEF NsInv, NsTypeOK, TxRec
<1> QED BY <1>1 DEF EndFrom, TxRec

(* A call that is no part of a transaction is made outside of it.          *)
LEMMA OutsideCall ==
  ASSUME NsInv, CallInv, NEW t \in Threads,
         call[t].step \notin WriterCalls \union {"outer", "begun"}
  PROVE  tx[t].step = "out"
<1>1. tx[t].step \in Steps
  BY DEF NsInv, NsTypeOK
<1> QED BY <1>1 DEF CallInv, Matched, Steps, FlagSteps, BeginSteps, EndSteps, ReadSteps,
           WriterCalls

(* Every step of a thread keeps its call and its transaction together.     *)
LEMMA MatchedStep ==
  ASSUME TypeOK, NsInv, CallInv, ReaderInv, NEW t \in Threads,
         Step(t) \/ Start(t) \/ Nested(t)
  PROVE  Matched(t)'
<1>a. /\ call \in [Threads -> CallRec] /\ tx \in [Threads -> TxRec]
      /\ tx[t].step \in Steps /\ Matched(t)
  BY DEF TypeOK, CallRec, CallInv, NsTypeOK, TxRec
<1>b. ASSUME tx'[t].step = "out" PROVE Matched(t)'
  BY <1>b DEF Matched, BeginSteps, EndSteps, ReadSteps
<1>c. ASSUME tx[t].step = "out", UNCHANGED nsVars PROVE Matched(t)'
  BY <1>c, <1>b DEF nsVars
<1>d. ASSUME tx'[t].step = "in", call'[t].step \in WriterCalls PROVE Matched(t)'
  BY <1>d DEF Matched, BeginSteps, EndSteps, ReadSteps
<1>e. ASSUME Entered(t, call[t].step), EndCall(t, TRUE) \/ EndCall(t, FALSE)
      PROVE  Matched(t)'
  <2>1. call'[t].step = "end"
    BY <1>a, <1>e, ToFrame DEF EndCall, CallSteps
  <2>2. tx'[t].step \in {"publish", "in"}
    BY <1>e, EndFacts DEF EndCall, Entered, InTx
  <2> QED BY <2>1, <2>2 DEF Matched, BeginSteps, EndSteps, ReadSteps, WriterCalls
<1>f. ASSUME Entered(t, call[t].step), UNCHANGED nsVars, call'[t].step \in WriterCalls
      PROVE  Matched(t)'
  BY <1>f, <1>d DEF nsVars, Entered, InTx
<1>g. ASSUME NEW s, Entered(t, s) PROVE Entered(t, call[t].step) /\ call[t].step = s
  BY <1>g DEF Entered, Doing
<1>h. ASSUME call[t].step \notin WriterCalls \union {"outer", "begun"}, UNCHANGED nsVars
      PROVE  Matched(t)'
  BY <1>h, <1>c, OutsideCall
<1> USE DEF Doing
<1>1. CASE NsProgress(t)
  <2>0. call' = call /\ NsStep(t)
    BY <1>1 DEF NsProgress
  <2>1. CASE TakeFlag(t)
    BY <2>1, <2>0, <1>a DEF TakeFlag, At, Go, Return, TxRec, Matched, BeginSteps, EndSteps,
       ReadSteps, WriterCalls
  <2>2. CASE FlagTimeout(t)
    BY <2>2, <2>0, <1>a DEF FlagTimeout, At, Go, Return, TxRec, Matched, BeginSteps, EndSteps,
       ReadSteps, WriterCalls
  <2>3. CASE TakeWriteLock(t)
    BY <2>3, <2>0, <1>a DEF TakeWriteLock, At, Go, Return, TxRec, Matched, BeginSteps,
       EndSteps, ReadSteps, WriterCalls
  <2>4. CASE TakeReadLock(t)
    BY <2>4, <2>0, <1>a DEF TakeReadLock, At, Go, Return, TxRec, Matched, BeginSteps, EndSteps,
       ReadSteps, WriterCalls
  <2>5. CASE RecordTimeout(t)
    BY <2>5, <2>0, <1>a DEF RecordTimeout, At, Go, Return, TxRec, Matched, BeginSteps,
       EndSteps, ReadSteps, WriterCalls
  <2>6. CASE Claim(t)
    BY <2>6, <2>0, <1>a DEF Claim, At, Go, Return, TxRec, Matched, BeginSteps, EndSteps,
       ReadSteps, WriterCalls
  <2>7. CASE Refuse(t)
    BY <2>7, <2>0, <1>a DEF Refuse, At, Go, Return, TxRec, Matched, BeginSteps, EndSteps,
       ReadSteps, WriterCalls
  <2>8. CASE Refused(t)
    BY <2>8, <2>0, <1>a DEF Refused, At, Go, Return, TxRec, Matched, BeginSteps, EndSteps,
       ReadSteps, WriterCalls
  <2>9. CASE Open(t)
    BY <2>9, <2>0, <1>a DEF Open, At, Go, Return, TxRec, Matched, BeginSteps, EndSteps,
       ReadSteps, WriterCalls
  <2>10. CASE Publish(t)
    BY <2>10, <2>0, <1>a DEF Publish, At, Go, Return, TxRec, Matched, BeginSteps, EndSteps,
       ReadSteps, WriterCalls
  <2>11. CASE Release(t)
    BY <2>11, <2>0, <1>a DEF Release, At, Go, Return, TxRec, Matched, BeginSteps, EndSteps,
       ReadSteps, WriterCalls
  <2>12. CASE Clear(t)
    BY <2>12, <2>0, <1>a DEF Clear, At, Go, Return, TxRec, Matched, BeginSteps, EndSteps,
       ReadSteps, WriterCalls
  <2>13. CASE ReadCheck(t)
    BY <2>13, <2>0, <1>a DEF ReadCheck, At, Go, Return, TxRec, Matched, BeginSteps, EndSteps,
       ReadSteps, WriterCalls
  <2>14. CASE ReadUnlock(t)
    BY <2>14, <2>0, <1>a DEF ReadUnlock, At, Go, Return, TxRec, Matched, BeginSteps, EndSteps,
       ReadSteps, WriterCalls
  <2>15. CASE ReadClear(t)
    BY <2>15, <2>0, <1>a DEF ReadClear, At, Go, Return, TxRec, Matched, BeginSteps, EndSteps,
       ReadSteps, WriterCalls
  <2> QED BY <2>0, <2>1, <2>2, <2>3, <2>4, <2>5, <2>6, <2>7, <2>8, <2>9, <2>10, <2>11, <2>12,
     <2>13, <2>14, <2>15 DEF NsStep
<1>2. CASE Refusal(t)
  BY <1>2, <1>c DEF Refusal, Out
<1>3. CASE Prepare(t)
  <2>1. CASE \E i \in Slots : call' = [call EXCEPT ![t].step = "bind", ![t].ticket = i,
                                                  ![t].stamp = nextStamp] /\ UNCHANGED nsVars
    <3>1. call'[t].step = "bind"
      BY <2>1, <1>a DEF CallRec
    <3> QED BY <1>3, <2>1, <3>1, <1>f, <1>g DEF Prepare, WriterCalls
  <2> QED BY <1>3, <2>1, <1>e, <1>g DEF Prepare
<1>4. CASE BindSocket(t)
  <2>1. CASE /\ \E k \in ObjectKeys : call' = [call EXCEPT ![t].step = "identify", ![t].key = k]
             /\ UNCHANGED nsVars
    BY <1>4, <2>1, <1>a, <1>f, <1>g DEF BindSocket, CallRec, WriterCalls
  <2> QED BY <1>4, <2>1, <1>e, <1>g DEF BindSocket, FinishClaim, Finish
<1>5. CASE Identify(t)
  <2>1. CASE To(t, "commit") /\ UNCHANGED nsVars
    BY <1>5, <2>1, <1>a, <1>f, <1>g, ToFrame DEF Identify, CallSteps, WriterCalls
  <2> QED BY <1>5, <2>1, <1>e, <1>g DEF Identify, FinishClaim, Finish, nsVars
<1>6. CASE CommitStart(t)
  <2>1. call'[t].step \in {"payload", "rollback"}
    BY <1>6, <1>a, ToFrame DEF CommitStart, CallRec, CallSteps
  <2> QED BY <1>6, <2>1, <1>f, <1>g DEF CommitStart, WriterCalls
<1>7. CASE CommitState(t)
  BY <1>7, <1>a, <1>f, <1>g, ToFrame DEF CommitState, CallSteps, WriterCalls
<1>8. CASE CommitDone(t)
  BY <1>8, <1>a, <1>f, <1>g, ToFrame DEF CommitDone, CallSteps, WriterCalls
<1>9. CASE Store(t)
  BY <1>9, <1>a, <1>f, <1>g, ToFrame DEF Store, CallSteps, WriterCalls
<1>10. CASE Rollback(t)
  BY <1>10, <1>e, <1>g DEF Rollback, Finish
<1>11. CASE FinishBind(t)
  BY <1>11, <1>e, <1>g DEF FinishBind, Finish
<1>12. CASE Relive(t)
  BY <1>12, <1>e, <1>g DEF Relive, Finish
<1>13. CASE Lookup(t)
  <2>1. CASE /\ \E i \in Slots : call' = [call EXCEPT ![t].step = "store", ![t].slot = i]
             /\ UNCHANGED nsVars
    <3>1. call'[t].step = "store"
      BY <2>1, <1>a DEF CallRec
    <3> QED BY <1>13, <2>1, <3>1, <1>f, <1>g DEF Lookup, WriterCalls
  <2> QED BY <1>13, <2>1, <1>e, <1>g DEF Lookup
<1>14. CASE Ended(t)
  BY <1>14, <1>c DEF Ended, Out
<1>15. CASE OuterBegun(t)
  BY <1>15, <1>c DEF OuterBegun, Out
<1>16. CASE InnerBegun(t)
  BY <1>16, <1>c DEF InnerBegun, Out
<1>17. CASE StatFile(t)
  BY <1>17, <1>h DEF StatFile, WriterCalls
<1>18. CASE LookBefore(t)
  BY <1>18, <1>h DEF LookBefore, WriterCalls
<1>19. CASE LookProbe(t)
  BY <1>19, <1>h DEF LookProbe, WriterCalls
<1>20. CASE LookLoad(t)
  BY <1>20, <1>h DEF LookLoad, WriterCalls
<1>21. CASE LookRecheck(t)
  BY <1>21, <1>h DEF LookRecheck, WriterCalls
<1>22. CASE LookAfter(t)
  BY <1>22, <1>h DEF LookAfter, WriterCalls
<1>23. CASE Validate(t)
  BY <1>23, <1>h DEF Validate, WriterCalls
<1>24. CASE Again(t)
  BY <1>24, <1>h DEF Again, WriterCalls
<1>25. CASE InnerStart(t)
  <2>1. tx'[t].step \in {"out", "readFlag"}
    BY <1>25, <1>a DEF InnerStart, ReadBegin, At, Go, Return, TxRec
  <2>2. call'[t].step = "begun"
    BY <1>25, <1>a, ToFrame DEF InnerStart, CallSteps
  <2> QED BY <2>1, <2>2 DEF Matched, BeginSteps, EndSteps, ReadSteps
<1>26. CASE StatDone(t)
  <2>1. CASE UNCHANGED nsVars
    BY <1>26, <2>1, <1>h DEF StatDone, WriterCalls
  <2>2. CASE ReadBegin(t) /\ call' = [call EXCEPT ![t].step = "outer", ![t].tries = @ + 1]
    <3>1. tx'[t].step \in {"out", "readFlag"}
      BY <2>2, <1>a DEF ReadBegin, At, Go, Return, TxRec
    <3>2. call'[t].step = "outer"
      BY <2>2, <1>a DEF CallRec
    <3> QED BY <3>1, <3>2 DEF Matched, BeginSteps, EndSteps, ReadSteps
  <2> QED BY <1>26, <2>1, <2>2 DEF StatDone, nsVars
<1>27. CASE StatStart(t)
  <2>1. tx'[t].step \in {"out", "readFlag"}
    BY <1>27, <1>a DEF StatStart, ReadBegin, At, Go, Return, TxRec
  <2>2. call'[t].step = "outer"
    BY <1>27, <1>a, ToFrame DEF StatStart, CallSteps
  <2> QED BY <2>1, <2>2 DEF Matched, BeginSteps, EndSteps, ReadSteps
<1>28. CASE StartWriter(t)
  <2>1. tx'[t].step = "flag"
    BY <1>28, <1>a DEF StartWriter, Begin, At, Go, TxRec
  <2>2. call'[t].step \in {"prepare", "lookup"}
    BY <1>28, <1>a, ToFrame DEF StartWriter, CallSteps
  <2> QED BY <2>1, <2>2 DEF Matched, BeginSteps, EndSteps, ReadSteps
<1>29. CASE Unlink(t)
  BY <1>29, <1>a DEF Unlink, Matched, nsVars
<1>30. CASE Nested(t)
  <2>1. call' = call
    BY <1>30 DEF Nested, callVars
  <2>2. CASE Nest(t)
    BY <1>30, <2>1, <2>2, <1>a, <1>d DEF Nested, InTx, Nest, TxRec, Matched
  <2>3. CASE EndFrom(t, FALSE) /\ call[t].step = "end"
    <3>1. tx'[t].step \in {"publish", "in"}
      BY <1>30, <2>3, EndFacts DEF Nested, InTx
    <3> QED BY <3>1, <2>1, <2>3 DEF Matched, BeginSteps, EndSteps, ReadSteps, WriterCalls
  <2>4. CASE tx[t].depth > 1 /\ EndFrom(t, FALSE)
    <3>1. tx[t].depth \in Nat
      BY <1>a, NamespaceAssumption DEF TxRec
    <3>2. tx'[t].step = "in"
      BY <2>4, <3>1, <1>a DEF EndFrom, TxRec
    <3> QED BY <1>30, <3>2, <2>1, <1>a, <1>d DEF Nested, InTx, Matched
  <2> QED BY <1>30, <2>2, <2>3, <2>4 DEF Nested
<1> QED BY <1>1, <1>2, <1>3, <1>4, <1>5, <1>6, <1>7, <1>8, <1>9, <1>10, <1>11, <1>12, <1>13,
   <1>14, <1>15, <1>16, <1>17, <1>18, <1>19, <1>20, <1>21, <1>22, <1>23, <1>24, <1>25, <1>26,
   <1>27, <1>28, <1>29, <1>30 DEF Step, Start

(***************************************************************************)
(* The table.                                                              *)
(***************************************************************************)
SlotRec == [kind : {"empty", "claiming", "live", "tombstone"},
            stamp : 0 .. MaxStamp, key : ObjectKeys \cup {NoKey},
            user : Users \cup {0}, links : 0 .. MaxRefs, fds : 0 .. MaxRefs]

(* A step that stores into one slot.                                       *)
SlotOnly(i) == \A j \in Slots : j # i => slots'[j] = slots[j]

LEMMA LivesFinite == IsFiniteSet(Lives) /\ Cardinality(Lives) \in Nat
<1>1. IsFiniteSet(Slots)
  BY RegistryAssumption, FS_Interval DEF Slots
<1>2. Lives \subseteq Slots
  BY DEF Lives
<1> QED BY <1>1, <1>2, FS_Subset, FS_CardinalityType

(* The number of live slots follows the one that changes.                  *)
LEMMA LivesCount ==
  ASSUME NEW i \in Slots, SlotOnly(i)
  PROVE  /\ slots[i].kind # "live" /\ slots'[i].kind # "live" => Lives' = Lives
         /\ slots[i].kind = "live" /\ slots'[i].kind = "live" => Lives' = Lives
         /\ slots[i].kind # "live" /\ slots'[i].kind = "live"
              => Cardinality(Lives') = Cardinality(Lives) + 1
         /\ slots[i].kind = "live" /\ slots'[i].kind # "live"
              => Cardinality(Lives') = Cardinality(Lives) - 1 /\ Cardinality(Lives) >= 1
<1>1. /\ slots[i].kind # "live" /\ slots'[i].kind # "live" => Lives' = Lives
      /\ slots[i].kind = "live" /\ slots'[i].kind = "live" => Lives' = Lives
  BY DEF Lives, SlotOnly
<1>2. ASSUME slots[i].kind # "live", slots'[i].kind = "live"
      PROVE  Cardinality(Lives') = Cardinality(Lives) + 1
  <2>1. Lives' = Lives \cup {i} /\ i \notin Lives
    BY <1>2 DEF Lives, SlotOnly
  <2> QED BY <2>1, LivesFinite, FS_AddElement
<1>3. ASSUME slots[i].kind = "live", slots'[i].kind # "live"
      PROVE  Cardinality(Lives') = Cardinality(Lives) - 1 /\ Cardinality(Lives) >= 1
  <2>1. Lives' = Lives \ {i} /\ i \in Lives
    BY <1>3 DEF Lives, SlotOnly
  <2>2. Cardinality(Lives') = Cardinality(Lives) - 1
    BY <2>1, LivesFinite, FS_RemoveElement
  <2>3. Cardinality(Lives) # 0
    BY <2>1, LivesFinite, FS_EmptySet
  <2> QED BY <2>2, <2>3, LivesFinite
<1> QED BY <1>1, <1>2, <1>3

(* So does the set of claims.                                              *)
LEMMA ClaimsSet ==
  ASSUME NEW i \in Slots, SlotOnly(i)
  PROVE  /\ slots'[i].kind = "claiming" => Claims' = Claims \cup {i}
         /\ slots'[i].kind # "claiming" => Claims' = Claims \ {i}
BY DEF Claims, SlotOnly

(* A slot that was not empty never is again.                               *)
Firm(i) == slots'[i].kind # "empty" \/ slots'[i].kind = slots[i].kind

LEMMA ReachKept ==
  ASSUME NEW i \in Slots, SlotOnly(i), Firm(i), NEW j \in Slots,
         slots'[j].key = slots[j].key, slots[j].key \in ObjectKeys, Reach(j)
  PROVE  Reach(j)'
<1>1. PICK n \in Probes :
        /\ j = Probe(slots[j].key, n)
        /\ \A m \in 0 .. n - 1 : slots[Probe(slots[j].key, m)].kind # "empty"
  BY DEF Reach
<1>2. \A k \in Slots : slots[k].kind # "empty" => slots'[k].kind # "empty"
  BY DEF SlotOnly, Firm
<1>3. ASSUME NEW m \in 0 .. n - 1 PROVE slots'[Probe(slots[j].key, m)].kind # "empty"
  <2>1. m \in Nat
    BY <1>3
  <2>2. Probe(slots[j].key, m) \in Slots
    BY <2>1, ProbeIsSlot
  <2> QED BY <2>2, <1>1, <1>2, <1>3
<1>4. /\ j = Probe(slots'[j].key, n)
      /\ \A m \in 0 .. n - 1 : slots'[Probe(slots'[j].key, m)].kind # "empty"
  BY <1>1, <1>3
<1> QED BY <1>4 DEF Reach

(* A store into slot i keeps the table: a live slot has a whole record,    *)
(* the only one of its key.                                                *)
LEMMA TableKept ==
  ASSUME TableInv, NEW i \in Slots, SlotOnly(i), Firm(i),
         slots'[i].kind = "live" => /\ Written(i)'
                                    /\ \A j \in Slots : j # i => ~Holds(j, slots'[i].key)
  PROVE  TableInv'
<1>1. ASSUME NEW j \in Slots, slots'[j].kind = "live" PROVE Written(j)'
  <2>1. CASE j = i
    BY <1>1, <2>1
  <2>2. CASE j # i
    <3>1. slots'[j] = slots[j] /\ Written(j)
      BY <1>1, <2>2 DEF SlotOnly, TableInv
    <3>2. Reach(j)'
      BY <3>1, ReachKept DEF Written
    <3> QED BY <3>1, <3>2 DEF Written
  <2> QED BY <2>1, <2>2
<1>2. ASSUME NEW j \in Slots, NEW k \in Slots, slots'[j].kind = "live",
             slots'[k].kind = "live", slots'[k].key = slots'[j].key
      PROVE  j = k
  BY <1>2 DEF SlotOnly, Holds, TableInv
<1> QED BY <1>1, <1>2 DEF TableInv, Holds

(* A record that is there is found, and a search that fails is right.      *)
LEMMA HeldIsFound ==
  ASSUME TableInv, NEW i \in Slots, slots[i].kind = "live"
  PROVE  slots[i].key \in ObjectKeys /\ Found(slots[i].key, i)
<1> DEFINE k == slots[i].key
<1>1. Written(i)
  BY DEF TableInv
<1>2. k \in ObjectKeys
  BY <1>1 DEF Written
<1>3. PICK n \in Probes :
        i = Probe(k, n) /\ \A m \in 0 .. n - 1 : slots[Probe(k, m)].kind # "empty"
  BY <1>1 DEF Written, Reach
<1>4. ASSUME NEW m \in 0 .. n - 1, Holds(Probe(k, m), k) PROVE FALSE
  <2>1. m \in Nat /\ m \in Probes /\ m # n
    BY <1>4, RegistryAssumption DEF Probes
  <2>2. Probe(k, m) \in Slots
    BY <2>1, <1>2, ProbeIsSlot
  <2>3. Probe(k, m) = i
    BY <2>2, <1>4 DEF TableInv
  <2> QED BY <2>1, <2>3, <1>2, <1>3, ProbeOnce
<1> QED BY <1>2, <1>3, <1>4 DEF Found, Holds

LEMMA AbsentIsUnheld == ASSUME TableInv, NEW key, Absent(key) PROVE Unheld(key)
BY HeldIsFound DEF Absent, Unheld, Holds

LEMMA FoundIsHeld ==
  ASSUME NEW key, NEW i \in Slots, Found(key, i) PROVE Holds(i, key)
BY DEF Found

(* The slot that commit reuses is where a search for the key would look.   *)
LEMMA ReusesIsReached ==
  ASSUME NEW key \in ObjectKeys, NEW i \in Slots, Reuses(key, i)
  PROVE  /\ slots[i].kind \in Reusable
         /\ \E n \in Probes : /\ i = Probe(key, n)
                              /\ \A m \in 0 .. n - 1 : slots[Probe(key, m)].kind # "empty"
BY DEF Reuses, Reusable

(* What each operation of the table stores.                                *)
LEMMA Put ==
  ASSUME RegTypeOK, NEW i \in Slots, NEW r \in SlotRec, slots' = [slots EXCEPT ![i] = r]
  PROVE  slots' \in [Slots -> SlotRec] /\ SlotOnly(i) /\ slots'[i] = r
BY DEF RegTypeOK, SlotRec, SlotOnly

LEMMA ReserveFacts ==
  ASSUME RegTypeOK, NEW i \in Slots, Reserve(i)
  PROVE  /\ RegTypeOK' /\ SlotOnly(i) /\ slots'[i].kind = "claiming"
         /\ slots'[i].stamp = nextStamp /\ slots[i].kind \in Reusable
         /\ nextStamp' = nextStamp + 2 /\ occupied' = occupied + 1 /\ nextStamp \in Nat
<1> DEFINE r == [EmptySlot EXCEPT !.kind = "claiming", !.stamp = nextStamp]
<1>1. /\ nextStamp \in 1 .. MaxStamp /\ nextStamp + 2 \in 1 .. MaxStamp + 1
      /\ occupied + 1 \in 0 .. Capacity
  <2>1. /\ nextStamp \in 1 .. MaxStamp + 1 /\ occupied \in 0 .. Capacity
        /\ occupied < Capacity \div 2 /\ nextStamp <= MaxStamp - 2 + 1
        /\ MaxStamp \in Nat /\ Capacity \in Nat
    BY RegistryAssumption DEF RegTypeOK, Reserve, CanReserve, HasStamps
  <2> QED BY <2>1
<1>2. (i + 1) % Capacity \in Slots
  <2>1. i \in Nat /\ Capacity \in Nat /\ Capacity > 0
    BY RegistryAssumption DEF Slots
  <2> QED BY <2>1 DEF Slots
<1>3. r \in SlotRec /\ r.kind = "claiming" /\ r.stamp = nextStamp
  <2>1. 0 \in 0 .. MaxRefs /\ nextStamp \in 0 .. MaxStamp
    BY <1>1, RegistryAssumption
  <2> QED BY <2>1 DEF EmptySlot, SlotRec
<1>4. slots' = [slots EXCEPT ![i] = r]
  BY DEF Reserve
<1> HIDE DEF r
<1>5. slots' \in [Slots -> SlotRec] /\ SlotOnly(i) /\ slots'[i] = r
  BY <1>3, <1>4, Put
<1> QED BY <1>1, <1>2, <1>3, <1>5 DEF Reserve, RegTypeOK, SlotRec

LEMMA DropFacts ==
  ASSUME RegTypeOK, NEW i \in Slots, Drop(i), occupied >= 1
  PROVE  /\ RegTypeOK' /\ SlotOnly(i) /\ slots'[i].kind = "tombstone"
         /\ nextStamp' = nextStamp /\ occupied' = occupied - 1
<1> DEFINE r == [slots[i] EXCEPT !.kind = "tombstone"]
<1>1. r \in SlotRec /\ r.kind = "tombstone"
  BY DEF RegTypeOK, SlotRec
<1>2. slots' = [slots EXCEPT ![i] = r]
  BY DEF Drop, RegTypeOK
<1> HIDE DEF r
<1>3. slots' \in [Slots -> SlotRec] /\ SlotOnly(i) /\ slots'[i] = r
  BY <1>1, <1>2, Put
<1>4. occupied - 1 \in 0 .. Capacity
  BY RegistryAssumption DEF RegTypeOK
<1> QED BY <1>1, <1>3, <1>4 DEF Drop, RegTypeOK, SlotRec

LEMMA PayloadFacts ==
  ASSUME RegTypeOK, NEW i \in Slots, NEW key \in ObjectKeys, NEW user \in Users,
         CommitPayload(key, user, i)
  PROVE  /\ RegTypeOK' /\ SlotOnly(i) /\ UNCHANGED <<nextStamp, occupied>>
         /\ slots'[i].kind = slots[i].kind /\ slots'[i].key = key /\ slots'[i].user = user
<1> DEFINE r == [slots[i] EXCEPT !.key = key, !.user = user, !.links = 1, !.fds = 0]
<1>1. r \in SlotRec /\ r.kind = slots[i].kind /\ r.key = key /\ r.user = user
  <2>1. 0 \in 0 .. MaxRefs /\ 1 \in 0 .. MaxRefs
    BY RegistryAssumption
  <2> QED BY <2>1 DEF RegTypeOK, SlotRec
<1>2. slots' = [slots EXCEPT ![i] = r]
  BY DEF CommitPayload, RegTypeOK
<1> HIDE DEF r
<1>3. slots' \in [Slots -> SlotRec] /\ SlotOnly(i) /\ slots'[i] = r
  BY <1>1, <1>2, Put
<1> QED BY <1>1, <1>3 DEF CommitPayload, RegTypeOK, SlotRec

LEMMA LiveFacts ==
  ASSUME RegTypeOK, NEW i \in Slots, NEW stamp, stamp + 1 \in 0 .. MaxStamp, CommitLive(i, stamp)
  PROVE  /\ RegTypeOK' /\ SlotOnly(i) /\ UNCHANGED <<nextStamp, occupied>>
         /\ slots'[i].kind = "live" /\ slots'[i].key = slots[i].key /\ slots'[i].user = slots[i].user
<1> DEFINE r == [slots[i] EXCEPT !.kind = "live", !.stamp = stamp + 1]
<1>1. r \in SlotRec /\ r.kind = "live" /\ r.key = slots[i].key /\ r.user = slots[i].user
  BY DEF RegTypeOK, SlotRec
<1>2. slots' = [slots EXCEPT ![i] = r]
  BY DEF CommitLive, RegTypeOK
<1> HIDE DEF r
<1>3. slots' \in [Slots -> SlotRec] /\ SlotOnly(i) /\ slots'[i] = r
  BY <1>1, <1>2, Put
<1> QED BY <1>1, <1>3 DEF CommitLive, RegTypeOK, SlotRec

LEMMA ReleaseFacts ==
  ASSUME RegTypeOK, NEW i \in Slots, CommitRelease(i)
  PROVE  /\ RegTypeOK' /\ SlotOnly(i) /\ UNCHANGED <<nextStamp, occupied>>
         /\ slots'[i].kind = "tombstone"
<1> DEFINE r == [slots[i] EXCEPT !.kind = "tombstone"]
<1>1. r \in SlotRec /\ r.kind = "tombstone"
  BY DEF RegTypeOK, SlotRec
<1>2. slots' = [slots EXCEPT ![i] = r]
  BY DEF CommitRelease, RegTypeOK
<1> HIDE DEF r
<1>3. slots' \in [Slots -> SlotRec] /\ SlotOnly(i) /\ slots'[i] = r
  BY <1>1, <1>2, Put
<1> QED BY <1>1, <1>3 DEF CommitRelease, RegTypeOK, SlotRec

LEMMA StoreFacts ==
  ASSUME RegTypeOK, NEW i \in Slots, NEW user \in Users, UpdateStore(i, user)
  PROVE  /\ RegTypeOK' /\ SlotOnly(i) /\ UNCHANGED <<nextStamp, occupied>>
         /\ slots'[i].kind = slots[i].kind /\ slots'[i].key = slots[i].key /\ slots'[i].user = user
<1> DEFINE r == [slots[i] EXCEPT !.user = user]
<1>1. r \in SlotRec /\ r.kind = slots[i].kind /\ r.key = slots[i].key /\ r.user = user
  BY DEF RegTypeOK, SlotRec
<1>2. slots' = [slots EXCEPT ![i] = r]
  BY DEF UpdateStore, RegTypeOK
<1> HIDE DEF r
<1>3. slots' \in [Slots -> SlotRec] /\ SlotOnly(i) /\ slots'[i] = r
  BY <1>1, <1>2, Put
<1> QED BY <1>1, <1>3 DEF UpdateStore, RegTypeOK, SlotRec

LEMMA ReliveFacts ==
  ASSUME RegTypeOK, NEW i \in Slots, UpdateLive(i)
  PROVE  /\ RegTypeOK' /\ SlotOnly(i) /\ UNCHANGED <<nextStamp, occupied>>
         /\ slots'[i].kind = "live" /\ slots'[i].key = slots[i].key /\ slots'[i].user = slots[i].user
<1> DEFINE r == [slots[i] EXCEPT !.kind = "live"]
<1>1. r \in SlotRec /\ r.kind = "live" /\ r.key = slots[i].key /\ r.user = slots[i].user
  BY DEF RegTypeOK, SlotRec
<1>2. slots' = [slots EXCEPT ![i] = r]
  BY DEF UpdateLive, RegTypeOK
<1> HIDE DEF r
<1>3. slots' \in [Slots -> SlotRec] /\ SlotOnly(i) /\ slots'[i] = r
  BY <1>1, <1>2, Put
<1> QED BY <1>1, <1>3 DEF UpdateLive, RegTypeOK, SlotRec

LEMMA MutateFacts ==
  ASSUME RegTypeOK, NEW i \in Slots, Mutate(i)
  PROVE  /\ RegTypeOK' /\ SlotOnly(i) /\ occupied' = occupied
         /\ slots'[i].kind = "claiming" /\ slots'[i].key = slots[i].key
         /\ slots'[i].user = slots[i].user
<1> DEFINE r == [slots[i] EXCEPT !.kind = "claiming", !.stamp = nextStamp]
<1>1. nextStamp \in 0 .. MaxStamp /\ nextStamp + 1 \in 1 .. MaxStamp + 1
  BY RegistryAssumption DEF RegTypeOK, Mutate, HasStamps
<1>2. r \in SlotRec /\ r.kind = "claiming" /\ r.key = slots[i].key /\ r.user = slots[i].user
  BY <1>1 DEF RegTypeOK, SlotRec
<1>3. slots' = [slots EXCEPT ![i] = r]
  BY DEF Mutate, RegTypeOK
<1> HIDE DEF r
<1>4. slots' \in [Slots -> SlotRec] /\ SlotOnly(i) /\ slots'[i] = r
  BY <1>2, <1>3, Put
<1> QED BY <1>1, <1>2, <1>4 DEF Mutate, RegTypeOK, SlotRec

LEMMA ReferenceFacts ==
  ASSUME RegTypeOK, NEW i \in Slots, NEW delta \in {-1, 1}, NEW links \in BOOLEAN,
         Reference(i, delta, links), occupied >= 1
  PROVE  /\ RegTypeOK' /\ SlotOnly(i) /\ slots'[i].key = slots[i].key
         /\ slots'[i].user = slots[i].user /\ slots'[i].kind \in {"live", "tombstone"}
         /\ occupied' = IF slots'[i].kind = "live" THEN occupied ELSE occupied - 1
<1> DEFINE newLinks == IF links THEN slots[i].links + delta ELSE slots[i].links
           newFds == IF links THEN slots[i].fds ELSE slots[i].fds + delta
           kind == IF newLinks = 0 /\ newFds = 0 THEN "tombstone" ELSE "live"
           r == [slots[i] EXCEPT !.links = newLinks, !.fds = newFds, !.stamp = nextStamp,
                                 !.kind = kind]
<1>0. slots[i] \in SlotRec /\ slots[i].links \in 0 .. MaxRefs /\ slots[i].fds \in 0 .. MaxRefs
  BY DEF RegTypeOK, SlotRec
<1>1. newLinks \in 0 .. MaxRefs /\ newFds \in 0 .. MaxRefs
  BY <1>0 DEF Reference
<1>2. nextStamp \in 0 .. MaxStamp /\ nextStamp + 1 \in 1 .. MaxStamp + 1
  BY RegistryAssumption DEF RegTypeOK, Reference, HasStamps
<1>3. occupied - 1 \in 0 .. Capacity
  BY RegistryAssumption DEF RegTypeOK
<1>4. slots' = [slots EXCEPT ![i] = r]
  BY DEF Reference, RegTypeOK
<1>5. /\ occupied' = (IF kind = "live" THEN occupied ELSE occupied - 1)
      /\ nextStamp' = nextStamp + 1 /\ cursor' = cursor
  BY DEF Reference
<1>6. kind \in {"live", "tombstone"}
  OBVIOUS
<1> HIDE DEF newLinks, newFds, kind
<1>7. /\ r \in SlotRec /\ r.kind = kind /\ r.key = slots[i].key /\ r.user = slots[i].user
  BY <1>0, <1>1, <1>2, <1>6 DEF SlotRec
<1> HIDE DEF r
<1>8. slots' \in [Slots -> SlotRec] /\ SlotOnly(i) /\ slots'[i] = r
  BY <1>7, <1>4, Put
<1> QED BY <1>2, <1>3, <1>5, <1>6, <1>7, <1>8 DEF RegTypeOK, SlotRec

(***************************************************************************)
(* The writer and the table.                                               *)
(***************************************************************************)
TableParts == TableInv /\ WriterInv /\ FileInv

(* A step that stores nothing into the table.                              *)
LEMMA RegKept ==
  ASSUME UNCHANGED regVars
  PROVE  /\ slots' = slots /\ nextStamp' = nextStamp /\ occupied' = occupied
         /\ RegTypeOK => RegTypeOK'
         /\ TableInv => TableInv'
         /\ Lives' = Lives /\ Claims' = Claims /\ Settled' = Settled
         /\ \A i, k : Holds(i, k)' = Holds(i, k)
         /\ \A k : Unheld(k)' = Unheld(k)
         /\ \A i : Written(i)' = Written(i)
         /\ file' = file => Owned' = Owned
<1>1. /\ slots' = slots /\ nextStamp' = nextStamp /\ occupied' = occupied
      /\ cursor' = cursor
  BY DEF regVars
<1>2. RegTypeOK => RegTypeOK'
  BY <1>1 DEF RegTypeOK
<1>3. /\ Lives' = Lives /\ Claims' = Claims /\ Settled' = Settled
      /\ \A i, k : Holds(i, k)' = Holds(i, k)
      /\ \A k : Unheld(k)' = Unheld(k)
  BY <1>1 DEF Lives, Claims, Settled, Holds, Unheld
<1>4. \A i : Written(i)' = Written(i)
  BY <1>1 DEF Written, Reach
<1>5. TableInv => TableInv'
  BY <1>1, <1>4 DEF TableInv, Holds
<1>6. file' = file => Owned' = Owned
  BY <1>3 DEF Owned
<1> QED BY <1>1, <1>2, <1>3, <1>4, <1>5, <1>6

(* A step that stores nothing into the table and moves no writer; the path *)
(* may be unlinked.                                                        *)
LEMMA QuietStep ==
  ASSUME TableParts, UNCHANGED <<regVars, job, sequence>>, file' \in {file, NoFile},
         poisoned => poisoned',
         \A u \in Threads : /\ At(u, "in")' => At(u, "in") /\ call'[u] = call[u]
                            /\ At(u, "publish")' => At(u, "publish")
  PROVE  TableParts'
<1>1. /\ slots' = slots /\ nextStamp' = nextStamp /\ occupied' = occupied
      /\ job' = job /\ sequence' = sequence
  BY RegKept
<1>2. /\ Lives' = Lives /\ Claims' = Claims /\ Settled' = Settled
      /\ \A i, k : Holds(i, k)' = Holds(i, k)
      /\ \A k : Unheld(k)' = Unheld(k)
  BY RegKept
<1>3. \A i : Written(i)' = Written(i)
  BY RegKept
<1>4. TableInv'
  BY RegKept DEF TableParts
<1>5. ASSUME NEW u \in Threads, call'[u] = call[u], Working(u) PROVE Working(u)'
  BY <1>1, <1>2, <1>3, <1>5 DEF Working, Reserved, Committing, Mutating
<1>6. WriterInv'
  BY <1>1, <1>2, <1>5 DEF TableParts, WriterInv
<1>7. Owned => Owned'
  BY <1>1, <1>2 DEF Owned
<1>8. ASSUME NEW u \in Threads, call'[u] = call[u], Keeping(u) PROVE Keeping(u)'
  BY <1>1, <1>2, <1>7, <1>8 DEF Keeping, Owned
<1>9. FileInv'
  <2> SUFFICES ASSUME ~poisoned', NoLinks'
               PROVE  /\ ~Odd(sequence') => Owned'
                      /\ \A t \in Threads : At(t, "publish")' => Owned'
                      /\ \A t \in Threads : At(t, "in")' => Keeping(t)'
    BY DEF FileInv, Odd
  <2>1. ~poisoned /\ NoLinks
    BY <1>1 DEF NoLinks
  <2> QED BY <2>1, <1>1, <1>7, <1>8 DEF TableParts, FileInv
<1> QED BY <1>4, <1>6, <1>9 DEF TableParts

(* A step of the writer: the others are no writers.                        *)
LEMMA WriterStep ==
  ASSUME NsInv, NEW t \in Threads, At(t, "in"), TxFrame(t), TableInv',
         UNCHANGED <<job, sequence>>, tx'[t].step \in {"in", "publish"},
         tx'[t].step = "publish" => Settled',
         tx'[t].step = "in" => Working(t)',
         ~poisoned' /\ NoLinks => /\ tx'[t].step = "publish" => Owned'
                                  /\ tx'[t].step = "in" => Keeping(t)'
  PROVE  TableParts'
<1>1. Odd(sequence) /\ Odd(sequence')
  BY DEF NsInv, SeqInv, Knows, WriterValid, At, Runs
<1>2. ASSUME NEW u \in Threads, At(u, "in")' \/ At(u, "publish")' PROVE u = t
  <2>1. CASE u # t
    <3>1. Runs(u) /\ Runs(t) /\ tx[u].step \in WriteHeld /\ tx[t].step \in WriteHeld
      BY <1>2, <2>1 DEF TxFrame, At, Runs, WriteHeld
    <3> QED BY <3>1, <2>1, SoleWriter DEF NsInv
  <2> QED BY <2>1
<1>3. WriterInv'
  BY <1>1, <1>2 DEF WriterInv, At, Odd
<1>4. NoLinks' = NoLinks
  BY DEF NoLinks
<1>5. FileInv'
  BY <1>1, <1>2, <1>4 DEF FileInv, At, Odd
<1> QED BY <1>3, <1>5 DEF TableParts

(* The writer ends its call, and its table is in order.                    *)
LEMMA EndStep ==
  ASSUME TypeOK, NsInv, NEW t \in Threads, At(t, "in"), TxFrame(t), TableInv', job' = job,
         NEW poison \in BOOLEAN, EndCall(t, poison), Settled',
         ~poisoned' /\ NoLinks => Owned'
  PROVE  TableParts'
<1>1. tx'[t].step \in {"in", "publish"} /\ sequence' = sequence
  BY EndFacts DEF EndCall, At
<1>2. call \in [Threads -> CallRec]
  BY DEF TypeOK, CallRec
<1>3. call'[t].step = "end"
  BY <1>2, ToFrame DEF EndCall, CallSteps
<1>4. Working(t)' /\ (Owned' => Keeping(t)')
  BY <1>3 DEF Working, Keeping
<1> QED BY <1>1, <1>4, WriterStep

(* What is known when the writer takes a step of its call.                 *)
LEMMA Entry ==
  ASSUME Inv, NEW t \in Threads, NEW s, Entered(t, s), Step(t)
  PROVE  /\ At(t, "in") /\ call[t].step = s /\ Working(t)
         /\ ~poisoned /\ NoLinks => Keeping(t)
         /\ TableInv /\ NsInv /\ RegTypeOK /\ TxFrame(t) /\ CallFrame(t)
         /\ call \in [Threads -> CallRec] /\ call[t] \in CallRec
         /\ call[t].ticket \in Slots /\ call[t].slot \in Slots /\ call[t].stamp \in Nat
         /\ \A i \in Slots : slots[i].kind \in {"empty", "claiming", "live", "tombstone"}
<1>1. At(t, "in") /\ call[t].step = s
  BY DEF Entered, Doing, InTx, At
<1>2. call \in [Threads -> CallRec] /\ call[t] \in CallRec
  BY DEF Inv, TypeOK, CallRec
<1>3. call[t].ticket \in Slots /\ call[t].slot \in Slots /\ call[t].stamp \in Nat
  BY <1>2 DEF CallRec
<1>4. TableInv /\ NsInv /\ RegTypeOK /\ TxFrame(t) /\ CallFrame(t)
  BY TxFramed, Framed DEF Inv, TypeOK
<1>5. Working(t) /\ (~poisoned /\ NoLinks => Keeping(t))
  BY <1>1 DEF Inv, WriterInv, FileInv
<1>6. \A i \in Slots : slots[i].kind \in {"empty", "claiming", "live", "tombstone"}
  BY <1>4 DEF RegTypeOK
<1> QED BY <1>1, <1>2, <1>3, <1>4, <1>5, <1>6

(* The live records are the same, if the slot is neither before nor after. *)
LEMMA HoldsKept ==
  ASSUME NEW i \in Slots, SlotOnly(i), slots[i].kind # "live", slots'[i].kind # "live"
  PROVE  /\ \A j \in Slots : \A k : Holds(j, k)' = Holds(j, k)
         /\ \A k : Unheld(k)' = Unheld(k)
         /\ file' = file => Owned' = Owned
<1>1. \A j \in Slots : \A k : Holds(j, k)' = Holds(j, k)
  BY DEF SlotOnly, Holds
<1>2. \A k : Unheld(k)' = Unheld(k)
  BY <1>1 DEF Unheld, Slots
<1> QED BY <1>1, <1>2 DEF Owned

(* Giving up the claim settles the table.                                  *)
LEMMA ClaimDropped ==
  ASSUME TableInv, RegTypeOK, NEW t \in Threads, call[t].ticket \in Slots, Reserved(t),
         Drop(call[t].ticket)
  PROVE  /\ RegTypeOK' /\ TableInv' /\ Settled' /\ \A k : Unheld(k)' = Unheld(k)
         /\ file' = file => Owned' = Owned
<1> DEFINE i == call[t].ticket
<1>1. /\ slots[i].kind = "claiming" /\ Claims = {i}
      /\ occupied = Cardinality(Lives) + 1 /\ occupied >= 1
  <2>1. i \in Claims
    BY DEF Reserved
  <2> QED BY <2>1, LivesFinite DEF Reserved, Claims
<1>2. /\ RegTypeOK' /\ SlotOnly(i) /\ slots'[i].kind = "tombstone" /\ occupied' = occupied - 1
  BY <1>1, DropFacts
<1> HIDE DEF i
<1> i \in Slots
  BY DEF i
<1>3. TableInv'
  BY <1>2, TableKept DEF Firm
<1>4. Claims' = {}
  BY <1>1, <1>2, ClaimsSet
<1>5. Lives' = Lives
  BY <1>1, <1>2, LivesCount
<1>6. Settled'
  BY <1>1, <1>2, <1>4, <1>5, LivesFinite DEF Settled
<1> QED BY <1>1, <1>2, <1>3, <1>6, HoldsKept

(* hl_socket_owner_prepare.                                                *)
LEMMA PrepareTable ==
  ASSUME Inv, NEW t \in Threads, Prepare(t)
  PROVE  RegTypeOK' /\ TableParts'
<1>0. Entered(t, "prepare") /\ Step(t)
  BY DEF Prepare, Step
<1>a. /\ At(t, "in") /\ call[t].step = "prepare" /\ Working(t)
      /\ ~poisoned /\ NoLinks => Keeping(t)
      /\ TableInv /\ NsInv /\ RegTypeOK /\ TxFrame(t) /\ CallFrame(t)
      /\ call \in [Threads -> CallRec]
  BY <1>0, Entry
<1>b. Settled /\ (~poisoned /\ NoLinks => Owned)
  BY <1>a DEF Working, Keeping
<1>c. job' = job /\ file' = file
  BY DEF Prepare
<1>1. ASSUME NEW i \in Slots, Reserve(i), UNCHANGED nsVars,
             call' = [call EXCEPT ![t].step = "bind", ![t].ticket = i, ![t].stamp = nextStamp]
      PROVE  RegTypeOK' /\ TableParts'
  <2>1. /\ RegTypeOK' /\ SlotOnly(i) /\ slots'[i].kind = "claiming"
        /\ slots'[i].stamp = nextStamp /\ slots[i].kind \in Reusable
        /\ nextStamp' = nextStamp + 2 /\ occupied' = occupied + 1 /\ nextStamp \in Nat
    BY <1>1, <1>a, ReserveFacts
  <2>2. call'[t].step = "bind" /\ call'[t].ticket = i /\ call'[t].stamp = nextStamp
    BY <1>1, <1>a DEF CallRec
  <2>3. slots[i].kind # "live"
    BY <2>1 DEF Reusable
  <2>4. TableInv'
    BY <2>1, <1>a, TableKept DEF Firm
  <2>5. Claims' = {i} /\ Lives' = Lives
    BY <2>1, <2>3, <1>b, ClaimsSet, LivesCount DEF Settled
  <2>6. Reserved(t)'
    BY <2>1, <2>2, <2>5, <1>b DEF Reserved, Settled
  <2>7. Working(t)'
    BY <2>2, <2>6 DEF Working
  <2>8. Owned' = Owned
    BY <2>1, <2>3, <1>c, HoldsKept
  <2>9. ~poisoned' /\ NoLinks => Keeping(t)'
    BY <2>2, <2>8, <1>b, <1>1 DEF Keeping, nsVars
  <2>10. tx'[t].step = "in" /\ sequence' = sequence
    BY <1>1, <1>a DEF nsVars, At
  <2> QED BY <2>1, <2>4, <2>7, <2>9, <2>10, <1>a, <1>c, WriterStep
<1>2. ASSUME EndCall(t, FALSE), UNCHANGED regVars PROVE RegTypeOK' /\ TableParts'
  <2>1. RegTypeOK' /\ TableInv' /\ Settled' /\ Owned' = Owned
    BY <1>2, <1>a, <1>b, <1>c, RegKept
  <2>2. poisoned => poisoned'
    BY <1>2, <1>a, EndFacts DEF EndCall, At
  <2> QED BY <2>1, <2>2, <1>2, <1>a, <1>b, <1>c, EndStep DEF Inv
<1> QED BY <1>1, <1>2 DEF Prepare

(* The end of a call that leaves the table as it found it, and of one that *)
(* gives up its claim (hl_socket_owner_finish).                            *)
LEMMA EndKept ==
  ASSUME Inv, NEW t \in Threads, NEW s, Entered(t, s), Step(t), job' = job, Settled,
         NEW poison \in BOOLEAN, EndCall(t, poison), UNCHANGED regVars,
         \/ poison \/ file' = NoFile
         \/ file' = file /\ (~poisoned /\ NoLinks => Owned)
  PROVE  RegTypeOK' /\ TableParts'
<1>1. At(t, "in") /\ TableInv /\ NsInv /\ RegTypeOK /\ TxFrame(t) /\ TypeOK
  BY Entry DEF Inv
<1>2. RegTypeOK' /\ TableInv' /\ Settled' /\ (file' = file => Owned' = Owned)
  BY <1>1, RegKept
<1>3. poisoned \/ poison => poisoned'
  BY <1>1, EndFacts DEF EndCall, At
<1>4. ~poisoned' /\ NoLinks => Owned'
  BY <1>2, <1>3 DEF Owned
<1> QED BY <1>1, <1>2, <1>4, EndStep

LEMMA EndDropped ==
  ASSUME Inv, NEW t \in Threads, NEW s, Entered(t, s), Step(t), job' = job, Reserved(t),
         NEW poison \in BOOLEAN, FinishClaim(t, poison),
         \/ poison \/ file' = NoFile
         \/ file' = file /\ (~poisoned /\ NoLinks => Owned)
  PROVE  RegTypeOK' /\ TableParts'
<1>1. /\ At(t, "in") /\ TableInv /\ NsInv /\ RegTypeOK /\ TxFrame(t) /\ TypeOK
      /\ call[t].ticket \in Slots
  BY Entry DEF Inv
<1>2. RegTypeOK' /\ TableInv' /\ Settled' /\ (file' = file => Owned' = Owned)
  BY <1>1, ClaimDropped DEF FinishClaim
<1>3. poisoned \/ poison => poisoned'
  BY <1>1, EndFacts DEF FinishClaim, Finish, EndCall, At
<1>4. ~poisoned' /\ NoLinks => Owned'
  BY <1>2, <1>3 DEF Owned
<1> QED BY <1>1, <1>2, <1>4, EndStep DEF FinishClaim, Finish

(* The host bind and the identification of its object.                     *)
LEMMA BindTable ==
  ASSUME Inv, NEW t \in Threads, BindSocket(t)
  PROVE  RegTypeOK' /\ TableParts'
<1>0. Entered(t, "bind") /\ Step(t) /\ job' = job
  BY DEF BindSocket, Step
<1>a. /\ At(t, "in") /\ call[t].step = "bind" /\ Working(t)
      /\ ~poisoned /\ NoLinks => Keeping(t)
      /\ TableInv /\ NsInv /\ RegTypeOK /\ TxFrame(t) /\ call \in [Threads -> CallRec]
  BY <1>0, Entry
<1>b. Reserved(t) /\ (~poisoned /\ NoLinks => Owned)
  BY <1>a DEF Working, Keeping
<1>1. ASSUME NEW k \in ObjectKeys, file' = k, UNCHANGED <<nsVars, regVars>>,
             call' = [call EXCEPT ![t].step = "identify", ![t].key = k]
      PROVE  RegTypeOK' /\ TableParts'
  <2>1. /\ call'[t].step = "identify" /\ call'[t].key = k
        /\ call'[t].ticket = call[t].ticket /\ call'[t].stamp = call[t].stamp
    BY <1>1, <1>a DEF CallRec
  <2>2. Reserved(t)'
    BY <2>1, <1>1, <1>b, RegKept DEF Reserved
  <2>3. Working(t)' /\ Keeping(t)'
    BY <2>1, <2>2, <1>1 DEF Working, Keeping
  <2>4. tx'[t].step = "in" /\ sequence' = sequence
    BY <1>1, <1>a DEF nsVars, At
  <2>5. RegTypeOK' /\ TableInv'
    BY <1>1, <1>a, RegKept
  <2> QED BY <2>3, <2>4, <2>5, <1>0, <1>a, WriterStep
<1>2. ASSUME FinishClaim(t, FALSE), file' = file PROVE RegTypeOK' /\ TableParts'
  BY <1>2, <1>0, <1>b, EndDropped
<1> QED BY <1>1, <1>2 DEF BindSocket

LEMMA IdentifyTable ==
  ASSUME Inv, NEW t \in Threads, Identify(t)
  PROVE  RegTypeOK' /\ TableParts'
<1>0. Entered(t, "identify") /\ Step(t) /\ job' = job
  BY DEF Identify, Step
<1>a. /\ At(t, "in") /\ call[t].step = "identify" /\ Working(t)
      /\ ~poisoned /\ NoLinks => Keeping(t)
      /\ TableInv /\ NsInv /\ RegTypeOK /\ TxFrame(t) /\ call \in [Threads -> CallRec]
  BY <1>0, Entry
<1>b. /\ Reserved(t) /\ call[t].key \in ObjectKeys
      /\ ~poisoned /\ NoLinks => file \in {NoFile, call[t].key}
  BY <1>a DEF Working, Keeping
<1>1. ASSUME To(t, "commit"), UNCHANGED <<nsVars, regVars, file>>
      PROVE  RegTypeOK' /\ TableParts'
  <2>1. /\ call'[t].step = "commit" /\ call'[t].key = call[t].key
        /\ call'[t].ticket = call[t].ticket /\ call'[t].stamp = call[t].stamp
    BY <1>1, <1>a, ToFrame DEF CallSteps
  <2>2. Reserved(t)'
    BY <2>1, <1>1, <1>b, RegKept DEF Reserved
  <2>3. Working(t)' /\ (~poisoned /\ NoLinks => Keeping(t)')
    BY <2>1, <2>2, <1>1, <1>b DEF Working, Keeping
  <2>4. tx'[t].step = "in" /\ sequence' = sequence /\ poisoned' = poisoned
    BY <1>1, <1>a DEF nsVars, At
  <2>5. RegTypeOK' /\ TableInv'
    BY <1>1, <1>a, RegKept
  <2> QED BY <2>3, <2>4, <2>5, <1>0, <1>a, WriterStep
<1>2. ASSUME FinishClaim(t, FALSE), file' = NoFile PROVE RegTypeOK' /\ TableParts'
  BY <1>2, <1>0, <1>b, EndDropped
<1>3. ASSUME FinishClaim(t, TRUE) PROVE RegTypeOK' /\ TableParts'
  BY <1>3, <1>0, <1>b, EndDropped
<1> QED BY <1>1, <1>2, <1>3 DEF Identify

(* hl_owner_registry_commit, store by store.                               *)
LEMMA CommitTable ==
  ASSUME Inv, NEW t \in Threads, CommitStart(t)
  PROVE  RegTypeOK' /\ TableParts'
<1>0. /\ Entered(t, "commit") /\ Step(t) /\ job' = job /\ file' = file
      /\ UNCHANGED nsVars
  BY DEF CommitStart, Step
<1>a. /\ At(t, "in") /\ call[t].step = "commit" /\ Working(t)
      /\ ~poisoned /\ NoLinks => Keeping(t)
      /\ TableInv /\ NsInv /\ RegTypeOK /\ TxFrame(t) /\ call \in [Threads -> CallRec]
      /\ call[t].ticket \in Slots
  BY <1>0, Entry
<1>b. /\ Reserved(t) /\ call[t].key \in ObjectKeys
      /\ ~poisoned /\ NoLinks => file \in {NoFile, call[t].key}
  BY <1>a DEF Working, Keeping
<1>c. tx'[t].step = "in" /\ sequence' = sequence /\ poisoned' = poisoned
  BY <1>0, <1>a DEF nsVars, At
<1>1. ASSUME NEW i \in Slots, NEW u \in Users, CommitPayload(call[t].key, u, i),
             call' = [call EXCEPT ![t].step = "payload", ![t].slot = i]
      PROVE  RegTypeOK' /\ TableParts'
  <2> DEFINE key == call[t].key
  <2>1. /\ RegTypeOK' /\ SlotOnly(i) /\ UNCHANGED <<nextStamp, occupied>>
        /\ slots'[i].kind = slots[i].kind /\ slots'[i].key = key /\ slots'[i].user = u
    BY <1>1, <1>a, <1>b, PayloadFacts
  <2>2. /\ call'[t].step = "payload" /\ call'[t].slot = i /\ call'[t].key = key
        /\ call'[t].ticket = call[t].ticket /\ call'[t].stamp = call[t].stamp
    BY <1>1, <1>a DEF CallRec
  <2>3. /\ slots[i].kind \in Reusable /\ slots[i].kind # "live" /\ slots[i].kind # "claiming"
        /\ \E n \in Probes : /\ i = Probe(key, n)
                             /\ \A m \in 0 .. n - 1 : slots[Probe(key, m)].kind # "empty"
    BY <1>1, <1>b, ReusesIsReached DEF CommitPayload, Reusable
  <2>4. TableInv'
    BY <2>1, <2>3, <1>a, TableKept DEF Firm
  <2>5. call[t].ticket # i /\ i \notin Claims /\ Claims' = Claims /\ Lives' = Lives
    <3>1. i \notin Claims
      BY <2>3 DEF Claims
    <3>2. Claims' = Claims
      BY <3>1, <2>1, <2>3, ClaimsSet
    <3> QED BY <3>1, <3>2, <2>1, <2>3, <1>b, LivesCount DEF Reserved
  <2>6. Reserved(t)'
    BY <2>1, <2>2, <2>5, <1>a, <1>b DEF Reserved, SlotOnly
  <2>7. Reach(i)'
    <3>1. PICK n \in Probes : /\ i = Probe(key, n)
                              /\ \A m \in 0 .. n - 1 : slots[Probe(key, m)].kind # "empty"
      BY <2>3
    <3>2. ASSUME NEW m \in 0 .. n - 1 PROVE slots'[Probe(key, m)].kind # "empty"
      <4>1. m \in Nat
        BY <3>2
      <4>2. Probe(key, m) \in Slots
        BY <4>1, <1>b, ProbeIsSlot
      <4> QED BY <4>2, <3>1, <3>2, <2>1 DEF SlotOnly
    <3> QED BY <3>1, <3>2, <2>1 DEF Reach
  <2>8. Written(i)'
    BY <2>1, <2>7, <1>b DEF Written
  <2>9. \A j \in Slots : ~(slots'[j].kind = "live" /\ slots'[j].key = key)
    <3>1. Unheld(key)
      BY <1>1, <1>a, AbsentIsUnheld DEF CommitPayload
    <3> QED BY <3>1, <2>1, <2>3 DEF SlotOnly, Unheld, Holds
  <2>10. Committing(t)'
    BY <2>1, <2>2, <2>3, <2>6, <2>8, <2>9 DEF Committing, Unheld, Holds
  <2>11. Working(t)' /\ (~poisoned /\ NoLinks => Keeping(t)')
    BY <2>2, <2>10, <1>0, <1>b DEF Working, Keeping
  <2> QED BY <2>1, <2>4, <2>11, <1>0, <1>a, <1>c, WriterStep
<1>2. ASSUME Drop(call[t].ticket), To(t, "rollback") PROVE RegTypeOK' /\ TableParts'
  <2>1. RegTypeOK' /\ TableInv' /\ Settled'
    BY <1>2, <1>a, <1>b, ClaimDropped
  <2>2. call'[t].step = "rollback" /\ call'[t].key = call[t].key
    BY <1>2, <1>a, ToFrame DEF CallSteps
  <2>3. Working(t)' /\ (~poisoned /\ NoLinks => Keeping(t)')
    BY <2>1, <2>2, <1>0, <1>b DEF Working, Keeping
  <2> QED BY <2>1, <2>3, <1>0, <1>a, <1>c, WriterStep
<1> QED BY <1>1, <1>2 DEF CommitStart

LEMMA CommitStateTable ==
  ASSUME Inv, NEW t \in Threads, CommitState(t)
  PROVE  RegTypeOK' /\ TableParts'
<1>0. /\ Entered(t, "payload") /\ Step(t) /\ job' = job /\ file' = file
      /\ UNCHANGED nsVars /\ To(t, "live") /\ CommitLive(call[t].slot, call[t].stamp)
  BY DEF CommitState, Step
<1>a. /\ At(t, "in") /\ call[t].step = "payload" /\ Working(t)
      /\ ~poisoned /\ NoLinks => Keeping(t)
      /\ TableInv /\ NsInv /\ RegTypeOK /\ TxFrame(t) /\ call \in [Threads -> CallRec]
      /\ call[t].ticket \in Slots /\ call[t].slot \in Slots /\ call[t].stamp \in Nat
  BY <1>0, Entry
<1>b. /\ Committing(t)
      /\ ~poisoned /\ NoLinks => file \in {NoFile, call[t].key}
  BY <1>a DEF Working, Keeping
<1>c. tx'[t].step = "in" /\ sequence' = sequence /\ poisoned' = poisoned
  BY <1>0, <1>a DEF nsVars, At
<1>i. PICK i \in Slots : i = call[t].slot
  BY <1>a
<1> USE <1>i
<1>1. call[t].stamp + 1 \in 0 .. MaxStamp
  <2>1. nextStamp \in 1 .. MaxStamp + 1 /\ call[t].stamp + 1 < nextStamp
    BY <1>a, <1>b DEF RegTypeOK, Committing, Reserved
  <2> QED BY <2>1, <1>a, RegistryAssumption
<1>2. /\ RegTypeOK' /\ SlotOnly(i) /\ UNCHANGED <<nextStamp, occupied>>
      /\ slots'[i].kind = "live" /\ slots'[i].key = slots[i].key
      /\ slots'[i].user = slots[i].user
  BY <1>0, <1>1, <1>a, LiveFacts
<1>3. /\ call'[t].step = "live" /\ call'[t].slot = i /\ call'[t].key = call[t].key
      /\ call'[t].ticket = call[t].ticket
  BY <1>0, <1>a, ToFrame DEF CallSteps
<1>4. /\ slots[i].kind # "live" /\ slots[i].kind # "claiming" /\ slots[i].key = call[t].key
      /\ Written(i) /\ Unheld(call[t].key)
  BY <1>b DEF Committing, Reusable
<1>5. Written(i)'
  <2>1. Reach(i)'
    BY <1>2, <1>4, <1>a, ReachKept DEF Firm, Written
  <2> QED BY <2>1, <1>2, <1>4 DEF Written
<1>6. TableInv'
  BY <1>2, <1>4, <1>5, <1>a, TableKept DEF Firm, Unheld
<1>7. Claims' = {call[t].ticket} /\ occupied' = Cardinality(Lives')
  <2>1. i \notin Claims /\ Claims = {call[t].ticket} /\ occupied = Cardinality(Lives) + 1
    BY <1>4, <1>b DEF Claims, Committing, Reserved
  <2>2. Claims' = Claims
    BY <2>1, <1>2, <1>a, ClaimsSet
  <2> QED BY <2>1, <2>2, <1>2, <1>4, <1>a, LivesCount
<1>8. Working(t)'
  BY <1>3, <1>7 DEF Working
<1>9. ~poisoned /\ NoLinks => Keeping(t)'
  BY <1>0, <1>2, <1>3, <1>4, <1>b DEF Keeping, Holds
<1> QED BY <1>2, <1>6, <1>8, <1>9, <1>0, <1>a, <1>c, WriterStep

LEMMA CommitDoneTable ==
  ASSUME Inv, NEW t \in Threads, CommitDone(t)
  PROVE  RegTypeOK' /\ TableParts'
<1>0. /\ Entered(t, "live") /\ Step(t) /\ job' = job /\ file' = file
      /\ UNCHANGED nsVars /\ To(t, "finish") /\ CommitRelease(call[t].ticket)
  BY DEF CommitDone, Step
<1>a. /\ At(t, "in") /\ call[t].step = "live" /\ Working(t)
      /\ ~poisoned /\ NoLinks => Keeping(t)
      /\ TableInv /\ NsInv /\ RegTypeOK /\ TxFrame(t) /\ call \in [Threads -> CallRec]
      /\ call[t].ticket \in Slots /\ call[t].slot \in Slots
  BY <1>0, Entry
<1>b. /\ Claims = {call[t].ticket} /\ occupied = Cardinality(Lives)
      /\ ~poisoned /\ NoLinks
           => file = NoFile \/ (file = call[t].key /\ Holds(call[t].slot, call[t].key))
  BY <1>a DEF Working, Keeping
<1>c. tx'[t].step = "in" /\ sequence' = sequence /\ poisoned' = poisoned
  BY <1>0, <1>a DEF nsVars, At
<1> DEFINE i == call[t].ticket
<1>1. /\ RegTypeOK' /\ SlotOnly(i) /\ UNCHANGED <<nextStamp, occupied>>
      /\ slots'[i].kind = "tombstone"
  BY <1>0, <1>a, ReleaseFacts
<1>2. slots[i].kind = "claiming"
  BY <1>b DEF Claims
<1>3. TableInv'
  BY <1>1, <1>a, TableKept DEF Firm
<1>4. Claims' = {} /\ Lives' = Lives
  BY <1>1, <1>2, <1>a, <1>b, ClaimsSet, LivesCount
<1>5. Settled'
  BY <1>1, <1>4, <1>b DEF Settled
<1>6. Owned' = Owned
  BY <1>0, <1>1, <1>2, <1>a, HoldsKept
<1>7. ~poisoned /\ NoLinks => Owned
  BY <1>a, <1>b DEF Owned, Unheld
<1>8. call'[t].step = "finish"
  BY <1>0, <1>a, ToFrame DEF CallSteps
<1>9. Working(t)' /\ (~poisoned /\ NoLinks => Keeping(t)')
  BY <1>5, <1>6, <1>7, <1>8 DEF Working, Keeping
<1> QED BY <1>1, <1>3, <1>9, <1>0, <1>a, <1>c, WriterStep

(* unix_owner_rollback, and the end of bind().                             *)
LEMMA RollbackTable ==
  ASSUME Inv, NEW t \in Threads, Rollback(t) \/ FinishBind(t)
  PROVE  RegTypeOK' /\ TableParts'
<1>1. CASE Rollback(t)
  <2>0. Entered(t, "rollback") /\ Step(t) /\ job' = job /\ UNCHANGED regVars
    BY <1>1 DEF Rollback, Step
  <2>1. Settled
    BY <2>0, Entry DEF Working
  <2>2. \/ EndCall(t, FALSE) /\ file' = NoFile
        \/ EndCall(t, TRUE)
    BY <1>1 DEF Rollback, Finish
  <2> QED BY <2>0, <2>1, <2>2, EndKept
<1>2. CASE FinishBind(t)
  <2>0. /\ Entered(t, "finish") /\ Step(t) /\ job' = job /\ file' = file
        /\ UNCHANGED regVars /\ EndCall(t, FALSE)
    BY <1>2 DEF FinishBind, Finish, Step
  <2>1. Settled /\ (~poisoned /\ NoLinks => Owned)
    BY <2>0, Entry DEF Working, Keeping
  <2> QED BY <2>0, <2>1, EndKept
<1> QED BY <1>1, <1>2

(* hl_owner_registry_update, and hl_owner_reference.                       *)
LEMMA LookupTable ==
  ASSUME Inv, NEW t \in Threads, Lookup(t)
  PROVE  RegTypeOK' /\ TableParts'
<1>0. Entered(t, "lookup") /\ Step(t) /\ job' = job /\ file' = file
  BY DEF Lookup, Step
<1>a. /\ At(t, "in") /\ call[t].step = "lookup" /\ Working(t)
      /\ ~poisoned /\ NoLinks => Keeping(t)
      /\ TableInv /\ NsInv /\ RegTypeOK /\ TxFrame(t) /\ call \in [Threads -> CallRec]
  BY <1>0, Entry
<1>b. Settled /\ (~poisoned /\ NoLinks => Owned)
  BY <1>a DEF Working, Keeping
<1>c. TypeOK
  BY DEF Inv
<1>1. ASSUME EndCall(t, FALSE), UNCHANGED regVars PROVE RegTypeOK' /\ TableParts'
  BY <1>1, <1>0, <1>b, EndKept
<1>2. ASSUME NEW k \in ObjectKeys, NEW i \in Slots, Found(k, i), Mutate(i), UNCHANGED nsVars,
             call' = [call EXCEPT ![t].step = "store", ![t].slot = i]
      PROVE  RegTypeOK' /\ TableParts'
  <2>1. /\ RegTypeOK' /\ SlotOnly(i) /\ occupied' = occupied
        /\ slots'[i].kind = "claiming" /\ slots'[i].key = slots[i].key
        /\ slots'[i].user = slots[i].user
    BY <1>2, <1>a, MutateFacts
  <2>2. slots[i].kind = "live" /\ slots[i].key = k
    BY <1>2, FoundIsHeld DEF Holds
  <2>3. call'[t].step = "store" /\ call'[t].slot = i
    BY <1>2, <1>a DEF CallRec
  <2>4. TableInv'
    BY <2>1, <1>a, TableKept DEF Firm
  <2>5. Claims' = {i} /\ occupied' = Cardinality(Lives') + 1
    <3>1. Claims' = {i} /\ occupied = Cardinality(Lives)
      BY <2>1, <1>b, ClaimsSet DEF Settled
    <3>2. Cardinality(Lives') = Cardinality(Lives) - 1
      BY <2>1, <2>2, LivesCount
    <3> QED BY <3>1, <3>2, <2>1, LivesFinite
  <2>6. Written(i)'
    <3>1. Written(i)
      BY <2>2, <1>a DEF TableInv
    <3>2. Reach(i)'
      BY <3>1, <2>1, ReachKept DEF Firm, Written
    <3> QED BY <3>1, <3>2, <2>1 DEF Written
  <2>7. \A j \in Slots : ~(slots'[j].kind = "live" /\ slots'[j].key = slots'[i].key)
    BY <2>1, <2>2, <1>a DEF SlotOnly, TableInv, Holds
  <2>8. Mutating(t)'
    BY <2>3, <2>5, <2>6, <2>7 DEF Mutating, Unheld, Holds
  <2>9. Owned => Owned' \/ slots'[i].key = file'
    <3>1. ASSUME file # NoFile, NEW j \in Slots, Holds(j, file), slots'[i].key # file'
          PROVE  slots'[j].kind = "live" /\ slots'[j].key = file'
      BY <3>1, <2>1, <1>0 DEF SlotOnly, Holds
    <3> QED BY <3>1, <1>0 DEF Owned, Unheld, Holds
  <2>10. tx'[t].step = "in" /\ sequence' = sequence /\ poisoned' = poisoned
    BY <1>2, <1>a DEF nsVars, At
  <2>11. Working(t)' /\ (~poisoned /\ NoLinks => Keeping(t)')
    BY <2>3, <2>8, <2>9, <1>b DEF Working, Keeping
  <2> QED BY <2>1, <2>4, <2>10, <2>11, <1>0, <1>a, WriterStep
<1>3. ASSUME NEW k \in ObjectKeys, NEW i \in Slots, NEW delta \in {-1, 1}, NEW links \in BOOLEAN,
             job[t] = "link", Found(k, i), Reference(i, delta, links), EndCall(t, FALSE)
      PROVE  RegTypeOK' /\ TableParts'
  <2>1. slots[i].kind = "live" /\ slots[i].key = k
    BY <1>3, FoundIsHeld DEF Holds
  <2>2. occupied = Cardinality(Lives) /\ occupied >= 1 /\ Claims = {}
    <3>1. i \in Lives
      BY <2>1 DEF Lives
    <3>2. Cardinality(Lives) # 0
      BY <3>1, LivesFinite, FS_EmptySet
    <3> QED BY <3>2, <1>b, LivesFinite DEF Settled
  <2>3. /\ RegTypeOK' /\ SlotOnly(i) /\ slots'[i].key = slots[i].key
        /\ slots'[i].user = slots[i].user /\ slots'[i].kind \in {"live", "tombstone"}
        /\ occupied' = IF slots'[i].kind = "live" THEN occupied ELSE occupied - 1
    BY <2>2, <1>3, <1>a, ReferenceFacts
  <2>4. Written(i)'
    <3>1. Written(i)
      BY <2>1, <1>a DEF TableInv
    <3>2. Reach(i)'
      BY <3>1, <2>3, ReachKept DEF Firm, Written
    <3> QED BY <3>1, <3>2, <2>3 DEF Written
  <2>5. \A j \in Slots : j # i => ~Holds(j, slots'[i].key)
    BY <2>1, <2>3, <1>a DEF TableInv, Holds
  <2>6. TableInv'
    BY <2>3, <2>4, <2>5, <1>a, TableKept DEF Firm
  <2>7. Claims' = {}
    BY <2>2, <2>3, ClaimsSet
  <2>8. occupied' = Cardinality(Lives')
    BY <2>1, <2>2, <2>3, LivesCount, LivesFinite
  <2>9. ~NoLinks
    BY <1>3 DEF NoLinks
  <2> QED BY <2>3, <2>6, <2>7, <2>8, <2>9, <1>3, <1>0, <1>a, <1>c, EndStep DEF Settled
<1> QED BY <1>1, <1>2, <1>3 DEF Lookup

LEMMA StoreTable ==
  ASSUME Inv, NEW t \in Threads, Store(t)
  PROVE  RegTypeOK' /\ TableParts'
<1>0. /\ Entered(t, "store") /\ Step(t) /\ job' = job /\ file' = file
      /\ UNCHANGED nsVars /\ To(t, "relive")
  BY DEF Store, Step
<1>1. PICK u \in Users : UpdateStore(call[t].slot, u)
  BY DEF Store
<1>a. /\ At(t, "in") /\ call[t].step = "store" /\ Working(t)
      /\ ~poisoned /\ NoLinks => Keeping(t)
      /\ TableInv /\ NsInv /\ RegTypeOK /\ TxFrame(t) /\ call \in [Threads -> CallRec]
      /\ call[t].slot \in Slots
  BY <1>0, Entry
<1>b. Mutating(t) /\ (~poisoned /\ NoLinks => Owned \/ slots[call[t].slot].key = file)
  BY <1>a DEF Working, Keeping
<1>c. tx'[t].step = "in" /\ sequence' = sequence /\ poisoned' = poisoned
  BY <1>0, <1>a DEF nsVars, At
<1>i. PICK i \in Slots : i = call[t].slot
  BY <1>a
<1> USE <1>i
<1>2. /\ RegTypeOK' /\ SlotOnly(i) /\ UNCHANGED <<nextStamp, occupied>>
      /\ slots'[i].kind = slots[i].kind /\ slots'[i].key = slots[i].key
      /\ slots'[i].user = u
  BY <1>1, <1>a, StoreFacts
<1>3. slots[i].kind = "claiming" /\ Claims = {i} /\ occupied = Cardinality(Lives) + 1
  BY <1>b DEF Mutating, Claims
<1>4. TableInv'
  BY <1>2, <1>3, <1>a, TableKept DEF Firm
<1>5. Claims' = {i} /\ Lives' = Lives
  BY <1>2, <1>3, <1>a, ClaimsSet, LivesCount
<1>6. Written(i)'
  <2>1. Reach(i)'
    BY <1>2, <1>a, <1>b, ReachKept DEF Firm, Written, Mutating
  <2> QED BY <2>1, <1>2, <1>b DEF Written, Mutating
<1>7. \A j \in Slots : ~(slots'[j].kind = "live" /\ slots'[j].key = slots'[i].key)
  BY <1>2, <1>3, <1>b DEF SlotOnly, Mutating, Unheld, Holds
<1>8. call'[t].step = "relive" /\ call'[t].slot = i
  BY <1>0, <1>a, ToFrame DEF CallSteps
<1>9. Mutating(t)'
  BY <1>2, <1>3, <1>5, <1>6, <1>7, <1>8 DEF Mutating, Unheld, Holds
<1>10. Owned' = Owned
  BY <1>0, <1>2, <1>3, <1>a, HoldsKept
<1>11. Working(t)' /\ (~poisoned /\ NoLinks => Keeping(t)')
  BY <1>0, <1>2, <1>8, <1>9, <1>10, <1>b DEF Working, Keeping
<1> QED BY <1>2, <1>4, <1>11, <1>0, <1>a, <1>c, WriterStep

LEMMA ReliveTable ==
  ASSUME Inv, NEW t \in Threads, Relive(t)
  PROVE  RegTypeOK' /\ TableParts'
<1>0. /\ Entered(t, "relive") /\ Step(t) /\ job' = job /\ file' = file
      /\ EndCall(t, FALSE) /\ UpdateLive(call[t].slot)
  BY DEF Relive, Step
<1>a. /\ At(t, "in") /\ call[t].step = "relive" /\ Working(t)
      /\ ~poisoned /\ NoLinks => Keeping(t)
      /\ TableInv /\ NsInv /\ RegTypeOK /\ TxFrame(t) /\ call[t].slot \in Slots
  BY <1>0, Entry
<1>b. Mutating(t) /\ (~poisoned /\ NoLinks => Owned \/ slots[call[t].slot].key = file)
  BY <1>a DEF Working, Keeping
<1>c. TypeOK
  BY DEF Inv
<1>i. PICK i \in Slots : i = call[t].slot
  BY <1>a
<1> USE <1>i
<1>1. /\ RegTypeOK' /\ SlotOnly(i) /\ UNCHANGED <<nextStamp, occupied>>
      /\ slots'[i].kind = "live" /\ slots'[i].key = slots[i].key
      /\ slots'[i].user = slots[i].user
  BY <1>0, <1>a, ReliveFacts
<1>2. slots[i].kind = "claiming" /\ Claims = {i} /\ occupied = Cardinality(Lives) + 1
  BY <1>b DEF Mutating, Claims
<1>3. Written(i)'
  <2>1. Reach(i)'
    BY <1>1, <1>a, <1>b, ReachKept DEF Firm, Written, Mutating
  <2> QED BY <2>1, <1>1, <1>b DEF Written, Mutating
<1>4. TableInv'
  BY <1>1, <1>3, <1>a, <1>b, TableKept DEF Firm, Mutating, Unheld
<1>5. Settled'
  <2>1. Claims' = {}
    BY <1>1, <1>2, <1>a, ClaimsSet
  <2>2. occupied' = Cardinality(Lives')
    BY <1>1, <1>2, <1>a, LivesCount
  <2> QED BY <2>1, <2>2 DEF Settled
<1>6. Owned \/ slots[i].key = file => Owned'
  <2>1. \A j \in Slots : Holds(j, file) => slots'[j].kind = "live" /\ slots'[j].key = file'
    BY <1>0, <1>1, <1>2 DEF SlotOnly, Holds
  <2> QED BY <2>1, <1>0, <1>1, <1>a DEF Owned, Unheld, Holds
<1>7. poisoned => poisoned'
  BY <1>0, <1>a, EndFacts DEF EndCall, At
<1> QED BY <1>1, <1>4, <1>5, <1>6, <1>7, <1>0, <1>a, <1>b, <1>c, EndStep

(* A thread that is no writer afterwards, and stores nothing.              *)
LEMMA QuietThread ==
  ASSUME Inv, NEW t \in Threads, TxFrame(t), CallFrame(t), UNCHANGED <<regVars, job, sequence>>,
         file' \in {file, NoFile}, poisoned => poisoned', tx'[t].step \notin {"in", "publish"}
  PROVE  RegTypeOK' /\ TableParts'
<1>1. ASSUME NEW u \in Threads
      PROVE  /\ At(u, "in")' => At(u, "in") /\ call'[u] = call[u]
             /\ At(u, "publish")' => At(u, "publish")
  BY DEF At, TxFrame, CallFrame
<1>2. TableParts /\ RegTypeOK
  BY DEF Inv, TypeOK, TableParts
<1>3. TableParts'
  BY <1>1, <1>2, QuietStep
<1> QED BY <1>2, <1>3, RegKept

(* The sequence turns odd: the writer finds the table settled.             *)
LEMMA OpenTable ==
  ASSUME Inv, NEW t \in Threads, NsProgress(t), Open(t)
  PROVE  TableParts'
<1>a. /\ tx \in [Threads -> TxRec] /\ NsInv /\ CallInv /\ TableParts /\ sequence \in Nat
  BY NamespaceAssumption DEF Inv, TypeOK, NsTypeOK, TxRec, TableParts
<1>b. TxFrame(t)
  BY <1>a, TxFramed DEF Step
<1>c. /\ call' = call /\ file' = file /\ job' = job /\ UNCHANGED regVars
      /\ sequence' = sequence + 1 /\ poisoned' = poisoned
      /\ Runs(t) /\ tx[t].step = "open" /\ tx'[t].step = "in"
  BY <1>a DEF NsProgress, Open, At, Runs, TxRec
<1>d. ~Odd(sequence) /\ Odd(sequence')
  BY <1>a, <1>c, OddStep DEF NsInv, SeqInv, Knows
<1>e. call[t].step \in {"prepare", "lookup"}
  BY <1>a, <1>c DEF CallInv, Matched, BeginSteps
<1>1. ASSUME NEW u \in Threads, At(u, "in")' \/ At(u, "publish")' PROVE u = t
  <2>1. CASE u # t
    <3>1. Runs(u) /\ tx[u].step \in WriteHeld /\ tx[t].step \in WriteHeld
      BY <1>1, <2>1, <1>b, <1>c DEF TxFrame, At, Runs, WriteHeld
    <3> QED BY <3>1, <2>1, <1>a, <1>c, SoleWriter DEF NsInv
  <2> QED BY <2>1
<1>2. Settled' /\ TableInv' /\ Owned' = Owned
  BY <1>a, <1>c, <1>d, RegKept DEF TableParts, WriterInv
<1>3. Working(t)' /\ (Owned => Keeping(t)')
  BY <1>2, <1>c, <1>e DEF Working, Keeping
<1>4. WriterInv'
  BY <1>1, <1>2, <1>3, <1>d DEF WriterInv, Odd
<1>5. FileInv'
  <2>1. NoLinks' = NoLinks
    BY <1>c DEF NoLinks
  <2>2. ~poisoned /\ NoLinks => Owned
    BY <1>a, <1>d DEF TableParts, FileInv
  <2> QED BY <2>1, <2>2, <1>1, <1>2, <1>3, <1>c, <1>d DEF FileInv, Odd
<1> QED BY <1>2, <1>4, <1>5 DEF TableParts

(* The sequence turns even: the writer has left the table settled.         *)
LEMMA PublishTable ==
  ASSUME Inv, NEW t \in Threads, NsProgress(t), Publish(t)
  PROVE  TableParts'
<1>a. /\ tx \in [Threads -> TxRec] /\ NsInv /\ TableParts
  BY DEF Inv, TypeOK, NsTypeOK, TxRec, TableParts
<1>b. TxFrame(t)
  BY <1>a, TxFramed DEF Step
<1>c. /\ file' = file /\ job' = job /\ UNCHANGED regVars /\ poisoned' = poisoned
      /\ Runs(t) /\ tx[t].step = "publish" /\ tx'[t].step = "release"
  BY <1>a DEF NsProgress, Publish, At, Runs, TxRec
<1>1. ASSUME NEW u \in Threads, At(u, "in")' \/ At(u, "publish")' PROVE FALSE
  <2>1. CASE u # t
    <3>1. Runs(u) /\ tx[u].step \in WriteHeld /\ tx[t].step \in WriteHeld
      BY <1>1, <2>1, <1>b, <1>c DEF TxFrame, At, Runs, WriteHeld
    <3> QED BY <3>1, <2>1, <1>a, <1>c, SoleWriter DEF NsInv
  <2> QED BY <1>1, <2>1, <1>c DEF At
<1>2. Settled' /\ TableInv' /\ Owned' = Owned
  BY <1>a, <1>c, RegKept DEF TableParts, WriterInv, At, Runs
<1>3. WriterInv'
  BY <1>1, <1>2 DEF WriterInv
<1>4. FileInv'
  <2>1. NoLinks' = NoLinks
    BY <1>c DEF NoLinks
  <2>2. ~poisoned /\ NoLinks => Owned
    BY <1>a, <1>c DEF TableParts, FileInv, At, Runs
  <2> QED BY <2>1, <2>2, <1>1, <1>2, <1>c DEF FileInv
<1> QED BY <1>2, <1>3, <1>4 DEF TableParts

(* Every step keeps the table.                                             *)
LEMMA TableStep ==
  ASSUME Inv, [Next]_vars
  PROVE  RegTypeOK' /\ TableParts'
<1>a. /\ tx \in [Threads -> TxRec] /\ NsInv /\ CallInv /\ TypeOK /\ ReaderInv /\ TableParts
      /\ RegTypeOK
  BY DEF Inv, TypeOK, NsTypeOK, TxRec, TableParts
<1>1. ASSUME NEW t \in Threads, Step(t) \/ Start(t) \/ Nested(t)
      PROVE  RegTypeOK' /\ TableParts'
  <2>a. TxFrame(t) /\ CallFrame(t)
    BY <1>1, <1>a, TxFramed, Framed
  <2>b. ASSUME UNCHANGED <<nsVars, regVars, job>>, file' \in {file, NoFile}, tx[t].step = "out"
        PROVE  RegTypeOK' /\ TableParts'
    BY <2>a, <2>b, QuietThread DEF nsVars
  <2>c. ASSUME UNCHANGED <<regVars, job, file>>, ReadBegin(t)
        PROVE  RegTypeOK' /\ TableParts'
    <3>1. tx'[t].step \in {"out", "readFlag"}
      BY <2>c, <1>a DEF ReadBegin, At, Go, Return, TxRec
    <3>2. sequence' = sequence /\ poisoned' = poisoned
      BY <2>c DEF ReadBegin, sharedVars
    <3> QED BY <3>1, <3>2, <2>a, <2>c, QuietThread
  <2>d. ASSUME UNCHANGED <<nsVars, regVars, job, file>>,
               call[t].step \notin WriterCalls \union {"outer", "begun"}
        PROVE  RegTypeOK' /\ TableParts'
    BY <2>b, <2>d, <1>a, OutsideCall
  <2>1. CASE NsProgress(t)
    <3>0. NsStep(t) /\ UNCHANGED <<regVars, job, file>>
      BY <2>1 DEF NsProgress
    <3>1. CASE Open(t) \/ Publish(t)
      BY <2>1, <3>0, <3>1, <1>a, OpenTable, PublishTable, RegKept
    <3>2. CASE ~Open(t) /\ ~Publish(t)
      <4>1. tx'[t].step \notin {"in", "publish"} /\ sequence' = sequence
        BY <3>0, <3>2, <1>a DEF NsStep, TakeFlag, FlagTimeout, TakeWriteLock, TakeReadLock,
           RecordTimeout, Claim, Refuse, Refused, Release, Clear, ReadCheck, ReadUnlock,
           ReadClear, At, Go, Return, TxRec, sharedVars
      <4>2. poisoned => poisoned'
        BY <3>0, <3>2 DEF NsStep, TakeFlag, FlagTimeout, TakeWriteLock, TakeReadLock,
           RecordTimeout, Claim, Refuse, Refused, Release, Clear, ReadCheck, ReadUnlock,
           ReadClear, sharedVars
      <4> QED BY <3>0, <4>1, <4>2, <2>a, QuietThread
    <3> QED BY <3>1, <3>2
  <2>2. CASE Refusal(t) \/ Ended(t) \/ OuterBegun(t) \/ InnerBegun(t)
    BY <2>2, <2>b DEF Refusal, Ended, OuterBegun, InnerBegun, Out
  <2>3. CASE \/ Prepare(t) \/ BindSocket(t) \/ Identify(t) \/ CommitStart(t)
             \/ CommitState(t) \/ CommitDone(t) \/ Rollback(t) \/ FinishBind(t)
             \/ Lookup(t) \/ Store(t) \/ Relive(t)
    BY <2>3, PrepareTable, BindTable, IdentifyTable, CommitTable, CommitStateTable,
       CommitDoneTable, RollbackTable, LookupTable, StoreTable, ReliveTable
  <2>4. CASE \/ StatFile(t) \/ LookBefore(t) \/ LookProbe(t) \/ LookLoad(t)
             \/ LookRecheck(t) \/ LookAfter(t) \/ Validate(t) \/ Again(t)
    BY <2>4, <2>d DEF StatFile, LookBefore, LookProbe, LookLoad, LookRecheck, LookAfter, Validate,
       Again, Doing, WriterCalls
  <2>5. CASE InnerStart(t) \/ StatStart(t)
    BY <2>5, <2>c DEF InnerStart, StatStart
  <2>6. CASE StatDone(t)
    <3>1. CASE UNCHANGED nsVars
      BY <2>6, <3>1, <2>d DEF StatDone, Doing, WriterCalls
    <3> QED BY <2>6, <3>1, <2>c DEF StatDone, nsVars
  <2>7. CASE StartWriter(t)
    <3>1. tx'[t].step = "flag" /\ sequence' = sequence /\ poisoned' = poisoned
      BY <2>7, <1>a DEF StartWriter, Begin, At, Go, TxRec, sharedVars
    <3> QED BY <2>7, <3>1, <2>a, QuietThread DEF StartWriter
  <2>8. CASE Unlink(t)
    <3>1. /\ UNCHANGED <<regVars, job, sequence, poisoned>> /\ file' = NoFile /\ call' = call
          /\ tx' = tx /\ live' = live
      BY <2>8 DEF Unlink, nsVars
    <3> QED BY <3>1, <1>a, QuietStep, RegKept DEF At
  <2>9. CASE Nested(t)
    <3>0. At(t, "in") /\ UNCHANGED <<regVars, job, file>> /\ call' = call
      BY <2>9 DEF Nested, InTx, Doing, At, callVars
    <3>1. CASE Nest(t)
      <4>1. /\ sequence' = sequence /\ poisoned' = poisoned /\ live' = live
            /\ \A u \in Threads : tx'[u].step = tx[u].step
        BY <3>1, <1>a DEF Nest, sharedVars, TxRec
      <4> QED BY <3>0, <4>1, <1>a, QuietStep, RegKept DEF At
    <3>2. CASE EndFrom(t, FALSE) /\ call[t].step \in {"lookup", "end"}
      <4>1. /\ tx'[t].step \in {"publish", "in"} /\ sequence' = sequence
            /\ poisoned => poisoned'
        BY <3>0, <3>2, <1>a, EndFacts DEF At
      <4>2. Settled /\ (~poisoned /\ NoLinks => Owned)
        BY <3>0, <3>2, <1>a DEF TableParts, WriterInv, FileInv, Working, Keeping
      <4>3. Settled' /\ Owned' = Owned /\ TableInv' /\ RegTypeOK'
        BY <3>0, <4>2, <1>a, RegKept DEF TableParts
      <4>4. Working(t)' /\ (Owned' => Keeping(t)')
        BY <3>0, <3>2, <4>3 DEF Working, Keeping
      <4> QED BY <3>0, <4>1, <4>2, <4>3, <4>4, <2>a, <1>a, WriterStep
    <3> QED BY <2>9, <3>1, <3>2 DEF Nested, Doing
  <2> QED BY <1>1, <2>1, <2>2, <2>3, <2>4, <2>5, <2>6, <2>7, <2>8, <2>9 DEF Step, Start
<1>2. ASSUME NEW t \in Threads, NEW q \in Procs, ForkProcess(t, q)
      PROVE  RegTypeOK' /\ TableParts'
  <2>1. /\ UNCHANGED <<regVars, job, file, call, sequence, poisoned>> /\ Fork(t, q)
        /\ live[q] = "absent" /\ live' = [live EXCEPT ![q] = "live"]
    BY <1>2 DEF ForkProcess, Fork, callVars, sharedVars
  <2>2. ASSUME NEW u \in Threads, NEW s \in {"in", "publish"}, At(u, s)' PROVE At(u, s)
    <3>1. Of(u) \in Procs
      BY DEF Threads, Of
    <3>2. tx'[u] = tx[u] \/ tx'[u].step = "out"
      BY <2>1, <1>a DEF Fork, Outside
    <3>3. tx'[u] = tx[u] /\ tx[u].step = s
      BY <2>2, <3>2 DEF At
    <3>4. Of(u) # q
      BY <3>3, <2>1, <1>a DEF NsInv, FlagInv
    <3> QED BY <2>2, <3>1, <3>3, <3>4, <2>1 DEF At
  <2> QED BY <2>1, <2>2, <1>a, QuietStep, RegKept
<1>3. ASSUME NEW p \in Procs, DieProcess(p) PROVE RegTypeOK' /\ TableParts'
  <2>1. /\ UNCHANGED <<regVars, job, file, call, sequence, poisoned, tx>>
        /\ live' = [live EXCEPT ![p] = "gone"]
    BY <1>3 DEF DieProcess, Die, callVars, sharedVars
  <2>2. ASSUME NEW u \in Threads, NEW s, At(u, s)' PROVE At(u, s)
    <3>1. live \in [Procs -> {"absent", "live", "gone"}] /\ Of(u) \in Procs
      BY <1>a DEF NsInv, NsTypeOK, Threads, Of
    <3> QED BY <2>1, <2>2, <3>1 DEF At
  <2> QED BY <2>1, <2>2, <1>a, QuietStep, RegKept
<1>4. ASSUME UNCHANGED vars PROVE RegTypeOK' /\ TableParts'
  <2>1. UNCHANGED <<regVars, job, file, call, sequence, poisoned, tx, live>>
    BY <1>4 DEF vars, nsVars, callVars
  <2> QED BY <2>1, <1>a, QuietStep, RegKept DEF At
<1> QED BY <1>1, <1>2, <1>3, <1>4 DEF Next

(***************************************************************************)
(* The readers.                                                            *)
(***************************************************************************)

(* Nothing is stored into the table while the sequence is even.            *)
LEMMA EvenIsStill ==
  ASSUME Inv, [Next]_vars, ~Odd(sequence)
  PROVE  UNCHANGED <<regVars, committed>>
<1>a. \A t \in Threads, s \in CallSteps : ~Entered(t, s)
  BY DEF Inv, NsInv, SeqInv, Knows, WriterValid, Entered, Doing, InTx, Runs
<1>b. \A t \in Threads :
        /\ ~Prepare(t) /\ ~BindSocket(t) /\ ~Identify(t) /\ ~CommitStart(t)
        /\ ~CommitState(t) /\ ~CommitDone(t) /\ ~Rollback(t) /\ ~FinishBind(t)
        /\ ~Lookup(t) /\ ~Store(t) /\ ~Relive(t)
  BY <1>a DEF Prepare, BindSocket, Identify, CommitStart, CommitState, CommitDone, Rollback,
     FinishBind, Lookup, Store, Relive, CallSteps
<1>1. ASSUME NEW t \in Threads, Step(t) PROVE UNCHANGED <<regVars, committed>>
  BY <1>1, <1>b DEF Step, NsProgress, Refusal, Ended, OuterBegun, StatFile, InnerStart,
     InnerBegun, LookBefore, LookProbe, LookLoad, LookRecheck, LookAfter, Validate, Again,
     StatDone
<1>2. ASSUME NEW t \in Threads, Start(t) \/ Nested(t) PROVE UNCHANGED <<regVars, committed>>
  BY <1>2 DEF Start, StartWriter, Unlink, StatStart, Nested, callVars
<1>3. ASSUME NEW t \in Threads, NEW q \in Procs, ForkProcess(t, q)
      PROVE  UNCHANGED <<regVars, committed>>
  BY <1>3 DEF ForkProcess, callVars
<1>4. ASSUME NEW p \in Procs, DieProcess(p) PROVE UNCHANGED <<regVars, committed>>
  BY <1>4 DEF DieProcess, callVars
<1>5. ASSUME UNCHANGED vars PROVE UNCHANGED <<regVars, committed>>
  BY <1>5 DEF vars, callVars
<1> QED BY <1>1, <1>2, <1>3, <1>4, <1>5 DEF Next

(* The sequence only grows, and a publication takes the table as it is.    *)
LEMMA SequenceGrows ==
  ASSUME Inv, [Next]_vars
  PROVE  /\ sequence \in Nat /\ sequence' \in Nat
         /\ sequence' = sequence \/ sequence' = sequence + 1
         /\ sequence' # sequence /\ Odd(sequence)
              => UNCHANGED regVars /\ committed' = Recorded
<1>1. sequence \in Nat /\ NsInv
  BY NamespaceAssumption DEF Inv, NsInv, NsTypeOK
<1>2. sequence' = sequence \/ sequence' = sequence + 1
  BY <1>1, NsSteps, SequenceMoves
<1>3. ASSUME sequence' # sequence, Odd(sequence)
      PROVE  UNCHANGED regVars /\ committed' = Recorded
  <2>1. ASSUME NEW t \in Threads, NsProgress(t) PROVE UNCHANGED regVars /\ committed' = Recorded
    BY <2>1, <1>3 DEF NsProgress
  <2>2. ASSUME NEW t \in Threads, Step(t), ~NsProgress(t) PROVE FALSE
    <3>1. \/ UNCHANGED nsVars \/ ReadBegin(t) \/ EndFrom(t, TRUE) \/ EndFrom(t, FALSE)
      BY <2>2 DEF Step, Refusal, Prepare, BindSocket, Identify, CommitStart, CommitState,
         CommitDone, Rollback, FinishBind, Lookup, Store, Relive, Ended, OuterBegun, StatFile,
         InnerStart, InnerBegun, LookBefore, LookProbe, LookLoad, LookRecheck, LookAfter,
         Validate, Again, StatDone, EndCall, Finish, FinishClaim
    <3> QED BY <3>1, <1>3 DEF nsVars, ReadBegin, EndFrom, sharedVars
  <2>3. ASSUME NEW t \in Threads, Start(t) \/ Nested(t) PROVE FALSE
    BY <2>3, <1>3 DEF Start, StartWriter, Unlink, StatStart, Nested, Begin, Nest, ReadBegin,
       EndFrom, nsVars, sharedVars
  <2>4. ASSUME NEW t \in Threads, NEW q \in Procs, ForkProcess(t, q) PROVE FALSE
    BY <2>4, <1>3 DEF ForkProcess, Fork, sharedVars
  <2>5. ASSUME NEW p \in Procs, DieProcess(p) PROVE FALSE
    BY <2>5, <1>3 DEF DieProcess, Die, sharedVars
  <2>6. ~UNCHANGED vars
    BY <1>3 DEF vars, nsVars
  <2> QED BY <2>1, <2>2, <2>3, <2>4, <2>5, <2>6 DEF Next
<1> QED BY <1>1, <1>2, <1>3

(* The history is what the table says, between transactions.               *)
LEMMA PublishedStep ==
  ASSUME Inv, [Next]_vars
  PROVE  Published'
<1> SUFFICES ASSUME ~Odd(sequence') PROVE \A k \in ObjectKeys : committed'[k] = Recorded'[k]
  BY DEF Published, Odd
<1>1. UNCHANGED regVars => Recorded' = Recorded
  BY DEF regVars, Recorded, Holds
<1>2. CASE sequence' = sequence
  BY <1>1, <1>2, EvenIsStill DEF Inv, ReaderInv, Published
<1>3. CASE sequence' # sequence
  BY <1>1, <1>3, SequenceGrows, OddStep
<1> QED BY <1>2, <1>3

(* A reader that does not move, and one that is no longer reading.         *)
LEMMA ReaderWaits ==
  ASSUME Inv, [Next]_vars, NEW u \in Threads, call'[u] = call[u],
         tx'[u].seen = tx[u].seen \/ tx'[u].seen <= sequence'
  PROVE  Reading(u)'
<1>a. /\ Reading(u) /\ call[u].outer \in Nat /\ call[u].before \in Nat /\ tx[u].seen \in Nat
  BY NamespaceAssumption DEF Inv, ReaderInv, TypeOK, NsTypeOK
<1>b. /\ sequence \in Nat /\ sequence' \in Nat /\ sequence' >= sequence
  BY SequenceGrows
<1>1. tx'[u].seen <= sequence' /\ call'[u].outer <= sequence'
  BY <1>a, <1>b DEF Reading
<1>2. call[u].step \in ReadCalls => call[u].key \in ObjectKeys
  BY <1>a DEF Reading
<1>3. ASSUME call[u].step \in ProbeCalls
      PROVE  /\ call[u].outer <= call[u].before /\ call[u].before <= sequence'
             /\ call[u].before = sequence' => Read(u)'
  <2>1. call[u].outer <= call[u].before /\ call[u].before <= sequence
    BY <1>3, <1>a DEF Reading
  <2>2. ASSUME call[u].before = sequence' PROVE Read(u)'
    <3>1. sequence' = sequence /\ Read(u)
      BY <2>1, <2>2, <1>3, <1>a, <1>b DEF Reading
    <3>2. slots' = slots
      BY <3>1, EvenIsStill DEF Read, regVars
    <3> QED BY <3>1, <3>2 DEF Read, Holds, Unheld
  <2> QED BY <2>1, <2>2, <1>a, <1>b
<1> QED BY <1>1, <1>2, <1>3 DEF Reading

LEMMA NotReading ==
  ASSUME NEW t \in Threads, call'[t].step \notin ReadCalls, call'[t].outer <= sequence',
         tx'[t].seen <= sequence'
  PROVE  Reading(t)'
BY DEF Reading, ReadCalls

(* What a thread has seen is no later than the sequence.                   *)
LEMMA SeenStep ==
  ASSUME Inv, NEW t \in Threads, Step(t) \/ Start(t) \/ Nested(t)
  PROVE  tx'[t].seen <= sequence'
<1>a. /\ tx \in [Threads -> TxRec] /\ tx[t].seen <= sequence /\ tx[t].seen \in Nat
      /\ sequence \in Nat /\ NsInv
  BY NamespaceAssumption DEF Inv, ReaderInv, Reading, TypeOK, NsTypeOK, TxRec
<1>1. ASSUME ReadBegin(t) PROVE tx'[t].seen <= sequence'
  BY <1>1, <1>a DEF ReadBegin, Go, Return, TxRec, sharedVars
<1>2. ASSUME NsStep(t) PROVE tx'[t].seen <= sequence'
  <2>1. CASE Open(t) \/ Publish(t)
    BY <2>1, <1>a DEF Open, Publish, TxRec
  <2>2. CASE ReadCheck(t)
    BY <2>2, <1>a DEF ReadCheck, TxRec
  <2> QED BY <1>2, <2>1, <2>2, <1>a DEF NsStep, TakeFlag, FlagTimeout, TakeWriteLock,
             TakeReadLock, RecordTimeout, Claim, Refuse, Refused, Release, Clear, ReadUnlock,
             ReadClear, Go, Return, TxRec, sharedVars
<1>3. ASSUME Begin(t) \/ Nest(t) PROVE tx'[t].seen <= sequence'
  BY <1>3, <1>a DEF Begin, Nest, Go, TxRec, sharedVars
<1>4. ASSUME At(t, "in"), \E poison \in BOOLEAN : EndFrom(t, poison)
      PROVE  tx'[t].seen <= sequence'
  BY <1>4, <1>a, EndFacts DEF At
<1>5. ASSUME UNCHANGED nsVars PROVE tx'[t].seen <= sequence'
  BY <1>5, <1>a DEF nsVars
<1> QED BY <1>1, <1>2, <1>3, <1>4, <1>5, NsSteps DEF NsBy

(* A search that met no record up to an empty slot, or all around the      *)
(* table, missed none.                                                     *)
LEMMA MissIsUnheld ==
  ASSUME TableInv, NEW key \in ObjectKeys, NEW n \in 0 .. Capacity,
         n = Capacity \/ slots[Probe(key, n)].kind = "empty",
         \A m \in 0 .. n - 1 : ~Holds(Probe(key, m), key)
  PROVE  Unheld(key)
<1> SUFFICES ASSUME NEW i \in Slots, Holds(i, key) PROVE FALSE
  BY DEF Unheld
<1>1. Found(key, i)
  BY HeldIsFound DEF Holds
<1>2. PICK m \in Probes :
        /\ i = Probe(key, m)
        /\ \A l \in 0 .. m - 1 : slots[Probe(key, l)].kind # "empty"
  BY <1>1 DEF Found
<1>3. m \in Nat /\ m < Capacity /\ n \in Nat /\ Capacity \in Nat
  BY <1>2, RegistryAssumption DEF Probes
<1>4. CASE m < n
  BY <1>2, <1>3, <1>4
<1>5. CASE m = n
  BY <1>2, <1>3, <1>5 DEF Holds
<1>6. CASE n < m
  BY <1>2, <1>3, <1>6
<1> QED BY <1>3, <1>4, <1>5, <1>6

(* The reads of a lookup, each of which may come between two stores of a   *)
(* writer: what they add up to holds if the sequence did not move.         *)
LEMMA LookupReads ==
  ASSUME Inv, NEW t \in Threads,
         \/ LookBefore(t) \/ LookProbe(t) \/ LookLoad(t) \/ LookRecheck(t)
         \/ LookAfter(t) \/ Validate(t)
  PROVE  Reading(t)'
<1>a. /\ call \in [Threads -> CallRec] /\ call[t] \in CallRec /\ Reading(t) /\ TableInv
      /\ call[t].outer \in Nat /\ call[t].before \in Nat /\ sequence \in Nat
  BY NamespaceAssumption DEF Inv, ReaderInv, TypeOK, CallRec, NsTypeOK
<1>b. UNCHANGED <<nsVars, regVars>>
  BY DEF LookBefore, LookProbe, LookLoad, LookRecheck, LookAfter, Validate
<1>c. /\ sequence' = sequence /\ tx' = tx /\ slots' = slots
      /\ \A i, k : Holds(i, k)' = Holds(i, k)
  BY <1>b DEF nsVars, regVars, Holds
<1>d. call[t].step \in ReadCalls => call[t].key \in ObjectKeys
  BY <1>a DEF Reading
<1>e. tx'[t].seen <= sequence' /\ call[t].outer <= sequence'
  BY <1>a, <1>c DEF Reading
<1>f. ASSUME NEW s \in CallSteps, To(t, s), s \notin ProbeCalls,
             s \in ReadCalls => call[t].key \in ObjectKeys
      PROVE  Reading(t)'
  BY <1>a, <1>e, <1>f, ToFrame DEF Reading
<1>g. ASSUME call[t].step \in ProbeCalls, call'[t].step \in ProbeCalls,
             call'[t].outer = call[t].outer, call'[t].before = call[t].before,
             call'[t].key = call[t].key, Read(t) => Read(t)'
      PROVE  Reading(t)'
  BY <1>a, <1>c, <1>e, <1>g DEF Reading, ReadCalls
<1>1. CASE LookBefore(t)
  <2>1. CASE Odd(sequence) \/ call[t].looks = MaxLooks
    BY <1>1, <2>1, <1>d, <1>f DEF LookBefore, Doing, ReadCalls, ProbeCalls, CallSteps
  <2>2. CASE ~(Odd(sequence) \/ call[t].looks = MaxLooks)
    <3>1. /\ call'[t].step = "probe" /\ call'[t].before = sequence /\ call'[t].probe = 0
          /\ call'[t].outer = call[t].outer /\ call'[t].key = call[t].key
      BY <1>1, <2>2, <1>a DEF LookBefore, CallRec
    <3>2. call'[t].key \in ObjectKeys
      BY <1>1, <3>1, <1>d DEF LookBefore, Doing, ReadCalls
    <3>3. Read(t)'
      BY <2>2, <3>1, <1>c DEF Read
    <3> QED BY <3>1, <3>2, <3>3, <1>a, <1>c, <1>e DEF Reading
  <2> QED BY <2>1, <2>2
<1>2. CASE LookProbe(t)
  <2> DEFINE n == call[t].probe
  <2>0. /\ call[t].step = "probe" /\ call[t].key \in ObjectKeys
        /\ n \in 0 .. Capacity /\ n \in Nat /\ Capacity \in Nat
    BY <1>2, <1>a, <1>d, RegistryAssumption DEF LookProbe, Doing, ReadCalls, ProbeCalls, CallRec
  <2> DEFINE i == Probe(call[t].key, n)
  <2>1. CASE n = Capacity \/ slots[i].kind = "empty"
    <3>1. /\ call'[t].step = "after" /\ call'[t].got = FALSE
          /\ call'[t].outer = call[t].outer /\ call'[t].key = call[t].key
          /\ call'[t].before = call[t].before
      BY <1>2, <2>1, <1>a DEF LookProbe, CallRec
    <3>2. Read(t) => Unheld(call[t].key)
      BY <2>0, <2>1, <1>a, MissIsUnheld DEF Read
    <3>3. Read(t) => Read(t)'
      BY <3>1, <3>2, <1>c DEF Read, Unheld
    <3> QED BY <2>0, <3>1, <3>3, <1>g DEF ProbeCalls
  <2>2. CASE ~(n = Capacity \/ slots[i].kind = "empty") /\ Holds(i, call[t].key)
    <3>1. /\ call'[t].step = "load" /\ call'[t].slot = i
          /\ call'[t].outer = call[t].outer /\ call'[t].key = call[t].key
          /\ call'[t].before = call[t].before
      BY <1>2, <2>2, <1>a DEF LookProbe, CallRec
    <3>3. Read(t) => Read(t)'
      BY <2>2, <3>1, <1>c DEF Read
    <3> QED BY <2>0, <3>1, <3>3, <1>g DEF ProbeCalls
  <2>3. CASE ~(n = Capacity \/ slots[i].kind = "empty") /\ ~Holds(i, call[t].key)
    <3>1. /\ call'[t].step = "probe" /\ call'[t].probe = n + 1
          /\ call'[t].outer = call[t].outer /\ call'[t].key = call[t].key
          /\ call'[t].before = call[t].before
      BY <1>2, <2>3, <2>0, <1>a DEF LookProbe, CallRec
    <3>2. 0 .. (n + 1) - 1 = (0 .. n - 1) \union {n}
      BY <2>0
    <3>3. Read(t) => \A m \in 0 .. (n + 1) - 1 :
            slots[Probe(call[t].key, m)].kind # "empty" /\ ~Holds(Probe(call[t].key, m),
               call[t].key)
      BY <2>0, <2>3, <3>2 DEF Read
    <3>4. Read(t) => Read(t)'
      BY <3>1, <3>3, <1>c DEF Read
    <3> QED BY <2>0, <3>1, <3>4, <1>g DEF ProbeCalls
  <2> QED BY <2>1, <2>2, <2>3
<1>3. CASE LookLoad(t)
  <2>1. /\ call'[t].step = "recheck" /\ call'[t].user = slots[call[t].slot].user
        /\ call'[t].got = TRUE /\ call'[t].slot = call[t].slot
        /\ call'[t].outer = call[t].outer /\ call'[t].key = call[t].key
        /\ call'[t].before = call[t].before /\ call[t].step = "load"
    BY <1>3, <1>a DEF LookLoad, CallRec, Doing
  <2>2. Read(t) => Read(t)'
    BY <2>1, <1>c DEF Read
  <2> QED BY <2>1, <2>2, <1>g DEF ProbeCalls
<1>h. ASSUME NEW s \in {"after", "validate", "accept"}, To(t, s),
             call[t].step \in {"recheck", "after", "validate"}
      PROVE  Reading(t)'
  <2>1. /\ call'[t].step = s /\ call'[t].user = call[t].user
        /\ call'[t].got = call[t].got /\ call'[t].slot = call[t].slot
        /\ call'[t].outer = call[t].outer /\ call'[t].key = call[t].key
        /\ call'[t].before = call[t].before
    BY <1>h, <1>a, ToFrame DEF CallSteps
  <2>2. Read(t) => Read(t)'
    BY <2>1, <1>c, <1>h DEF Read, Unheld
  <2> QED BY <2>1, <2>2, <1>g, <1>h DEF ProbeCalls
<1>i. call[t].step \in {"recheck", "after", "validate"} => call[t].key \in ObjectKeys
  BY <1>d DEF ReadCalls, ProbeCalls
<1>4. CASE LookRecheck(t)
  BY <1>4, <1>f, <1>h, <1>i DEF LookRecheck, Doing, CallSteps, ProbeCalls
<1>5. CASE LookAfter(t)
  BY <1>5, <1>f, <1>h, <1>i DEF LookAfter, Doing, CallSteps, ProbeCalls
<1>6. CASE Validate(t)
  <2>1. call[t].step = "validate"
    BY <1>6 DEF Validate, Doing
  <2>2. CASE To(t, "abort dead")
    BY <2>2, <1>f DEF CallSteps, ProbeCalls, ReadCalls
  <2>3. CASE To(t, "accept")
    BY <2>1, <2>3, <1>h
  <2>4. CASE Retry(t, "inner") /\ call[t].tries < MaxTries
    <3>1. /\ call'[t].step = "inner" /\ call'[t].outer = call[t].outer
          /\ call'[t].key = call[t].key
      BY <2>4, <1>a DEF Retry, CallRec
    <3> QED BY <3>1, <2>1, <1>i, <1>e DEF Reading, ProbeCalls
  <2> QED BY <1>6, <2>2, <2>3, <2>4 DEF Validate, Retry
<1> QED BY <1>1, <1>2, <1>3, <1>4, <1>5, <1>6

(* Every step of a thread keeps what it knows as a reader.                 *)
LEMMA ReadingStep ==
  ASSUME Inv, NEW t \in Threads, Step(t) \/ Start(t) \/ Nested(t)
  PROVE  Reading(t)'
<1>a. /\ call \in [Threads -> CallRec] /\ call[t] \in CallRec /\ Reading(t)
      /\ tx \in [Threads -> TxRec] /\ call[t].outer \in Nat /\ tx[t].seen \in Nat
  BY NamespaceAssumption DEF Inv, ReaderInv, TypeOK, CallRec, NsTypeOK, TxRec
<1>b. [Next]_vars
  BY DEF Next
<1>c. /\ sequence \in Nat /\ sequence' \in Nat /\ sequence' >= sequence
      /\ tx'[t].seen <= sequence'
  BY <1>b, SequenceGrows, SeenStep
<1>d. /\ call[t].outer <= sequence' /\ tx[t].seen <= sequence' /\ 0 <= sequence'
      /\ call[t].step \in ReadCalls => call[t].key \in ObjectKeys
  BY <1>a, <1>c DEF Reading
<1>e. ASSUME call' = call PROVE Reading(t)'
  BY <1>b, <1>c, <1>e, ReaderWaits
<1>f. ASSUME NEW s \in CallSteps, To(t, s), s \notin ProbeCalls,
             s \in ReadCalls => call[t].step \in ReadCalls
      PROVE  Reading(t)'
  BY <1>a, <1>c, <1>d, <1>f, ToFrame DEF Reading
<1>g. ASSUME Done(t) PROVE Reading(t)'
  <2>1. call'[t] = Waiting
    BY <1>a, <1>g, DoneFrame
  <2> QED BY <2>1, <1>c, <1>d, NotReading DEF Waiting, ReadCalls, ProbeCalls
<1>h. ASSUME call'[t].step \notin ReadCalls, call'[t].outer \in {call[t].outer, tx[t].seen}
      PROVE  Reading(t)'
  BY <1>h, <1>c, <1>d, NotReading
<1>i. ASSUME To(t, "end") \/ To(t, "prepare") \/ To(t, "lookup") \/ To(t, "commit")
             \/ To(t, "rollback") \/ To(t, "live") \/ To(t, "finish") \/ To(t, "relive")
             \/ To(t, "outer") \/ To(t, "abort dead") \/ To(t, "abort overlap")
      PROVE  Reading(t)'
  BY <1>i, <1>f DEF CallSteps, ReadCalls, ProbeCalls
<1> USE DEF EndCall, Finish, FinishClaim
<1>1. CASE NsProgress(t) \/ Unlink(t) \/ Nested(t)
  BY <1>1, <1>e DEF NsProgress, Unlink, Nested, callVars
<1>2. CASE Refusal(t) \/ Ended(t)
  BY <1>2, <1>g DEF Refusal, Ended
<1>3. CASE Prepare(t)
  <2>1. ASSUME NEW i \in Slots, call' = [call EXCEPT ![t].step = "bind", ![t].ticket = i,
                                                     ![t].stamp = nextStamp]
        PROVE  Reading(t)'
    <3>1. call'[t].step = "bind" /\ call'[t].outer = call[t].outer
      BY <2>1, <1>a DEF CallRec
    <3> QED BY <3>1, <1>h DEF ReadCalls, ProbeCalls
  <2> QED BY <1>3, <2>1, <1>i DEF Prepare
<1>4. CASE BindSocket(t)
  <2>1. ASSUME NEW k \in ObjectKeys, call' = [call EXCEPT ![t].step = "identify", ![t].key = k]
        PROVE  Reading(t)'
    <3>1. call'[t].step = "identify" /\ call'[t].outer = call[t].outer
      BY <2>1, <1>a DEF CallRec
    <3> QED BY <3>1, <1>h DEF ReadCalls, ProbeCalls
  <2> QED BY <1>4, <2>1, <1>i DEF BindSocket
<1>5. CASE CommitStart(t)
  <2>1. ASSUME NEW i \in Slots, call' = [call EXCEPT ![t].step = "payload", ![t].slot = i]
        PROVE  Reading(t)'
    <3>1. call'[t].step = "payload" /\ call'[t].outer = call[t].outer
      BY <2>1, <1>a DEF CallRec
    <3> QED BY <3>1, <1>h DEF ReadCalls, ProbeCalls
  <2> QED BY <1>5, <2>1, <1>i DEF CommitStart
<1>6. CASE Lookup(t)
  <2>1. ASSUME NEW i \in Slots, call' = [call EXCEPT ![t].step = "store", ![t].slot = i]
        PROVE  Reading(t)'
    <3>1. call'[t].step = "store" /\ call'[t].outer = call[t].outer
      BY <2>1, <1>a DEF CallRec
    <3> QED BY <3>1, <1>h DEF ReadCalls, ProbeCalls
  <2> QED BY <1>6, <2>1, <1>i DEF Lookup
<1>7. CASE Identify(t) \/ CommitState(t) \/ CommitDone(t) \/ Rollback(t) \/ FinishBind(t)
           \/ Store(t) \/ Relive(t)
  BY <1>7, <1>i DEF Identify, CommitState, CommitDone, Rollback, FinishBind, Store, Relive
<1>8. CASE OuterBegun(t)
  <2>1. ASSUME call' = [call EXCEPT ![t].step = "stat", ![t].outer = tx[t].seen]
        PROVE  Reading(t)'
    <3>1. call'[t].step = "stat" /\ call'[t].outer = tx[t].seen
      BY <2>1, <1>a DEF CallRec
    <3> QED BY <3>1, <1>h DEF ReadCalls, ProbeCalls
  <2> QED BY <1>8, <2>1, <1>g DEF OuterBegun
<1>9. CASE StatFile(t)
  <2>1. ASSUME file # NoFile, call' = [call EXCEPT ![t].step = "inner", ![t].key = file,
                                                   ![t].got = FALSE, ![t].looks = 0]
        PROVE  Reading(t)'
    <3>1. call'[t].step = "inner" /\ call'[t].outer = call[t].outer /\ call'[t].key = file
      BY <2>1, <1>a DEF CallRec
    <3>2. file \in ObjectKeys
      BY <2>1 DEF Inv, TypeOK
    <3> QED BY <3>1, <3>2, <1>c, <1>d DEF Reading, ProbeCalls
  <2> QED BY <1>9, <2>1, <1>g DEF StatFile
<1>10. CASE InnerStart(t) \/ InnerBegun(t)
  BY <1>10, <1>f, <1>i DEF InnerStart, InnerBegun, Doing, CallSteps, ReadCalls, ProbeCalls
<1>11. CASE \/ LookBefore(t) \/ LookProbe(t) \/ LookLoad(t) \/ LookRecheck(t)
            \/ LookAfter(t) \/ Validate(t)
  BY <1>11, LookupReads
<1>12. CASE Again(t)
  <2>1. CASE errno[t] = "EAGAIN" /\ call[t].tries < MaxTries
    <3>1. /\ call'[t].step = "inner" /\ call'[t].outer = call[t].outer
          /\ call'[t].key = call[t].key
      BY <1>12, <2>1, <1>a DEF Again, Retry, CallRec
    <3>2. call[t].key \in ObjectKeys
      BY <1>12, <1>d DEF Again, Doing, ReadCalls
    <3> QED BY <3>1, <3>2, <1>c, <1>d DEF Reading, ProbeCalls
  <2> QED BY <1>12, <2>1, <1>i DEF Again, Retry
<1>13. CASE StatDone(t)
  <2>1. ASSUME call' = [call EXCEPT ![t].step = "outer", ![t].tries = @ + 1]
        PROVE  Reading(t)'
    <3>1. call'[t].step = "outer" /\ call'[t].outer = call[t].outer
      BY <2>1, <1>a DEF CallRec
    <3> QED BY <3>1, <1>h DEF ReadCalls, ProbeCalls
  <2> QED BY <1>13, <2>1, <1>g DEF StatDone
<1>14. CASE StartWriter(t) \/ StatStart(t)
  BY <1>14, <1>i DEF StartWriter, StatStart
<1> QED BY <1>1, <1>2, <1>3, <1>4, <1>5, <1>6, <1>7, <1>8, <1>9, <1>10, <1>11, <1>12, <1>13,
           <1>14 DEF Step, Start

(***************************************************************************)
(* The invariant.                                                          *)
(***************************************************************************)

(* The rest of the types.                                                  *)
CallsTyped ==
  /\ job \in Plans /\ calls \in [Threads -> 0 .. MaxCalls]
  /\ file \in ObjectKeys \cup {NoFile} /\ errno \in [Threads -> {"EAGAIN", "other"}]
  /\ committed \in [ObjectKeys -> Users \cup {None}]

LEMMA RecordedTyped ==
  ASSUME RegTypeOK PROVE Recorded \in [ObjectKeys -> Users \cup {None}]
<1> SUFFICES ASSUME NEW k \in ObjectKeys, \E i \in Slots : Holds(i, k)
             PROVE  slots[CHOOSE i \in Slots : Holds(i, k)].user \in Users \cup {None}
  BY DEF Recorded, None
<1>1. (CHOOSE i \in Slots : Holds(i, k)) \in Slots
  OBVIOUS
<1>2. PICK j \in Slots : j = CHOOSE i \in Slots : Holds(i, k)
  BY <1>1
<1>3. slots[j].user \in Users \cup {0}
  BY DEF RegTypeOK
<1> QED BY <1>2, <1>3 DEF None

LEMMA CallsTypedStep ==
  ASSUME Inv, NEW t \in Threads, Step(t) \/ Start(t) \/ Nested(t)
  PROVE  CallsTyped'
<1>a. CallsTyped /\ RegTypeOK
  BY DEF Inv, TypeOK, CallsTyped
<1>1. job' = job
  BY DEF Step, Start, Nested, callVars, NsProgress, Refusal, Prepare, BindSocket, Identify,
     CommitStart, CommitState, CommitDone, Rollback, FinishBind, Lookup, Store, Relive, Ended,
     OuterBegun, StatFile, InnerStart, InnerBegun, LookBefore, LookProbe, LookLoad,
     LookRecheck, LookAfter, Validate, Again, StatDone, StartWriter, Unlink, StatStart
<1>2. calls' \in [Threads -> 0 .. MaxCalls]
  <2>1. ASSUME calls' = calls PROVE calls' \in [Threads -> 0 .. MaxCalls]
    BY <2>1, <1>a DEF CallsTyped
  <2>2. ASSUME NEW w, Accept(t, w) PROVE calls' \in [Threads -> 0 .. MaxCalls]
    <3>1. calls[t] + 1 \in 0 .. MaxCalls
      BY <2>2, <1>a, SocketAssumption DEF Accept, CallsTyped
    <3> QED BY <2>2, <3>1, <1>a DEF Accept, CallsTyped
  <2> QED BY <2>1, <2>2 DEF Step, Start, Nested, callVars, NsProgress, Refusal, Prepare,
             BindSocket, Identify, CommitStart, CommitState, CommitDone, Rollback, FinishBind,
             Lookup, Store, Relive, Ended, OuterBegun, StatFile, InnerStart, InnerBegun,
             LookBefore, LookProbe, LookLoad, LookRecheck, LookAfter, Validate, Again,
             StatDone, StartWriter, Unlink, StatStart
<1>3. file' \in ObjectKeys \cup {NoFile}
  BY <1>a DEF CallsTyped, Step, Start, Nested, callVars, NsProgress, Refusal, Prepare,
     BindSocket, Identify, CommitStart, CommitState, CommitDone, Rollback, FinishBind, Lookup,
     Store, Relive, Ended, OuterBegun, StatFile, InnerStart, InnerBegun, LookBefore, LookProbe,
     LookLoad, LookRecheck, LookAfter, Validate, Again, StatDone, StartWriter, Unlink,
     StatStart
<1>4. errno' \in [Threads -> {"EAGAIN", "other"}]
  <2>1. ASSUME errno' = errno \/ errno' = [errno EXCEPT ![t] = "EAGAIN"]
               \/ errno' = [errno EXCEPT ![t] = errno[t]]
        PROVE  errno' \in [Threads -> {"EAGAIN", "other"}]
    BY <2>1, <1>a DEF CallsTyped
  <2>2. CASE NsProgress(t) \/ Validate(t) \/ StatDone(t)
    BY <2>1, <2>2 DEF NsProgress, Validate, StatDone
  <2>3. CASE ~(NsProgress(t) \/ Validate(t) \/ StatDone(t))
    <3>1. errno' = errno
      BY <2>3 DEF Step, Start, Nested, callVars, Refusal, Prepare, BindSocket, Identify,
         CommitStart, CommitState, CommitDone, Rollback, FinishBind, Lookup, Store, Relive,
         Ended, OuterBegun, StatFile, InnerStart, InnerBegun, LookBefore, LookProbe, LookLoad,
         LookRecheck, LookAfter, Again, StartWriter, Unlink, StatStart
    <3> QED BY <2>1, <3>1
  <2> QED BY <2>2, <2>3
<1>5. committed' \in [ObjectKeys -> Users \cup {None}]
  <2>1. committed' = committed \/ committed' = Recorded
    BY DEF Step, Start, Nested, callVars, NsProgress, Refusal, Prepare, BindSocket, Identify,
       CommitStart, CommitState, CommitDone, Rollback, FinishBind, Lookup, Store, Relive,
       Ended, OuterBegun, StatFile, InnerStart, InnerBegun, LookBefore, LookProbe, LookLoad,
       LookRecheck, LookAfter, Validate, Again, StatDone, StartWriter, Unlink, StatStart
  <2> QED BY <2>1, <1>a, RecordedTyped DEF CallsTyped
<1> QED BY <1>1, <1>2, <1>3, <1>4, <1>5, <1>a DEF CallsTyped

LEMMA Initially == Init => Inv
<1> SUFFICES ASSUME Init PROVE Inv
  OBVIOUS
<1>0. NsInv /\ NsTypeOK
  BY NsInitially DEF Init, NsInv
<1>1. /\ slots = [i \in Slots |-> EmptySlot] /\ occupied = 0
      /\ \A i \in Slots : slots[i].kind = "empty"
  BY DEF Init, RegInit, EmptySlot
<1>2. RegTypeOK
  <2>1. EmptySlot \in SlotRec
    <3>1. 0 \in 0 .. MaxStamp /\ 0 \in 0 .. MaxRefs
      BY RegistryAssumption
    <3> QED BY <3>1 DEF EmptySlot, SlotRec
  <2>2. slots \in [Slots -> SlotRec]
    BY <2>1, <1>1
  <2>3. nextStamp \in 1 .. MaxStamp + 1 /\ occupied \in 0 .. Capacity /\ cursor \in Slots
    BY RegistryAssumption DEF Init, RegInit, Slots
  <2> QED BY <2>2, <2>3 DEF RegTypeOK, SlotRec
<1>3. call \in [Threads -> CallRec]
  <2>1. /\ 0 \in Slots /\ 0 \in 0 .. MaxStamp /\ 0 \in 0 .. MaxSequence /\ 0 \in 0 .. Capacity
        /\ 0 \in 0 .. MaxTries /\ 0 \in 0 .. MaxLooks /\ "idle" \in CallSteps
    BY RegistryAssumption, NamespaceAssumption, SocketAssumption DEF CallSteps, Slots
  <2>2. Waiting \in CallRec
    BY <2>1 DEF Waiting, CallRec
  <2> QED BY <2>2 DEF Init
<1>4. CallsTyped
  BY SocketAssumption DEF Init, CallsTyped, None
<1>5. TypeOK
  BY <1>0, <1>2, <1>3, <1>4 DEF TypeOK, CallRec, CallsTyped
<1>6. /\ \A t \in Threads : tx[t] = Outside /\ call[t] = Waiting
      /\ sequence = 0 /\ file = NoFile /\ ~Odd(sequence)
  BY DEF Init, NsInit, Odd
<1>7. CallInv
  BY <1>6 DEF CallInv, Matched, Outside, BeginSteps, EndSteps, ReadSteps
<1>8. TableInv
  BY <1>1 DEF TableInv
<1>9. Settled
  <2>1. Lives = {} /\ Claims = {}
    BY <1>1 DEF Lives, Claims
  <2> QED BY <2>1, <1>1, FS_EmptySet DEF Settled
<1>10. WriterInv
  BY <1>6, <1>9 DEF WriterInv, At, Outside
<1>11. FileInv
  BY <1>6 DEF FileInv, Owned, At, Outside
<1>12. ReaderInv
  <2>1. \A k \in ObjectKeys : Recorded[k] = None
    BY <1>1 DEF Recorded, Holds
  <2>2. Published
    BY <2>1 DEF Published, Init
  <2>3. \A t \in Threads : Reading(t)
    BY <1>6 DEF Reading, Outside, Waiting, ReadCalls, ProbeCalls
  <2> QED BY <2>2, <2>3 DEF ReaderInv
<1> QED BY <1>0, <1>5, <1>7, <1>8, <1>10, <1>11, <1>12 DEF Inv

(* Every step keeps the invariant.                                         *)
LEMMA Inductive == Inv /\ [Next]_vars => Inv'
<1> SUFFICES ASSUME Inv, [Next]_vars PROVE Inv'
  OBVIOUS
<1>a. /\ TypeOK /\ NsInv /\ CallInv /\ ReaderInv /\ RegTypeOK /\ CallsTyped
      /\ call \in [Threads -> CallRec] /\ tx \in [Threads -> TxRec]
  BY DEF Inv, TypeOK, CallsTyped, CallRec, NsTypeOK, TxRec
<1>1. NsInv' /\ NsTypeOK'
  BY <1>a, NsSteps, NsPreserved DEF NsInv
<1>2. RegTypeOK' /\ TableInv' /\ WriterInv' /\ FileInv'
  BY TableStep DEF TableParts
<1>3. Published'
  BY PublishedStep
<1>b. ASSUME call' \in [Threads -> CallRec], CallsTyped' PROVE TypeOK'
  BY <1>b, <1>1, <1>2 DEF TypeOK, CallRec, CallsTyped
<1>c. ASSUME TypeOK', CallInv', \A u \in Threads : Reading(u)' PROVE Inv'
  BY <1>c, <1>1, <1>2, <1>3 DEF Inv, ReaderInv
<1>d. ASSUME UNCHANGED callVars,
             \A u \in Threads : tx'[u] = tx[u] \/ tx'[u] = Outside
      PROVE  Inv'
  <2>1. CallsTyped' /\ call' = call
    BY <1>a, <1>d DEF callVars, CallsTyped
  <2>2. CallInv'
    <3> SUFFICES ASSUME NEW u \in Threads PROVE Matched(u)'
      BY DEF CallInv
    <3>1. CASE tx'[u] = tx[u]
      BY <3>1, <2>1, <1>a DEF CallInv, Matched
    <3>2. CASE tx'[u] = Outside
      BY <3>2 DEF Matched, Outside, BeginSteps, EndSteps, ReadSteps
    <3> QED BY <3>1, <3>2, <1>d
  <2>3. ASSUME NEW u \in Threads PROVE Reading(u)'
    <3>1. 0 <= sequence'
      BY SequenceGrows
    <3> QED BY <3>1, <2>1, <1>d, ReaderWaits DEF Outside
  <2> QED BY <2>1, <2>2, <2>3, <1>a, <1>b, <1>c
<1>4. ASSUME NEW t \in Threads, Step(t) \/ Start(t) \/ Nested(t) PROVE Inv'
  <2>a. CallFrame(t) /\ TxFrame(t)
    BY <1>4, <1>a, Framed, TxFramed
  <2>1. TypeOK'
    BY <2>a, <1>4, <1>b, CallsTypedStep DEF CallFrame
  <2>2. CallInv'
    <3> SUFFICES ASSUME NEW u \in Threads PROVE Matched(u)'
      BY DEF CallInv
    <3>1. CASE u = t
      BY <3>1, <1>4, <1>a, MatchedStep
    <3>2. CASE u # t
      BY <3>2, <2>a, <1>a DEF CallInv, Matched, CallFrame, TxFrame
    <3> QED BY <3>1, <3>2
  <2>3. ASSUME NEW u \in Threads PROVE Reading(u)'
    <3>1. CASE u = t
      BY <3>1, <1>4, ReadingStep
    <3>2. CASE u # t
      BY <3>2, <2>a, ReaderWaits DEF CallFrame, TxFrame
    <3> QED BY <3>1, <3>2
  <2> QED BY <2>1, <2>2, <2>3, <1>c
<1>5. ASSUME NEW t \in Threads, NEW q \in Procs, ForkProcess(t, q) PROVE Inv'
  <2>1. \A u \in Threads : tx'[u] = tx[u] \/ tx'[u] = Outside
    BY <1>5, <1>a DEF ForkProcess, Fork
  <2> QED BY <1>5, <2>1, <1>d DEF ForkProcess
<1>6. ASSUME NEW p \in Procs, DieProcess(p) PROVE Inv'
  BY <1>6, <1>d DEF DieProcess, Die
<1>7. CASE UNCHANGED vars
  BY <1>7, <1>d DEF vars, nsVars
<1> QED BY <1>4, <1>5, <1>6, <1>7 DEF Next

LEMMA Invariant == Spec => []Inv
BY Initially, Inductive, PTL DEF Spec

(***************************************************************************)
(* The theorems.                                                           *)
(***************************************************************************)

(* Types: sequence numbers, stamps, counts and indices stay in range, and  *)
(* no call of a thread is ever in a state the code does not have.          *)
THEOREM SocketTypes == Spec => []TypeOK
<1>1. Inv => TypeOK
  BY DEF Inv
<1> QED BY <1>1, Invariant, PTL

(* registry.c: whatever interleaving of bind(), chown(), link counts,      *)
(* forks and deaths, an object has at most one live record, and            *)
(* hl_owner_find does find it.                                             *)
THEOREM RecordsFound == Spec => []RecordsAreFound
<1>1. Inv => RecordsAreFound
  BY HeldIsFound DEF Inv, TableInv, RecordsAreFound
<1> QED BY <1>1, Invariant, PTL

(* registry.c: between transactions no reservation is left and             *)
(* registry->occupied is the number of records.                            *)
THEOREM QuotaExact == Spec => []QuotaIsExact
<1>1. Inv => QuotaIsExact
  BY DEF Inv, WriterInv, Settled, Claims, Lives, QuotaIsExact
<1> QED BY <1>1, Invariant, PTL

(* The record of a held key is the one a reader that found it read.        *)
LEMMA RecordedIsHeld ==
  ASSUME TableInv, NEW i \in Slots, NEW k \in ObjectKeys, Holds(i, k)
  PROVE  Recorded[k] = slots[i].user
<1>1. \A j \in Slots : Holds(j, k) => j = i
  BY DEF TableInv, Holds
<1>2. (CHOOSE j \in Slots : Holds(j, k)) = i
  BY <1>1
<1> QED BY <1>2 DEF Recorded

(* unix_owner_bind and unix_owner_rollback: a socket at the path has a     *)
(* guest owner on record, or the namespace is poisoned.                    *)
THEOREM SocketsOwned == Spec => []BoundSocketsAreOwned
<1>1. Inv => BoundSocketsAreOwned
  <2> SUFFICES ASSUME Inv, ~Odd(sequence), ~poisoned, file # NoFile, NoLinks
               PROVE  committed[file] # None
    BY DEF BoundSocketsAreOwned, NoLinks
  <2>1. file \in ObjectKeys /\ TableInv
    BY DEF Inv, TypeOK
  <2>2. PICK i \in Slots : Holds(i, file)
    BY DEF Inv, FileInv, Owned, Unheld
  <2>3. slots[i].user \in Users
    BY <2>1, <2>2 DEF TableInv, Written, Holds
  <2>4. committed[file] = slots[i].user
    BY <2>1, <2>2, RecordedIsHeld DEF Inv, ReaderInv, Published
  <2> QED BY <2>3, <2>4, RegistryAssumption DEF None
<1> QED BY <1>1, Invariant, PTL

(* fill_linux_stat over hl_owner_get: the owner stat() answers with was    *)
(* the published owner of the very object it looked at, at the sequence    *)
(* it validated, although it took no lock and read the table load by load. *)
THEOREM StatCommitted == Spec => StatIsCommitted
<1>1. Inv /\ [Next]_vars =>
        [\A t \in Threads :
           Answers(t) /\ call'[t].step = "idle" =>
             committed[call[t].key] = IF call[t].got THEN call[t].user ELSE None]_vars
  <2> SUFFICES ASSUME Inv, NEW t \in Threads, Answers(t)
               PROVE  committed[call[t].key] = IF call[t].got THEN call[t].user ELSE None
    OBVIOUS
  <2>1. /\ call[t].step = "accept" /\ sequence = call[t].outer /\ ~Odd(sequence)
        /\ TableInv /\ Reading(t) /\ Published /\ call[t] \in CallRec
        /\ call[t].before \in Nat /\ sequence \in Nat
    BY NamespaceAssumption DEF Answers, Doing, Stable, Inv, ReaderInv, TypeOK, NsTypeOK, CallRec
  <2>2. call[t].key \in ObjectKeys /\ Read(t)
    BY <2>1 DEF Reading, ReadCalls, ProbeCalls
  <2>3. committed[call[t].key] = Recorded[call[t].key]
    BY <2>1, <2>2 DEF Published
  <2>4. CASE call[t].got
    <3>1. /\ Holds(call[t].slot, call[t].key) /\ call[t].user = slots[call[t].slot].user
          /\ call[t].slot \in Slots
      BY <2>1, <2>2, <2>4 DEF Read, CallRec
    <3> QED BY <3>1, <2>1, <2>2, <2>3, <2>4, RecordedIsHeld
  <2>5. CASE ~call[t].got
    <3>1. Unheld(call[t].key)
      BY <2>1, <2>2, <2>5 DEF Read
    <3>2. Recorded[call[t].key] = None
      BY <3>1, <2>2 DEF Recorded, Unheld
    <3> QED BY <3>2, <2>3, <2>5
  <2> QED BY <2>4, <2>5
<1> QED BY <1>1, Invariant, PTL DEF Spec, StatIsCommitted
=============================================================================
