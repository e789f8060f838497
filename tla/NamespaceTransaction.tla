------------------------ MODULE NamespaceTransaction ------------------------
(***************************************************************************)
(* The publication boundary of linux_abi/container/vfs/                    *)
(* namespace_transaction.c: one writer at a time, over all the threads of  *)
(* all the processes of a container, makes the shared sequence odd while   *)
(* it works; readers check that the sequence did not move.                 *)
(*                                                                         *)
(* A writer holds two locks: a flag of its process, and a POSIX record     *)
(* lock, which belongs to the process, dies with it and is not inherited   *)
(* by a fork.  Every shared load and store that another process can come   *)
(* between is an action.                                                   *)
(***************************************************************************)
EXTENDS Integers, FiniteSets

CONSTANTS
  Procs,         \* processes that ever exist
  First,         \* the process that initialised the transaction state
  Nums,          \* threads of one process
  MainNum,       \* the thread a forked process starts with
  MaxSequence,   \* UINT64_MAX, an odd number
  MaxDepth       \* bound on nested transactions

ASSUME NamespaceAssumption ==
  /\ First \in Procs /\ MainNum \in Nums
  /\ MaxSequence \in Nat /\ MaxSequence % 2 = 1
  /\ MaxDepth \in Nat \ {0}

VARIABLES
  sequence, owner, nextOwner, poisoned,   \* struct namespace_transaction_state
  live,   \* "absent", "live" or "gone" of each process
  flag,   \* g_namespace_transaction_local of each process
  lock,   \* the record lock a process holds
  tx      \* each thread: where it is, and its thread-local variables

sharedVars == <<sequence, owner, nextOwner, poisoned>>
lockVars == <<flag, lock>>
nsVars == <<sequence, owner, nextOwner, poisoned, live, flag, lock, tx>>

Threads == Procs \X Nums
Of(t) == t[1]
Odd(n) == n % 2 = 1

Outside == [step |-> "out", depth |-> 0, gen |-> 0, ident |-> 0, seen |-> 0,
            failed |-> FALSE]

(* Steps whose thread holds the flag of its process.                       *)
FlagSteps == {"record", "claim", "open", "in", "publish", "release", "clear",
              "refuse", "readRecord", "readCheck", "readUnlock", "readClear"}
WriteSteps == {"claim", "open", "in", "publish", "release", "refuse"}
Steps == {"out", "flag", "readFlag"} \cup FlagSteps

NsTypeOK ==
  /\ sequence \in 0 .. MaxSequence /\ owner \in 0 .. MaxSequence
  /\ nextOwner \in 0 .. MaxSequence /\ poisoned \in BOOLEAN
  /\ live \in [Procs -> {"absent", "live", "gone"}]
  /\ flag \in [Procs -> BOOLEAN]
  /\ lock \in [Procs -> {"none", "read", "write"}]
  /\ tx \in [Threads -> [step : Steps, depth : 0 .. MaxDepth, gen : 0 .. MaxSequence,
                         ident : 0 .. MaxSequence, seen : 0 .. MaxSequence,
                         failed : BOOLEAN]]

(* namespace_transaction_init.                                             *)
NsInit ==
  /\ sequence = 0 /\ owner = 0 /\ nextOwner = 0 /\ poisoned = FALSE
  /\ live = [p \in Procs |-> IF p = First THEN "live" ELSE "absent"]
  /\ flag = [p \in Procs |-> FALSE]
  /\ lock = [p \in Procs |-> "none"]
  /\ tx = [t \in Threads |-> Outside]

At(t, step) == live[Of(t)] = "live" /\ tx[t].step = step
Go(t, step) == tx' = [tx EXCEPT ![t].step = step]
Return(t, failed) == tx' = [tx EXCEPT ![t].step = "out", ![t].failed = failed]

(* namespace_transaction_begin, outermost and nested.                      *)
Begin(t) ==
  /\ At(t, "out")
  /\ Go(t, "flag")
  /\ UNCHANGED <<sharedVars, live, lockVars>>
Nest(t) ==
  /\ At(t, "in") /\ tx[t].depth < MaxDepth
  /\ tx' = [tx EXCEPT ![t].depth = @ + 1]
  /\ UNCHANGED <<sharedVars, live, lockVars>>

(* namespace_transaction_local_lock: one second of trying, for a writer    *)
(* and for a reader that met one.                                          *)
TakeFlag(t) ==
  /\ \/ At(t, "flag") /\ Go(t, "record")
     \/ At(t, "readFlag") /\ Go(t, "readRecord")
  /\ ~flag[Of(t)] /\ flag' = [flag EXCEPT ![Of(t)] = TRUE]
  /\ UNCHANGED <<sharedVars, live, lock>>
FlagTimeout(t) ==
  /\ At(t, "flag") \/ At(t, "readFlag")
  /\ flag[Of(t)]
  /\ Return(t, TRUE)
  /\ UNCHANGED <<sharedVars, live, lockVars>>

(* namespace_transaction_record_lock.                                      *)
Unwritten(p) == \A q \in Procs \ {p} : lock[q] # "write"
Unlocked(p) == \A q \in Procs \ {p} : lock[q] = "none"

(* Mutant: two processes may hold the write lock together.                 *)
TakeSharedLock(t) ==
  /\ At(t, "record")
  /\ lock' = [lock EXCEPT ![Of(t)] = "write"]
  /\ Go(t, "claim")
  /\ UNCHANGED <<sharedVars, live, flag>>

TakeWriteLock(t) ==
  /\ At(t, "record") /\ Unlocked(Of(t))
  /\ lock' = [lock EXCEPT ![Of(t)] = "write"]
  /\ Go(t, "claim")
  /\ UNCHANGED <<sharedVars, live, flag>>
TakeReadLock(t) ==
  /\ At(t, "readRecord") /\ Unwritten(Of(t))
  /\ lock' = [lock EXCEPT ![Of(t)] = "read"]
  /\ Go(t, "readCheck")
  /\ UNCHANGED <<sharedVars, live, flag>>
RecordTimeout(t) ==
  /\ \/ At(t, "record") /\ ~Unlocked(Of(t))
     \/ At(t, "readRecord") /\ ~Unwritten(Of(t))
  /\ flag' = [flag EXCEPT ![Of(t)] = FALSE]
  /\ Return(t, TRUE)
  /\ UNCHANGED <<sharedVars, live, lock>>

(* Mutant: an abandoned publication is taken over.                         *)
ClaimAnyway(t) ==
  /\ At(t, "claim") /\ ~poisoned
  /\ nextOwner' = nextOwner + 1 /\ owner' = nextOwner + 1
  /\ tx' = [tx EXCEPT ![t].step = "open", ![t].ident = nextOwner + 1]
  /\ UNCHANGED <<sequence, poisoned, live, lockVars>>

(* The writer lock is held: an odd sequence was left by a process that     *)
(* died, and an exhausted one ends the namespace; both poison it.          *)
Exhausted == sequence = MaxSequence - 1 \/ nextOwner = MaxSequence
Claim(t) ==
  /\ At(t, "claim") /\ ~Odd(sequence) /\ ~poisoned /\ ~Exhausted
  /\ nextOwner' = nextOwner + 1 /\ owner' = nextOwner + 1
  /\ tx' = [tx EXCEPT ![t].step = "open", ![t].ident = nextOwner + 1]
  /\ UNCHANGED <<sequence, poisoned, live, lockVars>>
Refuse(t) ==
  /\ At(t, "claim") /\ (Odd(sequence) \/ poisoned \/ Exhausted)
  /\ poisoned' = TRUE /\ lock' = [lock EXCEPT ![Of(t)] = "none"]
  /\ Go(t, "refuse")
  /\ UNCHANGED <<sequence, owner, nextOwner, live, flag>>
Refused(t) ==
  /\ At(t, "refuse")
  /\ flag' = [flag EXCEPT ![Of(t)] = FALSE]
  /\ Return(t, TRUE)
  /\ UNCHANGED <<sharedVars, live, lock>>
Open(t) ==
  /\ At(t, "open")
  /\ sequence' = sequence + 1
  /\ tx' = [tx EXCEPT ![t].step = "in", ![t].gen = sequence + 1, ![t].depth = 1,
                      ![t].failed = FALSE]
  /\ UNCHANGED <<owner, nextOwner, poisoned, live, lockVars>>

(* namespace_transaction_writer and hl_owner_writer_valid: the shared      *)
(* generation and owner are the ones this thread published.                *)
WriterValid(t) == Odd(sequence) /\ sequence = tx[t].gen /\ owner = tx[t].ident

(* namespace_transaction_poison, as part of a step of the writer, and      *)
(* namespace_transaction_end: the outermost end releases the owner, then   *)
(* the sequence, then the two locks.                                       *)
EndFrom(t, poison) ==
  /\ poisoned' = (poisoned \/ poison)
  /\ tx' = [tx EXCEPT ![t].depth = @ - 1,
                      ![t].step = IF tx[t].depth = 1 THEN "publish" ELSE "in"]
  /\ owner' = IF tx[t].depth = 1 THEN 0 ELSE owner
  /\ UNCHANGED <<sequence, nextOwner, live, lockVars>>

Publish(t) ==
  /\ At(t, "publish")
  /\ sequence' = sequence + 1
  /\ tx' = [tx EXCEPT ![t].step = "release", ![t].gen = 0, ![t].ident = 0]
  /\ UNCHANGED <<owner, nextOwner, poisoned, live, lockVars>>
Release(t) ==
  /\ At(t, "release") /\ Go(t, "clear")
  /\ lock' = [lock EXCEPT ![Of(t)] = "none"]
  /\ UNCHANGED <<sharedVars, live, flag>>
Clear(t) ==
  /\ At(t, "clear") /\ Return(t, FALSE)
  /\ flag' = [flag EXCEPT ![Of(t)] = FALSE]
  /\ UNCHANGED <<sharedVars, live, lock>>

(* namespace_transaction_read_begin: two loads when no writer is active,   *)
(* otherwise namespace_transaction_read_slow waits for the locks.          *)
ReadBegin(t) ==
  /\ At(t, "out")
  /\ \/ poisoned /\ Return(t, TRUE)
     \/ /\ ~poisoned /\ ~Odd(sequence)
        /\ tx' = [tx EXCEPT ![t].seen = sequence, ![t].failed = FALSE]
     \/ ~poisoned /\ Odd(sequence) /\ Go(t, "readFlag")
  /\ UNCHANGED <<sharedVars, live, lockVars>>
ReadCheck(t) ==
  /\ At(t, "readCheck")
  /\ poisoned' = (poisoned \/ Odd(sequence))
  /\ tx' = [tx EXCEPT ![t].step = "readUnlock", ![t].seen = sequence,
                      ![t].failed = poisoned']
  /\ UNCHANGED <<sequence, owner, nextOwner, live, lockVars>>
ReadUnlock(t) ==
  /\ At(t, "readUnlock") /\ Go(t, "readClear")
  /\ lock' = [lock EXCEPT ![Of(t)] = "none"]
  /\ UNCHANGED <<sharedVars, live, flag>>
ReadClear(t) ==
  /\ At(t, "readClear") /\ Return(t, tx[t].failed)
  /\ flag' = [flag EXCEPT ![Of(t)] = FALSE]
  /\ UNCHANGED <<sharedVars, live, lock>>

(* Mutant: a reader accepts any even sequence.                             *)
StableAnyEven(seen) == ~Odd(sequence)

(* The sequence check of namespace_transaction_read_validate; the poison   *)
(* check comes before it.                                                  *)
Stable(seen) == sequence = seen /\ ~Odd(sequence)

(* Mutant: the child keeps the flag another thread of its parent held.     *)
ForkKeepingFlag(t, q) ==
  /\ At(t, "out") /\ live[q] = "absent"
  /\ live' = [live EXCEPT ![q] = "live"]
  /\ flag' = [flag EXCEPT ![q] = flag[Of(t)]]
  /\ tx' = [tx EXCEPT ![<<q, MainNum>>] = Outside]
  /\ UNCHANGED <<sharedVars, lock>>

(* A fork with namespace_transaction_fork_child: the child has the forking *)
(* thread only, outside any transaction, and no record lock.               *)
Fork(t, q) ==
  /\ At(t, "out") \/ At(t, "in")
  /\ live[q] = "absent"
  /\ live' = [live EXCEPT ![q] = "live"]
  /\ flag' = [flag EXCEPT ![q] = FALSE]
  /\ tx' = [tx EXCEPT ![<<q, MainNum>>] = Outside]
  /\ UNCHANGED <<sharedVars, lock>>

(* A process dies anywhere: the kernel drops its record lock.              *)
Die(p) ==
  /\ live[p] = "live"
  /\ live' = [live EXCEPT ![p] = "gone"]
  /\ lock' = [lock EXCEPT ![p] = "none"]
  /\ UNCHANGED <<sharedVars, flag, tx>>

(* The steps of the primitive that its callers wait for.                   *)
NsStep(t) ==
  \/ TakeFlag(t) \/ FlagTimeout(t) \/ TakeWriteLock(t) \/ TakeReadLock(t)
  \/ RecordTimeout(t) \/ Claim(t) \/ Refuse(t) \/ Refused(t) \/ Open(t)
  \/ Publish(t) \/ Release(t) \/ Clear(t)
  \/ ReadCheck(t) \/ ReadUnlock(t) \/ ReadClear(t)
=============================================================================
