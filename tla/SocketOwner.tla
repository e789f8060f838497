---------------------------- MODULE SocketOwner ----------------------------
(***************************************************************************)
(* Guest ownership of Unix sockets in a container's shared file system:    *)
(* bind() (unix_owner_bind of linux_abi/syscall/net.c) creates the host    *)
(* object and publishes its guest owner in one namespace transaction,      *)
(* chown() changes it, and stat() (fill_linux_stat over hl_owner_get)      *)
(* reads file identity and owner without a lock and validates.             *)
(* Composes NamespaceTransaction and OwnerRegistry.                        *)
(***************************************************************************)
EXTENDS NamespaceTransaction, OwnerRegistry

CONSTANTS
  MaxTries,     \* attempts of a reader, 64 in the code
  MaxLooks,     \* attempts of one registry lookup, 32 in the code
  Plans,        \* what each thread is asked to do, alternatives
  MaxCalls      \* bound on the calls of one thread

ASSUME SocketAssumption ==
  /\ MaxTries \in Nat \ {0} /\ MaxLooks \in Nat \ {0} /\ MaxCalls \in Nat

VARIABLES
  job,        \* what each thread does
  calls,      \* calls each thread has made
  call,       \* the call a thread is in
  file,       \* the identity of the host object at the path, if any
  errno,      \* "EAGAIN" or "other", of each thread
  committed   \* history: owners as of the last even sequence

callVars == <<job, calls, call, file, errno, committed>>
vars == <<nsVars, regVars, callVars>>

NoFile == "no file"
None == 0
Waiting == [step |-> "idle", key |-> NoKey, ticket |-> 0, stamp |-> 0, slot |-> 0,
            outer |-> 0, before |-> 0, probe |-> 0, user |-> 0, got |-> FALSE,
            tries |-> 0, looks |-> 0]
CallSteps ==
  {"idle", "prepare", "bind", "identify", "commit", "payload", "live", "rollback",
   "finish", "end", "lookup", "store", "relive",
   "outer", "stat", "inner", "begun", "before", "probe", "load", "recheck", "after",
   "validate", "again", "accept", "abort dead", "abort overlap"}

TypeOK ==
  /\ NsTypeOK /\ RegTypeOK
  /\ job \in Plans /\ calls \in [Threads -> 0 .. MaxCalls]
  /\ call \in [Threads -> [step : CallSteps, key : ObjectKeys \cup {NoKey}, ticket : Slots,
                           stamp : 0 .. MaxStamp, slot : Slots, outer : 0 .. MaxSequence,
                           before : 0 .. MaxSequence, probe : 0 .. Capacity,
                           user : Users \cup {0}, got : BOOLEAN, tries : 0 .. MaxTries,
                           looks : 0 .. MaxLooks]]
  /\ file \in ObjectKeys \cup {NoFile}
  /\ errno \in [Threads -> {"EAGAIN", "other"}]
  /\ committed \in [ObjectKeys -> Users \cup {None}]

(* The owner on record for each object.                                    *)
Recorded ==
  [k \in ObjectKeys |->
     IF \E i \in Slots : Holds(i, k) THEN slots[CHOOSE i \in Slots : Holds(i, k)].user
     ELSE None]

Init ==
  /\ NsInit /\ RegInit
  /\ job \in Plans /\ calls = [t \in Threads |-> 0]
  /\ call = [t \in Threads |-> Waiting]
  /\ file = NoFile
  /\ errno = [t \in Threads |-> "other"]
  /\ committed = [k \in ObjectKeys |-> None]

Doing(t, step) == live[Of(t)] = "live" /\ call[t].step = step
To(t, step) == call' = [call EXCEPT ![t].step = step]
Done(t) == call' = [call EXCEPT ![t] = Waiting]
InTx(t) == tx[t].step = "in"
Out(t) == tx[t].step = "out"
Accept(t, what) ==
  /\ Doing(t, "idle") /\ job[t] = what /\ calls[t] < MaxCalls
  /\ calls' = [calls EXCEPT ![t] = @ + 1]

(***************************************************************************)
(* Writers.                                                                *)
(***************************************************************************)

(* bind() and chown() of a socket enter a transaction.                     *)
StartWriter(t) ==
  /\ \E what \in {"bind", "chown", "link"} :
       /\ Accept(t, what)
       /\ To(t, IF what = "bind" THEN "prepare" ELSE "lookup")
  /\ Begin(t)
  /\ UNCHANGED <<regVars, job, file, errno, committed>>

(* namespace_transaction_begin failed: so does the call.                   *)
Refusal(t) ==
  /\ Doing(t, "prepare") \/ Doing(t, "lookup")
  /\ Out(t) /\ tx[t].failed
  /\ Done(t)
  /\ UNCHANGED <<nsVars, regVars, job, calls, file, errno, committed>>

(* hl_socket_owner_writer_begin after a begin that succeeded.              *)
EndCall(t, poison) == /\ EndFrom(t, poison)
                      /\ To(t, "end")
Entered(t, step) == Doing(t, step) /\ InTx(t)

(* hl_socket_owner_prepare: the claim, or the end of the call.             *)
Prepare(t) ==
  /\ Entered(t, "prepare")
  /\ \/ \E i \in Slots :
          /\ Reserve(i)
          /\ call' = [call EXCEPT ![t].step = "bind", ![t].ticket = i,
                                  ![t].stamp = nextStamp]
          /\ UNCHANGED nsVars
     \/ ~CanReserve /\ EndCall(t, FALSE) /\ UNCHANGED regVars
  /\ UNCHANGED <<job, calls, file, errno, committed>>

(* hl_socket_owner_finish: gives up a claim that is left, poisons if the   *)
(* caller could not undo, and ends the transaction.                        *)
Finish(t, poison) == EndCall(t, poison)
FinishClaim(t, poison) == Drop(call[t].ticket) /\ Finish(t, poison)

(* unix_sock_at: the host bind, which fails if the path exists.            *)
BindSocket(t) ==
  /\ Entered(t, "bind")
  /\ \/ /\ file = NoFile
        /\ \E k \in ObjectKeys : file' = k /\ call' = [call EXCEPT ![t].step = "identify",
                                                                   ![t].key = k]
        /\ UNCHANGED <<nsVars, regVars>>
     \/ file # NoFile /\ FinishClaim(t, FALSE) /\ UNCHANGED file
  /\ UNCHANGED <<job, calls, errno, committed>>

(* Mutant: an object that cannot be removed again is left unreported.      *)
IdentifyQuietly(t) ==
  /\ Entered(t, "identify")
  /\ \/ file = NoFile /\ FinishClaim(t, TRUE) /\ UNCHANGED file
     \/ file # NoFile /\ To(t, "commit") /\ UNCHANGED <<nsVars, regVars, file>>
     \/ file # NoFile /\ FinishClaim(t, FALSE) /\ (file' = NoFile \/ UNCHANGED file)
  /\ UNCHANGED <<job, calls, errno, committed>>

(* The object at the path is identified; if it is gone, or has no birth    *)
(* time and cannot be removed again, the namespace is poisoned.            *)
Identify(t) ==
  /\ Entered(t, "identify")
  /\ \/ file = NoFile /\ FinishClaim(t, TRUE) /\ UNCHANGED file
     \/ file # NoFile /\ To(t, "commit") /\ UNCHANGED <<nsVars, regVars, file>>
     \/ file # NoFile /\ FinishClaim(t, FALSE) /\ file' = NoFile
     \/ file # NoFile /\ FinishClaim(t, TRUE) /\ UNCHANGED file
  /\ UNCHANGED <<job, calls, errno, committed>>

(* hl_socket_owner_publish: hl_owner_registry_commit, store by store.      *)
(* EEXIST consumes the claim and leaves the object to be rolled back.      *)
CommitStart(t) ==
  /\ Entered(t, "commit") /\ Ticketed(call[t].ticket, call[t].stamp)
  /\ \/ \E i \in Slots, u \in Users :
          /\ CommitPayload(call[t].key, u, i)
          /\ call' = [call EXCEPT ![t].step = "payload", ![t].slot = i]
     \/ ~Absent(call[t].key) /\ Drop(call[t].ticket) /\ To(t, "rollback")
  /\ UNCHANGED <<nsVars, job, calls, file, errno, committed>>
CommitState(t) ==
  /\ Entered(t, "payload")
  /\ CommitLive(call[t].slot, call[t].stamp) /\ To(t, "live")
  /\ UNCHANGED <<nsVars, job, calls, file, errno, committed>>
CommitDone(t) ==
  /\ Entered(t, "live")
  /\ CommitRelease(call[t].ticket) /\ To(t, "finish")
  /\ UNCHANGED <<nsVars, job, calls, file, errno, committed>>

(* unix_owner_rollback: the object is removed if it is still the one that  *)
(* was bound and unlink() works; otherwise the namespace is poisoned.      *)
Rollback(t) ==
  /\ Entered(t, "rollback")
  /\ \/ file = call[t].key /\ file' = NoFile /\ Finish(t, FALSE)
     \/ UNCHANGED file /\ Finish(t, TRUE)
  /\ UNCHANGED <<regVars, job, calls, errno, committed>>
FinishBind(t) ==
  /\ Entered(t, "finish") /\ Finish(t, FALSE)
  /\ UNCHANGED <<regVars, job, calls, file, errno, committed>>

(* hl_owner_set_metadata of a socket on record: hl_owner_registry_update;  *)
(* an object without a record is left to the table of other files.         *)
Lookup(t) ==
  /\ Entered(t, "lookup")
  /\ \E k \in ObjectKeys :
       \/ Absent(k) /\ EndCall(t, FALSE) /\ UNCHANGED regVars
       \/ /\ job[t] = "chown"
          /\ \E i \in Slots : /\ Found(k, i) /\ Mutate(i)
                              /\ call' = [call EXCEPT ![t].step = "store", ![t].slot = i]
          /\ UNCHANGED nsVars
       \/ ~Absent(k) /\ ~HasStamps(1) /\ EndCall(t, FALSE) /\ UNCHANGED regVars
       \/ /\ job[t] = "link"
          /\ \E i \in Slots, delta \in {-1, 1}, links \in BOOLEAN :
               Found(k, i) /\ Reference(i, delta, links)
          /\ EndCall(t, FALSE)
  /\ UNCHANGED <<job, calls, file, errno, committed>>
Store(t) ==
  /\ Entered(t, "store") /\ \E u \in Users : UpdateStore(call[t].slot, u)
  /\ To(t, "relive")
  /\ UNCHANGED <<nsVars, job, calls, file, errno, committed>>
Relive(t) ==
  /\ Entered(t, "relive") /\ UpdateLive(call[t].slot)
  /\ EndCall(t, FALSE)
  /\ UNCHANGED <<job, calls, file, errno, committed>>

(* The caller of the transaction has returned from its end.                *)
Ended(t) ==
  /\ Doing(t, "end") /\ Out(t) /\ Done(t)
  /\ UNCHANGED <<nsVars, regVars, job, calls, file, errno, committed>>

(* A transaction opened and ended inside one that is open.                 *)
Nested(t) ==
  /\ job[t] = "link" /\ InTx(t)
  /\ \/ Doing(t, "lookup") /\ Nest(t)
     \/ Doing(t, "lookup") /\ tx[t].depth > 1 /\ EndFrom(t, FALSE)
     \/ Doing(t, "end") /\ EndFrom(t, FALSE)
  /\ UNCHANGED <<regVars, callVars>>

(* Guests remove the path whenever they like: unlink() takes no part in    *)
(* the transaction.                                                        *)
Unlink(t) ==
  /\ Accept(t, "unlink") /\ file # NoFile
  /\ file' = NoFile
  /\ UNCHANGED <<nsVars, regVars, job, call, errno, committed>>

(***************************************************************************)
(* Readers.                                                                *)
(***************************************************************************)

(* fill_linux_stat: an epoch around stat() and the owner.                  *)
StatStart(t) ==
  /\ Accept(t, "stat") /\ ReadBegin(t) /\ To(t, "outer")
  /\ UNCHANGED <<regVars, job, file, errno, committed>>
OuterBegun(t) ==
  /\ Doing(t, "outer") /\ Out(t)
  /\ \/ tx[t].failed /\ Done(t)
     \/ ~tx[t].failed /\ call' = [call EXCEPT ![t].step = "stat", ![t].outer = tx[t].seen]
  /\ UNCHANGED <<nsVars, regVars, job, calls, file, errno, committed>>
StatFile(t) ==
  /\ Doing(t, "stat")
  /\ \/ file = NoFile /\ Done(t)
     \/ file # NoFile /\ call' = [call EXCEPT ![t].step = "inner", ![t].key = file,
                                              ![t].got = FALSE, ![t].looks = 0]
  /\ UNCHANGED <<nsVars, regVars, job, calls, file, errno, committed>>

(* hl_socket_owner_lookup: an epoch of its own around the registry.  An    *)
(* error makes hl_owner_get abort the process.                             *)
InnerStart(t) ==
  /\ Doing(t, "inner") /\ ReadBegin(t) /\ To(t, "begun")
  /\ UNCHANGED <<regVars, job, calls, file, errno, committed>>
InnerBegun(t) ==
  /\ Doing(t, "begun") /\ Out(t)
  /\ To(t, IF tx[t].failed THEN "abort dead" ELSE "before")
  /\ UNCHANGED <<nsVars, regVars, job, calls, file, errno, committed>>

(* hl_owner_registry_lookup, load by load.                                 *)
LookBefore(t) ==
  /\ Doing(t, "before")
  /\ IF Odd(sequence) \/ call[t].looks = MaxLooks THEN To(t, "again")
     ELSE call' = [call EXCEPT ![t].step = "probe", ![t].before = sequence,
                               ![t].probe = 0, ![t].looks = @ + 1]
  /\ UNCHANGED <<nsVars, regVars, job, calls, file, errno, committed>>
LookProbe(t) ==
  LET i == Probe(call[t].key, call[t].probe) IN
  /\ Doing(t, "probe")
  /\ call' = IF call[t].probe = Capacity \/ slots[i].kind = "empty"
             THEN [call EXCEPT ![t].step = "after", ![t].got = FALSE]
             ELSE IF Holds(i, call[t].key)
             THEN [call EXCEPT ![t].step = "load", ![t].slot = i,
                               ![t].stamp = slots[i].stamp]
             ELSE [call EXCEPT ![t].probe = @ + 1]
  /\ UNCHANGED <<nsVars, regVars, job, calls, file, errno, committed>>
LookLoad(t) ==
  /\ Doing(t, "load")
  /\ call' = [call EXCEPT ![t].step = "recheck", ![t].user = slots[call[t].slot].user,
                          ![t].got = TRUE]
  /\ UNCHANGED <<nsVars, regVars, job, calls, file, errno, committed>>
LookRecheck(t) ==
  /\ Doing(t, "recheck")
  /\ LET slot == slots[call[t].slot] IN
     To(t, IF slot.kind = "live" /\ slot.stamp = call[t].stamp THEN "after" ELSE "before")
  /\ UNCHANGED <<nsVars, regVars, job, calls, file, errno, committed>>
LookAfter(t) ==
  /\ Doing(t, "after")
  /\ To(t, IF Stable(call[t].before) THEN "validate" ELSE "before")
  /\ UNCHANGED <<nsVars, regVars, job, calls, file, errno, committed>>

(* namespace_transaction_read_validate of the inner epoch, and the retry   *)
(* that hl_socket_owner_lookup decides by errno, which the registry lookup *)
(* does not set.                                                           *)
Retry(t, step) ==
  IF call[t].tries < MaxTries
  THEN call' = [call EXCEPT ![t].step = step, ![t].tries = @ + 1, ![t].looks = 0]
  ELSE To(t, "abort dead")
Validate(t) ==
  /\ Doing(t, "validate")
  /\ \/ poisoned /\ To(t, "abort dead") /\ UNCHANGED errno
     \/ ~poisoned /\ Stable(tx[t].seen) /\ To(t, "accept") /\ UNCHANGED errno
     \/ /\ ~poisoned /\ ~Stable(tx[t].seen) /\ Retry(t, "inner")
        /\ errno' = [errno EXCEPT ![t] = "EAGAIN"]
  /\ UNCHANGED <<nsVars, regVars, job, calls, file, committed>>
Again(t) ==
  /\ Doing(t, "again")
  /\ IF errno[t] = "EAGAIN" THEN Retry(t, "inner") ELSE To(t, "abort overlap")
  /\ UNCHANGED <<nsVars, regVars, job, calls, file, errno, committed>>

(* The outer epoch is validated, and stat() answers or starts over.        *)
Answers(t) == Doing(t, "accept") /\ ~poisoned /\ Stable(call[t].outer)
StatDone(t) ==
  /\ Doing(t, "accept")
  /\ \/ poisoned /\ Done(t) /\ UNCHANGED <<nsVars, errno>>
     \/ Answers(t) /\ Done(t) /\ UNCHANGED <<nsVars, errno>>
     \/ /\ ~poisoned /\ ~Stable(call[t].outer)
        /\ errno' = [errno EXCEPT ![t] = "EAGAIN"]
        /\ \/ /\ call[t].tries < MaxTries /\ ReadBegin(t)
              /\ call' = [call EXCEPT ![t].step = "outer", ![t].tries = @ + 1]
           \/ call[t].tries = MaxTries /\ Done(t) /\ UNCHANGED nsVars
  /\ UNCHANGED <<regVars, job, calls, file, committed>>

(***************************************************************************)
(* Processes.                                                              *)
(***************************************************************************)

(* The steps of the primitive, with the history of what was published.  A  *)
(* lock that had to be tried again leaves its errno behind.                *)
NsProgress(t) ==
  /\ NsStep(t)
  /\ committed' = IF Odd(sequence) /\ sequence' # sequence THEN Recorded ELSE committed
  /\ errno' \in {errno, [errno EXCEPT ![t] = IF tx[t].step = "readRecord" THEN "EAGAIN"
                                             ELSE @]}
  /\ UNCHANGED <<regVars, job, calls, call, file>>
ForkProcess(t, q) ==
  /\ Fork(t, q)
  /\ UNCHANGED <<regVars, callVars>>
DieProcess(p) ==
  /\ Die(p)
  /\ UNCHANGED <<regVars, callVars>>

Step(t) ==
  \/ NsProgress(t) \/ Refusal(t) \/ Prepare(t) \/ BindSocket(t) \/ Identify(t)
  \/ CommitStart(t) \/ CommitState(t) \/ CommitDone(t) \/ Rollback(t) \/ FinishBind(t)
  \/ Lookup(t) \/ Store(t) \/ Relive(t) \/ Ended(t)
  \/ OuterBegun(t) \/ StatFile(t) \/ InnerStart(t) \/ InnerBegun(t) \/ LookBefore(t)
  \/ LookProbe(t) \/ LookLoad(t) \/ LookRecheck(t) \/ LookAfter(t) \/ Validate(t)
  \/ Again(t) \/ StatDone(t)
Start(t) == StartWriter(t) \/ Unlink(t) \/ StatStart(t)

Next ==
  \/ \E t \in Threads : Step(t) \/ Start(t) \/ Nested(t)
  \/ \E t \in Threads, q \in Procs : ForkProcess(t, q)
  \/ \E p \in Procs : DieProcess(p)

Spec == Init /\ [][Next]_vars

(***************************************************************************)
(* Properties.                                                             *)
(***************************************************************************)

(* Whoever is in a transaction is the one the shared state names and holds *)
(* both locks, whatever forks, dies or times out around it: no two threads *)
(* of any processes are ever in one together.                              *)
WriterIsAlone ==
  \A t \in Threads :
    At(t, "in") => WriterValid(t) /\ flag[Of(t)] /\ lock[Of(t)] = "write"

(* A process's flag is held by one of its threads: a child never starts    *)
(* with a flag that nobody will clear, and no error path keeps it.         *)
FlagHasHolder ==
  \A p \in Procs : live[p] = "live" /\ flag[p] =>
    \E n \in Nums : tx[<<p, n>>].step \in FlagSteps

(* No transaction leaves a claim behind, and the quota counts the records: *)
(* every failure of bind() gives its claim back exactly once.              *)
QuotaIsExact ==
  ~Odd(sequence) => /\ \A i \in Slots : slots[i].kind # "claiming"
                    /\ occupied = Cardinality({i \in Slots : slots[i].kind = "live"})

(* The process that published the sequence is gone, or never will end.     *)
Abandoned ==
  /\ Odd(sequence)
  /\ \A t \in Threads : live[Of(t)] = "live" /\ tx[t].gen = sequence
                         => tx[t].step \notin {"in", "publish"}

(* Nothing moves the sequence that a dead writer left odd: its half-made   *)
(* changes are never taken for published ones.                             *)
AbandonedStaysClosed == [][Abandoned => UNCHANGED sequence]_sequence

(* A socket visible between transactions has a guest owner on record, or   *)
(* the namespace is poisoned: "no reader can mistake host ownership for    *)
(* authoritative guest metadata".  (The registry's link counts, which      *)
(* nothing in the engine drops yet, are left to the other plans.)          *)
BoundSocketsAreOwned ==
  ~Odd(sequence) /\ ~poisoned /\ file # NoFile /\ (\A t \in Threads : job[t] # "link")
    => committed[file] # None

(* stat() answers with the owner on record when the sequence was last      *)
(* even, for the very object it looked at: never a mixture of two          *)
(* publications, nor one that was not finished.                            *)
StatIsCommitted ==
  [][\A t \in Threads :
       Answers(t) /\ call'[t].step = "idle" =>
         committed[call[t].key] = IF call[t].got THEN call[t].user ELSE None]_vars

(* "They take the record lock only after observing an active writer", and  *)
(* otherwise retry "if a writer crossed that interval": a writer that is   *)
(* merely busy does not make stat() abort the process.                     *)
OverlapIsRetried == \A t \in Threads : call[t].step # "abort overlap"
=============================================================================
