# Verification of husklet

husklet runs Linux containers on top of a binary translator. This directory models the
protocols of it in which several actors share state, checks them with TLC on small
instances, and proves with TLAPS, for every instance, the safety properties of the lifecycle
(refinement included), of socket ownership and of stop-the-world, and a first part of those
of the identity registry:

* **the container lifecycle** (`hl-container`): who owns which guest process, through
  failing writes, timers, racing clients and daemon deaths;
* **System V IPC** (`hl-native`): segments, semaphores and message queues that guest
  processes share through one control block;
* **socket ownership** (`hl-native`): the namespace transaction that publishes state to
  all processes of a container, the owner registry behind it, and the calls that use both;
* **checkpoint capture** (`hl-native` and `hl-engine`): the coordinator, the members and
  the broker that freeze and publish a whole process tree;
* **stop-the-world** (`hl-native`): how threads in translated code are stopped while the
  code cache, the mappings or a checkpoint change under them;
* **the identity registry** (`hl-native`): the numbers by which the processes, groups and
  sessions of a container know each other, kept in shared memory by processes that may
  die in the middle of a transaction.

Paths below are relative to `src/containers/hl-container/src/` in the lifecycle parts and
to `src/runtime/hl-native/src/native/` in the others, unless they start with `src/`.

## 1. Inventory

### The system

| Part | State | Operations | Talks to |
|---|---|---|---|
| restart policy (`model/restart.rs`) | restart count, manual-stop mark, in the record | `allows`, `started`, `completed_run`, `manual` | completion, launch, startup |
| launch and rollback (`service/container/{launch,rollback}.rs`) | `live`, `launch_cleanups`, `launch_cleanup_failures` | `start`, `launch_locked`, `rollback_unpublished_launch`, `settle_late_reap` | storage, runtime, completion task |
| completion, restart, startup (`service/container/restart.rs`) | `restarts` (cancel senders), `failures` | `finish`, `restart`, `reconcile`, `recover` | launch, removal, waiters |
| control (`service/container/control.rs`) | `waiters` | `wait`, `signal`, `stop`, `pause`, `unpause`, `cancel_restart_locked` | process handle, storage |
| removal (`service/container/removal.rs`) | `exits` | `remove`, forced `remove`, `prune` | control, storage, volumes, networks |
| checkpoint (`service/container/checkpoint.rs`) | checkpoint mark in the record | `checkpoint`, `checkpoint_all` and its rollback, `discard_checkpoint` | engine, executions, launch |
| catalogue (`service/container/catalog.rs`) | the records | `create`, `update`, `rename`, labels, resolution of references | storage, restart timers |
| process handle (`engine/process.rs`) | the engine process | `wait`, `signal`, `pause`, `resume`, `checkpoint` | hl-engine |
| output ownership (`service/container/attachment.rs`) | one owner task per run | `own`, `drain`, `append`, `await_output_completion` | log storage, completion |
| executions, console, health | `exec_live`, `io`, one monitor per run | exec start/finish/reattach, attach, probes | the parts above |
| storage (`storage/`) | one file per record, one journal per log | write-then-rename, append | all |
| networks, volumes, checkpoint directory | endpoints, volume directories, image generations | connect, create/remove, begin/put/commit | storage |
| SysV IPC (`linux_abi/syscall/{sysv.c,sysv_state.h}`) | a control block in shared memory: segment, semaphore and queue entries; per process: attachments, undo list, mapped stores | `shmget`…`msgctl`, the fork, exec and exit hooks | the other processes of the container |
| namespace transactions (`linux_abi/container/vfs/namespace_transaction.c`) | a shared sequence, owner, poison mark; a flag and a record lock per process | begin, commit, abort, optimistic and locked read, fork | owner registry, mounts, `net.c` |
| owner registry (`linux_abi/container/ownership/registry.c`, `owner.h`) | an open-addressing table in shared memory | prepare, commit, cancel, mutate, lookup | `bind`, `chown`, `unlink`, `stat` |
| checkpoint capture (`linux_abi/checkpoint/{image,capture,coordinator,descriptor_capture}.c`, `engine/checkpoint_channel.c`, `src/containers/hl-engine/src/runtime/checkpoint`) | the broker's phase, ledger and groups; per process its dump; the coordinator's passes | register, claim, commit, park, refuse, seal, publish, release | stop-the-world, descriptors, the daemon |
| stop-the-world (`engine/dispatch.c`, `translator/cache.c`, `linux_abi/thread/lifecycle.c`) | gate, request, three locks, one registry slot per thread, code arenas and their map | dispatch, flush, activation, mapping window, capture barrier, register, depart | translation, system calls, checkpoint |
| identity registry (`linux_abi/container/{pidmap,state}.c`, `linux_abi/syscall/process/{clone,wait,scheduling,control}.c`, `linux_abi/syscall/rare.c`) | three maps of two banks each, a commit word, a journal, a semantic record, a poison mark; the number each process knows itself by | join, fork's publication, `setpgid`, `setsid`, `getpgid`, reap, lock-free lookup, recovery | the host's process table, the daemon's launches, `/proc`, signals |
| restore, logical mappings, file system, other system calls, translation, supervision (`hl-native`) | descriptor tables, an interval ledger, overlays, signal and futex tables, instruction semantics | | the parts above |
| `hl-daemon`, `hl-client`, `hl-images`, `hl-engine`, `hl-rpc`, GUI and extensions | | HTTP API, image store, engine, RPC, user interface | |

`PROJECT.json` lists every part with what is modelled of it.

### How the parts interact

In `hl-container` a single `operations` mutex serialises the handlers of the service. Almost every
handler holds it from its first read to its last write, so handlers do not interleave
with each other. What interleaves is everything else:

* guest processes exit whenever they like;
* every launch spawns an output owner and a completion task, which calls `finish`
  under the mutex some time after the exit;
* every pending restart is a spawned task that sleeps and then calls `restart`; it is
  cancelled through a sender kept in `restarts`, one slot per container, and the
  cancelled arm of the task edits that slot *without* the operations mutex;
* `stop`, `signal`, `wait` and a forced `remove` take and release the mutex several
  times, and read state without it first;
* `finish` drops the mutex before it removes an automatic-removal container;
* every write to storage can fail, and each handler has its own way to undo;
* the daemon can die between any two writes; `reconcile` and `recover` then work from
  the records alone.

In `hl-native` nothing is serialised for the code as a whole. Guest processes are host
processes that share memory: they die at any instruction, fork with locks held by other
threads, and hold locks of different kinds (a spinlock in shared memory, a process-local
flag, a POSIX record lock that the kernel drops at death). Inside one process, threads run
translated code without any lock and are stopped by a gate, a signal and a poll. A capture
crosses all of it: it stops the threads of each process, then the processes of the tree,
and asks a broker in another process what to do.

### What is hard, and what correctness means

The hazards, each at its line, are in `PROJECT.json`. In short:

* **processes**: no owned process without a record that says so, never two for one
  container, no record that claims a process nobody owns (`GuestAccounted`,
  `RunHasOwner`, `PausedIsFrozen`, `QuarantineHolds`);
* **intent**: a container stopped by hand stays stopped until it is launched explicitly or
  a new daemon takes up an `always` container, a policy that no longer allows a restart
  prevents it (`ManualStopHonoured`, `PendingRestartAllowed`);
* **clients**: a wait never sleeps through its answer, a stop returns
  (`NoLostWakeup`, `StopReturns`);
* **progress**: a pending restart is launched or settled (`RestartSettles`);
* **all-or-nothing**: a failed checkpoint of everything puts everything back
  (`SweepRestoresRuns`);
* **shared resources**: one host port, one running container (`PortsExclusive`);
* **the status a client sees** follows a small state machine, across crashes
  (`KeepsPromise`);
* **IPC objects**: nothing stays behind once the last user is gone, a live id maps its
  own segment, waits, undo lists and queue accounts balance, a removal ends every wait
  (`RemovedIsReclaimed`, `LiveIdMapsItsSegment`, `WaitersAreCounted`, `UndoBalances`,
  `StoresAreWellFormed`, `StoresAreFifo`, `QueueIsAccounted`, `RemovalReleasesWaiters`);
* **publication**: one writer, no reader of a half-written state, no life after a writer
  that died in the middle, no leaked slot (`WriterIsAlone`, `FlagHasHolder`,
  `StatIsCommitted`, `AbandonedStaysClosed`, `RecordsAreFound`, `QuotaIsExact`,
  `BoundSocketsAreOwned`);
* **captures**: a published image is the whole tree, frozen; a tree that goes on has lost
  nothing but signals of a signalfd; a parked process is told something
  (`ManifestIsExact`, `PublishedTreeIsFrozen`, `SettledTreeIsWhole`, `ParkEnds`);
* **translated code**: nobody runs a freed or outdated translation, no window is open
  while a thread is in the cache, the barrier is reached (`RunningCodeIsLive`,
  `WindowIsQuiet`, `BarrierConverges`);
* **identities**: a transaction over the three maps happens whole or not at all, whoever
  dies in it; a lookup answers from the maps that are published; a leader's group has the
  leader's number; nobody takes the name of its group or session from a living member;
  nothing is given up that the host could still tell (`Atomic`, `ReadIsCurrent`,
  `LeadersNameGroups`, `NamesAreKept`, `PoisonedByLoss`).

## 2. Modules

| Module | What it is |
|---|---|
| `RestartPolicy` | `model/restart.rs` as operators. Exit statuses keep the distinctions the policy draws: zero, nonzero, and the fault recorded when the status is unknown. `maximum: None` is 0, which `validate` rejects as a limit. |
| `ContainerStates` | Abstract specification: what a client sees of status and generation. |
| `Lifecycle` | The service: all handlers, tasks, timers, calls, the sweep, crash and startup. Contains the properties and, in front of the definition it changes, each mutant. |
| `LifecycleProofs` | `Spec => []TypeOK`, one lemma per group of actions; the inductive invariant and the safety theorems about processes, ports and manual stops. |
| `LifecycleRuns` | What a record says of its run, the refinement of `ContainerStates`, no lost wakeup, and the rollback of a sweep. |
| `SysvTable` | What the three IPC families share: entries found by key, ids made of slot and sequence number, permissions. |
| `SysvShm`, `SysvSem`, `SysvMsg` | One family each: entries, calls, and the part of the fork, exec and exit hooks that concerns it. |
| `SysvIpc` | The composition: processes, the hooks over all families, fairness. |
| `SysvProofs` | The inductive invariants of shared memory, waiting, undo lists, message stores and queue accounts; every safety property of `sysv` as a theorem. |
| `NamespaceTransaction` | `namespace_transaction.c`, one action per shared load or store. |
| `OwnerRegistry` | `registry.c`: the table and its stores. |
| `SocketOwner` | The composition: bind, link, unlink, chown and stat of a socket. |
| `SocketOwnerProofs` | Its inductive invariant; all its properties as theorems. |
| `CheckpointBroker` | The host side: every request as a function of the broker's state. |
| `CheckpointMember` | A process of the tree, its channel, its dump and its park. |
| `CheckpointCapture` | The composition with the coordinator. |
| `CheckpointProofs` | Its inductive invariant; its three safety invariants as theorems. |
| `StopTheWorld` | The dispatcher loop of each thread and the four quiescers. |
| `StopTheWorldProofs` | Its inductive invariant and safety theorems. |
| `IdentityMaps` | Abstract specification: three relations between guest numbers and host ids that change by whole transactions. |
| `IdentityRegistry` | `pidmap.c`: lock, journal, banks, recovery, requests and the lock-free lookup, one action per shared store or load. |
| `PidNamespace` | The composition with the host's processes and the calls that use the registry. |
| `IdentityProofs` | The invariant of the lookup and the theorem that it is current; the invariant of recovery. |
| `IdentityNames` | Who is named by which number, what a loss is, and the refinement of `IdentityMaps`; four properties as theorems. |
| `MCLifecycle`, `MCSysvIpc`, `MCSocketOwner`, `MCCheckpoint`, `MCPidNamespace` | Model values and small sets for TLC. (`StopTheWorld` is run directly.) |

Properties stand at the end of the module that completes them, and each mutant in front
of the definition it changes.

### How `Lifecycle` corresponds to the code

A run of a container is the pair of its id and its generation; that pair names its
process, its completion task and its timer.

| Variable | Code |
|---|---|
| `record[c]` | the persisted `Container`: `st` is `ContainerState` (plus `unborn` and `removed` for ids without a record), `gen`, `result`, `restart`, `ckpt`, `diag` (runtime diagnostic), and of the spec `policy`, `auto` (removal policy) and `publish` |
| `guest[c][g]` | the process of run `g`: running, suspended (`frozen`), told to die, exited with its completion pending, settled; `abandoned` once its owner was aborted, `lost` after a daemon death |
| `live` | `Service::live`, by generation |
| `timer[c][g]` | the restart task of run `g`, by the function that spawned it |
| `restarts` | `Service::restarts`: the run whose cancel sender is held. A task whose sender is not held any more is cancelled |
| `cleanup` | `launch_cleanups` (`reaping`) and `launch_cleanup_failures` (`poisoned`) |
| `failures`, `exits` | the maps of that name, for containers |
| `reclaim` | `finish` between dropping the mutex and `remove` |
| `caller` | calls that take the mutex more than once: program counter, target, and the locals of `wait` |
| `sweep` | the locals of `checkpoint_all`, which keeps the mutex throughout |
| `daemon`, `faults`, `crashes` | daemon up or starting; the bounded environment |

Each handler that holds the mutex is one action with every call it makes. A handler
whose every outcome is the same to the state (an error return before any write) is not
an action. `Free` is the availability of the mutex. Steps of `stop`, `signal`, `wait`
and forced `remove` between two acquisitions are separate actions of a caller.

### How the `hl-native` modules correspond to the code

**`SysvIpc`.** `shm`, `sem` and `msg` are the entry arrays of the control block, with the
sequence number that goes into an id; `shmat`, `undo` and `msgCache` are `g_shmat`, `g_undo`
and `g_msgcache` of each process; `shmName` and `msgName` say which host object a slot's
name refers to now, which is what `shm_open` by name depends on. A stretch of code under
the spinlock is one action. `shmCall`, `semCall`, `msgCall` hold a call that has dropped
the lock midway: shmat between lookup and attachment, a waiting semop, msgget before its
store is initialised, a forked child before `sysv_after_fork`. `stores` keeps the linked
lists of messages and free cells as indices, as in the code.

**`SocketOwner`.** `sequence`, `owner`, `nextOwner`, `poisoned` are
`struct namespace_transaction_state`; `flag` and `lock` the process-local flag and the
record lock; `tx` the thread-local variables and the point a thread is at. `slots`,
`nextStamp`, `occupied`, `cursor` are the registry's. `call` is the call a thread is in;
`file` the host object at the path; `committed` a history of what the last even sequence
published. Death is possible at every step and frees the record lock, as the kernel does;
`fork` copies the flag and not the lock.

**`CheckpointCapture`.** `broker` is the engine's broker; each request is one operator on
it. `pc` is where a process is in `ckpt_poll`, `ckpt_dump_self` and the park; `chan` and
`notes` its channel and announcements that are still in flight; `todo`, `claiming`,
`destructive` the descriptor walk. `known`, `done`, `looking`, `asking`, `quiet`,
`stalled`, `churning`, `reaped` are the locals of the coordinator, which makes one look at
one process per step, so that forks, exits and refusals fall between any two. Parents
exist because a reap takes the status only of an own child, and exec sessions have a
parent outside.

**`StopTheWorld`.** `jit`, `quiesce`, `reg` are the owners of the three locks, `gate` and
`request` the two words of the epoch; `used`, `ack`, `translated`, `departing`, `execGen`
the registry entry of a thread; `irq`, `inService`, `sig` the words of its CPU that emitted
code and the park signal read; `parked` the point inside the signal handler. `pc` is the
point of `run_guest` or of the quiescer; `ret` where a safepoint returns to. `sel` is the
translation a thread selected, by arena generation, version of the guest code it stands
for and epoch; `gen`, `retired`, `map` are the arenas and the generations the block map
still leads to.

**`PidNamespace`.** `word` is the commit word, split into its generation and the bank it
selects; `bank`, `journal`, `next`, `semantic`, `poisoned` are the storage of that name in
`struct hl_linux_identity_registry_storage` and its maps; `lock` is the process mutex and
the record lock together, freed by the kernel when its process is over. `st`, `pgrp`,
`sess`, `parent` are the host's process table, which `getpgid`, `setpgid`, `setsid`, `fork`
and `waitpid` read and change. A thread is at a point (`at`) of one request (`req`):
`mirror` and `repair` are recovery, `stage`, `store` and `commit` a transaction, `host` the
host's part of `setpgid` and `setsid`, `look`, `scan` and `recheck` a lookup. `pos` is the
slot or update it is at, `todo` its staged updates, `want`, `seen` and `found` the locals of
a lookup. `self` is `g_self_gpid`.

### Abstractions

In the lifecycle:

* Ids are given; references, names, ambiguity, labels, resource limits, the
  generation-pinned variants of calls (which only add refusals), terminal size, events
  and health do not occur. An id is never used again after removal, as in the code.
* A write to storage either happens or fails and leaves the old record. Reads do not
  fail. (See the hazard on `storage/file/record.rs` for the case this leaves out.)
* Times are choices: a run may have been long enough to clear the restart count or
  not, a sleep or a timeout may end at any moment. The restart count is unbounded in
  the type and bounded by `MaxGeneration` in the runs.
* `recover` is one step. In the code a timer with no delay left can fire while later
  containers are still being armed or removed; that order only differs from the
  modelled one for containers that do not share state. A startup that fails is a
  daemon that is still down: `reconcile` is idempotent and the next attempt reads the
  same records. For the same reason a crash during startup is no separate action.
* The signal that `stop_signal` sends right after it releases the mutex is part of its
  action: it goes to a handle taken under the mutex, and a process that has exited in
  between ignores it.
* `pause` or `unpause` whose record cannot be written undo the host call. Where that ends
  a longer call (`stop` of a paused container, the sweep), it is a step of it
  (`PauseUnwritten`); a request that does nothing else leaves the state as it was and is none.
* A client's signal ends the process, is ignored by it, or (`"stop-signals"` in `Env`)
  stops or continues it. The latter goes behind the record by design: `signal` "delivers
  a signal without fabricating a state transition", and `pause` itself is SIGSTOP. So
  `PausedIsFrozen` is claimed, and run, without such signals, while `stop` runs with
  them: a process its client stopped must still be stoppable. The proofs cover both.
* Execution members of a checkpoint appear only as a write that may fail (`members`)
  and as the cause of a late end (`wedge`).
* `prune` is a sequence of `remove`.

In SysV IPC: the spinlock is exclusive (its takeover from a silent owner is a hazard
without a property), statistics, times and `*_INFO` are left out, permission bits are
reduced to whether other users are let in, a message is its type and size. An shmat that the
host refuses to map, or at an address that is not aligned, is its one failing outcome.
The field `sole` of a queue is a history: whether nobody made a store for its slot, or had left
one under its name, when it was created. `Kills` lets a
process die without its exit hook; attachments it leaves counted are a history variable,
so that the invariants say exactly what a kill may leave behind.

In socket ownership: waiting for a lock is a guard, the table for objects without an identity in
`owner.h` is left out, attempts are bounded by `MaxTries` and `MaxLooks`.

In checkpoint capture: formatting, digests, terminal settings, mutation tickets and the
`HL_CKPT_TEST_*` hooks are left out; accept and serve of a channel are one step; a settle
loop with its passes is a step that may give up (`GiveUp`); what a resumed process does
later is not followed. A process's threads are one: `StopTheWorld` is about them. The
coordinator's scan for new processes (`Scan`) is one step, though `image.c:2015-2043` lists
the pid map and then tests each listed process. A process that forks after the listing and
dies before its test leaves a child that this pass misses and the next one lists; only a
chain of such processes, one for each quiet pass, would stay out of sight, and the model
does not have it.
The walk over descriptors (`Drain`) marks the capture as irreversible for pipes and sockets, as
the code does; it does not for a signalfd (`DrainSignals`), for which the code does not.

In stop-the-world: loads and stores are sequentially consistent, as the code's orders give
for gate, request and in_translated. A signal that was sent is handled before the target's
next step; one thread has one registry slot (a full registry gives a thread slot -1 and is
left out); a window does not nest; `stw_after_fork` is left out; whether a rotation keeps
younger maps (`g_smc_seen`, which only ever becomes set) is the constant `Retain`. Locals
that are dead are reset. `GiveUp` of the barrier is possible and never relied on.

In the identity registry: loads and stores are sequentially consistent, as the code's
acquire and release pairs give for the commit word and the slots it covers; the retry of a
lookup that overlapped a commit is unbounded; a slot's record of two numbers is one store,
as the packed word is in the code. Numbers do not reach `INT32_MAX`. Processes that lost
their parent are reaped by the host, which does not tell the registry, as for a process
whose parent in the container is gone. `getpgid` asks for the caller's own group; the other
lookups (`/proc`, signals) read in the same way. `waitid` retires a child without the
lookup that `wait4` makes first and is left out, as are the hydration by a restore and the
calls that only a restore uses.

## 3. Runs

Deadlock checking is off in all of them: a daemon without clients, processes without calls
and a settled capture legitimately do nothing for ever. In `Lifecycle`, `Ops` and `Env`
select which operations and environment faults are offered, so that each question gets the
largest bounds it can afford.

| Run | Bounds | Shows |
|---|---|---|
| `runs` | 1 container, 1 caller, 2 generations, policies `always`, `unless-stopped` and `on-failure:1`, 1 failing write, 1 crash, all operations but client signals, all faults but wedged captures | processes, records, suspensions and quarantines agree; manual stops are honoured, also across a startup that forgets one; pending restarts are allowed ones; `Lifecycle` implements `ContainerStates` |
| `waits` | 1 container, 2 callers, 2 generations | no lost wakeup |
| `pairs` | 2 containers (symmetric), 1 port, 2 generations, single and sweeping checkpoints, refused and wedged captures, 1 crash | a failed sweep restores what ran; port exclusion |
| `backoff` | 1 container, 3 generations, all policies, launch and wait errors, 1 crash, fair | pending restarts settle |
| `stop` | 2 callers, 1 generation, client STOP/CONT signals, fair | racing stops and forced removals return |
| `sysv` | 2 processes of different users, 2 segment slots, 1 set of 2 semaphores, 1 queue of 2 cells, every slot reused once, kills, fair | IPC objects and accounts, across fork, exit, kill, removal and reuse |
| `owners` | 2 processes, the first with 2 threads, 2 objects in the same hash slot, sequence and stamps to their limit 5, nesting 2, 5 workloads | publication, reading, quota and file under one writer at a time, with deaths and forks anywhere |
| `capture` | init and 2 processes (symmetric) in 6 trees (late fork; two children that share a pipe, a socket or a signalfd; grandchild; exec session with the init's pipe), 1 fault, room for 1 reaped child | a published image is the whole frozen tree; a tree that goes on is whole but for the signals of a signalfd |
| `parking` | init and 1 process that holds a pipe, a signalfd or nothing, 1 fault, the deadline passes, fair | a parked member is released or learns that nobody will |
| `world` | 2 threads, 2 quiescing operations of any kind, 1 retained generation, fair | windows are quiet, running code is live, the barrier is reached |
| `identity` | 4 processes, the first with 2 threads, 3 slots per map, 6 plans (below), 1 kill inside a call | transactions are whole, lookups current, leaders name groups, no member loses the name of its group or session, poison only over what is lost; `PidNamespace` implements `IdentityMaps` |
| `listed` | as `world` | expected violation: see below |

Two generations are enough for "an old task meets a new run", three for "a stale
cancellation meets the timer after next" and for the restart limit. Containers meet
only through ports and the sweep, so the other runs use one; interference between
callers is pairwise, so two suffice. One failing write and one crash place the fault at
every possible step. `NoLostWakeup` is checked without failing writes: with them the
code does lose a wakeup (`Violation_wait_hangs.cfg`, and the partial removal listed as a
hazard).

In `sysv` the hazards are a slot reused under a call that remembers it: one reuse and two
processes give every order. `uses` explores the families one at a time; their tables share
nothing. `QueueIsAccounted` speaks of the queues that were created undisturbed (`sole`), even if they
are removed while their store is being made; for the next queue in such a slot the code does
fail, which `Violation_queues` shows (below). In `owners` colliding objects make probe sequences meet tombstones, and the
limits of sequence, stamp and capacity are reached. In `capture` a third process is needed
to appear, refuse or die while the second is already consumed; the fault may be a death, a
refusal, a failed call or the deadline at any step. In `world` two operations give every
pair of overlapping or consecutive epochs; the registry scan treats peers one by one, so
one peer shows each of its cases. With the window at one generation two rotations already
push a generation out. In `identity` a plan says in which order the host gives out ids,
how many processes the daemon launches and which calls each thread makes, in any order: a
shell that moves its child into a group while the child moves itself; a child that leaves
the session; a child with a job of its own; an execution launched beside them; an id used
again after its process is gone; and one launch more than there are slots. The kill may
fall between any two stores of a join, a publication (by the child or by its parent),
`setpgid`, `setsid` or a reap. `MembersAreNamed`, which the code does not keep
when a parent dies in a fork, has a configuration of its own. Two
cases are left out because the code does fail in them, and have a configuration each
(below): launches into a group from outside,
and a host that gives an id out again before the wait that released it is over.

Each property of each passing run has a mutant, in the module of the definition it
changes, that breaks it. `SysvIpc`, `SocketOwner` and `CheckpointCapture` state a type
invariant that no run lists. `EpochIsOwned` is part of the proved invariant of stop-the-world.

### Disagreements between the code and what it says

`listed` shows one: a thread sees the gate of an epoch that is about to end, a checkpoint
advances the request, the thread answers the *new* request and then finds the gate down,
because the checkpoint has not raised its own yet. It goes on, into a system call; the
checkpoint takes its answer for a stop and captures the process, where `image.c:1747` says
"Every listed executor is stopped".

Further configurations, kept beside the runs, each make TLC print the shortest behaviour
of another disagreement. Where one configuration has two properties (`Checkpoint_lost`,
`SysvIpc_limits`), TLC reports the one it meets first; take that line out for the other:

| Configuration, property | Shows |
|---|---|
| `Violation_wait_hangs` `WaitLearnsFailure` | a parked wait is not told that the exit could not be persisted |
| `Violation_daemon_loss` `LossIsSettled` | stop a container with an `always` or `unless-stopped` policy, let the daemon die before it exits; startup makes it restarting, the timer refuses it because it was stopped by hand, and nothing ever settles it |
| `Violation_stale_cancel` `RestartSettles` | stop a pending restart, start the container, let it exit: the old task, waking late, drops the new task's sender |
| `Violation_auto_removal` `FailureIsPersistence` | a start between an exit and its automatic removal turns into a persistence failure of a healthy container |
| `Violation_sweep_pending` `SweepRestoresPending` | a failed `checkpoint_all` leaves pending restarts cancelled |
| `Violation_overlap` `NoOverlap` | a capture whose output owner is aborted leaves the container startable while the old process may still run |
| `SysvIpc_limits` `AttachesWhatItNamed` | shmat looks up an id, drops the lock and maps by slot name; the segment removed and the slot reused in between, it maps another segment (`sysv_state.h:19-20`) |
| `SysvIpc_limits` `ValuesInRange` | a list that lowers one semaphore twice is tested against the value before the list and wraps it (`sysv_state.h:25`) |
| `Violation_queues` `QueueIsOneObject` | msgget drops the lock and then unlinks a stale store by slot name (`sysv.c:853`); the queue removed and the slot reused in between, it unlinks the name of the new queue, whose users end with two stores and one count, where `sysv_state.h:24` says "Each message QUEUE is its own named object" |
| `SocketOwner_overlap` `OverlapIsRetried` | the retry at `owner.h:171` tests errno, which an overlapping lookup does not set; the caller aborts where `namespace_transaction.c:5-7` promises another read |
| `Violation_signals` `RefusalRestores` | the capture of a signalfd reads the queued signals out of the task and marks nothing (`descriptor_capture.c:178-225`), so that a refusal that follows is settled as one that consumed nothing; line 193 says "A capture that is refused is required to leave the container exactly as it found it" |
| `Checkpoint_lost` `FinalReapLosesNothing` | the reap after the manifest takes the status of a child that exited late and writes it nowhere (`coordinator.c:131-135`) |
| `Checkpoint_endless` `CaptureEnds` | a guest that never reaches a safepoint lets the capture wait past its deadline (`image.c:2306`) |
| `Checkpoint_lost` `ResumedIsWhole` | a process goes on although a pipe it holds was emptied into an image that is not published (`capture.c:621-623`) |
| `StopTheWorld_listed` with `InventoryIsWhole` as its invariant | clone has returned to the parent, the child is not registered yet, and the capture has no such thread (`image.c:1747`) |
| `PidNamespace_orphan` `MembersAreNamed` | a parent is killed before its forked child is published; the child is in the parent's group, is not seen when the parent is reaped, and loses the name of its group, where `state.c:319-320` says that reaping a leader does not retire the group |
| `PidNamespace_outside` `Atomic` | a launch into a group from outside takes its number from the counter of groups; a process that later gets the same number and founds a group replaces the entry (`pidmap.c:558`, `state.c:396`) |
| `PidNamespace_again` `LeadersNameGroups` | the host gives the id of a child out again between its wait and the registry's reap, or the lookup between them is refused; the new process has the old number, where `wait.c:239-240` says "so a future host pid can never alias it"; the same happens to a published child that its parent gives up after a failed snapshot or task (`clone.c:151-181`), whose entry stays |

Some doubts were read off the code and have no configuration. `StopReturns`
is checked while no second run begins: otherwise stop() may time out, the run may exit
and a client may start the next one; the kill is then refused and the unbounded wait
that follows waits for a run nobody stopped (`control.rs:304`). A wait for removal
that saw an exit on its way returns that status, where `containers/lifecycle.rs:65`
promises `None`. The park signal's handler can answer a checkpoint between `service()`
clearing its mark and the aarch64 dispatcher advancing the program counter past the
system call, so that the captured counter repeats it. In the logical mapping ledger,
`map_direct` reserves one slot more than it has entries where a split with an append
needs two; a pin held across a coalescing `map_shared` misses executable aliases; and a
`MAP_FIXED` private mapping over a logical interval leaves its ledger entry behind. In the
identity registry, a process killed inside `setsid` and reaped by the host before the next
request makes recovery poison the registry, and with it every later call of the whole
container; processes reaped by the host keep their slots until the table is full; and a
lookup during another process's `setpgid` answers EAGAIN, which callers turn into ESRCH.

### Fairness

`Fairness` gives weak fairness to the tasks the code spawns (completion, timers, late
reaps, automatic removal), to each step of a call in progress, to the sweep and to
startup, because tokio polls every ready task and its mutex is first-come
first-served; and to the death of a killed process and the passing of timeouts. Clients
need not call, guests need not exit, nothing need fail or crash.

`SysvIpc` is fair to the retry of a waiting semop, which polls with a sleep, and to the
rest of an shmat, shmdt or fork that has dropped the lock, which is straight-line code. `CheckpointCapture` is fair to the
coordinator, its giving up, the broker and each member once it takes part: they are host
code that waits with bounded polls. It is not fair to guest code, which need not reach a
safepoint. The deadline is a clock. `StopTheWorld` is fair to every thread's own steps,
because the host schedules every thread and its mutexes do not exclude one for ever; and
to the return from translated code or from a host call only while the thread's `irq` is
up, which emitted code polls and the kick that raised it breaks a host wait. It is not
fair to `GiveUp`: the barrier has to converge by answers.

## 4. Proofs

### The lifecycle

Assumption: `LifecycleAssumption` (the bounds are naturals, `Policies` are restart
policies, `AutoRemoval` are Booleans). `Containers`, `Callers`, `Ports`, `Ops` and
`Env` are arbitrary sets.

* **`TypeCorrect`**: `Spec => []TypeOK`. A lemma for each variable-shaped helper
  (launch, completion, removal, pause, calls), then one per action.
* **`Invariance`**: `Spec => []Inv` where `Inv` is `TypeOK`, `GuestAccounted`,
  `QuarantineHolds`, `PortsExclusive` and `DownIsDead` (while the daemon is down no
  process is owned and nothing is quarantined). `GuestAccounted` alone is not
  inductive: startup rewrites records of running containers without touching
  processes, which is only right because `DownIsDead` says there are none; and
  `PortsExclusive` needs the types of records. The step proof goes through
  **`StepShape`**: every step either `Launches` exactly one idle, unquarantined,
  conflict-free container, or starts nothing, and then everything that was accounted
  for stays so or `Fades`. The invariant is then preserved by two short arguments
  instead of one per action.
* **`ProcessesAccounted`**, **`QuarantinesHold`**, **`PortsAreExclusive`**: the
  invariants of the same runs, for every instance.
* **`ManualStopsHonoured`**: an action property. From the stop on, every step either keeps
  the mark, or launches the container and forgets restart count and mark (a start
  or the rollback of a sweep: a timer refuses a marked run); or it is the one other way in which the code loses it, a daemon
  that starts up and makes an exited `always` container wait for a restart
  (`restart.rs:44-56`). `MarksKept` shows that no other action clears the mark.

`LifecycleRuns` goes on from `Inv`. Its base is the lemma `StepTends`: a step of a daemon
that is up touches at most one container, moves its status along one of the edges of
`ContainerStates`, adds one to its generation exactly when a run begins, and keeps `Sound`,
the three facts about that one container that the properties quantify. A crash and the two
steps of startup are treated apart.

* **`RunInvariance`**: `Spec => []RunInv`, that is `Inv`, `SweepKeeps` and `Sound` of every
  container (`Hosted` and `Faithful` only while the daemon is up: after a crash a record does claim
  a process nobody owns, until `reconcile`). `SweepKeeps` is needed because the rollback of
  a sweep launches containers by a list made earlier: it says that what was captured is
  still `exited` when its turn comes. `Hosted` says more than `RunHasOwner`: a run whose
  process is gone has a failure *that a failed write explains*.
* **`RunsHaveOwners`**, **`PendingRestartsAllowed`**, **`PausedAreFrozen`**: the invariants
  of the runs. The last has the hypothesis `"stop-signals" \notin Env`, the same under
  which it is checked: a client's own STOP reaches the process behind the record.
* **`PromiseKept`**: `Spec => KeepsPromise`. Every step of the service is a step of
  `ContainerStates` or stutters, crashes and startup included; the edges come from
  `StepTends`, the generations from `Begins`.
* **`WakeupsNotLost`**: `Spec => [](faults = 0 => NoLostWakeup)`. A failed write may
  leave a container ended and unannounced, and the runs that check the property have no
  failing writes; the theorem covers every history up to the first one. `WakeInv` adds that nobody is parked on
  a daemon that is down; the step lemma (`Attends`) says that a step leaves what a parked
  wait would be told as it was, or notifies the container, whatever else it does.
* **`SweepsRestoreRuns`**: `"launch-error" \notin Env => (Spec => [](faults = 0 =>
  SweepRestoresRuns))`; a launch that the host refuses cannot be undone by anyone. The
  property speaks of the end of a rollback only. `Restoring` says where every container is
  before that: running, spent, resumed and to be paused again, or due to be launched
  (`Course`); that nothing else is active (`Calm`); that the lists of the sweep are of
  containers that ran (`Booked`); and that the ports of those do not conflict (`Apart`), so
  that no launch of the rollback is refused. `Unquarantined` excludes the other refusal.

### Socket ownership

Assumptions: `NamespaceAssumption` (the first process is one of them, the sequence ends at
an odd number as the code's does), `RegistryAssumption` (at least two slots, a hash into
them, no user 0) and `SocketAssumption` (bounds are naturals). Processes, threads, keys, the
hash, the number of slots, the plans and who dies when are arbitrary.

`Inv` is proved in one induction, each part of a step from the parts before it:

* `NsInv`: types; `FlagInv` and `LockInv` (who holds the process-local flag and the record
  lock at each step of a transaction, across forks and deaths); `SeqInv`, what a thread
  that holds the writer lock knows of sequence and owner. `WriterIsAlone` says only what is
  so *inside* a transaction; it is kept because at the claim and at the opening store the
  sequence was read under both locks and nobody else can store to it.
* `CallInv`: which step of a call goes with which step of the transaction.
* `TableInv`: a search for the key of a live slot does not stop before it, and no two
  slots are live for one key. The first needs that no store makes an occupied slot empty,
  which is why the code has tombstones.
* `WriterInv`: at an even sequence nothing is claimed and the quota is exact; and for each
  step of a writer by how much they differ (a claim reserved, half published, half undone).
* `FileInv`: the same for the object at the path and its record.
* `ReaderInv`: at an even sequence what was committed is what the table holds; and what a
  lock-free reader has found so far is right *if* the sequence it began with is still
  current. Nothing is claimed of a reader that was overtaken: its recheck fails.

* **`WriterAlone`**, **`FlagHeld`**, **`AbandonedIsClosed`** (an action property),
  **`RecordsFound`**, **`QuotaExact`**, **`SocketsOwned`**, **`StatCommitted`** (an action
  property), **`SocketTypes`**: every safety property of `owners`, for every instance.

### Checkpoint capture

Assumption: `CaptureAssumption` (`Procs` is finite and holds `Root`, `Outside` is not a
process, `MaxFaults` is a natural). The objects, the process trees a capture starts from
and the numbers of passes are arbitrary; the deadline may or may not pass.

`IInv`, which TLC confirmed on the instance of `capture` before it was proved, is `Types`
and three parts, one for each promise:

* `Membership`: whoever is in its dump has registered; a seal is the number of registered
  processes and closes the register. So equal counts are equal sets (this is where
  `Procs` must be finite), and stay equal.
* `Freeze`: as long as the broker is up and the capture can still be published, a process
  in the image is parked, connected and has refused nothing. It stays so, because a parked
  process leaves only when it is told to or when it cannot reach the broker. `done = known`
  after a quiet pass, and a second pass that adopts nobody then shows that every live
  process is frozen, and nobody frozen forks. One quiet pass would not do: between it and
  the scan a process that was not looked at yet may fork.
* `Settlement`: while nothing was marked irreversible, no pipe or socket was drained, and a
  process that may already have lost something (it lost the race for a queue) is still
  between its claim and its drain and holds its channel; a channel that was told to resume belongs to a process that was let
  go. `CanSettle` asks that every other channel was told to resume, so it finds no such
  process.

Each step has at most one actor. What a step may do to a process is said once (`Enrols`,
`Stays`, `Settles`), and so is what may become of the broker (`Onward`, `Ledger`);
`BystanderIsFine` shows that every other process is untouched in this sense, and
`GoesKept` that the invariant follows from these and from where the coordinator goes. Each
action then has a lemma of its own.

* **`CaptureInvariance`**, and from it **`ManifestExact`**, **`TreeFrozen`** and
  **`SettledWhole`**: `ManifestIsExact`, `PublishedTreeIsFrozen` and `SettledTreeIsWhole`
  for every tree, every number of forks, deaths, refusals and lost channels. The last
  excepts the signals of a signalfd, for which `Violation_signals` shows the loss.

### System V IPC

Assumptions: `SysvAssumption` (of which `Procs` is finite and users are naturals),
`ShmAssumption`, `SemAssumption` (of which values fit the word that holds them) and
`MsgAssumption`. Slots, keys, permissions, attachments, operation lists, the cells of a
store, selectors and workloads are arbitrary.

A call drops the lock between its parts and comes back with a slot and a sequence number.
The invariants, which TLC confirmed on the instance of `sysv` before they were proved,
start from what may become of a slot meanwhile (`Evolves`, `SemEvolves`): it keeps its
entry, the entry is freed and its number passed, or a new entry takes the number the slot
has now. A number that was handed out is therefore the number of the entry in the slot or
of an earlier one, strictly earlier while the slot is free (`Older`, `Waiters`), and never
that of an entry created later.

* `ShmInv`. `Entries`, `Calls` and `Attachments` carry `Older` along with the calls and
  mappings that remember a number; the name of a used slot, if it has one, is that of its
  segment, so what `ShmatMap` opens is the segment in the slot. `Counts` is the balance:
  the count of a slot and the attachments that are mapped but not yet counted
  (`Counting`) are at most the tracked attachments of every process but a child that has
  yet to count its own (`Tracked`), the detaches under way (`Leaving`) and what killed
  processes left. `RemovedIsReclaimed` alone is not inductive: it does not see the
  attachment that shmat is about to count, nor the copies of a child. Where a count
  saturates the balance would be lost but for `Calls`: whoever is about to count has a
  tracked attachment of its own, so there are no more of the ones than of the others
  (`OneEach`).
* `SemInv`. The marks of a set cover the operations of every caller that waits for it
  (`Covered`). A caller that leaves takes off exactly what it put on; every other caller
  that is still a waiter of the set afterwards was one before (`StaysHere`). The values
  play no part in it, and lists may name a semaphore twice.
* `UndoInv`. A process has at most one record per semaphore of a set, none for a set that is
  still to come, and none when it is not alive (`Undos`); a value is between 0 and `SemMax`
  (`Values`); and while `exact` holds of a set, the value is the sum over the processes of
  what their records will take back (`Level`). `UndoBalances` alone does not exclude a
  record left from before that would count for the next set in the slot. The steps need
  how a sum changes when one of its terms does (`SumStep`, `SumRemoves`).
* `MsgInv`. `MsgShape` has the types. `StoreLists` says of each initialised store that two
  disjoint chains (`Lists`), the messages from the head and the free cells from `free`,
  cover its cells, and that `tail` is the last message. `Walk`, by which the properties
  read a store, finds exactly such a chain; a send moves the first free cell behind the
  last message, and a receive takes one out at any place. It holds for any reuse of slots.
* `AccInv`. `QueueIsAccounted` is about the store a process would use now; where another
  one could come from is a cache, the name of the slot, or an msgget under way, and `Reach`
  is all of these. Caches and calls only have numbers that were given out (`Reached`). A
  queue that was created undisturbed (`Sole`) has one store, and no other queue has it
  (`OneStore`); while its store is being made it has one maker and, until there is a store,
  no message (`Makers`); and the counters match the messages (`Accounts`). A removal at any
  time is covered: it passes the number of the queue, and the maker that is left behind may
  disturb the next queue in the slot, which is then not `Sole`. That
  a count changes by the size of one message is a sum over the positions of a list, which
  `SumOverCells` turns into one over the cells.
* **`ShmInvariance`**, and from it **`SegmentsReclaimed`** and **`LiveIds`**; and
  **`WaitersCounted`**: `RemovedIsReclaimed`, `LiveIdMapsItsSegment` and
  `WaitersAreCounted` for every mix of guest processes.
* **`UndoIsExact`**: `UndoBalances` (about sets of which `exact` holds: every operation
  asked for undo, and nothing was clamped, dropped or killed), and that no value wraps (`ValuesInRange`), if no
  operation list changes a semaphore twice (`ChangesOnce`; the lists of `sysv` do not).
  `SysvIpc_limits` shows values wrap without it.
* **`StoresKeepCells`** and **`StoresDeliverInOrder`**: `StoresAreWellFormed` and
  `StoresAreFifo`, with no hypothesis.
* **`QueuesAreAccounted`**: `QueueIsAccounted`, with no hypothesis; the property itself is
  about the queues that were created undisturbed.

The induction theorems of the library take an operator as a parameter and cannot be
instantiated here. Sums and chains are followed by a least counterexample instead: a set
of numbers that is not empty has a least one (`Least`), and the fact holds for it because
it holds below it.

### Stop-the-world

Assumption: `StopAssumption`. The threads, the number of operations and the number of
retained generations are arbitrary within it.

`IInv`, which TLC confirmed on the instance of `world` before it was proved, is the
conjunction of five parts, each proved by a lemma for `Init` and a lemma for a step that
uses the parts before it:

* `TypeOK`;
* `LockInv`: `EpochIsOwned`, and for each point of a quiescer which locks it holds and
  which operation it is in;
* `SlotInv`: a thread that may be in translated code is registered and says so in its
  slot, so that no scan overlooks it;
* `FenceInv`: where a thread can be once a request was advanced. A block that was
  selected before it is refused by the recheck before entry; a later selection waits for
  the gate. So nobody new enters while the gate is up, and what a completed round of the
  scan has passed is outside and stays there;
* `LiveInv`: what a thread runs or is about to run is live and as new as its epoch.

`WindowIsQuiet` is not inductive, because a state in which the scan has passed a thread
that is about to enter satisfies it and leads to one that does not; `FenceInv` excludes
that state. `RunningCodeIsLive` follows from quiet windows: arenas and versions change
only at points where no thread could notice.

* **`EpochsAreOwned`**, **`WindowsAreQuiet`**, **`RunningCodeStaysLive`**: the three
  invariants of `world`, for every number of threads and operations; **`Invariance`** is
  what they follow from.

### The identity registry

Assumptions: `IdentityAssumption` and `NamespaceAssumption`. Processes, threads, the
capacity, the plans and the number of kills are arbitrary within them.

`ReadIsCurrent` is not inductive: it says nothing of a scan that is half way. **`ReadInv`**
adds it: a reader never saw a word newer than the current one; while the word it saw is
current, the slots it has passed do not hold what it seeks; and what it found is in the
bank in force. A step is one of two kinds. Either it is `Quiet`: the word stays and the
bank in force is not written, because journal, store and mirror touch only the other one.
Or it is `Commit`, which raises the generation, so that every reader in progress is behind
and will be refused. Deaths and recoveries are quiet.

* **`ReadInvariance`**, and from it **`ReadsAreCurrent`**: the invariant of `identity` for
  every number of processes, whatever they die in.

The other properties of `identity` need to know what a writer leaves behind when it dies.

* **`RecoveryInvariance`**: `Spec => [](CallInv /\ RecoveryInv)`. `CallInv` has the types,
  which threads can run, and which request a thread can have at each of its points.
  `RecoveryInv` is `LockInv` (one thread is between lock and unlock), `Mirrorable` (the
  bank that is not in force differs from the other only in slots that the journal has and
  that a mirror pass in progress has not reached), `BankInv` (no number twice in a map;
  what is staged is the maps in force changed by the updates stored so far) and, for each
  thread, `Paced` (its position in the transaction) and `Earned` (no call succeeds before
  its commit). The two halves need each other: that a launch ends with a number follows
  from `Earned`. The core is `CommitRecovers`: when the word flips, the maps are the old
  ones changed by exactly the listed updates. That needs what the searches of the maps
  return, and what the loop of a reap collects (`RemovalsAre`), which are proved by
  induction over positions.
* **`NamesInvariance`**: `Spec /\ [][FreshIds]_vars => []NameInv`. `LeadersNameGroups` speaks of
  published entries; where a wrong one could come from is anything that a thread carries:
  the updates it is about to store, the request it made before it had the lock, the pair
  a lookup found, the announced call, and the number a process knows itself by. `Known` is
  all of these, and the invariant is that pairs of a number and a process are one to one in
  it (`Agree`), that numbers but the first are below the counter (`Numbered`), and that a
  process that joins is unknown to everyone (`Unknown`). Nearly every step only copies
  pairs. New ones come from a launch and a fork, with the number at the counter and the id
  the host has given out; the first launch is apart, because it takes number 1 without the
  counter.
* **`LeadersAreNamed`** follows: the property of the run.
* **`LossInvariance`** and **`PoisonIsLoss`**. `PoisonedByLoss` is not inductive: a repair
  fails in the middle of a transaction, when a map may be full because of what the repair
  itself staged. `LossInv` says that the host knows the announced process as it was or as
  it was meant to be, and keeps, for a repair on its way, which of its updates have no
  slot in the maps in force.
* **`TransactionsAreWhole`** and **`TransactionsAreAtomic`**: the registry implements
  `IdentityMaps`. Every step but `Commit` leaves the published maps alone (`MapsStay`); a
  commit is a launch, a publication, an entered group, a new session or the end of a
  process, by the list of its transaction, and no number gets a second meaning, by `Agree`
  (`AtomicCommit`). The first theorem has numbers without a bound. The second is about the
  property of the run, whose abstract maps have numbers up to `MaxGuest`: it is about
  behaviours that stay within it (`NumbersFit`).

The hypotheses are those without which the code does fail. `FreshIds` says that the host
makes no process with an id that a published or announced pair, a thread or a process of
the container still has; `PidNamespace_again` shows `LeadersNameGroups` fail without it.
`Outside = {}` in the refinement says that no launch goes into a group from outside;
`PidNamespace_outside` shows `Atomic` fail without it. (`LeadersAreNamed` and
`PoisonIsLoss` do not need it.) Five of the six plans of `identity` satisfy `FreshIds` at
every step and all satisfy `NumbersFit`; in the one where an id is used again after its
process died in a launch, only the run speaks.

The invariants were checked by TLC over the plans of `identity` before they were proved.
One fact about the model came of it: what a process knows itself by was kept after its end,
where the memory of a process is gone; `Ends` now resets it.

### Only model-checked

Of the identity registry `NamesAreKept`. It needs that a step which removes a group sees
every known member of it, which the maps alone do not say: a member may change its group
on the host before the registry learns of it, and who is seen in between depends on which
call is under way. That relation between host and maps is not in the invariants above.
`MembersAreNamed`, the stronger claim of the code that a known member always has a name, is
false (`PidNamespace_orphan`): a child may become known after its group lost its name,
when its parent was killed before it had published it, or when the child changed its group
between fork and publication.

Beyond the prover are the liveness properties `RestartSettles`, `StopReturns`,
`RemovalReleasesWaiters`, `ParkEnds` and `BarrierConverges`. Some theorems have a hypothesis
(`ChangesOnce`, `FreshIds`, `Outside = {}`, `NumbersFit`): outside it nothing
is proved, and for all but `NumbersFit`, which is a bound, a configuration shows the failure.

## 5. Not modelled

Of `hl-native`: instruction semantics of two guest architectures (translator and
interpreter, the largest part of its lines) are functions of machine words, out of a model
checker's reach; the virtual file system, descriptor tables, signals and the other system
calls translate Linux calls to host calls, mostly one after the other, and what they do is
dominated by host behaviour; supervision and `backend_tree.c` are launch options, ports
and counters. Restore and the logical mapping ledger do have protocol state and are
planned. The map therefore covers a small share of that package: the protocols, not the
translation.

Outside it: the HTTP daemon and client (stateless translation), the GUI, the extensions and
the support packages. `PROJECT.json` has the reason of each.

## 6. Plan

Done: the lifecycle, System V IPC, socket ownership, checkpoint capture, stop-the-world and
the identity registry, with their proofs. Next, in order:

1. `LogicalMappings`: the interval ledger of `logical_vma.c` with snapshots and pins,
   against a byte map as its abstract specification.
2. `Restore`: the inverse of capture, composed with `CheckpointCapture`'s image: a
   restored tree is the published one, and a restore that fails leaves nothing running;
   with it the hydration of the identity maps.
3. `Sessions`: executions (`exec.rs`, the second half of `rollback.rs`), composed with
   `Lifecycle` through checkpoint members, `stop_executions` and startup.
4. `Console`, `Journal`, `CheckpointDirectory`, `Networks`, `Volumes`, `Health`:
   the remaining parts of `hl-container`; `Journal` is to implement the atomic storage
   that `Lifecycle` assumes, and to show where it does not.
5. `ImageLeases` (hl-images) and `Outbox` (hl-rpc).

Proofs to follow: `NamesAreKept`, from an invariant that relates the host's groups to the
published ones while a call is under way.
