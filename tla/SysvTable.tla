----------------------------- MODULE SysvTable -----------------------------
(***************************************************************************)
(* What the three SysV IPC families of hl-native share                     *)
(* (linux_abi/syscall/sysv_state.h): the guest processes that map one      *)
(* control block, and tables of entries that are found by key, addressed   *)
(* by an id made of slot and sequence number, and guarded by a stored      *)
(* identity.                                                               *)
(*                                                                         *)
(* One spinlock covers the control block, and no call holds it across a    *)
(* wait.  A stretch of code that holds it is one action here; what a call  *)
(* does outside it is an action of its own.                                *)
(***************************************************************************)
EXTENDS Integers, FiniteSets

CONSTANTS
  Procs,     \* guest processes that ever exist
  Root,      \* the process that created the control block
  Uid,       \* effective user of each process, 0 for the superuser
  Keys,      \* keys guests use, IPC_PRIVATE among them or not
  Owners,    \* users IPC_SET gives an entry to
  Modes,     \* permissions guests give: whether other users are let in
  MaxSeq     \* bound on the reuse of one slot

Private == "IPC_PRIVATE"

ASSUME SysvAssumption ==
  /\ IsFiniteSet(Procs) /\ Root \in Procs
  /\ Uid \in [Procs -> Nat]
  /\ Owners \subseteq Nat /\ Modes \subseteq BOOLEAN
  /\ MaxSeq \in Nat

VARIABLE proc   \* "absent" until forked, "live", then "gone"

ProcTypeOK == proc \in [Procs -> {"absent", "live", "gone"}]

(* A shm entry that was removed has lost its key, so in-use entries that   *)
(* carry a key are exactly the ones a *get call can find.                  *)
Named(table, key) == {i \in DOMAIN table : table[i].inuse /\ table[i].key = key}

(* The first slot that is not in use; the sequence number of the slot goes *)
(* into the id, and its bound ends the reuse of the slot.                  *)
FirstFree(table, i) ==
  /\ ~table[i].inuse /\ table[i].seq <= MaxSeq
  /\ \A j \in DOMAIN table : j < i => table[j].inuse

(* A *get call may create: IPC_PRIVATE always does, a key only if no entry *)
(* has it.                                                                 *)
MayCreate(table, key) == key = Private \/ Named(table, key) = {}

(* hl_perm_init on a cleared entry, and what IPC_SET replaces: the creator *)
(* stays.                                                                  *)
Created(entry, p, key, shared) ==
  [entry EXCEPT !.inuse = TRUE, !.key = key, !.uid = Uid[p], !.cuid = Uid[p],
                !.shared = shared]
WithPerm(entry, uid, shared) == [entry EXCEPT !.uid = uid, !.shared = shared]

(* hl_ipc_owner and hl_ipc_access, with the permission bits reduced to     *)
(* whether users other than the owner are let in.                          *)
IsOwner(p, entry) == Uid[p] = 0 \/ Uid[p] \in {entry.uid, entry.cuid}
HasAccess(p, entry) == IsOwner(p, entry) \/ entry.shared
=============================================================================
