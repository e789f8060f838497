--------------------------- MODULE OwnerRegistry ---------------------------
(***************************************************************************)
(* The shared table of linux_abi/container/ownership/registry.c, which     *)
(* records the guest owner of a socket under the identity of its host      *)
(* object: open addressing, slots that go from empty to claimed, live or   *)
(* tombstone and never back to empty.  Only the writer of the namespace    *)
(* transaction stores into it; a store another process can see is a step.  *)
(***************************************************************************)
EXTENDS Integers, FiniteSets

CONSTANTS
  Capacity,      \* slots of the table, a power of two
  ObjectKeys,    \* identities (device, object, birth time) of host objects
  Hash,          \* first slot of each identity's probe sequence
  Users,         \* owners recorded for an object; 0 stands for none
  MaxRefs,       \* UINT32_MAX
  MaxStamp       \* HL_OWNER_STATE_SEQUENCE_MAX

Slots == 0 .. Capacity - 1

ASSUME RegistryAssumption ==
  /\ Capacity \in Nat /\ Capacity >= 2
  /\ Hash \in [ObjectKeys -> Slots]
  /\ MaxRefs \in Nat \ {0} /\ MaxStamp \in Nat
  /\ 0 \notin Users

VARIABLES
  slots,      \* registry->slots: kind and stamp (state), and the payload
  nextStamp,  \* registry->next_sequence
  occupied,   \* registry->occupied
  cursor      \* registry->reserve_cursor, kept modulo the capacity

regVars == <<slots, nextStamp, occupied, cursor>>

NoKey == "no key"
Reusable == {"empty", "tombstone"}
EmptySlot == [kind |-> "empty", stamp |-> 0, key |-> NoKey, user |-> 0,
              links |-> 0, fds |-> 0]

RegTypeOK ==
  /\ slots \in [Slots -> [kind : {"empty", "claiming", "live", "tombstone"},
                          stamp : 0 .. MaxStamp, key : ObjectKeys \cup {NoKey},
                          user : Users \cup {0}, links : 0 .. MaxRefs,
                          fds : 0 .. MaxRefs]]
  /\ nextStamp \in 1 .. MaxStamp + 1
  /\ occupied \in 0 .. Capacity
  /\ cursor \in Slots

(* hl_owner_registry_initialize.                                           *)
RegInit ==
  /\ slots = [i \in Slots |-> EmptySlot]
  /\ nextStamp = 1 /\ occupied = 0 /\ cursor = 0

(* hl_owner_find: the probe sequence ends at an empty slot, passes         *)
(* tombstones and claims, and remembers the first slot to reuse.           *)
Probe(key, n) == (Hash[key] + n) % Capacity
Probes == 0 .. Capacity - 1
Holds(i, key) == slots[i].kind = "live" /\ slots[i].key = key
Found(key, i) ==
  \E n \in Probes :
    /\ i = Probe(key, n) /\ Holds(i, key)
    /\ \A m \in 0 .. n - 1 : /\ slots[Probe(key, m)].kind # "empty"
                             /\ ~Holds(Probe(key, m), key)
Absent(key) == \A i \in Slots : ~Found(key, i)
Reuses(key, i) ==
  \E n \in Probes :
    /\ i = Probe(key, n) /\ slots[i].kind \in Reusable
    /\ \A m \in 0 .. n - 1 : slots[Probe(key, m)].kind \notin Reusable

(* hl_owner_new_sequences.                                                 *)
HasStamps(count) == nextStamp <= MaxStamp - count + 1

(* hl_owner_registry_reserve: quota, and the first reusable slot from the  *)
(* cursor on.  The ticket is the slot and the stamp of the claim.          *)
CanReserve == occupied < Capacity \div 2 /\ HasStamps(2)
Reserve(i) ==
  /\ CanReserve
  /\ \E n \in Probes :
       /\ i = (cursor + n) % Capacity /\ slots[i].kind \in Reusable
       /\ \A m \in 0 .. n - 1 : slots[(cursor + m) % Capacity].kind \notin Reusable
  /\ cursor' = (i + 1) % Capacity
  /\ slots' = [slots EXCEPT ![i] = [EmptySlot EXCEPT !.kind = "claiming",
                                                     !.stamp = nextStamp]]
  /\ nextStamp' = nextStamp + 2
  /\ occupied' = occupied + 1

(* hl_owner_ticket_slot.                                                   *)
Ticketed(i, stamp) == slots[i].kind = "claiming" /\ slots[i].stamp = stamp

(* Mutant: a cancelled claim still counts against the quota.               *)
DropUncounted(i) == /\ slots' = [slots EXCEPT ![i].kind = "tombstone"]
                    /\ UNCHANGED <<nextStamp, occupied, cursor>>

(* A claim given up: hl_owner_registry_cancel, and commit's refusals.      *)
Drop(i) ==
  /\ slots' = [slots EXCEPT ![i].kind = "tombstone"]
  /\ occupied' = occupied - 1
  /\ UNCHANGED <<nextStamp, cursor>>

(* Mutant: commit does not look for the key past the first reusable slot.  *)
CommitPayloadBlind(key, user, i) ==
  /\ Reuses(key, i)
  /\ slots' = [slots EXCEPT ![i].key = key, ![i].user = user, ![i].links = 1, ![i].fds = 0]
  /\ UNCHANGED <<nextStamp, occupied, cursor>>

(* hl_owner_registry_commit of a key that is not there: payload, state,    *)
(* then the reservation becomes a tombstone.                               *)
CommitPayload(key, user, i) ==
  /\ Absent(key) /\ Reuses(key, i)
  /\ slots' = [slots EXCEPT ![i].key = key, ![i].user = user, ![i].links = 1, ![i].fds = 0]
  /\ UNCHANGED <<nextStamp, occupied, cursor>>
CommitLive(i, ticketStamp) ==
  /\ slots' = [slots EXCEPT ![i].kind = "live", ![i].stamp = ticketStamp + 1]
  /\ UNCHANGED <<nextStamp, occupied, cursor>>
CommitRelease(ticket) ==
  /\ slots' = [slots EXCEPT ![ticket].kind = "tombstone"]
  /\ UNCHANGED <<nextStamp, occupied, cursor>>

(* hl_owner_begin_mutation, then the store and the new state, of           *)
(* hl_owner_registry_update.                                               *)
Mutate(i) ==
  /\ HasStamps(1)
  /\ slots' = [slots EXCEPT ![i].kind = "claiming", ![i].stamp = nextStamp]
  /\ nextStamp' = nextStamp + 1
  /\ UNCHANGED <<occupied, cursor>>
UpdateStore(i, user) ==
  /\ slots' = [slots EXCEPT ![i].user = user]
  /\ UNCHANGED <<nextStamp, occupied, cursor>>
UpdateLive(i) ==
  /\ slots' = [slots EXCEPT ![i].kind = "live"]
  /\ UNCHANGED <<nextStamp, occupied, cursor>>

(* hl_owner_reference: hl_owner_registry_link and _descriptor.  The last   *)
(* reference makes the slot a tombstone.                                   *)
Reference(i, delta, links) ==
  LET current == IF links THEN slots[i].links ELSE slots[i].fds
      newLinks == IF links THEN slots[i].links + delta ELSE slots[i].links
      newFds == IF links THEN slots[i].fds ELSE slots[i].fds + delta
      last == newLinks = 0 /\ newFds = 0
  IN /\ current + delta \in 0 .. MaxRefs /\ HasStamps(1)
     /\ slots' = [slots EXCEPT ![i].links = newLinks, ![i].fds = newFds,
                               ![i].stamp = nextStamp,
                               ![i].kind = IF last THEN "tombstone" ELSE "live"]
     /\ occupied' = IF last THEN occupied - 1 ELSE occupied
     /\ nextStamp' = nextStamp + 1
     /\ UNCHANGED cursor

(***************************************************************************)
(* Properties.                                                             *)
(***************************************************************************)

(* An object has at most one live record, and a search for it finds that   *)
(* one: reservations, tombstones and reuse of slots never hide a record    *)
(* behind an empty slot nor let commit() add a second one.                 *)
RecordsAreFound ==
  \A i, j \in Slots :
    slots[i].kind = "live" /\ Holds(j, slots[i].key) => i = j /\ Found(slots[i].key, i)
=============================================================================
