---------------------------- MODULE IdentityMaps ----------------------------
(***************************************************************************)
(* What the identity registry of a container promises: three maps, from    *)
(* guest numbers to host ids of processes, groups and sessions, of which a *)
(* client never sees a change in part.  A number that names something is   *)
(* never given to something else, a launch gets its three identities       *)
(* together, a new session its two, and the end of a process takes only    *)
(* that process and unused groups and sessions with it.                    *)
(***************************************************************************)
CONSTANTS Guests, Hosts

VARIABLE names   \* for each kind the set of pairs <<number, host id>>

Kinds == {"pid", "pgid", "sid"}
Pairs == Guests \X Hosts

(* The number may stand for the host id: it does already, or is unused.    *)
Open(k, n) == \A m \in names[k] : m[1] = n[1] => m[2] = n[2]

(* A launch is in a group and a session from the start.                    *)
Join ==
  \E p, g, s \in Pairs :
    /\ Open("pid", p) /\ Open("pgid", g) /\ Open("sid", s)
    /\ names' = [names EXCEPT !["pid"] = @ \union {p}, !["pgid"] = @ \union {g},
                              !["sid"] = @ \union {s}]

(* A forked child has only its number, it is in what its parent is in.     *)
Publish == \E p \in Pairs : Open("pid", p) /\ names' = [names EXCEPT !["pid"] = @ \union {p}]

EnterGroup == \E g \in Pairs : Open("pgid", g) /\ names' = [names EXCEPT !["pgid"] = @ \union {g}]

LeadSession ==
  \E s \in Pairs :
    /\ Open("pgid", s) /\ Open("sid", s)
    /\ names' = [names EXCEPT !["pgid"] = @ \union {s}, !["sid"] = @ \union {s}]

Retire ==
  /\ \E p \in names["pid"] : names'["pid"] = names["pid"] \ {p}
  /\ \A k \in {"pgid", "sid"} : names'[k] \subseteq names[k]

Init == names = [k \in Kinds |-> {}]
Next == names' # names /\ (Join \/ Publish \/ EnterGroup \/ LeadSession \/ Retire)
Spec == Init /\ [][Next]_names
=============================================================================
