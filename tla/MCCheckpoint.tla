---------------------------- MODULE MCCheckpoint ----------------------------
(* Instances of CheckpointCapture: an init and two more processes.         *)
EXTENDS CheckpointCapture, TLC

CONSTANTS init, m1, m2, outside, pipe, socket, signals

Kinds == [o \in Objects |-> CASE o = pipe -> "pipe" [] o = socket -> "socket"
                              [] OTHER -> "signalfd"]

(* m is a child of the init, n of the process above it.                    *)
Tree(born, m, n, above, object, sharing) ==
  [born |-> born,
   parent |-> [p \in Procs |-> IF p = init THEN outside ELSE IF p = n THEN above ELSE init],
   holds |-> [p \in Procs |-> IF p \in sharing THEN {object} ELSE {}]]

(* Which process is m and which is n makes no difference: every tree is    *)
(* there both ways, and only safety is checked under symmetry.             *)
TreesOf(m, n) ==
  {Tree({init, m}, m, n, init, pipe, {}),               \* n may be forked while the capture runs
   Tree({init, m, n}, m, n, init, pipe, {m, n}),        \* two children that share a pipe
   Tree({init, m, n}, m, n, init, socket, {m, n}),      \* ... or a socket, or a signalfd
   Tree({init, m, n}, m, n, init, signals, {m, n}),
   Tree({init, m, n}, m, n, m, pipe, {}),               \* a grandchild
   Tree({init, m, n}, m, n, outside, pipe, {init, n})}  \* an exec session with the init's pipe
SmallTrees == TreesOf(m1, m2) \union TreesOf(m2, m1)
Symmetry == Permutations({m1, m2})

\* The init and one child, which holds a pipe, a signalfd or nothing.
PairTrees == {Tree({init, m1}, m1, m2, init, o, held) : o \in {pipe, signals}, held \in {{}, {m1}}}
=============================================================================
