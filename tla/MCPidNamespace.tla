--------------------------- MODULE MCPidNamespace ---------------------------
(* Instances of PidNamespace: a launch, root, with two threads, and up to  *)
(* three more processes that are launched or forked.                       *)
EXTENDS PidNamespace

CONSTANTS root, a, b, c, outside, other

MCThreads == {<<root, 1>>, <<root, 2>>, <<a, 1>>, <<b, 1>>, <<c, 1>>}

Plan(ids, launches, r1, r2, a1, b1, c1) ==
  [ids |-> ids, launches |-> launches,
   calls |-> [t \in MCThreads |-> CASE t = <<root, 1>> -> r1 [] t = <<root, 2>> -> r2
                                    [] t = <<a, 1>> -> a1 [] t = <<b, 1>> -> b1
                                    [] t = <<c, 1>> -> c1]]

(* A shell that moves its child; a child that leaves the session; a child  *)
(* with a job of its own; an execution beside them; an id used again; more *)
(* launches than there are slots.                                          *)
Jobs ==
  {Plan(<<root, a>>, 1, {"fork", "setpgid"}, {"wait"}, {"setpgid"}, {}, {}),
   Plan(<<root, a>>, 1, {"fork"}, {"wait"}, {"setsid", "setpgid"}, {}, {}),
   Plan(<<root, a, b>>, 1, {"fork"}, {"wait"}, {"fork", "setpgid"}, {}, {}),
   Plan(<<root, a, b>>, 2, {"fork"}, {"wait"}, {"setsid"}, {"getpgid"}, {}),
   Plan(<<root, a, a>>, 3, {}, {}, {}, {}, {}),
   Plan(<<root, a, b, c>>, 4, {}, {}, {}, {}, {})}

(* Two children, of which the first has the second; two launches in one    *)
(* group from outside; a child whose id is given out again.                *)
Family == {Plan(<<root, a, b>>, 1, {"fork"}, {"wait"}, {"setpgid", "fork"}, {}, {})}
Pair == {Plan(<<root, a>>, 2, {"setpgid"}, {}, {}, {}, {})}
Again == {Plan(<<root, a, a>>, 1, {"fork"}, {"wait", "fork"}, {"setsid"}, {}, {})}
=============================================================================
