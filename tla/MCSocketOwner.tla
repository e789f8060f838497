--------------------------- MODULE MCSocketOwner ---------------------------
(* Instances of SocketOwner: two processes, the first with two threads.    *)
EXTENDS SocketOwner

CONSTANTS p1, p2

SameSlot == [k \in ObjectKeys |-> 1]

Plan(a, b, c) == [t \in Threads |-> CASE t = <<p1, 1>> -> a
                                      [] t = <<p1, 2>> -> b
                                      [] t = <<p2, 1>> -> c
                                      [] OTHER -> "none"]
SocketPlans ==
  {Plan("bind", "stat", "bind"), Plan("bind", "unlink", "stat"),
   Plan("bind", "link", "bind"), Plan("bind", "unlink", "bind"),
   Plan("chown", "bind", "stat")}
StatPlans == {Plan("bind", "stat", "bind")}
=============================================================================
