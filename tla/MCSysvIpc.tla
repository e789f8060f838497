----------------------------- MODULE MCSysvIpc -----------------------------
(* Small instances of SysvIpc for TLC.                                     *)
EXTENDS SysvIpc

CONSTANTS p1, p2

Users2 == [p \in Procs |-> IF p = p1 THEN 0 ELSE 1]

Single == {{"shm"}, {"sem"}, {"msg"}}
Either == {{"shm"}, {"sem"}}
OnlyMsg == {{"msg"}}

O(n, v, u, w) == [num |-> n, op |-> v, undo |-> u, nowait |-> w]
(* Lists that name a semaphore at most once: raise, lower, test for zero,  *)
(* with and without SEM_UNDO, and one whose second part will not wait.     *)
PlainLists == {<<O(1, 1, TRUE, FALSE)>>, <<O(1, -1, TRUE, FALSE)>>,
               <<O(1, 0, FALSE, FALSE)>>,
               <<O(1, -1, FALSE, FALSE), O(2, -1, TRUE, TRUE)>>,
               <<O(2, 1, TRUE, FALSE)>>}
RepeatedLists == {<<O(1, 1, FALSE, FALSE)>>, <<O(1, -1, FALSE, FALSE), O(1, -1, FALSE, FALSE)>>}

SomeSelectors == {[typ |-> 0, except |-> FALSE], [typ |-> 1, except |-> FALSE],
                  [typ |-> 1, except |-> TRUE], [typ |-> -2, except |-> FALSE]}
=============================================================================
