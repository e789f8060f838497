---------------------------- MODULE MCLifecycle ----------------------------
(* Small instances of Lifecycle for TLC.                                   *)
EXTENDS Lifecycle, TLC

CONSTANTS c1, c2, k1, k2

Never == [kind |-> "never", maximum |-> 0]
Always == [kind |-> "always", maximum |-> 0]
UnlessStopped == [kind |-> "unless-stopped", maximum |-> 0]
OnFailureOnce == [kind |-> "on-failure", maximum |-> 1]

AllPolicies == {Never, Always, UnlessStopped, OnFailureOnce}
TwoPolicies == {Always, OnFailureOnce}
RunPolicies == {Always, UnlessStopped, OnFailureOnce}
OnePolicy == {OnFailureOnce}

(* Containers are interchangeable; only safety is checked under symmetry.  *)
Symmetry == Permutations({c1, c2})
=============================================================================
