---------------------------- MODULE MCAuthLimiter ----------------------------
(* AuthLimiter on a small instance.                                        *)
EXTENDS AuthLimiter, TLC

CONSTANTS a1, a2, a3, a4, external, internal, w1, w2

\* Three attempts from an address that has two, and one from another.
Addresses == (a1 :> external) @@ (a2 :> external) @@ (a3 :> external) @@ (a4 :> internal)
Limits    == (external :> 2) @@ (internal :> 3)

Symmetry == Permutations({a1, a2, a3}) \cup Permutations(Worker)
=============================================================================
