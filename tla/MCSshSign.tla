------------------------------ MODULE MCSshSign ------------------------------
(* SshSign on small instances.                                             *)
EXTENDS SshSign, TLC

CONSTANTS o1, o2, s1, s2, c1, c2, k1, k2, r1, r2, none

\* Both sessions cover the first consumer, the second one another too, and every
\* key there is when it is looked at.  The second key is not one to sign with.
Consumers == (s1 :> {c1}) @@ (s2 :> {c1, c2})
Keys      == (s1 :> {k1}) @@ (s2 :> {})
Limits    == (s1 :> 2) @@ (s2 :> 0)
Durations == (s1 :> 2) @@ (s2 :> 1)
Lists     == (k1 :> {c1}) @@ (k2 :> {})

Symmetry == Permutations(Request)
=============================================================================
