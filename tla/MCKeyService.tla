----------------------------- MODULE MCKeyService -----------------------------
(* KeyService on small instances.                                          *)
EXTENDS KeyService, TLC

CONSTANTS r1, r2, s1, s2, t1, t2, unlimited

\* Both sessions cover both requests.
Scopes    == (s1 :> {r1, r2}) @@ (s2 :> {r1, r2})
Limits    == (s1 :> 1) @@ (s2 :> unlimited)
Durations == (s1 :> 1) @@ (s2 :> 1)

Symmetry == Permutations(Thread) \cup Permutations(Request)
=============================================================================
