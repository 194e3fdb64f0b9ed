------------------------------ MODULE MCJanusDO ------------------------------
(* JanusDO on small instances.                                             *)
EXTENDS JanusDO, TLC

CONSTANTS r1, r2, o1, o2, k1, k2, c1, c2, c3, e1

\* Requests, callers, owners and contents are interchangeable.
Symmetry == Permutations(Request) \cup Permutations(Caller) \cup Permutations(Content)
            \cup Permutations(Owner)
=============================================================================
