--------------------------- MODULE MCGatedRequest ----------------------------
(* GatedRequest on small instances: two calls that ask for the same thing. *)
EXTENDS GatedRequest, TLC

CONSTANTS t1, t2, r1, r2, r3, body

SameBody == [t \in Task |-> body]

Symmetry == Permutations(Task) \cup Permutations(Request)
=============================================================================
