--------------------------- MODULE MCFullBootstrap ---------------------------
(* FullBootstrap on small instances.                                       *)
EXTENDS FullBootstrap, TLC

CONSTANTS k1, k2, v1, none, i1, i2

Kinds == (k1 :> "api") @@ (k2 :> "ssh")
Hashes == (1 :> 1) @@ (2 :> 2) @@ (3 :> 2)
Contents == (k1 :> {1, 2, 3}) @@ (k2 :> {1})
Places == (k1 :> v1) @@ (k2 :> v1)
\* Under its third content k1 shares the policy id of k2.
Ids12 == (k1 :> (1 :> i1 @@ 2 :> i1 @@ 3 :> i2))
           @@ (k2 :> [v \in Version |-> i2])
=============================================================================
