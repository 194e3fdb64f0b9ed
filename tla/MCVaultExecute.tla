---------------------------- MODULE MCVaultExecute ----------------------------
(* VaultExecute on small instances.                                        *)
EXTENDS VaultExecute, TLC

CONSTANTS k1, k2, a1, a2, c1, c2, c3

Symmetry == Permutations(Key) \cup Permutations(Consumer) \cup Permutations(Caller)
=============================================================================
