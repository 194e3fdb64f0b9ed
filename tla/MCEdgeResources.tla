--------------------------- MODULE MCEdgeResources ---------------------------
(* EdgeResources on a small instance: each kind of object is made at most    *)
(* twice, and two faults happen in a behaviour.                              *)
EXTENDS EdgeResources
=============================================================================
