---------------------------- MODULE MCObjectStore ----------------------------
(* A small instance of ObjectStore for TLC.                                 *)
EXTENDS ObjectStore

CONSTANTS p1, p2, k1, k2
=============================================================================
