----------------------------- MODULE MCLifecycle -----------------------------
(* Small instances of Lifecycle for TLC: the pool, one connection, and the   *)
(* consumer and relay loops, in main's order.                                 *)
EXTENDS Lifecycle

CONSTANT r1
=============================================================================
