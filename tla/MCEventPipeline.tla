--------------------------- MODULE MCEventPipeline ---------------------------
(* A small instance of EventPipeline for TLC.                               *)
EXTENDS EventPipeline, TLC

CONSTANTS w1, w2, p1, p2
=============================================================================
