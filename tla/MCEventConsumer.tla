--------------------------- MODULE MCEventConsumer ---------------------------
(* Small instances of EventConsumer for TLC: one message of an event and one *)
(* that does not decode.                                                      *)
EXTENDS EventConsumer

CONSTANTS p1, p2, sound, broken, event, unknown

MCEventOf == [m \in Messages |-> IF m = broken THEN unknown ELSE event]
MCValid == Messages \ {broken}
=============================================================================
