------------------------------ MODULE MCOutbox ------------------------------
(* Small instances of Outbox for TLC.                                       *)
EXTENDS Outbox, TLC

CONSTANTS w1, w2, w3

\* Relays differ in nothing but their lease owner ID.
RelaySymmetry == Permutations(Workers)
=============================================================================
