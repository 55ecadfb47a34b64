--------------------------- MODULE EventProcessing ---------------------------
(***************************************************************************)
(* What the outbox, the stream and the consumer promise together, without  *)
(* rows, leases, copies, deliveries or clocks: an event is recorded by the *)
(* consumer, or given up with a dead letter, only after its transaction    *)
(* committed, and its receipt is written once.                             *)
(***************************************************************************)
CONSTANTS
    Events,     \* events on the consumer's subject
    Receipts,   \* what a receipt may say
    NoReceipt   \* no receipt has been committed

VARIABLES
    committed,  \* the events whose transaction committed
    receipt,    \* the consumer's receipt of each event
    givenUp     \* events the outbox or the consumer has dead-lettered

vars == <<committed, receipt, givenUp>>

Init ==
    /\ committed = {}
    /\ receipt = [e \in Events |-> NoReceipt]
    /\ givenUp = {}

Commit(e) ==
    /\ e \notin committed
    /\ committed' = committed \cup {e}
    /\ UNCHANGED <<receipt, givenUp>>

\* A copy may be recorded even after one side has given up on the event.
Record(e) ==
    /\ e \in committed
    /\ receipt[e] = NoReceipt
    /\ \E r \in Receipts : receipt' = [receipt EXCEPT ![e] = r]
    /\ UNCHANGED <<committed, givenUp>>

GiveUp(e) ==
    /\ e \in committed
    /\ givenUp' = givenUp \cup {e}
    /\ UNCHANGED <<committed, receipt>>

Next == \E e \in Events : Commit(e) \/ Record(e) \/ GiveUp(e)

SafetySpec == Init /\ [][Next]_vars
=============================================================================
