---------------------------- MODULE EventDelivery ----------------------------
(***************************************************************************)
(* What the outbox promises its callers, without rows, leases, workers or  *)
(* clocks: an event that was committed is eventually either reported       *)
(* published, and then it is in the stream, or given up as a dead letter;  *)
(* an event that was not committed never shows up.                         *)
(***************************************************************************)
CONSTANT Events

VARIABLES
    outcome,    \* what the outbox says of each event
    delivered   \* the events of which the stream holds at least one copy

vars == <<outcome, delivered>>

Init ==
    /\ outcome = [e \in Events |-> "absent"]
    /\ delivered = {}

Commit(e) ==
    /\ outcome[e] = "absent"
    /\ outcome' = [outcome EXCEPT ![e] = "committed"]
    /\ UNCHANGED delivered

\* At-least-once: a copy may arrive at any time after the commit, even when
\* the outbox has given up on the event.
Deliver(e) ==
    /\ outcome[e] # "absent"
    /\ delivered' = delivered \cup {e}
    /\ UNCHANGED outcome

Publish(e) ==
    /\ outcome[e] = "committed"
    /\ e \in delivered
    /\ outcome' = [outcome EXCEPT ![e] = "published"]
    /\ UNCHANGED delivered

GiveUp(e) ==
    /\ outcome[e] = "committed"
    /\ outcome' = [outcome EXCEPT ![e] = "dead_letter"]
    /\ UNCHANGED delivered

Next == \E e \in Events : Commit(e) \/ Deliver(e) \/ Publish(e) \/ GiveUp(e)

SafetySpec == Init /\ [][Next]_vars

\* Nothing committed stays undecided.
Spec == SafetySpec /\ \A e \in Events : WF_vars(Publish(e) \/ GiveUp(e))
=============================================================================
