---------------------------- MODULE EventConsumer ----------------------------
(***************************************************************************)
(* The infrastructure proof consumer: a durable JetStream pull consumer    *)
(* with explicit acknowledgement and at most MaxDeliver deliveries, the    *)
(* processes that fetch from it, the receipts they commit to               *)
(* platform.event_consumptions, and the dead letters they publish.         *)
(*                                                                         *)
(* A process handles the messages it fetched one after the other, while    *)
(* the server's AckWait runs for all of them.  Time and faults are as in   *)
(* Outbox: deadline[m] counts ticks, faults draw on MaxFaults.             *)
(***************************************************************************)
EXTENDS Naturals, FiniteSets

CONSTANTS
    Processes,      \* application processes sharing the durable consumer
    Messages,       \* messages of the stream on the consumer's subject
    EventIds,       \* envelope IDs
    EventOf,        \* the envelope ID each message carries
    Valid,          \* messages whose envelope decodes and passes Validate
    NoMessage,      \* no message being processed
    MaxDeliver,     \* maxDeliveries
    FetchBatch,     \* subscription.Fetch(10)
    MaxAckPending,  \* ConsumerConfig.MaxAckPending
    AckWait,        \* ConsumerConfig.AckWait, in ticks
    RetryBase,      \* first redelivery delay (a second), in ticks
    RetryMax,       \* longest redelivery delay (a minute), in ticks
    MaxFaults       \* bound: faults the environment may inject

ASSUME ConsumerAssumption ==
    /\ EventOf \in [Messages -> EventIds]
    /\ Valid \subseteq Messages
    /\ NoMessage \notin Messages
    /\ MaxDeliver \in Nat \ {0}
    /\ FetchBatch \in Nat \ {0}
    /\ MaxAckPending \in Nat \ {0}
    /\ AckWait \in Nat \ {0}
    /\ RetryBase \in Nat \ {0}
    /\ RetryMax \in Nat
    /\ RetryBase <= RetryMax
    /\ MaxFaults \in Nat

VARIABLES
    state,       \* what the server keeps of each message
    deliveries,  \* NumDelivered, the server's count
    deadline,    \* ticks until an unacknowledged message is due again
    receipt,     \* delivery_count of the event's receipt row; 0 without one
    dead,        \* dead letters published for each message
    pc,          \* where each process stands
    fetched,     \* NumDelivered of the messages a process still has to handle
    cur,         \* the message a process is handling
    stopping,    \* Close has cancelled the process's context
    lastError,   \* Consumer.lastError # nil
    faults       \* faults injected so far

serverVars == <<state, deliveries, deadline>>
processVars == <<pc, fetched, cur, stopping, lastError>>
vars == <<serverVars, receipt, dead, processVars, faults>>

ServerStates == {"new", "pending", "acked", "termed", "exhausted"}
ProcessStates == {"idle", "process", "ack", "nak", "deadletter", "hung",
                  "deadnak", "term"}
Nothing == [m \in Messages |-> 0]
Todo(p) == {m \in Messages : fetched[p][m] > 0}

Init ==
    /\ state = [m \in Messages |-> "new"]
    /\ deliveries = Nothing
    /\ deadline = Nothing
    /\ receipt = [i \in EventIds |-> 0]
    /\ dead = Nothing
    /\ pc = [p \in Processes |-> "idle"]
    /\ fetched = [p \in Processes |-> Nothing]
    /\ cur = [p \in Processes |-> NoMessage]
    /\ stopping = [p \in Processes |-> FALSE]
    /\ lastError = [p \in Processes |-> FALSE]
    /\ faults = 0

Fault == faults < MaxFaults /\ faults' = faults + 1
SetError(p, failed) == lastError' = [lastError EXCEPT ![p] = failed]

-----------------------------------------------------------------------------
(***************************************************************************)
(* The server's side of the durable consumer.                              *)
(***************************************************************************)
Pending == {m \in Messages : state[m] = "pending"}

\* Mutant of Due: the consumer is configured with a MaxDeliver of one.
DueOnce == {m \in Pending : deadline[m] = 0 /\ deliveries[m] < 1}

\* Messages due for another delivery, and those never delivered.  The latter
\* include messages that have not been published yet.
Due == {m \in Pending : deadline[m] = 0 /\ deliveries[m] < MaxDeliver}
Fresh == {m \in Messages : state[m] = "new"}

\* MaxAckPending holds back first deliveries only.
Sendable(S) ==
    /\ S \subseteq Due \cup Fresh
    /\ S \cap Fresh = {} \/ Cardinality(Pending \cup S) <= MaxAckPending

Send(S) ==
    /\ state' = [m \in Messages |-> IF m \in S THEN "pending" ELSE state[m]]
    /\ deliveries' = [m \in Messages |->
                        IF m \in S THEN deliveries[m] + 1 ELSE deliveries[m]]
    /\ deadline' = [m \in Messages |-> IF m \in S THEN AckWait ELSE deadline[m]]

\* An answer about a message that is no longer pending is ignored.
Settle(m, outcome) ==
    /\ state' = [state EXCEPT ![m] = IF @ = "pending" THEN outcome ELSE @]
    /\ UNCHANGED <<deliveries, deadline>>

Postpone(m, delay) ==
    /\ deadline' = [deadline EXCEPT ![m] =
                      IF state[m] = "pending" THEN delay ELSE @]
    /\ UNCHANGED <<state, deliveries>>

\* MaxDeliver deliveries went unanswered: the server gives the message up.
Exhaust(m) ==
    /\ m \in Pending
    /\ deadline[m] = 0
    /\ deliveries[m] = MaxDeliver
    /\ state' = [state EXCEPT ![m] = "exhausted"]
    /\ UNCHANGED <<deliveries, deadline, receipt, dead, processVars, faults>>

\* A delivery is lost on its way to the client that asked for it.
DeliveryLost(m) ==
    /\ Sendable({m})
    /\ Fault
    /\ Send({m})
    /\ UNCHANGED <<receipt, dead, processVars>>

-----------------------------------------------------------------------------
(***************************************************************************)
(* run: fetch a batch, handle its messages in turn.                        *)
(***************************************************************************)
Fetch(p) ==
    /\ pc[p] = "idle" /\ ~stopping[p]
    /\ \E S \in (SUBSET (Due \cup Fresh)) \ {{}} :
        /\ Cardinality(S) <= FetchBatch
        /\ Sendable(S)
        /\ Send(S)
        /\ fetched' = [fetched EXCEPT ![p] =
                         [m \in Messages |-> IF m \in S THEN deliveries'[m] ELSE 0]]
        /\ \E m \in S : cur' = [cur EXCEPT ![p] = m]
    /\ pc' = [pc EXCEPT ![p] = "process"]
    /\ SetError(p, FALSE)
    /\ UNCHANGED <<receipt, dead, stopping, faults>>

\* Mutant of FetchTimeout: a timeout leaves the error as it is.
FetchTimeoutKeepsError(p) == pc[p] = "idle" /\ ~stopping[p] /\ UNCHANGED vars

\* Nothing arrives within MaxWait, which is no error.
FetchTimeout(p) ==
    /\ pc[p] = "idle" /\ ~stopping[p]
    /\ SetError(p, FALSE)
    /\ UNCHANGED <<serverVars, receipt, dead, pc, fetched, cur, stopping, faults>>

FetchError(p) ==
    /\ pc[p] = "idle" /\ ~stopping[p]
    /\ Fault
    /\ SetError(p, TRUE)
    /\ UNCHANGED <<serverVars, receipt, dead, pc, fetched, cur, stopping>>

\* process returns: on to the next message of the batch, or to Fetch.
Return(p) ==
    /\ fetched' = [fetched EXCEPT ![p][cur[p]] = 0]
    /\ \/ /\ Todo(p) = {cur[p]}
          /\ pc' = [pc EXCEPT ![p] = "idle"]
          /\ cur' = [cur EXCEPT ![p] = NoMessage]
       \/ \E m \in Todo(p) \ {cur[p]} :
          /\ pc' = [pc EXCEPT ![p] = "process"]
          /\ cur' = [cur EXCEPT ![p] = m]
    /\ UNCHANGED stopping

GoTo(p, label) ==
    /\ pc' = [pc EXCEPT ![p] = label]
    /\ UNCHANGED <<fetched, cur, stopping>>

-----------------------------------------------------------------------------
(***************************************************************************)
(* process: commit the receipt, then acknowledge.                          *)
(***************************************************************************)

\* message.Metadata().NumDelivered.  A message that came from JetStream has
\* metadata, so the fallback to a count of one is never taken.
Count(p) == fetched[p][cur[p]]
Id(p) == EventOf[cur[p]]

RejectInvalid(p) ==
    /\ pc[p] = "process"
    /\ cur[p] \notin Valid
    /\ GoTo(p, "deadletter")
    /\ UNCHANGED <<serverVars, receipt, dead, lastError, faults>>

\* Mutant of Record: ON CONFLICT DO UPDATE
RecordOverwrites(p) == receipt' = [receipt EXCEPT ![Id(p)] = Count(p)]

\* INSERT ... ON CONFLICT (consumer_name, event_id) DO NOTHING
Record(p) ==
    receipt' = [receipt EXCEPT ![Id(p)] = IF @ = 0 THEN Count(p) ELSE @]

Commit(p) ==
    /\ pc[p] = "process"
    /\ cur[p] \in Valid
    /\ ~stopping[p]
    /\ Record(p)
    /\ GoTo(p, "ack")
    /\ UNCHANGED <<serverVars, dead, lastError, faults>>

\* Mutants of AfterFailure: a failed transaction is acknowledged; the last
\* delivery but one counts as the last.
AfterFailureAcks(p) == IF Count(p) >= MaxDeliver THEN "deadletter" ELSE "ack"
AfterFailureEarly(p) == IF Count(p) + 1 >= MaxDeliver THEN "deadletter" ELSE "nak"

AfterFailure(p) == IF Count(p) >= MaxDeliver THEN "deadletter" ELSE "nak"

\* The transaction fails: always once the context is cancelled, otherwise
\* as a fault, in which case COMMIT may have taken effect.
CommitFails(p) ==
    /\ pc[p] = "process"
    /\ cur[p] \in Valid
    /\ \/ stopping[p] /\ UNCHANGED <<receipt, faults>>
       \/ Fault /\ (Record(p) \/ UNCHANGED receipt)
    /\ GoTo(p, AfterFailure(p))
    /\ UNCHANGED <<serverVars, dead, lastError>>

\* Mutant of Ack: the message is not acknowledged.
AckForgotten(p) ==
    /\ pc[p] = "ack"
    /\ Return(p)
    /\ UNCHANGED <<serverVars, receipt, dead, lastError, faults>>

\* The message is written without waiting for the server: it takes effect,
\* or it is lost, with or without an error.
Ack(p) ==
    /\ pc[p] = "ack"
    /\ \/ Settle(cur[p], "acked") /\ UNCHANGED <<lastError, faults>>
       \/ /\ Fault
          /\ UNCHANGED serverVars
          /\ SetError(p, TRUE) \/ UNCHANGED lastError
    /\ Return(p)
    /\ UNCHANGED <<receipt, dead>>

\* redeliveryBackoff after n rounds of its loop, and as it returns.
RetryDoubled[n \in Nat] ==
    IF n = 0
    THEN RetryBase
    ELSE LET b == RetryDoubled[n - 1] IN IF b < RetryMax THEN 2 * b ELSE b

\* Mutant of RetryBackoff: the result of the loop is not capped.
RetryBackoffUncapped(delivery) == RetryDoubled[delivery - 1]

RetryBackoff(delivery) ==
    LET b == RetryDoubled[delivery - 1]
    IN  IF b \in RetryBase..RetryMax THEN b ELSE RetryMax

Nak(p) ==
    /\ pc[p] = "nak"
    /\ \/ Postpone(cur[p], RetryBackoff(Count(p))) /\ UNCHANGED faults
       \/ Fault /\ UNCHANGED serverVars
    /\ SetError(p, TRUE)
    /\ Return(p)
    /\ UNCHANGED <<receipt, dead>>

-----------------------------------------------------------------------------
(***************************************************************************)
(* deadLetter: publish a diagnostic record, then terminate the message.    *)
(***************************************************************************)
AddDeadLetter(p) == dead' = [dead EXCEPT ![cur[p]] = @ + 1]

PublishDeadLetter(p) ==
    /\ pc[p] = "deadletter"
    /\ ~stopping[p]
    /\ AddDeadLetter(p)
    /\ GoTo(p, "term")
    /\ UNCHANGED <<serverVars, receipt, lastError, faults>>

\* Publish returns an error, whether or not the record was stored; a
\* cancelled context fails it before it is sent.
DeadLetterFails(p) ==
    /\ pc[p] = "deadletter"
    /\ \/ stopping[p] /\ UNCHANGED <<dead, faults>>
       \/ Fault /\ (AddDeadLetter(p) \/ UNCHANGED dead)
    /\ SetError(p, TRUE)
    /\ GoTo(p, "deadnak")
    /\ UNCHANGED <<serverVars, receipt>>

\* The server's answer is lost and the context has no deadline.
DeadLetterHangs(p) ==
    /\ pc[p] = "deadletter"
    /\ ~stopping[p]
    /\ Fault
    /\ AddDeadLetter(p) \/ UNCHANGED dead
    /\ GoTo(p, "hung")
    /\ UNCHANGED <<serverVars, receipt, lastError>>

\* NakWithDelay(time.Minute), its error ignored.
DeadLetterNak(p) ==
    /\ pc[p] = "deadnak"
    /\ \/ Postpone(cur[p], RetryMax) /\ UNCHANGED faults
       \/ Fault /\ UNCHANGED serverVars
    /\ Return(p)
    /\ UNCHANGED <<receipt, dead, lastError>>

\* Mutant of Term: the message is not terminated.
TermForgotten(p) ==
    /\ pc[p] = "term"
    /\ Return(p)
    /\ UNCHANGED <<serverVars, receipt, dead, lastError, faults>>

Term(p) ==
    /\ pc[p] = "term"
    /\ \/ Settle(cur[p], "termed") /\ UNCHANGED <<lastError, faults>>
       \/ /\ Fault
          /\ UNCHANGED serverVars
          /\ SetError(p, TRUE) \/ UNCHANGED lastError
    /\ Return(p)
    /\ UNCHANGED <<receipt, dead>>

-----------------------------------------------------------------------------
(***************************************************************************)
(* Shutdown, crash, restart and time.                                      *)
(***************************************************************************)

\* Close cancels the context in the middle of a batch; the loop goes on with
\* what it has fetched, and every call that takes the context fails.
Cancel(p) ==
    /\ pc[p] # "idle" /\ ~stopping[p]
    /\ Fault
    /\ stopping' = [stopping EXCEPT ![p] = TRUE]
    /\ pc' = [pc EXCEPT ![p] = IF @ = "hung" THEN "deadnak" ELSE @]
    /\ lastError' = [lastError EXCEPT ![p] = pc[p] = "hung" \/ @]
    /\ UNCHANGED <<serverVars, receipt, dead, fetched, cur>>

NewProcess(p) ==
    /\ pc' = [pc EXCEPT ![p] = "idle"]
    /\ fetched' = [fetched EXCEPT ![p] = Nothing]
    /\ cur' = [cur EXCEPT ![p] = NoMessage]
    /\ stopping' = [stopping EXCEPT ![p] = FALSE]
    /\ SetError(p, FALSE)

\* The loop has ended; a new process takes its place.
Restart(p) ==
    /\ pc[p] = "idle" /\ stopping[p]
    /\ NewProcess(p)
    /\ UNCHANGED <<serverVars, receipt, dead, faults>>

\* The process dies with fetched messages in hand and is replaced.
Crash(p) ==
    /\ pc[p] # "idle"
    /\ Fault
    /\ NewProcess(p)
    /\ UNCHANGED <<serverVars, receipt, dead>>

\* A message is about to become due again although the process that fetched
\* it is still working on its batch.
Overrun ==
    \E p \in Processes : pc[p] # "hung" /\ \E m \in Todo(p) : deadline[m] = 1

Tick ==
    /\ deadline' = [m \in Messages |-> IF deadline[m] > 0 THEN deadline[m] - 1 ELSE 0]
    /\ IF Overrun THEN Fault ELSE UNCHANGED faults
    /\ UNCHANGED <<state, deliveries, receipt, dead, processVars>>

-----------------------------------------------------------------------------
Process(p) ==
    \/ Fetch(p)
    \/ RejectInvalid(p)
    \/ Commit(p)
    \/ CommitFails(p)
    \/ Ack(p)
    \/ Nak(p)
    \/ PublishDeadLetter(p)
    \/ DeadLetterFails(p)
    \/ DeadLetterNak(p)
    \/ Term(p)
    \/ Restart(p)

Next ==
    \/ \E p \in Processes :
        \/ Process(p)
        \/ FetchTimeout(p)
        \/ FetchError(p)
        \/ DeadLetterHangs(p)
        \/ Cancel(p)
        \/ Crash(p)
    \/ \E m \in Messages : Exhaust(m) \/ DeliveryLost(m)
    \/ Tick

Fairness ==
    /\ \A p \in Processes : WF_vars(Process(p))
    /\ \A p \in Processes : WF_vars(FetchTimeout(p))
    /\ \A m \in Messages : WF_vars(Exhaust(m))
    /\ WF_vars(Tick)

SafetySpec == Init /\ [][Next]_vars
Spec == SafetySpec /\ Fairness
-----------------------------------------------------------------------------
(***************************************************************************)
(* Properties.                                                             *)
(***************************************************************************)

\* Every variable keeps its type; no message is delivered more often than
\* MaxDeliver and no redelivery is scheduled beyond the longest delay.
TypeOK ==
    /\ state \in [Messages -> ServerStates]
    /\ deliveries \in [Messages -> 0..MaxDeliver]
    /\ deadline \in [Messages -> Nat]
    /\ \A m \in Messages : deadline[m] <= AckWait \/ deadline[m] <= RetryMax
    /\ receipt \in [EventIds -> 0..MaxDeliver]
    /\ dead \in [Messages -> Nat]
    /\ pc \in [Processes -> ProcessStates]
    /\ fetched \in [Processes -> [Messages -> 0..MaxDeliver]]
    /\ cur \in [Processes -> Messages \cup {NoMessage}]
    /\ stopping \in [Processes -> BOOLEAN]
    /\ lastError \in [Processes -> BOOLEAN]
    /\ faults \in 0..MaxFaults

\* The broker forgets a message only for a reason that lasts: process
\* acknowledges after the receipt of the message's event has committed, and
\* deadLetter terminates after its diagnostic record has been stored.
ForgottenIsHandled ==
    \A m \in Messages :
        /\ state[m] = "acked" => receipt[EventOf[m]] > 0
        /\ state[m] = "termed" => dead[m] > 0

\* A message is delivered again only after something went wrong with an
\* earlier delivery, one fault for each.
DeliveriesPaid ==
    \A m \in Messages : deliveries[m] <= faults + 1

\* A valid event is dead-lettered only after MaxDeliver deliveries each of
\* which failed.  An outage that outlasts the backoffs fails them all, and is
\* a fault for each call it fails.
DeadLetterIsLastResort ==
    \A m \in Valid : dead[m] > 0 => deliveries[m] = MaxDeliver /\ faults >= MaxDeliver

\* The broker gives a message up without an answer that lasts only after each
\* of its MaxDeliver deliveries went wrong: lost, left behind by a crash or a
\* shutdown, overtaken by AckWait, or answered by a call that failed.  An event
\* that was recorded and an invalid message that was dead-lettered do not use
\* up deliveries of their own accord.
GivenUpIsPaid ==
    \A m \in Messages : state[m] = "exhausted" => faults >= MaxDeliver

\* The parts of the inductive invariant that the properties above do not
\* state.  Between two fetches a process has nothing in hand; otherwise it is
\* handling a message of its batch.
BatchInHand ==
    \A p \in Processes : IF pc[p] = "idle" THEN Todo(p) = {} ELSE cur[p] \in Todo(p)

\* What a process has been told of a message may be out of date, but was true
\* once; a message the server gave up has used all its deliveries.
CountsTrue ==
    \A m \in Messages :
        /\ state[m] = "new" => deliveries[m] = 0
        /\ state[m] = "exhausted" => deliveries[m] = MaxDeliver
        /\ \A p \in Processes : fetched[p][m] <= deliveries[m]

\* A process answers for a message only with the evidence stored: the receipt
\* before Ack, the dead letter before Term, and for a valid event a last
\* delivery before either.
EvidenceStored ==
    \A p \in Processes :
        /\ pc[p] = "ack" => receipt[Id(p)] > 0
        /\ pc[p] = "term" => dead[cur[p]] > 0
        /\ pc[p] \in {"deadletter", "hung", "deadnak", "term"} /\ cur[p] \in Valid =>
              Count(p) = MaxDeliver /\ faults >= MaxDeliver

\* A process that hands a message back, hangs or is being stopped does so
\* because of a fault later than the fetch of its batch.
TroublePaid ==
    \A p \in Processes :
        stopping[p] \/ pc[p] \in {"nak", "deadnak", "hung"} =>
            \A m \in Messages : fetched[p][m] <= faults

\* A delivery nothing has gone wrong with is still in the hand of the process
\* it went to, and its AckWait is running.
UnpaidInHand ==
    \A m \in Pending : deliveries[m] > faults =>
        deadline[m] > 0 /\ \E p \in Processes : fetched[p][m] > faults

\* The delivery protocol as an inductive invariant: every step of server,
\* processes and faults from a state that satisfies it satisfies it again.
DeliveryProtocol ==
    /\ TypeOK
    /\ BatchInHand
    /\ CountsTrue
    /\ EvidenceStored
    /\ TroublePaid
    /\ UnpaidInHand
    /\ ForgottenIsHandled
    /\ DeliveriesPaid
    /\ DeadLetterIsLastResort

\* Every message that was delivered ends with a committed receipt or a
\* stored dead letter, unless each of its deliveries went wrong or every
\* process hangs in the publication of a dead letter.
EventuallyHandled ==
    \A m \in Messages :
        deliveries[m] > 0 ~>
            \/ dead[m] > 0 \/ (m \in Valid /\ receipt[EventOf[m]] > 0)
            \/ deliveries[m] = MaxDeliver /\ faults >= MaxDeliver
            \/ \A p \in Processes : pc[p] = "hung"

\* An error reported by Check is cleared by a later Fetch, unless the loop
\* hangs in a Publish without deadline.
ConsumerRecovers ==
    \A p \in Processes : lastError[p] ~> ~lastError[p] \/ pc[p] = "hung"

\* "Poison messages exhaust a bounded retry policy before a diagnostic record
\* is published": a message whose dead letter could not be published, and
\* which deadLetter hands back with NakWithDelay, is still recorded or
\* dead-lettered in the end.
FailedDeadLetterRetried ==
    \A p \in Processes : \A m \in Messages :
        pc[p] = "deadnak" /\ cur[p] = m ~> dead[m] > 0 \/ receipt[EventOf[m]] > 0
=============================================================================
