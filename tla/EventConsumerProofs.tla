------------------------- MODULE EventConsumerProofs -------------------------
(***************************************************************************)
(* Proofs about EventConsumer, for any number of messages, processes and   *)
(* faults, any delivery limit and any durations.                           *)
(***************************************************************************)
EXTENDS EventConsumer, TLAPS

USE ConsumerAssumption

\* The parts of TypeOK, by who owns the variables.
ServerTypes ==
    /\ state \in [Messages -> ServerStates]
    /\ deliveries \in [Messages -> 0..MaxDeliver]
    /\ deadline \in [Messages -> Nat]
    /\ \A m \in Messages : deadline[m] <= AckWait \/ deadline[m] <= RetryMax

EvidenceTypes ==
    /\ receipt \in [EventIds -> 0..MaxDeliver]
    /\ dead \in [Messages -> Nat]

ProcessTypes ==
    /\ pc \in [Processes -> ProcessStates]
    /\ fetched \in [Processes -> [Messages -> 0..MaxDeliver]]
    /\ cur \in [Processes -> Messages \cup {NoMessage}]
    /\ stopping \in [Processes -> BOOLEAN]
    /\ lastError \in [Processes -> BOOLEAN]

\* TypeOK is the conjunction of its parts.
LEMMA TypeParts ==
    TypeOK <=> ServerTypes /\ EvidenceTypes /\ ProcessTypes /\ faults \in 0..MaxFaults
BY DEF TypeOK, ServerTypes, EvidenceTypes, ProcessTypes

\* What a redelivery is delayed by is at least a tick and at most RetryMax.
LEMMA RetryBackoffBounded ==
    ASSUME NEW n
    PROVE  RetryBackoff(n) \in 1..RetryMax
BY DEF RetryBackoff

\* A process at work has a message in hand, and was told a count for it.
LEMMA Working ==
    ASSUME DeliveryProtocol, NEW p \in Processes, pc[p] # "idle"
    PROVE  /\ cur[p] \in Messages
           /\ Count(p) \in 1..MaxDeliver
           /\ Count(p) <= deliveries[cur[p]]
           /\ Id(p) \in EventIds
BY DEF DeliveryProtocol, TypeOK, BatchInHand, CountsTrue, Todo, Count, Id

\* Sending the messages of S keeps the server's types.
LEMMA SendTypes ==
    ASSUME ServerTypes, CountsTrue, NEW S, Sendable(S), Send(S)
    PROVE  ServerTypes'
<1>1. \A m \in S : m \in Messages => deliveries[m] < MaxDeliver
    BY DEF Sendable, Due, Fresh, CountsTrue, ServerTypes
<1>2. deliveries' \in [Messages -> 0..MaxDeliver]
    BY <1>1 DEF Send, ServerTypes
<1> QED
    BY <1>2 DEF Send, ServerTypes, ServerStates

\* So do an acknowledgement or a termination, and a delayed redelivery.
LEMMA SettleTypes ==
    ASSUME ServerTypes, NEW m \in Messages, NEW outcome \in {"acked", "termed"},
           Settle(m, outcome)
    PROVE  ServerTypes'
BY DEF Settle, ServerTypes, ServerStates

\* A message handed back, to come again after a delay.
LEMMA PostponeTypes ==
    ASSUME ServerTypes, NEW m \in Messages, NEW delay \in 1..RetryMax, Postpone(m, delay)
    PROVE  ServerTypes'
BY DEF Postpone, ServerTypes

\* The process's own steps keep its types.
LEMMA ReturnTypes ==
    ASSUME ProcessTypes, NEW p \in Processes, cur[p] \in Messages, Return(p),
           lastError' \in [Processes -> BOOLEAN]
    PROVE  ProcessTypes'
<1>1. fetched' = [fetched EXCEPT ![p] = [fetched[p] EXCEPT ![cur[p]] = 0]]
    BY DEF ProcessTypes, Return
<1>2. [fetched[p] EXCEPT ![cur[p]] = 0] \in [Messages -> 0..MaxDeliver]
    BY DEF ProcessTypes
<1>3. fetched' \in [Processes -> [Messages -> 0..MaxDeliver]]
    BY <1>1, <1>2 DEF ProcessTypes
<1>4. PICK label \in {"idle", "process"}, m \in Messages \cup {NoMessage} :
        pc' = [pc EXCEPT ![p] = label] /\ cur' = [cur EXCEPT ![p] = m]
    BY DEF Return, Todo
<1>5. pc' \in [Processes -> ProcessStates] /\ cur' \in [Processes -> Messages \cup {NoMessage}]
    BY <1>4 DEF ProcessTypes, ProcessStates
<1> QED
    BY <1>3, <1>5 DEF ProcessTypes, Return

\* A process that turns to its next step with the message in hand.
LEMMA GoToTypes ==
    ASSUME ProcessTypes, NEW p \in Processes, NEW label \in ProcessStates, GoTo(p, label),
           lastError' \in [Processes -> BOOLEAN]
    PROVE  ProcessTypes'
BY DEF ProcessTypes, GoTo

\* A stopped process replaced by a new one.
LEMMA NewProcessTypes ==
    ASSUME ProcessTypes, NEW p \in Processes, NewProcess(p)
    PROVE  ProcessTypes'
BY DEF ProcessTypes, NewProcess, SetError, Nothing, ProcessStates

\* A receipt or a dead letter keeps its type.
LEMMA RecordTypes ==
    ASSUME DeliveryProtocol, NEW p \in Processes, pc[p] # "idle", Record(p)
    PROVE  receipt' \in [EventIds -> 0..MaxDeliver]
BY Working DEF DeliveryProtocol, TypeOK, Record

\* Dead letters stay counts.
LEMMA DeadLetterTypes ==
    ASSUME DeliveryProtocol, NEW p \in Processes, pc[p] # "idle", AddDeadLetter(p)
    PROVE  dead' \in [Messages -> Nat]
BY Working DEF DeliveryProtocol, TypeOK, AddDeadLetter

-----------------------------------------------------------------------------
\* Every step keeps the types.
LEMMA TypeStep == DeliveryProtocol /\ [Next]_vars => TypeOK'
<1> SUFFICES ASSUME DeliveryProtocol, [Next]_vars PROVE TypeOK'
    OBVIOUS
<1>0. /\ ServerTypes /\ EvidenceTypes /\ ProcessTypes /\ faults \in 0..MaxFaults
      /\ CountsTrue
    BY TypeParts DEF DeliveryProtocol
<1> DEFINE G == ServerTypes' /\ EvidenceTypes' /\ ProcessTypes' /\ faults' \in 0..MaxFaults
<1> SUFFICES G
    BY DEF TypeOK, ServerTypes, EvidenceTypes, ProcessTypes
<1>a. UNCHANGED serverVars => ServerTypes'
    BY <1>0 DEF serverVars, ServerTypes
<1>b. UNCHANGED <<receipt, dead>> => EvidenceTypes'
    BY <1>0 DEF EvidenceTypes
<1>c. UNCHANGED processVars => ProcessTypes'
    BY <1>0 DEF processVars, ProcessTypes
<1>d. Fault \/ UNCHANGED faults => faults' \in 0..MaxFaults
    BY <1>0 DEF Fault
<1>e. ASSUME NEW p \in Processes,
             SetError(p, TRUE) \/ SetError(p, FALSE) \/ UNCHANGED lastError
      PROVE  lastError' \in [Processes -> BOOLEAN]
    BY <1>0, <1>e DEF ProcessTypes, SetError
<1>1. ASSUME NEW p \in Processes, Fetch(p) PROVE G
    <2>1. PICK S \in (SUBSET (Due \cup Fresh)) \ {{}} :
            /\ Sendable(S) /\ Send(S)
            /\ fetched' = [fetched EXCEPT ![p] =
                             [m \in Messages |-> IF m \in S THEN deliveries'[m] ELSE 0]]
            /\ \E m \in S : cur' = [cur EXCEPT ![p] = m]
        BY <1>1 DEF Fetch
    <2>2. ServerTypes'
        BY <1>0, <2>1, SendTypes
    <2>3. fetched' \in [Processes -> [Messages -> 0..MaxDeliver]]
        BY <1>0, <2>1, <2>2 DEF ProcessTypes, ServerTypes
    <2>4. cur' \in [Processes -> Messages \cup {NoMessage}]
        BY <1>0, <2>1 DEF ProcessTypes, Due, Fresh, Pending
    <2> QED
        BY <1>0, <1>1, <2>2, <2>3, <2>4, <1>b, <1>d
        DEF Fetch, SetError, ProcessTypes, ProcessStates
<1>2. ASSUME NEW p \in Processes, FetchTimeout(p) \/ FetchError(p) PROVE G
    BY <1>0, <1>2, <1>a, <1>b, <1>d, <1>e DEF FetchTimeout, FetchError, ProcessTypes
<1>3. ASSUME NEW p \in Processes, RejectInvalid(p) PROVE G
    BY <1>0, <1>3, <1>a, <1>b, <1>d, <1>e, GoToTypes DEF RejectInvalid, ProcessStates
<1>4. ASSUME NEW p \in Processes, Commit(p) PROVE G
    BY <1>0, <1>4, <1>a, <1>d, <1>e, GoToTypes, RecordTypes
    DEF Commit, ProcessStates, EvidenceTypes
<1>5. ASSUME NEW p \in Processes, CommitFails(p) PROVE G
    <2>1. EvidenceTypes'
        BY <1>0, <1>5, RecordTypes DEF CommitFails, EvidenceTypes
    <2>2. AfterFailure(p) \in ProcessStates
        BY DEF AfterFailure, ProcessStates
    <2> QED
        BY <1>0, <1>5, <2>1, <2>2, <1>a, <1>d, <1>e, GoToTypes DEF CommitFails
<1>6. ASSUME NEW p \in Processes, Ack(p) \/ Term(p) PROVE G
    <2>1. ServerTypes'
        BY <1>0, <1>6, <1>a, SettleTypes, Working DEF Ack, Term
    <2> QED
        BY <1>0, <1>6, <2>1, <1>b, <1>d, <1>e, ReturnTypes, Working DEF Ack, Term
<1>7. ASSUME NEW p \in Processes, Nak(p) \/ DeadLetterNak(p) PROVE G
    <2>1. ServerTypes'
        <3>1. cur[p] \in Messages
            BY <1>7, Working DEF Nak, DeadLetterNak
        <3>2. RetryMax \in 1..RetryMax /\ RetryBackoff(Count(p)) \in 1..RetryMax
            BY RetryBackoffBounded
        <3> QED
            BY <1>0, <1>7, <1>a, <3>1, <3>2, PostponeTypes DEF Nak, DeadLetterNak
    <2>2. lastError' \in [Processes -> BOOLEAN]
        BY <1>0, <1>7 DEF Nak, DeadLetterNak, SetError, ProcessTypes
    <2>3. ProcessTypes'
        BY <1>0, <1>7, <2>2, ReturnTypes, Working DEF Nak, DeadLetterNak
    <2> QED
        BY <1>7, <2>1, <2>3, <1>b, <1>d DEF Nak, DeadLetterNak
<1>8. ASSUME NEW p \in Processes, PublishDeadLetter(p) PROVE G
    BY <1>0, <1>8, <1>a, <1>d, <1>e, GoToTypes, DeadLetterTypes
    DEF PublishDeadLetter, ProcessStates, EvidenceTypes
<1>9. ASSUME NEW p \in Processes, DeadLetterFails(p) \/ DeadLetterHangs(p) PROVE G
    <2>1. EvidenceTypes'
        BY <1>0, <1>9, DeadLetterTypes DEF DeadLetterFails, DeadLetterHangs, EvidenceTypes
    <2> QED
        BY <1>0, <1>9, <2>1, <1>a, <1>d, <1>e, GoToTypes
        DEF DeadLetterFails, DeadLetterHangs, ProcessStates
<1>10. ASSUME NEW p \in Processes, Cancel(p) PROVE G
    <2>1. ProcessTypes'
        BY <1>0, <1>10 DEF Cancel, ProcessTypes, ProcessStates
    <2> QED
        BY <1>10, <2>1, <1>a, <1>b, <1>d DEF Cancel
<1>11. ASSUME NEW p \in Processes, Restart(p) \/ Crash(p) PROVE G
    BY <1>0, <1>11, <1>a, <1>b, <1>d, NewProcessTypes DEF Restart, Crash
<1>12. ASSUME NEW m \in Messages, Exhaust(m) PROVE G
    <2>1. ServerTypes'
        BY <1>0, <1>12 DEF Exhaust, ServerTypes, ServerStates
    <2> QED
        BY <1>12, <2>1, <1>b, <1>c, <1>d DEF Exhaust
<1>13. ASSUME NEW m \in Messages, DeliveryLost(m) PROVE G
    BY <1>0, <1>13, <1>b, <1>c, <1>d, SendTypes DEF DeliveryLost
<1>14. CASE Tick
    <2>1. ServerTypes'
        BY <1>0, <1>14 DEF Tick, ServerTypes
    <2> QED
        BY <1>14, <2>1, <1>b, <1>c, <1>d DEF Tick
<1>15. CASE UNCHANGED vars
    BY <1>15, <1>a, <1>b, <1>c, <1>d DEF vars
<1> QED
    BY <1>1, <1>2, <1>3, <1>4, <1>5, <1>6, <1>7, <1>8, <1>9, <1>10, <1>11, <1>12, <1>13,
       <1>14, <1>15 DEF Next, Process

-----------------------------------------------------------------------------
\* What process returning changes: the message is out of the batch, and the
\* process goes on with another one of it, or to its next fetch.
LEMMA ReturnEffect ==
    ASSUME ProcessTypes, NEW p \in Processes, cur[p] \in Messages, Return(p)
    PROVE  /\ \A q \in Processes \ {p} :
                pc'[q] = pc[q] /\ cur'[q] = cur[q] /\ fetched'[q] = fetched[q]
           /\ \A m \in Messages :
                fetched'[p][m] = IF m = cur[p] THEN 0 ELSE fetched[p][m]
           /\ \/ pc'[p] = "idle" /\ Todo(p) = {cur[p]}
              \/ pc'[p] = "process" /\ cur'[p] \in Todo(p) \ {cur[p]}
           /\ stopping' = stopping
<1>1. fetched' = [fetched EXCEPT ![p] = [fetched[p] EXCEPT ![cur[p]] = 0]]
    BY DEF ProcessTypes, Return
<1>2. \A q \in Processes \ {p} :
        pc'[q] = pc[q] /\ cur'[q] = cur[q] /\ fetched'[q] = fetched[q]
    BY <1>1 DEF Return, ProcessTypes
<1>3. \A m \in Messages : fetched'[p][m] = IF m = cur[p] THEN 0 ELSE fetched[p][m]
    BY <1>1 DEF ProcessTypes
<1>4. \/ pc'[p] = "idle" /\ Todo(p) = {cur[p]}
      \/ pc'[p] = "process" /\ cur'[p] \in Todo(p) \ {cur[p]}
    BY DEF Return, ProcessTypes
<1> QED
    BY <1>2, <1>3, <1>4 DEF Return

\* What a fetch changes: the batch S, delivered once more, is the process's.
LEMMA FetchEffect ==
    ASSUME DeliveryProtocol, NEW p \in Processes, Fetch(p)
    PROVE  \E S \in SUBSET Messages :
            /\ Sendable(S) /\ Send(S)
            /\ \A m \in Messages :
                fetched'[p][m] = IF m \in S THEN deliveries'[m] ELSE 0
            /\ cur'[p] \in S /\ pc'[p] = "process"
            /\ \A q \in Processes \ {p} :
                pc'[q] = pc[q] /\ cur'[q] = cur[q] /\ fetched'[q] = fetched[q]
            /\ UNCHANGED <<stopping, faults, receipt, dead>>
<1>0. ProcessTypes
    BY TypeParts DEF DeliveryProtocol
<1>1. PICK S \in (SUBSET (Due \cup Fresh)) \ {{}} :
        /\ Sendable(S) /\ Send(S)
        /\ fetched' = [fetched EXCEPT ![p] =
                         [m \in Messages |-> IF m \in S THEN deliveries'[m] ELSE 0]]
        /\ \E m \in S : cur' = [cur EXCEPT ![p] = m]
    BY DEF Fetch
<1>2. S \in SUBSET Messages
    BY DEF Due, Fresh, Pending
<1>3. \A m \in Messages : fetched'[p][m] = IF m \in S THEN deliveries'[m] ELSE 0
    BY <1>0, <1>1 DEF ProcessTypes
<1>4. cur'[p] \in S /\ pc'[p] = "process"
    BY <1>0, <1>1 DEF Fetch, ProcessTypes
<1>5. \A q \in Processes \ {p} :
        pc'[q] = pc[q] /\ cur'[q] = cur[q] /\ fetched'[q] = fetched[q]
    BY <1>0, <1>1 DEF Fetch, ProcessTypes
<1> QED
    BY <1>1, <1>2, <1>3, <1>4, <1>5 DEF Fetch

\* Every step of a process that is not a fetch is one of these.
LEMMA ProcessSteps ==
    ASSUME DeliveryProtocol, [Next]_vars
    PROVE  \/ \E p \in Processes : Fetch(p)
           \/ \E p \in Processes : pc[p] # "idle" /\ Return(p)
           \/ \E p \in Processes : \E label \in ProcessStates \ {"idle"} :
                pc[p] # "idle" /\ GoTo(p, label)
           \/ \E p \in Processes : Cancel(p)
           \/ \E p \in Processes : NewProcess(p)
           \/ UNCHANGED <<pc, fetched, cur, stopping>>
<1> DEFINE G == \/ \E p \in Processes : Fetch(p)
                \/ \E p \in Processes : pc[p] # "idle" /\ Return(p)
                \/ \E p \in Processes : \E label \in ProcessStates \ {"idle"} :
                     pc[p] # "idle" /\ GoTo(p, label)
                \/ \E p \in Processes : Cancel(p)
                \/ \E p \in Processes : NewProcess(p)
                \/ UNCHANGED <<pc, fetched, cur, stopping>>
<1>1. ASSUME NEW p \in Processes, Ack(p) \/ Nak(p) \/ DeadLetterNak(p) \/ Term(p) PROVE G
    BY <1>1 DEF Ack, Nak, DeadLetterNak, Term
<1>2. ASSUME NEW p \in Processes, RejectInvalid(p) \/ Commit(p) \/ CommitFails(p) PROVE G
    BY <1>2 DEF RejectInvalid, Commit, CommitFails, AfterFailure, ProcessStates
<1>3. ASSUME NEW p \in Processes,
             PublishDeadLetter(p) \/ DeadLetterFails(p) \/ DeadLetterHangs(p)
      PROVE  G
    BY <1>3 DEF PublishDeadLetter, DeadLetterFails, DeadLetterHangs, ProcessStates
<1>4. ASSUME NEW p \in Processes, Restart(p) \/ Crash(p) PROVE G
    BY <1>4 DEF Restart, Crash
<1>5. ASSUME NEW p \in Processes, FetchTimeout(p) \/ FetchError(p) PROVE G
    BY <1>5 DEF FetchTimeout, FetchError
<1>6. ASSUME NEW m \in Messages, Exhaust(m) \/ DeliveryLost(m) PROVE G
    BY <1>6 DEF Exhaust, DeliveryLost, processVars
<1>7. CASE Tick \/ UNCHANGED vars
    BY <1>7 DEF Tick, vars, processVars
<1> QED
    BY <1>1, <1>2, <1>3, <1>4, <1>5, <1>6, <1>7 DEF Next, Process

\* Every step changes the server's state in one of these ways.
LEMMA ServerSteps ==
    ASSUME DeliveryProtocol, [Next]_vars
    PROVE  \/ \E S \in SUBSET Messages : Sendable(S) /\ Send(S)
           \/ \E m \in Messages, outcome \in {"acked", "termed"} : Settle(m, outcome)
           \/ \E m \in Messages, delay \in 1..RetryMax : Postpone(m, delay)
           \/ \E m \in Messages : Exhaust(m)
           \/ Tick
           \/ UNCHANGED serverVars
<1> DEFINE G == \/ \E S \in SUBSET Messages : Sendable(S) /\ Send(S)
                \/ \E m \in Messages, outcome \in {"acked", "termed"} : Settle(m, outcome)
                \/ \E m \in Messages, delay \in 1..RetryMax : Postpone(m, delay)
                \/ \E m \in Messages : Exhaust(m)
                \/ Tick
                \/ UNCHANGED serverVars
<1>1. ASSUME NEW p \in Processes, Fetch(p) PROVE G
    BY <1>1, FetchEffect
<1>2. ASSUME NEW p \in Processes, Ack(p) \/ Term(p) PROVE G
    BY <1>2, Working DEF Ack, Term
<1>3. ASSUME NEW p \in Processes, Nak(p) \/ DeadLetterNak(p) PROVE G
    <2>1. cur[p] \in Messages
        BY <1>3, Working DEF Nak, DeadLetterNak
    <2>2. RetryMax \in 1..RetryMax /\ RetryBackoff(Count(p)) \in 1..RetryMax
        BY RetryBackoffBounded
    <2> QED
        BY <1>3, <2>1, <2>2 DEF Nak, DeadLetterNak
<1>4. ASSUME NEW p \in Processes, RejectInvalid(p) \/ Commit(p) \/ CommitFails(p) PROVE G
    BY <1>4 DEF RejectInvalid, Commit, CommitFails
<1>5. ASSUME NEW p \in Processes,
             PublishDeadLetter(p) \/ DeadLetterFails(p) \/ DeadLetterHangs(p)
      PROVE  G
    BY <1>5 DEF PublishDeadLetter, DeadLetterFails, DeadLetterHangs
<1>6. ASSUME NEW p \in Processes,
             Restart(p) \/ Crash(p) \/ Cancel(p) \/ FetchTimeout(p) \/ FetchError(p)
      PROVE  G
    BY <1>6 DEF Restart, Crash, Cancel, FetchTimeout, FetchError
<1>7. ASSUME NEW m \in Messages, DeliveryLost(m) PROVE G
    BY <1>7 DEF DeliveryLost
<1>8. CASE UNCHANGED vars
    BY <1>8 DEF vars
<1> QED
    BY <1>1, <1>2, <1>3, <1>4, <1>5, <1>6, <1>7, <1>8 DEF Next, Process

\* Receipts and dead letters are only ever added, each by a process at that
\* point of its code.
LEMMA EvidenceSteps ==
    ASSUME DeliveryProtocol, [Next]_vars
    PROVE  \/ \E p \in Processes : pc[p] = "process" /\ Record(p) /\ UNCHANGED dead
           \/ \E p \in Processes :
                pc[p] = "deadletter" /\ AddDeadLetter(p) /\ UNCHANGED receipt
           \/ UNCHANGED <<receipt, dead>>
<1> DEFINE G == \/ \E p \in Processes : pc[p] = "process" /\ Record(p) /\ UNCHANGED dead
                \/ \E p \in Processes :
                     pc[p] = "deadletter" /\ AddDeadLetter(p) /\ UNCHANGED receipt
                \/ UNCHANGED <<receipt, dead>>
<1>1. ASSUME NEW p \in Processes, Commit(p) \/ CommitFails(p) PROVE G
    BY <1>1 DEF Commit, CommitFails
<1>2. ASSUME NEW p \in Processes,
             PublishDeadLetter(p) \/ DeadLetterFails(p) \/ DeadLetterHangs(p)
      PROVE  G
    BY <1>2 DEF PublishDeadLetter, DeadLetterFails, DeadLetterHangs
<1>3. ASSUME NEW p \in Processes, Ack(p) \/ Nak(p) \/ DeadLetterNak(p) \/ Term(p) PROVE G
    BY <1>3 DEF Ack, Nak, DeadLetterNak, Term
<1>4. ASSUME NEW p \in Processes,
             \/ Fetch(p) \/ RejectInvalid(p) \/ Restart(p) \/ Crash(p) \/ Cancel(p)
             \/ FetchTimeout(p) \/ FetchError(p)
      PROVE  G
    BY <1>4 DEF Fetch, RejectInvalid, Restart, Crash, Cancel, FetchTimeout, FetchError
<1>5. ASSUME NEW m \in Messages, Exhaust(m) \/ DeliveryLost(m) PROVE G
    BY <1>5 DEF Exhaust, DeliveryLost
<1>6. CASE Tick \/ UNCHANGED vars
    BY <1>6 DEF Tick, vars
<1> QED
    BY <1>1, <1>2, <1>3, <1>4, <1>5, <1>6 DEF Next, Process

\* No step takes a fault back.
LEMMA FaultSteps ==
    ASSUME DeliveryProtocol, [Next]_vars
    PROVE  faults \in Nat /\ faults' \in Nat /\ faults <= faults'
<1>1. faults \in Nat /\ (Fault => faults' = faults + 1)
    BY DEF DeliveryProtocol, TypeOK, Fault
<1> DEFINE G == faults \in Nat /\ faults' \in Nat /\ faults <= faults'
<1>a. Fault \/ UNCHANGED faults => G
    BY <1>1
<1>2. ASSUME NEW p \in Processes, Process(p) PROVE G
    BY <1>2, <1>a
    DEF Process, Fetch, RejectInvalid, Commit, CommitFails, Ack, Nak, PublishDeadLetter,
        DeadLetterFails, DeadLetterNak, Term, Restart
<1>3. ASSUME NEW p \in Processes,
             \/ FetchTimeout(p) \/ FetchError(p) \/ DeadLetterHangs(p) \/ Cancel(p) \/ Crash(p)
      PROVE  G
    BY <1>3, <1>a DEF FetchTimeout, FetchError, DeadLetterHangs, Cancel, Crash
<1>4. ASSUME NEW m \in Messages, Exhaust(m) \/ DeliveryLost(m) PROVE G
    BY <1>4, <1>a DEF Exhaust, DeliveryLost
<1>5. CASE Tick \/ UNCHANGED vars
    BY <1>5, <1>a DEF Tick, vars
<1> QED
    BY <1>2, <1>3, <1>4, <1>5 DEF Next

\* Deliveries, receipts and dead letters never go back.
LEMMA Monotone ==
    ASSUME DeliveryProtocol, [Next]_vars
    PROVE  /\ \A m \in Messages : deliveries[m] <= deliveries'[m] /\ dead[m] <= dead'[m]
           /\ \A i \in EventIds : receipt[i] > 0 => receipt'[i] = receipt[i]
<1>0. ServerTypes /\ EvidenceTypes
    BY TypeParts DEF DeliveryProtocol
<1>1. \A m \in Messages : deliveries[m] <= deliveries'[m]
    <2>1. ASSUME NEW S \in SUBSET Messages, Send(S)
          PROVE  \A m \in Messages : deliveries[m] <= deliveries'[m]
        BY <1>0, <2>1 DEF Send, ServerTypes
    <2> QED
        BY <1>0, <2>1, ServerSteps DEF Settle, Postpone, Exhaust, Tick, serverVars, ServerTypes
<1>2. \A m \in Messages : dead[m] <= dead'[m]
    BY <1>0, EvidenceSteps, Working DEF AddDeadLetter, EvidenceTypes
<1>3. \A i \in EventIds : receipt[i] > 0 => receipt'[i] = receipt[i]
    BY <1>0, EvidenceSteps, Working DEF Record, EvidenceTypes
<1> QED
    BY <1>1, <1>2, <1>3

-----------------------------------------------------------------------------
\* Every step keeps BatchInHand.
LEMMA BatchInHandStep == DeliveryProtocol /\ [Next]_vars => BatchInHand'
<1> SUFFICES ASSUME DeliveryProtocol, [Next]_vars PROVE BatchInHand'
    OBVIOUS
<1>0. ServerTypes /\ ProcessTypes /\ BatchInHand
    BY TypeParts DEF DeliveryProtocol
<1>1. ASSUME NEW p \in Processes, Fetch(p) PROVE BatchInHand'
    <2>1. PICK S \in SUBSET Messages :
            /\ Send(S)
            /\ \A m \in Messages : fetched'[p][m] = IF m \in S THEN deliveries'[m] ELSE 0
            /\ cur'[p] \in S /\ pc'[p] = "process"
            /\ \A q \in Processes \ {p} :
                pc'[q] = pc[q] /\ cur'[q] = cur[q] /\ fetched'[q] = fetched[q]
        BY <1>1, FetchEffect
    <2>2. \A m \in S : deliveries'[m] > 0
        BY <1>0, <2>1 DEF Send, ServerTypes
    <2> QED
        BY <1>0, <2>1, <2>2 DEF BatchInHand, Todo
<1>2. ASSUME NEW p \in Processes, pc[p] # "idle", Return(p) PROVE BatchInHand'
    <2>1. cur[p] \in Messages
        BY <1>2, Working
    <2>2. \A q \in Processes \ {p} : IF pc'[q] = "idle" THEN Todo(q)' = {} ELSE cur'[q] \in Todo(q)'
        BY <1>0, <1>2, <2>1, ReturnEffect DEF BatchInHand, Todo
    <2>3. CASE pc'[p] = "idle" /\ Todo(p) = {cur[p]}
        <3>1. Todo(p)' = {}
            BY <1>0, <1>2, <2>1, <2>3, ReturnEffect DEF Todo, ProcessTypes
        <3> QED
            BY <2>2, <2>3, <3>1 DEF BatchInHand
    <2>4. CASE pc'[p] = "process" /\ cur'[p] \in Todo(p) \ {cur[p]}
        <3>1. cur'[p] \in Todo(p)'
            BY <1>0, <1>2, <2>1, <2>4, ReturnEffect DEF Todo
        <3> QED
            BY <2>2, <2>4, <3>1 DEF BatchInHand
    <2> QED
        BY <1>0, <1>2, <2>1, <2>3, <2>4, ReturnEffect
<1>3. ASSUME NEW p \in Processes, NEW label \in ProcessStates \ {"idle"}, pc[p] # "idle",
             GoTo(p, label)
      PROVE  BatchInHand'
    BY <1>0, <1>3 DEF GoTo, BatchInHand, Todo, ProcessTypes
<1>4. ASSUME NEW p \in Processes, Cancel(p) PROVE BatchInHand'
    BY <1>0, <1>4 DEF Cancel, BatchInHand, Todo, ProcessTypes
<1>5. ASSUME NEW p \in Processes, NewProcess(p) PROVE BatchInHand'
    BY <1>0, <1>5 DEF NewProcess, BatchInHand, Todo, ProcessTypes, Nothing
<1>6. CASE UNCHANGED <<pc, fetched, cur, stopping>>
    BY <1>0, <1>6 DEF BatchInHand, Todo
<1> QED
    BY <1>1, <1>2, <1>3, <1>4, <1>5, <1>6, ProcessSteps

\* Every step keeps CountsTrue.
LEMMA CountsTrueStep == DeliveryProtocol /\ [Next]_vars => CountsTrue'
<1> SUFFICES ASSUME DeliveryProtocol, [Next]_vars PROVE CountsTrue'
    OBVIOUS
<1>0. ServerTypes /\ ProcessTypes /\ CountsTrue
    BY TypeParts DEF DeliveryProtocol
<1>1. \A m \in Messages : /\ state'[m] = "new" => deliveries'[m] = 0
                          /\ state'[m] = "exhausted" => deliveries'[m] = MaxDeliver
    <2> DEFINE H == \A m \in Messages : /\ state'[m] = "new" => deliveries'[m] = 0
                                        /\ state'[m] = "exhausted" => deliveries'[m] = MaxDeliver
    <2>1. ASSUME NEW S \in SUBSET Messages, Send(S) PROVE H
        BY <1>0, <2>1 DEF Send, CountsTrue, ServerTypes
    <2>2. ASSUME NEW m \in Messages, NEW outcome \in {"acked", "termed"}, Settle(m, outcome)
          PROVE  H
        BY <1>0, <2>2 DEF Settle, CountsTrue, ServerTypes
    <2>3. ASSUME NEW m \in Messages, Exhaust(m) PROVE H
        BY <1>0, <2>3 DEF Exhaust, CountsTrue, ServerTypes
    <2>4. ASSUME UNCHANGED <<state, deliveries>> PROVE H
        BY <1>0, <2>4 DEF CountsTrue
    <2> QED
        BY <2>1, <2>2, <2>3, <2>4, ServerSteps DEF Postpone, Tick, serverVars
<1>2. \A p \in Processes : \A m \in Messages : fetched'[p][m] <= deliveries'[m]
    <2>0. deliveries' \in [Messages -> 0..MaxDeliver]
        BY TypeStep DEF TypeOK
    <2>a. \A q \in Processes, m \in Messages :
            /\ fetched[q][m] \in Nat /\ deliveries[m] \in Nat /\ deliveries'[m] \in Nat
            /\ fetched[q][m] <= deliveries[m] /\ deliveries[m] <= deliveries'[m]
        BY <1>0, <2>0, Monotone DEF CountsTrue, ServerTypes, ProcessTypes
    <2>1. SUFFICES ASSUME NEW q \in Processes, NEW m \in Messages
                   PROVE  fetched'[q][m] = deliveries'[m] \/ fetched'[q][m] \in {0, fetched[q][m]}
        <3>1. \A q \in Processes, m \in Messages :
                (fetched'[q][m] = deliveries'[m] \/ fetched'[q][m] \in {0, fetched[q][m]})
                    => fetched'[q][m] <= deliveries'[m]
            BY <2>a
        <3> QED
            BY <3>1
    <2>2. ASSUME NEW p \in Processes, Fetch(p)
          PROVE  fetched'[q][m] = deliveries'[m] \/ fetched'[q][m] \in {0, fetched[q][m]}
        BY <2>2, FetchEffect
    <2>3. ASSUME NEW p \in Processes, pc[p] # "idle", Return(p)
          PROVE  fetched'[q][m] \in {0, fetched[q][m]}
        BY <1>0, <2>3, ReturnEffect, Working
    <2>4. ASSUME NEW p \in Processes, NewProcess(p)
          PROVE  fetched'[q][m] \in {0, fetched[q][m]}
        BY <1>0, <2>4 DEF NewProcess, ProcessTypes, Nothing
    <2> QED
        BY <2>2, <2>3, <2>4, ProcessSteps DEF GoTo, Cancel
<1> QED
    BY <1>1, <1>2 DEF CountsTrue

\* EvidenceStored, of one process.
EvidenceOf(p) ==
    /\ pc[p] = "ack" => receipt[Id(p)] > 0
    /\ pc[p] = "term" => dead[cur[p]] > 0
    /\ pc[p] \in {"deadletter", "hung", "deadnak", "term"} /\ cur[p] \in Valid =>
          Count(p) = MaxDeliver /\ faults >= MaxDeliver

\* The evidence of a process that does not move stays.
LEMMA EvidenceKept ==
    ASSUME DeliveryProtocol, [Next]_vars, NEW p \in Processes,
           pc'[p] = pc[p], cur'[p] = cur[p], fetched'[p] = fetched[p]
    PROVE  EvidenceOf(p)'
<1>0. EvidenceTypes /\ EvidenceStored
    BY TypeParts DEF DeliveryProtocol
<1>1. EvidenceTypes' /\ Id(p)' = Id(p) /\ Count(p)' = Count(p)
    BY TypeStep DEF TypeOK, EvidenceTypes, Id, Count
<1>2. pc[p] = "ack" => receipt'[Id(p)] > 0
    <2>1. pc[p] = "ack" => Id(p) \in EventIds /\ receipt[Id(p)] > 0
        BY <1>0, Working DEF EvidenceStored
    <2> QED
        BY <2>1, Monotone
<1>3. pc[p] = "term" => dead'[cur[p]] > 0
    <2>1. pc[p] = "term" => cur[p] \in Messages /\ dead[cur[p]] > 0
        BY <1>0, Working DEF EvidenceStored
    <2> QED
        BY <1>0, <1>1, <2>1, Monotone DEF EvidenceTypes
<1>4. faults >= MaxDeliver => faults' >= MaxDeliver
    BY FaultSteps
<1> QED
    BY <1>0, <1>1, <1>2, <1>3, <1>4 DEF EvidenceOf, EvidenceStored

\* A fault pays for every delivery made so far, in whose hand it is.
LEMMA FaultPays ==
    ASSUME DeliveryProtocol, Fault
    PROVE  /\ \A m \in Messages : deliveries[m] <= faults'
           /\ \A p \in Processes, m \in Messages : fetched[p][m] <= faults'
<1>1. ServerTypes /\ ProcessTypes /\ faults \in Nat /\ faults' = faults + 1
    BY TypeParts DEF DeliveryProtocol, Fault
<1>2. \A m \in Messages : deliveries[m] \in Nat /\ deliveries[m] <= faults'
    BY <1>1 DEF DeliveryProtocol, DeliveriesPaid, ServerTypes
<1>3. \A p \in Processes, m \in Messages :
        fetched[p][m] \in Nat /\ fetched[p][m] <= deliveries[m]
    BY <1>1 DEF DeliveryProtocol, CountsTrue, ProcessTypes
<1> QED
    BY <1>1, <1>2, <1>3

\* What the server sends, it sends for the first time or because something
\* went wrong with the delivery before.
LEMMA SendPaid ==
    ASSUME DeliveryProtocol, NEW S \in SUBSET Messages, Sendable(S)
    PROVE  \A m \in S : deliveries[m] <= faults
<1>1. ServerTypes /\ faults \in Nat
    BY TypeParts DEF DeliveryProtocol
<1>2. \A m \in Messages : deliveries[m] \in Nat
    BY <1>1 DEF ServerTypes
<1>3. \A m \in Fresh : deliveries[m] = 0
    BY DEF DeliveryProtocol, CountsTrue, Fresh
<1>4. \A m \in Due : deliveries[m] <= faults
    BY <1>1, <1>2 DEF DeliveryProtocol, UnpaidInHand, Due, Pending
<1> QED
    BY <1>1, <1>3, <1>4 DEF Sendable

\* A process that failed to record or to dead-letter a message has been told
\* only counts that faults have paid for.
LEMMA FailurePaid ==
    ASSUME DeliveryProtocol, [Next]_vars, NEW p \in Processes, stopping[p] \/ Fault
    PROVE  \A m \in Messages : fetched[p][m] <= faults'
<1>1. ASSUME stopping[p] PROVE \A m \in Messages : fetched[p][m] <= faults
    BY <1>1 DEF DeliveryProtocol, TroublePaid
<1>2. \A m \in Messages : fetched[p][m] \in Nat
    BY DEF DeliveryProtocol, TypeOK
<1> QED
    BY <1>1, <1>2, FaultPays, FaultSteps

-----------------------------------------------------------------------------
\* Every step keeps EvidenceStored.
LEMMA EvidenceStoredStep == DeliveryProtocol /\ [Next]_vars => EvidenceStored'
<1> SUFFICES ASSUME DeliveryProtocol, [Next]_vars, NEW q \in Processes PROVE EvidenceOf(q)'
    BY DEF EvidenceOf, EvidenceStored
<1>0. ServerTypes /\ EvidenceTypes /\ ProcessTypes /\ faults \in Nat /\ EvidenceStored
    BY TypeParts DEF DeliveryProtocol
<1>a. SUFFICES ASSUME ~(pc'[q] = pc[q] /\ cur'[q] = cur[q] /\ fetched'[q] = fetched[q])
               PROVE  EvidenceOf(q)'
    BY EvidenceKept
<1>b. pc'[q] \in {"idle", "process", "nak"} => EvidenceOf(q)'
    BY DEF EvidenceOf
<1>c. ASSUME NEW p \in Processes, NEW label \in ProcessStates, GoTo(p, label)
      PROVE  p = q /\ pc'[q] = label /\ cur'[q] = cur[q] /\ fetched'[q] = fetched[q]
    BY <1>0, <1>a, <1>c DEF GoTo, ProcessTypes
<1>d. pc[q] \in {"deadletter", "hung", "deadnak", "term"} /\ cur[q] \in Valid =>
          Count(q) = MaxDeliver /\ faults' >= MaxDeliver
    BY <1>0, FaultSteps DEF EvidenceStored
<1>1. ASSUME NEW p \in Processes, Fetch(p) PROVE EvidenceOf(q)'
    BY <1>1, <1>a, <1>b, FetchEffect
<1>2. ASSUME NEW p \in Processes, Return(p), pc[p] # "idle" PROVE EvidenceOf(q)'
    BY <1>0, <1>2, <1>a, <1>b, ReturnEffect, Working
<1>3. ASSUME NEW p \in Processes, RejectInvalid(p) PROVE EvidenceOf(q)'
    BY <1>3, <1>c DEF RejectInvalid, EvidenceOf, ProcessStates
<1>4. ASSUME NEW p \in Processes, Commit(p) PROVE EvidenceOf(q)'
    <2>1. p = q /\ pc'[q] = "ack" /\ cur'[q] = cur[q]
        BY <1>4, <1>c DEF Commit, ProcessStates
    <2>2. receipt'[Id(q)] > 0
        BY <1>0, <1>4, <2>1, Working DEF Commit, Record, EvidenceTypes
    <2> QED
        BY <2>1, <2>2 DEF EvidenceOf, Id
<1>5. ASSUME NEW p \in Processes, CommitFails(p) PROVE EvidenceOf(q)'
    <2>1. /\ p = q /\ pc'[q] = AfterFailure(q)
          /\ cur'[q] = cur[q] /\ fetched'[q] = fetched[q]
        <3>1. AfterFailure(p) \in ProcessStates
            BY DEF AfterFailure, ProcessStates
        <3> QED
            BY <1>5, <1>c, <3>1 DEF CommitFails
    <2>2. Count(q) \in 1..MaxDeliver /\ Count(q) <= faults'
        BY <1>5, <2>1, FailurePaid, Working DEF CommitFails, Count
    <2>3. CASE Count(q) >= MaxDeliver
        <3>1. Count(q)' = MaxDeliver /\ faults' >= MaxDeliver
            BY <2>1, <2>2, <2>3, FaultSteps DEF Count
        <3> QED
            BY <2>1, <2>3, <3>1 DEF AfterFailure, EvidenceOf
    <2>4. CASE ~(Count(q) >= MaxDeliver)
        BY <2>1, <2>4, <1>b DEF AfterFailure
    <2> QED
        BY <2>3, <2>4
<1>6. ASSUME NEW p \in Processes, PublishDeadLetter(p) PROVE EvidenceOf(q)'
    <2>1. p = q /\ pc'[q] = "term" /\ cur'[q] = cur[q] /\ fetched'[q] = fetched[q]
        BY <1>6, <1>c DEF PublishDeadLetter, ProcessStates
    <2>2. dead'[cur[q]] > 0
        BY <1>0, <1>6, <2>1, Working DEF PublishDeadLetter, AddDeadLetter, EvidenceTypes
    <2> QED
        BY <1>6, <2>1, <2>2, <1>d DEF PublishDeadLetter, EvidenceOf, Count
<1>7. ASSUME NEW p \in Processes, DeadLetterFails(p) \/ DeadLetterHangs(p) PROVE EvidenceOf(q)'
    <2>1. /\ p = q /\ pc'[q] \in {"deadnak", "hung"}
          /\ cur'[q] = cur[q] /\ fetched'[q] = fetched[q] /\ pc[q] = "deadletter"
        BY <1>7, <1>c DEF DeadLetterFails, DeadLetterHangs, ProcessStates
    <2> QED
        BY <2>1, <1>d DEF EvidenceOf, Count
<1>8. ASSUME NEW p \in Processes, Cancel(p) PROVE EvidenceOf(q)'
    <2>1. pc[q] = "hung" /\ pc'[q] = "deadnak" /\ cur'[q] = cur[q] /\ fetched'[q] = fetched[q]
        BY <1>0, <1>8, <1>a DEF Cancel, ProcessTypes
    <2> QED
        BY <2>1, <1>d DEF EvidenceOf, Count
<1>9. ASSUME NEW p \in Processes, NewProcess(p) PROVE EvidenceOf(q)'
    BY <1>0, <1>9, <1>a, <1>b DEF NewProcess, ProcessTypes
<1>10. ASSUME UNCHANGED <<pc, fetched, cur>> PROVE EvidenceOf(q)'
    BY <1>10, <1>a
<1>11. ASSUME NEW p \in Processes, Process(p) PROVE EvidenceOf(q)'
    BY <1>11, <1>1, <1>2, <1>3, <1>4, <1>5, <1>6, <1>7, <1>9
    DEF Process, Ack, Nak, DeadLetterNak, Term, Restart
<1>12. ASSUME NEW p \in Processes,
              \/ FetchTimeout(p) \/ FetchError(p) \/ DeadLetterHangs(p)
              \/ Cancel(p) \/ Crash(p)
       PROVE  EvidenceOf(q)'
    BY <1>12, <1>7, <1>8, <1>9, <1>10 DEF FetchTimeout, FetchError, Crash
<1>13. ASSUME NEW m \in Messages, Exhaust(m) \/ DeliveryLost(m) PROVE EvidenceOf(q)'
    BY <1>13, <1>10 DEF Exhaust, DeliveryLost, processVars
<1> QED
    BY <1>10, <1>11, <1>12, <1>13 DEF Next, Tick, vars, processVars

\* Every step keeps TroublePaid.
LEMMA TroublePaidStep == DeliveryProtocol /\ [Next]_vars => TroublePaid'
<1> SUFFICES ASSUME DeliveryProtocol, [Next]_vars, NEW q \in Processes,
                    stopping'[q] \/ pc'[q] \in {"nak", "deadnak", "hung"}
             PROVE  \A m \in Messages : fetched'[q][m] <= faults'
    BY DEF TroublePaid
<1>0. ProcessTypes /\ faults \in Nat /\ TroublePaid
    BY TypeParts DEF DeliveryProtocol
<1> DEFINE H == \A m \in Messages : fetched'[q][m] <= faults'
<1>a. (stopping[q] \/ pc[q] \in {"nak", "deadnak", "hung"}) /\ fetched'[q] = fetched[q] => H
    <2>1. ASSUME stopping[q] \/ pc[q] \in {"nak", "deadnak", "hung"}, fetched'[q] = fetched[q],
                 NEW m \in Messages
          PROVE  fetched'[q][m] <= faults'
        <3>1. fetched[q][m] \in Nat /\ fetched[q][m] <= faults
            BY <1>0, <2>1 DEF TroublePaid, ProcessTypes
        <3> QED
            BY <2>1, <3>1, FaultSteps
    <2> QED
        BY <2>1
<1>b. (stopping[q] \/ Fault) /\ fetched'[q] = fetched[q] => H
    BY FailurePaid
<1>c. ASSUME NEW p \in Processes, NEW label \in ProcessStates, GoTo(p, label)
      PROVE  /\ fetched' = fetched /\ stopping' = stopping
             /\ p # q => pc'[q] = pc[q]
             /\ p = q => pc'[q] = label
    BY <1>0, <1>c DEF GoTo, ProcessTypes
<1>1. ASSUME NEW p \in Processes, Fetch(p) PROVE H
    <2>1. p # q
        BY <1>1, FetchEffect DEF Fetch
    <2> QED
        BY <1>1, <2>1, <1>a, FetchEffect
<1>2. ASSUME NEW p \in Processes, pc[p] # "idle", Return(p) PROVE H
    <2>1. CASE p # q
        BY <1>0, <1>2, <2>1, <1>a, ReturnEffect, Working
    <2>2. CASE p = q
        <3>1. stopping[q]
            BY <1>0, <1>2, <2>2, ReturnEffect, Working
        <3>2. \A m \in Messages : fetched[q][m] \in Nat /\ fetched[q][m] <= faults
            BY <1>0, <3>1 DEF TroublePaid, ProcessTypes
        <3>3. \A m \in Messages : fetched'[q][m] \in {0, fetched[q][m]}
            BY <1>0, <1>2, <2>2, ReturnEffect, Working
        <3> QED
            BY <3>2, <3>3, FaultSteps
    <2> QED
        BY <2>1, <2>2
<1>3. ASSUME NEW p \in Processes, RejectInvalid(p) \/ Commit(p) \/ PublishDeadLetter(p) PROVE H
    BY <1>3, <1>a, <1>c DEF RejectInvalid, Commit, PublishDeadLetter, ProcessStates
<1>4. ASSUME NEW p \in Processes, CommitFails(p) \/ DeadLetterFails(p) \/ DeadLetterHangs(p)
      PROVE  H
    <2>1. PICK label \in ProcessStates : GoTo(p, label)
        BY <1>4 DEF CommitFails, DeadLetterFails, DeadLetterHangs, AfterFailure, ProcessStates
    <2>2. stopping[p] \/ Fault
        BY <1>4 DEF CommitFails, DeadLetterFails, DeadLetterHangs
    <2> QED
        BY <2>1, <2>2, <1>a, <1>b, <1>c
<1>5. ASSUME NEW p \in Processes, Cancel(p) PROVE H
    BY <1>5, <1>b DEF Cancel
<1>6. ASSUME NEW p \in Processes, NewProcess(p) PROVE H
    <2>1. /\ p # q => pc'[q] = pc[q] /\ stopping'[q] = stopping[q] /\ fetched'[q] = fetched[q]
          /\ p = q => pc'[q] = "idle" /\ ~stopping'[q]
        BY <1>0, <1>6 DEF NewProcess, ProcessTypes
    <2> QED
        BY <2>1, <1>a
<1>7. ASSUME UNCHANGED <<pc, fetched, stopping>> PROVE H
    BY <1>7, <1>a
<1>8. ASSUME NEW p \in Processes, Process(p) PROVE H
    BY <1>8, <1>1, <1>2, <1>3, <1>4, <1>6
    DEF Process, Ack, Nak, DeadLetterNak, Term, Restart
<1>9. ASSUME NEW p \in Processes,
             \/ FetchTimeout(p) \/ FetchError(p) \/ DeadLetterHangs(p)
             \/ Cancel(p) \/ Crash(p)
      PROVE  H
    BY <1>9, <1>4, <1>5, <1>6, <1>7 DEF FetchTimeout, FetchError, Crash
<1>10. ASSUME NEW m \in Messages, Exhaust(m) \/ DeliveryLost(m) PROVE H
    BY <1>10, <1>7 DEF Exhaust, DeliveryLost, processVars
<1> QED
    BY <1>7, <1>8, <1>9, <1>10 DEF Next, Tick, vars, processVars

\* Every step keeps UnpaidInHand: a step that ends a delivery without
\* settling it is a fault, which pays for it.
LEMMA UnpaidInHandStep == DeliveryProtocol /\ [Next]_vars => UnpaidInHand'
<1> SUFFICES ASSUME DeliveryProtocol, [Next]_vars, NEW m \in Messages,
                    state'[m] = "pending", deliveries'[m] > faults'
             PROVE  deadline'[m] > 0 /\ \E p \in Processes : fetched'[p][m] > faults'
    BY DEF UnpaidInHand, Pending
<1>0. ServerTypes /\ ProcessTypes /\ faults \in Nat
    BY TypeParts DEF DeliveryProtocol
<1> DEFINE H == deadline'[m] > 0 /\ \E p \in Processes : fetched'[p][m] > faults'
<1>a. ASSUME Fault, UNCHANGED deliveries PROVE FALSE
    BY <1>0, <1>a, FaultPays DEF ServerTypes, Fault
<1>b. state[m] = "pending" /\ deliveries[m] > faults =>
        deadline[m] > 0 /\ \E p \in Processes : fetched[p][m] > faults
    BY DEF DeliveryProtocol, UnpaidInHand, Pending
<1>c. ASSUME UNCHANGED <<serverVars, fetched, faults>> PROVE H
    BY <1>b, <1>c DEF serverVars
<1>1. ASSUME NEW p \in Processes, Fetch(p) PROVE H
    <2>1. PICK S \in SUBSET Messages :
            /\ Send(S) /\ UNCHANGED faults
            /\ fetched'[p][m] = IF m \in S THEN deliveries'[m] ELSE 0
            /\ \A q \in Processes \ {p} : fetched'[q] = fetched[q]
        BY <1>1, FetchEffect
    <2>2. CASE m \in S
        BY <2>1, <2>2 DEF Send
    <2>3. CASE m \notin S
        <3>1. fetched[p][m] = 0
            BY <1>0, <1>1 DEF DeliveryProtocol, BatchInHand, Fetch, Todo, ProcessTypes
        <3>2. /\ state'[m] = state[m] /\ deliveries'[m] = deliveries[m]
              /\ deadline'[m] = deadline[m]
            BY <2>1, <2>3 DEF Send
        <3>3. PICK q \in Processes : fetched[q][m] > faults
            BY <1>b, <2>1, <3>2
        <3>4. q # p
            BY <1>0, <3>1, <3>3
        <3> QED
            BY <1>b, <2>1, <3>2, <3>3, <3>4
    <2> QED
        BY <2>2, <2>3
<1>2. ASSUME NEW p \in Processes, Ack(p) \/ Term(p) PROVE H
    <2>1. PICK outcome \in {"acked", "termed"} : Settle(cur[p], outcome) /\ UNCHANGED faults
        BY <1>2, <1>a DEF Ack, Term, serverVars
    <2>2. cur[p] # m
        BY <1>0, <2>1 DEF Settle, ServerTypes
    <2>3. \A q \in Processes : fetched'[q][m] = fetched[q][m]
        <3>1. cur[p] \in Messages /\ Return(p)
            BY <1>2, Working DEF Ack, Term
        <3> QED
            BY <1>0, <2>2, <3>1, ReturnEffect
    <2>4. state[m] = "pending" /\ UNCHANGED <<deliveries, deadline>>
        BY <1>0, <2>1, <2>2 DEF Settle, ServerTypes
    <2> QED
        BY <1>b, <2>1, <2>3, <2>4
<1>3. ASSUME NEW p \in Processes, Nak(p) \/ DeadLetterNak(p) PROVE H
    <2>1. PICK delay \in 1..RetryMax : Postpone(cur[p], delay) /\ UNCHANGED faults
        <3>1. RetryMax \in 1..RetryMax /\ RetryBackoff(Count(p)) \in 1..RetryMax
            BY RetryBackoffBounded
        <3> QED
            BY <1>3, <1>a, <3>1 DEF Nak, DeadLetterNak, serverVars
    <2>2. cur[p] \in Messages /\ pc[p] \in {"nak", "deadnak"} /\ Return(p)
        BY <1>3, Working DEF Nak, DeadLetterNak
    <2>3. /\ UNCHANGED <<state, deliveries>>
          /\ deadline'[m] = deadline[m] \/ deadline'[m] = delay
        BY <1>0, <2>1, <2>2 DEF Postpone, ServerTypes
    <2>4. PICK q \in Processes : fetched[q][m] > faults
        BY <1>b, <2>1, <2>3
    <2>5. q # p
        <3>1. fetched[p][m] \in Nat /\ fetched[q][m] \in Nat
            BY <1>0 DEF ProcessTypes
        <3>2. fetched[p][m] <= faults
            BY <2>2 DEF DeliveryProtocol, TroublePaid
        <3> QED
            BY <1>0, <2>4, <3>1, <3>2
    <2>6. fetched'[q][m] = fetched[q][m]
        BY <1>0, <2>2, <2>5, ReturnEffect
    <2> QED
        BY <1>b, <2>1, <2>3, <2>4, <2>6
<1>4. ASSUME NEW p \in Processes, RejectInvalid(p) \/ Commit(p) \/ CommitFails(p) PROVE H
    BY <1>4, <1>a, <1>c DEF RejectInvalid, Commit, CommitFails, GoTo, serverVars
<1>5. ASSUME NEW p \in Processes,
             PublishDeadLetter(p) \/ DeadLetterFails(p) \/ DeadLetterHangs(p)
      PROVE  H
    BY <1>5, <1>a, <1>c DEF PublishDeadLetter, DeadLetterFails, DeadLetterHangs, GoTo, serverVars
<1>6. ASSUME NEW p \in Processes, Restart(p) PROVE H
    <2>1. fetched[p][m] = 0
        BY <1>0, <1>6 DEF DeliveryProtocol, BatchInHand, Restart, Todo, ProcessTypes
    <2>2. UNCHANGED <<serverVars, faults>> /\ \A q \in Processes \ {p} : fetched'[q] = fetched[q]
        BY <1>0, <1>6 DEF Restart, NewProcess, ProcessTypes
    <2>3. PICK q \in Processes : fetched[q][m] > faults
        BY <1>b, <2>2 DEF serverVars
    <2>4. q # p
        BY <1>0, <2>1, <2>3
    <2> QED
        BY <1>b, <2>2, <2>3, <2>4 DEF serverVars
<1>7. ASSUME NEW p \in Processes, FetchTimeout(p) \/ FetchError(p) \/ Cancel(p) \/ Crash(p)
      PROVE  H
    BY <1>7, <1>a, <1>c DEF FetchTimeout, FetchError, Cancel, Crash, serverVars
<1>8. ASSUME NEW n \in Messages, Exhaust(n) PROVE H
    <2>1. n # m
        BY <1>0, <1>8 DEF Exhaust, ServerTypes
    <2> QED
        BY <1>0, <1>8, <1>b, <2>1 DEF Exhaust, processVars, ServerTypes
<1>9. ASSUME NEW n \in Messages, DeliveryLost(n) PROVE H
    <2>1. deliveries[m] \in Nat /\ faults' = faults + 1
        BY <1>0, <1>9 DEF DeliveryLost, Fault, ServerTypes
    <2>2. CASE m = n
        BY <1>0, <1>9, <2>1, <2>2, SendPaid DEF DeliveryLost, Send
    <2>3. CASE m # n
        BY <1>9, <2>1, <2>3, FaultPays DEF DeliveryLost, Send
    <2> QED
        BY <2>2, <2>3
<1>10. CASE Tick
    <2>1. ~Overrun /\ UNCHANGED <<state, deliveries, fetched, pc, faults>>
        BY <1>10, <1>a DEF Tick, processVars
    <2>2. PICK q \in Processes : fetched[q][m] > faults
        BY <1>b, <2>1
    <2>3. m \in Todo(q) /\ pc[q] # "hung"
        <3>1. fetched[q][m] \in Nat
            BY <1>0 DEF ProcessTypes
        <3> QED
            BY <1>0, <2>2, <3>1 DEF DeliveryProtocol, TroublePaid, Todo
    <2>4. deadline[m] \in Nat /\ deadline[m] # 1 /\ deadline[m] > 0
        BY <1>0, <1>b, <2>1, <2>3 DEF Overrun, ServerTypes
    <2>5. deadline'[m] > 0
        BY <1>10, <2>4 DEF Tick
    <2> QED
        BY <2>1, <2>2, <2>5
<1>11. CASE UNCHANGED vars
    BY <1>11, <1>c DEF vars, processVars
<1> QED
    BY <1>1, <1>2, <1>3, <1>4, <1>5, <1>6, <1>7, <1>8, <1>9, <1>10, <1>11 DEF Next, Process

\* Every step keeps ForgottenIsHandled.
LEMMA ForgottenIsHandledStep == DeliveryProtocol /\ [Next]_vars => ForgottenIsHandled'
<1> SUFFICES ASSUME DeliveryProtocol, [Next]_vars, NEW m \in Messages
             PROVE  /\ state'[m] = "acked" => receipt'[EventOf[m]] > 0
                    /\ state'[m] = "termed" => dead'[m] > 0
    BY DEF ForgottenIsHandled
<1>0. ServerTypes /\ EvidenceTypes /\ EvidenceTypes' /\ EvidenceStored
    BY TypeParts, TypeStep DEF DeliveryProtocol, TypeOK, EvidenceTypes
<1>a. receipt[EventOf[m]] > 0 => receipt'[EventOf[m]] > 0
    BY Monotone
<1>b. dead[m] > 0 => dead'[m] > 0
    BY <1>0, Monotone DEF EvidenceTypes
<1>c. ASSUME state'[m] = state[m] \/ state'[m] \in {"new", "pending", "exhausted"}
      PROVE  /\ state'[m] = "acked" => receipt'[EventOf[m]] > 0
             /\ state'[m] = "termed" => dead'[m] > 0
    BY <1>c, <1>a, <1>b DEF DeliveryProtocol, ForgottenIsHandled
<1>1. ASSUME NEW S, Send(S)
      PROVE  state'[m] = state[m] \/ state'[m] \in {"new", "pending", "exhausted"}
    BY <1>1 DEF Send
<1>2. ASSUME NEW n \in Messages, Exhaust(n)
      PROVE  state'[m] = state[m] \/ state'[m] \in {"new", "pending", "exhausted"}
    BY <1>0, <1>2 DEF Exhaust, ServerTypes
<1>3. ASSUME NEW p \in Processes, Ack(p), state'[m] # state[m]
      PROVE  state'[m] = "acked" /\ receipt'[EventOf[m]] > 0
    <2>1. cur[p] \in Messages /\ receipt[EventOf[cur[p]]] > 0
        BY <1>0, <1>3, Working DEF Ack, EvidenceStored, Id
    <2>2. Settle(cur[p], "acked")
        BY <1>3 DEF Ack, serverVars
    <2> QED
        BY <1>0, <1>3, <1>a, <2>1, <2>2 DEF Settle, ServerTypes
<1>4. ASSUME NEW p \in Processes, Term(p), state'[m] # state[m]
      PROVE  state'[m] = "termed" /\ dead'[m] > 0
    <2>1. cur[p] \in Messages /\ dead[cur[p]] > 0
        BY <1>0, <1>4, Working DEF Term, EvidenceStored
    <2>2. Settle(cur[p], "termed")
        BY <1>4 DEF Term, serverVars
    <2> QED
        BY <1>0, <1>4, <1>b, <2>1, <2>2 DEF Settle, ServerTypes
<1>5. ASSUME NEW p \in Processes, Process(p), ~Ack(p), ~Term(p), ~Fetch(p)
      PROVE  UNCHANGED state
    BY <1>5
    DEF Process, RejectInvalid, Commit, CommitFails, Nak, Postpone, PublishDeadLetter,
        DeadLetterFails, DeadLetterNak, Restart, serverVars
<1>6. ASSUME NEW p \in Processes,
             \/ FetchTimeout(p) \/ FetchError(p) \/ DeadLetterHangs(p) \/ Cancel(p) \/ Crash(p)
      PROVE  UNCHANGED state
    BY <1>6 DEF FetchTimeout, FetchError, DeadLetterHangs, Cancel, Crash, serverVars
<1>7. ASSUME NEW p \in Processes, Fetch(p)
      PROVE  state'[m] = state[m] \/ state'[m] \in {"new", "pending", "exhausted"}
    BY <1>1, <1>7, FetchEffect
<1>8. Tick \/ UNCHANGED vars => UNCHANGED state
    BY DEF Tick, vars, serverVars
<1>9. ASSUME NEW n \in Messages, DeliveryLost(n)
      PROVE  state'[m] = state[m] \/ state'[m] \in {"new", "pending", "exhausted"}
    BY <1>1, <1>9 DEF DeliveryLost
<1> QED
    BY <1>c, <1>2, <1>3, <1>4, <1>5, <1>6, <1>7, <1>8, <1>9 DEF Next

\* Every step keeps DeliveriesPaid.
LEMMA DeliveriesPaidStep == DeliveryProtocol /\ [Next]_vars => DeliveriesPaid'
<1> SUFFICES ASSUME DeliveryProtocol, [Next]_vars, NEW m \in Messages
             PROVE  deliveries'[m] <= faults' + 1
    BY DEF DeliveriesPaid
<1>0. deliveries[m] \in Nat /\ deliveries[m] <= faults + 1
    BY DEF DeliveryProtocol, DeliveriesPaid, TypeOK
<1>1. ASSUME NEW S \in SUBSET Messages, Sendable(S), Send(S) PROVE deliveries'[m] <= faults' + 1
    <2>1. CASE m \in S
        BY <1>0, <1>1, <2>1, SendPaid, FaultSteps DEF Send
    <2>2. CASE m \notin S
        BY <1>0, <1>1, <2>2, FaultSteps DEF Send
    <2> QED
        BY <2>1, <2>2
<1>2. ASSUME UNCHANGED deliveries PROVE deliveries'[m] <= faults' + 1
    BY <1>0, <1>2, FaultSteps
<1> QED
    BY <1>1, <1>2, ServerSteps DEF Settle, Postpone, Exhaust, Tick, serverVars

\* Every step keeps DeadLetterIsLastResort.
LEMMA DeadLetterIsLastResortStep ==
    DeliveryProtocol /\ [Next]_vars => DeadLetterIsLastResort'
<1> SUFFICES ASSUME DeliveryProtocol, [Next]_vars, NEW m \in Valid, dead'[m] > 0
             PROVE  deliveries'[m] = MaxDeliver /\ faults' >= MaxDeliver
    BY DEF DeadLetterIsLastResort
<1>0. /\ m \in Messages /\ EvidenceTypes /\ deliveries[m] \in 0..MaxDeliver
      /\ deliveries'[m] \in 0..MaxDeliver
    BY TypeParts, TypeStep DEF DeliveryProtocol, TypeOK
<1>1. SUFFICES deliveries[m] = MaxDeliver /\ faults >= MaxDeliver
    <2>1. deliveries[m] <= deliveries'[m]
        BY <1>0, Monotone
    <2> QED
        BY <1>0, <2>1, FaultSteps
<1>2. CASE dead[m] > 0
    BY <1>2 DEF DeliveryProtocol, DeadLetterIsLastResort
<1>3. ASSUME ~(dead[m] > 0) PROVE deliveries[m] = MaxDeliver /\ faults >= MaxDeliver
    <2>1. PICK p \in Processes : pc[p] = "deadletter" /\ AddDeadLetter(p)
        BY <1>3, EvidenceSteps
    <2>2. cur[p] = m
        BY <1>0, <1>3, <2>1 DEF AddDeadLetter, EvidenceTypes
    <2>3. Count(p) = MaxDeliver /\ faults >= MaxDeliver
        BY <2>1, <2>2 DEF DeliveryProtocol, EvidenceStored
    <2>4. Count(p) <= deliveries[m]
        BY <2>1, <2>2, Working
    <2> QED
        BY <1>0, <2>3, <2>4
<1> QED
    BY <1>2, <1>3

-----------------------------------------------------------------------------
\* The initial state satisfies the delivery protocol.
LEMMA DeliveryProtocolInit == Init => DeliveryProtocol
<1> SUFFICES ASSUME Init PROVE DeliveryProtocol
    OBVIOUS
<1>1. TypeOK
    BY DEF Init, TypeOK, Nothing, ServerStates, ProcessStates
<1>2. BatchInHand /\ CountsTrue
    BY DEF Init, BatchInHand, CountsTrue, Todo, Nothing
<1>3. EvidenceStored /\ TroublePaid /\ UnpaidInHand
    BY DEF Init, EvidenceStored, TroublePaid, UnpaidInHand, Pending
<1>4. ForgottenIsHandled /\ DeliveriesPaid /\ DeadLetterIsLastResort
    BY DEF Init, ForgottenIsHandled, DeliveriesPaid, DeadLetterIsLastResort, Nothing
<1> QED
    BY <1>1, <1>2, <1>3, <1>4 DEF DeliveryProtocol

\* Every step keeps the delivery protocol.
LEMMA DeliveryProtocolStep == DeliveryProtocol /\ [Next]_vars => DeliveryProtocol'
BY TypeStep, BatchInHandStep, CountsTrueStep, EvidenceStoredStep, TroublePaidStep,
   UnpaidInHandStep, ForgottenIsHandledStep, DeliveriesPaidStep, DeadLetterIsLastResortStep
DEF DeliveryProtocol

\* The delivery protocol holds in every reachable state, whatever fetching,
\* redelivery, cancellation, crashes and lost answers do.
THEOREM DeliveryProtocolInvariant == SafetySpec => []DeliveryProtocol
BY DeliveryProtocolInit, DeliveryProtocolStep, PTL DEF SafetySpec

\* Every variable keeps its type: no message is delivered more than
\* MaxDeliver times and no delay exceeds AckWait and redeliveryBackoff's cap.
THEOREM TypeCorrect == SafetySpec => []TypeOK
<1>1. DeliveryProtocol => TypeOK
    BY DEF DeliveryProtocol
<1> QED
    BY <1>1, DeliveryProtocolInvariant, PTL

\* The broker never forgets a message before its receipt has committed
\* (process) or its diagnostic record is stored (deadLetter).
THEOREM ForgottenIsHandledAlways == SafetySpec => []ForgottenIsHandled
<1>1. DeliveryProtocol => ForgottenIsHandled
    BY DEF DeliveryProtocol
<1> QED
    BY <1>1, DeliveryProtocolInvariant, PTL

\* No message is delivered more often than faults account for.
THEOREM DeliveriesPaidAlways == SafetySpec => []DeliveriesPaid
<1>1. DeliveryProtocol => DeliveriesPaid
    BY DEF DeliveryProtocol
<1> QED
    BY <1>1, DeliveryProtocolInvariant, PTL

\* process dead-letters a valid event only on its last delivery and after at
\* least MaxDeliver faults.
THEOREM DeadLetterIsLastResortAlways == SafetySpec => []DeadLetterIsLastResort
<1>1. DeliveryProtocol => DeadLetterIsLastResort
    BY DEF DeliveryProtocol
<1> QED
    BY <1>1, DeliveryProtocolInvariant, PTL

\* The broker gives no message up before MaxDeliver things have gone wrong: a
\* delivery nothing has gone wrong with is in some process's hand with its
\* AckWait running, and Exhaust waits for the end of that.
THEOREM GivenUpIsPaidAlways == SafetySpec => []GivenUpIsPaid
<1>1. Init => GivenUpIsPaid
    BY DEF Init, GivenUpIsPaid
<1>2. DeliveryProtocol /\ GivenUpIsPaid /\ [Next]_vars => GivenUpIsPaid'
    <2> SUFFICES ASSUME DeliveryProtocol, GivenUpIsPaid, [Next]_vars,
                        NEW m \in Messages, state'[m] = "exhausted"
                 PROVE  faults' >= MaxDeliver
        BY DEF GivenUpIsPaid
    <2>0. ServerTypes
        BY TypeParts DEF DeliveryProtocol
    <2>1. faults \in Nat /\ faults' \in Nat /\ faults <= faults'
        BY FaultSteps
    <2>2. CASE state[m] = "exhausted"
        BY <2>1, <2>2, ConsumerAssumption DEF GivenUpIsPaid
    <2>3. CASE state[m] # "exhausted"
        <3>1. Exhaust(m)
            BY <2>0, <2>3, ServerSteps, Working
            DEF Send, Settle, Postpone, Exhaust, Tick, serverVars, ServerTypes
        <3>2. deliveries[m] = MaxDeliver /\ ~(deliveries[m] > faults)
            BY <3>1 DEF Exhaust, DeliveryProtocol, UnpaidInHand
        <3> QED
            BY <2>1, <3>2, ConsumerAssumption
    <2> QED
        BY <2>2, <2>3
<1> QED
    BY <1>1, <1>2, DeliveryProtocolInvariant, PTL DEF SafetySpec

-----------------------------------------------------------------------------
\* The consumer keeps its protocol while others draw on the budget of faults.
LEMMA FaultsElsewhere ==
    /\ DeliveryProtocol
    /\ UNCHANGED <<serverVars, receipt, dead, processVars>>
    /\ faults' \in 0..MaxFaults
    /\ faults <= faults'
    => DeliveryProtocol'
<1> SUFFICES ASSUME DeliveryProtocol,
                    UNCHANGED <<serverVars, receipt, dead, processVars>>,
                    faults' \in 0..MaxFaults, faults <= faults'
             PROVE  DeliveryProtocol'
    OBVIOUS
<1> USE DEF serverVars, processVars
<1>0. /\ faults \in Nat /\ faults' \in Nat /\ deliveries \in [Messages -> 0..MaxDeliver]
      /\ fetched \in [Processes -> [Messages -> 0..MaxDeliver]]
    BY DEF DeliveryProtocol, TypeOK
<1>1. TypeOK'
    BY DEF DeliveryProtocol, TypeOK
<1>2. BatchInHand' /\ CountsTrue' /\ ForgottenIsHandled'
    BY DEF DeliveryProtocol, BatchInHand, CountsTrue, ForgottenIsHandled, Todo
<1>3. EvidenceStored' /\ DeadLetterIsLastResort'
    BY <1>0 DEF DeliveryProtocol, EvidenceStored, DeadLetterIsLastResort, Id, Count
<1>4. TroublePaid' /\ DeliveriesPaid'
    <2>1. \A p \in Processes, m \in Messages : fetched[p][m] \in Nat
        BY <1>0
    <2>2. \A m \in Messages : deliveries[m] \in Nat
        BY <1>0
    <2> QED
        BY <1>0, <2>1, <2>2 DEF DeliveryProtocol, TroublePaid, DeliveriesPaid
<1>5. UnpaidInHand'
    <2>1. \A m \in Messages : deliveries[m] > faults' => faults' = faults
        BY <1>0 DEF DeliveryProtocol, DeliveriesPaid
    <2> QED
        BY <2>1 DEF DeliveryProtocol, UnpaidInHand, Pending
<1> QED
    BY <1>1, <1>2, <1>3, <1>4, <1>5 DEF DeliveryProtocol
=============================================================================
