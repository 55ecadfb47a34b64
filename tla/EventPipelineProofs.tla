------------------------- MODULE EventPipelineProofs -------------------------
(***************************************************************************)
(* Proofs about EventPipeline.  What is proved of either side alone        *)
(* carries over: a step of one side is to the other a step that at most    *)
(* raises the number of faults.                                            *)
(***************************************************************************)
EXTENDS EventPipeline, OutboxCountingProofs

\* The proofs about the consumer, for the consumer of this pipeline.
P == INSTANCE EventConsumerProofs WITH
    Processes <- Consumers, Messages <- Copies, EventIds <- Watched,
    EventOf <- EventOfCopy, Valid <- Copies, NoMessage <- NoCopy,
    state <- conState, deliveries <- conDeliveries, deadline <- conDeadline,
    pc <- conPc, cur <- conCur, lastError <- conError

\* The pipeline's consumer meets the assumption those proofs rest on.
LEMMA ConsumerConfigured ==
    /\ EventOfCopy \in [Copies -> Watched]
    /\ Copies \subseteq Copies
    /\ NoCopy \notin Copies
    /\ MaxDeliver \in Nat \ {0}
    /\ FetchBatch \in Nat \ {0}
    /\ MaxAckPending \in Nat \ {0}
    /\ AckWait \in Nat \ {0}
    /\ RetryBase \in Nat \ {0}
    /\ RetryMax \in Nat
    /\ RetryBase <= RetryMax
    /\ MaxFaults \in Nat
BY PipelineAssumption, EnvironmentAssumption DEF EventOfCopy, Copies, NoCopy, NoEvent

\* The server sends the same messages.
LEMMA SameSends ==
    /\ Con!Due = P!Due /\ Con!Fresh = P!Fresh
    /\ \A S : Con!Cardinality(S) = P!Cardinality(S)
    /\ \A S : Con!Sendable(S) <=> P!Sendable(S)
    /\ \A S : Con!Send(S) <=> P!Send(S)
<1>0. ASSUME NEW S PROVE Con!Cardinality(S) = P!Cardinality(S)
    BY DEF Con!Cardinality, P!Cardinality
<1>1. Con!Pending = P!Pending
    BY DEF Con!Pending, P!Pending
<1>2. Con!Due = P!Due /\ Con!Fresh = P!Fresh
    BY <1>1 DEF Con!Due, P!Due, Con!Fresh, P!Fresh
<1>3. ASSUME NEW S PROVE Con!Sendable(S) <=> P!Sendable(S)
    BY <1>0, <1>1, <1>2 DEF Con!Sendable, P!Sendable
<1>4. ASSUME NEW S PROVE Con!Send(S) <=> P!Send(S)
    BY DEF Con!Send, P!Send
<1> QED
    BY <1>0, <1>2, <1>3, <1>4

\* The consumer's steps and invariant are the ones those proofs are about.
LEMMA SameProcess ==
    ASSUME NEW p \in Consumers
    PROVE  Con!Process(p) => P!Process(p)
<1>1. Con!Fetch(p) => P!Fetch(p)
    BY SameSends DEF Con!Fetch, P!Fetch, Con!SetError, P!SetError
<1>2. Con!RejectInvalid(p) => P!RejectInvalid(p)
    BY DEF Con!RejectInvalid, P!RejectInvalid, Con!GoTo, P!GoTo, Con!serverVars,
        P!serverVars
<1>3. Con!Commit(p) => P!Commit(p)
    BY DEF Con!Commit, P!Commit, Con!Record, P!Record, Con!Count, P!Count, Con!Id, P!Id,
        Con!GoTo, P!GoTo, Con!serverVars, P!serverVars
<1>4. Con!CommitFails(p) => P!CommitFails(p)
    BY DEF Con!CommitFails, P!CommitFails, Con!Record, P!Record, Con!Count, P!Count,
        Con!Id, P!Id, Con!GoTo, P!GoTo, Con!AfterFailure, P!AfterFailure, Con!Fault,
        P!Fault, Con!serverVars, P!serverVars
<1>5. Con!Ack(p) => P!Ack(p)
    BY DEF Con!Ack, P!Ack, Con!Settle, P!Settle, Con!Fault, P!Fault, Con!SetError,
        P!SetError, Con!Return, P!Return, Con!Todo, P!Todo, Con!serverVars, P!serverVars
<1>6. Con!Nak(p) => P!Nak(p)
    BY DEF Con!Nak, P!Nak, Con!Postpone, P!Postpone, Con!RetryBackoff, P!RetryBackoff,
        Con!RetryDoubled, P!RetryDoubled, Con!Count, P!Count, Con!Fault, P!Fault,
        Con!SetError, P!SetError, Con!Return, P!Return, Con!Todo, P!Todo, Con!serverVars,
        P!serverVars
<1>7. Con!PublishDeadLetter(p) => P!PublishDeadLetter(p)
    BY DEF Con!PublishDeadLetter, P!PublishDeadLetter, Con!AddDeadLetter, P!AddDeadLetter,
        Con!GoTo, P!GoTo, Con!serverVars, P!serverVars
<1>8. Con!DeadLetterFails(p) => P!DeadLetterFails(p)
    BY DEF Con!DeadLetterFails, P!DeadLetterFails, Con!AddDeadLetter, P!AddDeadLetter,
        Con!Fault, P!Fault, Con!SetError, P!SetError, Con!GoTo, P!GoTo, Con!serverVars,
        P!serverVars
<1>9. Con!DeadLetterNak(p) => P!DeadLetterNak(p)
    BY DEF Con!DeadLetterNak, P!DeadLetterNak, Con!Postpone, P!Postpone, Con!Fault,
        P!Fault, Con!Return, P!Return, Con!Todo, P!Todo, Con!serverVars, P!serverVars
<1>10. Con!Term(p) => P!Term(p)
    BY DEF Con!Term, P!Term, Con!Settle, P!Settle, Con!Fault, P!Fault, Con!SetError,
        P!SetError, Con!Return, P!Return, Con!Todo, P!Todo, Con!serverVars, P!serverVars
<1>11. Con!Restart(p) => P!Restart(p)
    BY DEF Con!Restart, P!Restart, Con!NewProcess, P!NewProcess, Con!Nothing, P!Nothing,
        Con!SetError, P!SetError, Con!serverVars, P!serverVars
<1> QED
    BY <1>1, <1>2, <1>3, <1>4, <1>5, <1>6, <1>7, <1>8, <1>9, <1>10, <1>11
    DEF Con!Process, P!Process

\* The same for every step of the consumer's side.
LEMMA SameNext == Con!Next => P!Next
<1>1. ASSUME NEW p \in Consumers PROVE Con!FetchTimeout(p) => P!FetchTimeout(p)
    BY DEF Con!FetchTimeout, P!FetchTimeout, Con!SetError, P!SetError, Con!serverVars,
        P!serverVars
<1>2. ASSUME NEW p \in Consumers PROVE Con!FetchError(p) => P!FetchError(p)
    BY DEF Con!FetchError, P!FetchError, Con!Fault, P!Fault, Con!SetError, P!SetError,
        Con!serverVars, P!serverVars
<1>3. ASSUME NEW p \in Consumers PROVE Con!DeadLetterHangs(p) => P!DeadLetterHangs(p)
    BY DEF Con!DeadLetterHangs, P!DeadLetterHangs, Con!AddDeadLetter, P!AddDeadLetter,
        Con!Fault, P!Fault, Con!GoTo, P!GoTo, Con!serverVars, P!serverVars
<1>4. ASSUME NEW p \in Consumers PROVE Con!Cancel(p) => P!Cancel(p)
    BY DEF Con!Cancel, P!Cancel, Con!Fault, P!Fault, Con!serverVars, P!serverVars
<1>5. ASSUME NEW p \in Consumers PROVE Con!Crash(p) => P!Crash(p)
    BY DEF Con!Crash, P!Crash, Con!Fault, P!Fault, Con!NewProcess, P!NewProcess,
        Con!Nothing, P!Nothing, Con!SetError, P!SetError, Con!serverVars, P!serverVars
<1>6. ASSUME NEW m \in Copies PROVE Con!Exhaust(m) => P!Exhaust(m)
    BY DEF Con!Exhaust, P!Exhaust, Con!Pending, P!Pending, Con!processVars, P!processVars
<1>7. ASSUME NEW m \in Copies PROVE Con!DeliveryLost(m) => P!DeliveryLost(m)
    BY SameSends DEF Con!DeliveryLost, P!DeliveryLost, Con!Fault, P!Fault, Con!processVars,
        P!processVars
<1>8. Con!Tick => P!Tick
    BY DEF Con!Tick, P!Tick, Con!Overrun, P!Overrun, Con!Todo, P!Todo, Con!Fault, P!Fault,
        Con!processVars, P!processVars
<1> QED
    BY SameProcess, <1>1, <1>2, <1>3, <1>4, <1>5, <1>6, <1>7, <1>8
    DEF Con!Next, P!Next

\* The same for the invariant's parts.
LEMMA SameProtocol ==
    (Con!Init => P!Init) /\ (Con!DeliveryProtocol <=> P!DeliveryProtocol)
<1>1. Con!Init => P!Init
    BY DEF Con!Init, P!Init, Con!Nothing, P!Nothing
<1>2. Con!TypeOK <=> P!TypeOK
    BY DEF Con!TypeOK, P!TypeOK, Con!ServerStates, P!ServerStates, Con!ProcessStates,
        P!ProcessStates
<1>3. Con!BatchInHand <=> P!BatchInHand
    BY DEF Con!BatchInHand, P!BatchInHand, Con!Todo, P!Todo
<1>4. Con!CountsTrue <=> P!CountsTrue
    BY DEF Con!CountsTrue, P!CountsTrue
<1>5. Con!EvidenceStored <=> P!EvidenceStored
    BY DEF Con!EvidenceStored, P!EvidenceStored, Con!Id, P!Id, Con!Count, P!Count
<1>6. Con!TroublePaid <=> P!TroublePaid
    BY DEF Con!TroublePaid, P!TroublePaid
<1>7. Con!UnpaidInHand <=> P!UnpaidInHand
    BY DEF Con!UnpaidInHand, P!UnpaidInHand, Con!Pending, P!Pending
<1>8. Con!ForgottenIsHandled <=> P!ForgottenIsHandled
    BY DEF Con!ForgottenIsHandled, P!ForgottenIsHandled
<1>9. Con!DeliveriesPaid <=> P!DeliveriesPaid
    BY DEF Con!DeliveriesPaid, P!DeliveriesPaid
<1>10. Con!DeadLetterIsLastResort <=> P!DeadLetterIsLastResort
    BY DEF Con!DeadLetterIsLastResort, P!DeadLetterIsLastResort
<1> QED
    BY <1>1, <1>2, <1>3, <1>4, <1>5, <1>6, <1>7, <1>8, <1>9, <1>10
    DEF Con!DeliveryProtocol, P!DeliveryProtocol

\* The same of the next state.
LEMMA SameProtocolNext == Con!DeliveryProtocol' <=> P!DeliveryProtocol'
BY SameProtocol, PTL

-----------------------------------------------------------------------------
\* A consumer's step keeps its protocol, and takes no fault back.
LEMMA ConsumerKeeps ==
    ASSUME Con!DeliveryProtocol, Con!Next
    PROVE  Con!DeliveryProtocol' /\ faults <= faults' /\ faults' \in 0..MaxFaults
<1>1. P!DeliveryProtocol /\ [P!Next]_(P!vars)
    BY SameNext, SameProtocol
<1>2. P!DeliveryProtocol'
    BY <1>1, ConsumerConfigured, P!DeliveryProtocolStep
<1>3. faults <= faults'
    BY <1>1, ConsumerConfigured, P!FaultSteps
<1>4. faults' \in 0..MaxFaults
    BY <1>2 DEF P!DeliveryProtocol, P!TypeOK
<1> QED
    BY <1>2, <1>3, <1>4, SameProtocolNext

\* A relay's step leaves the consumer its protocol.
LEMMA ConsumerUndisturbed ==
    ASSUME Con!DeliveryProtocol, UNCHANGED conVars,
           faults <= faults', faults' \in 0..MaxFaults
    PROVE  Con!DeliveryProtocol'
<1>1. UNCHANGED <<P!serverVars, receipt, dead, P!processVars>>
    BY DEF conVars, P!serverVars, P!processVars
<1> QED
    BY <1>1, SameProtocol, SameProtocolNext, ConsumerConfigured, P!FaultsElsewhere

\* A relay's step keeps the balance of attempts, and takes no fault back.
LEMMA RelayKeeps ==
    ASSUME AttemptAccounting, Next
    PROVE  AttemptAccounting' /\ faults <= faults' /\ faults' \in 0..MaxFaults
<1>1. AttemptAccounting'
    BY AttemptAccountingStep
<1>2. faults <= faults'
    BY FaultSteps DEF AttemptAccounting
<1>3. faults' \in 0..MaxFaults
    BY <1>1 DEF AttemptAccounting, LeaseProtocol, TypeOK
<1> QED
    BY <1>1, <1>2, <1>3

\* The stream never loses a copy.
LEMMA StreamGrows ==
    ASSUME LeaseProtocol, [Next]_vars
    PROVE  \A e \in Events : stored[e] \in Nat /\ stored'[e] \in Nat /\ stored[e] <= stored'[e]
<1>1. stored \in [Events -> Nat] /\ stored' \in [Events -> Nat]
    BY TypeStep DEF LeaseProtocol, TypeOK
<1> QED
    BY <1>1, StreamSteps DEF Store

\* What the consumer has been given stays in the stream.
LEMMA StoredFirstStep ==
    ASSUME PipelineProtocol, PipelineNext
    PROVE  StoredFirst'
<1> SUFFICES ASSUME NEW m \in Copies, conState'[m] # "new" PROVE InStream(m)'
    BY DEF StoredFirst
<1>1. m[1] \in Events /\ m[2] \in Nat
    BY PipelineAssumption, EnvironmentAssumption DEF Copies
<1>2. CASE RelayDoes(Next)
    <2>1. InStream(m)
        BY <1>2 DEF RelayDoes, conVars, PipelineProtocol, StoredFirst
    <2> QED
        BY <1>1, <1>2, <2>1, StreamGrows
        DEF RelayDoes, InStream, PipelineProtocol, AttemptAccounting
<1>3. CASE ConsumerDoes(Con!Next)
    BY <1>3 DEF ConsumerDoes, DeliversStored, PipelineProtocol, StoredFirst, InStream, streamVars
<1> QED
    BY <1>2, <1>3 DEF PipelineNext

\* Every step keeps the pipeline's protocol.
LEMMA PipelineProtocolStep ==
    PipelineProtocol /\ [PipelineNext]_pipelineVars => PipelineProtocol'
<1> SUFFICES ASSUME PipelineProtocol, [PipelineNext]_pipelineVars PROVE PipelineProtocol'
    OBVIOUS
<1>1. CASE RelayDoes(Next)
    <2>1. AttemptAccounting' /\ faults <= faults' /\ faults' \in 0..MaxFaults
        BY <1>1, RelayKeeps DEF RelayDoes, PipelineProtocol
    <2>2. Con!DeliveryProtocol'
        BY <1>1, <2>1, ConsumerUndisturbed DEF RelayDoes, PipelineProtocol
    <2> QED
        BY <1>1, <2>1, <2>2, StoredFirstStep DEF PipelineProtocol, PipelineNext
<1>2. CASE ConsumerDoes(Con!Next)
    <2>1. Con!DeliveryProtocol' /\ faults <= faults' /\ faults' \in 0..MaxFaults
        BY <1>2, ConsumerKeeps DEF ConsumerDoes, PipelineProtocol
    <2>2. AttemptAccounting'
        BY <1>2, <2>1, FaultsElsewhere DEF ConsumerDoes, PipelineProtocol
    <2> QED
        BY <1>2, <2>1, <2>2, StoredFirstStep DEF PipelineProtocol, PipelineNext
<1>3. CASE UNCHANGED pipelineVars
    <2>1. UNCHANGED vars /\ UNCHANGED conVars
        BY <1>3 DEF pipelineVars
    <2>2. faults \in 0..MaxFaults /\ UNCHANGED faults
        BY <2>1 DEF vars, PipelineProtocol, AttemptAccounting, LeaseProtocol, TypeOK
    <2>3. AttemptAccounting'
        BY <2>1, AttemptAccountingStep DEF PipelineProtocol
    <2>4. faults <= faults' /\ faults' \in 0..MaxFaults
        BY <2>2, EnvironmentAssumption
    <2>5. Con!DeliveryProtocol'
        BY <2>1, <2>4, ConsumerUndisturbed DEF PipelineProtocol
    <2>6. StoredFirst'
        BY <2>1 DEF vars, streamVars, conVars, PipelineProtocol, StoredFirst, InStream
    <2> QED
        BY <2>3, <2>5, <2>6 DEF PipelineProtocol
<1> QED
    BY <1>1, <1>2, <1>3 DEF PipelineNext

\* Nothing has been committed, stored or delivered yet.
LEMMA PipelineProtocolInit == PipelineInit => PipelineProtocol
<1> SUFFICES ASSUME PipelineInit PROVE PipelineProtocol
    OBVIOUS
<1>1. AttemptAccounting
    BY AttemptAccountingInit DEF PipelineInit
<1>2. Con!DeliveryProtocol
    BY SameProtocol, ConsumerConfigured, P!DeliveryProtocolInit DEF PipelineInit
<1>3. StoredFirst
    BY DEF PipelineInit, Con!Init, StoredFirst
<1> QED
    BY <1>1, <1>2, <1>3 DEF PipelineProtocol

\* Relays and consumers keep their protocols side by side, with one budget of
\* faults, and the consumer is given only what the relays have stored.
THEOREM PipelineProtocolInvariant == PipelineSafetySpec => []PipelineProtocol
BY PipelineProtocolInit, PipelineProtocolStep, PTL DEF PipelineSafetySpec

\* Publish leaves at most one copy more in the stream than things went wrong,
\* so the pipeline's Copies are all the copies there can be.
CopiesFit == \A e \in Events : stored[e] + late[e] <= MaxFaults + 1
LEMMA CopiesFitAlways == PipelineSafetySpec => []CopiesFit
<1>1. PipelineProtocol => CopiesFit
    <2> SUFFICES ASSUME PipelineProtocol, NEW e \in Events
                 PROVE  stored[e] + late[e] <= MaxFaults + 1
        BY DEF CopiesFit
    <2>1. /\ stored[e] \in Nat /\ late[e] \in Nat /\ attempts[e] \in Nat /\ faults \in Nat
          /\ attempts[e] <= faults + 1 /\ faults <= MaxFaults
        BY EnvironmentAssumption
        DEF PipelineProtocol, AttemptAccounting, LeaseProtocol, TypeOK, AttemptsPaid
    <2>2. /\ Cardinality(Holders(e)) \in Nat
          /\ stored[e] + late[e] + Cardinality(Holders(e)) <= attempts[e]
        BY FS_CardinalityType DEF PipelineProtocol, AttemptAccounting, CopiesAccounted
    <2> QED
        BY <2>1, <2>2, EnvironmentAssumption
<1> QED
    BY <1>1, PipelineProtocolInvariant, PTL

-----------------------------------------------------------------------------
\* What the consumer's protocol says of a copy, in the pipeline's words.
LEMMA CopyFacts ==
    ASSUME Con!DeliveryProtocol, NEW m \in Copies
    PROVE  /\ conState[m] \in {"new", "pending", "acked", "termed", "exhausted"}
           /\ conState[m] = "acked" => receipt[m[1]] > 0
           /\ conState[m] = "termed" => dead[m] > 0
           /\ conState[m] = "exhausted" => conDeliveries[m] = MaxDeliver
<1>1. conState[m] \in {"new", "pending", "acked", "termed", "exhausted"}
    BY DEF Con!DeliveryProtocol, Con!TypeOK, Con!ServerStates
<1>2. /\ conState[m] = "acked" => receipt[EventOfCopy[m]] > 0
      /\ conState[m] = "termed" => dead[m] > 0
    BY DEF Con!DeliveryProtocol, Con!ForgottenIsHandled
<1>3. conState[m] = "exhausted" => conDeliveries[m] = MaxDeliver
    BY DEF Con!DeliveryProtocol, Con!CountsTrue
<1>4. EventOfCopy[m] = m[1]
    BY DEF EventOfCopy
<1> QED
    BY <1>1, <1>2, <1>3, <1>4

\* No event falls between outbox and consumer: the first copy of a published
\* event is on its way, recorded, dead-lettered or used up.
THEOREM NothingBetweenAlways == PipelineSafetySpec => []NothingBetween
<1>1. PipelineProtocol => NothingBetween
    <2> SUFFICES ASSUME PipelineProtocol, NEW e \in Watched, status[e] = "published"
                 PROVE  \/ receipt[e] > 0
                        \/ UsedUp(e) # {}
                        \/ \E m \in Copies : m[1] = e /\ InStream(m) /\
                              (dead[m] > 0 \/ conState[m] \in {"new", "pending"})
        BY DEF NothingBetween
    <2> DEFINE m == <<e, 1>>
    <2>1. e \in Events /\ m \in Copies /\ m[1] = e /\ m[2] = 1
        BY PipelineAssumption, EnvironmentAssumption DEF Copies
    <2>2. stored[e] \in Nat /\ stored[e] > 0
        BY <2>1 DEF PipelineProtocol, AttemptAccounting, LeaseProtocol, TypeOK, PublishedIsStored
    <2>3. InStream(m)
        BY <2>1, <2>2 DEF InStream
    <2>4. conDeliveries[m] = MaxDeliver => m \in UsedUp(e)
        BY <2>1 DEF UsedUp
    <2> HIDE DEF m
    <2> QED
        BY <2>1, <2>3, <2>4, CopyFacts DEF PipelineProtocol
<1> QED
    BY <1>1, PipelineProtocolInvariant, PTL

-----------------------------------------------------------------------------
\* What a process of the consumer has in hand is a copy of a committed event.
LEMMA InHandCommitted ==
    ASSUME PipelineProtocol, NEW p \in Consumers, conPc[p] # "idle"
    PROVE  /\ conCur[p] \in Copies
           /\ conCur[p][1] \in Watched
           /\ status[conCur[p][1]] # "absent"
           /\ fetched[p][conCur[p]] \in 1..MaxDeliver
<1> DEFINE m == conCur[p]
<1>1. m \in Copies /\ fetched[p][m] > 0
    BY DEF PipelineProtocol, Con!DeliveryProtocol, Con!BatchInHand, Con!Todo
<1>2. fetched[p][m] \in 0..MaxDeliver /\ conDeliveries[m] \in 0..MaxDeliver
    BY <1>1 DEF PipelineProtocol, Con!DeliveryProtocol, Con!TypeOK
<1>3. conState[m] # "new"
    BY <1>1, <1>2, PipelineAssumption DEF PipelineProtocol, Con!DeliveryProtocol, Con!CountsTrue
<1>4. m[1] \in Watched /\ m[1] \in Events /\ m[2] \in 1..(MaxFaults + 1)
    BY <1>1, PipelineAssumption DEF Copies
<1>5. m[2] <= stored[m[1]] /\ stored[m[1]] \in Nat
    BY <1>1, <1>3, <1>4
    DEF PipelineProtocol, StoredFirst, InStream, AttemptAccounting, LeaseProtocol, TypeOK
<1>6. stored[m[1]] > 0
    BY <1>4, <1>5, EnvironmentAssumption
<1>7. status[m[1]] # "absent"
    BY <1>4, <1>6 DEF PipelineProtocol, AttemptAccounting, LeaseProtocol, TransactionalOutbox
<1> QED
    BY <1>1, <1>2, <1>4, <1>7, PipelineAssumption

\* Every step of a relay is a step of EventProcessing or changes nothing it
\* can see.
LEMMA RelayProcessing ==
    ASSUME PipelineProtocol, Next, UNCHANGED conVars
    PROVE  [Processing!Next]_(Processing!vars)
<1> DEFINE committed == {e \in Watched : status[e] # "absent"}
<1>0. LeaseProtocol /\ status \in [Events -> {"absent", "pending", "publishing"} \cup Settled]
    BY DEF PipelineProtocol, AttemptAccounting, LeaseProtocol, TypeOK
<1>1. UNCHANGED <<receipt, dead>> /\ Watched \subseteq Events
    BY PipelineAssumption DEF conVars
<1>2. CASE \A e \in Watched : status'[e] = status[e]
    BY <1>1, <1>2 DEF Processing!vars, GivenUp
<1>3. ASSUME NEW e \in Events, caller[e] = "open", AddRow(e)
      PROVE  [Processing!Next]_(Processing!vars)
    <2>1. status[e] = "absent" /\ status' = [status EXCEPT ![e] = "pending"]
        BY <1>0, <1>3 DEF LeaseProtocol, OpenIsAbsent, AddRow
    <2>2. CASE e \in Watched
        <3>1. e \notin committed /\ committed' = committed \cup {e}
            BY <1>0, <1>1, <2>1, <2>2
        <3>2. UNCHANGED GivenUp
            BY <1>0, <1>1, <2>1 DEF GivenUp
        <3>3. Processing!Commit(e)
            BY <1>1, <3>1, <3>2 DEF Processing!Commit
        <3> QED
            BY <2>2, <3>3 DEF Processing!Next
    <2>3. CASE e \notin Watched
        BY <1>0, <1>1, <1>2, <2>1, <2>3
    <2> QED
        BY <2>2, <2>3
<1>4. ASSUME NEW w \in Workers, LeaseRows(w)
      PROVE  [Processing!Next]_(Processing!vars)
    <2>1. \A e \in locked[w] : status[e] \in {"pending", "publishing"}
        BY <1>0 DEF LeaseProtocol, LocksHeld, Claimable
    <2>2. \A e \in Events : /\ status'[e] = "absent" <=> status[e] = "absent"
                            /\ status'[e] = "dead_letter" <=> status[e] = "dead_letter"
        BY <1>0, <1>4, <2>1 DEF LeaseRows
    <2>3. UNCHANGED committed /\ UNCHANGED GivenUp
        BY <1>1, <2>2 DEF GivenUp
    <2> QED
        BY <1>1, <2>3 DEF Processing!vars
<1>5. ASSUME NEW w \in Workers, Marking(w), Owned(w), Mark(w)
      PROVE  [Processing!Next]_(Processing!vars)
    <2> DEFINE e == cur[w]
    <2>1. /\ e \in Events
          /\ status' = [status EXCEPT ![e] = status'[e]]
          /\ status'[e] \in {"pending", "published", "dead_letter"}
          /\ status[e] = "publishing"
        BY <1>0, <1>5, MarkEffect DEF Owned
    <2> HIDE DEF e
    <2>2. UNCHANGED committed
        BY <1>0, <1>1, <2>1
    <2>3. CASE e \in Watched /\ status'[e] = "dead_letter"
        <3>1. e \in committed
            BY <2>1, <2>3
        <3>2. \A f \in Watched : f # e => status'[f] = status[f]
            BY <1>0, <1>1, <2>1
        <3>3. GivenUp' = GivenUp \cup {e}
            BY <1>1, <2>3, <3>2 DEF GivenUp
        <3>4. Processing!GiveUp(e)
            BY <1>1, <2>2, <3>1, <3>3 DEF Processing!GiveUp
        <3> QED
            BY <2>3, <3>4 DEF Processing!Next
    <2>4. CASE e \notin Watched \/ status'[e] # "dead_letter"
        <3>1. \A f \in Watched : status'[f] = "dead_letter" <=> status[f] = "dead_letter"
            BY <1>0, <1>1, <2>1, <2>4
        <3>2. UNCHANGED GivenUp
            BY <1>1, <3>1 DEF GivenUp
        <3> QED
            BY <1>1, <2>2, <3>2 DEF Processing!vars
    <2> QED
        BY <2>3, <2>4
<1>6. Tick \/ UNCHANGED rowVars => UNCHANGED status
    BY DEF Tick, rowVars
<1> QED
    BY <1>2, <1>3, <1>4, <1>5, <1>6, RowSteps

\* So is every step of the consumer.
LEMMA ConsumerProcessing ==
    ASSUME PipelineProtocol, Con!Next, UNCHANGED status
    PROVE  [Processing!Next]_(Processing!vars)
<1> DEFINE committed == {e \in Watched : status[e] # "absent"}
<1>0. /\ receipt \in [Watched -> 0..MaxDeliver] /\ dead \in [Copies -> Nat]
      /\ UNCHANGED committed
    BY DEF PipelineProtocol, Con!DeliveryProtocol, Con!TypeOK
<1>1. \/ \E p \in Consumers : conPc[p] = "process" /\ P!Record(p) /\ UNCHANGED dead
      \/ \E p \in Consumers : conPc[p] = "deadletter" /\ P!AddDeadLetter(p) /\ UNCHANGED receipt
      \/ UNCHANGED <<receipt, dead>>
    BY SameNext, SameProtocol, ConsumerConfigured, P!EvidenceSteps DEF PipelineProtocol
<1>2. ASSUME NEW p \in Consumers, conPc[p] = "process", P!Record(p), UNCHANGED dead
      PROVE  [Processing!Next]_(Processing!vars)
    <2> DEFINE m == conCur[p]
               e == m[1]
    <2>1. m \in Copies /\ e \in committed /\ fetched[p][m] \in 1..MaxDeliver
        BY <1>2, InHandCommitted
    <2>2. receipt' = [receipt EXCEPT ![e] = IF @ = 0 THEN fetched[p][m] ELSE @]
        BY <1>2, <2>1 DEF P!Record, P!Id, P!Count, EventOfCopy
    <2>3. UNCHANGED GivenUp
        BY <1>2 DEF GivenUp
    <2> HIDE DEF m, e, committed
    <2>4. CASE receipt[e] = 0
        <3>1. Processing!Record(e)
            BY <1>0, <2>1, <2>2, <2>3, <2>4 DEF Processing!Record, committed
        <3> QED
            BY <2>1, <3>1 DEF Processing!Next, committed
    <2>5. CASE receipt[e] # 0
        <3>1. UNCHANGED receipt
            BY <1>0, <2>1, <2>2, <2>5 DEF committed
        <3> QED
            BY <1>0, <2>3, <3>1 DEF Processing!vars, committed
    <2> QED
        BY <2>4, <2>5
<1>3. ASSUME NEW p \in Consumers, conPc[p] = "deadletter", P!AddDeadLetter(p), UNCHANGED receipt
      PROVE  [Processing!Next]_(Processing!vars)
    <2> DEFINE m == conCur[p]
               e == m[1]
    <2>1. m \in Copies /\ e \in committed /\ e \in Watched
        BY <1>3, InHandCommitted
    <2>2. dead' = [dead EXCEPT ![m] = @ + 1]
        BY <1>3 DEF P!AddDeadLetter
    <2>3. GivenUp' = GivenUp \cup {e}
        <3>1. \A n \in Copies : dead'[n] > 0 <=> dead[n] > 0 \/ n = m
            BY <1>0, <2>1, <2>2
        <3> QED
            BY <2>1, <3>1 DEF GivenUp
    <2>4. Processing!GiveUp(e)
        BY <1>0, <1>3, <2>1, <2>3 DEF Processing!GiveUp
    <2> QED
        BY <2>1, <2>4 DEF Processing!Next
<1>4. CASE UNCHANGED <<receipt, dead>>
    BY <1>0, <1>4 DEF Processing!vars, GivenUp
<1> QED
    BY <1>1, <1>2, <1>3, <1>4

\* Outbox, stream and consumer implement EventProcessing: at most one receipt
\* for each event, and nothing recorded or given up that did not commit.
THEOREM ImplementsProcessingAlways == PipelineSafetySpec => ImplementsProcessing
<1>1. PipelineInit => Processing!Init
    <2> SUFFICES ASSUME PipelineInit PROVE Processing!Init
        OBVIOUS
    <2>1. \A e \in Watched : status[e] = "absent"
        BY PipelineAssumption DEF PipelineInit, Init
    <2>2. receipt = [e \in Watched |-> 0] /\ \A m \in Copies : dead[m] = 0
        BY DEF PipelineInit, Con!Init, Con!Nothing
    <2> QED
        BY <2>1, <2>2 DEF Processing!Init, GivenUp
<1>2. PipelineProtocol /\ [PipelineNext]_pipelineVars => [Processing!Next]_(Processing!vars)
    <2> SUFFICES ASSUME PipelineProtocol, [PipelineNext]_pipelineVars
                 PROVE  [Processing!Next]_(Processing!vars)
        OBVIOUS
    <2>1. CASE RelayDoes(Next)
        BY <2>1, RelayProcessing DEF RelayDoes
    <2>2. CASE ConsumerDoes(Con!Next)
        BY <2>2, ConsumerProcessing DEF ConsumerDoes, rowVars
    <2>3. CASE UNCHANGED pipelineVars
        BY <2>3 DEF pipelineVars, vars, rowVars, conVars, Processing!vars, GivenUp
    <2> QED
        BY <2>1, <2>2, <2>3 DEF PipelineNext
<1> QED
    BY <1>1, <1>2, PipelineProtocolInvariant, PTL
    DEF PipelineSafetySpec, ImplementsProcessing, Processing!SafetySpec
=============================================================================
