---------------------------- MODULE EventPipeline ----------------------------
(***************************************************************************)
(* The way of an event from the transaction that commits it to the receipt *)
(* of the consumer: Outbox and EventConsumer joined at the stream.  The    *)
(* consumer's messages are the copies the relays stored, <<event, n>> for  *)
(* the nth copy, and each copy is delivered only once it is there.         *)
(*                                                                         *)
(* Both sides draw on one budget of faults.  Their clocks move             *)
(* independently: the relay's leases and the broker's AckWait are          *)
(* unrelated durations, and every relative speed is allowed.               *)
(***************************************************************************)
EXTENDS Outbox

CONSTANTS
    Consumers,      \* processes running the consumer
    Watched,        \* events of InfrastructureSubject
    MaxDeliver, FetchBatch, MaxAckPending, AckWait, RetryBase, RetryMax

VARIABLES
    conState, conDeliveries, conDeadline,                \* the broker's side
    receipt, dead,                                       \* what it leaves behind
    conPc, fetched, conCur, stopping, conError           \* the processes

conVars == <<conState, conDeliveries, conDeadline, receipt, dead,
             conPc, fetched, conCur, stopping, conError>>
pipelineVars == <<vars, conVars>>

\* Every copy after the first is paid for by a fault (CopiesBounded).
Copies == Watched \X (1..(MaxFaults + 1))
NoCopy == <<NoEvent, 0>>
EventOfCopy == [m \in Copies |-> m[1]]

\* The consumer's constants, as ensureConsumer and redeliveryBackoff set them.
ASSUME PipelineAssumption ==
    /\ Watched \subseteq Events
    /\ MaxDeliver \in Nat \ {0}
    /\ FetchBatch \in Nat \ {0}
    /\ MaxAckPending \in Nat \ {0}
    /\ AckWait \in Nat \ {0}
    /\ RetryBase \in Nat \ {0}
    /\ RetryMax \in Nat
    /\ RetryBase <= RetryMax

\* Insert validates every envelope, so every copy decodes and validates.
Con == INSTANCE EventConsumer WITH
    Processes <- Consumers, Messages <- Copies, EventIds <- Watched,
    EventOf <- EventOfCopy, Valid <- Copies, NoMessage <- NoCopy,
    state <- conState, deliveries <- conDeliveries, deadline <- conDeadline,
    pc <- conPc, cur <- conCur, lastError <- conError

PipelineInit ==
    /\ Init
    /\ Con!Init

\* The broker holds the copies the relays stored.
InStream(m) == m[2] <= stored[m[1]]

\* What the broker delivers for the first time is in the stream.
DeliversStored ==
    \A m \in Copies : conState[m] = "new" /\ conState'[m] # "new" => InStream(m)

\* A step of one side leaves the other as it is; the stream joins them.
RelayDoes(A) == UNCHANGED conVars /\ A
ConsumerDoes(A) ==
    UNCHANGED <<rowVars, caller, relayVars, streamVars>> /\ A /\ DeliversStored

PipelineNext == RelayDoes(Next) \/ ConsumerDoes(Con!Next)

\* The fairness of the two components, for the steps they take here.
PipelineFairness ==
    /\ \A w \in Workers : WF_pipelineVars(RelayDoes(RelayStep(w)))
    /\ WF_pipelineVars(RelayDoes(Tick))
    /\ \A p \in Consumers : WF_pipelineVars(ConsumerDoes(Con!Process(p)))
    /\ WF_pipelineVars(ConsumerDoes(Con!Tick))

PipelineSafetySpec == PipelineInit /\ [][PipelineNext]_pipelineVars
PipelineSpec == PipelineSafetySpec /\ PipelineFairness

-----------------------------------------------------------------------------
(***************************************************************************)
(* Properties.                                                             *)
(***************************************************************************)

\* The copies of an event whose every delivery has been used.
UsedUp(e) == {m \in Copies : m[1] = e /\ conDeliveries[m] = MaxDeliver}

\* No event falls between the two sides: once the outbox says "published"
\* and wants nothing more to do with it, the event has its receipt or its
\* dead letter, or a copy the broker will still deliver, or one whose every
\* delivery went wrong.
NothingBetween ==
    \A e \in Watched : status[e] = "published" =>
        \/ receipt[e] > 0
        \/ UsedUp(e) # {}
        \/ \E m \in Copies : m[1] = e /\ InStream(m) /\
              (dead[m] > 0 \/ conState[m] \in {"new", "pending"})

\* The consumer has only been given copies that are there.
StoredFirst == \A m \in Copies : conState[m] # "new" => InStream(m)

\* The pipeline's inductive invariant: either side keeps its own, although
\* the other one draws on the same budget of faults, and the stream joins
\* them.
PipelineProtocol ==
    /\ AttemptAccounting
    /\ Con!DeliveryProtocol
    /\ StoredFirst

\* Dead-lettered by the outbox, or by the consumer for one of its copies.
GivenUp ==
    {e \in Watched :
        status[e] = "dead_letter" \/ \E m \in Copies : m[1] = e /\ dead[m] > 0}

Processing == INSTANCE EventProcessing WITH
    Events <- Watched,
    Receipts <- 1..MaxDeliver,
    NoReceipt <- 0,
    committed <- {e \in Watched : status[e] # "absent"},
    givenUp <- GivenUp

\* Outbox, stream and consumer together implement EventProcessing: however
\* many copies a retried publication leaves in the stream, an event gets one
\* receipt, and neither a receipt nor a dead letter without its transaction.
ImplementsProcessing == Processing!SafetySpec

\* Every committed event gets its receipt or a dead letter in the end,
\* although relays and consumers crash and answers are lost on either side,
\* unless no relay is left or a copy uses up its deliveries.
EventuallyProcessed ==
    \A e \in Watched :
        status[e] # "absent" ~>
            \/ receipt[e] > 0 \/ e \in GivenUp
            \/ UsedUp(e) # {}
            \/ \A w \in Workers : pc[w] \in {"hung", "gone"}
=============================================================================
