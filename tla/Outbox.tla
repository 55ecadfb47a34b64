------------------------------- MODULE Outbox -------------------------------
(***************************************************************************)
(* The transactional outbox: rows of platform.outbox_events, the callers   *)
(* that insert them inside their own transaction, and the relays that      *)
(* lease them in batches, publish them to JetStream and mark the outcome.  *)
(*                                                                         *)
(* Time is relative.  A timestamp column is the number of ticks left until *)
(* it is reached, so "lease_expires_at <= now()" is lease[e] = 0 and Tick  *)
(* moves every deadline closer by one.                                     *)
(*                                                                         *)
(* What goes wrong in the environment (a crash, a failed or unanswered     *)
(* call, a worker slower than its lease) draws on one budget, MaxFaults.   *)
(***************************************************************************)
EXTENDS Naturals, FiniteSets

CONSTANTS
    EventCount,       \* events are 1..EventCount, in (created_at, id) order
    Workers,          \* lease owner IDs, one fresh UUIDv7 per relay process
    NoWorker,         \* lease_owner IS NULL
    BatchSize,        \* RelayConfig.BatchSize
    LeaseDuration,    \* RelayConfig.LeaseDuration, in ticks
    MaxAttempts,      \* RelayConfig.MaxAttempts
    BaseBackoff,      \* RelayConfig.BaseBackoff, in ticks
    MaxBackoff,       \* RelayConfig.MaxBackoff, in ticks
    DuplicateWindow,  \* StreamConfig.Duplicates, in ticks
    MaxFaults         \* bound: faults the environment may inject

\* What NewRelay demands of a RelayConfig before it builds a relay.
ASSUME RelayConfigAssumption ==
    /\ LeaseDuration \in Nat \ {0}
    /\ BatchSize \in Nat \ {0}
    /\ MaxAttempts \in Nat \ {0}
    /\ BaseBackoff \in Nat \ {0}
    /\ MaxBackoff \in Nat
    /\ BaseBackoff <= MaxBackoff

ASSUME EnvironmentAssumption ==
    /\ EventCount \in Nat
    /\ DuplicateWindow \in Nat \ {0}
    /\ MaxFaults \in Nat
    /\ NoWorker \notin Workers

Events == 1..EventCount
NoEvent == 0

VARIABLES
    status,     \* status column; "absent" when no committed row exists
    attempts,   \* attempt_count column
    wait,       \* ticks until next_attempt_at
    owner,      \* lease_owner column
    lease,      \* ticks until lease_expires_at; 0 too when it IS NULL
    caller,     \* what the inserting transaction's caller knows
    pc,         \* where each relay's loop stands
    locked,     \* rows locked by a relay's open Claim transaction
    timer,      \* "claiming": lease being granted; "failed": backoff scheduled
    records,    \* Record.Attempt of the records a relay still has to process
    cur,        \* the record a relay is processing
    lastError,  \* Relay.lastError # nil
    stored,     \* copies of the event kept in the stream
    window,     \* ticks left of the stream's duplicate window for the event
    late,       \* publications still in transit after their caller gave up
    faults      \* faults injected so far

rowVars == <<status, attempts, wait, owner, lease>>
relayVars == <<pc, locked, timer, records, cur, lastError>>
streamVars == <<stored, window, late>>
vars == <<rowVars, caller, relayVars, streamVars, faults>>

Settled == {"published", "dead_letter"}
RelayStates == {"off", "idle", "claiming", "publish", "acked", "failed",
                "unencodable", "hung", "gone"}
Live(w) == pc[w] \notin {"off", "gone"}

NoRecords == [e \in Events |-> 0]
Todo(w) == {e \in Events : records[w][e] > 0}

Init ==
    /\ status = [e \in Events |-> "absent"]
    /\ attempts = [e \in Events |-> 0]
    /\ wait = [e \in Events |-> 0]
    /\ owner = [e \in Events |-> NoWorker]
    /\ lease = [e \in Events |-> 0]
    /\ caller = [e \in Events |-> "idle"]
    /\ pc = [w \in Workers |-> "off"]
    /\ locked = [w \in Workers |-> {}]
    /\ timer = [w \in Workers |-> 0]
    /\ records = [w \in Workers |-> NoRecords]
    /\ cur = [w \in Workers |-> NoEvent]
    /\ lastError = [w \in Workers |-> FALSE]
    /\ stored = [e \in Events |-> 0]
    /\ window = [e \in Events |-> 0]
    /\ late = [e \in Events |-> 0]
    /\ faults = 0

Fault == faults < MaxFaults /\ faults' = faults + 1

-----------------------------------------------------------------------------
(***************************************************************************)
(* Insert, in a transaction its caller owns (InTransaction).               *)
(***************************************************************************)

\* A caller may retry an event whose outcome it does not know under the same
\* ID; when the row is there after all the INSERT hits the primary key and
\* nothing changes.
BeginInsert(e) ==
    /\ caller[e] \in {"idle", "error"}
    /\ status[e] = "absent"
    /\ caller' = [caller EXCEPT ![e] = "open"]
    /\ UNCHANGED <<rowVars, relayVars, streamVars, faults>>

\* The new row as the table's defaults make it; next_attempt_at is the
\* transaction's own start and has passed by the time it commits.
AddRow(e) ==
    /\ status' = [status EXCEPT ![e] = "pending"]
    /\ UNCHANGED <<attempts, wait, owner, lease>>

CommitInsert(e) ==
    /\ caller[e] = "open"
    /\ AddRow(e)
    /\ caller' = [caller EXCEPT ![e] = "ok"]
    /\ UNCHANGED <<relayVars, streamVars, faults>>

\* COMMIT takes effect but its answer is lost: the caller is told an error.
CommitInsertUnknown(e) ==
    /\ caller[e] = "open"
    /\ AddRow(e)
    /\ caller' = [caller EXCEPT ![e] = "error"]
    /\ UNCHANGED <<relayVars, streamVars, faults>>

\* Mutant of RollbackInsert: the rollback is reported as success.
RollbackInsertSilent(e) ==
    /\ caller[e] = "open"
    /\ caller' = [caller EXCEPT ![e] = "ok"]
    /\ UNCHANGED <<rowVars, relayVars, streamVars, faults>>

\* The operation, Validate, the INSERT or COMMIT itself fails, or the
\* process dies: the business change and the event vanish together.
RollbackInsert(e) ==
    /\ caller[e] = "open"
    /\ caller' = [caller EXCEPT ![e] = "error"]
    /\ UNCHANGED <<rowVars, relayVars, streamVars, faults>>

-----------------------------------------------------------------------------
(***************************************************************************)
(* Claim: one short transaction that leases the oldest due rows.           *)
(***************************************************************************)

Start(w) ==
    /\ pc[w] = "off"
    /\ pc' = [pc EXCEPT ![w] = "idle"]
    /\ UNCHANGED <<rowVars, caller, locked, timer, records, cur, lastError,
                   streamVars, faults>>

\* Mutants of Claimable: lease_expires_at is not looked at; abandoned rows are
\* never looked for; status is not looked at.
ClaimableIgnoresLease(e) ==
    (status[e] = "pending" /\ wait[e] = 0) \/ status[e] = "publishing"
ClaimablePendingOnly(e) == status[e] = "pending" /\ wait[e] = 0
ClaimableAnyStatus(e) == status[e] # "absent" /\ wait[e] = 0 /\ lease[e] = 0

Claimable(e) ==
    \/ status[e] = "pending" /\ wait[e] = 0
    \/ status[e] = "publishing" /\ lease[e] = 0

LockedRows == UNION {locked[w] : w \in Workers}

\* ORDER BY created_at, id LIMIT n
Oldest(S, n) == {e \in S : Cardinality({f \in S : f < e}) < n}

\* Mutant of Candidates: rows another Claim has locked are taken too.
CandidatesUnlocked == Oldest({e \in Events : Claimable(e)}, BatchSize)

\* FOR UPDATE SKIP LOCKED
Candidates == Oldest({e \in Events : Claimable(e)} \ LockedRows, BatchSize)

\* Mutant of PollEmpty: only a batch with records clears the error.
PollEmptyKeepsError(w) ==
    /\ pc[w] = "idle"
    /\ Candidates = {}
    /\ UNCHANGED vars

\* Nothing is due: Claim returns no records and processBatch succeeds.
PollEmpty(w) ==
    /\ pc[w] = "idle"
    /\ Candidates = {}
    /\ lastError' = [lastError EXCEPT ![w] = FALSE]
    /\ UNCHANGED <<rowVars, caller, pc, locked, timer, records, cur,
                   streamVars, faults>>

\* The claiming statement locks its rows; now(), and with it the new lease,
\* is fixed from here on.
ClaimBegin(w) ==
    /\ pc[w] = "idle"
    /\ Candidates # {}
    /\ pc' = [pc EXCEPT ![w] = "claiming"]
    /\ locked' = [locked EXCEPT ![w] = Candidates]
    /\ timer' = [timer EXCEPT ![w] = LeaseDuration]
    /\ UNCHANGED <<rowVars, caller, records, cur, lastError, streamVars, faults>>

LeaseRows(w) ==
    /\ status' = [e \in Events |->
                    IF e \in locked[w] THEN "publishing" ELSE status[e]]
    /\ attempts' = [e \in Events |->
                      IF e \in locked[w] THEN attempts[e] + 1 ELSE attempts[e]]
    /\ owner' = [e \in Events |-> IF e \in locked[w] THEN w ELSE owner[e]]
    /\ lease' = [e \in Events |-> IF e \in locked[w] THEN timer[w] ELSE lease[e]]
    /\ UNCHANGED wait

\* Mutant of Returning: every record is scanned as a first attempt.
ReturningFirst(w) == [e \in Events |-> IF e \in locked[w] THEN 1 ELSE 0]

\* RETURNING events.attempt_count, scanned into Record.Attempt
Returning(w) ==
    [e \in Events |-> IF e \in locked[w] THEN attempts[e] + 1 ELSE 0]

\* RETURNING gives no order: the relay may take the records in any order.
ClaimCommit(w) ==
    /\ pc[w] = "claiming"
    /\ LeaseRows(w)
    /\ records' = [records EXCEPT ![w] = Returning(w)]
    /\ \E e \in locked[w] : cur' = [cur EXCEPT ![w] = e]
    /\ pc' = [pc EXCEPT ![w] = "publish"]
    /\ locked' = [locked EXCEPT ![w] = {}]
    /\ timer' = [timer EXCEPT ![w] = 0]
    /\ UNCHANGED <<caller, lastError, streamVars, faults>>

\* processBatch returns an error: what is left of the batch is forgotten,
\* its rows stay leased, and run records the error for Check.
AbortBatch(w) ==
    /\ pc' = [pc EXCEPT ![w] = "idle"]
    /\ locked' = [locked EXCEPT ![w] = {}]
    /\ timer' = [timer EXCEPT ![w] = 0]
    /\ records' = [records EXCEPT ![w] = NoRecords]
    /\ cur' = [cur EXCEPT ![w] = NoEvent]
    /\ lastError' = [lastError EXCEPT ![w] = TRUE]

\* The statement, a scan, a decode, a validation or COMMIT fails.
ClaimRollback(w) ==
    /\ pc[w] = "claiming"
    /\ Fault
    /\ AbortBatch(w)
    /\ UNCHANGED <<rowVars, caller, streamVars>>

\* COMMIT takes effect, but Claim returns an error.
ClaimCommitUnknown(w) ==
    /\ pc[w] = "claiming"
    /\ Fault
    /\ LeaseRows(w)
    /\ AbortBatch(w)
    /\ UNCHANGED <<caller, streamVars>>

-----------------------------------------------------------------------------
(***************************************************************************)
(* The JetStream server: a message whose Nats-Msg-Id was stored within the *)
(* duplicate window is acknowledged and not stored again.                  *)
(***************************************************************************)
Store(e) ==
    /\ stored' = [stored EXCEPT ![e] = IF window[e] > 0 THEN @ ELSE @ + 1]
    /\ window' = [window EXCEPT ![e] = IF @ > 0 THEN @ ELSE DuplicateWindow]

\* What may have become of a message whose acknowledgement never came.
UnknownFate(e) ==
    \/ UNCHANGED streamVars
    \/ Store(e) /\ UNCHANGED late
    \/ late' = [late EXCEPT ![e] = @ + 1] /\ UNCHANGED <<stored, window>>

\* A publication in transit reaches the stream after all.
LateStore(e) ==
    /\ late[e] > 0
    /\ late' = [late EXCEPT ![e] = @ - 1]
    /\ Store(e)
    /\ UNCHANGED <<rowVars, caller, relayVars, faults>>

-----------------------------------------------------------------------------
(***************************************************************************)
(* Publication of the current record, outside any database transaction.    *)
(***************************************************************************)
EncodeFailed(w) ==
    /\ pc[w] = "publish"
    /\ Fault
    /\ pc' = [pc EXCEPT ![w] = "unencodable"]
    /\ UNCHANGED <<rowVars, caller, locked, timer, records, cur, lastError,
                   streamVars>>

PublishAcked(w) ==
    /\ pc[w] = "publish"
    /\ Store(cur[w])
    /\ pc' = [pc EXCEPT ![w] = "acked"]
    /\ UNCHANGED <<rowVars, caller, locked, timer, records, cur, lastError,
                   late, faults>>

\* The doubling loop of backoff after n rounds.
Doubled[n \in Nat] ==
    IF n = 0
    THEN BaseBackoff
    ELSE LET b == Doubled[n - 1]
         IN  IF b >= MaxBackoff THEN b
             ELSE IF b > MaxBackoff \div 2 THEN MaxBackoff ELSE 2 * b

\* Mutant of Backoff: doubling without the cap.
BackoffUncapped(attempt) == BaseBackoff * 2^attempt

\* backoff(attempt); the loop never leaves BaseBackoff..MaxBackoff, and the
\* code caps what would.
Backoff(attempt) ==
    LET b == Doubled[attempt - 1]
    IN  IF b \in BaseBackoff..MaxBackoff THEN b ELSE MaxBackoff

\* Publish returns an error, which says nothing about the message's fate.
PublishFailed(w) ==
    /\ pc[w] = "publish"
    /\ Fault
    /\ UnknownFate(cur[w])
    /\ pc' = [pc EXCEPT ![w] = "failed"]
    /\ timer' = [timer EXCEPT ![w] = Backoff(records[w][cur[w]])]
    /\ UNCHANGED <<rowVars, caller, locked, records, cur, lastError>>

\* The reply is lost.  The relay's context has no deadline, so Publish waits
\* until the process stops.
PublishHangs(w) ==
    /\ pc[w] = "publish"
    /\ Fault
    /\ UnknownFate(cur[w])
    /\ pc' = [pc EXCEPT ![w] = "hung"]
    /\ UNCHANGED <<rowVars, caller, locked, timer, records, cur, lastError>>

-----------------------------------------------------------------------------
(***************************************************************************)
(* Marking the outcome: one UPDATE, guarded by status and lease owner.     *)
(***************************************************************************)
Marking(w) == pc[w] \in {"acked", "failed", "unencodable"}

\* The UPDATE waits for a Claim that holds the row.
RowFree(e) == e \notin LockedRows

\* Mutant of Owned: the UPDATE finds the row by its ID alone.
OwnedById(w) == status[cur[w]] # "absent"

Owned(w) == status[cur[w]] = "publishing" /\ owner[cur[w]] = w

SetPublished(e) ==
    /\ status' = [status EXCEPT ![e] = "published"]
    /\ owner' = [owner EXCEPT ![e] = NoWorker]
    /\ lease' = [lease EXCEPT ![e] = 0]
    /\ UNCHANGED <<attempts, wait>>

SetFailed(e, permanent, next) ==
    /\ status' = [status EXCEPT ![e] =
                    IF permanent \/ attempts[e] >= MaxAttempts
                    THEN "dead_letter" ELSE "pending"]
    /\ wait' = [wait EXCEPT ![e] = next]
    /\ owner' = [owner EXCEPT ![e] = NoWorker]
    /\ lease' = [lease EXCEPT ![e] = 0]
    /\ UNCHANGED attempts

\* Mutant of Mark: a failed publication is marked published.
MarkIgnoresError(w) ==
    IF pc[w] = "unencodable"
    THEN SetFailed(cur[w], TRUE, 0) ELSE SetPublished(cur[w])

\* The UPDATE a relay at its current state issues.
Mark(w) ==
    \/ pc[w] = "acked" /\ SetPublished(cur[w])
    \/ pc[w] = "failed" /\ SetFailed(cur[w], FALSE, timer[w])
    \/ pc[w] = "unencodable" /\ SetFailed(cur[w], TRUE, 0)

\* Mutant of NextRecord: the loop takes the same record again.
NextRecordRepeats(w) ==
    /\ pc' = [pc EXCEPT ![w] = "publish"]
    /\ UNCHANGED <<records, timer, cur, lastError, locked>>

\* On to another record, or back to the ticker once the batch is done.
NextRecord(w) ==
    /\ records' = [records EXCEPT ![w][cur[w]] = 0]
    /\ timer' = [timer EXCEPT ![w] = 0]
    /\ \/ /\ Todo(w) = {cur[w]}
          /\ pc' = [pc EXCEPT ![w] = "idle"]
          /\ cur' = [cur EXCEPT ![w] = NoEvent]
          /\ lastError' = [lastError EXCEPT ![w] = FALSE]
       \/ \E e \in Todo(w) \ {cur[w]} :
          /\ pc' = [pc EXCEPT ![w] = "publish"]
          /\ cur' = [cur EXCEPT ![w] = e]
          /\ UNCHANGED lastError
    /\ UNCHANGED locked

MarkDone(w) ==
    /\ Marking(w) /\ RowFree(cur[w])
    /\ Owned(w)
    /\ Mark(w)
    /\ NextRecord(w)
    /\ UNCHANGED <<caller, streamVars, faults>>

\* RowsAffected() # 1: the lease was taken over.
MarkNotOwned(w) ==
    /\ Marking(w) /\ RowFree(cur[w])
    /\ ~Owned(w)
    /\ AbortBatch(w)
    /\ UNCHANGED <<rowVars, caller, streamVars, faults>>

\* The UPDATE fails, or takes effect and its answer is lost.
MarkError(w) ==
    /\ Marking(w) /\ RowFree(cur[w])
    /\ Fault
    /\ UNCHANGED rowVars \/ (Owned(w) /\ Mark(w))
    /\ AbortBatch(w)
    /\ UNCHANGED <<caller, streamVars>>

-----------------------------------------------------------------------------
(***************************************************************************)
(* Crashes and time.                                                       *)
(***************************************************************************)

\* The process dies, or Close cancels the context every call of the batch
\* uses; the server rolls an open Claim back.  A Publish in flight may
\* still arrive.
Stop(w) ==
    /\ Live(w)
    /\ Fault
    /\ pc' = [pc EXCEPT ![w] = "gone"]
    /\ locked' = [locked EXCEPT ![w] = {}]
    /\ timer' = [timer EXCEPT ![w] = 0]
    /\ records' = [records EXCEPT ![w] = NoRecords]
    /\ cur' = [cur EXCEPT ![w] = NoEvent]
    /\ lastError' = [lastError EXCEPT ![w] = FALSE]
    /\ \/ UNCHANGED late
       \/ pc[w] = "publish" /\ late' = [late EXCEPT ![cur[w]] = @ + 1]
    /\ UNCHANGED <<rowVars, caller, stored, window>>

Down(n) == IF n > 0 THEN n - 1 ELSE 0

\* A working relay is about to lose a lease it still needs.
Overrun ==
    \E w \in Workers :
        \/ pc[w] = "claiming" /\ timer[w] = 1
        \/ /\ pc[w] \in {"publish", "acked", "failed", "unencodable"}
           /\ \E e \in Todo(w) : owner[e] = w /\ lease[e] = 1

Tick ==
    /\ wait' = [e \in Events |-> Down(wait[e])]
    /\ lease' = [e \in Events |-> Down(lease[e])]
    /\ window' = [e \in Events |-> Down(window[e])]
    /\ timer' = [w \in Workers |-> Down(timer[w])]
    /\ IF Overrun THEN Fault ELSE UNCHANGED faults
    /\ UNCHANGED <<status, attempts, owner, caller, pc, locked, records, cur,
                   lastError, stored, late>>

-----------------------------------------------------------------------------
Inserting(e) ==
    \/ BeginInsert(e)
    \/ CommitInsert(e)
    \/ CommitInsertUnknown(e)
    \/ RollbackInsert(e)

\* The relay's own steps, which it takes unless something goes wrong.
RelayStep(w) ==
    \/ Start(w)
    \/ PollEmpty(w)
    \/ ClaimBegin(w)
    \/ ClaimCommit(w)
    \/ PublishAcked(w)
    \/ MarkDone(w)
    \/ MarkNotOwned(w)

RelayFault(w) ==
    \/ ClaimRollback(w)
    \/ ClaimCommitUnknown(w)
    \/ EncodeFailed(w)
    \/ PublishFailed(w)
    \/ PublishHangs(w)
    \/ MarkError(w)
    \/ Stop(w)

Next ==
    \/ \E e \in Events : Inserting(e) \/ LateStore(e)
    \/ \E w \in Workers : RelayStep(w) \/ RelayFault(w)
    \/ Tick

Fairness ==
    /\ \A w \in Workers : WF_vars(RelayStep(w))
    /\ WF_vars(Tick)

SafetySpec == Init /\ [][Next]_vars
Spec == SafetySpec /\ Fairness
-----------------------------------------------------------------------------
(***************************************************************************)
(* Properties.                                                             *)
(***************************************************************************)

\* Every variable keeps its type: columns within their CHECK constraints,
\* deadlines within the configured durations (a backoff never exceeds
\* MaxBackoff), attempt counts and copies natural numbers.
TypeOK ==
    /\ status \in [Events -> {"absent", "pending", "publishing"} \cup Settled]
    /\ attempts \in [Events -> Nat]
    /\ wait \in [Events -> 0..MaxBackoff]
    /\ owner \in [Events -> Workers \cup {NoWorker}]
    /\ lease \in [Events -> 0..LeaseDuration]
    /\ caller \in [Events -> {"idle", "open", "ok", "error"}]
    /\ pc \in [Workers -> RelayStates]
    /\ locked \in [Workers -> SUBSET Events]
    /\ timer \in [Workers -> Nat]
    /\ records \in [Workers -> [Events -> Nat]]
    /\ cur \in [Workers -> Events \cup {NoEvent}]
    /\ lastError \in [Workers -> BOOLEAN]
    /\ stored \in [Events -> Nat]
    /\ window \in [Events -> 0..DuplicateWindow]
    /\ late \in [Events -> Nat]
    /\ faults \in 0..MaxFaults

\* A row says "published" only when JetStream holds the event: MarkPublished
\* follows an acknowledged Publish of that very event, whatever stale worker,
\* lost answer or crash came between.
PublishedIsStored ==
    \A e \in Events : status[e] = "published" => stored[e] > 0

\* The outbox is transactional: a caller told that its transaction committed
\* has its event in the table, and nothing reaches the stream, or is on its
\* way there, for an event whose transaction did not commit.
TransactionalOutbox ==
    \A e \in Events :
        (caller[e] = "ok" \/ stored[e] > 0 \/ late[e] > 0) => status[e] # "absent"

\* A worker that still owns a row works from the row's current attempt
\* count, so the backoff computed from Record.Attempt is the row's own.
FreshRecord ==
    \A w \in Workers : \A e \in Todo(w) :
        status[e] = "publishing" /\ owner[e] = w => records[w][e] = attempts[e]

\* Rows are claimed again only for a reason: every attempt after the first is
\* paid for by a crash, a failed call or an overrun lease, so relays that run
\* side by side never burn each other's attempts.
AttemptsPaid ==
    \A e \in Events : attempts[e] <= faults + 1

\* One claim publishes at most one copy: the stream's copies of an event,
\* with those in transit, never exceed its attempt count.
CopiesBounded ==
    \A e \in Events : stored[e] + late[e] <= attempts[e]

\* Published and dead-lettered rows are final: no stale worker, late mark or
\* new claim ever changes them, and no row disappears or loses attempts.
SettledForever ==
    [][\A e \in Events :
        /\ status[e] \in Settled => status'[e] = status[e] /\ attempts'[e] = attempts[e]
        /\ status[e] # "absent" => status'[e] # "absent"
        /\ attempts'[e] >= attempts[e]]_vars

\* An unexpired lease is exclusive: only its owner gives it up, by a mark of
\* the record that owner is processing, and nobody takes it over before
\* lease_expires_at.
LeaseRespected ==
    [][\A e \in Events : \A w \in Workers :
        owner[e] = w /\ lease[e] > 0 /\ owner'[e] # w =>
            owner'[e] = NoWorker /\ cur[w] = e /\ Marking(w)]_vars

\* Every committed event is eventually published or dead-lettered, although
\* relays crash, hang, overrun leases and lose answers on the way.
EventuallySettled ==
    \A e \in Events : status[e] # "absent" ~> status[e] \in Settled

\* An error reported by Check does not stick: a relay that neither stops nor
\* hangs in Publish clears it with its next successful batch.
RelayRecovers ==
    \A w \in Workers : lastError[w] ~> ~lastError[w] \/ pc[w] = "hung"

\* The parts of the inductive invariant that the properties above do not
\* state.  outbox_lease_state: a row has a lease owner while it is being
\* published and at no other time.
LeaseState ==
    \A e \in Events :
        /\ status[e] = "publishing" <=> owner[e] # NoWorker
        /\ status[e] # "publishing" => lease[e] = 0

\* The rows an open Claim has locked stay claimable and are its alone.
LocksHeld ==
    \A w \in Workers : \A e \in locked[w] :
        /\ pc[w] = "claiming"
        /\ Claimable(e)
        /\ \A v \in Workers : e \in locked[v] => v = w

\* The lease about to be granted and the backoff about to be scheduled are
\* no longer than the configured ones.
TimersBounded ==
    \A w \in Workers :
        /\ pc[w] = "claiming" => timer[w] <= LeaseDuration
        /\ pc[w] = "failed" => timer[w] <= MaxBackoff

\* A relay works on a record it holds, of a committed row, and has an
\* acknowledgement only for an event the stream holds.
WorkInHand ==
    \A w \in Workers :
        /\ pc[w] \in {"publish", "acked", "failed", "unencodable", "hung"}
              => cur[w] \in Todo(w)
        /\ pc[w] = "acked" => stored[cur[w]] > 0
        /\ \A e \in Todo(w) : status[e] # "absent"

\* An insert in progress is of a row that does not exist yet.
OpenIsAbsent == \A e \in Events : caller[e] = "open" => status[e] = "absent"

\* The stream remembers the ID of a message only while it holds a copy.
WindowIsStored == \A e \in Events : window[e] > 0 => stored[e] > 0

\* The lease protocol as an inductive invariant: every step from any state
\* that satisfies it, reachable or not, satisfies it again.
LeaseProtocol ==
    /\ TypeOK
    /\ LeaseState
    /\ LocksHeld
    /\ TimersBounded
    /\ WorkInHand
    /\ OpenIsAbsent
    /\ WindowIsStored
    /\ FreshRecord
    /\ PublishedIsStored
    /\ TransactionalOutbox

\* The parts of the inductive invariant that counts attempts.  Only a relay
\* at work has records, and what they say was true once.
Working == {"publish", "acked", "failed", "unencodable", "hung"}
RecordsTrue ==
    \A w \in Workers :
        /\ pc[w] \notin Working => Todo(w) = {}
        /\ \A e \in Events : records[w][e] <= attempts[e]

\* A relay whose publication went wrong did so after its claim.
TroublePaid ==
    \A w \in Workers : pc[w] \in {"failed", "unencodable", "hung"} =>
        \A e \in Events : records[w][e] <= faults

\* A Claim whose lease has run out before COMMIT has overrun it.
StaleClaimPaid ==
    \A w \in Workers : pc[w] = "claiming" /\ timer[w] = 0 =>
        \A e \in locked[w] : attempts[e] < faults

\* Until something goes wrong, a relay owns its whole batch.
UnpaidOwned ==
    \A w \in Workers : (\E f \in Events : records[w][f] > faults) =>
        \A e \in Todo(w) : status[e] = "publishing" /\ owner[e] = w /\ lease[e] > 0

\* An attempt nothing went wrong with has settled the row, or is in the hand
\* of the relay that made it.
UnpaidInHand ==
    \A e \in Events : attempts[e] > faults =>
        status[e] \in Settled \/ \E w \in Workers : records[w][e] > faults

\* The relays that may still publish the event for the claim they made.
Holders(e) ==
    {w \in Workers : e \in Todo(w) /\ ~(cur[w] = e /\ pc[w] # "publish")}

\* Copies stored, in transit and still to be published never outnumber the
\* claims.
CopiesAccounted ==
    \A e \in Events :
        /\ IsFiniteSet(Holders(e))
        /\ stored[e] + late[e] + Cardinality(Holders(e)) <= attempts[e]

\* Attempts, faults and copies are in balance: an inductive invariant on top
\* of the lease protocol.
AttemptAccounting ==
    /\ LeaseProtocol
    /\ RecordsTrue
    /\ TroublePaid
    /\ StaleClaimPaid
    /\ UnpaidOwned
    /\ UnpaidInHand
    /\ AttemptsPaid
    /\ CopiesAccounted

\* The abstract outbox inside this one.
Outcome(e) ==
    IF status[e] \in {"pending", "publishing"} THEN "committed" ELSE status[e]

Delivery == INSTANCE EventDelivery WITH
    outcome <- [e \in Events |-> Outcome(e)],
    delivered <- {e \in Events : stored[e] > 0}

\* Rows, leases, relays and stream together implement EventDelivery: what
\* Insert, Claim, Publish and the marks do amounts, for every event, to
\* commit, deliver, publish or give up, and the decision always comes.
ImplementsDelivery == Delivery!Spec

\* "exhausted records become dead letters": no row is attempted more often
\* than MaxAttempts.
AttemptsBounded ==
    \A e \in Events : attempts[e] <= MaxAttempts
=============================================================================
