------------------------ MODULE OutboxCountingProofs ------------------------
(***************************************************************************)
(* Proofs about what Outbox counts: attempts against faults, and copies    *)
(* in the stream against attempts.                                         *)
(***************************************************************************)
EXTENDS OutboxProofs, FiniteSetTheorems

\* A relay's steps leave the other relays' work alone.
LEMMA OthersKept ==
    ASSUME RelayTypes, NEW w \in Workers, RelayStep(w) \/ RelayFault(w),
           NEW v \in Workers, v # w
    PROVE  pc'[v] = pc[v] /\ cur'[v] = cur[v] /\ records'[v] = records[v]
<1>1. ASSUME \/ Start(w) \/ PollEmpty(w) \/ ClaimBegin(w) \/ ClaimCommit(w) \/ PublishAcked(w)
             \/ EncodeFailed(w) \/ PublishFailed(w) \/ PublishHangs(w) \/ Stop(w)
      PROVE  pc'[v] = pc[v] /\ cur'[v] = cur[v] /\ records'[v] = records[v]
    BY <1>1 DEF Start, PollEmpty, ClaimBegin, ClaimCommit, PublishAcked, EncodeFailed,
        PublishFailed, PublishHangs, Stop, RelayTypes
<1>2. ASSUME AbortBatch(w)
      PROVE  pc'[v] = pc[v] /\ cur'[v] = cur[v] /\ records'[v] = records[v]
    BY <1>2 DEF AbortBatch, RelayTypes
<1>3. ASSUME NextRecord(w)
      PROVE  pc'[v] = pc[v] /\ cur'[v] = cur[v] /\ records'[v] = records[v]
    BY <1>3 DEF NextRecord, RelayTypes
<1> QED
    BY <1>1, <1>2, <1>3 DEF RelayStep, RelayFault, ClaimRollback, ClaimCommitUnknown, MarkDone,
        MarkNotOwned, MarkError

\* What a relay's step does to its own batch: it claims one, drops it, takes
\* one record out of it, or leaves it as it is.
Claims(w) ==
    /\ ClaimCommit(w)
    /\ pc'[w] = "publish" /\ cur'[w] \in locked[w]
    /\ \A e \in Events : records'[w][e] = IF e \in locked[w] THEN attempts[e] + 1 ELSE 0
Drops(w) ==
    /\ pc'[w] \in {"idle", "gone"}
    /\ \A e \in Events : records'[w][e] = 0
Finishes(w) ==
    /\ MarkDone(w)
    /\ \A e \in Events : records'[w][e] = IF e = cur[w] THEN 0 ELSE records[w][e]
    /\ \/ pc'[w] = "idle" /\ Todo(w) = {cur[w]}
       \/ pc'[w] = "publish" /\ cur'[w] \in Todo(w) \ {cur[w]}
Keeps(w) ==
    /\ records'[w] = records[w] /\ cur'[w] = cur[w]
    /\ \/ pc[w] \notin Working /\ pc'[w] \notin Working
       \/ pc[w] = "publish" /\ pc'[w] = "acked"
       \/ pc[w] = "publish" /\ pc'[w] \in {"failed", "unencodable", "hung"} /\ Fault

\* Every step of a relay is one of these, and an unforced drop is of a batch
\* the relay no longer owns.
LEMMA BatchSteps ==
    ASSUME LeaseProtocol, NEW w \in Workers, RelayStep(w) \/ RelayFault(w)
    PROVE  \/ Claims(w)
           \/ Drops(w) /\ (Fault \/ MarkNotOwned(w))
           \/ Finishes(w)
           \/ Keeps(w)
<1>0. RelayTypes
    BY TypeParts DEF LeaseProtocol
<1>1. ASSUME Start(w) \/ PollEmpty(w) \/ ClaimBegin(w) PROVE Keeps(w)
    BY <1>0, <1>1 DEF Start, PollEmpty, ClaimBegin, Keeps, Working, RelayTypes
<1>2. ASSUME ClaimCommit(w) PROVE Claims(w)
    BY <1>0, <1>2 DEF ClaimCommit, Claims, Returning, RelayTypes
<1>3. ASSUME PublishAcked(w) \/ EncodeFailed(w) \/ PublishFailed(w) \/ PublishHangs(w)
      PROVE  Keeps(w)
    BY <1>0, <1>3
    DEF PublishAcked, EncodeFailed, PublishFailed, PublishHangs, Keeps, Working, RelayTypes
<1>4. ASSUME AbortBatch(w) \/ Stop(w) PROVE Drops(w)
    BY <1>0, <1>4 DEF AbortBatch, Stop, NoRecords, Drops, RelayTypes
<1>5. ASSUME MarkDone(w) PROVE Finishes(w)
    <2>1. cur[w] \in Events
        BY <1>5, WorkingOnEvent DEF MarkDone, Marking
    <2>2. \A e \in Events : records'[w][e] = IF e = cur[w] THEN 0 ELSE records[w][e]
        BY <1>0, <1>5, <2>1 DEF MarkDone, NextRecord, RelayTypes
    <2>3. \/ pc'[w] = "idle" /\ Todo(w) = {cur[w]}
          \/ pc'[w] = "publish" /\ cur'[w] \in Todo(w) \ {cur[w]}
        BY <1>0, <1>5 DEF MarkDone, NextRecord, RelayTypes
    <2> QED
        BY <1>5, <2>2, <2>3 DEF Finishes
<1>6. ASSUME ClaimRollback(w) \/ ClaimCommitUnknown(w) \/ MarkError(w) \/ Stop(w)
      PROVE  Drops(w) /\ Fault
    BY <1>4, <1>6 DEF ClaimRollback, ClaimCommitUnknown, MarkError, Stop
<1>7. ASSUME MarkNotOwned(w) PROVE Drops(w)
    BY <1>4, <1>7 DEF MarkNotOwned
<1> QED
    BY <1>1, <1>2, <1>3, <1>5, <1>6, <1>7 DEF RelayStep, RelayFault

\* Steps that are no relay's leave every batch as it is.
LEMMA NoRelaySteps ==
    ASSUME [Next]_vars, \A w \in Workers : ~(RelayStep(w) \/ RelayFault(w))
    PROVE  UNCHANGED <<pc, cur, records, locked>>
<1>1. ASSUME NEW e \in Events, Inserting(e) \/ LateStore(e) PROVE UNCHANGED relayVars
    BY <1>1 DEF Inserting, BeginInsert, CommitInsert, CommitInsertUnknown, RollbackInsert,
        LateStore
<1>2. Tick \/ UNCHANGED vars => UNCHANGED <<pc, cur, records, locked>>
    BY DEF Tick, vars, relayVars
<1> QED
    BY <1>1, <1>2 DEF Next, relayVars

\* Faults are never taken back.
LEMMA FaultSteps ==
    ASSUME LeaseProtocol, [Next]_vars
    PROVE  /\ faults \in Nat /\ faults' \in Nat
           /\ (Fault /\ faults' = faults + 1) \/ UNCHANGED faults
<1>1. faults \in Nat /\ (Fault => faults' = faults + 1)
    BY DEF LeaseProtocol, TypeOK, Fault
<1>2. ASSUME NEW e \in Events, Inserting(e) \/ LateStore(e) PROVE UNCHANGED faults
    BY <1>2 DEF Inserting, BeginInsert, CommitInsert, CommitInsertUnknown, RollbackInsert,
        LateStore
<1>3. ASSUME NEW w \in Workers, RelayStep(w) PROVE UNCHANGED faults
    BY <1>3 DEF RelayStep, Start, PollEmpty, ClaimBegin, ClaimCommit, PublishAcked, MarkDone,
        MarkNotOwned
<1>4. ASSUME NEW w \in Workers, RelayFault(w) PROVE Fault
    BY <1>4 DEF RelayFault, ClaimRollback, ClaimCommitUnknown, EncodeFailed, PublishFailed,
        PublishHangs, MarkError, Stop
<1>5. Tick \/ UNCHANGED vars => Fault \/ UNCHANGED faults
    BY DEF Tick, vars
<1>6. Fault \/ UNCHANGED faults
    BY <1>2, <1>3, <1>4, <1>5 DEF Next
<1> QED
    BY <1>1, <1>6

\* A fault pays for every attempt made so far, and for every record of one.
LEMMA FaultPays ==
    ASSUME AttemptAccounting, Fault
    PROVE  /\ \A e \in Events : attempts[e] <= faults'
           /\ \A w \in Workers, e \in Events : records[w][e] <= faults'
<1>1. RowTypes /\ RelayTypes /\ faults \in Nat /\ faults' = faults + 1
    BY TypeParts DEF AttemptAccounting, LeaseProtocol, Fault
<1>2. \A e \in Events : attempts[e] \in Nat /\ attempts[e] <= faults'
    BY <1>1 DEF AttemptAccounting, AttemptsPaid, RowTypes
<1>3. \A w \in Workers, e \in Events : records[w][e] \in Nat /\ records[w][e] <= attempts[e]
    BY <1>1 DEF AttemptAccounting, RecordsTrue, RelayTypes
<1> QED
    BY <1>1, <1>2, <1>3

\* A row can be claimed only when something went wrong with every attempt.
LEMMA ClaimablePaid ==
    ASSUME AttemptAccounting, NEW e \in Events, Claimable(e)
    PROVE  attempts[e] <= faults
<1>1. attempts[e] \in Nat /\ faults \in Nat
    BY DEF AttemptAccounting, LeaseProtocol, TypeOK
<1>2. SUFFICES ASSUME attempts[e] > faults PROVE FALSE
    BY <1>1
<1>3. PICK w \in Workers : records[w][e] > faults
    BY <1>2 DEF AttemptAccounting, UnpaidInHand, Claimable, Settled
<1>4. e \in Todo(w)
    BY <1>1, <1>3 DEF AttemptAccounting, LeaseProtocol, TypeOK, Todo
<1> QED
    BY <1>3, <1>4 DEF AttemptAccounting, UnpaidOwned, Claimable

\* A relay with a record of an attempt nothing went wrong with is publishing.
LEMMA UnpaidWorking ==
    ASSUME AttemptAccounting, NEW w \in Workers, NEW e \in Events, records[w][e] > faults
    PROVE  e \in Todo(w) /\ pc[w] \in {"publish", "acked"}
<1>1. records[w][e] \in Nat /\ faults \in Nat
    BY DEF AttemptAccounting, LeaseProtocol, TypeOK
<1>2. e \in Todo(w)
    BY <1>1 DEF Todo
<1>3. pc[w] \in Working
    BY <1>2 DEF AttemptAccounting, RecordsTrue
<1>4. pc[w] \notin {"failed", "unencodable", "hung"}
    BY <1>1 DEF AttemptAccounting, TroublePaid
<1> QED
    BY <1>2, <1>3, <1>4 DEF Working

-----------------------------------------------------------------------------
\* Records change only by a claim, which writes the new attempt count, and
\* otherwise are kept or dropped.
LEMMA RecordSteps ==
    ASSUME LeaseProtocol, [Next]_vars, NEW v \in Workers, NEW e \in Events
    PROVE  \/ Claims(v) /\ e \in locked[v] /\ records'[v][e] = attempts'[e]
           \/ records'[v][e] \in {0, records[v][e]}
<1>0. RelayTypes
    BY TypeParts DEF LeaseProtocol
<1>1. ASSUME NEW w \in Workers, RelayStep(w) \/ RelayFault(w), w # v
      PROVE  records'[v][e] = records[v][e]
    BY <1>0, <1>1, OthersKept
<1>2. ASSUME RelayStep(v) \/ RelayFault(v), Claims(v)
      PROVE  e \in locked[v] => records'[v][e] = attempts'[e]
    BY <1>2 DEF Claims, ClaimCommit, LeaseRows
<1>3. ASSUME RelayStep(v) \/ RelayFault(v), ~Claims(v)
      PROVE  records'[v][e] \in {0, records[v][e]}
    BY <1>3, BatchSteps DEF Drops, Finishes, Keeps
<1>4. ASSUME Claims(v), e \notin locked[v] PROVE records'[v][e] = 0
    BY <1>4 DEF Claims
<1> QED
    BY <1>1, <1>2, <1>3, <1>4, NoRelaySteps

\* Every step keeps RecordsTrue.
LEMMA RecordsTrueStep == AttemptAccounting /\ [Next]_vars => RecordsTrue'
<1> SUFFICES ASSUME AttemptAccounting, [Next]_vars, NEW v \in Workers
             PROVE  /\ pc'[v] \notin Working => Todo(v)' = {}
                    /\ \A e \in Events : records'[v][e] <= attempts'[e]
    BY DEF RecordsTrue
<1>0. RowTypes /\ RelayTypes /\ LeaseProtocol /\ RecordsTrue
    BY TypeParts DEF AttemptAccounting, LeaseProtocol
<1>1. \A e \in Events : records'[v][e] <= attempts'[e]
    <2> SUFFICES ASSUME NEW e \in Events PROVE records'[v][e] <= attempts'[e]
        OBVIOUS
    <2>1. /\ attempts[e] \in Nat /\ attempts'[e] \in Nat /\ attempts[e] <= attempts'[e]
          /\ records[v][e] \in Nat /\ records[v][e] <= attempts[e]
        BY <1>0, SettledStep, TypeStep DEF RecordsTrue, RowTypes, RelayTypes, TypeOK
    <2> QED
        BY <1>0, <2>1, RecordSteps
<1>2. pc'[v] \notin Working => Todo(v)' = {}
    <2>1. ASSUME pc'[v] = pc[v], records'[v] = records[v]
          PROVE  pc'[v] \notin Working => Todo(v)' = {}
        BY <1>0, <2>1 DEF RecordsTrue, Todo
    <2>2. ASSUME RelayStep(v) \/ RelayFault(v)
          PROVE  pc'[v] \notin Working => Todo(v)' = {}
        <3>1. CASE Claims(v)
            BY <3>1 DEF Claims, Working
        <3>2. CASE Drops(v)
            BY <3>2 DEF Drops, Todo
        <3>3. CASE Finishes(v)
            BY <1>0, <3>3 DEF Finishes, Todo, Working, RelayTypes
        <3>4. CASE Keeps(v)
            BY <1>0, <3>4 DEF Keeps, RecordsTrue, Todo, Working
        <3> QED
            BY <1>0, <2>2, <3>1, <3>2, <3>3, <3>4, BatchSteps
    <2> QED
        BY <1>0, <2>1, <2>2, OthersKept, NoRelaySteps
<1> QED
    BY <1>1, <1>2

\* Every step keeps TroublePaid.
LEMMA TroublePaidStep == AttemptAccounting /\ [Next]_vars => TroublePaid'
<1> SUFFICES ASSUME AttemptAccounting, [Next]_vars, NEW v \in Workers,
                    pc'[v] \in {"failed", "unencodable", "hung"}, NEW e \in Events
             PROVE  records'[v][e] <= faults'
    BY DEF TroublePaid
<1>0. RelayTypes /\ LeaseProtocol /\ TroublePaid
    BY TypeParts DEF AttemptAccounting, LeaseProtocol
<1>1. records[v][e] \in Nat /\ faults \in Nat /\ faults' \in Nat /\ faults <= faults'
    BY <1>0, FaultSteps DEF RelayTypes
<1>2. ASSUME pc'[v] = pc[v], records'[v] = records[v] PROVE records'[v][e] <= faults'
    BY <1>0, <1>1, <1>2 DEF TroublePaid
<1>3. ASSUME RelayStep(v) \/ RelayFault(v) PROVE records'[v][e] <= faults'
    <2>1. Keeps(v)
        BY <1>0, <1>3, BatchSteps DEF Claims, Drops, Finishes
    <2> QED
        BY <2>1, FaultPays DEF Keeps, Working
<1> QED
    BY <1>0, <1>2, <1>3, OthersKept, NoRelaySteps

-----------------------------------------------------------------------------
\* Only a claim adds an attempt, one for each row it has locked.
LEMMA AttemptSteps ==
    ASSUME LeaseProtocol, [Next]_vars, NEW e \in Events
    PROVE  \/ attempts'[e] = attempts[e]
           \/ \E w \in Workers :
                /\ ClaimCommit(w) \/ (ClaimCommitUnknown(w) /\ Fault)
                /\ e \in locked[w] /\ Claimable(e) /\ attempts'[e] = attempts[e] + 1
<1>0. RowTypes /\ LocksHeld
    BY TypeParts DEF LeaseProtocol
<1>1. ASSUME NEW w \in Workers, ClaimCommit(w) \/ ClaimCommitUnknown(w)
      PROVE  \/ attempts'[e] = attempts[e]
             \/ /\ ClaimCommit(w) \/ (ClaimCommitUnknown(w) /\ Fault)
                /\ e \in locked[w] /\ Claimable(e) /\ attempts'[e] = attempts[e] + 1
    BY <1>0, <1>1 DEF ClaimCommit, ClaimCommitUnknown, LeaseRows, LocksHeld
<1>2. ASSUME NEW w \in Workers, Mark(w) PROVE UNCHANGED attempts
    BY <1>2 DEF Mark, SetPublished, SetFailed
<1>3. ASSUME NEW w \in Workers, RelayStep(w) \/ RelayFault(w),
             ~ClaimCommit(w), ~ClaimCommitUnknown(w)
      PROVE  UNCHANGED attempts
    <2>1. CASE Start(w) \/ PollEmpty(w) \/ ClaimBegin(w) \/ PublishAcked(w) \/ MarkNotOwned(w)
        BY <2>1 DEF Start, PollEmpty, ClaimBegin, PublishAcked, MarkNotOwned, rowVars
    <2>2. CASE MarkDone(w) \/ MarkError(w)
        BY <1>2, <2>2 DEF MarkDone, MarkError, rowVars
    <2>3. CASE ClaimRollback(w) \/ EncodeFailed(w) \/ PublishFailed(w) \/ PublishHangs(w) \/ Stop(w)
        BY <2>3 DEF ClaimRollback, EncodeFailed, PublishFailed, PublishHangs, Stop, rowVars
    <2> QED
        BY <1>3, <2>1, <2>2, <2>3 DEF RelayStep, RelayFault
<1>4. ASSUME NEW f \in Events, Inserting(f) \/ LateStore(f) PROVE UNCHANGED attempts
    BY <1>4 DEF Inserting, BeginInsert, CommitInsert, CommitInsertUnknown, RollbackInsert,
        LateStore, AddRow, rowVars
<1>5. Tick \/ UNCHANGED vars => UNCHANGED attempts
    BY DEF Tick, vars, rowVars
<1> QED
    BY <1>1, <1>3, <1>4, <1>5 DEF Next

\* Every step keeps AttemptsPaid.
LEMMA AttemptsPaidStep == AttemptAccounting /\ [Next]_vars => AttemptsPaid'
<1> SUFFICES ASSUME AttemptAccounting, [Next]_vars, NEW e \in Events
             PROVE  attempts'[e] <= faults' + 1
    BY DEF AttemptsPaid
<1>1. /\ attempts[e] \in Nat /\ attempts[e] <= faults + 1 /\ LeaseProtocol
      /\ faults \in Nat /\ faults' \in Nat /\ faults <= faults'
    BY FaultSteps DEF AttemptAccounting, AttemptsPaid, LeaseProtocol, TypeOK
<1> QED
    BY <1>1, AttemptSteps, ClaimablePaid

\* Every step keeps StaleClaimPaid.
LEMMA StaleClaimPaidStep == AttemptAccounting /\ [Next]_vars => StaleClaimPaid'
<1> SUFFICES ASSUME AttemptAccounting, [Next]_vars, NEW v \in Workers,
                    pc'[v] = "claiming", timer'[v] = 0, NEW e \in locked'[v]
             PROVE  attempts'[e] < faults'
    BY DEF StaleClaimPaid
<1>0. RowTypes /\ RelayTypes /\ LeaseProtocol /\ LocksHeld /\ StaleClaimPaid
    BY TypeParts DEF AttemptAccounting, LeaseProtocol
<1>1. faults \in Nat /\ faults' \in Nat /\ faults <= faults'
    BY <1>0, FaultSteps
<1>2. ASSUME pc[v] = "claiming", timer[v] = 0, e \in locked[v], attempts'[e] = attempts[e]
      PROVE  attempts'[e] < faults'
    BY <1>0, <1>1, <1>2 DEF StaleClaimPaid, RowTypes, RelayTypes
<1>3. ASSUME NEW w \in Workers, RelayStep(w) \/ RelayFault(w), w # v
      PROVE  /\ pc[v] = "claiming" /\ timer[v] = 0 /\ e \in locked[v]
             /\ attempts'[e] = attempts[e]
    <2>1. /\ pc'[v] = pc[v] /\ timer'[v] = timer[v] /\ locked'[v] = locked[v]
        <3>1. CASE \/ Start(w) \/ PollEmpty(w) \/ ClaimBegin(w) \/ ClaimCommit(w)
                   \/ PublishAcked(w) \/ EncodeFailed(w) \/ PublishFailed(w)
                   \/ PublishHangs(w) \/ Stop(w)
            BY <1>0, <1>3, <3>1 DEF Start, PollEmpty, ClaimBegin, ClaimCommit, PublishAcked,
                EncodeFailed, PublishFailed, PublishHangs, Stop, RelayTypes
        <3>2. CASE AbortBatch(w)
            BY <1>0, <1>3, <3>2 DEF AbortBatch, RelayTypes
        <3>3. CASE NextRecord(w)
            BY <1>0, <1>3, <3>3 DEF NextRecord, RelayTypes
        <3> QED
            BY <1>3, <3>1, <3>2, <3>3 DEF RelayStep, RelayFault, ClaimRollback,
                ClaimCommitUnknown, MarkDone, MarkNotOwned, MarkError
    <2>2. e \in locked[v] /\ e \in Events
        BY <1>0, <2>1 DEF RelayTypes
    <2>3. e \notin locked[w]
        BY <1>0, <1>3, <2>2 DEF LocksHeld
    <2>4. ASSUME NEW u \in Workers, ClaimCommit(u) \/ ClaimCommitUnknown(u) PROVE u # v
        BY <1>0, <2>1, <2>4 DEF ClaimCommit, ClaimCommitUnknown, AbortBatch, RelayTypes
    <2>5. ASSUME NEW u \in Workers, e \in locked[u] PROVE u = v
        BY <1>0, <2>2, <2>5 DEF LocksHeld
    <2> QED
        BY <1>0, <2>1, <2>2, <2>4, <2>5, AttemptSteps
<1>4. ASSUME RelayStep(v) \/ RelayFault(v) PROVE FALSE
    <2>1. ClaimBegin(v)
        <3>1. CASE \/ Start(v) \/ PollEmpty(v) \/ ClaimCommit(v) \/ PublishAcked(v)
                   \/ EncodeFailed(v) \/ PublishFailed(v) \/ PublishHangs(v) \/ Stop(v)
            BY <1>0, <3>1 DEF Start, PollEmpty, ClaimCommit, PublishAcked, EncodeFailed,
                PublishFailed, PublishHangs, Stop, RelayTypes
        <3>2. CASE AbortBatch(v)
            BY <1>0, <3>2 DEF AbortBatch, RelayTypes
        <3>3. CASE NextRecord(v)
            BY <1>0, <3>3 DEF NextRecord, RelayTypes
        <3> QED
            BY <1>4, <3>1, <3>2, <3>3 DEF RelayStep, RelayFault, ClaimRollback,
                ClaimCommitUnknown, MarkDone, MarkNotOwned, MarkError
    <2>2. timer'[v] = LeaseDuration
        BY <1>0, <2>1 DEF ClaimBegin, RelayTypes
    <2> QED
        BY <2>2, RelayConfigAssumption
<1>5. CASE Tick
    <2>1. /\ pc[v] = "claiming" /\ e \in locked[v] /\ e \in Events
          /\ UNCHANGED attempts /\ timer'[v] = Down(timer[v])
        BY <1>0, <1>5 DEF Tick, RelayTypes
    <2>2. CASE timer[v] = 0
        BY <1>2, <2>1, <2>2
    <2>3. CASE timer[v] # 0
        <3>1. timer[v] = 1
            BY <1>0, <2>1, <2>3 DEF Down, RelayTypes
        <3>2. Fault
            BY <1>5, <2>1, <3>1 DEF Tick, Overrun
        <3>3. attempts[e] <= faults
            BY <1>0, <2>1, ClaimablePaid DEF LocksHeld
        <3> QED
            BY <1>0, <1>1, <2>1, <3>2, <3>3 DEF Fault, RowTypes
    <2> QED
        BY <2>2, <2>3
<1>6. ASSUME NEW f \in Events, Inserting(f) \/ LateStore(f)
      PROVE  UNCHANGED <<relayVars, attempts>>
    BY <1>6 DEF Inserting, BeginInsert, CommitInsert, CommitInsertUnknown, RollbackInsert,
        LateStore, AddRow, rowVars
<1>7. UNCHANGED vars => UNCHANGED <<relayVars, attempts>>
    BY DEF vars, rowVars
<1> QED
    BY <1>2, <1>3, <1>4, <1>5, <1>6, <1>7 DEF Next, relayVars

\* A row under an unexpired lease changes only as time passes, or by a mark of
\* the relay that owns it.
LEMMA LeasedRowSteps ==
    ASSUME LeaseProtocol, [Next]_vars, NEW e \in Events, status[e] = "publishing", lease[e] > 0
    PROVE  \/ status'[e] = status[e] /\ owner'[e] = owner[e] /\ lease'[e] = lease[e]
           \/ Tick
           \/ \E w \in Workers : owner[e] = w /\ cur[w] = e /\ (MarkDone(w) \/ MarkError(w))
<1>0. RowTypes /\ RelayTypes /\ LocksHeld /\ OpenIsAbsent
    BY TypeParts DEF LeaseProtocol
<1> DEFINE Same == status'[e] = status[e] /\ owner'[e] = owner[e] /\ lease'[e] = lease[e]
<1>1. ASSUME NEW w \in Workers, LeaseRows(w) PROVE Same
    <2>1. e \notin locked[w]
        BY <1>0 DEF LocksHeld, Claimable
    <2> QED
        BY <1>1, <2>1 DEF LeaseRows
<1>2. ASSUME NEW w \in Workers, Marking(w), Mark(w), cur[w] # e PROVE Same
    BY <1>0, <1>2, MarkEffect DEF RowTypes
<1>3. ASSUME NEW w \in Workers, MarkDone(w) \/ MarkError(w)
      PROVE  Same \/ (owner[e] = w /\ cur[w] = e)
    BY <1>2, <1>3 DEF MarkDone, MarkError, Owned, rowVars
<1>4. ASSUME NEW w \in Workers, RelayStep(w) \/ RelayFault(w), ~MarkDone(w), ~MarkError(w)
      PROVE  Same
    <2>1. CASE ClaimCommit(w) \/ ClaimCommitUnknown(w)
        BY <1>1, <2>1 DEF ClaimCommit, ClaimCommitUnknown
    <2>2. CASE Start(w) \/ PollEmpty(w) \/ ClaimBegin(w) \/ PublishAcked(w) \/ MarkNotOwned(w)
        BY <2>2 DEF Start, PollEmpty, ClaimBegin, PublishAcked, MarkNotOwned, rowVars
    <2>3. CASE ClaimRollback(w) \/ EncodeFailed(w) \/ PublishFailed(w) \/ PublishHangs(w) \/ Stop(w)
        BY <2>3 DEF ClaimRollback, EncodeFailed, PublishFailed, PublishHangs, Stop, rowVars
    <2> QED
        BY <1>4, <2>1, <2>2, <2>3 DEF RelayStep, RelayFault
<1>5. ASSUME NEW f \in Events, Inserting(f) \/ LateStore(f) PROVE Same
    BY <1>0, <1>5 DEF Inserting, BeginInsert, CommitInsert, CommitInsertUnknown,
        RollbackInsert, LateStore, AddRow, rowVars, OpenIsAbsent, RowTypes
<1>6. UNCHANGED vars => Same
    BY DEF vars, rowVars
<1> QED
    BY <1>3, <1>4, <1>5, <1>6 DEF Next

\* Every step keeps UnpaidOwned.
LEMMA UnpaidOwnedStep == AttemptAccounting /\ [Next]_vars => UnpaidOwned'
<1> SUFFICES ASSUME AttemptAccounting, [Next]_vars, NEW v \in Workers,
                    NEW f \in Events, records'[v][f] > faults', NEW e \in Todo(v)'
             PROVE  status'[e] = "publishing" /\ owner'[e] = v /\ lease'[e] > 0
    BY DEF UnpaidOwned
<1>0. RowTypes /\ RelayTypes /\ LeaseProtocol
    BY TypeParts DEF AttemptAccounting, LeaseProtocol
<1>1. e \in Events /\ records'[v][e] > 0
    BY DEF Todo
<1>2. /\ faults \in Nat /\ records[v][f] \in Nat /\ records[v][e] \in Nat
      /\ UNCHANGED faults
    <2>1. ASSUME Fault, faults' = faults + 1, faults \in Nat PROVE FALSE
        <3>1. records'[v][f] \in {0, records[v][f]}
            BY <1>0, <2>1, RecordSteps DEF Claims, ClaimCommit
        <3>2. records[v][f] \in Nat /\ records[v][f] <= faults'
            BY <1>0, <2>1, FaultPays DEF RelayTypes
        <3> QED
            BY <2>1, <3>1, <3>2
    <2> QED
        BY <1>0, <1>1, <2>1, FaultSteps DEF RelayTypes
<1>3. CASE Claims(v)
    <2>1. LeaseRows(v) /\ pc[v] = "claiming" /\ locked[v] \subseteq Events
        BY <1>0, <1>3 DEF Claims, ClaimCommit, RelayTypes
    <2>2. e \in locked[v] /\ f \in locked[v] /\ records'[v][f] = attempts[f] + 1
        BY <1>1, <1>2, <1>3 DEF Claims
    <2>3. timer[v] \in Nat /\ timer[v] # 0
        BY <1>0, <1>2, <2>1, <2>2 DEF AttemptAccounting, StaleClaimPaid, RowTypes, RelayTypes
    <2> QED
        BY <1>1, <2>1, <2>2, <2>3 DEF LeaseRows
<1>4. CASE ~Claims(v)
    <2>1. records[v][f] > faults /\ e \in Todo(v) /\ records'[v][e] = records[v][e]
        BY <1>0, <1>1, <1>2, <1>4, RecordSteps DEF Todo
    <2>2. status[e] = "publishing" /\ owner[e] = v /\ lease[e] > 0
        BY <2>1 DEF AttemptAccounting, UnpaidOwned
    <2>3. CASE Tick
        <3>1. pc[v] \in {"publish", "acked"}
            BY <2>1, UnpaidWorking
        <3>2. ~Overrun
            BY <1>2, <2>3 DEF Tick, Fault
        <3>3. lease[e] # 1 /\ lease[e] \in Nat
            BY <1>0, <1>1, <2>1, <2>2, <3>1, <3>2 DEF Overrun, RowTypes
        <3> QED
            BY <1>1, <2>2, <2>3, <3>3 DEF Tick, Down
    <2>4. ASSUME MarkDone(v), cur[v] = e PROVE FALSE
        <3>1. RelayStep(v) \/ RelayFault(v)
            BY <2>4 DEF RelayStep
        <3>2. pc[v] \in {"acked", "failed", "unencodable"}
            BY <2>4 DEF MarkDone, Marking
        <3>3. Finishes(v) \/ Drops(v)
            BY <1>0, <1>4, <3>1, <3>2, BatchSteps DEF Keeps, Working
        <3> QED
            BY <1>1, <2>4, <3>3 DEF Finishes, Drops
    <2>5. ASSUME NEW w \in Workers, MarkError(w) PROVE FALSE
        BY <1>2, <2>5 DEF MarkError, Fault
    <2> QED
        BY <1>0, <1>1, <2>2, <2>3, <2>4, <2>5, LeasedRowSteps
<1> QED
    BY <1>3, <1>4

\* Every step keeps UnpaidInHand.
LEMMA UnpaidInHandStep == AttemptAccounting /\ [Next]_vars => UnpaidInHand'
<1> SUFFICES ASSUME AttemptAccounting, [Next]_vars, NEW e \in Events, attempts'[e] > faults'
             PROVE  status'[e] \in Settled \/ \E w \in Workers : records'[w][e] > faults'
    BY DEF UnpaidInHand
<1>0. RowTypes /\ RelayTypes /\ LeaseProtocol /\ WorkInHand
    BY TypeParts DEF AttemptAccounting, LeaseProtocol
<1>1. attempts[e] \in Nat /\ faults \in Nat /\ UNCHANGED faults
    <2>1. ASSUME Fault, faults' = faults + 1, faults \in Nat PROVE FALSE
        BY <1>0, <2>1, AttemptSteps, ClaimablePaid, FaultPays DEF RowTypes
    <2> QED
        BY <1>0, <2>1, FaultSteps DEF RowTypes
<1>2. ASSUME NEW w \in Workers, ClaimCommit(w), e \in locked[w], attempts'[e] = attempts[e] + 1
      PROVE  records'[w][e] > faults'
    BY <1>0, <1>2 DEF ClaimCommit, Returning, RelayTypes
<1>3. ASSUME attempts'[e] = attempts[e]
      PROVE  status'[e] \in Settled \/ \E w \in Workers : records'[w][e] > faults'
    <2>1. CASE status[e] \in Settled
        BY <1>0, <2>1, SettledStep
    <2>2. ASSUME NEW w \in Workers, records[w][e] > faults
          PROVE  status'[e] = "published" \/ records'[w][e] = records[w][e]
        <3>1. e \in Todo(w) /\ pc[w] \in {"publish", "acked"}
            BY <2>2, UnpaidWorking
        <3>2. \A g \in Todo(w) : status[g] = "publishing" /\ owner[g] = w
            BY <2>2 DEF AttemptAccounting, UnpaidOwned
        <3>3. Owned(w)
            BY <1>0, <3>1, <3>2 DEF WorkInHand, Owned
        <3>4. CASE RelayStep(w) \/ RelayFault(w)
            <4>1. ~MarkNotOwned(w) /\ ~Fault
                BY <1>1, <3>3 DEF MarkNotOwned, Fault
            <4>2. ~Claims(w)
                BY <3>1 DEF Claims, ClaimCommit
            <4>3. Finishes(w) \/ Keeps(w)
                BY <1>0, <3>4, <4>1, <4>2, BatchSteps
            <4>4. CASE Finishes(w) /\ cur[w] = e
                <5>1. pc[w] = "acked" /\ Mark(w)
                    BY <3>1, <4>4 DEF Finishes, MarkDone, Marking
                <5> QED
                    BY <1>0, <4>4, <5>1 DEF Mark, SetPublished, RowTypes
            <4> QED
                BY <4>3, <4>4 DEF Finishes, Keeps
        <3> QED
            BY <1>0, <3>4, OthersKept, NoRelaySteps
    <2>3. CASE status[e] \notin Settled
        <3>1. PICK w \in Workers : records[w][e] > faults
            BY <1>1, <1>3, <2>3 DEF AttemptAccounting, UnpaidInHand
        <3> QED
            BY <1>1, <2>2, <3>1 DEF Settled
    <2> QED
        BY <2>1, <2>3
<1> QED
    BY <1>0, <1>1, <1>2, <1>3, AttemptSteps DEF Fault

-----------------------------------------------------------------------------
\* A relay still holds an event after a step only if it held it before, or
\* has just claimed it.
LEMMA HolderSteps ==
    ASSUME AttemptAccounting, [Next]_vars, NEW e \in Events, NEW v \in Holders(e)'
    PROVE  v \in Holders(e) \/ (Claims(v) /\ e \in locked[v])
<1>0. RelayTypes /\ LeaseProtocol /\ RecordsTrue
    BY TypeParts DEF AttemptAccounting, LeaseProtocol
<1>1. v \in Workers /\ records'[v][e] > 0 /\ ~(cur'[v] = e /\ pc'[v] # "publish")
    BY DEF Holders, Todo
<1>2. ASSUME pc'[v] = pc[v], cur'[v] = cur[v], records'[v] = records[v] PROVE v \in Holders(e)
    BY <1>1, <1>2 DEF Holders, Todo
<1>3. ASSUME RelayStep(v) \/ RelayFault(v)
      PROVE  v \in Holders(e) \/ (Claims(v) /\ e \in locked[v])
    <2>1. CASE Claims(v)
        BY <1>1, <2>1 DEF Claims
    <2>2. CASE Drops(v)
        BY <1>1, <2>2 DEF Drops
    <2>3. CASE Finishes(v)
        BY <1>1, <2>3 DEF Finishes, Holders, Todo
    <2>4. CASE Keeps(v)
        <3>1. e \in Todo(v) /\ cur'[v] = cur[v]
            BY <1>1, <2>4 DEF Keeps, Todo
        <3>2. pc[v] = "publish"
            BY <1>0, <1>1, <2>4, <3>1 DEF Keeps, RecordsTrue
        <3> QED
            BY <1>1, <3>1, <3>2 DEF Holders
    <2> QED
        BY <1>0, <1>1, <1>3, <2>1, <2>2, <2>3, <2>4, BatchSteps
<1> QED
    BY <1>0, <1>1, <1>2, <1>3, OthersKept, NoRelaySteps

\* A copy is added only by a relay that held the event and no longer does.
LEMMA CopySteps ==
    ASSUME AttemptAccounting, [Next]_vars, NEW e \in Events
    PROVE  /\ stored'[e] \in Nat /\ late'[e] \in Nat
           /\ \/ stored'[e] + late'[e] <= stored[e] + late[e]
              \/ /\ stored'[e] + late'[e] <= stored[e] + late[e] + 1
                 /\ \E w \in Holders(e) : w \notin Holders(e)'
<1>0. RelayTypes /\ StreamTypes /\ LeaseProtocol
    BY TypeParts DEF AttemptAccounting, LeaseProtocol
<1>1. /\ stored[e] \in Nat /\ late[e] \in Nat
      /\ stored'[e] \in Nat /\ late'[e] \in Nat
    BY <1>0, TypeStep DEF StreamTypes, TypeOK
<1> DEFINE Added == \/ stored'[e] + late'[e] <= stored[e] + late[e]
                    \/ /\ stored'[e] + late'[e] <= stored[e] + late[e] + 1
                       /\ \E w \in Holders(e) : w \notin Holders(e)'
<1>a. UNCHANGED <<stored, late>> => Added
    BY <1>1
<1>b. ASSUME NEW f \in Events, Store(f)
      PROVE  /\ stored'[e] <= stored[e] + 1
             /\ e # f => stored'[e] = stored[e]
    BY <1>0, <1>b DEF Store, StreamTypes
<1>c. ASSUME NEW w \in Workers, pc[w] = "publish", pc'[w] # "publish", cur[w] = e,
             Keeps(w) \/ Drops(w)
      PROVE  w \in Holders(e) /\ w \notin Holders(e)'
    <2>1. e \in Todo(w)
        BY <1>0, <1>c, WorkingOnEvent DEF Todo
    <2> QED
        BY <1>c, <2>1 DEF Keeps, Drops, Holders, Todo
<1>2. ASSUME NEW f \in Events, LateStore(f) PROVE Added
    <2>1. late'[e] = IF e = f THEN late[e] - 1 ELSE late[e]
        BY <1>0, <1>2 DEF LateStore, StreamTypes
    <2>2. Store(f) /\ late[f] > 0
        BY <1>2 DEF LateStore
    <2> QED
        BY <1>1, <1>b, <2>1, <2>2
<1>3. ASSUME NEW w \in Workers, PublishAcked(w) \/ PublishFailed(w) \/ PublishHangs(w) PROVE Added
    <2>1. cur[w] \in Events
        BY <1>0, <1>3, WorkingOnEvent DEF PublishAcked, PublishFailed, PublishHangs
    <2>2. pc[w] = "publish" /\ pc'[w] # "publish" /\ Keeps(w)
        BY <1>0, <1>3 DEF PublishAcked, PublishFailed, PublishHangs, Keeps, RelayTypes
    <2>3. \/ UNCHANGED <<stored, late>>
          \/ Store(cur[w]) /\ UNCHANGED late
          \/ late' = [late EXCEPT ![cur[w]] = @ + 1] /\ UNCHANGED stored
        BY <1>3 DEF PublishAcked, PublishFailed, PublishHangs, UnknownFate, streamVars
    <2>4. /\ stored'[e] + late'[e] <= stored[e] + late[e] + 1
          /\ e # cur[w] => stored'[e] + late'[e] = stored[e] + late[e]
        BY <1>0, <1>1, <1>b, <2>1, <2>3 DEF StreamTypes
    <2> QED
        BY <1>1, <1>c, <2>2, <2>4
<1>4. ASSUME NEW w \in Workers, Stop(w) PROVE Added
    <2>1. CASE UNCHANGED late
        BY <1>4, <1>a, <2>1 DEF Stop
    <2>2. CASE pc[w] = "publish" /\ late' = [late EXCEPT ![cur[w]] = @ + 1]
        <3>1. Drops(w) /\ pc'[w] # "publish"
            BY <1>0, <1>4 DEF Stop, NoRecords, Drops, RelayTypes
        <3>2. cur[w] \in Events
            BY <1>0, <2>2, WorkingOnEvent
        <3>3. /\ stored'[e] + late'[e] <= stored[e] + late[e] + 1
              /\ e # cur[w] => stored'[e] + late'[e] = stored[e] + late[e]
            BY <1>0, <1>1, <1>4, <2>2, <3>2 DEF Stop, StreamTypes
        <3> QED
            BY <1>1, <1>c, <2>2, <3>1, <3>3
    <2> QED
        BY <1>4, <2>1, <2>2 DEF Stop
<1>5. ASSUME NEW w \in Workers,
             \/ Start(w) \/ PollEmpty(w) \/ ClaimBegin(w) \/ ClaimCommit(w) \/ MarkDone(w)
             \/ MarkNotOwned(w) \/ ClaimRollback(w) \/ ClaimCommitUnknown(w)
             \/ EncodeFailed(w) \/ MarkError(w)
      PROVE  Added
    BY <1>5, <1>a DEF Start, PollEmpty, ClaimBegin, ClaimCommit, MarkDone, MarkNotOwned,
        ClaimRollback, ClaimCommitUnknown, EncodeFailed, MarkError, streamVars
<1>6. ASSUME NEW f \in Events, Inserting(f) PROVE Added
    BY <1>6, <1>a DEF Inserting, BeginInsert, CommitInsert, CommitInsertUnknown,
        RollbackInsert, streamVars
<1>7. ASSUME Tick \/ UNCHANGED vars PROVE Added
    BY <1>7, <1>a DEF Tick, vars, streamVars
<1> QED
    BY <1>1, <1>2, <1>3, <1>4, <1>5, <1>6, <1>7 DEF Next, RelayStep, RelayFault

\* Every step keeps CopiesAccounted: a claim pays for its own copy.
LEMMA CopiesAccountedStep == AttemptAccounting /\ [Next]_vars => CopiesAccounted'
<1> SUFFICES ASSUME AttemptAccounting, [Next]_vars, NEW e \in Events
             PROVE  /\ IsFiniteSet(Holders(e)')
                    /\ stored'[e] + late'[e] + Cardinality(Holders(e)') <= attempts'[e]
    BY DEF CopiesAccounted
<1> DEFINE H == Holders(e)
           K == Holders(e)'
<1>0. LeaseProtocol /\ RecordsTrue /\ RelayTypes
    BY TypeParts DEF AttemptAccounting, LeaseProtocol
<1>1. /\ IsFiniteSet(H) /\ Cardinality(H) \in Nat
      /\ stored[e] + late[e] + Cardinality(H) <= attempts[e]
    BY FS_CardinalityType DEF AttemptAccounting, CopiesAccounted
<1>2. /\ attempts[e] \in Nat /\ attempts'[e] \in Nat /\ attempts[e] <= attempts'[e]
      /\ stored[e] \in Nat /\ late[e] \in Nat
    BY <1>0, SettledStep, TypeStep DEF LeaseProtocol, TypeOK
<1>3. ASSUME NEW w \in Workers, Claims(w), e \in locked[w]
      PROVE  IsFiniteSet(K) /\ stored'[e] + late'[e] + Cardinality(K) <= attempts'[e]
    <2>1. UNCHANGED <<stored, late>> /\ attempts'[e] = attempts[e] + 1 /\ pc[w] = "claiming"
        BY <1>3 DEF Claims, ClaimCommit, LeaseRows, streamVars
    <2>2. K \subseteq H \cup {w}
        <3>1. ASSUME NEW v \in K, v # w PROVE v \in H
            <4>1. v \in Workers
                BY <3>1 DEF Holders
            <4>2. ~Claims(v)
                BY <1>0, <1>3, <3>1, <4>1 DEF Claims, ClaimCommit, RelayTypes
            <4> QED
                BY <3>1, <4>2, HolderSteps
        <3> QED
            BY <3>1
    <2>3. IsFiniteSet(H \cup {w}) /\ Cardinality(H \cup {w}) <= Cardinality(H) + 1
        <3> HIDE DEF H
        <3>1. /\ IsFiniteSet(H \cup {w})
              /\ Cardinality(H \cup {w}) = IF w \in H THEN Cardinality(H) ELSE Cardinality(H) + 1
            BY <1>1, FS_AddElement
        <3> QED
            BY <1>1, <3>1
    <2>4. /\ IsFiniteSet(K) /\ Cardinality(K) \in Nat
          /\ Cardinality(K) <= Cardinality(H \cup {w})
        BY <2>2, <2>3, FS_Subset, FS_CardinalityType
    <2>5. Cardinality(H \cup {w}) \in Nat
        BY <2>3, FS_CardinalityType
    <2> QED
        BY <1>1, <1>2, <2>1, <2>3, <2>4, <2>5
<1>4. ASSUME \A w \in Workers : ~(Claims(w) /\ e \in locked[w])
      PROVE  IsFiniteSet(K) /\ stored'[e] + late'[e] + Cardinality(K) <= attempts'[e]
    <2>1. K \subseteq H
        BY <1>4, HolderSteps DEF Holders
    <2>2. IsFiniteSet(K) /\ Cardinality(K) \in Nat /\ Cardinality(K) <= Cardinality(H)
        BY <1>1, <2>1, FS_Subset, FS_CardinalityType
    <2>3. CASE stored'[e] + late'[e] <= stored[e] + late[e]
        BY <1>1, <1>2, <2>2, <2>3, CopySteps
    <2>4. ASSUME NEW w \in H, w \notin K,
                 stored'[e] + late'[e] <= stored[e] + late[e] + 1
          PROVE  stored'[e] + late'[e] + Cardinality(K) <= attempts'[e]
        <3>1. IsFiniteSet(H \ {w}) /\ Cardinality(H \ {w}) = Cardinality(H) - 1
            BY <1>1, <2>4, FS_RemoveElement
        <3>2. K \subseteq H \ {w}
            BY <2>1, <2>4
        <3>3. Cardinality(K) <= Cardinality(H \ {w})
            BY <3>1, <3>2, FS_Subset
        <3> QED
            BY <1>1, <1>2, <2>2, <2>4, <3>1, <3>3, CopySteps
    <2> QED
        BY <2>2, <2>3, <2>4, CopySteps
<1> QED
    BY <1>3, <1>4

-----------------------------------------------------------------------------
\* Nothing has been claimed or published yet.
LEMMA AttemptAccountingInit == Init => AttemptAccounting
<1> SUFFICES ASSUME Init PROVE AttemptAccounting
    OBVIOUS
<1>1. LeaseProtocol
    BY LeaseProtocolInit
<1>2. RecordsTrue /\ TroublePaid /\ StaleClaimPaid
    BY DEF Init, RecordsTrue, TroublePaid, StaleClaimPaid, Todo, NoRecords, Working
<1>3. UnpaidOwned /\ UnpaidInHand /\ AttemptsPaid
    BY DEF Init, UnpaidOwned, UnpaidInHand, AttemptsPaid, Todo, NoRecords
<1>4. CopiesAccounted
    <2>1. \A e \in Events : Holders(e) = {}
        BY DEF Init, Holders, Todo, NoRecords
    <2> QED
        BY <2>1, FS_EmptySet DEF Init, CopiesAccounted
<1> QED
    BY <1>1, <1>2, <1>3, <1>4 DEF AttemptAccounting

\* Every step keeps attempts, faults and copies in balance.
LEMMA AttemptAccountingStep == AttemptAccounting /\ [Next]_vars => AttemptAccounting'
<1>1. AttemptAccounting /\ [Next]_vars => LeaseProtocol'
    BY LeaseProtocolStep DEF AttemptAccounting
<1> QED
    BY <1>1, RecordsTrueStep, TroublePaidStep, StaleClaimPaidStep, UnpaidOwnedStep,
       UnpaidInHandStep, AttemptsPaidStep, CopiesAccountedStep
    DEF AttemptAccounting

\* Attempts, faults and copies are in balance in every reachable state.
THEOREM AttemptAccountingInvariant == SafetySpec => []AttemptAccounting
BY AttemptAccountingInit, AttemptAccountingStep, PTL DEF SafetySpec

\* Relays never burn each other's attempts: every attempt of Claim after a
\* row's first is paid for by a crash, a failed call or an overrun lease.
THEOREM AttemptsPaidAlways == SafetySpec => []AttemptsPaid
<1>1. AttemptAccounting => AttemptsPaid
    BY DEF AttemptAccounting
<1> QED
    BY <1>1, AttemptAccountingInvariant, PTL

\* One claim publishes at most one copy, however many stale relays still hold
\* the record and however late their publications arrive.
THEOREM CopiesBoundedAlways == SafetySpec => []CopiesBounded
<1>1. AttemptAccounting => CopiesBounded
    <2> SUFFICES ASSUME AttemptAccounting, NEW e \in Events
                 PROVE  stored[e] + late[e] <= attempts[e]
        BY DEF CopiesBounded
    <2>1. /\ Cardinality(Holders(e)) \in Nat
          /\ stored[e] + late[e] + Cardinality(Holders(e)) <= attempts[e]
        BY FS_CardinalityType DEF AttemptAccounting, CopiesAccounted
    <2>2. stored[e] \in Nat /\ late[e] \in Nat /\ attempts[e] \in Nat
        BY DEF AttemptAccounting, LeaseProtocol, TypeOK
    <2> QED
        BY <2>1, <2>2
<1> QED
    BY <1>1, AttemptAccountingInvariant, PTL

-----------------------------------------------------------------------------
\* The outbox keeps its balance while others draw on the budget of faults.
LEMMA FaultsElsewhere ==
    ASSUME AttemptAccounting,
           UNCHANGED <<rowVars, caller, relayVars, streamVars>>,
           faults' \in 0..MaxFaults, faults <= faults'
    PROVE  AttemptAccounting'
<1> USE DEF rowVars, relayVars, streamVars
<1>0. /\ faults \in Nat /\ faults' \in Nat /\ attempts \in [Events -> Nat]
      /\ records \in [Workers -> [Events -> Nat]]
    BY EnvironmentAssumption DEF AttemptAccounting, LeaseProtocol, TypeOK
<1>1. TypeOK'
    BY DEF AttemptAccounting, LeaseProtocol, TypeOK
<1>2. LeaseState' /\ LocksHeld' /\ TimersBounded'
    BY DEF AttemptAccounting, LeaseProtocol, LeaseState, LocksHeld, TimersBounded, Claimable
<1>3. WorkInHand' /\ OpenIsAbsent' /\ WindowIsStored' /\ FreshRecord'
    BY DEF AttemptAccounting, LeaseProtocol, WorkInHand, OpenIsAbsent, WindowIsStored,
        FreshRecord, Todo
<1>4. PublishedIsStored' /\ TransactionalOutbox'
    BY DEF AttemptAccounting, LeaseProtocol, PublishedIsStored, TransactionalOutbox
<1>5. RecordsTrue' /\ CopiesAccounted'
    BY DEF AttemptAccounting, RecordsTrue, CopiesAccounted, Todo, Holders
<1>6. TroublePaid' /\ StaleClaimPaid' /\ UnpaidOwned' /\ AttemptsPaid'
    <2>1. \A w \in Workers, e \in Events : records[w][e] \in Nat
        BY <1>0
    <2>2. \A w \in Workers : locked[w] \subseteq Events
        BY DEF AttemptAccounting, LeaseProtocol, TypeOK
    <2> QED
        BY <1>0, <2>1, <2>2
        DEF AttemptAccounting, TroublePaid, StaleClaimPaid, UnpaidOwned, AttemptsPaid, Todo
<1>7. UnpaidInHand'
    <2>1. \A e \in Events : attempts[e] > faults' => faults' = faults
        BY <1>0 DEF AttemptAccounting, AttemptsPaid
    <2> QED
        BY <2>1 DEF AttemptAccounting, UnpaidInHand
<1> QED
    BY <1>1, <1>2, <1>3, <1>4, <1>5, <1>6, <1>7 DEF AttemptAccounting, LeaseProtocol
=============================================================================
