---------------------------- MODULE OutboxProofs ----------------------------
(***************************************************************************)
(* Proofs about Outbox, for any number of events, relays and faults and    *)
(* any configuration NewRelay accepts.                                     *)
(***************************************************************************)
EXTENDS Outbox, TLAPS

USE RelayConfigAssumption, EnvironmentAssumption

\* What backoff(attempt) returns is a backoff the configuration allows.
LEMMA BackoffBounded ==
    ASSUME NEW a
    PROVE  Backoff(a) \in BaseBackoff..MaxBackoff
BY DEF Backoff

\* The parts of TypeOK, by the variables they are about.
RowTypes ==
    /\ status \in [Events -> {"absent", "pending", "publishing"} \cup Settled]
    /\ attempts \in [Events -> Nat]
    /\ wait \in [Events -> 0..MaxBackoff]
    /\ owner \in [Events -> Workers \cup {NoWorker}]
    /\ lease \in [Events -> 0..LeaseDuration]

RelayTypes ==
    /\ pc \in [Workers -> RelayStates]
    /\ locked \in [Workers -> SUBSET Events]
    /\ timer \in [Workers -> Nat]
    /\ records \in [Workers -> [Events -> Nat]]
    /\ cur \in [Workers -> Events \cup {NoEvent}]
    /\ lastError \in [Workers -> BOOLEAN]

StreamTypes ==
    /\ stored \in [Events -> Nat]
    /\ window \in [Events -> 0..DuplicateWindow]
    /\ late \in [Events -> Nat]

CallerTypes == caller \in [Events -> {"idle", "open", "ok", "error"}]

\* TypeOK is the conjunction of its parts.
LEMMA TypeParts ==
    TypeOK <=> RowTypes /\ RelayTypes /\ StreamTypes /\ CallerTypes /\ faults \in 0..MaxFaults
BY DEF TypeOK, RowTypes, RelayTypes, StreamTypes, CallerTypes

\* A relay that is not idle has a record of its batch in hand.
LEMMA WorkingOnEvent ==
    ASSUME LeaseProtocol, NEW w \in Workers,
           pc[w] \in {"publish", "acked", "failed", "unencodable", "hung"}
    PROVE  cur[w] \in Events /\ records[w][cur[w]] > 0
BY DEF LeaseProtocol, WorkInHand, Todo

\* Storing a message keeps the stream's types.
LEMMA StoreTypes ==
    ASSUME StreamTypes, NEW e \in Events, Store(e)
    PROVE  /\ stored' \in [Events -> Nat]
           /\ window' \in [Events -> 0..DuplicateWindow]
BY DEF StreamTypes, Store

\* Whatever became of an unanswered publication keeps the stream's types.
LEMMA UnknownFateTypes ==
    ASSUME StreamTypes, NEW e \in Events, UnknownFate(e)
    PROVE  StreamTypes'
<1>1. CASE UNCHANGED streamVars
    BY <1>1 DEF StreamTypes, streamVars
<1>2. CASE Store(e) /\ UNCHANGED late
    BY <1>2, StoreTypes DEF StreamTypes
<1>3. CASE late' = [late EXCEPT ![e] = @ + 1] /\ UNCHANGED <<stored, window>>
    BY <1>3 DEF StreamTypes
<1> QED
    BY <1>1, <1>2, <1>3 DEF UnknownFate

\* A mark keeps the columns' types: a scheduled retry is at most MaxBackoff away.
LEMMA MarkTypes ==
    ASSUME LeaseProtocol, NEW w \in Workers, Marking(w), Mark(w)
    PROVE  RowTypes'
<1>1. RowTypes /\ RelayTypes /\ cur[w] \in Events
    BY TypeParts, WorkingOnEvent DEF LeaseProtocol, Marking
<1>2. CASE pc[w] = "acked" /\ SetPublished(cur[w])
    BY <1>1, <1>2 DEF RowTypes, SetPublished, Settled
<1>3. CASE pc[w] = "failed" /\ SetFailed(cur[w], FALSE, timer[w])
    <2>1. timer[w] \in 0..MaxBackoff
        BY <1>1, <1>3 DEF LeaseProtocol, TimersBounded, RelayTypes
    <2> QED
        BY <1>1, <1>3, <2>1 DEF RowTypes, SetFailed, Settled
<1>4. CASE pc[w] = "unencodable" /\ SetFailed(cur[w], TRUE, 0)
    BY <1>1, <1>4 DEF RowTypes, SetFailed, Settled
<1> QED
    BY <1>2, <1>3, <1>4 DEF Mark

\* The loop over the batch keeps the relay's types.
LEMMA NextRecordTypes ==
    ASSUME RelayTypes, NEW w \in Workers, NextRecord(w)
    PROVE  RelayTypes'
<1>1. records' \in [Workers -> [Events -> Nat]] /\ timer' \in [Workers -> Nat]
    BY DEF RelayTypes, NextRecord
<1>2. locked' \in [Workers -> SUBSET Events]
    BY DEF RelayTypes, NextRecord
<1>3. /\ pc' \in [Workers -> RelayStates]
      /\ cur' \in [Workers -> Events \cup {NoEvent}]
      /\ lastError' \in [Workers -> BOOLEAN]
    <2>1. CASE /\ pc' = [pc EXCEPT ![w] = "idle"]
               /\ cur' = [cur EXCEPT ![w] = NoEvent]
               /\ lastError' = [lastError EXCEPT ![w] = FALSE]
        BY <2>1 DEF RelayTypes, RelayStates
    <2>2. ASSUME NEW e \in Todo(w) \ {cur[w]},
                 /\ pc' = [pc EXCEPT ![w] = "publish"]
                 /\ cur' = [cur EXCEPT ![w] = e]
                 /\ UNCHANGED lastError
          PROVE  <1>3!1 /\ <1>3!2 /\ <1>3!3
        BY <2>2 DEF RelayTypes, RelayStates, Todo
    <2> QED
        BY <2>1, <2>2 DEF NextRecord
<1> QED
    BY <1>1, <1>2, <1>3 DEF RelayTypes

\* A batch that ends in an error keeps the relay's types.
LEMMA AbortBatchTypes ==
    ASSUME RelayTypes, NEW w \in Workers, AbortBatch(w)
    PROVE  RelayTypes'
BY DEF RelayTypes, AbortBatch, NoRecords, RelayStates

\* Claim's UPDATE keeps the columns' types: a lease is at most LeaseDuration long.
LEMMA LeaseRowsTypes ==
    ASSUME LeaseProtocol, NEW w \in Workers, pc[w] = "claiming", LeaseRows(w)
    PROVE  RowTypes'
<1>1. timer[w] \in 0..LeaseDuration
    BY TypeParts DEF LeaseProtocol, TimersBounded, RelayTypes
<1> QED
    BY <1>1, TypeParts DEF LeaseProtocol, LeaseRows, RowTypes, RelayTypes

-----------------------------------------------------------------------------
\* Every step keeps the types.
LEMMA TypeStep == LeaseProtocol /\ [Next]_vars => TypeOK'
<1> SUFFICES ASSUME LeaseProtocol, [Next]_vars PROVE TypeOK'
    OBVIOUS
<1>0. RowTypes /\ RelayTypes /\ StreamTypes /\ CallerTypes /\ faults \in 0..MaxFaults
    BY TypeParts DEF LeaseProtocol
<1> SUFFICES /\ RowTypes' /\ RelayTypes' /\ StreamTypes' /\ CallerTypes'
             /\ faults' \in 0..MaxFaults
    BY TypeParts DEF TypeOK, RowTypes, RelayTypes, StreamTypes, CallerTypes
<1> DEFINE G == /\ RowTypes' /\ RelayTypes' /\ StreamTypes' /\ CallerTypes'
                /\ faults' \in 0..MaxFaults
<1>a. UNCHANGED rowVars => RowTypes'
    BY <1>0 DEF rowVars, RowTypes
<1>b. UNCHANGED relayVars => RelayTypes'
    BY <1>0 DEF relayVars, RelayTypes
<1>c. UNCHANGED streamVars => StreamTypes'
    BY <1>0 DEF streamVars, StreamTypes
<1>d. UNCHANGED caller => CallerTypes'
    BY <1>0 DEF CallerTypes
<1>e. Fault \/ UNCHANGED faults => faults' \in 0..MaxFaults
    BY <1>0 DEF Fault
<1>1. ASSUME NEW e \in Events, BeginInsert(e) \/ RollbackInsert(e) PROVE G
    BY <1>0, <1>1, <1>a, <1>b, <1>c, <1>e DEF BeginInsert, RollbackInsert, CallerTypes
<1>2. ASSUME NEW e \in Events, CommitInsert(e) \/ CommitInsertUnknown(e) PROVE G
    <2>1. RowTypes'
        BY <1>0, <1>2 DEF CommitInsert, CommitInsertUnknown, AddRow, RowTypes
    <2> QED
        BY <1>0, <1>2, <2>1, <1>b, <1>c, <1>e
        DEF CommitInsert, CommitInsertUnknown, CallerTypes
<1>3. ASSUME NEW e \in Events, LateStore(e) PROVE G
    <2>1. late' \in [Events -> Nat]
        BY <1>0, <1>3 DEF LateStore, StreamTypes
    <2> QED
        BY <1>0, <1>3, <2>1, <1>a, <1>b, <1>d, <1>e, StoreTypes DEF LateStore, StreamTypes
<1>4. ASSUME NEW w \in Workers, Start(w) PROVE G
    BY <1>0, <1>4, <1>a, <1>c, <1>d, <1>e DEF Start, RelayTypes, RelayStates
<1>5. ASSUME NEW w \in Workers, PollEmpty(w) PROVE G
    BY <1>0, <1>5, <1>a, <1>c, <1>d, <1>e DEF PollEmpty, RelayTypes
<1>6. ASSUME NEW w \in Workers, ClaimBegin(w) PROVE G
    BY <1>0, <1>6, <1>a, <1>c, <1>d, <1>e
    DEF ClaimBegin, Candidates, Oldest, RelayTypes, RelayStates
<1>7. ASSUME NEW w \in Workers, ClaimCommit(w) PROVE G
    <2>1. RowTypes'
        BY <1>7, LeaseRowsTypes DEF ClaimCommit
    <2>2. Returning(w) \in [Events -> Nat]
        BY <1>0 DEF Returning, RowTypes
    <2>3. RelayTypes'
        BY <1>0, <1>7, <2>2 DEF ClaimCommit, RelayTypes, RelayStates
    <2> QED
        BY <1>7, <2>1, <2>3, <1>c, <1>d, <1>e DEF ClaimCommit
<1>8. ASSUME NEW w \in Workers, ClaimRollback(w) PROVE G
    BY <1>0, <1>8, <1>a, <1>c, <1>d, <1>e, AbortBatchTypes DEF ClaimRollback
<1>9. ASSUME NEW w \in Workers, ClaimCommitUnknown(w) PROVE G
    BY <1>0, <1>9, <1>c, <1>d, <1>e, AbortBatchTypes, LeaseRowsTypes DEF ClaimCommitUnknown
<1>10. ASSUME NEW w \in Workers, EncodeFailed(w) PROVE G
    BY <1>0, <1>10, <1>a, <1>c, <1>d, <1>e DEF EncodeFailed, RelayTypes, RelayStates
<1>11. ASSUME NEW w \in Workers, PublishAcked(w) PROVE G
    <2>1. cur[w] \in Events
        BY <1>11, WorkingOnEvent DEF PublishAcked
    <2>2. StreamTypes'
        BY <1>0, <1>11, <2>1, StoreTypes DEF PublishAcked, StreamTypes
    <2> QED
        BY <1>0, <1>11, <2>2, <1>a, <1>d, <1>e DEF PublishAcked, RelayTypes, RelayStates
<1>12. ASSUME NEW w \in Workers, PublishFailed(w) PROVE G
    <2>1. cur[w] \in Events
        BY <1>12, WorkingOnEvent DEF PublishFailed
    <2>2. StreamTypes'
        BY <1>0, <1>12, <2>1, UnknownFateTypes DEF PublishFailed
    <2>3. Backoff(records[w][cur[w]]) \in Nat
        BY BackoffBounded
    <2>4. RelayTypes'
        BY <1>0, <1>12, <2>3 DEF PublishFailed, RelayTypes, RelayStates
    <2> QED
        BY <1>12, <2>2, <2>4, <1>a, <1>d, <1>e DEF PublishFailed
<1>13. ASSUME NEW w \in Workers, PublishHangs(w) PROVE G
    <2>1. cur[w] \in Events
        BY <1>13, WorkingOnEvent DEF PublishHangs
    <2>2. StreamTypes'
        BY <1>0, <1>13, <2>1, UnknownFateTypes DEF PublishHangs
    <2> QED
        BY <1>0, <1>13, <2>2, <1>a, <1>d, <1>e DEF PublishHangs, RelayTypes, RelayStates
<1>14. ASSUME NEW w \in Workers, MarkDone(w) PROVE G
    BY <1>0, <1>14, <1>c, <1>d, <1>e, MarkTypes, NextRecordTypes DEF MarkDone
<1>15. ASSUME NEW w \in Workers, MarkNotOwned(w) PROVE G
    BY <1>0, <1>15, <1>a, <1>c, <1>d, <1>e, AbortBatchTypes DEF MarkNotOwned
<1>16. ASSUME NEW w \in Workers, MarkError(w) PROVE G
    BY <1>0, <1>16, <1>a, <1>c, <1>d, <1>e, MarkTypes, AbortBatchTypes DEF MarkError
<1>17. ASSUME NEW w \in Workers, Stop(w) PROVE G
    <2>1. RelayTypes'
        BY <1>0, <1>17 DEF Stop, RelayTypes, RelayStates, NoRecords
    <2>2. late' \in [Events -> Nat]
        BY <1>0, <1>17, WorkingOnEvent DEF Stop, StreamTypes
    <2> QED
        BY <1>0, <1>17, <2>1, <2>2, <1>a, <1>d, <1>e DEF Stop, StreamTypes
<1>18. ASSUME Tick PROVE G
    <2>1. RowTypes'
        BY <1>0, <1>18 DEF Tick, Down, RowTypes
    <2>2. RelayTypes'
        BY <1>0, <1>18 DEF Tick, Down, RelayTypes
    <2>3. StreamTypes'
        BY <1>0, <1>18 DEF Tick, Down, StreamTypes
    <2> QED
        BY <1>18, <2>1, <2>2, <2>3, <1>d, <1>e DEF Tick
<1>19. ASSUME UNCHANGED vars PROVE G
    BY <1>19, <1>a, <1>b, <1>c, <1>d, <1>e DEF vars
<1> QED
    BY <1>1, <1>2, <1>3, <1>4, <1>5, <1>6, <1>7, <1>8, <1>9, <1>10, <1>11, <1>12,
       <1>13, <1>14, <1>15, <1>16, <1>17, <1>18, <1>19
    DEF Next, Inserting, RelayStep, RelayFault
-----------------------------------------------------------------------------
\* Rows change in four ways only: by a commit of their insert, by a lease, by
\* a mark of their owner, and by the passing of time.
LEMMA RowSteps ==
    ASSUME [Next]_vars
    PROVE  \/ \E e \in Events :
                /\ caller[e] = "open" /\ AddRow(e)
                /\ caller' \in {[caller EXCEPT ![e] = "ok"], [caller EXCEPT ![e] = "error"]}
                /\ UNCHANGED <<relayVars, streamVars>>
           \/ \E w \in Workers :
                pc[w] = "claiming" /\ LeaseRows(w) /\ UNCHANGED <<caller, streamVars>>
           \/ \E w \in Workers :
                /\ Marking(w) /\ RowFree(cur[w]) /\ Owned(w) /\ Mark(w)
                /\ UNCHANGED <<caller, streamVars>>
           \/ Tick
           \/ UNCHANGED rowVars
<1> USE DEF RowFree
<1>1. ASSUME NEW e \in Events, Inserting(e) \/ LateStore(e)
      PROVE  \/ UNCHANGED rowVars
             \/ /\ caller[e] = "open" /\ AddRow(e)
                /\ caller' \in {[caller EXCEPT ![e] = "ok"], [caller EXCEPT ![e] = "error"]}
                /\ UNCHANGED <<relayVars, streamVars>>
    BY <1>1 DEF Inserting, BeginInsert, CommitInsert, CommitInsertUnknown,
                RollbackInsert, LateStore
<1>2. ASSUME NEW w \in Workers, RelayStep(w)
      PROVE  \/ UNCHANGED rowVars
             \/ pc[w] = "claiming" /\ LeaseRows(w) /\ UNCHANGED <<caller, streamVars>>
             \/ /\ Marking(w) /\ RowFree(cur[w]) /\ Owned(w) /\ Mark(w)
                /\ UNCHANGED <<caller, streamVars>>
    BY <1>2 DEF RelayStep, Start, PollEmpty, ClaimBegin, ClaimCommit, PublishAcked,
                MarkDone, MarkNotOwned
<1>3. ASSUME NEW w \in Workers, RelayFault(w)
      PROVE  \/ UNCHANGED rowVars
             \/ pc[w] = "claiming" /\ LeaseRows(w) /\ UNCHANGED <<caller, streamVars>>
             \/ /\ Marking(w) /\ RowFree(cur[w]) /\ Owned(w) /\ Mark(w)
                /\ UNCHANGED <<caller, streamVars>>
    BY <1>3 DEF RelayFault, ClaimRollback, ClaimCommitUnknown, EncodeFailed,
                PublishFailed, PublishHangs, MarkError, Stop
<1>4. UNCHANGED vars => UNCHANGED rowVars
    BY DEF vars
<1> QED
    BY <1>1, <1>2, <1>3, <1>4 DEF Next

\* What a mark does to its row, whichever mark it is.
LEMMA MarkEffect ==
    ASSUME LeaseProtocol, NEW w \in Workers, Marking(w), Mark(w)
    PROVE  /\ cur[w] \in Events
           /\ status' = [status EXCEPT ![cur[w]] = status'[cur[w]]]
           /\ status'[cur[w]] \in {"pending", "published", "dead_letter"}
           /\ status'[cur[w]] = "published" => stored[cur[w]] > 0
           /\ owner' = [owner EXCEPT ![cur[w]] = NoWorker]
           /\ lease' = [lease EXCEPT ![cur[w]] = 0]
           /\ attempts' = attempts
           /\ \A e \in Events : e # cur[w] => wait'[e] = wait[e]
<1>1. RowTypes /\ cur[w] \in Events /\ (pc[w] = "acked" => stored[cur[w]] > 0)
    BY TypeParts, WorkingOnEvent DEF LeaseProtocol, WorkInHand, Marking
<1>2. CASE pc[w] = "acked" /\ SetPublished(cur[w])
    BY <1>1, <1>2 DEF SetPublished, RowTypes
<1>3. CASE pc[w] = "failed" /\ SetFailed(cur[w], FALSE, timer[w])
    BY <1>1, <1>3 DEF SetFailed, RowTypes
<1>4. CASE pc[w] = "unencodable" /\ SetFailed(cur[w], TRUE, 0)
    BY <1>1, <1>4 DEF SetFailed, RowTypes
<1> QED
    BY <1>2, <1>3, <1>4 DEF Mark

\* Every step keeps outbox_lease_state.
LEMMA LeaseStateStep == LeaseProtocol /\ [Next]_vars => LeaseState'
<1> SUFFICES ASSUME LeaseProtocol, [Next]_vars PROVE LeaseState'
    OBVIOUS
<1>0. RowTypes /\ RelayTypes /\ LeaseState /\ LocksHeld /\ OpenIsAbsent
    BY TypeParts DEF LeaseProtocol
<1>1. ASSUME NEW e \in Events, caller[e] = "open", AddRow(e) PROVE LeaseState'
    BY <1>0, <1>1 DEF OpenIsAbsent, AddRow, LeaseState, RowTypes
<1>2. ASSUME NEW w \in Workers, LeaseRows(w) PROVE LeaseState'
    BY <1>0, <1>2 DEF LeaseRows, LeaseState, RowTypes, RelayTypes
<1>3. ASSUME NEW w \in Workers, Marking(w), Mark(w) PROVE LeaseState'
    BY <1>0, <1>3, MarkEffect DEF LeaseState, RowTypes
<1>4. CASE Tick
    BY <1>0, <1>4 DEF Tick, Down, LeaseState, RowTypes
<1>5. CASE UNCHANGED rowVars
    BY <1>0, <1>5 DEF rowVars, LeaseState
<1> QED
    BY <1>1, <1>2, <1>3, <1>4, <1>5, RowSteps

\* A row appears only when its own insert commits.
LEMMA OpenIsAbsentStep == LeaseProtocol /\ [Next]_vars => OpenIsAbsent'
<1> SUFFICES ASSUME LeaseProtocol, [Next]_vars PROVE OpenIsAbsent'
    OBVIOUS
<1>0. RowTypes /\ RelayTypes /\ CallerTypes /\ LeaseState /\ LocksHeld /\ OpenIsAbsent
    BY TypeParts DEF LeaseProtocol
<1>1. ASSUME NEW e \in Events, AddRow(e),
             caller' \in {[caller EXCEPT ![e] = "ok"], [caller EXCEPT ![e] = "error"]}
      PROVE  OpenIsAbsent'
    BY <1>0, <1>1 DEF AddRow, OpenIsAbsent, RowTypes, CallerTypes
<1>2. ASSUME NEW w \in Workers, LeaseRows(w), UNCHANGED caller PROVE OpenIsAbsent'
    BY <1>0, <1>2 DEF LeaseRows, LocksHeld, Claimable, OpenIsAbsent, RowTypes, RelayTypes
<1>3. ASSUME NEW w \in Workers, Marking(w), Owned(w), Mark(w), UNCHANGED caller
      PROVE  OpenIsAbsent'
    BY <1>0, <1>3, MarkEffect DEF Owned, OpenIsAbsent, RowTypes
<1>4. CASE Tick
    BY <1>0, <1>4 DEF Tick, OpenIsAbsent
<1>5. CASE UNCHANGED rowVars
    <2>1. \A e \in Events : caller'[e] = "open" => caller[e] = "open" \/ status[e] = "absent"
        <3>1. ASSUME NEW f \in Events, Inserting(f) \/ LateStore(f) PROVE <2>1
            BY <1>0, <3>1 DEF Inserting, BeginInsert, CommitInsert, CommitInsertUnknown,
                RollbackInsert, LateStore, CallerTypes
        <3>2. ASSUME NEW w \in Workers, RelayStep(w) \/ RelayFault(w) PROVE UNCHANGED caller
            BY <3>2 DEF RelayStep, Start, PollEmpty, ClaimBegin, ClaimCommit, PublishAcked,
                MarkDone, MarkNotOwned, RelayFault, ClaimRollback, ClaimCommitUnknown,
                EncodeFailed, PublishFailed, PublishHangs, MarkError, Stop
        <3>3. Tick \/ UNCHANGED vars => UNCHANGED caller
            BY DEF Tick, vars
        <3> QED
            BY <3>1, <3>2, <3>3 DEF Next
    <2> QED
        BY <1>0, <1>5, <2>1 DEF rowVars, OpenIsAbsent
<1> QED
    BY <1>1, <1>2, <1>3, <1>4, <1>5, RowSteps
-----------------------------------------------------------------------------
\* A step that takes no lock keeps LocksHeld if it leaves every locked row
\* as it is and moves no claiming relay that keeps its locks.
LEMMA LocksKept ==
    ASSUME LocksHeld, RelayTypes,
           \A v \in Workers : locked'[v] \subseteq locked[v],
           \A v \in Workers : locked'[v] # {} => pc'[v] = pc[v],
           \A v \in Workers : \A e \in locked'[v] :
               status'[e] = status[e] /\ wait'[e] = wait[e] /\ lease'[e] = lease[e]
    PROVE  LocksHeld'
<1> SUFFICES ASSUME NEW w \in Workers, NEW e \in locked'[w]
             PROVE  /\ pc'[w] = "claiming"
                    /\ Claimable(e)'
                    /\ \A v \in Workers : e \in locked'[v] => v = w
    BY DEF LocksHeld
<1>1. pc[w] = "claiming" /\ Claimable(e) /\ \A v \in Workers : e \in locked[v] => v = w
    BY DEF LocksHeld
<1> QED
    BY <1>1 DEF Claimable

\* Only a relay in "claiming" holds locks.
LEMMA LocksOnlyClaiming ==
    ASSUME LocksHeld, NEW w \in Workers, pc[w] # "claiming", RelayTypes
    PROVE  locked[w] = {}
BY DEF LocksHeld, RelayTypes

\* No step touches a row that an open Claim has locked, except its own.
LEMMA LocksHeldStep == LeaseProtocol /\ [Next]_vars => LocksHeld'
<1> SUFFICES ASSUME LeaseProtocol, [Next]_vars PROVE LocksHeld'
    OBVIOUS
<1>0. RowTypes /\ RelayTypes /\ LeaseState /\ LocksHeld /\ OpenIsAbsent
    BY TypeParts DEF LeaseProtocol
<1>1. ASSUME NEW e \in Events, Inserting(e) \/ LateStore(e) PROVE LocksHeld'
    <2>1. \A v \in Workers : \A f \in locked[v] : status[f] # "absent"
        BY <1>0 DEF LocksHeld, Claimable
    <2>2. UNCHANGED relayVars
        BY <1>1 DEF Inserting, BeginInsert, CommitInsert, CommitInsertUnknown,
                    RollbackInsert, LateStore
    <2>3. \A f \in Events : status[f] # "absent" =>
              status'[f] = status[f] /\ wait'[f] = wait[f] /\ lease'[f] = lease[f]
        BY <1>0, <1>1 DEF Inserting, BeginInsert, CommitInsert, CommitInsertUnknown,
                    RollbackInsert, LateStore, AddRow, rowVars, OpenIsAbsent, RowTypes
    <2> QED
        BY <1>0, <2>1, <2>2, <2>3, LocksKept DEF relayVars, RelayTypes
<1>2. ASSUME NEW w \in Workers, ClaimBegin(w) PROVE LocksHeld'
    <2>1. locked' = [locked EXCEPT ![w] = Candidates] /\ UNCHANGED rowVars
        BY <1>2 DEF ClaimBegin
    <2>2. pc' = [pc EXCEPT ![w] = "claiming"]
        BY <1>2 DEF ClaimBegin
    <2>3. \A e \in Candidates : Claimable(e) /\ \A v \in Workers : e \notin locked[v]
        BY DEF Candidates, Oldest, LockedRows
    <2>4. \A e : Claimable(e)' <=> Claimable(e)
        BY <2>1 DEF rowVars, Claimable
    <2> QED
        BY <1>0, <2>1, <2>2, <2>3, <2>4 DEF LocksHeld, RelayTypes
<1>3. ASSUME NEW w \in Workers, ClaimCommit(w) \/ ClaimCommitUnknown(w) PROVE LocksHeld'
    <2>1. /\ LeaseRows(w)
          /\ locked' = [locked EXCEPT ![w] = {}]
          /\ \A v \in Workers : v # w => pc'[v] = pc[v]
        BY <1>0, <1>3 DEF ClaimCommit, ClaimCommitUnknown, AbortBatch, RelayTypes
    <2>2. \A v \in Workers : \A e \in locked'[v] : e \in Events /\ e \notin locked[w]
        BY <1>0, <2>1 DEF LocksHeld, RelayTypes
    <2>3. \A v \in Workers : \A e \in locked'[v] :
              status'[e] = status[e] /\ wait'[e] = wait[e] /\ lease'[e] = lease[e]
        BY <2>1, <2>2 DEF LeaseRows
    <2>4. \A v \in Workers : locked'[v] \subseteq locked[v]
        BY <1>0, <2>1 DEF RelayTypes
    <2>5. \A v \in Workers : locked'[v] # {} => pc'[v] = pc[v]
        BY <1>0, <2>1 DEF RelayTypes
    <2> QED
        BY <1>0, <2>3, <2>4, <2>5, LocksKept
<1>4. ASSUME NEW w \in Workers, MarkDone(w) \/ MarkNotOwned(w) \/ MarkError(w)
      PROVE  LocksHeld'
    <2>1. Marking(w) /\ RowFree(cur[w])
        BY <1>4 DEF MarkDone, MarkNotOwned, MarkError
    <2>2. locked[w] = {}
        BY <1>0, <2>1, LocksOnlyClaiming DEF Marking
    <2>3. /\ \A v \in Workers : locked'[v] = locked[v]
          /\ \A v \in Workers : v # w => pc'[v] = pc[v]
        BY <1>0, <1>4, <2>2 DEF MarkDone, MarkNotOwned, MarkError, NextRecord,
                               AbortBatch, RelayTypes
    <2>4. UNCHANGED rowVars \/ Mark(w)
        BY <1>4 DEF MarkDone, MarkNotOwned, MarkError
    <2>5. \A v \in Workers : \A e \in locked[v] : e \in Events /\ e # cur[w]
        BY <1>0, <2>1 DEF RowFree, LockedRows, RelayTypes
    <2>6. \A v \in Workers : \A e \in locked'[v] :
              status'[e] = status[e] /\ wait'[e] = wait[e] /\ lease'[e] = lease[e]
        <3>1. CASE UNCHANGED rowVars
            BY <3>1 DEF rowVars
        <3>2. CASE Mark(w)
            BY <1>0, <2>1, <2>3, <2>5, <3>2, MarkEffect DEF RowTypes
        <3> QED
            BY <2>4, <3>1, <3>2
    <2>7. \A v \in Workers : locked'[v] # {} => pc'[v] = pc[v]
        BY <2>2, <2>3
    <2>8. \A v \in Workers : locked'[v] \subseteq locked[v]
        BY <2>3
    <2> QED
        BY <1>0, <2>6, <2>7, <2>8, LocksKept
<1>5. ASSUME NEW w \in Workers,
             \/ Start(w) \/ PollEmpty(w) \/ PublishAcked(w)
             \/ EncodeFailed(w) \/ PublishFailed(w) \/ PublishHangs(w)
      PROVE  LocksHeld'
    <2>1. UNCHANGED <<rowVars, locked>>
        BY <1>5 DEF Start, PollEmpty, PublishAcked, EncodeFailed, PublishFailed, PublishHangs
    <2>2. /\ pc[w] # "claiming"
          /\ \A v \in Workers : v # w => pc'[v] = pc[v]
        BY <1>0, <1>5 DEF Start, PollEmpty, PublishAcked, EncodeFailed, PublishFailed,
                         PublishHangs, RelayTypes
    <2>3. locked[w] = {}
        BY <1>0, <2>2, LocksOnlyClaiming
    <2>4. \A v \in Workers : locked'[v] # {} => pc'[v] = pc[v]
        BY <2>1, <2>2, <2>3
    <2> QED
        BY <1>0, <2>1, <2>4, LocksKept DEF rowVars
<1>6. ASSUME NEW w \in Workers, ClaimRollback(w) \/ Stop(w) PROVE LocksHeld'
    <2>1. /\ UNCHANGED rowVars
          /\ locked' = [locked EXCEPT ![w] = {}]
          /\ \A v \in Workers : v # w => pc'[v] = pc[v]
        BY <1>0, <1>6 DEF ClaimRollback, Stop, AbortBatch, RelayTypes
    <2>2. \A v \in Workers : locked'[v] \subseteq locked[v]
        BY <1>0, <2>1 DEF RelayTypes
    <2>3. \A v \in Workers : locked'[v] # {} => pc'[v] = pc[v]
        BY <1>0, <2>1 DEF RelayTypes
    <2> QED
        BY <1>0, <2>1, <2>2, <2>3, LocksKept DEF rowVars
<1>7. CASE Tick
    <2>1. \A e \in Events : Claimable(e) => Claimable(e)'
        BY <1>0, <1>7 DEF Tick, Down, Claimable, RowTypes
    <2>2. UNCHANGED <<locked, pc>>
        BY <1>7 DEF Tick
    <2> QED
        BY <1>0, <2>1, <2>2 DEF LocksHeld, RelayTypes
<1>8. CASE UNCHANGED vars
    BY <1>0, <1>8, LocksKept DEF vars, rowVars, relayVars
<1> QED
    BY <1>1, <1>2, <1>3, <1>4, <1>5, <1>6, <1>7, <1>8 DEF Next, RelayStep, RelayFault

\* Leases and backoffs in preparation stay within their configured length.
LEMMA TimersBoundedStep == LeaseProtocol /\ [Next]_vars => TimersBounded'
<1> SUFFICES ASSUME LeaseProtocol, [Next]_vars PROVE TimersBounded'
    OBVIOUS
<1>0. RelayTypes /\ TimersBounded
    BY TypeParts DEF LeaseProtocol
<1>1. ASSUME NEW e \in Events, Inserting(e) \/ LateStore(e) PROVE UNCHANGED <<pc, timer>>
    BY <1>1 DEF Inserting, BeginInsert, CommitInsert, CommitInsertUnknown,
                RollbackInsert, LateStore, relayVars
<1>2. ASSUME NEW w \in Workers, ClaimBegin(w) PROVE TimersBounded'
    BY <1>0, <1>2 DEF ClaimBegin, TimersBounded, RelayTypes
<1>3. ASSUME NEW w \in Workers, PublishFailed(w) PROVE TimersBounded'
    BY <1>0, <1>3, BackoffBounded DEF PublishFailed, TimersBounded, RelayTypes
<1> DEFINE Steady(w) ==
            /\ \A v \in Workers : v # w => pc'[v] = pc[v] /\ timer'[v] = timer[v]
            /\ pc'[w] \notin {"claiming", "failed"} \/ UNCHANGED <<pc, timer>>
<1>4. ASSUME NEW w \in Workers, RelayStep(w) \/ RelayFault(w),
             ~ClaimBegin(w), ~PublishFailed(w)
      PROVE  Steady(w)
    <2>1. ASSUME Start(w) \/ PollEmpty(w) \/ EncodeFailed(w) \/ PublishAcked(w)
                    \/ PublishHangs(w) \/ Stop(w) \/ ClaimCommit(w)
          PROVE  Steady(w)
        BY <1>0, <2>1 DEF Start, PollEmpty, EncodeFailed, PublishAcked, PublishHangs,
                         Stop, ClaimCommit, RelayTypes
    <2>2. ASSUME AbortBatch(w) PROVE Steady(w)
        BY <1>0, <2>2 DEF AbortBatch, RelayTypes
    <2>3. ASSUME NextRecord(w) PROVE Steady(w)
        BY <1>0, <2>3 DEF NextRecord, RelayTypes
    <2> QED
        BY <1>4, <2>1, <2>2, <2>3 DEF RelayStep, RelayFault, ClaimRollback,
            ClaimCommitUnknown, MarkDone, MarkNotOwned, MarkError
<1>5. ASSUME NEW w \in Workers, RelayStep(w) \/ RelayFault(w) PROVE TimersBounded'
    BY <1>0, <1>2, <1>3, <1>4, <1>5 DEF TimersBounded
<1>6. CASE Tick
    BY <1>0, <1>6 DEF Tick, Down, TimersBounded, RelayTypes
<1>7. UNCHANGED <<pc, timer>> => TimersBounded'
    BY <1>0 DEF TimersBounded
<1> QED
    BY <1>1, <1>5, <1>6, <1>7 DEF Next, vars, relayVars
-----------------------------------------------------------------------------
\* No row disappears, and only a mark of an acknowledged event makes one
\* "published".
LEMMA StatusKept ==
    ASSUME LeaseProtocol, [Next]_vars, NEW e \in Events
    PROVE  /\ status[e] # "absent" => status'[e] # "absent"
           /\ status'[e] = "published" => status[e] = "published" \/ stored[e] > 0
<1>0. RowTypes /\ RelayTypes /\ LocksHeld /\ OpenIsAbsent
    BY TypeParts DEF LeaseProtocol
<1>1. ASSUME NEW f \in Events, AddRow(f) PROVE /\ status[e] # "absent" => status'[e] # "absent"
                                               /\ status'[e] = "published" => status[e] = "published"
    BY <1>0, <1>1 DEF AddRow, RowTypes
<1>2. ASSUME NEW w \in Workers, LeaseRows(w)
      PROVE  /\ status[e] # "absent" => status'[e] # "absent"
             /\ status'[e] = "published" => status[e] = "published"
    BY <1>2 DEF LeaseRows
<1>3. ASSUME NEW w \in Workers, Marking(w), Mark(w)
      PROVE  /\ status[e] # "absent" => status'[e] # "absent"
             /\ status'[e] = "published" => status[e] = "published" \/ stored[e] > 0
    BY <1>0, <1>3, MarkEffect DEF RowTypes
<1>4. Tick \/ UNCHANGED rowVars => UNCHANGED status
    BY DEF Tick, rowVars
<1> QED
    BY <1>1, <1>2, <1>3, <1>4, RowSteps

\* The stream changes only where a relay publishes, or a publication that was
\* in transit arrives; copies never disappear.
LEMMA StreamKept ==
    ASSUME LeaseProtocol, [Next]_vars, NEW e \in Events
    PROVE  /\ stored[e] > 0 => stored'[e] > 0
           /\ stored'[e] > 0 \/ late'[e] > 0 =>
                stored[e] > 0 \/ late[e] > 0 \/ status[e] # "absent"
<1>0. RowTypes /\ RelayTypes /\ StreamTypes /\ WorkInHand
    BY TypeParts DEF LeaseProtocol
<1> DEFINE Kept == /\ stored[e] > 0 => stored'[e] > 0
                   /\ stored'[e] > 0 \/ late'[e] > 0 =>
                        stored[e] > 0 \/ late[e] > 0 \/ status[e] # "absent"
<1>1. ASSUME NEW f \in Events, LateStore(f) PROVE Kept
    BY <1>0, <1>1 DEF LateStore, Store, StreamTypes
<1>2. ASSUME NEW w \in Workers, PublishAcked(w) PROVE Kept
    <2>1. cur[w] \in Events /\ status[cur[w]] # "absent"
        BY <1>0, <1>2, WorkingOnEvent DEF PublishAcked, WorkInHand
    <2> QED
        BY <1>0, <1>2, <2>1 DEF PublishAcked, Store, StreamTypes
<1>3. ASSUME NEW w \in Workers, PublishFailed(w) \/ PublishHangs(w) PROVE Kept
    <2>1. cur[w] \in Events /\ status[cur[w]] # "absent"
        BY <1>0, <1>3, WorkingOnEvent DEF PublishFailed, PublishHangs, WorkInHand
    <2>2. UnknownFate(cur[w])
        BY <1>3 DEF PublishFailed, PublishHangs
    <2> QED
        BY <1>0, <2>1, <2>2 DEF UnknownFate, Store, StreamTypes, streamVars
<1>4. ASSUME NEW w \in Workers, Stop(w) PROVE Kept
    <2>1. pc[w] = "publish" => cur[w] \in Events /\ status[cur[w]] # "absent"
        BY <1>0, WorkingOnEvent DEF WorkInHand
    <2> QED
        BY <1>0, <1>4, <2>1 DEF Stop, StreamTypes
<1>5. ASSUME NEW w \in Workers,
             \/ Start(w) \/ PollEmpty(w) \/ ClaimBegin(w) \/ ClaimCommit(w) \/ MarkDone(w)
             \/ MarkNotOwned(w) \/ ClaimRollback(w) \/ ClaimCommitUnknown(w)
             \/ EncodeFailed(w) \/ MarkError(w)
      PROVE  UNCHANGED streamVars
    BY <1>5 DEF Start, PollEmpty, ClaimBegin, ClaimCommit, MarkDone, MarkNotOwned,
                ClaimRollback, ClaimCommitUnknown, EncodeFailed, MarkError
<1>6. ASSUME NEW f \in Events, Inserting(f) PROVE UNCHANGED streamVars
    BY <1>6 DEF Inserting, BeginInsert, CommitInsert, CommitInsertUnknown, RollbackInsert
<1>7. Tick \/ UNCHANGED vars => UNCHANGED <<stored, late>>
    BY DEF Tick, vars, streamVars
<1>8. UNCHANGED <<stored, late>> => Kept
    OBVIOUS
<1> QED
    BY <1>1, <1>2, <1>3, <1>4, <1>5, <1>6, <1>7, <1>8
    DEF Next, RelayStep, RelayFault, streamVars

\* Every step keeps published rows in the stream.
LEMMA PublishedIsStoredStep == LeaseProtocol /\ [Next]_vars => PublishedIsStored'
BY StatusKept, StreamKept DEF LeaseProtocol, PublishedIsStored

\* Every step keeps callers, rows and stream in agreement.
LEMMA TransactionalOutboxStep == LeaseProtocol /\ [Next]_vars => TransactionalOutbox'
<1> SUFFICES ASSUME LeaseProtocol, [Next]_vars, NEW e \in Events,
                    caller'[e] = "ok" \/ stored'[e] > 0 \/ late'[e] > 0
             PROVE  status'[e] # "absent"
    BY DEF TransactionalOutbox
<1>0. RowTypes /\ CallerTypes /\ TransactionalOutbox
    BY TypeParts DEF LeaseProtocol
<1>1. caller'[e] = "ok" => caller[e] = "ok" \/ status'[e] # "absent"
    <2>1. ASSUME NEW f \in Events, Inserting(f) \/ LateStore(f) PROVE <1>1
        BY <1>0, <2>1 DEF Inserting, BeginInsert, CommitInsert, CommitInsertUnknown,
            RollbackInsert, LateStore, AddRow, CallerTypes, RowTypes
    <2>2. ASSUME NEW w \in Workers, RelayStep(w) \/ RelayFault(w) PROVE UNCHANGED caller
        BY <2>2 DEF RelayStep, Start, PollEmpty, ClaimBegin, ClaimCommit, PublishAcked,
            MarkDone, MarkNotOwned, RelayFault, ClaimRollback, ClaimCommitUnknown,
            EncodeFailed, PublishFailed, PublishHangs, MarkError, Stop
    <2>3. Tick \/ UNCHANGED vars => UNCHANGED caller
        BY DEF Tick, vars
    <2> QED
        BY <2>1, <2>2, <2>3 DEF Next
<1> QED
    BY <1>0, <1>1, StatusKept, StreamKept DEF TransactionalOutbox

\* A relay that is left alone by a step keeps its work in hand.
LEMMA WorkInHandStep == LeaseProtocol /\ [Next]_vars => WorkInHand'
<1> SUFFICES ASSUME LeaseProtocol, [Next]_vars PROVE WorkInHand'
    OBVIOUS
<1>0. RowTypes /\ RelayTypes /\ StreamTypes /\ WorkInHand /\ LocksHeld
    BY TypeParts DEF LeaseProtocol
<1> DEFINE Hand(v) ==
        /\ pc'[v] \in {"publish", "acked", "failed", "unencodable", "hung"}
              => cur'[v] \in Events /\ records'[v][cur'[v]] > 0
        /\ pc'[v] = "acked" => stored'[cur'[v]] > 0
        /\ \A e \in Events : records'[v][e] > 0 => status'[e] # "absent"
<1> SUFFICES ASSUME NEW v \in Workers PROVE Hand(v)
    BY DEF WorkInHand, Todo
<1>1. ASSUME pc'[v] = pc[v], cur'[v] = cur[v], records'[v] = records[v] PROVE Hand(v)
    BY <1>0, <1>1, StatusKept, StreamKept, WorkingOnEvent DEF WorkInHand, Todo
<1>2. ASSUME NEW e \in Events, Inserting(e) \/ LateStore(e) PROVE UNCHANGED relayVars
    BY <1>2 DEF Inserting, BeginInsert, CommitInsert, CommitInsertUnknown,
                RollbackInsert, LateStore
<1>3. ASSUME NEW w \in Workers, RelayStep(w) \/ RelayFault(w), v # w
      PROVE  pc'[v] = pc[v] /\ cur'[v] = cur[v] /\ records'[v] = records[v]
    <2>1. ASSUME \/ Start(w) \/ PollEmpty(w) \/ ClaimBegin(w) \/ ClaimCommit(w)
                 \/ PublishAcked(w) \/ EncodeFailed(w) \/ PublishFailed(w)
                 \/ PublishHangs(w) \/ Stop(w)
          PROVE  pc'[v] = pc[v] /\ cur'[v] = cur[v] /\ records'[v] = records[v]
        BY <1>0, <1>3, <2>1 DEF Start, PollEmpty, ClaimBegin, ClaimCommit, PublishAcked,
            EncodeFailed, PublishFailed, PublishHangs, Stop, RelayTypes
    <2>2. ASSUME AbortBatch(w)
          PROVE  pc'[v] = pc[v] /\ cur'[v] = cur[v] /\ records'[v] = records[v]
        BY <1>0, <1>3, <2>2 DEF AbortBatch, RelayTypes
    <2>3. ASSUME NextRecord(w)
          PROVE  pc'[v] = pc[v] /\ cur'[v] = cur[v] /\ records'[v] = records[v]
        BY <1>0, <1>3, <2>3 DEF NextRecord, RelayTypes
    <2> QED
        BY <1>3, <2>1, <2>2, <2>3 DEF RelayStep, RelayFault, ClaimRollback,
            ClaimCommitUnknown, MarkDone, MarkNotOwned, MarkError
<1>4. ASSUME Start(v) \/ PollEmpty(v) \/ ClaimBegin(v) PROVE Hand(v)
    <2>1. /\ records'[v] = records[v]
          /\ pc'[v] \in {"idle", "claiming"}
        BY <1>0, <1>4 DEF Start, PollEmpty, ClaimBegin, RelayTypes
    <2> QED
        BY <1>0, <2>1, StatusKept DEF WorkInHand, Todo
<1>5. ASSUME ClaimCommit(v) PROVE Hand(v)
    <2>1. records'[v] = Returning(v) /\ pc'[v] = "publish" /\ cur'[v] \in locked[v]
        BY <1>0, <1>5 DEF ClaimCommit, RelayTypes
    <2>2. \A e \in locked[v] : e \in Events /\ status[e] # "absent"
        BY <1>0 DEF LocksHeld, Claimable, RelayTypes
    <2> QED
        BY <1>0, <2>1, <2>2, StatusKept DEF Returning, RowTypes, RelayTypes
<1>6. ASSUME PublishAcked(v) PROVE Hand(v)
    <2>1. cur[v] \in Events /\ records[v][cur[v]] > 0
        BY <1>6, WorkingOnEvent DEF PublishAcked
    <2>2. stored'[cur[v]] > 0
        <3>1. stored'[cur[v]] = IF window[cur[v]] > 0 THEN stored[cur[v]] ELSE stored[cur[v]] + 1
            BY <1>0, <1>6, <2>1 DEF PublishAcked, Store, StreamTypes
        <3>2. window[cur[v]] > 0 => stored[cur[v]] > 0
            BY <2>1 DEF LeaseProtocol, WindowIsStored
        <3> QED
            BY <1>0, <2>1, <3>1, <3>2 DEF StreamTypes
    <2> QED
        BY <1>0, <1>6, <2>1, <2>2, StatusKept DEF PublishAcked, RelayTypes, WorkInHand, Todo
<1>7. ASSUME EncodeFailed(v) \/ PublishFailed(v) \/ PublishHangs(v) PROVE Hand(v)
    <2>1. cur[v] \in Events /\ records[v][cur[v]] > 0
        BY <1>7, WorkingOnEvent DEF EncodeFailed, PublishFailed, PublishHangs
    <2>2. /\ pc'[v] \in {"unencodable", "failed", "hung"}
          /\ cur'[v] = cur[v] /\ records'[v] = records[v]
        BY <1>0, <1>7 DEF EncodeFailed, PublishFailed, PublishHangs, RelayTypes
    <2> QED
        BY <1>0, <2>1, <2>2, StatusKept DEF WorkInHand, Todo
<1>8. ASSUME AbortBatch(v) \/ Stop(v) PROVE Hand(v)
    <2>1. pc'[v] \in {"idle", "gone"} /\ records'[v] = NoRecords
        BY <1>0, <1>8 DEF AbortBatch, Stop, RelayTypes
    <2> QED
        BY <2>1 DEF NoRecords
<1>9. ASSUME Marking(v), NextRecord(v) PROVE Hand(v)
    <2>1. cur[v] \in Events
        BY <1>9, WorkingOnEvent DEF Marking
    <2>2. \A e \in Events : records'[v][e] = IF e = cur[v] THEN 0 ELSE records[v][e]
        BY <1>0, <1>9, <2>1 DEF NextRecord, RelayTypes
    <2>3. pc'[v] = "idle" \/ (pc'[v] = "publish" /\ cur'[v] \in Todo(v) \ {cur[v]})
        BY <1>0, <1>9 DEF NextRecord, RelayTypes
    <2> QED
        BY <1>0, <2>1, <2>2, <2>3, StatusKept DEF WorkInHand, Todo
<1>10. ASSUME RelayStep(v) \/ RelayFault(v) PROVE Hand(v)
    BY <1>4, <1>5, <1>6, <1>7, <1>8, <1>9, <1>10 DEF RelayStep, RelayFault, ClaimRollback,
        ClaimCommitUnknown, MarkDone, MarkNotOwned, MarkError
<1>11. Tick \/ UNCHANGED vars => UNCHANGED <<pc, cur, records>>
    BY DEF Tick, vars, relayVars
<1> QED
    BY <1>1, <1>2, <1>3, <1>10, <1>11 DEF Next, relayVars

\* The duplicate window opens only with a stored copy.
LEMMA WindowIsStoredStep == LeaseProtocol /\ [Next]_vars => WindowIsStored'
<1> SUFFICES ASSUME LeaseProtocol, [Next]_vars, NEW e \in Events, window'[e] > 0
             PROVE  stored'[e] > 0
    BY DEF WindowIsStored
<1>0. RelayTypes /\ StreamTypes /\ WindowIsStored
    BY TypeParts DEF LeaseProtocol
<1>1. ASSUME NEW f \in Events, Store(f) PROVE stored'[e] > 0
    BY <1>0, <1>1 DEF Store, StreamTypes, WindowIsStored
<1>2. ASSUME UNCHANGED <<stored, window>> PROVE stored'[e] > 0
    BY <1>0, <1>2 DEF WindowIsStored
<1>3. ASSUME NEW f \in Events, Inserting(f) \/ LateStore(f) PROVE stored'[e] > 0
    BY <1>1, <1>2, <1>3 DEF Inserting, BeginInsert, CommitInsert, CommitInsertUnknown,
        RollbackInsert, LateStore, streamVars
<1>4. ASSUME NEW w \in Workers, PublishAcked(w) \/ PublishFailed(w) \/ PublishHangs(w)
      PROVE  stored'[e] > 0
    <2>1. cur[w] \in Events
        BY <1>4, WorkingOnEvent DEF PublishAcked, PublishFailed, PublishHangs
    <2>2. Store(cur[w]) \/ UNCHANGED <<stored, window>>
        BY <1>4 DEF PublishAcked, PublishFailed, PublishHangs, UnknownFate, streamVars
    <2> QED
        BY <1>1, <1>2, <2>1, <2>2
<1>5. ASSUME NEW w \in Workers,
             \/ Start(w) \/ PollEmpty(w) \/ ClaimBegin(w) \/ ClaimCommit(w) \/ MarkDone(w)
             \/ MarkNotOwned(w) \/ ClaimRollback(w) \/ ClaimCommitUnknown(w)
             \/ EncodeFailed(w) \/ MarkError(w) \/ Stop(w)
      PROVE  UNCHANGED <<stored, window>>
    BY <1>5 DEF Start, PollEmpty, ClaimBegin, ClaimCommit, MarkDone, MarkNotOwned,
                ClaimRollback, ClaimCommitUnknown, EncodeFailed, MarkError, Stop, streamVars
<1>6. CASE Tick
    BY <1>0, <1>6 DEF Tick, Down, StreamTypes, WindowIsStored
<1> QED
    BY <1>2, <1>3, <1>4, <1>5, <1>6 DEF Next, RelayStep, RelayFault, vars, streamVars

\* An owner's record and its row's attempt count change together.
LEMMA FreshRecordStep == LeaseProtocol /\ [Next]_vars => FreshRecord'
<1> SUFFICES ASSUME LeaseProtocol, [Next]_vars, NEW v \in Workers, NEW e \in Events,
                    records'[v][e] > 0, status'[e] = "publishing", owner'[e] = v
             PROVE  records'[v][e] = attempts'[e]
    BY DEF FreshRecord, Todo
<1>0. RowTypes /\ RelayTypes /\ LeaseState /\ LocksHeld /\ OpenIsAbsent /\ FreshRecord
    BY TypeParts DEF LeaseProtocol
<1>1. ASSUME records'[v][e] = records[v][e], status[e] = "publishing", owner[e] = v,
             attempts'[e] = attempts[e]
      PROVE  records'[v][e] = attempts'[e]
    BY <1>0, <1>1 DEF FreshRecord, Todo
<1>2. ASSUME NEW f \in Events, Inserting(f) \/ LateStore(f)
      PROVE  records'[v][e] = attempts'[e]
    <2>1. UNCHANGED <<records, attempts, owner>>
        BY <1>2 DEF Inserting, BeginInsert, CommitInsert, CommitInsertUnknown,
            RollbackInsert, LateStore, AddRow, relayVars, rowVars
    <2>2. status[e] = "publishing"
        BY <1>0, <2>1 DEF LeaseState
    <2> QED
        BY <1>1, <2>1, <2>2
<1>3. ASSUME NEW w \in Workers, LeaseRows(w), ClaimCommit(w) \/ AbortBatch(w)
      PROVE  records'[v][e] = attempts'[e]
    <2>1. CASE v = w
        BY <1>0, <1>3, <2>1 DEF ClaimCommit, AbortBatch, LeaseRows, Returning, NoRecords,
            RelayTypes, RowTypes
    <2>2. CASE v # w
        <3>1. e \notin locked[w]
            BY <1>3, <2>2 DEF LeaseRows
        <3>2. records'[v] = records[v]
            BY <1>0, <1>3, <2>2 DEF ClaimCommit, AbortBatch, RelayTypes
        <3> QED
            BY <1>1, <1>3, <3>1, <3>2 DEF LeaseRows
    <2> QED
        BY <2>1, <2>2
<1>4. ASSUME NEW w \in Workers, Marking(w), Mark(w), NextRecord(w) \/ AbortBatch(w)
      PROVE  records'[v][e] = attempts'[e]
    <2>1. e # cur[w] /\ status[e] = "publishing" /\ owner[e] = v /\ attempts'[e] = attempts[e]
        BY <1>0, <1>4, MarkEffect DEF RowTypes
    <2>2. CASE NextRecord(w)
        <3>1. records' = [records EXCEPT ![w][cur[w]] = 0]
            BY <2>2 DEF NextRecord
        <3>2. records'[v][e] = records[v][e]
            BY <1>0, <2>1, <3>1 DEF RelayTypes
        <3> QED
            BY <1>1, <2>1, <3>2
    <2>3. CASE AbortBatch(w)
        <3>1. records' = [records EXCEPT ![w] = NoRecords]
            BY <2>3 DEF AbortBatch
        <3>2. v # w
            BY <1>0, <3>1 DEF NoRecords, RelayTypes
        <3>3. records'[v][e] = records[v][e]
            BY <1>0, <3>1, <3>2 DEF RelayTypes
        <3> QED
            BY <1>1, <2>1, <3>3
    <2> QED
        BY <1>4, <2>2, <2>3
<1>5. ASSUME NEW w \in Workers, UNCHANGED rowVars,
             \/ records' = [records EXCEPT ![w] = NoRecords]
             \/ UNCHANGED records
      PROVE  records'[v][e] = attempts'[e]
    <2>1. UNCHANGED <<status, attempts, owner>>
        BY <1>5 DEF rowVars
    <2>2. CASE UNCHANGED records
        BY <1>1, <2>1, <2>2
    <2>3. CASE records' = [records EXCEPT ![w] = NoRecords]
        <3>1. v # w
            BY <1>0, <2>3 DEF NoRecords, RelayTypes
        <3> QED
            BY <1>0, <1>1, <2>1, <2>3, <3>1 DEF RelayTypes
    <2> QED
        BY <1>5, <2>2, <2>3
<1>6. ASSUME NEW w \in Workers, RelayStep(w) PROVE records'[v][e] = attempts'[e]
    BY <1>3, <1>4, <1>5, <1>6 DEF RelayStep, Start, PollEmpty, ClaimBegin, ClaimCommit,
        PublishAcked, MarkDone, MarkNotOwned, AbortBatch
<1>7. ASSUME NEW w \in Workers, RelayFault(w) PROVE records'[v][e] = attempts'[e]
    <2>1. CASE ClaimCommitUnknown(w)
        BY <1>3, <2>1 DEF ClaimCommitUnknown
    <2>2. CASE MarkError(w)
        BY <1>4, <1>5, <2>2 DEF MarkError, AbortBatch
    <2>3. CASE ClaimRollback(w) \/ Stop(w)
        BY <1>5, <2>3 DEF ClaimRollback, AbortBatch, Stop
    <2>4. CASE EncodeFailed(w) \/ PublishFailed(w) \/ PublishHangs(w)
        BY <1>5, <2>4 DEF EncodeFailed, PublishFailed, PublishHangs
    <2> QED
        BY <1>7, <2>1, <2>2, <2>3, <2>4 DEF RelayFault
<1>8. Tick \/ UNCHANGED vars => UNCHANGED <<records, status, owner, attempts>>
    BY DEF Tick, vars, rowVars, relayVars
<1> QED
    BY <1>1, <1>2, <1>6, <1>7, <1>8 DEF Next

-----------------------------------------------------------------------------
\* The empty outbox satisfies the lease protocol.
LEMMA LeaseProtocolInit == Init => LeaseProtocol
<1> SUFFICES ASSUME Init PROVE LeaseProtocol
    OBVIOUS
<1>1. TypeOK
    BY DEF Init, TypeOK, RelayStates, Settled, NoRecords, NoEvent
<1>2. LeaseState /\ LocksHeld /\ TimersBounded /\ OpenIsAbsent /\ WindowIsStored
    BY DEF Init, LeaseState, LocksHeld, TimersBounded, OpenIsAbsent, WindowIsStored
<1>3. WorkInHand /\ FreshRecord
    BY DEF Init, WorkInHand, FreshRecord, Todo, NoRecords
<1>4. PublishedIsStored /\ TransactionalOutbox
    BY DEF Init, PublishedIsStored, TransactionalOutbox
<1> QED
    BY <1>1, <1>2, <1>3, <1>4 DEF LeaseProtocol

\* Every step keeps the lease protocol.
LEMMA LeaseProtocolStep == LeaseProtocol /\ [Next]_vars => LeaseProtocol'
BY TypeStep, LeaseStateStep, LocksHeldStep, TimersBoundedStep, WorkInHandStep,
   OpenIsAbsentStep, WindowIsStoredStep, FreshRecordStep, PublishedIsStoredStep,
   TransactionalOutboxStep
DEF LeaseProtocol

\* The lease protocol holds in every reachable state: Claim, the marks and
\* the relays' bookkeeping fit together for any number of relays and events.
THEOREM LeaseProtocolInvariant == SafetySpec => []LeaseProtocol
BY LeaseProtocolInit, LeaseProtocolStep, PTL DEF SafetySpec

\* Type correctness: columns, timers and the relays' records keep their types.
THEOREM TypeCorrect == SafetySpec => []TypeOK
<1>1. LeaseProtocol => TypeOK
    BY DEF LeaseProtocol
<1> QED
    BY <1>1, LeaseProtocolInvariant, PTL

\* A row marked published is in the stream, under every crash, lost answer,
\* stale worker and overrun lease.
THEOREM PublishedIsStoredAlways == SafetySpec => []PublishedIsStored
<1>1. LeaseProtocol => PublishedIsStored
    BY DEF LeaseProtocol
<1> QED
    BY <1>1, LeaseProtocolInvariant, PTL

\* Events and their transactions stand and fall together.
THEOREM TransactionalOutboxAlways == SafetySpec => []TransactionalOutbox
<1>1. LeaseProtocol => TransactionalOutbox
    BY DEF LeaseProtocol
<1> QED
    BY <1>1, LeaseProtocolInvariant, PTL

\* A relay that owns a row works from the row's current attempt count.
THEOREM FreshRecordAlways == SafetySpec => []FreshRecord
<1>1. LeaseProtocol => FreshRecord
    BY DEF LeaseProtocol
<1> QED
    BY <1>1, LeaseProtocolInvariant, PTL

-----------------------------------------------------------------------------
\* Only a lease adds an attempt and only rows that are not settled are leased
\* or marked.
LEMMA SettledStep ==
    ASSUME LeaseProtocol, [Next]_vars, NEW e \in Events
    PROVE  /\ status[e] \in Settled => status'[e] = status[e] /\ attempts'[e] = attempts[e]
           /\ status[e] # "absent" => status'[e] # "absent"
           /\ attempts'[e] >= attempts[e]
<1>0. RowTypes /\ RelayTypes /\ LocksHeld /\ OpenIsAbsent
    BY TypeParts DEF LeaseProtocol
<1> DEFINE Kept == /\ status[e] \in Settled => status'[e] = status[e] /\ attempts'[e] = attempts[e]
                   /\ attempts'[e] >= attempts[e]
<1>1. ASSUME NEW f \in Events, caller[f] = "open", AddRow(f) PROVE Kept
    BY <1>0, <1>1 DEF AddRow, OpenIsAbsent, RowTypes, Settled
<1>2. ASSUME NEW w \in Workers, LeaseRows(w) PROVE Kept
    BY <1>0, <1>2 DEF LeaseRows, LocksHeld, Claimable, RowTypes, Settled
<1>3. ASSUME NEW w \in Workers, Marking(w), Owned(w), Mark(w) PROVE Kept
    BY <1>0, <1>3, MarkEffect DEF Owned, RowTypes, Settled
<1>4. CASE Tick \/ UNCHANGED rowVars
    BY <1>0, <1>4 DEF Tick, rowVars, RowTypes
<1> QED
    BY <1>1, <1>2, <1>3, <1>4, RowSteps, StatusKept

\* A row whose lease has not expired changes owner only by its owner's mark.
LEMMA LeaseRespectedStep ==
    ASSUME LeaseProtocol, [Next]_vars, NEW e \in Events, NEW w \in Workers,
           owner[e] = w, lease[e] > 0, owner'[e] # w
    PROVE  owner'[e] = NoWorker /\ cur[w] = e /\ Marking(w)
<1>0. RowTypes /\ RelayTypes /\ LeaseState /\ LocksHeld
    BY TypeParts DEF LeaseProtocol
<1>1. ASSUME NEW f \in Events, AddRow(f) PROVE FALSE
    BY <1>1 DEF AddRow
<1>2. ASSUME NEW v \in Workers, LeaseRows(v) PROVE FALSE
    <2>1. e \in locked[v]
        BY <1>2 DEF LeaseRows
    <2> QED
        BY <1>0, <2>1 DEF LocksHeld, Claimable, LeaseState, RowTypes
<1>3. ASSUME NEW v \in Workers, Marking(v), Owned(v), Mark(v)
      PROVE  owner'[e] = NoWorker /\ cur[w] = e /\ Marking(w)
    BY <1>0, <1>3, MarkEffect DEF Owned, RowTypes
<1>4. CASE Tick \/ UNCHANGED rowVars
    BY <1>4 DEF Tick, rowVars
<1> QED
    BY <1>1, <1>2, <1>3, <1>4, RowSteps

\* Published and dead-lettered rows are final, whatever a stale worker, a
\* late mark or a new claim does.
THEOREM SettledForeverAlways == SafetySpec => SettledForever
<1>1. LeaseProtocol /\ [Next]_vars =>
        [\A e \in Events :
            /\ status[e] \in Settled => status'[e] = status[e] /\ attempts'[e] = attempts[e]
            /\ status[e] # "absent" => status'[e] # "absent"
            /\ attempts'[e] >= attempts[e]]_vars
    BY SettledStep
<1> QED
    BY <1>1, LeaseProtocolInvariant, PTL DEF SafetySpec, SettledForever

\* An unexpired lease is exclusive: Claim never takes it over, and a mark by
\* another worker never ends it.
THEOREM LeaseRespectedAlways == SafetySpec => LeaseRespected
<1>1. LeaseProtocol /\ [Next]_vars =>
        [\A e \in Events : \A w \in Workers :
            owner[e] = w /\ lease[e] > 0 /\ owner'[e] # w =>
                owner'[e] = NoWorker /\ cur[w] = e /\ Marking(w)]_vars
    BY LeaseRespectedStep
<1> QED
    BY <1>1, LeaseProtocolInvariant, PTL DEF SafetySpec, LeaseRespected

-----------------------------------------------------------------------------
\* Refinement.  The stream gains a copy only of a committed event, in a step
\* that leaves the rows alone.
LEMMA StreamSteps ==
    ASSUME LeaseProtocol, [Next]_vars
    PROVE  \/ UNCHANGED stored
           \/ \E e \in Events : status[e] # "absent" /\ Store(e) /\ UNCHANGED status
<1>0. WorkInHand /\ TransactionalOutbox /\ StreamTypes
    BY TypeParts DEF LeaseProtocol
<1>1. ASSUME NEW f \in Events, LateStore(f)
      PROVE  status[f] # "absent" /\ Store(f) /\ UNCHANGED status
    BY <1>0, <1>1 DEF LateStore, TransactionalOutbox, rowVars
<1>2. ASSUME NEW w \in Workers, PublishAcked(w)
      PROVE  cur[w] \in Events /\ status[cur[w]] # "absent" /\ Store(cur[w]) /\ UNCHANGED status
    BY <1>0, <1>2, WorkingOnEvent DEF PublishAcked, WorkInHand, rowVars
<1>3. ASSUME NEW w \in Workers, PublishFailed(w) \/ PublishHangs(w)
      PROVE  \/ UNCHANGED stored
             \/ cur[w] \in Events /\ status[cur[w]] # "absent" /\ Store(cur[w]) /\ UNCHANGED status
    BY <1>0, <1>3, WorkingOnEvent DEF PublishFailed, PublishHangs, UnknownFate, WorkInHand,
        rowVars, streamVars
<1>4. ASSUME NEW w \in Workers,
             \/ Start(w) \/ PollEmpty(w) \/ ClaimBegin(w) \/ ClaimCommit(w) \/ MarkDone(w)
             \/ MarkNotOwned(w) \/ ClaimRollback(w) \/ ClaimCommitUnknown(w)
             \/ EncodeFailed(w) \/ MarkError(w) \/ Stop(w)
      PROVE  UNCHANGED stored
    BY <1>4 DEF Start, PollEmpty, ClaimBegin, ClaimCommit, MarkDone, MarkNotOwned,
                ClaimRollback, ClaimCommitUnknown, EncodeFailed, MarkError, Stop, streamVars
<1>5. ASSUME NEW f \in Events, Inserting(f) PROVE UNCHANGED stored
    BY <1>5 DEF Inserting, BeginInsert, CommitInsert, CommitInsertUnknown, RollbackInsert,
                streamVars
<1>6. Tick \/ UNCHANGED vars => UNCHANGED stored
    BY DEF Tick, vars, streamVars
<1> QED
    BY <1>1, <1>2, <1>3, <1>4, <1>5, <1>6 DEF Next, RelayStep, RelayFault

\* Every step of the outbox is a step of EventDelivery or changes nothing it
\* can see.
LEMMA DeliveryStep ==
    ASSUME LeaseProtocol, [Next]_vars
    PROVE  [Delivery!Next]_(Delivery!vars)
<1> DEFINE out == [e \in Events |-> Outcome(e)]
           del == {e \in Events : stored[e] > 0}
<1>0. RowTypes /\ RelayTypes /\ StreamTypes /\ LocksHeld /\ OpenIsAbsent
    BY TypeParts DEF LeaseProtocol
<1>1. UNCHANGED stored => UNCHANGED del
    OBVIOUS
<1>2. UNCHANGED status => UNCHANGED out
    BY DEF Outcome
<1>3. ASSUME NEW e \in Events, caller[e] = "open", AddRow(e), UNCHANGED streamVars
      PROVE  Delivery!Commit(e)
    <2>1. out[e] = "absent"
        BY <1>0, <1>3 DEF OpenIsAbsent, Outcome
    <2>2. out' = [out EXCEPT ![e] = "committed"]
        BY <1>0, <1>3 DEF AddRow, Outcome, RowTypes
    <2> QED
        BY <1>1, <1>3, <2>1, <2>2 DEF Delivery!Commit, streamVars
<1>4. ASSUME NEW w \in Workers, LeaseRows(w), UNCHANGED streamVars
      PROVE  UNCHANGED <<out, del>>
    <2>1. \A e \in locked[w] : status[e] \in {"pending", "publishing"}
        BY <1>0 DEF LocksHeld, Claimable
    <2>2. \A e \in Events : Outcome(e)' = Outcome(e)
        BY <1>0, <1>4, <2>1 DEF LeaseRows, Outcome, RowTypes
    <2> QED
        BY <1>1, <1>4, <2>2 DEF streamVars
<1>5. ASSUME NEW w \in Workers, Marking(w), Owned(w), Mark(w), UNCHANGED streamVars
      PROVE  \/ UNCHANGED <<out, del>>
             \/ Delivery!Publish(cur[w])
             \/ Delivery!GiveUp(cur[w])
    <2> DEFINE e == cur[w]
    <2>1. /\ e \in Events
          /\ status' = [status EXCEPT ![e] = status'[e]]
          /\ status'[e] \in {"pending", "published", "dead_letter"}
          /\ status'[e] = "published" => stored[e] > 0
          /\ status[e] = "publishing"
        BY <1>5, MarkEffect DEF Owned
    <2>2. out[e] = "committed" /\ UNCHANGED del
        BY <1>1, <1>5, <2>1 DEF Outcome, streamVars
    <2>3. CASE status'[e] = "pending"
        <3>1. \A f \in Events : Outcome(f)' = Outcome(f)
            BY <1>0, <2>1, <2>3 DEF Outcome, RowTypes
        <3> QED
            BY <2>2, <3>1
    <2>4. CASE status'[e] = "published"
        <3>1. out' = [out EXCEPT ![e] = "published"]
            BY <1>0, <2>1, <2>4 DEF Outcome, RowTypes
        <3> QED
            BY <2>1, <2>2, <2>4, <3>1 DEF Delivery!Publish
    <2>5. CASE status'[e] = "dead_letter"
        <3>1. out' = [out EXCEPT ![e] = "dead_letter"]
            BY <1>0, <2>1, <2>5 DEF Outcome, RowTypes
        <3> QED
            BY <2>1, <2>2, <3>1 DEF Delivery!GiveUp
    <2> QED
        BY <2>1, <2>3, <2>4, <2>5
<1>6. ASSUME NEW e \in Events, status[e] # "absent", Store(e), UNCHANGED status
      PROVE  Delivery!Deliver(e)
    <2>1. out[e] # "absent"
        BY <1>0, <1>6 DEF Outcome, RowTypes
    <2>2. del' = del \cup {e}
        BY <1>0, <1>6 DEF Store, StreamTypes, LeaseProtocol, WindowIsStored
    <2> QED
        BY <1>2, <1>6, <2>1, <2>2 DEF Delivery!Deliver
<1>7. CASE UNCHANGED status
    BY <1>1, <1>2, <1>6, <1>7, StreamSteps DEF Delivery!Next, Delivery!vars
<1>8. CASE ~UNCHANGED status
    <2>1. ~Tick /\ ~UNCHANGED rowVars
        BY <1>8 DEF Tick, rowVars
    <2> QED
        BY <1>3, <1>4, <1>5, <2>1, RowSteps, MarkEffect DEF Delivery!Next, Delivery!vars
<1> QED
    BY <1>7, <1>8

\* Rows, leases, relays and stream implement the safety part of
\* EventDelivery: nothing shows up that was not committed, published means
\* delivered, and a decision is final.
THEOREM ImplementsDeliverySafety == SafetySpec => Delivery!SafetySpec
<1>1. Init => Delivery!Init
    BY DEF Init, Delivery!Init, Outcome
<1>2. LeaseProtocol /\ [Next]_vars => [Delivery!Next]_(Delivery!vars)
    BY DeliveryStep
<1> QED
    BY <1>1, <1>2, LeaseProtocolInvariant, PTL DEF SafetySpec, Delivery!SafetySpec
=============================================================================
