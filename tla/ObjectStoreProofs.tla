-------------------------- MODULE ObjectStoreProofs --------------------------
(***************************************************************************)
(* Proofs about ObjectStore, for any number of processes, keys, calls of   *)
(* Put and faults.                                                         *)
(***************************************************************************)
EXTENDS ObjectStore, TLAPS

USE ObjectStoreAssumption

\* The parts of TypeOK: everything but the bucket, which is a Boolean.
BucketTypes ==
    /\ bucket \in BOOLEAN
    /\ \A p \in Processes : store[p] = "up" => bucket

ObjectTypes ==
    /\ puts \in 0..MaxPuts
    /\ object \in [Keys -> 0..puts]

ProcessTypes ==
    /\ store \in [Processes -> {"stopped", "inspect", "make", "up"}]
    /\ reading \in [Processes -> Keys \cup {NoKey}]
    /\ meta \in [Processes -> 0..puts]
    /\ body \in [Processes -> 0..puts]

\* TypeOK is the conjunction of its parts.
LEMMA TypeParts ==
    TypeOK <=> BucketTypes /\ ObjectTypes /\ ProcessTypes /\ faults \in 0..MaxFaults
BY DEF TypeOK, BucketTypes, ObjectTypes, ProcessTypes

\* Objects change in two ways only: Put stores one that is newer than every
\* other, and Delete removes one.
LEMMA ObjectSteps ==
    ASSUME [Next]_vars
    PROVE  \/ \E k \in Keys :
                /\ puts < MaxPuts /\ puts' = puts + 1
                /\ object' \in {object, [object EXCEPT ![k] = puts + 1]}
                /\ UNCHANGED readerVars
           \/ \E k \in Keys :
                /\ object' \in {object, [object EXCEPT ![k] = 0]}
                /\ UNCHANGED <<puts, readerVars>>
           \/ UNCHANGED <<object, puts>>
<1>1. ASSUME NEW p \in Processes, NEW k \in Keys, Put(p, k)
      PROVE  /\ puts < MaxPuts /\ puts' = puts + 1
             /\ object' \in {object, [object EXCEPT ![k] = puts + 1]}
             /\ UNCHANGED readerVars
    BY <1>1 DEF Put
<1>2. ASSUME NEW p \in Processes, NEW k \in Keys, Delete(p, k)
      PROVE  /\ object' \in {object, [object EXCEPT ![k] = 0]}
             /\ UNCHANGED <<puts, readerVars>>
    BY <1>2 DEF Delete
<1>3. ASSUME NEW p \in Processes,
             \/ StartStep(p) \/ StartFails(p) \/ Close(p) \/ Read(p)
             \/ \E k \in Keys : Get(p, k)
      PROVE  UNCHANGED <<object, puts>>
    BY <1>3 DEF StartStep, NewProcess, StartInspect, StartMake, StartFails, Close, Read, Get,
        serverVars
<1>4. UNCHANGED vars => UNCHANGED <<object, puts>>
    BY DEF vars, serverVars
<1> QED
    BY <1>1, <1>2, <1>3, <1>4 DEF Next

\* Readers change in two ways only: Get opens an object, and its caller reads
\* it.
LEMMA ReaderSteps ==
    ASSUME [Next]_vars
    PROVE  \/ \E p \in Processes, k \in Keys : Get(p, k)
           \/ \E p \in Processes : Read(p)
           \/ UNCHANGED readerVars
<1>1. ASSUME NEW p \in Processes,
             \/ StartStep(p) \/ StartFails(p) \/ Close(p)
             \/ \E k \in Keys : Put(p, k) \/ Delete(p, k)
      PROVE  UNCHANGED readerVars
    BY <1>1 DEF StartStep, NewProcess, StartInspect, StartMake, StartFails, Close, Put, Delete
<1>2. UNCHANGED vars => UNCHANGED readerVars
    BY DEF vars
<1> QED
    BY <1>1, <1>2 DEF Next

\* Start changes a process's standing, and up means that there is a bucket.
LEMMA StandingSteps ==
    ASSUME ObjectProtocol, [Next]_vars
    PROVE  /\ store' \in [Processes -> {"stopped", "inspect", "make", "up"}]
           /\ faults' \in 0..MaxFaults
           /\ BucketTypes'
<1>0. BucketTypes /\ ProcessTypes /\ faults \in 0..MaxFaults
    BY TypeParts DEF ObjectProtocol
<1> DEFINE G == /\ store' \in [Processes -> {"stopped", "inspect", "make", "up"}]
                /\ faults' \in 0..MaxFaults
                /\ BucketTypes'
<1>a. Fault \/ UNCHANGED faults => faults' \in 0..MaxFaults
    BY <1>0 DEF Fault
<1>1. ASSUME NEW p \in Processes, NewProcess(p) PROVE G
    BY <1>0, <1>1 DEF NewProcess, GoTo, serverVars, BucketTypes, ProcessTypes
<1>2. ASSUME NEW p \in Processes, StartInspect(p) PROVE G
    BY <1>0, <1>2 DEF StartInspect, GoTo, serverVars, BucketTypes, ProcessTypes
<1>3. ASSUME NEW p \in Processes, StartMake(p) PROVE G
    BY <1>0, <1>3 DEF StartMake, GoTo, BucketTypes, ProcessTypes
<1>4. ASSUME NEW p \in Processes, StartFails(p) PROVE G
    <2>1. /\ store' \in [Processes -> {"stopped", "inspect", "make", "up"}]
          /\ \A q \in Processes : store'[q] = "up" => store[q] = "up"
        BY <1>0, <1>4 DEF StartFails, GoTo, ProcessTypes
    <2>2. bucket' \in BOOLEAN /\ (bucket => bucket')
        BY <1>0, <1>4, Zenon DEF StartFails, BucketTypes
    <2>3. faults' \in 0..MaxFaults
        BY <1>a, <1>4 DEF StartFails
    <2> QED
        BY <1>0, <2>1, <2>2, <2>3 DEF BucketTypes
<1>5. ASSUME NEW p \in Processes, Close(p) PROVE G
    BY <1>0, <1>a, <1>5 DEF Close, GoTo, serverVars, BucketTypes, ProcessTypes
<1>6. ASSUME NEW p \in Processes,
             \/ \E k \in Keys : Put(p, k) \/ Delete(p, k) \/ Get(p, k)
             \/ Read(p)
      PROVE  G
    <2>1. UNCHANGED <<bucket, store>> /\ (Fault \/ UNCHANGED faults)
        BY <1>6 DEF Put, Delete, Get, Read, serverVars
    <2> QED
        BY <1>0, <1>a, <2>1 DEF BucketTypes, ProcessTypes
<1>7. CASE UNCHANGED vars
    BY <1>0, <1>7 DEF vars, serverVars, BucketTypes, ProcessTypes
<1> QED
    BY <1>1, <1>2, <1>3, <1>4, <1>5, <1>6, <1>7 DEF Next, StartStep

\* Every step keeps the types.
LEMMA TypeStep == ObjectProtocol /\ [Next]_vars => TypeOK'
<1> SUFFICES ASSUME ObjectProtocol, [Next]_vars PROVE TypeOK'
    OBVIOUS
<1>0. ObjectTypes /\ ProcessTypes
    BY TypeParts DEF ObjectProtocol
<1>1. ObjectTypes' /\ puts' \in Nat /\ puts <= puts'
    <2>1. ASSUME NEW k \in Keys, puts < MaxPuts, puts' = puts + 1,
                 object' \in {object, [object EXCEPT ![k] = puts + 1]}
          PROVE  ObjectTypes' /\ puts <= puts'
        BY <1>0, <2>1 DEF ObjectTypes
    <2>2. ASSUME NEW k \in Keys, UNCHANGED puts,
                 object' \in {object, [object EXCEPT ![k] = 0]}
          PROVE  ObjectTypes' /\ puts <= puts'
        BY <1>0, <2>2 DEF ObjectTypes
    <2>3. UNCHANGED <<object, puts>> => ObjectTypes' /\ puts <= puts'
        BY <1>0 DEF ObjectTypes
    <2> QED
        BY <2>1, <2>2, <2>3, ObjectSteps DEF ObjectTypes
<1> DEFINE R == /\ reading \in [Processes -> Keys \cup {NoKey}]
                /\ meta \in [Processes -> 0..puts]
                /\ body \in [Processes -> 0..puts]
<1>2. R'
    <2>1. ASSUME NEW p \in Processes, NEW k \in Keys, Get(p, k) PROVE R'
        BY <1>0, <2>1 DEF Get, ObjectTypes, ProcessTypes, serverVars
    <2>2. ASSUME NEW p \in Processes, Read(p) PROVE R'
        BY <1>0, <2>2 DEF Read, ObjectTypes, ProcessTypes, serverVars
    <2>3. ASSUME UNCHANGED readerVars PROVE R'
        BY <1>0, <1>1, <2>3 DEF readerVars, ObjectTypes, ProcessTypes
    <2> QED
        BY <2>1, <2>2, <2>3, ReaderSteps
<1> QED
    BY <1>1, <1>2, StandingSteps DEF TypeOK, ObjectTypes, BucketTypes

-----------------------------------------------------------------------------
\* Every step keeps OpenedIsCurrent: what Put stores is newer than anything
\* Get has seen.
LEMMA OpenedIsCurrentStep == ObjectProtocol /\ [Next]_vars => OpenedIsCurrent'
<1> DEFINE Opened(p) == /\ object[reading[p]] # 0 => meta[p] <= object[reading[p]]
                        /\ body[p] = 0
<1> SUFFICES ASSUME ObjectProtocol, [Next]_vars, NEW p \in Processes, reading'[p] # NoKey
             PROVE  Opened(p)'
    BY DEF OpenedIsCurrent
<1>0. ObjectTypes /\ ProcessTypes /\ OpenedIsCurrent
    BY TypeParts DEF ObjectProtocol
<1>1. ASSUME UNCHANGED readerVars PROVE Opened(p)'
    <2>1. Opened(p) /\ reading[p] \in Keys /\ meta[p] \in 0..puts /\ puts \in Nat
        BY <1>0, <1>1 DEF OpenedIsCurrent, readerVars, ObjectTypes, ProcessTypes
    <2>2. object'[reading[p]] \in {object[reading[p]], puts + 1, 0}
        BY <1>0, <2>1, ObjectSteps DEF ObjectTypes
    <2>3. UNCHANGED <<reading, meta, body>>
        BY <1>1 DEF readerVars
    <2> QED
        BY <2>1, <2>2, <2>3
<1>2. ASSUME NEW q \in Processes, NEW k \in Keys, Get(q, k) PROVE Opened(p)'
    <2>1. UNCHANGED object
        BY <1>2 DEF Get, serverVars
    <2>2. CASE p = q
        BY <1>0, <1>2, <2>1, <2>2 DEF Get, ObjectTypes, ProcessTypes
    <2>3. CASE p # q
        BY <1>0, <1>2, <2>1, <2>3 DEF Get, ProcessTypes, OpenedIsCurrent
    <2> QED
        BY <2>2, <2>3
<1>3. ASSUME NEW q \in Processes, Read(q) PROVE Opened(p)'
    BY <1>0, <1>3 DEF Read, serverVars, ProcessTypes, OpenedIsCurrent
<1> QED
    BY <1>1, <1>2, <1>3, ReaderSteps

\* Every step keeps BodyNotOlder.
LEMMA BodyNotOlderStep == ObjectProtocol /\ [Next]_vars => BodyNotOlder'
<1> SUFFICES ASSUME ObjectProtocol, [Next]_vars, NEW p \in Processes, body'[p] # 0
             PROVE  meta'[p] <= body'[p]
    BY DEF BodyNotOlder
<1>0. ProcessTypes /\ OpenedIsCurrent /\ BodyNotOlder
    BY TypeParts DEF ObjectProtocol
<1>1. ASSUME NEW q \in Processes, NEW k \in Keys, Get(q, k) PROVE meta'[p] <= body'[p]
    BY <1>0, <1>1 DEF Get, ProcessTypes, BodyNotOlder
<1>2. ASSUME NEW q \in Processes, Read(q) PROVE meta'[p] <= body'[p]
    BY <1>0, <1>2 DEF Read, ProcessTypes, OpenedIsCurrent, BodyNotOlder
<1> QED
    BY <1>0, <1>1, <1>2, ReaderSteps DEF readerVars, BodyNotOlder

\* Nothing is stored and nothing is open at first.
LEMMA ObjectProtocolInit == Init => ObjectProtocol
<1> SUFFICES ASSUME Init PROVE ObjectProtocol
    OBVIOUS
<1>1. bucket \in BOOLEAN
    BY Zenon DEF Init
<1>2. BucketTypes
    BY <1>1 DEF Init, BucketTypes
<1>3. ObjectTypes /\ ProcessTypes /\ faults \in 0..MaxFaults
    BY DEF Init, ObjectTypes, ProcessTypes
<1>4. OpenedIsCurrent /\ BodyNotOlder
    BY DEF Init, OpenedIsCurrent, BodyNotOlder
<1> QED
    BY <1>2, <1>3, <1>4, TypeParts DEF ObjectProtocol

\* The adapter's invariant holds in every reachable state, whatever the other
\* processes put, delete, start and stop in the meantime.
THEOREM ObjectProtocolInvariant == SafetySpec => []ObjectProtocol
<1>1. ObjectProtocol /\ [Next]_vars => ObjectProtocol'
    BY TypeStep, OpenedIsCurrentStep, BodyNotOlderStep DEF ObjectProtocol
<1> QED
    BY <1>1, ObjectProtocolInit, PTL DEF SafetySpec

\* Every variable keeps its type, and a Store that Start brought up has its
\* bucket, however the Starts of several processes race.
THEOREM TypeCorrect == SafetySpec => []TypeOK
<1>1. ObjectProtocol => TypeOK
    BY DEF ObjectProtocol
<1> QED
    BY <1>1, ObjectProtocolInvariant, PTL

\* Get's StatObject comes before the late read of its Body: although callers
\* may replace or delete the object in between, what is read is never older
\* than what the metadata describes.
THEOREM BodyNotOlderAlways == SafetySpec => []BodyNotOlder
<1>1. ObjectProtocol => BodyNotOlder
    BY DEF ObjectProtocol
<1> QED
    BY <1>1, ObjectProtocolInvariant, PTL
=============================================================================
