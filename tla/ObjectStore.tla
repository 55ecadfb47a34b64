----------------------------- MODULE ObjectStore -----------------------------
(***************************************************************************)
(* The object-storage adapter: processes that share one bucket, create it  *)
(* when they start, and put, get and delete objects under opaque keys.     *)
(*                                                                         *)
(* Start and Get are two requests each.  Start asks whether the bucket     *)
(* exists and then creates it; Get asks for the metadata and then opens a  *)
(* body that is read from the server only when its caller reads it.        *)
(* Callers may put the same key again: nothing in Put keeps them from it.  *)
(*                                                                         *)
(* A version stands for an object's bytes, size, content type and ETag: it *)
(* is the number of the call of Put that stored them, 0 for no object.     *)
(***************************************************************************)
EXTENDS Naturals

CONSTANTS
    Processes,
    Keys,        \* UUIDv7 keys, from NewKey or from anywhere else
    NoKey,
    MaxPuts,     \* bound: calls of Put
    MaxFaults    \* bound: failures of the environment

ASSUME ObjectStoreAssumption ==
    /\ NoKey \notin Keys
    /\ MaxPuts \in Nat
    /\ MaxFaults \in Nat

VARIABLES
    bucket,   \* the bucket exists
    object,   \* the version the bucket holds under each key
    puts,     \* calls of Put so far
    store,    \* where each process's Store stands
    reading,  \* the key of the object a process has opened
    meta,     \* the version whose metadata Get returned with it
    body,     \* the version the caller has read from its Body
    faults

serverVars == <<bucket, object, puts>>
readerVars == <<reading, meta, body>>
vars == <<serverVars, store, readerVars, faults>>

Init ==
    /\ bucket = FALSE
    /\ object = [k \in Keys |-> 0]
    /\ puts = 0
    /\ store = [p \in Processes |-> "stopped"]
    /\ reading = [p \in Processes |-> NoKey]
    /\ meta = [p \in Processes |-> 0]
    /\ body = [p \in Processes |-> 0]
    /\ faults = 0

GoTo(p, label) == store' = [store EXCEPT ![p] = label]
Fault == faults < MaxFaults /\ faults' = faults + 1

-----------------------------------------------------------------------------
\* A new process, in place of one whose Start failed or that was closed.
NewProcess(p) ==
    /\ store[p] = "stopped" /\ reading[p] = NoKey
    /\ GoTo(p, "inspect")
    /\ UNCHANGED <<serverVars, readerVars, faults>>

\* Mutants of StartInspect: the bucket is assumed to be there; it is created
\* without a look.
StartInspectTrusts(p) ==
    /\ store[p] = "inspect"
    /\ GoTo(p, "up")
    /\ UNCHANGED <<serverVars, readerVars, faults>>
StartInspectBlind(p) ==
    /\ store[p] = "inspect"
    /\ GoTo(p, "make")
    /\ UNCHANGED <<serverVars, readerVars, faults>>

StartInspect(p) ==
    /\ store[p] = "inspect"
    /\ GoTo(p, IF bucket THEN "up" ELSE "make")
    /\ UNCHANGED <<serverVars, readerVars, faults>>

\* Another process may have created the bucket since: the server refuses to
\* create it again, and Start returns the error.
StartMake(p) ==
    /\ store[p] = "make"
    /\ GoTo(p, IF bucket THEN "stopped" ELSE "up")
    /\ bucket' = TRUE
    /\ UNCHANGED <<object, puts, readerVars, faults>>

\* A request of Start fails; MakeBucket may have taken effect.
StartFails(p) ==
    /\ store[p] \in {"inspect", "make"}
    /\ Fault
    /\ GoTo(p, "stopped")
    /\ bucket' \in {bucket, bucket \/ store[p] = "make"}
    /\ UNCHANGED <<object, puts, readerVars>>

\* Close drops the client.  A body that is open stays open.
Close(p) ==
    /\ store[p] = "up"
    /\ Fault
    /\ GoTo(p, "stopped")
    /\ UNCHANGED <<serverVars, readerVars>>

-----------------------------------------------------------------------------
\* Any UUIDv7 key will do, and an object that is there is replaced.  An error
\* leaves the new object stored or not.
Put(p, k) ==
    /\ store[p] = "up"
    /\ puts < MaxPuts
    /\ puts' = puts + 1
    /\ \/ object' = [object EXCEPT ![k] = puts + 1] /\ UNCHANGED faults
       \/ Fault /\ object' \in {object, [object EXCEPT ![k] = puts + 1]}
    /\ UNCHANGED <<bucket, store, readerVars>>

\* An object that is not there is deleted without an error; one that is may
\* or may not be gone after an error.
Delete(p, k) ==
    /\ store[p] = "up"
    /\ \/ object' = [object EXCEPT ![k] = 0] /\ UNCHANGED faults
       \/ Fault /\ object' \in {object, [object EXCEPT ![k] = 0]}
    /\ UNCHANGED <<bucket, puts, store, readerVars>>

\* StatObject finds the object, and GetObject opens it without a request.
\* For an object that is not there Get returns ErrNotFound and nothing else.
Get(p, k) ==
    /\ store[p] = "up" /\ reading[p] = NoKey
    /\ object[k] # 0
    /\ reading' = [reading EXCEPT ![p] = k]
    /\ meta' = [meta EXCEPT ![p] = object[k]]
    /\ body' = [body EXCEPT ![p] = 0]
    /\ UNCHANGED <<serverVars, store, faults>>

\* Mutant of Read: the two requests of Get change places, so that the body is
\* fetched first and the metadata asked for once it has been read.
ReadStatsLate(p) ==
    /\ reading[p] # NoKey
    /\ body' = [body EXCEPT ![p] = meta[p]]
    /\ meta' = [meta EXCEPT ![p] = object[reading[p]]]
    /\ reading' = [reading EXCEPT ![p] = NoKey]
    /\ UNCHANGED <<serverVars, store, faults>>

\* The caller reads: the object as it is now, or an error when it is gone.
Read(p) ==
    /\ reading[p] # NoKey
    /\ body' = [body EXCEPT ![p] = object[reading[p]]]
    /\ reading' = [reading EXCEPT ![p] = NoKey]
    /\ UNCHANGED <<serverVars, store, meta, faults>>

-----------------------------------------------------------------------------
StartStep(p) == NewProcess(p) \/ StartInspect(p) \/ StartMake(p)

Next ==
    \E p \in Processes :
        \/ StartStep(p)
        \/ StartFails(p)
        \/ Close(p)
        \/ \E k \in Keys : Put(p, k) \/ Delete(p, k) \/ Get(p, k)
        \/ Read(p)

SafetySpec == Init /\ [][Next]_vars
Spec == SafetySpec /\ \A p \in Processes : WF_vars(StartStep(p)) /\ WF_vars(Read(p))

-----------------------------------------------------------------------------
(***************************************************************************)
(* Properties.                                                             *)
(***************************************************************************)

\* Every variable keeps its type; a process that is up has its bucket,
\* however Start raced with that of another.
TypeOK ==
    /\ bucket \in BOOLEAN
    /\ puts \in 0..MaxPuts
    /\ object \in [Keys -> 0..puts]
    /\ store \in [Processes -> {"stopped", "inspect", "make", "up"}]
    /\ reading \in [Processes -> Keys \cup {NoKey}]
    /\ meta \in [Processes -> 0..puts]
    /\ body \in [Processes -> 0..puts]
    /\ faults \in 0..MaxFaults
    /\ \A p \in Processes : store[p] = "up" => bucket

\* Get asks for the metadata first and the body is fetched when its caller
\* reads it: whatever was put and deleted under the key in between, the body
\* is the object the metadata describes or one put later, never an older one.
BodyNotOlder ==
    \A p \in Processes : body[p] # 0 => meta[p] <= body[p]

\* An object that was replaced or deleted does not come back: what is stored
\* under a key that a process has opened is as new as Get saw it, or gone.
OpenedIsCurrent ==
    \A p \in Processes : reading[p] # NoKey =>
        /\ object[reading[p]] # 0 => meta[p] <= object[reading[p]]
        /\ body[p] = 0

\* The adapter's inductive invariant.
ObjectProtocol == TypeOK /\ OpenedIsCurrent /\ BodyNotOlder

\* Processes that start together and all find the bucket missing all come up
\* in the end, by being started again.
EventuallyUp ==
    \A p \in Processes : store[p] = "stopped" ~> store[p] = "up"
=============================================================================
