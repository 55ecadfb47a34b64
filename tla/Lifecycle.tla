------------------------------ MODULE Lifecycle ------------------------------
(***************************************************************************)
(* One API process from start to exit: appruntime.Run, the dependency Set  *)
(* it owns, the background loops of the relay and the consumer, and the    *)
(* readiness requests served meanwhile.                                    *)
(*                                                                         *)
(* Components are started in the order 1..ComponentCount.  Set.mu is held  *)
(* for the whole of Set.Start and of Set.Close; Readiness takes it only to *)
(* look, and runs its checks after it has let go.                          *)
(***************************************************************************)
EXTENDS Naturals, FiniteSets

CONSTANTS
    ComponentCount,  \* components given to NewSet
    Database,        \* the PostgreSQL pool, which background loops use
    Loops,           \* components that run a background loop
    PoolSize,        \* MaxConns of the pool
    Probes           \* readiness requests

ASSUME LifecycleAssumption ==
    /\ ComponentCount \in Nat \ {0}
    /\ Database \in 1..ComponentCount
    /\ Loops \subseteq 1..ComponentCount
    /\ \A i \in Loops : Database < i
    /\ PoolSize \in Nat \ {0}

Components == 1..ComponentCount

VARIABLES
    main,      \* where Run stands
    next,      \* the component Start or Close has reached
    active,    \* Set.active
    started,   \* Set.started
    up,        \* the component has its pool, connection, client or cancel
    loop,      \* what each background loop is doing
    signal,    \* SIGINT or SIGTERM has cancelled the process context
    expired,   \* the shutdown context has passed its deadline
    failed,    \* Run will return an error
    probe,     \* where each readiness request stands
    todo,      \* components whose Check the request still waits for
    ready      \* what the request has to report so far

setVars == <<active, started, up>>
probeVars == <<probe, todo, ready>>
vars == <<main, next, setVars, loop, signal, expired, failed, probeVars>>

MainStates == {"start", "listen", "serve", "drain", "close", "wait", "exit"}
LoopStates == {"none", "idle", "db", "call", "ended"}
ProbeStates == {"none", "lock", "check", "ping", "done"}

InFlight == {r \in Probes : probe[r] \in {"lock", "check", "ping"}}

\* Connections acquired from the pool and not yet returned.
Acquired ==
    {i \in Loops : loop[i] = "db"} \cup {r \in Probes : probe[r] = "ping"}

\* MaxConns connections are in use: Acquire waits for one of them, or for the
\* caller's context.
PoolFull == Cardinality(Acquired) >= PoolSize

Init ==
    /\ main = "start"
    /\ next = 1
    /\ active = TRUE
    /\ started = 0
    /\ up = [i \in Components |-> FALSE]
    /\ loop = [i \in Loops |-> "none"]
    /\ signal = FALSE
    /\ expired = FALSE
    /\ failed = FALSE
    /\ probe = [r \in Probes |-> "none"]
    /\ todo = [r \in Probes |-> {}]
    /\ ready = [r \in Probes |-> FALSE]

-----------------------------------------------------------------------------
(***************************************************************************)
(* Run: start, listen, serve.                                              *)
(***************************************************************************)

\* The component has its pool, connection or client; a worker its loop.
ComponentStarts ==
    /\ up' = [up EXCEPT ![next] = TRUE]
    /\ loop' = [i \in Loops |-> IF i = next THEN "idle" ELSE loop[i]]

\* Mutant of StartComponent: started counts one component too many.
StartComponentCountsAhead ==
    /\ main = "start"
    /\ ComponentStarts
    /\ started' = next + 1
    /\ next' = next + 1
    /\ main' = IF next = ComponentCount THEN "listen" ELSE "start"
    /\ UNCHANGED <<active, signal, expired, failed, probeVars>>

\* Set.Start takes one component after the other.
StartComponent ==
    /\ main = "start"
    /\ ComponentStarts
    /\ started' = next
    /\ next' = next + 1
    /\ main' = IF next = ComponentCount THEN "listen" ELSE "start"
    /\ UNCHANGED <<active, signal, expired, failed, probeVars>>

\* Mutant of BeginClose: Set.Close leaves the last component out.
BeginCloseShort ==
    /\ main' = "close"
    /\ next' = IF started > 0 THEN started - 1 ELSE 0

\* Close begins with the last component that started.
BeginClose ==
    /\ main' = "close"
    /\ next' = started

\* A component that cannot start cleans up after itself; the ones before it
\* are closed by closeAfterStartupFailure.
StartFails ==
    /\ main = "start"
    /\ BeginClose
    /\ failed' = TRUE
    /\ UNCHANGED <<setVars, loop, signal, expired, probeVars>>

Listen ==
    /\ main = "listen"
    /\ main' = "serve"
    /\ UNCHANGED <<next, setVars, loop, signal, expired, failed, probeVars>>

ListenFails ==
    /\ main = "listen"
    /\ BeginClose
    /\ failed' = TRUE
    /\ UNCHANGED <<setVars, loop, signal, expired, probeVars>>

Signal ==
    /\ main # "exit" /\ ~signal
    /\ signal' = TRUE
    /\ UNCHANGED <<main, next, setVars, loop, expired, failed, probeVars>>

\* The context is done, or Serve returned an error: the shutdown deadline
\* starts and Shutdown stops accepting requests.
BeginShutdown ==
    /\ main = "serve" /\ signal
    /\ main' = "drain"
    /\ UNCHANGED <<next, setVars, loop, signal, expired, failed, probeVars>>

ServeFails ==
    /\ main = "serve"
    /\ main' = "drain"
    /\ failed' = TRUE
    /\ UNCHANGED <<next, setVars, loop, signal, expired, probeVars>>

\* Mutant of ShutdownReturns: requests in flight are not waited for.
ShutdownReturnsAtOnce ==
    /\ main = "drain"
    /\ BeginClose
    /\ UNCHANGED <<setVars, loop, signal, expired, failed, probeVars>>

\* Shutdown waits for the requests in flight, or for the deadline.
ShutdownReturns ==
    /\ main = "drain"
    /\ \/ InFlight = {} /\ UNCHANGED failed
       \/ expired /\ failed' = TRUE
    /\ BeginClose
    /\ UNCHANGED <<setVars, loop, signal, expired, probeVars>>

-----------------------------------------------------------------------------
(***************************************************************************)
(* Set.Close: every started component in reverse order, none skipped.      *)
(***************************************************************************)

\* Mutant of CloseComponent: components are closed in starting order.
CloseComponentForward ==
    /\ main = "close" /\ next > 0
    /\ up' = [up EXCEPT ![started - next + 1] = FALSE]
    /\ main' = "wait"
    /\ UNCHANGED <<next, active, started, loop, signal, expired, failed, probeVars>>

\* The component gives up its pool, connection or cancel function first.
CloseComponent ==
    /\ main = "close" /\ next > 0
    /\ up' = [up EXCEPT ![next] = FALSE]
    /\ main' = "wait"
    /\ UNCHANGED <<next, active, started, loop, signal, expired, failed, probeVars>>

\* What a component's Close waits for: a loop has ended, or the deadline;
\* the pool has all its connections back, whatever the deadline.
CloseBlocked ==
    \/ next \in Loops /\ loop[next] # "ended" /\ ~expired
    \/ next = Database /\ Acquired # {}

\* Mutants of CloseReturns: Close cancels a loop and does not wait for it; a
\* loop left behind at the deadline is no error.
CloseReturnsAtOnce ==
    /\ main = "wait"
    /\ main' = "close"
    /\ next' = next - 1
    /\ UNCHANGED <<setVars, loop, signal, expired, failed, probeVars>>

CloseReturnsQuietly ==
    /\ main = "wait"
    /\ ~CloseBlocked
    /\ main' = "close"
    /\ next' = next - 1
    /\ UNCHANGED <<setVars, loop, signal, expired, failed, probeVars>>

\* A worker's Close may report the deadline once it has passed, ended or
\* not; any other but the pool's may fail on its own account.
CloseReturns ==
    /\ main = "wait"
    /\ ~CloseBlocked
    /\ \/ next \notin Loops /\ UNCHANGED failed
       \/ next \in Loops /\ loop[next] = "ended" /\ UNCHANGED failed
       \/ next \in Loops /\ expired /\ failed' = TRUE
       \/ next \notin Loops \cup {Database} /\ failed' = TRUE
    /\ main' = "close"
    /\ next' = next - 1
    /\ UNCHANGED <<setVars, loop, signal, expired, probeVars>>

CloseDone ==
    /\ main = "close" /\ next = 0
    /\ started' = 0
    /\ active' = FALSE
    /\ main' = "exit"
    /\ UNCHANGED <<next, up, loop, signal, expired, failed, probeVars>>

Expire ==
    /\ main \in {"drain", "close", "wait"} /\ ~expired
    /\ expired' = TRUE
    /\ UNCHANGED <<main, next, setVars, loop, signal, failed, probeVars>>

-----------------------------------------------------------------------------
(***************************************************************************)
(* The loops of Relay.run and Consumer.run.                                *)
(***************************************************************************)

\* Mutant of Cancelled: Close does not cancel the loop.
CancelledBySignal(i) == signal

\* Start derives the loop's context from the one the signal cancels; Close
\* cancels it itself.
Cancelled(i) == signal \/ ~up[i]

LoopGoesTo(i, label) ==
    /\ loop' = [loop EXCEPT ![i] = label]
    /\ UNCHANGED <<main, next, setVars, signal, expired, failed, probeVars>>

\* A database call of the batch; it waits while the pool is full, and
\* without a pool it fails at once.
LoopQuery(i) ==
    /\ main # "exit"
    /\ loop[i] \in {"idle", "call"}
    /\ ~Cancelled(i)
    /\ up[Database] /\ ~PoolFull
    /\ LoopGoesTo(i, "db")

\* A call to NATS, or back from the database to the rest of the batch.
LoopCall(i) ==
    /\ main # "exit"
    /\ loop[i] \in {"idle", "db"}
    /\ ~Cancelled(i)
    /\ LoopGoesTo(i, "call")

\* The batch ends, well or not; cancellation ends every call it is in.
LoopBatchEnds(i) ==
    /\ main # "exit"
    /\ loop[i] \in {"db", "call"}
    /\ LoopGoesTo(i, "idle")

LoopEnds(i) ==
    /\ main # "exit"
    /\ loop[i] = "idle"
    /\ Cancelled(i)
    /\ LoopGoesTo(i, "ended")

-----------------------------------------------------------------------------
(***************************************************************************)
(* Readiness.                                                              *)
(***************************************************************************)

\* A request comes in and has its identifiers.
Arrive(r) ==
    /\ main = "serve"
    /\ probe[r] = "none"
    /\ probe' = [probe EXCEPT ![r] = "lock"]
    /\ UNCHANGED <<main, next, setVars, loop, signal, expired, failed, todo, ready>>

\* No identifier can be made for it: it is turned away before the handler.
TurnAway(r) ==
    /\ main = "serve"
    /\ probe[r] = "none"
    /\ probe' = [probe EXCEPT ![r] = "done"]
    /\ UNCHANGED <<main, next, setVars, loop, signal, expired, failed, todo, ready>>

\* Set.mu is read-locked for the snapshot, so this waits for Set.Close.
Look(r) ==
    /\ main \notin {"start", "close", "wait", "exit"}
    /\ probe[r] = "lock"
    /\ IF active /\ started = ComponentCount
       THEN /\ probe' = [probe EXCEPT ![r] = "check"]
            /\ todo' = [todo EXCEPT ![r] = Components]
            /\ ready' = [ready EXCEPT ![r] = TRUE]
       ELSE /\ probe' = [probe EXCEPT ![r] = "done"]
            /\ UNCHANGED <<todo, ready>>
    /\ UNCHANGED <<main, next, setVars, loop, signal, expired, failed>>

\* pool.Ping takes a connection for as long as the query lasts.
Ping(r) ==
    /\ main # "exit"
    /\ probe[r] = "check"
    /\ Database \in todo[r]
    /\ up[Database] /\ ~PoolFull
    /\ probe' = [probe EXCEPT ![r] = "ping"]
    /\ UNCHANGED <<main, next, setVars, loop, signal, expired, failed, todo, ready>>

\* The result of one Check goes into the report.
Report(r, i, healthy) ==
    /\ probe' = [probe EXCEPT ![r] = "check"]
    /\ todo' = [todo EXCEPT ![r] = @ \ {i}]
    /\ ready' = [ready EXCEPT ![r] = @ /\ healthy]
    /\ UNCHANGED <<main, next, setVars, loop, signal, expired, failed>>

PingReturns(r) ==
    /\ main # "exit"
    /\ probe[r] = "ping"
    /\ \E healthy \in BOOLEAN : Report(r, Database, healthy)

\* Mutant of TimedOut: a readiness request has no deadline of its own.
NeverTimedOut == FALSE

\* The readiness timeout passes while the check waits for a connection.
TimedOut == PoolFull

\* There is no pool any more, or no connection in time.
PingFails(r) ==
    /\ main # "exit"
    /\ probe[r] = "check"
    /\ Database \in todo[r]
    /\ ~up[Database] \/ TimedOut
    /\ Report(r, Database, FALSE)

\* Another component's Check: an error when the component is closed, and
\* otherwise what the outside world makes of it within the timeout.
Check(r, i) ==
    /\ main # "exit"
    /\ probe[r] = "check"
    /\ i \in todo[r] \ {Database}
    /\ \E healthy \in BOOLEAN : Report(r, i, healthy /\ up[i])

Answer(r) ==
    /\ main # "exit"
    /\ probe[r] = "check"
    /\ todo[r] = {}
    /\ probe' = [probe EXCEPT ![r] = "done"]
    /\ UNCHANGED <<main, next, setVars, loop, signal, expired, failed, todo, ready>>

-----------------------------------------------------------------------------
RunStep ==
    \/ StartComponent
    \/ Listen
    \/ BeginShutdown
    \/ ShutdownReturns
    \/ CloseComponent
    \/ CloseReturns
    \/ CloseDone

RunFails == StartFails \/ ListenFails \/ ServeFails

LoopStep(i) == LoopQuery(i) \/ LoopCall(i) \/ LoopBatchEnds(i) \/ LoopEnds(i)

ProbeStep(r) ==
    \/ Look(r)
    \/ Ping(r) \/ PingReturns(r) \/ PingFails(r)
    \/ \E i \in Components : Check(r, i)
    \/ Answer(r)

\* The process has exited.
Exited == main = "exit" /\ UNCHANGED vars

Next ==
    \/ RunStep
    \/ RunFails
    \/ Signal
    \/ Expire
    \/ \E i \in Loops : LoopStep(i)
    \/ \E r \in Probes : Arrive(r) \/ TurnAway(r) \/ ProbeStep(r)
    \/ Exited

Fairness ==
    /\ WF_vars(RunStep)
    /\ WF_vars(Expire)
    /\ \A i \in Loops : WF_vars(LoopEnds(i))
    /\ \A i \in Loops : WF_vars(Cancelled(i) /\ LoopBatchEnds(i))
    /\ \A r \in Probes : WF_vars(ProbeStep(r))

SafetySpec == Init /\ [][Next]_vars
Spec == SafetySpec /\ Fairness

-----------------------------------------------------------------------------
(***************************************************************************)
(* Properties.                                                             *)
(***************************************************************************)

\* Every variable keeps its type.
TypeOK ==
    /\ main \in MainStates
    /\ next \in 0..ComponentCount + 1
    /\ active \in BOOLEAN
    /\ started \in 0..ComponentCount
    /\ up \in [Components -> BOOLEAN]
    /\ loop \in [Loops -> LoopStates]
    /\ signal \in BOOLEAN
    /\ expired \in BOOLEAN
    /\ failed \in BOOLEAN
    /\ probe \in [Probes -> ProbeStates]
    /\ todo \in [Probes -> SUBSET Components]
    /\ ready \in [Probes -> BOOLEAN]

\* At every moment the components that are up are the first k of the
\* declaration order, so none runs without those declared before it: Set
\* starts forwards, closes backwards, and a failed start changes nothing.
PrefixUp ==
    \A i, j \in Components : up[j] /\ i < j => up[i]

\* Run returns with every component closed, after a signal, a failed start
\* at any component, a failed listen or a failed server, even when the
\* deadline cut the waiting short.
CleanExit ==
    main = "exit" => started = 0 /\ \A i \in Components : ~up[i]

\* Nobody loses a dependency in use: while the deadline has not passed, a
\* background loop that has not ended and a request in flight still have
\* every component they may call.
DependenciesOutliveUsers ==
    ~expired =>
        /\ \A i \in Loops : loop[i] \in {"idle", "db", "call"} =>
              \A j \in 1..(i - 1) : up[j]
        /\ InFlight # {} => \A j \in Components : up[j]

\* Run returns nil only after a complete shutdown: both loops have ended and
\* no request was cut off.  Whatever the deadline left behind is an error.
NilMeansGraceful ==
    main = "exit" /\ ~failed =>
        InFlight = {} /\ \A i \in Loops : loop[i] = "ended"

\* The parts of the inductive invariant.  Start has reached `next', Close
\* comes back from what was started, and the Set is given up only at the end.
RunProgress ==
    /\ main = "start" => next \in Components /\ started = next - 1
    /\ main \in {"listen", "serve", "drain"} =>
          next = ComponentCount + 1 /\ started = ComponentCount
    /\ main \in {"close", "wait"} => next <= started
    /\ main = "wait" => next > 0
    /\ main = "exit" => next = 0 /\ started = 0

\* How far down the declaration order the components are up.
Standing == IF main \in {"close", "exit"} THEN next ELSE next - 1
UpIsStanding == \A i \in Components : up[i] <=> i <= Standing

Closing == main \in {"close", "wait", "exit"}

\* A loop that Start has not reached does not run; one that Close is done with
\* has ended, unless the deadline cut the wait short, which is an error.
LoopsInOrder ==
    /\ main = "start" => \A i \in Loops : i >= next => loop[i] = "none"
    /\ Closing /\ ~expired => \A i \in Loops : i > next => loop[i] \in {"none", "ended"}
    /\ Closing /\ ~failed => \A i \in Loops : i > next => loop[i] = "ended"

\* Requests are in flight only from Serve to the end of Shutdown, unless the
\* deadline passed, which is an error too.
RequestsInOrder ==
    /\ main \in {"start", "listen"} => InFlight = {}
    /\ Closing /\ (~expired \/ ~failed) => InFlight = {}

\* Start and shutdown in order, as an inductive invariant: every step of Run,
\* loops and requests from a state that satisfies it satisfies it again.
OrderlyLifecycle ==
    /\ TypeOK
    /\ RunProgress
    /\ UpIsStanding
    /\ LoopsInOrder
    /\ RequestsInOrder

\* Readiness never reports ready once Set.Close has begun, although its
\* checks run without the lock, unless the deadline passed first.
NotReadyWhileClosing ==
    [][\A r \in Probes :
        probe[r] # "done" /\ probe'[r] = "done" /\ ready'[r] =>
            expired \/ main \in {"serve", "drain"}]_vars

\* Shutdown completes: once the process is told to stop, or its server has
\* failed, Run returns, whatever loops, probes and locks were doing.
ShutdownCompletes ==
    signal \/ main = "drain" ~> main = "exit"

\* Every readiness request is answered, although background loops may keep
\* all connections of the pool to themselves and Set.Close may have the lock.
EveryRequestAnswered ==
    \A r \in Probes : probe[r] = "lock" ~> probe[r] = "done" \/ main = "exit"

\* "bounds graceful HTTP and dependency shutdown": once the deadline has
\* passed, no Close of a component waits any longer.
DeadlineBoundsClose ==
    expired => ~(main = "wait" /\ CloseBlocked)
=============================================================================
