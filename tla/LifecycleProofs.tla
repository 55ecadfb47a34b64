--------------------------- MODULE LifecycleProofs ---------------------------
(***************************************************************************)
(* Proofs about Lifecycle, for any number of components, any loops         *)
(* declared after the database, any pool size and any number of requests.  *)
(***************************************************************************)
EXTENDS Lifecycle, TLAPS

USE LifecycleAssumption

\* The parts of TypeOK: where Run and the Set stand, their flags, and what the
\* requests keep.
RunTypes ==
    /\ main \in MainStates
    /\ next \in 0..ComponentCount + 1
    /\ started \in 0..ComponentCount
    /\ up \in [Components -> BOOLEAN]

FlagTypes ==
    /\ active \in BOOLEAN
    /\ signal \in BOOLEAN
    /\ expired \in BOOLEAN
    /\ failed \in BOOLEAN

ProbeTypes ==
    /\ probe \in [Probes -> ProbeStates]
    /\ todo \in [Probes -> SUBSET Components]
    /\ ready \in [Probes -> BOOLEAN]

\* TypeOK is the conjunction of its parts.
LEMMA TypeParts ==
    TypeOK <=> RunTypes /\ FlagTypes /\ loop \in [Loops -> LoopStates] /\ ProbeTypes
BY DEF TypeOK, RunTypes, FlagTypes, ProbeTypes

\* The part of OrderlyLifecycle that is about Run and the Set alone.
RunInOrder == RunTypes /\ RunProgress /\ UpIsStanding

\* A loop is started once; from then on it runs until it ends for good.
LoopMoves ==
    \A i \in Loops :
        loop'[i] = loop[i] \/ (loop[i] \in {"idle", "db", "call"} /\ loop'[i] # "none")

-----------------------------------------------------------------------------
(***************************************************************************)
(* Run's own steps.                                                        *)
(***************************************************************************)

\* Starting one more component, or failing to.
LEMMA StartInOrder ==
    ASSUME RunInOrder, StartComponent \/ StartFails
    PROVE  RunInOrder'
<1>1. CASE StartComponent
    <2>1. next \in Components /\ started = next - 1 /\ main = "start"
        BY <1>1 DEF StartComponent, RunInOrder, RunProgress
    <2>2. RunTypes'
        BY <1>1, <2>1 DEF StartComponent, ComponentStarts, RunInOrder, RunTypes, Components,
                          MainStates
    <2>3. RunProgress'
        BY <1>1, <2>1 DEF StartComponent, RunProgress, Components
    <2>4. Standing' = next /\ Standing = next - 1
        BY <1>1, <2>1 DEF StartComponent, Standing, Components
    <2>5. \A i \in Components : up'[i] <=> (i = next \/ up[i])
        BY <1>1, <2>1 DEF StartComponent, ComponentStarts, RunInOrder, RunTypes
    <2>6. UpIsStanding'
        BY <2>1, <2>4, <2>5 DEF UpIsStanding, RunInOrder, Components
    <2> QED
        BY <2>2, <2>3, <2>6 DEF RunInOrder
<1>2. CASE StartFails
    BY <1>2
    DEF StartFails, BeginClose, setVars, RunInOrder, RunTypes, RunProgress, UpIsStanding,
        Standing, MainStates, Components
<1> QED
    BY <1>1, <1>2

\* Listening and serving change nothing but where Run stands.
LEMMA ServeInOrder ==
    ASSUME RunInOrder, Listen \/ ListenFails \/ BeginShutdown \/ ServeFails \/ ShutdownReturns
    PROVE  RunInOrder'
<1>1. CASE Listen \/ BeginShutdown \/ ServeFails
    BY <1>1
    DEF Listen, BeginShutdown, ServeFails, setVars, RunInOrder, RunTypes, RunProgress,
        UpIsStanding, Standing, MainStates
<1>2. CASE ListenFails \/ ShutdownReturns
    <2>1. RunTypes'
        BY <1>2 DEF ListenFails, ShutdownReturns, BeginClose, setVars, RunInOrder, RunTypes, RunProgress, MainStates, Components
    <2>2. RunProgress'
        BY <1>2 DEF ListenFails, ShutdownReturns, BeginClose, setVars, RunInOrder, RunTypes, RunProgress, Components
    <2>3. UpIsStanding'
        BY <1>2
        DEF ListenFails, ShutdownReturns, BeginClose, setVars, RunInOrder, RunTypes, RunProgress, UpIsStanding, Standing, Components
    <2> QED
        BY <2>1, <2>2, <2>3 DEF RunInOrder
<1> QED
    BY <1>1, <1>2

\* Closing one component after the other.
LEMMA CloseInOrder ==
    ASSUME RunInOrder, CloseComponent \/ CloseReturns \/ CloseDone
    PROVE  RunInOrder'
<1>1. CASE CloseComponent
    <2>1. next \in Components /\ next <= started /\ main = "close" /\ main' = "wait"
        BY <1>1 DEF CloseComponent, RunInOrder, RunProgress, RunTypes, Components
    <2>2. RunTypes' /\ RunProgress'
        BY <1>1, <2>1 DEF CloseComponent, RunInOrder, RunTypes, RunProgress, MainStates
    <2>3. Standing = next /\ Standing' = next - 1
        BY <1>1, <2>1 DEF CloseComponent, Standing
    <2>4. \A i \in Components : up'[i] <=> (i # next /\ up[i])
        BY <1>1, <2>1 DEF CloseComponent, RunInOrder, RunTypes
    <2>5. UpIsStanding'
        BY <2>1, <2>3, <2>4 DEF UpIsStanding, RunInOrder, Components
    <2> QED
        BY <2>2, <2>5 DEF RunInOrder
<1>2. CASE CloseReturns
    <2>1. RunTypes'
        BY <1>2 DEF CloseReturns, setVars, RunInOrder, RunTypes, RunProgress, MainStates
    <2>2. RunProgress'
        BY <1>2 DEF CloseReturns, setVars, RunInOrder, RunTypes, RunProgress
    <2>3. UpIsStanding'
        BY <1>2
        DEF CloseReturns, setVars, RunInOrder, RunTypes, RunProgress, UpIsStanding, Standing
    <2> QED
        BY <2>1, <2>2, <2>3 DEF RunInOrder
<1>3. CASE CloseDone
    <2>1. RunTypes'
        BY <1>3 DEF CloseDone, setVars, RunInOrder, RunTypes, RunProgress, MainStates
    <2>2. RunProgress'
        BY <1>3 DEF CloseDone, setVars, RunInOrder, RunTypes, RunProgress
    <2>3. UpIsStanding'
        BY <1>3
        DEF CloseDone, setVars, RunInOrder, RunTypes, RunProgress, UpIsStanding, Standing
    <2> QED
        BY <2>1, <2>2, <2>3 DEF RunInOrder
<1> QED
    BY <1>1, <1>2, <1>3

\* Every step keeps Run and the Set in order.
LEMMA RunInOrderStep == RunInOrder /\ [Next]_vars => RunInOrder'
<1> SUFFICES ASSUME RunInOrder, [Next]_vars PROVE RunInOrder'
    OBVIOUS
<1>a. UNCHANGED <<main, next, setVars, signal, expired, failed>> => RunInOrder'
    BY DEF setVars, RunInOrder, RunTypes, RunProgress, UpIsStanding, Standing
<1>1. CASE RunStep \/ RunFails
    BY <1>1, StartInOrder, ServeInOrder, CloseInOrder DEF RunStep, RunFails
<1>2. CASE Signal \/ Expire
    <2>1. RunTypes'
        BY <1>2 DEF Signal, Expire, setVars, RunInOrder, RunTypes, RunProgress, MainStates
    <2>2. RunProgress'
        BY <1>2 DEF Signal, Expire, setVars, RunInOrder, RunTypes, RunProgress
    <2>3. UpIsStanding'
        BY <1>2
        DEF Signal, Expire, setVars, RunInOrder, RunTypes, RunProgress, UpIsStanding, Standing
    <2> QED
        BY <2>1, <2>2, <2>3 DEF RunInOrder
<1>3. ASSUME NEW i \in Loops, LoopStep(i) PROVE RunInOrder'
    BY <1>3, <1>a DEF LoopStep, LoopQuery, LoopCall, LoopBatchEnds, LoopEnds, LoopGoesTo
<1>4. ASSUME NEW r \in Probes, Arrive(r) \/ TurnAway(r) \/ ProbeStep(r) PROVE RunInOrder'
    BY <1>4, <1>a
    DEF Arrive, TurnAway, ProbeStep, Look, Ping, PingReturns, PingFails, Check, Answer, Report
<1>5. CASE Exited \/ UNCHANGED vars
    BY <1>5, <1>a DEF Exited, vars
<1> QED
    BY <1>1, <1>2, <1>3, <1>4, <1>5 DEF Next

-----------------------------------------------------------------------------
(***************************************************************************)
(* Loops and requests.                                                     *)
(***************************************************************************)

\* A step of a loop changes this loop, and only while it runs.
LEMMA LoopStepEffect ==
    ASSUME loop \in [Loops -> LoopStates], NEW i \in Loops, LoopStep(i)
    PROVE  /\ loop' \in [Loops -> LoopStates]
           /\ LoopMoves
           /\ UNCHANGED <<main, next, setVars, signal, expired, failed, probeVars>>
<1>1. PICK label \in LoopStates \ {"none"} :
        loop[i] \in {"idle", "db", "call"} /\ LoopGoesTo(i, label)
    BY DEF LoopStep, LoopQuery, LoopCall, LoopBatchEnds, LoopEnds, LoopStates
<1> QED
    BY <1>1 DEF LoopGoesTo, LoopMoves

\* A step of a request keeps the types; only a server that serves lets a new
\* one in.
LEMMA ProbeStepEffect ==
    ASSUME ProbeTypes, NEW r \in Probes, Arrive(r) \/ TurnAway(r) \/ ProbeStep(r)
    PROVE  /\ ProbeTypes'
           /\ UNCHANGED <<main, next, setVars, loop, signal, expired, failed>>
           /\ main = "serve" \/ InFlight' \subseteq InFlight
<1>1. CASE Arrive(r)
    BY <1>1 DEF Arrive, ProbeTypes, ProbeStates
<1>2. CASE TurnAway(r)
    BY <1>2 DEF TurnAway, ProbeTypes, ProbeStates
<1>3. ASSUME NEW i \in Components, NEW healthy \in BOOLEAN, Report(r, i, healthy),
             probe[r] \in {"check", "ping"}
      PROVE  /\ ProbeTypes'
             /\ UNCHANGED <<main, next, setVars, loop, signal, expired, failed>>
             /\ InFlight' \subseteq InFlight
    <2>1. probe' \in [Probes -> ProbeStates] /\ todo' \in [Probes -> SUBSET Components]
        BY <1>3 DEF Report, ProbeTypes, ProbeStates
    <2>2. ready' \in [Probes -> BOOLEAN]
        BY <1>3 DEF Report, ProbeTypes
    <2>3. InFlight' \subseteq InFlight
        BY <1>3 DEF Report, ProbeTypes, InFlight
    <2> QED
        BY <1>3, <2>1, <2>2, <2>3 DEF Report, ProbeTypes
<1>4. CASE Look(r)
    BY <1>4 DEF Look, ProbeTypes, ProbeStates, InFlight
<1>5. CASE Ping(r)
    BY <1>5 DEF Ping, ProbeTypes, ProbeStates, InFlight
<1>6. CASE PingReturns(r) \/ PingFails(r)
    <2>1. Database \in Components
        BY DEF Components
    <2> QED
        BY <1>3, <1>6, <2>1 DEF PingReturns, PingFails
<1>7. ASSUME NEW i \in Components, Check(r, i)
      PROVE  /\ ProbeTypes'
             /\ UNCHANGED <<main, next, setVars, loop, signal, expired, failed>>
             /\ InFlight' \subseteq InFlight
    <2>1. PICK healthy \in BOOLEAN : Report(r, i, healthy /\ up[i])
        BY <1>7 DEF Check
    <2>2. (healthy /\ up[i]) \in BOOLEAN
        OBVIOUS
    <2> QED
        BY <1>3, <1>7, <2>1, <2>2 DEF Check
<1>8. CASE Answer(r)
    BY <1>8 DEF Answer, ProbeTypes, ProbeStates, InFlight
<1> QED
    BY <1>1, <1>2, <1>4, <1>5, <1>6, <1>7, <1>8 DEF ProbeStep

-----------------------------------------------------------------------------
(***************************************************************************)
(* The invariant, step by step.                                            *)
(***************************************************************************)

\* Every step leaves the flags TRUE or FALSE.
LEMMA FlagTypesStep == FlagTypes /\ [Next]_vars => FlagTypes'
<1> SUFFICES ASSUME FlagTypes, [Next]_vars PROVE FlagTypes'
    OBVIOUS
<1>1. CASE RunStep \/ RunFails
    BY <1>1, Zenon
    DEF FlagTypes, RunStep, RunFails, StartComponent, StartFails, Listen, ListenFails,
        BeginShutdown, ServeFails, ShutdownReturns, CloseComponent, CloseReturns, CloseDone,
        setVars
<1>2. CASE Signal \/ Expire
    BY <1>2, Zenon DEF FlagTypes, Signal, Expire, setVars
<1>3. ASSUME NEW i \in Loops, LoopStep(i) PROVE FlagTypes'
    BY <1>3, Zenon
    DEF FlagTypes, LoopStep, LoopQuery, LoopCall, LoopBatchEnds, LoopEnds, LoopGoesTo, setVars
<1>4. ASSUME NEW r \in Probes, Arrive(r) \/ TurnAway(r) \/ ProbeStep(r) PROVE FlagTypes'
    BY <1>4, Zenon
    DEF FlagTypes, Arrive, TurnAway, ProbeStep, Look, Ping, PingReturns, PingFails, Check,
        Answer, Report, setVars
<1>5. CASE Exited \/ UNCHANGED vars
    BY <1>5, Zenon DEF FlagTypes, Exited, vars, setVars
<1> QED
    BY <1>1, <1>2, <1>3, <1>4, <1>5 DEF Next

\* A step of Run leaves the requests alone, and of the loops it changes at
\* most the one it starts.
LEMMA RunLeavesOthers ==
    ASSUME RunStep \/ RunFails \/ Signal \/ Expire
    PROVE  UNCHANGED probeVars /\ (~StartComponent => UNCHANGED loop)
<1>1. StartComponent => UNCHANGED probeVars
    BY DEF StartComponent
<1>2. CASE StartFails \/ Listen \/ ListenFails \/ BeginShutdown \/ ServeFails \/ ShutdownReturns
    BY <1>2 DEF StartFails, Listen, ListenFails, BeginShutdown, ServeFails, ShutdownReturns
<1>3. CASE CloseComponent \/ CloseReturns \/ CloseDone \/ Signal \/ Expire
    BY <1>3 DEF CloseComponent, CloseReturns, CloseDone, Signal, Expire
<1> QED
    BY <1>1, <1>2, <1>3 DEF RunStep, RunFails

\* Every step keeps the types of the loops and of the requests.
LEMMA UserTypesStep ==
    ASSUME loop \in [Loops -> LoopStates], ProbeTypes, [Next]_vars
    PROVE  loop' \in [Loops -> LoopStates] /\ ProbeTypes'
<1>a. UNCHANGED probeVars => ProbeTypes'
    BY DEF probeVars, ProbeTypes
<1>1. CASE StartComponent
    BY <1>1, <1>a, RunLeavesOthers DEF StartComponent, ComponentStarts, LoopStates, RunStep
<1>2. CASE (RunStep \/ RunFails \/ Signal \/ Expire) /\ ~StartComponent
    BY <1>2, <1>a, RunLeavesOthers
<1>3. ASSUME NEW i \in Loops, LoopStep(i)
      PROVE  loop' \in [Loops -> LoopStates] /\ ProbeTypes'
    BY <1>3, <1>a, LoopStepEffect
<1>4. ASSUME NEW r \in Probes, Arrive(r) \/ TurnAway(r) \/ ProbeStep(r)
      PROVE  loop' \in [Loops -> LoopStates] /\ ProbeTypes'
    BY <1>4, ProbeStepEffect
<1>5. CASE Exited \/ UNCHANGED vars
    BY <1>5, <1>a DEF Exited, vars
<1> QED
    BY <1>1, <1>2, <1>3, <1>4, <1>5 DEF Next

\* Every step keeps the loops in order.
LEMMA LoopsInOrderStep == OrderlyLifecycle /\ [Next]_vars => LoopsInOrder'
<1> SUFFICES ASSUME OrderlyLifecycle, [Next]_vars PROVE LoopsInOrder'
    OBVIOUS
<1>0. /\ RunTypes /\ loop \in [Loops -> LoopStates] /\ ProbeTypes
      /\ RunProgress /\ LoopsInOrder
      /\ \A i \in Loops : i \in 1..ComponentCount
    BY TypeParts DEF OrderlyLifecycle
<1>a. ASSUME LoopMoves, UNCHANGED <<main, next, expired, failed>> PROVE LoopsInOrder'
    BY <1>0, <1>a DEF LoopMoves, LoopsInOrder, Closing
<1>1. CASE StartComponent
    BY <1>0, <1>1
    DEF StartComponent, ComponentStarts, RunProgress, RunTypes, LoopsInOrder, Closing, Components
<1>2. CASE StartFails
    BY <1>0, <1>2 DEF StartFails, BeginClose, RunProgress, LoopsInOrder, Closing, Components
<1>3. CASE Listen \/ BeginShutdown \/ ServeFails
    BY <1>3 DEF Listen, BeginShutdown, ServeFails, LoopsInOrder, Closing
<1>4. CASE ListenFails \/ ShutdownReturns
    <2>1. main' = "close" /\ next' = ComponentCount
        BY <1>0, <1>4 DEF ListenFails, ShutdownReturns, BeginClose, RunProgress
    <2> QED
        BY <1>0, <2>1 DEF LoopsInOrder, Closing
<1>5. CASE CloseComponent \/ CloseDone
    BY <1>0, <1>5 DEF CloseComponent, CloseDone, LoopsInOrder, Closing
<1>6. CASE CloseReturns
    <2>1. /\ main = "wait" /\ main' = "close" /\ next' = next - 1
          /\ UNCHANGED <<loop, expired>>
          /\ next \in Nat
        BY <1>0, <1>6 DEF CloseReturns, RunTypes
    <2>2. ~expired => next \notin Loops \/ loop[next] = "ended"
        BY <1>6 DEF CloseReturns, CloseBlocked
    <2>3. ~failed' => ~failed /\ (next \notin Loops \/ loop[next] = "ended")
        BY <1>6, Zenon DEF CloseReturns
    <2>4. ASSUME NEW i \in Loops, i > next' PROVE i = next \/ i > next
        BY <1>0, <2>1, <2>4
    <2> QED
        BY <1>0, <2>1, <2>2, <2>3, <2>4 DEF LoopsInOrder, Closing
<1>7. CASE Signal \/ Expire
    BY <1>0, <1>7 DEF Signal, Expire, LoopsInOrder, Closing
<1>8. ASSUME NEW i \in Loops, LoopStep(i) PROVE LoopsInOrder'
    BY <1>0, <1>8, <1>a, LoopStepEffect
<1>9. ASSUME NEW r \in Probes, Arrive(r) \/ TurnAway(r) \/ ProbeStep(r) PROVE LoopsInOrder'
    BY <1>0, <1>9, <1>a, ProbeStepEffect DEF LoopMoves
<1>10. CASE Exited \/ UNCHANGED vars
    BY <1>10, <1>a DEF Exited, vars, LoopMoves
<1> QED
    BY <1>1, <1>2, <1>3, <1>4, <1>5, <1>6, <1>7, <1>8, <1>9, <1>10 DEF Next, RunStep, RunFails

\* Every step keeps the requests in order.
LEMMA RequestsInOrderStep == OrderlyLifecycle /\ [Next]_vars => RequestsInOrder'
<1> SUFFICES ASSUME OrderlyLifecycle, [Next]_vars PROVE RequestsInOrder'
    OBVIOUS
<1>0. RunTypes /\ loop \in [Loops -> LoopStates] /\ ProbeTypes /\ RequestsInOrder
    BY TypeParts DEF OrderlyLifecycle
<1>a. UNCHANGED probeVars => InFlight' = InFlight
    BY DEF probeVars, InFlight
<1>b. ASSUME InFlight' = InFlight, UNCHANGED <<main, expired, failed>> PROVE RequestsInOrder'
    BY <1>0, <1>b DEF RequestsInOrder, Closing
<1>1. CASE RunStep \/ RunFails \/ Signal \/ Expire
    <2>0. InFlight' = InFlight
        BY <1>1, <1>a, RunLeavesOthers
    <2>1. CASE StartComponent \/ StartFails
        BY <1>0, <2>0, <2>1 DEF StartComponent, StartFails, BeginClose, RequestsInOrder, Closing
    <2>2. CASE Listen \/ ListenFails \/ BeginShutdown \/ ServeFails
        BY <1>0, <2>0, <2>2
        DEF Listen, ListenFails, BeginClose, BeginShutdown, ServeFails, RequestsInOrder, Closing
    <2>3. CASE ShutdownReturns
        BY <2>0, <2>3 DEF ShutdownReturns, BeginClose, RequestsInOrder, Closing
    <2>4. CASE CloseComponent \/ CloseDone
        BY <1>0, <2>0, <2>4 DEF CloseComponent, CloseDone, RequestsInOrder, Closing
    <2>5. CASE CloseReturns
        <3>1. ~failed' => ~failed
            BY <2>5, Zenon DEF CloseReturns
        <3>2. UNCHANGED expired /\ main' = "close" /\ main = "wait"
            BY <2>5 DEF CloseReturns
        <3>3. ~expired' \/ ~failed' => InFlight = {}
            BY <1>0, <3>1, <3>2 DEF RequestsInOrder, Closing
        <3> QED
            BY <2>0, <3>2, <3>3 DEF RequestsInOrder, Closing
    <2>6. CASE Signal \/ Expire
        BY <1>0, <2>0, <2>6 DEF Signal, Expire, RequestsInOrder, Closing
    <2> QED
        BY <1>1, <2>1, <2>2, <2>3, <2>4, <2>5, <2>6 DEF RunStep, RunFails
<1>2. ASSUME NEW i \in Loops, LoopStep(i) PROVE RequestsInOrder'
    BY <1>0, <1>2, <1>a, <1>b, LoopStepEffect
<1>3. ASSUME NEW r \in Probes, Arrive(r) \/ TurnAway(r) \/ ProbeStep(r)
      PROVE  RequestsInOrder'
    BY <1>0, <1>3, ProbeStepEffect DEF RequestsInOrder, Closing
<1>4. CASE Exited \/ UNCHANGED vars
    BY <1>4, <1>a, <1>b DEF Exited, vars
<1> QED
    BY <1>1, <1>2, <1>3, <1>4 DEF Next

-----------------------------------------------------------------------------
\* The process starts in order.
LEMMA OrderlyLifecycleInit == Init => OrderlyLifecycle
<1> SUFFICES ASSUME Init PROVE OrderlyLifecycle
    OBVIOUS
<1>1. RunTypes /\ loop \in [Loops -> LoopStates] /\ ProbeTypes
    BY DEF Init, RunTypes, ProbeTypes, MainStates, LoopStates, ProbeStates
<1>2. FlagTypes
    BY Zenon DEF Init, FlagTypes
<1>3. RunProgress /\ UpIsStanding
    BY DEF Init, RunProgress, UpIsStanding, Standing, Components
<1>4. LoopsInOrder /\ RequestsInOrder
    BY DEF Init, LoopsInOrder, RequestsInOrder, Closing, InFlight
<1> QED
    BY <1>1, <1>2, <1>3, <1>4, TypeParts DEF OrderlyLifecycle

\* Every step keeps it in order.
LEMMA OrderlyLifecycleStep == OrderlyLifecycle /\ [Next]_vars => OrderlyLifecycle'
<1> SUFFICES ASSUME OrderlyLifecycle, [Next]_vars PROVE OrderlyLifecycle'
    OBVIOUS
<1>1. RunInOrder'
    BY TypeParts, RunInOrderStep DEF OrderlyLifecycle, RunInOrder
<1>2. FlagTypes'
    BY TypeParts, FlagTypesStep DEF OrderlyLifecycle
<1>3. loop' \in [Loops -> LoopStates] /\ ProbeTypes'
    BY TypeParts, UserTypesStep DEF OrderlyLifecycle
<1>4. TypeOK'
    BY <1>1, <1>2, <1>3 DEF TypeOK, RunInOrder, RunTypes, FlagTypes, ProbeTypes
<1> QED
    BY <1>1, <1>4, LoopsInOrderStep, RequestsInOrderStep DEF OrderlyLifecycle, RunInOrder

\* Start, service and shutdown happen in order in every reachable state,
\* whatever loops, requests, signals, failures and the deadline do.
THEOREM OrderlyLifecycleInvariant == SafetySpec => []OrderlyLifecycle
BY OrderlyLifecycleInit, OrderlyLifecycleStep, PTL DEF SafetySpec

\* Every variable of the process keeps its type.
THEOREM TypeCorrect == SafetySpec => []TypeOK
<1>1. OrderlyLifecycle => TypeOK
    BY DEF OrderlyLifecycle
<1> QED
    BY <1>1, OrderlyLifecycleInvariant, PTL

\* How far the components are up is a number of components.
LEMMA StandingIsNat == OrderlyLifecycle => Standing \in 0..ComponentCount
BY DEF OrderlyLifecycle, TypeOK, RunProgress, Standing, MainStates, Components

\* The components that are up are always the first ones of the declaration
\* order: Set.Start and Set.Close never leave one without those before it.
THEOREM PrefixUpAlways == SafetySpec => []PrefixUp
<1>1. OrderlyLifecycle => PrefixUp
    <2> SUFFICES ASSUME OrderlyLifecycle, NEW i \in Components, NEW j \in Components,
                        up[j], i < j
                 PROVE  up[i]
        BY DEF PrefixUp
    <2>1. Standing \in Nat /\ j <= Standing
        BY StandingIsNat DEF OrderlyLifecycle, UpIsStanding
    <2> QED
        BY <2>1 DEF OrderlyLifecycle, UpIsStanding, Components
<1> QED
    BY <1>1, OrderlyLifecycleInvariant, PTL

\* However Run comes to return, every component is closed by then.
THEOREM CleanExitAlways == SafetySpec => []CleanExit
<1>1. OrderlyLifecycle => CleanExit
    BY DEF OrderlyLifecycle, RunProgress, UpIsStanding, Standing, CleanExit, Components
<1> QED
    BY <1>1, OrderlyLifecycleInvariant, PTL

\* Before the deadline neither a loop nor a request loses a component it may
\* still call.
THEOREM DependenciesOutliveUsersAlways == SafetySpec => []DependenciesOutliveUsers
<1>1. OrderlyLifecycle => DependenciesOutliveUsers
    <2> SUFFICES ASSUME OrderlyLifecycle, ~expired PROVE DependenciesOutliveUsers
        BY DEF DependenciesOutliveUsers
    <2>0. /\ next \in 0..ComponentCount + 1 /\ started \in 0..ComponentCount
          /\ main \in MainStates
        BY DEF OrderlyLifecycle, TypeOK
    <2>1. ASSUME NEW i \in Loops, loop[i] \in {"idle", "db", "call"}, NEW j \in 1..(i - 1)
          PROVE  up[j]
        <3>1. i \in 1..ComponentCount /\ j \in Components
            BY DEF Components
        <3>2. i <= Standing + 1
            BY <2>0, <2>1, <3>1
            DEF OrderlyLifecycle, LoopsInOrder, RunProgress, Closing, Standing, MainStates
        <3>3. Standing \in Nat
            BY StandingIsNat
        <3> QED
            BY <2>1, <3>1, <3>2, <3>3 DEF OrderlyLifecycle, UpIsStanding
    <2>2. ASSUME InFlight # {}, NEW j \in Components PROVE up[j]
        <3>1. main \in {"serve", "drain"}
            BY <2>0, <2>2 DEF OrderlyLifecycle, RequestsInOrder, Closing, MainStates
        <3> QED
            BY <3>1 DEF OrderlyLifecycle, RunProgress, UpIsStanding, Standing, Components
    <2> QED
        BY <2>1, <2>2 DEF DependenciesOutliveUsers
<1> QED
    BY <1>1, OrderlyLifecycleInvariant, PTL

\* Run returns nil only when both loops have ended and no request was cut off.
THEOREM NilMeansGracefulAlways == SafetySpec => []NilMeansGraceful
<1>1. OrderlyLifecycle => NilMeansGraceful
    <2> SUFFICES ASSUME OrderlyLifecycle, main = "exit", ~failed
                 PROVE  InFlight = {} /\ \A i \in Loops : loop[i] = "ended"
        BY DEF NilMeansGraceful
    <2> QED
        BY DEF OrderlyLifecycle, RunProgress, LoopsInOrder, RequestsInOrder, Closing
<1> QED
    BY <1>1, OrderlyLifecycleInvariant, PTL

\* No request is answered "ready" once Set.Close has begun, unless the
\* deadline passed first.
THEOREM NotReadyWhileClosingAlways == SafetySpec => NotReadyWhileClosing
<1> DEFINE A == \A r \in Probes :
                    probe[r] # "done" /\ probe'[r] = "done" /\ ready'[r] =>
                        expired \/ main \in {"serve", "drain"}
<1>1. OrderlyLifecycle /\ [Next]_vars => [A]_vars
    <2> SUFFICES ASSUME OrderlyLifecycle, [Next]_vars, NEW r \in Probes,
                        probe[r] # "done", probe'[r] = "done", ~expired
                 PROVE  main \in {"serve", "drain"}
        OBVIOUS
    <2>0. main \in MainStates /\ loop \in [Loops -> LoopStates] /\ ProbeTypes
        BY TypeParts DEF OrderlyLifecycle, RunTypes
    <2>1. \E q \in Probes : Arrive(q) \/ TurnAway(q) \/ ProbeStep(q)
        <3>1. ~(UNCHANGED probeVars)
            BY DEF probeVars
        <3>2. \A i \in Loops : LoopStep(i) => UNCHANGED probeVars
            BY <2>0, LoopStepEffect
        <3> QED
            BY <3>1, <3>2, RunLeavesOthers DEF Next, Exited, vars
    <2>2. PICK q \in Probes : Arrive(q) \/ TurnAway(q) \/ ProbeStep(q)
        BY <2>1
    <2>3. CASE Arrive(q) \/ TurnAway(q)
        BY <2>3 DEF Arrive, TurnAway
    <2>4. CASE ProbeStep(q)
        <3>1. q \in InFlight
            BY <2>4 DEF ProbeStep, Look, Ping, PingReturns, PingFails, Check, Answer, InFlight
        <3> QED
            BY <2>0, <3>1 DEF OrderlyLifecycle, RequestsInOrder, Closing, MainStates
    <2> QED
        BY <2>2, <2>3, <2>4
<1> QED
    BY <1>1, OrderlyLifecycleInvariant, PTL DEF SafetySpec, NotReadyWhileClosing
=============================================================================
