---- MODULE BrokerTaskServiceProofs ----
(***************************************************************************)
(* The broker task service, for any number of tasks, windows, instances    *)
(* and workspaces, under every kind of write failure: the routes it is     *)
(* built on stay safe; unless a write lands and throws, leases follow      *)
(* records; final statuses are true; and it implements DelegatedTask.      *)
(* The second part is about the switch of the connections in that broker:  *)
(* no tunnel is forgotten, whatever fails.                                 *)
(***************************************************************************)
EXTENDS BrokerTaskService, Connectivity, TLAPS

----------------------------------------------------------------------------
(* TaskRoutes *)

RoutesIInv == TypeOK /\ RoutesInv

\* The initial routes are well typed and trivially safe.
LEMMA InitRoutes == Init => RoutesIInv
  BY SentinelAssumption
  DEF Init, RoutesIInv, TypeOK, RoutesInv, OneLeasePerWorkspace, ClaimHolderLive,
      OneLifePerWindow, BoundInstanceFences

\* Losing instances only shrinks live, and drops exactly their claims.
LEMMA LoseKeepsRoutes ==
  ASSUME RoutesIInv, NEW S \in SUBSET Instances, Lose(S)
  PROVE  RoutesIInv'
  BY SentinelAssumption
  DEF RoutesIInv, TypeOK, RoutesInv, OneLeasePerWorkspace, ClaimHolderLive,
      OneLifePerWindow, BoundInstanceFences, Lose, ClaimsWithout

\* A new life finds no other life of its window live or bound.
LEMMA GoLiveKeepsRoutes ==
  ASSUME RoutesIInv, NEW i \in Instances, GoLive(i)
  PROVE  RoutesIInv'
<1> USE DEF RoutesIInv, TypeOK, RoutesInv, GoLive, Siblings, ClaimsWithout
<1>1. TypeOK'
  BY SentinelAssumption
<1>2. OneLeasePerWorkspace'
  BY DEF OneLeasePerWorkspace
<1>3. ClaimHolderLive'
  BY SentinelAssumption DEF ClaimHolderLive
<1>4. OneLifePerWindow'
  BY DEF OneLifePerWindow
<1>5. BoundInstanceFences'
  <2> SUFFICES ASSUME NEW t \in Tasks, binding[t] # NoRoute,
                      NEW j \in live', WindowOf[j] = WindowOf[binding[t].inst]
               PROVE  j = binding[t].inst
    BY DEF BoundInstanceFences
  <2>1. binding[t].inst \notin Siblings(i)
    BY DEF BoundTo
  <2>2. binding[t].inst \in Instances
    BY DEF Routes
  <2>3. CASE j = i
    BY <2>1, <2>2, <2>3
  <2>4. CASE j # i
    BY <2>4 DEF BoundInstanceFences
  <2> QED BY <2>3, <2>4
<1> QED BY <1>1, <1>2, <1>3, <1>4, <1>5

LEMMA ClaimKeepsRoutes ==
  ASSUME RoutesIInv, NEW i \in Instances, NEW w \in Workspaces, Claim(i, w)
  PROVE  RoutesIInv'
  BY DEF RoutesIInv, TypeOK, RoutesInv, OneLeasePerWorkspace, ClaimHolderLive,
         OneLifePerWindow, BoundInstanceFences, Claim

LEMMA UnclaimKeepsRoutes ==
  ASSUME RoutesIInv, NEW w \in Workspaces, Unclaim(w)
  PROVE  RoutesIInv'
  BY DEF RoutesIInv, TypeOK, RoutesInv, OneLeasePerWorkspace, ClaimHolderLive,
         OneLifePerWindow, BoundInstanceFences, Unclaim

\* The acquired route is that of a live instance, into a workspace no other
\* task holds.
LEMMA AcquireKeepsRoutes ==
  ASSUME RoutesIInv, NEW t \in Tasks, NEW i \in Instances, NEW w \in Workspaces,
         Acquire(t, i, w)
  PROVE  RoutesIInv'
<1> DEFINE r == [inst |-> i, ws |-> w]
<1> USE DEF RoutesIInv, TypeOK, RoutesInv, Acquire
<1>1. r \in Routes
  BY DEF Routes
<1>2. TypeOK'
  BY <1>1
<1>3. OneLeasePerWorkspace'
  BY <1>1, SentinelAssumption DEF OneLeasePerWorkspace, LeasedByOther
<1>4. ClaimHolderLive' /\ OneLifePerWindow'
  BY DEF ClaimHolderLive, OneLifePerWindow
<1>5. BoundInstanceFences'
  BY DEF BoundInstanceFences, OneLifePerWindow
<1> QED BY <1>2, <1>3, <1>4, <1>5

LEMMA ReleaseKeepsRoutes ==
  ASSUME RoutesIInv, NEW t \in Tasks, Release(t)
  PROVE  RoutesIInv'
  BY DEF RoutesIInv, TypeOK, RoutesInv, OneLeasePerWorkspace, ClaimHolderLive,
         OneLifePerWindow, BoundInstanceFences, Release

LEMMA ForgetKeepsRoutes ==
  ASSUME RoutesIInv, Forget
  PROVE  RoutesIInv'
  BY SentinelAssumption
  DEF RoutesIInv, TypeOK, RoutesInv, OneLeasePerWorkspace, ClaimHolderLive,
      OneLifePerWindow, BoundInstanceFences, Forget

\* Every step of the routes keeps the invariant.
LEMMA NextRoutes ==
  ASSUME RoutesIInv, [Next]_routeVars
  PROVE  RoutesIInv'
<1>1. CASE Next
  BY <1>1, LoseKeepsRoutes, GoLiveKeepsRoutes, ClaimKeepsRoutes, UnclaimKeepsRoutes,
     AcquireKeepsRoutes, ReleaseKeepsRoutes, ForgetKeepsRoutes DEF Next
<1>2. CASE UNCHANGED routeVars
  BY <1>2 DEF routeVars, RoutesIInv, TypeOK, RoutesInv, OneLeasePerWorkspace,
              ClaimHolderLive, OneLifePerWindow, BoundInstanceFences
<1> QED BY <1>1, <1>2

\* The routes the registry hands out are exclusive per workspace, held by live
\* claimants, and fence the window they lead to.
THEOREM RoutesSafe == Spec => [](TypeOK /\ RoutesInv)
<1>1. Init => RoutesIInv
  BY InitRoutes
<1>2. RoutesIInv /\ [Next]_routeVars => RoutesIInv'
  BY NextRoutes
<1>3. RoutesIInv => TypeOK /\ RoutesInv
  BY DEF RoutesIInv
<1> QED BY <1>1, <1>2, <1>3, PTL DEF Spec

----------------------------------------------------------------------------
(* The routes of the broker *)

\* A step of the broker takes at most one step of the routes.
LEMMA BrokerStepsRoutes == [BrokerNext]_vars => [Next]_routeVars
<1> USE DEF Next, routeVars
<1>1. ASSUME NEW t \in Tasks PROVE StartStep(t) => [Next]_routeVars
  BY DEF StartStep, BeginStart, AcceptStart, FailStart, DenyStart, DispatchStart,
         StartFailed, StartReplied, FailIfActive, KeepTask, WriteTerminal, CloseTask
<1>2. ASSUME NEW t \in Tasks PROVE ControlStep(t) => [Next]_routeVars
  <2> USE DEF Record, KeepTask, WriteTerminal, CloseTask, WriteTerminalAndStop, FailIfActive
  <2>1. GetTask(t) \/ DeadlinePasses(t) \/ EnforceDeadline(t) => [Next]_routeVars
    BY DEF GetTask, DeadlinePasses, EnforceDeadline
  <2>2. WorkerTimeout(t) \/ CancellationTimeout(t) \/ FailLostBinding(t) => [Next]_routeVars
    BY DEF WorkerTimeout, CancellationTimeout, FailLostBinding
  <2>3. CancelAgain(t) \/ CancelBeforeDispatch(t) \/ CancelAfterDispatch(t)
          \/ CancelFailed(t) => [Next]_routeVars
    BY DEF CancelAgain, CancelBeforeDispatch, CancelAfterDispatch, CancelFailed
  <2>4. ReceiveEvent(t) \/ ApplyEvent(t) \/ AnswerAccepted(t) => [Next]_routeVars
    BY DEF ReceiveEvent, ApplyEvent, AnswerAccepted, TakeEvent
  <2> QED BY <2>1, <2>2, <2>3, <2>4 DEF ControlStep
<1>3. ASSUME NEW t \in Tasks PROVE NodeStep(t) => UNCHANGED routeVars
  BY DEF NodeStep, NodeStart, Launch, NodeStartReply, LaunchFails, NodeCancel,
         AbortConfirmed, NodeDispose, NodeDeadline, AgentStops, AgentAsks, AgentEnds
<1>4. SessionStep => [Next]_routeVars
  BY DEF SessionStep, Connect, LoseSession, LoseLink, ClaimWorkspace, ReleaseWorkspace
<1>5. RestartStep => [Next]_routeVars
  BY DEF RestartStep, Crash, Restart, Serve, RecoverFails, Recover
<1>6. UNCHANGED vars => UNCHANGED routeVars
  BY DEF vars
<1> QED BY <1>1, <1>2, <1>3, <1>4, <1>5, <1>6 DEF BrokerNext

----------------------------------------------------------------------------

\* What routes and types amount to together.
TInv == BrokerTypeOK /\ RoutesInv

LEMMA InitTyped == BrokerInit => TInv
<1> SUFFICES ASSUME BrokerInit PROVE TInv
  OBVIOUS
<1> USE DEF BrokerInit
<1>1. TypeOK /\ RoutesInv
  BY InitRoutes DEF RoutesIInv
<1>2. dispatch \in [Tasks -> Dispatches] /\ exec \in [Tasks -> Executions]
  BY DEF Dispatches, Executions
<1>3. launches \in [Tasks -> Nat]
  OBVIOUS
<1> QED BY <1>1, <1>2, <1>3 DEF TInv, BrokerTypeOK

\* A record takes an event to a state of the task life cycle.
LEMMA FinalTyped ==
  ASSUME BrokerTypeOK, NEW t \in Tasks, Active(t)
  PROVE  StateFor(t) \in ActiveStates /\ Final(t) \in TaskStates
  BY DEF BrokerTypeOK, Active, StateFor, Final, After, EventType, TaskStates,
         ActiveStates, TerminalStates, Events

\* Every step keeps the type of every variable.
LEMMA StepTyped ==
  ASSUME BrokerTypeOK, RoutesInv, [BrokerNext]_vars
  PROVE  BrokerTypeOK'
<1>1. TypeOK'
  BY BrokerStepsRoutes, NextRoutes DEF BrokerTypeOK, RoutesIInv
<1> USE <1>1 DEF BrokerTypeOK, recordVars, brokerVars, eventVars, nodeVars
<1>2. ASSUME NEW t \in Tasks, StartStep(t) PROVE BrokerTypeOK'
  <2> USE <1>2 DEF Record, KeepTask, WriteTerminal, CloseTask, FailIfActive, TaskStates,
                   ActiveStates, TerminalStates, Dispatches
  <2>1. CASE \E i \in Instances, w \in Workspaces : BeginStart(t, i, w)
    BY <2>1 DEF BeginStart
  <2>2. CASE AcceptStart(t) \/ FailStart(t) \/ DenyStart(t)
    BY <2>2 DEF AcceptStart, FailStart, DenyStart, TypeOK
  <2>3. CASE DispatchStart(t)
    BY <2>3 DEF DispatchStart
  <2>4. CASE StartFailed(t)
    BY <2>4 DEF StartFailed, AfterDispatch
  <2>5. CASE StartReplied(t)
    BY <2>5 DEF StartReplied, AfterDispatch
  <2> QED BY <2>1, <2>2, <2>3, <2>4, <2>5 DEF StartStep
<1>3. ASSUME NEW t \in Tasks, ControlStep(t) PROVE BrokerTypeOK'
  <2> USE <1>3 DEF Record, KeepTask, WriteTerminal, CloseTask, WriteTerminalAndStop, FailIfActive,
                   TaskStates, ActiveStates, TerminalStates
  <2>1. CASE GetTask(t)
    BY <2>1 DEF GetTask
  <2>2. CASE DeadlinePasses(t)
    BY <2>2 DEF DeadlinePasses
  <2>3. CASE EnforceDeadline(t)
    BY <2>3 DEF EnforceDeadline
  <2>4. CASE WorkerTimeout(t)
    BY <2>4 DEF WorkerTimeout
  <2>5. CASE CancellationTimeout(t)
    BY <2>5 DEF CancellationTimeout
  <2>6. CASE FailLostBinding(t)
    BY <2>6 DEF FailLostBinding
  <2>7. CASE CancelAgain(t)
    BY <2>7 DEF CancelAgain
  <2>8. CASE CancelBeforeDispatch(t)
    BY <2>8 DEF CancelBeforeDispatch
  <2>9. CASE CancelAfterDispatch(t)
    BY <2>9 DEF CancelAfterDispatch
  <2>10. CASE CancelFailed(t)
    BY <2>10 DEF CancelFailed
  <2>11. CASE ReceiveEvent(t)
    BY <2>11 DEF ReceiveEvent, Acknowledge, Executions, Events
  <2>12. CASE ApplyEvent(t)
    <3> USE <2>12 DEF ApplyEvent, Acknowledge, Executions
    <3>1. CASE Overdue(t) /\ WriteTerminalAndStop(t, "timedOut", "none")
                 /\ Acknowledge(t, state'[t] = "timedOut" /\ binding'[t] = NoRoute)
      BY <3>1
    <3>2. CASE Applicable(t) /\ TakeEvent(t) /\ UNCHANGED stopCall
      <4> USE <3>2 DEF TakeEvent
      <4>1. StateFor(t) \in TaskStates /\ Final(t) \in TaskStates
        BY FinalTyped DEF Applicable
      <4>2. state' \in [Tasks -> TaskStates \cup {"absent"}]
        BY <4>1
      <4>3. /\ event' \in [Tasks -> Events \cup {"none"}]
            /\ queued' \subseteq Tasks
            /\ exec' \in [Tasks -> Executions]
        OBVIOUS
      <4>4. /\ admission' \in [Tasks -> {"none", "open", "cancelled", "dispatched"}]
            /\ wdTimer' \subseteq Tasks /\ cTimer' \subseteq Tasks
        OBVIOUS
      <4> QED BY <4>2, <4>3, <4>4
    <3>3. CASE Acknowledge(t, FALSE)
                 /\ UNCHANGED <<state, admission, wdTimer, cTimer, routeVars, stopCall>>
      BY <3>3
    <3> QED BY <3>1, <3>2, <3>3
  <2>13. CASE AnswerAccepted(t)
    BY <2>13 DEF AnswerAccepted
  <2> QED BY <2>1, <2>2, <2>3, <2>4, <2>5, <2>6, <2>7, <2>8, <2>9, <2>10, <2>11,
             <2>12, <2>13 DEF ControlStep
<1>4. ASSUME NEW t \in Tasks, NodeStep(t) PROVE BrokerTypeOK'
  <2> USE <1>4 DEF Executions, Events, Dispatches
  <2>1. CASE NodeStart(t) \/ Launch(t) \/ LaunchFails(t)
    BY <2>1 DEF NodeStart, Launch, LaunchFails
  <2>2. CASE NodeStartReply(t)
    BY <2>2 DEF NodeStartReply
  <2>3. CASE NodeCancel(t) \/ AbortConfirmed(t)
    BY <2>3 DEF NodeCancel, AbortConfirmed
  <2>4. CASE NodeDispose(t) \/ NodeDeadline(t) \/ AgentStops(t) \/ AgentAsks(t)
    BY <2>4 DEF NodeDispose, NodeDeadline, AgentStops, AgentAsks
  <2>5. CASE \E kind \in Events \ {"inputRequired"} : AgentEnds(t, kind)
    BY <2>5 DEF AgentEnds
  <2> QED BY <2>1, <2>2, <2>3, <2>4, <2>5 DEF NodeStep
<1>5. CASE SessionStep
  <2> USE <1>5 DEF SessionStep
  <2>1. ASSUME NEW i \in Instances, Connect(i) PROVE BrokerTypeOK'
    BY <2>1 DEF Connect
  <2>2. ASSUME NEW i \in Instances, LoseSession(i) PROVE BrokerTypeOK'
    BY <2>2 DEF LoseSession, BoundTo, Dispatches
  <2>3. ASSUME NEW i \in Instances, LoseLink(i) PROVE BrokerTypeOK'
    BY <2>3 DEF LoseLink, Executions
  <2>4. ASSUME NEW w \in Workspaces, (\E i \in Instances : ClaimWorkspace(i, w)) \/ ReleaseWorkspace(w)
        PROVE BrokerTypeOK'
    BY <2>4 DEF ClaimWorkspace, ReleaseWorkspace
  <2> QED BY <2>1, <2>2, <2>3, <2>4
<1>6. CASE RestartStep
  BY <1>6 DEF RestartStep, Crash, Restart, Serve, RecoverFails, Recover, TaskStates,
             TerminalStates, Dispatches
<1>7. CASE UNCHANGED vars
  BY <1>7 DEF vars
<1> QED BY <1>2, <1>3, <1>4, <1>5, <1>6, <1>7 DEF BrokerNext

\* The routes stay safe under the broker, and every variable keeps its type:
\* whatever the nodes, the store and the users do.
THEOREM BrokerRoutesSafe == BrokerSpec => [](BrokerTypeOK /\ RoutesInv)
<1>1. BrokerInit => TInv
  BY InitTyped
<1>2. TInv /\ [BrokerNext]_vars => TInv'
  BY StepTyped, BrokerStepsRoutes, NextRoutes DEF TInv, RoutesIInv, BrokerTypeOK
<1>3. TInv => BrokerTypeOK /\ RoutesInv
  BY DEF TInv
<1> QED BY <1>1, <1>2, <1>3, PTL DEF BrokerSpec

----------------------------------------------------------------------------
(* The lease follows the record, unless a write lands and throws *)

LeaseInv ==
  /\ phase = "up" =>
       \A t \in Tasks :
         /\ Active(t) => binding[t] = target[t] /\ binding[t] # NoRoute
         /\ binding[t] # NoRoute => Active(t) \/ preparing = t
  /\ phase # "up" => preparing = NoTask /\ \A t \in Tasks : binding[t] = NoRoute
  /\ \A t \in Tasks : preparing = t => state[t] = "absent" /\ binding[t] # NoRoute
  /\ OneActiveTaskPerWorkspace

\* What an operation of t in its queue does to record and route together.
Ends(t) == Active(t) /\ (\E s \in TerminalStates : Record(t, s)) /\ Release(t)
Frees(t) == ~Active(t) /\ UNCHANGED state /\ Release(t)
Stays(t) == /\ UNCHANGED state \/ (Active(t) /\ \E s \in ActiveStates : Record(t, s))
            /\ UNCHANGED binding

Settles(t) == /\ phase = "up" /\ preparing # t
              /\ Ends(t) \/ Frees(t) \/ Stays(t)
              /\ UNCHANGED <<target, phase, preparing>>

LEMMA SettlesKeepsLease ==
  ASSUME BrokerTypeOK, LeaseInv, NEW t \in Tasks, Settles(t)
  PROVE  LeaseInv'
<1> USE DEF Settles, LeaseInv, OneActiveTaskPerWorkspace, Active, BrokerTypeOK, TypeOK
<1>1. CASE Ends(t)
  BY <1>1 DEF Ends, Record, Release, ActiveStates, TerminalStates
<1>2. CASE Frees(t)
  BY <1>2 DEF Frees, Release
<1>3. CASE Stays(t)
  BY <1>3 DEF Stays, Record, ActiveStates
<1> QED BY <1>1, <1>2, <1>3

\* Every operation of a task's queue settles the task.
LEMMA OperationsSettle ==
  ASSUME BrokerTypeOK, "landed" \notin Faults, NEW t \in Tasks,
         \/ StartFailed(t) \/ StartReplied(t) \/ GetTask(t) \/ EnforceDeadline(t)
         \/ WorkerTimeout(t) \/ CancellationTimeout(t) \/ FailLostBinding(t)
         \/ CancelAgain(t) \/ CancelBeforeDispatch(t) \/ CancelAfterDispatch(t)
         \/ CancelFailed(t) \/ ApplyEvent(t) \/ AnswerAccepted(t)
  PROVE  Settles(t)
<1> USE DEF Settles, Ends, Frees, Stays, Free, KeepTask, CloseTask, WriteTerminal,
            WriteTerminalAndStop, FailIfActive, Overdue, routeVars, recordVars
<1>0. {"failed", "timedOut", "cancelled"} \subseteq TerminalStates
      /\ {"running", "cancelling"} \subseteq ActiveStates
  BY DEF TerminalStates, ActiveStates
<1>1. CASE StartFailed(t) \/ CancelFailed(t)
  BY <1>0, <1>1 DEF StartFailed, CancelFailed
<1>2. CASE StartReplied(t)
  <2>1. UNCHANGED <<target, phase, preparing, binding>> /\ phase = "up" /\ preparing # t
    BY <1>2 DEF StartReplied
  <2>2. UNCHANGED state \/ state' = [state EXCEPT ![t] = IF @ = "startingAgent" THEN "running" ELSE @]
    BY <1>2 DEF StartReplied
  <2>3. CASE state[t] = "startingAgent"
    BY <1>0, <2>1, <2>2, <2>3 DEF Record, Active, ActiveStates
  <2>4. CASE state[t] # "startingAgent"
    <3>1. UNCHANGED state
      BY <2>2, <2>4 DEF BrokerTypeOK
    <3> QED BY <2>1, <3>1
  <2> QED BY <2>3, <2>4
<1>3. CASE GetTask(t) \/ EnforceDeadline(t) \/ WorkerTimeout(t)
  BY <1>0, <1>3 DEF GetTask, EnforceDeadline, WorkerTimeout
<1>4. CASE CancellationTimeout(t)
  BY <1>0, <1>4 DEF CancellationTimeout, Active
<1>5. CASE FailLostBinding(t)
  BY <1>0, <1>5 DEF FailLostBinding
<1>6. CASE CancelAgain(t)
  BY <1>6 DEF CancelAgain
<1>9. CASE CancelBeforeDispatch(t)
  BY <1>0, <1>9 DEF CancelBeforeDispatch, Cancellable
<1>10. CASE CancelAfterDispatch(t)
  BY <1>0, <1>10 DEF CancelAfterDispatch, Cancellable
<1>7. CASE AnswerAccepted(t)
  BY <1>0, <1>7 DEF AnswerAccepted, Active, ActiveStates, brokerVars
<1>8. CASE ApplyEvent(t)
  <2>1. UNCHANGED <<target, phase, preparing>> /\ phase = "up" /\ preparing # t
    BY <1>8 DEF ApplyEvent
  <2>2. CASE Overdue(t) /\ WriteTerminalAndStop(t, "timedOut", "none")
    BY <1>0, <2>1, <2>2
  <2>3. CASE Applicable(t) /\ TakeEvent(t)
    <3>1. Active(t) /\ StateFor(t) \in ActiveStates /\ Final(t) \in TaskStates
      BY <2>3, FinalTyped DEF Applicable
    <3> QED BY <2>1, <2>3, <3>1 DEF TakeEvent, TaskStates
  <2>4. CASE UNCHANGED <<state, routeVars>>
    BY <2>1, <2>4
  <2> QED BY <1>8, <2>2, <2>3, <2>4 DEF ApplyEvent
<1> QED BY <1>1, <1>2, <1>3, <1>4, <1>5, <1>6, <1>7, <1>8, <1>9, <1>10

leaseVars == <<state, target, phase, preparing, binding>>

\* The steps that are not about the record leave it and the route alone.
LEMMA OthersKeepLease ==
  ASSUME NEW t \in Tasks,
         \/ DenyStart(t) \/ DispatchStart(t) \/ DeadlinePasses(t) \/ ReceiveEvent(t)
         \/ NodeStep(t) \/ SessionStep \/ UNCHANGED vars
  PROVE  UNCHANGED leaseVars
<1> USE DEF leaseVars, routeVars, recordVars, brokerVars
<1>1. CASE DenyStart(t) \/ DispatchStart(t) \/ DeadlinePasses(t) \/ ReceiveEvent(t)
  BY <1>1 DEF DenyStart, DispatchStart, DeadlinePasses, ReceiveEvent
<1>2. CASE NodeStep(t)
  BY <1>2 DEF NodeStep, NodeStart, Launch, NodeStartReply, LaunchFails, NodeCancel,
              AbortConfirmed, NodeDispose, NodeDeadline, AgentStops, AgentAsks, AgentEnds
<1>3. CASE SessionStep
  BY <1>3 DEF SessionStep, Connect, LoseSession, LoseLink, ClaimWorkspace,
              ReleaseWorkspace, GoLive, Lose, Claim, Unclaim
<1>4. CASE UNCHANGED vars
  BY <1>4 DEF vars
<1> QED BY <1>1, <1>2, <1>3, <1>4

LEMMA LeaseStep ==
  ASSUME BrokerTypeOK, RoutesInv, LeaseInv, "landed" \notin Faults, [BrokerNext]_vars
  PROVE  LeaseInv'
<1>1. ASSUME UNCHANGED leaseVars PROVE LeaseInv'
  BY <1>1 DEF leaseVars, LeaseInv, OneActiveTaskPerWorkspace, Active
<1>2. ASSUME NEW t \in Tasks, StartStep(t) PROVE LeaseInv'
  <2>1. ASSUME NEW i \in Instances, NEW w \in Workspaces, BeginStart(t, i, w)
        PROVE LeaseInv'
    <3>1. /\ phase = "up" /\ phase' = "up" /\ preparing = NoTask /\ preparing' = t
          /\ state[t] = "absent" /\ UNCHANGED <<state, target>>
          /\ binding' = [binding EXCEPT ![t] = [inst |-> i, ws |-> w]]
      BY <2>1 DEF BeginStart, Acquire, recordVars
    <3>2. [inst |-> i, ws |-> w] # NoRoute
      BY SentinelAssumption DEF Routes
    <3>3. /\ binding'[t] # NoRoute
          /\ \A u \in Tasks : u # t => binding'[u] = binding[u]
      BY <3>1, <3>2 DEF BrokerTypeOK, TypeOK
    <3>4. state[t] \notin ActiveStates /\ OneActiveTaskPerWorkspace'
      BY <3>1 DEF LeaseInv, OneActiveTaskPerWorkspace, Active, ActiveStates
    <3>5. \A u \in Tasks : Active(u)' => binding'[u] = target'[u] /\ binding'[u] # NoRoute
      BY <3>1, <3>3, <3>4 DEF LeaseInv, Active
    <3>6. \A u \in Tasks : binding'[u] # NoRoute => Active(u)' \/ u = t
      BY <3>1, <3>3, NoTaskAssumption DEF LeaseInv, Active
    <3> QED BY <3>1, <3>3, <3>4, <3>5, <3>6 DEF LeaseInv
  <2>2. CASE AcceptStart(t)
    <3>1. /\ phase = "up" /\ phase' = "up" /\ preparing = t /\ preparing' = NoTask
          /\ state' = [state EXCEPT ![t] = "startingAgent"]
          /\ target' = [target EXCEPT ![t] = binding[t]]
          /\ UNCHANGED binding
      BY <2>2 DEF AcceptStart, Record, routeVars
    <3>2. binding[t] # NoRoute
      BY <3>1 DEF LeaseInv
    <3>3. \A u \in Tasks : u # t => state'[u] = state[u] /\ target'[u] = target[u]
      BY <3>1 DEF BrokerTypeOK
    <3>4. state'[t] = "startingAgent" /\ target'[t] = binding[t]
      BY <3>1 DEF BrokerTypeOK
    <3>5. ASSUME NEW u \in Tasks, u # t, state[u] \in ActiveStates
          PROVE target[u].ws # binding[t].ws
      BY <3>1, <3>2, <3>5 DEF LeaseInv, Active, RoutesInv, OneLeasePerWorkspace
    <3>6. OneActiveTaskPerWorkspace'
      BY <3>3, <3>4, <3>5 DEF OneActiveTaskPerWorkspace, Active, LeaseInv
    <3>7. \A u \in Tasks : /\ Active(u)' => binding'[u] = target'[u] /\ binding'[u] # NoRoute
                           /\ binding'[u] # NoRoute => Active(u)'
      BY <3>1, <3>2, <3>3, <3>4 DEF LeaseInv, Active, ActiveStates
    <3> QED BY <3>1, <3>6, <3>7, NoTaskAssumption DEF LeaseInv
  <2>3. CASE FailStart(t)
    <3>1. /\ phase = "up" /\ phase' = "up" /\ preparing = t /\ preparing' = NoTask
          /\ UNCHANGED <<state, target>>
          /\ binding' = [binding EXCEPT ![t] = NoRoute]
      BY <2>3 DEF FailStart, Release, recordVars
    <3> QED BY <3>1, NoTaskAssumption DEF LeaseInv, OneActiveTaskPerWorkspace, Active,
               ActiveStates, BrokerTypeOK, TypeOK
  <2> QED BY <1>1, <1>2, <2>1, <2>2, <2>3, OthersKeepLease, OperationsSettle,
             SettlesKeepsLease DEF StartStep
<1>3. ASSUME NEW t \in Tasks, ControlStep(t) PROVE LeaseInv'
  BY <1>1, <1>3, OthersKeepLease, OperationsSettle, SettlesKeepsLease DEF ControlStep
<1>4. ASSUME NEW t \in Tasks, NodeStep(t) PROVE LeaseInv'
  BY <1>1, <1>4, OthersKeepLease
<1>5. CASE SessionStep
  <2>1. UNCHANGED leaseVars
    BY <1>5 DEF SessionStep, Connect, LoseSession, LoseLink, ClaimWorkspace, ReleaseWorkspace,
       GoLive, Lose, Claim, Unclaim, leaseVars, recordVars, brokerVars, routeVars
  <2> QED BY <1>1, <2>1
<1>6. CASE RestartStep
  <2> USE DEF LeaseInv, OneActiveTaskPerWorkspace, Active, BrokerTypeOK, TypeOK
  <2>1. CASE Crash
    <3>1. /\ UNCHANGED <<state, target>>
          /\ phase' = "down" /\ preparing' = NoTask
          /\ binding' = [t \in Tasks |-> NoRoute]
      BY <2>1 DEF Crash, Forget, recordVars
    <3> QED BY <3>1, NoTaskAssumption
  <2>2. CASE Restart \/ RecoverFails
    BY <2>2 DEF Restart, RecoverFails, routeVars, recordVars
  <2>3. CASE Serve
    BY <2>3, NoTaskAssumption DEF Serve, routeVars, recordVars
  <2>4. ASSUME NEW t \in Tasks, Recover(t) PROVE LeaseInv'
    <3>1. /\ phase = "recovering" /\ UNCHANGED <<phase, preparing, target, binding>>
          /\ state' = [state EXCEPT ![t] = IF t \in due THEN "timedOut" ELSE "failed"]
      BY <2>4 DEF Recover, routeVars, brokerVars
    <3>2. state'[t] \notin ActiveStates
      BY <3>1 DEF ActiveStates
    <3>3. \A u \in Tasks : u # t => state'[u] = state[u]
      BY <3>1
    <3> QED BY <3>1, <3>2, <3>3, NoTaskAssumption
  <2> QED BY <1>6, <2>1, <2>2, <2>3, <2>4 DEF RestartStep
<1>7. CASE UNCHANGED vars
  BY <1>1, <1>7 DEF vars, leaseVars, routeVars, recordVars, brokerVars
<1> QED BY <1>2, <1>3, <1>4, <1>5, <1>6, <1>7 DEF BrokerNext

LEMMA LeaseInit == BrokerInit => LeaseInv
BY NoTaskAssumption DEF BrokerInit, Init, LeaseInv, OneActiveTaskPerWorkspace, Active, ActiveStates

\* Unless a write of the store lands and throws, an active task holds the
\* route and the lease it was accepted for, a terminal task holds none, and
\* a workspace has at most one active task: over every start, cancellation,
\* event, loss and restart, for any number of tasks, windows and workspaces.
THEOREM LeaseSafe ==
  ASSUME "landed" \notin Faults
  PROVE  BrokerSpec => [](OneActiveTaskPerWorkspace /\ LeaseFollowsRecord)
<1>1. TInv /\ LeaseInv /\ [BrokerNext]_vars => TInv' /\ LeaseInv'
  BY StepTyped, BrokerStepsRoutes, NextRoutes, LeaseStep DEF TInv, RoutesIInv, BrokerTypeOK
<1>2. LeaseInv => OneActiveTaskPerWorkspace /\ LeaseFollowsRecord
  BY DEF LeaseInv, LeaseFollowsRecord
<1> QED BY <1>1, <1>2, InitTyped, LeaseInit, PTL DEF BrokerSpec

\* A workspace has at most one active task: the two would hold its one lease.
COROLLARY OneActiveTask ==
  ASSUME "landed" \notin Faults
  PROVE  BrokerSpec => []OneActiveTaskPerWorkspace
BY LeaseSafe, PTL

----------------------------------------------------------------------------
(* The record never pretends, however the store fails *)

Ended == {"completed", "failed", "cancelled"}

\* A task nobody accepted has no part of a start.
AbsentIdle(t) == state[t] = "absent" =>
  dispatch[t] = "none" /\ admission[t] = "none" /\ exec[t] = "none" /\ launches[t] = 0

\* While the admission is open, or was cancelled, the node knows nothing.
Unsent(t) == admission[t] \in {"open", "cancelled"} =>
  dispatch[t] \notin {"sent", "replied"} /\ exec[t] = "none" /\ launches[t] = 0

\* The final event is the agent's own word, and its last.
EventTrue(t) == event[t] \in Ended =>
  exec[t] \in {"finished", "gone"} /\ outcome[t] = event[t]

\* A cancelled task has no agent, and no start that could still bring one.
CancelledTrue(t) == state[t] = "cancelled" =>
  /\ exec[t] \in {"none", "finished", "gone"}
  /\ exec[t] = "none" => dispatch[t] # "sent"
  /\ admission[t] # "open"

CompletedTrue(t) == state[t] = "completed" =>
  exec[t] \in {"finished", "gone"} /\ outcome[t] = "completed"

\* The executor leaves "starting" once, and for good.
LaunchCounted(t) ==
  /\ launches[t] \in {0, 1}
  /\ exec[t] \in {"none", "starting", "aborting"} => launches[t] = 0
  /\ exec[t] \in {"running", "cancelling"} => launches[t] = 1

\* What the agent reported is reported at its end.
OutcomeLast(t) == outcome[t] # "none" => exec[t] \in {"finished", "gone"}

TruthOf(t) == /\ AbsentIdle(t) /\ Unsent(t) /\ EventTrue(t)
              /\ CancelledTrue(t) /\ CompletedTrue(t) /\ LaunchCounted(t) /\ OutcomeLast(t)

TruthInv == \A t \in Tasks : TruthOf(t) /\ (preparing = t => state[t] = "absent")

LEMMA StartStepTrue ==
  ASSUME BrokerTypeOK, TruthInv, NEW t \in Tasks, StartStep(t)
  PROVE  TruthInv'
<1> USE DEF TruthInv, TruthOf, AbsentIdle, Unsent, EventTrue, CancelledTrue, CompletedTrue,
            LaunchCounted, OutcomeLast, BrokerTypeOK, recordVars, eventVars, nodeVars
<1>1. CASE \E i \in Instances, w \in Workspaces : BeginStart(t, i, w)
  BY <1>1, NoTaskAssumption DEF BeginStart
<1>2. CASE AcceptStart(t)
  BY <1>2, NoTaskAssumption DEF AcceptStart, Record
<1>3. CASE FailStart(t)
  BY <1>3, NoTaskAssumption DEF FailStart, Record
<1>4. CASE DenyStart(t)
  BY <1>4 DEF DenyStart
<1>5. CASE DispatchStart(t)
  BY <1>5 DEF DispatchStart
<1>6. CASE StartFailed(t)
  BY <1>6 DEF StartFailed, FailIfActive, WriteTerminal, KeepTask, CloseTask, AfterDispatch, Record,
     Active, ActiveStates, Free
<1>7. CASE StartReplied(t)
  BY <1>7 DEF StartReplied, KeepTask, AfterDispatch, Free
<1> QED BY <1>1, <1>2, <1>3, <1>4, <1>5, <1>6, <1>7 DEF StartStep

LEMMA ControlStepTrue ==
  ASSUME BrokerTypeOK, TruthInv, NEW t \in Tasks, ControlStep(t)
  PROVE  TruthInv'
<1> USE DEF TruthInv, TruthOf, AbsentIdle, Unsent, EventTrue, CancelledTrue, CompletedTrue,
            LaunchCounted, OutcomeLast, BrokerTypeOK, recordVars, eventVars, nodeVars, brokerVars,
            FailIfActive, WriteTerminalAndStop, WriteTerminal, KeepTask, CloseTask, Record,
            Active, ActiveStates, Free
<1>1. CASE GetTask(t)
  BY <1>1 DEF GetTask
<1>2. CASE DeadlinePasses(t)
  BY <1>2 DEF DeadlinePasses
<1>3. CASE EnforceDeadline(t)
  BY <1>3 DEF EnforceDeadline, Overdue
<1>4. CASE WorkerTimeout(t)
  BY <1>4 DEF WorkerTimeout, Overdue
<1>5. CASE CancellationTimeout(t)
  BY <1>5 DEF CancellationTimeout
<1>6. CASE FailLostBinding(t)
  BY <1>6 DEF FailLostBinding
<1>7. CASE CancelAgain(t)
  BY <1>7 DEF CancelAgain
<1>8. CASE CancelBeforeDispatch(t)
  BY <1>8 DEF CancelBeforeDispatch, Cancellable
<1>9. CASE CancelAfterDispatch(t)
  BY <1>9 DEF CancelAfterDispatch, Cancellable
<1>10. CASE CancelFailed(t)
  BY <1>10 DEF CancelFailed
<1>11. CASE ReceiveEvent(t)
  BY <1>11 DEF ReceiveEvent, Acknowledge, Ended
<1>12. CASE ApplyEvent(t)
  <2> USE DEF ApplyEvent, Acknowledge, Ended
  <2>1. CASE Overdue(t) /\ WriteTerminalAndStop(t, "timedOut", "none")
               /\ Acknowledge(t, state'[t] = "timedOut" /\ binding'[t] = NoRoute)
    BY <1>12, <2>1 DEF Overdue
  <2>2. CASE Applicable(t) /\ TakeEvent(t)
    <3>1. /\ state[t] \in ActiveStates /\ StateFor(t) \in ActiveStates
          /\ Final(t) # "absent"
          /\ Final(t) = "cancelled" => event[t] = "cancelled"
          /\ Final(t) = "completed" => event[t] = "completed"
      BY <2>2 DEF Applicable, StateFor, Final, After, EventType, TerminalStates, Events
    <3>2. /\ state' \in {state, [state EXCEPT ![t] = StateFor(t)], [state EXCEPT ![t] = Final(t)]}
          /\ admission' \in {admission, [admission EXCEPT ![t] = "none"]}
          /\ event' = [event EXCEPT ![t] = "none"]
      BY <2>2 DEF TakeEvent
    <3>3. exec' = exec \/ (exec[t] \in {"running", "cancelling"}
                             /\ exec' = [exec EXCEPT ![t] = "stopping"])
      BY <2>2 DEF TakeEvent
    <3>4. UNCHANGED <<dispatch, launches, outcome, preparing>> /\ preparing # t
      BY <1>12
    <3>5. ASSUME NEW u \in Tasks, u # t
          PROVE UNCHANGED <<state[u], admission[u], event[u], exec[u]>>
      BY <3>2, <3>3, <3>5
    <3>6. TruthOf(t)'
      BY <3>1, <3>2, <3>3, <3>4
    <3> QED BY <3>4, <3>5, <3>6
  <2>3. CASE Acknowledge(t, FALSE) /\ UNCHANGED <<state, admission>>
    BY <1>12, <2>3
  <2> QED BY <1>12, <2>1, <2>2, <2>3
<1>13. CASE AnswerAccepted(t)
  BY <1>13 DEF AnswerAccepted
<1> QED BY <1>1, <1>2, <1>3, <1>4, <1>5, <1>6, <1>7, <1>8, <1>9, <1>10, <1>11,
           <1>12, <1>13 DEF ControlStep

LEMMA NodeStepTrue ==
  ASSUME BrokerTypeOK, TruthInv, NEW t \in Tasks, NodeStep(t)
  PROVE  TruthInv'
<1> USE DEF TruthInv, TruthOf, AbsentIdle, Unsent, EventTrue, CancelledTrue, CompletedTrue,
            LaunchCounted, OutcomeLast, BrokerTypeOK, recordVars, eventVars, nodeVars, brokerVars, Ended
<1>1. CASE NodeStart(t)
  BY <1>1 DEF NodeStart
<1>2. CASE Launch(t)
  BY <1>2 DEF Launch
<1>3. CASE NodeStartReply(t)
  BY <1>3 DEF NodeStartReply
<1>4. CASE LaunchFails(t)
  BY <1>4 DEF LaunchFails
<1>5. CASE NodeCancel(t)
  BY <1>5 DEF NodeCancel
<1>6. CASE AbortConfirmed(t)
  BY <1>6 DEF AbortConfirmed
<1>7. CASE NodeDispose(t)
  BY <1>7 DEF NodeDispose
<1>8. CASE NodeDeadline(t) \/ AgentStops(t)
  BY <1>8 DEF NodeDeadline, AgentStops
<1>9. CASE AgentAsks(t)
  BY <1>9 DEF AgentAsks
<1>10. ASSUME NEW kind \in Events \ {"inputRequired"}, AgentEnds(t, kind) PROVE TruthInv'
  BY <1>10 DEF AgentEnds, Events
<1> QED BY <1>1, <1>2, <1>3, <1>4, <1>5, <1>6, <1>7, <1>8, <1>9, <1>10 DEF NodeStep

LEMMA SharedStepTrue ==
  ASSUME BrokerTypeOK, TruthInv, SessionStep \/ RestartStep \/ UNCHANGED vars
  PROVE  TruthInv'
<1> USE DEF TruthInv, TruthOf, AbsentIdle, Unsent, EventTrue, CancelledTrue, CompletedTrue,
            LaunchCounted, OutcomeLast, BrokerTypeOK, recordVars, eventVars, nodeVars, brokerVars, Ended
<1>1. ASSUME NEW i \in Instances, Connect(i) PROVE TruthInv'
  BY <1>1 DEF Connect
<1>2. ASSUME NEW i \in Instances, LoseSession(i) PROVE TruthInv'
  BY <1>2 DEF LoseSession
<1>3. ASSUME NEW i \in Instances, LoseLink(i) PROVE TruthInv'
  BY <1>3 DEF LoseLink
<1>4. ASSUME NEW w \in Workspaces, (\E i \in Instances : ClaimWorkspace(i, w)) \/ ReleaseWorkspace(w)
      PROVE TruthInv'
  BY <1>4 DEF ClaimWorkspace, ReleaseWorkspace
<1>5. CASE Crash
  BY <1>5, NoTaskAssumption DEF Crash
<1>6. CASE Restart \/ Serve \/ RecoverFails
  BY <1>6 DEF Restart, Serve, RecoverFails
<1>7. ASSUME NEW t \in Tasks, Recover(t) PROVE TruthInv'
  BY <1>7 DEF Recover, Active, ActiveStates
<1>8. CASE UNCHANGED vars
  BY <1>8 DEF vars
<1> QED BY <1>1, <1>2, <1>3, <1>4, <1>5, <1>6, <1>7, <1>8 DEF SessionStep, RestartStep

LEMMA TruthInit == BrokerInit => TruthInv
BY NoTaskAssumption DEF BrokerInit, TruthInv, TruthOf, AbsentIdle, Unsent, EventTrue,
   CancelledTrue, CompletedTrue, LaunchCounted, OutcomeLast, Ended

LEMMA TruthStep == BrokerTypeOK /\ TruthInv /\ [BrokerNext]_vars => TruthInv'
BY StartStepTrue, ControlStepTrue, NodeStepTrue, SharedStepTrue DEF BrokerNext

\* However the store fails and whenever broker and windows crash or lose each
\* other, a task launches at most one agent, a cancelled admission means the
\* node was never asked, and the final status of a record is true.
THEOREM RecordIsTrue ==
  BrokerSpec => [](LaunchedAtMostOnce /\ CancelledAdmissionUndispatched /\ TerminalIsTrue)
<1>1. TInv /\ TruthInv /\ [BrokerNext]_vars => TInv' /\ TruthInv'
  BY StepTyped, BrokerStepsRoutes, NextRoutes, TruthStep DEF TInv, RoutesIInv, BrokerTypeOK
<1>2. TruthInv => LaunchedAtMostOnce /\ CancelledAdmissionUndispatched /\ TerminalIsTrue
  BY DEF TruthInv, TruthOf, AbsentIdle, Unsent, EventTrue, CancelledTrue, CompletedTrue,
     LaunchCounted, OutcomeLast, LaunchedAtMostOnce, CancelledAdmissionUndispatched, TerminalIsTrue
<1> QED BY <1>1, <1>2, InitTyped, TruthInit, PTL DEF BrokerSpec

\* Over every retry, restart and reconnection, a task launches at most one agent.
COROLLARY OneAgentPerTask == BrokerSpec => []LaunchedAtMostOnce
BY RecordIsTrue, PTL

----------------------------------------------------------------------------
(* The broker and its nodes implement DelegatedTask *)

LEMMA InitImplements == BrokerInit => Delegation!DInit
BY DEF BrokerInit, Delegation!DInit, Status, Agent, ActiveStates, Writing

\* An agent that is told to stop, and works, still works for a while.
LEMMA AgentKept ==
  ASSUME BrokerTypeOK, TruthInv, NEW t \in Tasks,
         UNCHANGED <<launches, outcome>>,
         \/ UNCHANGED exec
         \/ /\ exec[t] \in {"running", "cancelling"}
            /\ exec' = [exec EXCEPT ![t] = "stopping"]
  PROVE  Agent' = Agent
<1>1. CASE UNCHANGED exec
  BY <1>1 DEF Agent, Writing
<1>2. CASE exec[t] \in {"running", "cancelling"} /\ exec' = [exec EXCEPT ![t] = "stopping"]
  <2>1. launches[t] = 1
    BY <1>2 DEF TruthInv, TruthOf, LaunchCounted
  <2> QED BY <1>2, <2>1 DEF Agent, Writing, BrokerTypeOK
<1> QED BY <1>1, <1>2

\* A record only moves on while it is active, and what it says is true.
LEMMA RecordingImplements ==
  ASSUME BrokerTypeOK, TruthInv, TruthInv', NEW t \in Tasks, Agent' = Agent,
         \/ UNCHANGED state
         \/ Active(t) /\ \E s \in TaskStates : Record(t, s)
  PROVE  [Delegation!DNext]_<<Status, Agent>>
<1>1. CASE UNCHANGED state
  BY <1>1 DEF Status, Active
<1>2. ASSUME NEW s \in ActiveStates, Active(t), Record(t, s)
      PROVE Status' = Status
  BY <1>2 DEF Status, Active, Record, ActiveStates, BrokerTypeOK
<1>3. ASSUME NEW s \in TerminalStates, Active(t), Record(t, s)
      PROVE Delegation!End(t, s)
  <2>1. state'[t] = s /\ Status' = [Status EXCEPT ![t] = s] /\ Status[t] = "active"
    BY <1>3 DEF Status, Active, Record, ActiveStates, TerminalStates, BrokerTypeOK
  <2>2. s = "completed" => Agent'[t] = "completed"
    BY <2>1 DEF TruthInv, TruthOf, CompletedTrue, Agent, Writing
  <2>3. s = "cancelled" => Agent'[t] # "working"
    BY <2>1 DEF TruthInv, TruthOf, CancelledTrue, Agent, Writing
  <2> QED BY <2>1, <2>2, <2>3 DEF Delegation!End
<1> QED BY <1>1, <1>2, <1>3 DEF TaskStates, Delegation!DNext, Delegation!Finals, TerminalStates

\* Agents that end, of tasks that were accepted.
LEMMA StoppingImplements ==
  ASSUME BrokerTypeOK, UNCHANGED state,
         \A t \in Tasks : \/ Agent'[t] = Agent[t]
                          \/ /\ state[t] # "absent"
                             /\ Agent[t] \in {"idle", "working"}
                             /\ Agent'[t] = "ended"
  PROVE  [Delegation!DNext]_<<Status, Agent>>
<1> DEFINE S == {t \in Tasks : Agent'[t] # Agent[t]}
<1>1. Status' = Status
  BY DEF Status, Active
<1>2. \A t \in S : Status[t] # "none" /\ Agent[t] \in {"idle", "working"}
  BY DEF Status, BrokerTypeOK, TaskStates, ActiveStates, TerminalStates
<1>3. Agent' = [t \in Tasks |-> IF t \in S THEN "ended" ELSE Agent[t]]
  <2>1. \A t \in Tasks : Agent'[t] = IF t \in S THEN "ended" ELSE Agent[t]
    OBVIOUS
  <2>2. Agent' = [t \in Tasks |-> Agent'[t]]
    BY DEF Agent
  <2> QED BY <2>1, <2>2
<1> QED BY <1>1, <1>2, <1>3 DEF Delegation!DNext, Delegation!Stop

\* What the operations of the task queue do to record and agent.
LEMMA OperationsRecord ==
  ASSUME BrokerTypeOK, NEW t \in Tasks,
         \/ StartFailed(t) \/ StartReplied(t) \/ ControlStep(t)
  PROVE  /\ UNCHANGED state \/ (Active(t) /\ \E s \in TaskStates : Record(t, s))
         /\ UNCHANGED <<launches, outcome>>
         /\ \/ UNCHANGED exec
            \/ /\ exec[t] \in {"running", "cancelling"}
               /\ exec' = [exec EXCEPT ![t] = "stopping"]
<1> USE DEF Free, KeepTask, CloseTask, WriteTerminal, WriteTerminalAndStop, FailIfActive,
            Overdue, recordVars, nodeVars
<1>0. {"failed", "timedOut", "cancelled", "running", "cancelling"} \subseteq TaskStates
  BY DEF TaskStates, TerminalStates, ActiveStates
<1>1. CASE StartFailed(t) \/ CancelFailed(t) \/ GetTask(t) \/ DeadlinePasses(t)
  BY <1>0, <1>1 DEF StartFailed, CancelFailed, GetTask, DeadlinePasses
<1>2. CASE StartReplied(t)
  <2>1. UNCHANGED <<exec, launches, outcome>>
    BY <1>2 DEF StartReplied
  <2>2. UNCHANGED state \/ state' = [state EXCEPT ![t] = IF @ = "startingAgent" THEN "running" ELSE @]
    BY <1>2 DEF StartReplied
  <2>3. CASE state[t] = "startingAgent"
    BY <1>0, <2>1, <2>2, <2>3 DEF Record, Active, ActiveStates
  <2>4. CASE state[t] # "startingAgent"
    BY <2>1, <2>2, <2>4 DEF BrokerTypeOK
  <2> QED BY <2>3, <2>4
<1>3. CASE EnforceDeadline(t) \/ WorkerTimeout(t)
  BY <1>0, <1>3 DEF EnforceDeadline, WorkerTimeout
<1>4. CASE CancellationTimeout(t)
  BY <1>0, <1>4 DEF CancellationTimeout, Active, ActiveStates
<1>5. CASE FailLostBinding(t)
  BY <1>0, <1>5 DEF FailLostBinding
<1>6. CASE CancelAgain(t)
  BY <1>6 DEF CancelAgain
<1>7. CASE CancelBeforeDispatch(t)
  BY <1>0, <1>7 DEF CancelBeforeDispatch, Cancellable
<1>8. CASE CancelAfterDispatch(t)
  BY <1>0, <1>8 DEF CancelAfterDispatch, Cancellable
<1>9. CASE ReceiveEvent(t)
  BY <1>9 DEF ReceiveEvent, Acknowledge, BrokerTypeOK
<1>10. CASE ApplyEvent(t)
  <2> USE DEF Acknowledge
  <2>1. UNCHANGED <<launches, outcome>>
    BY <1>10 DEF ApplyEvent
  <2>2. CASE Overdue(t) /\ WriteTerminalAndStop(t, "timedOut", "none")
               /\ Acknowledge(t, state'[t] = "timedOut" /\ binding'[t] = NoRoute)
    BY <1>0, <2>1, <2>2 DEF BrokerTypeOK
  <2>3. CASE Applicable(t) /\ TakeEvent(t)
    <3>1. Active(t) /\ StateFor(t) \in TaskStates /\ Final(t) \in TaskStates
      BY <2>3, FinalTyped DEF Applicable, TaskStates
    <3>2. UNCHANGED state \/ Record(t, StateFor(t)) \/ Record(t, Final(t))
      BY <2>3 DEF TakeEvent
    <3>3. \/ UNCHANGED exec
          \/ /\ exec[t] \in {"running", "cancelling"}
             /\ exec' = [exec EXCEPT ![t] = "stopping"]
      BY <2>3 DEF TakeEvent, BrokerTypeOK
    <3> QED BY <2>1, <3>1, <3>2, <3>3
  <2>4. CASE Acknowledge(t, FALSE) /\ UNCHANGED state
    BY <2>1, <2>4 DEF BrokerTypeOK
  <2> QED BY <1>10, <2>2, <2>3, <2>4 DEF ApplyEvent
<1>11. CASE AnswerAccepted(t)
  BY <1>0, <1>11 DEF AnswerAccepted, Active, ActiveStates
<1> QED BY <1>1, <1>2, <1>3, <1>4, <1>5, <1>6, <1>7, <1>8, <1>9, <1>10, <1>11 DEF ControlStep

\* What the window does with t: it launches the agent, the agent succeeds,
\* or the agent, or its start, ends or goes on.
LEMMA NodeStepImplements ==
  ASSUME BrokerTypeOK, TruthInv, NEW t \in Tasks, NodeStep(t)
  PROVE  [Delegation!DNext]_<<Status, Agent>>
<1>0. UNCHANGED state /\ Status' = Status
  BY DEF NodeStep, NodeStart, Launch, NodeStartReply, LaunchFails, NodeCancel, AbortConfirmed,
     NodeDispose, NodeDeadline, AgentStops, AgentAsks, AgentEnds, recordVars, Status
<1> USE DEF nodeVars, BrokerTypeOK
<1>1. ASSUME UNCHANGED <<exec, launches, outcome>> PROVE Agent' = Agent
  BY <1>1 DEF Agent, Writing
<1>2. ASSUME Agent' = [Agent EXCEPT ![t] = "ended"], state[t] # "absent",
             Agent[t] \in {"idle", "working"}
      PROVE  [Delegation!DNext]_<<Status, Agent>>
  <2>1. Agent = [u \in Tasks |-> Agent[u]]
    BY DEF Agent
  <2>2. \A u \in Tasks : Agent'[u] = IF u = t THEN "ended" ELSE Agent[u]
    BY <1>2, <2>1
  <2> QED BY <1>0, <1>2, <2>2, StoppingImplements
<1> USE DEF TruthInv, TruthOf, LaunchCounted, OutcomeLast, AbsentIdle
<1>3. CASE NodeStart(t)
  <2>1. state[t] # "absent" /\ launches[t] = 0 /\ exec[t] = "none" /\ outcome[t] = "none"
        /\ UNCHANGED <<launches, outcome>>
    BY <1>3 DEF NodeStart
  <2>2. CASE exec' = [exec EXCEPT ![t] = "starting"]
    BY <1>0, <2>1, <2>2 DEF Agent, Writing
  <2>3. CASE exec' = [exec EXCEPT ![t] = "gone"]
    <3>1. Agent' = [Agent EXCEPT ![t] = "ended"] /\ Agent[t] = "idle"
      BY <2>1, <2>3 DEF Agent, Writing
    <3> QED BY <1>2, <2>1, <3>1
  <2> QED BY <1>3, <2>2, <2>3 DEF NodeStart
<1>4. CASE Launch(t)
  <2>0. launches[t] = 0 /\ exec[t] = "starting" /\ state[t] # "absent"
        /\ UNCHANGED outcome /\ exec' = [exec EXCEPT ![t] = "running"]
    BY <1>4 DEF Launch
  <2>1. launches'[t] # 0 /\ \A u \in Tasks : u # t => launches'[u] = launches[u]
    BY <1>4, <2>0 DEF Launch
  <2>2. Agent[t] = "idle" /\ Agent' = [Agent EXCEPT ![t] = "working"]
    <3>1. exec'[t] = "running" /\ \A u \in Tasks : u # t => exec'[u] = exec[u]
      BY <2>0
    <3>2. Agent[t] = "idle" /\ Agent'[t] = "working"
      BY <2>0, <2>1, <3>1 DEF Agent, Writing
    <3>3. \A u \in Tasks : u # t => Agent'[u] = Agent[u]
      BY <2>0, <2>1, <3>1 DEF Agent, Writing
    <3>4. Agent = [u \in Tasks |-> Agent[u]] /\ Agent' = [u \in Tasks |-> Agent'[u]]
      BY DEF Agent
    <3> QED BY <3>2, <3>3, <3>4
  <2>3. Status[t] \notin {"none", "cancelled", "completed"}
    BY <2>0 DEF Status, CancelledTrue, CompletedTrue, TaskStates, ActiveStates, TerminalStates
  <2> QED BY <1>0, <2>2, <2>3 DEF Delegation!DNext, Delegation!Work
<1>5. CASE NodeStartReply(t)
  BY <1>0, <1>1, <1>5 DEF NodeStartReply
<1>6. ASSUME exec[t] \in {"starting", "aborting", "running", "cancelling"},
             exec' = [exec EXCEPT ![t] = "stopping"], UNCHANGED <<launches, outcome>>
      PROVE  [Delegation!DNext]_<<Status, Agent>>
  <2>1. CASE launches[t] = 0 /\ exec[t] = "starting"
    <3>1. Agent' = [Agent EXCEPT ![t] = "ended"] /\ Agent[t] = "idle"
      BY <1>6, <2>1 DEF Agent, Writing
    <3> QED BY <1>2, <2>1, <3>1
  <2>2. CASE exec[t] = "aborting" \/ launches[t] # 0
    <3>1. Agent' = Agent
      BY <1>6, <2>2 DEF Agent, Writing
    <3> QED BY <1>0, <3>1
  <2> QED BY <1>6, <2>1, <2>2
<1>7. CASE LaunchFails(t)
  <2>1. Agent' = [Agent EXCEPT ![t] = "ended"] /\ Agent[t] = "idle" /\ state[t] # "absent"
    BY <1>7 DEF LaunchFails, Agent, Writing
  <2> QED BY <1>2, <2>1
<1>8. CASE NodeCancel(t)
  <2>1. UNCHANGED <<launches, outcome>>
    BY <1>8 DEF NodeCancel
  <2>2. CASE exec[t] = "starting" /\ exec' = [exec EXCEPT ![t] = "aborting"]
    <3>1. Agent' = [Agent EXCEPT ![t] = "ended"] /\ Agent[t] = "idle" /\ state[t] # "absent"
      BY <2>1, <2>2 DEF Agent, Writing
    <3> QED BY <1>2, <3>1
  <2>3. CASE exec[t] \in {"running", "cancelling"} /\ exec' = [exec EXCEPT ![t] = "cancelling"]
    <3>1. Agent' = Agent
      BY <2>1, <2>3 DEF Agent, Writing
    <3> QED BY <1>0, <3>1
  <2>4. CASE UNCHANGED exec
    BY <1>0, <1>1, <2>1, <2>4
  <2> QED BY <1>8, <2>2, <2>3, <2>4 DEF NodeCancel
<1>9. CASE AbortConfirmed(t)
  <2>1. Agent' = Agent
    BY <1>9 DEF AbortConfirmed, Agent, Writing
  <2> QED BY <1>0, <2>1
<1>10. CASE NodeDispose(t)
  BY <1>0, <1>1, <1>6, <1>10 DEF NodeDispose
<1>11. CASE NodeDeadline(t)
  BY <1>6, <1>11 DEF NodeDeadline
<1>12. CASE AgentStops(t)
  <2>1. exec[t] = "stopping" /\ exec' = [exec EXCEPT ![t] = "gone"] /\ outcome[t] = "none"
        /\ UNCHANGED <<launches, outcome>> /\ state[t] # "absent"
    BY <1>12 DEF AgentStops
  <2>2. CASE launches[t] = 0
    <3>1. Agent' = Agent
      BY <2>1, <2>2 DEF Agent, Writing
    <3> QED BY <1>0, <3>1
  <2>3. CASE launches[t] # 0
    <3>1. Agent' = [Agent EXCEPT ![t] = "ended"] /\ Agent[t] = "working"
      BY <2>1, <2>3 DEF Agent, Writing
    <3> QED BY <1>2, <2>1, <3>1
  <2> QED BY <2>2, <2>3
<1>13. CASE AgentAsks(t)
  BY <1>0, <1>1, <1>13 DEF AgentAsks
<1>14. ASSUME NEW kind \in Events \ {"inputRequired"}, AgentEnds(t, kind)
       PROVE  [Delegation!DNext]_<<Status, Agent>>
  <2>1. /\ exec[t] \in {"running", "cancelling"} /\ launches[t] # 0 /\ state[t] # "absent"
        /\ exec' = [exec EXCEPT ![t] = "finished"]
        /\ outcome' = [outcome EXCEPT ![t] = kind] /\ UNCHANGED launches
    BY <1>14 DEF AgentEnds
  <2>2. CASE kind = "completed"
    <3>1. Agent[t] = "working" /\ Agent' = [Agent EXCEPT ![t] = "completed"]
      BY <2>1, <2>2 DEF Agent, Writing
    <3> QED BY <1>0, <3>1 DEF Delegation!DNext, Delegation!Succeed
  <2>3. CASE kind # "completed"
    <3>1. Agent' = [Agent EXCEPT ![t] = "ended"] /\ Agent[t] = "working"
      BY <2>1, <2>3 DEF Agent, Writing
    <3> QED BY <1>2, <2>1, <3>1
  <2> QED BY <2>2, <2>3
<1> QED BY <1>3, <1>4, <1>5, <1>7, <1>8, <1>9, <1>10, <1>11, <1>12, <1>13, <1>14 DEF NodeStep

LEMMA StartStepImplements ==
  ASSUME BrokerTypeOK, TruthInv, TruthInv', NEW t \in Tasks, StartStep(t)
  PROVE  [Delegation!DNext]_<<Status, Agent>>
<1>0. "startingAgent" \in ActiveStates
  BY DEF ActiveStates
<1>1. ASSUME UNCHANGED <<exec, launches, outcome>> PROVE Agent' = Agent
  BY <1>1 DEF Agent, Writing
<1>2. ASSUME UNCHANGED state PROVE Status' = Status
  BY <1>2 DEF Status, Active
<1>3. ASSUME state[t] = "absent", Record(t, "startingAgent"),
             UNCHANGED <<exec, launches, outcome>>
      PROVE  [Delegation!DNext]_<<Status, Agent>>
  <2>1. Status[t] = "none" /\ Status' = [Status EXCEPT ![t] = "active"]
    BY <1>0, <1>3 DEF Status, Record, BrokerTypeOK, ActiveStates
  <2> QED BY <1>1, <1>3, <2>1 DEF Delegation!DNext, Delegation!Accept
<1>4. ASSUME NEW i \in Instances, NEW w \in Workspaces, BeginStart(t, i, w)
      PROVE  [Delegation!DNext]_<<Status, Agent>>
  BY <1>1, <1>2, <1>4 DEF BeginStart, recordVars, nodeVars
<1>5. CASE AcceptStart(t) \/ FailStart(t)
  BY <1>1, <1>2, <1>3, <1>5 DEF AcceptStart, FailStart, recordVars, nodeVars, TruthInv
<1>6. CASE DenyStart(t) \/ DispatchStart(t)
  BY <1>1, <1>2, <1>6 DEF DenyStart, DispatchStart, recordVars, nodeVars
<1>7. CASE StartFailed(t) \/ StartReplied(t)
  BY <1>7, OperationsRecord, AgentKept, RecordingImplements
<1> QED BY <1>4, <1>5, <1>6, <1>7 DEF StartStep

LEMMA SharedStepImplements ==
  ASSUME BrokerTypeOK, TruthInv, TruthInv', SessionStep \/ RestartStep \/ UNCHANGED vars
  PROVE  [Delegation!DNext]_<<Status, Agent>>
<1>1. ASSUME UNCHANGED <<state, exec, launches, outcome>>
      PROVE  [Delegation!DNext]_<<Status, Agent>>
  BY <1>1 DEF Status, Active, Agent, Writing
<1> USE DEF recordVars, nodeVars
<1>2. ASSUME NEW i \in Instances, LoseLink(i) PROVE [Delegation!DNext]_<<Status, Agent>>
  <2>1. UNCHANGED <<state, launches, outcome>>
    BY <1>2 DEF LoseLink
  <2>2. ASSUME NEW t \in Tasks
        PROVE \/ Agent'[t] = Agent[t]
              \/ /\ state[t] # "absent"
                 /\ Agent[t] \in {"idle", "working"}
                 /\ Agent'[t] = "ended"
    <3> USE DEF TruthInv, TruthOf, AbsentIdle, LaunchCounted, OutcomeLast
    <3>1. \/ exec'[t] = exec[t]
          \/ exec[t] \in {"starting", "aborting", "running", "cancelling"} /\ exec'[t] = "stopping"
          \/ exec[t] = "finished" /\ exec'[t] = "gone"
      BY <1>2 DEF LoseLink
    <3>2. CASE exec'[t] = exec[t]
      BY <2>1, <3>2 DEF Agent, Writing
    <3>3. CASE exec[t] = "starting" /\ exec'[t] = "stopping"
      BY <2>1, <3>3 DEF Agent, Writing
    <3>4. CASE exec[t] = "aborting" /\ exec'[t] = "stopping"
      BY <2>1, <3>4 DEF Agent, Writing
    <3>5. CASE exec[t] \in {"running", "cancelling"} /\ exec'[t] = "stopping"
      <4>1. launches[t] # 0
        BY <3>5
      <4> QED BY <2>1, <3>5, <4>1 DEF Agent, Writing
    <3>6. CASE exec[t] = "finished" /\ exec'[t] = "gone"
      BY <2>1, <3>6 DEF Agent, Writing
    <3> QED BY <3>1, <3>2, <3>3, <3>4, <3>5, <3>6
  <2> QED BY <2>1, <2>2, StoppingImplements
<1>3. CASE SessionStep
  BY <1>1, <1>2, <1>3 DEF SessionStep, Connect, LoseSession, ClaimWorkspace, ReleaseWorkspace
<1>4. ASSUME NEW t \in Tasks, Recover(t) PROVE [Delegation!DNext]_<<Status, Agent>>
  <2>1. UNCHANGED <<exec, launches, outcome>>
    BY <1>4 DEF Recover
  <2>2. Active(t) /\ \E s \in TaskStates : Record(t, s)
    BY <1>4 DEF Recover, Record, TaskStates, TerminalStates
  <2> QED BY <2>1, <2>2, AgentKept, RecordingImplements
<1>5. CASE RestartStep
  BY <1>1, <1>4, <1>5 DEF RestartStep, Crash, Restart, Serve, RecoverFails
<1>6. CASE UNCHANGED vars
  BY <1>1, <1>6 DEF vars
<1> QED BY <1>3, <1>5, <1>6

\* The broker and its windows implement the promise of DelegatedTask: each
\* task is accepted once, is given to at most one agent, and gets one final
\* status, which is true of the agent; whatever fails in between.
THEOREM Implementation == BrokerSpec => ImplementsDelegatedTask
<1>1. TInv /\ TruthInv /\ [BrokerNext]_vars => TInv' /\ TruthInv'
  BY StepTyped, BrokerStepsRoutes, NextRoutes, TruthStep DEF TInv, RoutesIInv, BrokerTypeOK
<1>2. TInv /\ TruthInv /\ TruthInv' /\ [BrokerNext]_vars => [Delegation!DNext]_<<Status, Agent>>
  <2> SUFFICES ASSUME BrokerTypeOK, TruthInv, TruthInv', [BrokerNext]_vars
               PROVE  [Delegation!DNext]_<<Status, Agent>>
    BY DEF TInv
  <2>1. ASSUME NEW t \in Tasks, StartStep(t) PROVE [Delegation!DNext]_<<Status, Agent>>
    BY <2>1, StartStepImplements
  <2>2. ASSUME NEW t \in Tasks, ControlStep(t) PROVE [Delegation!DNext]_<<Status, Agent>>
    BY <2>2, OperationsRecord, AgentKept, RecordingImplements
  <2>3. ASSUME NEW t \in Tasks, NodeStep(t) PROVE [Delegation!DNext]_<<Status, Agent>>
    BY <2>3, NodeStepImplements
  <2>4. CASE SessionStep \/ RestartStep \/ UNCHANGED vars
    BY <2>4, SharedStepImplements
  <2> QED BY <2>1, <2>2, <2>3, <2>4 DEF BrokerNext
<1> QED BY <1>1, <1>2, InitTyped, TruthInit, InitImplements, PTL
        DEF BrokerSpec, ImplementsDelegatedTask, Delegation!DSpec, Delegation!delegationVars

\* What is promised is well typed at every point: every status a reader sees is
\* one of DelegatedTask's, and so is every agent's.
LEMMA PromiseIsTyped == BrokerSpec => []Delegation!DTypeOK
<1>1. Delegation!DInit => Delegation!DTypeOK
  BY DEF Delegation!DInit, Delegation!DTypeOK
<1>2. Delegation!DTypeOK /\ [Delegation!DNext]_<<Status, Agent>> => Delegation!DTypeOK'
  <2> SUFFICES ASSUME Delegation!DTypeOK, [Delegation!DNext]_<<Status, Agent>>  PROVE Delegation!DTypeOK'
    OBVIOUS
  <2> QED
    BY DEF Delegation!DTypeOK, Delegation!DNext, Delegation!Accept, Delegation!Work, Delegation!Succeed, Delegation!End,
           Delegation!Stop, Delegation!Finals
<1> QED
  BY <1>1, <1>2, Implementation, PTL DEF ImplementsDelegatedTask, Delegation!DSpec, Delegation!delegationVars

----------------------------------------------------------------------------
(* The switch of the connections: what it keeps between the steps of its jobs *)

Codes == {"none", "cancelled", "auth", "cleanup", "other"}
Cleaning == {"stopping", "deleting", "clearing", "retiring", "cleaned"}
Launching == {"gateway", "record", "create", "host", "online"}
JobRecords ==
  [kind : {"none", "enable", "disable", "switch", "retry", "recover", "refresh", "restore"},
   stale : BOOLEAN,
   at : {"none", "queued", "account", "disable", "mark", "again", "failing"} \cup Cleaning \cup Launching,
   why : {"none", "enable", "disable", "undo"}, bad : {"none", "cleanup", "auth"},
   accountReady : BOOLEAN, code : Codes]
SavedRecords == [enabled : BOOLEAN, pending : BOOLEAN, retired : BOOLEAN, account : Accounts \cup {NoAccount}]
ListenerRecords == [state : {"stopped", "starting", "running", "error"}, gateway : BOOLEAN, stuck : BOOLEAN]
ProviderRecords ==
  [status : {"stopped", "starting", "ready", "circuit-open", "cleanup-failed"}, host : TunnelIds \cup {0}, cut : BOOLEAN]
Tunnels == [id : TunnelIds, account : Accounts \cup {NoAccount}, hosted : BOOLEAN]
OwnTunnels == [id : TunnelIds, account : Accounts \cup {NoAccount}, phase : {"creating", "hosting", "stopped"}]

SwitchTyped ==
  /\ saved \in SavedRecords /\ file \in SavedRecords
  /\ owned \in OwnTunnels \cup {NoTunnel}
  /\ cloud \in SUBSET Tunnels
  /\ legacy \in BOOLEAN /\ stopped \in BOOLEAN
  /\ conn \in {"disabled", "authenticating", "starting", "stopping", "online", "error", "authRequired", "cleanupPending"}
  /\ failed \in Codes /\ timer \in {"off", "set"} /\ attempts \in 0..MaxRecoveries
  /\ jobs \in Seq(JobRecords)
  /\ lst \in ListenerRecords /\ sdk \in ProviderRecords

\* Only the head of the queue is under way.
QueueKept == \A i \in DOMAIN jobs : i # 1 => jobs[i].at = "queued" /\ jobs[i].why = "none"

\* A recovery is asked for, and has not been given up; a restart is being taken up.
Recovering == \E i \in DOMAIN jobs : jobs[i].at = "queued" /\ jobs[i].kind = "recover" /\ ~jobs[i].stale
Restoring == Job.at = "queued" /\ Job.kind = "restore"

\* What each stage of a job has settled.
StageKept ==
  /\ Job.at \in {"none", "queued"} => Job.why = "none"
  /\ Job.at = "account" => Job.why \in {"enable", "disable"}
  /\ Job.at \in {"disable", "again"} => Job.why = "disable"
  /\ Job.at \in Launching \cup {"mark", "failing"} => Job.why = "enable"
  /\ Job.at \in Cleaning => Job.why # "none" /\ saved.pending /\ file.pending
  /\ Job.at \in Cleaning /\ Job.why = "disable" => ~saved.enabled
  /\ Job.why = "undo" => Job.at \in Cleaning
  /\ Job.why = "undo" \/ Job.at = "failing" => Job.code # "cleanup"
  /\ Job.at \in Launching => saved.enabled /\ saved = file

\* The state that is shown is that of the stage.
ShownKept ==
  /\ conn = "authenticating" <=> Job.why = "enable" /\ Job.at \in {"account", "mark"} \cup Cleaning
  /\ Job.at \in Launching \cup {"failing"} \/ Job.why = "undo" => conn = "starting"
  /\ Job.why = "disable" /\ Job.at \in Cleaning => conn = "stopping"

\* The tunnels of the cloud are the one of the ledger.
LedgerKept ==
  /\ \A t \in cloud : t.id = owned.id /\ t.account = saved.account
  /\ owned.id # 0 => owned.account = saved.account /\ (saved.enabled \/ saved.pending)
  /\ owned.id # 0 => owned.account = file.account /\ (file.enabled \/ file.pending)
  /\ Job.at = "clearing" => cloud = {}
  /\ Job.at \in {"retiring", "cleaned"} /\ Job.bad = "none" => owned.id = 0
  /\ Job.at \in {"create", "host"} => owned.id # 0

\* What is hosted or open is wanted, or is being taken down.
HostKept ==
  /\ sdk.host # 0 => sdk.host = owned.id
  /\ sdk.host # 0 => ConnectionsEnabled \/ sdk.cut
  /\ Job.at \in Launching \ {"gateway", "record"} => ConnectionsEnabled \/ sdk.cut
  /\ Job.at \in {"clearing", "retiring", "cleaned"} => sdk.host = 0
  /\ lst.gateway => saved.enabled \/ saved.pending
  /\ Job.at \in Cleaning \ {"stopping"} /\ Job.bad = "none" => ~lst.gateway

\* What is shown as disabled is, or a job will show something else.
DisabledKept ==
  conn = "disabled" =>
    sdk.host = 0 /\ ~lst.gateway /\ ((~saved.enabled /\ ~saved.pending) \/ failed # "none" \/ Restoring)

\* What failed is tried again.
RecoveryKept ==
  conn = "error" /\ ConnectionsEnabled =>
    timer = "set" \/ attempts = MaxRecoveries \/ lst.stuck \/ Recovering

LegacyKept ==
  /\ conn \in {"starting", "online"} \/ saved.retired \/ file.retired => ~legacy
  /\ Job.at = "cleaned" /\ Job.bad = "none" => ~legacy

SwitchKept ==
  QueueKept /\ StageKept /\ ShownKept /\ LedgerKept /\ HostKept /\ DisabledKept /\ RecoveryKept /\ LegacyKept


----------------------------------------------------------------------------
(* The queue of jobs *)

\* What Append does.
LEMMA AppendIs ==
  ASSUME NEW S, NEW s \in Seq(S), NEW x \in S
  PROVE  /\ Append(s, x) \in Seq(S) /\ DOMAIN Append(s, x) = 1..(Len(s) + 1)
         /\ \A i \in DOMAIN s : i \in DOMAIN Append(s, x) /\ Append(s, x)[i] = s[i]
         /\ Len(s) + 1 \in DOMAIN Append(s, x) /\ Append(s, x)[Len(s) + 1] = x
         /\ DOMAIN s = 1..Len(s) /\ Append(s, x) # <<>>
  OBVIOUS

\* The job under way is the head of the queue.
LEMMA JobIs ==
  ASSUME jobs \in Seq(JobRecords)
  PROVE  /\ Job \in JobRecords
         /\ Job.at # "none" => jobs # <<>>
         /\ jobs # <<>> => Job = jobs[1] /\ 1 \in DOMAIN jobs
         /\ jobs = <<>> => Job.at = "none" /\ Job.why = "none"
<1>1. CASE jobs = <<>>
  BY <1>1 DEF Job, NewJob, JobRecords, Codes, Cleaning, Launching
<1>2. CASE jobs # <<>>
  BY <1>2 DEF Job
<1> QED BY <1>1, <1>2

\* The job under way goes on: those behind it stay.
LEMMA BecomesIs ==
  ASSUME jobs \in Seq(JobRecords), QueueKept, Job.at # "none", NEW job \in JobRecords, Becomes(job)
  PROVE  /\ jobs' \in Seq(JobRecords) /\ QueueKept' /\ Job' = job /\ jobs' # <<>>
         /\ Recovering => Recovering' \/ (Job.at = "queued" /\ Job.kind = "recover" /\ ~Job.stale)
<1>1. jobs # <<>> /\ Job = jobs[1]
  BY JobIs
<1>2. /\ jobs' \in Seq(JobRecords) /\ DOMAIN jobs' = DOMAIN jobs /\ jobs'[1] = job /\ jobs' # <<>>
      /\ \A i \in DOMAIN jobs : i # 1 => jobs'[i] = jobs[i]
  BY <1>1 DEF Becomes
<1>3. Job' = job
  BY <1>2 DEF Job
<1>4. QueueKept'
  BY <1>2 DEF QueueKept
<1>5. Recovering => Recovering' \/ (Job.at = "queued" /\ Job.kind = "recover" /\ ~Job.stale)
  BY <1>1, <1>2 DEF Recovering
<1> QED BY <1>2, <1>3, <1>4, <1>5

\* The job under way ends: the next one is queued.
LEMMA DoneIs ==
  ASSUME jobs \in Seq(JobRecords), QueueKept, Job.at # "none", Done
  PROVE  /\ jobs' \in Seq(JobRecords) /\ QueueKept' /\ Job'.at \in {"none", "queued"} /\ Job'.why = "none"
         /\ Recovering => Recovering' \/ (Job.at = "queued" /\ Job.kind = "recover" /\ ~Job.stale)
<1>1. jobs # <<>> /\ Job = jobs[1]
  BY JobIs
<1>2. /\ jobs' \in Seq(JobRecords) /\ DOMAIN jobs' = 1..(Len(jobs) - 1)
      /\ \A i \in DOMAIN jobs' : i + 1 \in DOMAIN jobs /\ jobs'[i] = jobs[i + 1]
      /\ \A i \in DOMAIN jobs : i # 1 => i - 1 \in DOMAIN jobs' /\ jobs'[i - 1] = jobs[i]
  BY <1>1 DEF Done
<1>3. \A i \in DOMAIN jobs' : jobs'[i].at = "queued" /\ jobs'[i].why = "none"
  <2> SUFFICES ASSUME NEW i \in DOMAIN jobs' PROVE jobs'[i].at = "queued" /\ jobs'[i].why = "none"
    OBVIOUS
  <2>1. i + 1 \in DOMAIN jobs /\ i + 1 # 1 /\ jobs'[i] = jobs[i + 1]
    BY <1>2
  <2> QED BY <2>1 DEF QueueKept
<1>4. QueueKept'
  BY <1>3 DEF QueueKept
<1>5. Job'.at \in {"none", "queued"} /\ Job'.why = "none"
  <2>1. CASE jobs' = <<>>
    BY <2>1 DEF Job, NewJob
  <2>2. CASE jobs' # <<>>
    <3>1. Job' = jobs'[1] /\ 1 \in DOMAIN jobs'
      BY <1>2, <2>2 DEF Job
    <3> QED BY <1>3, <3>1
  <2> QED BY <2>1, <2>2
<1>6. Recovering => Recovering' \/ (Job.at = "queued" /\ Job.kind = "recover" /\ ~Job.stale)
  BY <1>1, <1>2 DEF Recovering
<1> QED BY <1>2, <1>4, <1>5, <1>6

\* A job joins the queue.
LEMMA JoinsIs ==
  ASSUME jobs \in Seq(JobRecords), QueueKept, NEW job \in JobRecords, job.at = "queued", job.why = "none",
         jobs' = Append(jobs, job)
  PROVE  /\ jobs' \in Seq(JobRecords) /\ QueueKept'
         /\ Job' = Job \/ (Job.at = "none" /\ Job.why = "none" /\ Job' = job)
         /\ Recovering \/ (job.kind = "recover" /\ ~job.stale) => Recovering'
<1>1. /\ jobs' \in Seq(JobRecords) /\ DOMAIN jobs' = 1..(Len(jobs) + 1) /\ jobs' # <<>>
      /\ \A i \in DOMAIN jobs : i \in DOMAIN jobs' /\ jobs'[i] = jobs[i]
      /\ Len(jobs) + 1 \in DOMAIN jobs' /\ jobs'[Len(jobs) + 1] = job
      /\ DOMAIN jobs = 1..Len(jobs)
  OBVIOUS
<1>2. QueueKept'
  BY <1>1 DEF QueueKept
<1>3. Job' = Job \/ (Job.at = "none" /\ Job.why = "none" /\ Job' = job)
  <2>1. Job' = jobs'[1]
    BY <1>1 DEF Job
  <2>2. CASE jobs = <<>>
    BY <1>1, <2>1, <2>2, JobIs
  <2>3. CASE jobs # <<>>
    BY <1>1, <2>1, <2>3, JobIs
  <2> QED BY <2>2, <2>3
<1>4. Recovering \/ (job.kind = "recover" /\ ~job.stale) => Recovering'
  BY <1>1 DEF Recovering
<1> QED BY <1>1, <1>2, <1>3, <1>4

\* A disable fences off what was asked for before it.
LEMMA FencesIs ==
  ASSUME jobs \in Seq(JobRecords), QueueKept,
         jobs' = Append([i \in DOMAIN jobs |-> [jobs[i] EXCEPT !.stale = @ \/ Fenced(jobs[i])]], NewJob("disable"))
  PROVE  /\ jobs' \in Seq(JobRecords) /\ QueueKept'
         /\ \/ \E s \in BOOLEAN : Job' = [Job EXCEPT !.stale = s]
            \/ Job.at = "none" /\ Job.why = "none" /\ Job'.at = "queued" /\ Job'.why = "none"
<1> DEFINE fenced == [i \in DOMAIN jobs |-> [jobs[i] EXCEPT !.stale = @ \/ Fenced(jobs[i])]]
<1>1. \A i \in DOMAIN jobs :
        /\ fenced[i] \in JobRecords
        /\ fenced[i].at = jobs[i].at /\ fenced[i].why = jobs[i].why
        /\ \E s \in BOOLEAN : fenced[i] = [jobs[i] EXCEPT !.stale = s]
  <2> SUFFICES ASSUME NEW i \in DOMAIN jobs
               PROVE  /\ fenced[i] \in JobRecords
                      /\ fenced[i].at = jobs[i].at /\ fenced[i].why = jobs[i].why
                      /\ \E s \in BOOLEAN : fenced[i] = [jobs[i] EXCEPT !.stale = s]
    OBVIOUS
  <2>1. jobs[i] \in JobRecords
    OBVIOUS
  <2>2. (jobs[i].stale \/ Fenced(jobs[i])) \in BOOLEAN
    BY <2>1 DEF JobRecords, Fenced
  <2>3. fenced[i] = [jobs[i] EXCEPT !.stale = jobs[i].stale \/ Fenced(jobs[i])]
    OBVIOUS
  <2> HIDE DEF fenced
  <2> QED BY <2>1, <2>2, <2>3 DEF JobRecords
<1>2. fenced \in Seq(JobRecords) /\ Len(fenced) = Len(jobs) /\ DOMAIN fenced = DOMAIN jobs
  BY <1>1
<1>3. NewJob("disable") \in JobRecords /\ NewJob("disable").at = "queued" /\ NewJob("disable").why = "none"
      /\ NewJob("disable").kind = "disable"
  BY DEF NewJob, JobRecords, Codes
<1>4. jobs' = Append(fenced, NewJob("disable"))
  OBVIOUS
<1> HIDE DEF fenced
<1>5. /\ jobs' \in Seq(JobRecords) /\ DOMAIN jobs' = 1..(Len(jobs) + 1) /\ jobs' # <<>>
      /\ \A i \in DOMAIN jobs : i \in DOMAIN jobs' /\ jobs'[i] = fenced[i]
      /\ Len(jobs) + 1 \in DOMAIN jobs' /\ jobs'[Len(jobs) + 1] = NewJob("disable")
      /\ DOMAIN jobs = 1..Len(jobs)
  <2>1. /\ Append(fenced, NewJob("disable")) \in Seq(JobRecords)
        /\ DOMAIN Append(fenced, NewJob("disable")) = 1..(Len(fenced) + 1)
        /\ \A i \in DOMAIN fenced : i \in DOMAIN Append(fenced, NewJob("disable"))
                                   /\ Append(fenced, NewJob("disable"))[i] = fenced[i]
        /\ Len(fenced) + 1 \in DOMAIN Append(fenced, NewJob("disable"))
        /\ Append(fenced, NewJob("disable"))[Len(fenced) + 1] = NewJob("disable")
        /\ DOMAIN fenced = 1..Len(fenced) /\ Append(fenced, NewJob("disable")) # <<>>
    BY <1>2, <1>3, AppendIs
  <2> QED BY <1>2, <1>4, <2>1
<1>6. QueueKept'
  BY <1>1, <1>3, <1>5 DEF QueueKept
<1>7. Job' = jobs'[1]
  BY <1>5 DEF Job
<1>8. CASE jobs = <<>>
  BY <1>3, <1>5, <1>6, <1>7, <1>8, JobIs
<1>9. CASE jobs # <<>>
  <2>1. Job = jobs[1] /\ 1 \in DOMAIN jobs
    BY <1>9, JobIs
  <2>2. \E s \in BOOLEAN : Job' = [Job EXCEPT !.stale = s]
    BY <1>1, <1>5, <1>7, <2>1
  <2> QED BY <1>5, <1>6, <2>2
<1> QED BY <1>8, <1>9


----------------------------------------------------------------------------
(* What the steps do *)

\* What was asked for is still to be done, unless it is taken up.
KeepsAsked ==
  Recovering => Recovering' \/ (Job.at = "queued" /\ Job.kind = "recover" /\ ~Job.stale)
GoesOn(job) == jobs' \in Seq(JobRecords) /\ QueueKept' /\ Job' = job /\ KeepsAsked
JobEnded == jobs' \in Seq(JobRecords) /\ QueueKept' /\ Job'.at \in {"none", "queued"} /\ Job'.why = "none" /\ KeepsAsked
Joined(new) ==
  /\ jobs' \in Seq(JobRecords) /\ QueueKept' /\ (Recovering => Recovering')
  /\ Job' = Job \/ (Job.at = "none" /\ Job.why = "none" /\ Job'.at = "queued" /\ Job'.why = "none")
  /\ new = "recover" => Recovering'

LEMMA JobGoesOn ==
  ASSUME SwitchTyped, SwitchKept, Job.at # "none", NEW job \in JobRecords, Becomes(job)
  PROVE  GoesOn(job)
  BY BecomesIs DEF SwitchTyped, SwitchKept, GoesOn, KeepsAsked

LEMMA JobEnds ==
  ASSUME SwitchTyped, SwitchKept, Job.at # "none", Done
  PROVE  JobEnded
  BY DoneIs DEF SwitchTyped, SwitchKept, JobEnded, KeepsAsked

LEMMA JobJoins ==
  ASSUME SwitchTyped, SwitchKept, NEW kind \in {"enable", "switch", "retry", "recover", "refresh", "restore"},
         jobs' = Append(jobs, NewJob(kind))
  PROVE  Joined(kind)
<1>1. /\ NewJob(kind) \in JobRecords /\ NewJob(kind).at = "queued" /\ NewJob(kind).why = "none"
      /\ NewJob(kind).kind = kind /\ ~NewJob(kind).stale
  BY DEF NewJob, JobRecords, Codes
<1> QED BY <1>1, JoinsIs DEF SwitchTyped, SwitchKept, Joined

\* The job under way goes on while another joins the queue.
LEMMA GoesOnJoined ==
  ASSUME SwitchTyped, SwitchKept, Job.at # "none", NEW job \in JobRecords,
         jobs' = Append(<<job>> \o Tail(jobs), NewJob("refresh"))
  PROVE  GoesOn(job)
<1> DEFINE q == <<job>> \o Tail(jobs)
<1>1. jobs # <<>> /\ Job = jobs[1] /\ jobs \in Seq(JobRecords)
  BY JobIs DEF SwitchTyped
<1>2. /\ q \in Seq(JobRecords) /\ DOMAIN q = DOMAIN jobs /\ q[1] = job
      /\ \A i \in DOMAIN jobs : i # 1 => q[i] = jobs[i]
  BY <1>1
<1>3. NewJob("refresh") \in JobRecords /\ NewJob("refresh").at = "queued" /\ NewJob("refresh").why = "none"
  BY DEF NewJob, JobRecords, Codes
<1> HIDE DEF q
<1>4. /\ jobs' \in Seq(JobRecords) /\ jobs' # <<>> /\ jobs'[1] = job
      /\ \A i \in DOMAIN jobs : i \in DOMAIN jobs' /\ (i # 1 => jobs'[i] = jobs[i])
      /\ \A i \in DOMAIN jobs' : i \in DOMAIN jobs \/ jobs'[i] = NewJob("refresh")
  <2>1. /\ Append(q, NewJob("refresh")) \in Seq(JobRecords)
        /\ DOMAIN Append(q, NewJob("refresh")) = 1..(Len(q) + 1)
        /\ \A i \in DOMAIN q : i \in DOMAIN Append(q, NewJob("refresh")) /\ Append(q, NewJob("refresh"))[i] = q[i]
        /\ Append(q, NewJob("refresh"))[Len(q) + 1] = NewJob("refresh")
        /\ DOMAIN q = 1..Len(q) /\ Append(q, NewJob("refresh")) # <<>>
    BY <1>2, <1>3, AppendIs
  <2>2. jobs' = Append(q, NewJob("refresh"))
    BY DEF q
  <2>3. 1 \in DOMAIN jobs /\ Len(q) \in Nat
    BY <1>1, <1>2
  <2>4. jobs'[1] = job /\ jobs' \in Seq(JobRecords) /\ jobs' # <<>>
    BY <1>2, <2>1, <2>2, <2>3
  <2>5. ASSUME NEW i \in DOMAIN jobs PROVE i \in DOMAIN jobs' /\ (i # 1 => jobs'[i] = jobs[i])
    BY <1>2, <2>1, <2>2
  <2>6. ASSUME NEW i \in DOMAIN jobs' PROVE i \in DOMAIN jobs \/ jobs'[i] = NewJob("refresh")
    <3>1. i \in 1..(Len(q) + 1)
      BY <2>1, <2>2
    <3>2. i \in 1..Len(q) \/ i = Len(q) + 1
      BY <2>3, <3>1
    <3> QED BY <1>2, <2>1, <2>2, <3>2
  <2> QED BY <2>4, <2>5, <2>6
<1>5. Job' = job
  BY <1>4 DEF Job
<1>6. QueueKept'
  BY <1>3, <1>4 DEF SwitchKept, QueueKept
<1>7. KeepsAsked
  BY <1>1, <1>4 DEF KeepsAsked, Recovering
<1> QED BY <1>4, <1>5, <1>6, <1>7 DEF GoesOn

\* What Head is.
LEMMA HeadIs == ASSUME NEW S, NEW s \in Seq(S), s # <<>> PROVE Head(s) = s[1]
  OBVIOUS

\* The job under way ends while another joins the queue.
LEMMA EndsJoined ==
  ASSUME SwitchTyped, SwitchKept, Job.at # "none", jobs' = Append(Tail(jobs), NewJob("refresh"))
  PROVE  JobEnded
<1> DEFINE q == Tail(jobs)
<1>1. jobs # <<>> /\ Job = jobs[1] /\ jobs \in Seq(JobRecords) /\ QueueKept
  BY JobIs DEF SwitchTyped, SwitchKept
<1>2. /\ q \in Seq(JobRecords) /\ DOMAIN q = 1..(Len(jobs) - 1)
      /\ \A i \in DOMAIN q : i + 1 \in DOMAIN jobs /\ q[i] = jobs[i + 1]
      /\ \A i \in DOMAIN jobs : i # 1 => i - 1 \in DOMAIN q /\ q[i - 1] = jobs[i]
  BY <1>1
<1>3. NewJob("refresh") \in JobRecords /\ NewJob("refresh").at = "queued" /\ NewJob("refresh").why = "none"
  BY DEF NewJob, JobRecords, Codes
<1>4. jobs' = Append(q, NewJob("refresh"))
  OBVIOUS
<1> HIDE DEF q
<1>5. /\ jobs' \in Seq(JobRecords) /\ jobs' # <<>> /\ DOMAIN q = 1..Len(q) /\ DOMAIN jobs' = 1..(Len(q) + 1)
      /\ \A i \in DOMAIN q : i \in DOMAIN jobs' /\ jobs'[i] = q[i]
      /\ jobs'[Len(q) + 1] = NewJob("refresh")
  <2>1. /\ Append(q, NewJob("refresh")) \in Seq(JobRecords)
        /\ DOMAIN Append(q, NewJob("refresh")) = 1..(Len(q) + 1)
        /\ \A i \in DOMAIN q : i \in DOMAIN Append(q, NewJob("refresh")) /\ Append(q, NewJob("refresh"))[i] = q[i]
        /\ Append(q, NewJob("refresh"))[Len(q) + 1] = NewJob("refresh")
        /\ DOMAIN q = 1..Len(q) /\ Append(q, NewJob("refresh")) # <<>>
    BY <1>2, <1>3, AppendIs
  <2> QED BY <1>4, <2>1
<1>6. ASSUME NEW i \in DOMAIN jobs' PROVE jobs'[i].at = "queued" /\ jobs'[i].why = "none"
  <2>1. CASE i = Len(q) + 1
    BY <1>3, <1>5, <2>1
  <2>2. CASE i # Len(q) + 1
    <3>1. Len(q) \in Nat
      BY <1>2
    <3>2. i \in DOMAIN q
      BY <1>5, <2>2, <3>1
    <3>3. i + 1 \in DOMAIN jobs /\ i + 1 # 1 /\ jobs'[i] = jobs[i + 1]
      BY <1>2, <1>5, <3>2
    <3> QED BY <1>1, <3>3 DEF QueueKept
  <2> QED BY <2>1, <2>2
<1>7. QueueKept' /\ Job' = jobs'[1] /\ 1 \in DOMAIN jobs'
  <2>1. 1 \in DOMAIN jobs'
    <3>1. Len(q) \in Nat
      BY <1>2
    <3> QED BY <1>5, <3>1
  <2>2. Job' = jobs'[1]
    <3>1. jobs' \in Seq(JobRecords) /\ jobs' # <<>>
      BY <1>5
    <3>2. Job' = Head(jobs')
      BY <3>1 DEF Job
    <3>3. Head(jobs') = jobs'[1]
      BY <3>1, HeadIs
    <3> QED BY <3>2, <3>3
  <2> QED BY <1>6, <2>1, <2>2 DEF QueueKept
<1>8. KeepsAsked
  BY <1>1, <1>2, <1>5 DEF KeepsAsked, Recovering
<1> QED BY <1>5, <1>6, <1>7, <1>8 DEF JobEnded

\* The provider at rest: nothing is hosted, the ledger names the same tunnel.
LEMMA DropIs ==
  ASSUME SwitchTyped, NEW id
  PROVE  /\ Drop(id) \in SUBSET Tunnels
         /\ \A t \in Drop(id) : \E s \in cloud : t.id = s.id /\ t.account = s.account
<1> SUFFICES ASSUME NEW t \in Drop(id)
             PROVE  /\ t \in Tunnels
                    /\ \E s \in cloud : t.id = s.id /\ t.account = s.account
  OBVIOUS
<1>1. PICK s \in cloud : t = [s EXCEPT !.hosted = @ /\ s.id # id]
  BY DEF Drop
<1>2. s \in Tunnels
  BY DEF SwitchTyped
<1>3. (s.hosted /\ s.id # id) \in BOOLEAN
  OBVIOUS
<1> QED BY <1>1, <1>2, <1>3 DEF Tunnels

LEMMA SdkStopsIs ==
  ASSUME SwitchTyped, SdkStops
  PROVE  /\ cloud' \in SUBSET Tunnels
         /\ \A t \in cloud' : \E s \in cloud : t.id = s.id /\ t.account = s.account
         /\ owned' \in OwnTunnels \cup {NoTunnel}
         /\ owned'.id = owned.id /\ (owned.id # 0 => owned'.account = owned.account)
         /\ sdk' = [status |-> "stopped", host |-> 0, cut |-> TRUE] /\ sdk' \in ProviderRecords /\ legacy' = legacy
<1>1. /\ cloud' \in SUBSET Tunnels
      /\ \A t \in cloud' : \E s \in cloud : t.id = s.id /\ t.account = s.account
  BY DropIs DEF SdkStops
<1>2. /\ owned' \in OwnTunnels \cup {NoTunnel}
      /\ owned'.id = owned.id /\ (owned.id # 0 => owned'.account = owned.account)
  BY DEF SwitchTyped, SdkStops, Rests, OwnTunnels, NoTunnel, TunnelIds
<1> QED BY <1>1, <1>2 DEF SdkStops, ProviderRecords

\* A recovery is scheduled, unless it is not wanted, or was tried often enough.
LEMMA SchedulesIs ==
  ASSUME SwitchTyped, NEW wanted \in BOOLEAN, Schedules(wanted)
  PROVE  /\ timer' \in {"off", "set"} /\ attempts' \in 0..MaxRecoveries
         /\ wanted /\ ConnectionsEnabled => timer' = "set" \/ attempts' = MaxRecoveries
         /\ timer = "set" => timer' = "set"
         /\ attempts = MaxRecoveries => attempts' = MaxRecoveries
  BY RecoveriesAssumption DEF SwitchTyped, Schedules, Recovers

\* How enableConnections ends when it fails.
LEMMA EndsBadlyIs ==
  ASSUME SwitchTyped, NEW code \in Codes, EndsBadly(code),
         saved'.pending \in BOOLEAN, code = "cleanup" => saved'.pending
  PROVE  /\ conn' \in {"cleanupPending", "authRequired", "disabled", "error"}
         /\ conn' = "disabled" => ~saved'.enabled /\ ~saved'.pending
         /\ failed' \in Codes /\ timer' \in {"off", "set"} /\ attempts' \in 0..MaxRecoveries
         /\ conn' = "error" /\ ConnectionsEnabled => timer' = "set" \/ attempts' = MaxRecoveries
<1>1. failed' \in Codes
  BY DEF EndsBadly, Reports, SwitchTyped
<1>2. /\ conn' \in {"cleanupPending", "authRequired", "disabled", "error"}
      /\ conn' = "disabled" => ~saved'.enabled /\ ~saved'.pending
      /\ conn' = "error" => ~IsAuth(code) /\ code # "cleanup" /\ (code # "cancelled" \/ Job.accountReady)
  BY DEF EndsBadly
<1>3. (~IsAuth(code) /\ code # "cleanup" /\ (code # "cancelled" \/ Job.accountReady)) \in BOOLEAN
  BY JobIs DEF IsAuth, SwitchTyped, JobRecords
<1>4. Schedules(~IsAuth(code) /\ code # "cleanup" /\ (code # "cancelled" \/ Job.accountReady))
  BY DEF EndsBadly
<1>5. /\ timer' \in {"off", "set"} /\ attempts' \in 0..MaxRecoveries
      /\ conn' = "error" /\ ConnectionsEnabled => timer' = "set" \/ attempts' = MaxRecoveries
  BY <1>2, <1>3, <1>4, SchedulesIs
<1> QED BY <1>1, <1>2, <1>5

----------------------------------------------------------------------------
(* Failures *)

USE DEF settings, remote, local, SwitchTyped, SwitchKept, Cleaning, Launching, GoesOn, JobEnded, KeepsAsked, SavedRecords, ListenerRecords, ProviderRecords, StageKept, ConnectionsEnabled, Codes


\* An enable that fails before the listener was started.
LEMMA FailsEarlyKeeps ==
  ASSUME SwitchTyped, SwitchKept, Job.at \in {"account", "mark", "cleaned"}, Job.why = "enable",
         NEW code \in Codes, code = "cleanup" => saved.pending, FailsEarly(code)
  PROVE  SwitchTyped' /\ SwitchKept'
<1>1. Job \in JobRecords
  BY JobIs
<1>2. saved' = saved /\ file' = file /\ saved'.pending \in BOOLEAN /\ EndsBadly(code)
  BY DEF FailsEarly
<1>3. Job.at # "none" /\ (code = "cleanup" => saved'.pending)
  BY <1>2
<1>4. JobEnded
  BY <1>3, JobEnds DEF FailsEarly
<1>5. /\ conn' \in {"cleanupPending", "authRequired", "disabled", "error"}
      /\ conn' = "disabled" => ~saved'.enabled /\ ~saved'.pending
      /\ failed' \in Codes /\ timer' \in {"off", "set"} /\ attempts' \in 0..MaxRecoveries
      /\ conn' = "error" /\ ConnectionsEnabled => timer' = "set" \/ attempts' = MaxRecoveries
  BY <1>2, <1>3, EndsBadlyIs
<1>6. SwitchTyped'
  BY <1>1, <1>2, <1>3, <1>4, <1>5 DEF FailsEarly
<1>7. StageKept'
  BY <1>1, <1>2, <1>3, <1>4, <1>5 DEF FailsEarly
<1>8. ShownKept'
  BY <1>1, <1>2, <1>3, <1>4, <1>5 DEF FailsEarly, ShownKept
<1>9. LedgerKept'
  BY <1>1, <1>2, <1>3, <1>4, <1>5 DEF FailsEarly, Tunnels, LedgerKept, NoTunnel
<1>10. HostKept'
  BY <1>1, <1>2, <1>3, <1>4, <1>5 DEF FailsEarly, HostKept
<1>11. DisabledKept'
  BY <1>1, <1>2, <1>3, <1>4, <1>5 DEF FailsEarly, ShownKept, LedgerKept, HostKept, DisabledKept, Restoring
<1>12. RecoveryKept'
  BY <1>1, <1>2, <1>3, <1>4, <1>5 DEF FailsEarly, ShownKept, RecoveryKept
<1>13. LegacyKept'
  BY <1>1, <1>2, <1>3, <1>4, <1>5 DEF FailsEarly, ShownKept, LegacyKept
<1> QED BY <1>2, <1>3, <1>4, <1>5, <1>6, <1>7, <1>8, <1>9, <1>10, <1>11, <1>12, <1>13

\* One that fails afterwards cleans up.
LEMMA FailsLateKeeps ==
  ASSUME SwitchTyped, SwitchKept, Job.at \in Launching, NEW code \in Codes, code # "cleanup", FailsLate(code),
         SdkStops \/ (UNCHANGED <<owned, legacy, sdk>> /\ cloud' = cloud), lst'.gateway => lst.gateway, lst'.stuck = lst.stuck,
         lst' \in ListenerRecords
  PROVE  SwitchTyped' /\ SwitchKept'
<1>1. Job \in JobRecords
  BY JobIs
<1>2. [Job EXCEPT !.at = "failing", !.bad = "none", !.code = code] \in JobRecords
  BY <1>1 DEF JobRecords
<1>3. GoesOn([Job EXCEPT !.at = "failing", !.bad = "none", !.code = code])
  BY <1>1, <1>2, JobGoesOn DEF FailsLate
<1>4. /\ cloud' \in SUBSET Tunnels
      /\ \A t \in cloud' : \E s \in cloud : t.id = s.id /\ t.account = s.account
      /\ owned' \in OwnTunnels \cup {NoTunnel}
      /\ owned'.id = owned.id /\ (owned.id # 0 => owned'.account = owned.account)
      /\ legacy' = legacy
      /\ sdk' = [status |-> "stopped", host |-> 0, cut |-> TRUE] \/ sdk' = sdk
      /\ sdk' \in ProviderRecords
  BY SdkStopsIs
<1>5. saved' \in SavedRecords /\ file' \in SavedRecords
  BY <1>1 DEF FailsLate
<1>6. SwitchTyped'
  BY <1>1, <1>2, <1>3, <1>4, <1>5 DEF FailsLate
<1>7. StageKept'
  BY <1>1, <1>2, <1>3, <1>4, <1>5 DEF FailsLate
<1>8. ShownKept'
  BY <1>1, <1>2, <1>3, <1>4, <1>5 DEF FailsLate, ShownKept
<1>9. LedgerKept'
  BY <1>1, <1>2, <1>3, <1>4, <1>5 DEF FailsLate, Tunnels, LedgerKept, NoTunnel
<1>10. HostKept'
  BY <1>1, <1>2, <1>3, <1>4, <1>5 DEF FailsLate, HostKept
<1>11. DisabledKept'
  BY <1>1, <1>2, <1>3, <1>4, <1>5 DEF FailsLate, ShownKept, LedgerKept, HostKept, DisabledKept, Restoring
<1>12. RecoveryKept'
  BY <1>1, <1>2, <1>3, <1>4, <1>5 DEF FailsLate, ShownKept, RecoveryKept
<1>13. LegacyKept'
  BY <1>1, <1>2, <1>3, <1>4, <1>5 DEF FailsLate, ShownKept, LegacyKept
<1> QED BY <1>2, <1>3, <1>4, <1>5, <1>6, <1>7, <1>8, <1>9, <1>10, <1>11, <1>12, <1>13

\* A start that fails brings host, gateway and ledger to rest.
LEMMA StartFailsKeeps ==
  ASSUME SwitchTyped, SwitchKept, Job.at \in Launching, NEW code \in Codes, code # "cleanup", StartFails(code)
  PROVE  SwitchTyped' /\ SwitchKept'
<1>1. lst' \in ListenerRecords /\ ~lst'.gateway /\ lst'.stuck = lst.stuck
  BY DEF StartFails
<1> QED BY <1>1, FailsLateKeeps DEF StartFails

----------------------------------------------------------------------------
(* The actions *)


\* What is asked for joins the queue; a disable stops what is under way.
LEMMA AsksKeeps ==
  ASSUME SwitchTyped, SwitchKept, NEW kind \in {"enable", "disable", "switch", "retry"}, Asks(kind)
  PROVE  SwitchTyped' /\ SwitchKept'
<1>1. Job \in JobRecords
  BY JobIs
<1>2. CASE kind = "disable"
  <2>1. /\ jobs' \in Seq(JobRecords) /\ QueueKept'
        /\ \/ \E s \in BOOLEAN : Job' = [Job EXCEPT !.stale = s]
           \/ Job.at = "none" /\ Job.why = "none" /\ Job'.at = "queued" /\ Job'.why = "none"
    BY <1>1, <1>2, FencesIs DEF Asks
  <2>2. (Job'.at = Job.at /\ Job'.why = Job.why /\ Job'.bad = Job.bad /\ Job'.code = Job.code /\ Job'.kind = Job.kind) \/ (Job.at = "none" /\ Job.why = "none" /\ Job'.at = "queued" /\ Job'.why = "none")
    BY <1>1, <1>2, <2>1 DEF JobRecords
  <2>3. sdk' \in ProviderRecords
    BY <1>1, <1>2 DEF Asks
  <2>4. SwitchTyped'
    BY <1>1, <1>2, <2>1, <2>2, <2>3 DEF Asks
  <2>5. StageKept'
    BY <1>1, <1>2, <2>1, <2>2, <2>3 DEF Asks
  <2>6. ShownKept'
    BY <1>1, <1>2, <2>1, <2>2, <2>3 DEF Asks, ShownKept
  <2>7. LedgerKept'
    BY <1>1, <1>2, <2>1, <2>2, <2>3 DEF Asks, Tunnels, LedgerKept, NoTunnel
  <2>8. HostKept'
    BY <1>1, <1>2, <2>1, <2>2, <2>3 DEF Asks, HostKept
  <2>9. DisabledKept'
    BY <1>1, <1>2, <2>1, <2>2, <2>3 DEF Asks, ShownKept, LedgerKept, HostKept, DisabledKept, Restoring
  <2>10. RecoveryKept'
    BY <1>1, <1>2, <2>1, <2>2, <2>3 DEF Asks, ShownKept, RecoveryKept
  <2>11. LegacyKept'
    BY <1>1, <1>2, <2>1, <2>2, <2>3 DEF Asks, ShownKept, LegacyKept
  <2> QED BY <2>1, <2>2, <2>3, <2>4, <2>5, <2>6, <2>7, <2>8, <2>9, <2>10, <2>11
<1>3. CASE kind # "disable"
  <2>1. Joined(kind)
    BY <1>1, <1>3, JobJoins DEF Asks
  <2>2. SwitchTyped'
    BY <1>1, <1>3, <2>1 DEF Asks, Joined
  <2>3. StageKept'
    BY <1>1, <1>3, <2>1 DEF Asks, Joined
  <2>4. ShownKept'
    BY <1>1, <1>3, <2>1 DEF Asks, Joined, ShownKept
  <2>5. LedgerKept'
    BY <1>1, <1>3, <2>1 DEF Asks, Joined, Tunnels, LedgerKept, NoTunnel
  <2>6. HostKept'
    BY <1>1, <1>3, <2>1 DEF Asks, Joined, HostKept
  <2>7. DisabledKept'
    BY <1>1, <1>3, <2>1 DEF Asks, Joined, ShownKept, LedgerKept, HostKept, DisabledKept, Restoring
  <2>8. RecoveryKept'
    BY <1>1, <1>3, <2>1 DEF Asks, Joined, ShownKept, RecoveryKept
  <2>9. LegacyKept'
    BY <1>1, <1>3, <2>1 DEF Asks, Joined, ShownKept, LegacyKept
  <2> QED BY <2>1, <2>2, <2>3, <2>4, <2>5, <2>6, <2>7, <2>8, <2>9 DEF Joined
<1> QED BY <1>2, <1>3

\* A sign-out during an enable is for that enable to notice.
LEMMA SignsOutKeeps ==
  ASSUME SwitchTyped, SwitchKept, NEW a \in Accounts, SignsOut(a)
  PROVE  SwitchTyped' /\ SwitchKept'
<1>1. Job \in JobRecords
  BY JobIs
<1>2. CASE jobs' = jobs
  <2>1. /\ jobs' = jobs /\ QueueKept' /\ Job' = Job /\ (Recovering => Recovering')
    BY <1>1, <1>2 DEF SignsOut, QueueKept, Job, Recovering
  <2>2. SwitchTyped'
    BY <1>1, <1>2, <2>1 DEF SignsOut
  <2>3. StageKept'
    BY <1>1, <1>2, <2>1 DEF SignsOut
  <2>4. ShownKept'
    BY <1>1, <1>2, <2>1 DEF SignsOut, ShownKept
  <2>5. LedgerKept'
    BY <1>1, <1>2, <2>1 DEF SignsOut, Tunnels, LedgerKept, NoTunnel
  <2>6. HostKept'
    BY <1>1, <1>2, <2>1 DEF SignsOut, HostKept
  <2>7. DisabledKept'
    BY <1>1, <1>2, <2>1 DEF SignsOut, ShownKept, LedgerKept, HostKept, DisabledKept, Restoring
  <2>8. RecoveryKept'
    BY <1>1, <1>2, <2>1 DEF SignsOut, ShownKept, RecoveryKept
  <2>9. LegacyKept'
    BY <1>1, <1>2, <2>1 DEF SignsOut, ShownKept, LegacyKept
  <2> QED BY <2>1, <2>2, <2>3, <2>4, <2>5, <2>6, <2>7, <2>8, <2>9
<1>3. CASE jobs' = Append(jobs, NewJob("refresh"))
  <2>1. Joined("refresh")
    BY <1>1, <1>3, JobJoins DEF SignsOut
  <2>2. SwitchTyped'
    BY <1>1, <1>3, <2>1 DEF SignsOut, Joined
  <2>3. StageKept'
    BY <1>1, <1>3, <2>1 DEF SignsOut, Joined
  <2>4. ShownKept'
    BY <1>1, <1>3, <2>1 DEF SignsOut, Joined, ShownKept
  <2>5. LedgerKept'
    BY <1>1, <1>3, <2>1 DEF SignsOut, Joined, Tunnels, LedgerKept, NoTunnel
  <2>6. HostKept'
    BY <1>1, <1>3, <2>1 DEF SignsOut, Joined, HostKept
  <2>7. DisabledKept'
    BY <1>1, <1>3, <2>1 DEF SignsOut, Joined, ShownKept, LedgerKept, HostKept, DisabledKept, Restoring
  <2>8. RecoveryKept'
    BY <1>1, <1>3, <2>1 DEF SignsOut, Joined, ShownKept, RecoveryKept
  <2>9. LegacyKept'
    BY <1>1, <1>3, <2>1 DEF SignsOut, Joined, ShownKept, LegacyKept
  <2> QED BY <2>1, <2>2, <2>3, <2>4, <2>5, <2>6, <2>7, <2>8, <2>9 DEF Joined
<1> QED BY <1>2, <1>3 DEF SignsOut, AccountEvent

\* The timer puts a recovery into the queue.
LEMMA TimerFiresKeeps ==
  ASSUME SwitchTyped, SwitchKept, TimerFires
  PROVE  SwitchTyped' /\ SwitchKept'
<1>1. Job \in JobRecords
  BY JobIs
<1>2. Joined("recover")
  BY <1>1, JobJoins DEF TimerFires
<1>3. SwitchTyped'
  BY <1>1, <1>2 DEF TimerFires, Joined
<1>4. StageKept'
  BY <1>1, <1>2 DEF TimerFires, Joined
<1>5. ShownKept'
  BY <1>1, <1>2 DEF TimerFires, Joined, ShownKept
<1>6. LedgerKept'
  BY <1>1, <1>2 DEF TimerFires, Joined, Tunnels, LedgerKept, NoTunnel
<1>7. HostKept'
  BY <1>1, <1>2 DEF TimerFires, Joined, HostKept
<1>8. DisabledKept'
  BY <1>1, <1>2 DEF TimerFires, Joined, ShownKept, LedgerKept, HostKept, DisabledKept, Restoring
<1>9. RecoveryKept'
  BY <1>1, <1>2 DEF TimerFires, Joined, ShownKept, RecoveryKept
<1>10. LegacyKept'
  BY <1>1, <1>2 DEF TimerFires, Joined, ShownKept, LegacyKept
<1> QED BY <1>2, <1>3, <1>4, <1>5, <1>6, <1>7, <1>8, <1>9, <1>10 DEF Joined

\* An enable begins, unless it was given up or has nothing to do.
LEMMA BeginsEnableKeeps ==
  ASSUME SwitchTyped, SwitchKept, BeginsEnable
  PROVE  SwitchTyped' /\ SwitchKept'
<1>1. Job \in JobRecords
  BY JobIs
<1>2. CASE Job.stale
  <2>1. JobEnded
    BY <1>1, <1>2, JobEnds DEF BeginsEnable
  <2>2. SwitchTyped'
    <3> HIDE DEF SavedRecords, ListenerRecords, ProviderRecords
    <3> QED BY <1>1, <1>2, <2>1 DEF BeginsEnable
  <2>3. StageKept'
    BY <1>1, <1>2, <2>1 DEF BeginsEnable
  <2>4. ShownKept'
    BY <1>1, <1>2, <2>1 DEF BeginsEnable, ShownKept
  <2>5. LedgerKept'
    BY <1>1, <1>2, <2>1 DEF BeginsEnable, Tunnels, LedgerKept, NoTunnel
  <2>6. HostKept'
    BY <1>1, <1>2, <2>1 DEF BeginsEnable, HostKept
  <2>7. DisabledKept'
    BY <1>1, <1>2, <2>1 DEF BeginsEnable, ShownKept, LedgerKept, HostKept, DisabledKept, Restoring
  <2>8. RecoveryKept'
    BY <1>1, <1>2, <2>1 DEF BeginsEnable, ShownKept, RecoveryKept
  <2>9. LegacyKept'
    BY <1>1, <1>2, <2>1 DEF BeginsEnable, ShownKept, LegacyKept
  <2> QED BY <2>1, <2>2, <2>3, <2>4, <2>5, <2>6, <2>7, <2>8, <2>9
<1>3. CASE ~Job.stale /\ ConnectionsEnabled /\ conn = "online"
  <2>1. JobEnded
    BY <1>1, <1>3, JobEnds DEF BeginsEnable
  <2>2. SwitchTyped'
    <3> HIDE DEF SavedRecords, ListenerRecords, ProviderRecords
    <3> QED BY <1>1, <1>3, <2>1 DEF BeginsEnable
  <2>3. StageKept'
    BY <1>1, <1>3, <2>1 DEF BeginsEnable
  <2>4. ShownKept'
    BY <1>1, <1>3, <2>1 DEF BeginsEnable, ShownKept
  <2>5. LedgerKept'
    BY <1>1, <1>3, <2>1 DEF BeginsEnable, Tunnels, LedgerKept, NoTunnel
  <2>6. HostKept'
    BY <1>1, <1>3, <2>1 DEF BeginsEnable, HostKept
  <2>7. DisabledKept'
    BY <1>1, <1>3, <2>1 DEF BeginsEnable, ShownKept, LedgerKept, HostKept, DisabledKept, Restoring
  <2>8. RecoveryKept'
    BY <1>1, <1>3, <2>1 DEF BeginsEnable, ShownKept, RecoveryKept
  <2>9. LegacyKept'
    BY <1>1, <1>3, <2>1 DEF BeginsEnable, ShownKept, LegacyKept
  <2> QED BY <2>1, <2>2, <2>3, <2>4, <2>5, <2>6, <2>7, <2>8, <2>9
<1>4. CASE ~Job.stale /\ ~(ConnectionsEnabled /\ conn = "online")
  <2>1. [Job EXCEPT !.at = "account", !.why = "enable", !.code = failed] \in JobRecords
    BY <1>1, <1>4 DEF JobRecords
  <2>2. GoesOn([Job EXCEPT !.at = "account", !.why = "enable", !.code = failed])
    BY <1>1, <1>4, <2>1, JobGoesOn DEF BeginsEnable
  <2>3. failed' = "none" /\ conn' = "authenticating" /\ timer' = "off" /\ attempts' \in 0..MaxRecoveries
    BY <1>1, <1>4, RecoveriesAssumption DEF BeginsEnable
  <2>4. SwitchTyped'
    <3> HIDE DEF SavedRecords, ListenerRecords, ProviderRecords
    <3> QED BY <1>1, <1>4, <2>1, <2>2, <2>3 DEF BeginsEnable
  <2>5. StageKept'
    BY <1>1, <1>4, <2>1, <2>2, <2>3 DEF BeginsEnable
  <2>6. ShownKept'
    BY <1>1, <1>4, <2>1, <2>2, <2>3 DEF BeginsEnable, ShownKept
  <2>7. LedgerKept'
    BY <1>1, <1>4, <2>1, <2>2, <2>3 DEF BeginsEnable, Tunnels, LedgerKept, NoTunnel
  <2>8. HostKept'
    BY <1>1, <1>4, <2>1, <2>2, <2>3 DEF BeginsEnable, HostKept
  <2>9. DisabledKept'
    BY <1>1, <1>4, <2>1, <2>2, <2>3 DEF BeginsEnable, ShownKept, LedgerKept, HostKept, DisabledKept, Restoring
  <2>10. RecoveryKept'
    BY <1>1, <1>4, <2>1, <2>2, <2>3 DEF BeginsEnable, ShownKept, RecoveryKept
  <2>11. LegacyKept'
    BY <1>1, <1>4, <2>1, <2>2, <2>3 DEF BeginsEnable, ShownKept, LegacyKept
  <2> QED BY <2>1, <2>2, <2>3, <2>4, <2>5, <2>6, <2>7, <2>8, <2>9, <2>10, <2>11
<1> QED BY <1>2, <1>3, <1>4

\* A pointless job ends.
LEMMA SkipsKeeps ==
  ASSUME SwitchTyped, SwitchKept, Skips
  PROVE  SwitchTyped' /\ SwitchKept'
<1>1. Job \in JobRecords
  BY JobIs
<1>2. JobEnded
  BY <1>1, JobEnds DEF Skips
<1>3. SwitchTyped'
  BY <1>1, <1>2 DEF Skips
<1>4. StageKept'
  BY <1>1, <1>2 DEF Skips
<1>5. ShownKept'
  BY <1>1, <1>2 DEF Skips, ShownKept
<1>6. LedgerKept'
  BY <1>1, <1>2 DEF Skips, Tunnels, LedgerKept, NoTunnel
<1>7. HostKept'
  BY <1>1, <1>2 DEF Skips, HostKept
<1>8. DisabledKept'
  BY <1>1, <1>2 DEF Skips, ShownKept, LedgerKept, HostKept, DisabledKept, Restoring
<1>9. RecoveryKept'
  BY <1>1, <1>2 DEF Skips, ShownKept, RecoveryKept
<1>10. LegacyKept'
  BY <1>1, <1>2 DEF Skips, ShownKept, LegacyKept
<1> QED BY <1>2, <1>3, <1>4, <1>5, <1>6, <1>7, <1>8, <1>9, <1>10

\* A request is refused at its turn.
LEMMA RefusesJobKeeps ==
  ASSUME SwitchTyped, SwitchKept, RefusesJob
  PROVE  SwitchTyped' /\ SwitchKept'
<1>1. Job \in JobRecords
  BY JobIs
<1>2. JobEnded
  BY <1>1, JobEnds DEF RefusesJob, Throws
<1>3. SwitchTyped'
  BY <1>1, <1>2 DEF RefusesJob, Throws
<1>4. StageKept'
  BY <1>1, <1>2 DEF RefusesJob, Throws
<1>5. ShownKept'
  BY <1>1, <1>2 DEF RefusesJob, Throws, ShownKept
<1>6. LedgerKept'
  BY <1>1, <1>2 DEF RefusesJob, Throws, Tunnels, LedgerKept, NoTunnel
<1>7. HostKept'
  BY <1>1, <1>2 DEF RefusesJob, Throws, HostKept
<1>8. DisabledKept'
  BY <1>1, <1>2 DEF RefusesJob, Throws, ShownKept, LedgerKept, HostKept, DisabledKept, Restoring
<1>9. RecoveryKept'
  BY <1>1, <1>2 DEF RefusesJob, Throws, ShownKept, RecoveryKept
<1>10. LegacyKept'
  BY <1>1, <1>2 DEF RefusesJob, Throws, ShownKept, LegacyKept
<1> QED BY <1>2, <1>3, <1>4, <1>5, <1>6, <1>7, <1>8, <1>9, <1>10

\* A cleanup that is pending gets an account first.
LEMMA BeginsCleanupKeeps ==
  ASSUME SwitchTyped, SwitchKept, BeginsCleanup
  PROVE  SwitchTyped' /\ SwitchKept'
<1>1. Job \in JobRecords
  BY JobIs
<1>2. [Job EXCEPT !.at = "account", !.why = "disable", !.code = failed] \in JobRecords
  BY <1>1 DEF JobRecords
<1>3. GoesOn([Job EXCEPT !.at = "account", !.why = "disable", !.code = failed])
  BY <1>1, <1>2, JobGoesOn DEF BeginsCleanup
<1>4. SwitchTyped'
  BY <1>1, <1>2, <1>3 DEF BeginsCleanup
<1>5. StageKept'
  BY <1>1, <1>2, <1>3 DEF BeginsCleanup
<1>6. ShownKept'
  BY <1>1, <1>2, <1>3 DEF BeginsCleanup, ShownKept
<1>7. LedgerKept'
  BY <1>1, <1>2, <1>3 DEF BeginsCleanup, Tunnels, LedgerKept, NoTunnel
<1>8. HostKept'
  BY <1>1, <1>2, <1>3 DEF BeginsCleanup, HostKept
<1>9. DisabledKept'
  BY <1>1, <1>2, <1>3 DEF BeginsCleanup, ShownKept, LedgerKept, HostKept, DisabledKept, Restoring
<1>10. RecoveryKept'
  BY <1>1, <1>2, <1>3 DEF BeginsCleanup, ShownKept, RecoveryKept
<1>11. LegacyKept'
  BY <1>1, <1>2, <1>3 DEF BeginsCleanup, ShownKept, LegacyKept
<1> QED BY <1>2, <1>3, <1>4, <1>5, <1>6, <1>7, <1>8, <1>9, <1>10, <1>11

\* A disable begins with the settings.
LEMMA BeginsDisableKeeps ==
  ASSUME SwitchTyped, SwitchKept, BeginsDisable
  PROVE  SwitchTyped' /\ SwitchKept'
<1>1. Job \in JobRecords
  BY JobIs
<1>2. CASE saved' = [saved EXCEPT !.enabled = FALSE, !.pending = TRUE] /\ file' = saved' /\ failed' = failed /\ Becomes([Job EXCEPT !.at = "stopping", !.why = "disable", !.bad = "none"])
  <2>1. [Job EXCEPT !.at = "stopping", !.why = "disable", !.bad = "none"] \in JobRecords
    BY <1>1, <1>2 DEF JobRecords
  <2>2. GoesOn([Job EXCEPT !.at = "stopping", !.why = "disable", !.bad = "none"])
    BY <1>1, <1>2, <2>1, JobGoesOn DEF BeginsDisable
  <2>3. saved' \in SavedRecords /\ file' \in SavedRecords
    BY <1>1, <1>2 DEF BeginsDisable
  <2>4. Job.at # "none" /\ stopped' = TRUE /\ timer' = "off" /\ conn' = "stopping" /\ sdk' = [sdk EXCEPT !.cut = TRUE]
        /\ UNCHANGED <<remote, signedIn, attempts, lst, asked>>
    BY DEF BeginsDisable
  <2>5. sdk' \in ProviderRecords
    BY <1>1, <1>2 DEF BeginsDisable
  <2>6. SwitchTyped'
    BY <1>1, <1>2, <2>1, <2>2, <2>3, <2>4, <2>5
  <2>7. StageKept'
    BY <1>1, <1>2, <2>1, <2>2, <2>3, <2>4, <2>5
  <2>8. ShownKept'
    BY <1>1, <1>2, <2>1, <2>2, <2>3, <2>4, <2>5 DEF ShownKept
  <2>9. LedgerKept'
    BY <1>1, <1>2, <2>1, <2>2, <2>3, <2>4, <2>5 DEF Tunnels, LedgerKept, NoTunnel
  <2>10. HostKept'
    BY <1>1, <1>2, <2>1, <2>2, <2>3, <2>4, <2>5 DEF HostKept
  <2>11. DisabledKept'
    BY <1>1, <1>2, <2>1, <2>2, <2>3, <2>4, <2>5 DEF ShownKept, LedgerKept, HostKept, DisabledKept, Restoring
  <2>12. RecoveryKept'
    BY <1>1, <1>2, <2>1, <2>2, <2>3, <2>4, <2>5 DEF ShownKept, RecoveryKept
  <2>13. LegacyKept'
    BY <1>1, <1>2, <2>1, <2>2, <2>3, <2>4, <2>5 DEF ShownKept, LegacyKept
  <2> QED BY <2>1, <2>2, <2>3, <2>4, <2>5, <2>6, <2>7, <2>8, <2>9, <2>10, <2>11, <2>12, <2>13
<1>3. CASE saved' = saved /\ file' \in {file, [saved EXCEPT !.enabled = FALSE, !.pending = TRUE]} /\ Throws("other")
  <2>1. JobEnded
    BY <1>1, <1>3, JobEnds DEF BeginsDisable, Throws
  <2>2. saved' \in SavedRecords /\ file' \in SavedRecords
    BY <1>1, <1>3 DEF BeginsDisable
  <2>3. Job.at # "none" /\ stopped' = TRUE /\ timer' = "off" /\ conn' = "stopping" /\ sdk' = [sdk EXCEPT !.cut = TRUE]
        /\ UNCHANGED <<remote, signedIn, attempts, lst, asked>>
    BY DEF BeginsDisable
  <2>4. sdk' \in ProviderRecords
    BY <1>1, <1>3 DEF BeginsDisable
  <2>5. SwitchTyped'
    BY <1>1, <1>3, <2>1, <2>2, <2>3, <2>4 DEF Throws
  <2>6. StageKept'
    BY <1>1, <1>3, <2>1, <2>2, <2>3, <2>4 DEF Throws
  <2>7. ShownKept'
    BY <1>1, <1>3, <2>1, <2>2, <2>3, <2>4 DEF Throws, ShownKept
  <2>8. LedgerKept'
    BY <1>1, <1>3, <2>1, <2>2, <2>3, <2>4 DEF Throws, Tunnels, LedgerKept, NoTunnel
  <2>9. HostKept'
    BY <1>1, <1>3, <2>1, <2>2, <2>3, <2>4 DEF Throws, HostKept
  <2>10. DisabledKept'
    BY <1>1, <1>3, <2>1, <2>2, <2>3, <2>4 DEF Throws, ShownKept, LedgerKept, HostKept, DisabledKept, Restoring
  <2>11. RecoveryKept'
    BY <1>1, <1>3, <2>1, <2>2, <2>3, <2>4 DEF Throws, ShownKept, RecoveryKept
  <2>12. LegacyKept'
    BY <1>1, <1>3, <2>1, <2>2, <2>3, <2>4 DEF Throws, ShownKept, LegacyKept
  <2> QED BY <2>1, <2>2, <2>3, <2>4, <2>5, <2>6, <2>7, <2>8, <2>9, <2>10, <2>11, <2>12
<1> QED BY <1>2, <1>3 DEF BeginsDisable, Writes, WriteThrows

\* The account of the settings authorizes.
LEMMA UsesAccountKeeps ==
  ASSUME SwitchTyped, SwitchKept, UsesAccount
  PROVE  SwitchTyped' /\ SwitchKept'
<1>1. Job \in JobRecords
  BY JobIs
<1>2. HasAccount = [Job EXCEPT !.at = IF Job.why = "enable" THEN "mark" ELSE "disable", !.accountReady = TRUE]
  BY DEF HasAccount
<1>3. HasAccount \in JobRecords
  BY <1>1, <1>2 DEF JobRecords
<1>4. GoesOn(HasAccount)
  BY <1>3, JobGoesOn DEF UsesAccount
<1>5. SwitchTyped'
  BY <1>1, <1>2, <1>3, <1>4 DEF UsesAccount
<1>6. StageKept'
  BY <1>1, <1>2, <1>3, <1>4 DEF UsesAccount
<1>7. ShownKept'
  BY <1>1, <1>2, <1>3, <1>4 DEF UsesAccount, ShownKept
<1>8. LedgerKept'
  BY <1>1, <1>2, <1>3, <1>4 DEF UsesAccount, Tunnels, LedgerKept, NoTunnel
<1>9. HostKept'
  BY <1>1, <1>2, <1>3, <1>4 DEF UsesAccount, HostKept
<1>10. DisabledKept'
  BY <1>1, <1>2, <1>3, <1>4 DEF UsesAccount, ShownKept, LedgerKept, HostKept, DisabledKept, Restoring
<1>11. RecoveryKept'
  BY <1>1, <1>2, <1>3, <1>4 DEF UsesAccount, ShownKept, RecoveryKept
<1>12. LegacyKept'
  BY <1>1, <1>2, <1>3, <1>4 DEF UsesAccount, ShownKept, LegacyKept
<1> QED BY <1>2, <1>3, <1>4, <1>5, <1>6, <1>7, <1>8, <1>9, <1>10, <1>11, <1>12

\* The user chooses an account, that of a tunnel left behind if there is one.
LEMMA SelectsAccountKeeps ==
  ASSUME SwitchTyped, SwitchKept, NEW a \in Accounts, SelectsAccount(a)
  PROVE  SwitchTyped' /\ SwitchKept'
<1>1. Job \in JobRecords
  BY JobIs
<1>2. CASE UNCHANGED <<conn, failed, timer, attempts>> /\ Writes([saved EXCEPT !.account = a]) /\ AccountEvent(<<HasAccount>> \o Tail(jobs))
  <2>1. HasAccount = [Job EXCEPT !.at = IF Job.why = "enable" THEN "mark" ELSE "disable", !.accountReady = TRUE]
    BY DEF HasAccount
  <2>2. HasAccount \in JobRecords
    BY <1>1, <1>2, <2>1 DEF JobRecords
  <2>3. Becomes(HasAccount) \/ jobs' = Append(<<HasAccount>> \o Tail(jobs), NewJob("refresh"))
    BY <1>1, <1>2 DEF AccountEvent, Becomes
  <2>4. GoesOn(HasAccount)
    BY <2>2, <2>3, JobGoesOn, GoesOnJoined DEF SelectsAccount
  <2>5. saved' \in {saved, [saved EXCEPT !.account = a]} /\ file' \in {file, [saved EXCEPT !.account = a]} /\ (owned.id # 0 => owned.account = a) /\ cloud' = cloud /\ owned' = owned
    BY <1>1, <1>2 DEF SelectsAccount, Writes, WriteThrows
  <2>6. cloud # {} => owned.id # 0 /\ saved.account = a
    BY <2>5 DEF LedgerKept, Tunnels, TunnelIds
  <2>7. saved' \in SavedRecords /\ file' \in SavedRecords
    BY <2>5
  <2>8. SwitchTyped'
    BY <1>1, <1>2, <2>1, <2>2, <2>3, <2>4, <2>5, <2>6, <2>7 DEF SelectsAccount, Writes
  <2>9. StageKept'
    BY <1>1, <1>2, <2>1, <2>2, <2>3, <2>4, <2>5, <2>6, <2>7 DEF SelectsAccount, Writes
  <2>10. ShownKept'
    BY <1>1, <1>2, <2>1, <2>2, <2>3, <2>4, <2>5, <2>6, <2>7 DEF SelectsAccount, Writes, ShownKept
  <2>11. LedgerKept'
    BY <1>1, <1>2, <2>1, <2>2, <2>3, <2>4, <2>5, <2>6, <2>7 DEF SelectsAccount, Writes, Tunnels, LedgerKept, NoTunnel
  <2>12. HostKept'
    BY <1>1, <1>2, <2>1, <2>2, <2>3, <2>4, <2>5, <2>6, <2>7 DEF SelectsAccount, Writes, HostKept
  <2>13. DisabledKept'
    BY <1>1, <1>2, <2>1, <2>2, <2>3, <2>4, <2>5, <2>6, <2>7 DEF SelectsAccount, Writes, ShownKept, LedgerKept, HostKept, DisabledKept, Restoring
  <2>14. RecoveryKept'
    BY <1>1, <1>2, <2>1, <2>2, <2>3, <2>4, <2>5, <2>6, <2>7 DEF SelectsAccount, Writes, ShownKept, RecoveryKept
  <2>15. LegacyKept'
    BY <1>1, <1>2, <2>1, <2>2, <2>3, <2>4, <2>5, <2>6, <2>7 DEF SelectsAccount, Writes, ShownKept, LegacyKept
  <2> QED BY <2>1, <2>2, <2>3, <2>4, <2>5, <2>6, <2>7, <2>8, <2>9, <2>10, <2>11, <2>12, <2>13, <2>14, <2>15
<1>3. CASE Misses("other") /\ WriteThrows([saved EXCEPT !.account = a]) /\ (Done \/ AccountEvent(Tail(jobs)))
  <2>1. JobEnded
    BY <1>1, <1>3, JobEnds, EndsJoined DEF SelectsAccount, AccountEvent, Done
  <2>2. saved' \in {saved, [saved EXCEPT !.account = a]} /\ file' \in {file, [saved EXCEPT !.account = a]} /\ (owned.id # 0 => owned.account = a) /\ cloud' = cloud /\ owned' = owned
    BY <1>1, <1>3 DEF SelectsAccount, Writes, WriteThrows
  <2>3. cloud # {} => owned.id # 0 /\ saved.account = a
    BY <2>2 DEF LedgerKept, Tunnels, TunnelIds
  <2>4. saved' \in SavedRecords /\ file' \in SavedRecords
    BY <2>2
  <2>5. Job.at = "account" /\ saved' = saved /\ saved'.pending \in BOOLEAN
    BY <1>1, <1>3 DEF SelectsAccount, WriteThrows
  <2>6. Job.why = "enable" => EndsBadly("other")
    BY <1>1, <1>3 DEF Misses
  <2>7. Job.why = "enable" =>
        /\ conn' \in {"cleanupPending", "authRequired", "disabled", "error"}
        /\ conn' = "disabled" => ~saved'.enabled /\ ~saved'.pending
        /\ failed' \in Codes /\ timer' \in {"off", "set"} /\ attempts' \in 0..MaxRecoveries
        /\ conn' = "error" /\ ConnectionsEnabled => timer' = "set" \/ attempts' = MaxRecoveries
    BY <2>5, <2>6, EndsBadlyIs
  <2>8. Job.why # "enable" => conn' = conn /\ timer' = timer /\ attempts' = attempts /\ failed' \in Codes /\ (failed' # "none" \/ failed' = failed)
    BY <1>1, <1>3 DEF Misses
  <2>9. UNCHANGED <<remote, stopped, local, asked>>
    BY DEF SelectsAccount
  <2>10. SwitchTyped'
    BY <1>1, <1>3, <2>1, <2>2, <2>3, <2>4, <2>5, <2>6, <2>7, <2>8, <2>9
  <2>11. StageKept'
    BY <1>1, <1>3, <2>1, <2>2, <2>3, <2>4, <2>5, <2>6, <2>7, <2>8, <2>9
  <2>12. ShownKept'
    BY <1>1, <1>3, <2>1, <2>2, <2>3, <2>4, <2>5, <2>6, <2>7, <2>8, <2>9 DEF ShownKept
  <2>13. LedgerKept'
    BY <1>1, <1>3, <2>1, <2>2, <2>3, <2>4, <2>5, <2>6, <2>7, <2>8, <2>9 DEF Tunnels, LedgerKept, NoTunnel
  <2>14. HostKept'
    BY <1>1, <1>3, <2>1, <2>2, <2>3, <2>4, <2>5, <2>6, <2>7, <2>8, <2>9 DEF HostKept
  <2>15. DisabledKept'
    BY <1>1, <1>3, <2>1, <2>2, <2>3, <2>4, <2>5, <2>6, <2>7, <2>8, <2>9 DEF ShownKept, LedgerKept, HostKept, DisabledKept, Restoring
  <2>16. RecoveryKept'
    BY <1>1, <1>3, <2>1, <2>2, <2>3, <2>4, <2>5, <2>6, <2>7, <2>8, <2>9 DEF ShownKept, RecoveryKept
  <2>17. LegacyKept'
    BY <1>1, <1>3, <2>1, <2>2, <2>3, <2>4, <2>5, <2>6, <2>7, <2>8, <2>9 DEF ShownKept, LegacyKept
  <2> QED BY <2>1, <2>2, <2>3, <2>4, <2>5, <2>6, <2>7, <2>8, <2>9, <2>10, <2>11, <2>12, <2>13, <2>14, <2>15, <2>16, <2>17
<1> QED BY <1>2, <1>3 DEF SelectsAccount

\* What an account was needed for is not done.
LEMMA GivesUpKeeps ==
  ASSUME SwitchTyped, SwitchKept, Job.at = "account", NEW code \in {"auth", "cancelled", "other"}, GivesUp(code)
  PROVE  SwitchTyped' /\ SwitchKept'
<1>1. Job \in JobRecords
  BY JobIs
<1>2. CASE Job.why = "enable"
  BY <1>2, FailsEarlyKeeps DEF GivesUp, Misses, FailsEarly
<1>3. CASE Job.why # "enable"
  <2>1. JobEnded
    BY <1>3, JobEnds DEF GivesUp
  <2>2. SwitchTyped'
    BY <1>1, <1>3, <2>1 DEF GivesUp, Misses
  <2>3. StageKept'
    BY <1>1, <1>3, <2>1 DEF GivesUp, Misses
  <2>4. ShownKept'
    BY <1>1, <1>3, <2>1 DEF GivesUp, Misses, ShownKept
  <2>5. LedgerKept'
    BY <1>1, <1>3, <2>1 DEF GivesUp, Misses, Tunnels, LedgerKept, NoTunnel
  <2>6. HostKept'
    BY <1>1, <1>3, <2>1 DEF GivesUp, Misses, HostKept
  <2>7. DisabledKept'
    BY <1>1, <1>3, <2>1 DEF GivesUp, Misses, ShownKept, LedgerKept, HostKept, DisabledKept, Restoring
  <2>8. RecoveryKept'
    BY <1>1, <1>3, <2>1 DEF GivesUp, Misses, ShownKept, RecoveryKept
  <2>9. LegacyKept'
    BY <1>1, <1>3, <2>1 DEF GivesUp, Misses, ShownKept, LegacyKept
  <2> QED BY <2>1, <2>2, <2>3, <2>4, <2>5, <2>6, <2>7, <2>8, <2>9
<1> QED BY <1>2, <1>3

\* There is no account.
LEMMA LacksAccountKeeps ==
  ASSUME SwitchTyped, SwitchKept, LacksAccount
  PROVE  SwitchTyped' /\ SwitchKept'
  BY GivesUpKeeps DEF LacksAccount

\* The settings say that there is something to remove.
LEMMA MarksKeeps ==
  ASSUME SwitchTyped, SwitchKept, Marks
  PROVE  SwitchTyped' /\ SwitchKept'
<1>1. Job \in JobRecords
  BY JobIs
<1>2. CASE Cancelled
  BY <1>1, <1>2, FailsEarlyKeeps DEF Marks, FailsEarly
<1>3. CASE ~Cancelled /\ Writes([saved EXCEPT !.enabled = TRUE, !.pending = TRUE]) /\ Becomes([Job EXCEPT !.at = "stopping"]) /\ UNCHANGED <<conn, failed, timer, attempts>>
  <2>1. [Job EXCEPT !.at = "stopping"] \in JobRecords
    BY <1>1, <1>3 DEF JobRecords
  <2>2. GoesOn([Job EXCEPT !.at = "stopping"])
    BY <1>1, <1>3, <2>1, JobGoesOn DEF Marks
  <2>3. saved' \in SavedRecords /\ file' \in SavedRecords
    BY <1>1, <1>3 DEF Writes
  <2>4. Job.at = "mark" /\ UNCHANGED <<remote, signedIn, stopped, local, asked>>
    BY DEF Marks
  <2>5. SwitchTyped'
    BY <1>1, <1>3, <2>1, <2>2, <2>3, <2>4 DEF Writes
  <2>6. StageKept'
    BY <1>1, <1>3, <2>1, <2>2, <2>3, <2>4 DEF Writes
  <2>7. ShownKept'
    BY <1>1, <1>3, <2>1, <2>2, <2>3, <2>4 DEF Writes, ShownKept
  <2>8. LedgerKept'
    BY <1>1, <1>3, <2>1, <2>2, <2>3, <2>4 DEF Writes, Tunnels, LedgerKept, NoTunnel
  <2>9. HostKept'
    BY <1>1, <1>3, <2>1, <2>2, <2>3, <2>4 DEF Writes, HostKept
  <2>10. DisabledKept'
    BY <1>1, <1>3, <2>1, <2>2, <2>3, <2>4 DEF Writes, ShownKept, LedgerKept, HostKept, DisabledKept, Restoring
  <2>11. RecoveryKept'
    BY <1>1, <1>3, <2>1, <2>2, <2>3, <2>4 DEF Writes, ShownKept, RecoveryKept
  <2>12. LegacyKept'
    BY <1>1, <1>3, <2>1, <2>2, <2>3, <2>4 DEF Writes, ShownKept, LegacyKept
  <2> QED BY <2>1, <2>2, <2>3, <2>4, <2>5, <2>6, <2>7, <2>8, <2>9, <2>10, <2>11, <2>12
<1>4. CASE ~Cancelled /\ WriteThrows([saved EXCEPT !.enabled = TRUE, !.pending = TRUE]) /\ EndsBadly("other") /\ Done
  <2>1. JobEnded
    BY <1>1, <1>4, JobEnds DEF Marks
  <2>2. saved' \in SavedRecords /\ file' \in SavedRecords
    BY <1>1, <1>4 DEF WriteThrows
  <2>3. Job.at = "mark" /\ saved' = saved /\ saved'.pending \in BOOLEAN /\ UNCHANGED <<remote, signedIn, stopped, local, asked>>
    BY <1>1, <1>4 DEF Marks, WriteThrows
  <2>4. /\ conn' \in {"cleanupPending", "authRequired", "disabled", "error"}
        /\ conn' = "disabled" => ~saved'.enabled /\ ~saved'.pending
        /\ failed' \in Codes /\ timer' \in {"off", "set"} /\ attempts' \in 0..MaxRecoveries
        /\ conn' = "error" /\ ConnectionsEnabled => timer' = "set" \/ attempts' = MaxRecoveries
    BY <1>1, <1>4, <2>3, EndsBadlyIs
  <2>5. SwitchTyped'
    BY <1>1, <1>4, <2>1, <2>2, <2>3, <2>4 DEF WriteThrows
  <2>6. StageKept'
    BY <1>1, <1>4, <2>1, <2>2, <2>3, <2>4 DEF WriteThrows
  <2>7. ShownKept'
    BY <1>1, <1>4, <2>1, <2>2, <2>3, <2>4 DEF WriteThrows, ShownKept
  <2>8. LedgerKept'
    BY <1>1, <1>4, <2>1, <2>2, <2>3, <2>4 DEF WriteThrows, Tunnels, LedgerKept, NoTunnel
  <2>9. HostKept'
    BY <1>1, <1>4, <2>1, <2>2, <2>3, <2>4 DEF WriteThrows, HostKept
  <2>10. DisabledKept'
    BY <1>1, <1>4, <2>1, <2>2, <2>3, <2>4 DEF WriteThrows, ShownKept, LedgerKept, HostKept, DisabledKept, Restoring
  <2>11. RecoveryKept'
    BY <1>1, <1>4, <2>1, <2>2, <2>3, <2>4 DEF WriteThrows, ShownKept, RecoveryKept
  <2>12. LegacyKept'
    BY <1>1, <1>4, <2>1, <2>2, <2>3, <2>4 DEF WriteThrows, ShownKept, LegacyKept
  <2> QED BY <2>1, <2>2, <2>3, <2>4, <2>5, <2>6, <2>7, <2>8, <2>9, <2>10, <2>11, <2>12
<1> QED BY <1>2, <1>3, <1>4 DEF Marks

\* Gateway and tunnel are stopped, whichever fails.
LEMMA StopsListenerKeeps ==
  ASSUME SwitchTyped, SwitchKept, StopsListener
  PROVE  SwitchTyped' /\ SwitchKept'
<1>1. Job \in JobRecords
  BY JobIs
<1>2. CASE lst.state = "stopped" /\ ~lst.gateway /\ UNCHANGED <<remote, local>> /\ Becomes([Job EXCEPT !.at = "deleting"])
  <2>1. [Job EXCEPT !.at = "deleting"] \in JobRecords
    BY <1>1, <1>2 DEF JobRecords
  <2>2. GoesOn([Job EXCEPT !.at = "deleting"])
    BY <1>1, <1>2, <2>1, JobGoesOn DEF StopsListener
  <2>3. Job.at = "stopping" /\ UNCHANGED <<settings, signedIn, conn, failed, stopped, timer, attempts, asked>>
    BY DEF StopsListener
  <2>4. SwitchTyped'
    BY <1>1, <1>2, <2>1, <2>2, <2>3 DEF StopsListener
  <2>5. StageKept'
    BY <1>1, <1>2, <2>1, <2>2, <2>3 DEF StopsListener
  <2>6. ShownKept'
    BY <1>1, <1>2, <2>1, <2>2, <2>3 DEF StopsListener, ShownKept
  <2>7. LedgerKept'
    BY <1>1, <1>2, <2>1, <2>2, <2>3 DEF StopsListener, Tunnels, LedgerKept, NoTunnel
  <2>8. HostKept'
    BY <1>1, <1>2, <2>1, <2>2, <2>3 DEF StopsListener, HostKept
  <2>9. DisabledKept'
    BY <1>1, <1>2, <2>1, <2>2, <2>3 DEF StopsListener, ShownKept, LedgerKept, HostKept, DisabledKept, Restoring
  <2>10. RecoveryKept'
    BY <1>1, <1>2, <2>1, <2>2, <2>3 DEF StopsListener, ShownKept, RecoveryKept
  <2>11. LegacyKept'
    BY <1>1, <1>2, <2>1, <2>2, <2>3 DEF StopsListener, ShownKept, LegacyKept
  <2> QED BY <2>1, <2>2, <2>3, <2>4, <2>5, <2>6, <2>7, <2>8, <2>9, <2>10, <2>11
<1>3. CASE SdkStops /\ lst' = ListenerStopped /\ Becomes([Job EXCEPT !.at = "deleting"])
  <2>1. [Job EXCEPT !.at = "deleting"] \in JobRecords
    BY <1>1, <1>3 DEF JobRecords
  <2>2. GoesOn([Job EXCEPT !.at = "deleting"])
    BY <1>1, <1>3, <2>1, JobGoesOn DEF StopsListener
  <2>3. /\ cloud' \in SUBSET Tunnels
        /\ \A t \in cloud' : \E s \in cloud : t.id = s.id /\ t.account = s.account
        /\ owned' \in OwnTunnels \cup {NoTunnel}
        /\ owned'.id = owned.id /\ (owned.id # 0 => owned'.account = owned.account)
        /\ sdk' = [status |-> "stopped", host |-> 0, cut |-> TRUE] /\ sdk' \in ProviderRecords /\ legacy' = legacy
    BY <1>1, <1>3, SdkStopsIs DEF StopsListener
  <2>4. lst' \in ListenerRecords
    BY <1>1, <1>3 DEF StopsListener, ListenerStopped
  <2>5. Job.at = "stopping" /\ UNCHANGED <<settings, signedIn, conn, failed, stopped, timer, attempts, asked>>
    BY DEF StopsListener
  <2>6. SwitchTyped'
    BY <1>1, <1>3, <2>1, <2>2, <2>3, <2>4, <2>5 DEF ListenerStopped
  <2>7. StageKept'
    BY <1>1, <1>3, <2>1, <2>2, <2>3, <2>4, <2>5 DEF ListenerStopped
  <2>8. ShownKept'
    BY <1>1, <1>3, <2>1, <2>2, <2>3, <2>4, <2>5 DEF ListenerStopped, ShownKept
  <2>9. LedgerKept'
    BY <1>1, <1>3, <2>1, <2>2, <2>3, <2>4, <2>5 DEF ListenerStopped, Tunnels, LedgerKept, NoTunnel
  <2>10. HostKept'
    BY <1>1, <1>3, <2>1, <2>2, <2>3, <2>4, <2>5 DEF ListenerStopped, HostKept
  <2>11. DisabledKept'
    BY <1>1, <1>3, <2>1, <2>2, <2>3, <2>4, <2>5 DEF ListenerStopped, ShownKept, LedgerKept, HostKept, DisabledKept, Restoring
  <2>12. RecoveryKept'
    BY <1>1, <1>3, <2>1, <2>2, <2>3, <2>4, <2>5 DEF ListenerStopped, ShownKept, RecoveryKept, JobRecords
  <2>13. LegacyKept'
    BY <1>1, <1>3, <2>1, <2>2, <2>3, <2>4, <2>5 DEF ListenerStopped, ShownKept, LegacyKept
  <2> QED BY <2>1, <2>2, <2>3, <2>4, <2>5, <2>6, <2>7, <2>8, <2>9, <2>10, <2>11, <2>12, <2>13
<1>4. CASE lst.state = "stopped" /\ ~lst.gateway /\ UNCHANGED <<remote, local>> /\ Becomes([Job EXCEPT !.at = "deleting", !.bad = "cleanup"])
  <2>1. [Job EXCEPT !.at = "deleting", !.bad = "cleanup"] \in JobRecords
    BY <1>1, <1>4 DEF JobRecords
  <2>2. GoesOn([Job EXCEPT !.at = "deleting", !.bad = "cleanup"])
    BY <1>1, <1>4, <2>1, JobGoesOn DEF StopsListener
  <2>3. Job.at = "stopping" /\ UNCHANGED <<settings, signedIn, conn, failed, stopped, timer, attempts, asked>>
    BY DEF StopsListener
  <2>4. SwitchTyped'
    BY <1>1, <1>4, <2>1, <2>2, <2>3 DEF StopsListener
  <2>5. StageKept'
    BY <1>1, <1>4, <2>1, <2>2, <2>3 DEF StopsListener
  <2>6. ShownKept'
    BY <1>1, <1>4, <2>1, <2>2, <2>3 DEF StopsListener, ShownKept
  <2>7. LedgerKept'
    BY <1>1, <1>4, <2>1, <2>2, <2>3 DEF StopsListener, Tunnels, LedgerKept, NoTunnel
  <2>8. HostKept'
    BY <1>1, <1>4, <2>1, <2>2, <2>3 DEF StopsListener, HostKept
  <2>9. DisabledKept'
    BY <1>1, <1>4, <2>1, <2>2, <2>3 DEF StopsListener, ShownKept, LedgerKept, HostKept, DisabledKept, Restoring
  <2>10. RecoveryKept'
    BY <1>1, <1>4, <2>1, <2>2, <2>3 DEF StopsListener, ShownKept, RecoveryKept
  <2>11. LegacyKept'
    BY <1>1, <1>4, <2>1, <2>2, <2>3 DEF StopsListener, ShownKept, LegacyKept
  <2> QED BY <2>1, <2>2, <2>3, <2>4, <2>5, <2>6, <2>7, <2>8, <2>9, <2>10, <2>11
<1>5. CASE SdkStops /\ lst' = ListenerStopped /\ Becomes([Job EXCEPT !.at = "deleting", !.bad = "cleanup"])
  <2>1. [Job EXCEPT !.at = "deleting", !.bad = "cleanup"] \in JobRecords
    BY <1>1, <1>5 DEF JobRecords
  <2>2. GoesOn([Job EXCEPT !.at = "deleting", !.bad = "cleanup"])
    BY <1>1, <1>5, <2>1, JobGoesOn DEF StopsListener
  <2>3. /\ cloud' \in SUBSET Tunnels
        /\ \A t \in cloud' : \E s \in cloud : t.id = s.id /\ t.account = s.account
        /\ owned' \in OwnTunnels \cup {NoTunnel}
        /\ owned'.id = owned.id /\ (owned.id # 0 => owned'.account = owned.account)
        /\ sdk' = [status |-> "stopped", host |-> 0, cut |-> TRUE] /\ sdk' \in ProviderRecords /\ legacy' = legacy
    BY <1>1, <1>5, SdkStopsIs DEF StopsListener
  <2>4. lst' \in ListenerRecords
    BY <1>1, <1>5 DEF StopsListener, ListenerStopped
  <2>5. Job.at = "stopping" /\ UNCHANGED <<settings, signedIn, conn, failed, stopped, timer, attempts, asked>>
    BY DEF StopsListener
  <2>6. SwitchTyped'
    BY <1>1, <1>5, <2>1, <2>2, <2>3, <2>4, <2>5 DEF ListenerStopped
  <2>7. StageKept'
    BY <1>1, <1>5, <2>1, <2>2, <2>3, <2>4, <2>5 DEF ListenerStopped
  <2>8. ShownKept'
    BY <1>1, <1>5, <2>1, <2>2, <2>3, <2>4, <2>5 DEF ListenerStopped, ShownKept
  <2>9. LedgerKept'
    BY <1>1, <1>5, <2>1, <2>2, <2>3, <2>4, <2>5 DEF ListenerStopped, Tunnels, LedgerKept, NoTunnel
  <2>10. HostKept'
    BY <1>1, <1>5, <2>1, <2>2, <2>3, <2>4, <2>5 DEF ListenerStopped, HostKept
  <2>11. DisabledKept'
    BY <1>1, <1>5, <2>1, <2>2, <2>3, <2>4, <2>5 DEF ListenerStopped, ShownKept, LedgerKept, HostKept, DisabledKept, Restoring
  <2>12. RecoveryKept'
    BY <1>1, <1>5, <2>1, <2>2, <2>3, <2>4, <2>5 DEF ListenerStopped, ShownKept, RecoveryKept, JobRecords
  <2>13. LegacyKept'
    BY <1>1, <1>5, <2>1, <2>2, <2>3, <2>4, <2>5 DEF ListenerStopped, ShownKept, LegacyKept
  <2> QED BY <2>1, <2>2, <2>3, <2>4, <2>5, <2>6, <2>7, <2>8, <2>9, <2>10, <2>11, <2>12, <2>13
<1>6. CASE SdkStops /\ lst' = [lst EXCEPT !.state = "error"] /\ Becomes([Job EXCEPT !.at = "deleting", !.bad = "cleanup"])
  <2>1. [Job EXCEPT !.at = "deleting", !.bad = "cleanup"] \in JobRecords
    BY <1>1, <1>6 DEF JobRecords
  <2>2. GoesOn([Job EXCEPT !.at = "deleting", !.bad = "cleanup"])
    BY <1>1, <1>6, <2>1, JobGoesOn DEF StopsListener
  <2>3. /\ cloud' \in SUBSET Tunnels
        /\ \A t \in cloud' : \E s \in cloud : t.id = s.id /\ t.account = s.account
        /\ owned' \in OwnTunnels \cup {NoTunnel}
        /\ owned'.id = owned.id /\ (owned.id # 0 => owned'.account = owned.account)
        /\ sdk' = [status |-> "stopped", host |-> 0, cut |-> TRUE] /\ sdk' \in ProviderRecords /\ legacy' = legacy
    BY <1>1, <1>6, SdkStopsIs DEF StopsListener
  <2>4. lst' \in ListenerRecords
    BY <1>1, <1>6 DEF StopsListener
  <2>5. Job.at = "stopping" /\ UNCHANGED <<settings, signedIn, conn, failed, stopped, timer, attempts, asked>>
    BY DEF StopsListener
  <2>6. SwitchTyped'
    BY <1>1, <1>6, <2>1, <2>2, <2>3, <2>4, <2>5
  <2>7. StageKept'
    BY <1>1, <1>6, <2>1, <2>2, <2>3, <2>4, <2>5
  <2>8. ShownKept'
    BY <1>1, <1>6, <2>1, <2>2, <2>3, <2>4, <2>5 DEF ShownKept
  <2>9. LedgerKept'
    BY <1>1, <1>6, <2>1, <2>2, <2>3, <2>4, <2>5 DEF Tunnels, LedgerKept, NoTunnel
  <2>10. HostKept'
    BY <1>1, <1>6, <2>1, <2>2, <2>3, <2>4, <2>5 DEF HostKept
  <2>11. DisabledKept'
    BY <1>1, <1>6, <2>1, <2>2, <2>3, <2>4, <2>5 DEF ShownKept, LedgerKept, HostKept, DisabledKept, Restoring
  <2>12. RecoveryKept'
    BY <1>1, <1>6, <2>1, <2>2, <2>3, <2>4, <2>5 DEF ShownKept, RecoveryKept
  <2>13. LegacyKept'
    BY <1>1, <1>6, <2>1, <2>2, <2>3, <2>4, <2>5 DEF ShownKept, LegacyKept
  <2> QED BY <2>1, <2>2, <2>3, <2>4, <2>5, <2>6, <2>7, <2>8, <2>9, <2>10, <2>11, <2>12, <2>13
<1>7. CASE /\ sdk' = [sdk EXCEPT !.status = "cleanup-failed", !.cut = TRUE] /\ UNCHANGED remote
           /\ lst' = [lst EXCEPT !.state = "error"] /\ Becomes([Job EXCEPT !.at = "deleting", !.bad = "cleanup"])
  <2>1. [Job EXCEPT !.at = "deleting", !.bad = "cleanup"] \in JobRecords
    BY <1>1, <1>7 DEF JobRecords
  <2>2. GoesOn([Job EXCEPT !.at = "deleting", !.bad = "cleanup"])
    BY <1>1, <1>7, <2>1, JobGoesOn DEF StopsListener
  <2>3. lst' \in ListenerRecords
    BY <1>1, <1>7 DEF StopsListener
  <2>4. sdk' \in ProviderRecords
    BY <1>1, <1>7 DEF StopsListener
  <2>5. Job.at = "stopping" /\ UNCHANGED <<settings, signedIn, conn, failed, stopped, timer, attempts, asked>>
    BY DEF StopsListener
  <2>6. SwitchTyped'
    BY <1>1, <1>7, <2>1, <2>2, <2>3, <2>4, <2>5
  <2>7. StageKept'
    BY <1>1, <1>7, <2>1, <2>2, <2>3, <2>4, <2>5
  <2>8. ShownKept'
    BY <1>1, <1>7, <2>1, <2>2, <2>3, <2>4, <2>5 DEF ShownKept
  <2>9. LedgerKept'
    BY <1>1, <1>7, <2>1, <2>2, <2>3, <2>4, <2>5 DEF Tunnels, LedgerKept, NoTunnel
  <2>10. HostKept'
    BY <1>1, <1>7, <2>1, <2>2, <2>3, <2>4, <2>5 DEF HostKept
  <2>11. DisabledKept'
    BY <1>1, <1>7, <2>1, <2>2, <2>3, <2>4, <2>5 DEF ShownKept, LedgerKept, HostKept, DisabledKept, Restoring
  <2>12. RecoveryKept'
    BY <1>1, <1>7, <2>1, <2>2, <2>3, <2>4, <2>5 DEF ShownKept, RecoveryKept
  <2>13. LegacyKept'
    BY <1>1, <1>7, <2>1, <2>2, <2>3, <2>4, <2>5 DEF ShownKept, LegacyKept
  <2> QED BY <2>1, <2>2, <2>3, <2>4, <2>5, <2>6, <2>7, <2>8, <2>9, <2>10, <2>11, <2>12, <2>13
<1> QED BY <1>2, <1>3, <1>4, <1>5, <1>6, <1>7 DEF StopsListener, ListenerStops, ListenerIsStuck

\* There is no tunnel to delete.
LEMMA OwnsNothingKeeps ==
  ASSUME SwitchTyped, SwitchKept, OwnsNothing
  PROVE  SwitchTyped' /\ SwitchKept'
<1>1. Job \in JobRecords
  BY JobIs
<1>2. [Job EXCEPT !.at = "retiring"] \in JobRecords
  BY <1>1 DEF JobRecords
<1>3. GoesOn([Job EXCEPT !.at = "retiring"])
  BY <1>1, <1>2, JobGoesOn DEF OwnsNothing
<1>4. /\ cloud' \in SUBSET Tunnels
      /\ \A t \in cloud' : \E s \in cloud : t.id = s.id /\ t.account = s.account
      /\ owned' \in OwnTunnels \cup {NoTunnel}
      /\ owned'.id = owned.id /\ (owned.id # 0 => owned'.account = owned.account)
      /\ sdk' = [status |-> "stopped", host |-> 0, cut |-> TRUE] /\ sdk' \in ProviderRecords /\ legacy' = legacy
  BY <1>1, SdkStopsIs DEF OwnsNothing
<1>5. SwitchTyped'
  BY <1>1, <1>2, <1>3, <1>4 DEF OwnsNothing
<1>6. StageKept'
  BY <1>1, <1>2, <1>3, <1>4 DEF OwnsNothing
<1>7. ShownKept'
  BY <1>1, <1>2, <1>3, <1>4 DEF OwnsNothing, ShownKept
<1>8. LedgerKept'
  BY <1>1, <1>2, <1>3, <1>4 DEF OwnsNothing, Tunnels, LedgerKept, NoTunnel
<1>9. HostKept'
  BY <1>1, <1>2, <1>3, <1>4 DEF OwnsNothing, HostKept
<1>10. DisabledKept'
  BY <1>1, <1>2, <1>3, <1>4 DEF OwnsNothing, ShownKept, LedgerKept, HostKept, DisabledKept, Restoring
<1>11. RecoveryKept'
  BY <1>1, <1>2, <1>3, <1>4 DEF OwnsNothing, ShownKept, RecoveryKept
<1>12. LegacyKept'
  BY <1>1, <1>2, <1>3, <1>4 DEF OwnsNothing, ShownKept, LegacyKept
<1> QED BY <1>2, <1>3, <1>4, <1>5, <1>6, <1>7, <1>8, <1>9, <1>10, <1>11, <1>12

\* The tunnel of the ledger is deleted.
LEMMA DeletesTunnelKeeps ==
  ASSUME SwitchTyped, SwitchKept, DeletesTunnel
  PROVE  SwitchTyped' /\ SwitchKept'
<1>1. Job \in JobRecords
  BY JobIs
<1>2. [Job EXCEPT !.at = "clearing"] \in JobRecords
  BY <1>1 DEF JobRecords
<1>3. GoesOn([Job EXCEPT !.at = "clearing"])
  BY <1>1, <1>2, JobGoesOn DEF DeletesTunnel
<1>4. sdk' \in ProviderRecords
  BY <1>1 DEF DeletesTunnel
<1>5. SwitchTyped'
  BY <1>1, <1>2, <1>3, <1>4 DEF DeletesTunnel
<1>6. StageKept'
  BY <1>1, <1>2, <1>3, <1>4 DEF DeletesTunnel
<1>7. ShownKept'
  BY <1>1, <1>2, <1>3, <1>4 DEF DeletesTunnel, ShownKept
<1>8. LedgerKept'
  BY <1>1, <1>2, <1>3, <1>4 DEF DeletesTunnel, Tunnels, LedgerKept, NoTunnel
<1>9. HostKept'
  BY <1>1, <1>2, <1>3, <1>4 DEF DeletesTunnel, HostKept
<1>10. DisabledKept'
  BY <1>1, <1>2, <1>3, <1>4 DEF DeletesTunnel, ShownKept, LedgerKept, HostKept, DisabledKept, Restoring
<1>11. RecoveryKept'
  BY <1>1, <1>2, <1>3, <1>4 DEF DeletesTunnel, ShownKept, RecoveryKept
<1>12. LegacyKept'
  BY <1>1, <1>2, <1>3, <1>4 DEF DeletesTunnel, ShownKept, LegacyKept
<1> QED BY <1>2, <1>3, <1>4, <1>5, <1>6, <1>7, <1>8, <1>9, <1>10, <1>11, <1>12

\* It cannot be.
LEMMA DeleteFailsKeeps ==
  ASSUME SwitchTyped, SwitchKept, DeleteFails
  PROVE  SwitchTyped' /\ SwitchKept'
<1>1. Job \in JobRecords
  BY JobIs
<1>2. [Job EXCEPT !.at = "retiring", !.bad = IF owned.account \in signedIn THEN "cleanup" ELSE "auth"] \in JobRecords
  BY <1>1 DEF JobRecords
<1>3. GoesOn([Job EXCEPT !.at = "retiring", !.bad = IF owned.account \in signedIn THEN "cleanup" ELSE "auth"])
  BY <1>1, <1>2, JobGoesOn DEF DeleteFails
<1>4. /\ cloud' \in SUBSET Tunnels
      /\ \A t \in cloud' : \E s \in cloud : t.id = s.id /\ t.account = s.account
      /\ owned' \in OwnTunnels \cup {NoTunnel}
      /\ owned'.id = owned.id /\ (owned.id # 0 => owned'.account = owned.account)
      /\ sdk' = [status |-> "stopped", host |-> 0, cut |-> TRUE] /\ sdk' \in ProviderRecords /\ legacy' = legacy
  BY <1>1, SdkStopsIs DEF DeleteFails
<1>5. SwitchTyped'
  BY <1>1, <1>2, <1>3, <1>4 DEF DeleteFails
<1>6. StageKept'
  BY <1>1, <1>2, <1>3, <1>4 DEF DeleteFails
<1>7. ShownKept'
  BY <1>1, <1>2, <1>3, <1>4 DEF DeleteFails, ShownKept
<1>8. LedgerKept'
  BY <1>1, <1>2, <1>3, <1>4 DEF DeleteFails, Tunnels, LedgerKept, NoTunnel
<1>9. HostKept'
  BY <1>1, <1>2, <1>3, <1>4 DEF DeleteFails, HostKept
<1>10. DisabledKept'
  BY <1>1, <1>2, <1>3, <1>4 DEF DeleteFails, ShownKept, LedgerKept, HostKept, DisabledKept, Restoring
<1>11. RecoveryKept'
  BY <1>1, <1>2, <1>3, <1>4 DEF DeleteFails, ShownKept, RecoveryKept
<1>12. LegacyKept'
  BY <1>1, <1>2, <1>3, <1>4 DEF DeleteFails, ShownKept, LegacyKept
<1> QED BY <1>2, <1>3, <1>4, <1>5, <1>6, <1>7, <1>8, <1>9, <1>10, <1>11, <1>12

\* Only then is it forgotten.
LEMMA ClearsLedgerKeeps ==
  ASSUME SwitchTyped, SwitchKept, ClearsLedger
  PROVE  SwitchTyped' /\ SwitchKept'
<1>1. Job \in JobRecords
  BY JobIs
<1>2. CASE owned' = NoTunnel /\ Becomes([Job EXCEPT !.at = "retiring"])
  <2>1. [Job EXCEPT !.at = "retiring"] \in JobRecords
    BY <1>1, <1>2 DEF JobRecords
  <2>2. GoesOn([Job EXCEPT !.at = "retiring"])
    BY <1>1, <1>2, <2>1, JobGoesOn DEF ClearsLedger
  <2>3. SwitchTyped'
    BY <1>1, <1>2, <2>1, <2>2 DEF ClearsLedger
  <2>4. StageKept'
    BY <1>1, <1>2, <2>1, <2>2 DEF ClearsLedger
  <2>5. ShownKept'
    BY <1>1, <1>2, <2>1, <2>2 DEF ClearsLedger, ShownKept
  <2>6. LedgerKept'
    BY <1>1, <1>2, <2>1, <2>2 DEF ClearsLedger, Tunnels, LedgerKept, NoTunnel
  <2>7. HostKept'
    BY <1>1, <1>2, <2>1, <2>2 DEF ClearsLedger, HostKept
  <2>8. DisabledKept'
    BY <1>1, <1>2, <2>1, <2>2 DEF ClearsLedger, ShownKept, LedgerKept, HostKept, DisabledKept, Restoring
  <2>9. RecoveryKept'
    BY <1>1, <1>2, <2>1, <2>2 DEF ClearsLedger, ShownKept, RecoveryKept
  <2>10. LegacyKept'
    BY <1>1, <1>2, <2>1, <2>2 DEF ClearsLedger, ShownKept, LegacyKept
  <2> QED BY <2>1, <2>2, <2>3, <2>4, <2>5, <2>6, <2>7, <2>8, <2>9, <2>10
<1>3. CASE owned' = owned /\ Becomes([Job EXCEPT !.at = "retiring", !.bad = "cleanup"])
  <2>1. [Job EXCEPT !.at = "retiring", !.bad = "cleanup"] \in JobRecords
    BY <1>1, <1>3 DEF JobRecords
  <2>2. GoesOn([Job EXCEPT !.at = "retiring", !.bad = "cleanup"])
    BY <1>1, <1>3, <2>1, JobGoesOn DEF ClearsLedger
  <2>3. SwitchTyped'
    BY <1>1, <1>3, <2>1, <2>2 DEF ClearsLedger
  <2>4. StageKept'
    BY <1>1, <1>3, <2>1, <2>2 DEF ClearsLedger
  <2>5. ShownKept'
    BY <1>1, <1>3, <2>1, <2>2 DEF ClearsLedger, ShownKept
  <2>6. LedgerKept'
    BY <1>1, <1>3, <2>1, <2>2 DEF ClearsLedger, Tunnels, LedgerKept, NoTunnel
  <2>7. HostKept'
    BY <1>1, <1>3, <2>1, <2>2 DEF ClearsLedger, HostKept
  <2>8. DisabledKept'
    BY <1>1, <1>3, <2>1, <2>2 DEF ClearsLedger, ShownKept, LedgerKept, HostKept, DisabledKept, Restoring
  <2>9. RecoveryKept'
    BY <1>1, <1>3, <2>1, <2>2 DEF ClearsLedger, ShownKept, RecoveryKept
  <2>10. LegacyKept'
    BY <1>1, <1>3, <2>1, <2>2 DEF ClearsLedger, ShownKept, LegacyKept
  <2> QED BY <2>1, <2>2, <2>3, <2>4, <2>5, <2>6, <2>7, <2>8, <2>9, <2>10
<1> QED BY <1>2, <1>3 DEF ClearsLedger

\* What an older version left is removed.
LEMMA RetiresLegacyKeeps ==
  ASSUME SwitchTyped, SwitchKept, RetiresLegacy
  PROVE  SwitchTyped' /\ SwitchKept'
<1>1. Job \in JobRecords
  BY JobIs
<1>2. CASE saved.retired /\ UNCHANGED <<settings, legacy>> /\ Becomes([Job EXCEPT !.at = "cleaned"])
  <2>1. [Job EXCEPT !.at = "cleaned"] \in JobRecords
    BY <1>1, <1>2 DEF JobRecords
  <2>2. GoesOn([Job EXCEPT !.at = "cleaned"])
    BY <1>1, <1>2, <2>1, JobGoesOn DEF RetiresLegacy
  <2>3. Job.at = "retiring" /\ UNCHANGED <<owned, cloud, signedIn, conn, failed, stopped, timer, attempts, local, asked>>
    BY DEF RetiresLegacy
  <2>4. SwitchTyped'
    <3> HIDE DEF SavedRecords, ListenerRecords, ProviderRecords
    <3> QED BY <1>1, <1>2, <2>1, <2>2, <2>3
  <2>5. StageKept'
    BY <1>1, <1>2, <2>1, <2>2, <2>3
  <2>6. ShownKept'
    BY <1>1, <1>2, <2>1, <2>2, <2>3 DEF ShownKept
  <2>7. LedgerKept'
    BY <1>1, <1>2, <2>1, <2>2, <2>3 DEF Tunnels, LedgerKept, NoTunnel
  <2>8. HostKept'
    BY <1>1, <1>2, <2>1, <2>2, <2>3 DEF HostKept
  <2>9. DisabledKept'
    BY <1>1, <1>2, <2>1, <2>2, <2>3 DEF ShownKept, LedgerKept, HostKept, DisabledKept, Restoring
  <2>10. RecoveryKept'
    BY <1>1, <1>2, <2>1, <2>2, <2>3 DEF ShownKept, RecoveryKept
  <2>11. LegacyKept'
    BY <1>1, <1>2, <2>1, <2>2, <2>3 DEF ShownKept, LegacyKept
  <2> QED BY <2>1, <2>2, <2>3, <2>4, <2>5, <2>6, <2>7, <2>8, <2>9, <2>10, <2>11
<1>3. CASE legacy' = FALSE /\ Writes([saved EXCEPT !.retired = TRUE]) /\ Becomes([Job EXCEPT !.at = "cleaned"])
  <2>1. [Job EXCEPT !.at = "cleaned"] \in JobRecords
    BY <1>1, <1>3 DEF JobRecords
  <2>2. GoesOn([Job EXCEPT !.at = "cleaned"])
    BY <1>1, <1>3, <2>1, JobGoesOn DEF RetiresLegacy
  <2>3. saved' \in SavedRecords /\ file' \in SavedRecords
    BY <1>1, <1>3 DEF Writes
  <2>4. Job.at = "retiring" /\ UNCHANGED <<owned, cloud, signedIn, conn, failed, stopped, timer, attempts, local, asked>>
    BY DEF RetiresLegacy
  <2>5. SwitchTyped'
    <3> HIDE DEF SavedRecords, ListenerRecords, ProviderRecords
    <3> QED BY <1>1, <1>3, <2>1, <2>2, <2>3, <2>4 DEF Writes
  <2>6. StageKept'
    BY <1>1, <1>3, <2>1, <2>2, <2>3, <2>4 DEF Writes
  <2>7. ShownKept'
    BY <1>1, <1>3, <2>1, <2>2, <2>3, <2>4 DEF Writes, ShownKept
  <2>8. LedgerKept'
    BY <1>1, <1>3, <2>1, <2>2, <2>3, <2>4 DEF Writes, Tunnels, LedgerKept, NoTunnel
  <2>9. HostKept'
    BY <1>1, <1>3, <2>1, <2>2, <2>3, <2>4 DEF Writes, HostKept
  <2>10. DisabledKept'
    BY <1>1, <1>3, <2>1, <2>2, <2>3, <2>4 DEF Writes, ShownKept, LedgerKept, HostKept, DisabledKept, Restoring
  <2>11. RecoveryKept'
    BY <1>1, <1>3, <2>1, <2>2, <2>3, <2>4 DEF Writes, ShownKept, RecoveryKept
  <2>12. LegacyKept'
    BY <1>1, <1>3, <2>1, <2>2, <2>3, <2>4 DEF Writes, ShownKept, LegacyKept
  <2> QED BY <2>1, <2>2, <2>3, <2>4, <2>5, <2>6, <2>7, <2>8, <2>9, <2>10, <2>11, <2>12
<1>4. CASE legacy' = FALSE /\ WriteThrows([saved EXCEPT !.retired = TRUE]) /\ Becomes([Job EXCEPT !.at = "cleaned", !.bad = IF @ = "auth" THEN @ ELSE "cleanup"])
  <2>1. [Job EXCEPT !.at = "cleaned", !.bad = IF @ = "auth" THEN @ ELSE "cleanup"] \in JobRecords
    BY <1>1, <1>4 DEF JobRecords
  <2>2. GoesOn([Job EXCEPT !.at = "cleaned", !.bad = IF @ = "auth" THEN @ ELSE "cleanup"])
    BY <1>1, <1>4, <2>1, JobGoesOn DEF RetiresLegacy
  <2>3. saved' \in SavedRecords /\ file' \in SavedRecords
    BY <1>1, <1>4 DEF WriteThrows
  <2>4. Job.at = "retiring" /\ UNCHANGED <<owned, cloud, signedIn, conn, failed, stopped, timer, attempts, local, asked>>
    BY DEF RetiresLegacy
  <2>5. SwitchTyped'
    <3> HIDE DEF SavedRecords, ListenerRecords, ProviderRecords
    <3> QED BY <1>1, <1>4, <2>1, <2>2, <2>3, <2>4 DEF WriteThrows
  <2>6. StageKept'
    BY <1>1, <1>4, <2>1, <2>2, <2>3, <2>4 DEF WriteThrows
  <2>7. ShownKept'
    BY <1>1, <1>4, <2>1, <2>2, <2>3, <2>4 DEF WriteThrows, ShownKept
  <2>8. LedgerKept'
    BY <1>1, <1>4, <2>1, <2>2, <2>3, <2>4 DEF WriteThrows, Tunnels, LedgerKept, NoTunnel
  <2>9. HostKept'
    BY <1>1, <1>4, <2>1, <2>2, <2>3, <2>4 DEF WriteThrows, HostKept
  <2>10. DisabledKept'
    BY <1>1, <1>4, <2>1, <2>2, <2>3, <2>4 DEF WriteThrows, ShownKept, LedgerKept, HostKept, DisabledKept, Restoring
  <2>11. RecoveryKept'
    BY <1>1, <1>4, <2>1, <2>2, <2>3, <2>4 DEF WriteThrows, ShownKept, RecoveryKept
  <2>12. LegacyKept'
    BY <1>1, <1>4, <2>1, <2>2, <2>3, <2>4 DEF WriteThrows, ShownKept, LegacyKept
  <2> QED BY <2>1, <2>2, <2>3, <2>4, <2>5, <2>6, <2>7, <2>8, <2>9, <2>10, <2>11, <2>12
<1>5. CASE legacy /\ ~saved.retired /\ legacy' \in BOOLEAN /\ UNCHANGED settings /\ Becomes([Job EXCEPT !.at = "cleaned", !.bad = IF Job.bad = "auth" \/ saved.account \notin signedIn THEN "auth" ELSE "cleanup"])
  <2>1. [Job EXCEPT !.at = "cleaned", !.bad = IF Job.bad = "auth" \/ saved.account \notin signedIn THEN "auth" ELSE "cleanup"] \in JobRecords
    BY <1>1, <1>5 DEF JobRecords
  <2>2. GoesOn([Job EXCEPT !.at = "cleaned", !.bad = IF Job.bad = "auth" \/ saved.account \notin signedIn THEN "auth" ELSE "cleanup"])
    BY <1>1, <1>5, <2>1, JobGoesOn DEF RetiresLegacy
  <2>3. Job.at = "retiring" /\ UNCHANGED <<owned, cloud, signedIn, conn, failed, stopped, timer, attempts, local, asked>>
    BY DEF RetiresLegacy
  <2>4. SwitchTyped'
    <3> HIDE DEF SavedRecords, ListenerRecords, ProviderRecords
    <3> QED BY <1>1, <1>5, <2>1, <2>2, <2>3
  <2>5. StageKept'
    BY <1>1, <1>5, <2>1, <2>2, <2>3
  <2>6. ShownKept'
    BY <1>1, <1>5, <2>1, <2>2, <2>3 DEF ShownKept
  <2>7. LedgerKept'
    BY <1>1, <1>5, <2>1, <2>2, <2>3 DEF Tunnels, LedgerKept, NoTunnel
  <2>8. HostKept'
    BY <1>1, <1>5, <2>1, <2>2, <2>3 DEF HostKept
  <2>9. DisabledKept'
    BY <1>1, <1>5, <2>1, <2>2, <2>3 DEF ShownKept, LedgerKept, HostKept, DisabledKept, Restoring
  <2>10. RecoveryKept'
    BY <1>1, <1>5, <2>1, <2>2, <2>3 DEF ShownKept, RecoveryKept
  <2>11. LegacyKept'
    BY <1>1, <1>5, <2>1, <2>2, <2>3 DEF ShownKept, LegacyKept
  <2> QED BY <2>1, <2>2, <2>3, <2>4, <2>5, <2>6, <2>7, <2>8, <2>9, <2>10, <2>11
<1> QED BY <1>2, <1>3, <1>4, <1>5 DEF RetiresLegacy

\* A disable ends; a failure of any part keeps the cleanup pending.
LEMMA EndsDisableKeeps ==
  ASSUME SwitchTyped, SwitchKept, EndsDisable
  PROVE  SwitchTyped' /\ SwitchKept'
<1>1. Job \in JobRecords
  BY JobIs
<1>2. CASE Job.bad = "none" /\ Writes([saved EXCEPT !.pending = FALSE]) /\ conn' = "disabled" /\ failed' = "none" /\ Becomes([Job EXCEPT !.at = "again"])
  <2>1. [Job EXCEPT !.at = "again"] \in JobRecords
    BY <1>1, <1>2 DEF JobRecords
  <2>2. GoesOn([Job EXCEPT !.at = "again"])
    BY <1>1, <1>2, <2>1, JobGoesOn DEF EndsDisable
  <2>3. saved' \in SavedRecords /\ file' \in SavedRecords
    BY <1>1, <1>2 DEF Writes
  <2>4. Job.at = "cleaned" /\ Job.why = "disable" /\ UNCHANGED <<remote, signedIn, stopped, timer, attempts, local, asked>>
    BY DEF EndsDisable
  <2>5. SwitchTyped'
    BY <1>1, <1>2, <2>1, <2>2, <2>3, <2>4 DEF Writes
  <2>6. StageKept'
    BY <1>1, <1>2, <2>1, <2>2, <2>3, <2>4 DEF Writes
  <2>7. ShownKept'
    BY <1>1, <1>2, <2>1, <2>2, <2>3, <2>4 DEF Writes, ShownKept
  <2>8. LedgerKept'
    BY <1>1, <1>2, <2>1, <2>2, <2>3, <2>4 DEF Writes, Tunnels, LedgerKept, NoTunnel
  <2>9. HostKept'
    BY <1>1, <1>2, <2>1, <2>2, <2>3, <2>4 DEF Writes, HostKept
  <2>10. DisabledKept'
    BY <1>1, <1>2, <2>1, <2>2, <2>3, <2>4 DEF Writes, ShownKept, LedgerKept, HostKept, DisabledKept, Restoring
  <2>11. RecoveryKept'
    BY <1>1, <1>2, <2>1, <2>2, <2>3, <2>4 DEF Writes, ShownKept, RecoveryKept
  <2>12. LegacyKept'
    BY <1>1, <1>2, <2>1, <2>2, <2>3, <2>4 DEF Writes, ShownKept, LegacyKept
  <2> QED BY <2>1, <2>2, <2>3, <2>4, <2>5, <2>6, <2>7, <2>8, <2>9, <2>10, <2>11, <2>12
<1>3. CASE Job.bad = "none" /\ Writes([saved EXCEPT !.pending = FALSE]) /\ conn' = "disabled" /\ failed' = "none" /\ Done
  <2>1. JobEnded
    BY <1>1, <1>3, JobEnds DEF EndsDisable
  <2>2. saved' \in SavedRecords /\ file' \in SavedRecords
    BY <1>1, <1>3 DEF Writes
  <2>3. Job.at = "cleaned" /\ Job.why = "disable" /\ UNCHANGED <<remote, signedIn, stopped, timer, attempts, local, asked>>
    BY DEF EndsDisable
  <2>4. SwitchTyped'
    BY <1>1, <1>3, <2>1, <2>2, <2>3 DEF Writes
  <2>5. StageKept'
    BY <1>1, <1>3, <2>1, <2>2, <2>3 DEF Writes
  <2>6. ShownKept'
    BY <1>1, <1>3, <2>1, <2>2, <2>3 DEF Writes, ShownKept
  <2>7. LedgerKept'
    BY <1>1, <1>3, <2>1, <2>2, <2>3 DEF Writes, Tunnels, LedgerKept, NoTunnel
  <2>8. HostKept'
    BY <1>1, <1>3, <2>1, <2>2, <2>3 DEF Writes, HostKept
  <2>9. DisabledKept'
    BY <1>1, <1>3, <2>1, <2>2, <2>3 DEF Writes, ShownKept, LedgerKept, HostKept, DisabledKept, Restoring
  <2>10. RecoveryKept'
    BY <1>1, <1>3, <2>1, <2>2, <2>3 DEF Writes, ShownKept, RecoveryKept
  <2>11. LegacyKept'
    BY <1>1, <1>3, <2>1, <2>2, <2>3 DEF Writes, ShownKept, LegacyKept
  <2> QED BY <2>1, <2>2, <2>3, <2>4, <2>5, <2>6, <2>7, <2>8, <2>9, <2>10, <2>11
<1>4. CASE Job.bad = "none" /\ WriteThrows([saved EXCEPT !.pending = FALSE]) /\ conn' = "cleanupPending" /\ failed' = "other" /\ Done
  <2>1. JobEnded
    BY <1>1, <1>4, JobEnds DEF EndsDisable
  <2>2. saved' \in SavedRecords /\ file' \in SavedRecords
    BY <1>1, <1>4 DEF WriteThrows
  <2>3. Job.at = "cleaned" /\ Job.why = "disable" /\ UNCHANGED <<remote, signedIn, stopped, timer, attempts, local, asked>>
    BY DEF EndsDisable
  <2>4. SwitchTyped'
    BY <1>1, <1>4, <2>1, <2>2, <2>3 DEF WriteThrows
  <2>5. StageKept'
    BY <1>1, <1>4, <2>1, <2>2, <2>3 DEF WriteThrows
  <2>6. ShownKept'
    BY <1>1, <1>4, <2>1, <2>2, <2>3 DEF WriteThrows, ShownKept
  <2>7. LedgerKept'
    BY <1>1, <1>4, <2>1, <2>2, <2>3 DEF WriteThrows, Tunnels, LedgerKept, NoTunnel
  <2>8. HostKept'
    BY <1>1, <1>4, <2>1, <2>2, <2>3 DEF WriteThrows, HostKept
  <2>9. DisabledKept'
    BY <1>1, <1>4, <2>1, <2>2, <2>3 DEF WriteThrows, ShownKept, LedgerKept, HostKept, DisabledKept, Restoring
  <2>10. RecoveryKept'
    BY <1>1, <1>4, <2>1, <2>2, <2>3 DEF WriteThrows, ShownKept, RecoveryKept
  <2>11. LegacyKept'
    BY <1>1, <1>4, <2>1, <2>2, <2>3 DEF WriteThrows, ShownKept, LegacyKept
  <2> QED BY <2>1, <2>2, <2>3, <2>4, <2>5, <2>6, <2>7, <2>8, <2>9, <2>10, <2>11
<1>5. CASE UNCHANGED settings /\ conn' = "cleanupPending" /\ failed' = Job.bad /\ Done
  <2>1. JobEnded
    BY <1>1, <1>5, JobEnds DEF EndsDisable
  <2>2. Job.at = "cleaned" /\ Job.why = "disable" /\ UNCHANGED <<remote, signedIn, stopped, timer, attempts, local, asked>>
    BY DEF EndsDisable
  <2>3. SwitchTyped'
    BY <1>1, <1>5, <2>1, <2>2 DEF JobRecords
  <2>4. StageKept'
    BY <1>1, <1>5, <2>1, <2>2 DEF JobRecords
  <2>5. ShownKept'
    BY <1>1, <1>5, <2>1, <2>2 DEF JobRecords, ShownKept
  <2>6. LedgerKept'
    BY <1>1, <1>5, <2>1, <2>2 DEF JobRecords, Tunnels, LedgerKept, NoTunnel
  <2>7. HostKept'
    BY <1>1, <1>5, <2>1, <2>2 DEF JobRecords, HostKept
  <2>8. DisabledKept'
    BY <1>1, <1>5, <2>1, <2>2 DEF JobRecords, ShownKept, LedgerKept, HostKept, DisabledKept, Restoring
  <2>9. RecoveryKept'
    BY <1>1, <1>5, <2>1, <2>2 DEF JobRecords, ShownKept, RecoveryKept
  <2>10. LegacyKept'
    BY <1>1, <1>5, <2>1, <2>2 DEF JobRecords, ShownKept, LegacyKept
  <2> QED BY <2>1, <2>2, <2>3, <2>4, <2>5, <2>6, <2>7, <2>8, <2>9, <2>10
<1> QED BY <1>2, <1>3, <1>4, <1>5 DEF EndsDisable

\* The roll-back begins with the settings.
LEMMA BeginsUndoKeeps ==
  ASSUME SwitchTyped, SwitchKept, BeginsUndo
  PROVE  SwitchTyped' /\ SwitchKept'
<1>1. Job \in JobRecords
  BY JobIs
<1>2. CASE Writes([saved EXCEPT !.pending = TRUE]) /\ failed' = failed /\ Becomes([Job EXCEPT !.at = "stopping", !.why = "undo"])
  <2>1. [Job EXCEPT !.at = "stopping", !.why = "undo"] \in JobRecords
    BY <1>1, <1>2 DEF JobRecords
  <2>2. GoesOn([Job EXCEPT !.at = "stopping", !.why = "undo"])
    BY <1>1, <1>2, <2>1, JobGoesOn DEF BeginsUndo
  <2>3. saved' \in SavedRecords /\ file' \in SavedRecords
    BY <1>1, <1>2 DEF Writes
  <2>4. Job.at = "failing" /\ UNCHANGED <<remote, signedIn, conn, stopped, timer, attempts, local, asked>>
    BY DEF BeginsUndo
  <2>5. SwitchTyped'
    BY <1>1, <1>2, <2>1, <2>2, <2>3, <2>4 DEF Writes
  <2>6. StageKept'
    BY <1>1, <1>2, <2>1, <2>2, <2>3, <2>4 DEF Writes
  <2>7. ShownKept'
    BY <1>1, <1>2, <2>1, <2>2, <2>3, <2>4 DEF Writes, ShownKept
  <2>8. LedgerKept'
    BY <1>1, <1>2, <2>1, <2>2, <2>3, <2>4 DEF Writes, Tunnels, LedgerKept, NoTunnel
  <2>9. HostKept'
    BY <1>1, <1>2, <2>1, <2>2, <2>3, <2>4 DEF Writes, HostKept
  <2>10. DisabledKept'
    BY <1>1, <1>2, <2>1, <2>2, <2>3, <2>4 DEF Writes, ShownKept, LedgerKept, HostKept, DisabledKept, Restoring
  <2>11. RecoveryKept'
    BY <1>1, <1>2, <2>1, <2>2, <2>3, <2>4 DEF Writes, ShownKept, RecoveryKept
  <2>12. LegacyKept'
    BY <1>1, <1>2, <2>1, <2>2, <2>3, <2>4 DEF Writes, ShownKept, LegacyKept
  <2> QED BY <2>1, <2>2, <2>3, <2>4, <2>5, <2>6, <2>7, <2>8, <2>9, <2>10, <2>11, <2>12
<1>3. CASE WriteThrows([saved EXCEPT !.pending = TRUE]) /\ Throws("other")
  <2>1. JobEnded
    BY <1>1, <1>3, JobEnds DEF BeginsUndo, Throws
  <2>2. saved' \in SavedRecords /\ file' \in SavedRecords
    BY <1>1, <1>3 DEF WriteThrows
  <2>3. Job.at = "failing" /\ UNCHANGED <<remote, signedIn, conn, stopped, timer, attempts, local, asked>>
    BY DEF BeginsUndo
  <2>4. SwitchTyped'
    BY <1>1, <1>3, <2>1, <2>2, <2>3 DEF WriteThrows, Throws
  <2>5. StageKept'
    BY <1>1, <1>3, <2>1, <2>2, <2>3 DEF WriteThrows, Throws
  <2>6. ShownKept'
    BY <1>1, <1>3, <2>1, <2>2, <2>3 DEF WriteThrows, Throws, ShownKept
  <2>7. LedgerKept'
    BY <1>1, <1>3, <2>1, <2>2, <2>3 DEF WriteThrows, Throws, Tunnels, LedgerKept, NoTunnel
  <2>8. HostKept'
    BY <1>1, <1>3, <2>1, <2>2, <2>3 DEF WriteThrows, Throws, HostKept
  <2>9. DisabledKept'
    BY <1>1, <1>3, <2>1, <2>2, <2>3 DEF WriteThrows, Throws, ShownKept, LedgerKept, HostKept, DisabledKept, Restoring
  <2>10. RecoveryKept'
    BY <1>1, <1>3, <2>1, <2>2, <2>3 DEF WriteThrows, Throws, ShownKept, RecoveryKept
  <2>11. LegacyKept'
    BY <1>1, <1>3, <2>1, <2>2, <2>3 DEF WriteThrows, Throws, ShownKept, LegacyKept
  <2> QED BY <2>1, <2>2, <2>3, <2>4, <2>5, <2>6, <2>7, <2>8, <2>9, <2>10, <2>11
<1> QED BY <1>2, <1>3 DEF BeginsUndo

\* An enable that failed has cleaned up.
LEMMA EndsUndoKeeps ==
  ASSUME SwitchTyped, SwitchKept, EndsUndo
  PROVE  SwitchTyped' /\ SwitchKept'
<1>1. Job \in JobRecords
  BY JobIs
<1>2. Job.code \in Codes /\ Job.code # "cleanup" /\ saved'.pending \in BOOLEAN
  BY <1>1 DEF EndsUndo, Writes, WriteThrows, JobRecords
<1>3. /\ conn' \in {"cleanupPending", "authRequired", "disabled", "error"}
      /\ conn' = "disabled" => ~saved'.enabled /\ ~saved'.pending
      /\ failed' \in Codes /\ timer' \in {"off", "set"} /\ attempts' \in 0..MaxRecoveries
      /\ conn' = "error" /\ ConnectionsEnabled => timer' = "set" \/ attempts' = MaxRecoveries
  BY <1>2, EndsBadlyIs DEF EndsUndo
<1>4. JobEnded
  BY <1>1, JobEnds DEF EndsUndo
<1>5. saved' \in {saved, [saved EXCEPT !.pending = FALSE]} /\ file' \in {file, [saved EXCEPT !.pending = FALSE]} /\ (Job.bad # "none" => saved' = saved /\ file' = file)
  BY DEF EndsUndo, Writes, WriteThrows
<1>6. saved' \in SavedRecords /\ file' \in SavedRecords
  BY <1>5
<1>7. Job.at = "cleaned" /\ Job.why = "undo" /\ UNCHANGED <<remote, signedIn, stopped, local, asked>>
  BY DEF EndsUndo
<1>8. SwitchTyped'
  BY <1>1, <1>2, <1>3, <1>4, <1>5, <1>6, <1>7
<1>9. StageKept'
  BY <1>1, <1>2, <1>3, <1>4, <1>5, <1>6, <1>7
<1>10. ShownKept'
  BY <1>1, <1>2, <1>3, <1>4, <1>5, <1>6, <1>7 DEF ShownKept
<1>11. LedgerKept'
  BY <1>1, <1>2, <1>3, <1>4, <1>5, <1>6, <1>7 DEF Tunnels, LedgerKept, NoTunnel
<1>12. HostKept'
  BY <1>1, <1>2, <1>3, <1>4, <1>5, <1>6, <1>7 DEF HostKept
<1>13. DisabledKept'
  BY <1>1, <1>2, <1>3, <1>4, <1>5, <1>6, <1>7 DEF ShownKept, LedgerKept, HostKept, DisabledKept, Restoring
<1>14. RecoveryKept'
  BY <1>1, <1>2, <1>3, <1>4, <1>5, <1>6, <1>7 DEF ShownKept, RecoveryKept
<1>15. LegacyKept'
  BY <1>1, <1>2, <1>3, <1>4, <1>5, <1>6, <1>7 DEF ShownKept, LegacyKept
<1> QED BY <1>2, <1>3, <1>4, <1>5, <1>6, <1>7, <1>8, <1>9, <1>10, <1>11, <1>12, <1>13, <1>14, <1>15

\* The listener is started with nothing of an earlier run left.
LEMMA StartsListenerKeeps ==
  ASSUME SwitchTyped, SwitchKept, StartsListener
  PROVE  SwitchTyped' /\ SwitchKept'
<1>1. Job \in JobRecords
  BY JobIs
<1>2. CASE Writes([saved EXCEPT !.enabled = TRUE, !.pending = FALSE]) /\ conn' = "starting" /\ Becomes([Job EXCEPT !.at = "gateway"]) /\ UNCHANGED <<failed, timer, attempts>>
  <2>1. [Job EXCEPT !.at = "gateway"] \in JobRecords
    BY <1>1, <1>2 DEF JobRecords
  <2>2. GoesOn([Job EXCEPT !.at = "gateway"])
    BY <1>1, <1>2, <2>1, JobGoesOn DEF StartsListener
  <2>3. saved' \in SavedRecords /\ file' \in SavedRecords
    BY <1>1, <1>2 DEF Writes
  <2>4. Job.at = "cleaned" /\ Job.why = "enable" /\ Job.bad = "none" /\ ~Cancelled /\ UNCHANGED <<remote, signedIn, stopped, local, asked>>
    BY DEF StartsListener
  <2>5. SwitchTyped'
    BY <1>1, <1>2, <2>1, <2>2, <2>3, <2>4 DEF Writes, Cancelled
  <2>6. StageKept'
    BY <1>1, <1>2, <2>1, <2>2, <2>3, <2>4 DEF Writes, Cancelled
  <2>7. ShownKept'
    BY <1>1, <1>2, <2>1, <2>2, <2>3, <2>4 DEF Writes, Cancelled, ShownKept
  <2>8. LedgerKept'
    BY <1>1, <1>2, <2>1, <2>2, <2>3, <2>4 DEF Writes, Cancelled, Tunnels, LedgerKept, NoTunnel
  <2>9. HostKept'
    BY <1>1, <1>2, <2>1, <2>2, <2>3, <2>4 DEF Writes, Cancelled, HostKept
  <2>10. DisabledKept'
    BY <1>1, <1>2, <2>1, <2>2, <2>3, <2>4 DEF Writes, Cancelled, ShownKept, LedgerKept, HostKept, DisabledKept, Restoring
  <2>11. RecoveryKept'
    BY <1>1, <1>2, <2>1, <2>2, <2>3, <2>4 DEF Writes, Cancelled, ShownKept, RecoveryKept
  <2>12. LegacyKept'
    BY <1>1, <1>2, <2>1, <2>2, <2>3, <2>4 DEF Writes, Cancelled, ShownKept, LegacyKept
  <2> QED BY <2>1, <2>2, <2>3, <2>4, <2>5, <2>6, <2>7, <2>8, <2>9, <2>10, <2>11, <2>12
<1>3. CASE WriteThrows([saved EXCEPT !.enabled = TRUE, !.pending = FALSE]) /\ EndsBadly("other") /\ Done
  <2>1. JobEnded
    BY <1>1, <1>3, JobEnds DEF StartsListener
  <2>2. saved'.pending \in BOOLEAN
    BY <1>1, <1>3 DEF WriteThrows
  <2>3. saved' \in SavedRecords /\ file' \in SavedRecords
    BY <1>1, <1>3 DEF WriteThrows
  <2>4. Job.at = "cleaned" /\ Job.why = "enable" /\ Job.bad = "none" /\ ~Cancelled /\ UNCHANGED <<remote, signedIn, stopped, local, asked>>
    BY DEF StartsListener
  <2>5. /\ conn' \in {"cleanupPending", "authRequired", "disabled", "error"}
        /\ conn' = "disabled" => ~saved'.enabled /\ ~saved'.pending
        /\ failed' \in Codes /\ timer' \in {"off", "set"} /\ attempts' \in 0..MaxRecoveries
        /\ conn' = "error" /\ ConnectionsEnabled => timer' = "set" \/ attempts' = MaxRecoveries
    BY <1>1, <1>3, <2>2, EndsBadlyIs
  <2>6. SwitchTyped'
    BY <1>1, <1>3, <2>1, <2>2, <2>3, <2>4, <2>5 DEF WriteThrows
  <2>7. StageKept'
    BY <1>1, <1>3, <2>1, <2>2, <2>3, <2>4, <2>5 DEF WriteThrows
  <2>8. ShownKept'
    BY <1>1, <1>3, <2>1, <2>2, <2>3, <2>4, <2>5 DEF WriteThrows, ShownKept
  <2>9. LedgerKept'
    BY <1>1, <1>3, <2>1, <2>2, <2>3, <2>4, <2>5 DEF WriteThrows, Tunnels, LedgerKept, NoTunnel
  <2>10. HostKept'
    BY <1>1, <1>3, <2>1, <2>2, <2>3, <2>4, <2>5 DEF WriteThrows, HostKept
  <2>11. DisabledKept'
    BY <1>1, <1>3, <2>1, <2>2, <2>3, <2>4, <2>5 DEF WriteThrows, ShownKept, LedgerKept, HostKept, DisabledKept, Restoring
  <2>12. RecoveryKept'
    BY <1>1, <1>3, <2>1, <2>2, <2>3, <2>4, <2>5 DEF WriteThrows, ShownKept, RecoveryKept
  <2>13. LegacyKept'
    BY <1>1, <1>3, <2>1, <2>2, <2>3, <2>4, <2>5 DEF WriteThrows, ShownKept, LegacyKept
  <2> QED BY <2>1, <2>2, <2>3, <2>4, <2>5, <2>6, <2>7, <2>8, <2>9, <2>10, <2>11, <2>12, <2>13
<1> QED BY <1>2, <1>3 DEF StartsListener

\* An enable that cannot clean up stays down.
LEMMA StaysDownKeeps ==
  ASSUME SwitchTyped, SwitchKept, StaysDown
  PROVE  SwitchTyped' /\ SwitchKept'
<1>1. Job \in JobRecords
  BY JobIs
<1>2. saved.pending
  BY DEF StaysDown
<1>3. (IF Job.bad # "none" THEN Job.bad ELSE "cancelled") \in Codes
  BY <1>1 DEF JobRecords
<1> QED BY <1>2, <1>3, FailsEarlyKeeps DEF StaysDown

\* A switch goes on to enable, unless it was given up.
LEMMA EnablesAgainKeeps ==
  ASSUME SwitchTyped, SwitchKept, EnablesAgain
  PROVE  SwitchTyped' /\ SwitchKept'
<1>1. Job \in JobRecords
  BY JobIs
<1>2. CASE Done /\ UNCHANGED <<stopped, conn, timer, attempts, failed>>
  <2>1. JobEnded
    BY <1>1, <1>2, JobEnds DEF EnablesAgain
  <2>2. SwitchTyped'
    <3> HIDE DEF SavedRecords, ListenerRecords, ProviderRecords
    <3> QED BY <1>1, <1>2, <2>1 DEF EnablesAgain
  <2>3. StageKept'
    BY <1>1, <1>2, <2>1 DEF EnablesAgain
  <2>4. ShownKept'
    BY <1>1, <1>2, <2>1 DEF EnablesAgain, ShownKept
  <2>5. LedgerKept'
    BY <1>1, <1>2, <2>1 DEF EnablesAgain, Tunnels, LedgerKept, NoTunnel
  <2>6. HostKept'
    BY <1>1, <1>2, <2>1 DEF EnablesAgain, HostKept
  <2>7. DisabledKept'
    BY <1>1, <1>2, <2>1 DEF EnablesAgain, ShownKept, LedgerKept, HostKept, DisabledKept, Restoring
  <2>8. RecoveryKept'
    BY <1>1, <1>2, <2>1 DEF EnablesAgain, ShownKept, RecoveryKept
  <2>9. LegacyKept'
    BY <1>1, <1>2, <2>1 DEF EnablesAgain, ShownKept, LegacyKept
  <2> QED BY <2>1, <2>2, <2>3, <2>4, <2>5, <2>6, <2>7, <2>8, <2>9
<1>3. CASE /\ Becomes([Job EXCEPT !.at = "account", !.why = "enable", !.code = "none"])
           /\ stopped' = FALSE /\ timer' = "off" /\ attempts' = 0 /\ failed' = "none" /\ conn' = "authenticating"
  <2>1. [Job EXCEPT !.at = "account", !.why = "enable", !.code = "none"] \in JobRecords
    BY <1>1, <1>3 DEF JobRecords
  <2>2. GoesOn([Job EXCEPT !.at = "account", !.why = "enable", !.code = "none"])
    BY <1>1, <1>3, <2>1, JobGoesOn DEF EnablesAgain
  <2>3. attempts' \in 0..MaxRecoveries /\ UNCHANGED <<settings, remote, signedIn, local, asked>>
    BY <1>1, <1>3, RecoveriesAssumption DEF EnablesAgain
  <2>4. SwitchTyped'
    <3> HIDE DEF SavedRecords, ListenerRecords, ProviderRecords
    <3> QED BY <1>1, <1>3, <2>1, <2>2, <2>3
  <2>5. StageKept'
    BY <1>1, <1>3, <2>1, <2>2, <2>3
  <2>6. ShownKept'
    BY <1>1, <1>3, <2>1, <2>2, <2>3 DEF ShownKept
  <2>7. LedgerKept'
    BY <1>1, <1>3, <2>1, <2>2, <2>3 DEF Tunnels, LedgerKept, NoTunnel
  <2>8. HostKept'
    BY <1>1, <1>3, <2>1, <2>2, <2>3 DEF HostKept
  <2>9. DisabledKept'
    BY <1>1, <1>3, <2>1, <2>2, <2>3 DEF ShownKept, LedgerKept, HostKept, DisabledKept, Restoring
  <2>10. RecoveryKept'
    BY <1>1, <1>3, <2>1, <2>2, <2>3 DEF ShownKept, RecoveryKept
  <2>11. LegacyKept'
    BY <1>1, <1>3, <2>1, <2>2, <2>3 DEF ShownKept, LegacyKept
  <2> QED BY <2>1, <2>2, <2>3, <2>4, <2>5, <2>6, <2>7, <2>8, <2>9, <2>10, <2>11
<1> QED BY <1>2, <1>3 DEF EnablesAgain

\* The gateway opens.
LEMMA OpensGatewayKeeps ==
  ASSUME SwitchTyped, SwitchKept, OpensGateway
  PROVE  SwitchTyped' /\ SwitchKept'
<1>1. Job \in JobRecords
  BY JobIs
<1>2. CASE StartFails("other")
  BY <1>1, <1>2, StartFailsKeeps DEF OpensGateway
<1>3. CASE /\ lst' = [lst EXCEPT !.state = "starting", !.gateway = TRUE] /\ Faultless
           /\ Becomes([Job EXCEPT !.at = "record"])
           /\ UNCHANGED <<settings, remote, signedIn, conn, failed, stopped, timer, attempts, sdk, asked>>
  <2>1. [Job EXCEPT !.at = "record"] \in JobRecords
    BY <1>1, <1>3 DEF JobRecords
  <2>2. GoesOn([Job EXCEPT !.at = "record"])
    BY <1>1, <1>3, <2>1, JobGoesOn DEF OpensGateway
  <2>3. lst' \in ListenerRecords
    BY <1>1, <1>3 DEF OpensGateway
  <2>4. Job.at = "gateway"
    BY DEF OpensGateway
  <2>5. SwitchTyped'
    BY <1>1, <1>3, <2>1, <2>2, <2>3, <2>4
  <2>6. StageKept'
    BY <1>1, <1>3, <2>1, <2>2, <2>3, <2>4
  <2>7. ShownKept'
    BY <1>1, <1>3, <2>1, <2>2, <2>3, <2>4 DEF ShownKept
  <2>8. LedgerKept'
    BY <1>1, <1>3, <2>1, <2>2, <2>3, <2>4 DEF Tunnels, LedgerKept, NoTunnel
  <2>9. HostKept'
    BY <1>1, <1>3, <2>1, <2>2, <2>3, <2>4 DEF HostKept
  <2>10. DisabledKept'
    BY <1>1, <1>3, <2>1, <2>2, <2>3, <2>4 DEF ShownKept, LedgerKept, HostKept, DisabledKept, Restoring
  <2>11. RecoveryKept'
    BY <1>1, <1>3, <2>1, <2>2, <2>3, <2>4 DEF ShownKept, RecoveryKept
  <2>12. LegacyKept'
    BY <1>1, <1>3, <2>1, <2>2, <2>3, <2>4 DEF ShownKept, LegacyKept
  <2> QED BY <2>1, <2>2, <2>3, <2>4, <2>5, <2>6, <2>7, <2>8, <2>9, <2>10, <2>11, <2>12
<1> QED BY <1>2, <1>3 DEF OpensGateway

\* The tunnel is recorded under an id that is free.
LEMMA RecordsTunnelKeeps ==
  ASSUME SwitchTyped, SwitchKept, RecordsTunnel
  PROVE  SwitchTyped' /\ SwitchKept'
<1>1. Job \in JobRecords
  BY JobIs
<1>2. CASE StartFails(IF saved.account \in signedIn THEN "other" ELSE "auth")
  BY <1>1, <1>2, StartFailsKeeps DEF RecordsTunnel
<1>3. CASE /\ ConnectionsEnabled /\ saved.account \in signedIn /\ owned.id = 0 /\ Faultless
           /\ owned' = [id |-> CHOOSE i \in TunnelIds : \A t \in cloud : t.id # i, account |-> saved.account, phase |-> "creating"]
           /\ sdk' = [status |-> "starting", host |-> 0, cut |-> FALSE]
           /\ Becomes([Job EXCEPT !.at = "create"])
           /\ UNCHANGED <<settings, cloud, legacy, signedIn, conn, failed, stopped, timer, attempts, lst, asked>>
  <2>1. [Job EXCEPT !.at = "create"] \in JobRecords
    BY <1>1, <1>3 DEF JobRecords
  <2>2. GoesOn([Job EXCEPT !.at = "create"])
    BY <1>1, <1>3, <2>1, JobGoesOn DEF RecordsTunnel
  <2>3. cloud = {} /\ 0 \notin TunnelIds /\ owned'.id \in TunnelIds
    <3>1. cloud = {}
      BY <1>3 DEF LedgerKept, TunnelIds, Tunnels
    <3>2. \E i \in TunnelIds : \A t \in cloud : t.id # i
      BY <3>1 DEF TunnelIds
    <3>3. (CHOOSE i \in TunnelIds : \A t \in cloud : t.id # i) \in TunnelIds
      BY <3>2
    <3> QED BY <1>3, <3>1, <3>3 DEF TunnelIds
  <2>4. owned' \in OwnTunnels /\ owned'.id # 0 /\ owned'.account = saved.account
    BY <1>1, <1>3, <2>3 DEF OwnTunnels
  <2>5. sdk' \in ProviderRecords
    BY <1>1, <1>3 DEF TunnelIds
  <2>6. Job.at = "record" /\ saved.enabled /\ sdk'.host = 0 /\ UNCHANGED <<settings, cloud, legacy, signedIn, conn, failed, stopped, timer, attempts, lst, asked>>
    BY <1>1, <1>3 DEF RecordsTunnel
  <2>7. SwitchTyped'
    BY <1>1, <1>3, <2>1, <2>2, <2>3, <2>4, <2>5, <2>6
  <2>8. StageKept'
    BY <1>1, <1>3, <2>1, <2>2, <2>3, <2>4, <2>5, <2>6
  <2>9. ShownKept'
    BY <1>1, <1>3, <2>1, <2>2, <2>3, <2>4, <2>5, <2>6 DEF ShownKept
  <2>10. LedgerKept'
    BY <1>1, <1>3, <2>1, <2>2, <2>3, <2>4, <2>5, <2>6 DEF Tunnels, LedgerKept, NoTunnel
  <2>11. HostKept'
    BY <1>1, <1>3, <2>1, <2>2, <2>3, <2>4, <2>5, <2>6 DEF HostKept
  <2>12. DisabledKept'
    BY <1>1, <1>3, <2>1, <2>2, <2>3, <2>4, <2>5, <2>6 DEF ShownKept, LedgerKept, HostKept, DisabledKept, Restoring
  <2>13. RecoveryKept'
    BY <1>1, <1>3, <2>1, <2>2, <2>3, <2>4, <2>5, <2>6 DEF ShownKept, RecoveryKept
  <2>14. LegacyKept'
    BY <1>1, <1>3, <2>1, <2>2, <2>3, <2>4, <2>5, <2>6 DEF ShownKept, LegacyKept
  <2> QED BY <2>1, <2>2, <2>3, <2>4, <2>5, <2>6, <2>7, <2>8, <2>9, <2>10, <2>11, <2>12, <2>13, <2>14
<1> QED BY <1>2, <1>3 DEF RecordsTunnel

\* The tunnel is made, or may have been.
LEMMA CreatesTunnelKeeps ==
  ASSUME SwitchTyped, SwitchKept, CreatesTunnel
  PROVE  SwitchTyped' /\ SwitchKept'
<1>1. Job \in JobRecords
  BY JobIs
<1>2. CASE /\ cloud' = cloud \union {[id |-> owned.id, account |-> owned.account, hosted |-> FALSE]}
           /\ Becomes([Job EXCEPT !.at = "host"])
           /\ UNCHANGED <<settings, owned, legacy, signedIn, conn, failed, stopped, timer, attempts, local, asked>>
  <2>1. [Job EXCEPT !.at = "host"] \in JobRecords
    BY <1>1, <1>2 DEF JobRecords
  <2>2. GoesOn([Job EXCEPT !.at = "host"])
    BY <1>1, <1>2, <2>1, JobGoesOn DEF CreatesTunnel
  <2>3. Job.at = "create"
    BY DEF CreatesTunnel
  <2>4. owned \in OwnTunnels /\ owned.account = saved.account /\ (saved.enabled \/ saved.pending)
    BY <2>3 DEF LedgerKept, NoTunnel
  <2>5. cloud' \in SUBSET Tunnels /\ \A t \in cloud' : t.id = owned.id /\ t.account = saved.account
    <3>1. [id |-> owned.id, account |-> owned.account, hosted |-> FALSE] \in Tunnels
      BY <2>4 DEF OwnTunnels, Tunnels
    <3>2. \A t \in cloud : t \in Tunnels /\ t.id = owned.id /\ t.account = saved.account
      BY DEF LedgerKept
    <3>3. \A t \in cloud' : t \in cloud \/ t = [id |-> owned.id, account |-> owned.account, hosted |-> FALSE]
      BY <1>1, <1>2
    <3>4. [id |-> owned.id, account |-> owned.account, hosted |-> FALSE].id = owned.id /\ [id |-> owned.id, account |-> owned.account, hosted |-> FALSE].account = saved.account
      BY <2>4
    <3>5. ASSUME NEW t \in cloud' PROVE t \in Tunnels /\ t.id = owned.id /\ t.account = saved.account
      BY <3>1, <3>2, <3>3, <3>4
    <3> QED BY <3>5
  <2>6. SwitchTyped'
    BY <1>1, <1>2, <2>1, <2>2, <2>3, <2>4, <2>5
  <2>7. StageKept'
    BY <1>1, <1>2, <2>1, <2>2, <2>3, <2>4, <2>5
  <2>8. ShownKept'
    BY <1>1, <1>2, <2>1, <2>2, <2>3, <2>4, <2>5 DEF ShownKept
  <2>9. LedgerKept'
    BY <1>1, <1>2, <2>1, <2>2, <2>3, <2>4, <2>5 DEF Tunnels, LedgerKept, NoTunnel
  <2>10. HostKept'
    BY <1>1, <1>2, <2>1, <2>2, <2>3, <2>4, <2>5 DEF HostKept
  <2>11. DisabledKept'
    BY <1>1, <1>2, <2>1, <2>2, <2>3, <2>4, <2>5 DEF ShownKept, LedgerKept, HostKept, DisabledKept, Restoring
  <2>12. RecoveryKept'
    BY <1>1, <1>2, <2>1, <2>2, <2>3, <2>4, <2>5 DEF ShownKept, RecoveryKept
  <2>13. LegacyKept'
    BY <1>1, <1>2, <2>1, <2>2, <2>3, <2>4, <2>5 DEF ShownKept, LegacyKept
  <2> QED BY <2>1, <2>2, <2>3, <2>4, <2>5, <2>6, <2>7, <2>8, <2>9, <2>10, <2>11, <2>12, <2>13
<1>3. CASE /\ cloud' = cloud \/ cloud' = cloud \union {[id |-> owned.id, account |-> owned.account, hosted |-> FALSE]}
           /\ UNCHANGED <<owned, legacy>> /\ sdk' = [status |-> "circuit-open", host |-> 0, cut |-> TRUE]
           /\ lst' = [lst EXCEPT !.state = "error", !.gateway = FALSE]
           /\ FailsLate(IF sdk.cut THEN "cancelled" ELSE "other")
  <2>1. [Job EXCEPT !.at = "failing", !.bad = "none", !.code = IF sdk.cut THEN "cancelled" ELSE "other"] \in JobRecords
    BY <1>1, <1>3 DEF JobRecords
  <2>2. GoesOn([Job EXCEPT !.at = "failing", !.bad = "none", !.code = IF sdk.cut THEN "cancelled" ELSE "other"])
    BY <1>1, <1>3, <2>1, JobGoesOn DEF CreatesTunnel, FailsLate
  <2>3. Job.at = "create"
    BY DEF CreatesTunnel
  <2>4. owned \in OwnTunnels /\ owned.account = saved.account /\ (saved.enabled \/ saved.pending)
    BY <2>3 DEF LedgerKept, NoTunnel
  <2>5. cloud' \in SUBSET Tunnels /\ \A t \in cloud' : t.id = owned.id /\ t.account = saved.account
    <3>1. [id |-> owned.id, account |-> owned.account, hosted |-> FALSE] \in Tunnels
      BY <2>4 DEF OwnTunnels, Tunnels
    <3>2. \A t \in cloud : t \in Tunnels /\ t.id = owned.id /\ t.account = saved.account
      BY DEF LedgerKept
    <3>3. \A t \in cloud' : t \in cloud \/ t = [id |-> owned.id, account |-> owned.account, hosted |-> FALSE]
      BY <1>1, <1>3
    <3>4. [id |-> owned.id, account |-> owned.account, hosted |-> FALSE].id = owned.id /\ [id |-> owned.id, account |-> owned.account, hosted |-> FALSE].account = saved.account
      BY <2>4
    <3>5. ASSUME NEW t \in cloud' PROVE t \in Tunnels /\ t.id = owned.id /\ t.account = saved.account
      BY <3>1, <3>2, <3>3, <3>4
    <3> QED BY <3>5
  <2>6. saved' \in SavedRecords /\ file' \in SavedRecords
    BY <1>1, <1>3 DEF FailsLate
  <2>7. lst' \in ListenerRecords
    BY <1>1, <1>3 DEF TunnelIds
  <2>8. sdk' \in ProviderRecords
    BY <1>1, <1>3 DEF TunnelIds
  <2>9. /\ sdk'.host = 0 /\ ~lst'.gateway /\ lst'.stuck = lst.stuck
        /\ UNCHANGED <<settings, owned, legacy, signedIn, conn, failed, stopped, timer, attempts, asked>>
    BY <1>1, <1>3 DEF FailsLate
  <2>10. SwitchTyped'
    BY <1>1, <1>3, <2>1, <2>2, <2>3, <2>4, <2>5, <2>6, <2>7, <2>8, <2>9
  <2>11. StageKept'
    BY <1>1, <1>3, <2>1, <2>2, <2>3, <2>4, <2>5, <2>6, <2>7, <2>8, <2>9
  <2>12. ShownKept'
    BY <1>1, <1>3, <2>1, <2>2, <2>3, <2>4, <2>5, <2>6, <2>7, <2>8, <2>9 DEF ShownKept
  <2>13. LedgerKept'
    BY <1>1, <1>3, <2>1, <2>2, <2>3, <2>4, <2>5, <2>6, <2>7, <2>8, <2>9 DEF Tunnels, LedgerKept, NoTunnel
  <2>14. HostKept'
    BY <1>1, <1>3, <2>1, <2>2, <2>3, <2>4, <2>5, <2>6, <2>7, <2>8, <2>9 DEF HostKept
  <2>15. DisabledKept'
    BY <1>1, <1>3, <2>1, <2>2, <2>3, <2>4, <2>5, <2>6, <2>7, <2>8, <2>9 DEF ShownKept, LedgerKept, HostKept, DisabledKept, Restoring
  <2>16. RecoveryKept'
    BY <1>1, <1>3, <2>1, <2>2, <2>3, <2>4, <2>5, <2>6, <2>7, <2>8, <2>9 DEF ShownKept, RecoveryKept
  <2>17. LegacyKept'
    BY <1>1, <1>3, <2>1, <2>2, <2>3, <2>4, <2>5, <2>6, <2>7, <2>8, <2>9 DEF ShownKept, LegacyKept
  <2> QED BY <2>1, <2>2, <2>3, <2>4, <2>5, <2>6, <2>7, <2>8, <2>9, <2>10, <2>11, <2>12, <2>13, <2>14, <2>15, <2>16, <2>17
<1> QED BY <1>2, <1>3 DEF CreatesTunnel

\* The tunnel is hosted.
LEMMA HostsTunnelKeeps ==
  ASSUME SwitchTyped, SwitchKept, HostsTunnel
  PROVE  SwitchTyped' /\ SwitchKept'
<1>1. Job \in JobRecords
  BY JobIs
<1>2. CASE StartFails(IF sdk.cut THEN "cancelled" ELSE "other")
  BY <1>1, <1>2, StartFailsKeeps DEF HostsTunnel
<1>3. CASE /\ ~sdk.cut /\ cloud' = {[t EXCEPT !.hosted = t.id = owned.id] : t \in cloud}
           /\ owned' = [owned EXCEPT !.phase = "hosting"]
           /\ sdk' = [sdk EXCEPT !.status = "ready", !.host = owned.id]
           /\ lst' = [lst EXCEPT !.state = "running"] /\ Becomes([Job EXCEPT !.at = "online"])
           /\ UNCHANGED <<settings, legacy, signedIn, conn, failed, stopped, timer, attempts, asked>>
  <2>1. [Job EXCEPT !.at = "online"] \in JobRecords
    BY <1>1, <1>3 DEF JobRecords
  <2>2. GoesOn([Job EXCEPT !.at = "online"])
    BY <1>1, <1>3, <2>1, JobGoesOn DEF HostsTunnel
  <2>3. cloud' \in SUBSET Tunnels /\ \A t \in cloud' : \E s \in cloud : t.id = s.id /\ t.account = s.account
    <3> SUFFICES ASSUME NEW t \in cloud' PROVE t \in Tunnels /\ \E s \in cloud : t.id = s.id /\ t.account = s.account
      OBVIOUS
    <3>1. PICK s \in cloud : t = [s EXCEPT !.hosted = s.id = owned.id]
      BY <1>1, <1>3
    <3>2. s \in Tunnels /\ (s.id = owned.id) \in BOOLEAN
      OBVIOUS
    <3> QED BY <3>1, <3>2 DEF Tunnels
  <2>4. Job.at = "host" /\ owned \in OwnTunnels /\ owned.id # 0
    BY DEF HostsTunnel, LedgerKept, NoTunnel
  <2>5. owned' \in OwnTunnels /\ owned'.id = owned.id /\ owned'.account = owned.account
    BY <1>1, <1>3, <2>4 DEF OwnTunnels
  <2>6. sdk' \in ProviderRecords /\ sdk'.host = owned.id
    BY <1>1, <1>3, <2>4 DEF OwnTunnels
  <2>7. sdk'.cut = sdk.cut /\ lst' \in ListenerRecords /\ lst'.gateway = lst.gateway /\ lst'.stuck = lst.stuck
    BY <1>1, <1>3
  <2>8. SwitchTyped'
    BY <1>1, <1>3, <2>1, <2>2, <2>3, <2>4, <2>5, <2>6, <2>7
  <2>9. StageKept'
    BY <1>1, <1>3, <2>1, <2>2, <2>3, <2>4, <2>5, <2>6, <2>7
  <2>10. ShownKept'
    BY <1>1, <1>3, <2>1, <2>2, <2>3, <2>4, <2>5, <2>6, <2>7 DEF ShownKept
  <2>11. LedgerKept'
    BY <1>1, <1>3, <2>1, <2>2, <2>3, <2>4, <2>5, <2>6, <2>7 DEF Tunnels, LedgerKept, NoTunnel
  <2>12. HostKept'
    BY <1>1, <1>3, <2>1, <2>2, <2>3, <2>4, <2>5, <2>6, <2>7 DEF HostKept
  <2>13. DisabledKept'
    BY <1>1, <1>3, <2>1, <2>2, <2>3, <2>4, <2>5, <2>6, <2>7 DEF ShownKept, LedgerKept, HostKept, DisabledKept, Restoring
  <2>14. RecoveryKept'
    BY <1>1, <1>3, <2>1, <2>2, <2>3, <2>4, <2>5, <2>6, <2>7 DEF ShownKept, RecoveryKept
  <2>15. LegacyKept'
    BY <1>1, <1>3, <2>1, <2>2, <2>3, <2>4, <2>5, <2>6, <2>7 DEF ShownKept, LegacyKept
  <2> QED BY <2>1, <2>2, <2>3, <2>4, <2>5, <2>6, <2>7, <2>8, <2>9, <2>10, <2>11, <2>12, <2>13, <2>14, <2>15
<1>4. CASE /\ cloud' = {[t EXCEPT !.hosted = t.id = owned.id] : t \in cloud}
           /\ owned' = [owned EXCEPT !.phase = "hosting"]
           /\ UNCHANGED legacy
           /\ sdk' = [status |-> "cleanup-failed", host |-> owned.id, cut |-> TRUE]
           /\ lst' = [lst EXCEPT !.state = "error", !.gateway = FALSE]
           /\ FailsLate(IF sdk.cut THEN "cancelled" ELSE "other")
  <2>1. [Job EXCEPT !.at = "failing", !.bad = "none", !.code = IF sdk.cut THEN "cancelled" ELSE "other"] \in JobRecords
    BY <1>1, <1>4 DEF JobRecords
  <2>2. GoesOn([Job EXCEPT !.at = "failing", !.bad = "none", !.code = IF sdk.cut THEN "cancelled" ELSE "other"])
    BY <1>1, <1>4, <2>1, JobGoesOn DEF HostsTunnel, FailsLate
  <2>3. cloud' \in SUBSET Tunnels /\ \A t \in cloud' : \E s \in cloud : t.id = s.id /\ t.account = s.account
    <3> SUFFICES ASSUME NEW t \in cloud' PROVE t \in Tunnels /\ \E s \in cloud : t.id = s.id /\ t.account = s.account
      OBVIOUS
    <3>1. PICK s \in cloud : t = [s EXCEPT !.hosted = s.id = owned.id]
      BY <1>1, <1>4
    <3>2. s \in Tunnels /\ (s.id = owned.id) \in BOOLEAN
      OBVIOUS
    <3> QED BY <3>1, <3>2 DEF Tunnels
  <2>4. Job.at = "host" /\ owned \in OwnTunnels /\ owned.id # 0
    BY DEF HostsTunnel, LedgerKept, NoTunnel
  <2>5. owned' \in OwnTunnels /\ owned'.id = owned.id /\ owned'.account = owned.account
    BY <1>1, <1>4, <2>4 DEF OwnTunnels
  <2>6. sdk' \in ProviderRecords /\ sdk'.host = owned.id
    BY <1>1, <1>4, <2>4 DEF OwnTunnels
  <2>7. sdk'.cut /\ lst' \in ListenerRecords /\ ~lst'.gateway /\ lst'.stuck = lst.stuck
    BY <1>1, <1>4
  <2>8. UNCHANGED <<settings, legacy, signedIn, conn, failed, stopped, timer, attempts, asked>>
    BY <1>1, <1>4 DEF FailsLate
  <2>9. SwitchTyped'
    BY <1>1, <1>4, <2>1, <2>2, <2>3, <2>4, <2>5, <2>6, <2>7, <2>8
  <2>10. StageKept'
    BY <1>1, <1>4, <2>1, <2>2, <2>3, <2>4, <2>5, <2>6, <2>7, <2>8
  <2>11. ShownKept'
    BY <1>1, <1>4, <2>1, <2>2, <2>3, <2>4, <2>5, <2>6, <2>7, <2>8 DEF ShownKept
  <2>12. LedgerKept'
    BY <1>1, <1>4, <2>1, <2>2, <2>3, <2>4, <2>5, <2>6, <2>7, <2>8 DEF Tunnels, LedgerKept, NoTunnel
  <2>13. HostKept'
    BY <1>1, <1>4, <2>1, <2>2, <2>3, <2>4, <2>5, <2>6, <2>7, <2>8 DEF HostKept
  <2>14. DisabledKept'
    BY <1>1, <1>4, <2>1, <2>2, <2>3, <2>4, <2>5, <2>6, <2>7, <2>8 DEF ShownKept, LedgerKept, HostKept, DisabledKept, Restoring
  <2>15. RecoveryKept'
    BY <1>1, <1>4, <2>1, <2>2, <2>3, <2>4, <2>5, <2>6, <2>7, <2>8 DEF ShownKept, RecoveryKept
  <2>16. LegacyKept'
    BY <1>1, <1>4, <2>1, <2>2, <2>3, <2>4, <2>5, <2>6, <2>7, <2>8 DEF ShownKept, LegacyKept
  <2> QED BY <2>1, <2>2, <2>3, <2>4, <2>5, <2>6, <2>7, <2>8, <2>9, <2>10, <2>11, <2>12, <2>13, <2>14, <2>15, <2>16
<1> QED BY <1>2, <1>3, <1>4 DEF HostsTunnel

\* The connections are up, if they still are wanted.
LEMMA GoesOnlineKeeps ==
  ASSUME SwitchTyped, SwitchKept, GoesOnline
  PROVE  SwitchTyped' /\ SwitchKept'
<1>1. Job \in JobRecords
  BY JobIs
<1>2. CASE FailsLate("cancelled") \/ FailsLate("other")
  BY <1>1, <1>2, FailsLateKeeps DEF GoesOnline
<1>3. CASE ~Cancelled /\ conn' = "online" /\ attempts' = 0 /\ Done /\ UNCHANGED <<settings, signedIn, failed, stopped, timer, asked>>
  <2>1. JobEnded
    BY <1>1, <1>3, JobEnds DEF GoesOnline
  <2>2. Job.at = "online" /\ UNCHANGED <<remote, local>>
    BY DEF GoesOnline
  <2>3. SwitchTyped'
    BY <1>1, <1>3, <2>1, <2>2, RecoveriesAssumption DEF Cancelled
  <2>4. StageKept'
    BY <1>1, <1>3, <2>1, <2>2 DEF Cancelled
  <2>5. ShownKept'
    BY <1>1, <1>3, <2>1, <2>2 DEF Cancelled, ShownKept
  <2>6. LedgerKept'
    BY <1>1, <1>3, <2>1, <2>2 DEF Cancelled, Tunnels, LedgerKept, NoTunnel
  <2>7. HostKept'
    BY <1>1, <1>3, <2>1, <2>2 DEF Cancelled, HostKept
  <2>8. DisabledKept'
    BY <1>1, <1>3, <2>1, <2>2 DEF Cancelled, ShownKept, LedgerKept, HostKept, DisabledKept, Restoring
  <2>9. RecoveryKept'
    BY <1>1, <1>3, <2>1, <2>2 DEF Cancelled, ShownKept, RecoveryKept
  <2>10. LegacyKept'
    BY <1>1, <1>3, <2>1, <2>2 DEF Cancelled, ShownKept, LegacyKept
  <2> QED BY <2>1, <2>2, <2>3, <2>4, <2>5, <2>6, <2>7, <2>8, <2>9, <2>10
<1> QED BY <1>2, <1>3 DEF GoesOnline

\* The host is lost.
LEMMA HostDropsKeeps ==
  ASSUME SwitchTyped, SwitchKept, HostDrops
  PROVE  SwitchTyped' /\ SwitchKept'
<1>1. Job \in JobRecords
  BY JobIs
<1>2. CASE sdk' = [status |-> "circuit-open", host |-> 0, cut |-> TRUE]
  <2>1. /\ jobs' = jobs /\ QueueKept' /\ Job' = Job /\ (Recovering => Recovering')
    BY <1>1, <1>2 DEF HostDrops, QueueKept, Job, Recovering
  <2>2. \/ conn' = conn /\ failed' = failed /\ timer' = timer /\ attempts' = attempts
        \/ /\ conn = "online" /\ conn' = "error" /\ failed' = "other" /\ timer' \in {"off", "set"} /\ attempts' \in 0..MaxRecoveries
           /\ ConnectionsEnabled => timer' = "set" \/ attempts' = MaxRecoveries
    BY <1>1, <1>2, SchedulesIs DEF HostDrops
  <2>3. lst' \in ListenerRecords
    BY <1>1, <1>2 DEF HostDrops
  <2>4. sdk' \in ProviderRecords
    BY <1>1, <1>2 DEF HostDrops
  <2>5. /\ cloud' \in SUBSET Tunnels
        /\ \A t \in cloud' : \E s \in cloud : t.id = s.id /\ t.account = s.account
    BY <1>1, <1>2, DropIs DEF HostDrops
  <2>6. owned' \in OwnTunnels \cup {NoTunnel} /\ owned'.id = owned.id /\ (owned.id # 0 => owned'.account = owned.account) /\ legacy' = legacy
    BY <1>1, <1>2 DEF HostDrops, Rests, OwnTunnels, NoTunnel, TunnelIds
  <2>7. SwitchTyped'
    BY <1>1, <1>2, <2>1, <2>2, <2>3, <2>4, <2>5, <2>6 DEF HostDrops
  <2>8. StageKept'
    BY <1>1, <1>2, <2>1, <2>2, <2>3, <2>4, <2>5, <2>6 DEF HostDrops
  <2>9. ShownKept'
    BY <1>1, <1>2, <2>1, <2>2, <2>3, <2>4, <2>5, <2>6 DEF HostDrops, ShownKept
  <2>10. LedgerKept'
    BY <1>1, <1>2, <2>1, <2>2, <2>3, <2>4, <2>5, <2>6 DEF HostDrops, Tunnels, LedgerKept, NoTunnel
  <2>11. HostKept'
    BY <1>1, <1>2, <2>1, <2>2, <2>3, <2>4, <2>5, <2>6 DEF HostDrops, HostKept
  <2>12. DisabledKept'
    BY <1>1, <1>2, <2>1, <2>2, <2>3, <2>4, <2>5, <2>6 DEF HostDrops, ShownKept, LedgerKept, HostKept, DisabledKept, Restoring
  <2>13. RecoveryKept'
    BY <1>1, <1>2, <2>1, <2>2, <2>3, <2>4, <2>5, <2>6 DEF HostDrops, ShownKept, RecoveryKept
  <2>14. LegacyKept'
    BY <1>1, <1>2, <2>1, <2>2, <2>3, <2>4, <2>5, <2>6 DEF HostDrops, ShownKept, LegacyKept
  <2> QED BY <2>1, <2>2, <2>3, <2>4, <2>5, <2>6, <2>7, <2>8, <2>9, <2>10, <2>11, <2>12, <2>13, <2>14
<1>3. CASE sdk' = [sdk EXCEPT !.status = "cleanup-failed", !.cut = TRUE] /\ UNCHANGED remote
  <2>1. /\ jobs' = jobs /\ QueueKept' /\ Job' = Job /\ (Recovering => Recovering')
    BY <1>1, <1>3 DEF HostDrops, QueueKept, Job, Recovering
  <2>2. \/ conn' = conn /\ failed' = failed /\ timer' = timer /\ attempts' = attempts
        \/ /\ conn = "online" /\ conn' = "error" /\ failed' = "other" /\ timer' \in {"off", "set"} /\ attempts' \in 0..MaxRecoveries
           /\ ConnectionsEnabled => timer' = "set" \/ attempts' = MaxRecoveries
    BY <1>1, <1>3, SchedulesIs DEF HostDrops
  <2>3. lst' \in ListenerRecords
    BY <1>1, <1>3 DEF HostDrops
  <2>4. sdk' \in ProviderRecords
    BY <1>1, <1>3 DEF HostDrops
  <2>5. SwitchTyped'
    BY <1>1, <1>3, <2>1, <2>2, <2>3, <2>4 DEF HostDrops
  <2>6. StageKept'
    BY <1>1, <1>3, <2>1, <2>2, <2>3, <2>4 DEF HostDrops
  <2>7. ShownKept'
    BY <1>1, <1>3, <2>1, <2>2, <2>3, <2>4 DEF HostDrops, ShownKept
  <2>8. LedgerKept'
    BY <1>1, <1>3, <2>1, <2>2, <2>3, <2>4 DEF HostDrops, Tunnels, LedgerKept, NoTunnel
  <2>9. HostKept'
    BY <1>1, <1>3, <2>1, <2>2, <2>3, <2>4 DEF HostDrops, HostKept
  <2>10. DisabledKept'
    BY <1>1, <1>3, <2>1, <2>2, <2>3, <2>4 DEF HostDrops, ShownKept, LedgerKept, HostKept, DisabledKept, Restoring
  <2>11. RecoveryKept'
    BY <1>1, <1>3, <2>1, <2>2, <2>3, <2>4 DEF HostDrops, ShownKept, RecoveryKept
  <2>12. LegacyKept'
    BY <1>1, <1>3, <2>1, <2>2, <2>3, <2>4 DEF HostDrops, ShownKept, LegacyKept
  <2> QED BY <2>1, <2>2, <2>3, <2>4, <2>5, <2>6, <2>7, <2>8, <2>9, <2>10, <2>11, <2>12
<1> QED BY <1>2, <1>3 DEF HostDrops

\* The gateway of a failed tunnel is closed.
LEMMA ClosesGatewayKeeps ==
  ASSUME SwitchTyped, SwitchKept, ClosesGateway
  PROVE  SwitchTyped' /\ SwitchKept'
<1>1. Job \in JobRecords
  BY JobIs
<1>2. /\ jobs' = jobs /\ QueueKept' /\ Job' = Job /\ (Recovering => Recovering')
  BY <1>1 DEF ClosesGateway, QueueKept, Job, Recovering
<1>3. lst' \in ListenerRecords
  BY <1>1 DEF ClosesGateway
<1>4. SwitchTyped'
  BY <1>1, <1>2, <1>3 DEF ClosesGateway
<1>5. StageKept'
  BY <1>1, <1>2, <1>3 DEF ClosesGateway
<1>6. ShownKept'
  BY <1>1, <1>2, <1>3 DEF ClosesGateway, ShownKept
<1>7. LedgerKept'
  BY <1>1, <1>2, <1>3 DEF ClosesGateway, Tunnels, LedgerKept, NoTunnel
<1>8. HostKept'
  BY <1>1, <1>2, <1>3 DEF ClosesGateway, HostKept
<1>9. DisabledKept'
  BY <1>1, <1>2, <1>3 DEF ClosesGateway, ShownKept, LedgerKept, HostKept, DisabledKept, Restoring
<1>10. RecoveryKept'
  BY <1>1, <1>2, <1>3 DEF ClosesGateway, ShownKept, RecoveryKept
<1>11. LegacyKept'
  BY <1>1, <1>2, <1>3 DEF ClosesGateway, ShownKept, LegacyKept
<1> QED BY <1>2, <1>3, <1>4, <1>5, <1>6, <1>7, <1>8, <1>9, <1>10, <1>11

\* The account still authorizes.
LEMMA RefreshesAccountKeeps ==
  ASSUME SwitchTyped, SwitchKept, RefreshesAccount
  PROVE  SwitchTyped' /\ SwitchKept'
<1>1. Job \in JobRecords
  BY JobIs
<1>2. JobEnded
  BY <1>1, JobEnds DEF RefreshesAccount
<1>3. /\ timer' \in {"off", "set"} /\ attempts' \in 0..MaxRecoveries
      /\ timer = "set" => timer' = "set"
      /\ attempts = MaxRecoveries => attempts' = MaxRecoveries
  BY SchedulesIs DEF RefreshesAccount
<1>4. SwitchTyped'
  BY <1>1, <1>2, <1>3 DEF RefreshesAccount
<1>5. StageKept'
  BY <1>1, <1>2, <1>3 DEF RefreshesAccount
<1>6. ShownKept'
  BY <1>1, <1>2, <1>3 DEF RefreshesAccount, ShownKept
<1>7. LedgerKept'
  BY <1>1, <1>2, <1>3 DEF RefreshesAccount, Tunnels, LedgerKept, NoTunnel
<1>8. HostKept'
  BY <1>1, <1>2, <1>3 DEF RefreshesAccount, HostKept
<1>9. DisabledKept'
  BY <1>1, <1>2, <1>3 DEF RefreshesAccount, ShownKept, LedgerKept, HostKept, DisabledKept, Restoring
<1>10. RecoveryKept'
  BY <1>1, <1>2, <1>3 DEF RefreshesAccount, ShownKept, RecoveryKept
<1>11. LegacyKept'
  BY <1>1, <1>2, <1>3 DEF RefreshesAccount, ShownKept, LegacyKept
<1> QED BY <1>2, <1>3, <1>4, <1>5, <1>6, <1>7, <1>8, <1>9, <1>10, <1>11

\* It does not.
LEMMA LosesAccountKeeps ==
  ASSUME SwitchTyped, SwitchKept, LosesAccount
  PROVE  SwitchTyped' /\ SwitchKept'
<1>1. Job \in JobRecords
  BY JobIs
<1>2. CASE /\ ListenerStops
           /\ \/ (timer' = "set" /\ attempts < MaxRecoveries /\ attempts' = attempts + 1)
              \/ (timer' = "off" /\ attempts' = attempts /\ (conn' = "authRequired" \/ ~(attempts < MaxRecoveries)))
  <2>1. JobEnded
    BY <1>1, <1>2, JobEnds DEF LosesAccount
  <2>2. /\ Job.at = "queued" /\ ConnectionsEnabled /\ conn' \in {"authRequired", "error"} /\ failed' \in {"auth", "other", "cleanup"}
        /\ UNCHANGED <<settings, signedIn, stopped, asked>>
    BY DEF LosesAccount
  <2>3. /\ timer' \in {"off", "set"} /\ attempts' \in 0..MaxRecoveries
        /\ conn' = "error" => timer' = "set" \/ attempts' = MaxRecoveries \/ lst'.stuck
    BY <1>1, <1>2, RecoveriesAssumption
  <2>4. /\ cloud' \in SUBSET Tunnels
        /\ \A t \in cloud' : \E s \in cloud : t.id = s.id /\ t.account = s.account
        /\ owned' \in OwnTunnels \cup {NoTunnel}
        /\ owned'.id = owned.id /\ (owned.id # 0 => owned'.account = owned.account)
        /\ sdk' = [status |-> "stopped", host |-> 0, cut |-> TRUE] /\ sdk' \in ProviderRecords /\ legacy' = legacy
    BY <1>1, <1>2, SdkStopsIs DEF ListenerStops
  <2>5. lst' \in ListenerRecords
    BY <1>1, <1>2 DEF ListenerStops, ListenerStopped
  <2>6. SwitchTyped'
    BY <1>1, <1>2, <2>1, <2>2, <2>3, <2>4, <2>5 DEF ListenerStops, ListenerStopped
  <2>7. StageKept'
    BY <1>1, <1>2, <2>1, <2>2, <2>3, <2>4, <2>5 DEF ListenerStops, ListenerStopped
  <2>8. ShownKept'
    BY <1>1, <1>2, <2>1, <2>2, <2>3, <2>4, <2>5 DEF ListenerStops, ListenerStopped, ShownKept
  <2>9. LedgerKept'
    BY <1>1, <1>2, <2>1, <2>2, <2>3, <2>4, <2>5 DEF ListenerStops, ListenerStopped, Tunnels, LedgerKept, NoTunnel
  <2>10. HostKept'
    BY <1>1, <1>2, <2>1, <2>2, <2>3, <2>4, <2>5 DEF ListenerStops, ListenerStopped, HostKept
  <2>11. DisabledKept'
    BY <1>1, <1>2, <2>1, <2>2, <2>3, <2>4, <2>5 DEF ListenerStops, ListenerStopped, ShownKept, LedgerKept, HostKept, DisabledKept, Restoring
  <2>12. RecoveryKept'
    BY <1>1, <1>2, <2>1, <2>2, <2>3, <2>4, <2>5 DEF ListenerStops, ListenerStopped, ShownKept, RecoveryKept
  <2>13. LegacyKept'
    BY <1>1, <1>2, <2>1, <2>2, <2>3, <2>4, <2>5 DEF ListenerStops, ListenerStopped, ShownKept, LegacyKept
  <2> QED BY <2>1, <2>2, <2>3, <2>4, <2>5, <2>6, <2>7, <2>8, <2>9, <2>10, <2>11, <2>12, <2>13
<1>3. CASE /\ timer' = "off" /\ attempts' = attempts /\ UNCHANGED <<remote, sdk>>
           /\ lst' = [lst EXCEPT !.stuck = TRUE]
  <2>1. JobEnded
    BY <1>1, <1>3, JobEnds DEF LosesAccount
  <2>2. /\ Job.at = "queued" /\ ConnectionsEnabled /\ conn' \in {"authRequired", "error"} /\ failed' \in {"auth", "other", "cleanup"}
        /\ UNCHANGED <<settings, signedIn, stopped, asked>>
    BY DEF LosesAccount
  <2>3. lst' \in ListenerRecords
    BY <1>1, <1>3 DEF TunnelIds
  <2>4. lst'.stuck
    BY <1>1, <1>3
  <2>5. SwitchTyped'
    BY <1>1, <1>3, <2>1, <2>2, <2>3, <2>4
  <2>6. StageKept'
    BY <1>1, <1>3, <2>1, <2>2, <2>3, <2>4
  <2>7. ShownKept'
    BY <1>1, <1>3, <2>1, <2>2, <2>3, <2>4 DEF ShownKept
  <2>8. LedgerKept'
    BY <1>1, <1>3, <2>1, <2>2, <2>3, <2>4 DEF Tunnels, LedgerKept, NoTunnel
  <2>9. HostKept'
    BY <1>1, <1>3, <2>1, <2>2, <2>3, <2>4 DEF HostKept
  <2>10. DisabledKept'
    BY <1>1, <1>3, <2>1, <2>2, <2>3, <2>4 DEF ShownKept, LedgerKept, HostKept, DisabledKept, Restoring
  <2>11. RecoveryKept'
    BY <1>1, <1>3, <2>1, <2>2, <2>3, <2>4 DEF ShownKept, RecoveryKept
  <2>12. LegacyKept'
    BY <1>1, <1>3, <2>1, <2>2, <2>3, <2>4 DEF ShownKept, LegacyKept
  <2> QED BY <2>1, <2>2, <2>3, <2>4, <2>5, <2>6, <2>7, <2>8, <2>9, <2>10, <2>11, <2>12
<1>4. CASE /\ timer' = "off" /\ attempts' = attempts /\ SdkStops
           /\ lst' = [lst EXCEPT !.state = "error", !.stuck = TRUE]
  <2>1. JobEnded
    BY <1>1, <1>4, JobEnds DEF LosesAccount
  <2>2. /\ Job.at = "queued" /\ ConnectionsEnabled /\ conn' \in {"authRequired", "error"} /\ failed' \in {"auth", "other", "cleanup"}
        /\ UNCHANGED <<settings, signedIn, stopped, asked>>
    BY DEF LosesAccount
  <2>3. lst' \in ListenerRecords
    BY <1>1, <1>4 DEF TunnelIds
  <2>4. lst'.stuck
    BY <1>1, <1>4
  <2>5. /\ cloud' \in SUBSET Tunnels
        /\ \A t \in cloud' : \E s \in cloud : t.id = s.id /\ t.account = s.account
        /\ owned' \in OwnTunnels \cup {NoTunnel}
        /\ owned'.id = owned.id /\ (owned.id # 0 => owned'.account = owned.account)
        /\ sdk' = [status |-> "stopped", host |-> 0, cut |-> TRUE] /\ sdk' \in ProviderRecords /\ legacy' = legacy
    BY <1>1, <1>4, SdkStopsIs
  <2>6. SwitchTyped'
    BY <1>1, <1>4, <2>1, <2>2, <2>3, <2>4, <2>5
  <2>7. StageKept'
    BY <1>1, <1>4, <2>1, <2>2, <2>3, <2>4, <2>5
  <2>8. ShownKept'
    BY <1>1, <1>4, <2>1, <2>2, <2>3, <2>4, <2>5 DEF ShownKept
  <2>9. LedgerKept'
    BY <1>1, <1>4, <2>1, <2>2, <2>3, <2>4, <2>5 DEF Tunnels, LedgerKept, NoTunnel
  <2>10. HostKept'
    BY <1>1, <1>4, <2>1, <2>2, <2>3, <2>4, <2>5 DEF HostKept
  <2>11. DisabledKept'
    BY <1>1, <1>4, <2>1, <2>2, <2>3, <2>4, <2>5 DEF ShownKept, LedgerKept, HostKept, DisabledKept, Restoring
  <2>12. RecoveryKept'
    BY <1>1, <1>4, <2>1, <2>2, <2>3, <2>4, <2>5 DEF ShownKept, RecoveryKept
  <2>13. LegacyKept'
    BY <1>1, <1>4, <2>1, <2>2, <2>3, <2>4, <2>5 DEF ShownKept, LegacyKept
  <2> QED BY <2>1, <2>2, <2>3, <2>4, <2>5, <2>6, <2>7, <2>8, <2>9, <2>10, <2>11, <2>12, <2>13
<1>5. CASE /\ timer' = "off" /\ attempts' = attempts /\ sdk' = [sdk EXCEPT !.status = "cleanup-failed", !.cut = TRUE] /\ UNCHANGED remote
           /\ lst' = [lst EXCEPT !.state = "error", !.stuck = TRUE]
  <2>1. JobEnded
    BY <1>1, <1>5, JobEnds DEF LosesAccount
  <2>2. /\ Job.at = "queued" /\ ConnectionsEnabled /\ conn' \in {"authRequired", "error"} /\ failed' \in {"auth", "other", "cleanup"}
        /\ UNCHANGED <<settings, signedIn, stopped, asked>>
    BY DEF LosesAccount
  <2>3. lst' \in ListenerRecords
    BY <1>1, <1>5 DEF TunnelIds
  <2>4. sdk' \in ProviderRecords
    BY <1>1, <1>5 DEF TunnelIds
  <2>5. lst'.stuck
    BY <1>1, <1>5
  <2>6. SwitchTyped'
    BY <1>1, <1>5, <2>1, <2>2, <2>3, <2>4, <2>5
  <2>7. StageKept'
    BY <1>1, <1>5, <2>1, <2>2, <2>3, <2>4, <2>5
  <2>8. ShownKept'
    BY <1>1, <1>5, <2>1, <2>2, <2>3, <2>4, <2>5 DEF ShownKept
  <2>9. LedgerKept'
    BY <1>1, <1>5, <2>1, <2>2, <2>3, <2>4, <2>5 DEF Tunnels, LedgerKept, NoTunnel
  <2>10. HostKept'
    BY <1>1, <1>5, <2>1, <2>2, <2>3, <2>4, <2>5 DEF HostKept
  <2>11. DisabledKept'
    BY <1>1, <1>5, <2>1, <2>2, <2>3, <2>4, <2>5 DEF ShownKept, LedgerKept, HostKept, DisabledKept, Restoring
  <2>12. RecoveryKept'
    BY <1>1, <1>5, <2>1, <2>2, <2>3, <2>4, <2>5 DEF ShownKept, RecoveryKept
  <2>13. LegacyKept'
    BY <1>1, <1>5, <2>1, <2>2, <2>3, <2>4, <2>5 DEF ShownKept, LegacyKept
  <2> QED BY <2>1, <2>2, <2>3, <2>4, <2>5, <2>6, <2>7, <2>8, <2>9, <2>10, <2>11, <2>12, <2>13
<1> QED BY <1>2, <1>3, <1>4, <1>5 DEF LosesAccount

\* The broker starts again with the settings and the ledger.
LEMMA RestartsKeeps ==
  ASSUME SwitchTyped, SwitchKept, Restarts
  PROVE  SwitchTyped' /\ SwitchKept'
<1>1. Job \in JobRecords
  BY JobIs
<1>2. NewJob("restore") \in JobRecords /\ NewJob("restore").at = "queued" /\ NewJob("restore").why = "none" /\ NewJob("restore").kind = "restore" /\ ~NewJob("restore").stale
  BY DEF NewJob, JobRecords
<1>3. jobs' = <<NewJob("restore")>> /\ jobs' \in Seq(JobRecords) /\ QueueKept' /\ Job' = NewJob("restore")
  BY <1>2 DEF Restarts, QueueKept, Job
<1>4. cloud' \in SUBSET Tunnels /\ \A t \in cloud' : \E s \in cloud : t.id = s.id /\ t.account = s.account
  <2> SUFFICES ASSUME NEW t \in cloud' PROVE t \in Tunnels /\ \E s \in cloud : t.id = s.id /\ t.account = s.account
    OBVIOUS
  <2>1. PICK s \in cloud : t = [s EXCEPT !.hosted = FALSE]
    BY DEF Restarts
  <2>2. s \in Tunnels
    OBVIOUS
  <2> QED BY <2>1, <2>2 DEF Tunnels
<1>5. lst' \in ListenerRecords
  BY <1>1 DEF Restarts, ListenerStopped
<1>6. saved' = file /\ file' = file /\ saved' \in SavedRecords
  BY DEF Restarts
<1>7. sdk' \in ProviderRecords
  BY <1>1 DEF Restarts
<1>8. attempts' \in 0..MaxRecoveries
  BY RecoveriesAssumption DEF Restarts
<1>9. SwitchTyped'
  BY <1>1, <1>2, <1>3, <1>4, <1>5, <1>6, <1>7, <1>8, RecoveriesAssumption DEF Restarts
<1>10. StageKept'
  BY <1>1, <1>2, <1>3, <1>4, <1>5, <1>6, <1>7, <1>8 DEF Restarts
<1>11. ShownKept'
  BY <1>1, <1>2, <1>3, <1>4, <1>5, <1>6, <1>7, <1>8 DEF Restarts, ShownKept
<1>12. LedgerKept'
  BY <1>1, <1>2, <1>3, <1>4, <1>5, <1>6, <1>7, <1>8 DEF Restarts, Tunnels, LedgerKept, NoTunnel, TunnelIds
<1>13. HostKept'
  BY <1>1, <1>2, <1>3, <1>4, <1>5, <1>6, <1>7, <1>8 DEF Restarts, HostKept, ListenerStopped
<1>14. DisabledKept'
  BY <1>1, <1>2, <1>3, <1>4, <1>5, <1>6, <1>7, <1>8 DEF Restarts, ShownKept, LedgerKept, HostKept, DisabledKept, Restoring, ListenerStopped
<1>15. RecoveryKept'
  BY <1>1, <1>2, <1>3, <1>4, <1>5, <1>6, <1>7, <1>8 DEF Restarts, ShownKept, RecoveryKept
<1>16. LegacyKept'
  BY <1>1, <1>2, <1>3, <1>4, <1>5, <1>6, <1>7, <1>8 DEF Restarts, ShownKept, LegacyKept
<1> QED BY <1>2, <1>3, <1>4, <1>5, <1>6, <1>7, <1>8, <1>9, <1>10, <1>11, <1>12, <1>13, <1>14, <1>15, <1>16


----------------------------------------------------------------------------
(* The specification *)

HIDE DEF settings, remote, local, SwitchTyped, SwitchKept, Cleaning, Launching, GoesOn, JobEnded, KeepsAsked, SavedRecords, ListenerRecords, ProviderRecords, StageKept, ConnectionsEnabled, Codes

\* A device on which nothing was ever connected.
LEMMA SwitchStarts == ASSUME ConnectInit PROVE SwitchTyped /\ SwitchKept
<1>1. Job = [NewJob("none") EXCEPT !.at = "none"] /\ DOMAIN jobs = {}
  BY DEF ConnectInit, Job
<1>2. Job.at = "none" /\ Job.why = "none"
  BY <1>1 DEF NewJob
<1>3. SwitchTyped
  <2>1. saved \in SavedRecords /\ file \in SavedRecords /\ lst \in ListenerRecords /\ sdk \in ProviderRecords
    BY DEF ConnectInit, SavedRecords, ListenerStopped, ListenerRecords, ProviderRecords
  <2>2. jobs \in Seq(JobRecords) /\ attempts \in 0..MaxRecoveries
    BY RecoveriesAssumption DEF ConnectInit
  <2>3. owned \in OwnTunnels \cup {NoTunnel} /\ cloud \in SUBSET Tunnels /\ failed \in Codes
    BY DEF ConnectInit, Codes
  <2> QED BY <2>1, <2>2, <2>3 DEF ConnectInit, SwitchTyped
<1>4. QueueKept
  BY <1>1 DEF QueueKept
<1>5. StageKept /\ ShownKept
  BY <1>2 DEF ConnectInit, StageKept, ShownKept, Cleaning, Launching
<1>6. LedgerKept /\ HostKept
  BY <1>2 DEF ConnectInit, LedgerKept, HostKept, NoTunnel, ListenerStopped, Cleaning, Launching
<1>7. DisabledKept /\ RecoveryKept /\ LegacyKept
  BY <1>2 DEF ConnectInit, ListenerStopped, DisabledKept, RecoveryKept, LegacyKept
<1> QED BY <1>3, <1>4, <1>5, <1>6, <1>7 DEF SwitchKept

LEMMA SwitchStutters ==
  ASSUME SwitchTyped, SwitchKept, UNCHANGED connectVars
  PROVE  SwitchTyped' /\ SwitchKept'
<1>1. Job' = Job
  BY DEF connectVars, Job
<1>2. SwitchTyped' /\ QueueKept' /\ StageKept' /\ ShownKept' /\ LedgerKept'
  BY <1>1 DEF connectVars, SwitchTyped, SwitchKept, QueueKept, StageKept, ShownKept, LedgerKept, settings
<1>3. HostKept' /\ DisabledKept' /\ RecoveryKept' /\ LegacyKept'
  BY <1>1 DEF connectVars, SwitchKept, HostKept, ConnectionsEnabled, DisabledKept, RecoveryKept, LegacyKept,
              Recovering, Restoring, settings
<1> QED BY <1>2, <1>3 DEF SwitchKept

LEMMA SwitchSteps ==
  ASSUME SwitchTyped, SwitchKept, ConnectNext
  PROVE  SwitchTyped' /\ SwitchKept'
<1>1. CASE \/ \E kind \in {"enable", "disable", "switch", "retry"} : Asks(kind)
           \/ \E a \in Accounts : SignsOut(a)
           \/ TimerFires
  BY <1>1, AsksKeeps, SignsOutKeeps, TimerFiresKeeps
<1>2. CASE \/ BeginsEnable \/ Skips \/ RefusesJob \/ BeginsCleanup \/ BeginsDisable \/ UsesAccount
           \/ (\E a \in Accounts : SelectsAccount(a)) \/ LacksAccount \/ Marks
  BY <1>2, BeginsEnableKeeps, SkipsKeeps, RefusesJobKeeps, BeginsCleanupKeeps, BeginsDisableKeeps, UsesAccountKeeps,
     SelectsAccountKeeps, LacksAccountKeeps, MarksKeeps
<1>3. CASE \/ StopsListener \/ OwnsNothing \/ DeletesTunnel \/ DeleteFails \/ ClearsLedger \/ RetiresLegacy
           \/ EndsDisable \/ BeginsUndo \/ EndsUndo \/ StartsListener \/ StaysDown \/ EnablesAgain
  BY <1>3, StopsListenerKeeps, OwnsNothingKeeps, DeletesTunnelKeeps, DeleteFailsKeeps, ClearsLedgerKeeps,
     RetiresLegacyKeeps, EndsDisableKeeps, BeginsUndoKeeps, EndsUndoKeeps, StartsListenerKeeps, StaysDownKeeps, EnablesAgainKeeps
<1>4. CASE OpensGateway \/ RecordsTunnel \/ CreatesTunnel \/ HostsTunnel \/ GoesOnline
  BY <1>4, OpensGatewayKeeps, RecordsTunnelKeeps, CreatesTunnelKeeps, HostsTunnelKeeps, GoesOnlineKeeps
<1>5. CASE HostDrops \/ ClosesGateway \/ RefreshesAccount \/ LosesAccount \/ Restarts
  BY <1>5, HostDropsKeeps, ClosesGatewayKeeps, RefreshesAccountKeeps, LosesAccountKeeps, RestartsKeeps
<1> QED BY <1>1, <1>2, <1>3, <1>4, <1>5 DEF ConnectNext

\* The invariant is what the switch promises, where no job is under way for some of it.
LEMMA SwitchKeptSound ==
  ASSUME SwitchTyped, SwitchKept
  PROVE  SwitchSound
<1>1. jobs = <<>> => Job.at = "none" /\ Job.why = "none" /\ ~Recovering
  BY DEF Job, NewJob, Recovering
<1>2. \A t \in cloud : t.id # 0
  BY DEF SwitchTyped, Tunnels, TunnelIds
<1>3. NoTunnelForgotten
  BY <1>2 DEF NoTunnelForgotten, SwitchKept, LedgerKept
<1>4. HostedIsWanted
  BY <1>1 DEF HostedIsWanted, SwitchKept, HostKept
<1>5. jobs = <<>> /\ conn = "disabled" =>
        sdk.host = 0 /\ ~lst.gateway /\ (failed # "none" \/ (~saved.enabled /\ ~saved.pending))
  BY <1>1 DEF SwitchKept, DisabledKept, Restoring
<1>6. DisabledIsDark
  BY <1>3, <1>5 DEF DisabledIsDark, NoTunnelForgotten
<1>7. RecoveryIsNotLost
  BY <1>1 DEF RecoveryIsNotLost, SwitchTyped, SwitchKept, ShownKept, RecoveryKept, Cleaning, Launching
<1>8. LegacyIsRetired
  BY DEF LegacyIsRetired, SwitchKept, LegacyKept
<1> QED BY <1>3, <1>4, <1>6, <1>7, <1>8 DEF SwitchSound

\* Whatever is asked for in whichever order, whichever call fails and whenever the broker starts
\* again: no tunnel is forgotten, what is shown as disabled is dark, nothing is hosted that is not
\* wanted, no recovery is lost, and the tunnel of an older version is gone before connections are up.
THEOREM SwitchHeld == ConnectSpec => []SwitchSound
<1>1. ConnectInit => SwitchTyped /\ SwitchKept
  BY SwitchStarts
<1>2. SwitchTyped /\ SwitchKept /\ [ConnectNext]_connectVars => (SwitchTyped /\ SwitchKept)'
  BY SwitchSteps, SwitchStutters
<1>3. SwitchTyped /\ SwitchKept => SwitchSound
  BY SwitchKeptSound
<1> QED BY <1>1, <1>2, <1>3, PTL DEF ConnectSpec

====
