---- MODULE BrokerTaskService ----
(***************************************************************************)
(* src/src/broker/BrokerTaskService.ts with the Window Nodes it drives:    *)
(* admission and dispatch of a delegated task, cancellation, node events,  *)
(* node loss, the two deadlines, and recovery after a broker restart.      *)
(*                                                                         *)
(* Every operation of the per-task queue (enqueueTask) is one action.  The *)
(* queue is relaxed to "any order": preparing holds a task's queue while   *)
(* its start waits for the store.  Time is left out: due marks tasks whose *)
(* worker deadline has passed, timers fire when they like.  The Window     *)
(* Node is reduced to what the broker can see of it: the executor's record *)
(* of the task, one event in flight, and whether the node's link is up.    *)
(***************************************************************************)
EXTENDS TaskRoutes, TaskReducer, Naturals

CONSTANTS NoTask,
          Faults,    \* how a store write may fail: subset of FaultKinds
          Expiring,  \* bound: the tasks whose worker deadline may pass
          Asking,    \* bound: the tasks whose agent may ask for input
          Crashing   \* bound: whether the broker may crash

\* "lost": nothing written; "landed": written, but the write threw, as when
\* the directory sync after the rename fails; "unpublished": written, and
\* the snapshot or notification publication after it threw.
FaultKinds == {"lost", "landed", "unpublished"}

ASSUME FaultsAssumption == Faults \subseteq FaultKinds
ASSUME NoTaskAssumption == NoTask \notin Tasks
ASSUME BoundsAssumption == /\ Expiring \subseteq Tasks
                           /\ Asking \subseteq Tasks
                           /\ Crashing \in BOOLEAN

VARIABLES
  \* the task files
  state,       \* "absent", or the state of the task record
  target,      \* the exact route the record was accepted for
  \* the broker process
  phase,       \* "down", "recovering" (initializeCore), "up"
  due,         \* tasks past their worker deadline
  preparing,   \* the task whose prepareStart waits for the store
  admission,   \* startAdmissions: "none", "open", "cancelled", "dispatched"
  dispatch,    \* dispatchStart, see Dispatches
  wdTimer,     \* workerDeadlineTimers
  cTimer,      \* cancellationTimers
  lost,        \* tasks with failLostBinding queued
  cancelCall,  \* node/task.cancel request: "none", "sent", "failed"
  stopCall,    \* tasks with a node/task.dispose request under way
  event,       \* the node event published and not yet acknowledged
  queued,      \* tasks whose event is authenticated and queued
  \* the Window Nodes
  linked,      \* instances that believe they are connected
  exec,        \* the executor's record of the task, see Executions
  launches,    \* how often an agent was started for the task
  outcome      \* the terminal event the agent itself reported

recordVars == <<state, target>>
brokerVars == <<phase, due, preparing, admission, dispatch, wdTimer, cTimer,
                lost, cancelCall, stopCall>>
eventVars == <<event, queued>>
nodeVars == <<linked, exec, launches, outcome>>
vars == <<routeVars, recordVars, brokerVars, eventVars, nodeVars>>

\* "orphaned" still waits for an approval, but the session it would use is
\* closed; "failed" and "replied" are results waiting for the task queue.
Dispatches == {"none", "approving", "orphaned", "sent", "replied", "failed"}

\* "aborting" is cancelBeforeStart, "finished" an agent that reported its
\* end, "stopping" a handle being cancelled and disposed.
Executions == {"none", "starting", "aborting", "running", "cancelling",
               "finished", "stopping", "gone"}

Events == {"inputRequired", "completed", "failed", "cancelled"}

BrokerTypeOK ==
  /\ TypeOK
  /\ state \in [Tasks -> TaskStates \cup {"absent"}]
  /\ target \in [Tasks -> Routes \cup {NoRoute}]
  /\ phase \in {"down", "recovering", "up"}
  /\ due \subseteq Tasks
  /\ preparing \in Tasks \cup {NoTask}
  /\ admission \in [Tasks -> {"none", "open", "cancelled", "dispatched"}]
  /\ dispatch \in [Tasks -> Dispatches]
  /\ wdTimer \subseteq Tasks
  /\ cTimer \subseteq Tasks
  /\ lost \subseteq Tasks
  /\ cancelCall \in [Tasks -> {"none", "sent", "failed"}]
  /\ stopCall \subseteq Tasks
  /\ event \in [Tasks -> Events \cup {"none"}]
  /\ queued \subseteq Tasks
  /\ linked \subseteq Instances
  /\ exec \in [Tasks -> Executions]
  /\ launches \in [Tasks -> Nat]
  /\ outcome \in [Tasks -> {"none", "completed", "failed", "cancelled"}]

BrokerInit ==
  /\ Init
  /\ state = [t \in Tasks |-> "absent"]
  /\ target = [t \in Tasks |-> NoRoute]
  /\ phase = "recovering"
  /\ due = {} /\ preparing = NoTask
  /\ admission = [t \in Tasks |-> "none"]
  /\ dispatch = [t \in Tasks |-> "none"]
  /\ wdTimer = {} /\ cTimer = {} /\ lost = {}
  /\ cancelCall = [t \in Tasks |-> "none"]
  /\ stopCall = {}
  /\ event = [t \in Tasks |-> "none"]
  /\ queued = {}
  /\ linked = {}
  /\ exec = [t \in Tasks |-> "none"]
  /\ launches = [t \in Tasks |-> 0]
  /\ outcome = [t \in Tasks |-> "none"]

----------------------------------------------------------------------------
(* Reading the state *)

Active(t) == state[t] \in ActiveStates
Overdue(t) == Active(t) /\ t \in due

\* The task queue is free: an operation of t may run.
Free(t) == phase = "up" /\ preparing # t

\* lookupTaskRoute: the bound instance still has its session.
RouteLive(t) == binding[t] # NoRoute /\ binding[t].inst \in live

\* The agent of t was launched and may be writing in the workspace.
Writing(t) == launches[t] # 0 /\ exec[t] \in {"running", "cancelling", "stopping"}

\* Requests and replies travel while both ends hold the session open.
Connected(t) ==
  target[t] # NoRoute /\ target[t].inst \in live /\ target[t].inst \in linked

----------------------------------------------------------------------------
(* Writing the record: persistEvent and its failures *)

\* persistEvent: the record of t is saved in state s.
Record(t, s) == state' = [state EXCEPT ![t] = s]

\* Mutant: the route of a finished task is not given back.
CloseTaskKeepingRoute(t) ==
  /\ admission' = [admission EXCEPT ![t] = "none"]
  /\ wdTimer' = wdTimer \ {t}
  /\ cTimer' = cTimer \ {t}
  /\ UNCHANGED routeVars

\* Clean up after a terminal record: admission, timers, route and lease.
CloseTask(t) ==
  /\ admission' = [admission EXCEPT ![t] = "none"]
  /\ wdTimer' = wdTimer \ {t}
  /\ cTimer' = cTimer \ {t}
  /\ Release(t)

\* The task stays as it is, but for its admission, which becomes a, and the
\* timer whose firing led here.
KeepTask(t, a, fired) ==
  /\ admission' = [admission EXCEPT ![t] = a]
  /\ wdTimer' = IF fired = "worker" THEN wdTimer \ {t} ELSE wdTimer
  /\ cTimer' = IF fired = "cancel" THEN cTimer \ {t} ELSE cTimer
  /\ UNCHANGED routeVars

\* The record becomes terminal s; a and fired are for a write that throws.
WriteTerminal(t, s, a, fired) ==
  \/ Record(t, s) /\ CloseTask(t)
  \/ "landed" \in Faults /\ Record(t, s) /\ KeepTask(t, a, fired)
  \/ "lost" \in Faults /\ UNCHANGED state /\ KeepTask(t, a, fired)

\* persistTerminalAndStop: the node is told to dispose of the task when the
\* record is found to be terminal, even if the write threw.
WriteTerminalAndStop(t, s, fired) ==
  /\ WriteTerminal(t, s, admission[t], fired)
  /\ stopCall' = IF state'[t] = s /\ RouteLive(t) THEN stopCall \cup {t} ELSE stopCall

\* Mutant: a record that is terminal already is failed all the same.
FailAnyway(t, a) == WriteTerminal(t, "failed", a, "none")

\* failActive
FailIfActive(t, a) ==
  IF Active(t) THEN WriteTerminal(t, "failed", a, "none")
  ELSE UNCHANGED state /\ KeepTask(t, a, "none")

----------------------------------------------------------------------------
(* Start: prepareStart, then launchStartDispatch *)

\* prepareStart up to the store write: startQueue admits one start at a time.
BeginStart(t, i, w) ==
  /\ phase = "up"
  /\ preparing = NoTask
  /\ state[t] = "absent"
  /\ t \notin due
  /\ dispatch[t] = "none"
  /\ t \notin lost          \* a loss queued before is handled before
  /\ Acquire(t, i, w)
  /\ preparing' = t
  /\ UNCHANGED <<recordVars, phase, due, admission, dispatch, wdTimer, cTimer,
                 lost, cancelCall, stopCall, eventVars, nodeVars>>

\* The record is created; its dispatch starts with the route taken before,
\* whose session may have closed meanwhile.
AcceptStart(t) ==
  /\ phase = "up"
  /\ preparing = t
  /\ Record(t, "startingAgent")
  /\ target' = [target EXCEPT ![t] = binding[t]]
  /\ admission' = [admission EXCEPT ![t] = "open"]
  /\ wdTimer' = wdTimer \cup {t}
  /\ dispatch' = [dispatch EXCEPT ![t] = IF t \in lost THEN "orphaned" ELSE "approving"]
  /\ preparing' = NoTask
  /\ UNCHANGED <<routeVars, phase, due, cTimer, lost, cancelCall, stopCall,
                 eventVars, nodeVars>>

\* The start is refused (a continuation whose workspace changed, a store that
\* cannot be listed) or createRoutedIdempotent throws: the route is given back.
\* The record may have reached the disk all the same.
FailStart(t) ==
  /\ phase = "up"
  /\ preparing = t
  /\ \/ UNCHANGED recordVars
     \/ /\ "landed" \in Faults
        /\ Record(t, "startingAgent")
        /\ target' = [target EXCEPT ![t] = binding[t]]
  /\ Release(t)
  /\ preparing' = NoTask
  /\ UNCHANGED <<phase, due, admission, dispatch, wdTimer, cTimer, lost,
                 cancelCall, stopCall, eventVars, nodeVars>>

\* assertRemotePeer or approveRemoteTaskStart rejects.
DenyStart(t) ==
  /\ phase = "up"
  /\ dispatch[t] \in {"approving", "orphaned"}
  /\ dispatch' = [dispatch EXCEPT ![t] = "failed"]
  /\ UNCHANGED <<routeVars, recordVars, phase, due, preparing, admission, wdTimer,
                 cTimer, lost, cancelCall, stopCall, eventVars, nodeVars>>

\* The approval is given. The admission is read, marked and the request sent
\* without an await in between; a cancelled admission ends the dispatch and
\* is kept as the proof that nothing was sent.
DispatchStart(t) ==
  /\ phase = "up"
  /\ dispatch[t] \in {"approving", "orphaned"}
  /\ CASE admission[t] = "cancelled" ->
            /\ dispatch' = [dispatch EXCEPT ![t] = "none"]
            /\ UNCHANGED admission
       [] admission[t] = "open" /\ t \notin due ->
            /\ dispatch' = [dispatch EXCEPT ![t] =
                              IF @ = "approving" THEN "sent" ELSE "failed"]
            /\ admission' = [admission EXCEPT ![t] = "dispatched"]
       [] OTHER ->
            /\ dispatch' = [dispatch EXCEPT ![t] = "failed"]
            /\ UNCHANGED admission
  /\ UNCHANGED <<routeVars, recordVars, phase, due, preparing, wdTimer, cTimer,
                 lost, cancelCall, stopCall, eventVars, nodeVars>>

\* The finally of launchStartDispatch keeps a cancelled admission.
AfterDispatch(t) == IF admission[t] = "cancelled" THEN "cancelled" ELSE "none"

\* The start request failed, was denied or found no admission: failActive.
StartFailed(t) ==
  /\ Free(t)
  /\ dispatch[t] = "failed"
  /\ FailIfActive(t, AfterDispatch(t))
  /\ dispatch' = [dispatch EXCEPT ![t] = "none"]
  /\ UNCHANGED <<target, phase, due, preparing, lost, cancelCall, stopCall,
                 eventVars, nodeVars>>

\* The node's reply: agentStarted, unless an event of the task was first.
StartReplied(t) ==
  /\ Free(t)
  /\ dispatch[t] = "replied"
  /\ \/ /\ state' = [state EXCEPT ![t] = IF @ = "startingAgent" THEN "running" ELSE @]
     \/ "lost" \in Faults /\ UNCHANGED state
  /\ KeepTask(t, AfterDispatch(t), "none")
  /\ dispatch' = [dispatch EXCEPT ![t] = "none"]
  /\ UNCHANGED <<target, phase, due, preparing, lost, cancelCall, stopCall,
                 eventVars, nodeVars>>

----------------------------------------------------------------------------
(* Reads, deadlines and lost nodes *)

\* get, or a repeated start of a known task: an active record without a live
\* route is failed (failUnavailableActiveRoute).
GetTask(t) ==
  /\ Free(t)
  /\ Active(t) /\ t \notin due
  /\ ~RouteLive(t)
  /\ WriteTerminal(t, "failed", admission[t], "none")
  /\ UNCHANGED <<target, phase, due, preparing, dispatch, lost, cancelCall, stopCall,
                 eventVars, nodeVars>>

DeadlinePasses(t) ==
  /\ t \in Expiring
  /\ t \notin due
  /\ due' = due \cup {t}
  /\ UNCHANGED <<routeVars, recordVars, phase, preparing, admission, dispatch,
                 wdTimer, cTimer, lost, cancelCall, stopCall, eventVars, nodeVars>>

\* enforceWorkerDeadline, by a read, a cancel or an answer.
EnforceDeadline(t) ==
  /\ Free(t)
  /\ Overdue(t)
  /\ WriteTerminalAndStop(t, "timedOut", "none")
  /\ UNCHANGED <<target, phase, due, preparing, dispatch, lost, cancelCall,
                 eventVars, nodeVars>>

\* Mutant: the worker deadline only ends a task whose agent runs.
WorkerTimeoutRunning(t) ==
  /\ Free(t)
  /\ t \in wdTimer /\ t \in due
  /\ IF state[t] = "running" THEN WriteTerminalAndStop(t, "timedOut", "worker")
     ELSE KeepTask(t, admission[t], "worker") /\ UNCHANGED <<state, stopCall>>
  /\ UNCHANGED <<target, phase, due, preparing, dispatch, lost, cancelCall,
                 eventVars, nodeVars>>

\* The worker deadline timer. It is forgotten when it fires: a lost write is
\* not tried again by the timer.
WorkerTimeout(t) ==
  /\ Free(t)
  /\ t \in wdTimer /\ t \in due
  /\ IF Active(t) THEN WriteTerminalAndStop(t, "timedOut", "worker")
     ELSE KeepTask(t, admission[t], "worker") /\ UNCHANGED <<state, stopCall>>
  /\ UNCHANGED <<target, phase, due, preparing, dispatch, lost, cancelCall,
                 eventVars, nodeVars>>

\* The cancellation deadline timer.
CancellationTimeout(t) ==
  /\ Free(t)
  /\ t \in cTimer
  /\ IF state[t] = "cancelling" THEN WriteTerminalAndStop(t, "failed", "cancel")
     ELSE KeepTask(t, admission[t], "cancel") /\ UNCHANGED <<state, stopCall>>
  /\ UNCHANGED <<target, phase, due, preparing, dispatch, lost, cancelCall,
                 eventVars, nodeVars>>

\* failLostBinding: a task that already ended gives its route back.
FailLostBinding(t) ==
  /\ Free(t)
  /\ t \in lost
  /\ lost' = lost \ {t}
  /\ CASE Overdue(t) -> WriteTerminalAndStop(t, "timedOut", "none")
       [] Active(t) /\ t \notin due ->
            WriteTerminal(t, "failed", admission[t], "none") /\ UNCHANGED stopCall
       [] OTHER ->
            /\ Release(t)
            /\ UNCHANGED <<state, admission, wdTimer, cTimer, stopCall>>
  /\ UNCHANGED <<target, phase, due, preparing, dispatch, cancelCall,
                 eventVars, nodeVars>>

----------------------------------------------------------------------------
(* Cancellation: cancelCore *)

\* First phase, in the task queue, for a task whose route is live.
Cancellable(t) == Free(t) /\ Active(t) /\ t \notin due /\ state[t] # "cancelling"

\* A task that is already being cancelled gets its timer again.
CancelAgain(t) ==
  /\ Free(t)
  /\ state[t] = "cancelling" /\ t \notin due
  /\ cTimer' = cTimer \cup {t}
  /\ UNCHANGED <<routeVars, recordVars, phase, due, preparing, admission, dispatch,
                 wdTimer, lost, cancelCall, stopCall, eventVars, nodeVars>>

\* Mutant: a cancellation is confirmed whether or not the start was sent.
CancelBlindly(t) ==
  /\ Cancellable(t)
  /\ RouteLive(t)
  /\ Record(t, "cancelled")
  /\ CloseTask(t)
  /\ UNCHANGED <<target, phase, due, preparing, dispatch, lost, cancelCall, stopCall,
                 eventVars, nodeVars>>

\* The dispatch did not happen yet: it is prevented, and the cancellation is
\* confirmed at once. A write that throws leaves the dispatch prevented.
CancelBeforeDispatch(t) ==
  /\ Cancellable(t)
  /\ RouteLive(t)
  /\ admission[t] \in {"open", "cancelled"}
  /\ \/ Record(t, "cancelled") /\ CloseTask(t)
     \/ /\ \/ "lost" \in Faults /\ (UNCHANGED state \/ Record(t, "cancelling"))
           \/ "landed" \in Faults /\ \E s \in {"cancelling", "cancelled"} : Record(t, s)
           \/ "unpublished" \in Faults /\ Record(t, "cancelling")
        /\ KeepTask(t, "cancelled", "none")
  /\ UNCHANGED <<target, phase, due, preparing, dispatch, lost, cancelCall, stopCall,
                 eventVars, nodeVars>>

\* The node is asked to cancel, under a cancellation deadline. When the write
\* throws, neither is the node asked nor the deadline set.
CancelAfterDispatch(t) ==
  /\ Cancellable(t)
  /\ RouteLive(t)
  /\ admission[t] \notin {"open", "cancelled"}
  /\ \/ /\ Record(t, "cancelling")
        /\ cTimer' = cTimer \cup {t}
        /\ cancelCall' = [cancelCall EXCEPT ![t] = "sent"]
     \/ /\ Faults \cap {"landed", "unpublished"} # {}
        /\ Record(t, "cancelling")
        /\ UNCHANGED <<cTimer, cancelCall>>
  /\ UNCHANGED <<routeVars, target, phase, due, preparing, admission, dispatch,
                 wdTimer, lost, stopCall, eventVars, nodeVars>>

\* The node refused or the session closed: failActive. The node is not told.
CancelFailed(t) ==
  /\ Free(t)
  /\ cancelCall[t] = "failed"
  /\ cancelCall' = [cancelCall EXCEPT ![t] = "none"]
  /\ FailIfActive(t, admission[t])
  /\ UNCHANGED <<target, phase, due, preparing, dispatch, lost, stopCall,
                 eventVars, nodeVars>>

----------------------------------------------------------------------------
(* Node events: acceptNodeEvent, applyNodeEvent *)

\* The reply to the node's publish. A refused event ends the node's pump,
\* which cancels and disposes of an agent that is still at work.
Acknowledge(t, ok) ==
  /\ event' = [event EXCEPT ![t] = "none"]
  /\ queued' = queued \ {t}
  /\ exec' = [exec EXCEPT ![t] =
                IF ~ok /\ @ \in {"running", "cancelling"} THEN "stopping" ELSE @]

\* authenticateTaskEvent: the event comes over the session of the instance
\* the task is bound to.
OverItsRoute(t) == binding[t] = target[t]

ReceiveEvent(t) ==
  /\ phase = "up"
  /\ event[t] # "none" /\ t \notin queued
  /\ Connected(t)
  /\ IF OverItsRoute(t)
     THEN queued' = queued \cup {t} /\ UNCHANGED <<event, exec>>
     ELSE Acknowledge(t, FALSE)
  /\ UNCHANGED <<routeVars, recordVars, brokerVars, linked, launches, outcome>>

\* An event of a starting record first makes it running, a cancelled event
\* first makes any record cancelling.
StateFor(t) ==
  CASE event[t] = "cancelled"      -> "cancelling"
    [] state[t] = "startingAgent"  -> "running"
    [] OTHER                       -> state[t]

EventType(kind) == IF kind = "cancelled" THEN "cancelConfirmed" ELSE kind

Final(t) == After(StateFor(t), EventType(event[t]), FALSE)

\* The record takes the event. A throwing write may leave it half way.
TakeEvent(t) ==
  \/ /\ Record(t, Final(t))
     /\ IF Final(t) \in TerminalStates THEN CloseTask(t)
        ELSE KeepTask(t, admission[t], "none")
     /\ Acknowledge(t, TRUE) \/ ("unpublished" \in Faults /\ Acknowledge(t, FALSE))
  \/ /\ \/ "lost" \in Faults /\ (UNCHANGED state \/ Record(t, StateFor(t)))
        \/ "landed" \in Faults /\ \E s \in {StateFor(t), Final(t)} : Record(t, s)
        \/ "unpublished" \in Faults /\ Record(t, StateFor(t))
     /\ KeepTask(t, admission[t], "none")
     /\ Acknowledge(t, FALSE)

\* The event is still of use when its turn in the queue comes.
Applicable(t) ==
  /\ Active(t) /\ t \notin due
  /\ StateFor(t) \in From(EventType(event[t]))

ApplyEvent(t) ==
  /\ Free(t)
  /\ t \in queued
  /\ \/ /\ Overdue(t)
        /\ WriteTerminalAndStop(t, "timedOut", "none")
        /\ Acknowledge(t, state'[t] = "timedOut" /\ binding'[t] = NoRoute)
     \/ /\ Applicable(t)
        /\ TakeEvent(t)
        /\ UNCHANGED stopCall
     \/ /\ ~Overdue(t) /\ ~Applicable(t)
        /\ Acknowledge(t, FALSE)
        /\ UNCHANGED <<state, admission, wdTimer, cTimer, routeVars, stopCall>>
  /\ UNCHANGED <<target, phase, due, preparing, dispatch, lost, cancelCall,
                 linked, launches, outcome>>

\* The last phase of answerCore. What the node does with an answer, and which
\* input it answers, is the subject of TaskAnswer.
AnswerAccepted(t) ==
  /\ Free(t)
  /\ state[t] = "needsInput"
  /\ exec[t] = "running"
  /\ Record(t, "running")
  /\ UNCHANGED <<routeVars, target, brokerVars, eventVars, nodeVars>>

----------------------------------------------------------------------------
(* Sessions *)

\* A window connects once the executor of its last connection is disposed of
\* (beginExecutorTransition), and claims the workspaces it has open.
Connect(i) ==
  /\ phase = "up"
  /\ i \notin linked
  /\ \A t \in Tasks : target[t] # NoRoute /\ target[t].inst = i =>
       exec[t] \in {"none", "gone"}
  /\ GoLive(i)
  /\ linked' = linked \cup {i}
  /\ UNCHANGED <<recordVars, brokerVars, eventVars, exec, launches, outcome>>

ClaimWorkspace(i, w) ==
  /\ phase = "up"
  /\ i \in linked
  /\ Claim(i, w)
  /\ UNCHANGED <<recordVars, brokerVars, eventVars, nodeVars>>

ReleaseWorkspace(w) ==
  /\ phase = "up"
  /\ claims[w] \in linked
  /\ Unclaim(w)
  /\ UNCHANGED <<recordVars, brokerVars, eventVars, nodeVars>>

\* Mutant: routes and leases of recorded tasks of a lost node go at once, before
\* the tasks are recorded as failed.
LoseSessionReleasing(i) ==
  /\ phase = "up"
  /\ i \in live
  /\ live' = live \ {i}
  /\ claims' = ClaimsWithout({i})
  /\ binding' = [t \in Tasks |-> IF t \in BoundTo({i}) /\ Active(t) THEN NoRoute ELSE binding[t]]
  /\ lost' = lost \cup BoundTo({i})
  /\ dispatch' = [t \in Tasks |-> IF t \in BoundTo({i}) /\ dispatch[t] = "sent"
                                  THEN "failed" ELSE dispatch[t]]
  /\ UNCHANGED <<recordVars, phase, due, preparing, admission, wdTimer, cTimer,
                 cancelCall, stopCall, eventVars, nodeVars>>

\* Closing a session rejects its requests at once and, through loseNode and
\* handleNodeTasksLost, queues failLostBinding for every bound task.
LoseSession(i) ==
  /\ phase = "up"
  /\ i \in live
  /\ Lose({i})
  /\ lost' = lost \cup BoundTo({i})
  /\ dispatch' = [t \in Tasks |->
       CASE t \in BoundTo({i}) /\ dispatch[t] = "approving" -> "orphaned"
         [] target[t] # NoRoute /\ target[t].inst = i /\ dispatch[t] = "sent" -> "failed"
         [] OTHER -> dispatch[t]]
  /\ cancelCall' = [t \in Tasks |->
       IF target[t] # NoRoute /\ target[t].inst = i /\ cancelCall[t] = "sent"
       THEN "failed" ELSE cancelCall[t]]
  /\ stopCall' = {t \in stopCall : target[t].inst # i}
  /\ UNCHANGED <<recordVars, phase, due, preparing, admission, wdTimer, cTimer,
                 eventVars, nodeVars>>

\* The node sees its session close, or closes it: the executor is disposed of
\* and everything it runs is stopped before the node connects again.
LoseLink(i) ==
  LET mine == {t \in Tasks : target[t] # NoRoute /\ target[t].inst = i} IN
  /\ i \in linked
  /\ linked' = linked \ {i}
  /\ exec' = [t \in Tasks |->
       CASE t \in mine /\ exec[t] \in {"starting", "aborting", "running", "cancelling"}
              -> "stopping"
         [] t \in mine /\ exec[t] = "finished" -> "gone"
         [] OTHER -> exec[t]]
  /\ event' = [t \in Tasks |-> IF t \in mine \ queued THEN "none" ELSE event[t]]
  /\ UNCHANGED <<routeVars, recordVars, brokerVars, queued, launches, outcome>>

----------------------------------------------------------------------------
(* The executor, as far as the broker sees it *)

\* Mutant: a request for a task the executor already has starts it again.
NodeStartAgain(t) ==
  /\ dispatch[t] = "sent"
  /\ Connected(t)
  /\ exec' = [exec EXCEPT ![t] = "starting"]
  /\ UNCHANGED <<routeVars, recordVars, brokerVars, eventVars, linked, launches, outcome>>

\* The start request is accepted, or refused before anything ran.
NodeStart(t) ==
  /\ dispatch[t] = "sent"
  /\ Connected(t)
  /\ exec[t] = "none"
  /\ \/ exec' = [exec EXCEPT ![t] = "starting"] /\ UNCHANGED dispatch
     \/ exec' = [exec EXCEPT ![t] = "gone"]
          /\ dispatch' = [dispatch EXCEPT ![t] = "failed"]
  /\ UNCHANGED <<routeVars, recordVars, phase, due, preparing, admission, wdTimer,
                 cTimer, lost, cancelCall, stopCall, eventVars, linked, launches, outcome>>

\* runtime.start returned a handle; from here the agent works.
Launch(t) ==
  /\ exec[t] = "starting"
  /\ exec' = [exec EXCEPT ![t] = "running"]
  /\ launches' = [launches EXCEPT ![t] = @ + 1]
  /\ UNCHANGED <<routeVars, recordVars, brokerVars, eventVars, linked, outcome>>

\* The reply to the start request, good once the agent is launched, bad when
\* the start was abandoned. An event published for it is answered first.
NodeStartReply(t) ==
  /\ dispatch[t] = "sent"
  /\ Connected(t)
  /\ \/ /\ launches[t] # 0
        /\ dispatch' = [dispatch EXCEPT ![t] = "replied"]
     \/ /\ launches[t] = 0
        /\ exec[t] \in {"finished", "gone"}
        /\ event[t] = "none"
        /\ dispatch' = [dispatch EXCEPT ![t] = "failed"]
  /\ UNCHANGED <<routeVars, recordVars, phase, due, preparing, admission, wdTimer,
                 cTimer, lost, cancelCall, stopCall, eventVars, nodeVars>>

\* runtime.start fails before there was an agent.
LaunchFails(t) ==
  /\ exec[t] = "starting"
  /\ exec' = [exec EXCEPT ![t] = "gone"]
  /\ UNCHANGED <<routeVars, recordVars, brokerVars, eventVars, linked, launches, outcome>>

\* cancel: an agent at work is asked, a start is aborted. The request fails
\* when the agent cannot be asked or the task is over.
NodeCancel(t) ==
  /\ cancelCall[t] = "sent"
  /\ Connected(t)
  /\ exec[t] # "none"
  /\ \/ /\ exec[t] \in {"starting", "running", "cancelling"}
        /\ exec' = [exec EXCEPT ![t] = IF @ = "starting" THEN "aborting" ELSE "cancelling"]
        /\ cancelCall' = [cancelCall EXCEPT ![t] = "none"]
     \/ /\ exec[t] # "starting"
        /\ cancelCall' = [cancelCall EXCEPT ![t] = "failed"]
        /\ UNCHANGED exec
  /\ UNCHANGED <<routeVars, recordVars, phase, due, preparing, admission, dispatch,
                 wdTimer, cTimer, lost, stopCall, eventVars, linked, launches, outcome>>

\* cancelBeforeStart is done: nothing runs, and the cancellation is published.
AbortConfirmed(t) ==
  /\ exec[t] = "aborting"
  /\ exec' = [exec EXCEPT ![t] = "finished"]
  /\ event' = [event EXCEPT ![t] = "cancelled"]
  /\ outcome' = [outcome EXCEPT ![t] = "cancelled"]
  /\ UNCHANGED <<routeVars, recordVars, brokerVars, queued, linked, launches>>

\* disposeTask stops whatever there is; a request for an ended task fails.
NodeDispose(t) ==
  /\ t \in stopCall
  /\ Connected(t)
  /\ stopCall' = stopCall \ {t}
  /\ exec' = [exec EXCEPT ![t] =
                IF @ \in {"starting", "aborting", "running", "cancelling"}
                THEN "stopping" ELSE @]
  /\ UNCHANGED <<routeVars, recordVars, phase, due, preparing, admission, dispatch,
                 wdTimer, cTimer, lost, cancelCall, eventVars, linked, launches, outcome>>

\* Mutant: an agent that is being cancelled is left to itself.
NodeDeadlineNotCancelling(t) ==
  /\ t \in due
  /\ exec[t] \in {"starting", "running"}
  /\ exec' = [exec EXCEPT ![t] = "stopping"]
  /\ UNCHANGED <<routeVars, recordVars, brokerVars, eventVars, linked, launches, outcome>>

\* The executor keeps the worker deadline of the task on its own.
NodeDeadline(t) ==
  /\ t \in due
  /\ exec[t] \in {"starting", "running", "cancelling"}
  /\ exec' = [exec EXCEPT ![t] = "stopping"]
  /\ UNCHANGED <<routeVars, recordVars, brokerVars, eventVars, linked, launches, outcome>>

\* The handle is cancelled and disposed of: the agent no longer runs.
AgentStops(t) ==
  /\ exec[t] = "stopping"
  /\ exec' = [exec EXCEPT ![t] = "gone"]
  /\ UNCHANGED <<routeVars, recordVars, brokerVars, eventVars, linked, launches, outcome>>

\* The agent asks for input, or ends; the pump publishes one event at a time.
AgentAsks(t) ==
  /\ t \in Asking
  /\ exec[t] = "running"
  /\ event[t] = "none"
  /\ event' = [event EXCEPT ![t] = "inputRequired"]
  /\ UNCHANGED <<routeVars, recordVars, brokerVars, queued, nodeVars>>

AgentEnds(t, kind) ==
  /\ exec[t] \in {"running", "cancelling"}
  /\ event[t] = "none"
  /\ exec' = [exec EXCEPT ![t] = "finished"]
  /\ event' = [event EXCEPT ![t] = kind]
  /\ outcome' = [outcome EXCEPT ![t] = kind]
  /\ UNCHANGED <<routeVars, recordVars, brokerVars, queued, linked, launches>>

----------------------------------------------------------------------------
(* Broker restart *)

\* The broker process ends: what is left are the task files and the windows.
Crash ==
  /\ Crashing
  /\ phase # "down"
  /\ phase' = "down"
  /\ Forget
  /\ preparing' = NoTask
  /\ admission' = [t \in Tasks |-> "none"]
  /\ dispatch' = [t \in Tasks |-> "none"]
  /\ wdTimer' = {} /\ cTimer' = {} /\ lost' = {} /\ stopCall' = {} /\ queued' = {}
  /\ cancelCall' = [t \in Tasks |-> "none"]
  /\ event' = [t \in Tasks |-> IF t \in queued THEN "none" ELSE event[t]]
  /\ UNCHANGED <<recordVars, due, nodeVars>>

Restart ==
  /\ phase = "down"
  /\ phase' = "recovering"
  /\ UNCHANGED <<routeVars, recordVars, due, preparing, admission, dispatch, wdTimer,
                 cTimer, lost, cancelCall, stopCall, eventVars, nodeVars>>

\* initializeCore: no route survives a restart, so every active record fails.
Recover(t) ==
  /\ phase = "recovering"
  /\ Active(t)
  /\ state' = [state EXCEPT ![t] = IF t \in due THEN "timedOut" ELSE "failed"]
  /\ UNCHANGED <<routeVars, target, brokerVars, eventVars, nodeVars>>

\* A write that throws fails the start of the broker; it is tried again.
RecoverFails ==
  /\ phase = "recovering"
  /\ Faults # {}
  /\ phase' = "down"
  /\ UNCHANGED <<routeVars, recordVars, due, preparing, admission, dispatch, wdTimer,
                 cTimer, lost, cancelCall, stopCall, eventVars, nodeVars>>

Serve ==
  /\ phase = "recovering"
  /\ \A t \in Tasks : ~Active(t)
  /\ phase' = "up"
  /\ UNCHANGED <<routeVars, recordVars, due, preparing, admission, dispatch, wdTimer,
                 cTimer, lost, cancelCall, stopCall, eventVars, nodeVars>>

----------------------------------------------------------------------------

StartStep(t) ==
  \/ \E i \in Instances, w \in Workspaces : BeginStart(t, i, w)
  \/ AcceptStart(t) \/ FailStart(t) \/ DenyStart(t) \/ DispatchStart(t)
  \/ StartFailed(t) \/ StartReplied(t)

ControlStep(t) ==
  \/ GetTask(t) \/ DeadlinePasses(t) \/ EnforceDeadline(t)
  \/ WorkerTimeout(t) \/ CancellationTimeout(t) \/ FailLostBinding(t)
  \/ CancelAgain(t) \/ CancelBeforeDispatch(t) \/ CancelAfterDispatch(t)
  \/ CancelFailed(t) \/ ReceiveEvent(t) \/ ApplyEvent(t) \/ AnswerAccepted(t)

NodeStep(t) ==
  \/ NodeStart(t) \/ Launch(t) \/ NodeStartReply(t) \/ LaunchFails(t)
  \/ NodeCancel(t) \/ AbortConfirmed(t) \/ NodeDispose(t) \/ NodeDeadline(t)
  \/ AgentStops(t) \/ AgentAsks(t)
  \/ \E kind \in Events \ {"inputRequired"} : AgentEnds(t, kind)

SessionStep ==
  \/ \E i \in Instances : Connect(i) \/ LoseSession(i) \/ LoseLink(i)
  \/ \E i \in Instances, w \in Workspaces : ClaimWorkspace(i, w)
  \/ \E w \in Workspaces : ReleaseWorkspace(w)

RestartStep == Crash \/ Restart \/ Serve \/ RecoverFails \/ \E t \in Tasks : Recover(t)

BrokerNext ==
  \/ \E t \in Tasks : StartStep(t) \/ ControlStep(t) \/ NodeStep(t)
  \/ SessionStep
  \/ RestartStep

BrokerSpec == BrokerInit /\ [][BrokerNext]_vars

----------------------------------------------------------------------------
(* Fairness: timers fire, queued work runs, closed connections are noticed, *)
(* a broker that is started again and again once gets to recover a task,    *)
(* agents that are told to stop do stop. Users and agents owe nothing.      *)

Fairness ==
  /\ \A t \in Tasks :
       /\ WF_vars(DeadlinePasses(t))
       /\ WF_vars(AcceptStart(t) \/ FailStart(t))
       /\ WF_vars(StartFailed(t) \/ StartReplied(t))
       /\ WF_vars(WorkerTimeout(t))
       /\ WF_vars(CancellationTimeout(t))
       /\ WF_vars(FailLostBinding(t))
       /\ WF_vars(NodeDeadline(t))
       /\ WF_vars(AgentStops(t))
       /\ WF_vars(AbortConfirmed(t))
       /\ SF_vars(Recover(t))
  /\ WF_vars(Restart)

FairSpec == BrokerSpec /\ Fairness

----------------------------------------------------------------------------
(* Safety *)

\* docs/technical-implementation.md 9.2 item 7: a workspace has at most one
\* task that is not terminal, across starts, failures and restarts.
OneActiveTaskPerWorkspace ==
  \A t, u \in Tasks :
    (t # u /\ Active(t) /\ Active(u)) => target[t].ws # target[u].ws

\* 9.2 items 6 and 8: an active task holds the route and lease it was
\* accepted for, whatever happens to its node, and a terminal one holds none.
LeaseFollowsRecord ==
  phase = "up" =>
    \A t \in Tasks :
      /\ Active(t) => binding[t] = target[t]
      /\ binding[t] # NoRoute => Active(t) \/ preparing = t

\* A start sent to a node is never sent again: over retries, broker restarts
\* and reconnecting windows, one task launches at most one agent.
LaunchedAtMostOnce == \A t \in Tasks : launches[t] <= 1

\* 9.2 item 12: the record never pretends. Cancelled means that no agent of
\* the task is at work, nor will be; completed that the agent said so.
TerminalIsTrue ==
  \A t \in Tasks :
    /\ state[t] = "cancelled" => exec[t] \in {"none", "finished", "gone"}
    /\ state[t] = "completed" => outcome[t] = "completed"

\* A cancelled admission is the proof that the node was never asked.
CancelledAdmissionUndispatched ==
  \A t \in Tasks : admission[t] = "cancelled" =>
    exec[t] = "none" /\ launches[t] = 0 /\ dispatch[t] \notin {"sent", "replied"}

\* What a reader of the record, and the agent, show to the outside.
Status == [t \in Tasks |-> CASE state[t] = "absent"        -> "none"
                             [] state[t] \in ActiveStates -> "active"
                             [] OTHER                     -> state[t]]

Agent == [t \in Tasks |->
            CASE launches[t] = 0 /\ exec[t] \in {"none", "starting"} -> "idle"
              [] Writing(t)                                         -> "working"
              [] outcome[t] = "completed"                           -> "completed"
              [] OTHER                                              -> "ended"]

Delegation == INSTANCE DelegatedTask WITH status <- Status, agent <- Agent

\* Every step of the broker and its nodes is a step of DelegatedTask: one
\* agent per task, one final status (9.2 item 11), and a true one.
ImplementsDelegatedTask == Delegation!DSpec

(* Liveness *)

\* Every accepted task ends, whatever its node, its agent or its user do.
EveryTaskEnds == \A t \in Tasks : Active(t) ~> state[t] \in TerminalStates

\* No agent outlives its task for ever.
AgentsStop == \A t \in Tasks : state[t] \in TerminalStates ~> ~Writing(t)

\* docs/technical-implementation.md: a workspace has one writer at a time.
SingleWriter ==
  \A t, u \in Tasks :
    (t # u /\ Writing(t) /\ Writing(u)) => target[t].ws # target[u].ws
====
