---- MODULE TaskRouteCatalog ----
(***************************************************************************)
(* src/src/broker/TaskRouteCatalog.ts with the requests of DeviceBroker.ts *)
(* that use it: the durable record of where every delegated task was sent, *)
(* written before anything is sent.                                        *)
(*                                                                         *)
(* The operations of the catalog run one at a time from the promise chain  *)
(* `mutation`, here a sequence of pending operations; whoever waits for an *)
(* operation goes on in the step that runs it.  A start request reserves a *)
(* route, starts the task and settles its reservation; several attempts    *)
(* may carry the same request.  tasks is the authority on a task: the task *)
(* store of this device for a local request, the peer for a remote one.    *)
(***************************************************************************)
EXTENDS Naturals, Sequences, FiniteSets

CONSTANTS Requests,      \* start requests: identifiers, source and target
          Remote,        \* the requests that go to a peer device
          Tasks, TaskOf,             \* taskId of a request
          Delegations, DelegationOf, \* its delegationRequestId and source scope
          Attempts,      \* bound: calls of startLocalRoute or remoteTaskStart
          Limit,         \* TASK_ROUTE_CATALOG_LIMIT
          NoRoute, NoRequest, NoGroup, Nobody,
          Faults,        \* subset of FaultKinds
          MaxFaults,     \* bound: faults in a behaviour
          MaxRestarts    \* bound: broker restarts in a behaviour

\* "lost": an update of the catalog throws and nothing is written; "landed":
\* it throws after the write (FencedStateStore finds its ownership gone);
\* "throws": a start or the read of the task store throws though the task
\* is accepted.
FaultKinds == {"lost", "landed", "throws"}

ASSUME RequestsAssumption == /\ TaskOf \in [Requests -> Tasks]
                             /\ DelegationOf \in [Requests -> Delegations]
                             /\ Remote \subseteq Requests
ASSUME LimitAssumption == Limit \in Nat \ {0}
ASSUME CatalogFaultsAssumption ==
  /\ Faults \subseteq FaultKinds
  /\ MaxFaults \in Nat
  /\ MaxRestarts \in Nat

Terminal == {"completed"}
TaskStates == {"startingAgent", "running"} \cup Terminal
Absent == "absent"

\* A route, with the attempt that created it for its time of creation, and
\* the group of the attempts that share a reservation.
Routes == [request : Requests, createdBy : Attempts, state : {"ambiguous"} \cup TaskStates]
Groups == [route : Routes, attempts : SUBSET Attempts, releasable : BOOLEAN, protected : BOOLEAN]

ASSUME SentinelsAssumption ==
  /\ NoRequest \notin Requests
  /\ Nobody \notin Attempts
  /\ NoRoute \notin Routes
  /\ NoGroup \notin Groups

VARIABLES stored,    \* the persisted catalog
          routes,    \* the map in memory, by task
          groups,    \* attemptGroups, by task
          mutation,  \* the operations waiting for the promise chain
          attempts,  \* the start requests under way
          tasks,     \* the authoritative record of each task
          faults,
          restarts

catalogVars == <<stored, routes, groups>>
vars == <<stored, routes, groups, mutation, attempts, tasks, faults, restarts>>

\* "failed" reports the error of the start, "unreconciled" an AggregateError.
Ended == {"answered", "refused", "failed", "unreconciled", "interrupted"}

Init ==
  /\ stored = {}
  /\ routes = [t \in Tasks |-> NoRoute]
  /\ groups = [t \in Tasks |-> NoGroup]
  /\ mutation = <<>>
  /\ attempts = [a \in Attempts |-> [phase |-> "idle", request |-> NoRequest, route |-> NoRoute,
                                     attempted |-> FALSE, seen |-> Absent]]
  /\ tasks = [t \in Tasks |-> [request |-> NoRequest, state |-> Absent]]
  /\ faults = 0
  /\ restarts = 0

----------------------------------------------------------------------------
(* Helpers *)

Phase(a) == attempts[a].phase
Request(a) == attempts[a].request
Task(a) == TaskOf[Request(a)]
Exists(t) == tasks[t].state # Absent

Op(kind, a) == <<[kind |-> kind, by |-> a, task |-> Task(a), state |-> Absent]>>
Mark(by, t, s) == <<[kind |-> "mark", by |-> by, task |-> t, state |-> s]>>

\* The task's own queue waits for the publication of a snapshot.
Publishing(t) ==
  \E i \in DOMAIN mutation :
    LET o == mutation[i] IN /\ o.kind = "mark" /\ o.task = t
                            /\ o.by = Nobody \/ Phase(o.by) = "accepting"

\* Starts and prevalidations run one at a time (serializeStart).
Starting == \E a \in Attempts : Phase(a) = "accepting"

\* An attempt goes on and queues what it does next.
Goes(a, phase, ops) == /\ attempts' = [attempts EXCEPT ![a].phase = phase]
                       /\ mutation' = mutation \o ops

\* An attempt goes on from the operation at the head of the chain.
Resumes(a, phase, ops) == /\ attempts' = [attempts EXCEPT ![a].phase = phase]
                          /\ mutation' = Tail(mutation) \o ops

Fault(kind) == /\ kind \in Faults
               /\ faults < MaxFaults
               /\ faults' = faults + 1

\* An update of the stored catalog that succeeds, or throws.
Written(new) == stored' = new /\ UNCHANGED faults
WriteThrows(new) == \/ Fault("lost") /\ UNCHANGED stored
                    \/ Fault("landed") /\ stored' = new

----------------------------------------------------------------------------
(* The start request up to its reservation *)

\* The records that hold the task or the delegation of request r.
Holding(r) == {x \in stored : \/ TaskOf[x.request] = TaskOf[r]
                              \/ DelegationOf[x.request] = DelegationOf[r]}

\* assertLocalCompatible, assertRemoteCompatible: the map in memory has no
\* other request under the identifiers of r.
Compatible(r) ==
  \A t \in Tasks :
    LET x == routes[t] IN
      x = NoRoute \/ x.request = r
        \/ (TaskOf[x.request] # TaskOf[r] /\ DelegationOf[x.request] # DelegationOf[r])

Submit(a) ==
  /\ Phase(a) = "idle"
  /\ \E r \in Requests :
       attempts' = [attempts EXCEPT ![a].request = r,
                                    ![a].phase = IF Compatible(r) THEN "prevalidating" ELSE "refused"]
  /\ UNCHANGED <<catalogVars, mutation, tasks, faults, restarts>>

\* A remote request whose task the peer knows is answered with its state.
AnswerExisting(a) ==
  /\ Phase(a) = "prevalidating"
  /\ Request(a) \in Remote
  /\ routes[Task(a)] # NoRoute
  /\ Exists(Task(a))
  /\ Goes(a, "answering", Mark(a, Task(a), tasks[Task(a)].state))
  /\ UNCHANGED <<catalogVars, tasks, faults, restarts>>

\* The peer does not know the task, so far; the request goes on and waits for
\* its authorization.
LookUp(a) ==
  /\ Phase(a) = "prevalidating"
  /\ Request(a) \in Remote
  /\ routes[Task(a)] = NoRoute \/ ~Exists(Task(a))
  /\ Goes(a, "authorizing", <<>>)
  /\ UNCHANGED <<catalogVars, tasks, faults, restarts>>

\* The target, and the record of a local task, allow the request.
Prevalidate(a) ==
  /\ \/ Phase(a) = "authorizing"
     \/ /\ Phase(a) = "prevalidating"
        /\ Request(a) \notin Remote
        /\ ~Starting
        /\ ~Exists(Task(a)) \/ tasks[Task(a)].request = Request(a)
  /\ Goes(a, "reserving", Op("reserve", a))
  /\ UNCHANGED <<catalogVars, tasks, faults, restarts>>

PrevalidateRefuses(a) ==
  /\ Phase(a) \in {"prevalidating", "authorizing"}
  /\ Request(a) \in Remote \/ ~Starting
  /\ Goes(a, "refused", <<>>)
  /\ UNCHANGED <<catalogVars, tasks, faults, restarts>>

----------------------------------------------------------------------------
(* Operations of the catalog *)

\* The head of the chain is an operation of this kind, for attempt a.
Runs(kind, a) == mutation # <<>> /\ Head(mutation).kind = kind /\ Head(mutation).by = a

\* reservationResult: the attempt joins the group of exactly this route, or
\* founds one, which drops a group of the same task on another route state.
Joined(x, a, created) ==
  LET g == groups[TaskOf[x.request]] IN
    IF g # NoGroup /\ g.route = x
      THEN [g EXCEPT !.attempts = @ \cup {a}]
      ELSE [route |-> x, attempts |-> {a}, releasable |-> created, protected |-> ~created]

Reserves(a, x, created) ==
  /\ groups' = [groups EXCEPT ![Task(a)] = Joined(x, a, created)]
  /\ attempts' = [attempts EXCEPT ![a].phase = "reserved", ![a].route = x]
  /\ mutation' = Tail(mutation)

ReserveExisting(a) ==
  /\ Runs("reserve", a)
  /\ \E x \in Holding(Request(a)) :
       /\ Holding(Request(a)) = {x}
       /\ x.request = Request(a)
       /\ routes' = [routes EXCEPT ![Task(a)] = x]
       /\ Reserves(a, x, FALSE)
  /\ UNCHANGED <<stored, tasks, faults, restarts>>

ReserveConflicts(a) ==
  /\ Runs("reserve", a)
  /\ \E x \in Holding(Request(a)) : x.request # Request(a)
  /\ Resumes(a, "refused", <<>>)
  /\ UNCHANGED <<catalogVars, tasks, faults, restarts>>

\* Mutant: any route may be evicted.
EvictableAny == stored

\* makeCapacity: a full catalog gives up one terminal route, the oldest.
Evictable == {x \in stored : x.state \in Terminal}

\* Which routes a reservation gives up: none while there is room.
Evictions == IF Cardinality(stored) < Limit THEN {{}} ELSE {{x} : x \in Evictable}

\* The map without the evicted route and with the new one.
MapWith(gone, x) == [t \in Tasks |-> IF t = TaskOf[x.request] THEN x
                                     ELSE IF \E old \in gone : TaskOf[old.request] = t THEN NoRoute
                                     ELSE routes[t]]

ReserveNew(a) ==
  /\ Runs("reserve", a)
  /\ Holding(Request(a)) = {}
  /\ \E gone \in Evictions :
       LET x == [request |-> Request(a), createdBy |-> a, state |-> "ambiguous"]
           new == (stored \ gone) \cup {x}
       IN \/ /\ Written(new)
             /\ routes' = MapWith(gone, x)
             /\ Reserves(a, x, TRUE)
          \/ /\ WriteThrows(new)
             /\ Resumes(a, "refused", <<>>)
             /\ UNCHANGED <<routes, groups>>
  /\ UNCHANGED <<tasks, restarts>>

\* RATE_LIMITED: every route is active or ambiguous.
ReserveFull(a) ==
  /\ Runs("reserve", a)
  /\ Holding(Request(a)) = {}
  /\ Evictions = {}
  /\ Resumes(a, "refused", <<>>)
  /\ UNCHANGED <<catalogVars, tasks, faults, restarts>>

\* requireAttemptGroup
InGroup(a) == LET g == groups[Task(a)] IN
                g # NoGroup /\ a \in g.attempts /\ g.route = attempts[a].route

\* What follows retainAmbiguous: the answer, the error of the start, or the
\* snapshot the reconciliation read.
AfterRetain(a) ==
  CASE Phase(a) = "retaining" -> Resumes(a, "answered", <<>>)
    [] Phase(a) = "abandoning" -> Resumes(a, "unreconciled", <<>>)
    [] Phase(a) = "settling" /\ attempts[a].seen = Absent -> Resumes(a, "failed", <<>>)
    [] OTHER -> Resumes(a, "settlingMark", Mark(a, Task(a), attempts[a].seen))

\* The group without the attempt; an empty group is dropped.
Left(g, a) == IF g.attempts = {a} THEN NoGroup ELSE [g EXCEPT !.attempts = @ \ {a}]

Retain(a) ==
  /\ Runs("retain", a)
  /\ InGroup(a)
  /\ groups' = [groups EXCEPT ![Task(a)] = Left([@ EXCEPT !.protected = TRUE], a)]
  /\ AfterRetain(a)
  /\ UNCHANGED <<stored, routes, tasks, faults, restarts>>

\* The TypeError of an attempt whose group is gone.  When it was retained, the
\* start has returned its snapshot, yet it is reconciled like a failure.
GroupGone(a) ==
  /\ \E op \in {"retain", "release"} : Runs(op, a)
  /\ ~InGroup(a)
  /\ CASE Phase(a) = "retaining" -> Resumes(a, "failing", <<>>)
       [] Phase(a) \in {"settling", "releasing"} -> Resumes(a, "abandoning", Op("retain", a))
       [] OTHER -> Resumes(a, "unreconciled", <<>>)
  /\ UNCHANGED <<catalogVars, tasks, faults, restarts>>

\* Mutant: other attempts of the group do not matter.
ReleasableShared(a) ==
  LET g == groups[Task(a)] IN /\ g.releasable
                              /\ g.route \in stored
                              /\ g.route.state = "ambiguous"

\* The last attempt of the group that created the route may take it back.
Releasable(a) ==
  LET g == groups[Task(a)] IN
    /\ g.attempts = {a}
    /\ g.releasable /\ ~g.protected
    /\ g.route \in stored
    /\ g.route.state = "ambiguous"

Release(a) ==
  /\ Runs("release", a)
  /\ InGroup(a)
  /\ groups' = [groups EXCEPT ![Task(a)] = Left(@, a)]
  /\ LET new == stored \ {groups[Task(a)].route} IN
       \/ /\ ~Releasable(a)
          /\ Resumes(a, "failed", <<>>)
          /\ UNCHANGED <<stored, routes, faults>>
       \/ /\ Releasable(a)
          /\ Written(new)
          /\ routes' = [routes EXCEPT ![Task(a)] = NoRoute]
          /\ Resumes(a, "failed", <<>>)
       \/ /\ Releasable(a)
          /\ WriteThrows(new)
          /\ Resumes(a, "abandoning", Op("retain", a))
          /\ UNCHANGED routes
  /\ UNCHANGED <<tasks, restarts>>

\* What waits for a markSnapshot: nobody (a publication), the acceptance of
\* a start, which goes on in any case, or an attempt.
AfterMark(by, t, ok) ==
  CASE by = Nobody -> mutation' = Tail(mutation) /\ UNCHANGED attempts
    [] by # Nobody /\ Phase(by) = "accepting" -> Resumes(by, "marking", Mark(by, t, "startingAgent"))
    [] by # Nobody /\ Phase(by) = "marking" ->
         IF ok THEN Resumes(by, "retaining", Op("retain", by)) ELSE Resumes(by, "failing", <<>>)
    [] by # Nobody /\ Phase(by) = "settlingMark" ->
         IF ok THEN Resumes(by, "failed", <<>>) ELSE Resumes(by, "abandoning", Op("retain", by))
    [] OTHER -> Resumes(by, IF ok THEN "answered" ELSE "refused", <<>>)

\* The catalog with the record of the task of x replaced by x.
Updated(x) == {IF TaskOf[y.request] = TaskOf[x.request] THEN x ELSE y : y \in stored}

\* The route in memory is that of the delegation the snapshot reports on.
Matches(t) == /\ routes[t] # NoRoute
              /\ DelegationOf[routes[t].request] = DelegationOf[tasks[t].request]

\* markSnapshot writes what the snapshot says, whether newer or older.
MarkSnapshot ==
  /\ mutation # <<>> /\ Head(mutation).kind = "mark"
  /\ LET o == Head(mutation)
         x == [routes[o.task] EXCEPT !.state = o.state]
     IN IF ~Matches(o.task)
          THEN AfterMark(o.by, o.task, FALSE) /\ UNCHANGED <<stored, routes, faults>>
          ELSE \/ /\ x = routes[o.task]
                  /\ AfterMark(o.by, o.task, TRUE)
                  /\ UNCHANGED <<stored, routes, faults>>
               \/ /\ x # routes[o.task]
                  /\ Written(Updated(x))
                  /\ routes' = [routes EXCEPT ![o.task] = x]
                  /\ AfterMark(o.by, o.task, TRUE)
               \/ /\ x # routes[o.task]
                  /\ WriteThrows(Updated(x))
                  /\ AfterMark(o.by, o.task, FALSE)
                  /\ UNCHANGED routes
  /\ UNCHANGED <<groups, tasks, restarts>>

----------------------------------------------------------------------------
(* Starting the task *)

\* BrokerTaskService.start runs with the start lock and the queue of the task.
MayStart(a) == /\ Phase(a) = "reserved"
               /\ Request(a) \notin Remote
               /\ ~Starting
               /\ ~Publishing(Task(a))

Accepted(a) == tasks' = [tasks EXCEPT ![Task(a)] = [request |-> Request(a), state |-> "startingAgent"]]

\* The record is written and its snapshot is being published.
StartAccepts(a) ==
  /\ MayStart(a)
  /\ ~Exists(Task(a))
  /\ Accepted(a)
  /\ attempts' = [attempts EXCEPT ![a].phase = "accepting", ![a].attempted = TRUE]
  /\ mutation' = mutation \o Mark(a, Task(a), "startingAgent")
  /\ UNCHANGED <<catalogVars, faults, restarts>>

\* A repeated start returns the snapshot of the record.
StartFinds(a) ==
  /\ MayStart(a)
  /\ tasks[Task(a)].request = Request(a)
  /\ Goes(a, "marking", Mark(a, Task(a), tasks[Task(a)].state))
  /\ UNCHANGED <<catalogVars, tasks, faults, restarts>>

\* The start throws: the target is gone, or the record could not be written,
\* or it was written and the write threw.
StartThrows(a) ==
  /\ MayStart(a)
  /\ \/ /\ tasks[Task(a)].request # Request(a)
        /\ UNCHANGED <<tasks, faults>>
     \/ /\ Fault("throws")
        /\ UNCHANGED tasks
     \/ /\ ~Exists(Task(a))
        /\ Fault("landed")
        /\ Accepted(a)
  /\ Goes(a, "failing", <<>>)
  /\ UNCHANGED <<catalogVars, restarts>>

\* startTask of the remote adapter: refused before the request is sent, or
\* sent.
CallPeer(a) ==
  /\ Phase(a) = "reserved"
  /\ Request(a) \in Remote
  /\ \/ Goes(a, "failing", <<>>)
     \/ /\ attempts' = [attempts EXCEPT ![a].phase = "calling", ![a].attempted = TRUE]
        /\ UNCHANGED mutation
  /\ UNCHANGED <<catalogVars, tasks, faults, restarts>>

\* The request arrives, perhaps long after its caller gave up or was lost.
PeerAccepts(a) ==
  /\ attempts[a].attempted
  /\ Request(a) \in Remote
  /\ ~Exists(Task(a))
  /\ Accepted(a)
  /\ UNCHANGED <<catalogVars, mutation, attempts, faults, restarts>>

PeerReplies(a) ==
  /\ Phase(a) = "calling"
  /\ tasks[Task(a)].request = Request(a)
  /\ Goes(a, "marking", Mark(a, Task(a), tasks[Task(a)].state))
  /\ UNCHANGED <<catalogVars, tasks, faults, restarts>>

\* The peer refuses, the connection is lost or the call times out.
PeerFails(a) ==
  /\ Phase(a) = "calling"
  /\ Goes(a, "failing", <<>>)
  /\ UNCHANGED <<catalogVars, tasks, faults, restarts>>

----------------------------------------------------------------------------
(* Settling a failed start *)

\* reconcileStartFailure: there is neither a record nor a node request.
NotDispatched(a) == ~attempts[a].attempted /\ (Request(a) \in Remote \/ ~Exists(Task(a)))

\* The no-dispatch proof lets the reservation go; otherwise it is retained,
\* and a record that was found will be marked after that.
Reconcile(a) ==
  /\ Phase(a) = "failing"
  /\ \/ /\ NotDispatched(a)
        /\ Goes(a, "releasing", Op("release", a))
     \/ /\ ~NotDispatched(a)
        /\ attempts' = [attempts EXCEPT
                          ![a].phase = "settling",
                          ![a].seen = IF Request(a) \in Remote THEN Absent ELSE tasks[Task(a)].state]
        /\ mutation' = mutation \o Op("retain", a)
  /\ UNCHANGED <<catalogVars, tasks, faults, restarts>>

ReconcileThrows(a) ==
  /\ Phase(a) = "failing"
  /\ Request(a) \notin Remote
  /\ Fault("throws")
  /\ Goes(a, "abandoning", Op("retain", a))
  /\ UNCHANGED <<catalogVars, tasks, restarts>>

----------------------------------------------------------------------------
(* Tasks and the rest of the broker *)

After(s) == IF s = "startingAgent" THEN {"running"} \cup Terminal
            ELSE IF s = "running" THEN Terminal ELSE {}

\* Mutant: the end of a task is not published.
ProgressSilently(t) ==
  /\ Exists(t)
  /\ ~Publishing(t)
  /\ \E s \in After(tasks[t].state) :
       /\ tasks' = [tasks EXCEPT ![t].state = s]
       /\ mutation' = IF tasks[t].request \in Remote \/ s \in Terminal THEN mutation
                      ELSE mutation \o Mark(Nobody, t, s)
  /\ UNCHANGED <<catalogVars, attempts, faults, restarts>>

\* A task moves on: a local one in its queue, which publishes the snapshot,
\* a remote one on its peer.
Progress(t) ==
  /\ Exists(t)
  /\ ~Publishing(t)
  /\ \E s \in After(tasks[t].state) :
       /\ tasks' = [tasks EXCEPT ![t].state = s]
       /\ mutation' = IF tasks[t].request \in Remote THEN mutation ELSE mutation \o Mark(Nobody, t, s)
  /\ UNCHANGED <<catalogVars, attempts, faults, restarts>>

\* A get, a cancel, a notification of the peer or reconcileRemoteTasks reads
\* the task and marks what it read.
Observe(t) ==
  /\ Exists(t)
  /\ ~Publishing(t)
  /\ routes[t] # NoRoute
  /\ routes[t].request = tasks[t].request
  /\ routes[t].state # tasks[t].state
  /\ mutation' = mutation \o Mark(Nobody, t, tasks[t].state)
  /\ UNCHANGED <<catalogVars, attempts, tasks, faults, restarts>>

\* The broker stops anywhere; the next one loads the catalog and marks the
\* state of every task record of this device (ProductionBrokerRuntime.start).
Reloaded(x) ==
  LET t == TaskOf[x.request] IN
    IF Exists(t) /\ tasks[t].request \notin Remote THEN [x EXCEPT !.state = tasks[t].state] ELSE x

Restart ==
  /\ restarts < MaxRestarts
  /\ restarts' = restarts + 1
  /\ stored' = {Reloaded(x) : x \in stored}
  /\ routes' = [t \in Tasks |->
                  IF \E x \in stored : TaskOf[x.request] = t
                    THEN Reloaded(CHOOSE x \in stored : TaskOf[x.request] = t) ELSE NoRoute]
  /\ groups' = [t \in Tasks |-> NoGroup]
  /\ mutation' = <<>>
  /\ attempts' = [a \in Attempts |-> IF Phase(a) \in {"idle"} \cup Ended THEN attempts[a]
                                     ELSE [attempts[a] EXCEPT !.phase = "interrupted"]]
  /\ UNCHANGED <<tasks, faults>>

CatalogStep(a) == \/ ReserveExisting(a) \/ ReserveConflicts(a) \/ ReserveNew(a) \/ ReserveFull(a)
                  \/ Retain(a) \/ Release(a) \/ GroupGone(a)

StartStep(a) == \/ AnswerExisting(a) \/ LookUp(a) \/ Prevalidate(a) \/ PrevalidateRefuses(a)
                \/ StartAccepts(a) \/ StartFinds(a) \/ StartThrows(a)
                \/ CallPeer(a) \/ PeerReplies(a) \/ PeerFails(a)
                \/ Reconcile(a) \/ ReconcileThrows(a)

Next ==
  \/ \E a \in Attempts : Submit(a) \/ StartStep(a) \/ CatalogStep(a) \/ PeerAccepts(a)
  \/ \E t \in Tasks : Progress(t) \/ Observe(t)
  \/ MarkSnapshot
  \/ Restart

Spec == Init /\ [][Next]_vars

\* Every pending operation runs, every start returns or throws within its
\* timeout, and whoever waited for it goes on.
FairSpec == Spec /\ WF_vars(MarkSnapshot)
                 /\ \A a \in Attempts : WF_vars(CatalogStep(a)) /\ WF_vars(StartStep(a))

----------------------------------------------------------------------------
(* Properties *)

\* A task that was accepted here or may have been sent to a peer has its
\* route on disk until it is terminal, through failed attempts that share
\* the reservation, failing writes and restarts.
DispatchedHasRoute ==
  /\ \A t \in Tasks : Exists(t) /\ tasks[t].state \notin Terminal
                       => \E x \in stored : x.request = tasks[t].request
  /\ \A a \in Attempts : attempts[a].attempted /\ tasks[Task(a)].state \notin Terminal
                          => \E x \in stored : x.request = Request(a)

\* A route leaves the catalog only when its task is terminal, or when
\* nothing was ever sent for it, so the last attempt to give up never takes
\* away the route of a task that another attempt or an earlier broker sent.
RoutesLeaveSafely ==
  [][\A x \in stored :
       (\A y \in stored' : y.request # x.request)
       => \/ tasks[TaskOf[x.request]].state \in Terminal
          \/ /\ ~Exists(TaskOf[x.request])
             /\ \A a \in Attempts : Request(a) = x.request => ~attempts[a].attempted]_vars

\* The route of a local task that ended becomes terminal, and so can make
\* room for others, unless a write fails or a failed attempt of the same task
\* marks the older snapshot its reconciliation read.
RouteCatchesUp ==
  \A t \in Tasks : tasks[t].state \in Terminal /\ tasks[t].request \notin Remote
                   ~> \/ routes[t] = NoRoute \/ routes[t].state \in Terminal
                      \/ faults # 0
                      \/ \E a \in Attempts : Request(a) = tasks[t].request /\ attempts[a].seen # Absent
====
