---- MODULE TaskRoutes ----
(***************************************************************************)
(* What the Node Registry promises to the task service: which window       *)
(* instances are live, which live instance claims a workspace, and which   *)
(* task holds the route and the write lease of a workspace.  NodeRegistry  *)
(* is shown to implement this module; BrokerTaskService is built on it.    *)
(***************************************************************************)
EXTENDS FiniteSets

CONSTANTS Windows,     \* nodeIds: one per VS Code window
          Instances,   \* nodeInstanceIds: one per life of a window
          WindowOf,    \* the window an instance is a life of
          Workspaces,  \* physical workspace identities
          Tasks,       \* (ownerId, taskId) pairs
          NoInstance, NoRoute

Routes == [inst : Instances, ws : Workspaces]

ASSUME WindowOfAssumption == WindowOf \in [Instances -> Windows]
ASSUME SentinelAssumption == /\ NoInstance \notin Instances
                             /\ NoRoute \notin Routes

VARIABLES live,     \* instances the broker holds an open session of
          claims,   \* ActiveWorkspaceClaim of each workspace
          binding   \* NodeTaskBinding of each task, with the lease it holds

routeVars == <<live, claims, binding>>

TypeOK ==
  /\ live \subseteq Instances
  /\ claims \in [Workspaces -> Instances \cup {NoInstance}]
  /\ binding \in [Tasks -> Routes \cup {NoRoute}]

Init ==
  /\ live = {}
  /\ claims = [w \in Workspaces |-> NoInstance]
  /\ binding = [t \in Tasks |-> NoRoute]

\* The bindings of lost instances, handed to the task service.
BoundTo(S) == {t \in Tasks : binding[t] # NoRoute /\ binding[t].inst \in S}

\* Another task holds the lease of w.
LeasedByOther(w, t) ==
  \E u \in Tasks \ {t} : binding[u] # NoRoute /\ binding[u].ws = w

Siblings(i) == {j \in Instances \ {i} : WindowOf[j] = WindowOf[i]}

ClaimsWithout(S) ==
  [w \in Workspaces |-> IF claims[w] \in S THEN NoInstance ELSE claims[w]]

----------------------------------------------------------------------------

\* The instances of S lose their session: their claims go, bindings stay.
Lose(S) ==
  /\ live' = live \ S
  /\ claims' = ClaimsWithout(S)
  /\ UNCHANGED binding

\* Instance i is registered in the place of any earlier life of its window;
\* an earlier life with bound tasks is never replaced.
GoLive(i) ==
  /\ i \notin live
  /\ BoundTo(Siblings(i)) = {}
  /\ live' = (live \ Siblings(i)) \cup {i}
  /\ claims' = ClaimsWithout(Siblings(i))
  /\ UNCHANGED binding

Claim(i, w) ==
  /\ i \in live
  /\ claims[w] \in {NoInstance, i}
  /\ claims' = [claims EXCEPT ![w] = i]
  /\ UNCHANGED <<live, binding>>

\* Release of a workspace by its window, or its disabling by the user.
Unclaim(w) ==
  /\ claims' = [claims EXCEPT ![w] = NoInstance]
  /\ UNCHANGED <<live, binding>>

\* The route to the exact claiming instance and the lease, taken together.
Acquire(t, i, w) ==
  /\ i \in live
  /\ claims[w] = i
  /\ binding[t] \in {NoRoute, [inst |-> i, ws |-> w]}
  /\ ~LeasedByOther(w, t)
  /\ binding' = [binding EXCEPT ![t] = [inst |-> i, ws |-> w]]
  /\ UNCHANGED <<live, claims>>

\* Route and lease go together.
Release(t) ==
  /\ binding' = [binding EXCEPT ![t] = NoRoute]
  /\ UNCHANGED <<live, claims>>

\* Everything but the task files and the catalog is memory of the broker.
Forget ==
  /\ live' = {}
  /\ claims' = [w \in Workspaces |-> NoInstance]
  /\ binding' = [t \in Tasks |-> NoRoute]

Next ==
  \/ \E S \in SUBSET Instances : Lose(S)
  \/ \E i \in Instances : GoLive(i)
  \/ \E i \in Instances, w \in Workspaces : Claim(i, w)
  \/ \E w \in Workspaces : Unclaim(w)
  \/ \E t \in Tasks, i \in Instances, w \in Workspaces : Acquire(t, i, w)
  \/ \E t \in Tasks : Release(t)
  \/ Forget

Spec == Init /\ [][Next]_routeVars

----------------------------------------------------------------------------

\* docs/technical-implementation.md 9.2: a workspace has one lease holder.
\* No two tasks hold a route into the same workspace.
OneLeasePerWorkspace ==
  \A t, u \in Tasks :
    (t # u /\ binding[t] # NoRoute /\ binding[u] # NoRoute)
      => binding[t].ws # binding[u].ws

\* A claim is only ever held by an instance the broker has a session of:
\* a task is never routed to a window that is gone.
ClaimHolderLive ==
  \A w \in Workspaces : claims[w] # NoInstance => claims[w] \in live

\* One life of a window is live at a time.
OneLifePerWindow ==
  \A i, j \in live : WindowOf[i] = WindowOf[j] => i = j

\* While a task is bound to an instance, no other life of that window takes
\* its place: the bound instance is the cleanup fence of the task.
BoundInstanceFences ==
  \A t \in Tasks : binding[t] # NoRoute =>
    \A j \in live : WindowOf[j] = WindowOf[binding[t].inst] => j = binding[t].inst

RoutesInv == /\ OneLeasePerWorkspace
             /\ ClaimHolderLive
             /\ OneLifePerWindow
             /\ BoundInstanceFences
====
