---- MODULE MCNodeRegistry ----
(***************************************************************************)
(* What a broker knows: its windows (NodeRegistry, with a window that is   *)
(* reloaded once and two that are not), the tasks it has started on a peer *)
(* (RemoteRoutes), and the peer itself, revoked or deleted (SavedDevices). *)
(* A behavior is about one of them.                                        *)
(***************************************************************************)
EXTENDS NodeRegistry, SavedDevices, TLC

CONSTANTS n1, n2, n3, i1, i2, i3

VARIABLE about

\* i1 and i2 are two lives of window n1; every other instance is the only
\* life of a window of its own.
MCWindowOf == [i \in Instances |-> CASE i \in {i1, i2} -> n1
                                     [] i = i3 -> n2
                                     [] OTHER -> n3]

OfRegistry == about = "registry" /\ UNCHANGED <<about, routesVars, savedVars>>
OfRoutes(parts) == about \in parts /\ UNCHANGED <<about, vars>>

\* One attempt to start a task is enough where a device is deleted.
MCInit ==
  /\ about \in {"registry", "reads", "tasks", "device"}
  /\ Init /\ SavedInit
  /\ \E only \in RouteAttempts :
       RoutesInit([a \in RouteAttempts |-> IF about # "device" \/ a = only THEN "idle" ELSE "gone"])

MCNext ==
  \/ Next /\ OfRegistry
  \/ LinkNext /\ UNCHANGED savedVars /\ OfRoutes({"reads", "tasks", "device"})
  \/ ReadsNext /\ UNCHANGED savedVars /\ OfRoutes({"reads"})
  \/ TasksNext /\ UNCHANGED savedVars /\ OfRoutes({"tasks", "device"})
  \/ RestartRoutes /\ UNCHANGED savedVars /\ OfRoutes({"tasks"})
  \/ SavedNext /\ OfRoutes({"device"})

Symmetry ==
  {p @@ q : p \in Permutations(RouteTasks), q \in Permutations(RouteAttempts)}

MCSpec == MCInit /\ [][MCNext]_<<about, vars, routesVars, savedVars>>
====
