---- MODULE MCCodespaces ----
(***************************************************************************)
(* Execution elsewhere: in a codespace, the generations of clients at a    *)
(* helper (RemoteExecution) and the tasks of one generation (RemoteTasks); *)
(* on another device, who may start tasks where (PeerPolicies).  A         *)
(* behavior is about one of them.                                          *)
(***************************************************************************)
EXTENDS RemoteExecution, RemoteTasks, PeerPolicies

VARIABLE about

OfGenerations == about = "generations" /\ UNCHANGED <<about, taskVars, policyVars>>

\* Tasks are stopped, and report only their end; or they report more and
\* nobody stops them.
OfTasks == about \in {"stops", "delivery"} /\ UNCHANGED <<about, remVars, policyVars>>

StopsOrDelivers ==
  \/ about = "stops" /\ \A t \in Tasks : agent'[t] \in {0, MaxEvents[t]}
  \/ about = "delivery" /\ \A t \in Tasks : adm'[t].intent = "none"

\* A workspace moves, or a write throws after its rename and the device is
\* paired anew.
OfPolicies == about = "policies" /\ UNCHANGED <<about, remVars, taskVars>>

MovesOrFaults == spent'.moves = 0 \/ (spent'.faults = 0 /\ peer'.generation = 1)

MCMaxEvents == [t \in Tasks |-> 2]

Init ==
  /\ about \in {"generations", "stops", "delivery", "policies"}
  /\ RemInit /\ TasksInit /\ PoliciesInit
  /\ about # "policies" => loaded.granted = {}

Next ==
  \/ OfGenerations /\ RemNext
  \/ OfTasks /\ TasksNext /\ StopsOrDelivers
  \/ OfPolicies /\ PoliciesNext /\ MovesOrFaults

\* A codespace runs what one generation of one client asks for and tells it so:
\* generations do not overlap, one that is reported clean is, and the broker
\* hears of each task what happened to it.
CodespacesSound == GenerationsSound /\ TasksSound

vars == <<about, remVars, taskVars, policyVars>>

Spec == Init /\ [][Next]_vars
====
