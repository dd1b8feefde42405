---- MODULE MCBrokerProcess ----
(***************************************************************************)
(* Parts of one broker process: its task service, on windows that are not  *)
(* reloaded, and the switch of its cross-device connections.  They share   *)
(* no variable; a behavior is about one of them.                           *)
(***************************************************************************)
EXTENDS BrokerTaskService, Connectivity, TLC

VARIABLE about

MCWindowOf == [i \in Instances |-> i]

OfTasks == about = "tasks" /\ UNCHANGED <<about, connectVars>>
OfSwitch == about = "switch" /\ UNCHANGED <<about, vars>>

ProcessInit ==
  /\ about \in {"tasks", "switch"}
  /\ BrokerInit /\ ConnectInit
  /\ about # "switch" => ~legacy

ProcessNext ==
  \/ OfTasks /\ BrokerNext
  \/ OfSwitch /\ ConnectNext

ProcessSpec == ProcessInit /\ [][ProcessNext]_<<about, vars, connectVars>>

Symmetry == Permutations(Tasks) \cup Permutations(Instances) \cup Permutations(Accounts)
====
