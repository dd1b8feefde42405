---- MODULE MCBrokerTaskService ----
(***************************************************************************)
(* BrokerTaskService on windows that are not reloaded: one life each.      *)
(***************************************************************************)
EXTENDS BrokerTaskService, TLC

MCWindowOf == [i \in Instances |-> i]

Symmetry == Permutations(Tasks) \cup Permutations(Instances)
====
