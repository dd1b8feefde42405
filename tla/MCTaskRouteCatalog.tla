---- MODULE MCTaskRouteCatalog ----
(***************************************************************************)
(* TaskRouteCatalog with a local and a remote request, and one that reuses *)
(* the delegation of the local one for another task.                       *)
(***************************************************************************)
EXTENDS TaskRouteCatalog, TLC

CONSTANTS local, remote, reusing, t1, t2, t3, d1, d2, d3

MCTaskOf == [r \in Requests |-> CASE r = local -> t1
                                  [] r = remote -> t2
                                  [] OTHER -> t3]
MCDelegationOf == [r \in Requests |-> CASE r \in {local, reusing} -> d1
                                        [] r = remote -> d2
                                        [] OTHER -> d3]

====
