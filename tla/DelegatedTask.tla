---- MODULE DelegatedTask ----
(***************************************************************************)
(* What the mesh promises whoever delegates tasks: an accepted task is     *)
(* given to an agent at most once, has one final status, and that status   *)
(* is true of the agent. How it is routed, cancelled, watched or recovered *)
(* does not show. BrokerTaskService implements this module.                *)
(***************************************************************************)
CONSTANT Tasks

VARIABLES status,   \* what a reader of the task sees
          agent     \* "idle", "working", "completed", or "ended" otherwise

delegationVars == <<status, agent>>

Finals == {"completed", "failed", "cancelled", "timedOut"}

DTypeOK ==
  /\ status \in [Tasks -> {"none", "active"} \cup Finals]
  /\ agent \in [Tasks -> {"idle", "working", "completed", "ended"}]

DInit ==
  /\ status = [t \in Tasks |-> "none"]
  /\ agent = [t \in Tasks |-> "idle"]

Accept(t) ==
  /\ status[t] = "none"
  /\ status' = [status EXCEPT ![t] = "active"]
  /\ UNCHANGED agent

\* An agent may still be launched for a task that failed or timed out
\* meanwhile, never for a cancelled one, and never a second time.
Work(t) ==
  /\ agent[t] = "idle"
  /\ status[t] \notin {"none", "cancelled", "completed"}
  /\ agent' = [agent EXCEPT ![t] = "working"]
  /\ UNCHANGED status

\* Agents, or starts of agents, end; a lost window ends all of its own.
Stop(S) ==
  /\ \A t \in S : status[t] # "none" /\ agent[t] \in {"idle", "working"}
  /\ agent' = [t \in Tasks |-> IF t \in S THEN "ended" ELSE agent[t]]
  /\ UNCHANGED status

Succeed(t) ==
  /\ agent[t] = "working"
  /\ agent' = [agent EXCEPT ![t] = "completed"]
  /\ UNCHANGED status

\* No success unless the agent reported it, no cancellation while it works.
End(t, s) ==
  /\ status[t] = "active"
  /\ s = "completed" => agent[t] = "completed"
  /\ s = "cancelled" => agent[t] # "working"
  /\ status' = [status EXCEPT ![t] = s]
  /\ UNCHANGED agent

DNext ==
  \/ \E t \in Tasks : Accept(t) \/ Work(t) \/ Succeed(t) \/ \E s \in Finals : End(t, s)
  \/ \E S \in SUBSET Tasks : Stop(S)

DSpec == DInit /\ [][DNext]_delegationVars
====
