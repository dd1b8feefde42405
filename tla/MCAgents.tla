---- MODULE MCAgents ----
(***************************************************************************)
(* The agents of a window: its task executor (WindowNodeTaskExecutor), the *)
(* choice of a host and its processes (AgentHosts), the starts of the      *)
(* agent runtime (AgentStarts), one started task with its host (AgentTask),*)
(* or the installation of what a host is started with (CliInstaller).      *)
(***************************************************************************)
EXTENDS WindowNodeTaskExecutor, AgentStarts, AgentTask, CliInstaller, AgentHosts

CONSTANTS c1, c2, c3, c4   \* calls: c4 in a process of its own

VARIABLE about

OfExecutor == about = "executor" /\ UNCHANGED <<about, startVars, agentVars, cliVars, selectorVars, launcherVars>>
OfStarts == about = "starts" /\ UNCHANGED <<about, executorVars, agentVars, cliVars, selectorVars, launcherVars>>
OfTask == about = "task" /\ UNCHANGED <<about, executorVars, startVars, cliVars, selectorVars, launcherVars>>

\* Three installations of one process; or two, and a call of another process;
\* or one and a call of another process, with one more thing that goes wrong.
OfInstaller == about = "installer" /\ UNCHANGED <<about, executorVars, startVars, agentVars, selectorVars, launcherVars>>

OthersOfHosts == <<about, executorVars, startVars, agentVars, cliVars>>
OfSources == about = "sources" /\ UNCHANGED <<OthersOfHosts, launcherVars>>
OfLauncher == about = "launcher" /\ UNCHANGED <<OthersOfHosts, selectorVars>>

FewCalls ==
  /\ cli'[c4].at = "new" \/ cli'[c3].at = "new"
  /\ misfits' < MaxMisfits \/ (cli'[c2].at = "new" /\ cli'[c3].at = "new")
  /\ \A i \in Calls \ {c4} : ~cli'[i].status

MCProcessOf == [i \in Calls |-> IF i = c4 THEN 2 ELSE 1]

\* A standalone host; an editor's host, for a new and for a continued session;
\* and a host owned in a codespace.
MCProfiles ==
  {[preserve |-> FALSE, owned |-> FALSE, continued |-> FALSE],
   [preserve |-> TRUE, owned |-> FALSE, continued |-> FALSE],
   [preserve |-> TRUE, owned |-> TRUE, continued |-> FALSE],
   [preserve |-> TRUE, owned |-> FALSE, continued |-> TRUE]}

Init ==
  /\ about \in {"executor", "starts", "task", "installer", "sources", "launcher"}
  /\ ExecutorInit /\ StartsInit /\ AgentInit /\ CliInit /\ SelectorInit /\ LauncherInit
  /\ about # "task" => ~kind.preserve

Next ==
  \/ OfExecutor /\ ExecutorNext
  \/ OfStarts /\ StartsNext
  \/ OfTask /\ AgentNext
  \/ OfInstaller /\ CliNext /\ FewCalls
  \/ OfSources /\ SelectorNext
  \/ OfLauncher /\ LauncherNext

vars == <<OthersOfHosts, selectorVars, launcherVars>>

Spec == Init /\ [][Next]_vars
====
