---- MODULE MCTaskHistory ----
(***************************************************************************)
(* Tasks and what is told of them: the task service of the broker under    *)
(* its faults, on windows that are not reloaded, the transcripts of a      *)
(* Codespace, and the tools that read tasks.  They share no variable; a    *)
(* behavior is about one of them, and of reading, about one tool.          *)
(***************************************************************************)
EXTENDS BrokerTaskService, NativeChat, TaskReading, TLC

CONSTANTS k1, k2, c1, c2

VARIABLE about

MCWindowOf == [i \in Instances |-> i]
ChatScript == (k1 :> <<"output", "input", "output", "completed">>) @@ (k2 :> <<"completed">>)

OfBroker == about = "broker" /\ UNCHANGED <<about, chatVars, readVars>>
OfChat == about = "chat" /\ UNCHANGED <<about, vars, readVars>>
OfTool(tool) == about = tool /\ UNCHANGED <<about, vars, chatVars>>

\* Both tasks of a Codespace run in one window; the other one archives, holds the lock, and dies.
HistoryInit ==
  /\ about \in {"broker", "chat", "get", "list", "workers"}
  /\ BrokerInit /\ ChatInit /\ ReadingInit
  /\ \A t \in ChatTasks : chats[t].by = c1

HistoryNext ==
  \/ OfBroker /\ BrokerNext
  \/ OfChat /\ ChatNext
  \/ OfTool("get") /\ OfReading /\ GetNext
  \/ OfTool("list") /\ OfListing /\ ListNext
  \/ OfTool("workers") /\ OfWorkers /\ WorkersNext

HistorySpec == HistoryInit /\ [][HistoryNext]_<<about, vars, chatVars, readVars>>

Symmetry == Permutations(Tasks) \cup Permutations(Instances) \cup Permutations(Recoveries)
====
