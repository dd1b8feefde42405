---- MODULE MCWindowLink ----
(***************************************************************************)
(* The link of a window: the transport (LocalIpc), the client above it     *)
(* (WindowNodeClient), and the delegation tool above that (DelegationTools).*)
(* They share no variable; a behavior is about one of them.                *)
(***************************************************************************)
EXTENDS WindowNodeClient, LocalIpc, DelegationTools

VARIABLE about

OfClient == about = "client" /\ UNCHANGED <<about, ipcVars, toolVars>>
OfIpc == about = "ipc" /\ UNCHANGED <<about, clientVars, toolVars>>
OfTools == about = "tools" /\ UNCHANGED <<about, clientVars, ipcVars>>

MCIntentOf == [c \in ToolCalls |-> CHOOSE i \in Intents : TRUE]

\* One call, which waits for a target named in full or submits to a handle, for a task that asks
\* nothing if the link breaks; or two calls for one task, which wait, the second of them without
\* being stopped, over a link that never breaks, for a task that asks nothing.
Begun(c) == calls[c].start # "idle"
FewTroubles ==
  \/ /\ \A c \in ToolCalls : Begun(c)' => c = 1 /\ (calls'[c].mode = "wait" <=> calls'[c].handle = "explicit")
     /\ now' = 0 /\ (breaks' = 0 \/ \A i \in Intents : work'[i].rounds = 0)
  \/ /\ Begun(1)' /\ breaks' = 0 /\ \A i \in Intents : work'[i].rounds = 0
     /\ \A c \in ToolCalls : Begun(c)' =>
          /\ calls'[c].mode = "wait" /\ calls'[c].handle = "explicit"
          /\ calls'[c].reason \in (IF c = 1 THEN {"none", "budget"} ELSE {"none"})

Init ==
  /\ about \in {"client", "ipc", "tools"}
  /\ ClientInit /\ IpcInit /\ ToolsInit
  /\ about # "client" => ~oneShot
  /\ about # "ipc" => keyed = {} /\ nonce = [c \in Conns |-> 1]

Next ==
  \/ OfClient /\ ClientNext
  \/ OfIpc /\ IpcNext
  \/ OfTools /\ ToolsNext /\ FewTroubles

vars == <<about, clientVars, ipcVars, toolVars>>

\* The transport handles what arrives; timers, broker and window answer, a broken link returns, and a
\* task that is cancelled ends.
Fairness ==
  /\ \A c \in Conns, s \in Sides : WF_vars(OfIpc /\ IpcProgress(c, s))
  /\ WF_vars(OfTools /\ (ReadsExisting \/ Hears \/ \E a \in asks : BrokerAnswers(a)))
  /\ WF_vars(OfTools /\ LinkReturns)
  /\ \A c \in ToolCalls : WF_vars(OfTools /\ (SendsCancel(c) \/ StopsWaiting(c, "budget")))
  /\ \A i \in Intents :
       WF_vars(OfTools /\ work[i].state = "cancelling" /\ \E next \in Ended : TaskMoves(i, next))

Spec == Init /\ [][Next]_vars /\ Fairness
====
