---- MODULE TaskReducer ----
(***************************************************************************)
(* The task life cycle of src/src/domain/taskReducer.ts: which domain      *)
(* event a task record accepts in which state, and the state it leads to.  *)
(* A record is abstracted to its state; pending inputs and recorded        *)
(* answers are kept by the modules that need them (TaskAnswer).  Summaries,*)
(* timestamps and the event journal are left out.                          *)
(***************************************************************************)

ActiveStates == {"accepted", "startingAgent", "running", "needsInput",
                 "recovering", "cancelling"}

TerminalStates == {"completed", "failed", "cancelled", "timedOut"}

TaskStates == ActiveStates \cup TerminalStates

\* The states requireState / assertActive let the event pass in. "output"
\* stands for progress, output, outputTruncated, tool and terminal: each only
\* appends to the journal.
From(type) ==
  CASE type = "agentStartRequested" -> {"accepted"}
    [] type = "agentStarted"        -> {"startingAgent", "recovering"}
    [] type = "output"              -> {"running", "needsInput", "recovering", "cancelling"}
    [] type \in {"inputRequired", "completed", "recoveryStarted"}
                                    -> {"running", "needsInput"}
    [] type = "inputAnswered"       -> {"needsInput"}
    [] type = "cancelConfirmed"     -> {"cancelling"}
    [] OTHER                        -> ActiveStates

\* The state after an accepted event; a terminal record absorbs any. resume
\* tells whether an agentStarted record still has a pending input, and
\* whether an answer matches the pending input.
After(s, type, resume) ==
  CASE s \in TerminalStates            -> s
    [] type = "agentStartRequested"    -> "startingAgent"
    [] type = "agentStarted"           -> IF s = "recovering" /\ resume
                                          THEN "needsInput" ELSE "running"
    [] type = "inputAnswered"          -> IF resume THEN "running" ELSE s
    [] type = "inputRequired"          -> "needsInput"
    [] type = "recoveryStarted"        -> "recovering"
    [] type = "cancelRequested"        -> "cancelling"
    [] type = "cancelConfirmed"        -> "cancelled"
    [] type \in {"completed", "failed", "timedOut"} -> type
    [] OTHER                           -> s
====
