---- MODULE WindowNodeTaskExecutor ----
(***************************************************************************)
(* src/src/node/WindowNodeTaskExecutor.ts: the executor of one connection  *)
(* generation of a window. It starts an agent for a task, pumps its events *)
(* to the broker, and stops it when the task is cancelled, disposed of or  *)
(* past its deadline, or when the executor itself is disposed of.          *)
(*                                                                         *)
(* rec[t] is the StartRecord of t with its ActiveTask.  The awaits of      *)
(* startCore before the runtime is asked are one phase each; the promises  *)
(* of a handle (cancel, dispose) are fields other operations wait for.     *)
(* The events of an agent are its end; questions are left out.             *)
(***************************************************************************)
EXTENDS Naturals, Sequences, SequencesExt

CONSTANTS Executions,
          Faulty,    \* bound: tasks whose runtime calls and publications may fail
          Expiring   \* bound: tasks whose worker deadline may pass

VARIABLES rec,         \* the start records, with the agent each of them started
          gate,        \* runtimeStartTail: the turns taken and not yet released
          execDisposed,    \* this.disposed: nothing new is accepted
          execDisposal,    \* where disposeCore stands
          runtimeOp,   \* runtimeDisposal: "no", "pending" or "yes"
          pumpFaults     \* tasks with an entry in pumpFailures or deadlineFailures

executorVars == <<rec, gate, execDisposed, execDisposal, runtimeOp, pumpFaults>>
nodeVars == <<gate, execDisposed, execDisposal, runtimeOp, pumpFaults>>

Kinds == {"completed", "failed", "cancelled"}
Promise == {"no", "pending", "yes"}

NoRecord ==
  [asked      |-> FALSE,   \* the broker has sent its start request
   phase      |-> "none",  \* startCore: see Phases
   keep       |-> FALSE,   \* startCore cleans up a handle it leaves in record.active
   active     |-> FALSE,   \* record.active is set
   terminal   |-> FALSE,   \* record.terminal, and active.terminal while there is one
   cleanup    |-> FALSE,   \* active.cleanupRequired
   armed      |-> FALSE,   \* deadlineTimer
   expired    |-> FALSE,   \* deadlineExpired
   cancelOp   |-> "none",  \* cancellationOperation; set if and only if cancelRequested
   notify     |-> FALSE,   \* cancellationNotification
   told       |-> FALSE,   \* cancellationPublished
   scoped     |-> FALSE,   \* cancelBeforeStart: runtime.cancelStart confirmed the cleanup
   cancelH    |-> "no",    \* the handle's cancel promise
   disposeH   |-> "no",    \* the handle's dispose promise
   closed     |-> FALSE,   \* the handle's events are closed
   deadlineOp |-> "none",  \* the operation tracked by trackDeadlineOperation
   pump       |-> "none",
   out        |-> "none",  \* the event the pump publishes
   agent      |-> "none",  \* the agent itself: "none", "working" or "ended"
   unclean    |-> FALSE,   \* runtime.start failed with cleanupFailed
   published  |-> <<>>]    \* terminal events the sink took, in order

\* "checking" resolves the workspace, probes, prepares and asks the user,
\* "queued" waits for its turn, "preparing" has it, "starting" waits for
\* runtime.start; "cleaning" and "announcing" end a start that is not wanted.
Phases == {"none", "checking", "queued", "preparing", "starting", "cleaning",
           "announcing", "started", "rejected"}

Records ==
  [asked : BOOLEAN, phase : Phases, keep : BOOLEAN, active : BOOLEAN, terminal : BOOLEAN, cleanup : BOOLEAN,
   armed : BOOLEAN, expired : BOOLEAN, notify : BOOLEAN, told : BOOLEAN, scoped : BOOLEAN,
   cancelOp : {"none", "scoped", "waiting", "stopping", "publishing", "done", "failed"},
   cancelH : Promise, disposeH : Promise, closed : BOOLEAN, deadlineOp : {"none", "stop", "scoped"},
   pump : {"none", "reading", "publishing", "failing", "cleanup", "done"}, out : Kinds \cup {"none"},
   agent : {"none", "working", "ended"}, unclean : BOOLEAN, published : Seq(Kinds)]

ExecutorTypeOK ==
  /\ rec \in [Executions -> Records]
  /\ gate \in Seq(Executions)
  /\ execDisposed \in BOOLEAN
  /\ execDisposal \in {"none", "starts", "handles", "pumps", "done"}
  /\ runtimeOp \in Promise
  /\ pumpFaults \subseteq Executions

ExecutorInit ==
  /\ rec = [t \in Executions |-> NoRecord]
  /\ gate = <<>>
  /\ execDisposed = FALSE
  /\ execDisposal = "none"
  /\ runtimeOp = "no"
  /\ pumpFaults = {}

----------------------------------------------------------------------------
(* Methods that change a record, as functions of the record *)

Begin(p) == IF p = "yes" THEN p ELSE "pending"

\* cancelHandle: one call at a time, none once it succeeded.
CancelHandle(r) == [r EXCEPT !.cancelH = Begin(@)]

\* disposeHandle; the handle closes its events before it waits for anything.
DisposeOfHandle(r) == [r EXCEPT !.disposeH = Begin(@), !.closed = TRUE]

\* Both promises have settled; StoppedStart if both succeeded.
Settled(r) == r.cancelH # "pending" /\ r.disposeH # "pending"
StoppedStart(r) == r.cancelH = "yes" /\ r.disposeH = "yes"

\* The cleanup every abandoned handle gets.
CleanUp(r) == DisposeOfHandle(CancelHandle([r EXCEPT !.cleanup = TRUE]))

\* stopActiveTask, up to its await
StopActive(r) == CleanUp([r EXCEPT !.terminal = TRUE, !.armed = FALSE])

\* The finally of the pump, up to its await
PumpFinally(r) ==
  DisposeOfHandle([r EXCEPT !.pump = "cleanup", !.out = "none", !.armed = FALSE])

\* publishCancelledStart, up to its await: whether it has to publish.
MustTell(r) == r.notify /\ ~r.told
Announce(r) == [r EXCEPT !.terminal = TRUE, !.armed = FALSE]

\* The pump or cancelBeforeStart told the broker of the end k.
Publish(r, k) == [r EXCEPT !.published = Append(@, k)]

Aborted(t) == rec[t].cancelOp # "none" \/ rec[t].expired \/ execDisposed

\* assertRecordWithinWorkerDeadline and assertActive
MayGoOn(t) == ~Aborted(t)

PutRecord(t, r) == rec' = [rec EXCEPT ![t] = r]

\* this.starts no longer knows the task.
ForgottenRecord(r) ==
  [NoRecord EXCEPT !.asked = r.asked, !.agent = r.agent, !.published = r.published]

\* coreOperation rejects: unless it is being cancelled or left a handle
\* behind, the record is deleted and the task may be started again.
Rejected(r) ==
  IF r.cancelOp = "none" /\ ~r.active THEN ForgottenRecord(r)
  ELSE [r EXCEPT !.phase = "rejected"]

\* The turn of t is released, if it has one.
Leave(t) ==
  \/ t \notin Range(gate) /\ gate' = gate
  \/ \E i \in DOMAIN gate : gate[i] = t /\ gate' = RemoveAt(gate, i)

----------------------------------------------------------------------------
(* start and startCore *)

\* The broker asks once (LaunchedAtMostOnce of BrokerTaskService); a repeated
\* request would be answered with the operation of the first.
StartExecution(t) ==
  /\ ~execDisposed
  /\ ~rec[t].asked
  /\ PutRecord(t, [rec[t] EXCEPT !.asked = TRUE, !.phase = "checking", !.armed = TRUE])
  /\ UNCHANGED nodeVars

\* The workspace resolves, the probe and the confirmation are positive.
Admit(t) ==
  /\ rec[t].phase = "checking"
  /\ MayGoOn(t)
  /\ PutRecord(t, [rec[t] EXCEPT !.phase = "queued"])
  /\ gate' = Append(gate, t)
  /\ UNCHANGED <<execDisposed, execDisposal, runtimeOp, pumpFaults>>

\* A check fails, the user denies, or the signal aborts the await.
AbandonStart(t) ==
  /\ rec[t].phase \in {"checking", "queued", "preparing"}
  /\ PutRecord(t, Rejected(rec[t]))
  /\ Leave(t)
  /\ UNCHANGED <<execDisposed, execDisposal, runtimeOp, pumpFaults>>

\* withRuntimeStartGate: the turns taken before have been released.
TakeGate(t) ==
  /\ rec[t].phase = "queued"
  /\ Head(gate) = t
  /\ MayGoOn(t)
  /\ PutRecord(t, [rec[t] EXCEPT !.phase = "preparing"])
  /\ UNCHANGED nodeVars

\* runtime.prepareStart cleaned up what earlier starts had left behind, and
\* runtime.start is called; from here the signal is of no use.
CallRuntime(t) ==
  /\ rec[t].phase = "preparing"
  /\ MayGoOn(t)
  /\ rec' = [u \in Executions |->
       [rec[u] EXCEPT !.phase = IF u = t THEN "starting" ELSE @,
                      !.agent = IF @ = "working" /\ ~rec[u].active THEN "ended" ELSE @]]
  /\ UNCHANGED nodeVars

\* runtime.start returns a handle. It is stopped at once when the task was
\* cancelled or its deadline passed, or when it is of no use to anybody.
Adopt(t, late, mismatch) ==
  /\ rec[t].phase = "starting"
  /\ late => t \in Expiring /\ rec[t].armed
  /\ mismatch => t \in Faulty
  /\ Leave(t)
  /\ LET r == [rec[t] EXCEPT !.agent = "working", !.active = TRUE, !.phase = "cleaning"] IN
     PutRecord(t, IF r.cancelOp # "none" THEN [StopActive(r) EXCEPT !.keep = TRUE]
            ELSE IF r.expired \/ late THEN [StopActive(r) EXCEPT !.keep = TRUE, !.expired = TRUE]
            ELSE IF mismatch \/ execDisposed THEN CleanUp(r)
            ELSE [r EXCEPT !.phase = "started", !.pump = "reading"])
  /\ UNCHANGED <<execDisposed, execDisposal, runtimeOp, pumpFaults>>

\* runtime.start fails; what it started may be left behind (cleanupFailed).
RuntimeStartFails(t, unclean) ==
  /\ rec[t].phase = "starting"
  /\ unclean => t \in Faulty
  /\ Leave(t)
  /\ PutRecord(t, Rejected([rec[t] EXCEPT !.unclean = unclean,
                                    !.agent = IF unclean THEN "working" ELSE "none"]))
  /\ UNCHANGED <<execDisposed, execDisposal, runtimeOp, pumpFaults>>

\* The cleanup of an unwanted handle has settled. A start that was cancelled
\* says so; one whose cleanup failed keeps its handle.
CoreCleaned(t) ==
  LET r == rec[t] IN
  /\ r.phase = "cleaning"
  /\ Settled(r)
  /\ PutRecord(t, CASE ~StoppedStart(r) -> Rejected(r)
              [] StoppedStart(r) /\ r.cancelOp # "none" /\ r.keep ->
                   IF MustTell(r) THEN [Announce(r) EXCEPT !.phase = "announcing"]
                   ELSE Rejected(Announce(r))
              [] OTHER -> Rejected(IF r.keep THEN r ELSE [r EXCEPT !.active = FALSE]))
  /\ UNCHANGED nodeVars

\* The publication of the cancelled start returns or throws.
CoreAnnounced(t) ==
  /\ rec[t].phase = "announcing"
  /\ \/ PutRecord(t, Rejected([Publish(rec[t], "cancelled") EXCEPT !.told = TRUE]))
     \/ t \in Faulty /\ PutRecord(t, Rejected(rec[t]))
  /\ UNCHANGED nodeVars

----------------------------------------------------------------------------
(* cancel and disposeTask *)

\* cancelBeforeStart, up to its first await
CancelBeforeStart(r) ==
  [r EXCEPT !.cancelOp = IF r.phase = "starting" THEN "scoped" ELSE "waiting"]

\* cancel: the operation under way is joined, a start is cancelled, a running
\* agent is asked.
CancelExecution(t) ==
  LET r == rec[t] IN
  /\ ~execDisposed
  /\ r.phase # "none"
  /\ \/ /\ r.cancelOp # "none"
        /\ ~r.terminal \/ r.notify
        /\ PutRecord(t, [r EXCEPT !.notify = TRUE])
     \/ /\ r.cancelOp = "none" /\ ~r.active /\ ~r.terminal
        /\ PutRecord(t, CancelBeforeStart([r EXCEPT !.notify = TRUE]))
     \/ /\ r.cancelOp = "none" /\ r.phase = "started" /\ r.active /\ ~r.terminal
        /\ PutRecord(t, CancelHandle(r))
  /\ UNCHANGED nodeVars

\* disposeTask: the same without telling the broker, which asked because it
\* has recorded an end of its own.
DisposeTask(t) ==
  LET r == rec[t] IN
  /\ ~execDisposed
  /\ r.phase # "none"
  /\ r.cancelOp = "none"
  /\ \/ ~r.active /\ ~r.terminal /\ PutRecord(t, CancelBeforeStart(r))
     \/ r.phase = "started" /\ r.active /\ PutRecord(t, StopActive(r))
  /\ UNCHANGED nodeVars

\* Mutant: an agent the failed start left behind counts as cleaned up.
ScopedCancelTrusting(t) ==
  /\ rec[t].cancelOp = "scoped"
  /\ PutRecord(t, [rec[t] EXCEPT !.cancelOp = "waiting", !.scoped = TRUE])
  /\ UNCHANGED nodeVars

\* runtime.cancelStart waits for the start and for the cleanup of what it
\* started; it fails when its timeout passes first.
ScopedCancel(t) ==
  /\ rec[t].cancelOp = "scoped"
  /\ \/ /\ rec[t].phase # "starting"
        /\ PutRecord(t, [rec[t] EXCEPT !.cancelOp = "waiting", !.scoped = TRUE,
                                 !.agent = IF @ = "working" THEN "ended" ELSE @])
     \/ t \in Faulty /\ PutRecord(t, [rec[t] EXCEPT !.cancelOp = "failed"])
  /\ UNCHANGED nodeVars

\* The rest of cancelBeforeStart once nothing is left to stop
Confirm(r) ==
  IF MustTell(r) THEN [Announce(r) EXCEPT !.cancelOp = "publishing"]
  ELSE [Announce(r) EXCEPT !.cancelOp = "done"]

\* cancelBeforeStart goes on when coreOperation has settled.
CancelWaited(t) ==
  LET r == rec[t] IN
  /\ r.cancelOp = "waiting"
  /\ r.phase \in {"started", "rejected"}
  /\ PutRecord(t, IF r.unclean /\ ~r.scoped THEN [r EXCEPT !.cancelOp = "failed"]
                  ELSE IF r.active /\ ~StoppedStart(r) THEN [StopActive(r) EXCEPT !.cancelOp = "stopping"]
                  ELSE Confirm(r))
  /\ UNCHANGED nodeVars

CancelStopped(t) ==
  LET r == rec[t] IN
  /\ r.cancelOp = "stopping"
  /\ Settled(r)
  /\ PutRecord(t, IF StoppedStart(r) THEN Confirm(r) ELSE [r EXCEPT !.cancelOp = "failed"])
  /\ UNCHANGED nodeVars

CancelPublished(t) ==
  /\ rec[t].cancelOp = "publishing"
  /\ \/ PutRecord(t, [Publish(rec[t], "cancelled") EXCEPT !.told = TRUE, !.cancelOp = "done"])
     \/ t \in Faulty /\ PutRecord(t, [rec[t] EXCEPT !.cancelOp = "failed"])
  /\ UNCHANGED nodeVars

----------------------------------------------------------------------------
(* The worker deadline *)

\* The timer of scheduleWorkerDeadline fires.
Deadline(t) ==
  LET r == [rec[t] EXCEPT !.armed = FALSE, !.expired = TRUE] IN
  /\ t \in Expiring
  /\ rec[t].armed
  /\ PutRecord(t, CASE r.active -> [StopActive(r) EXCEPT !.deadlineOp = "stop"]
              [] ~r.active /\ r.phase = "starting" -> [r EXCEPT !.deadlineOp = "scoped"]
              [] OTHER -> r)
  /\ UNCHANGED nodeVars

\* trackDeadlineOperation: its failure waits for the disposal of the executor.
DeadlineSettles(t) ==
  LET r == rec[t] IN
  /\ \/ /\ r.deadlineOp = "stop"
        /\ Settled(r)
        /\ PutRecord(t, [r EXCEPT !.deadlineOp = "none"])
        /\ pumpFaults' = IF StoppedStart(r) THEN pumpFaults ELSE pumpFaults \cup {t}
     \/ /\ r.deadlineOp = "scoped"
        /\ r.phase # "starting"
        /\ PutRecord(t, [r EXCEPT !.deadlineOp = "none",
                            !.agent = IF @ = "working" THEN "ended" ELSE @])
        /\ UNCHANGED pumpFaults
     \/ /\ r.deadlineOp = "scoped"
        /\ t \in Faulty
        /\ PutRecord(t, [r EXCEPT !.deadlineOp = "none"])
        /\ pumpFaults' = pumpFaults \cup {t}
  /\ UNCHANGED <<gate, execDisposed, execDisposal, runtimeOp>>

----------------------------------------------------------------------------
(* The agent's handle *)

SettleStop(t, ok, r) ==
  PutRecord(t, IF ok THEN [r EXCEPT !.agent = IF @ = "working" THEN "ended" ELSE @] ELSE r)

HandleCancelled(t, ok) ==
  /\ rec[t].cancelH = "pending"
  /\ ~ok => t \in Faulty
  /\ SettleStop(t, ok, [rec[t] EXCEPT !.cancelH = IF ok THEN "yes" ELSE "no"])
  /\ UNCHANGED nodeVars

HandleDisposed(t, ok) ==
  /\ rec[t].disposeH = "pending"
  /\ ~ok => t \in Faulty
  /\ SettleStop(t, ok, [rec[t] EXCEPT !.disposeH = IF ok THEN "yes" ELSE "no"])
  /\ UNCHANGED nodeVars

----------------------------------------------------------------------------
(* The pump *)

\* The agent ends its turn, or its events stop without an end.
PumpReads(t, kind) ==
  LET r == IF rec[t].closed THEN rec[t] ELSE [rec[t] EXCEPT !.agent = "ended"] IN
  /\ rec[t].pump = "reading"
  /\ rec[t].closed => kind = "failed"
  /\ rec[t].agent = "ended" => kind # "completed"
  /\ \/ /\ r.terminal \/ (execDisposed /\ kind = "failed")
        /\ PutRecord(t, PumpFinally(r))
     \/ /\ ~r.terminal
        /\ PutRecord(t, [r EXCEPT !.pump = "publishing", !.out = kind])
  /\ UNCHANGED nodeVars

\* The sink took the event; the task is over.
PumpPublished(t) ==
  LET r == rec[t] IN
  /\ r.pump = "publishing"
  /\ PutRecord(t, PumpFinally([Publish(r, r.out) EXCEPT !.terminal = TRUE]))
  /\ UNCHANGED nodeVars

\* The sink throws: the handle is cancelled and disposed of.
PumpPublishFails(t) ==
  /\ t \in Faulty
  /\ rec[t].pump = "publishing"
  /\ PutRecord(t, CleanUp([rec[t] EXCEPT !.pump = "failing"]))
  /\ UNCHANGED nodeVars

PumpFailed(t) ==
  LET r == rec[t] IN
  /\ r.pump = "failing"
  /\ Settled(r)
  /\ PutRecord(t, PumpFinally(r))
  /\ pumpFaults' = IF StoppedStart(r) THEN pumpFaults ELSE pumpFaults \cup {t}
  /\ UNCHANGED <<gate, execDisposed, execDisposal, runtimeOp>>

\* The handle's disposal settled: a handle that still has to be stopped stays.
PumpEnds(t) ==
  LET r == rec[t] IN
  /\ r.pump = "cleanup"
  /\ r.disposeH # "pending"
  /\ PutRecord(t, [r EXCEPT !.pump = "done",
                      !.active = r.active /\ ~(r.disposeH = "yes" /\ (r.cleanup => StoppedStart(r)))])
  /\ pumpFaults' = IF r.disposeH = "yes" THEN pumpFaults ELSE pumpFaults \cup {t}
  /\ UNCHANGED <<gate, execDisposed, execDisposal, runtimeOp>>

----------------------------------------------------------------------------
(* dispose *)

\* dispose and the first half of disposeCore: every start is aborted, the
\* runtime is disposed of. A disposal that failed may be tried again.
DisposeOfExecutor ==
  /\ execDisposal = "none"
  /\ execDisposed' = TRUE
  /\ execDisposal' = "starts"
  /\ runtimeOp' = Begin(runtimeOp)
  /\ rec' = [t \in Executions |-> [rec[t] EXCEPT !.armed = FALSE]]
  /\ UNCHANGED <<gate, pumpFaults>>

\* disposeRuntime settles: starts have returned, what was started has ended.
RuntimeIsDisposed(ok) ==
  /\ runtimeOp = "pending"
  /\ IF ok THEN \A t \in Executions : rec[t].phase # "starting" ELSE Faulty # {}
  /\ runtimeOp' = IF ok THEN "yes" ELSE "no"
  /\ rec' = IF ok THEN [t \in Executions |-> [rec[t] EXCEPT
                          !.agent = IF @ = "working" THEN "ended" ELSE @]]
            ELSE rec
  /\ UNCHANGED <<gate, execDisposed, execDisposal, pumpFaults>>

OperationSettled(r) ==
  /\ r.phase \in {"none", "started", "rejected"}
  /\ r.phase = "rejected" => r.cancelOp \in {"none", "done", "failed"}

\* Every start operation has settled: the handles left are stopped.
DisposeHandles ==
  /\ execDisposal = "starts"
  /\ \A t \in Executions : OperationSettled(rec[t])
  /\ execDisposal' = "handles"
  /\ rec' = [t \in Executions |-> IF rec[t].active THEN CleanUp(rec[t]) ELSE rec[t]]
  /\ UNCHANGED <<gate, execDisposed, runtimeOp, pumpFaults>>

\* Handles, pumps, deadline operations and the runtime have settled. When all
\* succeeded the records are cleared, otherwise the disposal failed.
DisposalSettles ==
  /\ execDisposal = "handles"
  /\ \A t \in Executions : /\ Settled(rec[t])
                      /\ rec[t].pump \in {"none", "done"}
                      /\ rec[t].deadlineOp = "none"
  /\ runtimeOp # "pending"
  /\ pumpFaults' = {}
  /\ LET clean == /\ pumpFaults = {}
                  /\ runtimeOp = "yes"
                  /\ \A t \in Executions : rec[t].active => StoppedStart(rec[t])
     IN /\ execDisposal' = IF clean THEN "done" ELSE "none"
        /\ rec' = IF clean THEN [t \in Executions |-> ForgottenRecord(rec[t])] ELSE rec
  /\ UNCHANGED <<gate, execDisposed, runtimeOp>>

----------------------------------------------------------------------------

Progress(t) ==
  \/ AbandonStart(t) /\ Aborted(t)
  \/ \E unclean \in BOOLEAN : RuntimeStartFails(t, unclean)
  \/ \E late, mismatch \in BOOLEAN : Adopt(t, late, mismatch)
  \/ CoreCleaned(t) \/ CoreAnnounced(t)
  \/ ScopedCancel(t) \/ CancelWaited(t) \/ CancelStopped(t) \/ CancelPublished(t)
  \/ DeadlineSettles(t)
  \/ \E ok \in BOOLEAN : HandleCancelled(t, ok) \/ HandleDisposed(t, ok)
  \/ PumpPublished(t) \/ PumpPublishFails(t) \/ PumpFailed(t) \/ PumpEnds(t)

DisposalStep ==
  \/ \E ok \in BOOLEAN : RuntimeIsDisposed(ok)
  \/ DisposeHandles \/ DisposalSettles

ExecutorNext ==
  \/ \E t \in Executions :
       \/ StartExecution(t) \/ Admit(t) \/ AbandonStart(t) \/ TakeGate(t) \/ CallRuntime(t)
       \/ CancelExecution(t) \/ DisposeTask(t) \/ Deadline(t)
       \/ \E kind \in Kinds : PumpReads(t, kind)
       \/ Progress(t)
  \/ DisposeOfExecutor
  \/ DisposalStep

ExecutorSpec == ExecutorInit /\ [][ExecutorNext]_executorVars

----------------------------------------------------------------------------
(* Properties *)

\* The runtime is asked for one agent at a time, across cancelled, expired and
\* failed starts that leave the queue in any order.
OneStartAtATime ==
  \A t, u \in Executions :
    rec[t].phase \in {"preparing", "starting"} /\ rec[u].phase \in {"preparing", "starting"}
      => t = u

\* docs/technical-implementation.md 9.2 item 12: a window that tells the broker
\* of a cancellation has no agent of the task at work, whichever of the start,
\* the runtime and the handle was asked to stop it; and it tells of one end.
EndIsTrue ==
  \A t \in Executions :
    /\ Len(rec[t].published) <= 1
    /\ rec[t].published = <<"cancelled">> => rec[t].agent # "working"

\* A disposal that reports success has left nothing running: no agent, no
\* start, no pump; before that a window does not connect again.
DisposalIsComplete ==
  execDisposal = "done" =>
    /\ gate = <<>>
    /\ \A t \in Executions : rec[t].agent # "working" /\ rec[t].phase = "none"

\* The executor starts its tasks one by one, and what it says of them, and of its own end, is true.
ExecutorSound == ExecutorTypeOK /\ OneStartAtATime /\ EndIsTrue /\ DisposalIsComplete
====
