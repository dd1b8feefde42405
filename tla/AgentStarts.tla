---- MODULE AgentStarts ----
(***************************************************************************)
(* The class AhpAgentRuntime of src/src/agentHost/AhpAgentRuntime.ts: how  *)
(* the runtime of a window starts an agent host for a task, gives up a     *)
(* start, retries cleanups that failed, and is disposed of.  AgentTask     *)
(* models what a started task does.                                        *)
(*                                                                         *)
(* The owner of what a start has acquired is its AhpTask, or a             *)
(* DetachedAgentHostCleanup before there is one; its dispose() is one      *)
(* promise that start, cancellation, retry and disposal may all wait for.  *)
(***************************************************************************)
EXTENDS Naturals, Sequences, SequencesExt, FiniteSets

CONSTANTS Starts,          \* the tasks, each started once
          MaxFailures      \* bound: disposals of owners that fail

VARIABLES st,        \* the start of each task
          turns,     \* startQueueTail: the turns not yet released, in order
          retry,     \* failedStartCleanupRetry: the owners it waits for
          life,      \* where disposeResources stands
          failures

startVars == <<st, turns, retry, life, failures>>

NewStart ==
  [phase     |-> "none",
   aborted   |-> FALSE,
   host      |-> FALSE,     \* a process was launched and is not disposed of
   task      |-> FALSE,     \* this.tasks has the AhpTask
   retained  |-> FALSE,     \* failedStartCleanups has the owner
   closed    |-> FALSE,     \* dispose() of the owner was called
   op        |-> "no",      \* its promise: "no", "pending" or "yes"
   turn      |-> "none",    \* and "active" or "ended"
   cancel    |-> "none",    \* cancelStart: and "pending", "confirmed" or "unconfirmed"
   cleanup   |-> "none",    \* its part that disposes of the owner
   scoped    |-> FALSE]     \* the start was in flight when it was cancelled

\* "cleaning" waits for the owner after a start failed.
InTurn == {"retrying", "resolving", "confirming", "launching", "connecting", "starting", "cleaning"}
InFlight == InTurn \cup {"queued"}

StartsInit ==
  /\ st = [s \in Starts |-> NewStart]
  /\ turns = <<>>
  /\ retry = [on |-> FALSE, owners |-> {}, failed |-> FALSE]
  /\ life = "up"
  /\ failures = 0

Flying == {s \in Starts : st[s].phase \in InFlight}
Retained == {s \in Starts : st[s].retained}
Tasks == {s \in Starts : st[s].task}
Disposed == life # "up"

----------------------------------------------------------------------------
(* Owners *)

\* dispose() of an owner: one that is done, or under way, is not begun again.
Owned(r) == [r EXCEPT !.closed = TRUE, !.op = IF @ = "no" THEN "pending" ELSE @]

\* cancelStartup throws for a turn that is not known to have ended.
Stopped(r, ok) == ok /\ r.turn # "active"

\* What cancelTrackedStart does when the disposal it waits for settles.
CancelCleaned(r, ok) ==
  IF r.cleanup # "waiting" THEN r
  ELSE IF Stopped(r, ok) THEN [r EXCEPT !.cleanup = "ok", !.retained = FALSE]
  ELSE [r EXCEPT !.cleanup = "failed", !.retained = TRUE]

\* Mutant: an owner that could not be disposed of is not kept for a retry.
StartCleanedForgetting(r, ok) ==
  IF r.phase # "cleaning" THEN r ELSE [r EXCEPT !.phase = IF ok THEN "failed" ELSE "unclean"]

\* startTracked: the failed start is over when its owner's disposal settles.
StartCleaned(r, ok) ==
  IF r.phase # "cleaning" THEN r
  ELSE IF ok THEN [r EXCEPT !.phase = "failed"]
  ELSE [r EXCEPT !.phase = "unclean", !.retained = TRUE]

\* retryFailedStartCleanupOwners and disposeResources forget what is disposed of.
RetryCleaned(s, r, ok) ==
  IF ok /\ (s \in retry.owners \/ life = "owners") THEN [r EXCEPT !.retained = FALSE] ELSE r

\* The owner's disposal settles, and with it everything that waits for it.
OwnerDisposed(s, ok) ==
  LET done == [st[s] EXCEPT !.op = IF ok THEN "yes" ELSE "no", !.host = @ /\ ~ok, !.task = @ /\ ~ok]
  IN /\ st[s].op = "pending"
     /\ ok \/ failures < MaxFailures
     /\ failures' = IF ok THEN failures ELSE failures + 1
     /\ st' = [st EXCEPT ![s] = RetryCleaned(s, StartCleaned(CancelCleaned(done, ok), ok), ok)]
     /\ turns' = IF st[s].phase = "cleaning" THEN Tail(turns) ELSE turns
     /\ retry' = [retry EXCEPT !.owners = @ \ {s}, !.failed = @ \/ (s \in retry.owners /\ ~ok)]
     /\ UNCHANGED life

----------------------------------------------------------------------------
(* Starts *)

\* A turn comes when every turn before it has been released.
HasTurn(s) == turns # <<>> /\ Head(turns) = s

Goto(s, p) == st' = [st EXCEPT ![s].phase = p]

\* start(): may be called at any time, and fails in its turn after a disposal.
StartTask(s) ==
  /\ st[s].phase = "none"
  /\ Goto(s, "queued")
  /\ turns' = Append(turns, s)
  /\ UNCHANGED <<retry, life, failures>>

\* retryFailedStartCleanup: one retry at a time, of the owners there are.
BeginRetry(r) == IF r.retained THEN [Owned(r) EXCEPT !.retained = r.op # "yes"] ELSE r
Retried ==
  /\ retry' = IF retry.on \/ Retained = {} THEN retry
              ELSE [on |-> TRUE, owners |-> {s \in Retained : st[s].op # "yes"}, failed |-> FALSE]
  /\ st' = [s \in Starts |->
              LET r == IF retry.on THEN st[s] ELSE BeginRetry(st[s])
              IN IF HasTurn(s) THEN [r EXCEPT !.phase = "retrying"] ELSE r]

\* startQueued has its turn; startTracked refuses on a disposed runtime.
TakeTurn(s) ==
  /\ st[s].phase = "queued" /\ ~st[s].aborted /\ HasTurn(s)
  /\ IF Disposed
     THEN Goto(s, "failed") /\ turns' = Tail(turns) /\ UNCHANGED retry
     ELSE Retried /\ UNCHANGED turns
  /\ UNCHANGED <<life, failures>>

\* prepareStart waits for the starts there are, and retries.
PrepareStart ==
  /\ turns = <<>> /\ ~Disposed /\ ~retry.on /\ Retained # {}
  /\ Retried
  /\ UNCHANGED <<turns, life, failures>>

\* The retry that starts wait for ends when all its owners have settled.
RetryEnds ==
  /\ retry.on /\ retry.owners = {}
  /\ retry' = [retry EXCEPT !.on = FALSE]
  /\ LET waiting == {s \in Starts : st[s].phase = "retrying"}
     IN /\ st' = [s \in Starts |-> IF s \notin waiting THEN st[s]
                    ELSE [st[s] EXCEPT !.phase = IF retry.failed \/ Disposed THEN "failed" ELSE "resolving"]]
        /\ turns' = IF waiting # {} /\ (retry.failed \/ Disposed) THEN Tail(turns) ELSE turns
  /\ UNCHANGED <<life, failures>>

\* Nothing to retry.
NoRetry(s) ==
  /\ st[s].phase = "retrying" /\ ~retry.on
  /\ Goto(s, "resolving")
  /\ UNCHANGED <<turns, retry, life, failures>>

\* The workspace is resolved, the user confirms: assertStartActive between.
Advance(s) ==
  /\ ~st[s].aborted /\ ~Disposed
  /\ \/ st[s].phase = "resolving" /\ Goto(s, "confirming")
     \/ st[s].phase = "confirming" /\ Goto(s, "launching")
  /\ UNCHANGED <<turns, retry, life, failures>>

\* A start that has acquired nothing fails: it is refused, or aborted at the
\* await it is at. launch() alone settles in its own time.
GiveUp(s) ==
  /\ \/ st[s].phase = "queued" /\ st[s].aborted
     \/ st[s].phase \in {"retrying", "resolving", "confirming", "launching"}
  /\ Goto(s, "failed")
  /\ turns' = Remove(turns, s)
  /\ UNCHANGED <<retry, life, failures>>

\* A host in the codespace that failed to launch may be left behind: disposing
\* of the launcher is retained for it.
LaunchFails(s) ==
  /\ st[s].phase = "launching" /\ failures < MaxFailures
  /\ st' = [st EXCEPT ![s].phase = "unclean", ![s].host = TRUE, ![s].retained = TRUE]
  /\ turns' = Tail(turns)
  /\ failures' = failures + 1
  /\ UNCHANGED <<retry, life>>

\* Clean up what the start has, in its own turn.
Cleaning(r) == [Owned(r) EXCEPT !.phase = "cleaning"]

\* The host is there: it is disposed of at once for a start nobody wants.
Launched(s) ==
  /\ st[s].phase = "launching"
  /\ st' = [st EXCEPT ![s] =
              LET up == [@ EXCEPT !.host = TRUE]
              IN IF Disposed \/ @.aborted THEN Cleaning(up) ELSE [up EXCEPT !.phase = "connecting"]]
  /\ UNCHANGED <<turns, retry, life, failures>>

\* Connected: the AhpTask takes over, and starts.
Connected(s) ==
  /\ st[s].phase = "connecting" /\ ~st[s].aborted /\ ~Disposed
  /\ st' = [st EXCEPT ![s].task = TRUE, ![s].phase = "starting"]
  /\ UNCHANGED <<turns, retry, life, failures>>

\* A connection or a start that fails, or is aborted, cleans up.
StartFails(s) ==
  /\ st[s].phase \in {"connecting", "starting"}
  /\ st' = [st EXCEPT ![s] = IF @.op = "yes" THEN [@ EXCEPT !.phase = "failed"] ELSE Cleaning(@)]
  /\ turns' = IF st[s].op = "yes" THEN Tail(turns) ELSE turns
  /\ UNCHANGED <<retry, life, failures>>

\* createdTask.start() sends the turn to the host, unless it is disposed of.
TurnBegins(s) ==
  /\ st[s].phase = "starting" /\ st[s].turn = "none" /\ ~st[s].closed
  /\ st' = [st EXCEPT ![s].turn = "active"]
  /\ UNCHANGED <<turns, retry, life, failures>>

TurnEnds(s) ==
  /\ st[s].turn = "active"
  /\ st' = [st EXCEPT ![s].turn = "ended"]
  /\ UNCHANGED <<turns, retry, life, failures>>

\* The caller gets the handle.
StartSucceeds(s) ==
  /\ st[s].phase = "starting" /\ st[s].turn # "none" /\ ~st[s].aborted /\ ~Disposed /\ ~st[s].closed
  /\ Goto(s, "handle")
  /\ turns' = Tail(turns)
  /\ UNCHANGED <<retry, life, failures>>

\* The executor disposes of a handle it got.
DisposeHandle(s) ==
  /\ st[s].phase = "handle" /\ st[s].task
  /\ st[s].op = "no"
  /\ st' = [st EXCEPT ![s] = Owned(@)]
  /\ UNCHANGED <<turns, retry, life, failures>>

----------------------------------------------------------------------------
(* Cancellation of a start *)

\* The owners a cancellation disposes of: those of a start that is in flight,
\* and those retained for the task.
Owns(s) == (s \in Flying /\ st[s].task) \/ st[s].retained

CancelStart(s) ==
  /\ st[s].phase # "none" /\ st[s].cancel = "none"
  /\ st' = [st EXCEPT ![s] =
              LET r == [@ EXCEPT !.aborted = st[s].aborted \/ s \in Flying, !.cancel = "pending",
                                 !.scoped = s \in Flying]
              IN IF ~Owns(s) THEN [r EXCEPT !.cleanup = "ok"]
                 ELSE IF r.op = "yes" THEN CancelCleaned([r EXCEPT !.cleanup = "waiting"], TRUE)
                 ELSE [Owned(r) EXCEPT !.cleanup = "waiting"]]
  /\ UNCHANGED <<turns, retry, life, failures>>

\* Both the start and the disposal have settled.
CancelSettles(s) ==
  /\ st[s].cancel = "pending" /\ st[s].cleanup \in {"ok", "failed"} /\ s \notin Flying
  /\ st' = [st EXCEPT ![s].cancel =
              IF st[s].cleanup = "ok" /\ st[s].phase # "unclean" THEN "confirmed" ELSE "unconfirmed"]
  /\ UNCHANGED <<turns, retry, life, failures>>

CancelStartTimeout(s) ==
  /\ st[s].cancel = "pending"
  /\ st' = [st EXCEPT ![s].cancel = "unconfirmed"]
  /\ UNCHANGED <<turns, retry, life, failures>>

----------------------------------------------------------------------------
(* Disposal of the runtime *)

\* disposeResources aborts every start, and disposes of the tasks if there is
\* one; after a failure it may be called again.
DisposeRuntime ==
  /\ life \in {"up", "failed"}
  /\ life' = "tasks"
  /\ st' = [s \in Starts |->
              LET r == IF s \in Flying THEN [st[s] EXCEPT !.aborted = TRUE] ELSE st[s]
              IN IF Flying # {} /\ s \in Tasks THEN Owned(r) ELSE r]
  /\ UNCHANGED <<turns, retry, failures>>

\* All disposals and starts have settled: the owners that are left follow.
StartsDrained ==
  /\ life = "tasks"
  /\ Flying = {} /\ \A s \in Tasks : st[s].op # "pending"
  /\ life' = "owners"
  /\ st' = [s \in Starts |-> IF s \in Tasks \cup Retained THEN Owned(st[s]) ELSE st[s]]
  /\ UNCHANGED <<turns, retry, failures>>

\* launcher.dispose() follows; any failure makes the disposal fail.
RuntimeDisposed(ok) ==
  /\ life = "owners"
  /\ \A s \in Starts : st[s].op # "pending"
  /\ life' = IF ok /\ Tasks = {} /\ ~(\E s \in Retained : st[s].op # "yes") THEN "done" ELSE "failed"
  /\ st' = [s \in Starts |-> IF st[s].op = "yes" THEN [st[s] EXCEPT !.retained = FALSE] ELSE st[s]]
  /\ UNCHANGED <<turns, retry, failures>>

StartsNext ==
  \/ \E s \in Starts :
       \/ StartTask(s) \/ TakeTurn(s) \/ NoRetry(s) \/ Advance(s) \/ GiveUp(s) \/ Launched(s)
       \/ LaunchFails(s) \/ Connected(s) \/ StartFails(s) \/ TurnBegins(s) \/ TurnEnds(s) \/ StartSucceeds(s)
       \/ DisposeHandle(s) \/ CancelStart(s) \/ CancelSettles(s) \/ CancelStartTimeout(s)
       \/ \E ok \in BOOLEAN : OwnerDisposed(s, ok)
  \/ RetryEnds \/ PrepareStart
  \/ DisposeRuntime \/ StartsDrained \/ (\E ok \in BOOLEAN : RuntimeDisposed(ok))

StartsSpec == StartsInit /\ [][StartsNext]_startVars

----------------------------------------------------------------------------
(* Properties *)

\* A host process always has somebody who will dispose of it: a start or a
\* handle, or the cleanups to retry, whatever failed before; and once the runtime
\* has reported its disposal there is none, and none comes any more.
NoHostUnowned ==
  \A s \in Starts : st[s].host =>
    /\ s \in Flying \/ st[s].task \/ st[s].retained
    /\ life # "done"
====
