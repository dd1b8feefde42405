---- MODULE DelegationTools ----
(***************************************************************************)
(* The tool by which an agent delegates a task and waits for it: the       *)
(* DelegationWaiter of each call, over the LocalBrokerTaskFacade of its    *)
(* window, whose link to the broker may break.  A call starts the task its *)
(* request names, whether or not an earlier call already did; it ends with *)
(* what it learns from answers and notices, which reach it in order.       *)
(***************************************************************************)
EXTENDS Integers, Sequences, SequencesExt, FiniteSets

CONSTANTS
  ToolCalls,    \* invocations of the tool
  Intents,     \* delegation requests; each is the id of one task
  IntentOf,    \* the request of each call; a retry repeats it
  Minutes,      \* the budget of a task
  MaxNow,       \* bound: the clock
  MaxRounds,    \* bound: questions a task asks
  MaxBreaks     \* bound: how often the link breaks

VARIABLES
  work,      \* the task of each request, at the broker
  calls,     \* the waiter of each call
  persists,  \* persistenceQueue: calls whose intent is to be persisted; its head is under way
  asks,      \* requests of the window that the broker has not answered
  inbox,      \* answers and notices on their way to the window, in order
  linked,    \* whether the window is registered with the broker
  now, breaks

toolVars == <<work, calls, persists, asks, inbox, linked, now, breaks>>

Ended == {"completed", "failed", "timedOut", "cancelled"}

Told(kind, state, reason) == [kind |-> kind, state |-> state, reason |-> reason]
Untold == Told("none", "none", "none")
Failed == Told("failed", "none", "none")

NewCall ==
  [start |-> "idle", cancel |-> "none", mode |-> "wait", handle |-> "explicit", resync |-> FALSE,
   reconciled |-> FALSE, reason |-> "none", accepted |-> FALSE, due |-> 0,
   pending |-> Untold, outcome |-> Untold]

ToolsInit ==
  /\ work = [r \in Intents |-> [state |-> "none", due |-> 0, rounds |-> 0]]
  /\ calls = [c \in ToolCalls |-> NewCall]
  /\ persists = <<>> /\ asks = {} /\ inbox = <<>> /\ linked = TRUE /\ now = 0 /\ breaks = 0

----
(* DelegationWaiter. *)

Settled(k) == k.outcome # Untold
Settles(k, o) == IF Settled(k) THEN k ELSE [k EXCEPT !.outcome = o]

\* toOutcome: what a snapshot of the task means to this call.
ToOutcome(k, state) ==
  CASE state = "completed" ->
         IF k.accepted /\ k.reason # "none" THEN Told("cancelled", "completed", k.reason) ELSE Told("completed", state, "none")
    [] state = "needsInput" -> IF k.reason # "none" THEN Untold ELSE Told("needsInput", state, "none")
    [] state \in {"failed", "timedOut"} -> Told("failed", state, "none")
    [] state = "cancelled" -> Told("cancelled", state, IF k.cancel = "none" THEN "peer" ELSE k.reason)
    [] OTHER -> Untold

\* receiveOutcome: kept until the task is known to be there; the first one counts.
Receives(k, o) ==
  IF o = Untold THEN k
  ELSE IF k.reconciled THEN Settles(k, o)
  ELSE [k EXCEPT !.pending = IF @ = Untold THEN o ELSE @]

BeginsCancel(k) == IF Settled(k) \/ k.cancel # "none" THEN k ELSE [k EXCEPT !.cancel = "begun"]

\* requestCancellation: remembered until the task is known to be there.
Requested(k, why) ==
  IF Settled(k) \/ k.reason # "none" THEN k
  ELSE LET asked == [k EXCEPT !.reason = why] IN IF k.reconciled THEN BeginsCancel(asked) ELSE asked

\* markTaskAvailable: what was kept counts now, a cancellation that waited begins.
Available(k) ==
  LET known == Settles([k EXCEPT !.reconciled = TRUE, !.pending = Untold], k.pending) IN
  IF k.reason # "none" THEN BeginsCancel(known) ELSE known

\* The start was refused or its answer lost; a cancellation under way decides instead.
\* Mutant: one that was only asked for does, too.
StartFailedWaiting(k) ==
  LET over == [k EXCEPT !.start = "over"] IN IF k.reason = "none" THEN Settles(over, Failed) ELSE over

StartFailed(k) ==
  LET over == [k EXCEPT !.start = "over"] IN IF k.cancel = "none" THEN Settles(over, Failed) ELSE over

\* The snapshot read after the start.
Started(k, state) ==
  LET there == [Available(k) EXCEPT !.start = "over"]
      o     == ToOutcome(there, state)
  IN IF o # Untold THEN Settles(there, o)
     ELSE IF there.reason # "none" THEN BeginsCancel(there)
     ELSE IF there.mode = "submit" THEN Settles(there, Told("accepted", "none", "none"))
     ELSE there

\* The snapshot read after the cancellation.
Cancelled(k, state) ==
  LET over == [k EXCEPT !.cancel = "over", !.accepted = state \in {"cancelling", "cancelled", "failed", "timedOut"}]
  IN Settles(over, ToOutcome(over, state))

CancelFailed(k) == Settles([k EXCEPT !.cancel = "over"], Failed)

----
(* What users and clocks do. *)

\* delegateTask: the call subscribes, sets its timer, and queues its intent.
Invokes(c, mode, handle) ==
  /\ calls[c].start = "idle"
  /\ handle = "fresh" => linked
  /\ calls' = [calls EXCEPT ![c] = [NewCall EXCEPT !.start = "queued", !.mode = mode, !.handle = handle]]
  /\ persists' = Append(persists, c)
  /\ UNCHANGED <<work, asks, inbox, linked, now, breaks>>

\* The user stops the call, or its budget is used up.
StopsWaiting(c, why) ==
  /\ calls[c].start # "idle" /\ Requested(calls[c], why) # calls[c]
  /\ calls' = [calls EXCEPT ![c] = Requested(@, why)]
  /\ UNCHANGED <<work, persists, asks, inbox, linked, now, breaks>>

\* A target handle is good for a while only.
HandleExpires(c) ==
  /\ calls[c].handle = "fresh"
  /\ calls' = [calls EXCEPT ![c].handle = "stale"]
  /\ UNCHANGED <<work, persists, asks, inbox, linked, now, breaks>>

Tick ==
  /\ now < MaxNow /\ now' = now + 1
  /\ UNCHANGED <<work, calls, persists, asks, inbox, linked, breaks>>

----
(* LocalBrokerTaskFacade. *)

AskFor(c, for) == [call |-> c, for |-> for, state |-> "unread", due |-> 0, deaf |-> FALSE]

\* persistDelegationIntentCore, up to the question whether the task is there already.
ReadsExisting ==
  /\ persists # <<>> /\ calls[Head(persists)].start = "queued"
  /\ LET c == Head(persists) IN
     IF calls[c].handle = "stale" \/ ~linked
     THEN /\ calls' = [calls EXCEPT ![c] = StartFailed(@)] /\ persists' = Tail(persists) /\ UNCHANGED asks
     ELSE /\ calls' = [calls EXCEPT ![c].start = "existing"] /\ asks' = asks \union {AskFor(c, "existing")}
          /\ UNCHANGED persists
  /\ UNCHANGED <<work, inbox, linked, now, breaks>>

\* workerDeadline: a retry repeats the deadline of the task that is there.
\* Mutant: it is always reckoned from now.
WorkerDeadlineAnew(state, due) == now + Minutes

WorkerDeadline(state, due) == IF state = "none" THEN now + Minutes ELSE due

SendsCancel(c) ==
  /\ calls[c].cancel = "begun"
  /\ IF linked
     THEN calls' = [calls EXCEPT ![c].cancel = "asked"] /\ asks' = asks \union {AskFor(c, "cancel")}
     ELSE calls' = [calls EXCEPT ![c] = CancelFailed(@)] /\ UNCHANGED asks
  /\ UNCHANGED <<work, persists, inbox, linked, now, breaks>>

----
(* The broker, as its answers show it. *)

Answer(a, state, due) == [call |-> a.call, for |-> a.for, state |-> state, due |-> due]
Notice(r, state) == [call |-> r, for |-> "notice", state |-> state, due |-> 0]
Send(messages, deaf) == IF linked /\ ~deaf THEN inbox \o messages ELSE inbox

\* getRoutedTask: the task is read, and its route is marked before the answer goes.
BrokerReadsTask(a) ==
  /\ a.for \in {"existing", "confirm", "cancelRead", "resync"} /\ a.state = "unread"
  /\ LET t == work[IntentOf[a.call]] IN
     asks' = (asks \ {a}) \union
       {[a EXCEPT !.state = IF t.state = "none" /\ a.for # "existing" THEN "error" ELSE t.state, !.due = t.due]}
  /\ UNCHANGED <<work, inbox>>

AnswersRead(a) ==
  /\ a.state # "unread" /\ asks' = asks \ {a}
  /\ inbox' = Send(<<Answer(a, a.state, a.due)>>, a.deaf)
  /\ UNCHANGED work

\* The task is started once; asked for again, it must be the same.
Starts(a) ==
  /\ a.for = "start" /\ asks' = asks \ {a}
  /\ LET r == IntentOf[a.call]
         t == work[r]
     IN IF t.state = "none"
        THEN /\ work' = [work EXCEPT ![r] = [state |-> "running", due |-> a.due, rounds |-> 0]]
             /\ inbox' = Send(<<Notice(r, "running"), Answer(a, "running", a.due)>>, a.deaf)
        ELSE /\ inbox' = Send(<<Answer(a, IF t.due = a.due THEN t.state ELSE "conflict", t.due)>>, a.deaf)
             /\ UNCHANGED work

Cancels(a) ==
  /\ a.for = "cancel" /\ asks' = asks \ {a}
  /\ LET r == IntentOf[a.call]
         t == work[r]
     IN IF t.state \in {"running", "needsInput"}
        THEN /\ work' = [work EXCEPT ![r].state = "cancelling"]
             /\ inbox' = Send(<<Notice(r, "cancelling"), Answer(a, "cancelling", 0)>>, a.deaf)
        ELSE /\ inbox' = Send(<<Answer(a, t.state, 0)>>, a.deaf)
             /\ UNCHANGED work

BrokerAnswers(a) ==
  /\ a \in asks
  /\ BrokerReadsTask(a) \/ AnswersRead(a) \/ Starts(a) \/ Cancels(a)
  /\ UNCHANGED <<calls, persists, linked, now, breaks>>

\* The task runs, asks, is answered, and ends; another window may cancel it.
Follows(t) ==
  CASE t.state = "running" -> Ended \union {"cancelling"} \union (IF t.rounds < MaxRounds THEN {"needsInput"} ELSE {})
    [] t.state = "needsInput" -> {"running", "cancelling", "timedOut"}
    [] t.state = "cancelling" -> Ended
    [] OTHER -> {}

TaskMoves(r, next) ==
  /\ next \in Follows(work[r])
  /\ work' = [work EXCEPT ![r].state = next, ![r].rounds = IF next = "needsInput" THEN @ + 1 ELSE @]
  /\ inbox' = Send(<<Notice(r, next)>>, FALSE)
  /\ UNCHANGED <<calls, persists, asks, linked, now, breaks>>

----
(* What reaches the window. *)

\* subscribeToTask: a notice reaches every call that still waits for the task.
HearsNotice(m) ==
  /\ m.for = "notice"
  /\ calls' = [c \in ToolCalls |->
       IF IntentOf[c] = m.call /\ calls[c].start # "idle" /\ ~Settled(calls[c])
       THEN Receives(calls[c], ToOutcome(calls[c], m.state)) ELSE calls[c]]
  /\ UNCHANGED <<persists, asks>>

\* The target is checked again before the start is sent.
HearsExisting(m) ==
  /\ m.for = "existing"
  /\ LET c == m.call
         due == WorkerDeadline(m.state, m.due)
     IN IF calls[c].handle = "stale"
        THEN calls' = [calls EXCEPT ![c] = StartFailed(@)] /\ persists' = Tail(persists) /\ UNCHANGED asks
        ELSE /\ calls' = [calls EXCEPT ![c].start = "starting", ![c].due = due]
             /\ asks' = asks \union {[AskFor(c, "start") EXCEPT !.due = due]}
             /\ UNCHANGED persists

HearsStart(m) ==
  /\ m.for = "start"
  /\ LET c == m.call IN
     IF m.state = "conflict"
     THEN calls' = [calls EXCEPT ![c] = Settles([@ EXCEPT !.start = "over"], Told("failed", "conflict", "none"))] /\ UNCHANGED asks
     ELSE /\ calls' = [calls EXCEPT ![c] = [Available(@) EXCEPT !.start = "confirm"]]
          /\ asks' = asks \union {AskFor(c, "confirm")}
  /\ persists' = Tail(persists)

HearsConfirm(m) ==
  /\ m.for = "confirm"
  /\ calls' = [calls EXCEPT ![m.call] = Started(@, m.state)]
  /\ UNCHANGED <<persists, asks>>

\* Also when the task could not be cancelled any more.
HearsCancel(m) ==
  /\ m.for = "cancel"
  /\ calls' = [calls EXCEPT ![m.call].cancel = "reading"]
  /\ asks' = asks \union {AskFor(m.call, "cancelRead")}
  /\ UNCHANGED persists

HearsCancelRead(m) ==
  /\ m.for = "cancelRead"
  /\ calls' = [calls EXCEPT ![m.call] = Cancelled(@, m.state)]
  /\ UNCHANGED <<persists, asks>>

\* After a break, each call that still waits reads its task.
HearsResync(m) ==
  /\ m.for = "resync"
  /\ calls' = [calls EXCEPT ![m.call] =
       LET k == [@ EXCEPT !.resync = FALSE] IN
       IF Settled(k) THEN k ELSE Receives(k, IF m.state = "error" THEN Failed ELSE ToOutcome(k, m.state))]
  /\ UNCHANGED <<persists, asks>>

Hears ==
  /\ inbox # <<>> /\ inbox' = Tail(inbox)
  /\ LET m == Head(inbox) IN
     \/ HearsNotice(m) \/ HearsExisting(m) \/ HearsStart(m) \/ HearsConfirm(m)
     \/ HearsCancel(m) \/ HearsCancelRead(m) \/ HearsResync(m)
  /\ UNCHANGED <<work, linked, now, breaks>>

----
(* The link breaks and is made again. *)

\* Every request under way fails; handles issued over the old link are void.
Cut(k) ==
  LET a == IF k.start \in {"existing", "starting", "confirm"} THEN StartFailed(k) ELSE k
      b == IF k.cancel \in {"asked", "reading"} THEN CancelFailed(a) ELSE a
      d == IF k.resync /\ ~Settled(b) THEN Receives(b, Failed) ELSE b
  IN [d EXCEPT !.resync = FALSE, !.handle = IF @ = "fresh" THEN "stale" ELSE @]

\* What the broker already has of them it may still carry out.
LinkBreaks ==
  /\ linked /\ breaks < MaxBreaks
  /\ linked' = FALSE /\ breaks' = breaks + 1 /\ inbox' = <<>>
  /\ \E kept \in SUBSET {a \in asks : a.for \in {"start", "cancel"}} : asks' = {[a EXCEPT !.deaf = TRUE] : a \in kept}
  /\ calls' = [c \in ToolCalls |-> Cut(calls[c])]
  /\ persists' = SelectSeq(persists, LAMBDA c : calls[c].start = "queued")
  /\ UNCHANGED <<work, now>>

LinkReturns ==
  /\ ~linked /\ linked' = TRUE
  /\ LET waiting == {c \in ToolCalls : calls[c].start # "idle" /\ ~Settled(calls[c])} IN
     /\ calls' = [c \in ToolCalls |-> [calls[c] EXCEPT !.resync = c \in waiting]]
     /\ asks' = asks \union {AskFor(c, "resync") : c \in waiting}
  /\ UNCHANGED <<work, persists, inbox, now, breaks>>

ToolsNext ==
  \/ \E c \in ToolCalls :
       \/ \E mode \in {"wait", "submit"}, handle \in {"explicit", "fresh"} : Invokes(c, mode, handle)
       \/ \E why \in {"token", "budget"} : StopsWaiting(c, why)
       \/ HandleExpires(c) \/ SendsCancel(c)
  \/ Tick \/ ReadsExisting \/ Hears \/ LinkBreaks \/ LinkReturns
  \/ \E a \in asks : BrokerAnswers(a)
  \/ \E r \in Intents : \E next \in Follows(work[r]) : TaskMoves(r, next)

----
(* Properties. *)

\* What a call says of the end of its task is the end of its task, whatever was lost or came late.
ToldIsTrue ==
  \A c \in ToolCalls :
    calls[c].outcome.state \in Ended => work[IntentOf[c]].state = calls[c].outcome.state

\* A call that was stopped does not return, its task left running, unless it says that it failed or
\* it had kept a question when it was stopped: the task has ended, or its cancellation is under way.
StoppedIsCancelled ==
  \A c \in ToolCalls :
    LET k == calls[c] IN
    Settled(k) /\ k.reason # "none" /\ k.outcome.kind \notin {"failed", "needsInput"} =>
      work[IntentOf[c]].state \in Ended \union {"cancelling"}

\* Over one link, a retry finds the task of the first call and is never taken for another task; what
\* it says to have failed is the task.
RetriesAgree ==
  \A c \in ToolCalls :
    LET k == calls[c] IN
    breaks = 0 /\ k.outcome.kind = "failed" => k.outcome.state \in Ended \/ k.handle = "stale"

\* What a call of a tool returns is true of the task behind it, whichever of its start, its stop and
\* its wait came first.
CallsSound == ToldIsTrue /\ StoppedIsCancelled /\ RetriesAgree

\* Under fair timers, broker and link, and tasks that end once they are cancelled, every call returns.
CallsReturn == \A c \in ToolCalls : calls[c].start # "idle" ~> Settled(calls[c])
====
