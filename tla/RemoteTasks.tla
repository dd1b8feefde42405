---- MODULE RemoteTasks ----
(***************************************************************************)
(* One generation of src/src/codespaces/RemoteExecutionClient.ts and       *)
(* RemoteExecutionServer.ts: tasks are started, cancelled and disposed of  *)
(* from the desktop, and what the executor in the codespace publishes is   *)
(* polled, handed to the broker and acknowledged.                          *)
(*                                                                         *)
(* The client's invocations arrive in the order they were made; replies    *)
(* and everything awaited take any time.  The executor is the server's     *)
(* WindowNodeTaskExecutor: it publishes one event of a task at a time.     *)
(***************************************************************************)
EXTENDS Naturals, Sequences, SequencesExt

CONSTANTS Tasks,
          Stopping,    \* bound: tasks that are cancelled or disposed of
          MaxEvents,   \* bound: events the agent of each task publishes, its end included
          MaxQueued,   \* maxQueuedEvents
          MaxPending   \* maxPendingEvents

VARIABLES adm,      \* TaskAdmission of the client
          bind,     \* TaskBinding of the server
          call,     \* the mutations of each task, by kind
          stream,   \* events, pendingEvents and their numbers, on the server
          poll,     \* the events call and acknowledgedSeq of the client
          up,       \* the sides on which the generation is alive
          agent,    \* what the executor does for a task
          resolved, \* publications that succeeded, of each task
          taken     \* events of each task the broker took, in order

taskVars == <<adm, bind, call, stream, poll, up, agent, resolved, taken>>

Kinds == {"start", "cancel", "disposeTask"}
Ends == {"completed", "cancelled"}

NoAdmission ==
  [phase     |-> "none",   \* startTask: "validating", "called", then "started" or "rejected"
   forwarded |-> FALSE,
   disposed  |-> FALSE,
   intent    |-> "none",   \* stopIntent
   stop      |-> "none"]   \* stopOperation of stopLocalAdmission

NoBinding ==
  [phase      |-> "none",  \* start: "validating", "starting", then "running" or "failed"
   dispatched |-> FALSE,
   disposed   |-> FALSE,
   intent     |-> "none",
   stop       |-> "none"]  \* stopOperation

TasksTypeOK ==
  /\ \A t \in Tasks :
       /\ adm[t].phase \in {"none", "validating", "called", "started", "rejected"}
       /\ adm[t].stop \in {"none", "delivering", "done", "failed"}
       /\ bind[t].phase \in {"none", "validating", "starting", "running", "failed"}
       /\ bind[t].stop \in {"none", "asked", "publishing", "done", "failed"}
       /\ {adm[t].intent, bind[t].intent} \subseteq {"none", "cancel", "disposeTask"}
       /\ \A k \in Kinds : call[k][t] \in {"none", "sent", "serving", "ok", "error"}
       /\ agent[t] \in 0..MaxEvents[t]
  /\ Len(stream.events) <= MaxQueued /\ Len(stream.pending) <= MaxPending
  /\ poll.stage \in {"idle", "sent", "waiting", "reply"}
  /\ up \subseteq {"client", "server"}

TasksInit ==
  /\ adm = [t \in Tasks |-> NoAdmission]
  /\ bind = [t \in Tasks |-> NoBinding]
  /\ call = [k \in Kinds |-> [t \in Tasks |-> "none"]]
  /\ stream = [events |-> <<>>, pending |-> <<>>, first |-> 1, delivered |-> 0]
  /\ poll = [stage |-> "idle", ack |-> 0, batch |-> <<>>]
  /\ up = {"client", "server"}
  /\ agent = [t \in Tasks |-> 0]
  /\ resolved = [t \in Tasks |-> {}]
  /\ taken = [t \in Tasks |-> <<>>]

----------------------------------------------------------------------------
(* Parts of methods *)

SetAdm(t, a) == adm' = [adm EXCEPT ![t] = a]
SetBind(t, b) == bind' = [bind EXCEPT ![t] = b]
SetCall(k, t, v) == call' = [call EXCEPT ![k][t] = v]

\* Client: assertAdmission
Admitted(t) == "client" \in up /\ adm[t].intent = "none" /\ ~adm[t].disposed

\* Server: assertAdmission
Admissible(t) == "server" \in up /\ bind[t].intent = "none" /\ ~bind[t].disposed

\* stop, of the client: whoever awaits the lifetime signal is rejected.
StopClient == up' = up \ {"client"}

\* retire: close rejects every publication that is not settled.
RetireGeneration == up' = up \ {"server"}

Event(t, kind) == [task |-> t, kind |-> kind, no |-> agent[t] + 1, settled |-> FALSE]

\* enqueueEvent for as many of p as eventFits
Queued(s) ==
  LET room == MaxQueued - Len(s.events)
      n == IF Len(s.pending) < room THEN Len(s.pending) ELSE room
  IN [s EXCEPT !.events = @ \o SubSeq(s.pending, 1, n),
               !.pending = SubSeq(@, n + 1, Len(@))]

\* A publication of t is not settled.
Publishing(t) ==
  "server" \in up /\ \E i \in 1..Len(stream.events \o stream.pending) :
    LET e == (stream.events \o stream.pending)[i] IN e.task = t /\ ~e.settled

\* Mutant: the publication counts as delivered once it is in the queue.
PublishEager(t, kind) ==
  IF bind[t].disposed THEN UNCHANGED <<stream, up, resolved>>
  ELSE IF stream.pending = <<>> \/ Len(stream.pending) < MaxPending
  THEN /\ stream' = Queued([stream EXCEPT !.pending =
                       Append(@, [Event(t, kind) EXCEPT !.settled = TRUE])])
       /\ resolved' = [resolved EXCEPT ![t] = @ \cup {agent[t] + 1}]
       /\ UNCHANGED up
  ELSE RetireGeneration /\ UNCHANGED <<stream, resolved>>

\* publish, up to its await: an event that neither queue takes ends the generation.
Publish(t, kind) ==
  IF bind[t].disposed THEN UNCHANGED <<stream, up, resolved>>
  ELSE IF \/ stream.pending = <<>> /\ Len(stream.events) < MaxQueued
          \/ Len(stream.pending) < MaxPending
  THEN /\ stream' = Queued([stream EXCEPT !.pending = Append(@, Event(t, kind))])
       /\ UNCHANGED <<up, resolved>>
  ELSE RetireGeneration /\ UNCHANGED <<stream, resolved>>

\* settlePublication
Numbers(q, t) == {q[i].no : i \in {j \in 1..Len(q) : q[j].task = t /\ ~q[j].settled}}

\* retireTaskPublications: what is queued stays in the queue, settled.
RetireTask(t) ==
  /\ stream' = [stream EXCEPT
       !.events = [i \in 1..Len(@) |-> [@[i] EXCEPT !.settled = @ \/ stream.events[i].task = t]],
       !.pending = SelectSeq(@, LAMBDA e : e.task # t)]
  /\ resolved' = [resolved EXCEPT ![t] = @ \cup Numbers(stream.events \o stream.pending, t)]

----------------------------------------------------------------------------
(* The client's operations *)

StartTask(t) ==
  /\ "client" \in up
  /\ adm[t].phase = "none"
  /\ SetAdm(t, [NoAdmission EXCEPT !.phase = "validating"])
  /\ UNCHANGED <<bind, call, stream, poll, up, agent, resolved, taken>>

\* The workspace is resolved; request and invoke forward the start.
Forward(t) ==
  /\ adm[t].phase = "validating"
  /\ Admitted(t)
  /\ SetAdm(t, [adm[t] EXCEPT !.phase = "called", !.forwarded = TRUE])
  /\ SetCall("start", t, "sent")
  /\ UNCHANGED <<bind, stream, poll, up, agent, resolved, taken>>

\* startTask rejects before it forwarded; a stop under way settles first.
RejectStart(t) ==
  /\ adm[t].phase = "validating"
  /\ adm[t].intent # "none" => adm[t].stop \in {"done", "failed"}
  /\ SetAdm(t, [adm[t] EXCEPT !.phase = "rejected"])
  /\ UNCHANGED <<bind, call, stream, poll, up, agent, resolved, taken>>

\* The reply of the forwarded start, or its timeout, which ends the generation.
StartReply(t) ==
  /\ adm[t].phase = "called"
  /\ \/ /\ call["start"][t] \in {"ok", "error"}
        /\ SetAdm(t, [adm[t] EXCEPT !.phase = IF call["start"][t] = "ok" /\ "client" \in up
                                              THEN "started" ELSE "rejected"])
        /\ IF call["start"][t] = "error" /\ "server" \notin up THEN StopClient ELSE UNCHANGED up
     \/ SetAdm(t, [adm[t] EXCEPT !.phase = "rejected"]) /\ StopClient
  /\ UNCHANGED <<bind, call, stream, poll, agent, resolved, taken>>

\* stopLocalAdmission
StopLocal(a, intent) ==
  LET i == IF a.intent = "none" THEN intent ELSE a.intent IN
  [a EXCEPT !.intent = i,
            !.stop = IF @ # "none" THEN @
                     ELSE IF i = "cancel" /\ ~a.disposed THEN "delivering" ELSE "done"]

Cancel(t) ==
  LET a == adm[t] IN
  /\ t \in Stopping
  /\ "client" \in up
  /\ a.phase # "none" /\ ~a.disposed
  /\ a.phase = "rejected" => a.forwarded \/ a.intent # "none"
  /\ IF ~a.forwarded THEN SetAdm(t, StopLocal(a, "cancel")) /\ UNCHANGED call
     ELSE /\ call["cancel"][t] = "none"
          /\ SetAdm(t, [a EXCEPT !.intent = IF @ = "none" THEN "cancel" ELSE @])
          /\ SetCall("cancel", t, "sent")
  /\ UNCHANGED <<bind, stream, poll, up, agent, resolved, taken>>

DisposeTask(t) ==
  LET a == [adm[t] EXCEPT !.disposed = TRUE] IN
  /\ t \in Stopping
  /\ "client" \in up
  /\ a.phase # "none"
  /\ IF ~a.forwarded THEN SetAdm(t, StopLocal(a, "disposeTask")) /\ UNCHANGED call
     ELSE /\ call["disposeTask"][t] = "none"
          /\ SetAdm(t, [a EXCEPT !.intent = IF @ = "none" THEN "disposeTask" ELSE @])
          /\ SetCall("disposeTask", t, "sent")
  /\ UNCHANGED <<bind, stream, poll, up, agent, resolved, taken>>

\* deliverEvent of the cancellation the client makes itself: the broker takes it,
\* or the task is disposed of, or the delivery fails.
LocalCancelled(t) ==
  /\ adm[t].stop = "delivering"
  /\ \/ /\ adm[t].disposed
        /\ SetAdm(t, [adm[t] EXCEPT !.stop = "done"])
        /\ UNCHANGED <<taken, up>>
     \/ /\ ~adm[t].disposed /\ "client" \in up
        /\ SetAdm(t, [adm[t] EXCEPT !.stop = "done"])
        /\ taken' = [taken EXCEPT ![t] = Append(@, [kind |-> "cancelled", no |-> 1])]
        /\ UNCHANGED up
     \/ ~adm[t].disposed /\ SetAdm(t, [adm[t] EXCEPT !.stop = "failed"]) /\ StopClient
        /\ UNCHANGED taken
  /\ UNCHANGED <<bind, call, stream, poll, agent, resolved>>

\* A call times out, a pump fails or the window is closed.
GenerationFails ==
  /\ "client" \in up
  /\ StopClient
  /\ UNCHANGED <<adm, bind, call, stream, poll, agent, resolved, taken>>

----------------------------------------------------------------------------
(* The server's mutations *)

\* mutation and admitStart
ServeStart(t) ==
  /\ call["start"][t] = "sent"
  /\ IF "server" \in up
     THEN /\ SetBind(t, [NoBinding EXCEPT !.phase = "validating"])
          /\ SetCall("start", t, "serving")
     ELSE SetCall("start", t, "error") /\ UNCHANGED bind
  /\ UNCHANGED <<adm, stream, poll, up, agent, resolved, taken>>

\* The end of startAdmitted's checks: the executor is asked.
Dispatch(t) ==
  /\ bind[t].phase = "validating"
  /\ Admissible(t)
  /\ SetBind(t, [bind[t] EXCEPT !.phase = "starting", !.dispatched = TRUE])
  /\ UNCHANGED <<adm, call, stream, poll, up, agent, resolved, taken>>

\* Cancellation publication, not validation completion, orders the rejected start.
RefuseStart(t) ==
  /\ bind[t].phase = "validating"
  /\ bind[t].intent # "none" => bind[t].stop \in {"done", "failed"}
  /\ SetBind(t, [bind[t] EXCEPT !.phase = "failed"])
  /\ SetCall("start", t, "error")
  /\ UNCHANGED <<adm, stream, poll, up, agent, resolved, taken>>

\* The executor's start settles.
ExecutorStarted(t, ok) ==
  /\ bind[t].phase = "starting"
  /\ SetBind(t, [bind[t] EXCEPT !.phase = IF ok THEN "running" ELSE "failed"])
  /\ SetCall("start", t, IF ok /\ "server" \in up THEN "ok" ELSE "error")
  /\ UNCHANGED <<adm, stream, poll, up, agent, resolved, taken>>

\* mutation, for cancel and disposeTask: the intent is recorded when the call
\* arrives, and disposal settles the publications of the task.
ServeStop(k, t) ==
  LET b == bind[t]
      refused == "server" \notin up \/ b.phase = "none"
                 \/ (k = "cancel" /\ (b.disposed \/ (~b.dispatched /\ b.phase = "failed"
                                                     /\ b.intent = "none")))
  IN
  /\ k # "start"
  /\ call[k][t] = "sent"
  /\ call["start"][t] # "sent"
  /\ SetCall(k, t, IF refused THEN "error" ELSE "serving")
  /\ IF refused THEN UNCHANGED <<bind, stream, resolved>>
     ELSE /\ SetBind(t, [b EXCEPT !.intent = IF @ = "none" THEN k ELSE @,
                                  !.disposed = @ \/ k = "disposeTask",
                                  !.stop = IF b.dispatched \/ @ # "none" THEN @ ELSE "asked"])
          /\ IF k = "disposeTask" THEN RetireTask(t) ELSE UNCHANGED <<stream, resolved>>
  /\ UNCHANGED <<adm, poll, up, agent, taken>>

\* execute, for a task that was dispatched: the executor's cancel or disposeTask
ExecutorStops(k, t) ==
  /\ k # "start"
  /\ call[k][t] = "serving" /\ bind[t].dispatched
  /\ \E end \in {"ok", "error"} : SetCall(k, t, end)
  /\ UNCHANGED <<adm, bind, stream, poll, up, agent, resolved, taken>>

\* execute, for a task that was not: a cancellation is published.
StopUndispatched(k, t) ==
  /\ k # "start"
  /\ call[k][t] = "serving" /\ ~bind[t].dispatched /\ bind[t].stop = "asked"
  /\ IF k = "cancel" /\ ~bind[t].disposed /\ "server" \in up
     THEN /\ SetBind(t, [bind[t] EXCEPT !.stop = "publishing"])
          /\ Publish(t, "cancelled")
          /\ agent' = [agent EXCEPT ![t] = MaxEvents[t]]
          /\ UNCHANGED call
     ELSE /\ SetBind(t, [bind[t] EXCEPT !.stop = IF k = "cancel" THEN "failed" ELSE "done"])
          /\ SetCall(k, t, IF k = "cancel" THEN "error" ELSE "ok")
          /\ UNCHANGED <<stream, up, agent, resolved>>
  /\ UNCHANGED <<adm, poll, taken>>

\* The published cancellation is settled, or a stop before this one did the work.
StopSettles(k, t) ==
  /\ k # "start"
  /\ call[k][t] = "serving" /\ ~bind[t].dispatched
  /\ bind[t].stop \in {"publishing", "done", "failed"}
  /\ ~Publishing(t)
  /\ LET ok == "server" \in up IN
     /\ SetCall(k, t, IF ok THEN "ok" ELSE "error")
     /\ SetBind(t, [bind[t] EXCEPT !.stop = IF @ # "publishing" THEN @
                                            ELSE IF ok THEN "done" ELSE "failed"])
  /\ UNCHANGED <<adm, stream, poll, up, agent, resolved, taken>>

----------------------------------------------------------------------------
(* Events *)

\* The pump of the executor publishes the next event of its agent.
ExecutorPublishes(t, kind) ==
  /\ "server" \in up
  /\ bind[t].phase \in {"starting", "running"}
  /\ agent[t] < MaxEvents[t]
  /\ ~Publishing(t)
  /\ kind = "cancelled" => call["cancel"][t] \in {"serving", "ok", "error"}
  /\ agent[t] + 1 = MaxEvents[t] => kind \in Ends
  /\ Publish(t, kind)
  /\ agent' = [agent EXCEPT ![t] = IF kind \in Ends THEN MaxEvents[t] ELSE @ + 1]
  /\ UNCHANGED <<adm, bind, call, poll, taken>>

\* The timer of an event that waits for room or for its acknowledgement
EventTimeout ==
  /\ "server" \in up
  /\ stream.events # <<>>
  /\ RetireGeneration
  /\ UNCHANGED <<adm, bind, call, stream, poll, agent, resolved, taken>>

\* pumpEvents polls with what the broker has taken.
Poll ==
  /\ "client" \in up
  /\ poll.stage = "idle"
  /\ \E t \in Tasks : adm[t].forwarded
  /\ poll' = [poll EXCEPT !.stage = "sent"]
  /\ UNCHANGED <<adm, bind, call, stream, up, agent, resolved, taken>>

\* events, up to its await: acknowledged publications are settled and make room.
ServePoll ==
  LET n == poll.ack + 1 - stream.first
      old == SubSeq(stream.events, 1, n)
  IN
  /\ poll.stage = "sent"
  /\ "server" \in up
  /\ poll' = [poll EXCEPT !.stage = "waiting"]
  /\ stream' = Queued([stream EXCEPT !.events = SubSeq(@, n + 1, Len(@)), !.first = poll.ack + 1])
  /\ resolved' = [t \in Tasks |-> resolved[t] \cup Numbers(old, t)]
  /\ UNCHANGED <<adm, bind, call, up, agent, taken>>

\* The rest of events: woken by an event, or by its timer.
PollReply ==
  /\ poll.stage = "waiting"
  /\ "server" \in up
  /\ poll' = [poll EXCEPT !.stage = "reply", !.batch = stream.events]
  /\ stream' = [stream EXCEPT !.delivered = stream.first + Len(stream.events) - 1]
  /\ UNCHANGED <<adm, bind, call, up, agent, resolved, taken>>

\* A poll at a server that is gone ends the client's generation.
PollFails ==
  /\ poll.stage \in {"sent", "waiting"}
  /\ "server" \notin up /\ "client" \in up
  /\ StopClient
  /\ UNCHANGED <<adm, bind, call, stream, poll, agent, resolved, taken>>

\* deliverEvent, once for each entry: the broker takes it, unless its task was
\* disposed of, and what it took is acknowledged.
Deliver ==
  /\ poll.stage = "reply"
  /\ "client" \in up
  /\ IF poll.batch = <<>> THEN poll' = [poll EXCEPT !.stage = "idle"] /\ UNCHANGED taken
     ELSE LET e == Head(poll.batch) IN
          /\ poll' = [poll EXCEPT !.batch = Tail(@), !.ack = @ + 1]
          /\ taken' = IF adm[e.task].disposed THEN taken
                      ELSE [taken EXCEPT ![e.task] = Append(@, [kind |-> e.kind, no |-> e.no])]
  /\ UNCHANGED <<adm, bind, call, stream, up, agent, resolved>>

----------------------------------------------------------------------------

TasksProgress ==
  \/ \E t \in Tasks :
       \/ RejectStart(t) \/ StartReply(t) \/ LocalCancelled(t)
       \/ ServeStart(t) \/ RefuseStart(t) \/ \E ok \in BOOLEAN : ExecutorStarted(t, ok)
       \/ \E k \in Kinds : \/ ServeStop(k, t) \/ ExecutorStops(k, t)
                           \/ StopUndispatched(k, t) \/ StopSettles(k, t)
  \/ PollFails

TasksPump == Poll \/ ServePoll \/ PollReply \/ Deliver

\* A behavior is followed until the client has given the generation up.
TasksNext ==
  /\ "client" \in up
  /\ \/ \E t \in Tasks :
          \/ StartTask(t) \/ Forward(t) \/ Cancel(t) \/ DisposeTask(t) \/ Dispatch(t)
          \/ \E kind \in Ends \cup {"output"} : ExecutorPublishes(t, kind)
     \/ GenerationFails \/ EventTimeout
     \/ TasksProgress
     \/ TasksPump

----------------------------------------------------------------------------
(* Properties *)

\* The executor hears that an event was published only when the broker has taken
\* it, and the broker takes the events of a task in order and once, though they
\* are queued, polled in batches and offered again until they are acknowledged.
\* Only a task that was disposed of lets events go.
DeliveredInOrder ==
  \A t \in Tasks :
    /\ \A i \in 1..Len(taken[t]) : taken[t][i].no = i
    /\ ~adm[t].disposed => \A n \in resolved[t] : n <= Len(taken[t])

\* A cancelled task whose agent was never started is not started afterwards, and
\* who asked for the start hears of its rejection after the cancellation, whether
\* it overtook the start in the client, on its way or in the server.
CancelledBeforeRejected ==
  \A t \in Tasks :
    /\ taken[t] = <<[kind |-> "cancelled", no |-> 1]>> /\ ~adm[t].forwarded => bind[t].phase = "none"
    /\ bind[t].stop # "none" => ~bind[t].dispatched
    /\ /\ adm[t].phase = "rejected" /\ adm[t].intent = "cancel" /\ ~adm[t].disposed
       /\ up = {"client", "server"}
       /\ ~adm[t].forwarded \/ bind[t].intent = "cancel"
       /\ ~bind[t].dispatched
       => taken[t] # <<>>

\* The broker hears of a task what happened to it: its events in order, and a
\* cancellation before the refusal it led to.
TasksSound == TasksTypeOK /\ DeliveredInOrder /\ CancelledBeforeRejected
====
