---- MODULE RpcOutbox ----
(***************************************************************************)
(* The outbox of RpcPeer (src/src/gateway): what one authenticated peer is *)
(* sent.  Answers and events are critical; the progress and the output of  *)
(* a task are ordinary: they are limited, a newer progress replaces one    *)
(* that waits, and output that finds no room leaves one marker per task    *)
(* and episode of pressure.  The socket takes one frame at a time.         *)
(*                                                                         *)
(* A call of send() is known by a number; sizes stand for lengths in bytes.*)
(***************************************************************************)
EXTENDS Integers, Sequences, FiniteSets

CONSTANTS BoxTasks, Sizes, Sends,
          OrdinaryMaxEvents, OrdinaryMaxBytes,
          MarkerMaxEvents, MarkerSize,
          TotalMaxEvents, TotalMaxBytes

ASSUME BoxAssumption ==
  /\ Sends \subseteq Nat /\ Sizes \subseteq Nat \ {0} /\ MarkerSize \in Nat \ {0}
  /\ OrdinaryMaxEvents \in Nat /\ OrdinaryMaxBytes \in Nat
  /\ MarkerMaxEvents \in Nat /\ TotalMaxEvents \in Nat /\ TotalMaxBytes \in Nat

VARIABLES queue,      \* the messages that wait
          flying,     \* the one the socket has, as a sequence of at most one
          used,       \* the counters of bytes and events
          markers,    \* outputPressureMarkers: the tasks whose marker is not sent
          episodes,   \* outputPressureEpisodes
          socket,     \* its state and bufferedAmount
          asked, answered   \* the calls of send(), and those settled

boxVars == <<queue, flying, used, markers, episodes, socket, asked, answered>>

Kinds == {"critical", "progress", "output", "output-marker"}
Ordinary(kind) == kind \in {"progress", "output"}

BoxInit ==
  /\ queue = <<>> /\ flying = <<>>
  /\ used = [bytes |-> 0, events |-> 0, ordinaryBytes |-> 0, ordinaryEvents |-> 0]
  /\ markers = {} /\ episodes = {}
  /\ socket = [open |-> TRUE, buffered |-> 0]
  /\ asked = {} /\ answered = {}

----------------------------------------------------------------------------
(* Room *)

CanAdmitTotal(size) ==
  /\ used.events + 1 <= TotalMaxEvents
  /\ used.bytes + socket.buffered + size <= TotalMaxBytes

CanAdmitOrdinary(size) ==
  /\ used.ordinaryEvents + 1 <= OrdinaryMaxEvents
  /\ CanAdmitTotal(size)
  /\ used.ordinaryBytes + socket.buffered + size <= OrdinaryMaxBytes

CanReplace(m, size) ==
  /\ used.bytes + socket.buffered + (size - m.size) <= TotalMaxBytes
  /\ used.ordinaryBytes + socket.buffered + (size - m.size) <= OrdinaryMaxBytes

\* maybeResetOutputPressureEpisodes: half of everything is free.
Relieved(u, buffered) ==
  /\ 2 * (u.bytes + buffered) <= TotalMaxBytes
  /\ 2 * (u.ordinaryBytes + buffered) <= OrdinaryMaxBytes
  /\ 2 * u.events <= TotalMaxEvents

StillPressed == IF Relieved(used, socket.buffered) THEN {} ELSE episodes

----------------------------------------------------------------------------
(* enqueue and flush *)

Message(kind, t, size, waiters) == [kind |-> kind, task |-> t, size |-> size, waiters |-> waiters]

\* A message is counted when it is queued.
Counted(u, m) ==
  [bytes |-> u.bytes + m.size, events |-> u.events + 1,
   ordinaryBytes |-> IF Ordinary(m.kind) THEN u.ordinaryBytes + m.size ELSE u.ordinaryBytes,
   ordinaryEvents |-> IF Ordinary(m.kind) THEN u.ordinaryEvents + 1 ELSE u.ordinaryEvents]

\* Its bytes are released when the socket takes it,
Taken(u, m) ==
  [u EXCEPT !.bytes = @ - m.size, !.ordinaryBytes = IF Ordinary(m.kind) THEN @ - m.size ELSE @]

\* its event when the socket has sent it.
Sent(u, m) ==
  [u EXCEPT !.events = @ - 1, !.ordinaryEvents = IF Ordinary(m.kind) THEN @ - 1 ELSE @]

\* Pushes m and flushes: the socket takes the head unless it has a frame.
Enqueue(m) ==
  IF flying = <<>>
  THEN LET q == Append(queue, m) IN
       /\ flying' = <<Head(q)>> /\ queue' = Tail(q)
       /\ used' = Taken(Counted(used, m), Head(q))
  ELSE queue' = Append(queue, m) /\ used' = Counted(used, m) /\ UNCHANGED flying

Reject(i) == answered' = answered \cup {i} /\ UNCHANGED <<queue, flying, used, markers>>

----------------------------------------------------------------------------
(* send *)

Waiting(kind, t) == {k \in DOMAIN queue : queue[k].kind = kind /\ queue[k].task = t}

\* Calls are numbered in their order.
Fresh(i) == socket.open /\ i \notin asked /\ \A j \in Sends \ asked : i <= j

\* send() is called, with the socket open.
Asks(i) ==
  /\ Fresh(i)
  /\ asked' = asked \cup {i}
  /\ episodes' = StillPressed
  /\ UNCHANGED socket

SendCritical(i, t, size) ==
  /\ Asks(i) /\ CanAdmitTotal(size)
  /\ Enqueue(Message("critical", t, size, {i}))
  /\ UNCHANGED <<markers, answered>>

\* An answer that finds no room closes the connection.
SendOverflows(i, size) ==
  /\ Fresh(i) /\ ~CanAdmitTotal(size)
  /\ asked' = asked \cup {i} /\ episodes' = StillPressed
  /\ socket' = [socket EXCEPT !.open = FALSE]
  /\ Reject(i)

\* A newer progress takes the place of the one that waits, and its waiters.
ReplaceProgress(i, t, size, k) ==
  /\ Asks(i) /\ k \in Waiting("progress", t)
  /\ IF CanReplace(queue[k], size)
     THEN /\ queue' = [queue EXCEPT ![k].size = size, ![k].waiters = @ \cup {i}]
          /\ used' = [used EXCEPT !.bytes = @ + (size - queue[k].size),
                                  !.ordinaryBytes = @ + (size - queue[k].size)]
          /\ UNCHANGED <<flying, markers, answered>>
     ELSE Reject(i)

SendProgress(i, t, size) ==
  /\ Asks(i) /\ Waiting("progress", t) = {}
  /\ IF CanAdmitOrdinary(size)
     THEN Enqueue(Message("progress", t, size, {i})) /\ UNCHANGED <<markers, answered>>
     ELSE Reject(i)

SendOutput(i, t, size) ==
  /\ Asks(i) /\ CanAdmitOrdinary(size)
  /\ Enqueue(Message("output", t, size, {i}))
  /\ UNCHANGED <<markers, answered>>

\* The call is added to the waiters of the marker of its task.
JoinMarker(i, t) ==
  /\ queue' = [k \in DOMAIN queue |-> IF k \in Waiting("output-marker", t)
                                      THEN [queue[k] EXCEPT !.waiters = @ \cup {i}] ELSE queue[k]]
  /\ flying' = [k \in DOMAIN flying |-> IF flying[k].kind = "output-marker" /\ flying[k].task = t
                                        THEN [flying[k] EXCEPT !.waiters = @ \cup {i}] ELSE flying[k]]
  /\ UNCHANGED <<used, markers, answered>>

\* enqueueOutputPressureMarker
EnqueueMarker(i, t) ==
  IF Cardinality(markers) < MarkerMaxEvents /\ Cardinality(StillPressed) < MarkerMaxEvents
       /\ CanAdmitTotal(MarkerSize)
  THEN /\ episodes' = StillPressed \cup {t} /\ markers' = markers \cup {t}
       /\ Enqueue(Message("output-marker", t, MarkerSize, {i}))
       /\ UNCHANGED answered
  ELSE episodes' = StillPressed /\ Reject(i)

OutputUnderPressure(i, t, size) ==
  /\ Fresh(i) /\ ~CanAdmitOrdinary(size)
  /\ asked' = asked \cup {i} /\ UNCHANGED socket
  /\ CASE t \in markers -> JoinMarker(i, t) /\ episodes' = StillPressed
       [] t \notin markers /\ t \in StillPressed -> Reject(i) /\ episodes' = StillPressed
       [] OTHER -> EnqueueMarker(i, t)

----------------------------------------------------------------------------
(* The socket *)

\* Mutant: the event is released again by a frame that could not be sent.
FlushTwice(ok) ==
  /\ flying # <<>>
  /\ LET m == flying[1] IN
     /\ answered' = answered \cup m.waiters
     /\ markers' = IF m.kind = "output-marker" THEN markers \ {m.task} ELSE markers
     /\ IF queue # <<>> /\ socket.open
        THEN /\ flying' = <<Head(queue)>> /\ queue' = Tail(queue)
             /\ used' = Taken(IF ok THEN Sent(used, m) ELSE Sent(Sent(used, m), m), Head(queue))
        ELSE /\ flying' = <<>> /\ UNCHANGED queue
             /\ used' = IF ok THEN Sent(used, m) ELSE Sent(Sent(used, m), m)
     /\ episodes' = IF Relieved(Sent(used, m), socket.buffered) THEN {} ELSE episodes
  /\ UNCHANGED <<socket, asked>>

\* The socket has sent the frame, or failed to; the next one is taken.
Flushed(ok) ==
  /\ flying # <<>>
  /\ LET m == flying[1] IN
     /\ answered' = answered \cup m.waiters
     /\ markers' = IF m.kind = "output-marker" THEN markers \ {m.task} ELSE markers
     /\ IF queue # <<>> /\ socket.open
        THEN /\ flying' = <<Head(queue)>> /\ queue' = Tail(queue)
             /\ used' = Taken(Sent(used, m), Head(queue))
        ELSE /\ flying' = <<>> /\ used' = Sent(used, m) /\ UNCHANGED queue
     /\ episodes' = IF Relieved(Sent(used, m), socket.buffered) THEN {} ELSE episodes
  /\ UNCHANGED <<socket, asked>>

\* What the socket has buffered of the frames it took.
Buffered(n) ==
  /\ socket.open /\ n # socket.buffered
  /\ socket' = [socket EXCEPT !.buffered = n]
  /\ UNCHANGED <<queue, flying, used, markers, episodes, asked, answered>>

SocketCloses ==
  /\ socket.open /\ socket' = [socket EXCEPT !.open = FALSE]
  /\ UNCHANGED <<queue, flying, used, markers, episodes, asked, answered>>

WaitersOf(ms) == UNION {ms[k].waiters : k \in DOMAIN ms}

\* dispose, on the close or the error of the socket.
DisposeBox ==
  /\ ~socket.open /\ queue # <<>>
  /\ queue' = <<>> /\ answered' = answered \cup WaitersOf(queue)
  /\ UNCHANGED <<flying, used, markers, episodes, socket, asked>>

BoxNext ==
  \/ \E i \in Sends, t \in BoxTasks, size \in Sizes :
       \/ SendCritical(i, t, size) \/ SendOverflows(i, size)
       \/ SendProgress(i, t, size) \/ SendOutput(i, t, size) \/ OutputUnderPressure(i, t, size)
       \/ \E k \in DOMAIN queue : ReplaceProgress(i, t, size, k)
  \/ \E ok \in BOOLEAN : Flushed(ok)
  \/ \E n \in Sizes \cup {0} : Buffered(n)
  \/ SocketCloses \/ DisposeBox

BoxSpec == BoxInit /\ [][BoxNext]_boxVars

----------------------------------------------------------------------------
(* Properties *)

\* However the peer is sent to, and however slow its socket, the outbox stays
\* within its limits: the total is never exceeded, and what is ordinary leaves
\* room for the markers and the answers.
OutboxBounded ==
  /\ used.events <= TotalMaxEvents /\ used.bytes <= TotalMaxBytes
  /\ used.ordinaryEvents <= OrdinaryMaxEvents /\ used.ordinaryBytes <= OrdinaryMaxBytes

\* The events counted are those queued and the one the socket has, and every
\* call of send() is settled or waits in one of them: none is forgotten when
\* its message is replaced, joined to a marker or dropped.
NoCallForgotten ==
  /\ socket.open => used.events = Len(queue) + Len(flying)
  /\ asked \ answered = WaitersOf(queue) \cup WaitersOf(flying)

\* The limits and the accounts of the outbox.
OutboxSound == OutboxBounded /\ NoCallForgotten
====
