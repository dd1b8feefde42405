---- MODULE AgentTask ----
(***************************************************************************)
(* The class AhpTask of src/src/agentHost/AhpAgentRuntime.ts: one task in  *)
(* an agent host.  The task makes a session, or joins one that was         *)
(* retained, sends its turn, follows the log of the host until the turn    *)
(* has ended, reconnects when the link is lost, stops the turn when asked, *)
(* and takes everything down when it is disposed of.                       *)
(*                                                                         *)
(* Connections are numbered; the one that belongs to the task's generation *)
(* is l.gen, the one a recovery tries is l.cand.  Messages of a connection *)
(* arrive in order, or are lost with it.  The host is external: it applies *)
(* a client sequence number once, and replays its log on a reconnect.      *)
(***************************************************************************)
EXTENDS Naturals, Sequences, FiniteSets

CONSTANTS Profiles,    \* kinds of host and request, each a record of Profile
          MaxConns     \* bound: connections to the host

\* preserve: host.preserveTerminalSession.  owned: the source codespace-owned.
\* continued: the request continues a retained session.
Profile == [preserve : BOOLEAN, owned : BOOLEAN, continued : BOOLEAN]

ASSUME ProfilesAssumption == Profiles \subseteq Profile

VARIABLES kind,   \* the profile
          t,      \* the AhpTask
          l,      \* its connections
          h       \* the host

agentVars == <<kind, t, l, h>>

Conns == 1..MaxConns

AgentInit ==
  /\ kind \in Profiles
  /\ t = [phase    |-> "initializing",  \* start(), see StartStep
          created  |-> FALSE,           \* sessionCreated
          pending  |-> FALSE,           \* pendingSessionCreation
          unsure   |-> FALSE,           \* uncertainSessionCreation
          sent     |-> FALSE,           \* turnId is set
          ended    |-> "no",            \* turnEnded, with the event it maps to
          history  |-> "none",          \* prepareTerminalSessionHistory: "waiting", "leaving", "done" or "failed"
          on       |-> 0,               \* the connection it uses
          retained |-> FALSE,           \* authoritativeTurnTerminal, of a session that is kept
          end      |-> "none",          \* the terminal event that was published
          stop     |-> "none",          \* cancelContinuedTurn: "waiting", "ok" or "failed"
          timer    |-> FALSE,           \* cancellationTimer
          closed   |-> FALSE,           \* disposed
          disposal |-> "none",          \* disposeResources, see DisposeStep
          over     |-> FALSE]           \* sessionDisposed
  /\ l = [gen |-> 1, valid |-> TRUE, cand |-> 0, recovery |-> "none", failed |-> FALSE,
          conn |-> [c \in Conns |-> IF c = 1 THEN "up" ELSE "none"],
          wire |-> [c \in Conns |-> <<>>], unacked |-> {}]
  /\ h = [alive |-> TRUE, session |-> IF kind.continued THEN "made" ELSE "none",
          turn |-> "none", got |-> {}, log |-> <<>>, seen |-> 0]

Made == Cardinality({c \in Conns : l.conn[c] # "none"})
Terminal == t.end # "none"
Recovering == l.recovery # "none"
Live == ~t.closed /\ ~Terminal

----------------------------------------------------------------------------
(* Ends and losses *)

\* fail(): only the first end is published.
Failed(r) == IF r.end # "none" \/ r.closed THEN r ELSE [r EXCEPT !.end = "failed"]

\* handleSubscriptionLoss and startRecovery; without a session the task fails.
Lost(r, k) ==
  IF ~r.created \/ k.recovery # "none" \/ r.closed \/ r.end # "none" THEN k
  ELSE [k EXCEPT !.recovery = "connecting", !.valid = FALSE, !.conn[k.gen] = "closing"]
LossOf(r) == IF r.created THEN r ELSE Failed(r)

\* dispatchTracked on connection c: a dispatch that throws is not resent.
Dispatched(k, c, m) ==
  IF k.conn[c] # "up" THEN k
  ELSE [k EXCEPT !.wire[c] = Append(@, m), !.unacked = @ \cup {m}]

----------------------------------------------------------------------------
(* Start *)

StartStep(from, to) == t.phase = from /\ ~Terminal /\ ~t.closed /\ t' = [t EXCEPT !.phase = to]

\* initialize, and the root snapshot; then the authentication.
Initialize == StartStep("initializing", "authenticating") /\ l.conn[l.gen] = "up" /\ UNCHANGED <<kind, l, h>>
Authenticate ==
  /\ StartStep("authenticating", IF kind.continued THEN "joining" ELSE "configuring")
  /\ l.conn[l.gen] = "up"
  /\ UNCHANGED <<kind, l, h>>

\* resolveConfig has converged: createSession is called.
CreateSession ==
  /\ t.phase = "configuring" /\ Live
  /\ t' = [t EXCEPT !.phase = "creating", !.pending = TRUE, !.unsure = kind.owned]
  /\ UNCHANGED <<kind, l, h>>

\* The host makes the session, whether or not its answer arrives.
HostCreates ==
  /\ t.pending /\ h.alive /\ h.session = "none" /\ l.conn[l.gen] = "up"
  /\ h' = [h EXCEPT !.session = "made"]
  /\ UNCHANGED <<kind, t, l>>

SessionCreated ==
  /\ t.pending /\ h.session # "none" /\ l.conn[l.gen] = "up"
  /\ t' = [t EXCEPT !.pending = FALSE, !.created = TRUE,
                    !.phase = IF Live THEN "joining" ELSE "rejected"]
  /\ UNCHANGED <<kind, l, h>>

CreationFails ==
  /\ t.pending
  /\ t' = [t EXCEPT !.pending = FALSE, !.phase = "rejected"]
  /\ UNCHANGED <<kind, l, h>>

\* ensureStartupSubscription of session and chat, and the default chat, or the
\* idle state of the one that is continued.
Join ==
  /\ t.phase = "joining" /\ Live /\ ~Recovering /\ l.conn[l.gen] = "up"
  /\ t' = [t EXCEPT !.phase = "sending", !.created = TRUE]
  /\ UNCHANGED <<kind, l, h>>

\* Mutant: the turn is sent whatever happened while its chat was subscribed.
SendTurnUnchecked ==
  /\ t.phase = "sending"
  /\ t' = [t EXCEPT !.phase = "running", !.sent = TRUE]
  /\ l' = Dispatched(l, l.gen, "turn")
  /\ UNCHANGED <<kind, h>>

\* chat/turnStarted, on a generation that is still the one it subscribed in. A
\* dispatch that throws begins a recovery, and fails the start.
SendTurn ==
  /\ t.phase = "sending" /\ Live /\ ~Recovering /\ l.valid
  /\ IF l.conn[l.gen] = "up"
     THEN t' = [t EXCEPT !.phase = "running", !.sent = TRUE] /\ l' = Dispatched(l, l.gen, "turn")
     ELSE t' = [t EXCEPT !.phase = "rejected", !.sent = TRUE] /\ l' = Lost(t, l)
  /\ UNCHANGED <<kind, h>>

\* Whatever start() waits for fails, or finds the task ended.
StartRejected ==
  /\ t.phase \in {"initializing", "authenticating", "configuring", "joining", "sending"}
  /\ t' = [t EXCEPT !.phase = "rejected"]
  /\ UNCHANGED <<kind, l, h>>

----------------------------------------------------------------------------
(* The log of the host *)

\* What the host does with a message it has not seen.
Applied(m) ==
  [h EXCEPT !.got = @ \cup {m},
            !.turn = CASE m = "turn" -> "active"
                       [] m = "cancel" /\ @ = "active" -> "cancelled"
                       [] OTHER -> @,
            !.log = @ \o (IF m = "cancel" /\ h.turn = "active" THEN <<"ended", m>> ELSE <<m>>)]

HostApplies(c) ==
  /\ l.wire[c] # <<>> /\ h.alive
  /\ h' = IF h.session # "made" \/ Head(l.wire[c]) \in h.got THEN h ELSE Applied(Head(l.wire[c]))
  /\ l' = [l EXCEPT !.wire[c] = Tail(@)]
  /\ UNCHANGED <<kind, t>>

\* The turn ends by itself.
HostEnds ==
  /\ h.alive /\ h.turn = "active"
  /\ \E e \in {"completed", "failed"} :
       h' = [h EXCEPT !.turn = e, !.log = Append(@, "ended")]
  /\ UNCHANGED <<kind, t, l>>

\* publishAuthoritativeTerminal: the event is published once the session's
\* history is safe, if it is to be kept.
TurnEnded(r, c) ==
  LET e == [r EXCEPT !.ended = h.turn, !.timer = FALSE, !.on = c]
  IN IF r.ended # "no" \/ r.end = "failed" \/ r.closed THEN r
     ELSE IF kind.preserve THEN [e EXCEPT !.history = "waiting"]
     ELSE [e EXCEPT !.history = "done", !.retained = FALSE, !.end = h.turn]

\* handleEnvelope of what the host logged next, over connection c.
Handled(r, c) == IF h.log[h.seen + 1] = "ended" THEN TurnEnded(r, c) ELSE r
Acknowledged(k) == [k EXCEPT !.unacked = @ \ {h.log[h.seen + 1]}]

\* A pump of the current generation gets the next envelope.
Deliver ==
  /\ l.valid /\ l.conn[l.gen] = "up" /\ ~t.closed
  /\ h.seen < Len(h.log)
  /\ t' = Handled(t, l.gen)
  /\ l' = Acknowledged(l)
  /\ h' = [h EXCEPT !.seen = @ + 1]
  /\ UNCHANGED kind

\* The session is materialized, and the client leaves it.
LeaveSession ==
  /\ t.history = "waiting" /\ ~t.closed /\ l.conn[t.on] = "up"
  /\ t' = [t EXCEPT !.history = "leaving"]
  /\ l' = Dispatched(l, t.on, "leave")
  /\ UNCHANGED <<kind, h>>

\* The host acknowledged that, and the unsubscription: the end is published.
SessionLeft ==
  /\ t.history = "leaving" /\ ~t.closed
  /\ "leave" \notin l.unacked /\ l.conn[t.on] = "up"
  /\ t' = [t EXCEPT !.history = "done", !.retained = ~Terminal, !.end = IF Terminal THEN @ ELSE t.ended]
  /\ UNCHANGED <<kind, l, h>>

\* A step of it fails or times out: a completed turn is reported as failed, any
\* other end as it is; a disposal reports nothing.
HistoryFails ==
  /\ t.history \in {"waiting", "leaving"}
  /\ t' = IF t.closed THEN [t EXCEPT !.history = "done"]
          ELSE IF t.ended = "completed" THEN Failed([t EXCEPT !.history = "done"])
          ELSE [t EXCEPT !.history = "failed", !.end = IF Terminal THEN @ ELSE t.ended]
  /\ UNCHANGED <<kind, l, h>>

----------------------------------------------------------------------------
(* Losses and recovery *)

\* The link breaks, with what is in flight on it.
Break(c) ==
  /\ l.conn[c] = "up"
  /\ l' = [l EXCEPT !.conn[c] = "lost", !.wire[c] = <<>>]
  /\ UNCHANGED <<kind, t, h>>

HostExits ==
  /\ h.alive
  /\ h' = [h EXCEPT !.alive = FALSE, !.session = "gone", !.turn = IF @ = "active" THEN "gone" ELSE @]
  /\ l' = [l EXCEPT !.conn = [c \in Conns |-> IF @[c] = "up" THEN "lost" ELSE @[c]],
                    !.wire = [c \in Conns |-> <<>>]]
  /\ t' = Failed(t)
  /\ UNCHANGED kind

\* A pump finds its subscription ended.
NoticeLoss ==
  /\ l.valid /\ l.conn[l.gen] = "lost" /\ Live /\ ~Recovering
  /\ t' = LossOf(t)
  /\ l' = Lost(t, l)
  /\ UNCHANGED <<kind, h>>

\* recover(): a new connection to the host, then reconnect.
CandidateConnects ==
  /\ l.recovery = "connecting" /\ Live /\ h.alive /\ Made < MaxConns
  /\ l' = [l EXCEPT !.recovery = "replaying", !.cand = Made + 1, !.conn[Made + 1] = "up"]
  /\ UNCHANGED <<kind, t, h>>

\* One envelope of the replay; a terminal one holds up the rest.
Replay ==
  /\ l.recovery = "replaying" /\ Live /\ l.conn[l.cand] = "up"
  /\ h.session = "made" /\ h.seen < Len(h.log)
  /\ t.history \notin {"waiting", "leaving"} \/ h.log[h.seen + 1] = "leave"
  /\ t' = Handled(t, l.cand)
  /\ l' = Acknowledged(l)
  /\ h' = [h EXCEPT !.seen = @ + 1]
  /\ UNCHANGED kind

\* resendUnacknowledged: the dispatches go out in the order of their sequence numbers.
Resent == SelectSeq(<<"turn", "cancel", "leave">>, LAMBDA m : m \in l.unacked)

\* The session is in the catalog, and the candidate takes over.
Recovered ==
  /\ l.recovery = "replaying" /\ Live /\ l.conn[l.cand] = "up"
  /\ h.session = "made" /\ h.seen = Len(h.log) /\ t.history \notin {"waiting", "leaving"}
  /\ l' = [l EXCEPT !.gen = l.cand, !.cand = 0, !.valid = TRUE, !.recovery = "none", !.conn[l.gen] = "shut",
                    !.wire[l.cand] = @ \o Resent]
  /\ UNCHANGED <<kind, t, h>>

\* RecoveryCandidateCleanup: a candidate that cannot be shut is retained.
CandidateCleaned(ok) == IF ok THEN "shut" ELSE "retained"

\* A recovery that is stopped, or fails and then fails the task, disposes of its
\* candidate.
RecoveryFails ==
  /\ Recovering
  /\ t' = Failed(t)
  /\ \E ok \in BOOLEAN :
       l' = [l EXCEPT !.recovery = "none", !.failed = TRUE, !.cand = 0,
                      !.wire = [c \in Conns |-> IF c = l.cand THEN <<>> ELSE @[c]],
                      !.conn = [c \in Conns |-> IF c = l.gen THEN "shut"
                                                ELSE IF c = l.cand THEN CandidateCleaned(ok) ELSE @[c]]]
  /\ UNCHANGED <<kind, h>>

----------------------------------------------------------------------------
(* Cancellation *)

StopsTurn == kind.continued \/ kind.owned

\* cancel(): refused while reconnecting.
Cancel ==
  /\ t.sent /\ Live /\ ~Recovering /\ "cancel" \notin h.got \cup l.unacked
  /\ t.ended = "no"
  /\ t' = IF StopsTurn THEN [t EXCEPT !.stop = IF l.conn[l.gen] = "up" THEN "waiting" ELSE "failed"]
          ELSE [t EXCEPT !.timer = l.conn[l.gen] = "up"]
  /\ l' = IF l.conn[l.gen] = "up" THEN Dispatched(l, l.gen, "cancel") ELSE Lost(t, l)
  /\ UNCHANGED <<kind, h>>

CancelTimeout ==
  /\ t.timer
  /\ t' = Failed([t EXCEPT !.timer = FALSE])
  /\ UNCHANGED <<kind, l, h>>

\* cancelContinuedTurn: acknowledged, and the end of the turn processed, before
\* the deadline.
TurnProcessed == t.ended # "no" /\ t.history \notin {"waiting", "leaving"}
StopSettles(ok) ==
  /\ t.stop = "waiting"
  /\ ok => TurnProcessed /\ "cancel" \notin l.unacked
  /\ t' = [t EXCEPT !.stop = IF ok THEN "ok" ELSE "failed"]
  /\ UNCHANGED <<kind, l, h>>

----------------------------------------------------------------------------
(* Disposal *)

\* A session whose creation is under way may exist.
Closing(r) == [r EXCEPT !.closed = TRUE, !.disposal = "closing", !.timer = FALSE, !.unsure = @ \/ r.pending]
Closed(k) == [k EXCEPT !.valid = FALSE, !.unacked = {}]
TurnOpen == t.sent /\ t.ended = "no"

\* dispose(): a retained session's turn is stopped first; again after a failure.
Dispose ==
  /\ t.disposal \in {"none", "failed"}
  /\ IF StopsTurn /\ TurnOpen /\ (kind.owned => h.alive) /\ t.stop # "failed"
     THEN /\ t' = [t EXCEPT !.disposal = "stopping",
                            !.stop = IF @ # "none" THEN @ ELSE IF l.conn[l.gen] = "up" THEN "waiting" ELSE "failed"]
          /\ l' = IF t.stop = "none" THEN Dispatched(l, l.gen, "cancel") ELSE l
     ELSE /\ t' = Closing(t) /\ l' = Closed(l)
  /\ UNCHANGED <<kind, h>>

TurnStopped ==
  /\ t.disposal = "stopping" /\ t.stop \in {"ok", "failed"}
  /\ t' = Closing(t)
  /\ l' = Closed(l)
  /\ UNCHANGED <<kind, h>>

\* The creation and the recovery under way have settled, candidates are
\* disposed of, subscriptions ended; any of it may fail.
Settle(ok) ==
  /\ t.disposal = "closing" /\ ~t.pending /\ ~Recovering /\ t.history \notin {"waiting", "leaving"}
  /\ t' = [t EXCEPT !.disposal = IF ok THEN "session" ELSE "failed"]
  /\ l' = IF ok THEN [l EXCEPT !.conn = [c \in Conns |-> IF @[c] = "retained" THEN "shut" ELSE @[c]]] ELSE l
  /\ UNCHANGED <<kind, h>>

\* The session stays if it was there before, holds the history of a turn that
\* ended, or has a turn that could not be stopped.
KeepsSession ==
  \/ kind.continued
  \/ kind.owned /\ t.stop = "failed"
  \/ t.retained

\* The session is disposed of, behind the messages of the connection.
DisposeSession(ok) ==
  /\ t.disposal = "session" /\ (ok => l.wire[l.gen] = <<>>)
  /\ LET skip == \/ t.over \/ l.conn[l.gen] = "shut" \/ KeepsSession
                 \/ ~t.created /\ ~t.unsure
     IN /\ ok \/ ~skip
        /\ t' = [t EXCEPT !.disposal = IF ok THEN "connections" ELSE "failed",
                          !.over = @ \/ (ok /\ ~KeepsSession)]
        /\ ok /\ ~skip => l.conn[l.gen] = "up"
        /\ h' = IF ok /\ ~skip
                THEN [h EXCEPT !.session = "gone", !.turn = IF @ = "active" THEN "gone" ELSE @] ELSE h
  /\ UNCHANGED <<kind, l>>

\* The connections are shut down and the host is let go; a host of the task's
\* own stops. Then what has failed is reported.
DisposeConnections(ok) ==
  /\ t.disposal = "connections"
  /\ l' = IF ~ok THEN l
          ELSE [l EXCEPT !.conn = [c \in Conns |-> IF @[c] = "none" THEN @[c] ELSE "shut"],
                         !.wire = [c \in Conns |-> <<>>]]
  /\ h' = IF ok /\ ~kind.preserve
          THEN [h EXCEPT !.alive = FALSE, !.session = "gone", !.turn = IF @ = "active" THEN "gone" ELSE @] ELSE h
  /\ t' = [t EXCEPT !.disposal = IF ~ok \/ (t.stop = "failed" /\ TurnOpen /\ h.alive) \/ t.history = "failed"
                                 THEN "failed" ELSE "done",
                    !.history = IF ok /\ @ = "failed" THEN "done" ELSE @]
  /\ UNCHANGED kind

DisposeStep ==
  \/ Dispose \/ TurnStopped
  \/ \E ok \in BOOLEAN : Settle(ok) \/ DisposeSession(ok) \/ DisposeConnections(ok)

AgentNext ==
  \/ Initialize \/ Authenticate \/ CreateSession \/ SessionCreated \/ CreationFails
  \/ Join \/ SendTurn \/ StartRejected
  \/ Deliver \/ LeaveSession \/ SessionLeft \/ HistoryFails
  \/ NoticeLoss \/ CandidateConnects \/ Replay \/ Recovered \/ RecoveryFails
  \/ Cancel \/ CancelTimeout \/ (\E ok \in BOOLEAN : StopSettles(ok))
  \/ DisposeStep
  \/ HostCreates \/ HostEnds \/ HostExits
  \/ \E c \in Conns : HostApplies(c) \/ Break(c)

----------------------------------------------------------------------------
(* Properties *)

\* The end that is published as completed or cancelled is the end of the turn,
\* and a session said to hold its history has no client of the task any more.
EndIsAuthoritative ==
  /\ t.end \in {"completed", "cancelled"} => h.turn = t.end
  /\ t.retained => "leave" \in h.got

\* A disposal that succeeds leaves no connection open, no turn at work, and no
\* session but one that is retained on purpose; but for a turn on somebody
\* else's host with which the contact was lost for good.
DisposalIsClean ==
  t.disposal = "done" =>
    /\ \A c \in Conns : l.conn[c] \in {"none", "shut"}
    /\ h.turn # "active" \/ l.failed
    /\ h.session = "made" /\ t.created => kind.continued \/ t.retained \/ l.failed
                                       \/ (kind.owned /\ t.stop = "failed")

\* The end of an agent is the host's word, and leaves nothing behind it.
AgentEndSound == EndIsAuthoritative /\ DisposalIsClean
====
