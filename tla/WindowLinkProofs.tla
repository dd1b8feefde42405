---- MODULE WindowLinkProofs ----
(***************************************************************************)
(* A window's link to the broker, for any number of connections, requests  *)
(* and sessions: the broker has one session per client id, and the window  *)
(* one generation of executors per session.                                *)
(* And what the broker knows of its windows, for any number of windows,    *)
(* workspaces and tasks: leases and routes come and go together, claims    *)
(* agree with what windows show, bound nodes stay fenced, disabled         *)
(* workspaces are idle, and the registry implements TaskRoutes.            *)
(***************************************************************************)
EXTENDS LocalIpc, WindowNodeClient, NodeRegistry, FiniteSetTheorems, TLAPS

----------------------------------------------------------------------------
(* LocalIpc *)

Wires == [Conns -> [Sides -> Seq(Frames)]]

\* One frame more for the other side.
LEMMA SentTyped ==
  ASSUME NEW w \in Wires, NEW c \in Conns, NEW s \in Sides, NEW f \in Frames
  PROVE  Sent(w, c, s, f) \in Wires
<1>1. Other(s) \in Sides
  BY DEF Sides, Other
<1>2. w[c][Other(s)] \in Seq(Frames)
  BY <1>1 DEF Wires
<1>3. Append(w[c][Other(s)], f) \in Seq(Frames) /\ <<>> \in Seq(Frames)
  BY <1>2
<1> QED
  BY <1>1, <1>3 DEF Wires, Sent

\* What is read is gone.
LEMMA RestTyped ==
  ASSUME wire \in Wires, NEW c \in Conns, NEW s \in Sides, wire[c][s] # <<>>
  PROVE  /\ Rest(c, s) \in Wires
         /\ Head(wire[c][s]) \in Frames
<1>1. wire[c][s] \in Seq(Frames)
  BY DEF Wires
<1>2. Tail(wire[c][s]) \in Seq(Frames) /\ Head(wire[c][s]) \in Frames
  BY <1>1
<1> QED
  BY <1>2 DEF Wires, Rest

LEMMA FramesOf ==
  /\ \A kind \in FrameKinds \ {"request", "response"} : Frame(kind, "none") \in Frames
  /\ \A r \in Requests : Frame("request", r) \in Frames /\ Frame("response", r) \in Frames
BY DEF Frames, Frame, FrameKinds, Ids

LEMMA ClosedTyped ==
  ASSUME IpcTypeOK, NEW S
  PROVE  ClosedPeers(S) \in [Conns -> [Sides -> Peers]]
BY DEF ClosedPeers, IpcTypeOK, Peers, NewPeer, PeerStates

LEMMA EndedTyped ==
  ASSUME IpcTypeOK, NEW S
  PROVE  EndedWire(S) \in Wires
<1>1. Frame("end", "none") \in Frames
  BY FramesOf DEF FrameKinds
<1>2. ASSUME NEW c \in Conns, NEW s \in Sides
      PROVE  Append(wire[c][s], Frame("end", "none")) \in Seq(Frames) /\ wire[c][s] \in Seq(Frames)
  BY <1>1, <1>2 DEF IpcTypeOK
<1> QED
  BY <1>1, <1>2 DEF EndedWire, Wires

\* Peers that fail leave everything typed, and the table does not name them.
LEMMA FailKeeps ==
  ASSUME IpcTypeOK, OneSessionPerClient, NEW S, Fail(S),
         UNCHANGED <<nonce, replay>>, server' \in {"up", "disposing", "disposed"}
  PROVE  IpcTypeOK' /\ OneSessionPerClient'
<1>1. IpcTypeOK'
  BY ClosedTyped, EndedTyped DEF Fail, IpcTypeOK, Forgotten, Wires
<1>2. ASSUME NEW c \in Conns, Authentic(c, "server")', ~peer'[c]["server"].confirm
      PROVE  table' = c
  <2>1. peer'[c]["server"] = peer[c]["server"] /\ ~(<<c, "server">> \in S /\ Open(c, "server"))
    BY <1>2 DEF Fail, ClosedPeers, Authentic, NewPeer, Sides
  <2>2. Authentic(c, "server") /\ ~peer[c]["server"].confirm /\ Open(c, "server")
    BY <1>2, <2>1 DEF Authentic, Open
  <2>3. table = c
    BY <2>2 DEF OneSessionPerClient
  <2> QED
    BY <2>1, <2>2, <2>3 DEF Fail, Forgotten
<1> QED
  BY <1>1, <1>2 DEF OneSessionPerClient

\* A peer that changes what it keeps of its requests, or its state but not to "authenticated".
LEMMA PutKeeps ==
  ASSUME IpcTypeOK, OneSessionPerClient, NEW c \in Conns, NEW s \in Sides, NEW r \in Peers, Put(c, s, r),
         \/ r.state = peer[c][s].state /\ r.confirm = peer[c][s].confirm
         \/ r.state # "authenticated" \/ r.confirm \/ s = "client",
         wire' \in Wires, UNCHANGED <<keyed, nonce, table, server>>,
         preAuth' \subseteq Conns, replay' \subseteq {nonce[d] : d \in Conns}
  PROVE  IpcTypeOK' /\ OneSessionPerClient'
<1>1. IpcTypeOK'
  BY DEF Put, IpcTypeOK, Wires
<1>2. ASSUME NEW d \in Conns, Authentic(d, "server")', ~peer'[d]["server"].confirm
      PROVE  Authentic(d, "server") /\ ~peer[d]["server"].confirm
  BY <1>2 DEF Put, Authentic, IpcTypeOK, Sides
<1> QED
  BY <1>1, <1>2 DEF OneSessionPerClient

LEMMA IpcStep == IpcTypeOK /\ OneSessionPerClient /\ [IpcNext]_ipcVars => IpcTypeOK' /\ OneSessionPerClient'
<1> SUFFICES ASSUME IpcTypeOK, OneSessionPerClient, [IpcNext]_ipcVars
             PROVE  IpcTypeOK' /\ OneSessionPerClient'
  OBVIOUS
<1> USE FramesOf DEF serverVars
<1>1. wire \in Wires /\ \A c \in Conns, s \in Sides : peer[c][s] \in Peers
  BY DEF IpcTypeOK, Wires
<1>2. ASSUME NEW c \in Conns, NEW s \in Sides, FailOnly(c, s)
      PROVE  IpcTypeOK' /\ OneSessionPerClient'
  BY <1>2, FailKeeps DEF FailOnly, IpcTypeOK
<1>3. ASSUME NEW c \in Conns, Connect(c) PROVE IpcTypeOK' /\ OneSessionPerClient'
  <2>1. [NewPeer EXCEPT !.state = "awaiting-challenge"] \in Peers
    BY DEF NewPeer, Peers, PeerStates
  <2>2. wire' \in Wires
    BY <1>1, <1>3, SentTyped DEF Connect, FrameKinds, Sides
  <2> QED
    BY <1>3, <2>1, <2>2, PutKeeps DEF Connect, Sides, IpcTypeOK
<1>4. ASSUME NEW c \in Conns, Accept(c) PROVE IpcTypeOK' /\ OneSessionPerClient'
  <2>1. [NewPeer EXCEPT !.state = "awaiting-hello"] \in Peers /\ [NewPeer EXCEPT !.state = "closed"] \in Peers
    BY DEF NewPeer, Peers, PeerStates
  <2>2. wire' \in Wires
    BY <1>1, <1>4, SentTyped DEF Accept, FrameKinds, Sides
  <2>3. PICK r \in Peers : Put(c, "server", r) /\ r.state # "authenticated"
    BY <1>4, <2>1 DEF Accept, NewPeer
  <2>4. preAuth' \subseteq Conns
    BY <1>4 DEF Accept, IpcTypeOK
  <2> QED
    BY <1>4, <2>2, <2>3, <2>4, PutKeeps DEF Accept, Sides, IpcTypeOK
<1>5. ASSUME NEW c \in Conns, NEW s \in Sides, NEW turned \in PeerStates \ {"authenticated"},
              NEW kind \in FrameKinds \ {"request", "response"}, wire[c][s] # <<>>,
              Answers(c, s, turned, kind)
      PROVE  wire' \in Wires /\ \E r \in Peers : Put(c, s, r) /\ r.state # "authenticated"
  <2>1. [peer[c][s] EXCEPT !.state = turned] \in Peers
    BY <1>1 DEF Peers
  <2>2. wire' \in Wires
    BY <1>1, <1>5, RestTyped, SentTyped DEF Answers
  <2> QED
    BY <1>1, <1>5, <2>1, <2>2 DEF Answers, Peers
<1>6. ASSUME NEW c \in Conns, ReceiveHello(c) PROVE IpcTypeOK' /\ OneSessionPerClient'
  <2>1. CASE nonce[c] \in replay
    BY <1>2, <1>6, <2>1 DEF ReceiveHello, Replayed, Sides
  <2>2. CASE nonce[c] \notin replay
    <3>1. wire' \in Wires /\ \E r \in Peers : Put(c, "server", r) /\ r.state # "authenticated"
      BY <1>5, <1>6, <2>2 DEF ReceiveHello, Replayed, Reads, Sides, PeerStates, FrameKinds
    <3> QED
      BY <1>6, <2>2, <3>1, PutKeeps DEF ReceiveHello, Replayed, Sides, IpcTypeOK
  <2> QED
    BY <2>1, <2>2
<1>7. ASSUME NEW c \in Conns, ReceiveChallenge(c) PROVE IpcTypeOK' /\ OneSessionPerClient'
  <2>1. CASE c \notin keyed
    BY <1>2, <1>7, <2>1 DEF ReceiveChallenge, Proven, Sides
  <2>2. CASE c \in keyed
    <3>1. wire' \in Wires /\ \E r \in Peers : Put(c, "client", r) /\ r.state # "authenticated"
      BY <1>5, <1>7, <2>2 DEF ReceiveChallenge, Proven, Reads, Sides, PeerStates, FrameKinds
    <3> QED
      BY <1>7, <2>2, <3>1, PutKeeps DEF ReceiveChallenge, Proven, Sides, IpcTypeOK
  <2> QED
    BY <2>1, <2>2
<1>8. ASSUME NEW c \in Conns, ReceiveAuthenticate(c) PROVE IpcTypeOK' /\ OneSessionPerClient'
  <2>1. CASE server # "up"
    BY <1>2, <1>8, <2>1 DEF ReceiveAuthenticate, Sides
  <2>2. CASE server = "up"
    <3> DEFINE next == [peer[c]["server"] EXCEPT !.state = "authenticated", !.confirm = TRUE]
    <3>1. peer[c]["server"] \in Peers /\ "authenticated" \in PeerStates
      BY <1>1 DEF PeerStates, Sides
    <3>2. next \in Peers /\ next.confirm
      BY <3>1, Zenon DEF Peers
    <3>3. wire' \in Wires
      BY <1>1, <1>8, <2>2, RestTyped, SentTyped DEF ReceiveAuthenticate, Reads, FrameKinds, Sides
    <3> QED
      BY <1>8, <2>2, <3>2, <3>3, PutKeeps DEF ReceiveAuthenticate, Sides, IpcTypeOK
  <2> QED
    BY <2>1, <2>2
<1>9. ASSUME NEW c \in Conns, Ready(c) PROVE IpcTypeOK' /\ OneSessionPerClient'
  <2> DEFINE before == IF table \in Conns \ {c} THEN {<<table, "server">>} ELSE {}
  <2>1. peer' = [ClosedPeers(before) EXCEPT ![c]["server"].confirm = FALSE]
    BY <1>9 DEF Ready
  <2>2. table' = c
    BY <1>9 DEF Ready, Forgotten
  <2>3. peer' \in [Conns -> [Sides -> Peers]]
    <3> HIDE DEF before
    <3>1. ClosedPeers(before) \in [Conns -> [Sides -> Peers]]
      BY ClosedTyped
    <3>2. [ClosedPeers(before)[c]["server"] EXCEPT !.confirm = FALSE] \in Peers
      BY <3>1 DEF Sides, Peers
    <3> HIDE DEF Peers
    <3> QED
      BY <2>1, <3>1, <3>2 DEF Sides
  <2>4. wire' \in Wires
    <3> HIDE DEF before
    <3>1. wire' = EndedWire(before)
      BY <1>9 DEF Ready, before
    <3> QED
      BY <3>1, EndedTyped
  <2>5. IpcTypeOK'
    <3>1. preAuth' \subseteq Conns /\ UNCHANGED <<nonce, replay, server>>
      BY <1>9 DEF Ready, IpcTypeOK
    <3> QED
      BY <2>2, <2>3, <2>4, <3>1 DEF IpcTypeOK, Wires
  <2>6. ASSUME NEW d \in Conns \ {c}, Authentic(d, "server")', ~peer'[d]["server"].confirm
        PROVE  FALSE
    <3>1. peer'[d]["server"] = ClosedPeers(before)[d]["server"]
      BY <2>1 DEF ClosedPeers
    <3>2. peer'[d]["server"] = peer[d]["server"] /\ ~(<<d, "server">> \in before /\ Open(d, "server"))
      BY <2>6, <3>1 DEF ClosedPeers, Authentic, NewPeer, Sides
    <3>3. Authentic(d, "server") /\ ~peer[d]["server"].confirm /\ Open(d, "server")
      BY <2>6, <3>2 DEF Authentic, Open
    <3>4. table = d
      BY <3>3 DEF OneSessionPerClient
    <3> QED
      BY <3>2, <3>3, <3>4
  <2> QED
    BY <2>2, <2>5, <2>6 DEF OneSessionPerClient
<1>10. ASSUME NEW c \in Conns, ReceiveAuthenticated(c) PROVE IpcTypeOK' /\ OneSessionPerClient'
  <2>1. [peer[c]["client"] EXCEPT !.state = "authenticated"] \in Peers
    BY <1>1 DEF Peers, PeerStates, Sides
  <2>2. wire' \in Wires
    BY <1>1, <1>10, RestTyped DEF ReceiveAuthenticated, Reads, Sides
  <2> QED
    BY <1>10, <2>1, <2>2, PutKeeps DEF ReceiveAuthenticated, Sides, IpcTypeOK
<1>11. ASSUME NEW c \in Conns, NEW s \in Sides, NEW r \in Requests, Ask(c, s, r)
       PROVE  IpcTypeOK' /\ OneSessionPerClient'
  <2> DEFINE next == [peer[c][s] EXCEPT !.asked = @ \cup {r}, !.sent = @ \cup {r}]
  <2>1. next \in Peers /\ next.state = peer[c][s].state /\ next.confirm = peer[c][s].confirm
    BY <1>1 DEF Peers
  <2>2. wire' \in Wires
    BY <1>1, <1>11, SentTyped DEF Ask
  <2> QED
    BY <1>11, <2>1, <2>2, PutKeeps DEF Ask, IpcTypeOK
<1>12. ASSUME NEW c \in Conns, NEW s \in Sides, ReceiveRequest(c, s)
       PROVE  IpcTypeOK' /\ OneSessionPerClient'
  <2>1. CASE Cardinality(peer[c][s].serving) >= MaxPending
    BY <1>2, <1>12, <2>1 DEF ReceiveRequest
  <2>2. CASE ~(Cardinality(peer[c][s].serving) >= MaxPending)
    <3> DEFINE next == [peer[c][s] EXCEPT !.serving = @ \cup {Head(wire[c][s]).id}]
    <3>1. Rest(c, s) \in Wires /\ Head(wire[c][s]).id \in Requests
      BY <1>1, <1>12, RestTyped DEF ReceiveRequest, Reads, Frames
    <3>2. next \in Peers /\ next.state = peer[c][s].state /\ next.confirm = peer[c][s].confirm
      BY <1>1, <3>1 DEF Peers
    <3> QED
      BY <1>12, <2>2, <3>1, <3>2, PutKeeps DEF ReceiveRequest, IpcTypeOK
  <2> QED
    BY <2>1, <2>2
<1>13. ASSUME NEW c \in Conns, NEW s \in Sides, NEW r \in Requests, NEW drain \in BOOLEAN, Handle(c, s, r, drain)
       PROVE  IpcTypeOK' /\ OneSessionPerClient'
  <2> DEFINE next == [peer[c][s] EXCEPT !.serving = @ \ {r}, !.draining = drain \/ @]
  <2>1. next \in Peers /\ next.state = peer[c][s].state /\ next.confirm = peer[c][s].confirm
    BY <1>1 DEF Peers
  <2>2. wire' \in Wires
    BY <1>1, <1>13, SentTyped DEF Handle
  <2> QED
    BY <1>13, <2>1, <2>2, PutKeeps DEF Handle, IpcTypeOK
<1>14. ASSUME NEW c \in Conns, NEW s \in Sides, ReceiveResponse(c, s)
       PROVE  IpcTypeOK' /\ OneSessionPerClient'
  <2>1. CASE Head(wire[c][s]).id \notin peer[c][s].asked
    BY <1>2, <1>14, <2>1 DEF ReceiveResponse
  <2>2. CASE Head(wire[c][s]).id \in peer[c][s].asked
    <3> DEFINE next == [peer[c][s] EXCEPT !.asked = @ \ {Head(wire[c][s]).id}]
    <3>1. Rest(c, s) \in Wires
      BY <1>1, <1>14, RestTyped DEF ReceiveResponse, Reads
    <3>2. next \in Peers /\ next.state = peer[c][s].state /\ next.confirm = peer[c][s].confirm
      BY <1>1 DEF Peers
    <3> QED
      BY <1>14, <2>2, <3>1, <3>2, PutKeeps DEF ReceiveResponse, IpcTypeOK
  <2> QED
    BY <2>1, <2>2
<1>15. ASSUME NEW c \in Conns, NEW s \in Sides,
              ReadEnd(c, s) \/ HandshakeTimeout(c, s) \/ RequestTimeout(c, s) \/ Drained(c, s)
                \/ DrainDeadline(c, s) \/ Close(c, s)
       PROVE  IpcTypeOK' /\ OneSessionPerClient'
  BY <1>2, <1>15 DEF ReadEnd, HandshakeTimeout, RequestTimeout, Drained, DrainDeadline, Close
<1>16. CASE DisposeServer
  BY <1>16, FailKeeps DEF DisposeServer
<1>17. CASE ServerDisposed
  BY <1>17 DEF ServerDisposed, IpcTypeOK, OneSessionPerClient, Authentic
<1>18. CASE UNCHANGED ipcVars
  BY <1>18 DEF ipcVars, IpcTypeOK, OneSessionPerClient, Authentic
<1> QED
  BY <1>3, <1>4, <1>6, <1>7, <1>8, <1>9, <1>10, <1>11, <1>12, <1>13, <1>14, <1>15, <1>16, <1>17, <1>18
  DEF IpcNext, IpcProgress

\* At the broker, whoever has authenticated and is confirmed under a client id is whom the table names
\* for it: a client id never has two sessions that are served.
THEOREM OneSession == IpcSpec => [](IpcTypeOK /\ OneSessionPerClient)
<1>1. IpcInit => IpcTypeOK /\ OneSessionPerClient
  BY DEF IpcInit, IpcTypeOK, OneSessionPerClient, Authentic, NewPeer, Peers, PeerStates, Sides
<1> QED
  BY <1>1, IpcStep, PTL DEF IpcSpec

----------------------------------------------------------------------------
(* WindowNodeClient *)

\* The executors that have tasks and are not cleaned up: their agents may publish.
Unclean == {e \in Executors : used[e] # {} /\ life[e] # "clean"}

\* Executors are numbered as they are made: a new one needs a session after the last one's.
Numbered ==
  /\ \A e \in Executors : used[e] # {} => e <= made
  /\ \A e \in Executors : used[e] \subseteq 1..sessions
  /\ ~disposed => made <= sessions + 1 /\ (executor = 0 \/ session => made <= sessions)
  /\ executor <= made

\* A connection is attempted once everything of the one before is over.
Attempt ==
  /\ first = "none" /\ ~disposed => conn = "none" /\ ~session /\ ~timer /\ ~transition /\ ~blocked /\ executor = 1
  /\ conn = "connecting" => ~timer /\ ~transition /\ ~blocked /\ ~session
  /\ conn = "closing" => ~session
  /\ session => ~timer /\ ~transition /\ ~blocked /\ conn # "connecting"
  /\ session \/ conn = "connecting" => executor # 0

\* Outside of a session, agents of an earlier one are left only in the executor that is being
\* disposed of, or when nothing is connected any more.
Left == ~disposed /\ ~session => \A e \in Unclean : blocked \/ (transition /\ e = retiring)

\* In a session, only its own executor is at work, for it alone.
Serving ==
  session /\ ~disposed =>
    /\ Unclean \subseteq {executor}
    /\ used[executor] \subseteq {sessions}
    /\ \A e \in Executors \ {executor} : sessions \notin used[e]

\* Each executor is of one session.
Generations ==
  /\ \A e \in Executors : \A x, y \in used[e] : x = y
  /\ \A e, f \in Executors : e # f => used[e] \cap used[f] = {}

\* What is not cleaned up is the current executor or the one that is being disposed of.
Kept ==
  /\ \A e \in Executors : life[e] \notin {"absent", "clean"} => e \in {executor, retiring}
  /\ executor # 0 /\ (session \/ ~disposed) => life[executor] = "live" /\ executor # retiring
  /\ retiring # 0 => transition \/ unclean
  /\ transition => retiring # 0
  /\ retiring # 0 /\ ~transition => blocked

\* What a disposal has behind it stays so.
Disposal ==
  /\ disposed <=> disposal # "none"
  /\ disposed => ~timer /\ heartbeat = "none"
  /\ disposal \notin {"none", "releasing"} => ~session
  /\ disposal \notin {"none", "releasing", "connection", "failed"} => conn = "none"
  /\ disposal \in {"executor", "retired", "executorOnly", "rest", "done"} => ~transition
  /\ disposal \in {"retired", "rest", "done"} /\ ~failed => executor = 0
  /\ disposal \in {"executorOnly", "rest", "done"} /\ ~failed => retiring = 0
  /\ disposal = "done" => ~failed

ClientInv ==
  ClientTypeOK /\ Numbered /\ Attempt /\ Left /\ Serving /\ Generations /\ Kept /\ Disposal

LEMMA ClientStep == ClientInv /\ [ClientNext]_clientVars => ClientInv'
<1> SUFFICES ASSUME ClientInv, [ClientNext]_clientVars PROVE ClientInv'
  OBVIOUS
<1> USE SessionsAssumption
    DEF ClientInv, ClientTypeOK, FlagsOK, Numbered, Attempt, Left, Serving, Generations, Kept, Disposal,
        Unclean, Executors, ConnPhases, connVars, execVars, disposalVars
<1>1. ASSUME Start, UNCHANGED oneShot PROVE ClientInv'
  BY <1>1 DEF Start
<1>2. ASSUME ReconnectTimer, UNCHANGED oneShot PROVE ClientInv'
  <2>1. ClientTypeOK'
    <3>1. FlagsOK'
      BY <1>2, Zenon DEF ReconnectTimer, ConnectNow, Block
    <3> HIDE DEF FlagsOK
    <3> QED
      BY <1>2, <3>1 DEF ReconnectTimer, ConnectNow, Block
  <2>2. Numbered'
    BY <1>2 DEF ReconnectTimer, ConnectNow, Block
  <2>3. Attempt'
    BY <1>2 DEF ReconnectTimer, ConnectNow, Block
  <2>4. Left'
    BY <1>2 DEF ReconnectTimer, ConnectNow, Block
  <2>5. Serving'
    BY <1>2 DEF ReconnectTimer, ConnectNow, Block
  <2>6. Generations'
    BY <1>2 DEF ReconnectTimer, ConnectNow, Block
  <2>7. Kept'
    BY <1>2 DEF ReconnectTimer, ConnectNow, Block
  <2>8. Disposal'
    BY <1>2 DEF ReconnectTimer, ConnectNow, Block
  <2> QED
    BY <2>1, <2>2, <2>3, <2>4, <2>5, <2>6, <2>7, <2>8
<1>3. ASSUME Connected, UNCHANGED oneShot PROVE ClientInv'
  BY <1>3 DEF Connected
<1>4. ASSUME Registered, UNCHANGED oneShot PROVE ClientInv'
  BY <1>4 DEF Registered
<1>5. ASSUME ClaimWorkspace, UNCHANGED oneShot PROVE ClientInv'
  BY <1>5 DEF ClaimWorkspace, IsConnected
<1>6. ASSUME Online, UNCHANGED oneShot PROVE ClientInv'
  BY <1>6 DEF Online, IsConnected
<1>7. ASSUME AttemptFails, UNCHANGED oneShot PROVE ClientInv'
  <2>1. ClientTypeOK'
    <3>1. FlagsOK'
      BY <1>7, Zenon DEF AttemptFails, CloseSession, BeginTransition, Block
    <3> HIDE DEF FlagsOK
    <3> QED
      BY <1>7, <3>1 DEF AttemptFails, CloseSession, BeginTransition, Block
  <2>2. Numbered'
    BY <1>7 DEF AttemptFails, CloseSession, BeginTransition, Block
  <2>3. Attempt'
    BY <1>7 DEF AttemptFails, CloseSession, BeginTransition, Block
  <2>4. Left'
    BY <1>7 DEF AttemptFails, CloseSession, BeginTransition, Block
  <2>5. Serving'
    BY <1>7 DEF AttemptFails, CloseSession, BeginTransition, Block
  <2>6. Generations'
    BY <1>7 DEF AttemptFails, CloseSession, BeginTransition, Block
  <2>7. Kept'
    BY <1>7 DEF AttemptFails, CloseSession, BeginTransition, Block
  <2>8. Disposal'
    BY <1>7 DEF AttemptFails, CloseSession, BeginTransition, Block
  <2> QED
    BY <2>1, <2>2, <2>3, <2>4, <2>5, <2>6, <2>7, <2>8
<1>8. ASSUME AttemptEnds, UNCHANGED oneShot PROVE ClientInv'
  BY <1>8 DEF AttemptEnds, Schedule
<1>9. ASSUME Heartbeat, UNCHANGED oneShot PROVE ClientInv'
  BY <1>9 DEF Heartbeat, IsConnected
<1>10. ASSUME Disconnect, UNCHANGED oneShot PROVE ClientInv'
  <2>1. ClientTypeOK'
    <3>1. FlagsOK'
      BY <1>10, Zenon DEF Disconnect, CloseSession, BeginTransition, Block
    <3> HIDE DEF FlagsOK
    <3> QED
      BY <1>10, <3>1 DEF Disconnect, CloseSession, BeginTransition, Block
  <2>2. Numbered'
    BY <1>10 DEF Disconnect, CloseSession, BeginTransition, Block
  <2>3. Attempt'
    BY <1>10 DEF Disconnect, CloseSession, BeginTransition, Block
  <2>4. Left'
    BY <1>10 DEF Disconnect, CloseSession, BeginTransition, Block
  <2>5. Serving'
    BY <1>10 DEF Disconnect, CloseSession, BeginTransition, Block
  <2>6. Generations'
    BY <1>10 DEF Disconnect, CloseSession, BeginTransition, Block
  <2>7. Kept'
    BY <1>10 DEF Disconnect, CloseSession, BeginTransition, Block
  <2>8. Disposal'
    BY <1>10 DEF Disconnect, CloseSession, BeginTransition, Block
  <2> QED
    BY <2>1, <2>2, <2>3, <2>4, <2>5, <2>6, <2>7, <2>8
<1>11. ASSUME ServeStart, UNCHANGED oneShot PROVE ClientInv'
  BY <1>11 DEF ServeStart, IsConnected
<1>12. ASSUME NEW e \in Executors, PublishTaskEvent(e), UNCHANGED oneShot PROVE ClientInv'
  BY <1>12 DEF PublishTaskEvent, IsConnected
<1>13. ASSUME NEW end \in Ends, TransitionEnds(end), UNCHANGED oneShot PROVE ClientInv'
  <2>1. ClientTypeOK'
    <3>1. FlagsOK'
      BY <1>13, Zenon DEF TransitionEnds, DisposedAs, Block, Schedule, Ends
    <3> HIDE DEF FlagsOK
    <3> QED
      BY <1>13, <3>1 DEF TransitionEnds, DisposedAs, Block, Schedule, Ends
  <2>2. Numbered'
    BY <1>13 DEF TransitionEnds, DisposedAs, Block, Schedule, Ends
  <2>3. Attempt'
    BY <1>13 DEF TransitionEnds, DisposedAs, Block, Schedule, Ends
  <2>4. Left'
    BY <1>13 DEF TransitionEnds, DisposedAs, Block, Schedule, Ends
  <2>5. Serving'
    BY <1>13 DEF TransitionEnds, DisposedAs, Block, Schedule, Ends
  <2>6. Generations'
    BY <1>13 DEF TransitionEnds, DisposedAs, Block, Schedule, Ends
  <2>7. Kept'
    BY <1>13 DEF TransitionEnds, DisposedAs, Block, Schedule, Ends
  <2>8. Disposal'
    BY <1>13 DEF TransitionEnds, DisposedAs, Block, Schedule, Ends
  <2> QED
    BY <2>1, <2>2, <2>3, <2>4, <2>5, <2>6, <2>7, <2>8
<1>14. ASSUME Dispose, UNCHANGED oneShot PROVE ClientInv'
  <2>1. ClientTypeOK'
    <3>1. FlagsOK'
      BY <1>14, Zenon DEF Dispose
    <3> HIDE DEF FlagsOK
    <3> QED
      BY <1>14, <3>1 DEF Dispose
  <2>2. Numbered'
    BY <1>14 DEF Dispose
  <2>3. Attempt'
    BY <1>14 DEF Dispose
  <2>4. Left'
    BY <1>14 DEF Dispose
  <2>5. Serving'
    BY <1>14 DEF Dispose
  <2>6. Generations'
    BY <1>14 DEF Dispose
  <2>7. Kept'
    BY <1>14 DEF Dispose
  <2>8. Disposal'
    BY <1>14 DEF Dispose
  <2> QED
    BY <2>1, <2>2, <2>3, <2>4, <2>5, <2>6, <2>7, <2>8
<1>15. ASSUME ReleaseAll, UNCHANGED oneShot PROVE ClientInv'
  <2>1. ClientTypeOK'
    <3>1. FlagsOK'
      BY <1>15, Zenon DEF ReleaseAll
    <3> HIDE DEF FlagsOK
    <3> QED
      BY <1>15, <3>1 DEF ReleaseAll
  <2>2. Numbered'
    BY <1>15 DEF ReleaseAll
  <2>3. Attempt'
    BY <1>15 DEF ReleaseAll
  <2>4. Left'
    BY <1>15 DEF ReleaseAll
  <2>5. Serving'
    BY <1>15 DEF ReleaseAll
  <2>6. Generations'
    BY <1>15 DEF ReleaseAll
  <2>7. Kept'
    BY <1>15 DEF ReleaseAll
  <2>8. Disposal'
    BY <1>15 DEF ReleaseAll
  <2> QED
    BY <2>1, <2>2, <2>3, <2>4, <2>5, <2>6, <2>7, <2>8
<1>16. ASSUME AwaitConnection, UNCHANGED oneShot PROVE ClientInv'
  <2>1. ClientTypeOK'
    <3>1. FlagsOK'
      BY <1>16, Zenon DEF AwaitConnection
    <3> HIDE DEF FlagsOK
    <3> QED
      BY <1>16, <3>1 DEF AwaitConnection
  <2>2. Numbered'
    BY <1>16 DEF AwaitConnection
  <2>3. Attempt'
    BY <1>16 DEF AwaitConnection
  <2>4. Left'
    BY <1>16 DEF AwaitConnection
  <2>5. Serving'
    BY <1>16 DEF AwaitConnection
  <2>6. Generations'
    BY <1>16 DEF AwaitConnection
  <2>7. Kept'
    BY <1>16 DEF AwaitConnection
  <2>8. Disposal'
    BY <1>16 DEF AwaitConnection
  <2> QED
    BY <2>1, <2>2, <2>3, <2>4, <2>5, <2>6, <2>7, <2>8
<1>17. ASSUME AwaitTransition, UNCHANGED oneShot PROVE ClientInv'
  BY <1>17 DEF AwaitTransition
<1>18. ASSUME NEW end \in Ends, DisposeExecutor(end), UNCHANGED oneShot PROVE ClientInv'
  BY <1>18 DEF DisposeExecutor, DisposedAs, Ends
<1>19. ASSUME NEW end \in Ends, DisposeRetired(end), UNCHANGED oneShot PROVE ClientInv'
  BY <1>19 DEF DisposeRetired, DisposedAs, Ends
<1>20. CASE UNCHANGED clientVars
  BY <1>20 DEF clientVars
<1> QED
  BY <1>1, <1>2, <1>3, <1>4, <1>5, <1>6, <1>7, <1>8, <1>9, <1>10, <1>11, <1>12, <1>13, <1>14,
     <1>15, <1>16, <1>17, <1>18, <1>19, <1>20 DEF ClientNext, ClientProgress, DisposalProgress

LEMMA ClientStart == ClientInit => ClientInv
<1> SUFFICES ASSUME ClientInit PROVE ClientInv
  OBVIOUS
<1>1. FlagsOK
  BY Zenon DEF ClientInit, FlagsOK
<1>2. 1 \in Executors /\ 0 \in 0..MaxSessions
  BY SessionsAssumption DEF Executors
<1>3. ClientTypeOK
  BY <1>1, <1>2 DEF ClientInit, ClientTypeOK, ConnPhases
<1> QED
  BY <1>2, <1>3
  DEF ClientInit, ClientInv, Numbered, Attempt, Left, Serving, Generations, Kept, Disposal, Unclean

LEMMA OneSessionEach == ASSUME ClientInv PROVE OneGeneration
<1>1. ASSUME NEW e \in Executors PROVE Cardinality(used[e]) <= 1
  <2>1. CASE used[e] = {}
    BY <2>1, FS_EmptySet
  <2>2. CASE used[e] # {}
    <3>1. PICK x : x \in used[e]
      BY <2>2
    <3>2. used[e] = {x}
      BY <3>1 DEF ClientInv, Generations
    <3>3. Cardinality({x}) = 1
      BY FS_Singleton
    <3> QED
      BY <3>2, <3>3
  <2> QED
    BY <2>1, <2>2
<1> QED
  BY <1>1 DEF ClientInv, Generations, OneGeneration

\* No executor serves two sessions and no session hears of two, and a disposal that reports success
\* has left nothing, however often the broker goes, attempts fail and disposals are repeated.
THEOREM ClientSafe == ClientSpec => [](ClientTypeOK /\ ClientSound)
<1>1. ClientInv => ClientTypeOK /\ ClientSound
  <2> SUFFICES ASSUME ClientInv PROVE ClientTypeOK /\ ClientSound
    OBVIOUS
  <2>1. ClientDisposalComplete
    BY DEF ClientInv, ClientTypeOK, Kept, Disposal, Executors, ClientDisposalComplete
  <2> QED
    BY <2>1, OneSessionEach DEF ClientInv, ClientSound
<1> QED
  BY <1>1, ClientStart, ClientStep, PTL DEF ClientSpec

----------------------------------------------------------------------------
(* NodeRegistry *)

\* An entry is that of its own window.
EntriesOwned == \A n \in Windows : nodes[n] # NoInstance => WindowOf[nodes[n]] = n

DirectoryInv == /\ online \subseteq Entries
                /\ EntriesOwned
                /\ ClaimsMatchView
                /\ BoundNodeRetained

LeaseInv == LeaseMatchesBinding /\ DisabledIsIdle /\ PendingDisableFences

IInv == TypeOK /\ DirectoryInv /\ LeaseInv

LEMMA InitRegistry == Init => IInv
BY SentinelAssumption, SMTT(20)
DEF Init, IInv, DirectoryInv, LeaseInv, TypeOK, Entries, ClaimsMatchView, BoundNodeRetained,
    LeaseMatchesBinding, DisabledIsIdle, PendingDisableFences, EntriesOwned, NoEntries, Nowhere, Unclaimed,
    Unbound, Unleased, Live

----------------------------------------------------------------------------
(* Types *)

\* A directory that forgets entries, and a claim that loses its entry.
LEMMA RemoveTyped ==
  ASSUME TypeOK, NEW S \in SUBSET Instances
  PROVE  /\ NodesWithout(S) \in [Windows -> Instances \cup {NoInstance}]
         /\ OpWithout(S) \in PendingOps \cup {NoOp}
<1>1. NodesWithout(S) \in [Windows -> Instances \cup {NoInstance}]
  BY DEF NodesWithout, TypeOK
<1>2. CASE op # NoOp /\ op.kind = "claim"
  <2>1. op \in [kind : {"claim"}, inst : Instances, ws : Workspaces, route : BOOLEAN]
    BY <1>2 DEF TypeOK, PendingOps
  <2>2. [op EXCEPT !.route = FALSE]
          \in [kind : {"claim"}, inst : Instances, ws : Workspaces, route : BOOLEAN]
    BY <2>1
  <2> QED BY <1>1, <2>1, <2>2 DEF OpWithout, PendingOps
<1>3. CASE ~(op # NoOp /\ op.kind = "claim")
  BY <1>1, <1>3 DEF OpWithout, TypeOK
<1> QED BY <1>2, <1>3

LEMMA LossTyped ==
  ASSUME TypeOK, NEW S \in SUBSET Instances
  PROVE  /\ ClaimsAfterLoss(S) \in [Workspaces -> Instances \cup {NoInstance}]
         /\ ObservedAfterLoss(S) \in [Instances -> [Workspaces ->
                                        {"none", "claimed", "conflict", "readOnly"}]]
BY DEF TypeOK, ClaimsAfterLoss, ObservedAfterLoss

LEMMA StepTyped ==
  ASSUME TypeOK, [Next]_vars
  PROVE  TypeOK'
<1> USE DEF TypeOK, directoryVars, catalogVars, leaseVars
<1>0. \A i \in Instances : nodes[WindowOf[i]] \in Instances \cup {NoInstance}
  BY WindowOfAssumption
<1>1. ASSUME NEW i \in Instances, Reconnect(i) \/ Unregister(i) \/ RefuseReplace(i)
      PROVE  TypeOK'
  <2>1. {i} \in SUBSET Instances
    OBVIOUS
  <2>2. CASE Reconnect(i)
    BY <2>2 DEF Reconnect
  <2>3. CASE Unregister(i)
    BY <2>1, <2>3, LossTyped DEF Unregister, LoseNodes
  <2>4. CASE RefuseReplace(i)
    <3>1. {nodes[WindowOf[i]]} \in SUBSET Instances
      BY <1>0, <2>4 DEF RefuseReplace
    <3> QED BY <2>4, <3>1, LossTyped DEF RefuseReplace, LoseNodes
  <2> QED BY <1>1, <2>2, <2>3, <2>4
<1>2. ASSUME NEW i \in Instances, Replace(i) PROVE TypeOK'
  <2>1. {nodes[WindowOf[i]]} \in SUBSET Instances
    BY <1>0, <1>2 DEF Replace
  <2> QED BY <1>2, <2>1, LossTyped, RemoveTyped, WindowOfAssumption DEF Replace
<1>3. ASSUME NEW i \in Instances, Enter(i) PROVE TypeOK'
  <2>1. PICK gone \in SUBSET Instances :
          /\ nodes' = [NodesWithout(gone) EXCEPT ![WindowOf[i]] = i]
          /\ op' = OpWithout(gone)
    BY <1>3 DEF Enter, Removable, Tombstones, Entries
  <2> QED BY <1>3, <2>1, RemoveTyped, WindowOfAssumption DEF Enter
<1>4. CASE SweepExpired
  <2>1. PICK expired \in SUBSET Instances, gone \in SUBSET Instances :
          LoseNodes(expired) /\ Remove(gone) /\ UNCHANGED <<catalog, stored, leaseVars>>
    BY <1>4 DEF SweepExpired, Removable, Tombstones, Entries
  <2> QED BY <2>1, RemoveTyped, LossTyped DEF LoseNodes, Remove
<1>5. ASSUME NEW i \in Instances, NEW w \in Workspaces, BeginClaim(i, w) PROVE TypeOK'
  BY <1>5 DEF BeginClaim, PendingOps
<1>6. ASSUME NEW w \in Workspaces, Upsert(w)
      PROVE  /\ catalog' \in [Workspaces -> {"absent", "enabled", "disabled"}]
             /\ stored' \in [Workspaces -> {"absent", "enabled", "disabled"}]
  BY <1>6 DEF Upsert, Upserted
<1>7. ASSUME NEW i \in Instances, NEW w \in Workspaces, FinishClaim(i, w) PROVE TypeOK'
  <2>1. ClaimStatus(i, w) \in {"claimed", "conflict", "readOnly"}
    BY DEF ClaimStatus
  <2> QED BY <1>6, <1>7, <2>1 DEF FinishClaim
<1>8. ASSUME NEW i \in Instances, NEW w \in Workspaces, ReleaseWorkspace(i, w) PROVE TypeOK'
  BY <1>8 DEF ReleaseWorkspace
<1>9. CASE AbandonClaim
  <2>1. op.ws \in Workspaces
    BY <1>9 DEF AbandonClaim, PendingOps
  <2> QED BY <1>6, <1>9, <2>1 DEF AbandonClaim
<1>10. ASSUME NEW w \in Workspaces, NEW kind \in {"enable", "disable"}, BeginSetEnabled(w, kind)
       PROVE  TypeOK'
  BY <1>10 DEF BeginSetEnabled, PendingOps
<1>11. ASSUME NEW w \in Workspaces, FinishEnable(w) \/ FinishDisable(w) PROVE TypeOK'
  BY <1>11 DEF FinishEnable, FinishDisable
<1>12. CASE WriteCatalogFails
  <2>1. op.ws \in Workspaces /\ op.kind \in {"claim", "enable", "disable"}
    BY <1>12 DEF WriteCatalogFails, PendingOps
  <2>2. WrittenCatalog \in [Workspaces -> {"absent", "enabled", "disabled"}]
    BY <2>1 DEF WrittenCatalog, Upserted
  <2> QED BY <1>12, <2>2 DEF WriteCatalogFails
<1>13. ASSUME NEW t \in Tasks, NEW i \in Instances, NEW w \in Workspaces, AcquireTaskRoute(t, i, w)
       PROVE  TypeOK'
  BY <1>13 DEF AcquireTaskRoute, Routes
<1>14. ASSUME NEW t \in Tasks, ReleaseTaskRoute(t) PROVE TypeOK'
  <2>1. PICK gone \in SUBSET Instances : Remove(gone)
    BY <1>14 DEF ReleaseTaskRoute, Tombstones, Entries
  <2>2. binding[t].ws \in Workspaces
    BY <1>14 DEF ReleaseTaskRoute, Routes
  <2> QED BY <1>14, <2>1, <2>2, RemoveTyped DEF ReleaseTaskRoute, Remove
<1>15. CASE Restart
  BY <1>15 DEF Restart, NoEntries, Nowhere, Unclaimed, Unbound, Unleased
<1>16. CASE UNCHANGED vars
  BY <1>16 DEF vars
<1> QED BY <1>1, <1>2, <1>3, <1>4, <1>5, <1>7, <1>8, <1>9, <1>10, <1>11, <1>12, <1>13,
           <1>14, <1>15, <1>16 DEF Next

----------------------------------------------------------------------------
(* Leases and the catalog *)

\* A claim that loses its entry is still a claim, and a disable stays one.
LEMMA OpWithoutKeepsKind ==
  ASSUME TypeOK, NEW S \in SUBSET Instances
  PROVE  OpWithout(S) # NoOp /\ OpWithout(S).kind = "disable" => OpWithout(S) = op
<1>1. CASE op # NoOp /\ op.kind = "claim"
  <2>1. op \in [kind : {"claim"}, inst : Instances, ws : Workspaces, route : BOOLEAN]
    BY <1>1 DEF TypeOK, PendingOps
  <2>2. OpWithout(S) = op \/ OpWithout(S) = [op EXCEPT !.route = FALSE]
    BY DEF OpWithout
  <2>3. OpWithout(S).kind = "claim"
    BY <2>1, <2>2
  <2> QED BY <2>3
<1>2. CASE ~(op # NoOp /\ op.kind = "claim")
  BY <1>2 DEF OpWithout
<1> QED BY <1>1, <1>2

\* Without a change to leases and catalog, claims may only go.
LEMMA DirectoryKeepsLeases ==
  ASSUME LeaseInv, UNCHANGED <<leaseVars, catalog>>,
         \A w \in Workspaces : claims'[w] \in {claims[w], NoInstance},
         \/ op' = op \/ op' = NoOp
         \/ op' # NoOp /\ op'.kind # "disable"
  PROVE  LeaseInv'
BY DEF LeaseInv, LeaseMatchesBinding, DisabledIsIdle, PendingDisableFences, leaseVars

LEMMA LeaseStep ==
  ASSUME IInv, [Next]_vars
  PROVE  LeaseInv'
<1> USE DEF directoryVars, catalogVars, leaseVars
<1>0. /\ TypeOK /\ LeaseInv
      /\ \A i \in Instances : nodes[WindowOf[i]] \in Instances \cup {NoInstance}
  BY WindowOfAssumption DEF IInv, TypeOK
<1>1. ASSUME NEW S \in SUBSET Instances
      PROVE  /\ \A w \in Workspaces : ClaimsAfterLoss(S)[w] \in {claims[w], NoInstance}
             /\ \/ OpWithout(S) = op \/ OpWithout(S) = NoOp
                \/ OpWithout(S) # NoOp /\ OpWithout(S).kind # "disable"
  BY <1>0, OpWithoutKeepsKind DEF ClaimsAfterLoss
<1>2. ASSUME NEW i \in Instances,
             Reconnect(i) \/ Replace(i) \/ RefuseReplace(i) \/ Unregister(i)
      PROVE  LeaseInv'
  <2>1. {i} \in SUBSET Instances
    OBVIOUS
  <2>2. CASE Reconnect(i)
    BY <1>0, <2>2, DirectoryKeepsLeases DEF Reconnect
  <2>3. CASE Unregister(i)
    BY <1>0, <1>1, <2>1, <2>3, DirectoryKeepsLeases DEF Unregister, LoseNodes
  <2>4. CASE Replace(i) \/ RefuseReplace(i)
    <3>1. {nodes[WindowOf[i]]} \in SUBSET Instances
      BY <1>0, <2>4 DEF Replace, RefuseReplace
    <3> QED BY <1>0, <1>1, <2>4, <3>1, DirectoryKeepsLeases DEF Replace, RefuseReplace, LoseNodes
  <2> QED BY <1>2, <2>2, <2>3, <2>4
<1>3. ASSUME NEW i \in Instances, Enter(i) PROVE LeaseInv'
  <2>1. PICK gone \in SUBSET Instances : op' = OpWithout(gone)
    BY <1>3 DEF Enter, Removable, Tombstones, Entries
  <2> QED BY <1>0, <1>1, <1>3, <2>1, DirectoryKeepsLeases DEF Enter
<1>4. CASE SweepExpired
  <2>1. PICK expired \in SUBSET Instances, gone \in SUBSET Instances :
          claims' = ClaimsAfterLoss(expired) /\ op' = OpWithout(gone)
    BY <1>4, <1>0 DEF SweepExpired, Removable, Tombstones, Entries, LoseNodes, Remove, TypeOK
  <2>2. UNCHANGED <<leaseVars, catalog>>
    BY <1>4 DEF SweepExpired
  <2> QED BY <1>0, <1>1, <2>1, <2>2, DirectoryKeepsLeases
<1> USE DEF LeaseInv, LeaseMatchesBinding, DisabledIsIdle, PendingDisableFences, TypeOK
<1>5. ASSUME NEW i \in Instances, NEW w \in Workspaces, BeginClaim(i, w) PROVE LeaseInv'
  BY <1>0, <1>5 DEF BeginClaim
<1>6. ASSUME NEW i \in Instances, NEW w \in Workspaces, FinishClaim(i, w) PROVE LeaseInv'
  <2>1. \A v \in Workspaces : catalog'[v] = "disabled" => catalog[v] = "disabled"
    BY <1>0, <1>6 DEF FinishClaim, Upsert, Upserted
  <2>2. \A v \in Workspaces : catalog[v] = "disabled" => claims'[v] = claims[v]
    BY <1>0, <1>6 DEF FinishClaim, ClaimStatus
  <2> QED BY <1>0, <1>6, <2>1, <2>2 DEF FinishClaim
<1>7. ASSUME NEW i \in Instances, NEW w \in Workspaces, ReleaseWorkspace(i, w) PROVE LeaseInv'
  BY <1>0, <1>7, DirectoryKeepsLeases DEF ReleaseWorkspace
<1>8. CASE AbandonClaim
  <2>1. \A v \in Workspaces : catalog'[v] = "disabled" => catalog[v] = "disabled"
    BY <1>0, <1>8 DEF AbandonClaim, Upsert, Upserted
  <2> QED BY <1>0, <1>8, <2>1 DEF AbandonClaim
<1>9. ASSUME NEW w \in Workspaces, NEW kind \in {"enable", "disable"}, BeginSetEnabled(w, kind)
      PROVE  LeaseInv'
  BY <1>0, <1>9 DEF BeginSetEnabled
<1>10. ASSUME NEW w \in Workspaces, FinishEnable(w) PROVE LeaseInv'
  BY <1>0, <1>10 DEF FinishEnable
<1>11. ASSUME NEW w \in Workspaces, FinishDisable(w) PROVE LeaseInv'
  <2>1. leases[w] = NoTask
    BY <1>0, <1>11, SentinelAssumption DEF FinishDisable, PendingOps
  <2> QED BY <1>0, <1>11, <2>1 DEF FinishDisable
<1>12. CASE WriteCatalogFails
  BY <1>0, <1>12 DEF WriteCatalogFails
<1>13. ASSUME NEW t \in Tasks, NEW i \in Instances, NEW w \in Workspaces, AcquireTaskRoute(t, i, w)
       PROVE  LeaseInv'
  <2>1. /\ op = NoOp /\ op' = NoOp /\ UNCHANGED <<catalog, claims>>
        /\ catalog[w] = "enabled" /\ leases[w] \in {NoTask, t}
        /\ binding[t] \in {NoRoute, [inst |-> i, ws |-> w]}
        /\ leases' = [leases EXCEPT ![w] = t]
        /\ binding' = [binding EXCEPT ![t] = [inst |-> i, ws |-> w]]
    BY <1>13 DEF AcquireTaskRoute, RouteAvailable
  <2>2. [inst |-> i, ws |-> w] # NoRoute
    BY SentinelAssumption DEF Routes
  <2>3. LeaseMatchesBinding'
    BY <1>0, <2>1, <2>2, SentinelAssumption
  <2> QED BY <1>0, <2>1, <2>3
<1>14. ASSUME NEW t \in Tasks, ReleaseTaskRoute(t) PROVE LeaseInv'
  <2>1. PICK gone \in SUBSET Instances : op' = OpWithout(gone)
    BY <1>14 DEF ReleaseTaskRoute, Remove, Tombstones, Entries
  <2>2. /\ binding[t] # NoRoute /\ binding' = [binding EXCEPT ![t] = NoRoute]
        /\ leases' = [leases EXCEPT ![binding[t].ws] = IF @ = t THEN NoTask ELSE @]
        /\ UNCHANGED <<claims, catalog>>
    BY <1>14 DEF ReleaseTaskRoute
  <2>3. binding[t].ws \in Workspaces
    BY <1>0, <2>2 DEF Routes
  <2>4. leases[binding[t].ws] = t
    BY <1>0, <2>2, <2>3
  <2>5. leases' = [leases EXCEPT ![binding[t].ws] = NoTask]
    BY <2>2, <2>4
  <2>6. LeaseMatchesBinding'
    BY <1>0, <2>2, <2>3, <2>4, <2>5, SentinelAssumption
  <2>7. \A v \in Workspaces : leases'[v] \in {leases[v], NoTask}
    BY <1>0, <2>5
  <2> QED BY <1>0, <1>1, <2>1, <2>2, <2>6, <2>7
<1>15. CASE Restart
  BY <1>15, SentinelAssumption DEF Restart, Unclaimed, Unbound, Unleased
<1>16. CASE UNCHANGED vars
  BY <1>0, <1>16 DEF vars
<1> QED BY <1>2, <1>3, <1>4, <1>5, <1>6, <1>7, <1>8, <1>9, <1>10, <1>11, <1>12, <1>13,
           <1>14, <1>15, <1>16 DEF Next

----------------------------------------------------------------------------
(* The directory *)

\* Losing nodes takes their claims and what they show; forgetting tombstones
\* that hold no fence touches neither online nodes nor bound ones.
LEMMA LossAndRemoval ==
  ASSUME IInv, NEW S \in SUBSET Instances, NEW G \in SUBSET Removable,
         nodes' = NodesWithout(G), online' = online \ S,
         claims' = ClaimsAfterLoss(S), observed' = ObservedAfterLoss(S),
         UNCHANGED binding
  PROVE  DirectoryInv'
<1> USE DEF IInv, TypeOK, DirectoryInv
<1>0. EntriesOwned'
  BY WindowOfAssumption, SentinelAssumption DEF EntriesOwned, NodesWithout
<1>1. \A i \in Instances : WindowOf[i] \in Windows
  BY WindowOfAssumption
<1>2. \A i \in Entries \ G : i \in Entries'
  BY <1>1 DEF Entries, NodesWithout
<1>3. online' \subseteq Entries'
  BY <1>2 DEF Removable, Tombstones
<1>4. BoundNodeRetained'
  <2>1. ASSUME NEW t \in Tasks, binding[t] # NoRoute PROVE binding[t].inst \in Entries \ G
    BY <2>1 DEF BoundNodeRetained, Removable, BoundTo
  <2> QED BY <1>2, <2>1 DEF BoundNodeRetained
<1>5. ClaimsMatchView'
  <2> SUFFICES ASSUME NEW i \in Instances, NEW w \in Workspaces
               PROVE  /\ claims'[w] = i <=> observed'[i][w] = "claimed"
                      /\ observed'[i][w] # "none" => Live(i)'
    BY DEF ClaimsMatchView
  <2>1. /\ claims[w] = i <=> observed[i][w] = "claimed"
        /\ observed[i][w] # "none" => Live(i)
    BY DEF ClaimsMatchView
  <2>2. CASE i \in S
    <3>1. observed'[i][w] = "none"
      BY <2>2 DEF ObservedAfterLoss
    <3>2. claims'[w] # i
      BY <2>1, <2>2, SentinelAssumption DEF ClaimsAfterLoss
    <3> QED BY <3>1, <3>2
  <2>3. CASE i \notin S
    <3>1. observed'[i][w] = observed[i][w]
      BY <2>3 DEF ObservedAfterLoss
    <3>2. claims'[w] = i <=> claims[w] = i
      BY <2>3, SentinelAssumption DEF ClaimsAfterLoss
    <3>3. Live(i) => Live(i)'
      BY <1>3, <2>3 DEF Live
    <3> QED BY <2>1, <3>1, <3>2, <3>3
  <2> QED BY <2>2, <2>3
<1> QED BY <1>0, <1>3, <1>4, <1>5

\* A window gets an entry of instance i, in the place of one that is lost, or
\* of none; no task is bound to the old one.
LEMMA EntryTaken ==
  ASSUME IInv, NEW i \in Instances, NEW old,
         old = nodes[WindowOf[i]], old # i, BoundTo({old}) = {},
         NEW G \in SUBSET Removable,
         nodes' = [NodesWithout(G) EXCEPT ![WindowOf[i]] = i],
         online' = (online \ {old}) \cup {i},
         claims' = ClaimsAfterLoss({old}), observed' = ObservedAfterLoss({old}),
         UNCHANGED binding
  PROVE  DirectoryInv'
<1> USE DEF IInv, TypeOK, DirectoryInv
<1>0. EntriesOwned'
  BY WindowOfAssumption, SentinelAssumption DEF EntriesOwned, NodesWithout
<1>1. \A j \in Instances : WindowOf[j] \in Windows
  BY WindowOfAssumption
<1>2. \A j \in Entries \ (G \cup {old}) : j \in Entries'
  BY <1>1 DEF Entries, NodesWithout
<1>3. i \in Entries'
  BY <1>1 DEF Entries, NodesWithout
<1>4. online' \subseteq Entries'
  BY <1>2, <1>3 DEF Removable, Tombstones
<1>5. BoundNodeRetained'
  <2>1. ASSUME NEW t \in Tasks, binding[t] # NoRoute
        PROVE binding[t].inst \in Entries \ (G \cup {old})
    BY <2>1 DEF BoundNodeRetained, Removable, BoundTo
  <2> QED BY <1>2, <2>1 DEF BoundNodeRetained
<1>6. ClaimsMatchView'
  <2> SUFFICES ASSUME NEW j \in Instances, NEW w \in Workspaces
               PROVE  /\ claims'[w] = j <=> observed'[j][w] = "claimed"
                      /\ observed'[j][w] # "none" => Live(j)'
    BY DEF ClaimsMatchView
  <2>1. /\ claims[w] = j <=> observed[j][w] = "claimed"
        /\ observed[j][w] # "none" => Live(j)
    BY DEF ClaimsMatchView
  <2>2. CASE j = old
    <3>1. observed'[j][w] = "none"
      BY <2>2 DEF ObservedAfterLoss
    <3>2. claims'[w] # j
      BY <2>1, <2>2, SentinelAssumption DEF ClaimsAfterLoss
    <3> QED BY <3>1, <3>2
  <2>3. CASE j # old
    <3>1. observed'[j][w] = observed[j][w]
      BY <2>3 DEF ObservedAfterLoss
    <3>2. claims'[w] = j <=> claims[w] = j
      BY <2>3, SentinelAssumption DEF ClaimsAfterLoss
    <3>3. Live(j) => Live(j)'
      BY <1>4, <2>3 DEF Live
    <3> QED BY <2>1, <3>1, <3>2, <3>3
  <2> QED BY <2>2, <2>3
<1> QED BY <1>0, <1>4, <1>5, <1>6

LEMMA DirectoryStep ==
  ASSUME IInv, [Next]_vars
  PROVE  DirectoryInv'
<1> USE DEF directoryVars, catalogVars, leaseVars
<1>0. /\ \A i \in Instances : nodes[WindowOf[i]] \in Instances \cup {NoInstance}
      /\ NodesWithout({}) = nodes
      /\ {} \in SUBSET Removable
      /\ ClaimsAfterLoss({NoInstance}) = claims /\ ObservedAfterLoss({NoInstance}) = observed
  BY WindowOfAssumption, SentinelAssumption
  DEF IInv, TypeOK, NodesWithout, ClaimsAfterLoss, ObservedAfterLoss
<1>1. ASSUME NEW i \in Instances, Reconnect(i) PROVE DirectoryInv'
  BY <1>1 DEF Reconnect, Tombstones, IInv, DirectoryInv, ClaimsMatchView, BoundNodeRetained,
     Live, Entries, EntriesOwned
<1>2. ASSUME NEW i \in Instances, Unregister(i) PROVE DirectoryInv'
  <2>1. {i} \in SUBSET Instances
    OBVIOUS
  <2> QED BY <1>0, <1>2, <2>1, LossAndRemoval DEF Unregister, LoseNodes
<1>3. ASSUME NEW i \in Instances, RefuseReplace(i) PROVE DirectoryInv'
  <2>1. {nodes[WindowOf[i]]} \in SUBSET Instances
    BY <1>0, <1>3 DEF RefuseReplace
  <2> QED BY <1>0, <1>3, <2>1, LossAndRemoval DEF RefuseReplace, LoseNodes
<1>4. ASSUME NEW i \in Instances, Replace(i) PROVE DirectoryInv'
  BY <1>0, <1>4, EntryTaken DEF Replace
<1>5. ASSUME NEW i \in Instances, Enter(i) PROVE DirectoryInv'
  <2>1. PICK gone \in SUBSET Removable :
          nodes' = [NodesWithout(gone) EXCEPT ![WindowOf[i]] = i]
    BY <1>5 DEF Enter
  <2>2. BoundTo({NoInstance}) = {}
    BY SentinelAssumption DEF BoundTo, IInv, TypeOK, Routes
  <2>3. online \ {NoInstance} = online
    BY SentinelAssumption DEF IInv, TypeOK
  <2>4. /\ nodes[WindowOf[i]] = NoInstance /\ NoInstance # i
        /\ online' = online \cup {i} /\ UNCHANGED <<observed, claims, binding>>
    BY <1>5, SentinelAssumption DEF Enter
  <2> QED BY <1>0, <2>1, <2>2, <2>3, <2>4, EntryTaken
<1>6. CASE SweepExpired
  <2>1. PICK expired \in SUBSET online, gone \in SUBSET Removable :
          LoseNodes(expired) /\ Remove(gone)
    BY <1>6 DEF SweepExpired
  <2>2. expired \in SUBSET Instances /\ UNCHANGED binding
    BY <1>6, <2>1 DEF SweepExpired, IInv, TypeOK
  <2> QED BY <2>1, <2>2, LossAndRemoval DEF LoseNodes, Remove
<1> USE DEF IInv, TypeOK, DirectoryInv, EntriesOwned, ClaimsMatchView, BoundNodeRetained, Live,
        Entries
<1>7. ASSUME NEW i \in Instances, NEW w \in Workspaces, FinishClaim(i, w) PROVE DirectoryInv'
  <2>1. UNCHANGED <<nodes, online, binding>> /\ Live(i)
    BY <1>7 DEF FinishClaim
  <2>2. /\ observed' = [observed EXCEPT ![i] = [observed[i] EXCEPT ![w] = ClaimStatus(i, w)]]
        /\ claims' = IF ClaimStatus(i, w) = "claimed" THEN [claims EXCEPT ![w] = i] ELSE claims
    BY <1>7 DEF FinishClaim
  <2>3. CASE ClaimStatus(i, w) = "claimed"
    <3>1. claims[w] \in {NoInstance, i}
      BY <2>3 DEF ClaimStatus
    <3> QED BY <2>1, <2>2, <2>3, <3>1, SentinelAssumption
  <2>4. CASE ClaimStatus(i, w) # "claimed"
    <3>1. ClaimStatus(i, w) \in {"conflict", "readOnly"}
      BY <2>4 DEF ClaimStatus
    <3>2. claims[w] # i
      BY <3>1, SentinelAssumption DEF ClaimStatus, LeaseInv, DisabledIsIdle
    <3> QED BY <2>1, <2>2, <2>4, <3>1, <3>2
  <2> QED BY <2>3, <2>4
<1>8. ASSUME NEW i \in Instances, NEW w \in Workspaces, ReleaseWorkspace(i, w)
      PROVE  DirectoryInv'
  BY <1>8, SentinelAssumption DEF ReleaseWorkspace, Claimant
<1>9. ASSUME NEW i \in Instances, NEW w \in Workspaces,
             BeginClaim(i, w)
      PROVE  DirectoryInv'
  BY <1>9 DEF BeginClaim
<1>15. ASSUME NEW w \in Workspaces,
              FinishEnable(w) \/ \E kind \in {"enable", "disable"} : BeginSetEnabled(w, kind)
       PROVE  DirectoryInv'
  BY <1>15 DEF FinishEnable, BeginSetEnabled
<1>16. CASE AbandonClaim \/ WriteCatalogFails
  BY <1>16 DEF AbandonClaim, WriteCatalogFails
<1>10. ASSUME NEW w \in Workspaces, FinishDisable(w) PROVE DirectoryInv'
  BY <1>10, SentinelAssumption DEF FinishDisable
<1>11. ASSUME NEW t \in Tasks, NEW i \in Instances, NEW w \in Workspaces, AcquireTaskRoute(t, i, w)
       PROVE  DirectoryInv'
  BY <1>11 DEF AcquireTaskRoute, RouteAvailable
<1>12. ASSUME NEW t \in Tasks, ReleaseTaskRoute(t) PROVE DirectoryInv'
  <2>1. PICK gone \in SUBSET {i \in Tombstones : BoundTo({i}) \subseteq {t}} : Remove(gone)
    BY <1>12 DEF ReleaseTaskRoute
  <2>2. /\ UNCHANGED <<online, observed, claims>>
        /\ binding' = [binding EXCEPT ![t] = NoRoute]
    BY <1>12 DEF ReleaseTaskRoute
  <2>3. \A i \in Entries \ gone : i \in Entries'
    BY <2>1, WindowOfAssumption DEF Remove, NodesWithout
  <2>4. online \subseteq Entries'
    BY <2>1, <2>3 DEF Tombstones
  <2>5. ASSUME NEW u \in Tasks, binding'[u] # NoRoute PROVE binding'[u].inst \in Entries'
    <3>1. u # t /\ binding'[u] = binding[u]
      BY <2>2, <2>5
    <3>2. binding[u].inst \in Entries \ gone
      BY <2>1, <2>5, <3>1 DEF BoundTo
    <3> QED BY <2>3, <3>1, <3>2
  <2>6. EntriesOwned'
    BY <2>1, SentinelAssumption DEF Remove, NodesWithout
  <2> QED BY <2>2, <2>4, <2>5, <2>6
<1>13. CASE Restart
  BY <1>13, SentinelAssumption DEF Restart, Nowhere, Unclaimed, Unbound, NoEntries
<1>14. CASE UNCHANGED vars
  BY <1>14 DEF vars
<1> QED BY <1>1, <1>2, <1>3, <1>4, <1>5, <1>6, <1>7, <1>8, <1>9, <1>10, <1>11, <1>12,
           <1>13, <1>14, <1>15, <1>16 DEF Next

----------------------------------------------------------------------------
(* The size of the directory *)

\* No entry is added but in a place that is free, or was just given up.
LEMMA CountStep ==
  ASSUME IInv, EntryCount <= MaxNodes, [Next]_vars
  PROVE  EntryCount' <= MaxNodes
<1> USE DEF Listed, directoryVars, catalogVars, leaseVars
<1>0. IsFiniteSet(Listed) /\ EntryCount \in Nat /\ MaxNodes \in Nat \ {0}
  BY WindowsAssumption, FS_Subset, FS_CardinalityType, MaxNodesAssumption DEF EntryCount
<1>1. ASSUME Listed' \subseteq Listed PROVE EntryCount' <= MaxNodes
  <2>1. Cardinality(Listed') <= Cardinality(Listed) /\ IsFiniteSet(Listed')
    BY <1>0, <1>1, FS_Subset
  <2>2. Cardinality(Listed') \in Nat
    BY <2>1, FS_CardinalityType
  <2> QED BY <1>0, <2>1, <2>2 DEF EntryCount
<1>2. ASSUME NEW i \in Instances, Replace(i) PROVE EntryCount' <= MaxNodes
  <2>1. Listed' \subseteq Listed
    BY <1>2 DEF Replace, IInv, TypeOK
  <2> QED BY <1>1, <2>1
<1>3. ASSUME NEW i \in Instances, Enter(i) PROVE EntryCount' <= MaxNodes
  <2>1. WindowOf[i] \notin Listed /\ WindowOf[i] \in Windows
    BY <1>3, WindowOfAssumption DEF Enter
  <2>2. CASE EntryCount < MaxNodes
    <3>1. nodes' = [NodesWithout({}) EXCEPT ![WindowOf[i]] = i]
      BY <1>3, <2>2 DEF Enter
    <3>2. Listed' = Listed \cup {WindowOf[i]}
      BY <2>1, <3>1, SentinelAssumption DEF NodesWithout, IInv, TypeOK
    <3>3. Cardinality(Listed') = Cardinality(Listed) + 1
      BY <1>0, <2>1, <3>2, FS_AddElement
    <3> QED BY <1>0, <2>2, <3>3 DEF EntryCount
  <2>3. CASE ~(EntryCount < MaxNodes)
    <3>1. PICK old \in Removable : nodes' = [NodesWithout({old}) EXCEPT ![WindowOf[i]] = i]
      BY <1>3, <2>3 DEF Enter
    <3>2. old \in Instances /\ nodes[WindowOf[old]] = old /\ WindowOf[old] \in Listed
      BY <3>1, SentinelAssumption, WindowOfAssumption DEF Removable, Tombstones, Entries
    <3>3. \A n \in Windows : nodes[n] = old => n = WindowOf[old]
      BY <3>2, SentinelAssumption DEF IInv, DirectoryInv, EntriesOwned
    <3>4. Listed' = (Listed \ {WindowOf[old]}) \cup {WindowOf[i]}
      BY <2>1, <3>1, <3>2, <3>3, SentinelAssumption DEF NodesWithout, IInv, TypeOK
    <3>5. IsFiniteSet(Listed \ {WindowOf[old]})
          /\ Cardinality(Listed \ {WindowOf[old]}) = Cardinality(Listed) - 1
      BY <1>0, <3>2, FS_RemoveElement
    <3>6. Cardinality(Listed') = Cardinality(Listed) - 1 + 1
      BY <2>1, <3>4, <3>5, FS_AddElement
    <3> QED BY <1>0, <3>6 DEF EntryCount
  <2> QED BY <2>2, <2>3
<1>4. ASSUME NEW S, nodes' = NodesWithout(S) PROVE EntryCount' <= MaxNodes
  <2>1. Listed' \subseteq Listed
    BY <1>4 DEF NodesWithout
  <2> QED BY <1>1, <2>1
<1>5. ASSUME UNCHANGED nodes PROVE EntryCount' <= MaxNodes
  BY <1>1, <1>5
<1>6. CASE SweepExpired
  BY <1>4, <1>6 DEF SweepExpired, Remove
<1>7. ASSUME NEW t \in Tasks, ReleaseTaskRoute(t) PROVE EntryCount' <= MaxNodes
  BY <1>4, <1>7 DEF ReleaseTaskRoute, Remove
<1>8. CASE Restart
  <2>1. Listed' \subseteq Listed
    BY <1>8 DEF Restart, NoEntries
  <2> QED BY <1>1, <2>1
<1>9. ASSUME NEW i \in Instances, Reconnect(i) \/ RefuseReplace(i) \/ Unregister(i)
      PROVE  EntryCount' <= MaxNodes
  BY <1>5, <1>9 DEF Reconnect, RefuseReplace, Unregister
<1>10. ASSUME NEW i \in Instances, NEW w \in Workspaces,
              BeginClaim(i, w) \/ FinishClaim(i, w) \/ ReleaseWorkspace(i, w)
                \/ \E t \in Tasks : AcquireTaskRoute(t, i, w)
       PROVE  EntryCount' <= MaxNodes
  BY <1>5, <1>10 DEF BeginClaim, FinishClaim, ReleaseWorkspace, AcquireTaskRoute
<1>11. ASSUME NEW w \in Workspaces,
              FinishEnable(w) \/ FinishDisable(w)
                \/ \E kind \in {"enable", "disable"} : BeginSetEnabled(w, kind)
       PROVE  EntryCount' <= MaxNodes
  BY <1>5, <1>11 DEF FinishEnable, FinishDisable, BeginSetEnabled
<1>12. CASE AbandonClaim \/ WriteCatalogFails \/ UNCHANGED vars
  BY <1>5, <1>12 DEF AbandonClaim, WriteCatalogFails, vars
<1> QED BY <1>2, <1>3, <1>6, <1>7, <1>8, <1>9, <1>10, <1>11, <1>12 DEF Next

LEMMA CountInit == Init => EntryCount <= MaxNodes
<1>1. Init => Listed = {}
  BY DEF Init, NoEntries, Listed
<1> QED BY <1>1, FS_EmptySet, MaxNodesAssumption DEF EntryCount

\* What holds of the registry in every state, for any number of windows,
\* workspaces and tasks: types, the agreement of leases with routes and of
\* claims with what windows show, the fence of bound nodes, and idle disabled
\* workspaces; and the directory stays within its limit.
THEOREM RegistrySafe ==
  Spec => [](/\ TypeOK /\ LeaseMatchesBinding /\ ClaimsMatchView
             /\ BoundNodeRetained /\ DisabledIsIdle /\ DirectoryBounded)
<1> DEFINE Bounded == EntryCount <= MaxNodes
<1>1. IInv /\ Bounded /\ [Next]_vars => IInv' /\ Bounded'
  BY StepTyped, LeaseStep, DirectoryStep, CountStep DEF IInv
<1>2. IInv /\ Bounded => /\ TypeOK /\ LeaseMatchesBinding /\ ClaimsMatchView
                         /\ BoundNodeRetained /\ DisabledIsIdle /\ DirectoryBounded
  BY DEF IInv, DirectoryInv, LeaseInv, DirectoryBounded
<1>3. Init => IInv /\ Bounded
  BY InitRegistry, CountInit
<1> QED BY <1>1, <1>2, <1>3, PTL DEF Spec

\* A workspace is claimed by a node with an open session, and by the window that shows it as claimed.
COROLLARY ClaimsAgree == Spec => []ClaimsMatchView
BY RegistrySafe, PTL

----------------------------------------------------------------------------
(* The registry implements TaskRoutes *)

LEMMA InitRoutesOf == Init => Routes_!Init
BY DEF Init, Routes_!Init, Unclaimed, Unbound

\* Claims of lost nodes go, as TaskRoutes asks.
LEMMA LossOfClaims ==
  ASSUME IInv, NEW S \in SUBSET Instances
  PROVE  ClaimsAfterLoss(S) = Routes_!ClaimsWithout(S)
BY DEF IInv, TypeOK, DirectoryInv, ClaimsMatchView, ClaimsAfterLoss, Routes_!ClaimsWithout

\* The old life of a window is the only one that could be online or bound.
LEMMA OnlyEntryMatters ==
  ASSUME IInv, NEW i \in Instances, nodes[WindowOf[i]] # i,
         BoundTo({nodes[WindowOf[i]]}) = {}
  PROVE  /\ i \notin online
         /\ Routes_!BoundTo(Routes_!Siblings(i)) = {}
         /\ online \ Routes_!Siblings(i) = online \ {nodes[WindowOf[i]]}
         /\ Routes_!ClaimsWithout(Routes_!Siblings(i)) = ClaimsAfterLoss({nodes[WindowOf[i]]})
<1> DEFINE old == nodes[WindowOf[i]]
<1> USE DEF IInv, TypeOK, DirectoryInv, Entries, Routes_!Siblings
<1>1. \A j \in Entries : j \in Routes_!Siblings(i) <=> j = old
  BY WindowOfAssumption, SentinelAssumption DEF EntriesOwned
<1>2. i \notin online /\ online \ Routes_!Siblings(i) = online \ {old}
  BY <1>1
<1>3. Routes_!BoundTo(Routes_!Siblings(i)) = {}
  BY <1>1 DEF BoundNodeRetained, BoundTo, Routes_!BoundTo
<1>4. ASSUME NEW w \in Workspaces
      PROVE  (IF claims[w] \in Routes_!Siblings(i) THEN NoInstance ELSE claims[w])
               = IF claims[w] \in {old} /\ observed[claims[w]][w] # "none"
                 THEN NoInstance ELSE claims[w]
  <2>1. CASE claims[w] = NoInstance
    BY <2>1
  <2>2. CASE claims[w] \in Instances
    <3>1. observed[claims[w]][w] = "claimed" /\ claims[w] \in Entries
      BY <2>2 DEF ClaimsMatchView, Live
    <3> QED BY <1>1, <3>1
  <2> QED BY <2>1, <2>2
<1>5. Routes_!ClaimsWithout(Routes_!Siblings(i)) = ClaimsAfterLoss({old})
  BY <1>4 DEF Routes_!ClaimsWithout, ClaimsAfterLoss
<1> QED BY <1>2, <1>3, <1>5

\* A window whose entry is its own instance has no other life to speak of.
LEMMA OwnEntryOnly ==
  ASSUME IInv, NEW i \in Instances, nodes[WindowOf[i]] = i
  PROVE  /\ Routes_!BoundTo(Routes_!Siblings(i)) = {}
         /\ online \ Routes_!Siblings(i) = online
         /\ Routes_!ClaimsWithout(Routes_!Siblings(i)) = claims
<1> USE DEF IInv, TypeOK, DirectoryInv, Entries, Routes_!Siblings
<1>1. \A j \in Entries : j \notin Routes_!Siblings(i)
  OBVIOUS
<1>2. online \ Routes_!Siblings(i) = online
  BY <1>1
<1>3. Routes_!BoundTo(Routes_!Siblings(i)) = {}
  BY <1>1 DEF BoundNodeRetained, Routes_!BoundTo
<1>4. \A w \in Workspaces : claims[w] \notin Routes_!Siblings(i)
  BY <1>1 DEF ClaimsMatchView, Live
<1>5. Routes_!ClaimsWithout(Routes_!Siblings(i)) = claims
  BY <1>4 DEF Routes_!ClaimsWithout
<1> QED BY <1>2, <1>3, <1>5

LEMMA StepImplementsRoutes ==
  ASSUME IInv, [Next]_vars
  PROVE  [Routes_!Next]_(Routes_!routeVars)
<1> USE DEF directoryVars, catalogVars, leaseVars, Routes_!routeVars
<1>0. TypeOK
  BY DEF IInv
<1>1. ASSUME NEW S \in SUBSET Instances, LoseNodes(S), UNCHANGED binding
      PROVE  Routes_!Next
  BY <1>1, LossOfClaims DEF LoseNodes, Routes_!Lose, Routes_!Next
<1>2. ASSUME NEW i \in Instances, Reconnect(i) PROVE Routes_!Next
  <2>1. Routes_!GoLive(i)
    BY <1>2, OwnEntryOnly DEF Reconnect, Tombstones, Entries, Routes_!GoLive
  <2> QED BY <2>1 DEF Routes_!Next
<1>3. ASSUME NEW i \in Instances, RefuseReplace(i) \/ Unregister(i) PROVE Routes_!Next
  <2>1. CASE Unregister(i)
    <3>1. {i} \in SUBSET Instances
      OBVIOUS
    <3> QED BY <1>1, <2>1, <3>1 DEF Unregister
  <2>2. CASE RefuseReplace(i)
    <3>1. {nodes[WindowOf[i]]} \in SUBSET Instances
      BY <1>0, <2>2, WindowOfAssumption DEF RefuseReplace, TypeOK
    <3> QED BY <1>1, <2>2, <3>1 DEF RefuseReplace
  <2> QED BY <1>3, <2>1, <2>2
<1>4. ASSUME NEW i \in Instances, Replace(i) PROVE Routes_!Next
  <2>1. Routes_!GoLive(i)
    BY <1>4, OnlyEntryMatters DEF Replace, Routes_!GoLive
  <2> QED BY <2>1 DEF Routes_!Next
<1>5. ASSUME NEW i \in Instances, Enter(i) PROVE Routes_!Next
  <2>1. nodes[WindowOf[i]] = NoInstance /\ nodes[WindowOf[i]] # i
        /\ UNCHANGED <<claims, observed, binding>> /\ online' = online \cup {i}
    BY <1>5, SentinelAssumption DEF Enter
  <2>2. BoundTo({NoInstance}) = {}
    BY <1>0, SentinelAssumption DEF BoundTo, TypeOK, Routes
  <2>3. online \ {NoInstance} = online /\ ClaimsAfterLoss({NoInstance}) = claims
    BY <1>0, SentinelAssumption DEF TypeOK, ClaimsAfterLoss
  <2>4. Routes_!GoLive(i)
    BY <2>1, <2>2, <2>3, OnlyEntryMatters DEF Routes_!GoLive
  <2> QED BY <2>4 DEF Routes_!Next
<1>6. CASE SweepExpired
  <2>1. PICK expired \in SUBSET Instances : LoseNodes(expired)
    BY <1>0, <1>6 DEF SweepExpired, TypeOK
  <2> QED BY <1>1, <1>6, <2>1 DEF SweepExpired
<1>7. ASSUME NEW i \in Instances, NEW w \in Workspaces, BeginClaim(i, w)
      PROVE  UNCHANGED Routes_!routeVars
  BY <1>7 DEF BeginClaim
<1>8. ASSUME NEW i \in Instances, NEW w \in Workspaces, FinishClaim(i, w)
      PROVE  [Routes_!Next]_(Routes_!routeVars)
  <2>1. CASE ClaimStatus(i, w) = "claimed"
    <3>1. claims[w] \in {NoInstance, i}
      BY <2>1 DEF ClaimStatus
    <3>2. Routes_!Claim(i, w)
      BY <1>8, <2>1, <3>1 DEF FinishClaim, Live, Routes_!Claim
    <3> QED BY <3>2 DEF Routes_!Next
  <2>2. CASE ClaimStatus(i, w) # "claimed"
    BY <1>8, <2>2 DEF FinishClaim
  <2> QED BY <2>1, <2>2
<1>9. ASSUME NEW i \in Instances, NEW w \in Workspaces, ReleaseWorkspace(i, w)
      PROVE  [Routes_!Next]_(Routes_!routeVars)
  BY <1>9 DEF ReleaseWorkspace, Routes_!Next, Routes_!Unclaim
<1>10. ASSUME NEW w \in Workspaces,
              FinishEnable(w) \/ \E kind \in {"enable", "disable"} : BeginSetEnabled(w, kind)
       PROVE  UNCHANGED Routes_!routeVars
  BY <1>10 DEF FinishEnable, BeginSetEnabled
<1>11. CASE AbandonClaim \/ WriteCatalogFails
  BY <1>11 DEF AbandonClaim, WriteCatalogFails
<1>12. ASSUME NEW w \in Workspaces, FinishDisable(w) PROVE Routes_!Next
  BY <1>12 DEF FinishDisable, Routes_!Next, Routes_!Unclaim
<1>13. ASSUME NEW t \in Tasks, NEW i \in Instances, NEW w \in Workspaces, AcquireTaskRoute(t, i, w)
       PROVE  Routes_!Next
  <2>1. ~Routes_!LeasedByOther(w, t)
    BY <1>13, SentinelAssumption DEF AcquireTaskRoute, RouteAvailable, IInv, LeaseInv,
       LeaseMatchesBinding, Routes_!LeasedByOther
  <2>2. Routes_!Acquire(t, i, w)
    BY <1>13, <2>1 DEF AcquireTaskRoute, RouteAvailable, Live, Claimant, Routes_!Acquire
  <2> QED BY <2>2 DEF Routes_!Next
<1>14. ASSUME NEW t \in Tasks, ReleaseTaskRoute(t) PROVE Routes_!Next
  <2>1. Routes_!Release(t)
    BY <1>14 DEF ReleaseTaskRoute, Routes_!Release
  <2> QED BY <2>1 DEF Routes_!Next
<1>15. CASE Restart
  BY <1>15 DEF Restart, Unclaimed, Unbound, Routes_!Next, Routes_!Forget
<1>16. CASE UNCHANGED vars
  BY <1>16 DEF vars
<1> QED BY <1>2, <1>3, <1>4, <1>5, <1>6, <1>7, <1>8, <1>9, <1>10, <1>11, <1>12, <1>13,
           <1>14, <1>15, <1>16 DEF Next

\* Whatever windows, users and the disk do, the registry gives the task
\* service what TaskRoutes promises.
THEOREM RegistryImplementsRoutes == Spec => ImplementsTaskRoutes
<1>1. IInv /\ [Next]_vars => IInv'
  BY StepTyped, LeaseStep, DirectoryStep DEF IInv
<1>2. IInv /\ [Next]_vars => [Routes_!Next]_(Routes_!routeVars)
  BY StepImplementsRoutes
<1> QED BY <1>1, <1>2, InitRegistry, InitRoutesOf, PTL
        DEF Spec, ImplementsTaskRoutes, Routes_!Spec

\* A claim is given up before another window gets it, in every step.
THEOREM ClaimsNotStolen == Spec => NoClaimSteal
<1> DEFINE GivenUpFirst == \A w \in Workspaces :
             claims[w] # NoInstance /\ claims'[w] # claims[w] => claims'[w] = NoInstance
<1>1. IInv /\ [Next]_vars => IInv'
  BY StepTyped, LeaseStep, DirectoryStep DEF IInv
<1>2. ASSUME IInv, [Next]_vars PROVE GivenUpFirst
  <2>1. CASE Routes_!Next
    <3> USE DEF Routes_!ClaimsWithout, IInv, TypeOK
    <3>1. ASSUME NEW S \in SUBSET Instances, Routes_!Lose(S) PROVE GivenUpFirst
      BY <3>1 DEF Routes_!Lose
    <3>2. ASSUME NEW i \in Instances, Routes_!GoLive(i) PROVE GivenUpFirst
      BY <3>2 DEF Routes_!GoLive
    <3>3. ASSUME NEW i \in Instances, NEW w \in Workspaces, Routes_!Claim(i, w) PROVE GivenUpFirst
      BY <3>3 DEF Routes_!Claim
    <3>4. ASSUME NEW w \in Workspaces, Routes_!Unclaim(w) PROVE GivenUpFirst
      BY <3>4 DEF Routes_!Unclaim
    <3>5. ASSUME NEW t \in Tasks, NEW i \in Instances, NEW w \in Workspaces,
                 Routes_!Acquire(t, i, w)
          PROVE  GivenUpFirst
      BY <3>5 DEF Routes_!Acquire
    <3>6. ASSUME NEW t \in Tasks, Routes_!Release(t) PROVE GivenUpFirst
      BY <3>6 DEF Routes_!Release
    <3>7. CASE Routes_!Forget
      BY <3>7 DEF Routes_!Forget
    <3> QED BY <2>1, <3>1, <3>2, <3>3, <3>4, <3>5, <3>6, <3>7 DEF Routes_!Next
  <2>2. CASE UNCHANGED Routes_!routeVars
    BY <2>2 DEF Routes_!routeVars
  <2> QED BY <1>2, <2>1, <2>2, StepImplementsRoutes
<1> QED BY <1>1, <1>2, InitRegistry, PTL DEF Spec, NoClaimSteal
====
