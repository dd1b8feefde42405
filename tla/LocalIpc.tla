---- MODULE LocalIpc ----
(***************************************************************************)
(* src/src/ipc/LocalIpcTransport.ts: the connections of one client id to   *)
(* the device broker.  peer[c][s] is the IpcPeer at side s of connection c *)
(* and wire[c][s] the frames on their way to it.  The handlers are their   *)
(* users': they answer when they like or never.                            *)
(***************************************************************************)
EXTENDS Naturals, Sequences, FiniteSets

CONSTANTS Conns,         \* connections the client id makes
          Requests,      \* bound: requests each side of a connection may send
          MaxPending,    \* maxPendingRequests
          MaxPreAuth     \* maxPreAuthConnections

VARIABLES peer, wire,
          keyed,         \* connections whose client has the broker's key
          nonce,         \* the client nonce of each
          replay,        \* ReplayCache: the nonces claimed
          preAuth,       \* preAuthPeers
          table,         \* sessionsByClientId of the client id; "none" if there is none
          server         \* "up", "disposing" or "disposed"

ipcVars == <<peer, wire, keyed, nonce, replay, preAuth, table, server>>
serverVars == <<keyed, nonce, replay, preAuth, table, server>>

Sides == {"client", "server"}
Other(s) == IF s = "client" THEN "server" ELSE "client"

PeerStates == {"none", "awaiting-hello", "awaiting-challenge", "awaiting-authenticate",
               "awaiting-authenticated", "authenticated", "closed"}

NewPeer ==
  [state    |-> "none",
   confirm  |-> FALSE,   \* the write of "authenticated" has not called back
   asked    |-> {},      \* pendingRequests
   sent     |-> {},      \* requests made so far
   serving  |-> {},      \* incomingRequestIds
   draining |-> FALSE]   \* gracefulCloseTimer

Frame(kind, id) == [kind |-> kind, id |-> id]
Ids == Requests \cup {"none"}
FrameKinds == {"hello", "challenge", "authenticate", "authenticated", "request", "response", "end"}

Peers == [state : PeerStates, confirm : BOOLEAN, asked : SUBSET Requests,
          sent : SUBSET Requests, serving : SUBSET Requests, draining : BOOLEAN]

\* Only a request and its response have an id.
Frames == {f \in [kind : FrameKinds, id : Ids] :
             f.kind \in {"request", "response"} => f.id \in Requests}

IpcTypeOK ==
  /\ peer \in [Conns -> [Sides -> Peers]]
  /\ wire \in [Conns -> [Sides -> Seq(Frames)]]
  /\ replay \subseteq {nonce[c] : c \in Conns}
  /\ preAuth \subseteq Conns
  /\ table \in Conns \cup {"none"}
  /\ server \in {"up", "disposing", "disposed"}

IpcInit ==
  /\ peer = [c \in Conns |-> [s \in Sides |-> NewPeer]]
  /\ wire = [c \in Conns |-> [s \in Sides |-> <<>>]]
  /\ keyed \in SUBSET Conns
  /\ nonce \in [Conns -> 1..Cardinality(Conns)]
  /\ replay = {}
  /\ preAuth = {}
  /\ table = "none"
  /\ server = "up"

Open(c, s) == peer[c][s].state \notin {"none", "closed"}
Authentic(c, s) == peer[c][s].state = "authenticated"

----------------------------------------------------------------------------
(* What a peer does to itself and to the wire *)

\* send, by side s of c
Sent(w, c, s, frame) ==
  [w EXCEPT ![c][Other(s)] =
     IF peer[c][Other(s)].state = "closed" THEN <<>> ELSE Append(@, frame)]

Put(c, s, r) == peer' = [peer EXCEPT ![c][s] = r]

\* fail and close of the peers in S: what is pending is rejected.
ClosedPeers(S) ==
  [c \in Conns |-> [s \in Sides |->
    IF <<c, s>> \in S /\ Open(c, s) THEN [NewPeer EXCEPT !.state = "closed"] ELSE peer[c][s]]]

\* The other side reads what was written before and then the end.
EndedWire(S) ==
  [c \in Conns |-> [s \in Sides |->
    IF <<c, s>> \in S THEN <<>>
    ELSE IF <<c, Other(s)>> \in S /\ Open(c, Other(s)) /\ peer[c][s].state # "closed"
    THEN Append(wire[c][s], Frame("end", "none"))
    ELSE wire[c][s]]]

\* Mutant: a close forgets the client id, whoever holds it now.
ForgottenByName(S, t) ==
  IF \E c \in Conns : <<c, "server">> \in S /\ Open(c, "server") THEN "none" ELSE t

\* The close listener of accept: the table forgets a session that closed.
Forgotten(S, t) == IF <<t, "server">> \in S THEN "none" ELSE t

Fail(S) ==
  /\ peer' = ClosedPeers(S)
  /\ wire' = EndedWire(S)
  /\ preAuth' = {c \in preAuth : <<c, "server">> \notin S}
  /\ table' = Forgotten(S, table)

FailOnly(c, s) == Fail({<<c, s>>}) /\ UNCHANGED <<keyed, nonce, replay, server>>

----------------------------------------------------------------------------
(* The handshake *)

\* LocalIpcClient.connectOnce: the client's peer says hello.
Connect(c) ==
  /\ peer[c]["client"].state = "none"
  /\ Put(c, "client", [NewPeer EXCEPT !.state = "awaiting-challenge"])
  /\ wire' = Sent(wire, c, "client", Frame("hello", "none"))
  /\ UNCHANGED serverVars

\* accept: too many that are not authenticated yet, and the socket is destroyed
Accept(c) ==
  /\ Open(c, "client")
  /\ peer[c]["server"].state = "none"
  /\ IF server = "up" /\ Cardinality(preAuth) < MaxPreAuth
     THEN /\ Put(c, "server", [NewPeer EXCEPT !.state = "awaiting-hello"])
          /\ preAuth' = preAuth \cup {c}
          /\ UNCHANGED wire
     ELSE /\ Put(c, "server", [NewPeer EXCEPT !.state = "closed"])
          /\ wire' = Sent(wire, c, "server", Frame("end", "none"))
          /\ UNCHANGED preAuth
  /\ UNCHANGED <<keyed, nonce, replay, table, server>>

\* The head of the wire is read, and answered in the next state.
Reads(c, s, kind, state) ==
  /\ peer[c][s].state = state
  /\ wire[c][s] # <<>>
  /\ Head(wire[c][s]).kind = kind

Rest(c, s) == [wire EXCEPT ![c][s] = Tail(@)]

Answers(c, s, state, kind) ==
  /\ Put(c, s, [peer[c][s] EXCEPT !.state = state])
  /\ wire' = Sent(Rest(c, s), c, s, Frame(kind, "none"))

\* ReplayCache.claim: a nonce is taken once. That nonces leave the cache when
\* they are old or too many is left out.
Replayed(c) == nonce[c] \in replay

\* verifyProof: a proof is right when its maker has the key of the broker.
Proven(c) == c \in keyed

ReceiveHello(c) ==
  /\ Reads(c, "server", "hello", "awaiting-hello")
  /\ IF Replayed(c) THEN FailOnly(c, "server")
     ELSE /\ Answers(c, "server", "awaiting-authenticate", "challenge")
          /\ replay' = replay \cup {nonce[c]}
          /\ UNCHANGED <<keyed, nonce, preAuth, table, server>>

\* receiveChallenge: the server's proof is verified.
ReceiveChallenge(c) ==
  /\ Reads(c, "client", "challenge", "awaiting-challenge")
  /\ IF ~Proven(c) THEN FailOnly(c, "client")
     ELSE Answers(c, "client", "awaiting-authenticated", "authenticate") /\ UNCHANGED serverVars

\* receiveAuthenticate and authenticated: requests are served from here on.
ReceiveAuthenticate(c) ==
  /\ Reads(c, "server", "authenticate", "awaiting-authenticate")
  /\ IF server # "up" THEN FailOnly(c, "server")
     ELSE /\ Put(c, "server", [peer[c]["server"] EXCEPT !.state = "authenticated",
                                                        !.confirm = TRUE])
          /\ wire' = Sent(Rest(c, "server"), c, "server", Frame("authenticated", "none"))
          /\ UNCHANGED serverVars

\* ready, when the confirmation is written: the session before is superseded.
Ready(c) ==
  /\ peer[c]["server"].confirm
  /\ LET before == IF table \in Conns \ {c} THEN {<<table, "server">>} ELSE {} IN
     /\ peer' = [ClosedPeers(before) EXCEPT ![c]["server"].confirm = FALSE]
     /\ wire' = EndedWire(before)
     /\ table' = Forgotten(before, c)
     /\ preAuth' = {d \in preAuth : d # c /\ <<d, "server">> \notin before}
  /\ UNCHANGED <<keyed, nonce, replay, server>>

ReceiveAuthenticated(c) ==
  /\ Reads(c, "client", "authenticated", "awaiting-authenticated")
  /\ Put(c, "client", [peer[c]["client"] EXCEPT !.state = "authenticated"])
  /\ wire' = Rest(c, "client")
  /\ UNCHANGED serverVars

\* The handshake timer
HandshakeTimeout(c, s) ==
  /\ Open(c, s) /\ ~Authentic(c, s)
  /\ FailOnly(c, s)

----------------------------------------------------------------------------
(* Requests *)

Ask(c, s, r) ==
  /\ Authentic(c, s)
  /\ r \notin peer[c][s].sent
  /\ Cardinality(peer[c][s].asked) < MaxPending
  /\ Put(c, s, [peer[c][s] EXCEPT !.asked = @ \cup {r}, !.sent = @ \cup {r}])
  /\ wire' = Sent(wire, c, s, Frame("request", r))
  /\ UNCHANGED serverVars

ReceiveRequest(c, s) ==
  /\ Reads(c, s, "request", "authenticated")
  /\ IF Cardinality(peer[c][s].serving) >= MaxPending THEN FailOnly(c, s)
     ELSE /\ Put(c, s, [peer[c][s] EXCEPT !.serving = @ \cup {Head(wire[c][s]).id}])
          /\ wire' = Rest(c, s)
          /\ UNCHANGED serverVars

\* handleRequest: the answer is written; an error may ask for a close after it.
Handle(c, s, r, drain) ==
  /\ r \in peer[c][s].serving
  /\ Put(c, s, [peer[c][s] EXCEPT !.serving = @ \ {r}, !.draining = drain \/ @])
  /\ wire' = Sent(wire, c, s, Frame("response", r))
  /\ UNCHANGED serverVars

\* receiveResponse: an answer nobody waits for ends the connection.
ReceiveResponse(c, s) ==
  /\ Reads(c, s, "response", "authenticated")
  /\ LET r == Head(wire[c][s]).id IN
     IF r \notin peer[c][s].asked THEN FailOnly(c, s)
     ELSE /\ Put(c, s, [peer[c][s] EXCEPT !.asked = @ \ {r}])
          /\ wire' = Rest(c, s)
          /\ UNCHANGED serverVars

\* Mutant: only the requests of a client have a timer.
RequestTimeoutOfClient(c, s) ==
  /\ s = "client"
  /\ peer[c][s].asked # {}
  /\ FailOnly(c, s)

\* A request's timer ends the whole connection.
RequestTimeout(c, s) ==
  /\ peer[c][s].asked # {}
  /\ FailOnly(c, s)

\* closeAfterDrain: the poll finds nothing under way, or the deadline passes.
Drained(c, s) ==
  /\ peer[c][s].draining
  /\ peer[c][s].asked = {} /\ peer[c][s].serving = {}
  /\ FailOnly(c, s)

DrainDeadline(c, s) ==
  /\ peer[c][s].draining
  /\ FailOnly(c, s)

----------------------------------------------------------------------------
(* Ends *)

\* session.close, a write that fails, backpressure
Close(c, s) ==
  /\ Open(c, s)
  /\ FailOnly(c, s)

\* ended: the other side closed its socket.
ReadEnd(c, s) ==
  /\ Open(c, s)
  /\ wire[c][s] # <<>>
  /\ Head(wire[c][s]).kind = "end"
  /\ FailOnly(c, s)

\* LocalIpcServer.disposeOnce: what is not authenticated yet is closed, too.
DisposeServer ==
  /\ server = "up"
  /\ server' = "disposing"
  /\ Fail({<<c, "server">> : c \in preAuth \cup (Conns \cap {table})})
  /\ UNCHANGED <<keyed, nonce, replay>>

\* net.Server.close calls back when no connection is left.
ServerDisposed ==
  /\ server = "disposing"
  /\ \A c \in Conns : ~Open(c, "server")
  /\ server' = "disposed"
  /\ UNCHANGED <<peer, wire, keyed, nonce, replay, preAuth, table>>

----------------------------------------------------------------------------

\* Data that is there is read, timers fire, and the broker's listener accepts.
IpcProgress(c, s) ==
  \/ ReceiveRequest(c, s) \/ ReceiveResponse(c, s) \/ ReadEnd(c, s)
  \/ HandshakeTimeout(c, s) \/ RequestTimeout(c, s)
  \/ Drained(c, s) \/ DrainDeadline(c, s)

IpcNext ==
  \/ \E c \in Conns :
       \/ Connect(c) \/ Accept(c)
       \/ ReceiveHello(c) \/ ReceiveChallenge(c) \/ ReceiveAuthenticate(c)
       \/ ReceiveAuthenticated(c) \/ Ready(c)
       \/ \E s \in Sides :
            \/ \E r \in Requests : Ask(c, s, r) \/ \E drain \in BOOLEAN : Handle(c, s, r, drain)
            \/ Close(c, s)
            \/ IpcProgress(c, s)
  \/ DisposeServer \/ ServerDisposed

IpcSpec == IpcInit /\ [][IpcNext]_ipcVars

----------------------------------------------------------------------------
(* Properties *)

\* At the broker a client id has one session: the one that became ready last,
\* for as long as it is open. The broker's notifications go to that table.
OneSessionPerClient ==
  \A c \in Conns : Authentic(c, "server") /\ ~peer[c]["server"].confirm => table = c

\* Requests come to an end, and so do connections that drain: two sides that
\* wait for each other's answers do not wait for ever (the requests are bounded,
\* so that all of them are over some day).
RequestsSettle ==
  (\E c \in Conns, s \in Sides : peer[c][s].asked # {} \/ peer[c][s].draining)
    ~> \A c \in Conns, s \in Sides : peer[c][s].asked = {} /\ ~peer[c][s].draining
====
