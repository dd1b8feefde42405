---- MODULE RemoteExecution ----
(***************************************************************************)
(* The generations of src/src/codespaces/RemoteExecutionServer.ts and      *)
(* RemoteExecutionClient.ts: how clients connect to the helper in a        *)
(* codespace, lose it, and have what they started there cleaned up.        *)
(*                                                                         *)
(* An attempt of a client is its nth connect call and names the generation *)
(* the server makes for it.  Calls between client and server may be slow;  *)
(* each side gives up on its own deadline.  RemoteTasks models what        *)
(* happens within a generation.                                            *)
(***************************************************************************)
EXTENDS Naturals, Sequences, FiniteSets

CONSTANTS Clients,       \* the client ids, each a RemoteExecutionClient
          MaxAttempts,   \* bound: connect calls of all clients
          MaxDisposals   \* bound: dispose calls of a client

VARIABLES cl,            \* the clients
          att,           \* connectCore of each attempt, and its reply
          gen,           \* the generation of each attempt
          disc,          \* the disconnect call for each generation
          known,         \* generations: the established one of each client id
          current,       \* current
          queue,         \* stateTail: the transitions not finished, in order
          server         \* "up", "disposing", "disposed" or "gone"

remVars == <<cl, att, gen, disc, known, current, queue, server>>

Attempts == Clients \X (1..MaxAttempts)
None == <<"none", 0>>
Owner(a) == a[1]

NewClient ==
  [made       |-> 0,         \* connect calls
   connecting |-> None,      \* this.connecting
   pending    |-> {},        \* pendingConnects
   helper     |-> None,      \* this.helper
   stopped    |-> FALSE,
   waits      |-> {},        \* what a disposal waits for: replies and disconnects
   unsure     |-> FALSE,     \* one of them was not confirmed
   disposals  |-> 0,         \* dispose calls
   disposal   |-> "none"]    \* the last one: "none", "waiting", "done" or "failed"

NewAttempt == [stage |-> "none", aborted |-> FALSE, reply |-> "none", helper |-> None]

NewGeneration ==
  [state   |-> "none",   \* and "connecting", "active", "closing", "closed"
   exec    |-> "none",   \* "creating", "live", "broken" or "gone"
   cleanup |-> FALSE,    \* cleanup is under way
   call    |-> FALSE,    \* a start is on its way to the server
   work    |-> FALSE]    \* agents of its tasks are at work

RemTypeOK ==
  /\ \A k \in Clients :
       /\ cl[k].made \in 0..MaxAttempts
       /\ {cl[k].connecting, cl[k].helper} \subseteq Attempts \cup {None}
       /\ cl[k].pending \subseteq Attempts
       /\ cl[k].disposal \in {"none", "waiting", "done", "failed"}
  /\ \A a \in Attempts :
       /\ att[a].stage \in {"none", "queued", "reading", "closing", "factory", "over"}
       /\ att[a].reply \in {"none", "ok", "error", "read"}
       /\ gen[a].state \in {"none", "connecting", "active", "closing", "closed"}
       /\ gen[a].exec \in {"none", "creating", "live", "broken", "gone"}
       /\ disc[a] \in {"none", "sent", "cleaning", "cleaned", "ok", "error"}
  /\ current \in Attempts \cup {None}
  /\ server \in {"up", "disposing", "disposed", "gone"}

RemInit ==
  /\ cl = [k \in Clients |-> NewClient]
  /\ att = [a \in Attempts |-> NewAttempt]
  /\ gen = [a \in Attempts |-> NewGeneration]
  /\ disc = [a \in Attempts |-> "none"]
  /\ known = [k \in Clients |-> None]
  /\ current = None
  /\ queue = <<>>
  /\ server = "up"

----------------------------------------------------------------------------
(* Parts of the server's methods, on a generation *)

\* invalidate and close: the generation serves nothing more; its executor is
\* disposed of when its factory has settled.
Retired(g) ==
  IF g.state \in {"none", "closed"} THEN g
  ELSE [g EXCEPT !.state = "closing", !.cleanup = TRUE]

Retire(a) == gen' = [gen EXCEPT ![a] = Retired(@)]

\* connectCore of a ends: the next transition may begin.
Replied(a, reply, helper) ==
  [att EXCEPT ![a] = [stage |-> "over", aborted |-> FALSE,
                      helper |-> IF @.reply = "none" THEN helper ELSE None,
                      reply |-> IF @.reply = "none" THEN reply ELSE @.reply]]

Fails(a) == att' = Replied(a, "error", None) /\ queue' = Tail(queue)

\* assertConnectActive
ConnectActive(a) == server = "up" /\ ~att[a].aborted

IsHead(kind, a) == queue # <<>> /\ Head(queue) = <<kind, a>>

----------------------------------------------------------------------------
(* connectCore, one step per await *)

BeginConnect(a) ==
  /\ att[a].stage = "queued"
  /\ IsHead("connect", a)
  /\ \/ Fails(a)
     \/ /\ ConnectActive(a)
        /\ LET p == known[Owner(a)] IN
           IF p # None /\ (current # p \/ gen[p].state # "active") THEN Fails(a)
           ELSE att' = [att EXCEPT ![a].stage = "reading"] /\ UNCHANGED queue
  /\ UNCHANGED <<cl, gen, disc, known, current, server>>

\* The folders are read. A client that is known gets its generation again; for
\* a new one the current generation has to be closed first.
ReadWorkspaces(a) ==
  LET p == known[Owner(a)] IN
  /\ att[a].stage = "reading"
  /\ \/ Fails(a) /\ UNCHANGED gen
     \/ /\ ConnectActive(a)
        /\ IF p # None
           THEN /\ IF current = p /\ gen[p].state = "active"
                   THEN att' = Replied(a, "ok", p) /\ queue' = Tail(queue)
                   ELSE Fails(a)
                /\ UNCHANGED gen
           ELSE /\ att' = [att EXCEPT ![a].stage = "closing"]
                /\ IF current = None THEN UNCHANGED gen ELSE Retire(current)
                /\ UNCHANGED queue
  /\ UNCHANGED <<cl, disc, known, current, server>>

\* The current generation is closed: a new one, and its executor.
CreateGeneration(a) ==
  /\ att[a].stage = "closing"
  /\ current = None
  /\ IF ConnectActive(a)
     THEN /\ current' = a
          /\ gen' = [gen EXCEPT ![a] = [NewGeneration EXCEPT !.state = "connecting",
                                                             !.exec = "creating"]]
          /\ att' = [att EXCEPT ![a].stage = "factory"]
          /\ UNCHANGED queue
     ELSE Fails(a) /\ UNCHANGED <<gen, current>>
  /\ UNCHANGED <<cl, disc, known, server>>

\* The factory settles, and connectCore with it.
Established(a) ==
  /\ att[a].stage = "factory"
  /\ gen[a].exec = "live"
  /\ IF ConnectActive(a) /\ gen[a].state = "connecting"
     THEN /\ gen' = [gen EXCEPT ![a].state = "active"]
          /\ known' = [known EXCEPT ![Owner(a)] = a]
          /\ att' = Replied(a, "ok", a)
          /\ queue' = Tail(queue)
     ELSE Retire(a) /\ Fails(a) /\ UNCHANGED known
  /\ UNCHANGED <<cl, disc, current, server>>

FactoryFailed(a) ==
  /\ att[a].stage = "factory"
  /\ gen[a].exec \in {"broken", "gone"}
  /\ Retire(a)
  /\ Fails(a)
  /\ UNCHANGED <<cl, disc, known, current, server>>

CreateExecutor(a, ok) ==
  /\ gen[a].exec = "creating"
  /\ gen' = [gen EXCEPT ![a].exec = IF ok THEN "live" ELSE "broken"]
  /\ UNCHANGED <<cl, att, disc, known, current, queue, server>>

\* The server's deadline for a connect call
ServerDeadline(a) ==
  /\ att[a].stage # "none"
  /\ att[a].reply = "none"
  /\ att' = [att EXCEPT ![a].reply = "error", ![a].aborted = TRUE]
  /\ Retire(a)
  /\ UNCHANGED <<cl, disc, known, current, queue, server>>

----------------------------------------------------------------------------
(* close *)

\* The executor's disposal settles: "dirty" may be tried again, "complete" is an
\* error after everything was cleaned up, which fails who waits for it as well.
CleanupEnds(a, end) ==
  /\ gen[a].cleanup
  /\ gen[a].exec # "creating"
  /\ gen[a].exec = "broken" => end = "clean"
  /\ IF end = "dirty"
     THEN /\ gen' = [gen EXCEPT ![a].cleanup = FALSE]
          /\ UNCHANGED current
     ELSE /\ gen' = [gen EXCEPT ![a] = [@ EXCEPT !.state = "closed", !.exec = "gone",
                                                 !.cleanup = FALSE, !.work = FALSE]]
          /\ current' = IF current = a THEN None ELSE current
  /\ disc' = [disc EXCEPT ![a] = IF @ = "cleaning" /\ end # "dirty" THEN "cleaned"
                                 ELSE IF @ = "cleaning" THEN "error" ELSE @]
  /\ IF end # "clean" /\ queue # <<>> /\ Head(queue)[1] = "connect"
        /\ att[Head(queue)[2]].stage = "closing" /\ current = a
     THEN Fails(Head(queue)[2])
     ELSE UNCHANGED <<att, queue>>
  /\ UNCHANGED <<cl, known, server>>

\* Cleanup that failed is tried again by whoever closes the generation next.
LeaseExpires(a) ==
  /\ gen[a].state = "active"
  /\ Retire(a)
  /\ UNCHANGED <<cl, att, disc, known, current, queue, server>>

----------------------------------------------------------------------------
(* disconnect and dispose of the server *)

\* disconnect: revoked at once, cleaned up, and answered in the queue. What is
\* no longer the current generation has been closed before.
Disconnect(a) ==
  /\ disc[a] = "sent"
  /\ IF server # "gone" /\ current = a
     THEN /\ Retire(a)
          /\ queue' = Append(queue, <<"barrier", a>>)
          /\ disc' = [disc EXCEPT ![a] = "cleaning"]
     ELSE /\ disc' = [disc EXCEPT ![a] = IF known[Owner(a)] = a THEN "ok" ELSE "error"]
          /\ UNCHANGED <<gen, queue>>
  /\ UNCHANGED <<cl, att, known, current, server>>

\* The serialized half of disconnect: it ends when the cleanup has settled.
Barrier(a) ==
  /\ IsHead("barrier", a)
  /\ ~gen[a].cleanup
  /\ queue' = Tail(queue)
  /\ disc' = [disc EXCEPT ![a] = IF @ = "cleaned" THEN "ok" ELSE @]
  /\ UNCHANGED <<cl, att, gen, known, current, server>>

\* The deadline of disconnect: what is closed by then is confirmed.
DisconnectDeadline(a) ==
  /\ disc[a] \in {"cleaning", "cleaned"}
  /\ disc' = [disc EXCEPT ![a] = IF @ = "cleaned" THEN "ok" ELSE "error"]
  /\ UNCHANGED <<cl, att, gen, known, current, queue, server>>

DisposeServer ==
  /\ server = "up"
  /\ server' = "disposing"
  /\ IF current = None THEN UNCHANGED gen ELSE Retire(current)
  /\ UNCHANGED <<cl, att, disc, known, current, queue>>

ServerDisposed ==
  /\ server = "disposing"
  /\ queue = <<>>
  /\ \A a \in Attempts : ~gen[a].cleanup
  /\ server' = "disposed"
  /\ UNCHANGED <<cl, att, gen, disc, known, current, queue>>

\* The extension host of the codespace ends, and its agents with it; a new
\* server knows none of the generations.
ServerGone ==
  /\ server # "gone"
  /\ server' = "gone"
  /\ known' = [k \in Clients |-> None]
  /\ current' = None
  /\ queue' = <<>>
  /\ gen' = [a \in Attempts |-> IF gen[a].state = "none" THEN gen[a]
                                ELSE [NewGeneration EXCEPT !.state = "closed", !.exec = "gone"]]
  /\ att' = [a \in Attempts |-> IF att[a].stage = "none" THEN att[a]
                                ELSE [att[a] EXCEPT !.stage = "over",
                                       !.reply = IF @ = "none" THEN "error" ELSE @]]
  /\ disc' = [a \in Attempts |-> IF disc[a] = "none" THEN "none"
                                 ELSE IF disc[a] = "ok" THEN "ok" ELSE "error"]
  /\ UNCHANGED cl

----------------------------------------------------------------------------
(* The client *)

\* connect and connectCore up to its await
Connect(k) ==
  LET a == <<k, cl[k].made + 1>> IN
  /\ ~cl[k].stopped /\ cl[k].helper = None /\ cl[k].connecting = None
  /\ Cardinality({b \in Attempts : b[2] <= cl[b[1]].made}) < MaxAttempts
  /\ cl' = [cl EXCEPT ![k] = [@ EXCEPT !.made = @ + 1, !.connecting = a,
                                       !.pending = @ \cup {a}]]
  /\ IF server = "gone"
     THEN att' = [att EXCEPT ![a] = [NewAttempt EXCEPT !.stage = "over", !.reply = "error"]]
          /\ UNCHANGED queue
     ELSE att' = [att EXCEPT ![a].stage = "queued"]
          /\ queue' = Append(queue, <<"connect", a>>)
  /\ UNCHANGED <<gen, disc, known, current, server>>

ClientDeadline(k) ==
  /\ cl[k].connecting # None
  /\ cl' = [cl EXCEPT ![k].connecting = None]
  /\ UNCHANGED <<att, gen, disc, known, current, queue, server>>

\* disconnectHelper: one call at a time, none after it was confirmed.
Asked(d) == IF d \in {"none", "error"} THEN "sent" ELSE d

\* The reply arrives. A client that stopped meanwhile sends its helper home; one
\* that gave up on the call forgets about the helper, which has no task.
ConnectReply(a) ==
  LET k == Owner(a) h == att[a].helper ok == att[a].reply = "ok" IN
  /\ att[a].reply \in {"ok", "error"}
  /\ att' = [att EXCEPT ![a].reply = "read", ![a].helper = None]
  /\ cl' = [cl EXCEPT ![k] =
       [@ EXCEPT !.pending = @ \ {a},
                 !.connecting = IF @ = a THEN None ELSE @,
                 !.helper = IF ok /\ cl[k].connecting = a /\ ~cl[k].stopped THEN h ELSE @,
                 !.waits = IF a \notin @ THEN @ ELSE (@ \ {a}) \cup (IF ok THEN {h} ELSE {}),
                 !.unsure = @ \/ (a \in cl[k].waits /\ ~ok)]]
  /\ disc' = IF ok /\ cl[k].stopped THEN [disc EXCEPT ![h] = Asked(@)] ELSE disc
  /\ UNCHANGED <<gen, known, current, queue, server>>

\* fail: a call or a pump failed; the helper is told to clean up.
ClientFails(k) ==
  /\ ~cl[k].stopped /\ cl[k].helper # None
  /\ cl' = [cl EXCEPT ![k] = [@ EXCEPT !.stopped = TRUE, !.connecting = None]]
  /\ disc' = [disc EXCEPT ![cl[k].helper] = Asked(@)]
  /\ UNCHANGED <<att, gen, known, current, queue, server>>

\* dispose: it waits for the helper's cleanup and for connect calls that may
\* still return one.
Dispose(k) ==
  LET h == cl[k].helper IN
  /\ cl[k].disposal \in {"none", "failed"} /\ cl[k].disposals < MaxDisposals
  /\ cl' = [cl EXCEPT ![k] =
       [@ EXCEPT !.stopped = TRUE, !.connecting = None, !.disposals = @ + 1,
                 !.disposal = "waiting", !.unsure = FALSE,
                 !.waits = cl[k].pending \cup (IF h = None THEN {} ELSE {h})]]
  /\ disc' = IF h = None THEN disc ELSE [disc EXCEPT ![h] = Asked(@)]
  /\ UNCHANGED <<att, gen, known, current, queue, server>>

\* Everything is confirmed, or something is not, or the deadline passes.
DisposalSettles(k) ==
  LET home == {a \in cl[k].waits : a \notin cl[k].pending} IN
  /\ cl[k].disposal = "waiting"
  /\ \/ /\ cl[k].waits = home /\ ~cl[k].unsure
        /\ \A a \in home : disc[a] = "ok"
        /\ cl' = [cl EXCEPT ![k] = [@ EXCEPT !.disposal = "done", !.waits = {}]]
     \/ cl' = [cl EXCEPT ![k] = [@ EXCEPT !.disposal = "failed", !.waits = {}, !.unsure = FALSE]]
  /\ UNCHANGED <<att, gen, disc, known, current, queue, server>>

\* A start leaves the client, and is executed by the server if the generation is
\* still active when it arrives.
SendStart(k) ==
  /\ ~cl[k].stopped /\ cl[k].helper # None
  /\ ~gen[cl[k].helper].call
  /\ gen' = [gen EXCEPT ![cl[k].helper].call = TRUE]
  /\ UNCHANGED <<cl, att, disc, known, current, queue, server>>

ExecuteStart(a) ==
  /\ gen[a].call
  /\ gen' = [gen EXCEPT ![a].call = FALSE,
                        ![a].work = @ \/ (server = "up" /\ current = a /\ gen[a].state = "active")]
  /\ UNCHANGED <<cl, att, disc, known, current, queue, server>>

----------------------------------------------------------------------------

\* The steps of connectCore, of the executors and of the queue. Executors are
\* created and disposed of; whether a cleanup is clean is not promised.
ServerProgress(a) ==
  \/ BeginConnect(a) \/ ReadWorkspaces(a) \/ CreateGeneration(a)
  \/ Established(a) \/ FactoryFailed(a)
  \/ \E ok \in BOOLEAN : CreateExecutor(a, ok)
  \/ \E end \in {"clean", "complete", "dirty"} : CleanupEnds(a, end)
  \/ Barrier(a)

RemNext ==
  \/ \E a \in Attempts :
       \/ ServerProgress(a) \/ ServerDeadline(a) \/ LeaseExpires(a)
       \/ Disconnect(a) \/ DisconnectDeadline(a)
       \/ ConnectReply(a) \/ ExecuteStart(a)
  \/ \E k \in Clients :
       Connect(k) \/ ClientDeadline(k) \/ ClientFails(k) \/ Dispose(k) \/ DisposalSettles(k)
       \/ SendStart(k)
  \/ DisposeServer \/ ServerDisposed \/ ServerGone

----------------------------------------------------------------------------
(* Properties *)

\* The helper runs one executor: a client that connects while another's is being
\* created, disposed of or cannot be disposed of waits for it.
OneRemoteExecutor ==
  /\ Cardinality({a \in Attempts : gen[a].exec \in {"creating", "live"}}) <= 1
  /\ \A a \in Attempts : gen[a].exec \in {"creating", "live"} => current = a

\* A client whose disposal succeeds has no agent at work in the codespace, however
\* its connects, its failure, the server's deadlines and its lease crossed.
CleanupIsTrue ==
  \A k \in Clients : cl[k].disposal = "done" =>
    \A a \in Attempts : Owner(a) = k => ~gen[a].work

\* Generations do not overlap, and one that is reported clean is.
GenerationsSound == RemTypeOK /\ OneRemoteExecutor /\ CleanupIsTrue
====
