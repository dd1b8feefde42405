---- MODULE Enrollment ----
(***************************************************************************)
(* Pairing over one invitation: the coordinators' WebSocketPeerTransport   *)
(* (src/src/peer) against the worker's PairingService, PeerRevocation-     *)
(* Service and RpcPeer (src/src/gateway).  A coordinator says hello,       *)
(* authenticates, stores a candidate profile and commits; the worker       *)
(* stores a pending peer, then commits it for good.  Requests and answers  *)
(* are lost with their connection, invitations and pending peers expire,   *)
(* the user revokes, either side crashes between two writes.               *)
(*                                                                         *)
(* Proofs are not modelled: a proof is right when it is about the same     *)
(* enrollment.  Mutations of the records run one at a time (`run`), in     *)
(* any order: in the code they queue.                                      *)
(***************************************************************************)
EXTENDS Naturals, FiniteSets

CONSTANTS Coordinators, Connections,
          MaxEnrollments,   \* bound: enrollment identities handed out
          MaxTroubles       \* bound: lost connections, crashes, failed writes and revocations

\* The user at the worker is not one of its connections.
ASSUME EnrollAssumption == MaxEnrollments \in Nat /\ "desk" \notin Connections

VARIABLES rec,   \* the worker's stored records and keys
          run,   \* its mutation of the records under way
          srv,   \* its connections: RpcPeer and AuthenticationSession
          crd,   \* the coordinators: profile, keys, the call under way
          trouble

enrollVars == <<rec, run, srv, crd, trouble>>

Enrollments == 1..MaxEnrollments

NoEntry == [st |-> "none", refs |-> {}, tasks |-> FALSE, cleanup |-> FALSE]
NoRecords ==
  [inv |-> "none", key |-> FALSE, made |-> FALSE, next |-> 1,
   pending |-> [e \in Enrollments |-> "none"], roots |-> {},
   peers |-> [e \in Enrollments |-> "none"],
   denied |-> {}, entries |-> [e \in Enrollments |-> NoEntry]]
Resting == [op |-> "none", by |-> "desk", at |-> "none", e |-> 0, todo |-> {}, failed |-> FALSE]
NoPeer == [c |-> "none", cut |-> TRUE, open |-> FALSE, sess |-> "none", of |-> 0, e |-> 0,
           named |-> 0, auth |-> 0, req |-> "none", at |-> "idle", mode |-> "none", reply |-> "none"]
NewCoordinator == [profile |-> "invited", e |-> 0, keys |-> {"pairing"}, at |-> "off", conn |-> "none"]

\* The coordinators that were given the invitation, and the troubles left out.
EnrollInitFor(invited, spared) ==
  /\ rec = NoRecords /\ run = Resting
  /\ srv = [n \in Connections |-> NoPeer]
  /\ crd = [c \in Coordinators |-> IF c \in invited THEN NewCoordinator ELSE [NewCoordinator EXCEPT !.keys = {}]]
  /\ trouble = spared

Trouble == trouble < MaxTroubles /\ trouble' = trouble + 1
Smooth == UNCHANGED trouble

----------------------------------------------------------------------------
(* The worker: who may, and the connection *)

\* assertAllowed
Allowed(e) == e \notin rec.denied /\ rec.entries[e].st = "none"

\* assertConnectionOpen: the same connection is still registered.
StillOpen(n) == srv[n].open

Answered(r, k) == [r EXCEPT !.req = "none", !.at = "idle", !.reply = k]
Reply(n, k) == srv' = [srv EXCEPT ![n] = Answered(srv[n], k)]

\* A connection is accepted: registerConnection.
Accept(c, n, mode) ==
  [NoPeer EXCEPT !.c = c, !.cut = FALSE, !.open = TRUE, !.e = crd[c].e, !.mode = mode, !.req = "hello"]

\* disposeConnection: its sessions go, and an undelivered request.
DisposedPeer(r) ==
  [r EXCEPT !.open = FALSE, !.sess = "none", !.of = 0, !.named = 0, !.auth = 0,
            !.req = IF r.at = "idle" THEN "none" ELSE r.req]

\* The worker sees that the other side is gone.
DisposeConnection(n) ==
  /\ srv[n].cut /\ srv[n].open
  /\ srv' = [srv EXCEPT ![n] = DisposedPeer(srv[n])]
  /\ UNCHANGED <<rec, run, crd>> /\ Smooth

\* A connection whose last handler has ended.
Unused(n) == ~srv[n].open /\ srv[n].at = "idle"

\* RpcPeer.revokePeer for every peer of the server.
WithoutPeer(e) ==
  [n \in Connections |-> IF srv[n].open /\ e \in {srv[n].auth, srv[n].named}
                         THEN [DisposedPeer(srv[n]) EXCEPT !.cut = TRUE]
                         ELSE srv[n]]

\* storeSession, expiry of a session.
SessionExpires(n) ==
  /\ srv[n].sess # "none"
  /\ srv' = [srv EXCEPT ![n] = [srv[n] EXCEPT !.sess = "none", !.of = 0]]
  /\ UNCHANGED <<rec, run, crd>> /\ Trouble

InvitationExpires ==
  /\ rec.inv = "live" /\ rec' = [rec EXCEPT !.inv = "expired"]
  /\ UNCHANGED <<run, srv, crd>> /\ Trouble

PendingExpires(e) ==
  /\ rec.pending[e] = "live" /\ rec' = [rec EXCEPT !.pending[e] = "expired"]
  /\ UNCHANGED <<run, srv, crd>> /\ Trouble

----------------------------------------------------------------------------
(* Mutations of the records *)

Start(op, by, at, e, todo) ==
  run = Resting /\ run' = [op |-> op, by |-> by, at |-> at, e |-> e, todo |-> todo, failed |-> FALSE]

Doing(op, at) == run.op = op /\ run.at = at

\* What pruneExpiredRecords finds when it starts.
Stale ==
  {<<"inv", e>> : e \in {f \in {0} : rec.inv = "expired"}}
    \cup {<<"pending", e>> : e \in {f \in Enrollments : rec.pending[f] = "expired"}}
    \cup {<<"peer", e>> : e \in {f \in Enrollments : rec.peers[f] = "cleanup"}}

\* A mutation that throws: the caller's request fails.
Throws(k) ==
  /\ run' = Resting
  /\ IF run.by = "desk" THEN UNCHANGED srv ELSE Reply(run.by, k)

\* A write fails.
WriteFails ==
  /\ \/ run.op \in {"prune", "create"} /\ run.at \in {"prune", "record"}
     \/ Doing("authenticate", "root") \/ run.at = "clean" \/ Doing("revoke", "record")
     \/ Doing("revokeInvitation", "record")
  /\ Throws("ERROR")
  /\ UNCHANGED <<rec, crd>> /\ Trouble

\* cleanupCommittedPeer: the invitation's key, then the record.
CleanedPeer(e) ==
  IF rec.key THEN [rec EXCEPT !.key = FALSE] ELSE [rec EXCEPT !.peers[e] = "active"]

\* pruneExpiredRecords: one write at a time.
PruneInvitation ==
  /\ run.at = "prune" /\ <<"inv", 0>> \in run.todo
  /\ IF rec.key THEN rec' = [rec EXCEPT !.key = FALSE] /\ UNCHANGED run
                ELSE rec' = [rec EXCEPT !.inv = "none"] /\ run' = [run EXCEPT !.todo = @ \ {<<"inv", 0>>}]
  /\ UNCHANGED <<srv, crd>> /\ Smooth

PrunePending(e) ==
  /\ run.at = "prune" /\ <<"pending", e>> \in run.todo
  /\ IF e \in rec.roots /\ rec.peers[e] = "none"
     THEN rec' = [rec EXCEPT !.roots = @ \ {e}] /\ UNCHANGED run
     ELSE rec' = [rec EXCEPT !.pending[e] = "none"] /\ run' = [run EXCEPT !.todo = @ \ {<<"pending", e>>}]
  /\ UNCHANGED <<srv, crd>> /\ Smooth

PrunePeer(e) ==
  /\ run.at = "prune" /\ <<"peer", e>> \in run.todo
  /\ rec' = CleanedPeer(e)
  /\ run' = IF rec.key THEN run ELSE [run EXCEPT !.todo = @ \ {<<"peer", e>>}]
  /\ UNCHANGED <<srv, crd>> /\ Smooth

\* createInvitation
CreateInvitation ==
  /\ ~rec.made /\ Start("create", "desk", "prune", 0, Stale)
  /\ UNCHANGED <<rec, srv, crd>> /\ Smooth

StoreInvitationKey ==
  /\ Doing("create", "prune") /\ run.todo = {}
  /\ rec' = [rec EXCEPT !.key = TRUE, !.made = TRUE] /\ run' = [run EXCEPT !.at = "record"]
  /\ UNCHANGED <<srv, crd>> /\ Smooth

StoreInvitationRecord(ok) ==
  /\ Doing("create", "record")
  /\ rec' = IF ok THEN [rec EXCEPT !.inv = "live"] ELSE [rec EXCEPT !.key = FALSE]
  /\ run' = Resting
  /\ UNCHANGED <<srv, crd>> /\ IF ok THEN Smooth ELSE Trouble

\* revokeInvitation
RevokeInvitation ==
  /\ rec.inv # "none" /\ Start("revokeInvitation", "desk", "record", 0, {})
  /\ rec' = [rec EXCEPT !.key = FALSE]
  /\ UNCHANGED <<srv, crd>> /\ Trouble

RevokeInvitationRecord ==
  /\ Doing("revokeInvitation", "record")
  /\ rec' = [rec EXCEPT !.inv = "none"] /\ run' = Resting
  /\ UNCHANGED <<srv, crd>> /\ Smooth

----------------------------------------------------------------------------
(* mesh.hello *)

Hello(n) ==
  /\ srv[n].req = "hello" /\ srv[n].at = "idle" /\ StillOpen(n)
  /\ IF srv[n].mode = "reconnect" /\ ~Allowed(srv[n].e)
     THEN Reply(n, "AUTH_FAILED")
     ELSE srv' = [srv EXCEPT ![n] = [srv[n] EXCEPT !.at = "prune",
                                          !.named = IF srv[n].mode = "reconnect" THEN srv[n].e ELSE 0]]
  /\ UNCHANGED <<rec, run, crd>> /\ Smooth

Prune(n) ==
  /\ srv[n].at = "prune" /\ Start("prune", n, "prune", 0, Stale)
  /\ UNCHANGED <<rec, srv, crd>> /\ Smooth

Pruned ==
  /\ Doing("prune", "prune") /\ run.todo = {}
  /\ run' = Resting /\ srv' = [srv EXCEPT ![run.by].at = "record"]
  /\ UNCHANGED <<rec, crd>> /\ Smooth

\* helloCore: the record, then its key, each awaited.
HelloRecord(n) ==
  /\ srv[n].at = "record"
  /\ IF /\ StillOpen(n)
        /\ srv[n].mode = "enrollment" => rec.inv = "live"
        /\ srv[n].mode = "reconnect" => rec.peers[srv[n].e] # "none" /\ Allowed(srv[n].e)
     THEN srv' = [srv EXCEPT ![n].at = "key"]
     ELSE Reply(n, "AUTH_FAILED")
  /\ UNCHANGED <<rec, run, crd>> /\ Smooth

HelloKey(n) ==
  /\ srv[n].at = "key"
  /\ IF /\ StillOpen(n)
        /\ srv[n].mode = "enrollment" => rec.key
        /\ srv[n].mode = "reconnect" => srv[n].e \in rec.roots /\ Allowed(srv[n].e)
     THEN srv' = [srv EXCEPT ![n] = Answered([srv[n] EXCEPT !.sess = srv[n].mode], "ok")]
     ELSE Reply(n, "AUTH_FAILED")
  /\ UNCHANGED <<rec, run, crd>> /\ Smooth

----------------------------------------------------------------------------
(* mesh.authenticate *)

Authenticate(n) ==
  /\ srv[n].req = "authenticate" /\ srv[n].at = "idle" /\ StillOpen(n) /\ run = Resting
  /\ CASE srv[n].sess = "none" -> Reply(n, "AUTH_FAILED") /\ UNCHANGED <<run, rec>>
       [] srv[n].sess = "reconnect" ->
            /\ IF Allowed(srv[n].e)
               THEN srv' = [srv EXCEPT ![n] = [srv[n] EXCEPT !.sess = "none", !.at = "mark"]]
               ELSE Reply(n, "AUTH_FAILED")
            /\ UNCHANGED <<run, rec>>
       [] OTHER ->
            LET e == rec.next IN
            /\ e <= MaxEnrollments
            /\ Start("authenticate", n, "root", e, {})
            /\ rec' = [rec EXCEPT !.next = e + 1]
            /\ srv' = [srv EXCEPT ![n] = [srv[n] EXCEPT !.at = "busy", !.named = e]]
  /\ UNCHANGED crd /\ Smooth

StoreRoot ==
  /\ Doing("authenticate", "root")
  /\ rec' = [rec EXCEPT !.roots = @ \cup {run.e}] /\ run' = [run EXCEPT !.at = "pending"]
  /\ UNCHANGED <<srv, crd>> /\ Smooth

\* The pending record; or not, and the key is deleted again.  The session may
\* have gone meanwhile.
StorePending(ok) ==
  /\ Doing("authenticate", "pending")
  /\ LET n == run.by IN
     IF ok
     THEN /\ rec' = [rec EXCEPT !.pending[run.e] = "live"]
          /\ IF Allowed(run.e) /\ srv[n].sess = "enrollment"
             THEN srv' = [srv EXCEPT ![n] = Answered([srv[n] EXCEPT !.of = run.e, !.e = run.e], "ok")]
             ELSE Reply(n, "AUTH_FAILED")
     ELSE rec' = [rec EXCEPT !.roots = @ \ {run.e}] /\ Reply(n, "ERROR")
  /\ run' = Resting
  /\ UNCHANGED crd /\ IF ok THEN Smooth ELSE Trouble

----------------------------------------------------------------------------
(* mesh.enrollmentCommit *)

Commit(n) ==
  /\ srv[n].req = "commit" /\ srv[n].at = "idle" /\ StillOpen(n) /\ run = Resting
  /\ LET e == srv[n].e IN
     IF ~Allowed(e) \/ (srv[n].sess # "none" /\ srv[n].of # e)
     THEN Reply(n, "AUTH_FAILED") /\ UNCHANGED run
     ELSE /\ srv' = [srv EXCEPT ![n] = [srv[n] EXCEPT !.at = "busy", !.named = e]]
          /\ Start("commit", n, "check", e, {})
  /\ UNCHANGED <<rec, crd>> /\ Smooth

\* PairingRecordStore.commitPeer: the peer, the invitation and the pending
\* record in one write.
CommitPeer(e) ==
  [rec EXCEPT !.peers[e] = "cleanup", !.inv = "none", !.pending[e] = "none"]

CommitCheck ==
  /\ Doing("commit", "check")
  /\ LET e == run.e IN
     CASE rec.pending[e] = "none" /\ rec.peers[e] = "none" ->
            Throws("ENROLLMENT_EXPIRED") /\ UNCHANGED rec
       [] rec.pending[e] = "expired" -> Throws("ENROLLMENT_EXPIRED") /\ UNCHANGED rec
       [] rec.pending[e] # "expired" /\ e \notin rec.roots
            /\ ~(rec.pending[e] = "none" /\ rec.peers[e] = "none") ->
            Throws("AUTH_FAILED") /\ UNCHANGED rec
       [] rec.pending[e] = "none" /\ rec.peers[e] # "none" /\ e \in rec.roots ->
            run' = [run EXCEPT !.at = "clean"] /\ UNCHANGED <<rec, srv>>
       [] rec.pending[e] = "live" /\ e \in rec.roots ->
            IF rec.inv = "none"
            THEN Throws("AUTH_FAILED") /\ UNCHANGED rec
            ELSE rec' = CommitPeer(e) /\ run' = [run EXCEPT !.at = "clean"] /\ UNCHANGED srv
  /\ UNCHANGED crd /\ Smooth

CommitClean ==
  /\ Doing("commit", "clean") /\ rec.peers[run.e] = "cleanup"
  /\ rec' = CleanedPeer(run.e)
  /\ UNCHANGED <<run, srv, crd>> /\ Smooth

CommitEnd ==
  /\ Doing("commit", "clean") /\ rec.peers[run.e] = "active"
  /\ LET n == run.by IN
     IF Allowed(run.e) /\ StillOpen(n)
     THEN srv' = [srv EXCEPT ![n] = [srv[n] EXCEPT !.sess = "none", !.of = 0, !.at = "mark"]]
     ELSE Reply(n, "AUTH_FAILED")
  /\ run' = Resting
  /\ UNCHANGED <<rec, crd>> /\ Smooth

\* markAuthenticated, when the mutation has been released.
Mark(n) ==
  /\ srv[n].at = "mark"
  /\ IF Allowed(srv[n].e)
     THEN srv' = [srv EXCEPT ![n] =
                    Answered([srv[n] EXCEPT !.auth = IF StillOpen(n) THEN srv[n].e ELSE 0], "ok")]
     ELSE Reply(n, "AUTH_FAILED")
  /\ UNCHANGED <<rec, run, crd>> /\ Smooth

----------------------------------------------------------------------------
(* PeerRevocationService *)

\* revoke: a known peer is denied at once.
RevokeKnown(e) ==
  /\ rec.entries[e].st = "none" /\ (rec.peers[e] # "none" \/ rec.pending[e] # "none")
  /\ Start("revoke", "desk", "record", e,
           {"root"} \cup (IF rec.peers[e] = "cleanup" \/ (rec.pending[e] # "none" /\ rec.inv # "none")
                          THEN {"inv"} ELSE {}))
  /\ rec' = [rec EXCEPT !.denied = @ \cup {e}]
  /\ UNCHANGED <<srv, crd>> /\ Trouble

RecordRevocation ==
  /\ Doing("revoke", "record")
  /\ rec' = [rec EXCEPT !.entries[run.e] = [st |-> "some", refs |-> run.todo, tasks |-> TRUE, cleanup |-> TRUE]]
  /\ run' = [run EXCEPT !.at = "close"]
  /\ UNCHANGED <<srv, crd>> /\ Smooth

\* retryCleanup, at the start and when the user asks again.
RetryCleanup(e) ==
  /\ rec.entries[e].st = "some" /\ Start("revoke", "desk", "close", e, {})
  /\ rec.entries[e].cleanup \/ rec.entries[e].tasks
  /\ UNCHANGED <<rec, srv, crd>> /\ Smooth

ClosePeer ==
  /\ Doing("revoke", "close")
  /\ srv' = WithoutPeer(run.e)
  /\ run' = [run EXCEPT !.at = "tasks", !.todo = rec.entries[run.e].refs]
  /\ UNCHANGED <<rec, crd>> /\ Smooth

CancelPeerTasks(ok) ==
  /\ Doing("revoke", "tasks")
  /\ rec' = IF ok THEN [rec EXCEPT !.entries[run.e].tasks = FALSE] ELSE rec
  /\ run' = [run EXCEPT !.at = "keys", !.failed = ~ok]
  /\ UNCHANGED <<srv, crd>> /\ IF ok THEN Smooth ELSE Trouble

\* A key and its reference; a key that cannot be deleted does not stop the others.
DeleteKey(k, ok) ==
  /\ Doing("revoke", "keys") /\ k \in run.todo
  /\ rec' = IF ~ok THEN rec
            ELSE IF k = "root" THEN [rec EXCEPT !.roots = @ \ {run.e}, !.entries[run.e].refs = @ \ {k}]
            ELSE [rec EXCEPT !.key = FALSE, !.entries[run.e].refs = @ \ {k}]
  /\ run' = [run EXCEPT !.todo = @ \ {k}, !.failed = @ \/ ~ok]
  /\ UNCHANGED <<srv, crd>> /\ IF ok THEN Smooth ELSE Trouble

FinishCleanup ==
  /\ Doing("revoke", "keys") /\ run.todo = {}
  /\ rec' = IF run.failed \/ rec.entries[run.e].refs # {} THEN rec
            ELSE [rec EXCEPT !.inv = IF rec.pending[run.e] # "none" THEN "none" ELSE rec.inv,
                             !.pending[run.e] = "none",
                             !.peers[run.e] = IF rec.peers[run.e] = "cleanup" THEN "active" ELSE rec.peers[run.e],
                             !.entries[run.e].cleanup = FALSE]
  /\ run' = Resting
  /\ UNCHANGED <<srv, crd>> /\ Smooth

WorkerCrash ==
  /\ run' = Resting /\ rec' = [rec EXCEPT !.denied = {}]
  /\ srv' = [n \in Connections |-> NoPeer]
  /\ UNCHANGED crd /\ Trouble

----------------------------------------------------------------------------
(* The coordinator *)

Request(n, req) == srv' = [srv EXCEPT ![n] = [srv[n] EXCEPT !.req = req, !.reply = "none"]]
AskWorker(c, at, req) == crd' = [crd EXCEPT ![c].at = at] /\ Request(crd[c].conn, req)

\* The connection of c is still up, and what it was answered there.
Linked(c) == crd[c].conn # "none" /\ srv[crd[c].conn].c = c /\ ~srv[crd[c].conn].cut
Answer(c) == IF crd[c].conn = "none" THEN "none" ELSE srv[crd[c].conn].reply

\* client.close()
CloseClient(c) ==
  IF Linked(c) THEN srv' = [srv EXCEPT ![crd[c].conn].cut = TRUE] ELSE UNCHANGED srv

\* The attempt has failed.
HangUp(c) == crd' = [crd EXCEPT ![c].at = "off", ![c].conn = "none"] /\ CloseClient(c)

\* connect: a new enrollment, or a reconnection.
Dial(c, n) ==
  /\ crd[c].at = "off" /\ Unused(n)
  /\ IF crd[c].profile = "invited" THEN "pairing" \in crd[c].keys ELSE "credential" \in crd[c].keys
  /\ LET mode == IF crd[c].profile = "invited" THEN "enrollment" ELSE "reconnect" IN
     srv' = [srv EXCEPT ![n] = Accept(c, n, mode)]
  /\ crd' = [crd EXCEPT ![c].conn = n, ![c].at = "hello"]
  /\ UNCHANGED <<rec, run>> /\ Smooth

\* retryPendingCommit: the reconnection of a candidate was refused.
RetryPendingCommit(c) ==
  /\ Linked(c) /\ crd[c].at \in {"hello", "reconnect"} /\ Answer(c) = "AUTH_FAILED"
  /\ crd[c].profile = "candidate"
  /\ IF "commit" \in crd[c].keys THEN AskWorker(c, "commit", "commit") ELSE HangUp(c)
  /\ UNCHANGED <<rec, run>> /\ Smooth

Refused(c) ==
  /\ Linked(c) /\ crd[c].at \in {"hello", "authenticate", "reconnect", "commit"}
  /\ Answer(c) \notin {"none", "ok"}
  /\ ~(Answer(c) = "AUTH_FAILED" /\ crd[c].profile = "candidate" /\ crd[c].at \in {"hello", "reconnect"})
  /\ HangUp(c)
  /\ UNCHANGED <<rec, run>> /\ Smooth

HelloOk(c) ==
  /\ Linked(c) /\ crd[c].at = "hello" /\ Answer(c) = "ok"
  /\ AskWorker(c, IF crd[c].profile = "invited" THEN "authenticate" ELSE "reconnect", "authenticate")
  /\ UNCHANGED <<rec, run>> /\ Smooth

\* A connection or a request is lost, at any time, and the attempt with it.
Lost(c) ==
  /\ crd[c].at \in {"hello", "authenticate", "reconnect", "commit", "online"} /\ HangUp(c)
  /\ UNCHANGED <<rec, run>> /\ IF Linked(c) THEN Trouble ELSE Smooth

\* enroll: the keys, one after the other, then the candidate.
StoreCredential(c, ok) ==
  /\ Linked(c) /\ crd[c].at = "authenticate" /\ Answer(c) = "ok"
  /\ IF ok THEN /\ crd' = [crd EXCEPT ![c].keys = @ \cup {"credential"}, ![c].at = "proof",
                                      ![c].e = srv[crd[c].conn].e]
                /\ UNCHANGED srv
           ELSE HangUp(c)
  /\ UNCHANGED <<rec, run>> /\ IF ok THEN Smooth ELSE Trouble

StoreCommitProof(c) ==
  /\ crd[c].at = "proof"
  /\ crd' = [crd EXCEPT ![c].keys = @ \cup {"commit"}, ![c].at = "candidate"]
  /\ UNCHANGED <<rec, run, srv>> /\ Smooth

\* deleteCandidateSecrets: the candidate is not stored.
DeleteCandidateSecrets(c) ==
  /\ crd[c].at \in {"proof", "candidate"}
  /\ crd' = [crd EXCEPT ![c].keys = @ \ {"credential", "commit"}, ![c].at = "off", ![c].conn = "none", ![c].e = 0]
  /\ CloseClient(c)
  /\ UNCHANGED <<rec, run>> /\ Trouble

\* profiles.store, whose answer may be lost (reconcileProfileStore): unknown
\* ends the attempt and keeps the keys.
StoreCandidateProfile(c, answer) ==
  /\ crd[c].at = "candidate"
  /\ IF answer = "unknown"
     THEN /\ crd' = [crd EXCEPT ![c].profile = "candidate", ![c].at = "off", ![c].conn = "none"]
          /\ CloseClient(c)
     ELSE /\ crd' = [crd EXCEPT ![c].profile = "candidate", ![c].at = "commit"]
          /\ IF Linked(c) THEN Request(crd[c].conn, "commit") ELSE UNCHANGED srv
  /\ UNCHANGED <<rec, run>> /\ IF answer = "unknown" THEN Trouble ELSE Smooth

\* The worker said so: by the commit, or by accepting the reconnection.
Confirmed(c) ==
  /\ Linked(c) /\ crd[c].at \in {"commit", "reconnect"} /\ Answer(c) = "ok"
  /\ crd' = [crd EXCEPT ![c].at = IF crd[c].profile = "complete" THEN "online" ELSE "confirmed"]
  /\ UNCHANGED <<rec, run, srv>> /\ Smooth

\* Mutant: the recovery proof is deleted as soon as the commit is sent.
DropsEarly(c) ==
  /\ crd[c].at \in {"commit", "confirmed"} /\ crd[c].keys \cap {"commit", "pairing"} # {}
  /\ crd' = [crd EXCEPT ![c].keys = @ \ {IF "commit" \in crd[c].keys THEN "commit" ELSE "pairing"}]
  /\ UNCHANGED <<rec, run, srv>> /\ Smooth

\* completeEnrollment: two keys, then the profile.
DropEnrollmentSecrets(c) ==
  /\ crd[c].at = "confirmed" /\ crd[c].keys \cap {"commit", "pairing"} # {}
  /\ crd' = [crd EXCEPT ![c].keys = @ \ {IF "commit" \in crd[c].keys THEN "commit" ELSE "pairing"}]
  /\ UNCHANGED <<rec, run, srv>> /\ Smooth

StoreCompleted(c, ok) ==
  /\ crd[c].at = "confirmed" /\ crd[c].keys \cap {"commit", "pairing"} = {}
  /\ IF ok THEN crd' = [crd EXCEPT ![c].profile = "complete", ![c].at = "online"] /\ UNCHANGED srv
           ELSE HangUp(c)
  /\ UNCHANGED <<rec, run>> /\ IF ok THEN Smooth ELSE Trouble

\* The coordinator's process ends between two writes.
CoordinatorCrash(c) ==
  /\ crd[c].at # "off" /\ HangUp(c)
  /\ UNCHANGED <<rec, run>> /\ Trouble

EnrollNext ==
  \/ \E n \in Connections :
       DisposeConnection(n) \/ SessionExpires(n) \/ Hello(n) \/ Prune(n) \/ HelloRecord(n)
         \/ HelloKey(n) \/ Authenticate(n) \/ Commit(n) \/ Mark(n)
         \/ \E c \in Coordinators : Dial(c, n)
  \/ \E e \in Enrollments :
       PendingExpires(e) \/ PrunePending(e) \/ PrunePeer(e) \/ RevokeKnown(e) \/ RetryCleanup(e)
  \/ InvitationExpires \/ WriteFails \/ PruneInvitation \/ CreateInvitation \/ StoreInvitationKey
  \/ RevokeInvitation \/ RevokeInvitationRecord \/ Pruned \/ StoreRoot \/ CommitCheck \/ CommitClean
  \/ CommitEnd \/ RecordRevocation \/ ClosePeer \/ FinishCleanup \/ WorkerCrash
  \/ \E ok \in BOOLEAN :
       StoreInvitationRecord(ok) \/ StorePending(ok) \/ CancelPeerTasks(ok)
         \/ \E k \in {"root", "inv"} : DeleteKey(k, ok)
         \/ \E c \in Coordinators : StoreCredential(c, ok) \/ StoreCompleted(c, ok)
  \/ \E c \in Coordinators :
       RetryPendingCommit(c) \/ Refused(c) \/ HelloOk(c) \/ Lost(c) \/ StoreCommitProof(c)
         \/ DeleteCandidateSecrets(c) \/ Confirmed(c) \/ DropEnrollmentSecrets(c) \/ CoordinatorCrash(c)
         \/ \E a \in {"stored", "unknown"} : StoreCandidateProfile(c, a)

EnrollSpec ==
  /\ \E invited \in SUBSET Coordinators : EnrollInitFor(invited, 0)
  /\ [][EnrollNext]_enrollVars

----------------------------------------------------------------------------
(* Properties *)

\* A coordinator that has given up the means to finish its enrollment, the
\* commit proof or the candidate profile, is a peer of the worker, whatever was
\* lost or crashed; and can still authenticate unless it was revoked.
NotStranded ==
  \A c \in Coordinators :
    LET k == crd[c] IN
    \/ k.profile = "invited"
    \/ k.profile = "candidate" /\ {"commit", "credential"} \subseteq k.keys
    \/ /\ rec.peers[k.e] # "none" /\ "credential" \in k.keys
       /\ Allowed(k.e) => k.e \in rec.roots

\* However many coordinators hold the invitation and retry their commits, one
\* of them becomes a peer.
OnePeerPerInvitation == Cardinality({e \in Enrollments : rec.peers[e] # "none"}) <= 1

\* Once a revocation has closed the peer's connections, none is authenticated
\* as that peer again; once it has cleaned up, no key of the peer is left.
RevokedIsShut ==
  \A e \in Enrollments : rec.entries[e].st = "some" =>
    /\ ~(run.op = "revoke" /\ run.e = e /\ run.at = "close") => \A n \in Connections : srv[n].auth # e
    /\ ~rec.entries[e].cleanup => e \notin rec.roots /\ rec.pending[e] = "none"

\* What an enrollment keeps between its two ends, until it is revoked.
PairingSound == NotStranded /\ OnePeerPerInvitation /\ RevokedIsShut
====
