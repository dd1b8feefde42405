---- MODULE PeerLinks ----
(***************************************************************************)
(* The class PeerConnectionManager of src/src/peer and the PeerConnection  *)
(* of one peer: the peer is added from an invitation, connected and        *)
(* reconnected by timers, disconnected, removed with its credentials, and  *)
(* left behind as a tombstone when that fails; the manager is disposed,    *)
(* or its process crashes, and another one restores what is stored.        *)
(*                                                                         *)
(* What the two devices say to each other is in Enrollment; here a         *)
(* connection attempt only ends well or not, after the writes of the       *)
(* enrollment.  Every write to a store may throw, and may have been done   *)
(* when it does; every read may throw.  connect(), called for peers of     *)
(* the account, and remove() do not overlap here, nor remove() and an      *)
(* add() that has not stored its profile.                                  *)
(***************************************************************************)
EXTENDS Naturals

CONSTANTS MaxLinkFaults,   \* bound: storage operations that fail
          MaxAttempts      \* bound: connection attempts

VARIABLES profile,   \* what the profile store has
          secrets,   \* the keys in the secret store
          mgr,       \* the manager and its ManagedPeer
          conn,      \* the PeerConnection
          ops,       \* the calls under way
          past       \* bounds, and what happened before

linkVars == <<profile, secrets, mgr, conn, ops, past>>

Keys == {"pairing", "credential", "commit"}
Calls == {"add", "try", "remove", "rollback", "dispose", "restore"}

\* Profiles: invited, candidate (enrolled, not confirmed), complete, or tomb.
NoProfile == [st |-> "none", refs |-> {}]
Tomb(refs) == [st |-> "tomb", refs |-> refs]
Invited == [st |-> "invited", refs |-> {"pairing"}]
Candidate == [st |-> "candidate", refs |-> Keys]
Complete == [st |-> "complete", refs |-> {"credential"}]

\* isPeerCleanupPending, isUsablePeerProfile
CleanupPending(x) == x.st = "tomb"
Usable(x) == x.st \notin {"none", "tomb"}

\* isProvisionalProfile
IsProvisional(x) == x.st \in {"invited", "candidate"}

NoManager == [managed |-> FALSE, enabled |-> FALSE, provisional |-> FALSE, timer |-> FALSE,
              owner |-> TRUE, disposed |-> FALSE, complete |-> FALSE, background |-> FALSE]
NoLink == [at |-> "none", aborted |-> FALSE, session |-> FALSE, state |-> "offline",
           closing |-> FALSE, intentional |-> FALSE, waits |-> {}, again |-> {}]
NoCall == [at |-> "none", refs |-> {}, todo |-> {}, failed |-> FALSE, spare |-> FALSE]

LinksInit ==
  /\ profile = NoProfile /\ secrets = {}
  /\ mgr = NoManager /\ conn = NoLink
  /\ ops = [o \in Calls |-> NoCall]
  /\ past = [faults |-> 0, attempts |-> 0, removed |-> FALSE, late |-> FALSE, leaked |-> {}]

Faulty == past.faults < MaxLinkFaults
StoreFails == past' = [past EXCEPT !.faults = @ + 1]

\* A write is done; or it throws, without its effect or with it.
Outcomes == {"done", "lost", "landed"}
May(how) == how = "done" \/ Faulty
Lands(how) == how # "lost"
Tallied(how) == IF how = "done" THEN UNCHANGED past ELSE StoreFails

\* The code gives up these keys: those that no profile refers to are left.
GivesUp(keys) ==
  past' = [past EXCEPT !.faults = @ + 1, !.leaked = @ \cup ((secrets' \cap keys) \ profile'.refs)]

CallGoes(o, at) == ops' = [ops EXCEPT ![o].at = at]

\* track, inflight: what dispose waits for. remove and disconnect are not.
Inflight ==
  \/ \E o \in {"add", "try", "rollback", "restore"} : ops[o].at # "none"
  \/ conn.waits # {} \/ conn.again # {}

----------------------------------------------------------------------------
(* The ManagedPeer *)

\* createManaged
Managed(x) == [x EXCEPT !.managed = TRUE, !.enabled = TRUE, !.provisional = IsProvisional(profile)]

\* clearTimers
Disabled(x) == [x EXCEPT !.enabled = FALSE, !.timer = FALSE]

\* scheduleReconnect
Scheduled(x) ==
  IF x.managed /\ x.enabled /\ ~x.disposed /\ x.owner THEN [x EXCEPT !.timer = TRUE] ELSE x

\* PeerConnection.connect: one attempt, which all callers share; a caller that
\* comes while the connection closes tries again after that.
Connecting(y, who) ==
  IF y.closing THEN [y EXCEPT !.again = @ \cup {who}]
  ELSE IF y.session THEN y
  ELSE IF y.at # "none" THEN [y EXCEPT !.waits = @ \cup {who}]
  ELSE [y EXCEPT !.at = "opening", !.aborted = FALSE, !.intentional = FALSE, !.state = "connecting",
                 !.waits = {who}]

\* PeerConnection.disconnect, as far as it goes at once.
Closing(y) == [y EXCEPT !.closing = TRUE, !.intentional = TRUE, !.aborted = @ \/ y.at # "none"]

Attempted == past' = [past EXCEPT !.attempts = @ + 1]

\* The peer is being removed, or was.
Leaving == ~mgr.managed \/ ops["remove"].at # "none"

----------------------------------------------------------------------------
(* The calls *)

\* add, with a new id.
Add ==
  /\ mgr.owner /\ ~mgr.disposed /\ ops["add"].at = "none"
  /\ profile.st = "none" /\ ~past.removed /\ ~mgr.managed /\ ops["rollback"].at = "none"
  /\ ops["restore"].at = "none"
  /\ CallGoes("add", "secret")
  /\ UNCHANGED <<profile, secrets, mgr, conn, past>>

\* What follows a failure before the connection is made; add has a profile to
\* spare, of which a tombstone can be made.
RollbackOfAdd ==
  ops' = [ops EXCEPT !["add"].at = "none",
                     !["rollback"] = [NoCall EXCEPT !.at = "reading", !.spare = TRUE]]

StoreInvitation(how) ==
  /\ ops["add"].at = "secret" /\ May(how)
  /\ secrets' = IF Lands(how) THEN secrets \cup {"pairing"} ELSE secrets
  /\ Tallied(how)
  /\ IF how = "done" /\ ~mgr.disposed THEN CallGoes("add", "profile") ELSE RollbackOfAdd
  /\ UNCHANGED <<profile, mgr, conn>>

\* prepare() may fail, too, when the profile is stored.
StoreProfile(how) ==
  /\ ops["add"].at = "profile" /\ May(how)
  /\ profile' = IF Lands(how) THEN Invited ELSE profile
  /\ IF how = "done" /\ ~mgr.disposed
     THEN /\ mgr' = [mgr EXCEPT !.managed = TRUE, !.enabled = TRUE, !.provisional = TRUE]
          /\ conn' = Connecting(NoLink, "add")
          /\ CallGoes("add", "connecting")
          /\ Attempted
     ELSE /\ RollbackOfAdd
          /\ Tallied(how)
          /\ UNCHANGED <<mgr, conn>>
  /\ UNCHANGED secrets

\* connect, of a peer that is enrolled: its timer is cleared, and it is tried
\* at once, along with an attempt that is under way.
Connect ==
  /\ mgr.owner /\ ~mgr.disposed /\ profile.st = "complete"
  /\ ops["remove"].at = "none" /\ ops["rollback"].at = "none"
  /\ "connect" \notin conn.waits \cup conn.again
  /\ mgr.managed \/ conn.at = "none"
  /\ past.attempts < MaxAttempts /\ Attempted
  /\ mgr' = [(IF mgr.managed THEN mgr ELSE Managed(mgr)) EXCEPT !.enabled = TRUE, !.timer = FALSE]
  /\ conn' = Connecting(IF mgr.managed THEN conn ELSE NoLink, "connect")
  /\ UNCHANGED <<profile, secrets, ops>>

Disconnect ==
  /\ mgr.owner /\ mgr.managed /\ ~conn.closing
  /\ conn.session \/ conn.at # "none" \/ mgr.timer
  /\ mgr' = Disabled(mgr)
  /\ conn' = Closing(conn)
  /\ UNCHANGED <<profile, secrets, ops, past>>

\* remove
RemovePeer ==
  /\ mgr.owner /\ ops["remove"].at = "none" /\ profile.st # "none" /\ ops["restore"].at = "none"
  /\ "connect" \notin conn.waits \cup conn.again
  /\ IF mgr.managed
     THEN mgr' = Disabled(mgr) /\ conn' = Closing(conn) /\ CallGoes("remove", "closing")
     ELSE UNCHANGED <<mgr, conn>> /\ CallGoes("remove", "reading")
  /\ UNCHANGED <<profile, secrets, past>>

\* The timer of scheduleReconnect; tryConnect waits for assertOwner.
ReconnectTimer ==
  /\ mgr.timer /\ ops["try"].at = "none"
  /\ mgr' = [mgr EXCEPT !.timer = FALSE]
  /\ CallGoes("try", "owner")
  /\ UNCHANGED <<profile, secrets, conn, past>>

\* Whether the peer is still enabled is not looked at again.
TryConnect ==
  /\ ops["try"].at = "owner" /\ past.attempts < MaxAttempts
  /\ ops' = [ops EXCEPT !["try"] = NoCall]
  /\ IF mgr.owner
     THEN /\ conn' = Connecting(conn, "try")
          /\ past' = [past EXCEPT !.attempts = @ + 1, !.late = @ \/ Leaving]
          /\ UNCHANGED mgr
     ELSE mgr' = [mgr EXCEPT !.background = TRUE] /\ UNCHANGED <<conn, past>>
  /\ UNCHANGED <<profile, secrets>>

LoseOwnership ==
  /\ mgr.owner
  /\ mgr' = [mgr EXCEPT !.owner = FALSE]
  /\ UNCHANGED <<profile, secrets, conn, ops, past>>

----------------------------------------------------------------------------
(* The connection *)

AttemptGoes(at) == conn' = [conn EXCEPT !.at = at]

\* establish: the profile is read and the socket opened; an invited peer is
\* enrolled first. The credential and the proof are stored, then the profile
\* that refers to them.
Open ==
  /\ conn.at = "opening" /\ ~conn.aborted /\ Usable(profile)
  /\ AttemptGoes(CASE profile.st = "invited" -> "enrolling"
                   [] profile.st = "candidate" -> "committing"
                   [] OTHER -> "greeting")
  /\ UNCHANGED <<profile, secrets, mgr, ops, past>>

\* The keys of an enrollment.
Enrolled == {"credential", "commit"}

StoreCredentials ==
  /\ conn.at = "enrolling" /\ "pairing" \in secrets
  /\ secrets' = secrets \cup Enrolled
  /\ past' = [past EXCEPT !.leaked = @ \ Enrolled]
  /\ AttemptGoes("recording")
  /\ UNCHANGED <<profile, mgr, ops>>

\* One of the two is not stored: the credential, and the attempt fails; or the
\* proof, and both are deleted first, which may fail.
StoreCredentialsFails ==
  /\ conn.at = "enrolling" /\ "pairing" \in secrets /\ Faulty
  /\ \E left \in SUBSET Enrolled : secrets' = (secrets \ Enrolled) \cup left
  /\ AttemptGoes("failing")
  /\ UNCHANGED <<profile, mgr, ops>>
  /\ GivesUp(Enrolled)

\* After an error the profile is read again: the candidate may be stored.
StoreCandidate(how) ==
  /\ conn.at = "recording" /\ how \in {"done", "landed"} /\ May(how)
  /\ profile' = Candidate
  /\ Tallied(how)
  /\ AttemptGoes("committing")
  /\ UNCHANGED <<secrets, mgr, ops>>

\* The profile that was there takes the keys of the enrollment with it, as far
\* as they can be deleted. When there is another one, or it cannot be read, it
\* is not known what is stored, and the keys stay.
CandidateFails(landed, left) ==
  /\ conn.at = "recording" /\ Faulty
  /\ profile' = IF landed THEN Candidate ELSE profile
  /\ landed \/ profile.st # "invited" => left = Enrolled
  /\ secrets' = secrets \ (Enrolled \ left)
  /\ GivesUp(Enrolled)
  /\ AttemptGoes("failing")
  /\ UNCHANGED <<mgr, ops>>

\* The peer has answered: the enrollment is committed, or the peer known.
PeerReplied ==
  /\ conn.at \in {"committing", "greeting"} /\ ~conn.aborted
  /\ AttemptGoes(IF conn.at = "committing" THEN "completing" ELSE "authenticated")
  /\ UNCHANGED <<profile, secrets, mgr, ops, past>>

\* completeEnrollment: the proof is deleted, then the invitation.
DropEnrollmentKeys ==
  /\ conn.at = "completing"
  /\ \/ secrets' = secrets \ {"commit", "pairing"} /\ AttemptGoes("storing") /\ UNCHANGED past
     \/ /\ Faulty /\ StoreFails
        /\ \E gone \in {{}, {"commit"}, {"commit", "pairing"}} : secrets' = secrets \ gone
        /\ AttemptGoes("failing")
  /\ UNCHANGED <<profile, mgr, ops>>

StoreComplete(how) ==
  /\ conn.at = "storing" /\ May(how)
  /\ profile' = IF Lands(how) THEN Complete ELSE profile
  /\ Tallied(how)
  /\ AttemptGoes(IF how = "done" THEN "authenticated" ELSE "failing")
  /\ UNCHANGED <<secrets, mgr, ops>>

\* The attempt has settled, with a session or without one: what add, connect
\* and tryConnect do next. An attempt that was aborted resolves, too.
Continue(state, ok) ==
  LET rollback == IF ok THEN "add" \in conn.waits /\ mgr.disposed
                  ELSE \/ "add" \in conn.waits /\ (mgr.disposed \/ state \in {"authFailed", "incompatible"})
                       \/ "try" \in conn.waits /\ mgr.provisional /\ state \in {"authFailed", "incompatible"}
      close == rollback \/ (ok /\ mgr.disposed /\ "connect" \in conn.waits)
      y == [conn EXCEPT !.at = "none", !.aborted = FALSE, !.state = state, !.session = (state = "online"),
                        !.waits = {}]
  IN /\ conn' = IF close THEN Closing(y) ELSE y
     /\ mgr' = IF rollback THEN Disabled(mgr)
               ELSE IF ok THEN [mgr EXCEPT !.provisional = FALSE]
               ELSE IF state = "offline" /\ conn.waits \cap {"add", "try"} # {} THEN Scheduled(mgr)
               ELSE mgr
     /\ ops' = [ops EXCEPT !["add"].at = IF "add" \in conn.waits THEN "none" ELSE ops["add"].at,
                           !["rollback"] = IF rollback
                                           THEN [NoCall EXCEPT !.at = "closing", !.spare = "add" \in conn.waits]
                                           ELSE ops["rollback"]]

\* A session; one that came too late is closed at once.
Established ==
  /\ conn.at = "authenticated"
  /\ Continue(IF conn.aborted THEN "offline" ELSE "online", TRUE)
  /\ UNCHANGED <<profile, secrets, past>>

\* The profile cannot be read, the socket or the handshake fails, or the store
\* did.
Fail(state) ==
  /\ conn.at \in {"opening", "enrolling", "committing", "greeting", "failing", "authenticated"}
  /\ state # "offline" => conn.at \in {"enrolling", "committing", "greeting"}
  /\ state = "rePairRequired" => conn.at = "committing"
  /\ Continue(IF conn.aborted THEN "offline" ELSE state, conn.aborted)
  /\ UNCHANGED <<profile, secrets, past>>

\* session.onClose
SessionCloses ==
  /\ conn.session
  /\ conn' = [conn EXCEPT !.session = FALSE, !.state = "offline"]
  /\ mgr' = IF conn.intentional THEN mgr ELSE Scheduled(mgr)
  /\ UNCHANGED <<profile, secrets, ops, past>>

\* disconnectLifecycle ends once the attempt has; then those that called
\* connect meanwhile start anew.
Disconnected ==
  /\ conn.closing /\ conn.at = "none"
  /\ LET y == [conn EXCEPT !.closing = FALSE, !.session = FALSE, !.state = "offline", !.again = {}]
     IN conn' = IF conn.again = {} THEN y ELSE [Connecting(y, "try") EXCEPT !.waits = conn.again]
  /\ past' = [past EXCEPT !.late = @ \/ (conn.again # {} /\ Leaving)]
  /\ UNCHANGED <<profile, secrets, mgr, ops>>

----------------------------------------------------------------------------
(* Removal of a profile and its credentials *)

\* The connection is closed, the peer forgotten.
Forget(o) ==
  /\ o \in {"remove", "rollback"} /\ ops[o].at = "closing" /\ ~conn.closing
  /\ mgr' = [Disabled(mgr) EXCEPT !.managed = FALSE]
  /\ conn' = IF conn.session \/ conn.at # "none" THEN conn ELSE NoLink
  /\ CallGoes(o, "reading")
  /\ UNCHANGED <<profile, secrets, past>>

\* cleanupPendingProfile begins, with the references of the tombstone.
CleaningUp(c, refs) == [c EXCEPT !.at = "deleting", !.refs = refs, !.todo = refs]

\* The end of one; the failure of a rollback is kept if tryConnect began it.
EndOf(o, bad) ==
  /\ ops' = [ops EXCEPT ![o] = IF o \in {"dispose", "restore"}
                               THEN [ops[o] EXCEPT !.at = "end", !.failed = @ \/ bad] ELSE NoCall]
  /\ mgr' = [mgr EXCEPT !.background = @ \/ (o = "rollback" /\ bad /\ ~ops[o].spare)]

\* The profile is read. A rollback leaves one that no longer has the invitation
\* alone; it deletes the key when it finds no profile and has none to spare, or
\* cannot read.
ReadProfile(o, ok) ==
  /\ o \in {"remove", "rollback"} /\ ops[o].at = "reading" /\ (ok \/ Faulty)
  /\ LET c == ops[o]
         found == ok /\ profile.st # "none"
         other == o = "rollback" /\ "pairing" \notin profile.refs
     IN IF found /\ ~other
        THEN /\ ops' = [ops EXCEPT ![o] = IF CleanupPending(profile) THEN CleaningUp(c, profile.refs)
                                         ELSE [c EXCEPT !.at = "marking", !.refs = profile.refs]]
             /\ UNCHANGED mgr
        ELSE IF found \/ o = "remove" THEN EndOf(o, FALSE)
        ELSE /\ ops' = [ops EXCEPT ![o] = [c EXCEPT !.at = IF ok /\ c.spare THEN "fallback" ELSE "discarding",
                                                   !.failed = ~ok]]
             /\ UNCHANGED mgr
  /\ IF ok THEN UNCHANGED past ELSE StoreFails
  /\ UNCHANGED <<profile, secrets, conn>>

\* rollbackAddedPeer without a profile: the key of the invitation is deleted.
Discard(how) ==
  /\ ops["rollback"].at = "discarding" /\ May(how)
  /\ secrets' = IF Lands(how) THEN secrets \ {"pairing"} ELSE secrets
  /\ EndOf("rollback", ops["rollback"].failed \/ how # "done")
  /\ UNCHANGED <<profile, conn>>
  /\ IF how = "done" THEN UNCHANGED past ELSE GivesUp({"pairing"})

\* storeIfAbsent: a tombstone stands for the profile that was not stored.
Fallback(how) ==
  /\ ops["rollback"].at = "fallback" /\ May(how)
  /\ LET absent == profile.st = "none"
     IN /\ profile' = IF absent /\ Lands(how) THEN Tomb({"pairing"}) ELSE profile
        /\ IF absent /\ how = "done"
           THEN /\ ops' = [ops EXCEPT !["rollback"] = CleaningUp(ops["rollback"], {"pairing"})]
                /\ UNCHANGED mgr
           ELSE EndOf("rollback", how # "done")
  /\ UNCHANGED <<secrets, conn>>
  /\ IF how = "done" THEN UNCHANGED past ELSE GivesUp({"pairing"})

\* markCleanupPending, if the profile is still the one that was read.
MarkCleanupPending(o, how) ==
  /\ ops[o].at = "marking" /\ May(how)
  /\ LET same == Usable(profile) /\ profile.refs = ops[o].refs
     IN /\ profile' = IF same /\ Lands(how) THEN Tomb(ops[o].refs) ELSE profile
        /\ IF same /\ how = "done"
           THEN ops' = [ops EXCEPT ![o] = CleaningUp(ops[o], ops[o].refs)] /\ UNCHANGED mgr
           ELSE EndOf(o, how # "done")
  /\ Tallied(how)
  /\ UNCHANGED <<secrets, conn>>

\* matchesDeleteCondition: the tombstone is the one that the call knows.
UnchangedSince(c) == profile = Tomb(c.refs)

\* The references, in this order.
FirstOf(todo) ==
  IF "pairing" \in todo THEN "pairing" ELSE IF "credential" \in todo THEN "credential" ELSE "commit"

\* Mutant: the reference is dropped before the key is deleted.
DeleteSecretLast(o, how) ==
  /\ ops[o].at = "deleting" /\ ops[o].todo # {} /\ May(how)
  /\ CallGoes(o, "dropping")
  /\ secrets' = IF Lands(how) THEN secrets \ {FirstOf(ops[o].todo)} ELSE secrets
  /\ Tallied(how)
  /\ UNCHANGED <<profile, mgr, conn>>

\* A key whose deletion fails keeps its reference; the others go on.
DeleteSecret(o, how) ==
  /\ ops[o].at = "deleting" /\ ops[o].todo # {} /\ May(how)
  /\ LET key == FirstOf(ops[o].todo)
     IN /\ secrets' = IF Lands(how) THEN secrets \ {key} ELSE secrets
        /\ IF how = "done" THEN CallGoes(o, "dropping")
           ELSE ops' = [ops EXCEPT ![o] = [ops[o] EXCEPT !.todo = @ \ {key}, !.failed = TRUE]]
  /\ Tallied(how)
  /\ UNCHANGED <<profile, mgr, conn>>

\* withoutSecretReference, if the tombstone is still the one known.
DropReference(o, how) ==
  /\ ops[o].at = "dropping" /\ May(how)
  /\ LET refs == ops[o].refs \ {FirstOf(ops[o].todo)}
         same == UnchangedSince(ops[o])
     IN /\ profile' = IF same /\ Lands(how) THEN Tomb(refs) ELSE profile
        /\ ops' = [ops EXCEPT ![o] =
             IF same /\ how = "done"
             THEN [ops[o] EXCEPT !.at = "deleting", !.refs = refs, !.todo = @ \ {FirstOf(@)}]
             ELSE [ops[o] EXCEPT !.at = "deleting", !.todo = {}, !.failed = TRUE]]
  /\ Tallied(how)
  /\ UNCHANGED <<secrets, mgr, conn>>

\* The tombstone goes last, unless something failed.
DeleteProfile(o, how) ==
  /\ ops[o].at = "deleting" /\ ops[o].todo = {} /\ May(how)
  /\ LET same == ops[o].refs = {} /\ UnchangedSince(ops[o])
     IN /\ ops[o].refs # {} => how = "done"
        /\ profile' = IF same /\ Lands(how) THEN NoProfile ELSE profile
        /\ past' = [past EXCEPT !.removed = @ \/ (same /\ Lands(how)),
                                !.faults = IF how = "done" THEN @ ELSE @ + 1]
        /\ EndOf(o, ~same \/ how # "done")
  /\ UNCHANGED <<secrets, conn>>

----------------------------------------------------------------------------
(* The end of the manager, and its successor *)

\* disposeCore: disconnectAll, the calls under way, disconnectAll again.
Dispose ==
  /\ ops["dispose"].at = "none" /\ ~mgr.complete
  /\ mgr' = [Disabled(mgr) EXCEPT !.disposed = TRUE]
  /\ conn' = IF mgr.managed THEN Closing(conn) ELSE conn
  /\ CallGoes("dispose", "first")
  /\ UNCHANGED <<profile, secrets, past>>

Drained ==
  /\ ops["dispose"].at = "first" /\ ~conn.closing /\ ~Inflight
  /\ mgr' = Disabled(mgr)
  /\ conn' = IF mgr.managed THEN Closing(conn) ELSE conn
  /\ CallGoes("dispose", "second")
  /\ UNCHANGED <<profile, secrets, past>>

\* What cleanupPendingProfiles and restoreCore find to clean up, if they can
\* list the profiles.
Listed(c, ok) ==
  IF ok /\ CleanupPending(profile) THEN CleaningUp(c, profile.refs)
  ELSE [c EXCEPT !.at = "end", !.failed = @ \/ ~ok]

CleanupAtEnd(ok) ==
  /\ ops["dispose"].at = "second" /\ ~conn.closing /\ (ok \/ Faulty)
  /\ mgr' = [mgr EXCEPT !.managed = FALSE]
  /\ ops' = [ops EXCEPT !["dispose"] = Listed(ops["dispose"], ok)]
  /\ IF ok THEN UNCHANGED past ELSE StoreFails
  /\ UNCHANGED <<profile, secrets, conn>>

\* A failure makes dispose() fail; it may be called again.
Disposed ==
  /\ ops["dispose"].at = "end"
  /\ mgr' = [mgr EXCEPT !.background = FALSE,
                        !.complete = ~mgr.background /\ ~ops["dispose"].failed]
  /\ ops' = [ops EXCEPT !["dispose"] = NoCall]
  /\ UNCHANGED <<profile, secrets, conn, past>>

\* restoreCore, in a new process: first the tombstones, then a connection.
\* A process that ends elsewhere than in its last state has crashed; keys that
\* nothing refers to are then left.
Restore(ok) ==
  /\ past.attempts < MaxAttempts /\ mgr # NoManager /\ (ok \/ Faulty)
  /\ mgr' = NoManager /\ conn' = NoLink
  /\ past' = [past EXCEPT !.leaked = @ \cup (secrets \ profile.refs), !.faults = IF ok THEN @ ELSE @ + 1]
  /\ ops' = [[o \in Calls |-> NoCall] EXCEPT !["restore"] = Listed(NoCall, ok)]
  /\ UNCHANGED <<profile, secrets>>

\* launchTryConnect: the attempt waits for assertOwner.
Restored ==
  /\ ops["restore"].at = "end" /\ ~conn.closing
  /\ IF ~ops["restore"].failed /\ ~mgr.disposed /\ ~mgr.managed /\ Usable(profile)
     THEN /\ mgr' = Managed(mgr) /\ conn' = NoLink
          /\ ops' = [ops EXCEPT !["restore"] = NoCall, !["try"].at = "owner"]
     ELSE ops' = [ops EXCEPT !["restore"] = NoCall] /\ UNCHANGED <<mgr, conn>>
  /\ UNCHANGED <<profile, secrets, past>>

LinksNext ==
  \/ Add \/ Connect \/ Disconnect \/ RemovePeer \/ ReconnectTimer \/ TryConnect \/ LoseOwnership
  \/ Open \/ StoreCredentials \/ StoreCredentialsFails \/ PeerReplied \/ DropEnrollmentKeys \/ Established
  \/ \E how \in Outcomes :
       \/ StoreInvitation(how) \/ StoreProfile(how) \/ StoreCandidate(how) \/ StoreComplete(how)
       \/ Discard(how) \/ Fallback(how)
  \/ \E landed \in BOOLEAN, left \in SUBSET Enrolled : CandidateFails(landed, left)
  \/ \E state \in {"offline", "authFailed", "incompatible", "rePairRequired"} : Fail(state)
  \/ SessionCloses \/ Disconnected
  \/ \E o \in Calls :
       \/ Forget(o)
       \/ \E ok \in BOOLEAN : ReadProfile(o, ok)
       \/ \E how \in Outcomes :
            MarkCleanupPending(o, how) \/ DeleteSecret(o, how) \/ DropReference(o, how) \/ DeleteProfile(o, how)
  \/ Dispose \/ Drained \/ Disposed \/ Restored
  \/ \E ok \in BOOLEAN : CleanupAtEnd(ok) \/ Restore(ok)

LinksSpec == LinksInit /\ [][LinksNext]_linkVars

----------------------------------------------------------------------------
(* Properties *)

\* A key is in the secret store only while the stored profile, be it a
\* tombstone, refers to it, so that it can still be deleted; or add(), its
\* rollback or an enrollment is about to store that profile or to delete the
\* key. The keys that are left are those that the code gives up: a process
\* crashed; the tombstone of an add() could not be stored; a key could not be
\* deleted, or the store did not say whether it has the profile.
KeysHaveOwner ==
  \A k \in secrets \ (profile.refs \cup past.leaked) :
    \/ k = "pairing" /\ (ops["add"].at = "profile" \/ ops["rollback"].at \in {"reading", "fallback", "discarding"})
    \/ k # "pairing" /\ conn.at = "recording"

\* A peer that was removed does not come back: no attempt that was under way
\* stores its profile again, but one by a timer or a restore that had waited
\* for assertOwner until the peer was being removed.
RemovedStaysRemoved == past.removed => profile.st \in {"none", "tomb"} \/ past.late

\* Once dispose() has ended there is no session, no attempt and no timer left,
\* with the same exception: the peer of such an attempt is no longer managed.
DisposedIsQuiet ==
  mgr.complete /\ ~past.late => ~conn.session /\ conn.at = "none" /\ ~mgr.timer /\ conn.again = {}

\* What adding, removing and reconnecting a peer leave behind, wherever they
\* meet or fail.
LinksSound == KeysHaveOwner /\ RemovedStaysRemoved /\ DisposedIsQuiet
====
