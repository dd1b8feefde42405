---- MODULE PeerLinksProofs ----
(***************************************************************************)
(* PeerLinks, for any numbers of faults and attempts: what adding,         *)
(* removing, reconnecting and disposing of a peer leave behind.            *)
(*                                                                         *)
(* The argument.  StagesKept, WaitsKept and CallsKept say which calls may  *)
(* be under way together, and who waits for the attempt; VirginKept, that  *)
(* there is nothing but add() until a profile is stored.  From these       *)
(* follows who owns a key that the code has not given up (past.leaked):    *)
(* KeysOwned, for which CleanupKept adds that no key comes back once a     *)
(* removal has deleted it, because the peer is enrolled only while its     *)
(* profile refers to nothing but the invitation.                           *)
(* A removed profile does not come back because an attempt that writes it  *)
(* has read it (AttemptKept), and a removal marks it only after the        *)
(* connection has settled, unless a timer's try comes late; EndsKept says  *)
(* what is left of the connection at each point of a removal, a rollback   *)
(* and a disposal.  For the rollback it needs ProvisionalKept: a peer that *)
(* is not enrolled yet has one try at a time, so that of two that fail,    *)
(* the second finds nobody left to roll back for; and DisposalKept, that   *)
(* a disposal finds nothing under way from its second look on.             *)
(***************************************************************************)
EXTENDS PeerLinks, TLAPS

----------------------------------------------------------------------------
(* What is stored, what is under way, and what they keep *)

Profiles == {NoProfile, Invited, Candidate, Complete} \cup {Tomb(refs) : refs \in SUBSET Keys}
ManagerRecords ==
  [managed : BOOLEAN, enabled : BOOLEAN, provisional : BOOLEAN, timer : BOOLEAN,
   owner : BOOLEAN, disposed : BOOLEAN, complete : BOOLEAN, background : BOOLEAN]
LinkRecords ==
  [at : {"none", "opening", "enrolling", "recording", "committing", "greeting", "completing", "storing",
         "failing", "authenticated"},
   aborted : BOOLEAN, session : BOOLEAN,
   state : {"offline", "online", "connecting", "authFailed", "incompatible", "rePairRequired"},
   closing : BOOLEAN, intentional : BOOLEAN,
   waits : SUBSET {"add", "try", "connect"}, again : SUBSET {"add", "try", "connect"}]
CallRecords ==
  [at : {"none", "secret", "profile", "connecting", "owner", "closing", "reading", "fallback", "discarding",
         "marking", "deleting", "dropping", "first", "second", "end"},
   refs : SUBSET Keys, todo : SUBSET Keys, failed : BOOLEAN, spare : BOOLEAN]
LinkPasts == [faults : Nat, attempts : Nat, removed : BOOLEAN, late : BOOLEAN, leaked : SUBSET Keys]

LinksTyped ==
  /\ profile \in Profiles /\ secrets \in SUBSET Keys
  /\ mgr \in ManagerRecords /\ conn \in LinkRecords
  /\ ops \in [Calls -> CallRecords] /\ past \in LinkPasts

\* The stages of each call.
Cleanup == {"deleting", "dropping"}
StagesKept ==
  /\ ops["add"].at \in {"none", "secret", "profile", "connecting"}
  /\ ops["try"].at \in {"none", "owner"}
  /\ ops["remove"].at \in Cleanup \cup {"none", "closing", "reading", "marking"}
  /\ ops["rollback"].at \in Cleanup \cup {"none", "closing", "reading", "fallback", "discarding", "marking"}
  /\ ops["dispose"].at \in Cleanup \cup {"none", "first", "second", "end"}
  /\ ops["restore"].at \in Cleanup \cup {"none", "end"}
  /\ \A o \in Calls :
       /\ ops[o].todo \subseteq ops[o].refs
       /\ ops[o].at \notin Cleanup \cup {"marking", "end"} => ops[o].refs = {}
       /\ ops[o].at = "marking" => ops[o].todo = {}

\* Until a profile is stored there is nothing else.
VirginKept ==
  /\ profile.st = "none" /\ ~past.removed =>
       /\ ~mgr.managed /\ ~mgr.timer /\ conn = NoLink
       /\ \A o \in Calls : ops[o].refs = {} /\ ops[o].at \notin Cleanup
       /\ ops["add"].at # "connecting" /\ ops["try"].at = "none" /\ ops["remove"].at = "none"
       /\ ops["rollback"].at \in {"none", "reading", "fallback", "discarding"}
  /\ ops["add"].at \in {"secret", "profile"} => profile.st = "none" /\ ~past.removed
  /\ ops["add"].at # "none" => ops["rollback"].at = "none" /\ ops["restore"].at = "none"

\* A key that the profile does not refer to is about to be recorded.
KeysOwned ==
  \A k \in secrets \ (profile.refs \cup past.leaked) :
    \/ k = "pairing" /\ profile.st = "none" /\ (ops["add"].at = "profile" \/ ops["rollback"].at \in {"reading", "fallback", "discarding"})
    \/ k # "pairing" /\ conn.at = "recording"

\* No key comes back after it was deleted.
CleanupKept ==
  /\ \A o \in Calls : ops[o].at = "dropping" => ops[o].todo # {} /\ FirstOf(ops[o].todo) \notin secrets
  /\ profile.st = "invited" \/ conn.at \in {"enrolling", "recording"} =>
       profile.refs \subseteq {"pairing"} /\ \A o \in Calls : ops[o].refs \subseteq {"pairing"}
  /\ conn.at = "storing" => secrets \subseteq {"credential"} \cup past.leaked

WaitsKept ==
  /\ conn.at = "none" <=> conn.waits = {}
  /\ conn.again # {} => conn.closing
  /\ "add" \notin conn.again
  /\ conn.at # "none" /\ conn.closing => conn.aborted
  /\ conn.session => conn.at = "none"
  /\ ops["add"].at = "connecting" <=> "add" \in conn.waits
  /\ "add" \in conn.waits => mgr.managed /\ mgr.provisional

\* At most one try of a provisional peer is to come or under way.
Trying == "try" \in conn.waits \cup conn.again
Untried == ~mgr.timer /\ ops["try"].at = "none" /\ ~Trying
OneTry ==
  /\ "add" \in conn.waits => Untried
  /\ mgr.timer => ops["try"].at = "none" /\ ~Trying
  /\ ops["try"].at # "none" => ~Trying
  /\ "try" \in conn.waits => "try" \notin conn.again
ProvisionalKept == mgr.provisional => ~conn.session /\ OneTry

\* The calls that exclude each other.
CallsKept ==
  /\ ops["rollback"].at # "none" =>
       Untried /\ ops["add"].at = "none" /\ ops["restore"].at = "none" /\ ~(mgr.managed /\ mgr.enabled)
  /\ ops["restore"].at # "none" =>
       /\ ops["add"].at = "none" /\ ops["remove"].at = "none" /\ ~mgr.provisional
       /\ ~mgr.managed => Untried /\ conn.at = "none" /\ conn.again = {}
  /\ ops["remove"].at \notin {"none", "closing"} => ~mgr.managed
  /\ ops["remove"].at # "none" /\ ~conn.closing => "add" \notin conn.waits

\* From its second look on, a disposal finds nothing under way.
Last == Cleanup \cup {"end"}
DisposalKept ==
  /\ mgr.disposed => ~mgr.timer /\ ("add" \in conn.waits => conn.aborted)
  /\ ops["dispose"].at # "none" => mgr.disposed
  /\ ops["dispose"].at \in Last \cup {"second"} => ~Inflight
  /\ ops["dispose"].at \in Last => ~mgr.managed
  /\ mgr.complete => mgr.disposed /\ ~mgr.managed /\ ~Inflight /\ ops["dispose"].at = "none"

\* Without a late try: an attempt writes only the profile it has read, and
\* what is being removed or disposed of has no attempt that its connection's
\* end would not wait for.
AttemptKept ==
  /\ conn.at \in {"enrolling", "recording"} => profile.st = "invited"
  /\ conn.at \in {"committing", "completing", "storing"} => profile.st = "candidate"
  /\ "connect" \in conn.waits \cup conn.again => profile.st \notin {"invited", "candidate"}
Alone == ~Trying /\ (conn.waits \cup conn.again # {} => mgr.disposed) /\ (conn.session => conn.closing)
EndsKept ==
  /\ ~mgr.managed => Alone
  /\ ops["rollback"].at # "none" => Alone
  /\ ops["remove"].at = "closing" => conn.closing \/ (conn.at = "none" /\ ~conn.session)
  /\ ops["remove"].at \notin {"none", "closing"} => conn.at = "none" /\ conn.again = {}
  /\ ops["dispose"].at = "second" /\ conn.session => conn.closing
  /\ ops["dispose"].at \in Last \/ mgr.complete => ~conn.session
  /\ past.removed => profile.st \in {"none", "tomb"}
Punctual == past.late \/ (AttemptKept /\ EndsKept)

LinksKept ==
  /\ StagesKept /\ VirginKept /\ KeysOwned /\ CleanupKept
  /\ WaitsKept /\ ProvisionalKept /\ CallsKept /\ DisposalKept /\ Punctual

----------------------------------------------------------------------------
(* Records *)

Stages == {"none", "secret", "profile", "connecting", "owner", "closing", "reading", "fallback", "discarding",
           "marking", "deleting", "dropping", "first", "second", "end"}
ManagerIs(m, managed, enabled, provisional, timer, disposed, complete) ==
  /\ m \in ManagerRecords
  /\ m.managed = managed /\ m.enabled = enabled /\ m.provisional = provisional
  /\ m.timer = timer /\ m.disposed = disposed /\ m.complete = complete
LinkIs(y, at, aborted, session, closing, waits, again) ==
  /\ y \in LinkRecords
  /\ y.at = at /\ y.aborted = aborted /\ y.session = session /\ y.closing = closing
  /\ y.waits = waits /\ y.again = again
CallIs(o, at, refs, todo) ==
  /\ ops' \in [Calls -> CallRecords]
  /\ ops'[o].at = at /\ ops'[o].refs = refs /\ ops'[o].todo = todo
  /\ \A p \in Calls : p # o => ops'[p] = ops[p]

\* Disabling a peer stops its timer and no more.
LEMMA DisabledIs ==
  ASSUME NEW m \in ManagerRecords
  PROVE  ManagerIs(Disabled(m), m.managed, FALSE, m.provisional, FALSE, m.disposed, m.complete)
BY DEF ManagerRecords, Disabled, ManagerIs

\* A timer is set for a managed peer that is enabled.
LEMMA ScheduledIs ==
  ASSUME NEW m \in ManagerRecords
  PROVE  /\ m.managed /\ m.enabled /\ ~m.disposed /\ m.owner =>
              ManagerIs(Scheduled(m), m.managed, m.enabled, m.provisional, TRUE, m.disposed, m.complete)
         /\ ~(m.managed /\ m.enabled /\ ~m.disposed /\ m.owner) =>
              ManagerIs(Scheduled(m), m.managed, m.enabled, m.provisional, m.timer, m.disposed, m.complete)
BY DEF ManagerRecords, Scheduled, ManagerIs

\* One field of the manager is written.
LEMMA ManagerWrites ==
  ASSUME NEW m \in ManagerRecords, NEW b \in BOOLEAN
  PROVE  /\ ManagerIs([m EXCEPT !.timer = b], m.managed, m.enabled, m.provisional, b, m.disposed, m.complete)
         /\ ManagerIs([m EXCEPT !.managed = b], b, m.enabled, m.provisional, m.timer, m.disposed, m.complete)
         /\ ManagerIs([m EXCEPT !.provisional = b], m.managed, m.enabled, b, m.timer, m.disposed, m.complete)
         /\ ManagerIs([m EXCEPT !.disposed = b], m.managed, m.enabled, m.provisional, m.timer, b, m.complete)
         /\ ManagerIs([m EXCEPT !.background = b], m.managed, m.enabled, m.provisional, m.timer, m.disposed, m.complete)
         /\ ManagerIs([m EXCEPT !.owner = b], m.managed, m.enabled, m.provisional, m.timer, m.disposed, m.complete)
<1>1. ManagerIs([m EXCEPT !.timer = b], m.managed, m.enabled, m.provisional, b, m.disposed, m.complete)
  BY DEF ManagerRecords, ManagerIs
<1>2. ManagerIs([m EXCEPT !.managed = b], b, m.enabled, m.provisional, m.timer, m.disposed, m.complete)
  BY DEF ManagerRecords, ManagerIs
<1>3. ManagerIs([m EXCEPT !.provisional = b], m.managed, m.enabled, b, m.timer, m.disposed, m.complete)
  BY DEF ManagerRecords, ManagerIs
<1>4. ManagerIs([m EXCEPT !.disposed = b], m.managed, m.enabled, m.provisional, m.timer, b, m.complete)
  BY DEF ManagerRecords, ManagerIs
<1>5. ManagerIs([m EXCEPT !.background = b], m.managed, m.enabled, m.provisional, m.timer, m.disposed, m.complete)
  BY DEF ManagerRecords, ManagerIs
<1>6. ManagerIs([m EXCEPT !.owner = b], m.managed, m.enabled, m.provisional, m.timer, m.disposed, m.complete)
  BY DEF ManagerRecords, ManagerIs
<1> QED BY <1>1, <1>2, <1>3, <1>4, <1>5, <1>6

\* Several fields of the manager are written.
LEMMA ManagerWritesMore ==
  ASSUME NEW m \in ManagerRecords, NEW b \in BOOLEAN, NEW d \in BOOLEAN
  PROVE  /\ ManagerIs([m EXCEPT !.managed = TRUE, !.enabled = TRUE, !.provisional = b],
                      TRUE, TRUE, b, m.timer, m.disposed, m.complete)
         /\ ManagerIs([m EXCEPT !.background = b, !.complete = d],
                      m.managed, m.enabled, m.provisional, m.timer, m.disposed, d)
<1>1. ManagerIs([m EXCEPT !.managed = TRUE, !.enabled = TRUE, !.provisional = b],
                TRUE, TRUE, b, m.timer, m.disposed, m.complete)
  BY DEF ManagerRecords, ManagerIs
<1>2. ManagerIs([m EXCEPT !.background = b, !.complete = d],
                m.managed, m.enabled, m.provisional, m.timer, m.disposed, d)
  BY DEF ManagerRecords, ManagerIs
<1> QED BY <1>1, <1>2

\* A peer is enabled, and not by its timer.
LEMMA EnabledIs ==
  ASSUME NEW m \in ManagerRecords
  PROVE  ManagerIs([m EXCEPT !.enabled = TRUE, !.timer = FALSE],
                   m.managed, TRUE, m.provisional, FALSE, m.disposed, m.complete)
BY DEF ManagerRecords, ManagerIs

\* Closing a connection aborts its attempt.
LEMMA ClosingIs ==
  ASSUME NEW y \in LinkRecords
  PROVE  LinkIs(Closing(y), y.at, y.aborted \/ y.at # "none", y.session, TRUE, y.waits, y.again)
BY DEF LinkRecords, Closing, LinkIs

\* Whoever asks for an attempt waits, joins, or is content with the session.
LEMMA ConnectingIs ==
  ASSUME NEW y \in LinkRecords, NEW who \in {"add", "try", "connect"}
  PROVE  /\ y.closing => LinkIs(Connecting(y, who), y.at, y.aborted, y.session, TRUE, y.waits, y.again \cup {who})
         /\ ~y.closing /\ y.session => Connecting(y, who) = y
         /\ ~y.closing /\ ~y.session /\ y.at # "none" =>
              LinkIs(Connecting(y, who), y.at, y.aborted, FALSE, FALSE, y.waits \cup {who}, y.again)
         /\ ~y.closing /\ ~y.session /\ y.at = "none" =>
              LinkIs(Connecting(y, who), "opening", FALSE, FALSE, FALSE, {who}, y.again)
<1>1. y.closing => LinkIs(Connecting(y, who), y.at, y.aborted, y.session, TRUE, y.waits, y.again \cup {who})
  BY DEF LinkRecords, Connecting, LinkIs
<1>2. ~y.closing /\ y.session => Connecting(y, who) = y
  BY DEF Connecting
<1>3. ~y.closing /\ ~y.session /\ y.at # "none" =>
        LinkIs(Connecting(y, who), y.at, y.aborted, FALSE, FALSE, y.waits \cup {who}, y.again)
  BY DEF LinkRecords, Connecting, LinkIs
<1>4. ~y.closing /\ ~y.session /\ y.at = "none" =>
        LinkIs(Connecting(y, who), "opening", FALSE, FALSE, FALSE, {who}, y.again)
  BY DEF LinkRecords, Connecting, LinkIs
<1> QED BY <1>1, <1>2, <1>3, <1>4

\* An attempt goes on.
LEMMA AttemptIs ==
  ASSUME NEW y \in LinkRecords,
         NEW at \in {"none", "opening", "enrolling", "recording", "committing", "greeting", "completing", "storing",
                 "failing", "authenticated"}
  PROVE  LinkIs([y EXCEPT !.at = at], at, y.aborted, y.session, y.closing, y.waits, y.again)
BY DEF LinkRecords, LinkIs

\* An attempt has settled, a session has closed, or the connection has.
LEMMA LinkWrites ==
  ASSUME NEW y \in LinkRecords, NEW waits \in SUBSET {"add", "try", "connect"},
         NEW state \in {"offline", "online", "authFailed", "incompatible", "rePairRequired"}, NEW b \in BOOLEAN
  PROVE  /\ LinkIs([y EXCEPT !.at = "none", !.aborted = FALSE, !.state = state, !.session = b, !.waits = {}],
                   "none", FALSE, b, y.closing, {}, y.again)
         /\ LinkIs([y EXCEPT !.session = FALSE, !.state = "offline"],
                   y.at, y.aborted, FALSE, y.closing, y.waits, y.again)
         /\ LinkIs([y EXCEPT !.closing = FALSE, !.session = FALSE, !.state = "offline", !.again = {}],
                   y.at, y.aborted, FALSE, FALSE, y.waits, {})
         /\ LinkIs([y EXCEPT !.waits = waits], y.at, y.aborted, y.session, y.closing, waits, y.again)
<1>1. LinkIs([y EXCEPT !.at = "none", !.aborted = FALSE, !.state = state, !.session = b, !.waits = {}],
             "none", FALSE, b, y.closing, {}, y.again)
  BY DEF LinkRecords, LinkIs
<1>2. LinkIs([y EXCEPT !.session = FALSE, !.state = "offline"],
             y.at, y.aborted, FALSE, y.closing, y.waits, y.again)
  BY DEF LinkRecords, LinkIs
<1>3. LinkIs([y EXCEPT !.closing = FALSE, !.session = FALSE, !.state = "offline", !.again = {}],
             y.at, y.aborted, FALSE, FALSE, y.waits, {})
  BY DEF LinkRecords, LinkIs
<1>4. LinkIs([y EXCEPT !.waits = waits], y.at, y.aborted, y.session, y.closing, waits, y.again)
  BY DEF LinkRecords, LinkIs
<1> QED BY <1>1, <1>2, <1>3, <1>4

\* The records a process starts with.
LEMMA NoneIs ==
  /\ ManagerIs(NoManager, FALSE, FALSE, FALSE, FALSE, FALSE, FALSE)
  /\ LinkIs(NoLink, "none", FALSE, FALSE, FALSE, {}, {})
  /\ NoCall \in CallRecords /\ NoCall.at = "none" /\ NoCall.refs = {} /\ NoCall.todo = {}
<1>1. ManagerIs(NoManager, FALSE, FALSE, FALSE, FALSE, FALSE, FALSE)
  BY DEF NoManager, ManagerRecords, ManagerIs
<1>2. LinkIs(NoLink, "none", FALSE, FALSE, FALSE, {}, {})
  BY DEF NoLink, LinkRecords, LinkIs
<1>3. NoCall \in CallRecords /\ NoCall.at = "none" /\ NoCall.refs = {} /\ NoCall.todo = {}
  BY DEF NoCall, CallRecords
<1> QED BY <1>1, <1>2, <1>3

\* The stored profile is one of five.
LEMMA ProfileIs ==
  ASSUME profile \in Profiles
  PROVE  /\ profile.refs \in SUBSET Keys
         /\ profile.st \in {"none", "invited", "candidate", "complete", "tomb"}
         /\ profile.st = "none" => profile = NoProfile
         /\ profile.st = "invited" => profile = Invited
         /\ profile.st = "candidate" => profile = Candidate
         /\ profile.st = "complete" => profile = Complete
         /\ profile.st = "tomb" => profile = Tomb(profile.refs)
         /\ NoProfile.st = "none" /\ NoProfile.refs = {}
         /\ Invited.st = "invited" /\ Invited.refs = {"pairing"}
         /\ Candidate.st = "candidate" /\ Candidate.refs = Keys
         /\ Complete.st = "complete" /\ Complete.refs = {"credential"}
<1>1. /\ NoProfile.st = "none" /\ NoProfile.refs = {}
      /\ Invited.st = "invited" /\ Invited.refs = {"pairing"}
      /\ Candidate.st = "candidate" /\ Candidate.refs = Keys
      /\ Complete.st = "complete" /\ Complete.refs = {"credential"}
  BY DEF NoProfile, Invited, Candidate, Complete
<1>2. CASE profile \in {NoProfile, Invited, Candidate, Complete}
  BY <1>1, <1>2 DEF Keys
<1>3. ASSUME NEW refs \in SUBSET Keys, profile = Tomb(refs)
      PROVE  profile.refs = refs /\ profile.st = "tomb"
  BY <1>3 DEF Tomb
<1>4. CASE profile \in {Tomb(refs) : refs \in SUBSET Keys}
  <2>1. PICK refs \in SUBSET Keys : profile = Tomb(refs)
    BY <1>4
  <2> QED BY <2>1, <1>1, <1>3
<1> QED BY <1>2, <1>4 DEF Profiles

\* A tombstone is told by its references.
LEMMA TombIs ==
  ASSUME NEW refs \in SUBSET Keys
  PROVE  Tomb(refs) \in Profiles /\ Tomb(refs).st = "tomb" /\ Tomb(refs).refs = refs
BY DEF Profiles, Tomb

\* A call reaches its next stage.
LEMMA GoesIs ==
  ASSUME ops \in [Calls -> CallRecords], NEW o \in Calls, NEW at \in Stages, ops' = [ops EXCEPT ![o].at = at]
  PROVE  CallIs(o, at, ops[o].refs, ops[o].todo)
<1>1. [ops[o] EXCEPT !.at = at] \in CallRecords
  BY DEF CallRecords, Stages
<1>2. /\ [ops[o] EXCEPT !.at = at].at = at /\ [ops[o] EXCEPT !.at = at].refs = ops[o].refs
      /\ [ops[o] EXCEPT !.at = at].todo = ops[o].todo
  BY DEF CallRecords
<1>3. ops' = [ops EXCEPT ![o] = [ops[o] EXCEPT !.at = at]]
  OBVIOUS
<1> HIDE DEF CallRecords
<1> QED BY <1>1, <1>2, <1>3 DEF CallIs

\* The record of a call is replaced.
LEMMA CallBecomes ==
  ASSUME ops \in [Calls -> CallRecords], NEW o \in Calls, NEW k \in CallRecords, ops' = [ops EXCEPT ![o] = k]
  PROVE  CallIs(o, k.at, k.refs, k.todo)
BY DEF CallIs

\* A cleanup begins with all the references.
LEMMA CleaningUpIs ==
  ASSUME NEW k \in CallRecords, NEW refs \in SUBSET Keys
  PROVE  /\ CleaningUp(k, refs) \in CallRecords
         /\ CleaningUp(k, refs).at = "deleting" /\ CleaningUp(k, refs).refs = refs /\ CleaningUp(k, refs).todo = refs
BY DEF CallRecords, CleaningUp

\* A call reaches a stage.
LEMMA CallReaches ==
  ASSUME NEW k \in CallRecords, NEW at \in Stages
  PROVE  /\ [k EXCEPT !.at = at] \in CallRecords
         /\ [k EXCEPT !.at = at].at = at
         /\ [k EXCEPT !.at = at].refs = k.refs
         /\ [k EXCEPT !.at = at].todo = k.todo
BY DEF CallRecords, Stages

\* A key could not be deleted.
LEMMA CallSkips ==
  ASSUME NEW k \in CallRecords, NEW todo \in SUBSET Keys, NEW b \in BOOLEAN
  PROVE  /\ [k EXCEPT !.todo = todo, !.failed = b] \in CallRecords
         /\ [k EXCEPT !.todo = todo, !.failed = b].at = k.at
         /\ [k EXCEPT !.todo = todo, !.failed = b].refs = k.refs
         /\ [k EXCEPT !.todo = todo, !.failed = b].todo = todo
BY DEF CallRecords, Stages

\* A fault is counted.
LEMMA PastFails ==
  ASSUME NEW p \in LinkPasts, NEW n \in Nat
  PROVE  /\ [p EXCEPT !.faults = n] \in LinkPasts
         /\ [p EXCEPT !.faults = n].removed = p.removed
         /\ [p EXCEPT !.faults = n].late = p.late
         /\ [p EXCEPT !.faults = n].leaked = p.leaked
BY DEF LinkPasts

\* An attempt is counted.
LEMMA PastAttempts ==
  ASSUME NEW p \in LinkPasts, NEW n \in Nat
  PROVE  /\ [p EXCEPT !.attempts = n] \in LinkPasts
         /\ [p EXCEPT !.attempts = n].removed = p.removed
         /\ [p EXCEPT !.attempts = n].late = p.late
         /\ [p EXCEPT !.attempts = n].leaked = p.leaked
BY DEF LinkPasts

\* An attempt starts late.
LEMMA PastLate ==
  ASSUME NEW p \in LinkPasts, NEW b \in BOOLEAN
  PROVE  /\ [p EXCEPT !.late = b] \in LinkPasts
         /\ [p EXCEPT !.late = b].removed = p.removed
         /\ [p EXCEPT !.late = b].late = b
         /\ [p EXCEPT !.late = b].leaked = p.leaked
BY DEF LinkPasts

\* The peer is gone.
LEMMA PastRemoves ==
  ASSUME NEW p \in LinkPasts, NEW b \in BOOLEAN
  PROVE  /\ [p EXCEPT !.removed = b] \in LinkPasts
         /\ [p EXCEPT !.removed = b].removed = b
         /\ [p EXCEPT !.removed = b].late = p.late
         /\ [p EXCEPT !.removed = b].leaked = p.leaked
BY DEF LinkPasts

\* Keys are left behind.
LEMMA PastLeaks ==
  ASSUME NEW p \in LinkPasts, NEW keys \in SUBSET Keys
  PROVE  /\ [p EXCEPT !.leaked = keys] \in LinkPasts
         /\ [p EXCEPT !.leaked = keys].removed = p.removed
         /\ [p EXCEPT !.leaked = keys].late = p.late
         /\ [p EXCEPT !.leaked = keys].leaked = keys
BY DEF LinkPasts

\* The profiles that are stored by name.
LEMMA ProfilesAre ==
  NoProfile \in Profiles /\ Invited \in Profiles /\ Candidate \in Profiles /\ Complete \in Profiles
BY DEF Profiles

----------------------------------------------------------------------------
(* What each action does *)

\* Neither the removal nor the late try is new.
PastIs(p, removed, late, leaked) ==
  p \in LinkPasts /\ p.removed = removed /\ p.late = late /\ p.leaked = leaked
SamePast == PastIs(past', past.removed, past.late, past.leaked)

\* The ledger takes the keys that are given up.
GivenUp(keys) == PastIs(past', past.removed, past.late, past.leaked \cup ((secrets' \cap keys) \ profile'.refs))

\* The manager keeps what matters; the attempt is at a stage.
SameManager == ManagerIs(mgr', mgr.managed, mgr.enabled, mgr.provisional, mgr.timer, mgr.disposed, mgr.complete)
AttemptAt(at) == LinkIs(conn', at, conn.aborted, conn.session, conn.closing, conn.waits, conn.again)

\* z is y once who has asked for an attempt.
Joined(z, y, who) ==
  /\ z \in LinkRecords
  /\ y.closing => LinkIs(z, y.at, y.aborted, y.session, TRUE, y.waits, y.again \cup {who})
  /\ ~y.closing /\ y.session => z = y
  /\ ~y.closing /\ ~y.session /\ y.at # "none" =>
       LinkIs(z, y.at, y.aborted, FALSE, FALSE, y.waits \cup {who}, y.again)
  /\ ~y.closing /\ ~y.session /\ y.at = "none" => LinkIs(z, "opening", FALSE, FALSE, FALSE, {who}, y.again)

\* Connecting joins whoever asks.
LEMMA JoinedIs ==
  ASSUME NEW y \in LinkRecords, NEW who \in {"add", "try", "connect"}
  PROVE  Joined(Connecting(y, who), y, who)
<1>1. Connecting(y, who) \in LinkRecords
  BY ConnectingIs DEF LinkIs
<1> QED BY <1>1, ConnectingIs DEF Joined

\* z is y with its attempt aborted and its connection closing.
Closed(z, y) == LinkIs(z, y.at, y.aborted \/ y.at # "none", y.session, TRUE, y.waits, y.again)
\* n is m with its timer stopped.
Stopped(n, m) == ManagerIs(n, m.managed, FALSE, m.provisional, FALSE, m.disposed, m.complete)

\* Counting a fault or an attempt changes nothing that the invariant looks at.
LEMMA SamePastIs ==
  ASSUME past \in LinkPasts, UNCHANGED past \/ StoreFails \/ Attempted
  PROVE  SamePast
<1>1. CASE UNCHANGED past
  BY <1>1 DEF SamePast, PastIs
<1>2. CASE StoreFails
  <2>1. past.faults + 1 \in Nat /\ past' = [past EXCEPT !.faults = past.faults + 1]
    BY <1>2 DEF StoreFails, LinkPasts
  <2> QED BY <2>1, PastFails DEF SamePast, PastIs
<1>3. CASE Attempted
  <2>1. past.attempts + 1 \in Nat /\ past' = [past EXCEPT !.attempts = past.attempts + 1]
    BY <1>3 DEF Attempted, LinkPasts
  <2> QED BY <2>1, PastAttempts DEF SamePast, PastIs
<1> QED BY <1>1, <1>2, <1>3

\* GivesUp says so.
LEMMA GivenUpIs ==
  ASSUME past \in LinkPasts, NEW keys \in SUBSET Keys, GivesUp(keys)
  PROVE  GivenUp(keys)
<1> DEFINE n == past.faults + 1
           l == past.leaked \cup ((secrets' \cap keys) \ profile'.refs)
<1>1. n \in Nat /\ l \in SUBSET Keys
  BY DEF LinkPasts
<1>2. past' = [past EXCEPT !.faults = n, !.leaked = l]
  BY DEF GivesUp
<1> HIDE DEF n, l
<1>3. PastIs(past', past.removed, past.late, l)
  BY <1>1, <1>2 DEF PastIs, LinkPasts
<1> QED BY <1>3 DEF GivenUp, l

\* A failed add() leaves its rollback behind.
RolledBack ==
  /\ ops' \in [Calls -> CallRecords]
  /\ ops'["add"].at = "none" /\ ops'["add"].refs = ops["add"].refs /\ ops'["add"].todo = ops["add"].todo
  /\ ops'["rollback"].at = "reading" /\ ops'["rollback"].refs = {} /\ ops'["rollback"].todo = {}
  /\ \A p \in Calls \ {"add", "rollback"} : ops'[p] = ops[p]

\* So does RollbackOfAdd.
LEMMA RollbackOfAddIs ==
  ASSUME ops \in [Calls -> CallRecords], RollbackOfAdd
  PROVE  RolledBack
<1> DEFINE a == [ops["add"] EXCEPT !.at = "none"]
           r == [NoCall EXCEPT !.at = "reading", !.spare = TRUE]
<1>1. a \in CallRecords /\ a.at = "none" /\ a.refs = ops["add"].refs /\ a.todo = ops["add"].todo
  <2>1. ops["add"] \in CallRecords /\ "none" \in Stages
    BY DEF Calls, Stages
  <2> QED BY <2>1, CallReaches
<1>2. r \in CallRecords /\ r.at = "reading" /\ r.refs = {} /\ r.todo = {}
  BY NoneIs DEF CallRecords, Stages
<1>3. ops' = [ops EXCEPT !["add"] = a, !["rollback"] = r]
  BY DEF RollbackOfAdd
<1> HIDE DEF a, r
<1> QED BY <1>1, <1>2, <1>3 DEF RolledBack, Calls

\* What becomes of the callers of an attempt that ended in state s.
Refused(s) == s \in {"authFailed", "incompatible"}
RollsBack(s, ok) ==
  IF ok THEN "add" \in conn.waits /\ mgr.disposed
  ELSE \/ "add" \in conn.waits /\ (mgr.disposed \/ Refused(s))
       \/ "try" \in conn.waits /\ mgr.provisional /\ Refused(s)
Closes(s, ok) == RollsBack(s, ok) \/ (ok /\ mgr.disposed /\ "connect" \in conn.waits)
Timed(n, m) ==
  \/ ManagerIs(n, m.managed, m.enabled, m.provisional, m.timer, m.disposed, m.complete)
  \/ /\ m.managed /\ m.enabled /\ ~m.disposed
     /\ ManagerIs(n, m.managed, m.enabled, m.provisional, TRUE, m.disposed, m.complete)
Settles(s, ok) ==
  /\ LinkIs(conn', "none", FALSE, s = "online", conn.closing \/ Closes(s, ok), {}, conn.again)
  /\ RollsBack(s, ok) => Stopped(mgr', mgr)
  /\ ~RollsBack(s, ok) /\ ok =>
       ManagerIs(mgr', mgr.managed, mgr.enabled, FALSE, mgr.timer, mgr.disposed, mgr.complete)
  /\ ~RollsBack(s, ok) /\ ~ok => Timed(mgr', mgr)
  /\ conn.waits \cap {"add", "try"} = {} => mgr'.timer \in {mgr.timer, FALSE}
  /\ ops' \in [Calls -> CallRecords]
  /\ ops'["add"].refs = ops["add"].refs /\ ops'["add"].todo = ops["add"].todo
  /\ ops'["add"].at = IF "add" \in conn.waits THEN "none" ELSE ops["add"].at
  /\ RollsBack(s, ok) =>
       ops'["rollback"].at = "closing" /\ ops'["rollback"].refs = {} /\ ops'["rollback"].todo = {}
  /\ ~RollsBack(s, ok) => ops'["rollback"] = ops["rollback"]
  /\ \A p \in Calls \ {"add", "rollback"} : ops'[p] = ops[p]

\* scheduleReconnect sets a timer, or nothing.
LEMMA TimedIs ==
  ASSUME NEW m \in ManagerRecords
  PROVE  Timed(m, m) /\ Timed(Scheduled(m), m)
<1>1. Timed(m, m)
  BY DEF Timed, ManagerIs
<1>2. Timed(Scheduled(m), m)
  BY ScheduledIs DEF Timed
<1> QED BY <1>1, <1>2

\* That is how Continue settles an attempt.
LEMMA ContinueIs ==
  ASSUME mgr \in ManagerRecords, conn \in LinkRecords, ops \in [Calls -> CallRecords],
         NEW s \in {"offline", "online", "authFailed", "incompatible", "rePairRequired"}, NEW ok \in BOOLEAN,
         Continue(s, ok)
  PROVE  Settles(s, ok)
<1> DEFINE y == [conn EXCEPT !.at = "none", !.aborted = FALSE, !.state = s, !.session = (s = "online"),
                             !.waits = {}]
<1>1. LinkIs(y, "none", FALSE, s = "online", conn.closing, {}, conn.again)
  BY LinkWrites
<1>2. conn' = IF Closes(s, ok) THEN Closing(y) ELSE y
  BY DEF Continue, Closes, RollsBack, Refused
<1>3. LinkIs(conn', "none", FALSE, s = "online", conn.closing \/ Closes(s, ok), {}, conn.again)
  <2>1. Closes(s, ok) \in BOOLEAN
    BY DEF Closes, RollsBack, Refused
  <2> HIDE DEF y
  <2>2. CASE Closes(s, ok)
    <3>1. conn' = Closing(y)
      BY <1>2, <2>2
    <3>2. LinkIs(conn', y.at, y.aborted \/ y.at # "none", y.session, TRUE, y.waits, y.again)
      BY <1>1, <3>1, ClosingIs DEF LinkIs
    <3> QED BY <1>1, <2>2, <3>2 DEF LinkIs
  <2>3. CASE ~Closes(s, ok)
    <3>1. conn' = y /\ (conn.closing \/ Closes(s, ok)) = conn.closing
      BY <1>2, <2>3 DEF LinkRecords
    <3> QED BY <1>1, <3>1 DEF LinkIs
  <2> QED BY <2>2, <2>3
<1>4. RollsBack(s, ok) => Stopped(mgr', mgr)
  BY DisabledIs DEF Continue, RollsBack, Refused, Stopped
<1>5. ~RollsBack(s, ok) /\ ok =>
        ManagerIs(mgr', mgr.managed, mgr.enabled, FALSE, mgr.timer, mgr.disposed, mgr.complete)
  BY ManagerWrites DEF Continue, RollsBack, Refused
<1>6. ~RollsBack(s, ok) /\ ~ok => Timed(mgr', mgr)
  BY TimedIs DEF Continue, RollsBack, Refused
<1>15. conn.waits \cap {"add", "try"} = {} => mgr'.timer \in {mgr.timer, FALSE}
  <2>1. CASE conn.waits \cap {"add", "try"} = {}
    <3>1. ~RollsBack(s, ok) => mgr' = [mgr EXCEPT !.provisional = FALSE] \/ mgr' = mgr
      BY <2>1 DEF Continue, RollsBack, Refused
    <3>2. CASE RollsBack(s, ok)
      BY <1>4, <3>2 DEF Stopped, ManagerIs
    <3>3. CASE ~RollsBack(s, ok)
      BY <3>1, <3>3 DEF ManagerRecords
    <3> QED BY <3>2, <3>3
  <2> QED BY <2>1
<1> DEFINE a == [ops["add"] EXCEPT !.at = IF "add" \in conn.waits THEN "none" ELSE ops["add"].at]
           f == [NoCall EXCEPT !.at = "closing", !.spare = "add" \in conn.waits]
           r == IF RollsBack(s, ok) THEN f ELSE ops["rollback"]
<1>7. ops' = [ops EXCEPT !["add"] = a, !["rollback"] = r]
  BY DEF Continue, RollsBack, Refused
<1>8. /\ a \in CallRecords /\ a.refs = ops["add"].refs /\ a.todo = ops["add"].todo
      /\ a.at = IF "add" \in conn.waits THEN "none" ELSE ops["add"].at
  <2>1. ops["add"] \in CallRecords
    BY DEF Calls
  <2>2. ops["add"].at \in Stages
    BY <2>1 DEF CallRecords, Stages
  <2>3. (IF "add" \in conn.waits THEN "none" ELSE ops["add"].at) \in Stages
    BY <2>2 DEF Stages
  <2> QED BY <2>1, <2>3, CallReaches
<1>9. f \in CallRecords /\ f.at = "closing" /\ f.refs = {} /\ f.todo = {}
  <2> DEFINE b == "add" \in conn.waits
  <2>1. b \in BOOLEAN /\ "closing" \in Stages
    BY DEF Stages
  <2> HIDE DEF b
  <2>2. LET c == [NoCall EXCEPT !.at = "closing", !.spare = b]
        IN c \in CallRecords /\ c.at = "closing" /\ c.refs = {} /\ c.todo = {}
    BY <2>1, NoneIs DEF CallRecords, Stages
  <2> QED BY <2>2 DEF b
<1>10. ops["rollback"] \in CallRecords
  BY DEF Calls
<1>11. r \in CallRecords
  BY <1>9, <1>10
<1> HIDE DEF a, f
<1>12. RollsBack(s, ok) => r = f
  OBVIOUS
<1>13. ~RollsBack(s, ok) => r = ops["rollback"]
  OBVIOUS
<1> HIDE DEF r
<1>14. ops' \in [Calls -> CallRecords] /\ ops'["add"] = a /\ ops'["rollback"] = r
       /\ \A p \in Calls \ {"add", "rollback"} : ops'[p] = ops[p]
  BY <1>7, <1>8, <1>11 DEF Calls
<1> QED BY <1>3, <1>4, <1>5, <1>6, <1>15, <1>8, <1>9, <1>12, <1>13, <1>14 DEF Settles

\* A cleanup ends: that of a removal is over, that of a disposal goes on.
Ended(o) ==
  IF o \in {"dispose", "restore"} THEN CallIs(o, "end", ops[o].refs, ops[o].todo) ELSE CallIs(o, "none", {}, {})

\* EndOf ends it, and the manager keeps what matters.
LEMMA EndOfIs ==
  ASSUME mgr \in ManagerRecords, ops \in [Calls -> CallRecords], NEW o \in Calls, NEW bad \in BOOLEAN, EndOf(o, bad)
  PROVE  Ended(o) /\ ops' \in [Calls -> CallRecords] /\ SameManager
<1>3. SameManager
  <2> DEFINE b == mgr.background \/ (o = "rollback" /\ bad /\ ~ops[o].spare)
  <2>1. b \in BOOLEAN /\ mgr' = [mgr EXCEPT !.background = b]
    BY DEF EndOf, ManagerRecords
  <2> HIDE DEF b
  <2> QED BY <2>1, ManagerWrites DEF SameManager
<1>1. CASE o \in {"dispose", "restore"}
  <2> DEFINE b == ops[o].failed \/ bad
             k == [ops[o] EXCEPT !.at = "end", !.failed = b]
  <2>1. ops' = [ops EXCEPT ![o] = k]
    BY <1>1 DEF EndOf
  <2>2. b \in BOOLEAN /\ "end" \in Stages /\ ops[o] \in CallRecords
    BY DEF Stages
  <2> HIDE DEF b
  <2>4. k \in CallRecords /\ k.at = "end" /\ k.refs = ops[o].refs /\ k.todo = ops[o].todo
    BY <2>2 DEF CallRecords, Stages
  <2> HIDE DEF k
  <2>3. CallIs(o, "end", ops[o].refs, ops[o].todo)
    BY <2>1, <2>4, CallBecomes
  <2> QED BY <1>1, <1>3, <2>3 DEF Ended, CallIs
<1>2. CASE o \notin {"dispose", "restore"}
  <2>1. ops' = [ops EXCEPT ![o] = NoCall]
    BY <1>2 DEF EndOf
  <2>2. CallIs(o, "none", {}, {})
    BY <2>1, NoneIs, CallBecomes
  <2> QED BY <1>2, <1>3, <2>2 DEF Ended, CallIs
<1> QED BY <1>1, <1>2

\* A restore is over, and a try waits for the owner.
Launched ==
  /\ ops' \in [Calls -> CallRecords]
  /\ ops'["restore"].at = "none" /\ ops'["restore"].refs = {} /\ ops'["restore"].todo = {}
  /\ ops'["try"].at = "owner" /\ ops'["try"].refs = ops["try"].refs /\ ops'["try"].todo = ops["try"].todo
  /\ \A p \in Calls \ {"try", "restore"} : ops'[p] = ops[p]

\* Restored launches it.
LEMMA LaunchedIs ==
  ASSUME ops \in [Calls -> CallRecords], ops' = [ops EXCEPT !["restore"] = NoCall, !["try"].at = "owner"]
  PROVE  Launched
<1> DEFINE t == [ops["try"] EXCEPT !.at = "owner"]
<1>1. t \in CallRecords /\ t.at = "owner" /\ t.refs = ops["try"].refs /\ t.todo = ops["try"].todo
  <2>1. ops["try"] \in CallRecords /\ "owner" \in Stages
    BY DEF Calls, Stages
  <2> QED BY <2>1, CallReaches
<1>2. ops' = [ops EXCEPT !["restore"] = NoCall, !["try"] = t]
  OBVIOUS
<1> HIDE DEF t
<1> QED BY <1>1, <1>2, NoneIs DEF Launched, Calls

\* What is left to clean up, if it can be listed.
Lists(k, c) ==
  \/ profile.st = "tomb" /\ k.at = "deleting" /\ k.refs = profile.refs /\ k.todo = profile.refs
  \/ k.at = "end" /\ k.refs = c.refs /\ k.todo = c.todo

\* Listed says so.
LEMMA ListedIs ==
  ASSUME profile \in Profiles, NEW c \in CallRecords, NEW ok \in BOOLEAN
  PROVE  Listed(c, ok) \in CallRecords /\ Lists(Listed(c, ok), c)
<1> DEFINE b == c.failed \/ ~ok
           e == [c EXCEPT !.at = "end", !.failed = b]
<1>1. b \in BOOLEAN /\ "end" \in Stages /\ profile.refs \in SUBSET Keys
  BY ProfileIs DEF Stages
<1> HIDE DEF b
<1>2. e \in CallRecords /\ e.at = "end" /\ e.refs = c.refs /\ e.todo = c.todo
  BY <1>1 DEF CallRecords, Stages
<1>3. Listed(c, ok) = IF ok /\ CleanupPending(profile) THEN CleaningUp(c, profile.refs) ELSE e
  BY DEF Listed, b
<1> HIDE DEF e
<1> QED BY <1>1, <1>2, <1>3, CleaningUpIs DEF Lists, CleanupPending

\* What the types say of a state.
LEMMA StateIs ==
  ASSUME LinksTyped
  PROVE  /\ secrets \subseteq Keys /\ profile.refs \subseteq Keys
         /\ profile.st \in {"none", "invited", "candidate", "complete", "tomb"}
         /\ profile.st = "none" => profile.refs = {}
         /\ profile.st = "invited" => profile.refs = {"pairing"}
         /\ profile.st = "candidate" => profile.refs = Keys
         /\ profile.st = "complete" => profile.refs = {"credential"}
         /\ NoProfile.st = "none" /\ NoProfile.refs = {}
         /\ Invited.st = "invited" /\ Invited.refs = {"pairing"}
         /\ Candidate.st = "candidate" /\ Candidate.refs = Keys
         /\ Complete.st = "complete" /\ Complete.refs = {"credential"}
         /\ NoLink.at = "none" /\ NoLink.waits = {} /\ NoLink.again = {}
         /\ ~NoLink.session /\ ~NoLink.closing /\ ~NoLink.aborted
         /\ \A o \in Calls : ops[o].refs \subseteq Keys
<1>1. secrets \subseteq Keys /\ profile \in Profiles /\ ops \in [Calls -> CallRecords]
  BY DEF LinksTyped
<1>2. \A o \in Calls : ops[o].refs \subseteq Keys
  BY <1>1 DEF CallRecords
<1>3. /\ NoLink.at = "none" /\ NoLink.waits = {} /\ NoLink.again = {}
      /\ ~NoLink.session /\ ~NoLink.closing /\ ~NoLink.aborted
  BY DEF NoLink
<1> QED BY <1>1, <1>2, <1>3, ProfileIs

\* Asking for an attempt changes nothing for the others that wait.
LEMMA JoinedAre ==
  ASSUME NEW z, NEW y, NEW who, Joined(z, y, who)
  PROVE  /\ \A w : w # who => (w \in z.waits => w \in y.waits) /\ (w \in z.again <=> w \in y.again)
         /\ (z.closing =>
              /\ y.closing)
              /\ (y.closing => z.closing)
              /\ (y.session => z.session)
              /\ (z.session => y.session)
         /\ y.at # "none" => z.at = y.at
         /\ y.at = "none" => z.at \in {"none", "opening"}
         /\ who \notin y.waits \cup y.again => who \notin z.waits \/ who \notin z.again
<1>1. CASE y.closing
  <2>1. LinkIs(z, y.at, y.aborted, y.session, TRUE, y.waits, y.again \cup {who})
    BY <1>1 DEF Joined
  <2> QED BY <1>1, <2>1 DEF LinkIs
<1>2. CASE ~y.closing /\ y.session
  BY <1>2 DEF Joined
<1>3. CASE ~y.closing /\ ~y.session /\ y.at # "none"
  <2>1. LinkIs(z, y.at, y.aborted, FALSE, FALSE, y.waits \cup {who}, y.again)
    BY <1>3 DEF Joined
  <2> QED BY <1>3, <2>1 DEF LinkIs
<1>4. CASE ~y.closing /\ ~y.session /\ y.at = "none"
  <2>1. LinkIs(z, "opening", FALSE, FALSE, FALSE, {who}, y.again)
    BY <1>4 DEF Joined
  <2> QED BY <1>4, <2>1 DEF LinkIs
<1> QED BY <1>1, <1>2, <1>3, <1>4

\* The calls by name.
LEMMA CallsAre ==
  /\ "add" \in Calls /\ "try" \in Calls /\ "remove" \in Calls
  /\ "rollback" \in Calls /\ "dispose" \in Calls /\ "restore" \in Calls
BY DEF Calls

\* What Add changes, and what it keeps.
LEMMA AddDoes ==
  ASSUME LinksTyped, Add
  PROVE  /\ LinksTyped'
         /\ ~mgr.disposed /\ ops["add"].at = "none" /\ profile.st = "none" /\ ~past.removed /\ ~mgr.managed
            /\ ops["rollback"].at = "none" /\ ops["restore"].at = "none"
         /\ CallIs("add", "secret", ops["add"].refs, ops["add"].todo)
         /\ UNCHANGED <<profile, secrets, mgr, conn, past>>
<1>0. profile \in Profiles /\ secrets \in SUBSET Keys /\ mgr \in ManagerRecords /\ conn \in LinkRecords
      /\ ops \in [Calls -> CallRecords] /\ past \in LinkPasts
  BY DEF LinksTyped
<1>1. ~mgr.disposed /\ ops["add"].at = "none" /\ profile.st = "none" /\ ~past.removed /\ ~mgr.managed
      /\ ops["rollback"].at = "none" /\ ops["restore"].at = "none"
  BY DEF Add
<1>2. CallIs("add", "secret", ops["add"].refs, ops["add"].todo)
  BY <1>0, GoesIs DEF Add, CallGoes, Calls, Stages
<1>3. UNCHANGED <<profile, secrets, mgr, conn, past>>
  BY DEF Add
<1>4. LinksTyped'
  BY <1>0, <1>1, <1>2, <1>3 DEF LinksTyped, CallIs
<1> QED BY <1>1, <1>2, <1>3, <1>4

\* What Connect changes, and what it keeps.
LEMMA ConnectDoes ==
  ASSUME LinksTyped, Connect
  PROVE  /\ LinksTyped'
         /\ ~mgr.disposed /\ profile.st = "complete" /\ ops["remove"].at = "none" /\ ops["rollback"].at = "none"
            /\ "connect" \notin conn.waits \cup conn.again /\ (mgr.managed \/ conn.at = "none")
         /\ mgr.managed => ManagerIs(mgr', TRUE, TRUE, mgr.provisional, FALSE, mgr.disposed, mgr.complete)
         /\ ~mgr.managed => ManagerIs(mgr', TRUE, TRUE, FALSE, FALSE, mgr.disposed, mgr.complete)
         /\ mgr.managed => Joined(conn', conn, "connect")
         /\ ~mgr.managed => LinkIs(conn', "opening", FALSE, FALSE, FALSE, {"connect"}, {})
         /\ SamePast
         /\ UNCHANGED <<profile, secrets, ops>>
         /\ mgr' \in ManagerRecords
         /\ conn' \in LinkRecords
<1>0. profile \in Profiles /\ secrets \in SUBSET Keys /\ mgr \in ManagerRecords /\ conn \in LinkRecords
      /\ ops \in [Calls -> CallRecords] /\ past \in LinkPasts
  BY DEF LinksTyped
<1>1. ~mgr.disposed /\ profile.st = "complete" /\ ops["remove"].at = "none" /\ ops["rollback"].at = "none"
      /\ "connect" \notin conn.waits \cup conn.again /\ (mgr.managed \/ conn.at = "none")
  BY DEF Connect
<1>2. mgr.managed => ManagerIs(mgr', TRUE, TRUE, mgr.provisional, FALSE, mgr.disposed, mgr.complete)
  <2>1. mgr.managed => mgr' = [mgr EXCEPT !.enabled = TRUE, !.timer = FALSE]
    BY DEF Connect
  <2> QED BY <1>0, <2>1, EnabledIs DEF ManagerIs
<1>3. ~mgr.managed => ManagerIs(mgr', TRUE, TRUE, FALSE, FALSE, mgr.disposed, mgr.complete)
  <2>1. CASE ~mgr.managed
    <3>1. IsProvisional(profile) = FALSE
      BY <1>1 DEF IsProvisional
    <3>2. ManagerIs(Managed(mgr), TRUE, TRUE, FALSE, mgr.timer, mgr.disposed, mgr.complete)
      BY <1>0, <3>1, ManagerWritesMore DEF Managed
    <3>3. mgr' = [Managed(mgr) EXCEPT !.enabled = TRUE, !.timer = FALSE]
      BY <2>1 DEF Connect
    <3> QED BY <3>2, <3>3, EnabledIs DEF ManagerIs
  <2> QED BY <2>1
<1>4. mgr.managed => Joined(conn', conn, "connect")
  BY <1>0, JoinedIs DEF Connect
<1>5. ~mgr.managed => LinkIs(conn', "opening", FALSE, FALSE, FALSE, {"connect"}, {})
  <2>1. CASE ~mgr.managed
    <3>1. Joined(conn', NoLink, "connect")
      BY <2>1, NoneIs, JoinedIs DEF Connect, LinkIs
    <3> QED BY <3>1, NoneIs DEF Joined, LinkIs
  <2> QED BY <2>1
<1>6. SamePast
  BY <1>0, SamePastIs DEF Connect
<1>7. UNCHANGED <<profile, secrets, ops>>
  BY DEF Connect
<1>8. mgr' \in ManagerRecords
  BY <1>2, <1>3 DEF ManagerIs
<1>9. conn' \in LinkRecords
  BY <1>4, <1>5 DEF Joined, LinkIs
<1>10. LinksTyped'
  BY <1>0, <1>1, <1>2, <1>3, <1>4, <1>5, <1>6, <1>7, <1>8, <1>9 DEF LinksTyped, ManagerIs, LinkIs, SamePast,
     Joined, PastIs
<1> QED BY <1>1, <1>2, <1>3, <1>4, <1>5, <1>6, <1>7, <1>8, <1>9, <1>10

\* What Disconnect changes, and what it keeps.
LEMMA DisconnectDoes ==
  ASSUME LinksTyped, Disconnect
  PROVE  /\ LinksTyped'
         /\ mgr.managed /\ ~conn.closing
         /\ Stopped(mgr', mgr)
         /\ Closed(conn', conn)
         /\ UNCHANGED <<profile, secrets, ops, past>>
<1>0. profile \in Profiles /\ secrets \in SUBSET Keys /\ mgr \in ManagerRecords /\ conn \in LinkRecords
      /\ ops \in [Calls -> CallRecords] /\ past \in LinkPasts
  BY DEF LinksTyped
<1>1. mgr.managed /\ ~conn.closing
  BY DEF Disconnect
<1>2. Stopped(mgr', mgr)
  BY <1>0, DisabledIs DEF Disconnect, Stopped
<1>3. Closed(conn', conn)
  BY <1>0, ClosingIs DEF Disconnect, Closed
<1>4. UNCHANGED <<profile, secrets, ops, past>>
  BY DEF Disconnect
<1>5. LinksTyped'
  BY <1>0, <1>1, <1>2, <1>3, <1>4 DEF LinksTyped, Closed, Stopped, LinkIs, ManagerIs
<1> QED BY <1>1, <1>2, <1>3, <1>4, <1>5

\* What RemovePeer changes, and what it keeps.
LEMMA RemovePeerDoes ==
  ASSUME LinksTyped, RemovePeer
  PROVE  /\ LinksTyped'
         /\ ops["remove"].at = "none" /\ profile.st # "none" /\ ops["restore"].at = "none"
            /\ "connect" \notin conn.waits \cup conn.again
         /\ mgr.managed =>
              /\ Stopped(mgr', mgr)
              /\ Closed(conn', conn)
              /\ CallIs("remove", "closing", ops["remove"].refs, ops["remove"].todo)
         /\ ~mgr.managed =>
              /\ UNCHANGED <<mgr, conn>>
              /\ CallIs("remove", "reading", ops["remove"].refs, ops["remove"].todo)
         /\ UNCHANGED <<profile, secrets, past>>
<1>0. profile \in Profiles /\ secrets \in SUBSET Keys /\ mgr \in ManagerRecords /\ conn \in LinkRecords
      /\ ops \in [Calls -> CallRecords] /\ past \in LinkPasts
  BY DEF LinksTyped
<1>1. ops["remove"].at = "none" /\ profile.st # "none" /\ ops["restore"].at = "none"
      /\ "connect" \notin conn.waits \cup conn.again
  BY DEF RemovePeer
<1>2. mgr.managed =>
        /\ Stopped(mgr', mgr)
        /\ Closed(conn', conn)
        /\ CallIs("remove", "closing", ops["remove"].refs, ops["remove"].todo)
  BY <1>0, DisabledIs, ClosingIs, GoesIs DEF RemovePeer, Stopped, Closed, CallGoes, Calls, Stages
<1>3. ~mgr.managed =>
        /\ UNCHANGED <<mgr, conn>>
        /\ CallIs("remove", "reading", ops["remove"].refs, ops["remove"].todo)
  BY <1>0, GoesIs DEF RemovePeer, CallGoes, Calls, Stages
<1>4. UNCHANGED <<profile, secrets, past>>
  BY DEF RemovePeer
<1>5. LinksTyped'
  BY <1>0, <1>1, <1>2, <1>3, <1>4 DEF LinksTyped, CallIs, Closed, Stopped, LinkIs, ManagerIs
<1> QED BY <1>1, <1>2, <1>3, <1>4, <1>5

\* What ReconnectTimer changes, and what it keeps.
LEMMA ReconnectTimerDoes ==
  ASSUME LinksTyped, ReconnectTimer
  PROVE  /\ LinksTyped'
         /\ mgr.timer /\ ops["try"].at = "none"
         /\ ManagerIs(mgr', mgr.managed, mgr.enabled, mgr.provisional, FALSE, mgr.disposed, mgr.complete)
         /\ CallIs("try", "owner", ops["try"].refs, ops["try"].todo)
         /\ UNCHANGED <<profile, secrets, conn, past>>
<1>0. profile \in Profiles /\ secrets \in SUBSET Keys /\ mgr \in ManagerRecords /\ conn \in LinkRecords
      /\ ops \in [Calls -> CallRecords] /\ past \in LinkPasts
  BY DEF LinksTyped
<1>1. mgr.timer /\ ops["try"].at = "none"
  BY DEF ReconnectTimer
<1>2. ManagerIs(mgr', mgr.managed, mgr.enabled, mgr.provisional, FALSE, mgr.disposed, mgr.complete)
  BY <1>0, ManagerWrites DEF ReconnectTimer
<1>3. CallIs("try", "owner", ops["try"].refs, ops["try"].todo)
  BY <1>0, GoesIs DEF ReconnectTimer, CallGoes, Calls, Stages
<1>4. UNCHANGED <<profile, secrets, conn, past>>
  BY DEF ReconnectTimer
<1>5. LinksTyped'
  BY <1>0, <1>1, <1>2, <1>3, <1>4 DEF LinksTyped, ManagerIs, CallIs
<1> QED BY <1>1, <1>2, <1>3, <1>4, <1>5

\* What TryConnect changes, and what it keeps.
LEMMA TryConnectDoes ==
  ASSUME LinksTyped, TryConnect
  PROVE  /\ LinksTyped'
         /\ ops["try"].at = "owner"
         /\ CallIs("try", "none", {}, {})
         /\ \/ UNCHANGED mgr /\ Joined(conn', conn, "try") /\ PastIs(past', past.removed, past.late \/ Leaving, past.leaked)
            \/ /\ ManagerIs(mgr', mgr.managed, mgr.enabled, mgr.provisional, mgr.timer, mgr.disposed, mgr.complete)
               /\ UNCHANGED <<conn, past>>
         /\ UNCHANGED <<profile, secrets>>
<1>0. profile \in Profiles /\ secrets \in SUBSET Keys /\ mgr \in ManagerRecords /\ conn \in LinkRecords
      /\ ops \in [Calls -> CallRecords] /\ past \in LinkPasts
  BY DEF LinksTyped
<1>1. ops["try"].at = "owner"
  BY DEF TryConnect
<1>2. CallIs("try", "none", {}, {})
  BY <1>0, CallBecomes, NoneIs DEF TryConnect, Calls
<1>3. \/ UNCHANGED mgr /\ Joined(conn', conn, "try") /\ PastIs(past', past.removed, past.late \/ Leaving, past.leaked)
      \/ /\ ManagerIs(mgr', mgr.managed, mgr.enabled, mgr.provisional, mgr.timer, mgr.disposed, mgr.complete)
         /\ UNCHANGED <<conn, past>>
  <2>1. CASE mgr.owner
    <3> DEFINE late == past.late \/ Leaving
               n == past.attempts + 1
    <3>1. n \in Nat /\ late \in BOOLEAN
      BY <1>0 DEF LinkPasts
    <3>2. past' = [past EXCEPT !.attempts = n, !.late = late]
      BY <2>1 DEF TryConnect
    <3> HIDE DEF late, n
    <3>3. PastIs(past', past.removed, late, past.leaked)
      BY <1>0, <3>1, <3>2 DEF PastIs, LinkPasts
    <3> USE DEF late
    <3>4. UNCHANGED mgr /\ Joined(conn', conn, "try")
      BY <1>0, <2>1, JoinedIs DEF TryConnect
    <3> QED BY <3>3, <3>4
  <2>2. CASE ~mgr.owner
    BY <1>0, <2>2, ManagerWrites DEF TryConnect
  <2> QED BY <2>1, <2>2
<1>4. UNCHANGED <<profile, secrets>>
  BY DEF TryConnect
<1>5. LinksTyped'
  BY <1>0, <1>1, <1>2, <1>3, <1>4 DEF LinksTyped, ManagerIs, CallIs, PastIs, Joined, LinkIs
<1> QED BY <1>1, <1>2, <1>3, <1>4, <1>5

\* What LoseOwnership changes, and what it keeps.
LEMMA LoseOwnershipDoes ==
  ASSUME LinksTyped, LoseOwnership
  PROVE  /\ LinksTyped'
         /\ SameManager
         /\ UNCHANGED <<profile, secrets, conn, ops, past>>
<1>0. profile \in Profiles /\ secrets \in SUBSET Keys /\ mgr \in ManagerRecords /\ conn \in LinkRecords
      /\ ops \in [Calls -> CallRecords] /\ past \in LinkPasts
  BY DEF LinksTyped
<1>1. SameManager
  BY <1>0, ManagerWrites DEF LoseOwnership, SameManager
<1>2. UNCHANGED <<profile, secrets, conn, ops, past>>
  BY DEF LoseOwnership
<1>3. LinksTyped'
  BY <1>0, <1>1, <1>2 DEF LinksTyped, SameManager, ManagerIs
<1> QED BY <1>1, <1>2, <1>3

\* What Open changes, and what it keeps.
LEMMA OpenDoes ==
  ASSUME LinksTyped, Open
  PROVE  /\ LinksTyped'
         /\ conn.at = "opening" /\ profile.st \notin {"none", "tomb"}
         /\ \E at \in {"enrolling", "committing", "greeting"} :
              /\ AttemptAt(at)
              /\ at = "enrolling" => profile.st = "invited"
              /\ at = "committing" => profile.st = "candidate"
         /\ conn' \in LinkRecords
         /\ UNCHANGED <<profile, secrets, mgr, ops, past>>
<1>0. profile \in Profiles /\ secrets \in SUBSET Keys /\ mgr \in ManagerRecords /\ conn \in LinkRecords
      /\ ops \in [Calls -> CallRecords] /\ past \in LinkPasts
  BY DEF LinksTyped
<1>1. conn.at = "opening" /\ profile.st \notin {"none", "tomb"}
  BY DEF Open, Usable
<1>2. \E at \in {"enrolling", "committing", "greeting"} :
        /\ AttemptAt(at)
        /\ at = "enrolling" => profile.st = "invited"
        /\ at = "committing" => profile.st = "candidate"
  BY <1>0, AttemptIs DEF Open, AttemptGoes, AttemptAt
<1>3. conn' \in LinkRecords
  BY <1>2 DEF AttemptAt, LinkIs
<1>4. UNCHANGED <<profile, secrets, mgr, ops, past>>
  BY DEF Open
<1>5. LinksTyped'
  BY <1>0, <1>1, <1>2, <1>3, <1>4 DEF LinksTyped, AttemptAt, LinkIs
<1> QED BY <1>1, <1>2, <1>3, <1>4, <1>5

\* What StoreCredentials changes, and what it keeps.
LEMMA StoreCredentialsDoes ==
  ASSUME LinksTyped, StoreCredentials
  PROVE  /\ LinksTyped'
         /\ conn.at = "enrolling" /\ "pairing" \in secrets
         /\ secrets' = secrets \cup {"credential", "commit"}
         /\ secrets' \in SUBSET Keys
         /\ AttemptAt("recording")
         /\ PastIs(past', past.removed, past.late, past.leaked \ {"credential", "commit"})
         /\ UNCHANGED <<profile, mgr, ops>>
<1>0. profile \in Profiles /\ secrets \in SUBSET Keys /\ mgr \in ManagerRecords /\ conn \in LinkRecords
      /\ ops \in [Calls -> CallRecords] /\ past \in LinkPasts
  BY DEF LinksTyped
<1>1. conn.at = "enrolling" /\ "pairing" \in secrets
  BY DEF StoreCredentials
<1>2. secrets' = secrets \cup {"credential", "commit"}
  BY DEF StoreCredentials, Enrolled
<1>3. secrets' \in SUBSET Keys
  BY <1>0, <1>2 DEF Keys
<1>4. AttemptAt("recording")
  BY <1>0, AttemptIs DEF StoreCredentials, AttemptGoes, AttemptAt
<1>5. PastIs(past', past.removed, past.late, past.leaked \ {"credential", "commit"})
  <2>1. past.leaked \ Enrolled \in SUBSET Keys /\ past' = [past EXCEPT !.leaked = past.leaked \ Enrolled]
    BY <1>0 DEF LinkPasts, StoreCredentials
  <2> QED BY <1>0, <2>1, PastLeaks DEF PastIs, Enrolled
<1>6. UNCHANGED <<profile, mgr, ops>>
  BY DEF StoreCredentials
<1>7. LinksTyped'
  BY <1>0, <1>1, <1>2, <1>3, <1>4, <1>5, <1>6 DEF LinksTyped, AttemptAt, PastIs, LinkIs
<1> QED BY <1>1, <1>2, <1>3, <1>4, <1>5, <1>6, <1>7

\* What StoreCredentialsFails changes, and what it keeps.
LEMMA StoreCredentialsFailsDoes ==
  ASSUME LinksTyped, StoreCredentialsFails
  PROVE  /\ LinksTyped'
         /\ conn.at = "enrolling"
         /\ secrets' \in SUBSET Keys /\ ("pairing" \in secrets' => "pairing" \in secrets)
         /\ AttemptAt("failing")
         /\ GivenUp({"credential", "commit"})
         /\ UNCHANGED <<profile, mgr, ops>>
<1>0. profile \in Profiles /\ secrets \in SUBSET Keys /\ mgr \in ManagerRecords /\ conn \in LinkRecords
      /\ ops \in [Calls -> CallRecords] /\ past \in LinkPasts
  BY DEF LinksTyped
<1>1. conn.at = "enrolling"
  BY DEF StoreCredentialsFails
<1>2. secrets' \in SUBSET Keys /\ ("pairing" \in secrets' => "pairing" \in secrets)
  BY <1>0 DEF StoreCredentialsFails, Enrolled, Keys
<1>3. AttemptAt("failing")
  BY <1>0, AttemptIs DEF StoreCredentialsFails, AttemptGoes, AttemptAt
<1>4. GivenUp({"credential", "commit"})
  BY <1>0, GivenUpIs DEF StoreCredentialsFails, Enrolled, Keys
<1>5. UNCHANGED <<profile, mgr, ops>>
  BY DEF StoreCredentialsFails
<1>6. LinksTyped'
  BY <1>0, <1>1, <1>2, <1>3, <1>4, <1>5 DEF LinksTyped, GivenUp, AttemptAt, PastIs, LinkIs
<1> QED BY <1>1, <1>2, <1>3, <1>4, <1>5, <1>6

\* What PeerReplied changes, and what it keeps.
LEMMA PeerRepliedDoes ==
  ASSUME LinksTyped, PeerReplied
  PROVE  /\ LinksTyped'
         /\ conn.at \in {"committing", "greeting"}
         /\ AttemptAt(IF conn.at = "committing" THEN "completing" ELSE "authenticated")
         /\ UNCHANGED <<profile, secrets, mgr, ops, past>>
<1>0. profile \in Profiles /\ secrets \in SUBSET Keys /\ mgr \in ManagerRecords /\ conn \in LinkRecords
      /\ ops \in [Calls -> CallRecords] /\ past \in LinkPasts
  BY DEF LinksTyped
<1>1. conn.at \in {"committing", "greeting"}
  BY DEF PeerReplied
<1>2. AttemptAt(IF conn.at = "committing" THEN "completing" ELSE "authenticated")
  BY <1>0, AttemptIs DEF PeerReplied, AttemptGoes, AttemptAt
<1>3. UNCHANGED <<profile, secrets, mgr, ops, past>>
  BY DEF PeerReplied
<1>4. LinksTyped'
  BY <1>0, <1>1, <1>2, <1>3 DEF LinksTyped, AttemptAt, LinkIs
<1> QED BY <1>1, <1>2, <1>3, <1>4

\* What DropEnrollmentKeys changes, and what it keeps.
LEMMA DropEnrollmentKeysDoes ==
  ASSUME LinksTyped, DropEnrollmentKeys
  PROVE  /\ LinksTyped'
         /\ conn.at = "completing"
         /\ secrets' \subseteq secrets
         /\ \/ secrets' = secrets \ {"commit", "pairing"} /\ AttemptAt("storing")
            \/ AttemptAt("failing")
         /\ SamePast
         /\ UNCHANGED <<profile, mgr, ops>>
<1>0. profile \in Profiles /\ secrets \in SUBSET Keys /\ mgr \in ManagerRecords /\ conn \in LinkRecords
      /\ ops \in [Calls -> CallRecords] /\ past \in LinkPasts
  BY DEF LinksTyped
<1>1. conn.at = "completing"
  BY DEF DropEnrollmentKeys
<1>2. secrets' \subseteq secrets
  BY DEF DropEnrollmentKeys
<1>3. \/ secrets' = secrets \ {"commit", "pairing"} /\ AttemptAt("storing")
      \/ AttemptAt("failing")
  <2>1. AttemptGoes("storing") => AttemptAt("storing")
    BY <1>0, AttemptIs DEF AttemptGoes, AttemptAt
  <2>2. AttemptGoes("failing") => AttemptAt("failing")
    BY <1>0, AttemptIs DEF AttemptGoes, AttemptAt
  <2> QED BY <2>1, <2>2 DEF DropEnrollmentKeys
<1>4. SamePast
  BY <1>0, SamePastIs DEF DropEnrollmentKeys, Tallied
<1>5. UNCHANGED <<profile, mgr, ops>>
  BY DEF DropEnrollmentKeys
<1>6. LinksTyped'
  BY <1>0, <1>1, <1>2, <1>3, <1>4, <1>5 DEF LinksTyped, SamePast, AttemptAt, PastIs, LinkIs
<1> QED BY <1>1, <1>2, <1>3, <1>4, <1>5, <1>6

\* What Established changes, and what it keeps.
LEMMA EstablishedDoes ==
  ASSUME LinksTyped, Established
  PROVE  /\ LinksTyped'
         /\ conn.at = "authenticated"
         /\ \E s \in {"offline", "online", "authFailed", "incompatible", "rePairRequired"}, ok \in BOOLEAN :
               /\ Settles(s, ok)
               /\ conn.aborted => ok /\ s = "offline"
               /\ s = "online" => ok
               /\ ok => conn.aborted \/ s = "online"
         /\ UNCHANGED <<profile, secrets, past>>
         /\ mgr' \in ManagerRecords /\ conn' \in LinkRecords /\ ops' \in [Calls -> CallRecords]
<1>0. profile \in Profiles /\ secrets \in SUBSET Keys /\ mgr \in ManagerRecords /\ conn \in LinkRecords
      /\ ops \in [Calls -> CallRecords] /\ past \in LinkPasts
  BY DEF LinksTyped
<1>1. conn.at = "authenticated"
  BY DEF Established
<1>2. \E s \in {"offline", "online", "authFailed", "incompatible", "rePairRequired"}, ok \in BOOLEAN :
         /\ Settles(s, ok)
         /\ conn.aborted => ok /\ s = "offline"
         /\ s = "online" => ok
         /\ ok => conn.aborted \/ s = "online"
  <2>1. CASE conn.aborted
    <3>1. Continue("offline", TRUE)
      BY <2>1 DEF Established
    <3> QED BY <1>0, <2>1, <3>1, ContinueIs
  <2>2. CASE ~conn.aborted
    <3>1. Continue("online", TRUE)
      BY <2>2 DEF Established
    <3> QED BY <1>0, <2>2, <3>1, ContinueIs
  <2> QED BY <2>1, <2>2
<1>3. UNCHANGED <<profile, secrets, past>>
  BY DEF Established
<1>4. mgr' \in ManagerRecords /\ conn' \in LinkRecords /\ ops' \in [Calls -> CallRecords]
  BY <1>2 DEF Settles, LinkIs, Stopped, Timed, ManagerIs
<1>5. LinksTyped'
  BY <1>0, <1>1, <1>2, <1>3, <1>4 DEF LinksTyped
<1> QED BY <1>1, <1>2, <1>3, <1>4, <1>5

\* What SessionCloses changes, and what it keeps.
LEMMA SessionClosesDoes ==
  ASSUME LinksTyped, SessionCloses
  PROVE  /\ LinksTyped'
         /\ conn.session
         /\ LinkIs(conn', conn.at, conn.aborted, FALSE, conn.closing, conn.waits, conn.again)
         /\ Timed(mgr', mgr)
         /\ UNCHANGED <<profile, secrets, ops, past>>
<1>0. profile \in Profiles /\ secrets \in SUBSET Keys /\ mgr \in ManagerRecords /\ conn \in LinkRecords
      /\ ops \in [Calls -> CallRecords] /\ past \in LinkPasts
  BY DEF LinksTyped
<1>1. conn.session
  BY DEF SessionCloses
<1>2. LinkIs(conn', conn.at, conn.aborted, FALSE, conn.closing, conn.waits, conn.again)
  BY <1>0, LinkWrites DEF SessionCloses
<1>3. Timed(mgr', mgr)
  BY <1>0, TimedIs DEF SessionCloses
<1>4. UNCHANGED <<profile, secrets, ops, past>>
  BY DEF SessionCloses
<1>5. LinksTyped'
  BY <1>0, <1>1, <1>2, <1>3, <1>4 DEF LinksTyped, LinkIs, Timed, ManagerIs
<1> QED BY <1>1, <1>2, <1>3, <1>4, <1>5

\* What Disconnected changes, and what it keeps.
LEMMA DisconnectedDoes ==
  ASSUME LinksTyped, Disconnected
  PROVE  /\ LinksTyped'
         /\ conn.closing /\ conn.at = "none"
         /\ conn.again = {} => LinkIs(conn', "none", conn.aborted, FALSE, FALSE, conn.waits, {})
         /\ conn.again # {} => LinkIs(conn', "opening", FALSE, FALSE, FALSE, conn.again, {})
         /\ PastIs(past', past.removed, past.late \/ (conn.again # {} /\ Leaving), past.leaked)
         /\ conn' \in LinkRecords
         /\ UNCHANGED <<profile, secrets, mgr, ops>>
<1>0. profile \in Profiles /\ secrets \in SUBSET Keys /\ mgr \in ManagerRecords /\ conn \in LinkRecords
      /\ ops \in [Calls -> CallRecords] /\ past \in LinkPasts
  BY DEF LinksTyped
<1>1. conn.closing /\ conn.at = "none"
  BY DEF Disconnected
<1>2. conn.again = {} => LinkIs(conn', "none", conn.aborted, FALSE, FALSE, conn.waits, {})
  BY <1>0, LinkWrites DEF Disconnected
<1>3. conn.again # {} => LinkIs(conn', "opening", FALSE, FALSE, FALSE, conn.again, {})
  <2> DEFINE y == [conn EXCEPT !.closing = FALSE, !.session = FALSE, !.state = "offline", !.again = {}]
  <2>1. LinkIs(y, "none", conn.aborted, FALSE, FALSE, conn.waits, {})
    BY <1>0, <1>1, LinkWrites
  <2>2. conn.again # {} => conn' = [Connecting(y, "try") EXCEPT !.waits = conn.again]
    BY DEF Disconnected
  <2> HIDE DEF y
  <2>3. LinkIs(Connecting(y, "try"), "opening", FALSE, FALSE, FALSE, {"try"}, {})
    BY <2>1, ConnectingIs DEF LinkIs
  <2>4. conn.again \in SUBSET {"add", "try", "connect"}
    BY <1>0 DEF LinkRecords
  <2> DEFINE z == Connecting(y, "try")
  <2>5. z \in LinkRecords
    BY <2>3 DEF LinkIs
  <2>6. LinkIs(z, "opening", FALSE, FALSE, FALSE, {"try"}, {})
    BY <2>3
  <2> HIDE DEF z
  <2>7. LinkIs([z EXCEPT !.waits = conn.again], z.at, z.aborted, z.session, z.closing, conn.again, z.again)
    BY <2>4, <2>5, LinkWrites
  <2> QED BY <2>2, <2>6, <2>7 DEF LinkIs, z
<1>4. PastIs(past', past.removed, past.late \/ (conn.again # {} /\ Leaving), past.leaked)
  <2>1. (past.late \/ (conn.again # {} /\ Leaving)) \in BOOLEAN
    BY <1>0 DEF LinkPasts
  <2> QED BY <1>0, <2>1, PastLate DEF Disconnected, PastIs
<1>5. conn' \in LinkRecords
  BY <1>2, <1>3 DEF LinkIs
<1>6. UNCHANGED <<profile, secrets, mgr, ops>>
  BY DEF Disconnected
<1>7. LinksTyped'
  BY <1>0, <1>1, <1>2, <1>3, <1>4, <1>5, <1>6 DEF LinksTyped, LinkIs, PastIs
<1> QED BY <1>1, <1>2, <1>3, <1>4, <1>5, <1>6, <1>7

\* What Dispose changes, and what it keeps.
LEMMA DisposeDoes ==
  ASSUME LinksTyped, Dispose
  PROVE  /\ LinksTyped'
         /\ ops["dispose"].at = "none" /\ ~mgr.complete
         /\ ManagerIs(mgr', mgr.managed, FALSE, mgr.provisional, FALSE, TRUE, mgr.complete)
         /\ mgr.managed => Closed(conn', conn)
         /\ ~mgr.managed => UNCHANGED conn
         /\ conn' \in LinkRecords
         /\ CallIs("dispose", "first", ops["dispose"].refs, ops["dispose"].todo)
         /\ UNCHANGED <<profile, secrets, past>>
<1>0. profile \in Profiles /\ secrets \in SUBSET Keys /\ mgr \in ManagerRecords /\ conn \in LinkRecords
      /\ ops \in [Calls -> CallRecords] /\ past \in LinkPasts
  BY DEF LinksTyped
<1>1. ops["dispose"].at = "none" /\ ~mgr.complete
  BY DEF Dispose
<1>2. ManagerIs(mgr', mgr.managed, FALSE, mgr.provisional, FALSE, TRUE, mgr.complete)
  <2> DEFINE d == Disabled(mgr)
  <2>1. mgr' = [d EXCEPT !.disposed = TRUE]
    BY DEF Dispose
  <2>2. ManagerIs(d, mgr.managed, FALSE, mgr.provisional, FALSE, mgr.disposed, mgr.complete)
    BY <1>0, DisabledIs
  <2>3. d \in ManagerRecords
    BY <2>2 DEF ManagerIs
  <2> HIDE DEF d
  <2> QED BY <2>1, <2>2, <2>3, ManagerWrites DEF ManagerIs
<1>3. mgr.managed => Closed(conn', conn)
  BY <1>0, ClosingIs DEF Dispose, Closed
<1>4. ~mgr.managed => UNCHANGED conn
  BY DEF Dispose
<1>5. conn' \in LinkRecords
  BY <1>0, <1>3, <1>4 DEF Closed, LinkIs
<1>6. CallIs("dispose", "first", ops["dispose"].refs, ops["dispose"].todo)
  BY <1>0, GoesIs DEF Dispose, CallGoes, Calls, Stages
<1>7. UNCHANGED <<profile, secrets, past>>
  BY DEF Dispose
<1>8. LinksTyped'
  BY <1>0, <1>1, <1>2, <1>3, <1>4, <1>5, <1>6, <1>7 DEF LinksTyped, ManagerIs, CallIs, Closed, LinkIs
<1> QED BY <1>1, <1>2, <1>3, <1>4, <1>5, <1>6, <1>7, <1>8

\* What Drained changes, and what it keeps.
LEMMA DrainedDoes ==
  ASSUME LinksTyped, Drained
  PROVE  /\ LinksTyped'
         /\ ops["dispose"].at = "first" /\ ~conn.closing /\ ~Inflight
         /\ Stopped(mgr', mgr)
         /\ mgr.managed => Closed(conn', conn)
         /\ ~mgr.managed => UNCHANGED conn
         /\ conn' \in LinkRecords
         /\ CallIs("dispose", "second", ops["dispose"].refs, ops["dispose"].todo)
         /\ UNCHANGED <<profile, secrets, past>>
<1>0. profile \in Profiles /\ secrets \in SUBSET Keys /\ mgr \in ManagerRecords /\ conn \in LinkRecords
      /\ ops \in [Calls -> CallRecords] /\ past \in LinkPasts
  BY DEF LinksTyped
<1>1. ops["dispose"].at = "first" /\ ~conn.closing /\ ~Inflight
  BY DEF Drained
<1>2. Stopped(mgr', mgr)
  BY <1>0, DisabledIs DEF Drained, Stopped
<1>3. mgr.managed => Closed(conn', conn)
  BY <1>0, ClosingIs DEF Drained, Closed
<1>4. ~mgr.managed => UNCHANGED conn
  BY DEF Drained
<1>5. conn' \in LinkRecords
  BY <1>0, <1>3, <1>4 DEF Closed, LinkIs
<1>6. CallIs("dispose", "second", ops["dispose"].refs, ops["dispose"].todo)
  BY <1>0, GoesIs DEF Drained, CallGoes, Calls, Stages
<1>7. UNCHANGED <<profile, secrets, past>>
  BY DEF Drained
<1>8. LinksTyped'
  BY <1>0, <1>1, <1>2, <1>3, <1>4, <1>5, <1>6, <1>7 DEF LinksTyped, CallIs, Closed, Stopped, LinkIs, ManagerIs
<1> QED BY <1>1, <1>2, <1>3, <1>4, <1>5, <1>6, <1>7, <1>8

\* What Disposed changes, and what it keeps.
LEMMA DisposedDoes ==
  ASSUME LinksTyped, Disposed
  PROVE  /\ LinksTyped'
         /\ ops["dispose"].at = "end"
         /\ \E b \in BOOLEAN : ManagerIs(mgr', mgr.managed, mgr.enabled, mgr.provisional, mgr.timer, mgr.disposed, b)
         /\ mgr' \in ManagerRecords
         /\ CallIs("dispose", "none", {}, {})
         /\ UNCHANGED <<profile, secrets, conn, past>>
<1>0. profile \in Profiles /\ secrets \in SUBSET Keys /\ mgr \in ManagerRecords /\ conn \in LinkRecords
      /\ ops \in [Calls -> CallRecords] /\ past \in LinkPasts
  BY DEF LinksTyped
<1>1. ops["dispose"].at = "end"
  BY DEF Disposed
<1>2. \E b \in BOOLEAN : ManagerIs(mgr', mgr.managed, mgr.enabled, mgr.provisional, mgr.timer, mgr.disposed, b)
  <2> DEFINE b == ~mgr.background /\ ~ops["dispose"].failed
  <2>1. b \in BOOLEAN
    OBVIOUS
  <2>2. mgr' = [mgr EXCEPT !.background = FALSE, !.complete = b]
    BY DEF Disposed
  <2> HIDE DEF b
  <2> QED BY <1>0, <2>1, <2>2, ManagerWritesMore
<1>3. mgr' \in ManagerRecords
  BY <1>2 DEF ManagerIs
<1>4. CallIs("dispose", "none", {}, {})
  BY <1>0, NoneIs, CallBecomes DEF Disposed, Calls
<1>5. UNCHANGED <<profile, secrets, conn, past>>
  BY DEF Disposed
<1>6. LinksTyped'
  BY <1>0, <1>1, <1>2, <1>3, <1>4, <1>5 DEF LinksTyped, ManagerIs, CallIs
<1> QED BY <1>1, <1>2, <1>3, <1>4, <1>5, <1>6

\* What Restored changes, and what it keeps.
LEMMA RestoredDoes ==
  ASSUME LinksTyped, Restored
  PROVE  /\ LinksTyped'
         /\ ops["restore"].at = "end" /\ ~conn.closing
         /\ \/ UNCHANGED <<mgr, conn>> /\ CallIs("restore", "none", {}, {})
            \/ /\ ~mgr.disposed /\ ~mgr.managed /\ profile.st \notin {"none", "tomb"}
               /\ ManagerIs(mgr', TRUE, TRUE, IsProvisional(profile), mgr.timer, mgr.disposed, mgr.complete)
               /\ conn' = NoLink /\ Launched
         /\ mgr' \in ManagerRecords /\ conn' \in LinkRecords /\ ops' \in [Calls -> CallRecords]
         /\ UNCHANGED <<profile, secrets, past>>
<1>0. profile \in Profiles /\ secrets \in SUBSET Keys /\ mgr \in ManagerRecords /\ conn \in LinkRecords
      /\ ops \in [Calls -> CallRecords] /\ past \in LinkPasts
  BY DEF LinksTyped
<1>1. ops["restore"].at = "end" /\ ~conn.closing
  BY DEF Restored
<1>2. \/ UNCHANGED <<mgr, conn>> /\ CallIs("restore", "none", {}, {})
      \/ /\ ~mgr.disposed /\ ~mgr.managed /\ profile.st \notin {"none", "tomb"}
         /\ ManagerIs(mgr', TRUE, TRUE, IsProvisional(profile), mgr.timer, mgr.disposed, mgr.complete)
         /\ conn' = NoLink /\ Launched
  <2>1. CASE ~ops["restore"].failed /\ ~mgr.disposed /\ ~mgr.managed /\ Usable(profile)
    <3>1. /\ profile.st \notin {"none", "tomb"} /\ mgr' = Managed(mgr) /\ conn' = NoLink
          /\ ops' = [ops EXCEPT !["restore"] = NoCall, !["try"].at = "owner"]
      BY <2>1 DEF Restored, Usable
    <3>2. IsProvisional(profile) \in BOOLEAN
      BY DEF IsProvisional
    <3>3. ManagerIs(mgr', TRUE, TRUE, IsProvisional(profile), mgr.timer, mgr.disposed, mgr.complete)
      BY <1>0, <3>1, <3>2, ManagerWritesMore DEF Managed
    <3>4. Launched
      BY <1>0, <3>1, LaunchedIs
    <3> QED BY <2>1, <3>1, <3>3, <3>4
  <2>2. CASE ~(~ops["restore"].failed /\ ~mgr.disposed /\ ~mgr.managed /\ Usable(profile))
    <3>1. UNCHANGED <<mgr, conn>> /\ ops' = [ops EXCEPT !["restore"] = NoCall]
      BY <2>2 DEF Restored
    <3> QED BY <1>0, <3>1, NoneIs, CallBecomes DEF Calls
  <2> QED BY <2>1, <2>2
<1>3. mgr' \in ManagerRecords /\ conn' \in LinkRecords /\ ops' \in [Calls -> CallRecords]
  BY <1>0, <1>2, NoneIs DEF ManagerIs, LinkIs, CallIs, Launched
<1>4. UNCHANGED <<profile, secrets, past>>
  BY DEF Restored
<1>5. LinksTyped'
  BY <1>0, <1>1, <1>2, <1>3, <1>4 DEF LinksTyped, ManagerIs, CallIs, Launched
<1> QED BY <1>1, <1>2, <1>3, <1>4, <1>5

\* What StoreInvitation changes, and what it keeps.
LEMMA StoreInvitationDoes ==
  ASSUME LinksTyped, NEW how \in Outcomes, StoreInvitation(how)
  PROVE  /\ LinksTyped'
         /\ ops["add"].at = "secret"
         /\ secrets' \in SUBSET Keys /\ secrets \subseteq secrets' /\ secrets' \subseteq secrets \cup {"pairing"}
         /\ \/ CallIs("add", "profile", ops["add"].refs, ops["add"].todo)
            \/ RolledBack
         /\ SamePast
         /\ UNCHANGED <<profile, mgr, conn>>
<1>0. profile \in Profiles /\ secrets \in SUBSET Keys /\ mgr \in ManagerRecords /\ conn \in LinkRecords
      /\ ops \in [Calls -> CallRecords] /\ past \in LinkPasts
  BY DEF LinksTyped
<1>1. ops["add"].at = "secret"
  BY DEF StoreInvitation
<1>2. secrets' \in SUBSET Keys /\ secrets \subseteq secrets' /\ secrets' \subseteq secrets \cup {"pairing"}
  BY <1>0 DEF StoreInvitation, Keys
<1>3. \/ CallIs("add", "profile", ops["add"].refs, ops["add"].todo)
      \/ RolledBack
  BY <1>0, GoesIs, RollbackOfAddIs DEF StoreInvitation, CallGoes, Calls, Stages
<1>4. SamePast
  BY <1>0, SamePastIs DEF StoreInvitation, Tallied
<1>5. UNCHANGED <<profile, mgr, conn>>
  BY DEF StoreInvitation
<1>6. LinksTyped'
  BY <1>0, <1>1, <1>2, <1>3, <1>4, <1>5 DEF LinksTyped, CallIs, SamePast, RolledBack, PastIs
<1> QED BY <1>1, <1>2, <1>3, <1>4, <1>5, <1>6

\* What StoreProfile changes, and what it keeps.
LEMMA StoreProfileDoes ==
  ASSUME LinksTyped, NEW how \in Outcomes, StoreProfile(how)
  PROVE  /\ LinksTyped'
         /\ ops["add"].at = "profile"
         /\ profile' = Invited \/ UNCHANGED profile
         /\ how = "done" /\ ~mgr.disposed =>
              /\ profile' = Invited
              /\ ManagerIs(mgr', TRUE, TRUE, TRUE, mgr.timer, mgr.disposed, mgr.complete)
              /\ LinkIs(conn', "opening", FALSE, FALSE, FALSE, {"add"}, {})
              /\ CallIs("add", "connecting", ops["add"].refs, ops["add"].todo)
         /\ ~(how = "done" /\ ~mgr.disposed) => UNCHANGED <<mgr, conn>> /\ RolledBack
         /\ SamePast
         /\ UNCHANGED secrets
<1>0. profile \in Profiles /\ secrets \in SUBSET Keys /\ mgr \in ManagerRecords /\ conn \in LinkRecords
      /\ ops \in [Calls -> CallRecords] /\ past \in LinkPasts
  BY DEF LinksTyped
<1>1. ops["add"].at = "profile"
  BY DEF StoreProfile
<1>2. profile' = Invited \/ UNCHANGED profile
  BY DEF StoreProfile
<1>3. how = "done" /\ ~mgr.disposed =>
        /\ profile' = Invited
        /\ ManagerIs(mgr', TRUE, TRUE, TRUE, mgr.timer, mgr.disposed, mgr.complete)
        /\ LinkIs(conn', "opening", FALSE, FALSE, FALSE, {"add"}, {})
        /\ CallIs("add", "connecting", ops["add"].refs, ops["add"].todo)
  <2>1. CASE how = "done" /\ ~mgr.disposed
    <3>1. ManagerIs(mgr', TRUE, TRUE, TRUE, mgr.timer, mgr.disposed, mgr.complete)
      BY <1>0, <2>1, ManagerWritesMore DEF StoreProfile
    <3>2. Joined(conn', NoLink, "add")
      BY <2>1, NoneIs, JoinedIs DEF StoreProfile, LinkIs
    <3>3. LinkIs(conn', "opening", FALSE, FALSE, FALSE, {"add"}, {})
      BY <3>2, NoneIs DEF Joined, LinkIs
    <3>4. CallIs("add", "connecting", ops["add"].refs, ops["add"].todo)
      BY <1>0, <2>1, GoesIs DEF StoreProfile, CallGoes, Calls, Stages
    <3>5. profile' = Invited
      BY <2>1 DEF StoreProfile, Lands
    <3> QED BY <3>1, <3>3, <3>4, <3>5
  <2> QED BY <2>1
<1>4. ~(how = "done" /\ ~mgr.disposed) => UNCHANGED <<mgr, conn>> /\ RolledBack
  BY <1>0, RollbackOfAddIs DEF StoreProfile
<1>5. SamePast
  BY <1>0, SamePastIs DEF StoreProfile, Tallied
<1>6. UNCHANGED secrets
  BY DEF StoreProfile
<1>7. LinksTyped'
  BY <1>0, <1>1, <1>2, <1>3, <1>4, <1>5, <1>6, TombIs, ProfilesAre DEF LinksTyped, ManagerIs, LinkIs, CallIs,
     SamePast, RolledBack, PastIs
<1> QED BY <1>1, <1>2, <1>3, <1>4, <1>5, <1>6, <1>7

\* What StoreCandidate changes, and what it keeps.
LEMMA StoreCandidateDoes ==
  ASSUME LinksTyped, NEW how \in Outcomes, StoreCandidate(how)
  PROVE  /\ LinksTyped'
         /\ conn.at = "recording"
         /\ profile' = Candidate
         /\ AttemptAt("committing")
         /\ SamePast
         /\ UNCHANGED <<secrets, mgr, ops>>
<1>0. profile \in Profiles /\ secrets \in SUBSET Keys /\ mgr \in ManagerRecords /\ conn \in LinkRecords
      /\ ops \in [Calls -> CallRecords] /\ past \in LinkPasts
  BY DEF LinksTyped
<1>1. conn.at = "recording"
  BY DEF StoreCandidate
<1>2. profile' = Candidate
  BY DEF StoreCandidate
<1>3. AttemptAt("committing")
  BY <1>0, AttemptIs DEF StoreCandidate, AttemptGoes, AttemptAt
<1>4. SamePast
  BY <1>0, SamePastIs DEF StoreCandidate, Tallied
<1>5. UNCHANGED <<secrets, mgr, ops>>
  BY DEF StoreCandidate
<1>6. LinksTyped'
  BY <1>0, <1>1, <1>2, <1>3, <1>4, <1>5, TombIs, ProfilesAre DEF LinksTyped, SamePast, AttemptAt, PastIs, LinkIs
<1> QED BY <1>1, <1>2, <1>3, <1>4, <1>5, <1>6

\* What StoreComplete changes, and what it keeps.
LEMMA StoreCompleteDoes ==
  ASSUME LinksTyped, NEW how \in Outcomes, StoreComplete(how)
  PROVE  /\ LinksTyped'
         /\ conn.at = "storing"
         /\ profile' = Complete \/ UNCHANGED profile
         /\ AttemptAt(IF how = "done" THEN "authenticated" ELSE "failing")
         /\ SamePast
         /\ UNCHANGED <<secrets, mgr, ops>>
<1>0. profile \in Profiles /\ secrets \in SUBSET Keys /\ mgr \in ManagerRecords /\ conn \in LinkRecords
      /\ ops \in [Calls -> CallRecords] /\ past \in LinkPasts
  BY DEF LinksTyped
<1>1. conn.at = "storing"
  BY DEF StoreComplete
<1>2. profile' = Complete \/ UNCHANGED profile
  BY DEF StoreComplete
<1>3. AttemptAt(IF how = "done" THEN "authenticated" ELSE "failing")
  BY <1>0, AttemptIs DEF StoreComplete, AttemptGoes, AttemptAt
<1>4. SamePast
  BY <1>0, SamePastIs DEF StoreComplete, Tallied
<1>5. UNCHANGED <<secrets, mgr, ops>>
  BY DEF StoreComplete
<1>6. LinksTyped'
  BY <1>0, <1>1, <1>2, <1>3, <1>4, <1>5, TombIs, ProfilesAre DEF LinksTyped, SamePast, AttemptAt, PastIs, LinkIs
<1> QED BY <1>1, <1>2, <1>3, <1>4, <1>5, <1>6

\* What Discard changes, and what it keeps.
LEMMA DiscardDoes ==
  ASSUME LinksTyped, NEW how \in Outcomes, Discard(how)
  PROVE  /\ LinksTyped'
         /\ ops["rollback"].at = "discarding"
         /\ secrets' \subseteq secrets
         /\ CallIs("rollback", "none", {}, {}) /\ SameManager
         /\ GivenUp({"pairing"})
         /\ UNCHANGED <<profile, conn>>
<1>0. profile \in Profiles /\ secrets \in SUBSET Keys /\ mgr \in ManagerRecords /\ conn \in LinkRecords
      /\ ops \in [Calls -> CallRecords] /\ past \in LinkPasts
  BY DEF LinksTyped
<1>1. ops["rollback"].at = "discarding"
  BY DEF Discard
<1>2. secrets' \subseteq secrets
  BY DEF Discard
<1>3. CallIs("rollback", "none", {}, {}) /\ SameManager
  <2> DEFINE bad == ops["rollback"].failed \/ how # "done"
  <2>1. bad \in BOOLEAN /\ EndOf("rollback", bad)
    BY DEF Discard
  <2> HIDE DEF bad
  <2> QED BY <1>0, <2>1, EndOfIs DEF Ended, Calls
<1>4. GivenUp({"pairing"})
  <2>1. {"pairing"} \in SUBSET Keys
    BY DEF Keys
  <2>2. CASE how = "done"
    <3>1. UNCHANGED past /\ "pairing" \notin secrets'
      BY <2>2 DEF Discard, Lands
    <3>2. past.leaked = past.leaked \cup ((secrets' \cap {"pairing"}) \ profile'.refs)
      BY <3>1
    <3> QED BY <1>0, <3>1, <3>2 DEF GivenUp, PastIs
  <2>3. CASE how # "done"
    BY <1>0, <2>1, <2>3, GivenUpIs DEF Discard
  <2> QED BY <2>2, <2>3
<1>5. UNCHANGED <<profile, conn>>
  BY DEF Discard
<1>6. LinksTyped'
  BY <1>0, <1>1, <1>2, <1>3, <1>4, <1>5 DEF LinksTyped, CallIs, GivenUp, SameManager, PastIs, ManagerIs
<1> QED BY <1>1, <1>2, <1>3, <1>4, <1>5, <1>6

\* What Fallback changes, and what it keeps.
LEMMA FallbackDoes ==
  ASSUME LinksTyped, NEW how \in Outcomes, Fallback(how)
  PROVE  /\ LinksTyped'
         /\ ops["rollback"].at = "fallback"
         /\ \/ UNCHANGED profile
            \/ /\ profile.st = "none" /\ profile' = Tomb({"pairing"})
               /\ profile'.st = "tomb" /\ profile'.refs = {"pairing"}
         /\ profile' \in Profiles
         /\ \/ CallIs("rollback", "deleting", {"pairing"}, {"pairing"}) /\ profile'.st = "tomb" /\ profile'.refs = {"pairing"}
            \/ /\ CallIs("rollback", "none", {}, {})
               /\ profile.st = "none" /\ "pairing" \in secrets => "pairing" \in profile'.refs \cup past'.leaked
         /\ PastIs(past', past.removed, past.late, past'.leaked) /\ past.leaked \subseteq past'.leaked
         /\ ops' \in [Calls -> CallRecords]
         /\ SameManager
         /\ UNCHANGED <<secrets, conn>>
<1>0. profile \in Profiles /\ secrets \in SUBSET Keys /\ mgr \in ManagerRecords /\ conn \in LinkRecords
      /\ ops \in [Calls -> CallRecords] /\ past \in LinkPasts
  BY DEF LinksTyped
<1>1. ops["rollback"].at = "fallback"
  BY DEF Fallback
<1>2. \/ UNCHANGED profile
      \/ /\ profile.st = "none" /\ profile' = Tomb({"pairing"})
         /\ profile'.st = "tomb" /\ profile'.refs = {"pairing"}
  <2>1. {"pairing"} \in SUBSET Keys
    BY DEF Keys
  <2> QED BY <2>1, TombIs DEF Fallback
<1>3. profile' \in Profiles
  <2>1. {"pairing"} \in SUBSET Keys
    BY DEF Keys
  <2> QED BY <1>0, <1>2, <2>1, TombIs
<1>4. \/ CallIs("rollback", "deleting", {"pairing"}, {"pairing"}) /\ profile'.st = "tomb" /\ profile'.refs = {"pairing"}
      \/ /\ CallIs("rollback", "none", {}, {})
         /\ profile.st = "none" /\ "pairing" \in secrets => "pairing" \in profile'.refs \cup past'.leaked
  <2>1. ops["rollback"] \in CallRecords /\ {"pairing"} \in SUBSET Keys /\ "rollback" \in Calls
    BY <1>0 DEF Keys, Calls
  <2>2. CASE profile.st = "none" /\ how = "done"
    <3>1. ops' = [ops EXCEPT !["rollback"] = CleaningUp(ops["rollback"], {"pairing"})] /\ profile' = Tomb({"pairing"})
      BY <2>2 DEF Fallback, Lands
    <3>2. CallIs("rollback", "deleting", {"pairing"}, {"pairing"})
      <4>1. LET c == CleaningUp(ops["rollback"], {"pairing"})
            IN c \in CallRecords /\ c.at = "deleting" /\ c.refs = {"pairing"} /\ c.todo = {"pairing"}
        BY <2>1, CleaningUpIs
      <4> QED BY <1>0, <2>1, <3>1, <4>1, CallBecomes
    <3> QED BY <2>1, <3>1, <3>2, TombIs
  <2>3. CASE ~(profile.st = "none" /\ how = "done")
    <3>1. EndOf("rollback", how # "done") /\ UNCHANGED secrets
      BY <2>3 DEF Fallback
    <3>2. (how # "done") \in BOOLEAN
      OBVIOUS
    <3>3. CallIs("rollback", "none", {}, {})
      BY <1>0, <2>1, <3>1, <3>2, EndOfIs DEF Ended
    <3>4. CASE how # "done"
      <4>1. GivenUp({"pairing"})
        BY <1>0, <2>1, <3>4, GivenUpIs DEF Fallback
      <4> QED BY <3>1, <3>3, <4>1 DEF GivenUp, PastIs
    <3> QED BY <2>3, <3>3, <3>4
  <2> QED BY <2>2, <2>3
<1>5. PastIs(past', past.removed, past.late, past'.leaked) /\ past.leaked \subseteq past'.leaked
  <2>1. {"pairing"} \in SUBSET Keys
    BY DEF Keys
  <2>2. CASE how = "done"
    BY <1>0, <2>2 DEF Fallback, PastIs
  <2>3. CASE how # "done"
    BY <1>0, <2>1, <2>3, GivenUpIs DEF Fallback, GivenUp, PastIs
  <2> QED BY <2>2, <2>3
<1>6. ops' \in [Calls -> CallRecords]
  BY <1>4 DEF CallIs
<1>7. SameManager
  <2>1. UNCHANGED mgr => SameManager
    BY <1>0 DEF SameManager, ManagerIs
  <2>2. "rollback" \in Calls /\ (how # "done") \in BOOLEAN
    BY DEF Calls
  <2>3. EndOf("rollback", how # "done") => SameManager
    BY <1>0, <2>2, EndOfIs
  <2> QED BY <2>1, <2>3 DEF Fallback
<1>8. UNCHANGED <<secrets, conn>>
  BY DEF Fallback
<1>9. LinksTyped'
  BY <1>0, <1>1, <1>2, <1>3, <1>4, <1>5, <1>6, <1>7, <1>8, TombIs, ProfilesAre DEF LinksTyped, CallIs,
     SameManager, PastIs, ManagerIs
<1> QED BY <1>1, <1>2, <1>3, <1>4, <1>5, <1>6, <1>7, <1>8, <1>9

\* What CandidateFails changes, and what it keeps.
LEMMA CandidateFailsDoes ==
  ASSUME LinksTyped, NEW landed \in BOOLEAN, NEW left \in SUBSET Enrolled, CandidateFails(landed, left)
  PROVE  /\ LinksTyped'
         /\ conn.at = "recording"
         /\ profile' = Candidate \/ UNCHANGED profile
         /\ secrets' \subseteq secrets
         /\ AttemptAt("failing")
         /\ GivenUp({"credential", "commit"})
         /\ UNCHANGED <<mgr, ops>>
<1>0. profile \in Profiles /\ secrets \in SUBSET Keys /\ mgr \in ManagerRecords /\ conn \in LinkRecords
      /\ ops \in [Calls -> CallRecords] /\ past \in LinkPasts
  BY DEF LinksTyped
<1>1. conn.at = "recording"
  BY DEF CandidateFails
<1>2. profile' = Candidate \/ UNCHANGED profile
  BY DEF CandidateFails
<1>3. secrets' \subseteq secrets
  BY DEF CandidateFails
<1>4. AttemptAt("failing")
  BY <1>0, AttemptIs DEF CandidateFails, AttemptGoes, AttemptAt
<1>5. GivenUp({"credential", "commit"})
  BY <1>0, GivenUpIs DEF CandidateFails, Enrolled, Keys
<1>6. UNCHANGED <<mgr, ops>>
  BY DEF CandidateFails
<1>7. LinksTyped'
  BY <1>0, <1>1, <1>2, <1>3, <1>4, <1>5, <1>6, TombIs, ProfilesAre DEF LinksTyped, GivenUp, AttemptAt, PastIs,
     LinkIs
<1> QED BY <1>1, <1>2, <1>3, <1>4, <1>5, <1>6, <1>7

\* What Fail changes, and what it keeps.
LEMMA FailDoes ==
  ASSUME LinksTyped, NEW state \in {"offline", "authFailed", "incompatible", "rePairRequired"}, Fail(state)
  PROVE  /\ LinksTyped'
         /\ conn.at \notin {"none", "recording"}
         /\ \E s \in {"offline", "online", "authFailed", "incompatible", "rePairRequired"}, ok \in BOOLEAN :
               /\ Settles(s, ok)
               /\ conn.aborted => ok /\ s = "offline"
               /\ s = "online" => ok
               /\ ok => conn.aborted \/ s = "online"
         /\ UNCHANGED <<profile, secrets, past>>
         /\ mgr' \in ManagerRecords /\ conn' \in LinkRecords /\ ops' \in [Calls -> CallRecords]
<1>0. profile \in Profiles /\ secrets \in SUBSET Keys /\ mgr \in ManagerRecords /\ conn \in LinkRecords
      /\ ops \in [Calls -> CallRecords] /\ past \in LinkPasts
  BY DEF LinksTyped
<1>1. conn.at \notin {"none", "recording"}
  BY DEF Fail
<1>2. \E s \in {"offline", "online", "authFailed", "incompatible", "rePairRequired"}, ok \in BOOLEAN :
         /\ Settles(s, ok)
         /\ conn.aborted => ok /\ s = "offline"
         /\ s = "online" => ok
         /\ ok => conn.aborted \/ s = "online"
  <2>1. CASE conn.aborted
    <3>1. Continue("offline", TRUE)
      <4>1. conn.aborted = TRUE
        BY <1>0, <2>1 DEF LinkRecords
      <4> QED BY <4>1 DEF Fail
    <3> QED BY <1>0, <2>1, <3>1, ContinueIs
  <2>2. CASE ~conn.aborted
    <3>1. Continue(state, FALSE)
      <4>1. conn.aborted = FALSE
        BY <1>0, <2>2 DEF LinkRecords
      <4> QED BY <4>1 DEF Fail
    <3> QED BY <1>0, <2>2, <3>1, ContinueIs
  <2> QED BY <2>1, <2>2
<1>3. UNCHANGED <<profile, secrets, past>>
  BY DEF Fail
<1>4. mgr' \in ManagerRecords /\ conn' \in LinkRecords /\ ops' \in [Calls -> CallRecords]
  BY <1>2 DEF Settles, LinkIs, Stopped, Timed, ManagerIs
<1>5. LinksTyped'
  BY <1>0, <1>1, <1>2, <1>3, <1>4 DEF LinksTyped
<1> QED BY <1>1, <1>2, <1>3, <1>4, <1>5

\* What Forget changes, and what it keeps.
LEMMA ForgetDoes ==
  ASSUME LinksTyped, NEW o \in Calls, Forget(o)
  PROVE  /\ LinksTyped'
         /\ o \in {"remove", "rollback"} /\ ops[o].at = "closing" /\ ~conn.closing
         /\ ManagerIs(mgr', FALSE, FALSE, mgr.provisional, FALSE, mgr.disposed, mgr.complete)
         /\ conn.session \/ conn.at # "none" => UNCHANGED conn
         /\ ~conn.session /\ conn.at = "none" =>
              /\ conn' = NoLink
              /\ LinkIs(conn', "none", FALSE, FALSE, FALSE, {}, {})
         /\ conn' \in LinkRecords
         /\ CallIs(o, "reading", ops[o].refs, ops[o].todo)
         /\ UNCHANGED <<profile, secrets, past>>
<1>0. profile \in Profiles /\ secrets \in SUBSET Keys /\ mgr \in ManagerRecords /\ conn \in LinkRecords
      /\ ops \in [Calls -> CallRecords] /\ past \in LinkPasts
  BY DEF LinksTyped
<1>1. o \in {"remove", "rollback"} /\ ops[o].at = "closing" /\ ~conn.closing
  BY DEF Forget
<1>2. ManagerIs(mgr', FALSE, FALSE, mgr.provisional, FALSE, mgr.disposed, mgr.complete)
  <2> DEFINE d == Disabled(mgr)
  <2>1. mgr' = [d EXCEPT !.managed = FALSE]
    BY DEF Forget
  <2>2. ManagerIs(d, mgr.managed, FALSE, mgr.provisional, FALSE, mgr.disposed, mgr.complete)
    BY <1>0, DisabledIs
  <2>3. d \in ManagerRecords
    BY <2>2 DEF ManagerIs
  <2> HIDE DEF d
  <2> QED BY <2>1, <2>2, <2>3, ManagerWrites DEF ManagerIs
<1>3. conn.session \/ conn.at # "none" => UNCHANGED conn
  BY DEF Forget
<1>4. ~conn.session /\ conn.at = "none" => conn' = NoLink /\ LinkIs(conn', "none", FALSE, FALSE, FALSE, {}, {})
  BY <1>0, NoneIs DEF Forget
<1>5. conn' \in LinkRecords
  BY <1>0, <1>3, <1>4 DEF LinkIs
<1>6. CallIs(o, "reading", ops[o].refs, ops[o].todo)
  BY <1>0, GoesIs DEF Forget, CallGoes, Stages
<1>7. UNCHANGED <<profile, secrets, past>>
  BY DEF Forget
<1>8. LinksTyped'
  BY <1>0, <1>1, <1>2, <1>3, <1>4, <1>5, <1>6, <1>7 DEF LinksTyped, ManagerIs, LinkIs, CallIs
<1> QED BY <1>1, <1>2, <1>3, <1>4, <1>5, <1>6, <1>7, <1>8

\* What ReadProfile changes, and what it keeps.
LEMMA ReadProfileDoes ==
  ASSUME LinksTyped, NEW o \in Calls, NEW ok \in BOOLEAN, ReadProfile(o, ok)
  PROVE  /\ LinksTyped'
         /\ o \in {"remove", "rollback"} /\ ops[o].at = "reading"
         /\ \/ profile.st = "tomb" /\ CallIs(o, "deleting", profile.refs, profile.refs)
            \/ profile.st \notin {"none", "tomb"} /\ CallIs(o, "marking", profile.refs, ops[o].todo)
            \/ (o = "rollback" => profile.st # "none") /\ CallIs(o, "none", {}, {})
            \/ o = "rollback" /\ \E at \in {"fallback", "discarding"} : CallIs(o, at, ops[o].refs, ops[o].todo)
         /\ ops' \in [Calls -> CallRecords]
         /\ SameManager
         /\ SamePast
         /\ UNCHANGED <<profile, secrets, conn>>
<1>0. profile \in Profiles /\ secrets \in SUBSET Keys /\ mgr \in ManagerRecords /\ conn \in LinkRecords
      /\ ops \in [Calls -> CallRecords] /\ past \in LinkPasts
  BY DEF LinksTyped
<1>1. o \in {"remove", "rollback"} /\ ops[o].at = "reading"
  BY DEF ReadProfile
<1>2. \/ profile.st = "tomb" /\ CallIs(o, "deleting", profile.refs, profile.refs)
      \/ profile.st \notin {"none", "tomb"} /\ CallIs(o, "marking", profile.refs, ops[o].todo)
      \/ (o = "rollback" => profile.st # "none") /\ CallIs(o, "none", {}, {})
      \/ o = "rollback" /\ \E at \in {"fallback", "discarding"} : CallIs(o, at, ops[o].refs, ops[o].todo)
  <2> DEFINE other == o = "rollback" /\ "pairing" \notin profile.refs
             found == ok /\ profile.st # "none"
             k == [ops[o] EXCEPT !.at = "marking", !.refs = profile.refs]
             at == IF ok /\ ops[o].spare THEN "fallback" ELSE "discarding"
             d == [ops[o] EXCEPT !.at = at, !.failed = ~ok]
  <2>1. ops[o] \in CallRecords /\ profile.refs \in SUBSET Keys /\ "marking" \in Stages
    BY <1>0, ProfileIs DEF Stages
  <2>6. at \in Stages /\ (~ok) \in BOOLEAN
    BY DEF Stages
  <2>2. CASE found /\ ~other /\ profile.st = "tomb"
    <3>1. ops' = [ops EXCEPT ![o] = CleaningUp(ops[o], profile.refs)]
      BY <2>2 DEF ReadProfile, CleanupPending
    <3> QED BY <1>0, <2>1, <2>2, <3>1, CleaningUpIs, CallBecomes
  <2>3. CASE found /\ ~other /\ profile.st # "tomb"
    <3>1. ops' = [ops EXCEPT ![o] = k]
      BY <2>3 DEF ReadProfile, CleanupPending
    <3>2. k \in CallRecords /\ k.at = "marking" /\ k.refs = profile.refs /\ k.todo = ops[o].todo
      BY <2>1 DEF CallRecords, Stages
    <3> HIDE DEF k
    <3> QED BY <1>0, <2>3, <3>1, <3>2, CallBecomes
  <2>4. CASE ~(found /\ ~other) /\ (found \/ o = "remove")
    <3>1. EndOf(o, FALSE)
      BY <2>4 DEF ReadProfile
    <3> QED BY <1>0, <1>1, <2>4, <3>1, EndOfIs DEF Ended
  <2>5. CASE ~found /\ o # "remove"
    <3>1. ops' = [ops EXCEPT ![o] = d]
      BY <1>1, <2>5 DEF ReadProfile
    <3>2. d \in CallRecords /\ d.at = at /\ d.refs = ops[o].refs /\ d.todo = ops[o].todo
      <4> HIDE DEF at
      <4> QED BY <2>1, <2>6 DEF CallRecords, Stages
    <3> HIDE DEF d
    <3> QED BY <1>0, <1>1, <2>5, <3>1, <3>2, CallBecomes
  <2> QED BY <2>2, <2>3, <2>4, <2>5
<1>3. ops' \in [Calls -> CallRecords]
  BY <1>2 DEF CallIs
<1>4. SameManager
  <2>1. UNCHANGED mgr => SameManager
    BY <1>0 DEF SameManager, ManagerIs
  <2>2. EndOf(o, FALSE) => SameManager
    BY <1>0, EndOfIs
  <2> QED BY <2>1, <2>2 DEF ReadProfile
<1>5. SamePast
  BY <1>0, SamePastIs DEF ReadProfile, Tallied
<1>6. UNCHANGED <<profile, secrets, conn>>
  BY DEF ReadProfile
<1>7. LinksTyped'
  BY <1>0, <1>1, <1>2, <1>3, <1>4, <1>5, <1>6 DEF LinksTyped, CallIs, SamePast, SameManager, PastIs, ManagerIs
<1> QED BY <1>1, <1>2, <1>3, <1>4, <1>5, <1>6, <1>7

\* What MarkCleanupPending changes, and what it keeps.
LEMMA MarkCleanupPendingDoes ==
  ASSUME LinksTyped, NEW o \in Calls, NEW how \in Outcomes, MarkCleanupPending(o, how)
  PROVE  /\ LinksTyped'
         /\ ops[o].at = "marking"
         /\ \/ UNCHANGED profile
            \/ /\ profile.st \notin {"none", "tomb"} /\ profile.refs = ops[o].refs /\ profile' = Tomb(ops[o].refs)
               /\ profile'.st = "tomb" /\ profile'.refs = ops[o].refs
         /\ Ended(o) \/ CallIs(o, "deleting", ops[o].refs, ops[o].refs)
         /\ ops' \in [Calls -> CallRecords]
         /\ profile' \in Profiles
         /\ SameManager
         /\ SamePast
         /\ UNCHANGED <<secrets, conn>>
<1>0. profile \in Profiles /\ secrets \in SUBSET Keys /\ mgr \in ManagerRecords /\ conn \in LinkRecords
      /\ ops \in [Calls -> CallRecords] /\ past \in LinkPasts
  BY DEF LinksTyped
<1>1. ops[o].at = "marking"
  BY DEF MarkCleanupPending
<1>2. \/ UNCHANGED profile
      \/ /\ profile.st \notin {"none", "tomb"} /\ profile.refs = ops[o].refs /\ profile' = Tomb(ops[o].refs)
         /\ profile'.st = "tomb" /\ profile'.refs = ops[o].refs
  <2>1. ops[o].refs \in SUBSET Keys
    BY <1>0 DEF CallRecords
  <2> QED BY <2>1, TombIs DEF MarkCleanupPending, Usable
<1>3. Ended(o) \/ CallIs(o, "deleting", ops[o].refs, ops[o].refs)
  <2>1. ops[o] \in CallRecords /\ ops[o].refs \in SUBSET Keys /\ (how # "done") \in BOOLEAN
    BY <1>0 DEF CallRecords
  <2>2. EndOf(o, how # "done") => Ended(o)
    BY <1>0, <2>1, EndOfIs
  <2>3. ops' = [ops EXCEPT ![o] = CleaningUp(ops[o], ops[o].refs)] =>
          CallIs(o, "deleting", ops[o].refs, ops[o].refs)
    BY <1>0, <2>1, CleaningUpIs, CallBecomes
  <2> QED BY <2>2, <2>3 DEF MarkCleanupPending
<1>4. ops' \in [Calls -> CallRecords]
  BY <1>3 DEF Ended, CallIs
<1>5. profile' \in Profiles
  <2>1. ops[o].refs \in SUBSET Keys
    BY <1>0 DEF CallRecords
  <2> QED BY <1>0, <1>2, <2>1, TombIs
<1>6. SameManager
  <2>1. UNCHANGED mgr => SameManager
    BY <1>0 DEF SameManager, ManagerIs
  <2>2. (how # "done") \in BOOLEAN
    OBVIOUS
  <2>3. EndOf(o, how # "done") => SameManager
    BY <1>0, <2>2, EndOfIs
  <2> QED BY <2>1, <2>3 DEF MarkCleanupPending
<1>7. SamePast
  BY <1>0, SamePastIs DEF MarkCleanupPending, Tallied
<1>8. UNCHANGED <<secrets, conn>>
  BY DEF MarkCleanupPending
<1>9. LinksTyped'
  BY <1>0, <1>1, <1>2, <1>3, <1>4, <1>5, <1>6, <1>7, <1>8, TombIs, ProfilesAre DEF LinksTyped, CallIs,
     SamePast, SameManager, PastIs, ManagerIs
<1> QED BY <1>1, <1>2, <1>3, <1>4, <1>5, <1>6, <1>7, <1>8, <1>9

\* What DeleteSecret changes, and what it keeps.
LEMMA DeleteSecretDoes ==
  ASSUME LinksTyped, NEW o \in Calls, NEW how \in Outcomes, DeleteSecret(o, how)
  PROVE  /\ LinksTyped'
         /\ ops[o].at = "deleting" /\ ops[o].todo # {}
         /\ secrets' \subseteq secrets
         /\ \/ FirstOf(ops[o].todo) \notin secrets' /\ CallIs(o, "dropping", ops[o].refs, ops[o].todo)
            \/ CallIs(o, "deleting", ops[o].refs, ops[o].todo \ {FirstOf(ops[o].todo)})
         /\ ops' \in [Calls -> CallRecords]
         /\ SamePast
         /\ UNCHANGED <<profile, mgr, conn>>
<1>0. profile \in Profiles /\ secrets \in SUBSET Keys /\ mgr \in ManagerRecords /\ conn \in LinkRecords
      /\ ops \in [Calls -> CallRecords] /\ past \in LinkPasts
  BY DEF LinksTyped
<1>1. ops[o].at = "deleting" /\ ops[o].todo # {}
  BY DEF DeleteSecret
<1>2. secrets' \subseteq secrets
  BY DEF DeleteSecret
<1>3. \/ FirstOf(ops[o].todo) \notin secrets' /\ CallIs(o, "dropping", ops[o].refs, ops[o].todo)
      \/ CallIs(o, "deleting", ops[o].refs, ops[o].todo \ {FirstOf(ops[o].todo)})
  <2> DEFINE todo == ops[o].todo \ {FirstOf(ops[o].todo)}
             k == [ops[o] EXCEPT !.todo = todo, !.failed = TRUE]
  <2>1. ops[o] \in CallRecords /\ todo \in SUBSET Keys
    BY <1>0 DEF CallRecords
  <2>2. k \in CallRecords /\ k.at = ops[o].at /\ k.refs = ops[o].refs /\ k.todo = todo
    BY <2>1, CallSkips DEF Stages
  <2>3. CASE how = "done"
    <3>1. secrets' = secrets \ {FirstOf(ops[o].todo)} /\ ops' = [ops EXCEPT ![o].at = "dropping"]
      BY <2>3 DEF DeleteSecret, Lands, CallGoes
    <3> QED BY <1>0, <3>1, GoesIs DEF Stages
  <2>4. CASE how # "done"
    <3>1. ops' = [ops EXCEPT ![o] = k]
      BY <2>4 DEF DeleteSecret
    <3> HIDE DEF k, todo
    <3>2. CallIs(o, k.at, k.refs, k.todo)
      BY <1>0, <2>2, <3>1, CallBecomes
    <3> QED BY <1>1, <2>2, <3>2 DEF todo
  <2> QED BY <2>3, <2>4
<1>4. ops' \in [Calls -> CallRecords]
  BY <1>3 DEF CallIs
<1>5. SamePast
  BY <1>0, SamePastIs DEF DeleteSecret, Tallied
<1>6. UNCHANGED <<profile, mgr, conn>>
  BY DEF DeleteSecret
<1>7. LinksTyped'
  BY <1>0, <1>1, <1>2, <1>3, <1>4, <1>5, <1>6 DEF LinksTyped, CallIs, SamePast, PastIs
<1> QED BY <1>1, <1>2, <1>3, <1>4, <1>5, <1>6, <1>7

\* What DropReference changes, and what it keeps.
LEMMA DropReferenceDoes ==
  ASSUME LinksTyped, NEW o \in Calls, NEW how \in Outcomes, DropReference(o, how)
  PROVE  /\ LinksTyped'
         /\ ops[o].at = "dropping"
         /\ \/ UNCHANGED profile
            \/ /\ profile.st = "tomb" /\ profile.refs = ops[o].refs /\ profile' = Tomb(ops[o].refs \ {FirstOf(ops[o].todo)})
               /\ profile'.st = "tomb" /\ profile'.refs = ops[o].refs \ {FirstOf(ops[o].todo)}
         /\ \/ CallIs(o, "deleting", ops[o].refs, {})
            \/ CallIs(o, "deleting", ops[o].refs \ {FirstOf(ops[o].todo)}, ops[o].todo \ {FirstOf(ops[o].todo)})
         /\ profile' \in Profiles /\ ops' \in [Calls -> CallRecords]
         /\ SamePast
         /\ UNCHANGED <<secrets, mgr, conn>>
<1>0. profile \in Profiles /\ secrets \in SUBSET Keys /\ mgr \in ManagerRecords /\ conn \in LinkRecords
      /\ ops \in [Calls -> CallRecords] /\ past \in LinkPasts
  BY DEF LinksTyped
<1>1. ops[o].at = "dropping"
  BY DEF DropReference
<1>2. \/ UNCHANGED profile
      \/ /\ profile.st = "tomb" /\ profile.refs = ops[o].refs /\ profile' = Tomb(ops[o].refs \ {FirstOf(ops[o].todo)})
         /\ profile'.st = "tomb" /\ profile'.refs = ops[o].refs \ {FirstOf(ops[o].todo)}
  <2>1. ops[o].refs \in SUBSET Keys /\ ops[o].refs \ {FirstOf(ops[o].todo)} \in SUBSET Keys
    BY <1>0 DEF CallRecords
  <2> QED BY <2>1, TombIs DEF DropReference, UnchangedSince
<1>3. \/ CallIs(o, "deleting", ops[o].refs, {})
      \/ CallIs(o, "deleting", ops[o].refs \ {FirstOf(ops[o].todo)}, ops[o].todo \ {FirstOf(ops[o].todo)})
  <2> DEFINE key == FirstOf(ops[o].todo)
             refs == ops[o].refs \ {key}
             todo == ops[o].todo \ {key}
             k == [ops[o] EXCEPT !.at = "deleting", !.refs = refs, !.todo = todo]
             d == [ops[o] EXCEPT !.at = "deleting", !.todo = {}, !.failed = TRUE]
  <2>1. ops[o] \in CallRecords /\ refs \in SUBSET Keys /\ todo \in SUBSET Keys
    BY <1>0 DEF CallRecords
  <2>2. ops' = [ops EXCEPT ![o] = k] \/ ops' = [ops EXCEPT ![o] = d]
    BY DEF DropReference
  <2> HIDE DEF refs, todo
  <2>3. k \in CallRecords /\ k.at = "deleting" /\ k.refs = refs /\ k.todo = todo
    BY <2>1 DEF CallRecords
  <2>4. d \in CallRecords /\ d.at = "deleting" /\ d.refs = ops[o].refs /\ d.todo = {}
    BY <2>1 DEF CallRecords
  <2> HIDE DEF k, d
  <2>5. CallIs(o, k.at, k.refs, k.todo) \/ CallIs(o, d.at, d.refs, d.todo)
    BY <1>0, <2>2, <2>3, <2>4, CallBecomes
  <2> QED BY <2>3, <2>4, <2>5 DEF refs, todo
<1>4. profile' \in Profiles /\ ops' \in [Calls -> CallRecords]
  <2>1. ops[o].refs \ {FirstOf(ops[o].todo)} \in SUBSET Keys
    BY <1>0 DEF CallRecords
  <2> QED BY <1>0, <1>2, <1>3, <2>1, TombIs DEF CallIs
<1>5. SamePast
  BY <1>0, SamePastIs DEF DropReference, Tallied
<1>6. UNCHANGED <<secrets, mgr, conn>>
  BY DEF DropReference
<1>7. LinksTyped'
  BY <1>0, <1>1, <1>2, <1>3, <1>4, <1>5, <1>6, TombIs, ProfilesAre DEF LinksTyped, CallIs, SamePast, PastIs
<1> QED BY <1>1, <1>2, <1>3, <1>4, <1>5, <1>6, <1>7

\* What DeleteProfile changes, and what it keeps.
LEMMA DeleteProfileDoes ==
  ASSUME LinksTyped, NEW o \in Calls, NEW how \in Outcomes, DeleteProfile(o, how)
  PROVE  /\ LinksTyped'
         /\ ops[o].at = "deleting" /\ ops[o].todo = {}
         /\ \/ /\ ops[o].refs = {} /\ profile.st = "tomb" /\ profile.refs = {} /\ profile' = NoProfile
               /\ PastIs(past', TRUE, past.late, past.leaked)
            \/ UNCHANGED profile /\ SamePast
         /\ Ended(o) /\ SameManager
         /\ ops' \in [Calls -> CallRecords]
         /\ profile' \in Profiles
         /\ UNCHANGED <<secrets, conn>>
<1>0. profile \in Profiles /\ secrets \in SUBSET Keys /\ mgr \in ManagerRecords /\ conn \in LinkRecords
      /\ ops \in [Calls -> CallRecords] /\ past \in LinkPasts
  BY DEF LinksTyped
<1>1. ops[o].at = "deleting" /\ ops[o].todo = {}
  BY DEF DeleteProfile
<1>2. \/ /\ ops[o].refs = {} /\ profile.st = "tomb" /\ profile.refs = {} /\ profile' = NoProfile
         /\ PastIs(past', TRUE, past.late, past.leaked)
      \/ UNCHANGED profile /\ SamePast
  <2> DEFINE gone == ops[o].refs = {} /\ UnchangedSince(ops[o]) /\ Lands(how)
             r == past.removed \/ gone
             n == IF how = "done" THEN past.faults ELSE past.faults + 1
  <2>1. r \in BOOLEAN /\ n \in Nat
    BY <1>0 DEF LinkPasts
  <2>2. past' = [past EXCEPT !.removed = r, !.faults = n]
    BY DEF DeleteProfile
  <2> HIDE DEF r, n
  <2>3. PastIs(past', r, past.late, past.leaked)
    BY <1>0, <2>1, <2>2 DEF PastIs, LinkPasts
  <2>4. CASE gone
    <3>1. {} \in SUBSET Keys /\ profile = Tomb({}) /\ profile' = NoProfile
      BY <2>4 DEF DeleteProfile, UnchangedSince
    <3> QED BY <2>3, <2>4, <3>1, TombIs DEF r, PastIs
  <2>5. CASE ~gone
    <3>1. UNCHANGED profile /\ r = past.removed
      BY <1>0, <2>5 DEF DeleteProfile, r, LinkPasts
    <3> QED BY <2>3, <3>1 DEF SamePast
  <2> QED BY <2>4, <2>5
<1>3. Ended(o) /\ SameManager
  <2> DEFINE bad == ~(ops[o].refs = {} /\ UnchangedSince(ops[o])) \/ how # "done"
  <2>1. bad \in BOOLEAN /\ EndOf(o, bad)
    BY DEF DeleteProfile
  <2> HIDE DEF bad
  <2> QED BY <1>0, <2>1, EndOfIs
<1>4. ops' \in [Calls -> CallRecords]
  BY <1>3 DEF Ended, CallIs
<1>5. profile' \in Profiles
  BY <1>0, <1>2 DEF Profiles
<1>6. UNCHANGED <<secrets, conn>>
  BY DEF DeleteProfile
<1>7. LinksTyped'
  BY <1>0, <1>1, <1>2, <1>3, <1>4, <1>5, <1>6, TombIs, ProfilesAre DEF LinksTyped, SamePast, SameManager,
     PastIs, ManagerIs
<1> QED BY <1>1, <1>2, <1>3, <1>4, <1>5, <1>6, <1>7

\* What CleanupAtEnd changes, and what it keeps.
LEMMA CleanupAtEndDoes ==
  ASSUME LinksTyped, NEW ok \in BOOLEAN, CleanupAtEnd(ok)
  PROVE  /\ LinksTyped'
         /\ ops["dispose"].at = "second" /\ ~conn.closing
         /\ ManagerIs(mgr', FALSE, mgr.enabled, mgr.provisional, mgr.timer, mgr.disposed, mgr.complete)
         /\ \/ profile.st = "tomb" /\ CallIs("dispose", "deleting", profile.refs, profile.refs)
            \/ CallIs("dispose", "end", ops["dispose"].refs, ops["dispose"].todo)
         /\ ops' \in [Calls -> CallRecords]
         /\ SamePast
         /\ UNCHANGED <<profile, secrets, conn>>
<1>0. profile \in Profiles /\ secrets \in SUBSET Keys /\ mgr \in ManagerRecords /\ conn \in LinkRecords
      /\ ops \in [Calls -> CallRecords] /\ past \in LinkPasts
  BY DEF LinksTyped
<1>1. ops["dispose"].at = "second" /\ ~conn.closing
  BY DEF CleanupAtEnd
<1>2. ManagerIs(mgr', FALSE, mgr.enabled, mgr.provisional, mgr.timer, mgr.disposed, mgr.complete)
  BY <1>0, ManagerWrites DEF CleanupAtEnd
<1>3. \/ profile.st = "tomb" /\ CallIs("dispose", "deleting", profile.refs, profile.refs)
      \/ CallIs("dispose", "end", ops["dispose"].refs, ops["dispose"].todo)
  <2>1. \E k \in CallRecords : Lists(k, ops["dispose"]) /\ ops' = [ops EXCEPT !["dispose"] = k]
    BY <1>0, ListedIs DEF CleanupAtEnd, Calls
  <2> QED BY <1>0, <2>1, CallBecomes DEF Lists, Calls
<1>4. ops' \in [Calls -> CallRecords]
  BY <1>3 DEF CallIs
<1>5. SamePast
  BY <1>0, SamePastIs DEF CleanupAtEnd, Tallied
<1>6. UNCHANGED <<profile, secrets, conn>>
  BY DEF CleanupAtEnd
<1>7. LinksTyped'
  BY <1>0, <1>1, <1>2, <1>3, <1>4, <1>5, <1>6 DEF LinksTyped, ManagerIs, CallIs, SamePast, PastIs
<1> QED BY <1>1, <1>2, <1>3, <1>4, <1>5, <1>6, <1>7

\* What Restore changes, and what it keeps.
LEMMA RestoreDoes ==
  ASSUME LinksTyped, NEW ok \in BOOLEAN, Restore(ok)
  PROVE  /\ LinksTyped'
         /\ ManagerIs(mgr', FALSE, FALSE, FALSE, FALSE, FALSE, FALSE)
         /\ conn' = NoLink /\ LinkIs(conn', "none", FALSE, FALSE, FALSE, {}, {})
         /\ PastIs(past', past.removed, past.late, past.leaked \cup (secrets \ profile.refs))
         /\ /\ \A p \in Calls \ {"restore"} : ops'[p].at = "none" /\ ops'[p].refs = {} /\ ops'[p].todo = {}
            /\ \/ /\ profile.st = "tomb" /\ ops'["restore"].at = "deleting"
                  /\ ops'["restore"].refs = profile.refs /\ ops'["restore"].todo = profile.refs
               \/ ops'["restore"].at = "end" /\ ops'["restore"].refs = {} /\ ops'["restore"].todo = {}
            /\ ops' \in [Calls -> CallRecords]
         /\ UNCHANGED <<profile, secrets>>
<1>0. profile \in Profiles /\ secrets \in SUBSET Keys /\ mgr \in ManagerRecords /\ conn \in LinkRecords
      /\ ops \in [Calls -> CallRecords] /\ past \in LinkPasts
  BY DEF LinksTyped
<1>1. ManagerIs(mgr', FALSE, FALSE, FALSE, FALSE, FALSE, FALSE)
  BY NoneIs DEF Restore
<1>2. conn' = NoLink /\ LinkIs(conn', "none", FALSE, FALSE, FALSE, {}, {})
  BY NoneIs DEF Restore
<1>3. PastIs(past', past.removed, past.late, past.leaked \cup (secrets \ profile.refs))
  <2> DEFINE n == IF ok THEN past.faults ELSE past.faults + 1
             l == past.leaked \cup (secrets \ profile.refs)
  <2>1. l \in SUBSET Keys /\ n \in Nat /\ past' = [past EXCEPT !.leaked = l, !.faults = n]
    BY <1>0 DEF LinkPasts, Restore
  <2> HIDE DEF n, l
  <2>2. PastIs(past', past.removed, past.late, l)
    BY <1>0, <2>1 DEF PastIs, LinkPasts
  <2> QED BY <2>2 DEF l
<1>4. /\ \A p \in Calls \ {"restore"} : ops'[p].at = "none" /\ ops'[p].refs = {} /\ ops'[p].todo = {}
      /\ \/ /\ profile.st = "tomb" /\ ops'["restore"].at = "deleting"
            /\ ops'["restore"].refs = profile.refs /\ ops'["restore"].todo = profile.refs
         \/ ops'["restore"].at = "end" /\ ops'["restore"].refs = {} /\ ops'["restore"].todo = {}
      /\ ops' \in [Calls -> CallRecords]
  <2> DEFINE k == Listed(NoCall, ok)
  <2>1. ops' = [[p \in Calls |-> NoCall] EXCEPT !["restore"] = k]
    BY DEF Restore
  <2>2. k \in CallRecords /\ Lists(k, NoCall)
    BY <1>0, NoneIs, ListedIs
  <2> HIDE DEF k
  <2>3. /\ ops' \in [Calls -> CallRecords] /\ ops'["restore"] = k
        /\ \A p \in Calls \ {"restore"} : ops'[p] = NoCall
    BY <2>1, <2>2, NoneIs DEF Calls
  <2> QED BY <2>2, <2>3, NoneIs DEF Lists
<1>5. UNCHANGED <<profile, secrets>>
  BY DEF Restore
<1>6. LinksTyped'
  BY <1>0, <1>1, <1>2, <1>3, <1>4, <1>5 DEF LinksTyped, ManagerIs, LinkIs, PastIs
<1> QED BY <1>1, <1>2, <1>3, <1>4, <1>5, <1>6

\* Who may wait for an attempt.
LEMMA WaitsAre ==
  ASSUME LinksTyped
  PROVE  conn.waits \subseteq {"add", "try", "connect"} /\ conn.again \subseteq {"add", "try", "connect"}
BY DEF LinksTyped, LinkRecords
\* StagesKept is kept by every step.
LEMMA StagesKeptStep ==
  ASSUME LinksTyped, LinksKept, LinksNext
  PROVE  StagesKept'
<1>0. StagesKept
  BY DEF LinksKept
<1> USE <1>0, StateIs, CallsAre DEF StagesKept
<1>1. ASSUME Add PROVE StagesKept'
  BY <1>1, AddDoes DEF Cleanup, CallIs
<1>2. ASSUME Connect PROVE StagesKept'
  BY <1>2, ConnectDoes DEF Cleanup, ManagerIs, LinkIs, SamePast, PastIs, Joined
<1>3. ASSUME Disconnect PROVE StagesKept'
  BY <1>3, DisconnectDoes DEF Cleanup, Closed, LinkIs, Stopped, ManagerIs
<1>4. ASSUME RemovePeer PROVE StagesKept'
  <2>1. /\ ops["remove"].at = "none" /\ profile.st # "none" /\ ops["restore"].at = "none"
           /\ "connect" \notin conn.waits \cup conn.again
        /\ mgr.managed =>
             /\ Stopped(mgr', mgr)
             /\ Closed(conn', conn)
             /\ CallIs("remove", "closing", ops["remove"].refs, ops["remove"].todo)
        /\ ~mgr.managed =>
             /\ UNCHANGED <<mgr, conn>>
             /\ CallIs("remove", "reading", ops["remove"].refs, ops["remove"].todo)
        /\ UNCHANGED <<profile, secrets, past>>
    BY <1>4, RemovePeerDoes
  <2>2. (ops["add"].at \in {"none", "secret", "profile", "connecting"})'
    BY <2>1 DEF CallIs
  <2>3. (ops["try"].at \in {"none", "owner"})'
    BY <2>1 DEF CallIs
  <2>4. (ops["remove"].at \in Cleanup \cup {"none", "closing", "reading", "marking"})'
    BY <2>1 DEF Cleanup, CallIs
  <2>5. (ops["rollback"].at \in Cleanup \cup {"none", "closing", "reading", "fallback", "discarding", "marking"})'
    BY <2>1 DEF Cleanup, CallIs
  <2>6. (ops["dispose"].at \in Cleanup \cup {"none", "first", "second", "end"})'
    BY <2>1 DEF Cleanup, CallIs
  <2>7. (ops["restore"].at \in Cleanup \cup {"none", "end"})'
    BY <2>1 DEF Cleanup, CallIs
  <2>8. (\A p \in Calls : ops[p].todo \subseteq ops[p].refs)'
    BY <2>1 DEF CallIs
  <2>9. (\A p \in Calls : ops[p].at \notin Cleanup \cup {"marking", "end"} => ops[p].refs = {})'
    BY <2>1 DEF Cleanup, CallIs
  <2>10. (\A p \in Calls : ops[p].at = "marking" => ops[p].todo = {})'
    BY <2>1 DEF CallIs
  <2> QED BY <2>2, <2>3, <2>4, <2>5, <2>6, <2>7, <2>8, <2>9, <2>10
<1>5. ASSUME ReconnectTimer PROVE StagesKept'
  BY <1>5, ReconnectTimerDoes DEF Cleanup, ManagerIs, CallIs
<1>6. ASSUME TryConnect PROVE StagesKept'
  BY <1>6, TryConnectDoes DEF Cleanup, ManagerIs, CallIs, PastIs, Joined, LinkIs, Leaving
<1>7. ASSUME LoseOwnership PROVE StagesKept'
  BY <1>7, LoseOwnershipDoes DEF Cleanup, SameManager, ManagerIs
<1>8. ASSUME Open PROVE StagesKept'
  BY <1>8, OpenDoes DEF Cleanup, AttemptAt, LinkIs
<1>9. ASSUME StoreCredentials PROVE StagesKept'
  BY <1>9, StoreCredentialsDoes DEF Cleanup, PastIs, AttemptAt, LinkIs
<1>10. ASSUME StoreCredentialsFails PROVE StagesKept'
  BY <1>10, StoreCredentialsFailsDoes DEF Cleanup, GivenUp, PastIs, AttemptAt, LinkIs
<1>11. ASSUME PeerReplied PROVE StagesKept'
  BY <1>11, PeerRepliedDoes DEF Cleanup, AttemptAt, LinkIs
<1>12. ASSUME DropEnrollmentKeys PROVE StagesKept'
  BY <1>12, DropEnrollmentKeysDoes DEF Cleanup, SamePast, PastIs, AttemptAt, LinkIs
<1>13. ASSUME Established PROVE StagesKept'
  <2>1. PICK s \in {"offline", "online", "authFailed", "incompatible", "rePairRequired"}, ok \in BOOLEAN :
          /\ Settles(s, ok)
          /\ conn.aborted => ok /\ s = "offline"
          /\ s = "online" => ok
          /\ ok => conn.aborted \/ s = "online"
    BY <1>13, EstablishedDoes
  <2>2. conn.at = "authenticated" /\ UNCHANGED <<profile, secrets, past>>
    BY <1>13, EstablishedDoes
  <2>3. (ops["add"].at \in {"none", "secret", "profile", "connecting"})'
    BY <2>1, <2>2 DEF Settles
  <2>4. (ops["try"].at \in {"none", "owner"})'
    BY <2>1, <2>2 DEF Settles
  <2>5. (ops["remove"].at \in Cleanup \cup {"none", "closing", "reading", "marking"})'
    BY <2>1, <2>2 DEF Cleanup, Settles
  <2>6. (ops["rollback"].at \in Cleanup \cup {"none", "closing", "reading", "fallback", "discarding", "marking"})'
    BY <2>1, <2>2 DEF Cleanup, Settles
  <2>7. (ops["dispose"].at \in Cleanup \cup {"none", "first", "second", "end"})'
    BY <2>1, <2>2 DEF Cleanup, Settles
  <2>8. (ops["restore"].at \in Cleanup \cup {"none", "end"})'
    BY <2>1, <2>2 DEF Cleanup, Settles
  <2>9. (\A p \in Calls : ops[p].todo \subseteq ops[p].refs)'
    BY <2>1, <2>2 DEF Settles
  <2>10. (\A p \in Calls : ops[p].at \notin Cleanup \cup {"marking", "end"} => ops[p].refs = {})'
    BY <2>1, <2>2 DEF Cleanup, Settles
  <2>11. (\A p \in Calls : ops[p].at = "marking" => ops[p].todo = {})'
    BY <2>1, <2>2 DEF Settles
  <2> QED BY <2>3, <2>4, <2>5, <2>6, <2>7, <2>8, <2>9, <2>10, <2>11
<1>14. ASSUME SessionCloses PROVE StagesKept'
  BY <1>14, SessionClosesDoes DEF Cleanup, LinkIs, Timed, ManagerIs
<1>15. ASSUME Disconnected PROVE StagesKept'
  BY <1>15, DisconnectedDoes DEF Cleanup, LinkIs, PastIs, Leaving
<1>16. ASSUME Dispose PROVE StagesKept'
  BY <1>16, DisposeDoes DEF Cleanup, ManagerIs, CallIs, Closed, LinkIs
<1>17. ASSUME Drained PROVE StagesKept'
  BY <1>17, DrainedDoes DEF Cleanup, CallIs, Closed, LinkIs, Stopped, ManagerIs
<1>18. ASSUME Disposed PROVE StagesKept'
  BY <1>18, DisposedDoes DEF Cleanup, ManagerIs, CallIs
<1>19. ASSUME Restored PROVE StagesKept'
  <2>1. (ops["add"].at \in {"none", "secret", "profile", "connecting"})'
    BY <1>19, RestoredDoes DEF CallIs, Launched
  <2>2. (ops["try"].at \in {"none", "owner"})'
    BY <1>19, RestoredDoes DEF CallIs, Launched
  <2>3. (ops["remove"].at \in Cleanup \cup {"none", "closing", "reading", "marking"})'
    BY <1>19, RestoredDoes DEF Cleanup, CallIs, Launched
  <2>4. (ops["rollback"].at \in Cleanup \cup {"none", "closing", "reading", "fallback", "discarding", "marking"})'
    BY <1>19, RestoredDoes DEF Cleanup, CallIs, Launched
  <2>5. (ops["dispose"].at \in Cleanup \cup {"none", "first", "second", "end"})'
    BY <1>19, RestoredDoes DEF Cleanup, CallIs, Launched
  <2>6. (ops["restore"].at \in Cleanup \cup {"none", "end"})'
    BY <1>19, RestoredDoes DEF Cleanup, CallIs, Launched
  <2>7. (\A p \in Calls : ops[p].todo \subseteq ops[p].refs)'
    BY <1>19, RestoredDoes DEF CallIs, Launched
  <2>8. (\A p \in Calls : ops[p].at \notin Cleanup \cup {"marking", "end"} => ops[p].refs = {})'
    BY <1>19, RestoredDoes DEF Cleanup, CallIs, Launched
  <2>9. (\A p \in Calls : ops[p].at = "marking" => ops[p].todo = {})'
    BY <1>19, RestoredDoes DEF CallIs, Launched
  <2> QED BY <2>1, <2>2, <2>3, <2>4, <2>5, <2>6, <2>7, <2>8, <2>9
<1>20. ASSUME NEW how \in Outcomes, StoreInvitation(how) PROVE StagesKept'
  BY <1>20, StoreInvitationDoes DEF Cleanup, CallIs, SamePast, PastIs, RolledBack
<1>21. ASSUME NEW how \in Outcomes, StoreProfile(how) PROVE StagesKept'
  <2>1. /\ ops["add"].at = "profile"
        /\ profile' = Invited \/ UNCHANGED profile
        /\ how = "done" /\ ~mgr.disposed =>
             /\ profile' = Invited
             /\ ManagerIs(mgr', TRUE, TRUE, TRUE, mgr.timer, mgr.disposed, mgr.complete)
             /\ LinkIs(conn', "opening", FALSE, FALSE, FALSE, {"add"}, {})
             /\ CallIs("add", "connecting", ops["add"].refs, ops["add"].todo)
        /\ ~(how = "done" /\ ~mgr.disposed) => UNCHANGED <<mgr, conn>> /\ RolledBack
        /\ SamePast
        /\ UNCHANGED secrets
    BY <1>21, StoreProfileDoes
  <2>2. (ops["add"].at \in {"none", "secret", "profile", "connecting"})'
    BY <2>1 DEF CallIs, RolledBack
  <2>3. (ops["try"].at \in {"none", "owner"})'
    BY <2>1 DEF CallIs, RolledBack
  <2>4. (ops["remove"].at \in Cleanup \cup {"none", "closing", "reading", "marking"})'
    BY <2>1 DEF Cleanup, CallIs, RolledBack
  <2>5. (ops["rollback"].at \in Cleanup \cup {"none", "closing", "reading", "fallback", "discarding", "marking"})'
    BY <2>1 DEF Cleanup, CallIs, RolledBack
  <2>6. (ops["dispose"].at \in Cleanup \cup {"none", "first", "second", "end"})'
    BY <2>1 DEF Cleanup, CallIs, RolledBack
  <2>7. (ops["restore"].at \in Cleanup \cup {"none", "end"})'
    BY <2>1 DEF Cleanup, CallIs, RolledBack
  <2>8. (\A p \in Calls : ops[p].todo \subseteq ops[p].refs)'
    <3>1. CASE how = "done" /\ ~mgr.disposed
      <4>1. CallIs("add", "connecting", ops["add"].refs, ops["add"].todo)
        BY <2>1, <3>1
      <4> QED BY <4>1 DEF CallIs
    <3>2. CASE ~(how = "done" /\ ~mgr.disposed)
      <4>1. RolledBack
        BY <2>1, <3>2
      <4> QED BY <4>1 DEF RolledBack
    <3> QED BY <3>1, <3>2
  <2>9. (\A p \in Calls : ops[p].at \notin Cleanup \cup {"marking", "end"} => ops[p].refs = {})'
    <3>1. CASE how = "done" /\ ~mgr.disposed
      <4>1. CallIs("add", "connecting", ops["add"].refs, ops["add"].todo)
        BY <2>1, <3>1
      <4> QED BY <4>1 DEF Cleanup, CallIs
    <3>2. CASE ~(how = "done" /\ ~mgr.disposed)
      <4>1. RolledBack
        BY <2>1, <3>2
      <4> QED BY <4>1 DEF Cleanup, RolledBack
    <3> QED BY <3>1, <3>2
  <2>10. (\A p \in Calls : ops[p].at = "marking" => ops[p].todo = {})'
    <3>1. CASE how = "done" /\ ~mgr.disposed
      <4>1. CallIs("add", "connecting", ops["add"].refs, ops["add"].todo)
        BY <2>1, <3>1
      <4> QED BY <4>1 DEF CallIs
    <3>2. CASE ~(how = "done" /\ ~mgr.disposed)
      <4>1. RolledBack
        BY <2>1, <3>2
      <4> QED BY <4>1 DEF RolledBack
    <3> QED BY <3>1, <3>2
  <2> QED BY <2>2, <2>3, <2>4, <2>5, <2>6, <2>7, <2>8, <2>9, <2>10
<1>22. ASSUME NEW how \in Outcomes, StoreCandidate(how) PROVE StagesKept'
  BY <1>22, StoreCandidateDoes DEF Cleanup, SamePast, PastIs, AttemptAt, LinkIs
<1>23. ASSUME NEW how \in Outcomes, StoreComplete(how) PROVE StagesKept'
  BY <1>23, StoreCompleteDoes DEF Cleanup, SamePast, PastIs, AttemptAt, LinkIs
<1>24. ASSUME NEW how \in Outcomes, Discard(how) PROVE StagesKept'
  BY <1>24, DiscardDoes DEF Cleanup, CallIs, GivenUp, PastIs, SameManager, ManagerIs
<1>25. ASSUME NEW how \in Outcomes, Fallback(how) PROVE StagesKept'
  BY <1>25, FallbackDoes DEF Cleanup, CallIs, PastIs, SameManager, ManagerIs
<1>26. ASSUME NEW landed \in BOOLEAN, NEW left \in SUBSET Enrolled, CandidateFails(landed, left)
       PROVE  StagesKept'
  BY <1>26, CandidateFailsDoes DEF Cleanup, GivenUp, PastIs, AttemptAt, LinkIs
<1>27. ASSUME NEW state \in {"offline", "authFailed", "incompatible", "rePairRequired"}, Fail(state)
       PROVE  StagesKept'
  <2>1. PICK s \in {"offline", "online", "authFailed", "incompatible", "rePairRequired"}, ok \in BOOLEAN :
          /\ Settles(s, ok)
          /\ conn.aborted => ok /\ s = "offline"
          /\ s = "online" => ok
          /\ ok => conn.aborted \/ s = "online"
    BY <1>27, FailDoes
  <2>2. conn.at \notin {"none", "recording"} /\ UNCHANGED <<profile, secrets, past>>
    BY <1>27, FailDoes
  <2>3. (ops["add"].at \in {"none", "secret", "profile", "connecting"})'
    BY <2>1, <2>2 DEF Settles
  <2>4. (ops["try"].at \in {"none", "owner"})'
    BY <2>1, <2>2 DEF Settles
  <2>5. (ops["remove"].at \in Cleanup \cup {"none", "closing", "reading", "marking"})'
    BY <2>1, <2>2 DEF Cleanup, Settles
  <2>6. (ops["rollback"].at \in Cleanup \cup {"none", "closing", "reading", "fallback", "discarding", "marking"})'
    BY <2>1, <2>2 DEF Cleanup, Settles
  <2>7. (ops["dispose"].at \in Cleanup \cup {"none", "first", "second", "end"})'
    BY <2>1, <2>2 DEF Cleanup, Settles
  <2>8. (ops["restore"].at \in Cleanup \cup {"none", "end"})'
    BY <2>1, <2>2 DEF Cleanup, Settles
  <2>9. (\A p \in Calls : ops[p].todo \subseteq ops[p].refs)'
    BY <2>1, <2>2 DEF Settles
  <2>10. (\A p \in Calls : ops[p].at \notin Cleanup \cup {"marking", "end"} => ops[p].refs = {})'
    BY <2>1, <2>2 DEF Cleanup, Settles
  <2>11. (\A p \in Calls : ops[p].at = "marking" => ops[p].todo = {})'
    BY <2>1, <2>2 DEF Settles
  <2> QED BY <2>3, <2>4, <2>5, <2>6, <2>7, <2>8, <2>9, <2>10, <2>11
<1>28. ASSUME NEW o \in Calls, Forget(o) PROVE StagesKept'
  <2>1. /\ o \in {"remove", "rollback"} /\ ops[o].at = "closing" /\ ~conn.closing
        /\ ManagerIs(mgr', FALSE, FALSE, mgr.provisional, FALSE, mgr.disposed, mgr.complete)
        /\ conn.session \/ conn.at # "none" => UNCHANGED conn
        /\ ~conn.session /\ conn.at = "none" =>
             /\ conn' = NoLink
             /\ LinkIs(conn', "none", FALSE, FALSE, FALSE, {}, {})
        /\ CallIs(o, "reading", ops[o].refs, ops[o].todo)
        /\ UNCHANGED <<profile, secrets, past>>
    BY <1>28, ForgetDoes
  <2>2. (ops["add"].at \in {"none", "secret", "profile", "connecting"})'
    BY <2>1 DEF CallIs
  <2>3. (ops["try"].at \in {"none", "owner"})'
    BY <2>1 DEF CallIs
  <2>4. (ops["remove"].at \in Cleanup \cup {"none", "closing", "reading", "marking"})'
    BY <2>1 DEF Cleanup, CallIs
  <2>5. (ops["rollback"].at \in Cleanup \cup {"none", "closing", "reading", "fallback", "discarding", "marking"})'
    BY <2>1 DEF Cleanup, CallIs
  <2>6. (ops["dispose"].at \in Cleanup \cup {"none", "first", "second", "end"})'
    BY <2>1 DEF Cleanup, CallIs
  <2>7. (ops["restore"].at \in Cleanup \cup {"none", "end"})'
    BY <2>1 DEF Cleanup, CallIs
  <2>8. (\A p \in Calls : ops[p].todo \subseteq ops[p].refs)'
    BY <2>1 DEF CallIs
  <2>9. (\A p \in Calls : ops[p].at \notin Cleanup \cup {"marking", "end"} => ops[p].refs = {})'
    BY <2>1 DEF Cleanup, CallIs
  <2>10. (\A p \in Calls : ops[p].at = "marking" => ops[p].todo = {})'
    BY <2>1 DEF CallIs
  <2> QED BY <2>2, <2>3, <2>4, <2>5, <2>6, <2>7, <2>8, <2>9, <2>10
<1>29. ASSUME NEW o \in Calls, NEW ok \in BOOLEAN, ReadProfile(o, ok) PROVE StagesKept'
  BY <1>29, ReadProfileDoes DEF Cleanup, CallIs, SamePast, PastIs, SameManager, ManagerIs
<1>30. ASSUME NEW o \in Calls, NEW how \in Outcomes, MarkCleanupPending(o, how) PROVE StagesKept'
  BY <1>30, MarkCleanupPendingDoes DEF Cleanup, CallIs, SamePast, PastIs, Ended, SameManager, ManagerIs
<1>31. ASSUME NEW o \in Calls, NEW how \in Outcomes, DeleteSecret(o, how) PROVE StagesKept'
  BY <1>31, DeleteSecretDoes DEF Cleanup, CallIs, SamePast, PastIs
<1>32. ASSUME NEW o \in Calls, NEW how \in Outcomes, DropReference(o, how) PROVE StagesKept'
  <2>1. /\ ops[o].at = "dropping"
        /\ \/ UNCHANGED profile
           \/ /\ profile.st = "tomb" /\ profile.refs = ops[o].refs /\ profile' = Tomb(ops[o].refs \ {FirstOf(ops[o].todo)})
              /\ profile'.st = "tomb" /\ profile'.refs = ops[o].refs \ {FirstOf(ops[o].todo)}
        /\ \/ CallIs(o, "deleting", ops[o].refs, {})
           \/ CallIs(o, "deleting", ops[o].refs \ {FirstOf(ops[o].todo)}, ops[o].todo \ {FirstOf(ops[o].todo)})
        /\ SamePast
        /\ UNCHANGED <<secrets, mgr, conn>>
    BY <1>32, DropReferenceDoes
  <2>2. (ops["add"].at \in {"none", "secret", "profile", "connecting"})'
    BY <2>1 DEF CallIs
  <2>3. (ops["try"].at \in {"none", "owner"})'
    BY <2>1 DEF CallIs
  <2>4. (ops["remove"].at \in Cleanup \cup {"none", "closing", "reading", "marking"})'
    BY <2>1 DEF Cleanup, CallIs
  <2>5. (ops["rollback"].at \in Cleanup \cup {"none", "closing", "reading", "fallback", "discarding", "marking"})'
    BY <2>1 DEF Cleanup, CallIs
  <2>6. (ops["dispose"].at \in Cleanup \cup {"none", "first", "second", "end"})'
    BY <2>1 DEF Cleanup, CallIs
  <2>7. (ops["restore"].at \in Cleanup \cup {"none", "end"})'
    BY <2>1 DEF Cleanup, CallIs
  <2>8. (\A p \in Calls : ops[p].todo \subseteq ops[p].refs)'
    BY <2>1 DEF CallIs
  <2>9. (\A p \in Calls : ops[p].at \notin Cleanup \cup {"marking", "end"} => ops[p].refs = {})'
    BY <2>1 DEF Cleanup, CallIs
  <2>10. (\A p \in Calls : ops[p].at = "marking" => ops[p].todo = {})'
    BY <2>1 DEF CallIs
  <2> QED BY <2>2, <2>3, <2>4, <2>5, <2>6, <2>7, <2>8, <2>9, <2>10
<1>33. ASSUME NEW o \in Calls, NEW how \in Outcomes, DeleteProfile(o, how) PROVE StagesKept'
  <2>1. /\ ops[o].at = "deleting" /\ ops[o].todo = {}
        /\ \/ /\ ops[o].refs = {} /\ profile.st = "tomb" /\ profile.refs = {} /\ profile' = NoProfile
              /\ PastIs(past', TRUE, past.late, past.leaked)
           \/ UNCHANGED profile /\ SamePast
        /\ Ended(o) /\ SameManager
        /\ UNCHANGED <<secrets, conn>>
    BY <1>33, DeleteProfileDoes
  <2>2. (ops["add"].at \in {"none", "secret", "profile", "connecting"})'
    BY <2>1 DEF Ended, CallIs
  <2>3. (ops["try"].at \in {"none", "owner"})'
    BY <2>1 DEF Ended, CallIs
  <2>4. (ops["remove"].at \in Cleanup \cup {"none", "closing", "reading", "marking"})'
    BY <2>1 DEF Cleanup, Ended, CallIs
  <2>5. (ops["rollback"].at \in Cleanup \cup {"none", "closing", "reading", "fallback", "discarding", "marking"})'
    BY <2>1 DEF Cleanup, Ended, CallIs
  <2>6. (ops["dispose"].at \in Cleanup \cup {"none", "first", "second", "end"})'
    BY <2>1 DEF Cleanup, Ended, CallIs
  <2>7. (ops["restore"].at \in Cleanup \cup {"none", "end"})'
    BY <2>1 DEF Cleanup, Ended, CallIs
  <2>8. (\A p \in Calls : ops[p].todo \subseteq ops[p].refs)'
    BY <2>1 DEF Ended, CallIs
  <2>9. (\A p \in Calls : ops[p].at \notin Cleanup \cup {"marking", "end"} => ops[p].refs = {})'
    BY <2>1 DEF Cleanup, Ended, CallIs
  <2>10. (\A p \in Calls : ops[p].at = "marking" => ops[p].todo = {})'
    BY <2>1 DEF Ended, CallIs
  <2> QED BY <2>2, <2>3, <2>4, <2>5, <2>6, <2>7, <2>8, <2>9, <2>10
<1>34. ASSUME NEW ok \in BOOLEAN, CleanupAtEnd(ok) PROVE StagesKept'
  <2>1. /\ ops["dispose"].at = "second" /\ ~conn.closing
        /\ ManagerIs(mgr', FALSE, mgr.enabled, mgr.provisional, mgr.timer, mgr.disposed, mgr.complete)
        /\ \/ profile.st = "tomb" /\ CallIs("dispose", "deleting", profile.refs, profile.refs)
           \/ CallIs("dispose", "end", ops["dispose"].refs, ops["dispose"].todo)
        /\ SamePast
        /\ UNCHANGED <<profile, secrets, conn>>
    BY <1>34, CleanupAtEndDoes
  <2>2. (ops["add"].at \in {"none", "secret", "profile", "connecting"})'
    BY <2>1 DEF CallIs
  <2>3. (ops["try"].at \in {"none", "owner"})'
    BY <2>1 DEF CallIs
  <2>4. (ops["remove"].at \in Cleanup \cup {"none", "closing", "reading", "marking"})'
    BY <2>1 DEF Cleanup, CallIs
  <2>5. (ops["rollback"].at \in Cleanup \cup {"none", "closing", "reading", "fallback", "discarding", "marking"})'
    BY <2>1 DEF Cleanup, CallIs
  <2>6. (ops["dispose"].at \in Cleanup \cup {"none", "first", "second", "end"})'
    BY <2>1 DEF Cleanup, CallIs
  <2>7. (ops["restore"].at \in Cleanup \cup {"none", "end"})'
    BY <2>1 DEF Cleanup, CallIs
  <2>8. (\A p \in Calls : ops[p].todo \subseteq ops[p].refs)'
    BY <2>1 DEF CallIs
  <2>9. (\A p \in Calls : ops[p].at \notin Cleanup \cup {"marking", "end"} => ops[p].refs = {})'
    BY <2>1 DEF Cleanup, CallIs
  <2>10. (\A p \in Calls : ops[p].at = "marking" => ops[p].todo = {})'
    BY <2>1 DEF CallIs
  <2> QED BY <2>2, <2>3, <2>4, <2>5, <2>6, <2>7, <2>8, <2>9, <2>10
<1>35. ASSUME NEW ok \in BOOLEAN, Restore(ok) PROVE StagesKept'
  <2>1. /\ ManagerIs(mgr', FALSE, FALSE, FALSE, FALSE, FALSE, FALSE)
        /\ conn' = NoLink /\ LinkIs(conn', "none", FALSE, FALSE, FALSE, {}, {})
        /\ PastIs(past', past.removed, past.late, past.leaked \cup (secrets \ profile.refs))
        /\ /\ \A p \in Calls \ {"restore"} : ops'[p].at = "none" /\ ops'[p].refs = {} /\ ops'[p].todo = {}
           /\ \/ /\ profile.st = "tomb" /\ ops'["restore"].at = "deleting"
                 /\ ops'["restore"].refs = profile.refs /\ ops'["restore"].todo = profile.refs
              \/ ops'["restore"].at = "end" /\ ops'["restore"].refs = {} /\ ops'["restore"].todo = {}
        /\ UNCHANGED <<profile, secrets>>
    BY <1>35, RestoreDoes
  <2>2. (ops["add"].at \in {"none", "secret", "profile", "connecting"})'
    BY <2>1
  <2>3. (ops["try"].at \in {"none", "owner"})'
    BY <2>1
  <2>4. (ops["remove"].at \in Cleanup \cup {"none", "closing", "reading", "marking"})'
    BY <2>1 DEF Cleanup
  <2>5. (ops["rollback"].at \in Cleanup \cup {"none", "closing", "reading", "fallback", "discarding", "marking"})'
    BY <2>1 DEF Cleanup
  <2>6. (ops["dispose"].at \in Cleanup \cup {"none", "first", "second", "end"})'
    BY <2>1 DEF Cleanup
  <2>7. (ops["restore"].at \in Cleanup \cup {"none", "end"})'
    BY <2>1 DEF Cleanup
  <2>8. (\A p \in Calls : ops[p].todo \subseteq ops[p].refs)'
    BY <2>1
  <2>9. (\A p \in Calls : ops[p].at \notin Cleanup \cup {"marking", "end"} => ops[p].refs = {})'
    BY <2>1 DEF Cleanup
  <2>10. (\A p \in Calls : ops[p].at = "marking" => ops[p].todo = {})'
    BY <2>1
  <2> QED BY <2>2, <2>3, <2>4, <2>5, <2>6, <2>7, <2>8, <2>9, <2>10
<1> QED BY <1>1, <1>2, <1>3, <1>4, <1>5, <1>6, <1>7, <1>8, <1>9, <1>10, <1>11, <1>12, <1>13, <1>14, <1>15,
   <1>16, <1>17, <1>18, <1>19, <1>20, <1>21, <1>22, <1>23, <1>24, <1>25, <1>26, <1>27, <1>28, <1>29, <1>30,
   <1>31, <1>32, <1>33, <1>34, <1>35 DEF LinksNext

\* WaitsKept is kept by every step.
LEMMA WaitsKeptStep ==
  ASSUME LinksTyped, LinksKept, LinksNext
  PROVE  WaitsKept'
<1>0. StagesKept /\ WaitsKept /\ CallsKept /\ DisposalKept
  BY DEF LinksKept
<1> USE <1>0, StateIs, CallsAre DEF WaitsKept
<1>1. ASSUME Add PROVE WaitsKept'
  BY <1>1, AddDoes DEF StagesKept, CallIs
<1>2. ASSUME Connect PROVE WaitsKept'
  <2>1. /\ ~mgr.disposed /\ profile.st = "complete" /\ ops["remove"].at = "none" /\ ops["rollback"].at = "none"
           /\ "connect" \notin conn.waits \cup conn.again /\ (mgr.managed \/ conn.at = "none")
        /\ mgr.managed => ManagerIs(mgr', TRUE, TRUE, mgr.provisional, FALSE, mgr.disposed, mgr.complete)
        /\ ~mgr.managed => ManagerIs(mgr', TRUE, TRUE, FALSE, FALSE, mgr.disposed, mgr.complete)
        /\ mgr.managed => Joined(conn', conn, "connect")
        /\ ~mgr.managed => LinkIs(conn', "opening", FALSE, FALSE, FALSE, {"connect"}, {})
        /\ SamePast
        /\ UNCHANGED <<profile, secrets, ops>>
    BY <1>2, ConnectDoes
  <2>2. mgr.managed =>
        /\ ("add" \in conn'.waits => "add" \in conn.waits) /\ ("add" \in conn'.again <=> "add" \in conn.again)
        /\ ("try" \in conn'.waits => "try" \in conn.waits) /\ ("try" \in conn'.again <=> "try" \in conn.again)
        /\ (conn'.closing <=> conn.closing) /\ (conn'.session <=> conn.session)
        /\ conn.at # "none" => conn'.at = conn.at
        /\ conn.at = "none" => conn'.at \in {"none", "opening"}
    BY <2>1, JoinedAre
  <2>3. (conn.at = "none" <=> conn.waits = {})'
    BY <2>1, <2>2 DEF ManagerIs, LinkIs, Joined
  <2>4. (conn.again # {} => conn.closing)'
    BY <2>1, <2>2 DEF ManagerIs, LinkIs, Joined
  <2>5. ("add" \notin conn.again)'
    BY <2>1, <2>2 DEF ManagerIs, LinkIs, Joined
  <2>6. (conn.at # "none" /\ conn.closing => conn.aborted)'
    BY <2>1, <2>2 DEF ManagerIs, LinkIs, Joined
  <2>7. (conn.session => conn.at = "none")'
    BY <2>1, <2>2 DEF ManagerIs, LinkIs, Joined
  <2>8. (ops["add"].at = "connecting" <=> "add" \in conn.waits)'
    BY <2>1, <2>2 DEF StagesKept, ManagerIs, LinkIs, Joined
  <2>9. ("add" \in conn.waits => mgr.managed /\ mgr.provisional)'
    BY <2>1, <2>2 DEF CallsKept, DisposalKept, Inflight, Last, ManagerIs, LinkIs, Joined
  <2> QED BY <2>3, <2>4, <2>5, <2>6, <2>7, <2>8, <2>9
<1>3. ASSUME Disconnect PROVE WaitsKept'
  BY <1>3, DisconnectDoes DEF StagesKept, Closed, LinkIs, Stopped, ManagerIs
<1>4. ASSUME RemovePeer PROVE WaitsKept'
  <2>1. /\ ops["remove"].at = "none" /\ profile.st # "none" /\ ops["restore"].at = "none"
           /\ "connect" \notin conn.waits \cup conn.again
        /\ mgr.managed =>
             /\ Stopped(mgr', mgr)
             /\ Closed(conn', conn)
             /\ CallIs("remove", "closing", ops["remove"].refs, ops["remove"].todo)
        /\ ~mgr.managed =>
             /\ UNCHANGED <<mgr, conn>>
             /\ CallIs("remove", "reading", ops["remove"].refs, ops["remove"].todo)
        /\ UNCHANGED <<profile, secrets, past>>
    BY <1>4, RemovePeerDoes
  <2>2. (conn.at = "none" <=> conn.waits = {})'
    BY <2>1 DEF CallIs, Closed, LinkIs, Stopped, ManagerIs
  <2>3. (conn.again # {} => conn.closing)'
    BY <2>1 DEF CallIs, Closed, LinkIs, Stopped, ManagerIs
  <2>4. ("add" \notin conn.again)'
    BY <2>1 DEF CallIs, Closed, LinkIs, Stopped, ManagerIs
  <2>5. (conn.at # "none" /\ conn.closing => conn.aborted)'
    BY <2>1 DEF CallIs, Closed, LinkIs, Stopped, ManagerIs
  <2>6. (conn.session => conn.at = "none")'
    BY <2>1 DEF CallIs, Closed, LinkIs, Stopped, ManagerIs
  <2>7. (ops["add"].at = "connecting" <=> "add" \in conn.waits)'
    BY <2>1 DEF StagesKept, CallIs, Closed, LinkIs, Stopped, ManagerIs
  <2>8. ("add" \in conn.waits => mgr.managed /\ mgr.provisional)'
    BY <2>1 DEF CallsKept, DisposalKept, Inflight, Last, CallIs, Closed, LinkIs, Stopped, ManagerIs
  <2> QED BY <2>2, <2>3, <2>4, <2>5, <2>6, <2>7, <2>8
<1>5. ASSUME ReconnectTimer PROVE WaitsKept'
  BY <1>5, ReconnectTimerDoes DEF StagesKept, ManagerIs, CallIs
<1>6. ASSUME TryConnect PROVE WaitsKept'
  <2>1. /\ ops["try"].at = "owner"
        /\ CallIs("try", "none", {}, {})
        /\ \/ UNCHANGED mgr /\ Joined(conn', conn, "try") /\ PastIs(past', past.removed, past.late \/ Leaving, past.leaked)
           \/ /\ ManagerIs(mgr', mgr.managed, mgr.enabled, mgr.provisional, mgr.timer, mgr.disposed, mgr.complete)
              /\ UNCHANGED <<conn, past>>
        /\ UNCHANGED <<profile, secrets>>
    BY <1>6, TryConnectDoes
  <2>2. UNCHANGED conn \/
        /\ ("add" \in conn'.waits => "add" \in conn.waits) /\ ("add" \in conn'.again <=> "add" \in conn.again)
        /\ ("connect" \in conn'.waits =>
             /\ "connect" \in conn.waits)
             /\ ("connect" \in conn'.again <=> "connect" \in conn.again)
        /\ (conn'.closing <=> conn.closing) /\ (conn'.session <=> conn.session)
        /\ conn.at # "none" => conn'.at = conn.at
        /\ conn.at = "none" => conn'.at \in {"none", "opening"}
        /\ "try" \notin conn.waits \cup conn.again => "try" \notin conn'.waits \/ "try" \notin conn'.again
    BY <2>1, JoinedAre
  <2>3. (conn.at = "none" <=> conn.waits = {})'
    BY <2>1, <2>2 DEF ManagerIs, CallIs, Joined, LinkIs, Leaving
  <2>4. (conn.again # {} => conn.closing)'
    BY <2>1, <2>2 DEF ManagerIs, CallIs, Joined, LinkIs, Leaving
  <2>5. ("add" \notin conn.again)'
    BY <2>1, <2>2 DEF ManagerIs, CallIs, Joined, LinkIs, Leaving
  <2>6. (conn.at # "none" /\ conn.closing => conn.aborted)'
    BY <2>1, <2>2 DEF ManagerIs, CallIs, Joined, LinkIs, Leaving
  <2>7. (conn.session => conn.at = "none")'
    BY <2>1, <2>2 DEF ManagerIs, CallIs, Joined, LinkIs, Leaving
  <2>8. (ops["add"].at = "connecting" <=> "add" \in conn.waits)'
    BY <2>1, <2>2 DEF StagesKept, ManagerIs, CallIs, Joined, LinkIs, Leaving
  <2>9. ("add" \in conn.waits => mgr.managed /\ mgr.provisional)'
    BY <2>1, <2>2 DEF CallsKept, DisposalKept, Inflight, Last, ManagerIs, CallIs, Joined, LinkIs, Leaving
  <2> QED BY <2>3, <2>4, <2>5, <2>6, <2>7, <2>8, <2>9
<1>7. ASSUME LoseOwnership PROVE WaitsKept'
  BY <1>7, LoseOwnershipDoes DEF StagesKept, SameManager, ManagerIs
<1>8. ASSUME Open PROVE WaitsKept'
  BY <1>8, OpenDoes DEF StagesKept, AttemptAt, LinkIs
<1>9. ASSUME StoreCredentials PROVE WaitsKept'
  BY <1>9, StoreCredentialsDoes DEF StagesKept, PastIs, AttemptAt, LinkIs
<1>10. ASSUME StoreCredentialsFails PROVE WaitsKept'
  BY <1>10, StoreCredentialsFailsDoes DEF StagesKept, GivenUp, PastIs, AttemptAt, LinkIs
<1>11. ASSUME PeerReplied PROVE WaitsKept'
  BY <1>11, PeerRepliedDoes DEF StagesKept, AttemptAt, LinkIs
<1>12. ASSUME DropEnrollmentKeys PROVE WaitsKept'
  BY <1>12, DropEnrollmentKeysDoes DEF StagesKept, SamePast, PastIs, AttemptAt, LinkIs
<1>13. ASSUME Established PROVE WaitsKept'
  <2>1. PICK s \in {"offline", "online", "authFailed", "incompatible", "rePairRequired"}, ok \in BOOLEAN :
          /\ Settles(s, ok)
          /\ conn.aborted => ok /\ s = "offline"
          /\ s = "online" => ok
          /\ ok => conn.aborted \/ s = "online"
    BY <1>13, EstablishedDoes
  <2>2. conn.at = "authenticated" /\ UNCHANGED <<profile, secrets, past>>
    BY <1>13, EstablishedDoes
  <2>3. (conn.at = "none" <=> conn.waits = {})'
    BY <2>1, <2>2 DEF Settles, LinkIs, Stopped, ManagerIs, Timed, RollsBack, Refused, Closes
  <2>4. (conn.again # {} => conn.closing)'
    BY <2>1, <2>2 DEF Settles, LinkIs, Stopped, ManagerIs, Timed, RollsBack, Refused, Closes
  <2>5. ("add" \notin conn.again)'
    BY <2>1, <2>2 DEF Settles, LinkIs, Stopped, ManagerIs, Timed, RollsBack, Refused, Closes
  <2>6. (conn.at # "none" /\ conn.closing => conn.aborted)'
    BY <2>1, <2>2 DEF Settles, LinkIs, Stopped, ManagerIs, Timed, RollsBack, Refused, Closes
  <2>7. (conn.session => conn.at = "none")'
    BY <2>1, <2>2 DEF Settles, LinkIs, Stopped, ManagerIs, Timed, RollsBack, Refused, Closes
  <2>8. (ops["add"].at = "connecting" <=> "add" \in conn.waits)'
    BY <2>1, <2>2 DEF StagesKept, Settles, LinkIs, Stopped, ManagerIs, Timed, RollsBack, Refused, Closes
  <2>9. ("add" \in conn.waits => mgr.managed /\ mgr.provisional)'
    BY <2>1, <2>2 DEF CallsKept, DisposalKept, Inflight, Last, Settles, LinkIs, Stopped, ManagerIs, Timed,
       RollsBack, Refused, Closes
  <2> QED BY <2>3, <2>4, <2>5, <2>6, <2>7, <2>8, <2>9
<1>14. ASSUME SessionCloses PROVE WaitsKept'
  BY <1>14, SessionClosesDoes DEF StagesKept, LinkIs, Timed, ManagerIs
<1>15. ASSUME Disconnected PROVE WaitsKept'
  BY <1>15, DisconnectedDoes DEF StagesKept, LinkIs, PastIs, Leaving
<1>16. ASSUME Dispose PROVE WaitsKept'
  <2>1. /\ ops["dispose"].at = "none" /\ ~mgr.complete
        /\ ManagerIs(mgr', mgr.managed, FALSE, mgr.provisional, FALSE, TRUE, mgr.complete)
        /\ mgr.managed => Closed(conn', conn)
        /\ ~mgr.managed => UNCHANGED conn
        /\ CallIs("dispose", "first", ops["dispose"].refs, ops["dispose"].todo)
        /\ UNCHANGED <<profile, secrets, past>>
    BY <1>16, DisposeDoes
  <2>2. (conn.at = "none" <=> conn.waits = {})'
    BY <2>1 DEF ManagerIs, CallIs, Closed, LinkIs
  <2>3. (conn.again # {} => conn.closing)'
    BY <2>1 DEF ManagerIs, CallIs, Closed, LinkIs
  <2>4. ("add" \notin conn.again)'
    BY <2>1 DEF ManagerIs, CallIs, Closed, LinkIs
  <2>5. (conn.at # "none" /\ conn.closing => conn.aborted)'
    BY <2>1 DEF ManagerIs, CallIs, Closed, LinkIs
  <2>6. (conn.session => conn.at = "none")'
    BY <2>1 DEF ManagerIs, CallIs, Closed, LinkIs
  <2>7. (ops["add"].at = "connecting" <=> "add" \in conn.waits)'
    BY <2>1 DEF StagesKept, ManagerIs, CallIs, Closed, LinkIs
  <2>8. ("add" \in conn.waits => mgr.managed /\ mgr.provisional)'
    BY <2>1 DEF CallsKept, DisposalKept, Inflight, Last, ManagerIs, CallIs, Closed, LinkIs
  <2> QED BY <2>2, <2>3, <2>4, <2>5, <2>6, <2>7, <2>8
<1>17. ASSUME Drained PROVE WaitsKept'
  <2>1. /\ ops["dispose"].at = "first" /\ ~conn.closing /\ ~Inflight
        /\ Stopped(mgr', mgr)
        /\ mgr.managed => Closed(conn', conn)
        /\ ~mgr.managed => UNCHANGED conn
        /\ CallIs("dispose", "second", ops["dispose"].refs, ops["dispose"].todo)
        /\ UNCHANGED <<profile, secrets, past>>
    BY <1>17, DrainedDoes
  <2>2. (conn.at = "none" <=> conn.waits = {})'
    BY <2>1 DEF CallIs, Closed, LinkIs, Stopped, ManagerIs
  <2>3. (conn.again # {} => conn.closing)'
    BY <2>1 DEF CallIs, Closed, LinkIs, Stopped, ManagerIs
  <2>4. ("add" \notin conn.again)'
    BY <2>1 DEF CallIs, Closed, LinkIs, Stopped, ManagerIs
  <2>5. (conn.at # "none" /\ conn.closing => conn.aborted)'
    BY <2>1 DEF CallIs, Closed, LinkIs, Stopped, ManagerIs
  <2>6. (conn.session => conn.at = "none")'
    BY <2>1 DEF CallIs, Closed, LinkIs, Stopped, ManagerIs
  <2>7. (ops["add"].at = "connecting" <=> "add" \in conn.waits)'
    BY <2>1 DEF StagesKept, CallIs, Closed, LinkIs, Stopped, ManagerIs
  <2>8. ("add" \in conn.waits => mgr.managed /\ mgr.provisional)'
    BY <2>1 DEF CallsKept, DisposalKept, Inflight, Last, CallIs, Closed, LinkIs, Stopped, ManagerIs
  <2> QED BY <2>2, <2>3, <2>4, <2>5, <2>6, <2>7, <2>8
<1>18. ASSUME Disposed PROVE WaitsKept'
  BY <1>18, DisposedDoes DEF StagesKept, ManagerIs, CallIs
<1>19. ASSUME Restored PROVE WaitsKept'
  BY <1>19, RestoredDoes DEF StagesKept, ManagerIs, CallIs, Launched
<1>20. ASSUME NEW how \in Outcomes, StoreInvitation(how) PROVE WaitsKept'
  BY <1>20, StoreInvitationDoes DEF StagesKept, CallIs, SamePast, PastIs, RolledBack
<1>21. ASSUME NEW how \in Outcomes, StoreProfile(how) PROVE WaitsKept'
  <2>1. /\ ops["add"].at = "profile"
        /\ profile' = Invited \/ UNCHANGED profile
        /\ how = "done" /\ ~mgr.disposed =>
             /\ profile' = Invited
             /\ ManagerIs(mgr', TRUE, TRUE, TRUE, mgr.timer, mgr.disposed, mgr.complete)
             /\ LinkIs(conn', "opening", FALSE, FALSE, FALSE, {"add"}, {})
             /\ CallIs("add", "connecting", ops["add"].refs, ops["add"].todo)
        /\ ~(how = "done" /\ ~mgr.disposed) => UNCHANGED <<mgr, conn>> /\ RolledBack
        /\ SamePast
        /\ UNCHANGED secrets
    BY <1>21, StoreProfileDoes
  <2>2. (conn.at = "none" <=> conn.waits = {})'
    BY <2>1 DEF ManagerIs, LinkIs, CallIs, RolledBack
  <2>3. (conn.again # {} => conn.closing)'
    BY <2>1 DEF ManagerIs, LinkIs, CallIs, RolledBack
  <2>4. ("add" \notin conn.again)'
    BY <2>1 DEF ManagerIs, LinkIs, CallIs, RolledBack
  <2>5. (conn.at # "none" /\ conn.closing => conn.aborted)'
    BY <2>1 DEF ManagerIs, LinkIs, CallIs, RolledBack
  <2>6. (conn.session => conn.at = "none")'
    BY <2>1 DEF ManagerIs, LinkIs, CallIs, RolledBack
  <2>7. (ops["add"].at = "connecting" <=> "add" \in conn.waits)'
    BY <2>1 DEF StagesKept, ManagerIs, LinkIs, CallIs, RolledBack
  <2>8. ("add" \in conn.waits => mgr.managed /\ mgr.provisional)'
    BY <2>1 DEF CallsKept, DisposalKept, Inflight, Last, ManagerIs, LinkIs, CallIs, RolledBack
  <2> QED BY <2>2, <2>3, <2>4, <2>5, <2>6, <2>7, <2>8
<1>22. ASSUME NEW how \in Outcomes, StoreCandidate(how) PROVE WaitsKept'
  BY <1>22, StoreCandidateDoes DEF StagesKept, SamePast, PastIs, AttemptAt, LinkIs
<1>23. ASSUME NEW how \in Outcomes, StoreComplete(how) PROVE WaitsKept'
  BY <1>23, StoreCompleteDoes DEF StagesKept, SamePast, PastIs, AttemptAt, LinkIs
<1>24. ASSUME NEW how \in Outcomes, Discard(how) PROVE WaitsKept'
  BY <1>24, DiscardDoes DEF StagesKept, CallIs, GivenUp, PastIs, SameManager, ManagerIs
<1>25. ASSUME NEW how \in Outcomes, Fallback(how) PROVE WaitsKept'
  BY <1>25, FallbackDoes DEF StagesKept, CallIs, PastIs, SameManager, ManagerIs
<1>26. ASSUME NEW landed \in BOOLEAN, NEW left \in SUBSET Enrolled, CandidateFails(landed, left)
       PROVE  WaitsKept'
  BY <1>26, CandidateFailsDoes DEF StagesKept, GivenUp, PastIs, AttemptAt, LinkIs
<1>27. ASSUME NEW state \in {"offline", "authFailed", "incompatible", "rePairRequired"}, Fail(state)
       PROVE  WaitsKept'
  <2>1. PICK s \in {"offline", "online", "authFailed", "incompatible", "rePairRequired"}, ok \in BOOLEAN :
          /\ Settles(s, ok)
          /\ conn.aborted => ok /\ s = "offline"
          /\ s = "online" => ok
          /\ ok => conn.aborted \/ s = "online"
    BY <1>27, FailDoes
  <2>2. conn.at \notin {"none", "recording"} /\ UNCHANGED <<profile, secrets, past>>
    BY <1>27, FailDoes
  <2>3. (conn.at = "none" <=> conn.waits = {})'
    BY <2>1, <2>2 DEF Settles, LinkIs, Stopped, ManagerIs, Timed, RollsBack, Refused, Closes
  <2>4. (conn.again # {} => conn.closing)'
    BY <2>1, <2>2 DEF Settles, LinkIs, Stopped, ManagerIs, Timed, RollsBack, Refused, Closes
  <2>5. ("add" \notin conn.again)'
    BY <2>1, <2>2 DEF Settles, LinkIs, Stopped, ManagerIs, Timed, RollsBack, Refused, Closes
  <2>6. (conn.at # "none" /\ conn.closing => conn.aborted)'
    BY <2>1, <2>2 DEF Settles, LinkIs, Stopped, ManagerIs, Timed, RollsBack, Refused, Closes
  <2>7. (conn.session => conn.at = "none")'
    BY <2>1, <2>2 DEF Settles, LinkIs, Stopped, ManagerIs, Timed, RollsBack, Refused, Closes
  <2>8. (ops["add"].at = "connecting" <=> "add" \in conn.waits)'
    BY <2>1, <2>2 DEF StagesKept, Settles, LinkIs, Stopped, ManagerIs, Timed, RollsBack, Refused, Closes
  <2>9. ("add" \in conn.waits => mgr.managed /\ mgr.provisional)'
    BY <2>1, <2>2 DEF CallsKept, DisposalKept, Inflight, Last, Settles, LinkIs, Stopped, ManagerIs, Timed,
       RollsBack, Refused, Closes
  <2> QED BY <2>3, <2>4, <2>5, <2>6, <2>7, <2>8, <2>9
<1>28. ASSUME NEW o \in Calls, Forget(o) PROVE WaitsKept'
  <2>1. /\ o \in {"remove", "rollback"} /\ ops[o].at = "closing" /\ ~conn.closing
        /\ ManagerIs(mgr', FALSE, FALSE, mgr.provisional, FALSE, mgr.disposed, mgr.complete)
        /\ conn.session \/ conn.at # "none" => UNCHANGED conn
        /\ ~conn.session /\ conn.at = "none" =>
             /\ conn' = NoLink
             /\ LinkIs(conn', "none", FALSE, FALSE, FALSE, {}, {})
        /\ CallIs(o, "reading", ops[o].refs, ops[o].todo)
        /\ UNCHANGED <<profile, secrets, past>>
    BY <1>28, ForgetDoes
  <2>2. (conn.at = "none" <=> conn.waits = {})'
    BY <2>1 DEF ManagerIs, LinkIs, CallIs
  <2>3. (conn.again # {} => conn.closing)'
    BY <2>1 DEF ManagerIs, LinkIs, CallIs
  <2>4. ("add" \notin conn.again)'
    BY <2>1 DEF ManagerIs, LinkIs, CallIs
  <2>5. (conn.at # "none" /\ conn.closing => conn.aborted)'
    BY <2>1 DEF ManagerIs, LinkIs, CallIs
  <2>6. (conn.session => conn.at = "none")'
    BY <2>1 DEF ManagerIs, LinkIs, CallIs
  <2>7. (ops["add"].at = "connecting" <=> "add" \in conn.waits)'
    BY <2>1 DEF StagesKept, ManagerIs, LinkIs, CallIs
  <2>8. ("add" \in conn.waits => mgr.managed /\ mgr.provisional)'
    BY <2>1 DEF CallsKept, DisposalKept, Inflight, Last, ManagerIs, LinkIs, CallIs
  <2> QED BY <2>2, <2>3, <2>4, <2>5, <2>6, <2>7, <2>8
<1>29. ASSUME NEW o \in Calls, NEW ok \in BOOLEAN, ReadProfile(o, ok) PROVE WaitsKept'
  BY <1>29, ReadProfileDoes DEF StagesKept, CallIs, SamePast, PastIs, SameManager, ManagerIs
<1>30. ASSUME NEW o \in Calls, NEW how \in Outcomes, MarkCleanupPending(o, how) PROVE WaitsKept'
  BY <1>30, MarkCleanupPendingDoes DEF StagesKept, CallIs, SamePast, PastIs, Ended, SameManager, ManagerIs
<1>31. ASSUME NEW o \in Calls, NEW how \in Outcomes, DeleteSecret(o, how) PROVE WaitsKept'
  BY <1>31, DeleteSecretDoes DEF StagesKept, CallIs, SamePast, PastIs
<1>32. ASSUME NEW o \in Calls, NEW how \in Outcomes, DropReference(o, how) PROVE WaitsKept'
  <2>1. /\ ops[o].at = "dropping"
        /\ \/ UNCHANGED profile
           \/ /\ profile.st = "tomb" /\ profile.refs = ops[o].refs /\ profile' = Tomb(ops[o].refs \ {FirstOf(ops[o].todo)})
              /\ profile'.st = "tomb" /\ profile'.refs = ops[o].refs \ {FirstOf(ops[o].todo)}
        /\ \/ CallIs(o, "deleting", ops[o].refs, {})
           \/ CallIs(o, "deleting", ops[o].refs \ {FirstOf(ops[o].todo)}, ops[o].todo \ {FirstOf(ops[o].todo)})
        /\ SamePast
        /\ UNCHANGED <<secrets, mgr, conn>>
    BY <1>32, DropReferenceDoes
  <2>2. (conn.at = "none" <=> conn.waits = {})'
    BY <2>1 DEF CallIs
  <2>3. (conn.again # {} => conn.closing)'
    BY <2>1 DEF CallIs
  <2>4. ("add" \notin conn.again)'
    BY <2>1 DEF CallIs
  <2>5. (conn.at # "none" /\ conn.closing => conn.aborted)'
    BY <2>1 DEF CallIs
  <2>6. (conn.session => conn.at = "none")'
    BY <2>1 DEF CallIs
  <2>7. (ops["add"].at = "connecting" <=> "add" \in conn.waits)'
    BY <2>1 DEF StagesKept, CallIs
  <2>8. ("add" \in conn.waits => mgr.managed /\ mgr.provisional)'
    BY <2>1 DEF CallsKept, DisposalKept, Inflight, Last, CallIs
  <2> QED BY <2>2, <2>3, <2>4, <2>5, <2>6, <2>7, <2>8
<1>33. ASSUME NEW o \in Calls, NEW how \in Outcomes, DeleteProfile(o, how) PROVE WaitsKept'
  <2>1. /\ ops[o].at = "deleting" /\ ops[o].todo = {}
        /\ \/ /\ ops[o].refs = {} /\ profile.st = "tomb" /\ profile.refs = {} /\ profile' = NoProfile
              /\ PastIs(past', TRUE, past.late, past.leaked)
           \/ UNCHANGED profile /\ SamePast
        /\ Ended(o) /\ SameManager
        /\ UNCHANGED <<secrets, conn>>
    BY <1>33, DeleteProfileDoes
  <2>2. (conn.at = "none" <=> conn.waits = {})'
    BY <2>1 DEF Ended, CallIs, SameManager, ManagerIs
  <2>3. (conn.again # {} => conn.closing)'
    BY <2>1 DEF Ended, CallIs, SameManager, ManagerIs
  <2>4. ("add" \notin conn.again)'
    BY <2>1 DEF Ended, CallIs, SameManager, ManagerIs
  <2>5. (conn.at # "none" /\ conn.closing => conn.aborted)'
    BY <2>1 DEF Ended, CallIs, SameManager, ManagerIs
  <2>6. (conn.session => conn.at = "none")'
    BY <2>1 DEF Ended, CallIs, SameManager, ManagerIs
  <2>7. (ops["add"].at = "connecting" <=> "add" \in conn.waits)'
    BY <2>1 DEF StagesKept, Ended, CallIs, SameManager, ManagerIs
  <2>8. ("add" \in conn.waits => mgr.managed /\ mgr.provisional)'
    BY <2>1 DEF CallsKept, DisposalKept, Inflight, Last, Ended, CallIs, SameManager, ManagerIs
  <2> QED BY <2>2, <2>3, <2>4, <2>5, <2>6, <2>7, <2>8
<1>34. ASSUME NEW ok \in BOOLEAN, CleanupAtEnd(ok) PROVE WaitsKept'
  <2>1. /\ ops["dispose"].at = "second" /\ ~conn.closing
        /\ ManagerIs(mgr', FALSE, mgr.enabled, mgr.provisional, mgr.timer, mgr.disposed, mgr.complete)
        /\ \/ profile.st = "tomb" /\ CallIs("dispose", "deleting", profile.refs, profile.refs)
           \/ CallIs("dispose", "end", ops["dispose"].refs, ops["dispose"].todo)
        /\ SamePast
        /\ UNCHANGED <<profile, secrets, conn>>
    BY <1>34, CleanupAtEndDoes
  <2>2. (conn.at = "none" <=> conn.waits = {})'
    BY <2>1 DEF ManagerIs, CallIs
  <2>3. (conn.again # {} => conn.closing)'
    BY <2>1 DEF ManagerIs, CallIs
  <2>4. ("add" \notin conn.again)'
    BY <2>1 DEF ManagerIs, CallIs
  <2>5. (conn.at # "none" /\ conn.closing => conn.aborted)'
    BY <2>1 DEF ManagerIs, CallIs
  <2>6. (conn.session => conn.at = "none")'
    BY <2>1 DEF ManagerIs, CallIs
  <2>7. (ops["add"].at = "connecting" <=> "add" \in conn.waits)'
    BY <2>1 DEF StagesKept, ManagerIs, CallIs
  <2>8. ("add" \in conn.waits => mgr.managed /\ mgr.provisional)'
    BY <2>1 DEF CallsKept, DisposalKept, Inflight, Last, ManagerIs, CallIs
  <2> QED BY <2>2, <2>3, <2>4, <2>5, <2>6, <2>7, <2>8
<1>35. ASSUME NEW ok \in BOOLEAN, Restore(ok) PROVE WaitsKept'
  BY <1>35, RestoreDoes DEF StagesKept, ManagerIs, LinkIs, PastIs
<1> QED BY <1>1, <1>2, <1>3, <1>4, <1>5, <1>6, <1>7, <1>8, <1>9, <1>10, <1>11, <1>12, <1>13, <1>14, <1>15,
   <1>16, <1>17, <1>18, <1>19, <1>20, <1>21, <1>22, <1>23, <1>24, <1>25, <1>26, <1>27, <1>28, <1>29, <1>30,
   <1>31, <1>32, <1>33, <1>34, <1>35 DEF LinksNext

\* VirginKept is kept by every step.
LEMMA VirginKeptStep ==
  ASSUME LinksTyped, LinksKept, LinksNext
  PROVE  VirginKept'
<1>0. StagesKept /\ VirginKept /\ CallsKept /\ WaitsKept
  BY DEF LinksKept
<1> USE <1>0, StateIs, CallsAre DEF VirginKept
<1>1. ASSUME Add PROVE VirginKept'
  BY <1>1, AddDoes DEF StagesKept, CallsKept, WaitsKept, Cleanup, IsProvisional, CallIs
<1>2. ASSUME Connect PROVE VirginKept'
  BY <1>2, ConnectDoes DEF StagesKept, CallsKept, WaitsKept, Cleanup, IsProvisional, ManagerIs, LinkIs,
     SamePast, PastIs, Joined
<1>3. ASSUME Disconnect PROVE VirginKept'
  BY <1>3, DisconnectDoes DEF StagesKept, CallsKept, WaitsKept, Cleanup, IsProvisional, Closed, LinkIs,
     Stopped, ManagerIs
<1>4. ASSUME RemovePeer PROVE VirginKept'
  <2>1. /\ ops["remove"].at = "none" /\ profile.st # "none" /\ ops["restore"].at = "none"
           /\ "connect" \notin conn.waits \cup conn.again
        /\ mgr.managed =>
             /\ Stopped(mgr', mgr)
             /\ Closed(conn', conn)
             /\ CallIs("remove", "closing", ops["remove"].refs, ops["remove"].todo)
        /\ ~mgr.managed =>
             /\ UNCHANGED <<mgr, conn>>
             /\ CallIs("remove", "reading", ops["remove"].refs, ops["remove"].todo)
        /\ UNCHANGED <<profile, secrets, past>>
    BY <1>4, RemovePeerDoes
  <2>2. (profile.st = "none" /\ ~past.removed => ~mgr.managed /\ ~mgr.timer)'
    BY <2>1 DEF CallIs, Closed, LinkIs, Stopped, ManagerIs
  <2>3. (profile.st = "none" /\ ~past.removed => conn = NoLink)'
    BY <2>1 DEF CallIs, Closed, LinkIs, Stopped, ManagerIs
  <2>4. (profile.st = "none" /\ ~past.removed => \A p \in Calls : ops[p].refs = {} /\ ops[p].at \notin Cleanup)'
    BY <2>1 DEF Cleanup, CallIs, Closed, LinkIs, Stopped, ManagerIs
  <2>5. (profile.st = "none" /\ ~past.removed =>
           ops["add"].at # "connecting" /\ ops["try"].at = "none" /\ ops["remove"].at = "none")'
    BY <2>1 DEF CallIs, Closed, LinkIs, Stopped, ManagerIs
  <2>6. (profile.st = "none" /\ ~past.removed =>
           ops["rollback"].at \in {"none", "reading", "fallback", "discarding"})'
    BY <2>1 DEF CallIs, Closed, LinkIs, Stopped, ManagerIs
  <2>7. (ops["add"].at \in {"secret", "profile"} => profile.st = "none" /\ ~past.removed)'
    BY <2>1 DEF CallIs, Closed, LinkIs, Stopped, ManagerIs
  <2>8. (ops["add"].at # "none" => ops["rollback"].at = "none" /\ ops["restore"].at = "none")'
    BY <2>1 DEF CallsKept, WaitsKept, StagesKept, CallIs, Closed, LinkIs, Stopped, ManagerIs
  <2> QED BY <2>2, <2>3, <2>4, <2>5, <2>6, <2>7, <2>8
<1>5. ASSUME ReconnectTimer PROVE VirginKept'
  BY <1>5, ReconnectTimerDoes DEF StagesKept, CallsKept, WaitsKept, Cleanup, IsProvisional, ManagerIs, CallIs
<1>6. ASSUME TryConnect PROVE VirginKept'
  BY <1>6, TryConnectDoes DEF StagesKept, CallsKept, WaitsKept, Cleanup, IsProvisional, ManagerIs, CallIs,
     PastIs, Joined, LinkIs, Leaving
<1>7. ASSUME LoseOwnership PROVE VirginKept'
  BY <1>7, LoseOwnershipDoes DEF StagesKept, CallsKept, WaitsKept, Cleanup, IsProvisional, SameManager,
     ManagerIs
<1>8. ASSUME Open PROVE VirginKept'
  BY <1>8, OpenDoes DEF StagesKept, CallsKept, WaitsKept, Cleanup, IsProvisional, AttemptAt, LinkIs
<1>9. ASSUME StoreCredentials PROVE VirginKept'
  BY <1>9, StoreCredentialsDoes DEF StagesKept, CallsKept, WaitsKept, Cleanup, IsProvisional, PastIs,
     AttemptAt, LinkIs
<1>10. ASSUME StoreCredentialsFails PROVE VirginKept'
  BY <1>10, StoreCredentialsFailsDoes DEF StagesKept, CallsKept, WaitsKept, Cleanup, IsProvisional, GivenUp,
     PastIs, AttemptAt, LinkIs
<1>11. ASSUME PeerReplied PROVE VirginKept'
  BY <1>11, PeerRepliedDoes DEF StagesKept, CallsKept, WaitsKept, Cleanup, IsProvisional, AttemptAt, LinkIs
<1>12. ASSUME DropEnrollmentKeys PROVE VirginKept'
  BY <1>12, DropEnrollmentKeysDoes DEF StagesKept, CallsKept, WaitsKept, Cleanup, IsProvisional, SamePast,
     PastIs, AttemptAt, LinkIs
<1>13. ASSUME Established PROVE VirginKept'
  <2>1. PICK s \in {"offline", "online", "authFailed", "incompatible", "rePairRequired"}, ok \in BOOLEAN :
          /\ Settles(s, ok)
          /\ conn.aborted => ok /\ s = "offline"
          /\ s = "online" => ok
          /\ ok => conn.aborted \/ s = "online"
    BY <1>13, EstablishedDoes
  <2>2. conn.at = "authenticated" /\ UNCHANGED <<profile, secrets, past>>
    BY <1>13, EstablishedDoes
  <2>3. (profile.st = "none" /\ ~past.removed => ~mgr.managed /\ ~mgr.timer)'
    BY <2>1, <2>2 DEF Settles, LinkIs, Stopped, ManagerIs, Timed, RollsBack, Refused, Closes
  <2>4. (profile.st = "none" /\ ~past.removed => conn = NoLink)'
    BY <2>1, <2>2 DEF Settles, LinkIs, Stopped, ManagerIs, Timed, RollsBack, Refused, Closes
  <2>5. (profile.st = "none" /\ ~past.removed => \A p \in Calls : ops[p].refs = {} /\ ops[p].at \notin Cleanup)'
    BY <2>1, <2>2 DEF Cleanup, Settles, LinkIs, Stopped, ManagerIs, Timed, RollsBack, Refused, Closes
  <2>6. (profile.st = "none" /\ ~past.removed =>
           ops["add"].at # "connecting" /\ ops["try"].at = "none" /\ ops["remove"].at = "none")'
    BY <2>1, <2>2 DEF Settles, LinkIs, Stopped, ManagerIs, Timed, RollsBack, Refused, Closes
  <2>7. (profile.st = "none" /\ ~past.removed =>
           ops["rollback"].at \in {"none", "reading", "fallback", "discarding"})'
    BY <2>1, <2>2 DEF Settles, LinkIs, Stopped, ManagerIs, Timed, RollsBack, Refused, Closes
  <2>8. (ops["add"].at \in {"secret", "profile"} => profile.st = "none" /\ ~past.removed)'
    BY <2>1, <2>2 DEF Settles, LinkIs, Stopped, ManagerIs, Timed, RollsBack, Refused, Closes
  <2>9. (ops["add"].at # "none" => ops["rollback"].at = "none" /\ ops["restore"].at = "none")'
    BY <2>1, <2>2 DEF CallsKept, WaitsKept, StagesKept, Settles, LinkIs, Stopped, ManagerIs, Timed, RollsBack,
       Refused, Closes
  <2> QED BY <2>3, <2>4, <2>5, <2>6, <2>7, <2>8, <2>9
<1>14. ASSUME SessionCloses PROVE VirginKept'
  BY <1>14, SessionClosesDoes DEF StagesKept, CallsKept, WaitsKept, Cleanup, IsProvisional, LinkIs, Timed,
     ManagerIs
<1>15. ASSUME Disconnected PROVE VirginKept'
  BY <1>15, DisconnectedDoes DEF StagesKept, CallsKept, WaitsKept, Cleanup, IsProvisional, LinkIs, PastIs,
     Leaving
<1>16. ASSUME Dispose PROVE VirginKept'
  <2>1. /\ ops["dispose"].at = "none" /\ ~mgr.complete
        /\ ManagerIs(mgr', mgr.managed, FALSE, mgr.provisional, FALSE, TRUE, mgr.complete)
        /\ mgr.managed => Closed(conn', conn)
        /\ ~mgr.managed => UNCHANGED conn
        /\ CallIs("dispose", "first", ops["dispose"].refs, ops["dispose"].todo)
        /\ UNCHANGED <<profile, secrets, past>>
    BY <1>16, DisposeDoes
  <2>2. (profile.st = "none" /\ ~past.removed => ~mgr.managed /\ ~mgr.timer)'
    BY <2>1 DEF ManagerIs, CallIs, Closed, LinkIs
  <2>3. (profile.st = "none" /\ ~past.removed => conn = NoLink)'
    BY <2>1 DEF ManagerIs, CallIs, Closed, LinkIs
  <2>4. (profile.st = "none" /\ ~past.removed => \A p \in Calls : ops[p].refs = {} /\ ops[p].at \notin Cleanup)'
    BY <2>1 DEF Cleanup, ManagerIs, CallIs, Closed, LinkIs
  <2>5. (profile.st = "none" /\ ~past.removed =>
           ops["add"].at # "connecting" /\ ops["try"].at = "none" /\ ops["remove"].at = "none")'
    BY <2>1 DEF ManagerIs, CallIs, Closed, LinkIs
  <2>6. (profile.st = "none" /\ ~past.removed =>
           ops["rollback"].at \in {"none", "reading", "fallback", "discarding"})'
    BY <2>1 DEF ManagerIs, CallIs, Closed, LinkIs
  <2>7. (ops["add"].at \in {"secret", "profile"} => profile.st = "none" /\ ~past.removed)'
    BY <2>1 DEF ManagerIs, CallIs, Closed, LinkIs
  <2>8. (ops["add"].at # "none" => ops["rollback"].at = "none" /\ ops["restore"].at = "none")'
    BY <2>1 DEF CallsKept, WaitsKept, StagesKept, ManagerIs, CallIs, Closed, LinkIs
  <2> QED BY <2>2, <2>3, <2>4, <2>5, <2>6, <2>7, <2>8
<1>17. ASSUME Drained PROVE VirginKept'
  <2>1. /\ ops["dispose"].at = "first" /\ ~conn.closing /\ ~Inflight
        /\ Stopped(mgr', mgr)
        /\ mgr.managed => Closed(conn', conn)
        /\ ~mgr.managed => UNCHANGED conn
        /\ CallIs("dispose", "second", ops["dispose"].refs, ops["dispose"].todo)
        /\ UNCHANGED <<profile, secrets, past>>
    BY <1>17, DrainedDoes
  <2>2. (profile.st = "none" /\ ~past.removed => ~mgr.managed /\ ~mgr.timer)'
    BY <2>1 DEF CallIs, Closed, LinkIs, Stopped, ManagerIs
  <2>3. (profile.st = "none" /\ ~past.removed => conn = NoLink)'
    BY <2>1 DEF CallIs, Closed, LinkIs, Stopped, ManagerIs
  <2>4. (profile.st = "none" /\ ~past.removed => \A p \in Calls : ops[p].refs = {} /\ ops[p].at \notin Cleanup)'
    BY <2>1 DEF Cleanup, CallIs, Closed, LinkIs, Stopped, ManagerIs
  <2>5. (profile.st = "none" /\ ~past.removed =>
           ops["add"].at # "connecting" /\ ops["try"].at = "none" /\ ops["remove"].at = "none")'
    BY <2>1 DEF CallIs, Closed, LinkIs, Stopped, ManagerIs
  <2>6. (profile.st = "none" /\ ~past.removed =>
           ops["rollback"].at \in {"none", "reading", "fallback", "discarding"})'
    BY <2>1 DEF CallIs, Closed, LinkIs, Stopped, ManagerIs
  <2>7. (ops["add"].at \in {"secret", "profile"} => profile.st = "none" /\ ~past.removed)'
    BY <2>1 DEF CallIs, Closed, LinkIs, Stopped, ManagerIs
  <2>8. (ops["add"].at # "none" => ops["rollback"].at = "none" /\ ops["restore"].at = "none")'
    BY <2>1 DEF CallsKept, WaitsKept, StagesKept, CallIs, Closed, LinkIs, Stopped, ManagerIs
  <2> QED BY <2>2, <2>3, <2>4, <2>5, <2>6, <2>7, <2>8
<1>18. ASSUME Disposed PROVE VirginKept'
  BY <1>18, DisposedDoes DEF StagesKept, CallsKept, WaitsKept, Cleanup, IsProvisional, ManagerIs, CallIs
<1>19. ASSUME Restored PROVE VirginKept'
  <2>1. (profile.st = "none" /\ ~past.removed => ~mgr.managed /\ ~mgr.timer)'
    BY <1>19, RestoredDoes DEF ManagerIs, CallIs, Launched
  <2>2. (profile.st = "none" /\ ~past.removed => conn = NoLink)'
    BY <1>19, RestoredDoes DEF ManagerIs, CallIs, Launched
  <2>3. (profile.st = "none" /\ ~past.removed => \A p \in Calls : ops[p].refs = {} /\ ops[p].at \notin Cleanup)'
    BY <1>19, RestoredDoes DEF Cleanup, ManagerIs, CallIs, Launched
  <2>4. (profile.st = "none" /\ ~past.removed =>
           ops["add"].at # "connecting" /\ ops["try"].at = "none" /\ ops["remove"].at = "none")'
    BY <1>19, RestoredDoes DEF ManagerIs, CallIs, Launched
  <2>5. (profile.st = "none" /\ ~past.removed =>
           ops["rollback"].at \in {"none", "reading", "fallback", "discarding"})'
    BY <1>19, RestoredDoes DEF ManagerIs, CallIs, Launched
  <2>6. (ops["add"].at \in {"secret", "profile"} => profile.st = "none" /\ ~past.removed)'
    BY <1>19, RestoredDoes DEF ManagerIs, CallIs, Launched
  <2>7. (ops["add"].at # "none" => ops["rollback"].at = "none" /\ ops["restore"].at = "none")'
    BY <1>19, RestoredDoes DEF CallsKept, WaitsKept, StagesKept, ManagerIs, CallIs, Launched
  <2> QED BY <2>1, <2>2, <2>3, <2>4, <2>5, <2>6, <2>7
<1>20. ASSUME NEW how \in Outcomes, StoreInvitation(how) PROVE VirginKept'
  BY <1>20, StoreInvitationDoes DEF StagesKept, CallsKept, WaitsKept, Cleanup, IsProvisional, CallIs, SamePast,
     PastIs, RolledBack
<1>21. ASSUME NEW how \in Outcomes, StoreProfile(how) PROVE VirginKept'
  <2>1. /\ ops["add"].at = "profile"
        /\ profile' = Invited \/ UNCHANGED profile
        /\ how = "done" /\ ~mgr.disposed =>
             /\ profile' = Invited
             /\ ManagerIs(mgr', TRUE, TRUE, TRUE, mgr.timer, mgr.disposed, mgr.complete)
             /\ LinkIs(conn', "opening", FALSE, FALSE, FALSE, {"add"}, {})
             /\ CallIs("add", "connecting", ops["add"].refs, ops["add"].todo)
        /\ ~(how = "done" /\ ~mgr.disposed) => UNCHANGED <<mgr, conn>> /\ RolledBack
        /\ SamePast
        /\ UNCHANGED secrets
    BY <1>21, StoreProfileDoes
  <2>2. (profile.st = "none" /\ ~past.removed => ~mgr.managed /\ ~mgr.timer)'
    BY <2>1 DEF ManagerIs, LinkIs, CallIs, SamePast, PastIs, RolledBack
  <2>3. (profile.st = "none" /\ ~past.removed => conn = NoLink)'
    BY <2>1 DEF ManagerIs, LinkIs, CallIs, SamePast, PastIs, RolledBack
  <2>4. (profile.st = "none" /\ ~past.removed => \A p \in Calls : ops[p].refs = {} /\ ops[p].at \notin Cleanup)'
    BY <2>1 DEF Cleanup, ManagerIs, LinkIs, CallIs, SamePast, PastIs, RolledBack
  <2>5. (profile.st = "none" /\ ~past.removed =>
           ops["add"].at # "connecting" /\ ops["try"].at = "none" /\ ops["remove"].at = "none")'
    BY <2>1 DEF ManagerIs, LinkIs, CallIs, SamePast, PastIs, RolledBack
  <2>6. (profile.st = "none" /\ ~past.removed =>
           ops["rollback"].at \in {"none", "reading", "fallback", "discarding"})'
    BY <2>1 DEF ManagerIs, LinkIs, CallIs, SamePast, PastIs, RolledBack
  <2>7. (ops["add"].at \in {"secret", "profile"} => profile.st = "none" /\ ~past.removed)'
    BY <2>1 DEF ManagerIs, LinkIs, CallIs, SamePast, PastIs, RolledBack
  <2>8. (ops["add"].at # "none" => ops["rollback"].at = "none" /\ ops["restore"].at = "none")'
    BY <2>1 DEF CallsKept, WaitsKept, StagesKept, ManagerIs, LinkIs, CallIs, SamePast, PastIs, RolledBack
  <2> QED BY <2>2, <2>3, <2>4, <2>5, <2>6, <2>7, <2>8
<1>22. ASSUME NEW how \in Outcomes, StoreCandidate(how) PROVE VirginKept'
  BY <1>22, StoreCandidateDoes DEF StagesKept, CallsKept, WaitsKept, Cleanup, IsProvisional, SamePast, PastIs,
     AttemptAt, LinkIs
<1>23. ASSUME NEW how \in Outcomes, StoreComplete(how) PROVE VirginKept'
  BY <1>23, StoreCompleteDoes DEF StagesKept, CallsKept, WaitsKept, Cleanup, IsProvisional, SamePast, PastIs,
     AttemptAt, LinkIs
<1>24. ASSUME NEW how \in Outcomes, Discard(how) PROVE VirginKept'
  BY <1>24, DiscardDoes DEF StagesKept, CallsKept, WaitsKept, Cleanup, IsProvisional, CallIs, GivenUp, PastIs,
     SameManager, ManagerIs
<1>25. ASSUME NEW how \in Outcomes, Fallback(how) PROVE VirginKept'
  BY <1>25, FallbackDoes DEF StagesKept, CallsKept, WaitsKept, Cleanup, IsProvisional, CallIs, PastIs,
     SameManager, ManagerIs
<1>26. ASSUME NEW landed \in BOOLEAN, NEW left \in SUBSET Enrolled, CandidateFails(landed, left)
       PROVE  VirginKept'
  BY <1>26, CandidateFailsDoes DEF StagesKept, CallsKept, WaitsKept, Cleanup, IsProvisional, GivenUp, PastIs,
     AttemptAt, LinkIs
<1>27. ASSUME NEW state \in {"offline", "authFailed", "incompatible", "rePairRequired"}, Fail(state)
       PROVE  VirginKept'
  <2>1. PICK s \in {"offline", "online", "authFailed", "incompatible", "rePairRequired"}, ok \in BOOLEAN :
          /\ Settles(s, ok)
          /\ conn.aborted => ok /\ s = "offline"
          /\ s = "online" => ok
          /\ ok => conn.aborted \/ s = "online"
    BY <1>27, FailDoes
  <2>2. conn.at \notin {"none", "recording"} /\ UNCHANGED <<profile, secrets, past>>
    BY <1>27, FailDoes
  <2>3. (profile.st = "none" /\ ~past.removed => ~mgr.managed /\ ~mgr.timer)'
    BY <2>1, <2>2 DEF Settles, LinkIs, Stopped, ManagerIs, Timed, RollsBack, Refused, Closes
  <2>4. (profile.st = "none" /\ ~past.removed => conn = NoLink)'
    BY <2>1, <2>2 DEF Settles, LinkIs, Stopped, ManagerIs, Timed, RollsBack, Refused, Closes
  <2>5. (profile.st = "none" /\ ~past.removed => \A p \in Calls : ops[p].refs = {} /\ ops[p].at \notin Cleanup)'
    BY <2>1, <2>2 DEF Cleanup, Settles, LinkIs, Stopped, ManagerIs, Timed, RollsBack, Refused, Closes
  <2>6. (profile.st = "none" /\ ~past.removed =>
           ops["add"].at # "connecting" /\ ops["try"].at = "none" /\ ops["remove"].at = "none")'
    BY <2>1, <2>2 DEF Settles, LinkIs, Stopped, ManagerIs, Timed, RollsBack, Refused, Closes
  <2>7. (profile.st = "none" /\ ~past.removed =>
           ops["rollback"].at \in {"none", "reading", "fallback", "discarding"})'
    BY <2>1, <2>2 DEF Settles, LinkIs, Stopped, ManagerIs, Timed, RollsBack, Refused, Closes
  <2>8. (ops["add"].at \in {"secret", "profile"} => profile.st = "none" /\ ~past.removed)'
    BY <2>1, <2>2 DEF Settles, LinkIs, Stopped, ManagerIs, Timed, RollsBack, Refused, Closes
  <2>9. (ops["add"].at # "none" => ops["rollback"].at = "none" /\ ops["restore"].at = "none")'
    BY <2>1, <2>2 DEF CallsKept, WaitsKept, StagesKept, Settles, LinkIs, Stopped, ManagerIs, Timed, RollsBack,
       Refused, Closes
  <2> QED BY <2>3, <2>4, <2>5, <2>6, <2>7, <2>8, <2>9
<1>28. ASSUME NEW o \in Calls, Forget(o) PROVE VirginKept'
  <2>1. /\ o \in {"remove", "rollback"} /\ ops[o].at = "closing" /\ ~conn.closing
        /\ ManagerIs(mgr', FALSE, FALSE, mgr.provisional, FALSE, mgr.disposed, mgr.complete)
        /\ conn.session \/ conn.at # "none" => UNCHANGED conn
        /\ ~conn.session /\ conn.at = "none" =>
             /\ conn' = NoLink
             /\ LinkIs(conn', "none", FALSE, FALSE, FALSE, {}, {})
        /\ CallIs(o, "reading", ops[o].refs, ops[o].todo)
        /\ UNCHANGED <<profile, secrets, past>>
    BY <1>28, ForgetDoes
  <2>2. (profile.st = "none" /\ ~past.removed => ~mgr.managed /\ ~mgr.timer)'
    BY <2>1 DEF ManagerIs, LinkIs, CallIs
  <2>3. (profile.st = "none" /\ ~past.removed => conn = NoLink)'
    BY <2>1 DEF ManagerIs, LinkIs, CallIs
  <2>4. (profile.st = "none" /\ ~past.removed => \A p \in Calls : ops[p].refs = {} /\ ops[p].at \notin Cleanup)'
    BY <2>1 DEF Cleanup, ManagerIs, LinkIs, CallIs
  <2>5. (profile.st = "none" /\ ~past.removed =>
           ops["add"].at # "connecting" /\ ops["try"].at = "none" /\ ops["remove"].at = "none")'
    BY <2>1 DEF ManagerIs, LinkIs, CallIs
  <2>6. (profile.st = "none" /\ ~past.removed =>
           ops["rollback"].at \in {"none", "reading", "fallback", "discarding"})'
    BY <2>1 DEF ManagerIs, LinkIs, CallIs
  <2>7. (ops["add"].at \in {"secret", "profile"} => profile.st = "none" /\ ~past.removed)'
    BY <2>1 DEF ManagerIs, LinkIs, CallIs
  <2>8. (ops["add"].at # "none" => ops["rollback"].at = "none" /\ ops["restore"].at = "none")'
    BY <2>1 DEF CallsKept, WaitsKept, StagesKept, ManagerIs, LinkIs, CallIs
  <2> QED BY <2>2, <2>3, <2>4, <2>5, <2>6, <2>7, <2>8
<1>29. ASSUME NEW o \in Calls, NEW ok \in BOOLEAN, ReadProfile(o, ok) PROVE VirginKept'
  BY <1>29, ReadProfileDoes DEF StagesKept, CallsKept, WaitsKept, Cleanup, IsProvisional, CallIs, SamePast,
     PastIs, SameManager, ManagerIs
<1>30. ASSUME NEW o \in Calls, NEW how \in Outcomes, MarkCleanupPending(o, how) PROVE VirginKept'
  <2>1. /\ ops[o].at = "marking"
        /\ \/ UNCHANGED profile
           \/ /\ profile.st \notin {"none", "tomb"} /\ profile.refs = ops[o].refs /\ profile' = Tomb(ops[o].refs)
              /\ profile'.st = "tomb" /\ profile'.refs = ops[o].refs
        /\ Ended(o) \/ CallIs(o, "deleting", ops[o].refs, ops[o].refs)
        /\ SameManager
        /\ SamePast
        /\ UNCHANGED <<secrets, conn>>
    BY <1>30, MarkCleanupPendingDoes
  <2>2. (profile.st = "none" /\ ~past.removed => ~mgr.managed /\ ~mgr.timer)'
    BY <2>1 DEF CallIs, SamePast, PastIs, Ended, SameManager, ManagerIs
  <2>3. (profile.st = "none" /\ ~past.removed => conn = NoLink)'
    BY <2>1 DEF CallIs, SamePast, PastIs, Ended, SameManager, ManagerIs
  <2>4. (profile.st = "none" /\ ~past.removed => \A p \in Calls : ops[p].refs = {} /\ ops[p].at \notin Cleanup)'
    <3>1. o \in {"remove", "rollback"}
      BY <2>1 DEF StagesKept, Cleanup, Calls
    <3>2. ~(profile.st = "none" /\ ~past.removed)
      BY <2>1, <3>1
    <3> QED BY <2>1, <3>2 DEF SamePast, PastIs
  <2>5. (profile.st = "none" /\ ~past.removed =>
           ops["add"].at # "connecting" /\ ops["try"].at = "none" /\ ops["remove"].at = "none")'
    BY <2>1 DEF CallIs, SamePast, PastIs, Ended, SameManager, ManagerIs
  <2>6. (profile.st = "none" /\ ~past.removed =>
           ops["rollback"].at \in {"none", "reading", "fallback", "discarding"})'
    BY <2>1 DEF CallIs, SamePast, PastIs, Ended, SameManager, ManagerIs
  <2>7. (ops["add"].at \in {"secret", "profile"} => profile.st = "none" /\ ~past.removed)'
    BY <2>1 DEF CallIs, SamePast, PastIs, Ended, SameManager, ManagerIs
  <2>8. (ops["add"].at # "none" => ops["rollback"].at = "none" /\ ops["restore"].at = "none")'
    BY <2>1 DEF CallsKept, WaitsKept, StagesKept, CallIs, SamePast, PastIs, Ended, SameManager, ManagerIs
  <2> QED BY <2>2, <2>3, <2>4, <2>5, <2>6, <2>7, <2>8
<1>31. ASSUME NEW o \in Calls, NEW how \in Outcomes, DeleteSecret(o, how) PROVE VirginKept'
  BY <1>31, DeleteSecretDoes DEF StagesKept, CallsKept, WaitsKept, Cleanup, IsProvisional, CallIs, SamePast,
     PastIs
<1>32. ASSUME NEW o \in Calls, NEW how \in Outcomes, DropReference(o, how) PROVE VirginKept'
  <2>1. /\ ops[o].at = "dropping"
        /\ \/ UNCHANGED profile
           \/ /\ profile.st = "tomb" /\ profile.refs = ops[o].refs /\ profile' = Tomb(ops[o].refs \ {FirstOf(ops[o].todo)})
              /\ profile'.st = "tomb" /\ profile'.refs = ops[o].refs \ {FirstOf(ops[o].todo)}
        /\ \/ CallIs(o, "deleting", ops[o].refs, {})
           \/ CallIs(o, "deleting", ops[o].refs \ {FirstOf(ops[o].todo)}, ops[o].todo \ {FirstOf(ops[o].todo)})
        /\ SamePast
        /\ UNCHANGED <<secrets, mgr, conn>>
    BY <1>32, DropReferenceDoes
  <2>2. (profile.st = "none" /\ ~past.removed => ~mgr.managed /\ ~mgr.timer)'
    BY <2>1 DEF CallIs, SamePast, PastIs
  <2>3. (profile.st = "none" /\ ~past.removed => conn = NoLink)'
    BY <2>1 DEF CallIs, SamePast, PastIs
  <2>4. (profile.st = "none" /\ ~past.removed => \A p \in Calls : ops[p].refs = {} /\ ops[p].at \notin Cleanup)'
    BY <2>1 DEF Cleanup, CallIs, SamePast, PastIs
  <2>5. (profile.st = "none" /\ ~past.removed =>
           ops["add"].at # "connecting" /\ ops["try"].at = "none" /\ ops["remove"].at = "none")'
    BY <2>1 DEF CallIs, SamePast, PastIs
  <2>6. (profile.st = "none" /\ ~past.removed =>
           ops["rollback"].at \in {"none", "reading", "fallback", "discarding"})'
    BY <2>1 DEF CallIs, SamePast, PastIs
  <2>7. (ops["add"].at \in {"secret", "profile"} => profile.st = "none" /\ ~past.removed)'
    BY <2>1 DEF CallIs, SamePast, PastIs
  <2>8. (ops["add"].at # "none" => ops["rollback"].at = "none" /\ ops["restore"].at = "none")'
    BY <2>1 DEF CallsKept, WaitsKept, StagesKept, CallIs, SamePast, PastIs
  <2> QED BY <2>2, <2>3, <2>4, <2>5, <2>6, <2>7, <2>8
<1>33. ASSUME NEW o \in Calls, NEW how \in Outcomes, DeleteProfile(o, how) PROVE VirginKept'
  <2>1. /\ ops[o].at = "deleting" /\ ops[o].todo = {}
        /\ \/ /\ ops[o].refs = {} /\ profile.st = "tomb" /\ profile.refs = {} /\ profile' = NoProfile
              /\ PastIs(past', TRUE, past.late, past.leaked)
           \/ UNCHANGED profile /\ SamePast
        /\ Ended(o) /\ SameManager
        /\ UNCHANGED <<secrets, conn>>
    BY <1>33, DeleteProfileDoes
  <2>2. (profile.st = "none" /\ ~past.removed => ~mgr.managed /\ ~mgr.timer)'
    BY <2>1 DEF SamePast, PastIs, Ended, CallIs, SameManager, ManagerIs
  <2>3. (profile.st = "none" /\ ~past.removed => conn = NoLink)'
    BY <2>1 DEF SamePast, PastIs, Ended, CallIs, SameManager, ManagerIs
  <2>4. (profile.st = "none" /\ ~past.removed => \A p \in Calls : ops[p].refs = {} /\ ops[p].at \notin Cleanup)'
    BY <2>1 DEF Cleanup, SamePast, PastIs, Ended, CallIs, SameManager, ManagerIs
  <2>5. (profile.st = "none" /\ ~past.removed =>
           ops["add"].at # "connecting" /\ ops["try"].at = "none" /\ ops["remove"].at = "none")'
    BY <2>1 DEF SamePast, PastIs, Ended, CallIs, SameManager, ManagerIs
  <2>6. (profile.st = "none" /\ ~past.removed =>
           ops["rollback"].at \in {"none", "reading", "fallback", "discarding"})'
    BY <2>1 DEF SamePast, PastIs, Ended, CallIs, SameManager, ManagerIs
  <2>7. (ops["add"].at \in {"secret", "profile"} => profile.st = "none" /\ ~past.removed)'
    BY <2>1 DEF SamePast, PastIs, Ended, CallIs, SameManager, ManagerIs
  <2>8. (ops["add"].at # "none" => ops["rollback"].at = "none" /\ ops["restore"].at = "none")'
    BY <2>1 DEF CallsKept, WaitsKept, StagesKept, SamePast, PastIs, Ended, CallIs, SameManager, ManagerIs
  <2> QED BY <2>2, <2>3, <2>4, <2>5, <2>6, <2>7, <2>8
<1>34. ASSUME NEW ok \in BOOLEAN, CleanupAtEnd(ok) PROVE VirginKept'
  <2>1. /\ ops["dispose"].at = "second" /\ ~conn.closing
        /\ ManagerIs(mgr', FALSE, mgr.enabled, mgr.provisional, mgr.timer, mgr.disposed, mgr.complete)
        /\ \/ profile.st = "tomb" /\ CallIs("dispose", "deleting", profile.refs, profile.refs)
           \/ CallIs("dispose", "end", ops["dispose"].refs, ops["dispose"].todo)
        /\ SamePast
        /\ UNCHANGED <<profile, secrets, conn>>
    BY <1>34, CleanupAtEndDoes
  <2>2. (profile.st = "none" /\ ~past.removed => ~mgr.managed /\ ~mgr.timer)'
    BY <2>1 DEF ManagerIs, CallIs, SamePast, PastIs
  <2>3. (profile.st = "none" /\ ~past.removed => conn = NoLink)'
    BY <2>1 DEF ManagerIs, CallIs, SamePast, PastIs
  <2>4. (profile.st = "none" /\ ~past.removed => \A p \in Calls : ops[p].refs = {} /\ ops[p].at \notin Cleanup)'
    BY <2>1 DEF Cleanup, ManagerIs, CallIs, SamePast, PastIs
  <2>5. (profile.st = "none" /\ ~past.removed =>
           ops["add"].at # "connecting" /\ ops["try"].at = "none" /\ ops["remove"].at = "none")'
    BY <2>1 DEF ManagerIs, CallIs, SamePast, PastIs
  <2>6. (profile.st = "none" /\ ~past.removed =>
           ops["rollback"].at \in {"none", "reading", "fallback", "discarding"})'
    BY <2>1 DEF ManagerIs, CallIs, SamePast, PastIs
  <2>7. (ops["add"].at \in {"secret", "profile"} => profile.st = "none" /\ ~past.removed)'
    BY <2>1 DEF ManagerIs, CallIs, SamePast, PastIs
  <2>8. (ops["add"].at # "none" => ops["rollback"].at = "none" /\ ops["restore"].at = "none")'
    BY <2>1 DEF CallsKept, WaitsKept, StagesKept, ManagerIs, CallIs, SamePast, PastIs
  <2> QED BY <2>2, <2>3, <2>4, <2>5, <2>6, <2>7, <2>8
<1>35. ASSUME NEW ok \in BOOLEAN, Restore(ok) PROVE VirginKept'
  <2>1. /\ ManagerIs(mgr', FALSE, FALSE, FALSE, FALSE, FALSE, FALSE)
        /\ conn' = NoLink /\ LinkIs(conn', "none", FALSE, FALSE, FALSE, {}, {})
        /\ PastIs(past', past.removed, past.late, past.leaked \cup (secrets \ profile.refs))
        /\ /\ \A p \in Calls \ {"restore"} : ops'[p].at = "none" /\ ops'[p].refs = {} /\ ops'[p].todo = {}
           /\ \/ /\ profile.st = "tomb" /\ ops'["restore"].at = "deleting"
                 /\ ops'["restore"].refs = profile.refs /\ ops'["restore"].todo = profile.refs
              \/ ops'["restore"].at = "end" /\ ops'["restore"].refs = {} /\ ops'["restore"].todo = {}
        /\ UNCHANGED <<profile, secrets>>
    BY <1>35, RestoreDoes
  <2>2. (profile.st = "none" /\ ~past.removed => ~mgr.managed /\ ~mgr.timer)'
    BY <2>1 DEF ManagerIs, LinkIs, PastIs
  <2>3. (profile.st = "none" /\ ~past.removed => conn = NoLink)'
    BY <2>1 DEF ManagerIs, LinkIs, PastIs
  <2>4. (profile.st = "none" /\ ~past.removed => \A p \in Calls : ops[p].refs = {} /\ ops[p].at \notin Cleanup)'
    BY <2>1 DEF Cleanup, ManagerIs, LinkIs, PastIs
  <2>5. (profile.st = "none" /\ ~past.removed =>
           ops["add"].at # "connecting" /\ ops["try"].at = "none" /\ ops["remove"].at = "none")'
    BY <2>1 DEF ManagerIs, LinkIs, PastIs
  <2>6. (profile.st = "none" /\ ~past.removed =>
           ops["rollback"].at \in {"none", "reading", "fallback", "discarding"})'
    BY <2>1 DEF ManagerIs, LinkIs, PastIs
  <2>7. (ops["add"].at \in {"secret", "profile"} => profile.st = "none" /\ ~past.removed)'
    BY <2>1 DEF ManagerIs, LinkIs, PastIs
  <2>8. (ops["add"].at # "none" => ops["rollback"].at = "none" /\ ops["restore"].at = "none")'
    BY <2>1 DEF CallsKept, WaitsKept, StagesKept, ManagerIs, LinkIs, PastIs
  <2> QED BY <2>2, <2>3, <2>4, <2>5, <2>6, <2>7, <2>8
<1> QED BY <1>1, <1>2, <1>3, <1>4, <1>5, <1>6, <1>7, <1>8, <1>9, <1>10, <1>11, <1>12, <1>13, <1>14, <1>15,
   <1>16, <1>17, <1>18, <1>19, <1>20, <1>21, <1>22, <1>23, <1>24, <1>25, <1>26, <1>27, <1>28, <1>29, <1>30,
   <1>31, <1>32, <1>33, <1>34, <1>35 DEF LinksNext

\* KeysOwned is kept by every step.
LEMMA KeysOwnedStep ==
  ASSUME LinksTyped, LinksKept, LinksNext
  PROVE  KeysOwned'
<1>0. StagesKept /\ VirginKept /\ KeysOwned /\ CleanupKept /\ CallsKept /\ WaitsKept
  BY DEF LinksKept
<1> USE <1>0, StateIs, CallsAre DEF KeysOwned
<1>1. ASSUME Add PROVE KeysOwned'
  BY <1>1, AddDoes DEF VirginKept, CleanupKept, CallIs
<1>2. ASSUME Connect PROVE KeysOwned'
  BY <1>2, ConnectDoes DEF VirginKept, CleanupKept, ManagerIs, LinkIs, SamePast, PastIs, Joined
<1>3. ASSUME Disconnect PROVE KeysOwned'
  BY <1>3, DisconnectDoes DEF VirginKept, CleanupKept, Closed, LinkIs, Stopped, ManagerIs
<1>4. ASSUME RemovePeer PROVE KeysOwned'
  <2>1. /\ ops["remove"].at = "none" /\ profile.st # "none" /\ ops["restore"].at = "none"
           /\ "connect" \notin conn.waits \cup conn.again
        /\ mgr.managed =>
             /\ Stopped(mgr', mgr)
             /\ Closed(conn', conn)
             /\ CallIs("remove", "closing", ops["remove"].refs, ops["remove"].todo)
        /\ ~mgr.managed =>
             /\ UNCHANGED <<mgr, conn>>
             /\ CallIs("remove", "reading", ops["remove"].refs, ops["remove"].todo)
        /\ UNCHANGED <<profile, secrets, past>>
    BY <1>4, RemovePeerDoes
  <2>2. ASSUME NEW k \in secrets', k \notin profile'.refs, k \notin past'.leaked
        PROVE  \/ /\ k = "pairing" /\ profile'.st = "none"
                  /\ ops'["add"].at = "profile" \/ ops'["rollback"].at \in {"reading", "fallback", "discarding"}
               \/ k # "pairing" /\ conn'.at = "recording"
    BY <2>2, <2>1 DEF VirginKept, CleanupKept, CallsKept, WaitsKept, Untried, Trying, StagesKept, Keys, CallIs,
       Closed, LinkIs
  <2> QED BY <2>2
<1>5. ASSUME ReconnectTimer PROVE KeysOwned'
  BY <1>5, ReconnectTimerDoes DEF VirginKept, CleanupKept, ManagerIs, CallIs
<1>6. ASSUME TryConnect PROVE KeysOwned'
  <2>1. /\ ops["try"].at = "owner"
        /\ CallIs("try", "none", {}, {})
        /\ \/ UNCHANGED mgr /\ Joined(conn', conn, "try") /\ PastIs(past', past.removed, past.late \/ Leaving, past.leaked)
           \/ /\ ManagerIs(mgr', mgr.managed, mgr.enabled, mgr.provisional, mgr.timer, mgr.disposed, mgr.complete)
              /\ UNCHANGED <<conn, past>>
        /\ UNCHANGED <<profile, secrets>>
    BY <1>6, TryConnectDoes
  <2>2. UNCHANGED conn \/
        /\ ("add" \in conn'.waits => "add" \in conn.waits) /\ ("add" \in conn'.again <=> "add" \in conn.again)
        /\ ("connect" \in conn'.waits =>
             /\ "connect" \in conn.waits)
             /\ ("connect" \in conn'.again <=> "connect" \in conn.again)
        /\ (conn'.closing <=> conn.closing) /\ (conn'.session <=> conn.session)
        /\ conn.at # "none" => conn'.at = conn.at
        /\ conn.at = "none" => conn'.at \in {"none", "opening"}
        /\ "try" \notin conn.waits \cup conn.again => "try" \notin conn'.waits \/ "try" \notin conn'.again
    BY <2>1, JoinedAre
  <2>3. ASSUME NEW k \in secrets', k \notin profile'.refs, k \notin past'.leaked
        PROVE  \/ /\ k = "pairing" /\ profile'.st = "none"
                  /\ ops'["add"].at = "profile" \/ ops'["rollback"].at \in {"reading", "fallback", "discarding"}
               \/ k # "pairing" /\ conn'.at = "recording"
    BY <2>3, <2>1, <2>2, JoinedAre DEF VirginKept, CleanupKept, CallsKept, WaitsKept, Untried, Trying,
       StagesKept, Keys, CallIs, PastIs, LinkIs, Leaving
  <2> QED BY <2>3
<1>7. ASSUME LoseOwnership PROVE KeysOwned'
  BY <1>7, LoseOwnershipDoes DEF VirginKept, CleanupKept, SameManager, ManagerIs
<1>8. ASSUME Open PROVE KeysOwned'
  BY <1>8, OpenDoes DEF VirginKept, CleanupKept, AttemptAt, LinkIs
<1>9. ASSUME StoreCredentials PROVE KeysOwned'
  BY <1>9, StoreCredentialsDoes DEF VirginKept, CleanupKept, PastIs, AttemptAt, LinkIs
<1>10. ASSUME StoreCredentialsFails PROVE KeysOwned'
  <2>1. ASSUME NEW k \in secrets', k \notin profile'.refs, k \notin past'.leaked
        PROVE  \/ /\ k = "pairing" /\ profile'.st = "none"
                  /\ ops'["add"].at = "profile" \/ ops'["rollback"].at \in {"reading", "fallback", "discarding"}
               \/ k # "pairing" /\ conn'.at = "recording"
    BY <2>1, <1>10, StoreCredentialsFailsDoes DEF VirginKept, CleanupKept, CallsKept, WaitsKept, Untried,
       Trying, StagesKept, Keys, GivenUp, PastIs, AttemptAt, LinkIs
  <2> QED BY <2>1
<1>11. ASSUME PeerReplied PROVE KeysOwned'
  BY <1>11, PeerRepliedDoes DEF VirginKept, CleanupKept, AttemptAt, LinkIs
<1>12. ASSUME DropEnrollmentKeys PROVE KeysOwned'
  BY <1>12, DropEnrollmentKeysDoes DEF VirginKept, CleanupKept, SamePast, PastIs, AttemptAt, LinkIs
<1>13. ASSUME Established PROVE KeysOwned'
  <2>1. PICK s \in {"offline", "online", "authFailed", "incompatible", "rePairRequired"}, ok \in BOOLEAN :
          /\ Settles(s, ok)
          /\ conn.aborted => ok /\ s = "offline"
          /\ s = "online" => ok
          /\ ok => conn.aborted \/ s = "online"
    BY <1>13, EstablishedDoes
  <2>2. conn.at = "authenticated" /\ UNCHANGED <<profile, secrets, past>>
    BY <1>13, EstablishedDoes
  <2>3. ASSUME NEW k \in secrets', k \notin profile'.refs, k \notin past'.leaked
        PROVE  \/ /\ k = "pairing" /\ profile'.st = "none"
                  /\ ops'["add"].at = "profile" \/ ops'["rollback"].at \in {"reading", "fallback", "discarding"}
               \/ k # "pairing" /\ conn'.at = "recording"
    <3>1. k \in secrets /\ k \notin profile.refs /\ k \notin past.leaked
      BY <2>2, <2>3
    <3>2. k = "pairing" /\ profile.st = "none" /\ (ops["add"].at = "profile" \/ ops["rollback"].at \in {"reading", "fallback", "discarding"})
      BY <2>2, <3>1
    <3>3. ops["add"].at # "profile"
      BY <2>2 DEF VirginKept
    <3>4. ~RollsBack(s, ok) /\ ops["rollback"].at \in {"reading", "fallback", "discarding"}
      BY <3>2, <3>3 DEF CallsKept, Untried, Trying, RollsBack, WaitsKept
    <3>5. ops'["rollback"] = ops["rollback"]
      BY <2>1, <3>4 DEF Settles
    <3> QED BY <2>2, <3>2, <3>4, <3>5
  <2> QED BY <2>3
<1>14. ASSUME SessionCloses PROVE KeysOwned'
  BY <1>14, SessionClosesDoes DEF VirginKept, CleanupKept, LinkIs, Timed, ManagerIs
<1>15. ASSUME Disconnected PROVE KeysOwned'
  BY <1>15, DisconnectedDoes DEF VirginKept, CleanupKept, LinkIs, PastIs, Leaving
<1>16. ASSUME Dispose PROVE KeysOwned'
  <2>1. /\ ops["dispose"].at = "none" /\ ~mgr.complete
        /\ ManagerIs(mgr', mgr.managed, FALSE, mgr.provisional, FALSE, TRUE, mgr.complete)
        /\ mgr.managed => Closed(conn', conn)
        /\ ~mgr.managed => UNCHANGED conn
        /\ CallIs("dispose", "first", ops["dispose"].refs, ops["dispose"].todo)
        /\ UNCHANGED <<profile, secrets, past>>
    BY <1>16, DisposeDoes
  <2>2. ASSUME NEW k \in secrets', k \notin profile'.refs, k \notin past'.leaked
        PROVE  \/ /\ k = "pairing" /\ profile'.st = "none"
                  /\ ops'["add"].at = "profile" \/ ops'["rollback"].at \in {"reading", "fallback", "discarding"}
               \/ k # "pairing" /\ conn'.at = "recording"
    BY <2>2, <2>1 DEF VirginKept, CleanupKept, CallsKept, WaitsKept, Untried, Trying, StagesKept, Keys, CallIs,
       Closed, LinkIs
  <2> QED BY <2>2
<1>17. ASSUME Drained PROVE KeysOwned'
  <2>1. /\ ops["dispose"].at = "first" /\ ~conn.closing /\ ~Inflight
        /\ Stopped(mgr', mgr)
        /\ mgr.managed => Closed(conn', conn)
        /\ ~mgr.managed => UNCHANGED conn
        /\ CallIs("dispose", "second", ops["dispose"].refs, ops["dispose"].todo)
        /\ UNCHANGED <<profile, secrets, past>>
    BY <1>17, DrainedDoes
  <2>2. ASSUME NEW k \in secrets', k \notin profile'.refs, k \notin past'.leaked
        PROVE  \/ /\ k = "pairing" /\ profile'.st = "none"
                  /\ ops'["add"].at = "profile" \/ ops'["rollback"].at \in {"reading", "fallback", "discarding"}
               \/ k # "pairing" /\ conn'.at = "recording"
    BY <2>2, <2>1 DEF VirginKept, CleanupKept, CallsKept, WaitsKept, Untried, Trying, StagesKept, Keys, CallIs,
       Closed, LinkIs
  <2> QED BY <2>2
<1>18. ASSUME Disposed PROVE KeysOwned'
  BY <1>18, DisposedDoes DEF VirginKept, CleanupKept, ManagerIs, CallIs
<1>19. ASSUME Restored PROVE KeysOwned'
  <2>1. /\ ops["restore"].at = "end" /\ ~conn.closing
        /\ \/ UNCHANGED <<mgr, conn>> /\ CallIs("restore", "none", {}, {})
           \/ /\ ~mgr.disposed /\ ~mgr.managed /\ profile.st \notin {"none", "tomb"}
              /\ ManagerIs(mgr', TRUE, TRUE, IsProvisional(profile), mgr.timer, mgr.disposed, mgr.complete)
              /\ conn' = NoLink /\ Launched
        /\ UNCHANGED <<profile, secrets, past>>
    BY <1>19, RestoredDoes
  <2>2. ASSUME NEW k \in secrets', k \notin profile'.refs, k \notin past'.leaked
        PROVE  \/ /\ k = "pairing" /\ profile'.st = "none"
                  /\ ops'["add"].at = "profile" \/ ops'["rollback"].at \in {"reading", "fallback", "discarding"}
               \/ k # "pairing" /\ conn'.at = "recording"
    <3>1. \/ k = "pairing" /\ profile.st = "none" /\ (ops["add"].at = "profile" \/ ops["rollback"].at \in {"reading", "fallback", "discarding"})
          \/ k # "pairing" /\ conn.at = "recording"
      BY <2>1, <2>2
    <3>2. conn.at = "recording" => UNCHANGED conn
      BY <2>1 DEF CallsKept
    <3>3. ops'["add"] = ops["add"] /\ ops'["rollback"] = ops["rollback"]
      BY <2>1 DEF CallIs, Launched
    <3> QED BY <2>1, <3>1, <3>2, <3>3
  <2> QED BY <2>2
<1>20. ASSUME NEW how \in Outcomes, StoreInvitation(how) PROVE KeysOwned'
  BY <1>20, StoreInvitationDoes DEF VirginKept, CleanupKept, CallIs, SamePast, PastIs, RolledBack
<1>21. ASSUME NEW how \in Outcomes, StoreProfile(how) PROVE KeysOwned'
  BY <1>21, StoreProfileDoes DEF VirginKept, CleanupKept, ManagerIs, LinkIs, CallIs, SamePast, PastIs,
     RolledBack
<1>22. ASSUME NEW how \in Outcomes, StoreCandidate(how) PROVE KeysOwned'
  <2>1. /\ conn.at = "recording"
        /\ profile' = Candidate
        /\ AttemptAt("committing")
        /\ SamePast
        /\ UNCHANGED <<secrets, mgr, ops>>
    BY <1>22, StoreCandidateDoes
  <2>2. ASSUME NEW k \in secrets', k \notin profile'.refs, k \notin past'.leaked
        PROVE  \/ /\ k = "pairing" /\ profile'.st = "none"
                  /\ ops'["add"].at = "profile" \/ ops'["rollback"].at \in {"reading", "fallback", "discarding"}
               \/ k # "pairing" /\ conn'.at = "recording"
    BY <2>2, <2>1 DEF Keys, LinkIs, SamePast, PastIs
  <2> QED BY <2>2
<1>23. ASSUME NEW how \in Outcomes, StoreComplete(how) PROVE KeysOwned'
  BY <1>23, StoreCompleteDoes DEF VirginKept, CleanupKept, SamePast, PastIs, AttemptAt, LinkIs
<1>24. ASSUME NEW how \in Outcomes, Discard(how) PROVE KeysOwned'
  BY <1>24, DiscardDoes DEF VirginKept, CleanupKept, CallIs, GivenUp, PastIs, SameManager, ManagerIs
<1>25. ASSUME NEW how \in Outcomes, Fallback(how) PROVE KeysOwned'
  BY <1>25, FallbackDoes DEF VirginKept, CleanupKept, CallIs, PastIs, SameManager, ManagerIs
<1>26. ASSUME NEW landed \in BOOLEAN, NEW left \in SUBSET Enrolled, CandidateFails(landed, left)
       PROVE  KeysOwned'
  <2>1. /\ conn.at = "recording"
        /\ profile' = Candidate \/ UNCHANGED profile
        /\ secrets' \subseteq secrets
        /\ AttemptAt("failing")
        /\ GivenUp({"credential", "commit"})
        /\ UNCHANGED <<mgr, ops>>
    BY <1>26, CandidateFailsDoes
  <2>2. ASSUME NEW k \in secrets', k \notin profile'.refs, k \notin past'.leaked
        PROVE  \/ /\ k = "pairing" /\ profile'.st = "none"
                  /\ ops'["add"].at = "profile" \/ ops'["rollback"].at \in {"reading", "fallback", "discarding"}
               \/ k # "pairing" /\ conn'.at = "recording"
    BY <2>2, <2>1 DEF VirginKept, CleanupKept, CallsKept, WaitsKept, Untried, Trying, StagesKept, Keys,
       GivenUp, PastIs, AttemptAt, LinkIs
  <2> QED BY <2>2
<1>27. ASSUME NEW state \in {"offline", "authFailed", "incompatible", "rePairRequired"}, Fail(state)
       PROVE  KeysOwned'
  <2>1. PICK s \in {"offline", "online", "authFailed", "incompatible", "rePairRequired"}, ok \in BOOLEAN :
          /\ Settles(s, ok)
          /\ conn.aborted => ok /\ s = "offline"
          /\ s = "online" => ok
          /\ ok => conn.aborted \/ s = "online"
    BY <1>27, FailDoes
  <2>2. conn.at \notin {"none", "recording"} /\ UNCHANGED <<profile, secrets, past>>
    BY <1>27, FailDoes
  <2>3. ASSUME NEW k \in secrets', k \notin profile'.refs, k \notin past'.leaked
        PROVE  \/ /\ k = "pairing" /\ profile'.st = "none"
                  /\ ops'["add"].at = "profile" \/ ops'["rollback"].at \in {"reading", "fallback", "discarding"}
               \/ k # "pairing" /\ conn'.at = "recording"
    <3>1. k \in secrets /\ k \notin profile.refs /\ k \notin past.leaked
      BY <2>2, <2>3
    <3>2. k = "pairing" /\ profile.st = "none" /\ (ops["add"].at = "profile" \/ ops["rollback"].at \in {"reading", "fallback", "discarding"})
      BY <2>2, <3>1
    <3>3. ops["add"].at # "profile"
      BY <2>2 DEF VirginKept
    <3>4. ~RollsBack(s, ok) /\ ops["rollback"].at \in {"reading", "fallback", "discarding"}
      BY <3>2, <3>3 DEF CallsKept, Untried, Trying, RollsBack, WaitsKept
    <3>5. ops'["rollback"] = ops["rollback"]
      BY <2>1, <3>4 DEF Settles
    <3> QED BY <2>2, <3>2, <3>4, <3>5
  <2> QED BY <2>3
<1>28. ASSUME NEW o \in Calls, Forget(o) PROVE KeysOwned'
  <2>1. /\ o \in {"remove", "rollback"} /\ ops[o].at = "closing" /\ ~conn.closing
        /\ ManagerIs(mgr', FALSE, FALSE, mgr.provisional, FALSE, mgr.disposed, mgr.complete)
        /\ conn.session \/ conn.at # "none" => UNCHANGED conn
        /\ ~conn.session /\ conn.at = "none" =>
             /\ conn' = NoLink
             /\ LinkIs(conn', "none", FALSE, FALSE, FALSE, {}, {})
        /\ CallIs(o, "reading", ops[o].refs, ops[o].todo)
        /\ UNCHANGED <<profile, secrets, past>>
    BY <1>28, ForgetDoes
  <2>2. ASSUME NEW k \in secrets', k \notin profile'.refs, k \notin past'.leaked
        PROVE  \/ /\ k = "pairing" /\ profile'.st = "none"
                  /\ ops'["add"].at = "profile" \/ ops'["rollback"].at \in {"reading", "fallback", "discarding"}
               \/ k # "pairing" /\ conn'.at = "recording"
    BY <2>2, <2>1 DEF VirginKept, CleanupKept, CallsKept, WaitsKept, Untried, Trying, StagesKept, Keys, LinkIs,
       CallIs
  <2> QED BY <2>2
<1>29. ASSUME NEW o \in Calls, NEW ok \in BOOLEAN, ReadProfile(o, ok) PROVE KeysOwned'
  BY <1>29, ReadProfileDoes DEF VirginKept, CleanupKept, CallIs, SamePast, PastIs, SameManager, ManagerIs
<1>30. ASSUME NEW o \in Calls, NEW how \in Outcomes, MarkCleanupPending(o, how) PROVE KeysOwned'
  BY <1>30, MarkCleanupPendingDoes DEF VirginKept, CleanupKept, CallIs, SamePast, PastIs, Ended, SameManager,
     ManagerIs
<1>31. ASSUME NEW o \in Calls, NEW how \in Outcomes, DeleteSecret(o, how) PROVE KeysOwned'
  BY <1>31, DeleteSecretDoes DEF VirginKept, CleanupKept, CallIs, SamePast, PastIs
<1>32. ASSUME NEW o \in Calls, NEW how \in Outcomes, DropReference(o, how) PROVE KeysOwned'
  <2>1. /\ ops[o].at = "dropping"
        /\ \/ UNCHANGED profile
           \/ /\ profile.st = "tomb" /\ profile.refs = ops[o].refs /\ profile' = Tomb(ops[o].refs \ {FirstOf(ops[o].todo)})
              /\ profile'.st = "tomb" /\ profile'.refs = ops[o].refs \ {FirstOf(ops[o].todo)}
        /\ \/ CallIs(o, "deleting", ops[o].refs, {})
           \/ CallIs(o, "deleting", ops[o].refs \ {FirstOf(ops[o].todo)}, ops[o].todo \ {FirstOf(ops[o].todo)})
        /\ SamePast
        /\ UNCHANGED <<secrets, mgr, conn>>
    BY <1>32, DropReferenceDoes
  <2>2. ASSUME NEW k \in secrets', k \notin profile'.refs, k \notin past'.leaked
        PROVE  \/ /\ k = "pairing" /\ profile'.st = "none"
                  /\ ops'["add"].at = "profile" \/ ops'["rollback"].at \in {"reading", "fallback", "discarding"}
               \/ k # "pairing" /\ conn'.at = "recording"
    BY <2>2, <2>1 DEF VirginKept, CleanupKept, CallsKept, WaitsKept, Untried, Trying, StagesKept, Keys, CallIs,
       SamePast, PastIs
  <2> QED BY <2>2
<1>33. ASSUME NEW o \in Calls, NEW how \in Outcomes, DeleteProfile(o, how) PROVE KeysOwned'
  <2>1. /\ ops[o].at = "deleting" /\ ops[o].todo = {}
        /\ \/ /\ ops[o].refs = {} /\ profile.st = "tomb" /\ profile.refs = {} /\ profile' = NoProfile
              /\ PastIs(past', TRUE, past.late, past.leaked)
           \/ UNCHANGED profile /\ SamePast
        /\ Ended(o) /\ SameManager
        /\ UNCHANGED <<secrets, conn>>
    BY <1>33, DeleteProfileDoes
  <2>2. ASSUME NEW k \in secrets', k \notin profile'.refs, k \notin past'.leaked
        PROVE  \/ /\ k = "pairing" /\ profile'.st = "none"
                  /\ ops'["add"].at = "profile" \/ ops'["rollback"].at \in {"reading", "fallback", "discarding"}
               \/ k # "pairing" /\ conn'.at = "recording"
    BY <2>2, <2>1 DEF VirginKept, CleanupKept, CallsKept, WaitsKept, Untried, Trying, StagesKept, Keys,
       SamePast, PastIs, Ended, CallIs
  <2> QED BY <2>2
<1>34. ASSUME NEW ok \in BOOLEAN, CleanupAtEnd(ok) PROVE KeysOwned'
  <2>1. /\ ops["dispose"].at = "second" /\ ~conn.closing
        /\ ManagerIs(mgr', FALSE, mgr.enabled, mgr.provisional, mgr.timer, mgr.disposed, mgr.complete)
        /\ \/ profile.st = "tomb" /\ CallIs("dispose", "deleting", profile.refs, profile.refs)
           \/ CallIs("dispose", "end", ops["dispose"].refs, ops["dispose"].todo)
        /\ SamePast
        /\ UNCHANGED <<profile, secrets, conn>>
    BY <1>34, CleanupAtEndDoes
  <2>2. ASSUME NEW k \in secrets', k \notin profile'.refs, k \notin past'.leaked
        PROVE  \/ /\ k = "pairing" /\ profile'.st = "none"
                  /\ ops'["add"].at = "profile" \/ ops'["rollback"].at \in {"reading", "fallback", "discarding"}
               \/ k # "pairing" /\ conn'.at = "recording"
    BY <2>2, <2>1 DEF VirginKept, CleanupKept, CallsKept, WaitsKept, Untried, Trying, StagesKept, Keys, CallIs,
       SamePast, PastIs
  <2> QED BY <2>2
<1>35. ASSUME NEW ok \in BOOLEAN, Restore(ok) PROVE KeysOwned'
  BY <1>35, RestoreDoes DEF VirginKept, CleanupKept, ManagerIs, LinkIs, PastIs
<1> QED BY <1>1, <1>2, <1>3, <1>4, <1>5, <1>6, <1>7, <1>8, <1>9, <1>10, <1>11, <1>12, <1>13, <1>14, <1>15,
   <1>16, <1>17, <1>18, <1>19, <1>20, <1>21, <1>22, <1>23, <1>24, <1>25, <1>26, <1>27, <1>28, <1>29, <1>30,
   <1>31, <1>32, <1>33, <1>34, <1>35 DEF LinksNext

\* CleanupKept is kept by every step.
LEMMA CleanupKeptStep ==
  ASSUME LinksTyped, LinksKept, LinksNext
  PROVE  CleanupKept'
<1>0. StagesKept /\ VirginKept /\ CleanupKept
  BY DEF LinksKept
<1> USE <1>0, StateIs, CallsAre DEF CleanupKept
<1>1. ASSUME Add PROVE CleanupKept'
  BY <1>1, AddDoes DEF StagesKept, VirginKept, Cleanup, CallIs
<1>2. ASSUME Connect PROVE CleanupKept'
  <2>1. /\ ~mgr.disposed /\ profile.st = "complete" /\ ops["remove"].at = "none" /\ ops["rollback"].at = "none"
           /\ "connect" \notin conn.waits \cup conn.again /\ (mgr.managed \/ conn.at = "none")
        /\ mgr.managed => ManagerIs(mgr', TRUE, TRUE, mgr.provisional, FALSE, mgr.disposed, mgr.complete)
        /\ ~mgr.managed => ManagerIs(mgr', TRUE, TRUE, FALSE, FALSE, mgr.disposed, mgr.complete)
        /\ mgr.managed => Joined(conn', conn, "connect")
        /\ ~mgr.managed => LinkIs(conn', "opening", FALSE, FALSE, FALSE, {"connect"}, {})
        /\ SamePast
        /\ UNCHANGED <<profile, secrets, ops>>
    BY <1>2, ConnectDoes
  <2>2. mgr.managed =>
        /\ ("add" \in conn'.waits => "add" \in conn.waits) /\ ("add" \in conn'.again <=> "add" \in conn.again)
        /\ ("try" \in conn'.waits => "try" \in conn.waits) /\ ("try" \in conn'.again <=> "try" \in conn.again)
        /\ (conn'.closing <=> conn.closing) /\ (conn'.session <=> conn.session)
        /\ conn.at # "none" => conn'.at = conn.at
        /\ conn.at = "none" => conn'.at \in {"none", "opening"}
    BY <2>1, JoinedAre
  <2>3. (\A p \in Calls : ops[p].at = "dropping" => ops[p].todo # {} /\ FirstOf(ops[p].todo) \notin secrets)'
    BY <2>1, <2>2, JoinedAre DEF Cleanup, LinkIs
  <2>4. (profile.st = "invited" \/ conn.at \in {"enrolling", "recording"} =>
           profile.refs \subseteq {"pairing"})'
    BY <2>1, <2>2, JoinedAre DEF LinkIs
  <2>5. (profile.st = "invited" \/ conn.at \in {"enrolling", "recording"} =>
           \A p \in Calls : ops[p].refs \subseteq {"pairing"})'
    BY <2>1, <2>2, JoinedAre DEF LinkIs
  <2>6. (conn.at = "storing" => secrets \subseteq {"credential"} \cup past.leaked)'
    BY <2>1, <2>2, JoinedAre DEF Keys, SamePast, PastIs, GivenUp, LinkIs
  <2> QED BY <2>3, <2>4, <2>5, <2>6
<1>3. ASSUME Disconnect PROVE CleanupKept'
  BY <1>3, DisconnectDoes DEF StagesKept, VirginKept, Cleanup, Closed, LinkIs, Stopped, ManagerIs
<1>4. ASSUME RemovePeer PROVE CleanupKept'
  <2>1. /\ ops["remove"].at = "none" /\ profile.st # "none" /\ ops["restore"].at = "none"
           /\ "connect" \notin conn.waits \cup conn.again
        /\ mgr.managed =>
             /\ Stopped(mgr', mgr)
             /\ Closed(conn', conn)
             /\ CallIs("remove", "closing", ops["remove"].refs, ops["remove"].todo)
        /\ ~mgr.managed =>
             /\ UNCHANGED <<mgr, conn>>
             /\ CallIs("remove", "reading", ops["remove"].refs, ops["remove"].todo)
        /\ UNCHANGED <<profile, secrets, past>>
    BY <1>4, RemovePeerDoes
  <2>2. (\A p \in Calls : ops[p].at = "dropping" => ops[p].todo # {} /\ FirstOf(ops[p].todo) \notin secrets)'
    BY <2>1 DEF Cleanup, CallIs, Closed, LinkIs
  <2>3. (profile.st = "invited" \/ conn.at \in {"enrolling", "recording"} =>
           profile.refs \subseteq {"pairing"})'
    BY <2>1 DEF CallIs, Closed, LinkIs
  <2>4. (profile.st = "invited" \/ conn.at \in {"enrolling", "recording"} =>
           \A p \in Calls : ops[p].refs \subseteq {"pairing"})'
    BY <2>1 DEF CallIs, Closed, LinkIs
  <2>5. (conn.at = "storing" => secrets \subseteq {"credential"} \cup past.leaked)'
    BY <2>1 DEF Keys, SamePast, PastIs, GivenUp, CallIs, Closed, LinkIs
  <2> QED BY <2>2, <2>3, <2>4, <2>5
<1>5. ASSUME ReconnectTimer PROVE CleanupKept'
  BY <1>5, ReconnectTimerDoes DEF StagesKept, VirginKept, Cleanup, ManagerIs, CallIs
<1>6. ASSUME TryConnect PROVE CleanupKept'
  <2>1. /\ ops["try"].at = "owner"
        /\ CallIs("try", "none", {}, {})
        /\ \/ UNCHANGED mgr /\ Joined(conn', conn, "try") /\ PastIs(past', past.removed, past.late \/ Leaving, past.leaked)
           \/ /\ ManagerIs(mgr', mgr.managed, mgr.enabled, mgr.provisional, mgr.timer, mgr.disposed, mgr.complete)
              /\ UNCHANGED <<conn, past>>
        /\ UNCHANGED <<profile, secrets>>
    BY <1>6, TryConnectDoes
  <2>2. UNCHANGED conn \/
        /\ ("add" \in conn'.waits => "add" \in conn.waits) /\ ("add" \in conn'.again <=> "add" \in conn.again)
        /\ ("connect" \in conn'.waits =>
             /\ "connect" \in conn.waits)
             /\ ("connect" \in conn'.again <=> "connect" \in conn.again)
        /\ (conn'.closing <=> conn.closing) /\ (conn'.session <=> conn.session)
        /\ conn.at # "none" => conn'.at = conn.at
        /\ conn.at = "none" => conn'.at \in {"none", "opening"}
        /\ "try" \notin conn.waits \cup conn.again => "try" \notin conn'.waits \/ "try" \notin conn'.again
    BY <2>1, JoinedAre
  <2>3. (\A p \in Calls : ops[p].at = "dropping" => ops[p].todo # {} /\ FirstOf(ops[p].todo) \notin secrets)'
    BY <2>1, <2>2, JoinedAre DEF Cleanup, CallIs, LinkIs, Leaving
  <2>4. (profile.st = "invited" \/ conn.at \in {"enrolling", "recording"} =>
           profile.refs \subseteq {"pairing"})'
    BY <2>1, <2>2, JoinedAre DEF CallIs, LinkIs, Leaving
  <2>5. (profile.st = "invited" \/ conn.at \in {"enrolling", "recording"} =>
           \A p \in Calls : ops[p].refs \subseteq {"pairing"})'
    BY <2>1, <2>2, JoinedAre DEF CallIs, LinkIs, Leaving
  <2>6. (conn.at = "storing" => secrets \subseteq {"credential"} \cup past.leaked)'
    BY <2>1, <2>2, JoinedAre DEF Keys, SamePast, PastIs, GivenUp, CallIs, LinkIs, Leaving
  <2> QED BY <2>3, <2>4, <2>5, <2>6
<1>7. ASSUME LoseOwnership PROVE CleanupKept'
  BY <1>7, LoseOwnershipDoes DEF StagesKept, VirginKept, Cleanup, SameManager, ManagerIs
<1>8. ASSUME Open PROVE CleanupKept'
  BY <1>8, OpenDoes DEF StagesKept, VirginKept, Cleanup, AttemptAt, LinkIs
<1>9. ASSUME StoreCredentials PROVE CleanupKept'
  <2>1. /\ conn.at = "enrolling" /\ "pairing" \in secrets
        /\ secrets' = secrets \cup {"credential", "commit"}
        /\ AttemptAt("recording")
        /\ PastIs(past', past.removed, past.late, past.leaked \ {"credential", "commit"})
        /\ UNCHANGED <<profile, mgr, ops>>
    BY <1>9, StoreCredentialsDoes
  <2>2. (\A p \in Calls : ops[p].at = "dropping" => ops[p].todo # {} /\ FirstOf(ops[p].todo) \notin secrets)'
    BY <2>1 DEF Cleanup, LinkIs, FirstOf, StagesKept
  <2>3. (profile.st = "invited" \/ conn.at \in {"enrolling", "recording"} =>
           profile.refs \subseteq {"pairing"})'
    BY <2>1 DEF AttemptAt, LinkIs
  <2>4. (profile.st = "invited" \/ conn.at \in {"enrolling", "recording"} =>
           \A p \in Calls : ops[p].refs \subseteq {"pairing"})'
    BY <2>1 DEF AttemptAt, LinkIs
  <2>5. (conn.at = "storing" => secrets \subseteq {"credential"} \cup past.leaked)'
    BY <2>1 DEF Keys, SamePast, PastIs, GivenUp, AttemptAt, LinkIs
  <2> QED BY <2>2, <2>3, <2>4, <2>5
<1>10. ASSUME StoreCredentialsFails PROVE CleanupKept'
  <2>1. /\ conn.at = "enrolling"
        /\ secrets' \in SUBSET Keys /\ ("pairing" \in secrets' => "pairing" \in secrets)
        /\ AttemptAt("failing")
        /\ GivenUp({"credential", "commit"})
        /\ UNCHANGED <<profile, mgr, ops>>
    BY <1>10, StoreCredentialsFailsDoes
  <2>2. (\A p \in Calls : ops[p].at = "dropping" => ops[p].todo # {} /\ FirstOf(ops[p].todo) \notin secrets)'
    BY <2>1 DEF Cleanup, FirstOf, StagesKept
  <2>3. (profile.st = "invited" \/ conn.at \in {"enrolling", "recording"} =>
           profile.refs \subseteq {"pairing"})'
    BY <2>1 DEF AttemptAt, LinkIs
  <2>4. (profile.st = "invited" \/ conn.at \in {"enrolling", "recording"} =>
           \A p \in Calls : ops[p].refs \subseteq {"pairing"})'
    BY <2>1 DEF AttemptAt, LinkIs
  <2>5. (conn.at = "storing" => secrets \subseteq {"credential"} \cup past.leaked)'
    BY <2>1 DEF Keys, SamePast, PastIs, GivenUp, AttemptAt, LinkIs
  <2> QED BY <2>2, <2>3, <2>4, <2>5
<1>11. ASSUME PeerReplied PROVE CleanupKept'
  BY <1>11, PeerRepliedDoes DEF StagesKept, VirginKept, Cleanup, AttemptAt, LinkIs
<1>12. ASSUME DropEnrollmentKeys PROVE CleanupKept'
  <2>1. (\A p \in Calls : ops[p].at = "dropping" => ops[p].todo # {} /\ FirstOf(ops[p].todo) \notin secrets)'
    BY <1>12, DropEnrollmentKeysDoes DEF Cleanup, AttemptAt, LinkIs
  <2>2. (profile.st = "invited" \/ conn.at \in {"enrolling", "recording"} =>
           profile.refs \subseteq {"pairing"})'
    BY <1>12, DropEnrollmentKeysDoes DEF AttemptAt, LinkIs
  <2>3. (profile.st = "invited" \/ conn.at \in {"enrolling", "recording"} =>
           \A p \in Calls : ops[p].refs \subseteq {"pairing"})'
    BY <1>12, DropEnrollmentKeysDoes DEF AttemptAt, LinkIs
  <2>4. (conn.at = "storing" => secrets \subseteq {"credential"} \cup past.leaked)'
    BY <1>12, DropEnrollmentKeysDoes DEF Keys, SamePast, PastIs, GivenUp, AttemptAt, LinkIs
  <2> QED BY <2>1, <2>2, <2>3, <2>4
<1>13. ASSUME Established PROVE CleanupKept'
  <2>1. PICK s \in {"offline", "online", "authFailed", "incompatible", "rePairRequired"}, ok \in BOOLEAN :
          /\ Settles(s, ok)
          /\ conn.aborted => ok /\ s = "offline"
          /\ s = "online" => ok
          /\ ok => conn.aborted \/ s = "online"
    BY <1>13, EstablishedDoes
  <2>2. conn.at = "authenticated" /\ UNCHANGED <<profile, secrets, past>>
    BY <1>13, EstablishedDoes
  <2>3. (\A p \in Calls : ops[p].at = "dropping" => ops[p].todo # {} /\ FirstOf(ops[p].todo) \notin secrets)'
    BY <2>1, <2>2 DEF Cleanup, Settles, LinkIs
  <2>4. (profile.st = "invited" \/ conn.at \in {"enrolling", "recording"} =>
           profile.refs \subseteq {"pairing"})'
    BY <2>1, <2>2 DEF Settles, LinkIs
  <2>5. (profile.st = "invited" \/ conn.at \in {"enrolling", "recording"} =>
           \A p \in Calls : ops[p].refs \subseteq {"pairing"})'
    BY <2>1, <2>2 DEF Settles, LinkIs
  <2>6. (conn.at = "storing" => secrets \subseteq {"credential"} \cup past.leaked)'
    BY <2>1, <2>2 DEF Keys, SamePast, PastIs, GivenUp, Settles, LinkIs
  <2> QED BY <2>3, <2>4, <2>5, <2>6
<1>14. ASSUME SessionCloses PROVE CleanupKept'
  BY <1>14, SessionClosesDoes DEF StagesKept, VirginKept, Cleanup, LinkIs, Timed, ManagerIs
<1>15. ASSUME Disconnected PROVE CleanupKept'
  <2>1. (\A p \in Calls : ops[p].at = "dropping" => ops[p].todo # {} /\ FirstOf(ops[p].todo) \notin secrets)'
    BY <1>15, DisconnectedDoes DEF Cleanup, LinkIs, Leaving
  <2>2. (profile.st = "invited" \/ conn.at \in {"enrolling", "recording"} =>
           profile.refs \subseteq {"pairing"})'
    BY <1>15, DisconnectedDoes DEF LinkIs, Leaving
  <2>3. (profile.st = "invited" \/ conn.at \in {"enrolling", "recording"} =>
           \A p \in Calls : ops[p].refs \subseteq {"pairing"})'
    BY <1>15, DisconnectedDoes DEF LinkIs, Leaving
  <2>4. (conn.at = "storing" => secrets \subseteq {"credential"} \cup past.leaked)'
    BY <1>15, DisconnectedDoes DEF Keys, SamePast, PastIs, GivenUp, LinkIs, Leaving
  <2> QED BY <2>1, <2>2, <2>3, <2>4
<1>16. ASSUME Dispose PROVE CleanupKept'
  <2>1. /\ ops["dispose"].at = "none" /\ ~mgr.complete
        /\ ManagerIs(mgr', mgr.managed, FALSE, mgr.provisional, FALSE, TRUE, mgr.complete)
        /\ mgr.managed => Closed(conn', conn)
        /\ ~mgr.managed => UNCHANGED conn
        /\ CallIs("dispose", "first", ops["dispose"].refs, ops["dispose"].todo)
        /\ UNCHANGED <<profile, secrets, past>>
    BY <1>16, DisposeDoes
  <2>2. (\A p \in Calls : ops[p].at = "dropping" => ops[p].todo # {} /\ FirstOf(ops[p].todo) \notin secrets)'
    BY <2>1 DEF Cleanup, CallIs, Closed, LinkIs
  <2>3. (profile.st = "invited" \/ conn.at \in {"enrolling", "recording"} =>
           profile.refs \subseteq {"pairing"})'
    BY <2>1 DEF CallIs, Closed, LinkIs
  <2>4. (profile.st = "invited" \/ conn.at \in {"enrolling", "recording"} =>
           \A p \in Calls : ops[p].refs \subseteq {"pairing"})'
    BY <2>1 DEF CallIs, Closed, LinkIs
  <2>5. (conn.at = "storing" => secrets \subseteq {"credential"} \cup past.leaked)'
    BY <2>1 DEF Keys, SamePast, PastIs, GivenUp, CallIs, Closed, LinkIs
  <2> QED BY <2>2, <2>3, <2>4, <2>5
<1>17. ASSUME Drained PROVE CleanupKept'
  <2>1. /\ ops["dispose"].at = "first" /\ ~conn.closing /\ ~Inflight
        /\ Stopped(mgr', mgr)
        /\ mgr.managed => Closed(conn', conn)
        /\ ~mgr.managed => UNCHANGED conn
        /\ CallIs("dispose", "second", ops["dispose"].refs, ops["dispose"].todo)
        /\ UNCHANGED <<profile, secrets, past>>
    BY <1>17, DrainedDoes
  <2>2. (\A p \in Calls : ops[p].at = "dropping" => ops[p].todo # {} /\ FirstOf(ops[p].todo) \notin secrets)'
    BY <2>1 DEF Cleanup, CallIs, Closed, LinkIs
  <2>3. (profile.st = "invited" \/ conn.at \in {"enrolling", "recording"} =>
           profile.refs \subseteq {"pairing"})'
    BY <2>1 DEF CallIs, Closed, LinkIs
  <2>4. (profile.st = "invited" \/ conn.at \in {"enrolling", "recording"} =>
           \A p \in Calls : ops[p].refs \subseteq {"pairing"})'
    BY <2>1 DEF CallIs, Closed, LinkIs
  <2>5. (conn.at = "storing" => secrets \subseteq {"credential"} \cup past.leaked)'
    BY <2>1 DEF Keys, SamePast, PastIs, GivenUp, CallIs, Closed, LinkIs
  <2> QED BY <2>2, <2>3, <2>4, <2>5
<1>18. ASSUME Disposed PROVE CleanupKept'
  BY <1>18, DisposedDoes DEF StagesKept, VirginKept, Cleanup, ManagerIs, CallIs
<1>19. ASSUME Restored PROVE CleanupKept'
  <2>1. (\A p \in Calls : ops[p].at = "dropping" => ops[p].todo # {} /\ FirstOf(ops[p].todo) \notin secrets)'
    BY <1>19, RestoredDoes DEF Cleanup, CallIs, Launched
  <2>2. (profile.st = "invited" \/ conn.at \in {"enrolling", "recording"} =>
           profile.refs \subseteq {"pairing"})'
    BY <1>19, RestoredDoes DEF CallIs, Launched
  <2>3. (profile.st = "invited" \/ conn.at \in {"enrolling", "recording"} =>
           \A p \in Calls : ops[p].refs \subseteq {"pairing"})'
    BY <1>19, RestoredDoes DEF CallIs, Launched
  <2>4. (conn.at = "storing" => secrets \subseteq {"credential"} \cup past.leaked)'
    BY <1>19, RestoredDoes DEF Keys, SamePast, PastIs, GivenUp, CallIs, Launched
  <2> QED BY <2>1, <2>2, <2>3, <2>4
<1>20. ASSUME NEW how \in Outcomes, StoreInvitation(how) PROVE CleanupKept'
  BY <1>20, StoreInvitationDoes DEF StagesKept, VirginKept, Cleanup, CallIs, SamePast, PastIs, RolledBack
<1>21. ASSUME NEW how \in Outcomes, StoreProfile(how) PROVE CleanupKept'
  <2>1. /\ ops["add"].at = "profile"
        /\ profile' = Invited \/ UNCHANGED profile
        /\ how = "done" /\ ~mgr.disposed =>
             /\ profile' = Invited
             /\ ManagerIs(mgr', TRUE, TRUE, TRUE, mgr.timer, mgr.disposed, mgr.complete)
             /\ LinkIs(conn', "opening", FALSE, FALSE, FALSE, {"add"}, {})
             /\ CallIs("add", "connecting", ops["add"].refs, ops["add"].todo)
        /\ ~(how = "done" /\ ~mgr.disposed) => UNCHANGED <<mgr, conn>> /\ RolledBack
        /\ SamePast
        /\ UNCHANGED secrets
    BY <1>21, StoreProfileDoes
  <2>2. (\A p \in Calls : ops[p].at = "dropping" => ops[p].todo # {} /\ FirstOf(ops[p].todo) \notin secrets)'
    <3>1. UNCHANGED secrets
      BY <2>1
    <3>2. CASE how = "done" /\ ~mgr.disposed
      <4>1. CallIs("add", "connecting", ops["add"].refs, ops["add"].todo)
        BY <2>1, <3>2
      <4> QED BY <3>1, <4>1 DEF CallIs
    <3>3. CASE ~(how = "done" /\ ~mgr.disposed)
      <4>1. RolledBack
        BY <2>1, <3>3
      <4> QED BY <3>1, <4>1 DEF RolledBack
    <3> QED BY <3>2, <3>3
  <2>3. (profile.st = "invited" \/ conn.at \in {"enrolling", "recording"} =>
           profile.refs \subseteq {"pairing"})'
    BY <2>1 DEF LinkIs, CallIs, RolledBack
  <2>4. (profile.st = "invited" \/ conn.at \in {"enrolling", "recording"} =>
           \A p \in Calls : ops[p].refs \subseteq {"pairing"})'
    <3>1. \A p \in Calls : ops[p].refs = {}
      BY <2>1 DEF VirginKept
    <3>2. CASE how = "done" /\ ~mgr.disposed
      <4>1. CallIs("add", "connecting", ops["add"].refs, ops["add"].todo)
        BY <2>1, <3>2
      <4> QED BY <3>1, <4>1 DEF CallIs
    <3>3. CASE ~(how = "done" /\ ~mgr.disposed)
      <4>1. RolledBack
        BY <2>1, <3>3
      <4> QED BY <3>1, <4>1 DEF RolledBack
    <3> QED BY <3>2, <3>3
  <2>5. (conn.at = "storing" => secrets \subseteq {"credential"} \cup past.leaked)'
    BY <2>1 DEF VirginKept, LinkIs
  <2> QED BY <2>2, <2>3, <2>4, <2>5
<1>22. ASSUME NEW how \in Outcomes, StoreCandidate(how) PROVE CleanupKept'
  BY <1>22, StoreCandidateDoes DEF StagesKept, VirginKept, Cleanup, SamePast, PastIs, AttemptAt, LinkIs
<1>23. ASSUME NEW how \in Outcomes, StoreComplete(how) PROVE CleanupKept'
  BY <1>23, StoreCompleteDoes DEF StagesKept, VirginKept, Cleanup, SamePast, PastIs, AttemptAt, LinkIs
<1>24. ASSUME NEW how \in Outcomes, Discard(how) PROVE CleanupKept'
  BY <1>24, DiscardDoes DEF StagesKept, VirginKept, Cleanup, CallIs, GivenUp, PastIs, SameManager, ManagerIs
<1>25. ASSUME NEW how \in Outcomes, Fallback(how) PROVE CleanupKept'
  BY <1>25, FallbackDoes DEF StagesKept, VirginKept, Cleanup, CallIs, PastIs, SameManager, ManagerIs
<1>26. ASSUME NEW landed \in BOOLEAN, NEW left \in SUBSET Enrolled, CandidateFails(landed, left)
       PROVE  CleanupKept'
  BY <1>26, CandidateFailsDoes DEF StagesKept, VirginKept, Cleanup, GivenUp, PastIs, AttemptAt, LinkIs
<1>27. ASSUME NEW state \in {"offline", "authFailed", "incompatible", "rePairRequired"}, Fail(state)
       PROVE  CleanupKept'
  <2>1. PICK s \in {"offline", "online", "authFailed", "incompatible", "rePairRequired"}, ok \in BOOLEAN :
          /\ Settles(s, ok)
          /\ conn.aborted => ok /\ s = "offline"
          /\ s = "online" => ok
          /\ ok => conn.aborted \/ s = "online"
    BY <1>27, FailDoes
  <2>2. conn.at \notin {"none", "recording"} /\ UNCHANGED <<profile, secrets, past>>
    BY <1>27, FailDoes
  <2>3. (\A p \in Calls : ops[p].at = "dropping" => ops[p].todo # {} /\ FirstOf(ops[p].todo) \notin secrets)'
    BY <2>1, <2>2 DEF Cleanup, Settles, LinkIs
  <2>4. (profile.st = "invited" \/ conn.at \in {"enrolling", "recording"} =>
           profile.refs \subseteq {"pairing"})'
    BY <2>1, <2>2 DEF Settles, LinkIs
  <2>5. (profile.st = "invited" \/ conn.at \in {"enrolling", "recording"} =>
           \A p \in Calls : ops[p].refs \subseteq {"pairing"})'
    BY <2>1, <2>2 DEF Settles, LinkIs
  <2>6. (conn.at = "storing" => secrets \subseteq {"credential"} \cup past.leaked)'
    BY <2>1, <2>2 DEF Keys, SamePast, PastIs, GivenUp, Settles, LinkIs
  <2> QED BY <2>3, <2>4, <2>5, <2>6
<1>28. ASSUME NEW o \in Calls, Forget(o) PROVE CleanupKept'
  <2>1. /\ o \in {"remove", "rollback"} /\ ops[o].at = "closing" /\ ~conn.closing
        /\ ManagerIs(mgr', FALSE, FALSE, mgr.provisional, FALSE, mgr.disposed, mgr.complete)
        /\ conn.session \/ conn.at # "none" => UNCHANGED conn
        /\ ~conn.session /\ conn.at = "none" =>
             /\ conn' = NoLink
             /\ LinkIs(conn', "none", FALSE, FALSE, FALSE, {}, {})
        /\ CallIs(o, "reading", ops[o].refs, ops[o].todo)
        /\ UNCHANGED <<profile, secrets, past>>
    BY <1>28, ForgetDoes
  <2>2. (\A p \in Calls : ops[p].at = "dropping" => ops[p].todo # {} /\ FirstOf(ops[p].todo) \notin secrets)'
    BY <2>1 DEF Cleanup, LinkIs, CallIs
  <2>3. (profile.st = "invited" \/ conn.at \in {"enrolling", "recording"} =>
           profile.refs \subseteq {"pairing"})'
    BY <2>1 DEF LinkIs, CallIs
  <2>4. (profile.st = "invited" \/ conn.at \in {"enrolling", "recording"} =>
           \A p \in Calls : ops[p].refs \subseteq {"pairing"})'
    BY <2>1 DEF LinkIs, CallIs
  <2>5. (conn.at = "storing" => secrets \subseteq {"credential"} \cup past.leaked)'
    BY <2>1 DEF Keys, SamePast, PastIs, GivenUp, LinkIs, CallIs
  <2> QED BY <2>2, <2>3, <2>4, <2>5
<1>29. ASSUME NEW o \in Calls, NEW ok \in BOOLEAN, ReadProfile(o, ok) PROVE CleanupKept'
  BY <1>29, ReadProfileDoes DEF StagesKept, VirginKept, Cleanup, CallIs, SamePast, PastIs, SameManager,
     ManagerIs
<1>30. ASSUME NEW o \in Calls, NEW how \in Outcomes, MarkCleanupPending(o, how) PROVE CleanupKept'
  BY <1>30, MarkCleanupPendingDoes DEF StagesKept, VirginKept, Cleanup, CallIs, SamePast, PastIs, Ended,
     SameManager, ManagerIs
<1>31. ASSUME NEW o \in Calls, NEW how \in Outcomes, DeleteSecret(o, how) PROVE CleanupKept'
  BY <1>31, DeleteSecretDoes DEF StagesKept, VirginKept, Cleanup, CallIs, SamePast, PastIs
<1>32. ASSUME NEW o \in Calls, NEW how \in Outcomes, DropReference(o, how) PROVE CleanupKept'
  <2>1. /\ ops[o].at = "dropping"
        /\ \/ UNCHANGED profile
           \/ /\ profile.st = "tomb" /\ profile.refs = ops[o].refs /\ profile' = Tomb(ops[o].refs \ {FirstOf(ops[o].todo)})
              /\ profile'.st = "tomb" /\ profile'.refs = ops[o].refs \ {FirstOf(ops[o].todo)}
        /\ \/ CallIs(o, "deleting", ops[o].refs, {})
           \/ CallIs(o, "deleting", ops[o].refs \ {FirstOf(ops[o].todo)}, ops[o].todo \ {FirstOf(ops[o].todo)})
        /\ SamePast
        /\ UNCHANGED <<secrets, mgr, conn>>
    BY <1>32, DropReferenceDoes
  <2>2. (\A p \in Calls : ops[p].at = "dropping" => ops[p].todo # {} /\ FirstOf(ops[p].todo) \notin secrets)'
    BY <2>1 DEF Cleanup, CallIs
  <2>3. (profile.st = "invited" \/ conn.at \in {"enrolling", "recording"} =>
           profile.refs \subseteq {"pairing"})'
    BY <2>1 DEF CallIs
  <2>4. (profile.st = "invited" \/ conn.at \in {"enrolling", "recording"} =>
           \A p \in Calls : ops[p].refs \subseteq {"pairing"})'
    BY <2>1 DEF CallIs
  <2>5. (conn.at = "storing" => secrets \subseteq {"credential"} \cup past.leaked)'
    BY <2>1 DEF Keys, SamePast, PastIs, GivenUp, CallIs
  <2> QED BY <2>2, <2>3, <2>4, <2>5
<1>33. ASSUME NEW o \in Calls, NEW how \in Outcomes, DeleteProfile(o, how) PROVE CleanupKept'
  <2>1. /\ ops[o].at = "deleting" /\ ops[o].todo = {}
        /\ \/ /\ ops[o].refs = {} /\ profile.st = "tomb" /\ profile.refs = {} /\ profile' = NoProfile
              /\ PastIs(past', TRUE, past.late, past.leaked)
           \/ UNCHANGED profile /\ SamePast
        /\ Ended(o) /\ SameManager
        /\ UNCHANGED <<secrets, conn>>
    BY <1>33, DeleteProfileDoes
  <2>2. (\A p \in Calls : ops[p].at = "dropping" => ops[p].todo # {} /\ FirstOf(ops[p].todo) \notin secrets)'
    BY <2>1 DEF Cleanup, Ended, CallIs
  <2>3. (profile.st = "invited" \/ conn.at \in {"enrolling", "recording"} =>
           profile.refs \subseteq {"pairing"})'
    BY <2>1 DEF Ended, CallIs
  <2>4. (profile.st = "invited" \/ conn.at \in {"enrolling", "recording"} =>
           \A p \in Calls : ops[p].refs \subseteq {"pairing"})'
    BY <2>1 DEF Ended, CallIs
  <2>5. (conn.at = "storing" => secrets \subseteq {"credential"} \cup past.leaked)'
    BY <2>1 DEF Keys, SamePast, PastIs, GivenUp, Ended, CallIs
  <2> QED BY <2>2, <2>3, <2>4, <2>5
<1>34. ASSUME NEW ok \in BOOLEAN, CleanupAtEnd(ok) PROVE CleanupKept'
  <2>1. /\ ops["dispose"].at = "second" /\ ~conn.closing
        /\ ManagerIs(mgr', FALSE, mgr.enabled, mgr.provisional, mgr.timer, mgr.disposed, mgr.complete)
        /\ \/ profile.st = "tomb" /\ CallIs("dispose", "deleting", profile.refs, profile.refs)
           \/ CallIs("dispose", "end", ops["dispose"].refs, ops["dispose"].todo)
        /\ SamePast
        /\ UNCHANGED <<profile, secrets, conn>>
    BY <1>34, CleanupAtEndDoes
  <2>2. (\A p \in Calls : ops[p].at = "dropping" => ops[p].todo # {} /\ FirstOf(ops[p].todo) \notin secrets)'
    BY <2>1 DEF Cleanup, CallIs
  <2>3. (profile.st = "invited" \/ conn.at \in {"enrolling", "recording"} =>
           profile.refs \subseteq {"pairing"})'
    BY <2>1 DEF CallIs
  <2>4. (profile.st = "invited" \/ conn.at \in {"enrolling", "recording"} =>
           \A p \in Calls : ops[p].refs \subseteq {"pairing"})'
    BY <2>1 DEF CallIs
  <2>5. (conn.at = "storing" => secrets \subseteq {"credential"} \cup past.leaked)'
    BY <2>1 DEF Keys, SamePast, PastIs, GivenUp, CallIs
  <2> QED BY <2>2, <2>3, <2>4, <2>5
<1>35. ASSUME NEW ok \in BOOLEAN, Restore(ok) PROVE CleanupKept'
  BY <1>35, RestoreDoes DEF StagesKept, VirginKept, Cleanup, ManagerIs, LinkIs, PastIs
<1> QED BY <1>1, <1>2, <1>3, <1>4, <1>5, <1>6, <1>7, <1>8, <1>9, <1>10, <1>11, <1>12, <1>13, <1>14, <1>15,
   <1>16, <1>17, <1>18, <1>19, <1>20, <1>21, <1>22, <1>23, <1>24, <1>25, <1>26, <1>27, <1>28, <1>29, <1>30,
   <1>31, <1>32, <1>33, <1>34, <1>35 DEF LinksNext

\* ProvisionalKept is kept by every step.
LEMMA ProvisionalKeptStep ==
  ASSUME LinksTyped, LinksKept, LinksNext
  PROVE  ProvisionalKept'
<1>0. ProvisionalKept /\ WaitsKept /\ CallsKept /\ VirginKept /\ StagesKept /\ DisposalKept
  BY DEF LinksKept
<1> USE <1>0, StateIs, CallsAre DEF ProvisionalKept
<1>1. ASSUME Add PROVE ProvisionalKept'
  BY <1>1, AddDoes DEF OneTry, Untried, Trying, WaitsKept, CallsKept, VirginKept, CallIs
<1>2. ASSUME Connect PROVE ProvisionalKept'
  <2>1. /\ ~mgr.disposed /\ profile.st = "complete" /\ ops["remove"].at = "none" /\ ops["rollback"].at = "none"
           /\ "connect" \notin conn.waits \cup conn.again /\ (mgr.managed \/ conn.at = "none")
        /\ mgr.managed => ManagerIs(mgr', TRUE, TRUE, mgr.provisional, FALSE, mgr.disposed, mgr.complete)
        /\ ~mgr.managed => ManagerIs(mgr', TRUE, TRUE, FALSE, FALSE, mgr.disposed, mgr.complete)
        /\ mgr.managed => Joined(conn', conn, "connect")
        /\ ~mgr.managed => LinkIs(conn', "opening", FALSE, FALSE, FALSE, {"connect"}, {})
        /\ SamePast
        /\ UNCHANGED <<profile, secrets, ops>>
    BY <1>2, ConnectDoes
  <2>2. mgr.managed =>
        /\ ("add" \in conn'.waits => "add" \in conn.waits) /\ ("add" \in conn'.again <=> "add" \in conn.again)
        /\ ("try" \in conn'.waits => "try" \in conn.waits) /\ ("try" \in conn'.again <=> "try" \in conn.again)
        /\ (conn'.closing <=> conn.closing) /\ (conn'.session <=> conn.session)
        /\ conn.at # "none" => conn'.at = conn.at
        /\ conn.at = "none" => conn'.at \in {"none", "opening"}
    BY <2>1, JoinedAre
  <2>3. (mgr.provisional => ~conn.session)'
    BY <2>1, <2>2, JoinedAre DEF WaitsKept, VirginKept, DisposalKept, ManagerIs, LinkIs
  <2>4. (mgr.provisional => ("add" \in conn.waits => Untried))'
    BY <2>1, <2>2, JoinedAre DEF OneTry, Untried, Trying, VirginKept, CallsKept, WaitsKept, ManagerIs, LinkIs
  <2>5. (mgr.provisional => (mgr.timer => ops["try"].at = "none" /\ ~Trying))'
    BY <2>1, <2>2, JoinedAre DEF OneTry, Untried, Trying, VirginKept, CallsKept, WaitsKept, ManagerIs, LinkIs
  <2>6. (mgr.provisional => (ops["try"].at # "none" => ~Trying))'
    BY <2>1, <2>2, JoinedAre DEF OneTry, Untried, Trying, VirginKept, CallsKept, WaitsKept, ManagerIs, LinkIs
  <2>7. (mgr.provisional => ("try" \in conn.waits => "try" \notin conn.again))'
    BY <2>1, <2>2, JoinedAre DEF OneTry, WaitsKept, VirginKept, ManagerIs, LinkIs
  <2> QED BY <2>3, <2>4, <2>5, <2>6, <2>7 DEF OneTry
<1>3. ASSUME Disconnect PROVE ProvisionalKept'
  BY <1>3, DisconnectDoes DEF OneTry, Untried, Trying, WaitsKept, CallsKept, VirginKept, Closed, LinkIs,
     Stopped, ManagerIs
<1>4. ASSUME RemovePeer PROVE ProvisionalKept'
  BY <1>4, RemovePeerDoes DEF OneTry, Untried, Trying, WaitsKept, CallsKept, VirginKept, CallIs, Closed,
     LinkIs, Stopped, ManagerIs
<1>5. ASSUME ReconnectTimer PROVE ProvisionalKept'
  BY <1>5, ReconnectTimerDoes DEF OneTry, Untried, Trying, WaitsKept, CallsKept, VirginKept, ManagerIs, CallIs
<1>6. ASSUME TryConnect PROVE ProvisionalKept'
  <2>1. /\ ops["try"].at = "owner"
        /\ CallIs("try", "none", {}, {})
        /\ \/ UNCHANGED mgr /\ Joined(conn', conn, "try") /\ PastIs(past', past.removed, past.late \/ Leaving, past.leaked)
           \/ /\ ManagerIs(mgr', mgr.managed, mgr.enabled, mgr.provisional, mgr.timer, mgr.disposed, mgr.complete)
              /\ UNCHANGED <<conn, past>>
        /\ UNCHANGED <<profile, secrets>>
    BY <1>6, TryConnectDoes
  <2>2. UNCHANGED conn \/
        /\ ("add" \in conn'.waits => "add" \in conn.waits) /\ ("add" \in conn'.again <=> "add" \in conn.again)
        /\ ("connect" \in conn'.waits =>
             /\ "connect" \in conn.waits)
             /\ ("connect" \in conn'.again <=> "connect" \in conn.again)
        /\ (conn'.closing <=> conn.closing) /\ (conn'.session <=> conn.session)
        /\ conn.at # "none" => conn'.at = conn.at
        /\ conn.at = "none" => conn'.at \in {"none", "opening"}
        /\ "try" \notin conn.waits \cup conn.again => "try" \notin conn'.waits \/ "try" \notin conn'.again
    BY <2>1, JoinedAre
  <2>3. (mgr.provisional => ~conn.session)'
    BY <2>1, <2>2, JoinedAre DEF WaitsKept, VirginKept, DisposalKept, ManagerIs, CallIs, LinkIs, Leaving
  <2>4. (mgr.provisional => ("add" \in conn.waits => Untried))'
    BY <2>1, <2>2, JoinedAre DEF OneTry, Untried, Trying, VirginKept, CallsKept, WaitsKept, ManagerIs, CallIs,
       LinkIs, Leaving
  <2>5. (mgr.provisional => (mgr.timer => ops["try"].at = "none" /\ ~Trying))'
    BY <2>1, <2>2, JoinedAre DEF OneTry, Untried, Trying, VirginKept, CallsKept, WaitsKept, ManagerIs, CallIs,
       LinkIs, Leaving
  <2>6. (mgr.provisional => (ops["try"].at # "none" => ~Trying))'
    BY <2>1, <2>2, JoinedAre DEF OneTry, Untried, Trying, VirginKept, CallsKept, WaitsKept, ManagerIs, CallIs,
       LinkIs, Leaving
  <2>7. (mgr.provisional => ("try" \in conn.waits => "try" \notin conn.again))'
    <3>1. mgr'.provisional = mgr.provisional
      BY <2>1 DEF ManagerIs
    <3>2. mgr.provisional => "try" \notin conn.waits \cup conn.again
      BY <2>1 DEF OneTry, Trying
    <3> QED BY <2>2, <3>1, <3>2
  <2> QED BY <2>3, <2>4, <2>5, <2>6, <2>7 DEF OneTry
<1>7. ASSUME LoseOwnership PROVE ProvisionalKept'
  BY <1>7, LoseOwnershipDoes DEF OneTry, Untried, Trying, WaitsKept, CallsKept, VirginKept, SameManager,
     ManagerIs
<1>8. ASSUME Open PROVE ProvisionalKept'
  BY <1>8, OpenDoes DEF OneTry, Untried, Trying, WaitsKept, CallsKept, VirginKept, AttemptAt, LinkIs
<1>9. ASSUME StoreCredentials PROVE ProvisionalKept'
  BY <1>9, StoreCredentialsDoes DEF OneTry, Untried, Trying, WaitsKept, CallsKept, VirginKept, PastIs,
     AttemptAt, LinkIs
<1>10. ASSUME StoreCredentialsFails PROVE ProvisionalKept'
  BY <1>10, StoreCredentialsFailsDoes DEF OneTry, Untried, Trying, WaitsKept, CallsKept, VirginKept, GivenUp,
     PastIs, AttemptAt, LinkIs
<1>11. ASSUME PeerReplied PROVE ProvisionalKept'
  BY <1>11, PeerRepliedDoes DEF OneTry, Untried, Trying, WaitsKept, CallsKept, VirginKept, AttemptAt, LinkIs
<1>12. ASSUME DropEnrollmentKeys PROVE ProvisionalKept'
  BY <1>12, DropEnrollmentKeysDoes DEF OneTry, Untried, Trying, WaitsKept, CallsKept, VirginKept, SamePast,
     PastIs, AttemptAt, LinkIs
<1>13. ASSUME Established PROVE ProvisionalKept'
  <2>1. PICK s \in {"offline", "online", "authFailed", "incompatible", "rePairRequired"}, ok \in BOOLEAN :
          /\ Settles(s, ok)
          /\ conn.aborted => ok /\ s = "offline"
          /\ s = "online" => ok
          /\ ok => conn.aborted \/ s = "online"
    BY <1>13, EstablishedDoes
  <2>2. conn.at = "authenticated" /\ UNCHANGED <<profile, secrets, past>>
    BY <1>13, EstablishedDoes
  <2>3. (mgr.provisional => ~conn.session)'
    BY <2>1, <2>2 DEF WaitsKept, VirginKept, DisposalKept, Settles, LinkIs, Stopped, ManagerIs, Timed,
       RollsBack, Refused, Closes
  <2>4. (mgr.provisional => ("add" \in conn.waits => Untried))'
    BY <2>1, <2>2 DEF OneTry, Untried, Trying, VirginKept, CallsKept, WaitsKept, Settles, LinkIs, Stopped,
       ManagerIs, Timed, RollsBack, Refused, Closes
  <2>5. (mgr.provisional => (mgr.timer => ops["try"].at = "none" /\ ~Trying))'
    <3>1. mgr'.provisional => mgr.provisional
      BY <2>1 DEF Settles, Stopped, Timed, ManagerIs
    <3>2. conn'.waits = {} /\ conn'.again = conn.again /\ ops'["try"] = ops["try"]
      BY <2>1 DEF Settles, LinkIs
    <3>3. mgr'.timer => mgr.timer \/ "add" \in conn.waits \/ "try" \in conn.waits
      BY <2>1 DEF Settles
    <3>4. mgr.provisional /\ (mgr.timer \/ "add" \in conn.waits \/ "try" \in conn.waits) =>
            ops["try"].at = "none" /\ "try" \notin conn.again
      BY DEF OneTry, Untried, Trying
    <3> QED BY <3>1, <3>2, <3>3, <3>4 DEF Trying
  <2>6. (mgr.provisional => (ops["try"].at # "none" => ~Trying))'
    BY <2>1, <2>2 DEF OneTry, Untried, Trying, VirginKept, CallsKept, WaitsKept, Settles, LinkIs, Stopped,
       ManagerIs, Timed, RollsBack, Refused, Closes
  <2>7. (mgr.provisional => ("try" \in conn.waits => "try" \notin conn.again))'
    BY <2>1, <2>2 DEF OneTry, WaitsKept, VirginKept, Settles, LinkIs, Stopped, ManagerIs, Timed, RollsBack,
       Refused, Closes
  <2> QED BY <2>3, <2>4, <2>5, <2>6, <2>7 DEF OneTry
<1>14. ASSUME SessionCloses PROVE ProvisionalKept'
  BY <1>14, SessionClosesDoes DEF OneTry, Untried, Trying, WaitsKept, CallsKept, VirginKept, LinkIs, Timed,
     ManagerIs
<1>15. ASSUME Disconnected PROVE ProvisionalKept'
  BY <1>15, DisconnectedDoes DEF OneTry, Untried, Trying, WaitsKept, CallsKept, VirginKept, LinkIs, PastIs,
     Leaving
<1>16. ASSUME Dispose PROVE ProvisionalKept'
  BY <1>16, DisposeDoes DEF OneTry, Untried, Trying, WaitsKept, CallsKept, VirginKept, ManagerIs, CallIs,
     Closed, LinkIs
<1>17. ASSUME Drained PROVE ProvisionalKept'
  BY <1>17, DrainedDoes DEF OneTry, Untried, Trying, WaitsKept, CallsKept, VirginKept, CallIs, Closed, LinkIs,
     Stopped, ManagerIs
<1>18. ASSUME Disposed PROVE ProvisionalKept'
  BY <1>18, DisposedDoes DEF OneTry, Untried, Trying, WaitsKept, CallsKept, VirginKept, ManagerIs, CallIs
<1>19. ASSUME Restored PROVE ProvisionalKept'
  BY <1>19, RestoredDoes DEF OneTry, Untried, Trying, WaitsKept, CallsKept, VirginKept, ManagerIs, CallIs,
     Launched
<1>20. ASSUME NEW how \in Outcomes, StoreInvitation(how) PROVE ProvisionalKept'
  BY <1>20, StoreInvitationDoes DEF OneTry, Untried, Trying, WaitsKept, CallsKept, VirginKept, CallIs,
     SamePast, PastIs, RolledBack
<1>21. ASSUME NEW how \in Outcomes, StoreProfile(how) PROVE ProvisionalKept'
  <2>1. /\ ops["add"].at = "profile"
        /\ profile' = Invited \/ UNCHANGED profile
        /\ how = "done" /\ ~mgr.disposed =>
             /\ profile' = Invited
             /\ ManagerIs(mgr', TRUE, TRUE, TRUE, mgr.timer, mgr.disposed, mgr.complete)
             /\ LinkIs(conn', "opening", FALSE, FALSE, FALSE, {"add"}, {})
             /\ CallIs("add", "connecting", ops["add"].refs, ops["add"].todo)
        /\ ~(how = "done" /\ ~mgr.disposed) => UNCHANGED <<mgr, conn>> /\ RolledBack
        /\ SamePast
        /\ UNCHANGED secrets
    BY <1>21, StoreProfileDoes
  <2>2. (mgr.provisional => ~conn.session)'
    BY <2>1 DEF WaitsKept, VirginKept, DisposalKept, ManagerIs, LinkIs, CallIs, RolledBack
  <2>3. (mgr.provisional => ("add" \in conn.waits => Untried))'
    BY <2>1 DEF OneTry, Untried, Trying, VirginKept, CallsKept, WaitsKept, ManagerIs, LinkIs, CallIs, RolledBack
  <2>4. (mgr.provisional => (mgr.timer => ops["try"].at = "none" /\ ~Trying))'
    BY <2>1 DEF OneTry, Untried, Trying, VirginKept, CallsKept, WaitsKept, ManagerIs, LinkIs, CallIs, RolledBack
  <2>5. (mgr.provisional => (ops["try"].at # "none" => ~Trying))'
    BY <2>1 DEF OneTry, Untried, Trying, VirginKept, CallsKept, WaitsKept, ManagerIs, LinkIs, CallIs, RolledBack
  <2>6. (mgr.provisional => ("try" \in conn.waits => "try" \notin conn.again))'
    BY <2>1 DEF OneTry, WaitsKept, VirginKept, ManagerIs, LinkIs, CallIs, RolledBack
  <2> QED BY <2>2, <2>3, <2>4, <2>5, <2>6 DEF OneTry
<1>22. ASSUME NEW how \in Outcomes, StoreCandidate(how) PROVE ProvisionalKept'
  BY <1>22, StoreCandidateDoes DEF OneTry, Untried, Trying, WaitsKept, CallsKept, VirginKept, SamePast, PastIs,
     AttemptAt, LinkIs
<1>23. ASSUME NEW how \in Outcomes, StoreComplete(how) PROVE ProvisionalKept'
  BY <1>23, StoreCompleteDoes DEF OneTry, Untried, Trying, WaitsKept, CallsKept, VirginKept, SamePast, PastIs,
     AttemptAt, LinkIs
<1>24. ASSUME NEW how \in Outcomes, Discard(how) PROVE ProvisionalKept'
  BY <1>24, DiscardDoes DEF OneTry, Untried, Trying, WaitsKept, CallsKept, VirginKept, CallIs, GivenUp, PastIs,
     SameManager, ManagerIs
<1>25. ASSUME NEW how \in Outcomes, Fallback(how) PROVE ProvisionalKept'
  BY <1>25, FallbackDoes DEF OneTry, Untried, Trying, WaitsKept, CallsKept, VirginKept, CallIs, PastIs,
     SameManager, ManagerIs
<1>26. ASSUME NEW landed \in BOOLEAN, NEW left \in SUBSET Enrolled, CandidateFails(landed, left)
       PROVE  ProvisionalKept'
  BY <1>26, CandidateFailsDoes DEF OneTry, Untried, Trying, WaitsKept, CallsKept, VirginKept, GivenUp, PastIs,
     AttemptAt, LinkIs
<1>27. ASSUME NEW state \in {"offline", "authFailed", "incompatible", "rePairRequired"}, Fail(state)
       PROVE  ProvisionalKept'
  <2>1. PICK s \in {"offline", "online", "authFailed", "incompatible", "rePairRequired"}, ok \in BOOLEAN :
          /\ Settles(s, ok)
          /\ conn.aborted => ok /\ s = "offline"
          /\ s = "online" => ok
          /\ ok => conn.aborted \/ s = "online"
    BY <1>27, FailDoes
  <2>2. conn.at \notin {"none", "recording"} /\ UNCHANGED <<profile, secrets, past>>
    BY <1>27, FailDoes
  <2>3. (mgr.provisional => ~conn.session)'
    BY <2>1, <2>2 DEF WaitsKept, VirginKept, DisposalKept, Settles, LinkIs, Stopped, ManagerIs, Timed,
       RollsBack, Refused, Closes
  <2>4. (mgr.provisional => ("add" \in conn.waits => Untried))'
    BY <2>1, <2>2 DEF OneTry, Untried, Trying, VirginKept, CallsKept, WaitsKept, Settles, LinkIs, Stopped,
       ManagerIs, Timed, RollsBack, Refused, Closes
  <2>5. (mgr.provisional => (mgr.timer => ops["try"].at = "none" /\ ~Trying))'
    <3>1. mgr'.provisional => mgr.provisional
      BY <2>1 DEF Settles, Stopped, Timed, ManagerIs
    <3>2. conn'.waits = {} /\ conn'.again = conn.again /\ ops'["try"] = ops["try"]
      BY <2>1 DEF Settles, LinkIs
    <3>3. mgr'.timer => mgr.timer \/ "add" \in conn.waits \/ "try" \in conn.waits
      BY <2>1 DEF Settles
    <3>4. mgr.provisional /\ (mgr.timer \/ "add" \in conn.waits \/ "try" \in conn.waits) =>
            ops["try"].at = "none" /\ "try" \notin conn.again
      BY DEF OneTry, Untried, Trying
    <3> QED BY <3>1, <3>2, <3>3, <3>4 DEF Trying
  <2>6. (mgr.provisional => (ops["try"].at # "none" => ~Trying))'
    BY <2>1, <2>2 DEF OneTry, Untried, Trying, VirginKept, CallsKept, WaitsKept, Settles, LinkIs, Stopped,
       ManagerIs, Timed, RollsBack, Refused, Closes
  <2>7. (mgr.provisional => ("try" \in conn.waits => "try" \notin conn.again))'
    BY <2>1, <2>2 DEF OneTry, WaitsKept, VirginKept, Settles, LinkIs, Stopped, ManagerIs, Timed, RollsBack,
       Refused, Closes
  <2> QED BY <2>3, <2>4, <2>5, <2>6, <2>7 DEF OneTry
<1>28. ASSUME NEW o \in Calls, Forget(o) PROVE ProvisionalKept'
  <2>1. /\ o \in {"remove", "rollback"} /\ ops[o].at = "closing" /\ ~conn.closing
        /\ ManagerIs(mgr', FALSE, FALSE, mgr.provisional, FALSE, mgr.disposed, mgr.complete)
        /\ conn.session \/ conn.at # "none" => UNCHANGED conn
        /\ ~conn.session /\ conn.at = "none" =>
             /\ conn' = NoLink
             /\ LinkIs(conn', "none", FALSE, FALSE, FALSE, {}, {})
        /\ CallIs(o, "reading", ops[o].refs, ops[o].todo)
        /\ UNCHANGED <<profile, secrets, past>>
    BY <1>28, ForgetDoes
  <2>2. (mgr.provisional => ~conn.session)'
    BY <2>1 DEF WaitsKept, VirginKept, DisposalKept, ManagerIs, LinkIs, CallIs
  <2>3. (mgr.provisional => ("add" \in conn.waits => Untried))'
    BY <2>1 DEF OneTry, Untried, Trying, VirginKept, CallsKept, WaitsKept, ManagerIs, LinkIs, CallIs
  <2>4. (mgr.provisional => (mgr.timer => ops["try"].at = "none" /\ ~Trying))'
    BY <2>1 DEF OneTry, Untried, Trying, VirginKept, CallsKept, WaitsKept, ManagerIs, LinkIs, CallIs
  <2>5. (mgr.provisional => (ops["try"].at # "none" => ~Trying))'
    BY <2>1 DEF OneTry, Untried, Trying, VirginKept, CallsKept, WaitsKept, ManagerIs, LinkIs, CallIs
  <2>6. (mgr.provisional => ("try" \in conn.waits => "try" \notin conn.again))'
    BY <2>1 DEF OneTry, WaitsKept, VirginKept, ManagerIs, LinkIs, CallIs
  <2> QED BY <2>2, <2>3, <2>4, <2>5, <2>6 DEF OneTry
<1>29. ASSUME NEW o \in Calls, NEW ok \in BOOLEAN, ReadProfile(o, ok) PROVE ProvisionalKept'
  <2>1. /\ o \in {"remove", "rollback"} /\ ops[o].at = "reading"
        /\ \/ profile.st = "tomb" /\ CallIs(o, "deleting", profile.refs, profile.refs)
           \/ profile.st \notin {"none", "tomb"} /\ CallIs(o, "marking", profile.refs, ops[o].todo)
           \/ (o = "rollback" => profile.st # "none") /\ CallIs(o, "none", {}, {})
           \/ o = "rollback" /\ \E at \in {"fallback", "discarding"} : CallIs(o, at, ops[o].refs, ops[o].todo)
        /\ SameManager
        /\ SamePast
        /\ UNCHANGED <<profile, secrets, conn>>
    BY <1>29, ReadProfileDoes
  <2>2. (mgr.provisional => ~conn.session)'
    BY <2>1 DEF WaitsKept, VirginKept, DisposalKept, CallIs, SameManager, ManagerIs
  <2>3. (mgr.provisional => ("add" \in conn.waits => Untried))'
    BY <2>1 DEF OneTry, Untried, Trying, VirginKept, CallsKept, WaitsKept, CallIs, SameManager, ManagerIs
  <2>4. (mgr.provisional => (mgr.timer => ops["try"].at = "none" /\ ~Trying))'
    BY <2>1 DEF OneTry, Untried, Trying, VirginKept, CallsKept, WaitsKept, CallIs, SameManager, ManagerIs
  <2>5. (mgr.provisional => (ops["try"].at # "none" => ~Trying))'
    BY <2>1 DEF OneTry, Untried, Trying, VirginKept, CallsKept, WaitsKept, CallIs, SameManager, ManagerIs
  <2>6. (mgr.provisional => ("try" \in conn.waits => "try" \notin conn.again))'
    BY <2>1 DEF OneTry, WaitsKept, VirginKept, CallIs, SameManager, ManagerIs
  <2> QED BY <2>2, <2>3, <2>4, <2>5, <2>6 DEF OneTry
<1>30. ASSUME NEW o \in Calls, NEW how \in Outcomes, MarkCleanupPending(o, how) PROVE ProvisionalKept'
  BY <1>30, MarkCleanupPendingDoes DEF OneTry, Untried, Trying, WaitsKept, CallsKept, VirginKept, CallIs,
     SamePast, PastIs, Ended, SameManager, ManagerIs
<1>31. ASSUME NEW o \in Calls, NEW how \in Outcomes, DeleteSecret(o, how) PROVE ProvisionalKept'
  BY <1>31, DeleteSecretDoes DEF OneTry, Untried, Trying, WaitsKept, CallsKept, VirginKept, CallIs, SamePast,
     PastIs
<1>32. ASSUME NEW o \in Calls, NEW how \in Outcomes, DropReference(o, how) PROVE ProvisionalKept'
  <2>1. /\ ops[o].at = "dropping"
        /\ \/ UNCHANGED profile
           \/ /\ profile.st = "tomb" /\ profile.refs = ops[o].refs /\ profile' = Tomb(ops[o].refs \ {FirstOf(ops[o].todo)})
              /\ profile'.st = "tomb" /\ profile'.refs = ops[o].refs \ {FirstOf(ops[o].todo)}
        /\ \/ CallIs(o, "deleting", ops[o].refs, {})
           \/ CallIs(o, "deleting", ops[o].refs \ {FirstOf(ops[o].todo)}, ops[o].todo \ {FirstOf(ops[o].todo)})
        /\ SamePast
        /\ UNCHANGED <<secrets, mgr, conn>>
    BY <1>32, DropReferenceDoes
  <2>2. (mgr.provisional => ~conn.session)'
    BY <2>1 DEF WaitsKept, VirginKept, DisposalKept, CallIs
  <2>3. (mgr.provisional => ("add" \in conn.waits => Untried))'
    BY <2>1 DEF OneTry, Untried, Trying, VirginKept, CallsKept, WaitsKept, CallIs
  <2>4. (mgr.provisional => (mgr.timer => ops["try"].at = "none" /\ ~Trying))'
    BY <2>1 DEF OneTry, Untried, Trying, VirginKept, CallsKept, WaitsKept, CallIs
  <2>5. (mgr.provisional => (ops["try"].at # "none" => ~Trying))'
    BY <2>1 DEF OneTry, Untried, Trying, VirginKept, CallsKept, WaitsKept, CallIs
  <2>6. (mgr.provisional => ("try" \in conn.waits => "try" \notin conn.again))'
    BY <2>1 DEF OneTry, WaitsKept, VirginKept, CallIs
  <2> QED BY <2>2, <2>3, <2>4, <2>5, <2>6 DEF OneTry
<1>33. ASSUME NEW o \in Calls, NEW how \in Outcomes, DeleteProfile(o, how) PROVE ProvisionalKept'
  <2>1. /\ ops[o].at = "deleting" /\ ops[o].todo = {}
        /\ \/ /\ ops[o].refs = {} /\ profile.st = "tomb" /\ profile.refs = {} /\ profile' = NoProfile
              /\ PastIs(past', TRUE, past.late, past.leaked)
           \/ UNCHANGED profile /\ SamePast
        /\ Ended(o) /\ SameManager
        /\ UNCHANGED <<secrets, conn>>
    BY <1>33, DeleteProfileDoes
  <2>2. (mgr.provisional => ~conn.session)'
    BY <2>1 DEF WaitsKept, VirginKept, DisposalKept, Ended, CallIs, SameManager, ManagerIs
  <2>3. (mgr.provisional => ("add" \in conn.waits => Untried))'
    BY <2>1 DEF OneTry, Untried, Trying, VirginKept, CallsKept, WaitsKept, Ended, CallIs, SameManager, ManagerIs
  <2>4. (mgr.provisional => (mgr.timer => ops["try"].at = "none" /\ ~Trying))'
    BY <2>1 DEF OneTry, Untried, Trying, VirginKept, CallsKept, WaitsKept, Ended, CallIs, SameManager, ManagerIs
  <2>5. (mgr.provisional => (ops["try"].at # "none" => ~Trying))'
    BY <2>1 DEF OneTry, Untried, Trying, VirginKept, CallsKept, WaitsKept, Ended, CallIs, SameManager, ManagerIs
  <2>6. (mgr.provisional => ("try" \in conn.waits => "try" \notin conn.again))'
    BY <2>1 DEF OneTry, WaitsKept, VirginKept, Ended, CallIs, SameManager, ManagerIs
  <2> QED BY <2>2, <2>3, <2>4, <2>5, <2>6 DEF OneTry
<1>34. ASSUME NEW ok \in BOOLEAN, CleanupAtEnd(ok) PROVE ProvisionalKept'
  BY <1>34, CleanupAtEndDoes DEF OneTry, Untried, Trying, WaitsKept, CallsKept, VirginKept, ManagerIs, CallIs,
     SamePast, PastIs
<1>35. ASSUME NEW ok \in BOOLEAN, Restore(ok) PROVE ProvisionalKept'
  BY <1>35, RestoreDoes DEF OneTry, Untried, Trying, WaitsKept, CallsKept, VirginKept, ManagerIs, LinkIs, PastIs
<1> QED BY <1>1, <1>2, <1>3, <1>4, <1>5, <1>6, <1>7, <1>8, <1>9, <1>10, <1>11, <1>12, <1>13, <1>14, <1>15,
   <1>16, <1>17, <1>18, <1>19, <1>20, <1>21, <1>22, <1>23, <1>24, <1>25, <1>26, <1>27, <1>28, <1>29, <1>30,
   <1>31, <1>32, <1>33, <1>34, <1>35 DEF LinksNext

\* CallsKept is kept by every step.
LEMMA CallsKeptStep ==
  ASSUME LinksTyped, LinksKept, LinksNext
  PROVE  CallsKept'
<1>0. StagesKept /\ VirginKept /\ WaitsKept /\ ProvisionalKept /\ CallsKept /\ DisposalKept
  BY DEF LinksKept
<1> USE <1>0, StateIs, CallsAre DEF CallsKept
<1>1. ASSUME Add PROVE CallsKept'
  BY <1>1, AddDoes DEF StagesKept, Untried, Trying, ProvisionalKept, OneTry, WaitsKept, VirginKept,
     DisposalKept, Cleanup, Last, Inflight, IsProvisional, CallIs
<1>2. ASSUME Connect PROVE CallsKept'
  <2>1. /\ ~mgr.disposed /\ profile.st = "complete" /\ ops["remove"].at = "none" /\ ops["rollback"].at = "none"
           /\ "connect" \notin conn.waits \cup conn.again /\ (mgr.managed \/ conn.at = "none")
        /\ mgr.managed => ManagerIs(mgr', TRUE, TRUE, mgr.provisional, FALSE, mgr.disposed, mgr.complete)
        /\ ~mgr.managed => ManagerIs(mgr', TRUE, TRUE, FALSE, FALSE, mgr.disposed, mgr.complete)
        /\ mgr.managed => Joined(conn', conn, "connect")
        /\ ~mgr.managed => LinkIs(conn', "opening", FALSE, FALSE, FALSE, {"connect"}, {})
        /\ SamePast
        /\ UNCHANGED <<profile, secrets, ops>>
    BY <1>2, ConnectDoes
  <2>2. mgr.managed =>
        /\ ("add" \in conn'.waits => "add" \in conn.waits) /\ ("add" \in conn'.again <=> "add" \in conn.again)
        /\ ("try" \in conn'.waits => "try" \in conn.waits) /\ ("try" \in conn'.again <=> "try" \in conn.again)
        /\ (conn'.closing <=> conn.closing) /\ (conn'.session <=> conn.session)
        /\ conn.at # "none" => conn'.at = conn.at
        /\ conn.at = "none" => conn'.at \in {"none", "opening"}
    BY <2>1, JoinedAre
  <2>3. (ops["rollback"].at # "none" => Untried)'
    BY <2>1, <2>2, JoinedAre DEF Untried, Trying, ProvisionalKept, OneTry, WaitsKept, VirginKept, ManagerIs,
       LinkIs
  <2>4. (ops["rollback"].at # "none" => ops["add"].at = "none")'
    BY <2>1, <2>2, JoinedAre DEF VirginKept, WaitsKept, StagesKept, ManagerIs, LinkIs
  <2>5. (ops["rollback"].at # "none" => ops["restore"].at = "none")'
    BY <2>1, <2>2, JoinedAre DEF VirginKept, WaitsKept, StagesKept, ManagerIs, LinkIs
  <2>6. (ops["rollback"].at # "none" => ~(mgr.managed /\ mgr.enabled))'
    BY <2>1, <2>2, JoinedAre DEF VirginKept, WaitsKept, ManagerIs, LinkIs
  <2>7. (ops["restore"].at # "none" => ops["add"].at = "none")'
    BY <2>1, <2>2, JoinedAre DEF ManagerIs, LinkIs
  <2>8. (ops["restore"].at # "none" => ops["remove"].at = "none")'
    BY <2>1, <2>2, JoinedAre DEF ManagerIs, LinkIs
  <2>9. (ops["restore"].at # "none" => ~mgr.provisional)'
    BY <2>1, <2>2, JoinedAre DEF VirginKept, ManagerIs, LinkIs
  <2>10. (ops["restore"].at # "none" => (~mgr.managed => Untried /\ conn.at = "none" /\ conn.again = {}))'
    BY <2>1, <2>2, JoinedAre DEF Untried, Trying, DisposalKept, Inflight, Last, Cleanup, WaitsKept, ManagerIs,
       LinkIs
  <2>11. (ops["remove"].at \notin {"none", "closing"} => ~mgr.managed)'
    BY <2>1, <2>2, JoinedAre DEF VirginKept, StagesKept, ManagerIs, LinkIs
  <2>12. (ops["remove"].at # "none" /\ ~conn.closing => "add" \notin conn.waits)'
    BY <2>1, <2>2, JoinedAre DEF WaitsKept, VirginKept, ManagerIs, LinkIs
  <2> QED BY <2>3, <2>4, <2>5, <2>6, <2>7, <2>8, <2>9, <2>10, <2>11, <2>12
<1>3. ASSUME Disconnect PROVE CallsKept'
  <2>1. (ops["rollback"].at # "none" => Untried)'
    BY <1>3, DisconnectDoes DEF Untried, Trying, ProvisionalKept, OneTry, WaitsKept, VirginKept, Closed,
       LinkIs, Stopped, ManagerIs
  <2>2. (ops["rollback"].at # "none" => ops["add"].at = "none")'
    BY <1>3, DisconnectDoes DEF VirginKept, WaitsKept, StagesKept, Closed, LinkIs, Stopped, ManagerIs
  <2>3. (ops["rollback"].at # "none" => ops["restore"].at = "none")'
    BY <1>3, DisconnectDoes DEF VirginKept, WaitsKept, StagesKept, Closed, LinkIs, Stopped, ManagerIs
  <2>4. (ops["rollback"].at # "none" => ~(mgr.managed /\ mgr.enabled))'
    BY <1>3, DisconnectDoes DEF VirginKept, WaitsKept, Closed, LinkIs, Stopped, ManagerIs
  <2>5. (ops["restore"].at # "none" => ops["add"].at = "none")'
    BY <1>3, DisconnectDoes DEF Closed, LinkIs, Stopped, ManagerIs
  <2>6. (ops["restore"].at # "none" => ops["remove"].at = "none")'
    BY <1>3, DisconnectDoes DEF Closed, LinkIs, Stopped, ManagerIs
  <2>7. (ops["restore"].at # "none" => ~mgr.provisional)'
    BY <1>3, DisconnectDoes DEF VirginKept, Closed, LinkIs, Stopped, ManagerIs
  <2>8. (ops["restore"].at # "none" => (~mgr.managed => Untried /\ conn.at = "none" /\ conn.again = {}))'
    BY <1>3, DisconnectDoes DEF Untried, Trying, DisposalKept, Inflight, Last, Cleanup, WaitsKept, Closed,
       LinkIs, Stopped, ManagerIs
  <2>9. (ops["remove"].at \notin {"none", "closing"} => ~mgr.managed)'
    BY <1>3, DisconnectDoes DEF VirginKept, StagesKept, Closed, LinkIs, Stopped, ManagerIs
  <2>10. (ops["remove"].at # "none" /\ ~conn.closing => "add" \notin conn.waits)'
    BY <1>3, DisconnectDoes DEF WaitsKept, VirginKept, Closed, LinkIs, Stopped, ManagerIs
  <2> QED BY <2>1, <2>2, <2>3, <2>4, <2>5, <2>6, <2>7, <2>8, <2>9, <2>10
<1>4. ASSUME RemovePeer PROVE CallsKept'
  <2>1. /\ ops["remove"].at = "none" /\ profile.st # "none" /\ ops["restore"].at = "none"
           /\ "connect" \notin conn.waits \cup conn.again
        /\ mgr.managed =>
             /\ Stopped(mgr', mgr)
             /\ Closed(conn', conn)
             /\ CallIs("remove", "closing", ops["remove"].refs, ops["remove"].todo)
        /\ ~mgr.managed =>
             /\ UNCHANGED <<mgr, conn>>
             /\ CallIs("remove", "reading", ops["remove"].refs, ops["remove"].todo)
        /\ UNCHANGED <<profile, secrets, past>>
    BY <1>4, RemovePeerDoes
  <2>2. (ops["rollback"].at # "none" => Untried)'
    BY <2>1 DEF Untried, Trying, ProvisionalKept, OneTry, WaitsKept, VirginKept, CallIs, Closed, LinkIs,
       Stopped, ManagerIs
  <2>3. (ops["rollback"].at # "none" => ops["add"].at = "none")'
    BY <2>1 DEF VirginKept, WaitsKept, StagesKept, CallIs, Closed, LinkIs, Stopped, ManagerIs
  <2>4. (ops["rollback"].at # "none" => ops["restore"].at = "none")'
    BY <2>1 DEF VirginKept, WaitsKept, StagesKept, CallIs, Closed, LinkIs, Stopped, ManagerIs
  <2>5. (ops["rollback"].at # "none" => ~(mgr.managed /\ mgr.enabled))'
    BY <2>1 DEF VirginKept, WaitsKept, CallIs, Closed, LinkIs, Stopped, ManagerIs
  <2>6. (ops["restore"].at # "none" => ops["add"].at = "none")'
    BY <2>1 DEF CallIs, Closed, LinkIs, Stopped, ManagerIs
  <2>7. (ops["restore"].at # "none" => ops["remove"].at = "none")'
    BY <2>1 DEF CallIs, Closed, LinkIs, Stopped, ManagerIs
  <2>8. (ops["restore"].at # "none" => ~mgr.provisional)'
    BY <2>1 DEF VirginKept, CallIs, Closed, LinkIs, Stopped, ManagerIs
  <2>9. (ops["restore"].at # "none" => (~mgr.managed => Untried /\ conn.at = "none" /\ conn.again = {}))'
    BY <2>1 DEF Untried, Trying, DisposalKept, Inflight, Last, Cleanup, WaitsKept, CallIs, Closed, LinkIs,
       Stopped, ManagerIs
  <2>10. (ops["remove"].at \notin {"none", "closing"} => ~mgr.managed)'
    BY <2>1 DEF VirginKept, StagesKept, CallIs, Closed, LinkIs, Stopped, ManagerIs
  <2>11. (ops["remove"].at # "none" /\ ~conn.closing => "add" \notin conn.waits)'
    BY <2>1 DEF WaitsKept, VirginKept, CallIs, Closed, LinkIs, Stopped, ManagerIs
  <2> QED BY <2>2, <2>3, <2>4, <2>5, <2>6, <2>7, <2>8, <2>9, <2>10, <2>11
<1>5. ASSUME ReconnectTimer PROVE CallsKept'
  BY <1>5, ReconnectTimerDoes DEF StagesKept, Untried, Trying, ProvisionalKept, OneTry, WaitsKept, VirginKept,
     DisposalKept, Cleanup, Last, Inflight, IsProvisional, ManagerIs, CallIs
<1>6. ASSUME TryConnect PROVE CallsKept'
  <2>1. /\ ops["try"].at = "owner"
        /\ CallIs("try", "none", {}, {})
        /\ \/ UNCHANGED mgr /\ Joined(conn', conn, "try") /\ PastIs(past', past.removed, past.late \/ Leaving, past.leaked)
           \/ /\ ManagerIs(mgr', mgr.managed, mgr.enabled, mgr.provisional, mgr.timer, mgr.disposed, mgr.complete)
              /\ UNCHANGED <<conn, past>>
        /\ UNCHANGED <<profile, secrets>>
    BY <1>6, TryConnectDoes
  <2>2. UNCHANGED conn \/
        /\ ("add" \in conn'.waits => "add" \in conn.waits) /\ ("add" \in conn'.again <=> "add" \in conn.again)
        /\ ("connect" \in conn'.waits =>
             /\ "connect" \in conn.waits)
             /\ ("connect" \in conn'.again <=> "connect" \in conn.again)
        /\ (conn'.closing <=> conn.closing) /\ (conn'.session <=> conn.session)
        /\ conn.at # "none" => conn'.at = conn.at
        /\ conn.at = "none" => conn'.at \in {"none", "opening"}
        /\ "try" \notin conn.waits \cup conn.again => "try" \notin conn'.waits \/ "try" \notin conn'.again
    BY <2>1, JoinedAre
  <2>3. (ops["rollback"].at # "none" => Untried)'
    BY <2>1, <2>2, JoinedAre DEF Untried, Trying, ProvisionalKept, OneTry, WaitsKept, VirginKept, ManagerIs,
       CallIs, LinkIs, Leaving
  <2>4. (ops["rollback"].at # "none" => ops["add"].at = "none")'
    BY <2>1, <2>2, JoinedAre DEF VirginKept, WaitsKept, StagesKept, ManagerIs, CallIs, LinkIs, Leaving
  <2>5. (ops["rollback"].at # "none" => ops["restore"].at = "none")'
    BY <2>1, <2>2, JoinedAre DEF VirginKept, WaitsKept, StagesKept, ManagerIs, CallIs, LinkIs, Leaving
  <2>6. (ops["rollback"].at # "none" => ~(mgr.managed /\ mgr.enabled))'
    BY <2>1, <2>2, JoinedAre DEF VirginKept, WaitsKept, ManagerIs, CallIs, LinkIs, Leaving
  <2>7. (ops["restore"].at # "none" => ops["add"].at = "none")'
    BY <2>1, <2>2, JoinedAre DEF ManagerIs, CallIs, LinkIs, Leaving
  <2>8. (ops["restore"].at # "none" => ops["remove"].at = "none")'
    BY <2>1, <2>2, JoinedAre DEF ManagerIs, CallIs, LinkIs, Leaving
  <2>9. (ops["restore"].at # "none" => ~mgr.provisional)'
    BY <2>1, <2>2, JoinedAre DEF VirginKept, ManagerIs, CallIs, LinkIs, Leaving
  <2>10. (ops["restore"].at # "none" => (~mgr.managed => Untried /\ conn.at = "none" /\ conn.again = {}))'
    BY <2>1, <2>2, JoinedAre DEF Untried, Trying, DisposalKept, Inflight, Last, Cleanup, WaitsKept, ManagerIs,
       CallIs, LinkIs, Leaving
  <2>11. (ops["remove"].at \notin {"none", "closing"} => ~mgr.managed)'
    BY <2>1, <2>2, JoinedAre DEF VirginKept, StagesKept, ManagerIs, CallIs, LinkIs, Leaving
  <2>12. (ops["remove"].at # "none" /\ ~conn.closing => "add" \notin conn.waits)'
    BY <2>1, <2>2, JoinedAre DEF WaitsKept, VirginKept, ManagerIs, CallIs, LinkIs, Leaving
  <2> QED BY <2>3, <2>4, <2>5, <2>6, <2>7, <2>8, <2>9, <2>10, <2>11, <2>12
<1>7. ASSUME LoseOwnership PROVE CallsKept'
  BY <1>7, LoseOwnershipDoes DEF StagesKept, Untried, Trying, ProvisionalKept, OneTry, WaitsKept, VirginKept,
     DisposalKept, Cleanup, Last, Inflight, IsProvisional, SameManager, ManagerIs
<1>8. ASSUME Open PROVE CallsKept'
  BY <1>8, OpenDoes DEF StagesKept, Untried, Trying, ProvisionalKept, OneTry, WaitsKept, VirginKept,
     DisposalKept, Cleanup, Last, Inflight, IsProvisional, AttemptAt, LinkIs
<1>9. ASSUME StoreCredentials PROVE CallsKept'
  BY <1>9, StoreCredentialsDoes DEF StagesKept, Untried, Trying, ProvisionalKept, OneTry, WaitsKept,
     VirginKept, DisposalKept, Cleanup, Last, Inflight, IsProvisional, PastIs, AttemptAt, LinkIs
<1>10. ASSUME StoreCredentialsFails PROVE CallsKept'
  BY <1>10, StoreCredentialsFailsDoes DEF StagesKept, Untried, Trying, ProvisionalKept, OneTry, WaitsKept,
     VirginKept, DisposalKept, Cleanup, Last, Inflight, IsProvisional, GivenUp, PastIs, AttemptAt, LinkIs
<1>11. ASSUME PeerReplied PROVE CallsKept'
  BY <1>11, PeerRepliedDoes DEF StagesKept, Untried, Trying, ProvisionalKept, OneTry, WaitsKept, VirginKept,
     DisposalKept, Cleanup, Last, Inflight, IsProvisional, AttemptAt, LinkIs
<1>12. ASSUME DropEnrollmentKeys PROVE CallsKept'
  BY <1>12, DropEnrollmentKeysDoes DEF StagesKept, Untried, Trying, ProvisionalKept, OneTry, WaitsKept,
     VirginKept, DisposalKept, Cleanup, Last, Inflight, IsProvisional, SamePast, PastIs, AttemptAt, LinkIs
<1>13. ASSUME Established PROVE CallsKept'
  <2>1. PICK s \in {"offline", "online", "authFailed", "incompatible", "rePairRequired"}, ok \in BOOLEAN :
          /\ Settles(s, ok)
          /\ conn.aborted => ok /\ s = "offline"
          /\ s = "online" => ok
          /\ ok => conn.aborted \/ s = "online"
    BY <1>13, EstablishedDoes
  <2>2. conn.at = "authenticated" /\ UNCHANGED <<profile, secrets, past>>
    BY <1>13, EstablishedDoes
  <2>3. (ops["rollback"].at # "none" => Untried)'
    BY <2>1, <2>2 DEF Untried, Trying, ProvisionalKept, OneTry, WaitsKept, VirginKept, Settles, LinkIs,
       Stopped, ManagerIs, Timed, RollsBack, Refused, Closes
  <2>4. (ops["rollback"].at # "none" => ops["add"].at = "none")'
    BY <2>1, <2>2 DEF VirginKept, WaitsKept, StagesKept, Settles, LinkIs, Stopped, ManagerIs, Timed, RollsBack,
       Refused, Closes
  <2>5. (ops["rollback"].at # "none" => ops["restore"].at = "none")'
    BY <2>1, <2>2 DEF VirginKept, WaitsKept, StagesKept, Settles, LinkIs, Stopped, ManagerIs, Timed, RollsBack,
       Refused, Closes
  <2>6. (ops["rollback"].at # "none" => ~(mgr.managed /\ mgr.enabled))'
    BY <2>1, <2>2 DEF VirginKept, WaitsKept, Settles, LinkIs, Stopped, ManagerIs, Timed, RollsBack, Refused,
       Closes
  <2>7. (ops["restore"].at # "none" => ops["add"].at = "none")'
    BY <2>1, <2>2 DEF Settles, LinkIs, Stopped, ManagerIs, Timed, RollsBack, Refused, Closes
  <2>8. (ops["restore"].at # "none" => ops["remove"].at = "none")'
    BY <2>1, <2>2 DEF Settles, LinkIs, Stopped, ManagerIs, Timed, RollsBack, Refused, Closes
  <2>9. (ops["restore"].at # "none" => ~mgr.provisional)'
    BY <2>1, <2>2 DEF VirginKept, Settles, LinkIs, Stopped, ManagerIs, Timed, RollsBack, Refused, Closes
  <2>10. (ops["restore"].at # "none" => (~mgr.managed => Untried /\ conn.at = "none" /\ conn.again = {}))'
    BY <2>1, <2>2 DEF Untried, Trying, DisposalKept, Inflight, Last, Cleanup, WaitsKept, Settles, LinkIs,
       Stopped, ManagerIs, Timed, RollsBack, Refused, Closes
  <2>11. (ops["remove"].at \notin {"none", "closing"} => ~mgr.managed)'
    BY <2>1, <2>2 DEF VirginKept, StagesKept, Settles, LinkIs, Stopped, ManagerIs, Timed, RollsBack, Refused,
       Closes
  <2>12. (ops["remove"].at # "none" /\ ~conn.closing => "add" \notin conn.waits)'
    BY <2>1, <2>2 DEF WaitsKept, VirginKept, Settles, LinkIs, Stopped, ManagerIs, Timed, RollsBack, Refused,
       Closes
  <2> QED BY <2>3, <2>4, <2>5, <2>6, <2>7, <2>8, <2>9, <2>10, <2>11, <2>12
<1>14. ASSUME SessionCloses PROVE CallsKept'
  <2>1. (ops["rollback"].at # "none" => Untried)'
    BY <1>14, SessionClosesDoes DEF Untried, Trying, ProvisionalKept, OneTry, WaitsKept, VirginKept, LinkIs,
       Timed, ManagerIs
  <2>2. (ops["rollback"].at # "none" => ops["add"].at = "none")'
    BY <1>14, SessionClosesDoes DEF VirginKept, WaitsKept, StagesKept, LinkIs, Timed, ManagerIs
  <2>3. (ops["rollback"].at # "none" => ops["restore"].at = "none")'
    BY <1>14, SessionClosesDoes DEF VirginKept, WaitsKept, StagesKept, LinkIs, Timed, ManagerIs
  <2>4. (ops["rollback"].at # "none" => ~(mgr.managed /\ mgr.enabled))'
    BY <1>14, SessionClosesDoes DEF VirginKept, WaitsKept, LinkIs, Timed, ManagerIs
  <2>5. (ops["restore"].at # "none" => ops["add"].at = "none")'
    BY <1>14, SessionClosesDoes DEF LinkIs, Timed, ManagerIs
  <2>6. (ops["restore"].at # "none" => ops["remove"].at = "none")'
    BY <1>14, SessionClosesDoes DEF LinkIs, Timed, ManagerIs
  <2>7. (ops["restore"].at # "none" => ~mgr.provisional)'
    BY <1>14, SessionClosesDoes DEF VirginKept, LinkIs, Timed, ManagerIs
  <2>8. (ops["restore"].at # "none" => (~mgr.managed => Untried /\ conn.at = "none" /\ conn.again = {}))'
    BY <1>14, SessionClosesDoes DEF Untried, Trying, DisposalKept, Inflight, Last, Cleanup, WaitsKept, LinkIs,
       Timed, ManagerIs
  <2>9. (ops["remove"].at \notin {"none", "closing"} => ~mgr.managed)'
    BY <1>14, SessionClosesDoes DEF VirginKept, StagesKept, LinkIs, Timed, ManagerIs
  <2>10. (ops["remove"].at # "none" /\ ~conn.closing => "add" \notin conn.waits)'
    BY <1>14, SessionClosesDoes DEF WaitsKept, VirginKept, LinkIs, Timed, ManagerIs
  <2> QED BY <2>1, <2>2, <2>3, <2>4, <2>5, <2>6, <2>7, <2>8, <2>9, <2>10
<1>15. ASSUME Disconnected PROVE CallsKept'
  <2>1. (ops["rollback"].at # "none" => Untried)'
    BY <1>15, DisconnectedDoes DEF Untried, Trying, ProvisionalKept, OneTry, WaitsKept, VirginKept, LinkIs,
       Leaving
  <2>2. (ops["rollback"].at # "none" => ops["add"].at = "none")'
    BY <1>15, DisconnectedDoes DEF VirginKept, WaitsKept, StagesKept, LinkIs, Leaving
  <2>3. (ops["rollback"].at # "none" => ops["restore"].at = "none")'
    BY <1>15, DisconnectedDoes DEF VirginKept, WaitsKept, StagesKept, LinkIs, Leaving
  <2>4. (ops["rollback"].at # "none" => ~(mgr.managed /\ mgr.enabled))'
    BY <1>15, DisconnectedDoes DEF VirginKept, WaitsKept, LinkIs, Leaving
  <2>5. (ops["restore"].at # "none" => ops["add"].at = "none")'
    BY <1>15, DisconnectedDoes DEF LinkIs, Leaving
  <2>6. (ops["restore"].at # "none" => ops["remove"].at = "none")'
    BY <1>15, DisconnectedDoes DEF LinkIs, Leaving
  <2>7. (ops["restore"].at # "none" => ~mgr.provisional)'
    BY <1>15, DisconnectedDoes DEF VirginKept, LinkIs, Leaving
  <2>8. (ops["restore"].at # "none" => (~mgr.managed => Untried /\ conn.at = "none" /\ conn.again = {}))'
    BY <1>15, DisconnectedDoes DEF Untried, Trying, DisposalKept, Inflight, Last, Cleanup, WaitsKept, LinkIs,
       Leaving
  <2>9. (ops["remove"].at \notin {"none", "closing"} => ~mgr.managed)'
    BY <1>15, DisconnectedDoes DEF VirginKept, StagesKept, LinkIs, Leaving
  <2>10. (ops["remove"].at # "none" /\ ~conn.closing => "add" \notin conn.waits)'
    BY <1>15, DisconnectedDoes DEF WaitsKept, VirginKept, LinkIs, Leaving
  <2> QED BY <2>1, <2>2, <2>3, <2>4, <2>5, <2>6, <2>7, <2>8, <2>9, <2>10
<1>16. ASSUME Dispose PROVE CallsKept'
  <2>1. /\ ops["dispose"].at = "none" /\ ~mgr.complete
        /\ ManagerIs(mgr', mgr.managed, FALSE, mgr.provisional, FALSE, TRUE, mgr.complete)
        /\ mgr.managed => Closed(conn', conn)
        /\ ~mgr.managed => UNCHANGED conn
        /\ CallIs("dispose", "first", ops["dispose"].refs, ops["dispose"].todo)
        /\ UNCHANGED <<profile, secrets, past>>
    BY <1>16, DisposeDoes
  <2>2. (ops["rollback"].at # "none" => Untried)'
    BY <2>1 DEF Untried, Trying, ProvisionalKept, OneTry, WaitsKept, VirginKept, ManagerIs, CallIs, Closed,
       LinkIs
  <2>3. (ops["rollback"].at # "none" => ops["add"].at = "none")'
    BY <2>1 DEF VirginKept, WaitsKept, StagesKept, ManagerIs, CallIs, Closed, LinkIs
  <2>4. (ops["rollback"].at # "none" => ops["restore"].at = "none")'
    BY <2>1 DEF VirginKept, WaitsKept, StagesKept, ManagerIs, CallIs, Closed, LinkIs
  <2>5. (ops["rollback"].at # "none" => ~(mgr.managed /\ mgr.enabled))'
    BY <2>1 DEF VirginKept, WaitsKept, ManagerIs, CallIs, Closed, LinkIs
  <2>6. (ops["restore"].at # "none" => ops["add"].at = "none")'
    BY <2>1 DEF ManagerIs, CallIs, Closed, LinkIs
  <2>7. (ops["restore"].at # "none" => ops["remove"].at = "none")'
    BY <2>1 DEF ManagerIs, CallIs, Closed, LinkIs
  <2>8. (ops["restore"].at # "none" => ~mgr.provisional)'
    BY <2>1 DEF VirginKept, ManagerIs, CallIs, Closed, LinkIs
  <2>9. (ops["restore"].at # "none" => (~mgr.managed => Untried /\ conn.at = "none" /\ conn.again = {}))'
    BY <2>1 DEF Untried, Trying, DisposalKept, Inflight, Last, Cleanup, WaitsKept, ManagerIs, CallIs, Closed,
       LinkIs
  <2>10. (ops["remove"].at \notin {"none", "closing"} => ~mgr.managed)'
    BY <2>1 DEF VirginKept, StagesKept, ManagerIs, CallIs, Closed, LinkIs
  <2>11. (ops["remove"].at # "none" /\ ~conn.closing => "add" \notin conn.waits)'
    BY <2>1 DEF WaitsKept, VirginKept, ManagerIs, CallIs, Closed, LinkIs
  <2> QED BY <2>2, <2>3, <2>4, <2>5, <2>6, <2>7, <2>8, <2>9, <2>10, <2>11
<1>17. ASSUME Drained PROVE CallsKept'
  <2>1. /\ ops["dispose"].at = "first" /\ ~conn.closing /\ ~Inflight
        /\ Stopped(mgr', mgr)
        /\ mgr.managed => Closed(conn', conn)
        /\ ~mgr.managed => UNCHANGED conn
        /\ CallIs("dispose", "second", ops["dispose"].refs, ops["dispose"].todo)
        /\ UNCHANGED <<profile, secrets, past>>
    BY <1>17, DrainedDoes
  <2>2. (ops["rollback"].at # "none" => Untried)'
    BY <2>1 DEF Untried, Trying, ProvisionalKept, OneTry, WaitsKept, VirginKept, CallIs, Closed, LinkIs,
       Stopped, ManagerIs
  <2>3. (ops["rollback"].at # "none" => ops["add"].at = "none")'
    BY <2>1 DEF VirginKept, WaitsKept, StagesKept, CallIs, Closed, LinkIs, Stopped, ManagerIs
  <2>4. (ops["rollback"].at # "none" => ops["restore"].at = "none")'
    BY <2>1 DEF VirginKept, WaitsKept, StagesKept, CallIs, Closed, LinkIs, Stopped, ManagerIs
  <2>5. (ops["rollback"].at # "none" => ~(mgr.managed /\ mgr.enabled))'
    BY <2>1 DEF VirginKept, WaitsKept, CallIs, Closed, LinkIs, Stopped, ManagerIs
  <2>6. (ops["restore"].at # "none" => ops["add"].at = "none")'
    BY <2>1 DEF CallIs, Closed, LinkIs, Stopped, ManagerIs
  <2>7. (ops["restore"].at # "none" => ops["remove"].at = "none")'
    BY <2>1 DEF CallIs, Closed, LinkIs, Stopped, ManagerIs
  <2>8. (ops["restore"].at # "none" => ~mgr.provisional)'
    BY <2>1 DEF VirginKept, CallIs, Closed, LinkIs, Stopped, ManagerIs
  <2>9. (ops["restore"].at # "none" => (~mgr.managed => Untried /\ conn.at = "none" /\ conn.again = {}))'
    BY <2>1 DEF Untried, Trying, DisposalKept, Inflight, Last, Cleanup, WaitsKept, CallIs, Closed, LinkIs,
       Stopped, ManagerIs
  <2>10. (ops["remove"].at \notin {"none", "closing"} => ~mgr.managed)'
    BY <2>1 DEF VirginKept, StagesKept, CallIs, Closed, LinkIs, Stopped, ManagerIs
  <2>11. (ops["remove"].at # "none" /\ ~conn.closing => "add" \notin conn.waits)'
    BY <2>1 DEF WaitsKept, VirginKept, CallIs, Closed, LinkIs, Stopped, ManagerIs
  <2> QED BY <2>2, <2>3, <2>4, <2>5, <2>6, <2>7, <2>8, <2>9, <2>10, <2>11
<1>18. ASSUME Disposed PROVE CallsKept'
  BY <1>18, DisposedDoes DEF StagesKept, Untried, Trying, ProvisionalKept, OneTry, WaitsKept, VirginKept,
     DisposalKept, Cleanup, Last, Inflight, IsProvisional, ManagerIs, CallIs
<1>19. ASSUME Restored PROVE CallsKept'
  <2>1. (ops["rollback"].at # "none" => Untried)'
    BY <1>19, RestoredDoes DEF Untried, Trying, ProvisionalKept, OneTry, WaitsKept, VirginKept, ManagerIs,
       CallIs, Launched
  <2>2. (ops["rollback"].at # "none" => ops["add"].at = "none")'
    BY <1>19, RestoredDoes DEF VirginKept, WaitsKept, StagesKept, ManagerIs, CallIs, Launched
  <2>3. (ops["rollback"].at # "none" => ops["restore"].at = "none")'
    BY <1>19, RestoredDoes DEF VirginKept, WaitsKept, StagesKept, ManagerIs, CallIs, Launched
  <2>4. (ops["rollback"].at # "none" => ~(mgr.managed /\ mgr.enabled))'
    BY <1>19, RestoredDoes DEF VirginKept, WaitsKept, ManagerIs, CallIs, Launched
  <2>5. (ops["restore"].at # "none" => ops["add"].at = "none")'
    BY <1>19, RestoredDoes DEF ManagerIs, CallIs, Launched
  <2>6. (ops["restore"].at # "none" => ops["remove"].at = "none")'
    BY <1>19, RestoredDoes DEF ManagerIs, CallIs, Launched
  <2>7. (ops["restore"].at # "none" => ~mgr.provisional)'
    BY <1>19, RestoredDoes DEF VirginKept, ManagerIs, CallIs, Launched
  <2>8. (ops["restore"].at # "none" => (~mgr.managed => Untried /\ conn.at = "none" /\ conn.again = {}))'
    BY <1>19, RestoredDoes DEF Untried, Trying, DisposalKept, Inflight, Last, Cleanup, WaitsKept, ManagerIs,
       CallIs, Launched
  <2>9. (ops["remove"].at \notin {"none", "closing"} => ~mgr.managed)'
    BY <1>19, RestoredDoes DEF VirginKept, StagesKept, ManagerIs, CallIs, Launched
  <2>10. (ops["remove"].at # "none" /\ ~conn.closing => "add" \notin conn.waits)'
    BY <1>19, RestoredDoes DEF WaitsKept, VirginKept, ManagerIs, CallIs, Launched
  <2> QED BY <2>1, <2>2, <2>3, <2>4, <2>5, <2>6, <2>7, <2>8, <2>9, <2>10
<1>20. ASSUME NEW how \in Outcomes, StoreInvitation(how) PROVE CallsKept'
  BY <1>20, StoreInvitationDoes DEF StagesKept, Untried, Trying, ProvisionalKept, OneTry, WaitsKept,
     VirginKept, DisposalKept, Cleanup, Last, Inflight, IsProvisional, CallIs, SamePast, PastIs, RolledBack
<1>21. ASSUME NEW how \in Outcomes, StoreProfile(how) PROVE CallsKept'
  <2>1. /\ ops["add"].at = "profile"
        /\ profile' = Invited \/ UNCHANGED profile
        /\ how = "done" /\ ~mgr.disposed =>
             /\ profile' = Invited
             /\ ManagerIs(mgr', TRUE, TRUE, TRUE, mgr.timer, mgr.disposed, mgr.complete)
             /\ LinkIs(conn', "opening", FALSE, FALSE, FALSE, {"add"}, {})
             /\ CallIs("add", "connecting", ops["add"].refs, ops["add"].todo)
        /\ ~(how = "done" /\ ~mgr.disposed) => UNCHANGED <<mgr, conn>> /\ RolledBack
        /\ SamePast
        /\ UNCHANGED secrets
    BY <1>21, StoreProfileDoes
  <2>2. (ops["rollback"].at # "none" => Untried)'
    BY <2>1 DEF Untried, Trying, ProvisionalKept, OneTry, WaitsKept, VirginKept, ManagerIs, LinkIs, CallIs,
       RolledBack
  <2>3. (ops["rollback"].at # "none" => ops["add"].at = "none")'
    BY <2>1 DEF VirginKept, WaitsKept, StagesKept, ManagerIs, LinkIs, CallIs, RolledBack
  <2>4. (ops["rollback"].at # "none" => ops["restore"].at = "none")'
    BY <2>1 DEF VirginKept, WaitsKept, StagesKept, ManagerIs, LinkIs, CallIs, RolledBack
  <2>5. (ops["rollback"].at # "none" => ~(mgr.managed /\ mgr.enabled))'
    BY <2>1 DEF VirginKept, WaitsKept, ManagerIs, LinkIs, CallIs, RolledBack
  <2>6. (ops["restore"].at # "none" => ops["add"].at = "none")'
    BY <2>1 DEF ManagerIs, LinkIs, CallIs, RolledBack
  <2>7. (ops["restore"].at # "none" => ops["remove"].at = "none")'
    BY <2>1 DEF ManagerIs, LinkIs, CallIs, RolledBack
  <2>8. (ops["restore"].at # "none" => ~mgr.provisional)'
    BY <2>1 DEF VirginKept, ManagerIs, LinkIs, CallIs, RolledBack
  <2>9. (ops["restore"].at # "none" => (~mgr.managed => Untried /\ conn.at = "none" /\ conn.again = {}))'
    BY <2>1 DEF Untried, Trying, DisposalKept, Inflight, Last, Cleanup, WaitsKept, ManagerIs, LinkIs, CallIs,
       RolledBack
  <2>10. (ops["remove"].at \notin {"none", "closing"} => ~mgr.managed)'
    BY <2>1 DEF VirginKept, StagesKept, ManagerIs, LinkIs, CallIs, RolledBack
  <2>11. (ops["remove"].at # "none" /\ ~conn.closing => "add" \notin conn.waits)'
    BY <2>1 DEF WaitsKept, VirginKept, ManagerIs, LinkIs, CallIs, RolledBack
  <2> QED BY <2>2, <2>3, <2>4, <2>5, <2>6, <2>7, <2>8, <2>9, <2>10, <2>11
<1>22. ASSUME NEW how \in Outcomes, StoreCandidate(how) PROVE CallsKept'
  BY <1>22, StoreCandidateDoes DEF StagesKept, Untried, Trying, ProvisionalKept, OneTry, WaitsKept, VirginKept,
     DisposalKept, Cleanup, Last, Inflight, IsProvisional, SamePast, PastIs, AttemptAt, LinkIs
<1>23. ASSUME NEW how \in Outcomes, StoreComplete(how) PROVE CallsKept'
  BY <1>23, StoreCompleteDoes DEF StagesKept, Untried, Trying, ProvisionalKept, OneTry, WaitsKept, VirginKept,
     DisposalKept, Cleanup, Last, Inflight, IsProvisional, SamePast, PastIs, AttemptAt, LinkIs
<1>24. ASSUME NEW how \in Outcomes, Discard(how) PROVE CallsKept'
  BY <1>24, DiscardDoes DEF StagesKept, Untried, Trying, ProvisionalKept, OneTry, WaitsKept, VirginKept,
     DisposalKept, Cleanup, Last, Inflight, IsProvisional, CallIs, GivenUp, PastIs, SameManager, ManagerIs
<1>25. ASSUME NEW how \in Outcomes, Fallback(how) PROVE CallsKept'
  BY <1>25, FallbackDoes DEF StagesKept, Untried, Trying, ProvisionalKept, OneTry, WaitsKept, VirginKept,
     DisposalKept, Cleanup, Last, Inflight, IsProvisional, CallIs, PastIs, SameManager, ManagerIs
<1>26. ASSUME NEW landed \in BOOLEAN, NEW left \in SUBSET Enrolled, CandidateFails(landed, left)
       PROVE  CallsKept'
  BY <1>26, CandidateFailsDoes DEF StagesKept, Untried, Trying, ProvisionalKept, OneTry, WaitsKept, VirginKept,
     DisposalKept, Cleanup, Last, Inflight, IsProvisional, GivenUp, PastIs, AttemptAt, LinkIs
<1>27. ASSUME NEW state \in {"offline", "authFailed", "incompatible", "rePairRequired"}, Fail(state)
       PROVE  CallsKept'
  <2>1. PICK s \in {"offline", "online", "authFailed", "incompatible", "rePairRequired"}, ok \in BOOLEAN :
          /\ Settles(s, ok)
          /\ conn.aborted => ok /\ s = "offline"
          /\ s = "online" => ok
          /\ ok => conn.aborted \/ s = "online"
    BY <1>27, FailDoes
  <2>2. conn.at \notin {"none", "recording"} /\ UNCHANGED <<profile, secrets, past>>
    BY <1>27, FailDoes
  <2>3. (ops["rollback"].at # "none" => Untried)'
    BY <2>1, <2>2 DEF Untried, Trying, ProvisionalKept, OneTry, WaitsKept, VirginKept, Settles, LinkIs,
       Stopped, ManagerIs, Timed, RollsBack, Refused, Closes
  <2>4. (ops["rollback"].at # "none" => ops["add"].at = "none")'
    BY <2>1, <2>2 DEF VirginKept, WaitsKept, StagesKept, Settles, LinkIs, Stopped, ManagerIs, Timed, RollsBack,
       Refused, Closes
  <2>5. (ops["rollback"].at # "none" => ops["restore"].at = "none")'
    BY <2>1, <2>2 DEF VirginKept, WaitsKept, StagesKept, Settles, LinkIs, Stopped, ManagerIs, Timed, RollsBack,
       Refused, Closes
  <2>6. (ops["rollback"].at # "none" => ~(mgr.managed /\ mgr.enabled))'
    BY <2>1, <2>2 DEF VirginKept, WaitsKept, Settles, LinkIs, Stopped, ManagerIs, Timed, RollsBack, Refused,
       Closes
  <2>7. (ops["restore"].at # "none" => ops["add"].at = "none")'
    BY <2>1, <2>2 DEF Settles, LinkIs, Stopped, ManagerIs, Timed, RollsBack, Refused, Closes
  <2>8. (ops["restore"].at # "none" => ops["remove"].at = "none")'
    BY <2>1, <2>2 DEF Settles, LinkIs, Stopped, ManagerIs, Timed, RollsBack, Refused, Closes
  <2>9. (ops["restore"].at # "none" => ~mgr.provisional)'
    BY <2>1, <2>2 DEF VirginKept, Settles, LinkIs, Stopped, ManagerIs, Timed, RollsBack, Refused, Closes
  <2>10. (ops["restore"].at # "none" => (~mgr.managed => Untried /\ conn.at = "none" /\ conn.again = {}))'
    BY <2>1, <2>2 DEF Untried, Trying, DisposalKept, Inflight, Last, Cleanup, WaitsKept, Settles, LinkIs,
       Stopped, ManagerIs, Timed, RollsBack, Refused, Closes
  <2>11. (ops["remove"].at \notin {"none", "closing"} => ~mgr.managed)'
    BY <2>1, <2>2 DEF VirginKept, StagesKept, Settles, LinkIs, Stopped, ManagerIs, Timed, RollsBack, Refused,
       Closes
  <2>12. (ops["remove"].at # "none" /\ ~conn.closing => "add" \notin conn.waits)'
    BY <2>1, <2>2 DEF WaitsKept, VirginKept, Settles, LinkIs, Stopped, ManagerIs, Timed, RollsBack, Refused,
       Closes
  <2> QED BY <2>3, <2>4, <2>5, <2>6, <2>7, <2>8, <2>9, <2>10, <2>11, <2>12
<1>28. ASSUME NEW o \in Calls, Forget(o) PROVE CallsKept'
  <2>1. /\ o \in {"remove", "rollback"} /\ ops[o].at = "closing" /\ ~conn.closing
        /\ ManagerIs(mgr', FALSE, FALSE, mgr.provisional, FALSE, mgr.disposed, mgr.complete)
        /\ conn.session \/ conn.at # "none" => UNCHANGED conn
        /\ ~conn.session /\ conn.at = "none" =>
             /\ conn' = NoLink
             /\ LinkIs(conn', "none", FALSE, FALSE, FALSE, {}, {})
        /\ CallIs(o, "reading", ops[o].refs, ops[o].todo)
        /\ UNCHANGED <<profile, secrets, past>>
    BY <1>28, ForgetDoes
  <2>2. (ops["rollback"].at # "none" => Untried)'
    BY <2>1 DEF Untried, Trying, ProvisionalKept, OneTry, WaitsKept, VirginKept, ManagerIs, LinkIs, CallIs
  <2>3. (ops["rollback"].at # "none" => ops["add"].at = "none")'
    BY <2>1 DEF VirginKept, WaitsKept, StagesKept, ManagerIs, LinkIs, CallIs
  <2>4. (ops["rollback"].at # "none" => ops["restore"].at = "none")'
    BY <2>1 DEF VirginKept, WaitsKept, StagesKept, ManagerIs, LinkIs, CallIs
  <2>5. (ops["rollback"].at # "none" => ~(mgr.managed /\ mgr.enabled))'
    BY <2>1 DEF VirginKept, WaitsKept, ManagerIs, LinkIs, CallIs
  <2>6. (ops["restore"].at # "none" => ops["add"].at = "none")'
    BY <2>1 DEF ManagerIs, LinkIs, CallIs
  <2>7. (ops["restore"].at # "none" => ops["remove"].at = "none")'
    BY <2>1 DEF ManagerIs, LinkIs, CallIs
  <2>8. (ops["restore"].at # "none" => ~mgr.provisional)'
    BY <2>1 DEF VirginKept, ManagerIs, LinkIs, CallIs
  <2>9. (ops["restore"].at # "none" => (~mgr.managed => Untried /\ conn.at = "none" /\ conn.again = {}))'
    BY <2>1 DEF Untried, Trying, DisposalKept, Inflight, Last, Cleanup, WaitsKept, ManagerIs, LinkIs, CallIs
  <2>10. (ops["remove"].at \notin {"none", "closing"} => ~mgr.managed)'
    BY <2>1 DEF VirginKept, StagesKept, ManagerIs, LinkIs, CallIs
  <2>11. (ops["remove"].at # "none" /\ ~conn.closing => "add" \notin conn.waits)'
    BY <2>1 DEF WaitsKept, VirginKept, ManagerIs, LinkIs, CallIs
  <2> QED BY <2>2, <2>3, <2>4, <2>5, <2>6, <2>7, <2>8, <2>9, <2>10, <2>11
<1>29. ASSUME NEW o \in Calls, NEW ok \in BOOLEAN, ReadProfile(o, ok) PROVE CallsKept'
  BY <1>29, ReadProfileDoes DEF StagesKept, Untried, Trying, ProvisionalKept, OneTry, WaitsKept, VirginKept,
     DisposalKept, Cleanup, Last, Inflight, IsProvisional, CallIs, SamePast, PastIs, SameManager, ManagerIs
<1>30. ASSUME NEW o \in Calls, NEW how \in Outcomes, MarkCleanupPending(o, how) PROVE CallsKept'
  BY <1>30, MarkCleanupPendingDoes DEF StagesKept, Untried, Trying, ProvisionalKept, OneTry, WaitsKept,
     VirginKept, DisposalKept, Cleanup, Last, Inflight, IsProvisional, CallIs, SamePast, PastIs, Ended,
     SameManager, ManagerIs
<1>31. ASSUME NEW o \in Calls, NEW how \in Outcomes, DeleteSecret(o, how) PROVE CallsKept'
  BY <1>31, DeleteSecretDoes DEF StagesKept, Untried, Trying, ProvisionalKept, OneTry, WaitsKept, VirginKept,
     DisposalKept, Cleanup, Last, Inflight, IsProvisional, CallIs, SamePast, PastIs
<1>32. ASSUME NEW o \in Calls, NEW how \in Outcomes, DropReference(o, how) PROVE CallsKept'
  <2>1. /\ ops[o].at = "dropping"
        /\ \/ UNCHANGED profile
           \/ /\ profile.st = "tomb" /\ profile.refs = ops[o].refs /\ profile' = Tomb(ops[o].refs \ {FirstOf(ops[o].todo)})
              /\ profile'.st = "tomb" /\ profile'.refs = ops[o].refs \ {FirstOf(ops[o].todo)}
        /\ \/ CallIs(o, "deleting", ops[o].refs, {})
           \/ CallIs(o, "deleting", ops[o].refs \ {FirstOf(ops[o].todo)}, ops[o].todo \ {FirstOf(ops[o].todo)})
        /\ SamePast
        /\ UNCHANGED <<secrets, mgr, conn>>
    BY <1>32, DropReferenceDoes
  <2>2. (ops["rollback"].at # "none" => Untried)'
    BY <2>1 DEF Untried, Trying, ProvisionalKept, OneTry, WaitsKept, VirginKept, CallIs
  <2>3. (ops["rollback"].at # "none" => ops["add"].at = "none")'
    BY <2>1 DEF VirginKept, WaitsKept, StagesKept, CallIs
  <2>4. (ops["rollback"].at # "none" => ops["restore"].at = "none")'
    BY <2>1 DEF VirginKept, WaitsKept, StagesKept, CallIs
  <2>5. (ops["rollback"].at # "none" => ~(mgr.managed /\ mgr.enabled))'
    BY <2>1 DEF VirginKept, WaitsKept, CallIs
  <2>6. (ops["restore"].at # "none" => ops["add"].at = "none")'
    BY <2>1 DEF CallIs
  <2>7. (ops["restore"].at # "none" => ops["remove"].at = "none")'
    BY <2>1 DEF CallIs
  <2>8. (ops["restore"].at # "none" => ~mgr.provisional)'
    BY <2>1 DEF VirginKept, CallIs
  <2>9. (ops["restore"].at # "none" => (~mgr.managed => Untried /\ conn.at = "none" /\ conn.again = {}))'
    BY <2>1 DEF Untried, Trying, DisposalKept, Inflight, Last, Cleanup, WaitsKept, CallIs
  <2>10. (ops["remove"].at \notin {"none", "closing"} => ~mgr.managed)'
    BY <2>1 DEF VirginKept, StagesKept, CallIs
  <2>11. (ops["remove"].at # "none" /\ ~conn.closing => "add" \notin conn.waits)'
    BY <2>1 DEF WaitsKept, VirginKept, CallIs
  <2> QED BY <2>2, <2>3, <2>4, <2>5, <2>6, <2>7, <2>8, <2>9, <2>10, <2>11
<1>33. ASSUME NEW o \in Calls, NEW how \in Outcomes, DeleteProfile(o, how) PROVE CallsKept'
  <2>1. /\ ops[o].at = "deleting" /\ ops[o].todo = {}
        /\ \/ /\ ops[o].refs = {} /\ profile.st = "tomb" /\ profile.refs = {} /\ profile' = NoProfile
              /\ PastIs(past', TRUE, past.late, past.leaked)
           \/ UNCHANGED profile /\ SamePast
        /\ Ended(o) /\ SameManager
        /\ UNCHANGED <<secrets, conn>>
    BY <1>33, DeleteProfileDoes
  <2>2. (ops["rollback"].at # "none" => Untried)'
    BY <2>1 DEF Untried, Trying, ProvisionalKept, OneTry, WaitsKept, VirginKept, Ended, CallIs, SameManager,
       ManagerIs
  <2>3. (ops["rollback"].at # "none" => ops["add"].at = "none")'
    BY <2>1 DEF VirginKept, WaitsKept, StagesKept, Ended, CallIs, SameManager, ManagerIs
  <2>4. (ops["rollback"].at # "none" => ops["restore"].at = "none")'
    BY <2>1 DEF VirginKept, WaitsKept, StagesKept, Ended, CallIs, SameManager, ManagerIs
  <2>5. (ops["rollback"].at # "none" => ~(mgr.managed /\ mgr.enabled))'
    BY <2>1 DEF VirginKept, WaitsKept, Ended, CallIs, SameManager, ManagerIs
  <2>6. (ops["restore"].at # "none" => ops["add"].at = "none")'
    BY <2>1 DEF Ended, CallIs, SameManager, ManagerIs
  <2>7. (ops["restore"].at # "none" => ops["remove"].at = "none")'
    BY <2>1 DEF Ended, CallIs, SameManager, ManagerIs
  <2>8. (ops["restore"].at # "none" => ~mgr.provisional)'
    BY <2>1 DEF VirginKept, Ended, CallIs, SameManager, ManagerIs
  <2>9. (ops["restore"].at # "none" => (~mgr.managed => Untried /\ conn.at = "none" /\ conn.again = {}))'
    BY <2>1 DEF Untried, Trying, DisposalKept, Inflight, Last, Cleanup, WaitsKept, Ended, CallIs, SameManager,
       ManagerIs
  <2>10. (ops["remove"].at \notin {"none", "closing"} => ~mgr.managed)'
    BY <2>1 DEF VirginKept, StagesKept, Ended, CallIs, SameManager, ManagerIs
  <2>11. (ops["remove"].at # "none" /\ ~conn.closing => "add" \notin conn.waits)'
    BY <2>1 DEF WaitsKept, VirginKept, Ended, CallIs, SameManager, ManagerIs
  <2> QED BY <2>2, <2>3, <2>4, <2>5, <2>6, <2>7, <2>8, <2>9, <2>10, <2>11
<1>34. ASSUME NEW ok \in BOOLEAN, CleanupAtEnd(ok) PROVE CallsKept'
  <2>1. /\ ops["dispose"].at = "second" /\ ~conn.closing
        /\ ManagerIs(mgr', FALSE, mgr.enabled, mgr.provisional, mgr.timer, mgr.disposed, mgr.complete)
        /\ \/ profile.st = "tomb" /\ CallIs("dispose", "deleting", profile.refs, profile.refs)
           \/ CallIs("dispose", "end", ops["dispose"].refs, ops["dispose"].todo)
        /\ SamePast
        /\ UNCHANGED <<profile, secrets, conn>>
    BY <1>34, CleanupAtEndDoes
  <2>2. (ops["rollback"].at # "none" => Untried)'
    BY <2>1 DEF Untried, Trying, ProvisionalKept, OneTry, WaitsKept, VirginKept, ManagerIs, CallIs
  <2>3. (ops["rollback"].at # "none" => ops["add"].at = "none")'
    BY <2>1 DEF VirginKept, WaitsKept, StagesKept, ManagerIs, CallIs
  <2>4. (ops["rollback"].at # "none" => ops["restore"].at = "none")'
    BY <2>1 DEF VirginKept, WaitsKept, StagesKept, ManagerIs, CallIs
  <2>5. (ops["rollback"].at # "none" => ~(mgr.managed /\ mgr.enabled))'
    BY <2>1 DEF VirginKept, WaitsKept, ManagerIs, CallIs
  <2>6. (ops["restore"].at # "none" => ops["add"].at = "none")'
    BY <2>1 DEF ManagerIs, CallIs
  <2>7. (ops["restore"].at # "none" => ops["remove"].at = "none")'
    BY <2>1 DEF ManagerIs, CallIs
  <2>8. (ops["restore"].at # "none" => ~mgr.provisional)'
    BY <2>1 DEF VirginKept, ManagerIs, CallIs
  <2>9. (ops["restore"].at # "none" => (~mgr.managed => Untried /\ conn.at = "none" /\ conn.again = {}))'
    BY <2>1 DEF Untried, Trying, DisposalKept, Inflight, Last, Cleanup, WaitsKept, ManagerIs, CallIs
  <2>10. (ops["remove"].at \notin {"none", "closing"} => ~mgr.managed)'
    BY <2>1 DEF VirginKept, StagesKept, ManagerIs, CallIs
  <2>11. (ops["remove"].at # "none" /\ ~conn.closing => "add" \notin conn.waits)'
    BY <2>1 DEF WaitsKept, VirginKept, ManagerIs, CallIs
  <2> QED BY <2>2, <2>3, <2>4, <2>5, <2>6, <2>7, <2>8, <2>9, <2>10, <2>11
<1>35. ASSUME NEW ok \in BOOLEAN, Restore(ok) PROVE CallsKept'
  <2>1. /\ ManagerIs(mgr', FALSE, FALSE, FALSE, FALSE, FALSE, FALSE)
        /\ conn' = NoLink /\ LinkIs(conn', "none", FALSE, FALSE, FALSE, {}, {})
        /\ PastIs(past', past.removed, past.late, past.leaked \cup (secrets \ profile.refs))
        /\ /\ \A p \in Calls \ {"restore"} : ops'[p].at = "none" /\ ops'[p].refs = {} /\ ops'[p].todo = {}
           /\ \/ /\ profile.st = "tomb" /\ ops'["restore"].at = "deleting"
                 /\ ops'["restore"].refs = profile.refs /\ ops'["restore"].todo = profile.refs
              \/ ops'["restore"].at = "end" /\ ops'["restore"].refs = {} /\ ops'["restore"].todo = {}
        /\ UNCHANGED <<profile, secrets>>
    BY <1>35, RestoreDoes
  <2>2. (ops["rollback"].at # "none" => Untried)'
    BY <2>1 DEF Untried, Trying, ProvisionalKept, OneTry, WaitsKept, VirginKept, ManagerIs, LinkIs
  <2>3. (ops["rollback"].at # "none" => ops["add"].at = "none")'
    BY <2>1 DEF VirginKept, WaitsKept, StagesKept, ManagerIs, LinkIs
  <2>4. (ops["rollback"].at # "none" => ops["restore"].at = "none")'
    BY <2>1 DEF VirginKept, WaitsKept, StagesKept, ManagerIs, LinkIs
  <2>5. (ops["rollback"].at # "none" => ~(mgr.managed /\ mgr.enabled))'
    BY <2>1 DEF VirginKept, WaitsKept, ManagerIs, LinkIs
  <2>6. (ops["restore"].at # "none" => ops["add"].at = "none")'
    BY <2>1 DEF ManagerIs, LinkIs
  <2>7. (ops["restore"].at # "none" => ops["remove"].at = "none")'
    BY <2>1 DEF ManagerIs, LinkIs
  <2>8. (ops["restore"].at # "none" => ~mgr.provisional)'
    BY <2>1 DEF VirginKept, ManagerIs, LinkIs
  <2>9. (ops["restore"].at # "none" => (~mgr.managed => Untried /\ conn.at = "none" /\ conn.again = {}))'
    BY <2>1 DEF Untried, Trying, DisposalKept, Inflight, Last, Cleanup, WaitsKept, ManagerIs, LinkIs
  <2>10. (ops["remove"].at \notin {"none", "closing"} => ~mgr.managed)'
    BY <2>1 DEF VirginKept, StagesKept, ManagerIs, LinkIs
  <2>11. (ops["remove"].at # "none" /\ ~conn.closing => "add" \notin conn.waits)'
    BY <2>1 DEF WaitsKept, VirginKept, ManagerIs, LinkIs
  <2> QED BY <2>2, <2>3, <2>4, <2>5, <2>6, <2>7, <2>8, <2>9, <2>10, <2>11
<1> QED BY <1>1, <1>2, <1>3, <1>4, <1>5, <1>6, <1>7, <1>8, <1>9, <1>10, <1>11, <1>12, <1>13, <1>14, <1>15,
   <1>16, <1>17, <1>18, <1>19, <1>20, <1>21, <1>22, <1>23, <1>24, <1>25, <1>26, <1>27, <1>28, <1>29, <1>30,
   <1>31, <1>32, <1>33, <1>34, <1>35 DEF LinksNext

\* DisposalKept is kept by every step.
LEMMA DisposalKeptStep ==
  ASSUME LinksTyped, LinksKept, LinksNext
  PROVE  DisposalKept'
<1>0. StagesKept /\ WaitsKept /\ CallsKept /\ DisposalKept /\ VirginKept
  BY DEF LinksKept
<1> USE <1>0, StateIs, CallsAre DEF DisposalKept
<1>1. ASSUME Add PROVE DisposalKept'
  BY <1>1, AddDoes DEF Inflight, Last, Cleanup, StagesKept, WaitsKept, CallsKept, VirginKept, Untried, Trying,
     CallIs
<1>2. ASSUME Connect PROVE DisposalKept'
  <2>1. /\ ~mgr.disposed /\ profile.st = "complete" /\ ops["remove"].at = "none" /\ ops["rollback"].at = "none"
           /\ "connect" \notin conn.waits \cup conn.again /\ (mgr.managed \/ conn.at = "none")
        /\ mgr.managed => ManagerIs(mgr', TRUE, TRUE, mgr.provisional, FALSE, mgr.disposed, mgr.complete)
        /\ ~mgr.managed => ManagerIs(mgr', TRUE, TRUE, FALSE, FALSE, mgr.disposed, mgr.complete)
        /\ mgr.managed => Joined(conn', conn, "connect")
        /\ ~mgr.managed => LinkIs(conn', "opening", FALSE, FALSE, FALSE, {"connect"}, {})
        /\ SamePast
        /\ UNCHANGED <<profile, secrets, ops>>
    BY <1>2, ConnectDoes
  <2>2. mgr.managed =>
        /\ ("add" \in conn'.waits => "add" \in conn.waits) /\ ("add" \in conn'.again <=> "add" \in conn.again)
        /\ ("try" \in conn'.waits => "try" \in conn.waits) /\ ("try" \in conn'.again <=> "try" \in conn.again)
        /\ (conn'.closing <=> conn.closing) /\ (conn'.session <=> conn.session)
        /\ conn.at # "none" => conn'.at = conn.at
        /\ conn.at = "none" => conn'.at \in {"none", "opening"}
    BY <2>1, JoinedAre
  <2>3. (mgr.disposed => ~mgr.timer)'
    BY <2>1, <2>2, JoinedAre DEF VirginKept, ManagerIs, LinkIs
  <2>4. (mgr.disposed => ("add" \in conn.waits => conn.aborted))'
    BY <2>1, <2>2, JoinedAre DEF Inflight, WaitsKept, ManagerIs, LinkIs
  <2>5. (ops["dispose"].at # "none" => mgr.disposed)'
    BY <2>1, <2>2, JoinedAre DEF ManagerIs, LinkIs
  <2>6. (ops["dispose"].at \in Last \cup {"second"} => ~Inflight)'
    BY <2>1, <2>2, JoinedAre DEF Inflight, Last, Cleanup, WaitsKept, ManagerIs, LinkIs
  <2>7. (ops["dispose"].at \in Last => ~mgr.managed)'
    BY <2>1, <2>2, JoinedAre DEF Last, Cleanup, Inflight, ManagerIs, LinkIs
  <2>8. (mgr.complete => mgr.disposed /\ ~mgr.managed /\ ops["dispose"].at = "none")'
    BY <2>1, <2>2, JoinedAre DEF Last, Cleanup, Inflight, ManagerIs, LinkIs
  <2>9. (mgr.complete => ~Inflight)'
    BY <2>1, <2>2, JoinedAre DEF Inflight, Last, Cleanup, WaitsKept, ManagerIs, LinkIs
  <2> QED BY <2>3, <2>4, <2>5, <2>6, <2>7, <2>8, <2>9
<1>3. ASSUME Disconnect PROVE DisposalKept'
  <2>1. (mgr.disposed => ~mgr.timer)'
    BY <1>3, DisconnectDoes DEF VirginKept, Closed, LinkIs, Stopped, ManagerIs
  <2>2. (mgr.disposed => ("add" \in conn.waits => conn.aborted))'
    BY <1>3, DisconnectDoes DEF Inflight, WaitsKept, Closed, LinkIs, Stopped, ManagerIs
  <2>3. (ops["dispose"].at # "none" => mgr.disposed)'
    BY <1>3, DisconnectDoes DEF Closed, LinkIs, Stopped, ManagerIs
  <2>4. (ops["dispose"].at \in Last \cup {"second"} => ~Inflight)'
    BY <1>3, DisconnectDoes DEF Inflight, Last, Cleanup, WaitsKept, Closed, LinkIs, Stopped, ManagerIs
  <2>5. (ops["dispose"].at \in Last => ~mgr.managed)'
    BY <1>3, DisconnectDoes DEF Last, Cleanup, Inflight, Closed, LinkIs, Stopped, ManagerIs
  <2>6. (mgr.complete => mgr.disposed /\ ~mgr.managed /\ ops["dispose"].at = "none")'
    BY <1>3, DisconnectDoes DEF Last, Cleanup, Inflight, Closed, LinkIs, Stopped, ManagerIs
  <2>7. (mgr.complete => ~Inflight)'
    BY <1>3, DisconnectDoes DEF Inflight, Last, Cleanup, WaitsKept, Closed, LinkIs, Stopped, ManagerIs
  <2> QED BY <2>1, <2>2, <2>3, <2>4, <2>5, <2>6, <2>7
<1>4. ASSUME RemovePeer PROVE DisposalKept'
  <2>1. /\ ops["remove"].at = "none" /\ profile.st # "none" /\ ops["restore"].at = "none"
           /\ "connect" \notin conn.waits \cup conn.again
        /\ mgr.managed =>
             /\ Stopped(mgr', mgr)
             /\ Closed(conn', conn)
             /\ CallIs("remove", "closing", ops["remove"].refs, ops["remove"].todo)
        /\ ~mgr.managed =>
             /\ UNCHANGED <<mgr, conn>>
             /\ CallIs("remove", "reading", ops["remove"].refs, ops["remove"].todo)
        /\ UNCHANGED <<profile, secrets, past>>
    BY <1>4, RemovePeerDoes
  <2>2. (mgr.disposed => ~mgr.timer)'
    BY <2>1 DEF VirginKept, CallIs, Closed, LinkIs, Stopped, ManagerIs
  <2>3. (mgr.disposed => ("add" \in conn.waits => conn.aborted))'
    BY <2>1 DEF Inflight, WaitsKept, CallIs, Closed, LinkIs, Stopped, ManagerIs
  <2>4. (ops["dispose"].at # "none" => mgr.disposed)'
    BY <2>1 DEF CallIs, Closed, LinkIs, Stopped, ManagerIs
  <2>5. (ops["dispose"].at \in Last \cup {"second"} => ~Inflight)'
    BY <2>1 DEF Inflight, Last, Cleanup, WaitsKept, CallIs, Closed, LinkIs, Stopped, ManagerIs
  <2>6. (ops["dispose"].at \in Last => ~mgr.managed)'
    BY <2>1 DEF Last, Cleanup, Inflight, CallIs, Closed, LinkIs, Stopped, ManagerIs
  <2>7. (mgr.complete => mgr.disposed /\ ~mgr.managed /\ ops["dispose"].at = "none")'
    BY <2>1 DEF Last, Cleanup, Inflight, CallIs, Closed, LinkIs, Stopped, ManagerIs
  <2>8. (mgr.complete => ~Inflight)'
    <3>1. CASE mgr.managed
      <4>1. mgr'.complete = mgr.complete
        BY <2>1, <3>1 DEF Stopped, ManagerIs
      <4> QED BY <3>1, <4>1
    <3>2. CASE ~mgr.managed
      <4>1. UNCHANGED <<mgr, conn>> /\ CallIs("remove", "reading", ops["remove"].refs, ops["remove"].todo)
        BY <2>1, <3>2
      <4> QED BY <4>1 DEF Inflight, CallIs
    <3> QED BY <3>1, <3>2
  <2> QED BY <2>2, <2>3, <2>4, <2>5, <2>6, <2>7, <2>8
<1>5. ASSUME ReconnectTimer PROVE DisposalKept'
  BY <1>5, ReconnectTimerDoes DEF Inflight, Last, Cleanup, StagesKept, WaitsKept, CallsKept, VirginKept,
     Untried, Trying, ManagerIs, CallIs
<1>6. ASSUME TryConnect PROVE DisposalKept'
  <2>1. /\ ops["try"].at = "owner"
        /\ CallIs("try", "none", {}, {})
        /\ \/ UNCHANGED mgr /\ Joined(conn', conn, "try") /\ PastIs(past', past.removed, past.late \/ Leaving, past.leaked)
           \/ /\ ManagerIs(mgr', mgr.managed, mgr.enabled, mgr.provisional, mgr.timer, mgr.disposed, mgr.complete)
              /\ UNCHANGED <<conn, past>>
        /\ UNCHANGED <<profile, secrets>>
    BY <1>6, TryConnectDoes
  <2>2. UNCHANGED conn \/
        /\ ("add" \in conn'.waits => "add" \in conn.waits) /\ ("add" \in conn'.again <=> "add" \in conn.again)
        /\ ("connect" \in conn'.waits =>
             /\ "connect" \in conn.waits)
             /\ ("connect" \in conn'.again <=> "connect" \in conn.again)
        /\ (conn'.closing <=> conn.closing) /\ (conn'.session <=> conn.session)
        /\ conn.at # "none" => conn'.at = conn.at
        /\ conn.at = "none" => conn'.at \in {"none", "opening"}
        /\ "try" \notin conn.waits \cup conn.again => "try" \notin conn'.waits \/ "try" \notin conn'.again
    BY <2>1, JoinedAre
  <2>3. (mgr.disposed => ~mgr.timer)'
    BY <2>1, <2>2, JoinedAre DEF VirginKept, ManagerIs, CallIs, LinkIs, Leaving
  <2>4. (mgr.disposed => ("add" \in conn.waits => conn.aborted))'
    <3>1. CASE UNCHANGED mgr /\ Joined(conn', conn, "try")
      <4>1. ASSUME mgr.disposed, "add" \in conn'.waits
            PROVE  conn'.aborted
        <5>1. "add" \in conn.waits
          BY <2>2, <4>1
        <5>2. conn.aborted /\ conn.at # "none" /\ ~conn.session
          BY <4>1, <5>1 DEF WaitsKept
        <5> QED BY <3>1, <5>2 DEF Joined, LinkIs
      <4> QED BY <3>1, <4>1
    <3>2. CASE /\ ManagerIs(mgr', mgr.managed, mgr.enabled, mgr.provisional, mgr.timer, mgr.disposed, mgr.complete)
               /\ UNCHANGED <<conn, past>>
      BY <3>2 DEF ManagerIs
    <3> QED BY <2>1, <3>1, <3>2
  <2>5. (ops["dispose"].at # "none" => mgr.disposed)'
    BY <2>1, <2>2, JoinedAre DEF ManagerIs, CallIs, LinkIs, Leaving
  <2>6. (ops["dispose"].at \in Last \cup {"second"} => ~Inflight)'
    BY <2>1, <2>2, JoinedAre DEF Inflight, Last, Cleanup, WaitsKept, ManagerIs, CallIs, LinkIs, Leaving
  <2>7. (ops["dispose"].at \in Last => ~mgr.managed)'
    BY <2>1, <2>2, JoinedAre DEF Last, Cleanup, Inflight, ManagerIs, CallIs, LinkIs, Leaving
  <2>8. (mgr.complete => mgr.disposed /\ ~mgr.managed /\ ops["dispose"].at = "none")'
    BY <2>1, <2>2, JoinedAre DEF Last, Cleanup, Inflight, ManagerIs, CallIs, LinkIs, Leaving
  <2>9. (mgr.complete => ~Inflight)'
    BY <2>1, <2>2, JoinedAre DEF Inflight, Last, Cleanup, WaitsKept, ManagerIs, CallIs, LinkIs, Leaving
  <2> QED BY <2>3, <2>4, <2>5, <2>6, <2>7, <2>8, <2>9
<1>7. ASSUME LoseOwnership PROVE DisposalKept'
  BY <1>7, LoseOwnershipDoes DEF Inflight, Last, Cleanup, StagesKept, WaitsKept, CallsKept, VirginKept,
     Untried, Trying, SameManager, ManagerIs
<1>8. ASSUME Open PROVE DisposalKept'
  BY <1>8, OpenDoes DEF Inflight, Last, Cleanup, StagesKept, WaitsKept, CallsKept, VirginKept, Untried, Trying,
     AttemptAt, LinkIs
<1>9. ASSUME StoreCredentials PROVE DisposalKept'
  BY <1>9, StoreCredentialsDoes DEF Inflight, Last, Cleanup, StagesKept, WaitsKept, CallsKept, VirginKept,
     Untried, Trying, PastIs, AttemptAt, LinkIs
<1>10. ASSUME StoreCredentialsFails PROVE DisposalKept'
  BY <1>10, StoreCredentialsFailsDoes DEF Inflight, Last, Cleanup, StagesKept, WaitsKept, CallsKept,
     VirginKept, Untried, Trying, GivenUp, PastIs, AttemptAt, LinkIs
<1>11. ASSUME PeerReplied PROVE DisposalKept'
  BY <1>11, PeerRepliedDoes DEF Inflight, Last, Cleanup, StagesKept, WaitsKept, CallsKept, VirginKept, Untried,
     Trying, AttemptAt, LinkIs
<1>12. ASSUME DropEnrollmentKeys PROVE DisposalKept'
  BY <1>12, DropEnrollmentKeysDoes DEF Inflight, Last, Cleanup, StagesKept, WaitsKept, CallsKept, VirginKept,
     Untried, Trying, SamePast, PastIs, AttemptAt, LinkIs
<1>13. ASSUME Established PROVE DisposalKept'
  <2>1. PICK s \in {"offline", "online", "authFailed", "incompatible", "rePairRequired"}, ok \in BOOLEAN :
          /\ Settles(s, ok)
          /\ conn.aborted => ok /\ s = "offline"
          /\ s = "online" => ok
          /\ ok => conn.aborted \/ s = "online"
    BY <1>13, EstablishedDoes
  <2>2. conn.at = "authenticated" /\ UNCHANGED <<profile, secrets, past>>
    BY <1>13, EstablishedDoes
  <2>3. (mgr.disposed => ~mgr.timer)'
    BY <2>1, <2>2 DEF VirginKept, Settles, LinkIs, Stopped, ManagerIs, Timed, RollsBack, Refused, Closes
  <2>4. (mgr.disposed => ("add" \in conn.waits => conn.aborted))'
    BY <2>1, <2>2 DEF Inflight, WaitsKept, Settles, LinkIs, Stopped, ManagerIs, Timed, RollsBack, Refused,
       Closes
  <2>5. (ops["dispose"].at # "none" => mgr.disposed)'
    BY <2>1, <2>2 DEF Settles, LinkIs, Stopped, ManagerIs, Timed, RollsBack, Refused, Closes
  <2>6. (ops["dispose"].at \in Last \cup {"second"} => ~Inflight)'
    BY <2>1, <2>2 DEF Inflight, Last, Cleanup, WaitsKept, Settles, LinkIs, Stopped, ManagerIs, Timed,
       RollsBack, Refused, Closes
  <2>7. (ops["dispose"].at \in Last => ~mgr.managed)'
    BY <2>1, <2>2 DEF Last, Cleanup, Inflight, Settles, LinkIs, Stopped, ManagerIs, Timed, RollsBack, Refused,
       Closes
  <2>8. (mgr.complete => mgr.disposed /\ ~mgr.managed /\ ops["dispose"].at = "none")'
    <3>1. mgr'.complete = mgr.complete /\ mgr'.disposed = mgr.disposed /\ mgr'.managed = mgr.managed
      BY <2>1 DEF Settles, Stopped, Timed, ManagerIs
    <3>2. ops'["dispose"] = ops["dispose"]
      BY <2>1 DEF Settles
    <3> QED BY <3>1, <3>2
  <2>9. (mgr.complete => ~Inflight)'
    BY <2>1, <2>2 DEF Inflight, Last, Cleanup, WaitsKept, Settles, LinkIs, Stopped, ManagerIs, Timed,
       RollsBack, Refused, Closes
  <2> QED BY <2>3, <2>4, <2>5, <2>6, <2>7, <2>8, <2>9
<1>14. ASSUME SessionCloses PROVE DisposalKept'
  <2>1. (mgr.disposed => ~mgr.timer)'
    BY <1>14, SessionClosesDoes DEF VirginKept, LinkIs, Timed, ManagerIs
  <2>2. (mgr.disposed => ("add" \in conn.waits => conn.aborted))'
    BY <1>14, SessionClosesDoes DEF Inflight, WaitsKept, LinkIs, Timed, ManagerIs
  <2>3. (ops["dispose"].at # "none" => mgr.disposed)'
    BY <1>14, SessionClosesDoes DEF LinkIs, Timed, ManagerIs
  <2>4. (ops["dispose"].at \in Last \cup {"second"} => ~Inflight)'
    BY <1>14, SessionClosesDoes DEF Inflight, Last, Cleanup, WaitsKept, LinkIs, Timed, ManagerIs
  <2>5. (ops["dispose"].at \in Last => ~mgr.managed)'
    BY <1>14, SessionClosesDoes DEF Last, Cleanup, Inflight, LinkIs, Timed, ManagerIs
  <2>6. (mgr.complete => mgr.disposed /\ ~mgr.managed /\ ops["dispose"].at = "none")'
    BY <1>14, SessionClosesDoes DEF Last, Cleanup, Inflight, LinkIs, Timed, ManagerIs
  <2>7. (mgr.complete => ~Inflight)'
    BY <1>14, SessionClosesDoes DEF Inflight, Last, Cleanup, WaitsKept, LinkIs, Timed, ManagerIs
  <2> QED BY <2>1, <2>2, <2>3, <2>4, <2>5, <2>6, <2>7
<1>15. ASSUME Disconnected PROVE DisposalKept'
  <2>1. (mgr.disposed => ~mgr.timer)'
    BY <1>15, DisconnectedDoes DEF VirginKept, LinkIs, Leaving
  <2>2. (mgr.disposed => ("add" \in conn.waits => conn.aborted))'
    BY <1>15, DisconnectedDoes DEF Inflight, WaitsKept, LinkIs, Leaving
  <2>3. (ops["dispose"].at # "none" => mgr.disposed)'
    BY <1>15, DisconnectedDoes DEF LinkIs, Leaving
  <2>4. (ops["dispose"].at \in Last \cup {"second"} => ~Inflight)'
    BY <1>15, DisconnectedDoes DEF Inflight, Last, Cleanup, WaitsKept, LinkIs, Leaving
  <2>5. (ops["dispose"].at \in Last => ~mgr.managed)'
    BY <1>15, DisconnectedDoes DEF Last, Cleanup, Inflight, LinkIs, Leaving
  <2>6. (mgr.complete => mgr.disposed /\ ~mgr.managed /\ ops["dispose"].at = "none")'
    BY <1>15, DisconnectedDoes DEF Last, Cleanup, Inflight, LinkIs, Leaving
  <2>7. (mgr.complete => ~Inflight)'
    BY <1>15, DisconnectedDoes DEF Inflight, Last, Cleanup, WaitsKept, LinkIs, Leaving
  <2> QED BY <2>1, <2>2, <2>3, <2>4, <2>5, <2>6, <2>7
<1>16. ASSUME Dispose PROVE DisposalKept'
  BY <1>16, DisposeDoes DEF Inflight, Last, Cleanup, StagesKept, WaitsKept, CallsKept, VirginKept, Untried,
     Trying, ManagerIs, CallIs, Closed, LinkIs
<1>17. ASSUME Drained PROVE DisposalKept'
  <2>1. /\ ops["dispose"].at = "first" /\ ~conn.closing /\ ~Inflight
        /\ Stopped(mgr', mgr)
        /\ mgr.managed => Closed(conn', conn)
        /\ ~mgr.managed => UNCHANGED conn
        /\ CallIs("dispose", "second", ops["dispose"].refs, ops["dispose"].todo)
        /\ UNCHANGED <<profile, secrets, past>>
    BY <1>17, DrainedDoes
  <2>2. (mgr.disposed => ~mgr.timer)'
    BY <2>1 DEF VirginKept, CallIs, Closed, LinkIs, Stopped, ManagerIs
  <2>3. (mgr.disposed => ("add" \in conn.waits => conn.aborted))'
    BY <2>1 DEF Inflight, WaitsKept, CallIs, Closed, LinkIs, Stopped, ManagerIs
  <2>4. (ops["dispose"].at # "none" => mgr.disposed)'
    BY <2>1 DEF CallIs, Closed, LinkIs, Stopped, ManagerIs
  <2>5. (ops["dispose"].at \in Last \cup {"second"} => ~Inflight)'
    BY <2>1 DEF Inflight, Last, Cleanup, WaitsKept, CallIs, Closed, LinkIs, Stopped, ManagerIs
  <2>6. (ops["dispose"].at \in Last => ~mgr.managed)'
    BY <2>1 DEF Last, Cleanup, Inflight, CallIs, Closed, LinkIs, Stopped, ManagerIs
  <2>7. (mgr.complete => mgr.disposed /\ ~mgr.managed /\ ops["dispose"].at = "none")'
    BY <2>1 DEF Last, Cleanup, Inflight, CallIs, Closed, LinkIs, Stopped, ManagerIs
  <2>8. (mgr.complete => ~Inflight)'
    BY <2>1 DEF Inflight, Last, Cleanup, WaitsKept, CallIs, Closed, LinkIs, Stopped, ManagerIs
  <2> QED BY <2>2, <2>3, <2>4, <2>5, <2>6, <2>7, <2>8
<1>18. ASSUME Disposed PROVE DisposalKept'
  BY <1>18, DisposedDoes DEF Inflight, Last, Cleanup, StagesKept, WaitsKept, CallsKept, VirginKept, Untried,
     Trying, ManagerIs, CallIs
<1>19. ASSUME Restored PROVE DisposalKept'
  <2>1. (mgr.disposed => ~mgr.timer)'
    BY <1>19, RestoredDoes DEF VirginKept, ManagerIs, CallIs, Launched
  <2>2. (mgr.disposed => ("add" \in conn.waits => conn.aborted))'
    BY <1>19, RestoredDoes DEF Inflight, WaitsKept, ManagerIs, CallIs, Launched
  <2>3. (ops["dispose"].at # "none" => mgr.disposed)'
    BY <1>19, RestoredDoes DEF ManagerIs, CallIs, Launched
  <2>4. (ops["dispose"].at \in Last \cup {"second"} => ~Inflight)'
    BY <1>19, RestoredDoes DEF Inflight, Last, Cleanup, WaitsKept, ManagerIs, CallIs, Launched
  <2>5. (ops["dispose"].at \in Last => ~mgr.managed)'
    BY <1>19, RestoredDoes DEF Last, Cleanup, Inflight, ManagerIs, CallIs, Launched
  <2>6. (mgr.complete => mgr.disposed /\ ~mgr.managed /\ ops["dispose"].at = "none")'
    BY <1>19, RestoredDoes DEF Last, Cleanup, Inflight, ManagerIs, CallIs, Launched
  <2>7. (mgr.complete => ~Inflight)'
    BY <1>19, RestoredDoes DEF Inflight, Last, Cleanup, WaitsKept, ManagerIs, CallIs, Launched
  <2> QED BY <2>1, <2>2, <2>3, <2>4, <2>5, <2>6, <2>7
<1>20. ASSUME NEW how \in Outcomes, StoreInvitation(how) PROVE DisposalKept'
  BY <1>20, StoreInvitationDoes DEF Inflight, Last, Cleanup, StagesKept, WaitsKept, CallsKept, VirginKept,
     Untried, Trying, CallIs, SamePast, PastIs, RolledBack
<1>21. ASSUME NEW how \in Outcomes, StoreProfile(how) PROVE DisposalKept'
  <2>1. /\ ops["add"].at = "profile"
        /\ profile' = Invited \/ UNCHANGED profile
        /\ how = "done" /\ ~mgr.disposed =>
             /\ profile' = Invited
             /\ ManagerIs(mgr', TRUE, TRUE, TRUE, mgr.timer, mgr.disposed, mgr.complete)
             /\ LinkIs(conn', "opening", FALSE, FALSE, FALSE, {"add"}, {})
             /\ CallIs("add", "connecting", ops["add"].refs, ops["add"].todo)
        /\ ~(how = "done" /\ ~mgr.disposed) => UNCHANGED <<mgr, conn>> /\ RolledBack
        /\ SamePast
        /\ UNCHANGED secrets
    BY <1>21, StoreProfileDoes
  <2>2. (mgr.disposed => ~mgr.timer)'
    BY <2>1 DEF VirginKept, ManagerIs, LinkIs, CallIs, RolledBack
  <2>3. (mgr.disposed => ("add" \in conn.waits => conn.aborted))'
    BY <2>1 DEF Inflight, WaitsKept, ManagerIs, LinkIs, CallIs, RolledBack
  <2>4. (ops["dispose"].at # "none" => mgr.disposed)'
    BY <2>1 DEF ManagerIs, LinkIs, CallIs, RolledBack
  <2>5. (ops["dispose"].at \in Last \cup {"second"} => ~Inflight)'
    BY <2>1 DEF Inflight, Last, Cleanup, WaitsKept, ManagerIs, LinkIs, CallIs, RolledBack
  <2>6. (ops["dispose"].at \in Last => ~mgr.managed)'
    BY <2>1 DEF Last, Cleanup, Inflight, ManagerIs, LinkIs, CallIs, RolledBack
  <2>7. (mgr.complete => mgr.disposed /\ ~mgr.managed /\ ops["dispose"].at = "none")'
    BY <2>1 DEF Last, Cleanup, Inflight, ManagerIs, LinkIs, CallIs, RolledBack
  <2>8. (mgr.complete => ~Inflight)'
    BY <2>1 DEF Inflight, Last, Cleanup, WaitsKept, ManagerIs, LinkIs, CallIs, RolledBack
  <2> QED BY <2>2, <2>3, <2>4, <2>5, <2>6, <2>7, <2>8
<1>22. ASSUME NEW how \in Outcomes, StoreCandidate(how) PROVE DisposalKept'
  BY <1>22, StoreCandidateDoes DEF Inflight, Last, Cleanup, StagesKept, WaitsKept, CallsKept, VirginKept,
     Untried, Trying, SamePast, PastIs, AttemptAt, LinkIs
<1>23. ASSUME NEW how \in Outcomes, StoreComplete(how) PROVE DisposalKept'
  BY <1>23, StoreCompleteDoes DEF Inflight, Last, Cleanup, StagesKept, WaitsKept, CallsKept, VirginKept,
     Untried, Trying, SamePast, PastIs, AttemptAt, LinkIs
<1>24. ASSUME NEW how \in Outcomes, Discard(how) PROVE DisposalKept'
  BY <1>24, DiscardDoes DEF Inflight, Last, Cleanup, StagesKept, WaitsKept, CallsKept, VirginKept, Untried,
     Trying, CallIs, GivenUp, PastIs, SameManager, ManagerIs
<1>25. ASSUME NEW how \in Outcomes, Fallback(how) PROVE DisposalKept'
  BY <1>25, FallbackDoes DEF Inflight, Last, Cleanup, StagesKept, WaitsKept, CallsKept, VirginKept, Untried,
     Trying, CallIs, PastIs, SameManager, ManagerIs
<1>26. ASSUME NEW landed \in BOOLEAN, NEW left \in SUBSET Enrolled, CandidateFails(landed, left)
       PROVE  DisposalKept'
  BY <1>26, CandidateFailsDoes DEF Inflight, Last, Cleanup, StagesKept, WaitsKept, CallsKept, VirginKept,
     Untried, Trying, GivenUp, PastIs, AttemptAt, LinkIs
<1>27. ASSUME NEW state \in {"offline", "authFailed", "incompatible", "rePairRequired"}, Fail(state)
       PROVE  DisposalKept'
  <2>1. PICK s \in {"offline", "online", "authFailed", "incompatible", "rePairRequired"}, ok \in BOOLEAN :
          /\ Settles(s, ok)
          /\ conn.aborted => ok /\ s = "offline"
          /\ s = "online" => ok
          /\ ok => conn.aborted \/ s = "online"
    BY <1>27, FailDoes
  <2>2. conn.at \notin {"none", "recording"} /\ UNCHANGED <<profile, secrets, past>>
    BY <1>27, FailDoes
  <2>3. (mgr.disposed => ~mgr.timer)'
    BY <2>1, <2>2 DEF VirginKept, Settles, LinkIs, Stopped, ManagerIs, Timed, RollsBack, Refused, Closes
  <2>4. (mgr.disposed => ("add" \in conn.waits => conn.aborted))'
    BY <2>1, <2>2 DEF Inflight, WaitsKept, Settles, LinkIs, Stopped, ManagerIs, Timed, RollsBack, Refused,
       Closes
  <2>5. (ops["dispose"].at # "none" => mgr.disposed)'
    BY <2>1, <2>2 DEF Settles, LinkIs, Stopped, ManagerIs, Timed, RollsBack, Refused, Closes
  <2>6. (ops["dispose"].at \in Last \cup {"second"} => ~Inflight)'
    BY <2>1, <2>2 DEF Inflight, Last, Cleanup, WaitsKept, Settles, LinkIs, Stopped, ManagerIs, Timed,
       RollsBack, Refused, Closes
  <2>7. (ops["dispose"].at \in Last => ~mgr.managed)'
    BY <2>1, <2>2 DEF Last, Cleanup, Inflight, Settles, LinkIs, Stopped, ManagerIs, Timed, RollsBack, Refused,
       Closes
  <2>8. (mgr.complete => mgr.disposed /\ ~mgr.managed /\ ops["dispose"].at = "none")'
    <3>1. mgr'.complete = mgr.complete /\ mgr'.disposed = mgr.disposed /\ mgr'.managed = mgr.managed
      BY <2>1 DEF Settles, Stopped, Timed, ManagerIs
    <3>2. ops'["dispose"] = ops["dispose"]
      BY <2>1 DEF Settles
    <3> QED BY <3>1, <3>2
  <2>9. (mgr.complete => ~Inflight)'
    BY <2>1, <2>2 DEF Inflight, Last, Cleanup, WaitsKept, Settles, LinkIs, Stopped, ManagerIs, Timed,
       RollsBack, Refused, Closes
  <2> QED BY <2>3, <2>4, <2>5, <2>6, <2>7, <2>8, <2>9
<1>28. ASSUME NEW o \in Calls, Forget(o) PROVE DisposalKept'
  <2>1. /\ o \in {"remove", "rollback"} /\ ops[o].at = "closing" /\ ~conn.closing
        /\ ManagerIs(mgr', FALSE, FALSE, mgr.provisional, FALSE, mgr.disposed, mgr.complete)
        /\ conn.session \/ conn.at # "none" => UNCHANGED conn
        /\ ~conn.session /\ conn.at = "none" =>
             /\ conn' = NoLink
             /\ LinkIs(conn', "none", FALSE, FALSE, FALSE, {}, {})
        /\ CallIs(o, "reading", ops[o].refs, ops[o].todo)
        /\ UNCHANGED <<profile, secrets, past>>
    BY <1>28, ForgetDoes
  <2>2. (mgr.disposed => ~mgr.timer)'
    BY <2>1 DEF VirginKept, ManagerIs, LinkIs, CallIs
  <2>3. (mgr.disposed => ("add" \in conn.waits => conn.aborted))'
    BY <2>1 DEF Inflight, WaitsKept, ManagerIs, LinkIs, CallIs
  <2>4. (ops["dispose"].at # "none" => mgr.disposed)'
    BY <2>1 DEF ManagerIs, LinkIs, CallIs
  <2>5. (ops["dispose"].at \in Last \cup {"second"} => ~Inflight)'
    BY <2>1 DEF Inflight, Last, Cleanup, WaitsKept, ManagerIs, LinkIs, CallIs
  <2>6. (ops["dispose"].at \in Last => ~mgr.managed)'
    BY <2>1 DEF Last, Cleanup, Inflight, ManagerIs, LinkIs, CallIs
  <2>7. (mgr.complete => mgr.disposed /\ ~mgr.managed /\ ops["dispose"].at = "none")'
    BY <2>1 DEF Last, Cleanup, Inflight, ManagerIs, LinkIs, CallIs
  <2>8. (mgr.complete => ~Inflight)'
    BY <2>1 DEF Inflight, Last, Cleanup, WaitsKept, ManagerIs, LinkIs, CallIs
  <2> QED BY <2>2, <2>3, <2>4, <2>5, <2>6, <2>7, <2>8
<1>29. ASSUME NEW o \in Calls, NEW ok \in BOOLEAN, ReadProfile(o, ok) PROVE DisposalKept'
  BY <1>29, ReadProfileDoes DEF Inflight, Last, Cleanup, StagesKept, WaitsKept, CallsKept, VirginKept, Untried,
     Trying, CallIs, SamePast, PastIs, SameManager, ManagerIs
<1>30. ASSUME NEW o \in Calls, NEW how \in Outcomes, MarkCleanupPending(o, how) PROVE DisposalKept'
  BY <1>30, MarkCleanupPendingDoes DEF Inflight, Last, Cleanup, StagesKept, WaitsKept, CallsKept, VirginKept,
     Untried, Trying, CallIs, SamePast, PastIs, Ended, SameManager, ManagerIs
<1>31. ASSUME NEW o \in Calls, NEW how \in Outcomes, DeleteSecret(o, how) PROVE DisposalKept'
  BY <1>31, DeleteSecretDoes DEF Inflight, Last, Cleanup, StagesKept, WaitsKept, CallsKept, VirginKept,
     Untried, Trying, CallIs, SamePast, PastIs
<1>32. ASSUME NEW o \in Calls, NEW how \in Outcomes, DropReference(o, how) PROVE DisposalKept'
  <2>1. /\ ops[o].at = "dropping"
        /\ \/ UNCHANGED profile
           \/ /\ profile.st = "tomb" /\ profile.refs = ops[o].refs /\ profile' = Tomb(ops[o].refs \ {FirstOf(ops[o].todo)})
              /\ profile'.st = "tomb" /\ profile'.refs = ops[o].refs \ {FirstOf(ops[o].todo)}
        /\ \/ CallIs(o, "deleting", ops[o].refs, {})
           \/ CallIs(o, "deleting", ops[o].refs \ {FirstOf(ops[o].todo)}, ops[o].todo \ {FirstOf(ops[o].todo)})
        /\ SamePast
        /\ UNCHANGED <<secrets, mgr, conn>>
    BY <1>32, DropReferenceDoes
  <2>2. (mgr.disposed => ~mgr.timer)'
    BY <2>1 DEF VirginKept, CallIs
  <2>3. (mgr.disposed => ("add" \in conn.waits => conn.aborted))'
    BY <2>1 DEF Inflight, WaitsKept, CallIs
  <2>4. (ops["dispose"].at # "none" => mgr.disposed)'
    BY <2>1 DEF CallIs
  <2>5. (ops["dispose"].at \in Last \cup {"second"} => ~Inflight)'
    BY <2>1 DEF Inflight, Last, Cleanup, WaitsKept, CallIs
  <2>6. (ops["dispose"].at \in Last => ~mgr.managed)'
    BY <2>1 DEF Last, Cleanup, Inflight, CallIs
  <2>7. (mgr.complete => mgr.disposed /\ ~mgr.managed /\ ops["dispose"].at = "none")'
    BY <2>1 DEF Last, Cleanup, Inflight, CallIs
  <2>8. (mgr.complete => ~Inflight)'
    BY <2>1 DEF Inflight, Last, Cleanup, WaitsKept, CallIs
  <2> QED BY <2>2, <2>3, <2>4, <2>5, <2>6, <2>7, <2>8
<1>33. ASSUME NEW o \in Calls, NEW how \in Outcomes, DeleteProfile(o, how) PROVE DisposalKept'
  <2>1. /\ ops[o].at = "deleting" /\ ops[o].todo = {}
        /\ \/ /\ ops[o].refs = {} /\ profile.st = "tomb" /\ profile.refs = {} /\ profile' = NoProfile
              /\ PastIs(past', TRUE, past.late, past.leaked)
           \/ UNCHANGED profile /\ SamePast
        /\ Ended(o) /\ SameManager
        /\ UNCHANGED <<secrets, conn>>
    BY <1>33, DeleteProfileDoes
  <2>2. (mgr.disposed => ~mgr.timer)'
    BY <2>1 DEF VirginKept, Ended, CallIs, SameManager, ManagerIs
  <2>3. (mgr.disposed => ("add" \in conn.waits => conn.aborted))'
    BY <2>1 DEF Inflight, WaitsKept, Ended, CallIs, SameManager, ManagerIs
  <2>4. (ops["dispose"].at # "none" => mgr.disposed)'
    BY <2>1 DEF Ended, CallIs, SameManager, ManagerIs
  <2>5. (ops["dispose"].at \in Last \cup {"second"} => ~Inflight)'
    BY <2>1 DEF Inflight, Last, Cleanup, WaitsKept, Ended, CallIs, SameManager, ManagerIs
  <2>6. (ops["dispose"].at \in Last => ~mgr.managed)'
    BY <2>1 DEF Last, Cleanup, Inflight, Ended, CallIs, SameManager, ManagerIs
  <2>7. (mgr.complete => mgr.disposed /\ ~mgr.managed /\ ops["dispose"].at = "none")'
    BY <2>1 DEF Last, Cleanup, Inflight, Ended, CallIs, SameManager, ManagerIs
  <2>8. (mgr.complete => ~Inflight)'
    BY <2>1 DEF Inflight, Last, Cleanup, WaitsKept, Ended, CallIs, SameManager, ManagerIs
  <2> QED BY <2>2, <2>3, <2>4, <2>5, <2>6, <2>7, <2>8
<1>34. ASSUME NEW ok \in BOOLEAN, CleanupAtEnd(ok) PROVE DisposalKept'
  <2>1. /\ ops["dispose"].at = "second" /\ ~conn.closing
        /\ ManagerIs(mgr', FALSE, mgr.enabled, mgr.provisional, mgr.timer, mgr.disposed, mgr.complete)
        /\ \/ profile.st = "tomb" /\ CallIs("dispose", "deleting", profile.refs, profile.refs)
           \/ CallIs("dispose", "end", ops["dispose"].refs, ops["dispose"].todo)
        /\ SamePast
        /\ UNCHANGED <<profile, secrets, conn>>
    BY <1>34, CleanupAtEndDoes
  <2>2. (mgr.disposed => ~mgr.timer)'
    BY <2>1 DEF VirginKept, ManagerIs, CallIs
  <2>3. (mgr.disposed => ("add" \in conn.waits => conn.aborted))'
    BY <2>1 DEF Inflight, WaitsKept, ManagerIs, CallIs
  <2>4. (ops["dispose"].at # "none" => mgr.disposed)'
    BY <2>1 DEF ManagerIs, CallIs
  <2>5. (ops["dispose"].at \in Last \cup {"second"} => ~Inflight)'
    BY <2>1 DEF Inflight, Last, Cleanup, WaitsKept, ManagerIs, CallIs
  <2>6. (ops["dispose"].at \in Last => ~mgr.managed)'
    BY <2>1 DEF Last, Cleanup, Inflight, ManagerIs, CallIs
  <2>7. (mgr.complete => mgr.disposed /\ ~mgr.managed /\ ops["dispose"].at = "none")'
    BY <2>1 DEF Last, Cleanup, Inflight, ManagerIs, CallIs
  <2>8. (mgr.complete => ~Inflight)'
    BY <2>1 DEF Inflight, Last, Cleanup, WaitsKept, ManagerIs, CallIs
  <2> QED BY <2>2, <2>3, <2>4, <2>5, <2>6, <2>7, <2>8
<1>35. ASSUME NEW ok \in BOOLEAN, Restore(ok) PROVE DisposalKept'
  <2>1. /\ ManagerIs(mgr', FALSE, FALSE, FALSE, FALSE, FALSE, FALSE)
        /\ conn' = NoLink /\ LinkIs(conn', "none", FALSE, FALSE, FALSE, {}, {})
        /\ PastIs(past', past.removed, past.late, past.leaked \cup (secrets \ profile.refs))
        /\ /\ \A p \in Calls \ {"restore"} : ops'[p].at = "none" /\ ops'[p].refs = {} /\ ops'[p].todo = {}
           /\ \/ /\ profile.st = "tomb" /\ ops'["restore"].at = "deleting"
                 /\ ops'["restore"].refs = profile.refs /\ ops'["restore"].todo = profile.refs
              \/ ops'["restore"].at = "end" /\ ops'["restore"].refs = {} /\ ops'["restore"].todo = {}
        /\ UNCHANGED <<profile, secrets>>
    BY <1>35, RestoreDoes
  <2>2. (mgr.disposed => ~mgr.timer)'
    BY <2>1 DEF VirginKept, ManagerIs, LinkIs
  <2>3. (mgr.disposed => ("add" \in conn.waits => conn.aborted))'
    BY <2>1 DEF Inflight, WaitsKept, ManagerIs, LinkIs
  <2>4. (ops["dispose"].at # "none" => mgr.disposed)'
    BY <2>1 DEF ManagerIs, LinkIs
  <2>5. (ops["dispose"].at \in Last \cup {"second"} => ~Inflight)'
    BY <2>1 DEF Inflight, Last, Cleanup, WaitsKept, ManagerIs, LinkIs
  <2>6. (ops["dispose"].at \in Last => ~mgr.managed)'
    BY <2>1 DEF Last, Cleanup, Inflight, ManagerIs, LinkIs
  <2>7. (mgr.complete => mgr.disposed /\ ~mgr.managed /\ ops["dispose"].at = "none")'
    BY <2>1 DEF Last, Cleanup, Inflight, ManagerIs, LinkIs
  <2>8. (mgr.complete => ~Inflight)'
    BY <2>1 DEF Inflight, Last, Cleanup, WaitsKept, ManagerIs, LinkIs
  <2> QED BY <2>2, <2>3, <2>4, <2>5, <2>6, <2>7, <2>8
<1> QED BY <1>1, <1>2, <1>3, <1>4, <1>5, <1>6, <1>7, <1>8, <1>9, <1>10, <1>11, <1>12, <1>13, <1>14, <1>15,
   <1>16, <1>17, <1>18, <1>19, <1>20, <1>21, <1>22, <1>23, <1>24, <1>25, <1>26, <1>27, <1>28, <1>29, <1>30,
   <1>31, <1>32, <1>33, <1>34, <1>35 DEF LinksNext

\* A late try stays one.
LEMMA LateStays ==
  ASSUME LinksTyped, LinksNext, ~past'.late
  PROVE  ~past.late
<1>1. ASSUME Add PROVE ~past.late
  BY <1>1, AddDoes
<1>2. ASSUME Connect PROVE ~past.late
  BY <1>2, ConnectDoes DEF SamePast, PastIs
<1>3. ASSUME Disconnect PROVE ~past.late
  BY <1>3, DisconnectDoes
<1>4. ASSUME RemovePeer PROVE ~past.late
  BY <1>4, RemovePeerDoes
<1>5. ASSUME ReconnectTimer PROVE ~past.late
  BY <1>5, ReconnectTimerDoes
<1>6. ASSUME TryConnect PROVE ~past.late
  BY <1>6, TryConnectDoes DEF PastIs, Leaving
<1>7. ASSUME LoseOwnership PROVE ~past.late
  BY <1>7, LoseOwnershipDoes
<1>8. ASSUME Open PROVE ~past.late
  BY <1>8, OpenDoes
<1>9. ASSUME StoreCredentials PROVE ~past.late
  BY <1>9, StoreCredentialsDoes DEF PastIs
<1>10. ASSUME StoreCredentialsFails PROVE ~past.late
  BY <1>10, StoreCredentialsFailsDoes DEF GivenUp, PastIs
<1>11. ASSUME PeerReplied PROVE ~past.late
  BY <1>11, PeerRepliedDoes
<1>12. ASSUME DropEnrollmentKeys PROVE ~past.late
  BY <1>12, DropEnrollmentKeysDoes DEF SamePast, PastIs
<1>13. ASSUME Established PROVE ~past.late
  BY <1>13, EstablishedDoes
<1>14. ASSUME SessionCloses PROVE ~past.late
  BY <1>14, SessionClosesDoes
<1>15. ASSUME Disconnected PROVE ~past.late
  BY <1>15, DisconnectedDoes DEF PastIs, Leaving
<1>16. ASSUME Dispose PROVE ~past.late
  BY <1>16, DisposeDoes
<1>17. ASSUME Drained PROVE ~past.late
  BY <1>17, DrainedDoes
<1>18. ASSUME Disposed PROVE ~past.late
  BY <1>18, DisposedDoes
<1>19. ASSUME Restored PROVE ~past.late
  BY <1>19, RestoredDoes
<1>20. ASSUME NEW how \in Outcomes, StoreInvitation(how) PROVE ~past.late
  BY <1>20, StoreInvitationDoes DEF SamePast, PastIs
<1>21. ASSUME NEW how \in Outcomes, StoreProfile(how) PROVE ~past.late
  BY <1>21, StoreProfileDoes DEF SamePast, PastIs
<1>22. ASSUME NEW how \in Outcomes, StoreCandidate(how) PROVE ~past.late
  BY <1>22, StoreCandidateDoes DEF SamePast, PastIs
<1>23. ASSUME NEW how \in Outcomes, StoreComplete(how) PROVE ~past.late
  BY <1>23, StoreCompleteDoes DEF SamePast, PastIs
<1>24. ASSUME NEW how \in Outcomes, Discard(how) PROVE ~past.late
  BY <1>24, DiscardDoes DEF GivenUp, PastIs
<1>25. ASSUME NEW how \in Outcomes, Fallback(how) PROVE ~past.late
  BY <1>25, FallbackDoes DEF PastIs
<1>26. ASSUME NEW landed \in BOOLEAN, NEW left \in SUBSET Enrolled, CandidateFails(landed, left)
       PROVE  ~past.late
  BY <1>26, CandidateFailsDoes DEF GivenUp, PastIs
<1>27. ASSUME NEW state \in {"offline", "authFailed", "incompatible", "rePairRequired"}, Fail(state)
       PROVE  ~past.late
  BY <1>27, FailDoes
<1>28. ASSUME NEW o \in Calls, Forget(o) PROVE ~past.late
  BY <1>28, ForgetDoes
<1>29. ASSUME NEW o \in Calls, NEW ok \in BOOLEAN, ReadProfile(o, ok) PROVE ~past.late
  BY <1>29, ReadProfileDoes DEF SamePast, PastIs
<1>30. ASSUME NEW o \in Calls, NEW how \in Outcomes, MarkCleanupPending(o, how) PROVE ~past.late
  BY <1>30, MarkCleanupPendingDoes DEF SamePast, PastIs
<1>31. ASSUME NEW o \in Calls, NEW how \in Outcomes, DeleteSecret(o, how) PROVE ~past.late
  BY <1>31, DeleteSecretDoes DEF SamePast, PastIs
<1>32. ASSUME NEW o \in Calls, NEW how \in Outcomes, DropReference(o, how) PROVE ~past.late
  BY <1>32, DropReferenceDoes DEF SamePast, PastIs
<1>33. ASSUME NEW o \in Calls, NEW how \in Outcomes, DeleteProfile(o, how) PROVE ~past.late
  BY <1>33, DeleteProfileDoes DEF SamePast, PastIs
<1>34. ASSUME NEW ok \in BOOLEAN, CleanupAtEnd(ok) PROVE ~past.late
  BY <1>34, CleanupAtEndDoes DEF SamePast, PastIs
<1>35. ASSUME NEW ok \in BOOLEAN, Restore(ok) PROVE ~past.late
  BY <1>35, RestoreDoes DEF PastIs
<1> QED BY <1>1, <1>2, <1>3, <1>4, <1>5, <1>6, <1>7, <1>8, <1>9, <1>10, <1>11, <1>12, <1>13, <1>14, <1>15,
   <1>16, <1>17, <1>18, <1>19, <1>20, <1>21, <1>22, <1>23, <1>24, <1>25, <1>26, <1>27, <1>28, <1>29, <1>30,
   <1>31, <1>32, <1>33, <1>34, <1>35 DEF LinksNext
\* AttemptKept is kept by every step.
LEMMA AttemptKeptStep ==
  ASSUME LinksTyped, LinksKept, LinksNext, ~past'.late
  PROVE  AttemptKept'
<1>0. StagesKept /\ VirginKept /\ WaitsKept /\ ProvisionalKept /\ CallsKept /\ DisposalKept /\ AttemptKept /\ EndsKept
  BY LateStays DEF LinksKept, Punctual
<1> USE <1>0, StateIs, CallsAre DEF AttemptKept
<1>1. ASSUME Add PROVE AttemptKept'
  BY <1>1, AddDoes DEF CallIs
<1>2. ASSUME Connect PROVE AttemptKept'
  <2>1. /\ ~mgr.disposed /\ profile.st = "complete" /\ ops["remove"].at = "none" /\ ops["rollback"].at = "none"
           /\ "connect" \notin conn.waits \cup conn.again /\ (mgr.managed \/ conn.at = "none")
        /\ mgr.managed => ManagerIs(mgr', TRUE, TRUE, mgr.provisional, FALSE, mgr.disposed, mgr.complete)
        /\ ~mgr.managed => ManagerIs(mgr', TRUE, TRUE, FALSE, FALSE, mgr.disposed, mgr.complete)
        /\ mgr.managed => Joined(conn', conn, "connect")
        /\ ~mgr.managed => LinkIs(conn', "opening", FALSE, FALSE, FALSE, {"connect"}, {})
        /\ SamePast
        /\ UNCHANGED <<profile, secrets, ops>>
    BY <1>2, ConnectDoes
  <2>2. mgr.managed =>
        /\ ("add" \in conn'.waits => "add" \in conn.waits) /\ ("add" \in conn'.again <=> "add" \in conn.again)
        /\ ("try" \in conn'.waits => "try" \in conn.waits) /\ ("try" \in conn'.again <=> "try" \in conn.again)
        /\ (conn'.closing <=> conn.closing) /\ (conn'.session <=> conn.session)
        /\ conn.at # "none" => conn'.at = conn.at
        /\ conn.at = "none" => conn'.at \in {"none", "opening"}
    BY <2>1, JoinedAre
  <2>3. (conn.at \in {"enrolling", "recording"} => profile.st = "invited")'
    BY <2>1, <2>2 DEF WaitsKept, ManagerIs, LinkIs, SamePast, PastIs, Joined
  <2>4. (conn.at \in {"committing", "completing", "storing"} => profile.st = "candidate")'
    BY <2>1, <2>2 DEF WaitsKept, ManagerIs, LinkIs, SamePast, PastIs, Joined
  <2>5. ("connect" \in conn.waits \cup conn.again => profile.st \notin {"invited", "candidate"})'
    BY <2>1, <2>2 DEF ManagerIs, LinkIs, SamePast, PastIs, Joined
  <2> QED BY <2>3, <2>4, <2>5
<1>3. ASSUME Disconnect PROVE AttemptKept'
  BY <1>3, DisconnectDoes DEF Closed, LinkIs, Stopped, ManagerIs
<1>4. ASSUME RemovePeer PROVE AttemptKept'
  BY <1>4, RemovePeerDoes DEF CallIs, Closed, LinkIs, Stopped, ManagerIs
<1>5. ASSUME ReconnectTimer PROVE AttemptKept'
  BY <1>5, ReconnectTimerDoes DEF ManagerIs, CallIs
<1>6. ASSUME TryConnect PROVE AttemptKept'
  <2>1. /\ ops["try"].at = "owner"
        /\ CallIs("try", "none", {}, {})
        /\ \/ UNCHANGED mgr /\ Joined(conn', conn, "try") /\ PastIs(past', past.removed, past.late \/ Leaving, past.leaked)
           \/ /\ ManagerIs(mgr', mgr.managed, mgr.enabled, mgr.provisional, mgr.timer, mgr.disposed, mgr.complete)
              /\ UNCHANGED <<conn, past>>
        /\ UNCHANGED <<profile, secrets>>
    BY <1>6, TryConnectDoes
  <2>2. UNCHANGED conn \/
        /\ ("add" \in conn'.waits => "add" \in conn.waits) /\ ("add" \in conn'.again <=> "add" \in conn.again)
        /\ ("connect" \in conn'.waits =>
             /\ "connect" \in conn.waits)
             /\ ("connect" \in conn'.again <=> "connect" \in conn.again)
        /\ (conn'.closing <=> conn.closing) /\ (conn'.session <=> conn.session)
        /\ conn.at # "none" => conn'.at = conn.at
        /\ conn.at = "none" => conn'.at \in {"none", "opening"}
        /\ "try" \notin conn.waits \cup conn.again => "try" \notin conn'.waits \/ "try" \notin conn'.again
    BY <2>1, JoinedAre
  <2>3. (conn.at \in {"enrolling", "recording"} => profile.st = "invited")'
    BY <2>1, <2>2 DEF WaitsKept, ManagerIs, CallIs, PastIs, Joined, LinkIs, Leaving
  <2>4. (conn.at \in {"committing", "completing", "storing"} => profile.st = "candidate")'
    BY <2>1, <2>2 DEF WaitsKept, ManagerIs, CallIs, PastIs, Joined, LinkIs, Leaving
  <2>5. ("connect" \in conn.waits \cup conn.again => profile.st \notin {"invited", "candidate"})'
    BY <2>1, <2>2 DEF ManagerIs, CallIs, PastIs, Joined, LinkIs, Leaving
  <2> QED BY <2>3, <2>4, <2>5
<1>7. ASSUME LoseOwnership PROVE AttemptKept'
  BY <1>7, LoseOwnershipDoes DEF SameManager, ManagerIs
<1>8. ASSUME Open PROVE AttemptKept'
  BY <1>8, OpenDoes DEF AttemptAt, LinkIs
<1>9. ASSUME StoreCredentials PROVE AttemptKept'
  BY <1>9, StoreCredentialsDoes DEF PastIs, AttemptAt, LinkIs
<1>10. ASSUME StoreCredentialsFails PROVE AttemptKept'
  BY <1>10, StoreCredentialsFailsDoes DEF GivenUp, PastIs, AttemptAt, LinkIs
<1>11. ASSUME PeerReplied PROVE AttemptKept'
  BY <1>11, PeerRepliedDoes DEF AttemptAt, LinkIs
<1>12. ASSUME DropEnrollmentKeys PROVE AttemptKept'
  BY <1>12, DropEnrollmentKeysDoes DEF SamePast, PastIs, AttemptAt, LinkIs
<1>13. ASSUME Established PROVE AttemptKept'
  <2>1. PICK s \in {"offline", "online", "authFailed", "incompatible", "rePairRequired"}, ok \in BOOLEAN :
          /\ Settles(s, ok)
          /\ conn.aborted => ok /\ s = "offline"
          /\ s = "online" => ok
          /\ ok => conn.aborted \/ s = "online"
    BY <1>13, EstablishedDoes
  <2>2. conn.at = "authenticated" /\ UNCHANGED <<profile, secrets, past>>
    BY <1>13, EstablishedDoes
  <2>3. (conn.at \in {"enrolling", "recording"} => profile.st = "invited")'
    BY <2>1, <2>2 DEF WaitsKept, Settles, LinkIs, Stopped, ManagerIs, Timed, RollsBack, Refused, Closes
  <2>4. (conn.at \in {"committing", "completing", "storing"} => profile.st = "candidate")'
    BY <2>1, <2>2 DEF WaitsKept, Settles, LinkIs, Stopped, ManagerIs, Timed, RollsBack, Refused, Closes
  <2>5. ("connect" \in conn.waits \cup conn.again => profile.st \notin {"invited", "candidate"})'
    BY <2>1, <2>2 DEF Settles, LinkIs, Stopped, ManagerIs, Timed, RollsBack, Refused, Closes
  <2> QED BY <2>3, <2>4, <2>5
<1>14. ASSUME SessionCloses PROVE AttemptKept'
  BY <1>14, SessionClosesDoes DEF LinkIs, Timed, ManagerIs
<1>15. ASSUME Disconnected PROVE AttemptKept'
  <2>1. (conn.at \in {"enrolling", "recording"} => profile.st = "invited")'
    BY <1>15, DisconnectedDoes DEF WaitsKept, LinkIs, PastIs, Leaving
  <2>2. (conn.at \in {"committing", "completing", "storing"} => profile.st = "candidate")'
    BY <1>15, DisconnectedDoes DEF WaitsKept, LinkIs, PastIs, Leaving
  <2>3. ("connect" \in conn.waits \cup conn.again => profile.st \notin {"invited", "candidate"})'
    BY <1>15, DisconnectedDoes DEF LinkIs, PastIs, Leaving
  <2> QED BY <2>1, <2>2, <2>3
<1>16. ASSUME Dispose PROVE AttemptKept'
  BY <1>16, DisposeDoes DEF ManagerIs, CallIs, Closed, LinkIs
<1>17. ASSUME Drained PROVE AttemptKept'
  BY <1>17, DrainedDoes DEF CallIs, Closed, LinkIs, Stopped, ManagerIs
<1>18. ASSUME Disposed PROVE AttemptKept'
  BY <1>18, DisposedDoes DEF ManagerIs, CallIs
<1>19. ASSUME Restored PROVE AttemptKept'
  BY <1>19, RestoredDoes DEF ManagerIs, CallIs, Launched
<1>20. ASSUME NEW how \in Outcomes, StoreInvitation(how) PROVE AttemptKept'
  BY <1>20, StoreInvitationDoes DEF CallIs, SamePast, PastIs, RolledBack
<1>21. ASSUME NEW how \in Outcomes, StoreProfile(how) PROVE AttemptKept'
  <2>1. /\ ops["add"].at = "profile"
        /\ profile' = Invited \/ UNCHANGED profile
        /\ how = "done" /\ ~mgr.disposed =>
             /\ profile' = Invited
             /\ ManagerIs(mgr', TRUE, TRUE, TRUE, mgr.timer, mgr.disposed, mgr.complete)
             /\ LinkIs(conn', "opening", FALSE, FALSE, FALSE, {"add"}, {})
             /\ CallIs("add", "connecting", ops["add"].refs, ops["add"].todo)
        /\ ~(how = "done" /\ ~mgr.disposed) => UNCHANGED <<mgr, conn>> /\ RolledBack
        /\ SamePast
        /\ UNCHANGED secrets
    BY <1>21, StoreProfileDoes
  <2>2. (conn.at \in {"enrolling", "recording"} => profile.st = "invited")'
    BY <2>1 DEF WaitsKept, ManagerIs, LinkIs, CallIs, SamePast, PastIs, RolledBack, VirginKept
  <2>3. (conn.at \in {"committing", "completing", "storing"} => profile.st = "candidate")'
    BY <2>1 DEF WaitsKept, ManagerIs, LinkIs, CallIs, SamePast, PastIs, RolledBack, VirginKept
  <2>4. ("connect" \in conn.waits \cup conn.again => profile.st \notin {"invited", "candidate"})'
    BY <2>1 DEF ManagerIs, LinkIs, CallIs, SamePast, PastIs, RolledBack, VirginKept
  <2> QED BY <2>2, <2>3, <2>4
<1>22. ASSUME NEW how \in Outcomes, StoreCandidate(how) PROVE AttemptKept'
  BY <1>22, StoreCandidateDoes DEF SamePast, PastIs, AttemptAt, LinkIs
<1>23. ASSUME NEW how \in Outcomes, StoreComplete(how) PROVE AttemptKept'
  BY <1>23, StoreCompleteDoes DEF SamePast, PastIs, AttemptAt, LinkIs
<1>24. ASSUME NEW how \in Outcomes, Discard(how) PROVE AttemptKept'
  BY <1>24, DiscardDoes DEF CallIs, GivenUp, PastIs, SameManager, ManagerIs
<1>25. ASSUME NEW how \in Outcomes, Fallback(how) PROVE AttemptKept'
  BY <1>25, FallbackDoes DEF CallIs, PastIs, SameManager, ManagerIs
<1>26. ASSUME NEW landed \in BOOLEAN, NEW left \in SUBSET Enrolled, CandidateFails(landed, left)
       PROVE  AttemptKept'
  BY <1>26, CandidateFailsDoes DEF GivenUp, PastIs, AttemptAt, LinkIs
<1>27. ASSUME NEW state \in {"offline", "authFailed", "incompatible", "rePairRequired"}, Fail(state)
       PROVE  AttemptKept'
  <2>1. PICK s \in {"offline", "online", "authFailed", "incompatible", "rePairRequired"}, ok \in BOOLEAN :
          /\ Settles(s, ok)
          /\ conn.aborted => ok /\ s = "offline"
          /\ s = "online" => ok
          /\ ok => conn.aborted \/ s = "online"
    BY <1>27, FailDoes
  <2>2. conn.at \notin {"none", "recording"} /\ UNCHANGED <<profile, secrets, past>>
    BY <1>27, FailDoes
  <2>3. (conn.at \in {"enrolling", "recording"} => profile.st = "invited")'
    BY <2>1, <2>2 DEF WaitsKept, Settles, LinkIs, Stopped, ManagerIs, Timed, RollsBack, Refused, Closes
  <2>4. (conn.at \in {"committing", "completing", "storing"} => profile.st = "candidate")'
    BY <2>1, <2>2 DEF WaitsKept, Settles, LinkIs, Stopped, ManagerIs, Timed, RollsBack, Refused, Closes
  <2>5. ("connect" \in conn.waits \cup conn.again => profile.st \notin {"invited", "candidate"})'
    BY <2>1, <2>2 DEF Settles, LinkIs, Stopped, ManagerIs, Timed, RollsBack, Refused, Closes
  <2> QED BY <2>3, <2>4, <2>5
<1>28. ASSUME NEW o \in Calls, Forget(o) PROVE AttemptKept'
  <2>1. /\ o \in {"remove", "rollback"} /\ ops[o].at = "closing" /\ ~conn.closing
        /\ ManagerIs(mgr', FALSE, FALSE, mgr.provisional, FALSE, mgr.disposed, mgr.complete)
        /\ conn.session \/ conn.at # "none" => UNCHANGED conn
        /\ ~conn.session /\ conn.at = "none" =>
             /\ conn' = NoLink
             /\ LinkIs(conn', "none", FALSE, FALSE, FALSE, {}, {})
        /\ CallIs(o, "reading", ops[o].refs, ops[o].todo)
        /\ UNCHANGED <<profile, secrets, past>>
    BY <1>28, ForgetDoes
  <2>2. (conn.at \in {"enrolling", "recording"} => profile.st = "invited")'
    BY <2>1 DEF WaitsKept, ManagerIs, LinkIs, CallIs
  <2>3. (conn.at \in {"committing", "completing", "storing"} => profile.st = "candidate")'
    BY <2>1 DEF WaitsKept, ManagerIs, LinkIs, CallIs
  <2>4. ("connect" \in conn.waits \cup conn.again => profile.st \notin {"invited", "candidate"})'
    BY <2>1 DEF ManagerIs, LinkIs, CallIs
  <2> QED BY <2>2, <2>3, <2>4
<1>29. ASSUME NEW o \in Calls, NEW ok \in BOOLEAN, ReadProfile(o, ok) PROVE AttemptKept'
  BY <1>29, ReadProfileDoes DEF CallIs, SamePast, PastIs, SameManager, ManagerIs
<1>30. ASSUME NEW o \in Calls, NEW how \in Outcomes, MarkCleanupPending(o, how) PROVE AttemptKept'
  <2>1. /\ ops[o].at = "marking"
        /\ \/ UNCHANGED profile
           \/ /\ profile.st \notin {"none", "tomb"} /\ profile.refs = ops[o].refs /\ profile' = Tomb(ops[o].refs)
              /\ profile'.st = "tomb" /\ profile'.refs = ops[o].refs
        /\ Ended(o) \/ CallIs(o, "deleting", ops[o].refs, ops[o].refs)
        /\ SameManager
        /\ SamePast
        /\ UNCHANGED <<secrets, conn>>
    BY <1>30, MarkCleanupPendingDoes
  <2>2. (conn.at \in {"enrolling", "recording"} => profile.st = "invited")'
    <3>1. CASE profile.st \notin {"none", "tomb"} /\ profile.refs = ops[o].refs
      <4>1. o \in {"remove", "rollback"}
        BY <2>1 DEF StagesKept, Cleanup, Calls
      <4>2. o = "remove" => conn.at = "none"
        BY <2>1 DEF EndsKept
      <4>3. o = "rollback" => conn.waits \subseteq {"connect"}
        BY <2>1, WaitsAre DEF EndsKept, Alone, Trying, CallsKept, WaitsKept
      <4>4. conn.at \notin {"enrolling", "recording", "committing", "completing", "storing"}
        BY <4>1, <4>2, <4>3 DEF WaitsKept
      <4> QED BY <2>1, <4>4
    <3>2. CASE ~(profile.st \notin {"none", "tomb"} /\ profile.refs = ops[o].refs)
      BY <2>1, <3>2
    <3> QED BY <3>1, <3>2
  <2>3. (conn.at \in {"committing", "completing", "storing"} => profile.st = "candidate")'
    <3>1. CASE profile.st \notin {"none", "tomb"} /\ profile.refs = ops[o].refs
      <4>1. o \in {"remove", "rollback"}
        BY <2>1 DEF StagesKept, Cleanup, Calls
      <4>2. o = "remove" => conn.at = "none"
        BY <2>1 DEF EndsKept
      <4>3. o = "rollback" => conn.waits \subseteq {"connect"}
        BY <2>1, WaitsAre DEF EndsKept, Alone, Trying, CallsKept, WaitsKept
      <4>4. conn.at \notin {"enrolling", "recording", "committing", "completing", "storing"}
        BY <4>1, <4>2, <4>3 DEF WaitsKept
      <4> QED BY <2>1, <4>4
    <3>2. CASE ~(profile.st \notin {"none", "tomb"} /\ profile.refs = ops[o].refs)
      BY <2>1, <3>2
    <3> QED BY <3>1, <3>2
  <2>4. ("connect" \in conn.waits \cup conn.again => profile.st \notin {"invited", "candidate"})'
    BY <2>1 DEF CallIs, SamePast, PastIs, Ended, SameManager, ManagerIs, EndsKept, Alone, Trying, WaitsKept,
       CallsKept, StagesKept, Cleanup
  <2> QED BY <2>2, <2>3, <2>4
<1>31. ASSUME NEW o \in Calls, NEW how \in Outcomes, DeleteSecret(o, how) PROVE AttemptKept'
  BY <1>31, DeleteSecretDoes DEF CallIs, SamePast, PastIs
<1>32. ASSUME NEW o \in Calls, NEW how \in Outcomes, DropReference(o, how) PROVE AttemptKept'
  <2>1. /\ ops[o].at = "dropping"
        /\ \/ UNCHANGED profile
           \/ /\ profile.st = "tomb" /\ profile.refs = ops[o].refs /\ profile' = Tomb(ops[o].refs \ {FirstOf(ops[o].todo)})
              /\ profile'.st = "tomb" /\ profile'.refs = ops[o].refs \ {FirstOf(ops[o].todo)}
        /\ \/ CallIs(o, "deleting", ops[o].refs, {})
           \/ CallIs(o, "deleting", ops[o].refs \ {FirstOf(ops[o].todo)}, ops[o].todo \ {FirstOf(ops[o].todo)})
        /\ SamePast
        /\ UNCHANGED <<secrets, mgr, conn>>
    BY <1>32, DropReferenceDoes
  <2>2. (conn.at \in {"enrolling", "recording"} => profile.st = "invited")'
    BY <2>1 DEF WaitsKept, CallIs, SamePast, PastIs
  <2>3. (conn.at \in {"committing", "completing", "storing"} => profile.st = "candidate")'
    BY <2>1 DEF WaitsKept, CallIs, SamePast, PastIs
  <2>4. ("connect" \in conn.waits \cup conn.again => profile.st \notin {"invited", "candidate"})'
    BY <2>1 DEF CallIs, SamePast, PastIs
  <2> QED BY <2>2, <2>3, <2>4
<1>33. ASSUME NEW o \in Calls, NEW how \in Outcomes, DeleteProfile(o, how) PROVE AttemptKept'
  BY <1>33, DeleteProfileDoes DEF SamePast, PastIs, Ended, CallIs, SameManager, ManagerIs
<1>34. ASSUME NEW ok \in BOOLEAN, CleanupAtEnd(ok) PROVE AttemptKept'
  BY <1>34, CleanupAtEndDoes DEF ManagerIs, CallIs, SamePast, PastIs
<1>35. ASSUME NEW ok \in BOOLEAN, Restore(ok) PROVE AttemptKept'
  BY <1>35, RestoreDoes DEF ManagerIs, LinkIs, PastIs
<1> QED BY <1>1, <1>2, <1>3, <1>4, <1>5, <1>6, <1>7, <1>8, <1>9, <1>10, <1>11, <1>12, <1>13, <1>14, <1>15,
   <1>16, <1>17, <1>18, <1>19, <1>20, <1>21, <1>22, <1>23, <1>24, <1>25, <1>26, <1>27, <1>28, <1>29, <1>30,
   <1>31, <1>32, <1>33, <1>34, <1>35 DEF LinksNext

\* EndsKept is kept by every step.
LEMMA EndsKeptStep ==
  ASSUME LinksTyped, LinksKept, LinksNext, ~past'.late
  PROVE  EndsKept'
<1>0. StagesKept /\ VirginKept /\ WaitsKept /\ ProvisionalKept /\ CallsKept /\ DisposalKept /\ AttemptKept /\ EndsKept
  BY LateStays DEF LinksKept, Punctual
<1> USE <1>0, StateIs, CallsAre DEF EndsKept
<1>1. ASSUME Add PROVE EndsKept'
  BY <1>1, AddDoes DEF Alone, Trying, Last, Cleanup, CallIs
<1>2. ASSUME Connect PROVE EndsKept'
  <2>1. /\ ~mgr.disposed /\ profile.st = "complete" /\ ops["remove"].at = "none" /\ ops["rollback"].at = "none"
           /\ "connect" \notin conn.waits \cup conn.again /\ (mgr.managed \/ conn.at = "none")
        /\ mgr.managed => ManagerIs(mgr', TRUE, TRUE, mgr.provisional, FALSE, mgr.disposed, mgr.complete)
        /\ ~mgr.managed => ManagerIs(mgr', TRUE, TRUE, FALSE, FALSE, mgr.disposed, mgr.complete)
        /\ mgr.managed => Joined(conn', conn, "connect")
        /\ ~mgr.managed => LinkIs(conn', "opening", FALSE, FALSE, FALSE, {"connect"}, {})
        /\ SamePast
        /\ UNCHANGED <<profile, secrets, ops>>
    BY <1>2, ConnectDoes
  <2>2. mgr.managed =>
        /\ ("add" \in conn'.waits => "add" \in conn.waits) /\ ("add" \in conn'.again <=> "add" \in conn.again)
        /\ ("try" \in conn'.waits => "try" \in conn.waits) /\ ("try" \in conn'.again <=> "try" \in conn.again)
        /\ (conn'.closing <=> conn.closing) /\ (conn'.session <=> conn.session)
        /\ conn.at # "none" => conn'.at = conn.at
        /\ conn.at = "none" => conn'.at \in {"none", "opening"}
    BY <2>1, JoinedAre
  <2>3. (~mgr.managed => Alone)'
    BY <2>1, <2>2 DEF Alone, Trying, ManagerIs, LinkIs, SamePast, PastIs, Joined, DisposalKept
  <2>4. (ops["rollback"].at # "none" => Alone)'
    BY <2>1, <2>2 DEF Alone, Trying, ManagerIs, LinkIs, SamePast, PastIs, Joined, DisposalKept
  <2>5. (ops["remove"].at = "closing" => conn.closing \/ (conn.at = "none" /\ ~conn.session))'
    BY <2>1, <2>2 DEF ManagerIs, LinkIs, SamePast, PastIs, Joined, DisposalKept
  <2>6. (ops["remove"].at \notin {"none", "closing"} => conn.at = "none" /\ conn.again = {})'
    BY <2>1, <2>2 DEF Cleanup, ManagerIs, LinkIs, SamePast, PastIs, Joined, DisposalKept
  <2>7. (ops["dispose"].at = "second" /\ conn.session => conn.closing)'
    BY <2>1, <2>2 DEF ManagerIs, LinkIs, SamePast, PastIs, Joined, DisposalKept
  <2>8. (ops["dispose"].at \in Last \/ mgr.complete => ~conn.session)'
    BY <2>1, <2>2 DEF Last, Cleanup, ManagerIs, LinkIs, SamePast, PastIs, Joined, DisposalKept
  <2>9. (past.removed => profile.st \in {"none", "tomb"})'
    BY <2>1, <2>2 DEF ManagerIs, LinkIs, SamePast, PastIs, Joined, DisposalKept
  <2> QED BY <2>3, <2>4, <2>5, <2>6, <2>7, <2>8, <2>9
<1>3. ASSUME Disconnect PROVE EndsKept'
  <2>1. (~mgr.managed => Alone)'
    BY <1>3, DisconnectDoes DEF Alone, Trying, Closed, LinkIs, Stopped, ManagerIs
  <2>2. (ops["rollback"].at # "none" => Alone)'
    BY <1>3, DisconnectDoes DEF Alone, Trying, Closed, LinkIs, Stopped, ManagerIs
  <2>3. (ops["remove"].at = "closing" => conn.closing \/ (conn.at = "none" /\ ~conn.session))'
    BY <1>3, DisconnectDoes DEF Closed, LinkIs, Stopped, ManagerIs
  <2>4. (ops["remove"].at \notin {"none", "closing"} => conn.at = "none" /\ conn.again = {})'
    BY <1>3, DisconnectDoes DEF Cleanup, Closed, LinkIs, Stopped, ManagerIs
  <2>5. (ops["dispose"].at = "second" /\ conn.session => conn.closing)'
    BY <1>3, DisconnectDoes DEF Closed, LinkIs, Stopped, ManagerIs
  <2>6. (ops["dispose"].at \in Last \/ mgr.complete => ~conn.session)'
    BY <1>3, DisconnectDoes DEF Last, Cleanup, Closed, LinkIs, Stopped, ManagerIs
  <2>7. (past.removed => profile.st \in {"none", "tomb"})'
    BY <1>3, DisconnectDoes DEF Closed, LinkIs, Stopped, ManagerIs
  <2> QED BY <2>1, <2>2, <2>3, <2>4, <2>5, <2>6, <2>7
<1>4. ASSUME RemovePeer PROVE EndsKept'
  <2>1. /\ ops["remove"].at = "none" /\ profile.st # "none" /\ ops["restore"].at = "none"
           /\ "connect" \notin conn.waits \cup conn.again
        /\ mgr.managed =>
             /\ Stopped(mgr', mgr)
             /\ Closed(conn', conn)
             /\ CallIs("remove", "closing", ops["remove"].refs, ops["remove"].todo)
        /\ ~mgr.managed =>
             /\ UNCHANGED <<mgr, conn>>
             /\ CallIs("remove", "reading", ops["remove"].refs, ops["remove"].todo)
        /\ UNCHANGED <<profile, secrets, past>>
    BY <1>4, RemovePeerDoes
  <2>2. (~mgr.managed => Alone)'
    BY <2>1 DEF Alone, Trying, CallIs, Closed, LinkIs, Stopped, ManagerIs, WaitsKept
  <2>3. (ops["rollback"].at # "none" => Alone)'
    BY <2>1 DEF Alone, Trying, CallIs, Closed, LinkIs, Stopped, ManagerIs, WaitsKept
  <2>4. (ops["remove"].at = "closing" => conn.closing \/ (conn.at = "none" /\ ~conn.session))'
    BY <2>1 DEF CallIs, Closed, LinkIs, Stopped, ManagerIs, Alone, Trying, WaitsKept
  <2>5. (ops["remove"].at \notin {"none", "closing"} => conn.at = "none" /\ conn.again = {})'
    <3>1. CASE mgr.managed
      <4>1. CallIs("remove", "closing", ops["remove"].refs, ops["remove"].todo)
        BY <2>1, <3>1
      <4> QED BY <4>1 DEF CallIs
    <3>2. CASE ~mgr.managed
      <4>1. UNCHANGED conn
        BY <2>1, <3>2
      <4>2. "try" \notin conn.waits \cup conn.again /\ "add" \notin conn.waits \cup conn.again
        BY <3>2 DEF Alone, Trying, WaitsKept
      <4>3. conn.waits = {} /\ conn.again = {}
        BY <2>1, <4>2, WaitsAre
      <4> QED BY <4>1, <4>3 DEF WaitsKept
    <3> QED BY <3>1, <3>2
  <2>6. (ops["dispose"].at = "second" /\ conn.session => conn.closing)'
    BY <2>1 DEF CallIs, Closed, LinkIs, Stopped, ManagerIs, Alone, Trying, WaitsKept
  <2>7. (ops["dispose"].at \in Last \/ mgr.complete => ~conn.session)'
    BY <2>1 DEF Last, Cleanup, CallIs, Closed, LinkIs, Stopped, ManagerIs, Alone, Trying, WaitsKept
  <2>8. (past.removed => profile.st \in {"none", "tomb"})'
    BY <2>1 DEF CallIs, Closed, LinkIs, Stopped, ManagerIs, Alone, Trying, WaitsKept
  <2> QED BY <2>2, <2>3, <2>4, <2>5, <2>6, <2>7, <2>8
<1>5. ASSUME ReconnectTimer PROVE EndsKept'
  BY <1>5, ReconnectTimerDoes DEF Alone, Trying, Last, Cleanup, ManagerIs, CallIs
<1>6. ASSUME TryConnect PROVE EndsKept'
  <2>1. /\ ops["try"].at = "owner"
        /\ CallIs("try", "none", {}, {})
        /\ \/ UNCHANGED mgr /\ Joined(conn', conn, "try") /\ PastIs(past', past.removed, past.late \/ Leaving, past.leaked)
           \/ /\ ManagerIs(mgr', mgr.managed, mgr.enabled, mgr.provisional, mgr.timer, mgr.disposed, mgr.complete)
              /\ UNCHANGED <<conn, past>>
        /\ UNCHANGED <<profile, secrets>>
    BY <1>6, TryConnectDoes
  <2>2. UNCHANGED conn \/
        /\ ("add" \in conn'.waits => "add" \in conn.waits) /\ ("add" \in conn'.again <=> "add" \in conn.again)
        /\ ("connect" \in conn'.waits =>
             /\ "connect" \in conn.waits)
             /\ ("connect" \in conn'.again <=> "connect" \in conn.again)
        /\ (conn'.closing <=> conn.closing) /\ (conn'.session <=> conn.session)
        /\ conn.at # "none" => conn'.at = conn.at
        /\ conn.at = "none" => conn'.at \in {"none", "opening"}
        /\ "try" \notin conn.waits \cup conn.again => "try" \notin conn'.waits \/ "try" \notin conn'.again
    BY <2>1, JoinedAre
  <2>3. (~mgr.managed => Alone)'
    BY <2>1, <2>2 DEF Alone, Trying, ManagerIs, CallIs, PastIs, Joined, LinkIs, Leaving, CallsKept, Untried,
       DisposalKept, Inflight, Leaving
  <2>4. (ops["rollback"].at # "none" => Alone)'
    BY <2>1, <2>2 DEF Alone, Trying, ManagerIs, CallIs, PastIs, Joined, LinkIs, Leaving, CallsKept, Untried,
       DisposalKept, Inflight, Leaving
  <2>5. (ops["remove"].at = "closing" => conn.closing \/ (conn.at = "none" /\ ~conn.session))'
    BY <2>1, <2>2 DEF ManagerIs, CallIs, PastIs, Joined, LinkIs, Leaving, CallsKept, Untried, DisposalKept,
       Inflight, Leaving
  <2>6. (ops["remove"].at \notin {"none", "closing"} => conn.at = "none" /\ conn.again = {})'
    BY <2>1, <2>2 DEF Cleanup, ManagerIs, CallIs, PastIs, Joined, LinkIs, Leaving, CallsKept, Untried,
       DisposalKept, Inflight, Leaving
  <2>7. (ops["dispose"].at = "second" /\ conn.session => conn.closing)'
    BY <2>1, <2>2 DEF ManagerIs, CallIs, PastIs, Joined, LinkIs, Leaving, CallsKept, Untried, DisposalKept,
       Inflight, Leaving
  <2>8. (ops["dispose"].at \in Last \/ mgr.complete => ~conn.session)'
    BY <2>1, <2>2 DEF Last, Cleanup, ManagerIs, CallIs, PastIs, Joined, LinkIs, Leaving, CallsKept, Untried,
       DisposalKept, Inflight, Leaving
  <2>9. (past.removed => profile.st \in {"none", "tomb"})'
    BY <2>1, <2>2 DEF ManagerIs, CallIs, PastIs, Joined, LinkIs, Leaving, CallsKept, Untried, DisposalKept,
       Inflight, Leaving
  <2> QED BY <2>3, <2>4, <2>5, <2>6, <2>7, <2>8, <2>9
<1>7. ASSUME LoseOwnership PROVE EndsKept'
  BY <1>7, LoseOwnershipDoes DEF Alone, Trying, Last, Cleanup, SameManager, ManagerIs
<1>8. ASSUME Open PROVE EndsKept'
  BY <1>8, OpenDoes DEF Alone, Trying, Last, Cleanup, AttemptAt, LinkIs
<1>9. ASSUME StoreCredentials PROVE EndsKept'
  BY <1>9, StoreCredentialsDoes DEF Alone, Trying, Last, Cleanup, PastIs, AttemptAt, LinkIs
<1>10. ASSUME StoreCredentialsFails PROVE EndsKept'
  BY <1>10, StoreCredentialsFailsDoes DEF Alone, Trying, Last, Cleanup, GivenUp, PastIs, AttemptAt, LinkIs
<1>11. ASSUME PeerReplied PROVE EndsKept'
  BY <1>11, PeerRepliedDoes DEF Alone, Trying, Last, Cleanup, AttemptAt, LinkIs
<1>12. ASSUME DropEnrollmentKeys PROVE EndsKept'
  BY <1>12, DropEnrollmentKeysDoes DEF Alone, Trying, Last, Cleanup, SamePast, PastIs, AttemptAt, LinkIs
<1>13. ASSUME Established PROVE EndsKept'
  <2>1. PICK s \in {"offline", "online", "authFailed", "incompatible", "rePairRequired"}, ok \in BOOLEAN :
          /\ Settles(s, ok)
          /\ conn.aborted => ok /\ s = "offline"
          /\ s = "online" => ok
          /\ ok => conn.aborted \/ s = "online"
    BY <1>13, EstablishedDoes
  <2>2. conn.at = "authenticated" /\ UNCHANGED <<profile, secrets, past>>
    BY <1>13, EstablishedDoes
  <2>3. (~mgr.managed => Alone)'
    <3>1. CASE ~mgr.managed
      <4>1. mgr.disposed /\ ~Trying /\ (conn.session => conn.closing)
        BY <2>2, <3>1 DEF Alone, WaitsKept
      <4>2. "add" \notin conn.waits /\ "connect" \in conn.waits
        BY <2>2, <3>1, <4>1, WaitsAre DEF WaitsKept, Trying
      <4>3. mgr'.disposed = mgr.disposed
        BY <2>1 DEF Settles, Stopped, Timed, ManagerIs
      <4>4. s = "online" => Closes(s, ok)
        BY <2>1, <4>1, <4>2 DEF Closes
      <4> QED BY <2>1, <4>1, <4>3, <4>4 DEF Settles, LinkIs, Alone, Trying
    <3>2. CASE mgr.managed
      <4>1. mgr'.managed
        BY <2>1, <3>2 DEF Settles, Stopped, Timed, ManagerIs
      <4> QED BY <4>1
    <3> QED BY <3>1, <3>2
  <2>4. (ops["rollback"].at # "none" => Alone)'
    <3>1. mgr'.disposed = mgr.disposed
      BY <2>1 DEF Settles, Stopped, Timed, ManagerIs
    <3>2. CASE RollsBack(s, ok)
      <4>1. "try" \notin conn.again
        BY <3>2 DEF RollsBack, WaitsKept, ProvisionalKept, OneTry, Untried, Trying
      <4>2. conn.again # {} => mgr.disposed
        BY <2>1, <2>2, <3>2 DEF WaitsKept, RollsBack
      <4>3. Closes(s, ok)
        BY <3>2 DEF Closes
      <4> QED BY <2>1, <3>1, <4>1, <4>2, <4>3 DEF Settles, LinkIs, Alone, Trying
    <3>3. CASE ~RollsBack(s, ok)
      <4>1. CASE ops["rollback"].at # "none"
        <5>1. mgr.disposed /\ ~Trying
          BY <2>2, <4>1 DEF Alone, WaitsKept
        <5>2. "add" \notin conn.waits /\ "connect" \in conn.waits
          BY <2>2, <4>1, <5>1, WaitsAre DEF WaitsKept, CallsKept, Trying
        <5>3. s = "online" => Closes(s, ok)
          BY <2>1, <5>1, <5>2 DEF Closes
        <5> QED BY <2>1, <3>1, <5>1, <5>3 DEF Settles, LinkIs, Alone, Trying
      <4>2. CASE ops["rollback"].at = "none"
        <5>1. ops'["rollback"].at = "none"
          BY <2>1, <3>3, <4>2 DEF Settles
        <5> QED BY <5>1
      <4> QED BY <4>1, <4>2
    <3> QED BY <3>2, <3>3
  <2>5. (ops["remove"].at = "closing" => conn.closing \/ (conn.at = "none" /\ ~conn.session))'
    BY <2>1, <2>2 DEF Settles, LinkIs, Stopped, ManagerIs, Timed, RollsBack, Refused, Closes, WaitsKept,
       DisposalKept, Inflight
  <2>6. (ops["remove"].at \notin {"none", "closing"} => conn.at = "none" /\ conn.again = {})'
    BY <2>1, <2>2 DEF Cleanup, Settles, LinkIs, Stopped, ManagerIs, Timed, RollsBack, Refused, Closes,
       WaitsKept, DisposalKept, Inflight
  <2>7. (ops["dispose"].at = "second" /\ conn.session => conn.closing)'
    BY <2>1, <2>2 DEF Settles, LinkIs, Stopped, ManagerIs, Timed, RollsBack, Refused, Closes, WaitsKept,
       DisposalKept, Inflight
  <2>8. (ops["dispose"].at \in Last \/ mgr.complete => ~conn.session)'
    BY <2>1, <2>2 DEF Last, Cleanup, Settles, LinkIs, Stopped, ManagerIs, Timed, RollsBack, Refused, Closes,
       WaitsKept, DisposalKept, Inflight
  <2>9. (past.removed => profile.st \in {"none", "tomb"})'
    BY <2>1, <2>2 DEF Settles, LinkIs, Stopped, ManagerIs, Timed, RollsBack, Refused, Closes, WaitsKept,
       DisposalKept, Inflight
  <2> QED BY <2>3, <2>4, <2>5, <2>6, <2>7, <2>8, <2>9
<1>14. ASSUME SessionCloses PROVE EndsKept'
  <2>1. (~mgr.managed => Alone)'
    BY <1>14, SessionClosesDoes DEF Alone, Trying, LinkIs, Timed, ManagerIs
  <2>2. (ops["rollback"].at # "none" => Alone)'
    BY <1>14, SessionClosesDoes DEF Alone, Trying, LinkIs, Timed, ManagerIs
  <2>3. (ops["remove"].at = "closing" => conn.closing \/ (conn.at = "none" /\ ~conn.session))'
    BY <1>14, SessionClosesDoes DEF LinkIs, Timed, ManagerIs
  <2>4. (ops["remove"].at \notin {"none", "closing"} => conn.at = "none" /\ conn.again = {})'
    BY <1>14, SessionClosesDoes DEF Cleanup, LinkIs, Timed, ManagerIs
  <2>5. (ops["dispose"].at = "second" /\ conn.session => conn.closing)'
    BY <1>14, SessionClosesDoes DEF LinkIs, Timed, ManagerIs
  <2>6. (ops["dispose"].at \in Last \/ mgr.complete => ~conn.session)'
    BY <1>14, SessionClosesDoes DEF Last, Cleanup, LinkIs, Timed, ManagerIs
  <2>7. (past.removed => profile.st \in {"none", "tomb"})'
    BY <1>14, SessionClosesDoes DEF LinkIs, Timed, ManagerIs
  <2> QED BY <2>1, <2>2, <2>3, <2>4, <2>5, <2>6, <2>7
<1>15. ASSUME Disconnected PROVE EndsKept'
  <2>1. (~mgr.managed => Alone)'
    BY <1>15, DisconnectedDoes DEF Alone, Trying, LinkIs, PastIs, Leaving, WaitsKept, DisposalKept, Inflight,
       Leaving
  <2>2. (ops["rollback"].at # "none" => Alone)'
    BY <1>15, DisconnectedDoes DEF Alone, Trying, LinkIs, PastIs, Leaving, WaitsKept, DisposalKept, Inflight,
       Leaving
  <2>3. (ops["remove"].at = "closing" => conn.closing \/ (conn.at = "none" /\ ~conn.session))'
    BY <1>15, DisconnectedDoes DEF LinkIs, PastIs, Leaving, WaitsKept, DisposalKept, Inflight, Leaving
  <2>4. (ops["remove"].at \notin {"none", "closing"} => conn.at = "none" /\ conn.again = {})'
    BY <1>15, DisconnectedDoes DEF Cleanup, LinkIs, PastIs, Leaving, WaitsKept, DisposalKept, Inflight, Leaving
  <2>5. (ops["dispose"].at = "second" /\ conn.session => conn.closing)'
    BY <1>15, DisconnectedDoes DEF LinkIs, PastIs, Leaving, WaitsKept, DisposalKept, Inflight, Leaving
  <2>6. (ops["dispose"].at \in Last \/ mgr.complete => ~conn.session)'
    BY <1>15, DisconnectedDoes DEF Last, Cleanup, LinkIs, PastIs, Leaving, WaitsKept, DisposalKept, Inflight,
       Leaving
  <2>7. (past.removed => profile.st \in {"none", "tomb"})'
    BY <1>15, DisconnectedDoes DEF LinkIs, PastIs, Leaving, WaitsKept, DisposalKept, Inflight, Leaving
  <2> QED BY <2>1, <2>2, <2>3, <2>4, <2>5, <2>6, <2>7
<1>16. ASSUME Dispose PROVE EndsKept'
  <2>1. /\ ops["dispose"].at = "none" /\ ~mgr.complete
        /\ ManagerIs(mgr', mgr.managed, FALSE, mgr.provisional, FALSE, TRUE, mgr.complete)
        /\ mgr.managed => Closed(conn', conn)
        /\ ~mgr.managed => UNCHANGED conn
        /\ CallIs("dispose", "first", ops["dispose"].refs, ops["dispose"].todo)
        /\ UNCHANGED <<profile, secrets, past>>
    BY <1>16, DisposeDoes
  <2>2. (~mgr.managed => Alone)'
    BY <2>1 DEF Alone, Trying, ManagerIs, CallIs, Closed, LinkIs
  <2>3. (ops["rollback"].at # "none" => Alone)'
    BY <2>1 DEF Alone, Trying, ManagerIs, CallIs, Closed, LinkIs
  <2>4. (ops["remove"].at = "closing" => conn.closing \/ (conn.at = "none" /\ ~conn.session))'
    BY <2>1 DEF ManagerIs, CallIs, Closed, LinkIs
  <2>5. (ops["remove"].at \notin {"none", "closing"} => conn.at = "none" /\ conn.again = {})'
    BY <2>1 DEF Cleanup, ManagerIs, CallIs, Closed, LinkIs
  <2>6. (ops["dispose"].at = "second" /\ conn.session => conn.closing)'
    BY <2>1 DEF ManagerIs, CallIs, Closed, LinkIs
  <2>7. (ops["dispose"].at \in Last \/ mgr.complete => ~conn.session)'
    BY <2>1 DEF Last, Cleanup, ManagerIs, CallIs, Closed, LinkIs
  <2>8. (past.removed => profile.st \in {"none", "tomb"})'
    BY <2>1 DEF ManagerIs, CallIs, Closed, LinkIs
  <2> QED BY <2>2, <2>3, <2>4, <2>5, <2>6, <2>7, <2>8
<1>17. ASSUME Drained PROVE EndsKept'
  <2>1. /\ ops["dispose"].at = "first" /\ ~conn.closing /\ ~Inflight
        /\ Stopped(mgr', mgr)
        /\ mgr.managed => Closed(conn', conn)
        /\ ~mgr.managed => UNCHANGED conn
        /\ CallIs("dispose", "second", ops["dispose"].refs, ops["dispose"].todo)
        /\ UNCHANGED <<profile, secrets, past>>
    BY <1>17, DrainedDoes
  <2>2. (~mgr.managed => Alone)'
    BY <2>1 DEF Alone, Trying, CallIs, Closed, LinkIs, Stopped, ManagerIs
  <2>3. (ops["rollback"].at # "none" => Alone)'
    BY <2>1 DEF Alone, Trying, CallIs, Closed, LinkIs, Stopped, ManagerIs
  <2>4. (ops["remove"].at = "closing" => conn.closing \/ (conn.at = "none" /\ ~conn.session))'
    BY <2>1 DEF CallIs, Closed, LinkIs, Stopped, ManagerIs, Alone
  <2>5. (ops["remove"].at \notin {"none", "closing"} => conn.at = "none" /\ conn.again = {})'
    BY <2>1 DEF Cleanup, CallIs, Closed, LinkIs, Stopped, ManagerIs, Alone
  <2>6. (ops["dispose"].at = "second" /\ conn.session => conn.closing)'
    BY <2>1 DEF CallIs, Closed, LinkIs, Stopped, ManagerIs, Alone
  <2>7. (ops["dispose"].at \in Last \/ mgr.complete => ~conn.session)'
    BY <2>1 DEF Last, Cleanup, CallIs, Closed, LinkIs, Stopped, ManagerIs, Alone
  <2>8. (past.removed => profile.st \in {"none", "tomb"})'
    BY <2>1 DEF CallIs, Closed, LinkIs, Stopped, ManagerIs, Alone
  <2> QED BY <2>2, <2>3, <2>4, <2>5, <2>6, <2>7, <2>8
<1>18. ASSUME Disposed PROVE EndsKept'
  <2>1. (~mgr.managed => Alone)'
    BY <1>18, DisposedDoes DEF Alone, Trying, ManagerIs, CallIs, Last, Cleanup
  <2>2. (ops["rollback"].at # "none" => Alone)'
    BY <1>18, DisposedDoes DEF Alone, Trying, ManagerIs, CallIs, Last, Cleanup
  <2>3. (ops["remove"].at = "closing" => conn.closing \/ (conn.at = "none" /\ ~conn.session))'
    BY <1>18, DisposedDoes DEF ManagerIs, CallIs, Last, Cleanup
  <2>4. (ops["remove"].at \notin {"none", "closing"} => conn.at = "none" /\ conn.again = {})'
    BY <1>18, DisposedDoes DEF Cleanup, ManagerIs, CallIs, Last
  <2>5. (ops["dispose"].at = "second" /\ conn.session => conn.closing)'
    BY <1>18, DisposedDoes DEF ManagerIs, CallIs, Last, Cleanup
  <2>6. (ops["dispose"].at \in Last \/ mgr.complete => ~conn.session)'
    BY <1>18, DisposedDoes DEF Last, Cleanup, ManagerIs, CallIs
  <2>7. (past.removed => profile.st \in {"none", "tomb"})'
    BY <1>18, DisposedDoes DEF ManagerIs, CallIs, Last, Cleanup
  <2> QED BY <2>1, <2>2, <2>3, <2>4, <2>5, <2>6, <2>7
<1>19. ASSUME Restored PROVE EndsKept'
  <2>1. (~mgr.managed => Alone)'
    BY <1>19, RestoredDoes DEF Alone, Trying, ManagerIs, CallIs, Launched, CallsKept, DisposalKept, Inflight
  <2>2. (ops["rollback"].at # "none" => Alone)'
    BY <1>19, RestoredDoes DEF Alone, Trying, ManagerIs, CallIs, Launched, CallsKept, DisposalKept, Inflight
  <2>3. (ops["remove"].at = "closing" => conn.closing \/ (conn.at = "none" /\ ~conn.session))'
    BY <1>19, RestoredDoes DEF ManagerIs, CallIs, Launched, CallsKept, DisposalKept, Inflight
  <2>4. (ops["remove"].at \notin {"none", "closing"} => conn.at = "none" /\ conn.again = {})'
    BY <1>19, RestoredDoes DEF Cleanup, ManagerIs, CallIs, Launched, CallsKept, DisposalKept, Inflight
  <2>5. (ops["dispose"].at = "second" /\ conn.session => conn.closing)'
    BY <1>19, RestoredDoes DEF ManagerIs, CallIs, Launched, CallsKept, DisposalKept, Inflight
  <2>6. (ops["dispose"].at \in Last \/ mgr.complete => ~conn.session)'
    BY <1>19, RestoredDoes DEF Last, Cleanup, ManagerIs, CallIs, Launched, CallsKept, DisposalKept, Inflight
  <2>7. (past.removed => profile.st \in {"none", "tomb"})'
    BY <1>19, RestoredDoes DEF ManagerIs, CallIs, Launched, CallsKept, DisposalKept, Inflight
  <2> QED BY <2>1, <2>2, <2>3, <2>4, <2>5, <2>6, <2>7
<1>20. ASSUME NEW how \in Outcomes, StoreInvitation(how) PROVE EndsKept'
  <2>1. /\ ops["add"].at = "secret"
        /\ secrets' \in SUBSET Keys /\ secrets \subseteq secrets' /\ secrets' \subseteq secrets \cup {"pairing"}
        /\ \/ CallIs("add", "profile", ops["add"].refs, ops["add"].todo)
           \/ RolledBack
        /\ SamePast
        /\ UNCHANGED <<profile, mgr, conn>>
    BY <1>20, StoreInvitationDoes
  <2>2. (~mgr.managed => Alone)'
    BY <2>1 DEF Alone, Trying, CallIs, SamePast, PastIs, RolledBack, VirginKept
  <2>3. (ops["rollback"].at # "none" => Alone)'
    BY <2>1 DEF Alone, Trying, CallIs, SamePast, PastIs, RolledBack, VirginKept
  <2>4. (ops["remove"].at = "closing" => conn.closing \/ (conn.at = "none" /\ ~conn.session))'
    BY <2>1 DEF CallIs, SamePast, PastIs, RolledBack, VirginKept
  <2>5. (ops["remove"].at \notin {"none", "closing"} => conn.at = "none" /\ conn.again = {})'
    BY <2>1 DEF Cleanup, CallIs, SamePast, PastIs, RolledBack, VirginKept
  <2>6. (ops["dispose"].at = "second" /\ conn.session => conn.closing)'
    BY <2>1 DEF CallIs, SamePast, PastIs, RolledBack, VirginKept
  <2>7. (ops["dispose"].at \in Last \/ mgr.complete => ~conn.session)'
    BY <2>1 DEF Last, Cleanup, CallIs, SamePast, PastIs, RolledBack, VirginKept
  <2>8. (past.removed => profile.st \in {"none", "tomb"})'
    BY <2>1 DEF CallIs, SamePast, PastIs, RolledBack, VirginKept
  <2> QED BY <2>2, <2>3, <2>4, <2>5, <2>6, <2>7, <2>8
<1>21. ASSUME NEW how \in Outcomes, StoreProfile(how) PROVE EndsKept'
  <2>1. /\ ops["add"].at = "profile"
        /\ profile' = Invited \/ UNCHANGED profile
        /\ how = "done" /\ ~mgr.disposed =>
             /\ profile' = Invited
             /\ ManagerIs(mgr', TRUE, TRUE, TRUE, mgr.timer, mgr.disposed, mgr.complete)
             /\ LinkIs(conn', "opening", FALSE, FALSE, FALSE, {"add"}, {})
             /\ CallIs("add", "connecting", ops["add"].refs, ops["add"].todo)
        /\ ~(how = "done" /\ ~mgr.disposed) => UNCHANGED <<mgr, conn>> /\ RolledBack
        /\ SamePast
        /\ UNCHANGED secrets
    BY <1>21, StoreProfileDoes
  <2>2. (~mgr.managed => Alone)'
    BY <2>1 DEF Alone, Trying, ManagerIs, LinkIs, CallIs, SamePast, PastIs, RolledBack, VirginKept,
       DisposalKept, Inflight
  <2>3. (ops["rollback"].at # "none" => Alone)'
    BY <2>1 DEF Alone, Trying, ManagerIs, LinkIs, CallIs, SamePast, PastIs, RolledBack, VirginKept,
       DisposalKept, Inflight
  <2>4. (ops["remove"].at = "closing" => conn.closing \/ (conn.at = "none" /\ ~conn.session))'
    BY <2>1 DEF ManagerIs, LinkIs, CallIs, SamePast, PastIs, RolledBack, VirginKept, DisposalKept, Inflight
  <2>5. (ops["remove"].at \notin {"none", "closing"} => conn.at = "none" /\ conn.again = {})'
    BY <2>1 DEF Cleanup, ManagerIs, LinkIs, CallIs, SamePast, PastIs, RolledBack, VirginKept, DisposalKept,
       Inflight
  <2>6. (ops["dispose"].at = "second" /\ conn.session => conn.closing)'
    BY <2>1 DEF ManagerIs, LinkIs, CallIs, SamePast, PastIs, RolledBack, VirginKept, DisposalKept, Inflight
  <2>7. (ops["dispose"].at \in Last \/ mgr.complete => ~conn.session)'
    BY <2>1 DEF Last, Cleanup, ManagerIs, LinkIs, CallIs, SamePast, PastIs, RolledBack, VirginKept,
       DisposalKept, Inflight
  <2>8. (past.removed => profile.st \in {"none", "tomb"})'
    BY <2>1 DEF ManagerIs, LinkIs, CallIs, SamePast, PastIs, RolledBack, VirginKept, DisposalKept, Inflight
  <2> QED BY <2>2, <2>3, <2>4, <2>5, <2>6, <2>7, <2>8
<1>22. ASSUME NEW how \in Outcomes, StoreCandidate(how) PROVE EndsKept'
  <2>1. /\ conn.at = "recording"
        /\ profile' = Candidate
        /\ AttemptAt("committing")
        /\ SamePast
        /\ UNCHANGED <<secrets, mgr, ops>>
    BY <1>22, StoreCandidateDoes
  <2>2. (~mgr.managed => Alone)'
    BY <2>1 DEF Alone, Trying, SamePast, PastIs, AttemptAt, LinkIs, AttemptKept
  <2>3. (ops["rollback"].at # "none" => Alone)'
    BY <2>1 DEF Alone, Trying, SamePast, PastIs, AttemptAt, LinkIs, AttemptKept
  <2>4. (ops["remove"].at = "closing" => conn.closing \/ (conn.at = "none" /\ ~conn.session))'
    BY <2>1 DEF SamePast, PastIs, AttemptAt, LinkIs, AttemptKept
  <2>5. (ops["remove"].at \notin {"none", "closing"} => conn.at = "none" /\ conn.again = {})'
    BY <2>1 DEF Cleanup, SamePast, PastIs, AttemptAt, LinkIs, AttemptKept
  <2>6. (ops["dispose"].at = "second" /\ conn.session => conn.closing)'
    BY <2>1 DEF SamePast, PastIs, AttemptAt, LinkIs, AttemptKept
  <2>7. (ops["dispose"].at \in Last \/ mgr.complete => ~conn.session)'
    BY <2>1 DEF Last, Cleanup, SamePast, PastIs, AttemptAt, LinkIs, AttemptKept
  <2>8. (past.removed => profile.st \in {"none", "tomb"})'
    BY <2>1 DEF SamePast, PastIs, AttemptAt, LinkIs, AttemptKept
  <2> QED BY <2>2, <2>3, <2>4, <2>5, <2>6, <2>7, <2>8
<1>23. ASSUME NEW how \in Outcomes, StoreComplete(how) PROVE EndsKept'
  <2>1. /\ conn.at = "storing"
        /\ profile' = Complete \/ UNCHANGED profile
        /\ AttemptAt(IF how = "done" THEN "authenticated" ELSE "failing")
        /\ SamePast
        /\ UNCHANGED <<secrets, mgr, ops>>
    BY <1>23, StoreCompleteDoes
  <2>2. (~mgr.managed => Alone)'
    BY <2>1 DEF Alone, Trying, SamePast, PastIs, AttemptAt, LinkIs, AttemptKept
  <2>3. (ops["rollback"].at # "none" => Alone)'
    BY <2>1 DEF Alone, Trying, SamePast, PastIs, AttemptAt, LinkIs, AttemptKept
  <2>4. (ops["remove"].at = "closing" => conn.closing \/ (conn.at = "none" /\ ~conn.session))'
    BY <2>1 DEF SamePast, PastIs, AttemptAt, LinkIs, AttemptKept
  <2>5. (ops["remove"].at \notin {"none", "closing"} => conn.at = "none" /\ conn.again = {})'
    BY <2>1 DEF Cleanup, SamePast, PastIs, AttemptAt, LinkIs, AttemptKept
  <2>6. (ops["dispose"].at = "second" /\ conn.session => conn.closing)'
    BY <2>1 DEF SamePast, PastIs, AttemptAt, LinkIs, AttemptKept
  <2>7. (ops["dispose"].at \in Last \/ mgr.complete => ~conn.session)'
    BY <2>1 DEF Last, Cleanup, SamePast, PastIs, AttemptAt, LinkIs, AttemptKept
  <2>8. (past.removed => profile.st \in {"none", "tomb"})'
    BY <2>1 DEF SamePast, PastIs, AttemptAt, LinkIs, AttemptKept
  <2> QED BY <2>2, <2>3, <2>4, <2>5, <2>6, <2>7, <2>8
<1>24. ASSUME NEW how \in Outcomes, Discard(how) PROVE EndsKept'
  BY <1>24, DiscardDoes DEF Alone, Trying, Last, Cleanup, CallIs, GivenUp, PastIs, SameManager, ManagerIs
<1>25. ASSUME NEW how \in Outcomes, Fallback(how) PROVE EndsKept'
  BY <1>25, FallbackDoes DEF Alone, Trying, Last, Cleanup, CallIs, PastIs, SameManager, ManagerIs
<1>26. ASSUME NEW landed \in BOOLEAN, NEW left \in SUBSET Enrolled, CandidateFails(landed, left) PROVE EndsKept'
  <2>1. /\ conn.at = "recording"
        /\ profile' = Candidate \/ UNCHANGED profile
        /\ secrets' \subseteq secrets
        /\ AttemptAt("failing")
        /\ GivenUp({"credential", "commit"})
        /\ UNCHANGED <<mgr, ops>>
    BY <1>26, CandidateFailsDoes
  <2>2. (~mgr.managed => Alone)'
    BY <2>1 DEF Alone, Trying, GivenUp, PastIs, AttemptAt, LinkIs, AttemptKept
  <2>3. (ops["rollback"].at # "none" => Alone)'
    BY <2>1 DEF Alone, Trying, GivenUp, PastIs, AttemptAt, LinkIs, AttemptKept
  <2>4. (ops["remove"].at = "closing" => conn.closing \/ (conn.at = "none" /\ ~conn.session))'
    BY <2>1 DEF GivenUp, PastIs, AttemptAt, LinkIs, AttemptKept
  <2>5. (ops["remove"].at \notin {"none", "closing"} => conn.at = "none" /\ conn.again = {})'
    BY <2>1 DEF Cleanup, GivenUp, PastIs, AttemptAt, LinkIs, AttemptKept
  <2>6. (ops["dispose"].at = "second" /\ conn.session => conn.closing)'
    BY <2>1 DEF GivenUp, PastIs, AttemptAt, LinkIs, AttemptKept
  <2>7. (ops["dispose"].at \in Last \/ mgr.complete => ~conn.session)'
    BY <2>1 DEF Last, Cleanup, GivenUp, PastIs, AttemptAt, LinkIs, AttemptKept
  <2>8. (past.removed => profile.st \in {"none", "tomb"})'
    BY <2>1 DEF GivenUp, PastIs, AttemptAt, LinkIs, AttemptKept
  <2> QED BY <2>2, <2>3, <2>4, <2>5, <2>6, <2>7, <2>8
<1>27. ASSUME NEW state \in {"offline", "authFailed", "incompatible", "rePairRequired"}, Fail(state)
       PROVE  EndsKept'
  <2>1. PICK s \in {"offline", "online", "authFailed", "incompatible", "rePairRequired"}, ok \in BOOLEAN :
          /\ Settles(s, ok)
          /\ conn.aborted => ok /\ s = "offline"
          /\ s = "online" => ok
          /\ ok => conn.aborted \/ s = "online"
    BY <1>27, FailDoes
  <2>2. conn.at \notin {"none", "recording"} /\ UNCHANGED <<profile, secrets, past>>
    BY <1>27, FailDoes
  <2>3. (~mgr.managed => Alone)'
    <3>1. CASE ~mgr.managed
      <4>1. mgr.disposed /\ ~Trying /\ (conn.session => conn.closing)
        BY <2>2, <3>1 DEF Alone, WaitsKept
      <4>2. "add" \notin conn.waits /\ "connect" \in conn.waits
        BY <2>2, <3>1, <4>1, WaitsAre DEF WaitsKept, Trying
      <4>3. mgr'.disposed = mgr.disposed
        BY <2>1 DEF Settles, Stopped, Timed, ManagerIs
      <4>4. s = "online" => Closes(s, ok)
        BY <2>1, <4>1, <4>2 DEF Closes
      <4> QED BY <2>1, <4>1, <4>3, <4>4 DEF Settles, LinkIs, Alone, Trying
    <3>2. CASE mgr.managed
      <4>1. mgr'.managed
        BY <2>1, <3>2 DEF Settles, Stopped, Timed, ManagerIs
      <4> QED BY <4>1
    <3> QED BY <3>1, <3>2
  <2>4. (ops["rollback"].at # "none" => Alone)'
    <3>1. mgr'.disposed = mgr.disposed
      BY <2>1 DEF Settles, Stopped, Timed, ManagerIs
    <3>2. CASE RollsBack(s, ok)
      <4>1. "try" \notin conn.again
        BY <3>2 DEF RollsBack, WaitsKept, ProvisionalKept, OneTry, Untried, Trying
      <4>2. conn.again # {} => mgr.disposed
        BY <2>1, <2>2, <3>2 DEF WaitsKept, RollsBack
      <4>3. Closes(s, ok)
        BY <3>2 DEF Closes
      <4> QED BY <2>1, <3>1, <4>1, <4>2, <4>3 DEF Settles, LinkIs, Alone, Trying
    <3>3. CASE ~RollsBack(s, ok)
      <4>1. CASE ops["rollback"].at # "none"
        <5>1. mgr.disposed /\ ~Trying
          BY <2>2, <4>1 DEF Alone, WaitsKept
        <5>2. "add" \notin conn.waits /\ "connect" \in conn.waits
          BY <2>2, <4>1, <5>1, WaitsAre DEF WaitsKept, CallsKept, Trying
        <5>3. s = "online" => Closes(s, ok)
          BY <2>1, <5>1, <5>2 DEF Closes
        <5> QED BY <2>1, <3>1, <5>1, <5>3 DEF Settles, LinkIs, Alone, Trying
      <4>2. CASE ops["rollback"].at = "none"
        <5>1. ops'["rollback"].at = "none"
          BY <2>1, <3>3, <4>2 DEF Settles
        <5> QED BY <5>1
      <4> QED BY <4>1, <4>2
    <3> QED BY <3>2, <3>3
  <2>5. (ops["remove"].at = "closing" => conn.closing \/ (conn.at = "none" /\ ~conn.session))'
    BY <2>1, <2>2 DEF Settles, LinkIs, Stopped, ManagerIs, Timed, RollsBack, Refused, Closes, WaitsKept,
       DisposalKept, Inflight
  <2>6. (ops["remove"].at \notin {"none", "closing"} => conn.at = "none" /\ conn.again = {})'
    BY <2>1, <2>2 DEF Cleanup, Settles, LinkIs, Stopped, ManagerIs, Timed, RollsBack, Refused, Closes,
       WaitsKept, DisposalKept, Inflight
  <2>7. (ops["dispose"].at = "second" /\ conn.session => conn.closing)'
    BY <2>1, <2>2 DEF Settles, LinkIs, Stopped, ManagerIs, Timed, RollsBack, Refused, Closes, WaitsKept,
       DisposalKept, Inflight
  <2>8. (ops["dispose"].at \in Last \/ mgr.complete => ~conn.session)'
    BY <2>1, <2>2 DEF Last, Cleanup, Settles, LinkIs, Stopped, ManagerIs, Timed, RollsBack, Refused, Closes,
       WaitsKept, DisposalKept, Inflight
  <2>9. (past.removed => profile.st \in {"none", "tomb"})'
    BY <2>1, <2>2 DEF Settles, LinkIs, Stopped, ManagerIs, Timed, RollsBack, Refused, Closes, WaitsKept,
       DisposalKept, Inflight
  <2> QED BY <2>3, <2>4, <2>5, <2>6, <2>7, <2>8, <2>9
<1>28. ASSUME NEW o \in Calls, Forget(o) PROVE EndsKept'
  <2>1. /\ o \in {"remove", "rollback"} /\ ops[o].at = "closing" /\ ~conn.closing
        /\ ManagerIs(mgr', FALSE, FALSE, mgr.provisional, FALSE, mgr.disposed, mgr.complete)
        /\ conn.session \/ conn.at # "none" => UNCHANGED conn
        /\ ~conn.session /\ conn.at = "none" =>
             /\ conn' = NoLink
             /\ LinkIs(conn', "none", FALSE, FALSE, FALSE, {}, {})
        /\ CallIs(o, "reading", ops[o].refs, ops[o].todo)
        /\ UNCHANGED <<profile, secrets, past>>
    BY <1>28, ForgetDoes
  <2>2. (~mgr.managed => Alone)'
    BY <2>1 DEF Alone, Trying, ManagerIs, LinkIs, CallIs
  <2>3. (ops["rollback"].at # "none" => Alone)'
    BY <2>1 DEF Alone, Trying, ManagerIs, LinkIs, CallIs
  <2>4. (ops["remove"].at = "closing" => conn.closing \/ (conn.at = "none" /\ ~conn.session))'
    BY <2>1 DEF ManagerIs, LinkIs, CallIs
  <2>5. (ops["remove"].at \notin {"none", "closing"} => conn.at = "none" /\ conn.again = {})'
    BY <2>1 DEF Cleanup, ManagerIs, LinkIs, CallIs
  <2>6. (ops["dispose"].at = "second" /\ conn.session => conn.closing)'
    BY <2>1 DEF ManagerIs, LinkIs, CallIs
  <2>7. (ops["dispose"].at \in Last \/ mgr.complete => ~conn.session)'
    BY <2>1 DEF Last, Cleanup, ManagerIs, LinkIs, CallIs
  <2>8. (past.removed => profile.st \in {"none", "tomb"})'
    BY <2>1 DEF ManagerIs, LinkIs, CallIs
  <2> QED BY <2>2, <2>3, <2>4, <2>5, <2>6, <2>7, <2>8
<1>29. ASSUME NEW o \in Calls, NEW ok \in BOOLEAN, ReadProfile(o, ok) PROVE EndsKept'
  <2>1. /\ o \in {"remove", "rollback"} /\ ops[o].at = "reading"
        /\ \/ profile.st = "tomb" /\ CallIs(o, "deleting", profile.refs, profile.refs)
           \/ profile.st \notin {"none", "tomb"} /\ CallIs(o, "marking", profile.refs, ops[o].todo)
           \/ (o = "rollback" => profile.st # "none") /\ CallIs(o, "none", {}, {})
           \/ o = "rollback" /\ \E at \in {"fallback", "discarding"} : CallIs(o, at, ops[o].refs, ops[o].todo)
        /\ SameManager
        /\ SamePast
        /\ UNCHANGED <<profile, secrets, conn>>
    BY <1>29, ReadProfileDoes
  <2>2. (~mgr.managed => Alone)'
    BY <2>1 DEF Alone, Trying, CallIs, SamePast, PastIs, SameManager, ManagerIs, StagesKept
  <2>3. (ops["rollback"].at # "none" => Alone)'
    BY <2>1 DEF Alone, Trying, CallIs, SamePast, PastIs, SameManager, ManagerIs, StagesKept
  <2>4. (ops["remove"].at = "closing" => conn.closing \/ (conn.at = "none" /\ ~conn.session))'
    BY <2>1 DEF CallIs, SamePast, PastIs, SameManager, ManagerIs, StagesKept
  <2>5. (ops["remove"].at \notin {"none", "closing"} => conn.at = "none" /\ conn.again = {})'
    BY <2>1 DEF Cleanup, CallIs, SamePast, PastIs, SameManager, ManagerIs, StagesKept
  <2>6. (ops["dispose"].at = "second" /\ conn.session => conn.closing)'
    BY <2>1 DEF CallIs, SamePast, PastIs, SameManager, ManagerIs, StagesKept
  <2>7. (ops["dispose"].at \in Last \/ mgr.complete => ~conn.session)'
    BY <2>1 DEF Last, Cleanup, CallIs, SamePast, PastIs, SameManager, ManagerIs, StagesKept
  <2>8. (past.removed => profile.st \in {"none", "tomb"})'
    BY <2>1 DEF CallIs, SamePast, PastIs, SameManager, ManagerIs, StagesKept
  <2> QED BY <2>2, <2>3, <2>4, <2>5, <2>6, <2>7, <2>8
<1>30. ASSUME NEW o \in Calls, NEW how \in Outcomes, MarkCleanupPending(o, how) PROVE EndsKept'
  <2>1. /\ ops[o].at = "marking"
        /\ \/ UNCHANGED profile
           \/ /\ profile.st \notin {"none", "tomb"} /\ profile.refs = ops[o].refs /\ profile' = Tomb(ops[o].refs)
              /\ profile'.st = "tomb" /\ profile'.refs = ops[o].refs
        /\ Ended(o) \/ CallIs(o, "deleting", ops[o].refs, ops[o].refs)
        /\ SameManager
        /\ SamePast
        /\ UNCHANGED <<secrets, conn>>
    BY <1>30, MarkCleanupPendingDoes
  <2>2. (~mgr.managed => Alone)'
    BY <2>1 DEF Alone, Trying, CallIs, SamePast, PastIs, Ended, SameManager, ManagerIs, StagesKept, Cleanup
  <2>3. (ops["rollback"].at # "none" => Alone)'
    BY <2>1 DEF Alone, Trying, CallIs, SamePast, PastIs, Ended, SameManager, ManagerIs, StagesKept, Cleanup
  <2>4. (ops["remove"].at = "closing" => conn.closing \/ (conn.at = "none" /\ ~conn.session))'
    BY <2>1 DEF CallIs, SamePast, PastIs, Ended, SameManager, ManagerIs, StagesKept, Cleanup
  <2>5. (ops["remove"].at \notin {"none", "closing"} => conn.at = "none" /\ conn.again = {})'
    BY <2>1 DEF Cleanup, CallIs, SamePast, PastIs, Ended, SameManager, ManagerIs, StagesKept
  <2>6. (ops["dispose"].at = "second" /\ conn.session => conn.closing)'
    BY <2>1 DEF CallIs, SamePast, PastIs, Ended, SameManager, ManagerIs, StagesKept, Cleanup
  <2>7. (ops["dispose"].at \in Last \/ mgr.complete => ~conn.session)'
    BY <2>1 DEF Last, Cleanup, CallIs, SamePast, PastIs, Ended, SameManager, ManagerIs, StagesKept
  <2>8. (past.removed => profile.st \in {"none", "tomb"})'
    BY <2>1 DEF CallIs, SamePast, PastIs, Ended, SameManager, ManagerIs, StagesKept, Cleanup
  <2> QED BY <2>2, <2>3, <2>4, <2>5, <2>6, <2>7, <2>8
<1>31. ASSUME NEW o \in Calls, NEW how \in Outcomes, DeleteSecret(o, how) PROVE EndsKept'
  <2>1. /\ ops[o].at = "deleting" /\ ops[o].todo # {}
        /\ secrets' \subseteq secrets
        /\ \/ FirstOf(ops[o].todo) \notin secrets' /\ CallIs(o, "dropping", ops[o].refs, ops[o].todo)
           \/ CallIs(o, "deleting", ops[o].refs, ops[o].todo \ {FirstOf(ops[o].todo)})
        /\ SamePast
        /\ UNCHANGED <<profile, mgr, conn>>
    BY <1>31, DeleteSecretDoes
  <2>2. (~mgr.managed => Alone)'
    BY <2>1 DEF Alone, Trying, CallIs, SamePast, PastIs
  <2>3. (ops["rollback"].at # "none" => Alone)'
    BY <2>1 DEF Alone, Trying, CallIs, SamePast, PastIs
  <2>4. (ops["remove"].at = "closing" => conn.closing \/ (conn.at = "none" /\ ~conn.session))'
    BY <2>1 DEF CallIs, SamePast, PastIs
  <2>5. (ops["remove"].at \notin {"none", "closing"} => conn.at = "none" /\ conn.again = {})'
    BY <2>1 DEF Cleanup, CallIs, SamePast, PastIs
  <2>6. (ops["dispose"].at = "second" /\ conn.session => conn.closing)'
    BY <2>1 DEF CallIs, SamePast, PastIs
  <2>7. (ops["dispose"].at \in Last \/ mgr.complete => ~conn.session)'
    BY <2>1 DEF Last, Cleanup, CallIs, SamePast, PastIs
  <2>8. (past.removed => profile.st \in {"none", "tomb"})'
    BY <2>1 DEF CallIs, SamePast, PastIs
  <2> QED BY <2>2, <2>3, <2>4, <2>5, <2>6, <2>7, <2>8
<1>32. ASSUME NEW o \in Calls, NEW how \in Outcomes, DropReference(o, how) PROVE EndsKept'
  <2>1. /\ ops[o].at = "dropping"
        /\ \/ UNCHANGED profile
           \/ /\ profile.st = "tomb" /\ profile.refs = ops[o].refs /\ profile' = Tomb(ops[o].refs \ {FirstOf(ops[o].todo)})
              /\ profile'.st = "tomb" /\ profile'.refs = ops[o].refs \ {FirstOf(ops[o].todo)}
        /\ \/ CallIs(o, "deleting", ops[o].refs, {})
           \/ CallIs(o, "deleting", ops[o].refs \ {FirstOf(ops[o].todo)}, ops[o].todo \ {FirstOf(ops[o].todo)})
        /\ SamePast
        /\ UNCHANGED <<secrets, mgr, conn>>
    BY <1>32, DropReferenceDoes
  <2>2. (~mgr.managed => Alone)'
    BY <2>1 DEF Alone, Trying, CallIs, SamePast, PastIs
  <2>3. (ops["rollback"].at # "none" => Alone)'
    BY <2>1 DEF Alone, Trying, CallIs, SamePast, PastIs
  <2>4. (ops["remove"].at = "closing" => conn.closing \/ (conn.at = "none" /\ ~conn.session))'
    BY <2>1 DEF CallIs, SamePast, PastIs
  <2>5. (ops["remove"].at \notin {"none", "closing"} => conn.at = "none" /\ conn.again = {})'
    BY <2>1 DEF Cleanup, CallIs, SamePast, PastIs
  <2>6. (ops["dispose"].at = "second" /\ conn.session => conn.closing)'
    BY <2>1 DEF CallIs, SamePast, PastIs
  <2>7. (ops["dispose"].at \in Last \/ mgr.complete => ~conn.session)'
    BY <2>1 DEF Last, Cleanup, CallIs, SamePast, PastIs
  <2>8. (past.removed => profile.st \in {"none", "tomb"})'
    BY <2>1 DEF CallIs, SamePast, PastIs
  <2> QED BY <2>2, <2>3, <2>4, <2>5, <2>6, <2>7, <2>8
<1>33. ASSUME NEW o \in Calls, NEW how \in Outcomes, DeleteProfile(o, how) PROVE EndsKept'
  <2>1. /\ ops[o].at = "deleting" /\ ops[o].todo = {}
        /\ \/ /\ ops[o].refs = {} /\ profile.st = "tomb" /\ profile.refs = {} /\ profile' = NoProfile
              /\ PastIs(past', TRUE, past.late, past.leaked)
           \/ UNCHANGED profile /\ SamePast
        /\ Ended(o) /\ SameManager
        /\ UNCHANGED <<secrets, conn>>
    BY <1>33, DeleteProfileDoes
  <2>2. (~mgr.managed => Alone)'
    BY <2>1 DEF Alone, Trying, SamePast, PastIs, Ended, CallIs, SameManager, ManagerIs, StagesKept, Cleanup
  <2>3. (ops["rollback"].at # "none" => Alone)'
    BY <2>1 DEF Alone, Trying, SamePast, PastIs, Ended, CallIs, SameManager, ManagerIs, StagesKept, Cleanup
  <2>4. (ops["remove"].at = "closing" => conn.closing \/ (conn.at = "none" /\ ~conn.session))'
    BY <2>1 DEF SamePast, PastIs, Ended, CallIs, SameManager, ManagerIs, StagesKept, Cleanup
  <2>5. (ops["remove"].at \notin {"none", "closing"} => conn.at = "none" /\ conn.again = {})'
    BY <2>1 DEF Cleanup, SamePast, PastIs, Ended, CallIs, SameManager, ManagerIs, StagesKept
  <2>6. (ops["dispose"].at = "second" /\ conn.session => conn.closing)'
    BY <2>1 DEF SamePast, PastIs, Ended, CallIs, SameManager, ManagerIs, StagesKept, Cleanup
  <2>7. (ops["dispose"].at \in Last \/ mgr.complete => ~conn.session)'
    BY <2>1 DEF Last, Cleanup, SamePast, PastIs, Ended, CallIs, SameManager, ManagerIs, StagesKept
  <2>8. (past.removed => profile.st \in {"none", "tomb"})'
    BY <2>1 DEF SamePast, PastIs, Ended, CallIs, SameManager, ManagerIs, StagesKept, Cleanup
  <2> QED BY <2>2, <2>3, <2>4, <2>5, <2>6, <2>7, <2>8
<1>34. ASSUME NEW ok \in BOOLEAN, CleanupAtEnd(ok) PROVE EndsKept'
  <2>1. /\ ops["dispose"].at = "second" /\ ~conn.closing
        /\ ManagerIs(mgr', FALSE, mgr.enabled, mgr.provisional, mgr.timer, mgr.disposed, mgr.complete)
        /\ \/ profile.st = "tomb" /\ CallIs("dispose", "deleting", profile.refs, profile.refs)
           \/ CallIs("dispose", "end", ops["dispose"].refs, ops["dispose"].todo)
        /\ SamePast
        /\ UNCHANGED <<profile, secrets, conn>>
    BY <1>34, CleanupAtEndDoes
  <2>2. (~mgr.managed => Alone)'
    BY <2>1 DEF Alone, Trying, ManagerIs, CallIs, SamePast, PastIs, DisposalKept, Inflight
  <2>3. (ops["rollback"].at # "none" => Alone)'
    BY <2>1 DEF Alone, Trying, ManagerIs, CallIs, SamePast, PastIs, DisposalKept, Inflight
  <2>4. (ops["remove"].at = "closing" => conn.closing \/ (conn.at = "none" /\ ~conn.session))'
    BY <2>1 DEF ManagerIs, CallIs, SamePast, PastIs, DisposalKept, Inflight
  <2>5. (ops["remove"].at \notin {"none", "closing"} => conn.at = "none" /\ conn.again = {})'
    BY <2>1 DEF Cleanup, ManagerIs, CallIs, SamePast, PastIs, DisposalKept, Inflight
  <2>6. (ops["dispose"].at = "second" /\ conn.session => conn.closing)'
    BY <2>1 DEF ManagerIs, CallIs, SamePast, PastIs, DisposalKept, Inflight
  <2>7. (ops["dispose"].at \in Last \/ mgr.complete => ~conn.session)'
    BY <2>1 DEF Last, Cleanup, ManagerIs, CallIs, SamePast, PastIs, DisposalKept, Inflight
  <2>8. (past.removed => profile.st \in {"none", "tomb"})'
    BY <2>1 DEF ManagerIs, CallIs, SamePast, PastIs, DisposalKept, Inflight
  <2> QED BY <2>2, <2>3, <2>4, <2>5, <2>6, <2>7, <2>8
<1>35. ASSUME NEW ok \in BOOLEAN, Restore(ok) PROVE EndsKept'
  BY <1>35, RestoreDoes DEF Alone, Trying, Last, Cleanup, ManagerIs, LinkIs, PastIs
<1> QED BY <1>1, <1>2, <1>3, <1>4, <1>5, <1>6, <1>7, <1>8, <1>9, <1>10, <1>11, <1>12, <1>13, <1>14, <1>15,
   <1>16, <1>17, <1>18, <1>19, <1>20, <1>21, <1>22, <1>23, <1>24, <1>25, <1>26, <1>27, <1>28, <1>29, <1>30,
   <1>31, <1>32, <1>33, <1>34, <1>35 DEF LinksNext

\* The types are kept by every step.
LEMMA LinksTypedStep ==
  ASSUME LinksTyped, LinksNext
  PROVE  LinksTyped'
<1>1. ASSUME Add PROVE LinksTyped'
  BY <1>1, AddDoes
<1>2. ASSUME Connect PROVE LinksTyped'
  BY <1>2, ConnectDoes
<1>3. ASSUME Disconnect PROVE LinksTyped'
  BY <1>3, DisconnectDoes
<1>4. ASSUME RemovePeer PROVE LinksTyped'
  BY <1>4, RemovePeerDoes
<1>5. ASSUME ReconnectTimer PROVE LinksTyped'
  BY <1>5, ReconnectTimerDoes
<1>6. ASSUME TryConnect PROVE LinksTyped'
  BY <1>6, TryConnectDoes
<1>7. ASSUME LoseOwnership PROVE LinksTyped'
  BY <1>7, LoseOwnershipDoes
<1>8. ASSUME Open PROVE LinksTyped'
  BY <1>8, OpenDoes
<1>9. ASSUME StoreCredentials PROVE LinksTyped'
  BY <1>9, StoreCredentialsDoes
<1>10. ASSUME StoreCredentialsFails PROVE LinksTyped'
  BY <1>10, StoreCredentialsFailsDoes
<1>11. ASSUME PeerReplied PROVE LinksTyped'
  BY <1>11, PeerRepliedDoes
<1>12. ASSUME DropEnrollmentKeys PROVE LinksTyped'
  BY <1>12, DropEnrollmentKeysDoes
<1>13. ASSUME Established PROVE LinksTyped'
  BY <1>13, EstablishedDoes
<1>14. ASSUME SessionCloses PROVE LinksTyped'
  BY <1>14, SessionClosesDoes
<1>15. ASSUME Disconnected PROVE LinksTyped'
  BY <1>15, DisconnectedDoes
<1>16. ASSUME Dispose PROVE LinksTyped'
  BY <1>16, DisposeDoes
<1>17. ASSUME Drained PROVE LinksTyped'
  BY <1>17, DrainedDoes
<1>18. ASSUME Disposed PROVE LinksTyped'
  BY <1>18, DisposedDoes
<1>19. ASSUME Restored PROVE LinksTyped'
  BY <1>19, RestoredDoes
<1>20. ASSUME NEW how \in Outcomes, StoreInvitation(how) PROVE LinksTyped'
  BY <1>20, StoreInvitationDoes
<1>21. ASSUME NEW how \in Outcomes, StoreProfile(how) PROVE LinksTyped'
  BY <1>21, StoreProfileDoes
<1>22. ASSUME NEW how \in Outcomes, StoreCandidate(how) PROVE LinksTyped'
  BY <1>22, StoreCandidateDoes
<1>23. ASSUME NEW how \in Outcomes, StoreComplete(how) PROVE LinksTyped'
  BY <1>23, StoreCompleteDoes
<1>24. ASSUME NEW how \in Outcomes, Discard(how) PROVE LinksTyped'
  BY <1>24, DiscardDoes
<1>25. ASSUME NEW how \in Outcomes, Fallback(how) PROVE LinksTyped'
  BY <1>25, FallbackDoes
<1>26. ASSUME NEW landed \in BOOLEAN, NEW left \in SUBSET Enrolled, CandidateFails(landed, left)
       PROVE  LinksTyped'
  BY <1>26, CandidateFailsDoes
<1>27. ASSUME NEW state \in {"offline", "authFailed", "incompatible", "rePairRequired"}, Fail(state)
       PROVE  LinksTyped'
  BY <1>27, FailDoes
<1>28. ASSUME NEW o \in Calls, Forget(o) PROVE LinksTyped'
  BY <1>28, ForgetDoes
<1>29. ASSUME NEW o \in Calls, NEW ok \in BOOLEAN, ReadProfile(o, ok) PROVE LinksTyped'
  BY <1>29, ReadProfileDoes
<1>30. ASSUME NEW o \in Calls, NEW how \in Outcomes, MarkCleanupPending(o, how) PROVE LinksTyped'
  BY <1>30, MarkCleanupPendingDoes
<1>31. ASSUME NEW o \in Calls, NEW how \in Outcomes, DeleteSecret(o, how) PROVE LinksTyped'
  BY <1>31, DeleteSecretDoes
<1>32. ASSUME NEW o \in Calls, NEW how \in Outcomes, DropReference(o, how) PROVE LinksTyped'
  BY <1>32, DropReferenceDoes
<1>33. ASSUME NEW o \in Calls, NEW how \in Outcomes, DeleteProfile(o, how) PROVE LinksTyped'
  BY <1>33, DeleteProfileDoes
<1>34. ASSUME NEW ok \in BOOLEAN, CleanupAtEnd(ok) PROVE LinksTyped'
  BY <1>34, CleanupAtEndDoes
<1>35. ASSUME NEW ok \in BOOLEAN, Restore(ok) PROVE LinksTyped'
  BY <1>35, RestoreDoes
<1> QED BY <1>1, <1>2, <1>3, <1>4, <1>5, <1>6, <1>7, <1>8, <1>9, <1>10, <1>11, <1>12, <1>13, <1>14, <1>15,
   <1>16, <1>17, <1>18, <1>19, <1>20, <1>21, <1>22, <1>23, <1>24, <1>25, <1>26, <1>27, <1>28, <1>29, <1>30,
   <1>31, <1>32, <1>33, <1>34, <1>35 DEF LinksNext

\* Without a late try, the attempts end as they should, whatever the step.
LEMMA PunctualStep ==
  ASSUME LinksTyped, LinksKept, LinksNext
  PROVE  Punctual'
<1>1. CASE past'.late
  BY <1>1 DEF Punctual
<1>2. CASE ~past'.late
  BY <1>2, AttemptKeptStep, EndsKeptStep DEF Punctual
<1> QED BY <1>1, <1>2

\* The invariant holds at first.
LEMMA LinksStart ==
  ASSUME LinksInit
  PROVE  LinksTyped /\ LinksKept
<1>1. /\ profile = NoProfile /\ secrets = {} /\ mgr = NoManager /\ conn = NoLink
      /\ ops = [o \in Calls |-> NoCall]
      /\ past = [faults |-> 0, attempts |-> 0, removed |-> FALSE, late |-> FALSE, leaked |-> {}]
  BY DEF LinksInit
<1>2. past \in LinkPasts /\ ~past.removed /\ ~past.late /\ past.leaked = {}
  BY <1>1 DEF LinkPasts
<1>3. LinksTyped
  BY <1>1, <1>2, NoneIs, ProfilesAre DEF LinksTyped, ManagerIs, LinkIs
<1>4. /\ LinkIs(conn, "none", FALSE, FALSE, FALSE, {}, {})
      /\ ManagerIs(mgr, FALSE, FALSE, FALSE, FALSE, FALSE, FALSE)
      /\ \A o \in Calls : ops[o].at = "none" /\ ops[o].refs = {} /\ ops[o].todo = {}
      /\ profile.st = "none" /\ profile.refs = {}
  BY <1>1, NoneIs DEF NoProfile
<1> HIDE <1>1
<1>5. StagesKept /\ VirginKept
  BY <1>1, <1>4, CallsAre DEF StagesKept, VirginKept, Cleanup, ManagerIs
<1>6. KeysOwned /\ CleanupKept
  BY <1>1, <1>4 DEF KeysOwned, CleanupKept, LinkIs
<1>7. WaitsKept /\ ProvisionalKept
  BY <1>4, CallsAre DEF WaitsKept, ProvisionalKept, OneTry, Untried, Trying, LinkIs, ManagerIs
<1>8. CallsKept
  BY <1>4, CallsAre DEF CallsKept
<1>9. DisposalKept
  BY <1>4, CallsAre DEF DisposalKept, Last, Cleanup, ManagerIs
<1>10. Punctual
  <2>1. AttemptKept
    BY <1>4 DEF AttemptKept, LinkIs
  <2>2. EndsKept
    BY <1>2, <1>4, CallsAre DEF EndsKept, Alone, Trying, Last, Cleanup, LinkIs, ManagerIs
  <2> QED BY <2>1, <2>2 DEF Punctual
<1> QED BY <1>3, <1>5, <1>6, <1>7, <1>8, <1>9, <1>10 DEF LinksKept

\* A step of another part leaves the invariant as it is.
LEMMA LinksStay ==
  ASSUME LinksTyped, LinksKept, UNCHANGED linkVars
  PROVE  LinksTyped' /\ LinksKept'
<1>1. LinksTyped'
  BY DEF LinksTyped, linkVars
<1>2. StagesKept' /\ VirginKept'
  BY DEF LinksKept, StagesKept, VirginKept, Cleanup, linkVars
<1>3. KeysOwned' /\ CleanupKept'
  BY DEF LinksKept, KeysOwned, CleanupKept, Cleanup, linkVars
<1>4. WaitsKept' /\ ProvisionalKept'
  BY DEF LinksKept, WaitsKept, ProvisionalKept, OneTry, Untried, Trying, linkVars
<1>5. CallsKept' /\ DisposalKept'
  BY DEF LinksKept, CallsKept, DisposalKept, Untried, Trying, Inflight, Last, Cleanup, linkVars
<1>6. Punctual'
  BY DEF LinksKept, Punctual, AttemptKept, EndsKept, Alone, Trying, Last, Cleanup, linkVars
<1> QED BY <1>1, <1>2, <1>3, <1>4, <1>5, <1>6 DEF LinksKept

\* The invariant says what the property does.
LEMMA LinksShow ==
  ASSUME LinksTyped, LinksKept
  PROVE  LinksSound
<1>1. KeysHaveOwner
  BY DEF LinksKept, KeysOwned, KeysHaveOwner
<1>2. RemovedStaysRemoved
  BY DEF LinksKept, Punctual, EndsKept, RemovedStaysRemoved
<1>3. DisposedIsQuiet
  BY DEF LinksKept, Punctual, EndsKept, DisposalKept, WaitsKept, Inflight, DisposedIsQuiet
<1> QED BY <1>1, <1>2, <1>3 DEF LinksSound

\* What adding, removing, reconnecting and disposing of a peer leave behind is
\* sound, wherever they meet or fail: a key in the secret store that the code
\* has not given up has a profile that refers to it, or a call that is about to
\* store one or to delete the key; a removed peer does not come back, and
\* nothing is left after a disposal, whatever the faults and the attempts.
THEOREM LinksHeld == LinksSpec => []LinksSound
<1>1. LinksInit => LinksTyped /\ LinksKept
  BY LinksStart
<1>2. LinksTyped /\ LinksKept /\ [LinksNext]_linkVars => (LinksTyped /\ LinksKept)'
  <2> SUFFICES ASSUME LinksTyped, LinksKept, [LinksNext]_linkVars
               PROVE  (LinksTyped /\ LinksKept)'
    OBVIOUS
  <2>1. CASE LinksNext
    <3>1. LinksTyped'
      BY <2>1, LinksTypedStep
    <3>2. StagesKept' /\ VirginKept' /\ KeysOwned' /\ CleanupKept'
      BY <2>1, StagesKeptStep, VirginKeptStep, KeysOwnedStep, CleanupKeptStep
    <3>3. WaitsKept' /\ ProvisionalKept' /\ CallsKept' /\ DisposalKept' /\ Punctual'
      BY <2>1, WaitsKeptStep, ProvisionalKeptStep, CallsKeptStep, DisposalKeptStep, PunctualStep
    <3> QED BY <3>1, <3>2, <3>3 DEF LinksKept
  <2>2. CASE UNCHANGED linkVars
    BY <2>2, LinksStay
  <2> QED BY <2>1, <2>2
<1>3. LinksTyped /\ LinksKept => LinksSound
  BY LinksShow
<1> QED BY <1>1, <1>2, <1>3, PTL DEF LinksSpec
====
