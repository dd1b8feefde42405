---- MODULE PeerPolicies ----
(***************************************************************************)
(* Who may start tasks where.  src/src/broker/RemotePeerPolicyStore.ts and *)
(* PeerPolicyStore.ts keep what the users have allowed, over               *)
(* src/src/storage/FencedDocumentStore.ts; RemotePeerPolicyService.ts and  *)
(* PeerPolicyService.ts edit and enforce it, and the dashboard offers the  *)
(* edits (ProductionConnectivity.ts).  An edit is chosen from a snapshot,  *)
(* confirmed, validated and written, while windows give up and take        *)
(* workspaces and the peer is revoked or paired anew.                      *)
(*                                                                         *)
(* One window (me) edits and delegates, another one (other) may hold the   *)
(* other workspaces; there is one peer.  A target at the peer is the       *)
(* generation of its profile.  Names of windows are left out.              *)
(***************************************************************************)
EXTENDS Naturals, FiniteSets

CONSTANTS Spaces,         \* workspace identities
          Edits,          \* bound: edits by the user
          MaxPairings,    \* bound: generations of the peer's profile
          MaxMoves,       \* bound: changes of claims
          MaxPolicyFaults \* bound: writes that throw after the rename

ASSUME PoliciesAssumption ==
  MaxPairings \in Nat \ {0} /\ MaxMoves \in Nat /\ MaxPolicyFaults \in Nat

VARIABLES owner,    \* claims: the window of a workspace, or nobody
          loaded,   \* the two documents as loaded
          filed,    \* and as stored
          busy,     \* the queues of the two documents: who writes
          peer,     \* the peer: its revocation and its profile
          edit,     \* the edits
          start,    \* one task that is started
          spent     \* moves and faults so far

policyVars == <<owner, loaded, filed, busy, peer, edit, start, spent>>

BothWindows == {"me", "other"}
NoEdit == [at |-> "none", kind |-> "none", space |-> "none", on |-> FALSE,
           scope |-> {}, generation |-> 0, rev |-> 0]
NoStart == [at |-> "none", kind |-> "none", space |-> "none", scope |-> {}, auto |-> FALSE, fine |-> TRUE]

\* The remote policy and the local one: which sources allow the target,
\* which workspaces the peer is granted, and with no confirmation of a task;
\* which workspaces receive tasks, and which pairs are allowed.
NoPolicies == [rev |-> 0, allow |-> {}, granted |-> {}, auto |-> {}, receive |-> {}, pairs |-> {}]
RemotePart == {"rev", "allow", "granted", "auto"}

PoliciesInit ==
  /\ owner = [s \in Spaces |-> "me"]
  /\ loaded \in {NoPolicies, [NoPolicies EXCEPT !.granted = Spaces, !.receive = Spaces]}
  /\ filed = loaded
  /\ busy = [remote |-> "free", local |-> "free"]
  /\ peer = [revoked |-> "no", generation |-> 1]
  /\ edit = [e \in Edits |-> NoEdit]
  /\ start = NoStart
  /\ spent = [moves |-> 0, faults |-> 0]

\* sources and sourceScope: the workspaces a window has claimed.
Sources(w) == {s \in Spaces : owner[s] = w}

\* assertPeerActive
PeerActive == peer.revoked = "no"

----------------------------------------------------------------------------
(* Claims and the peer *)

Moves == spent.moves < MaxMoves /\ spent' = [spent EXCEPT !.moves = @ + 1]

Claim(s, w) ==
  /\ owner[s] = "nobody" /\ Moves /\ owner' = [owner EXCEPT ![s] = w]
  /\ UNCHANGED <<loaded, filed, busy, peer, edit, start>>

GiveUp(s) ==
  /\ owner[s] # "nobody" /\ Moves /\ owner' = [owner EXCEPT ![s] = "nobody"]
  /\ UNCHANGED <<loaded, filed, busy, peer, edit, start>>

\* The profile of the peer gets another generation.
PairedAnew ==
  /\ PeerActive /\ peer.generation < MaxPairings
  /\ peer' = [peer EXCEPT !.generation = @ + 1]
  /\ UNCHANGED <<owner, loaded, filed, busy, edit, start, spent>>

\* PeerRevocationService: denied first, then its grants are removed, which
\* is tried again until it succeeds.
Revoke ==
  /\ PeerActive /\ peer' = [peer EXCEPT !.revoked = "denied"]
  /\ UNCHANGED <<owner, loaded, filed, busy, edit, start, spent>>

----------------------------------------------------------------------------
(* FencedDocumentStore and PeerPolicyStore *)

Document(kind) == IF kind \in {"receive", "pair"} THEN "local" ELSE "remote"

\* Both documents are written whole, from the one in memory.
Stores(next, doc) ==
  filed' = [k \in DOMAIN filed |-> IF (k \in RemotePart) = (doc = "remote") THEN next[k] ELSE filed[k]]
Loads(next, doc) ==
  loaded' = [k \in DOMAIN loaded |-> IF (k \in RemotePart) = (doc = "remote") THEN next[k] ELSE loaded[k]]

\* removePeer, as an update with no validation.
Ungranted == [loaded EXCEPT !.rev = @ + 1, !.granted = {}, !.auto = {}]

RemoveStored ==
  /\ peer.revoked = "denied" /\ busy.remote = "free"
  /\ Stores(Ungranted, "remote")
  /\ busy' = [busy EXCEPT !.remote = "revocation"]
  /\ UNCHANGED <<owner, loaded, peer, edit, start, spent>>

RemoveDone ==
  /\ busy.remote = "revocation"
  /\ busy' = [busy EXCEPT !.remote = "free"]
  /\ \/ /\ Loads(Ungranted, "remote") /\ peer' = [peer EXCEPT !.revoked = "removed"]
        /\ UNCHANGED spent
     \/ /\ spent.faults < MaxPolicyFaults /\ spent' = [spent EXCEPT !.faults = @ + 1]
        /\ UNCHANGED <<loaded, peer>>
  /\ UNCHANGED <<owner, filed, edit, start>>

----------------------------------------------------------------------------
(* Edits *)

Owned(s) == owner[s] = "me"

\* listCandidates: what another window shows, and what was allowed before.
Candidates(s) == {t \in Spaces \ {s} : owner[t] = "other" \/ <<s, t>> \in loaded.pairs}

\* policySnapshot and the handles it issues: the edit is bound to the
\* revision and the claims of this moment.
Choose(e, kind, s, on) ==
  /\ edit[e].at = "none" /\ Owned(s)
  /\ kind = "auto" => s \in loaded.granted
  /\ kind = "pair" => Candidates(s) # {}
  /\ edit' = [edit EXCEPT ![e] = [at |-> "chosen", kind |-> kind, space |-> s, on |-> on,
                                  scope |-> IF kind = "allow" THEN Sources("me") ELSE {},
                                  generation |-> peer.generation, rev |-> loaded.rev]]
  /\ UNCHANGED <<owner, loaded, filed, busy, peer, start, spent>>

\* policyAction, one at a time (actionQueue): what the user has seen must be
\* what there is, before and after the confirmation.
AsSeen(e) ==
  /\ edit[e].rev = loaded.rev
  /\ IF edit[e].kind = "allow" THEN edit[e].scope = Sources("me") ELSE Owned(edit[e].space)

EditsAt(e, at) == edit' = [edit EXCEPT ![e].at = at]
Ended(e) == edit' = [edit EXCEPT ![e] = [NoEdit EXCEPT !.at = "ended"]]

Confirm(e) ==
  /\ edit[e].at = "chosen"
  /\ \A o \in Edits : edit[o].at \notin {"queued", "writing", "renamed"}
  /\ IF AsSeen(e) THEN EditsAt(e, "queued") ELSE Ended(e)
  /\ UNCHANGED <<owner, loaded, filed, busy, peer, start, spent>>

\* What the edits write: setIncomingGrant, setAutoAccept, setAllowedForWindow,
\* setReceive and setCandidateAllowed.
Put(set, new, on) == IF on THEN set \cup new ELSE set \ new

EditGrant(s, on) ==
  [loaded EXCEPT !.rev = @ + 1, !.granted = Put(@, {s}, on), !.auto = IF on THEN @ ELSE @ \ {s}]
EditAuto(s, on) == [loaded EXCEPT !.rev = @ + 1, !.auto = Put(@, {s}, on)]
EditAllow(scope, generation, on) ==
  [loaded EXCEPT !.rev = @ + 1, !.allow = Put(@, scope \X {generation}, on)]
EditReceive(s, on) == [loaded EXCEPT !.receive = Put(@, {s}, on)]
EditPair(s, on) == [loaded EXCEPT !.pairs = Put(@, {s} \X (Spaces \ {s}), on)]

Edited(e) ==
  LET k == edit[e].kind
      on == edit[e].on
      s == edit[e].space IN
  CASE k = "grant" -> EditGrant(s, on)
    [] k = "auto" -> EditAuto(s, on)
    [] k = "allow" -> EditAllow(edit[e].scope, edit[e].generation, on)
    [] k = "receive" -> EditReceive(s, on)
    [] OTHER -> EditPair(s, on)

\* A document is parsed before it is written: what accepts without asking is
\* granted.
Parses(next) == next.auto \subseteq next.granted

\* The window has the claims it had, and the target is the one it was; what
\* is newly allowed in this device is claimed by another window.
ValidAllow(e) ==
  /\ Sources("me") = edit[e].scope
  /\ edit[e].on => edit[e].generation = peer.generation
ValidPair(e) == edit[e].on => \A t \in Spaces \ {edit[e].space} : owner[t] = "other"

\* The validations of the edits, as they are made before the write and again
\* before the rename; those of PeerPolicyStore only before the write.
Valid(e) ==
  LET k == edit[e].kind
      s == edit[e].space IN
  /\ k # "allow" => Owned(s)
  /\ k = "grant" => (edit[e].on => PeerActive)
  /\ k = "auto" => PeerActive /\ s \in loaded.granted
  /\ k = "allow" => ValidAllow(e)
  /\ k = "pair" => ValidPair(e)

\* expectedRevision, where the edit has one.
RevisionHolds(e) == edit[e].kind \in {"auto", "allow"} => loaded.rev = edit[e].rev

Begin(e) ==
  LET doc == Document(edit[e].kind) IN
  /\ edit[e].at = "queued" /\ busy[doc] = "free"
  /\ IF Valid(e) /\ RevisionHolds(e) /\ Parses(Edited(e))
     THEN /\ EditsAt(e, "writing")
          /\ busy' = [busy EXCEPT ![doc] = "edit"]
     ELSE Ended(e) /\ UNCHANGED busy
  /\ UNCHANGED <<owner, loaded, filed, peer, start, spent>>

Rename(e) ==
  LET doc == Document(edit[e].kind) IN
  /\ edit[e].at = "writing"
  /\ IF doc = "local" \/ Valid(e)
     THEN Stores(Edited(e), doc) /\ EditsAt(e, "renamed") /\ UNCHANGED busy
     ELSE Ended(e) /\ busy' = [busy EXCEPT ![doc] = "free"] /\ UNCHANGED filed
  /\ UNCHANGED <<owner, loaded, peer, start, spent>>

\* The rename is the commit point; the last fence may throw after it.
Load(e) ==
  LET doc == Document(edit[e].kind) IN
  /\ edit[e].at = "renamed" /\ busy' = [busy EXCEPT ![doc] = "free"]
  /\ \/ Loads(Edited(e), doc) /\ Ended(e) /\ UNCHANGED spent
     \/ /\ spent.faults < MaxPolicyFaults /\ spent' = [spent EXCEPT !.faults = @ + 1]
        /\ Ended(e) /\ UNCHANGED loaded
  /\ UNCHANGED <<owner, filed, peer, start>>

----------------------------------------------------------------------------
(* The start of a task *)

\* isOutgoingAllowed: every source of the window allows the target.
OutgoingAllowed == /\ Sources("me") # {} /\ PeerActive
                   /\ \A s \in Sources("me") : <<s, peer.generation>> \in loaded.allow

\* assertRouteAllowed of a task of the peer.
IncomingAllowed(s) ==
  /\ PeerActive /\ s \in loaded.granted /\ s \in loaded.receive
  /\ \E w \in BothWindows : Sources(w) = {s}

\* gateState of a task of this window in another one.
GateAllows(s) ==
  /\ Sources("me") # {}
  /\ \A own \in Sources("me") : <<own, s>> \in loaded.pairs
  /\ s \in loaded.receive /\ Sources("other") = {s}

Allows(kind, s) ==
  CASE kind = "out" -> OutgoingAllowed [] kind = "in" -> IncomingAllowed(s) [] OTHER -> GateAllows(s)

\* remoteTaskStart and the route of a task: the first check, made before the
\* routes are stored, the peer is asked or the record is written.
TaskStarts(kind, s) ==
  /\ start.at = "none" /\ Allows(kind, s)
  /\ start' = [NoStart EXCEPT !.at = "checked", !.kind = kind, !.space = s, !.scope = Sources("me")]
  /\ UNCHANGED <<owner, loaded, filed, busy, peer, edit, spent>>

\* Mutant: what was checked at the start is good for the dispatch.
DispatchesUnchecked ==
  /\ start.at = "checked"
  /\ start' = [start EXCEPT !.at = "dispatched", !.auto = (start.kind = "in" /\ start.space \in loaded.auto),
                            !.fine = Allows(start.kind, start.space)]
  /\ UNCHANGED <<owner, loaded, filed, busy, peer, edit, spent>>

\* The last check: assertAuthorized for a task that goes out, with the claims
\* it started with; approveTaskStart for one that comes in. A local one has
\* none after its route was resolved.
Dispatches ==
  /\ start.at = "checked"
  /\ LET go == CASE start.kind = "out" -> OutgoingAllowed /\ Sources("me") = start.scope
                 [] start.kind = "in" -> IncomingAllowed(start.space)
                 [] OTHER -> TRUE IN
     start' = [start EXCEPT !.at = IF go THEN "dispatched" ELSE "refused",
                            !.auto = go /\ start.kind = "in" /\ start.space \in loaded.auto,
                            !.fine = go => Allows(start.kind, start.space)]
  /\ UNCHANGED <<owner, loaded, filed, busy, peer, edit, spent>>

PoliciesNext ==
  \/ \E s \in Spaces : GiveUp(s) \/ \E w \in BothWindows : Claim(s, w)
  \/ PairedAnew \/ Revoke \/ RemoveStored \/ RemoveDone \/ Dispatches
  \/ \E e \in Edits :
       \/ \E k \in {"grant", "auto", "allow", "receive", "pair"}, s \in Spaces, on \in BOOLEAN : Choose(e, k, s, on)
       \/ Confirm(e) \/ Begin(e) \/ Rename(e) \/ Load(e)
  \/ \E k \in {"out", "in", "local"}, s \in Spaces : TaskStarts(k, s)

PoliciesSpec == PoliciesInit /\ [][PoliciesNext]_policyVars

----------------------------------------------------------------------------
(* Properties *)

\* When the revocation of a peer has removed its grants there is none, in
\* memory or stored, and none comes back with an edit that was under way.
GrantsDie == peer.revoked = "removed" => loaded.granted = {} /\ filed.granted = {}

\* Whatever edits were confirmed in whatever order, a workspace that accepts
\* the peer's tasks without asking is one the peer was granted.
AutoNeedsGrant == filed.auto \subseteq filed.granted /\ loaded.auto \subseteq loaded.granted

\* A task that crosses devices is allowed when it leaves the broker, and a
\* task that is accepted without asking comes from a peer that was granted it.
DispatchedIsAllowed == start.kind # "local" => start.fine

\* The grants and the allowlists of a peer never say more than its user did, in memory or stored, and
\* what is started across devices was allowed.
PoliciesSound == GrantsDie /\ AutoNeedsGrant /\ DispatchedIsAllowed
====
