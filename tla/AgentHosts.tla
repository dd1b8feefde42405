---- MODULE AgentHosts ----
(***************************************************************************)
(* Where the host of an agent comes from: AgentHostSourceSelector.ts, which *)
(* gives a task to the editor's host or to one of our own, and             *)
(* AgentHostLauncher.ts, which starts and ends the processes of our own.   *)
(* The runtimes between them are those of AgentStarts; here they start a   *)
(* task, or fail with or without something left to clean up.               *)
(***************************************************************************)
EXTENDS Naturals, FiniteSets

CONSTANTS Jobs,         \* the tasks that are given to the selector
          MaxRetries,   \* editorConnectionRetryDelaysMs.length
          Launches      \* the launches of hosts of our own

\* A launch is not the probe.
ASSUME HostsAssumption == MaxRetries \in Nat /\ "probe" \notin Launches

VARIABLES pick,      \* the start of each task in the selector
          shown,     \* status and sourceSelected
          closing,   \* the disposal of the selector
          host,      \* each launch, and the host it started
          left,      \* the process groups that commands left, and what is known of them
          shutting   \* the disposal of the launcher

selectorVars == <<pick, shown, closing>>
launcherVars == <<host, left, shutting>>

----------------------------------------------------------------------------
(* The selector. *)

Sources == {"editor", "standalone"}

NewPick ==
  [at      |-> "none",   \* then "approving", "readying", at a source, "retrying", "started" or "failed"
   strict  |-> FALSE,    \* requireEditor, or it continues a session
   second  |-> FALSE,    \* the standalone source is the fallback
   aborted |-> FALSE,
   tries   |-> 0,
   holds   |-> {},       \* the sources that may hold something of the task
   unclean |-> FALSE,    \* it failed with cleanupFailed
   stop    |-> "none",   \* cancelStart: "asked", then "ok" or "failed"
   asks    |-> {},       \* the runtimes whose cancelStart has not settled
   refused |-> FALSE,    \* one of them rejected
   live    |-> FALSE]    \* the start was in flight when it was cancelled

\* What a start waits for before it asks the editor; an abort ends the wait.
Waits == {"readying", "retrying"}

\* How the editor's start fails, for all that is told of it: its connection is
\* refused, it is otherwise unavailable, it fails in another way, or it leaves
\* something behind.
Failures == {"refused", "unavailable", "other", "unclean"}

Pending(p) == p.at \in Sources \cup Waits \cup {"approving"}
Abandoned(p) == [p EXCEPT !.aborted = p.aborted \/ Pending(p)]

\* What is shown of the selector's choice: a source, whether its failure or
\* the editor's is told with it, and whether a source was selected.
Show(source, failure) == shown' = [source |-> source, failure |-> failure, chosen |-> TRUE]

SelectorInit ==
  /\ pick = [j \in Jobs |-> NewPick]
  /\ shown = [source |-> "standalone", failure |-> FALSE, chosen |-> FALSE]
  /\ closing = [at |-> "no", dues |-> {}, bad |-> FALSE]

Active == closing.at = "no"

Picks(j, strict) ==
  /\ pick[j].at = "none" /\ Active
  /\ pick' = [pick EXCEPT ![j].at = "approving", ![j].strict = strict]
  /\ UNCHANGED <<shown, closing>>

\* startSource: the task is with a source from the call of its start.
Given(p, source) == [p EXCEPT !.at = source, !.holds = p.holds \cup {source}]

\* The user approves; what is preferred is read then, and not again.
Approved(j, preferEditor) ==
  LET p == pick[j] IN
  /\ p.at = "approving" /\ ~p.aborted
  /\ pick' = [pick EXCEPT ![j] = IF preferEditor \/ p.strict THEN [p EXCEPT !.at = "readying"]
                                 ELSE Given(p, "standalone")]
  /\ UNCHANGED <<shown, closing>>

\* Not approved; or what the start waits for is over when it is cancelled.
GivesUp(j) ==
  /\ pick[j].at = "approving" \/ (pick[j].at \in Waits /\ pick[j].aborted)
  /\ pick' = [pick EXCEPT ![j].at = "failed"]
  /\ UNCHANGED <<shown, closing>>

\* The wait for the editor's readiness, or for the next attempt, is over.
TriesEditor(j) ==
  LET p == pick[j] IN
  /\ p.at \in Waits /\ ~p.aborted
  /\ pick' = [pick EXCEPT ![j] = Given([p EXCEPT !.tries = IF p.at = "retrying" THEN p.tries + 1 ELSE p.tries],
                                       "editor")]
  /\ UNCHANGED <<shown, closing>>

\* The handle of a start that succeeded after the disposal began is dropped,
\* unless the standalone source was the only one asked.
HandsOver(j) ==
  LET p == pick[j]
      dropped == ~Active /\ (p.at = "editor" \/ p.second) IN
  /\ p.at \in Sources
  /\ pick' = [pick EXCEPT ![j].at = IF dropped THEN "failed" ELSE "started"]
  /\ IF dropped \/ p.second THEN UNCHANGED shown ELSE Show(p.at, FALSE)
  /\ UNCHANGED closing

\* A source's start rejects, with cleanupFailed or with nothing left behind.
FailsAt(p, clean) ==
  [p EXCEPT !.at = "failed", !.unclean = ~clean, !.holds = IF clean THEN p.holds \ {p.at} ELSE p.holds]

\* Mutant: a failed cleanup at the editor does not keep the task from the fallback.
GoesOnRegardless(p, how) == how # "other" /\ ~p.aborted

\* isFallbackEligible, of a start that is not cancelled.
GoesOn(p, how) == how \in {"refused", "unavailable"} /\ ~p.aborted

\* The editor's start rejects. The next attempt waits for a while; the fallback
\* does not.
EditorFails(j, how) ==
  LET p == pick[j]
      again == how = "refused" /\ p.tries < MaxRetries
      over == FailsAt(p, how # "unclean") IN
  /\ p.at = "editor"
  /\ \/ /\ GoesOn(p, how) /\ again
        /\ pick' = [pick EXCEPT ![j] = [over EXCEPT !.at = "retrying"]]
        /\ UNCHANGED shown
     \/ /\ GoesOn(p, how) /\ ~again /\ ~p.strict
        /\ pick' = [pick EXCEPT ![j] = Given([over EXCEPT !.second = TRUE], "standalone")]
        /\ Show("standalone", TRUE)
     \/ /\ ~p.aborted /\ (GoesOn(p, how) => ~again /\ p.strict)
        /\ pick' = [pick EXCEPT ![j] = over]
        /\ Show("editor", TRUE)
     \/ /\ p.aborted
        /\ pick' = [pick EXCEPT ![j] = over]
        /\ UNCHANGED shown
  /\ UNCHANGED closing

StandaloneFails(j, clean) ==
  LET p == pick[j] IN
  /\ p.at = "standalone"
  /\ pick' = [pick EXCEPT ![j] = FailsAt(p, clean)]
  /\ IF p.second /\ ~p.aborted THEN Show("standalone", TRUE) ELSE UNCHANGED shown
  /\ UNCHANGED closing

\* probe and prepareStart, which only change what is shown: a probe for the
\* editor shows it when nothing was selected, or for a strict task when the
\* selection is another; a failed preparation shows the editor's failure.
Probes(strict, preferEditor) ==
  /\ Active
  /\ \/ /\ ~strict /\ ~preferEditor
        /\ Show("standalone", FALSE)
     \/ /\ strict \/ preferEditor
        /\ \A j \in Jobs : ~Pending(pick[j])
        /\ ~shown.chosen \/ (strict /\ shown.source # "editor")
        /\ shown' = [shown EXCEPT !.source = "editor", !.failure = FALSE]
  /\ UNCHANGED <<pick, closing>>

PreparationFails ==
  /\ Active
  /\ Show("editor", TRUE)
  /\ UNCHANGED <<pick, closing>>

\* cancelStart: the start is aborted, and both runtimes are asked to cancel theirs.
StopsStart(j) ==
  LET p == pick[j] IN
  /\ p.at # "none" /\ p.stop # "asked"
  /\ pick' = [pick EXCEPT ![j] = [Abandoned(p) EXCEPT !.stop = "asked", !.asks = Sources, !.refused = FALSE,
                                                   !.live = Pending(p)]]
  /\ UNCHANGED <<shown, closing>>

\* A runtime that confirms has settled its start; it may say nothing of what
\* it could not clean up.
SourceStops(j, source, ok) ==
  LET p == pick[j] IN
  /\ p.stop = "asked" /\ source \in p.asks
  /\ ok => p.at # source
  /\ pick' = [pick EXCEPT ![j].asks = p.asks \ {source}, ![j].refused = p.refused \/ ~ok]
  /\ UNCHANGED <<shown, closing>>

\* cancelTrackedStart: what the start itself left behind counts as well.
Cancelled(p) == ~p.refused /\ ~(p.live /\ p.unclean)

StopsSettled(j) ==
  LET p == pick[j] IN
  /\ p.stop = "asked" /\ p.asks = {}
  /\ p.refused \/ ~Pending(p)
  /\ pick' = [pick EXCEPT ![j].stop = IF Cancelled(p) THEN "ok" ELSE "failed"]
  /\ UNCHANGED <<shown, closing>>

\* The task that was started ends, or what was left is cleaned up: AgentStarts and AgentTask.
LetsGo(j, source) ==
  /\ pick[j].at \in {"started", "failed"} /\ source \in pick[j].holds
  /\ pick' = [pick EXCEPT ![j].holds = @ \ {source}]
  /\ UNCHANGED <<shown, closing>>

\* dispose: a disposal that failed may be tried again.
Closes ==
  /\ closing.at \in {"no", "failed"}
  /\ closing' = [at |-> "waiting", dues |-> Sources, bad |-> FALSE]
  /\ pick' = [j \in Jobs |-> Abandoned(pick[j])]
  /\ UNCHANGED shown

\* A runtime that is disposed of has settled its starts and holds nothing.
SourceCloses(source, ok) ==
  /\ closing.at = "waiting" /\ source \in closing.dues
  /\ ok => \A j \in Jobs : pick[j].at # source
  /\ closing' = [closing EXCEPT !.dues = @ \ {source}, !.bad = closing.bad \/ ~ok]
  /\ pick' = [j \in Jobs |-> IF ok THEN [pick[j] EXCEPT !.holds = pick[j].holds \ {source}] ELSE pick[j]]
  /\ UNCHANGED shown

SelectorClosed ==
  /\ closing.at = "waiting" /\ closing.dues = {} /\ \A j \in Jobs : ~Pending(pick[j])
  /\ closing' = [closing EXCEPT !.at = IF closing.bad THEN "failed" ELSE "done"]
  /\ UNCHANGED <<pick, shown>>

SelectorNext ==
  \/ \E j \in Jobs :
       \/ \E strict \in BOOLEAN : Picks(j, strict)
       \/ \E preferEditor \in BOOLEAN : Approved(j, preferEditor)
       \/ \E how \in Failures : EditorFails(j, how)
       \/ \E clean \in BOOLEAN : StandaloneFails(j, clean)
       \/ \E source \in Sources, ok \in BOOLEAN : SourceStops(j, source, ok)
       \/ \E source \in Sources : LetsGo(j, source)
       \/ GivesUp(j) \/ TriesEditor(j) \/ HandsOver(j) \/ StopsStart(j) \/ StopsSettled(j)
  \/ \E strict, preferEditor \in BOOLEAN : Probes(strict, preferEditor)
  \/ \E source \in Sources, ok \in BOOLEAN : SourceCloses(source, ok)
  \/ PreparationFails \/ Closes \/ SelectorClosed

SelectorSpec == SelectorInit /\ [][SelectorNext]_selectorVars

----------------------------------------------------------------------------
(* Properties of the selector. *)

\* A task is never with two sources, however often the editor was tried: the
\* fallback begins when the editor has nothing of it; and a strict task, or
\* one that continues a session, never gets a host of our own.
OneSource ==
  \A j \in Jobs : LET p == pick[j] IN
    /\ ~({"editor", "standalone"} \subseteq p.holds)
    /\ p.strict => "standalone" \notin p.holds

\* What a failed start left behind was told to its caller, and no cancellation
\* of it is confirmed; a confirmed one leaves at most a task that was handed over.
LeftIsTold ==
  \A j \in Jobs : LET p == pick[j] IN
    Active /\ p.holds # {} =>
      /\ p.at = "failed" => p.unclean
      /\ p.stop = "ok" /\ p.live => p.at = "started"

\* A disposal that succeeds leaves no start under way, and nothing with either source.
ClosedHoldsNothing ==
  closing.at = "done" => \A j \in Jobs : ~Pending(pick[j]) /\ pick[j].holds = {}

----------------------------------------------------------------------------
(* The launcher. *)

NewHost ==
  [at      |-> "none",   \* then "discovering", "rooted", "polling", "cleaning" or "withdrawing"; "launched" or "failed"
   aborted |-> FALSE,
   alive   |-> FALSE,    \* the host's process group
   dir     |-> FALSE,    \* its directory
   spawned |-> FALSE,    \* processGroupId is known, or the host is a WindowsOwnedProcess
   owned   |-> FALSE,    \* an OwnedAgentHost or a RetainedLaunchCleanup is in this.owned
   killed  |-> FALSE,    \* its processTerminated
   work    |-> "no"]     \* its disposal: "killing", then "removing"

\* Who runs commands: the launches, and probe().
Callers == Launches \cup {"probe"}

LauncherInit ==
  /\ host = [l \in Launches |-> NewHost]
  /\ left = [c \in Callers |-> "no"]
  /\ shutting = [at |-> "no", hosts |-> {}, groups |-> {}, bad |-> FALSE, probing |-> FALSE]

Launching(l) == host[l].at \in {"discovering", "rooted", "polling", "cleaning", "withdrawing"}
Shut == shutting.at # "no"

\* runCommand: a command whose process group could not be ended leaves it to
\* the launcher; a caller leaves one at most.
Leaves(c, leaves) ==
  /\ leaves => left[c] = "no"
  /\ left' = IF leaves THEN [left EXCEPT ![c] = "owned"] ELSE left

Launch(l) ==
  /\ host[l].at = "none" /\ ~Shut
  /\ host' = [host EXCEPT ![l].at = "discovering"]
  /\ UNCHANGED <<left, shutting>>

AbortsLaunch(l) ==
  /\ Launching(l) /\ ~host[l].aborted
  /\ host' = [host EXCEPT ![l].aborted = TRUE]
  /\ UNCHANGED <<left, shutting>>

\* discoverCodeCli, and the directory of the instance.
Discovers(l) ==
  /\ host[l].at = "discovering" /\ ~host[l].aborted
  /\ host' = [host EXCEPT ![l].at = "rooted", ![l].dir = TRUE]
  /\ UNCHANGED <<left, shutting>>

NotDiscovered(l, leaves) ==
  /\ host[l].at = "discovering"
  /\ host' = [host EXCEPT ![l].at = "failed"]
  /\ Leaves(l, leaves)
  /\ UNCHANGED shutting

\* The last command before it can still finish when the launch is aborted.
Spawns(l) ==
  /\ host[l].at = "rooted"
  /\ host' = [host EXCEPT ![l].at = "polling", ![l].alive = TRUE, ![l].spawned = TRUE]
  /\ UNCHANGED <<left, shutting>>

\* Without a process there is only the directory to remove; one that cannot
\* be removed is told to the caller, and is not kept for a retry.
NotSpawned(l, leaves, removed) ==
  /\ host[l].at = "rooted"
  /\ host' = [host EXCEPT ![l].at = "failed", ![l].dir = ~removed]
  /\ Leaves(l, leaves)
  /\ UNCHANGED shutting

\* The endpoint is that of the host; a launch that is not wanted any more
\* disposes of it.
Ready(l) ==
  /\ host[l].at = "polling"
  /\ host' = IF Shut \/ host[l].aborted
             THEN [host EXCEPT ![l].at = "withdrawing", ![l].owned = TRUE, ![l].work = "killing"]
             ELSE [host EXCEPT ![l].at = "launched", ![l].owned = TRUE]
  /\ UNCHANGED <<left, shutting>>

NotReady(l, leaves) ==
  /\ host[l].at = "polling"
  /\ host' = [host EXCEPT ![l].at = "cleaning", ![l].owned = TRUE, ![l].work = "killing"]
  /\ Leaves(l, leaves)
  /\ UNCHANGED shutting

Exits(l) ==
  /\ host[l].alive
  /\ host' = [host EXCEPT ![l].alive = FALSE]
  /\ UNCHANGED <<left, shutting>>

\* dispose(): a disposal under way is shared, and one that failed begins again
\* where it failed.
Disposing(h) ==
  IF h.owned /\ h.work = "no" THEN [h EXCEPT !.work = IF h.killed THEN "removing" ELSE "killing"] ELSE h

HostDisposed(l) ==
  /\ host[l].at = "launched" /\ host[l].owned /\ host[l].work = "no"
  /\ host' = [host EXCEPT ![l] = Disposing(host[l])]
  /\ UNCHANGED <<left, shutting>>

\* A disposal settles, and with it the launch that waits for it.
Over(h) == [h EXCEPT !.work = "no", !.at = IF h.at = "launched" THEN "launched" ELSE "failed"]

HeardOf(l, ok) ==
  shutting' = [shutting EXCEPT !.hosts = @ \ {l}, !.bad = shutting.bad \/ (l \in shutting.hosts /\ ~ok)]

Kills(l) ==
  /\ host[l].work = "killing"
  /\ host' = [host EXCEPT ![l].alive = FALSE, ![l].killed = TRUE, ![l].work = "removing"]
  /\ UNCHANGED <<left, shutting>>

Removes(l) ==
  /\ host[l].work = "removing"
  /\ host' = [host EXCEPT ![l] = [Over(host[l]) EXCEPT !.dir = FALSE, !.owned = FALSE]]
  /\ HeardOf(l, TRUE)
  /\ UNCHANGED left

\* The group is not known to have ended, or the directory not to have gone.
DisposalFails(l) ==
  /\ host[l].work # "no"
  /\ host' = [host EXCEPT ![l] = Over(host[l])]
  /\ HeardOf(l, FALSE)
  /\ UNCHANGED left

GroupEnds(c, ok) ==
  /\ left[c] = "ending"
  /\ left' = [left EXCEPT ![c] = IF ok THEN "no" ELSE "owned"]
  /\ shutting' = [shutting EXCEPT !.groups = @ \ {c}, !.bad = shutting.bad \/ (c \in shutting.groups /\ ~ok)]
  /\ UNCHANGED host

\* A probe is not among the operations the disposal waits for.
ProbeBegins ==
  /\ ~Shut /\ ~shutting.probing
  /\ shutting' = [shutting EXCEPT !.probing = TRUE]
  /\ UNCHANGED <<host, left>>

ProbeEnds(leaves) ==
  /\ shutting.probing
  /\ shutting' = [shutting EXCEPT !.probing = FALSE]
  /\ Leaves("probe", leaves)
  /\ UNCHANGED host

\* dispose: may be called again when it has failed.
ShutsDown ==
  /\ shutting.at \in {"no", "failed"}
  /\ shutting' = [shutting EXCEPT !.at = "draining"]
  /\ host' = [l \in Launches |-> [host[l] EXCEPT !.aborted = host[l].aborted \/ Launching(l)]]
  /\ UNCHANGED left

\* The launches have settled; all that is owned now is disposed of.
Drained ==
  /\ shutting.at = "draining" /\ \A l \in Launches : ~Launching(l)
  /\ host' = [l \in Launches |-> Disposing(host[l])]
  /\ left' = [c \in Callers |-> IF left[c] = "no" THEN "no" ELSE "ending"]
  /\ shutting' = [shutting EXCEPT !.at = "ending", !.bad = FALSE,
                                  !.hosts = {l \in Launches : host[l].owned},
                                  !.groups = {c \in Callers : left[c] # "no"}]

ShutDown ==
  /\ shutting.at = "ending" /\ shutting.hosts = {} /\ shutting.groups = {}
  /\ shutting' = [shutting EXCEPT !.at = IF shutting.bad THEN "failed" ELSE "done"]
  /\ UNCHANGED <<host, left>>

LauncherNext ==
  \/ \E l \in Launches :
       \/ Launch(l) \/ AbortsLaunch(l) \/ Discovers(l) \/ Spawns(l) \/ Ready(l) \/ Exits(l)
       \/ HostDisposed(l) \/ Kills(l) \/ Removes(l) \/ DisposalFails(l)
       \/ \E leaves \in BOOLEAN :
            NotDiscovered(l, leaves) \/ NotReady(l, leaves) \/ \E removed \in BOOLEAN : NotSpawned(l, leaves, removed)
  \/ \E c \in Callers, ok \in BOOLEAN : GroupEnds(c, ok)
  \/ \E leaves \in BOOLEAN : ProbeEnds(leaves)
  \/ ProbeBegins \/ ShutsDown \/ Drained \/ ShutDown

LauncherSpec == LauncherInit /\ [][LauncherNext]_launcherVars

----------------------------------------------------------------------------
(* Properties of the launcher. *)

\* A host that is alive, and the directory of one that was, is in the hands of
\* its launch or of the launcher, whichever cleanups failed.
HostsTracked ==
  \A l \in Launches : LET h == host[l] IN
    ~Launching(l) /\ ~h.owned => ~h.alive /\ (h.spawned => ~h.dir)

\* A disposal that succeeds leaves no launch under way, no host and no group of
\* a launch; what a probe leaves that ends after it is found by no one.
ShutHasNothing ==
  shutting.at = "done" => \A l \in Launches : ~Launching(l) /\ ~host[l].alive /\ ~host[l].owned /\ left[l] = "no"

\* Where the agent of a task runs is known: at one source, with what was left
\* told to the caller, and every process of our own tracked until it has ended.
HostsSound == OneSource /\ LeftIsTold /\ ClosedHoldsNothing /\ HostsTracked /\ ShutHasNothing
====
