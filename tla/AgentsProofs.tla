---- MODULE AgentsProofs ----
(***************************************************************************)
(* The agents of a window, for any number of tasks.  A host process always *)
(* has an owner: NoHostUnowned is not inductive, since a start leaves the  *)
(* queue in many ways; HostKept adds that a start has acquired nothing     *)
(* before its host is launched, that an owner which was disposed of has no *)
(* host, and that a started host is the task's; StartsClosing, that a      *)
(* runtime which has drained its starts only refuses new ones.             *)
(* And where a host comes from is known: SelectorInv and LauncherInv say   *)
(* what a task, or a launch, may hold at each point, and what a disposal   *)
(* under way still waits for.                                              *)
(* The agent itself is installed by CliInstaller: InstallerInv says what a *)
(* call has left in the storage root at each of its phases, that what the  *)
(* manifest names or a call knows of was activated, and that of two        *)
(* installations of a process one waits for the other.                     *)
(* What asks for the agents is the executor of WindowNodeTaskExecutor:     *)
(* RecordKept says of a start record, phase by phase, which of its agent,  *)
(* its pump, its cancellation and what it published may be set together;   *)
(* GateKept, that the turns taken are those of the starts that need one    *)
(* and the first turn that of the start under way; DisposalSound, what a   *)
(* disposal has already settled.                                           *)
(***************************************************************************)
EXTENDS WindowNodeTaskExecutor, AgentStarts, AgentHosts, CliInstaller, TLAPS

----------------------------------------------------------------------------
(* AgentStarts *)

StartPhases == InFlight \cup {"none", "handle", "failed", "unclean"}

StartRecords ==
  [phase : StartPhases, aborted : BOOLEAN, host : BOOLEAN, task : BOOLEAN, retained : BOOLEAN,
   closed : BOOLEAN, op : {"no", "pending", "yes"}, turn : {"none", "active", "ended"},
   cancel : {"none", "pending", "confirmed", "unconfirmed"},
   cleanup : {"none", "waiting", "ok", "failed"}, scoped : BOOLEAN]

\* Nothing was acquired yet.
Unacquired == {"none", "queued", "retrying", "resolving", "confirming", "launching"}

\* A host has an owner that may still be disposed of; a started task is kept until then.
HostKept(r) ==
  /\ r.phase \in Unacquired => r.op = "no" /\ ~r.host /\ ~r.task /\ ~r.retained
  /\ r.op = "yes" => ~r.host
  /\ r.phase = "starting" /\ r.host => r.task
  /\ r.host => r.phase \in InFlight \/ r.task \/ r.retained

\* Once its starts have settled, a runtime that is disposed of only refuses new ones.
StartsClosing ==
  /\ life \in {"owners", "failed", "done"} => \A s \in Starts : st[s].phase \in InFlight => st[s].phase = "queued"
  /\ life = "done" => \A s \in Starts : ~st[s].host

StartsInv ==
  /\ st \in [Starts -> StartRecords]
  /\ \A s \in Starts : HostKept(st[s])
  /\ StartsClosing

\* No start has begun.
LEMMA StartsInvInit == StartsInit => StartsInv
  BY DEF StartsInit, StartsInv, NewStart, StartRecords, StartPhases, InFlight, InTurn, HostKept, StartsClosing

\* A step that changes one start.
LEMMA OneChanged ==
  ASSUME StartsInv, NEW s \in Starts, NEW r \in StartRecords, HostKept(r), st' = [st EXCEPT ![s] = r], life' = life,
         life \in {"owners", "failed", "done"} /\ r.phase \in InFlight => r.phase = "queued",
         life = "done" => ~r.host
  PROVE  StartsInv'
<1> USE DEF StartsInv
<1>1. st' \in [Starts -> StartRecords] /\ \A u \in Starts : st'[u] = IF u = s THEN r ELSE st[u]
  OBVIOUS
<1>2. \A u \in Starts : HostKept(st'[u])
  BY <1>1
<1>3. StartsClosing'
  BY <1>1 DEF StartsClosing
<1> QED
  BY <1>1, <1>2, <1>3

\* Disposing of an owner takes nothing from it yet.
LEMMA OwnedKept ==
  ASSUME NEW r \in StartRecords, HostKept(r), r.phase \notin Unacquired
  PROVE  /\ Owned(r) \in StartRecords /\ HostKept(Owned(r))
         /\ Owned(r).phase = r.phase /\ Owned(r).host = r.host
  BY DEF Owned, StartRecords, HostKept

\* A cancellation that finds its owner disposed of.
LEMMA CleanedKept ==
  ASSUME NEW r \in StartRecords, HostKept(r), r.op = "yes", r.phase \notin Unacquired
  PROVE  LET c == CancelCleaned([r EXCEPT !.cleanup = "waiting"], TRUE) IN
         c \in StartRecords /\ HostKept(c) /\ c.phase = r.phase /\ c.host = r.host
  BY DEF CancelCleaned, Stopped, StartRecords, HostKept

----------------------------------------------------------------------------
(* Steps *)

\* The disposal of an owner settles; whoever gives up a host keeps its owner for a retry.
LEMMA DisposedKeeps ==
  ASSUME StartsInv, NEW s \in Starts, NEW ok \in BOOLEAN, OwnerDisposed(s, ok)
  PROVE  StartsInv'
<1> DEFINE done == [st[s] EXCEPT !.op = IF ok THEN "yes" ELSE "no", !.host = @ /\ ~ok, !.task = @ /\ ~ok]
           cancelled == CancelCleaned(done, ok)
           cleaned == StartCleaned(cancelled, ok)
           settled == RetryCleaned(s, cleaned, ok)
<1>1. st[s] \in StartRecords /\ HostKept(st[s]) /\ st[s].op = "pending"
  BY DEF StartsInv, OwnerDisposed
<1>2. st[s].phase \notin Unacquired
  BY <1>1 DEF HostKept
<1>3. /\ done \in StartRecords /\ done.phase = st[s].phase
      /\ ok => ~done.host /\ ~done.task /\ done.op = "yes"
      /\ ~ok => /\ done.op = "no" /\ (done.host <=> st[s].host) /\ (done.task <=> st[s].task)
                /\ (done.retained <=> st[s].retained)
  BY <1>1 DEF StartRecords
<1> HIDE DEF done
<1>4. /\ cancelled \in StartRecords /\ cancelled.phase = done.phase /\ cancelled.op = done.op
      /\ cancelled.host = done.host /\ cancelled.task = done.task
      /\ ~ok => (done.retained => cancelled.retained)
  <2> DEFINE yes == [done EXCEPT !.cleanup = "ok", !.retained = FALSE]
             no == [done EXCEPT !.cleanup = "failed", !.retained = TRUE]
  <2>1. /\ yes \in StartRecords /\ yes.phase = done.phase /\ yes.op = done.op
        /\ yes.host = done.host /\ yes.task = done.task
    BY <1>3 DEF StartRecords
  <2>2. /\ no \in StartRecords /\ no.phase = done.phase /\ no.op = done.op
        /\ no.host = done.host /\ no.task = done.task /\ no.retained
    BY <1>3 DEF StartRecords
  <2>3. CASE done.cleanup # "waiting"
    BY <2>3, <1>3 DEF CancelCleaned
  <2>4. CASE done.cleanup = "waiting" /\ Stopped(done, ok)
    <3>1. ok /\ cancelled = yes
      BY <2>4 DEF CancelCleaned, Stopped
    <3> QED
      BY <3>1, <2>1
  <2>5. CASE done.cleanup = "waiting" /\ ~Stopped(done, ok)
    <3>1. cancelled = no
      BY <2>5 DEF CancelCleaned
    <3> QED
      BY <3>1, <2>2
  <2> QED
    BY <2>3, <2>4, <2>5
<1> HIDE DEF cancelled
<1>5. /\ cleaned \in StartRecords /\ cleaned.op = done.op
      /\ cleaned.host = done.host /\ cleaned.task = done.task
      /\ cleaned.phase = done.phase \/ (done.phase = "cleaning" /\ cleaned.phase \in {"failed", "unclean"})
      /\ ~ok => (done.retained => cleaned.retained) /\ (done.phase = "cleaning" => cleaned.retained)
  <2> DEFINE yes == [cancelled EXCEPT !.phase = "failed"]
             no == [cancelled EXCEPT !.phase = "unclean", !.retained = TRUE]
  <2>1. /\ yes \in StartRecords /\ yes.phase = "failed" /\ yes.op = done.op
        /\ yes.host = done.host /\ yes.task = done.task
    BY <1>4 DEF StartRecords, StartPhases
  <2>2. /\ no \in StartRecords /\ no.phase = "unclean" /\ no.op = done.op
        /\ no.host = done.host /\ no.task = done.task /\ no.retained
    BY <1>4 DEF StartRecords, StartPhases
  <2>3. CASE cancelled.phase # "cleaning"
    <3>1. cleaned = cancelled
      BY <2>3 DEF StartCleaned
    <3> QED
      BY <3>1, <2>3, <1>4
  <2>4. CASE cancelled.phase = "cleaning" /\ ok
    <3>1. cleaned = yes
      BY <2>4 DEF StartCleaned
    <3> QED
      BY <3>1, <2>1, <2>4, <1>4
  <2>5. CASE cancelled.phase = "cleaning" /\ ~ok
    <3>1. cleaned = no
      BY <2>5 DEF StartCleaned
    <3> QED
      BY <3>1, <2>2, <2>5, <1>4
  <2> QED
    BY <2>3, <2>4, <2>5
<1> HIDE DEF cleaned
<1>6. /\ settled \in StartRecords /\ settled.op = done.op /\ settled.phase = cleaned.phase
      /\ settled.host = done.host /\ settled.task = done.task
      /\ ~ok => settled = cleaned
  <2>1. CASE settled = cleaned
    BY <2>1, <1>5
  <2>2. CASE settled = [cleaned EXCEPT !.retained = FALSE] /\ ok
    BY <2>2, <1>5 DEF StartRecords
  <2> QED
    BY <2>1, <2>2 DEF RetryCleaned
<1> HIDE DEF settled
<1>7. HostKept(settled)
  BY <1>1, <1>2, <1>3, <1>5, <1>6 DEF HostKept, Unacquired, InFlight, InTurn
<1>8. st' = [st EXCEPT ![s] = settled] /\ life' = life
  BY DEF OwnerDisposed, settled, cleaned, cancelled, done
<1>9. life \in {"owners", "failed", "done"} /\ settled.phase \in InFlight => settled.phase = "queued"
  BY <1>3, <1>5, <1>6 DEF StartsInv, StartsClosing, InFlight, InTurn
<1>10. life = "done" => ~settled.host
  BY <1>1, <1>3, <1>6 DEF StartsInv, StartsClosing
<1> QED
  BY <1>6, <1>7, <1>8, <1>9, <1>10, OneChanged

\* Only a start's own await moves it.
LEMMA AdvanceKeeps ==
  ASSUME StartsInv, NEW s \in Starts,
         \/ StartTask(s) \/ NoRetry(s) \/ Advance(s) \/ GiveUp(s) \/ LaunchFails(s) \/ Connected(s)
         \/ TurnBegins(s) \/ TurnEnds(s) \/ StartSucceeds(s) \/ CancelSettles(s) \/ CancelStartTimeout(s)
  PROVE  StartsInv'
<1>1. st[s] \in StartRecords /\ HostKept(st[s])
  BY DEF StartsInv
<1>2. ASSUME NEW p \in StartPhases, Goto(s, p), life' = life,
             p \in Unacquired => st[s].phase \in Unacquired,
             st[s].host => p \in InFlight \/ st[s].task \/ st[s].retained, p # "starting",
             life \in {"owners", "failed", "done"} /\ p \in InFlight => p = "queued"
      PROVE  StartsInv'
  <2> DEFINE r == [st[s] EXCEPT !.phase = p]
  <2>1. r \in StartRecords /\ HostKept(r) /\ r.phase = p /\ r.host = st[s].host
    BY <1>1, <1>2 DEF StartRecords, HostKept
  <2>2. life = "done" => ~r.host
    BY <2>1 DEF StartsInv, StartsClosing
  <2> QED
    BY <1>2, <2>1, <2>2, OneChanged DEF Goto
<1>3. StartTask(s) => StartsInv'
  BY <1>1, <1>2 DEF StartTask, Unacquired, StartPhases, InFlight, InTurn, HostKept
<1>4. NoRetry(s) \/ Advance(s) => StartsInv'
  BY <1>1, <1>2 DEF NoRetry, Advance, Disposed, Unacquired, StartPhases, InFlight, InTurn, HostKept, StartsInv, StartsClosing
<1>5. GiveUp(s) => StartsInv'
  BY <1>1, <1>2 DEF GiveUp, Unacquired, StartPhases, InFlight, InTurn, HostKept
<1>6. StartSucceeds(s) => StartsInv'
  BY <1>1, <1>2 DEF StartSucceeds, Unacquired, StartPhases, InFlight, InTurn, HostKept
<1>7. LaunchFails(s) => StartsInv'
  <2> SUFFICES ASSUME LaunchFails(s) PROVE StartsInv'
    OBVIOUS
  <2> DEFINE r == [st[s] EXCEPT !.phase = "unclean", !.host = TRUE, !.retained = TRUE]
  <2>1. r \in StartRecords /\ HostKept(r) /\ r.phase = "unclean"
    BY <1>1 DEF StartRecords, StartPhases, HostKept, Unacquired, LaunchFails
  <2>2. life # "done"
    BY DEF LaunchFails, StartsInv, StartsClosing, InFlight, InTurn
  <2> QED
    BY <2>1, <2>2, OneChanged DEF LaunchFails, InFlight, InTurn
<1>8. Connected(s) => StartsInv'
  <2> SUFFICES ASSUME Connected(s) PROVE StartsInv'
    OBVIOUS
  <2> DEFINE r == [st[s] EXCEPT !.task = TRUE, !.phase = "starting"]
  <2>1. r \in StartRecords /\ HostKept(r)
    BY <1>1 DEF StartRecords, StartPhases, HostKept, Unacquired, Connected, InFlight, InTurn
  <2>2. life = "up"
    BY DEF Connected, Disposed
  <2> QED
    BY <2>1, <2>2, OneChanged DEF Connected
<1>9. ASSUME NEW r \in StartRecords, st' = [st EXCEPT ![s] = r], life' = life,
             r.phase = st[s].phase, r.host = st[s].host, r.task = st[s].task,
             r.op = st[s].op, r.retained = st[s].retained
      PROVE  StartsInv'
  <2>1. HostKept(r)
    BY <1>1, <1>9 DEF HostKept
  <2>2. life \in {"owners", "failed", "done"} /\ r.phase \in InFlight => r.phase = "queued"
    BY <1>9 DEF StartsInv, StartsClosing
  <2>3. life = "done" => ~r.host
    BY <1>9 DEF StartsInv, StartsClosing
  <2> QED
    BY <1>9, <2>1, <2>2, <2>3, OneChanged
<1>10. TurnBegins(s) => StartsInv'
  BY <1>1, <1>9 DEF TurnBegins, StartRecords
<1>11. TurnEnds(s) => StartsInv'
  BY <1>1, <1>9 DEF TurnEnds, StartRecords
<1>12. CancelSettles(s) \/ CancelStartTimeout(s) => StartsInv'
  BY <1>1, <1>9 DEF CancelSettles, CancelStartTimeout, StartRecords
<1> QED
  BY <1>3, <1>4, <1>5, <1>6, <1>7, <1>8, <1>10, <1>11, <1>12

\* What a retry makes of the owners there are.
LEMMA RetryKept ==
  ASSUME NEW r \in StartRecords, HostKept(r)
  PROVE  /\ BeginRetry(r) \in StartRecords /\ HostKept(BeginRetry(r))
         /\ BeginRetry(r).phase = r.phase /\ BeginRetry(r).host = r.host
         /\ r.phase \in Unacquired => BeginRetry(r) = r
<1>1. CASE ~r.retained
  BY <1>1 DEF BeginRetry
<1>2. CASE r.retained
  <2>1. r.phase \notin Unacquired
    BY <1>2 DEF HostKept
  <2> DEFINE o == Owned(r)
             kept == r.op # "yes"
  <2>2. o \in StartRecords /\ HostKept(o) /\ o.phase = r.phase /\ o.host = r.host
    BY <2>1, OwnedKept
  <2>3. kept \in BOOLEAN /\ (~kept => ~o.host)
    BY <2>2 DEF HostKept
  <2>4. BeginRetry(r) = [o EXCEPT !.retained = kept]
    BY <1>2 DEF BeginRetry
  <2> HIDE DEF o, kept
  <2>5. [o EXCEPT !.retained = kept] \in StartRecords
    BY <2>2, <2>3 DEF StartRecords
  <2>6. HostKept([o EXCEPT !.retained = kept])
    BY <2>1, <2>2, <2>3 DEF HostKept, StartRecords
  <2> QED
    BY <2>1, <2>2, <2>4, <2>5, <2>6 DEF StartRecords
<1> QED
  BY <1>1, <1>2

\* Only the head of the queue goes on with a retry.
LEMMA RetriedKeeps ==
  ASSUME StartsInv, Retried, ~Disposed, life' = life,
         \A s \in Starts : HasTurn(s) => st[s].phase = "queued"
  PROVE  StartsInv'
<1> DEFINE r(s) == IF retry.on THEN st[s] ELSE BeginRetry(st[s])
           n(s) == IF HasTurn(s) THEN [r(s) EXCEPT !.phase = "retrying"] ELSE r(s)
<1>1. ASSUME NEW s \in Starts PROVE n(s) \in StartRecords /\ HostKept(n(s))
  <2>1. st[s] \in StartRecords /\ HostKept(st[s])
    BY DEF StartsInv
  <2>2. r(s) \in StartRecords /\ HostKept(r(s)) /\ r(s).phase = st[s].phase
    BY <2>1, RetryKept
  <2> HIDE DEF r
  <2>3. CASE ~HasTurn(s)
    BY <2>2, <2>3
  <2>4. CASE HasTurn(s)
    <3>1. r(s).phase = "queued"
      BY <2>2, <2>4
    <3>2. [r(s) EXCEPT !.phase = "retrying"] \in StartRecords
      BY <2>2 DEF StartRecords, StartPhases, InFlight, InTurn
    <3>3. HostKept([r(s) EXCEPT !.phase = "retrying"])
      BY <2>2, <3>1 DEF StartRecords, HostKept, Unacquired
    <3> QED
      BY <2>4, <3>2, <3>3
  <2> QED
    BY <2>3, <2>4
<1>2. st' = [s \in Starts |-> n(s)]
  BY DEF Retried
<1> HIDE DEF n
<1>3. life' = "up"
  BY DEF Disposed
<1> QED
  BY <1>1, <1>2, <1>3 DEF StartsInv, StartsClosing

\* A start has its turn.
LEMMA TurnKeeps ==
  ASSUME StartsInv, NEW s \in Starts, TakeTurn(s)
  PROVE  StartsInv'
<1>1. st[s] \in StartRecords /\ HostKept(st[s]) /\ st[s].phase = "queued"
  BY DEF StartsInv, TakeTurn
<1>2. CASE Disposed
  <2> DEFINE r == [st[s] EXCEPT !.phase = "failed"]
  <2>1. r \in StartRecords /\ HostKept(r) /\ r.phase = "failed" /\ ~r.host
    BY <1>1 DEF StartRecords, StartPhases, HostKept, Unacquired
  <2>2. st' = [st EXCEPT ![s] = r] /\ life' = life
    BY <1>2 DEF TakeTurn, Goto
  <2> QED
    BY <2>1, <2>2, OneChanged DEF InFlight, InTurn
<1>3. CASE ~Disposed
  BY <1>1, <1>3, RetriedKeeps DEF TakeTurn, HasTurn
<1> QED
  BY <1>2, <1>3

\* A retry without a start.
LEMMA PrepareKeeps ==
  ASSUME StartsInv, PrepareStart
  PROVE  StartsInv'
  BY RetriedKeeps DEF PrepareStart, HasTurn

\* The starts that waited for a retry go on, or fail; they have acquired nothing.
LEMMA RetryEndsKeeps ==
  ASSUME StartsInv, RetryEnds
  PROVE  StartsInv'
<1> DEFINE p == IF retry.failed \/ Disposed THEN "failed" ELSE "resolving"
           n(s) == IF st[s].phase = "retrying" THEN [st[s] EXCEPT !.phase = p] ELSE st[s]
<1>1. st' = [s \in Starts |-> n(s)] /\ life' = life
  BY DEF RetryEnds
<1>2. p \in {"failed", "resolving"} /\ (Disposed => p = "failed")
  OBVIOUS
<1> HIDE DEF p
<1>3. ASSUME NEW s \in Starts
      PROVE  /\ n(s) \in StartRecords /\ HostKept(n(s)) /\ n(s).host = st[s].host
             /\ Disposed => n(s).phase = st[s].phase \/ n(s).phase = "failed"
  <2>1. st[s] \in StartRecords /\ HostKept(st[s])
    BY DEF StartsInv
  <2>2. CASE st[s].phase # "retrying"
    BY <2>1, <2>2
  <2>3. CASE st[s].phase = "retrying"
    BY <2>1, <2>3, <1>2 DEF StartRecords, HostKept, Unacquired, StartPhases, InFlight, InTurn
  <2> QED
    BY <2>2, <2>3
<1> HIDE DEF n
<1>4. st' \in [Starts -> StartRecords] /\ \A s \in Starts : HostKept(st'[s])
  BY <1>1, <1>3
<1>5. StartsClosing'
  BY <1>1, <1>3 DEF StartsInv, StartsClosing, Disposed, InFlight, InTurn
<1> QED
  BY <1>4, <1>5 DEF StartsInv

\* A host that arrives for a start nobody wants is disposed of in that start's turn.
LEMMA LaunchedKeeps ==
  ASSUME StartsInv, NEW s \in Starts, Launched(s)
  PROVE  StartsInv'
<1> DEFINE up == [st[s] EXCEPT !.host = TRUE]
           on == [up EXCEPT !.phase = "connecting"]
           off == [Owned(up) EXCEPT !.phase = "cleaning"]
<1>1. st[s] \in StartRecords /\ HostKept(st[s]) /\ st[s].phase = "launching"
  BY DEF StartsInv, Launched
<1>2. life \notin {"owners", "failed", "done"}
  BY <1>1 DEF StartsInv, StartsClosing, InFlight, InTurn
<1>3. on \in StartRecords /\ HostKept(on)
  BY <1>1 DEF StartRecords, HostKept, Unacquired, StartPhases, InFlight, InTurn
<1>4. up \in StartRecords /\ up.phase = "launching" /\ up.op = "no"
  BY <1>1 DEF StartRecords, HostKept, Unacquired
<1>5. Owned(up) \in StartRecords /\ Owned(up).op = "pending"
  BY <1>4 DEF Owned, StartRecords
<1>6. off \in StartRecords /\ HostKept(off)
  BY <1>5 DEF StartRecords, HostKept, Unacquired, StartPhases, InFlight, InTurn
<1>7. st' = [st EXCEPT ![s] = on] \/ st' = [st EXCEPT ![s] = off]
  BY DEF Launched, Cleaning
<1>8. life' = life
  BY DEF Launched
<1> QED
  BY <1>2, <1>3, <1>6, <1>7, <1>8, OneChanged

\* A connection or start that fails is cleaned up in its turn.
LEMMA FailKeeps ==
  ASSUME StartsInv, NEW s \in Starts, StartFails(s)
  PROVE  StartsInv'
<1> DEFINE over == [st[s] EXCEPT !.phase = "failed"]
           off == [Owned(st[s]) EXCEPT !.phase = "cleaning"]
<1>1. st[s] \in StartRecords /\ HostKept(st[s]) /\ st[s].phase \in {"connecting", "starting"} /\ life' = life
  BY DEF StartsInv, StartFails
<1>2. life \notin {"owners", "failed", "done"}
  BY <1>1 DEF StartsInv, StartsClosing, InFlight, InTurn
<1>3. CASE st[s].op = "yes"
  <2>1. over \in StartRecords /\ HostKept(over)
    BY <1>1, <1>3 DEF StartRecords, HostKept, Unacquired, StartPhases
  <2>2. st' = [st EXCEPT ![s] = over]
    BY <1>3 DEF StartFails
  <2> QED
    BY <1>1, <1>2, <2>1, <2>2, OneChanged
<1>4. CASE st[s].op # "yes"
  <2>1. Owned(st[s]) \in StartRecords /\ Owned(st[s]).op # "yes"
    BY <1>1, <1>4 DEF Owned, StartRecords
  <2>2. off \in StartRecords /\ HostKept(off)
    BY <2>1 DEF StartRecords, HostKept, Unacquired, StartPhases, InFlight, InTurn
  <2>3. st' = [st EXCEPT ![s] = off]
    BY <1>4 DEF StartFails, Cleaning
  <2> QED
    BY <1>1, <1>2, <2>2, <2>3, OneChanged
<1> QED
  BY <1>3, <1>4

\* Whoever has the handle disposes of it.
LEMMA HandleKeeps ==
  ASSUME StartsInv, NEW s \in Starts, DisposeHandle(s)
  PROVE  StartsInv'
<1>1. st[s] \in StartRecords /\ HostKept(st[s]) /\ st[s].phase = "handle" /\ life' = life
  BY DEF StartsInv, DisposeHandle
<1>2. Owned(st[s]) \in StartRecords /\ HostKept(Owned(st[s])) /\ Owned(st[s]).phase = "handle"
        /\ Owned(st[s]).host = st[s].host
  BY <1>1, OwnedKept DEF Unacquired
<1>3. life = "done" => ~Owned(st[s]).host
  BY <1>2 DEF StartsInv, StartsClosing
<1>4. st' = [st EXCEPT ![s] = Owned(st[s])]
  BY DEF DisposeHandle
<1> QED
  BY <1>1, <1>2, <1>3, <1>4, OneChanged DEF InFlight, InTurn

\* A cancellation aborts a start in flight and disposes of what it finds.
LEMMA CancelKeeps ==
  ASSUME StartsInv, NEW s \in Starts, CancelStart(s)
  PROVE  StartsInv'
<1> DEFINE asked == [st[s] EXCEPT !.aborted = st[s].aborted \/ s \in Flying, !.cancel = "pending", !.scoped = s \in Flying]
           free == [asked EXCEPT !.cleanup = "ok"]
           done == CancelCleaned([asked EXCEPT !.cleanup = "waiting"], TRUE)
           waits == [Owned(asked) EXCEPT !.cleanup = "waiting"]
<1>1. st[s] \in StartRecords /\ HostKept(st[s]) /\ life' = life
  BY DEF StartsInv, CancelStart
<1>2. asked \in StartRecords
  <2> DEFINE ab == st[s].aborted \/ s \in Flying
             fl == s \in Flying
  <2>1. ab \in BOOLEAN /\ fl \in BOOLEAN /\ asked = [st[s] EXCEPT !.aborted = ab, !.cancel = "pending", !.scoped = fl]
    OBVIOUS
  <2> HIDE DEF ab, fl
  <2> QED
    BY <1>1, <2>1 DEF StartRecords
<1>3. st' = [st EXCEPT ![s] = IF ~Owns(s) THEN free ELSE IF asked.op = "yes" THEN done ELSE waits]
  BY DEF CancelStart
<1>4. /\ asked.phase = st[s].phase /\ asked.host = st[s].host /\ asked.task = st[s].task
      /\ asked.op = st[s].op /\ asked.retained = st[s].retained
  BY <1>1 DEF StartRecords
<1>5. HostKept(asked)
  BY <1>1, <1>4 DEF HostKept
<1> HIDE DEF asked
<1>6. CASE ~Owns(s)
  <2>1. /\ free \in StartRecords /\ free.phase = asked.phase /\ free.host = asked.host
        /\ free.task = asked.task /\ free.op = asked.op /\ free.retained = asked.retained
    BY <1>2 DEF StartRecords
  <2>2. free \in StartRecords /\ HostKept(free) /\ free.phase = st[s].phase /\ free.host = st[s].host
    BY <2>1, <1>4, <1>5 DEF HostKept
  <2>3. st' = [st EXCEPT ![s] = free]
    BY <1>3, <1>6
  <2>4. life = "done" => ~free.host
    BY <2>2 DEF StartsInv, StartsClosing
  <2>5. life \in {"owners", "failed", "done"} /\ free.phase \in InFlight => free.phase = "queued"
    BY <2>2 DEF StartsInv, StartsClosing
  <2> QED
    BY <1>1, <2>2, <2>3, <2>4, <2>5, OneChanged
<1>7. CASE Owns(s)
  <2>1. asked.phase \notin Unacquired
    BY <1>7, <1>1, <1>4 DEF Owns, HostKept
  <2>2. CASE asked.op = "yes"
    <3>1. done \in StartRecords /\ HostKept(done) /\ done.phase = st[s].phase /\ done.host = st[s].host
      BY <1>2, <1>4, <1>5, <2>1, <2>2, CleanedKept
    <3>2. st' = [st EXCEPT ![s] = done]
      BY <1>3, <1>7, <2>2
    <3> HIDE DEF done
    <3>3. life = "done" => ~done.host
      BY <3>1 DEF StartsInv, StartsClosing
    <3>4. life \in {"owners", "failed", "done"} /\ done.phase \in InFlight => done.phase = "queued"
      BY <3>1 DEF StartsInv, StartsClosing
    <3> QED
      BY <1>1, <3>1, <3>2, <3>3, <3>4, OneChanged
  <2>3. CASE asked.op # "yes"
    <3>1. /\ Owned(asked) \in StartRecords /\ HostKept(Owned(asked))
          /\ Owned(asked).phase = st[s].phase /\ Owned(asked).host = st[s].host
      BY <1>2, <1>4, <1>5, <2>1, OwnedKept
    <3>2. waits \in StartRecords /\ HostKept(waits) /\ waits.phase = st[s].phase /\ waits.host = st[s].host
      BY <3>1 DEF StartRecords, HostKept
    <3>3. st' = [st EXCEPT ![s] = waits]
      BY <1>3, <1>7, <2>3
    <3> HIDE DEF waits
    <3>4. life = "done" => ~waits.host
      BY <3>2 DEF StartsInv, StartsClosing
    <3>5. life \in {"owners", "failed", "done"} /\ waits.phase \in InFlight => waits.phase = "queued"
      BY <3>2 DEF StartsInv, StartsClosing
    <3> QED
      BY <1>1, <3>2, <3>3, <3>4, <3>5, OneChanged
  <2> QED
    BY <2>2, <2>3
<1> QED
  BY <1>6, <1>7

----------------------------------------------------------------------------
(* The disposal of the runtime *)

\* Every start is aborted, and the tasks' disposals begin.
LEMMA DisposalKeeps ==
  ASSUME StartsInv, DisposeRuntime
  PROVE  StartsInv'
<1> DEFINE r(s) == IF s \in Flying THEN [st[s] EXCEPT !.aborted = TRUE] ELSE st[s]
           n(s) == IF Flying # {} /\ s \in Tasks THEN Owned(r(s)) ELSE r(s)
<1>1. ASSUME NEW s \in Starts PROVE n(s) \in StartRecords /\ HostKept(n(s))
  <2>1. st[s] \in StartRecords /\ HostKept(st[s])
    BY DEF StartsInv
  <2>2. /\ r(s) \in StartRecords /\ HostKept(r(s)) /\ r(s).phase = st[s].phase
    <3> DEFINE a == [st[s] EXCEPT !.aborted = TRUE]
    <3>1. /\ a \in StartRecords /\ a.phase = st[s].phase /\ a.host = st[s].host /\ a.task = st[s].task
          /\ a.op = st[s].op /\ a.retained = st[s].retained
      BY <2>1 DEF StartRecords
    <3>2. HostKept(a)
      BY <2>1, <3>1 DEF HostKept
    <3> QED
      BY <2>1, <3>1, <3>2
  <2>3. s \in Tasks => st[s].phase \notin Unacquired
    BY <2>1 DEF Tasks, HostKept
  <2> HIDE DEF r
  <2> QED
    BY <2>2, <2>3, OwnedKept
<1>2. st' = [s \in Starts |-> n(s)] /\ life' = "tasks"
  BY DEF DisposeRuntime
<1> HIDE DEF n
<1> QED
  BY <1>1, <1>2 DEF StartsInv, StartsClosing

\* No start is under way any more; what is left is disposed of.
LEMMA DrainKeeps ==
  ASSUME StartsInv, StartsDrained
  PROVE  StartsInv'
<1> DEFINE n(s) == IF s \in Tasks \cup Retained THEN Owned(st[s]) ELSE st[s]
<1>1. ASSUME NEW s \in Starts PROVE n(s) \in StartRecords /\ HostKept(n(s)) /\ n(s).phase \notin InFlight
  <2>1. st[s] \in StartRecords /\ HostKept(st[s])
    BY DEF StartsInv
  <2>2. s \in Tasks \cup Retained => st[s].phase \notin Unacquired
    BY <2>1 DEF Tasks, Retained, HostKept
  <2>3. st[s].phase \notin InFlight
    BY DEF StartsDrained, Flying
  <2> QED
    BY <2>1, <2>2, <2>3, OwnedKept
<1>2. st' = [s \in Starts |-> n(s)] /\ life' = "owners"
  BY DEF StartsDrained
<1> HIDE DEF n
<1> QED
  BY <1>1, <1>2 DEF StartsInv, StartsClosing

\* The disposal is reported done when no owner is left.
LEMMA RuntimeKeeps ==
  ASSUME StartsInv, NEW ok \in BOOLEAN, RuntimeDisposed(ok)
  PROVE  StartsInv'
<1> DEFINE n(s) == IF st[s].op = "yes" THEN [st[s] EXCEPT !.retained = FALSE] ELSE st[s]
<1>1. ASSUME NEW s \in Starts
      PROVE  n(s) \in StartRecords /\ HostKept(n(s)) /\ n(s).phase = st[s].phase /\ n(s).host = st[s].host
  <2>1. st[s] \in StartRecords /\ HostKept(st[s])
    BY DEF StartsInv
  <2> DEFINE a == [st[s] EXCEPT !.retained = FALSE]
  <2>2. /\ a \in StartRecords /\ a.phase = st[s].phase /\ a.host = st[s].host /\ a.task = st[s].task
        /\ a.op = st[s].op /\ ~a.retained
    BY <2>1 DEF StartRecords
  <2>3. st[s].op = "yes" => HostKept(a)
    BY <2>1, <2>2 DEF HostKept
  <2> QED
    BY <2>1, <2>2, <2>3
<1>2. st' = [s \in Starts |-> n(s)] /\ life' \in {"done", "failed"}
  BY DEF RuntimeDisposed
<1> HIDE DEF n
<1>3. ASSUME life' = "done", NEW s \in Starts PROVE ~st[s].host
  <2>1. st[s] \in StartRecords /\ HostKept(st[s])
    BY DEF StartsInv
  <2>2. ~st[s].task /\ (st[s].retained => st[s].op = "yes")
    BY <1>3 DEF RuntimeDisposed, Tasks, Retained
  <2>3. st[s].phase \in InFlight => st[s].phase \in Unacquired
    BY DEF RuntimeDisposed, StartsInv, StartsClosing, Unacquired
  <2> QED
    BY <2>1, <2>2, <2>3 DEF HostKept
<1>4. StartsClosing'
  BY <1>1, <1>2, <1>3 DEF StartsInv, StartsClosing, RuntimeDisposed
<1> QED
  BY <1>1, <1>2, <1>4 DEF StartsInv

----------------------------------------------------------------------------

\* Every action keeps the invariant.
LEMMA StartsInvStep == StartsInv /\ [StartsNext]_startVars => StartsInv'
<1> SUFFICES ASSUME StartsInv, [StartsNext]_startVars PROVE StartsInv'
  OBVIOUS
<1>1. ASSUME NEW s \in Starts,
             \/ StartTask(s) \/ NoRetry(s) \/ Advance(s) \/ GiveUp(s) \/ LaunchFails(s) \/ Connected(s)
             \/ TurnBegins(s) \/ TurnEnds(s) \/ StartSucceeds(s) \/ CancelSettles(s) \/ CancelStartTimeout(s)
      PROVE  StartsInv'
  BY <1>1, AdvanceKeeps
<1>2. ASSUME NEW s \in Starts,
             TakeTurn(s) \/ Launched(s) \/ StartFails(s) \/ DisposeHandle(s) \/ CancelStart(s)
      PROVE  StartsInv'
  BY <1>2, TurnKeeps, LaunchedKeeps, FailKeeps, HandleKeeps, CancelKeeps
<1>3. ASSUME NEW s \in Starts, NEW ok \in BOOLEAN, OwnerDisposed(s, ok) PROVE StartsInv'
  BY <1>3, DisposedKeeps
<1>4. CASE RetryEnds \/ PrepareStart \/ DisposeRuntime \/ StartsDrained
  BY <1>4, RetryEndsKeeps, PrepareKeeps, DisposalKeeps, DrainKeeps
<1>5. ASSUME NEW ok \in BOOLEAN, RuntimeDisposed(ok) PROVE StartsInv'
  BY <1>5, RuntimeKeeps
<1>6. CASE UNCHANGED startVars
  BY <1>6 DEF startVars, StartsInv, StartsClosing
<1> QED
  BY <1>1, <1>2, <1>3, <1>4, <1>5, <1>6 DEF StartsNext

\* NoHostUnowned: whatever fails, is cancelled, retried or disposed of, a host process has an owner
\* that will be disposed of, and a runtime whose disposal was reported done has left none.
THEOREM HostsOwned == StartsSpec => []NoHostUnowned
<1>1. StartsInv => NoHostUnowned
  BY DEF StartsInv, HostKept, StartsClosing, NoHostUnowned, Flying
<1> QED
  BY <1>1, StartsInvInit, StartsInvStep, PTL DEF StartsSpec

----------------------------------------------------------------------------
(* AgentHosts: the selector *)

PickPhases == {"none", "approving", "started", "failed"} \cup Sources \cup Waits

Picked ==
  [at : PickPhases, strict : BOOLEAN, second : BOOLEAN, aborted : BOOLEAN, tries : Nat, holds : SUBSET Sources,
   unclean : BOOLEAN, stop : {"none", "asked", "ok", "failed"}, asks : SUBSET Sources, refused : BOOLEAN, live : BOOLEAN]

\* A task that waits is with nobody, one that is given to a source was given up
\* by the other, and a cancellation that succeeded found the start over and clean.
PickKept(p) ==
  /\ p.at \in {"none", "approving"} \cup Waits => p.holds = {}
  /\ p.at \in Sources => p.holds \subseteq {p.at}
  /\ p.holds # Sources
  /\ p.strict => "standalone" \notin p.holds /\ p.at # "standalone"
  /\ p.stop # "none" => p.at # "none"
  /\ p.stop = "ok" => ~Pending(p) /\ (p.live => ~p.unclean)

\* What is left was told to the caller.
Told(p) == p.at = "failed" /\ p.holds # {} => p.unclean

ClosingRecords ==
  [at : {"no", "waiting", "failed", "done"}, dues : SUBSET Sources, bad : BOOLEAN]

\* A disposal aborts what is under way, and a source that was disposed of gets nothing more.
ClosingKept(c, p) ==
  /\ c.at = "no" => Told(p)
  /\ c.at # "no" /\ Pending(p) => p.aborted
  /\ c.at = "waiting" /\ ~c.bad => p.holds \subseteq c.dues /\ p.at \notin Sources \ c.dues
  /\ c.at = "done" => ~Pending(p) /\ p.holds = {}

SelectorInv ==
  /\ closing \in ClosingRecords
  /\ pick \in [Jobs -> Picked]
  /\ \A j \in Jobs : PickKept(pick[j]) /\ ClosingKept(closing, pick[j])

LEMMA SelectorInvInit == SelectorInit => SelectorInv
  BY DEF SelectorInit, SelectorInv, NewPick, Picked, PickPhases, PickKept, ClosingKept, ClosingRecords, Told, Pending,
         Sources, Waits

\* A step that changes one start.
LEMMA PickChanged ==
  ASSUME SelectorInv, NEW j \in Jobs, NEW p \in Picked, PickKept(p), ClosingKept(closing, p),
         pick' = [pick EXCEPT ![j] = p], closing' = closing
  PROVE  SelectorInv'
<1>1. pick' \in [Jobs -> Picked] /\ \A i \in Jobs : pick'[i] = IF i = j THEN p ELSE pick[i]
  BY DEF SelectorInv
<1> QED
  BY <1>1 DEF SelectorInv

\* A start that fails at its source, with the status of what it leaves.
LEMMA FailsKept ==
  ASSUME SelectorInv, NEW j \in Jobs, pick[j].at \in Sources, NEW clean \in BOOLEAN
  PROVE  /\ FailsAt(pick[j], clean) \in Picked
         /\ PickKept(FailsAt(pick[j], clean))
         /\ ClosingKept(closing, FailsAt(pick[j], clean))
         /\ clean => FailsAt(pick[j], clean).holds = {}
<1> DEFINE p == pick[j]
           q == FailsAt(p, clean)
<1>1. p \in Picked /\ PickKept(p) /\ ClosingKept(closing, p) /\ p.at \in Sources
  BY DEF SelectorInv
<1>2. p.holds \subseteq {p.at} /\ ~(p.stop = "ok") /\ p.at # "failed"
  BY <1>1 DEF PickKept, Pending, Sources
<1> HIDE DEF p
<1>3. q \in Picked
  BY <1>1 DEF FailsAt, Picked, PickPhases
<1>4. /\ q.at = "failed" /\ q.holds \subseteq p.holds /\ q.unclean = ~clean /\ (clean => q.holds = {})
      /\ q.strict = p.strict /\ q.stop = p.stop /\ q.aborted = p.aborted
  BY <1>1, <1>2 DEF FailsAt, Picked
<1> HIDE DEF q
<1>5. ~Pending(q)
  BY <1>4 DEF Pending, Sources, Waits
<1>6. PickKept(q)
  BY <1>1, <1>2, <1>4, <1>5 DEF PickKept, Sources, Waits
<1>7. ClosingKept(closing, q)
  BY <1>1, <1>2, <1>4, <1>5 DEF ClosingKept, Told, Pending, Sources
<1> QED
  BY <1>3, <1>4, <1>6, <1>7 DEF p, q

\* The actions of a start, each of which gives the start its next state.
LEMMA StartSteps ==
  ASSUME SelectorInv, NEW j \in Jobs,
         \/ \E strict \in BOOLEAN : Picks(j, strict)
         \/ \E preferEditor \in BOOLEAN : Approved(j, preferEditor)
         \/ GivesUp(j) \/ TriesEditor(j) \/ HandsOver(j)
         \/ \E source \in Sources : LetsGo(j, source)
  PROVE  SelectorInv'
<1> DEFINE p == pick[j]
<1>1. p \in Picked /\ PickKept(p) /\ ClosingKept(closing, p) /\ closing \in ClosingRecords
  BY DEF SelectorInv
<1> HIDE DEF p
<1>2. ASSUME NEW strict \in BOOLEAN, Picks(j, strict)  PROVE SelectorInv'
  <2> DEFINE q == [p EXCEPT !.at = "approving", !.strict = strict]
  <2>1. p.at = "none" /\ closing.at = "no" /\ closing' = closing /\ pick' = [pick EXCEPT ![j] = q]
    BY <1>2 DEF Picks, Active, p, SelectorInv
  <2>2. q \in Picked
    BY <1>1 DEF Picked, PickPhases
  <2>3. q.at = "approving" /\ q.holds = p.holds /\ q.stop = p.stop
    BY <1>1 DEF Picked
  <2> HIDE DEF q
  <2>4. PickKept(q) /\ ClosingKept(closing, q)
    BY <1>1, <2>1, <2>3 DEF PickKept, ClosingKept, Told, Sources, Waits
  <2> QED
    BY <2>1, <2>2, <2>4, PickChanged
<1>3. ASSUME NEW preferEditor \in BOOLEAN, Approved(j, preferEditor)  PROVE SelectorInv'
  <2> DEFINE q == IF preferEditor \/ p.strict THEN [p EXCEPT !.at = "readying"] ELSE Given(p, "standalone")
  <2>1. p.at = "approving" /\ ~p.aborted /\ closing' = closing /\ pick' = [pick EXCEPT ![j] = q]
    BY <1>3 DEF Approved, p
  <2>2. p.holds = {}
    BY <1>1, <2>1 DEF PickKept
  <2>3. q \in Picked
    BY <1>1 DEF Picked, PickPhases, Given, Sources, Waits
  <2>4. /\ (q.at = "readying" /\ q.holds = {}) \/ (q.at = "standalone" /\ q.holds = {"standalone"} /\ ~p.strict)
        /\ q.strict = p.strict /\ q.stop = p.stop /\ q.aborted = p.aborted
    BY <1>1, <2>2 DEF Picked, Given
  <2> HIDE DEF q
  <2>5. closing.at = "no" /\ p.stop # "ok"
    BY <1>1, <2>1 DEF PickKept, ClosingKept, ClosingRecords, Pending, Sources, Waits
  <2>6. PickKept(q)
    BY <1>1, <2>4, <2>5 DEF PickKept, Sources, Waits
  <2>7. ClosingKept(closing, q)
    BY <2>4, <2>5 DEF ClosingKept, Told
  <2> QED
    BY <2>1, <2>3, <2>6, <2>7, PickChanged
<1>4. ASSUME GivesUp(j)  PROVE SelectorInv'
  <2> DEFINE q == [p EXCEPT !.at = "failed"]
  <2>1. p.at \in Waits \cup {"approving"} /\ closing' = closing /\ pick' = [pick EXCEPT ![j] = q]
    BY <1>1, <1>4 DEF GivesUp, p, Picked, SelectorInv
  <2>2. p.holds = {}
    BY <1>1, <2>1 DEF PickKept
  <2>3. q \in Picked
    BY <1>1 DEF Picked, PickPhases
  <2>4. q.at = "failed" /\ q.holds = {} /\ q.stop = p.stop
    BY <1>1, <2>2 DEF Picked
  <2> HIDE DEF q
  <2>5. p.stop # "ok"
    BY <1>1, <2>1 DEF PickKept, Pending
  <2>6. PickKept(q) /\ ClosingKept(closing, q)
    BY <2>4, <2>5 DEF PickKept, ClosingKept, Told, Pending, Sources, Waits
  <2> QED
    BY <2>1, <2>3, <2>6, PickChanged
<1>5. ASSUME TriesEditor(j)  PROVE SelectorInv'
  <2> DEFINE o == [p EXCEPT !.tries = IF p.at = "retrying" THEN p.tries + 1 ELSE p.tries]
             q == Given(o, "editor")
  <2>1. p.at \in Waits /\ ~p.aborted /\ closing' = closing /\ pick' = [pick EXCEPT ![j] = q]
    BY <1>5 DEF TriesEditor, p
  <2>2. p.holds = {}
    BY <1>1, <2>1 DEF PickKept
  <2>3. o \in Picked /\ o.holds = {} /\ o.strict = p.strict /\ o.stop = p.stop /\ o.aborted = p.aborted
    BY <1>1, <2>2 DEF Picked
  <2> HIDE DEF o
  <2>4. q \in Picked
    BY <2>3 DEF Picked, PickPhases, Given, Sources
  <2>5. /\ q.at = "editor" /\ q.holds = {"editor"}
        /\ q.strict = p.strict /\ q.stop = p.stop /\ q.aborted = p.aborted
    BY <2>3 DEF Picked, Given
  <2> HIDE DEF q
  <2>6. closing.at = "no" /\ p.stop # "ok"
    BY <1>1, <2>1 DEF PickKept, ClosingKept, ClosingRecords, Pending
  <2>7. PickKept(q) /\ ClosingKept(closing, q)
    BY <2>5, <2>6 DEF PickKept, ClosingKept, Told, Sources, Waits
  <2> QED
    BY <2>1, <2>4, <2>7, PickChanged
<1>6. ASSUME HandsOver(j)  PROVE SelectorInv'
  <2> DEFINE dropped == ~Active /\ (p.at = "editor" \/ p.second)
             q == [p EXCEPT !.at = IF dropped THEN "failed" ELSE "started"]
  <2>1. p.at \in Sources /\ closing' = closing /\ pick' = [pick EXCEPT ![j] = q]
    BY <1>1, <1>6 DEF HandsOver, p, Picked, SelectorInv
  <2>2. q \in Picked
    BY <1>1 DEF Picked, PickPhases
  <2>3. /\ q.at = "started" \/ (q.at = "failed" /\ closing.at # "no")
        /\ q.holds = p.holds /\ q.strict = p.strict /\ q.stop = p.stop
    BY <1>1 DEF Picked, Active
  <2> HIDE DEF q
  <2>4. p.stop # "ok" /\ q.at \notin Sources /\ ~Pending(q)
    BY <1>1, <2>1, <2>3 DEF PickKept, Pending, Sources, Waits
  <2>5. PickKept(q)
    BY <1>1, <2>3, <2>4 DEF PickKept, Sources, Waits
  <2>6. ClosingKept(closing, q)
    BY <1>1, <2>1, <2>3, <2>4 DEF ClosingKept, Told, Pending
  <2> QED
    BY <2>1, <2>2, <2>5, <2>6, PickChanged
<1>7. ASSUME NEW source \in Sources, LetsGo(j, source)  PROVE SelectorInv'
  <2> DEFINE q == [p EXCEPT !.holds = p.holds \ {source}]
  <2>1. p.at \in {"started", "failed"} /\ closing' = closing /\ pick' = [pick EXCEPT ![j] = q]
    BY <1>1, <1>7 DEF LetsGo, p, Picked, SelectorInv
  <2>2. q \in Picked
    BY <1>1 DEF Picked
  <2>3. /\ q.at = p.at /\ q.holds \subseteq p.holds /\ q.strict = p.strict /\ q.stop = p.stop
        /\ q.live = p.live /\ q.unclean = p.unclean
    BY <1>1 DEF Picked
  <2> HIDE DEF q
  <2>4. ~Pending(q) /\ q.at \notin Sources /\ q.holds # Sources
    BY <1>1, <2>1, <2>3 DEF Pending, Sources, Waits, PickKept, Picked
  <2>5. PickKept(q)
    BY <1>1, <2>1, <2>3, <2>4 DEF PickKept, Sources, Waits
  <2>6. ClosingKept(closing, q)
    BY <1>1, <2>1, <2>3, <2>4 DEF ClosingKept, Told
  <2> QED
    BY <2>1, <2>2, <2>5, <2>6, PickChanged
<1> QED
  BY <1>2, <1>3, <1>4, <1>5, <1>6, <1>7

\* A cancellation begins, hears of a source and settles.
LEMMA StopSteps ==
  ASSUME SelectorInv, NEW j \in Jobs,
         \/ StopsStart(j) \/ StopsSettled(j)
         \/ \E source \in Sources, ok \in BOOLEAN : SourceStops(j, source, ok)
  PROVE  SelectorInv'
<1> DEFINE p == pick[j]
<1>1. p \in Picked /\ PickKept(p) /\ ClosingKept(closing, p) /\ closing \in ClosingRecords
  BY DEF SelectorInv
<1> HIDE DEF p
<1>2. ASSUME NEW q \in Picked, closing' = closing, pick' = [pick EXCEPT ![j] = q],
             q.at = p.at, q.holds = p.holds, q.strict = p.strict, q.unclean = p.unclean,
             p.aborted => q.aborted, q.stop # "none" => p.at # "none",
             q.stop = "ok" => ~Pending(p) /\ (q.live => ~p.unclean)
      PROVE  SelectorInv'
  <2>1. PickKept(q)
    BY <1>1, <1>2 DEF PickKept, Pending
  <2>2. ClosingKept(closing, q)
    BY <1>1, <1>2 DEF ClosingKept, Told, Pending
  <2> QED
    BY <1>2, <2>1, <2>2, PickChanged
<1>3. ASSUME StopsStart(j)  PROVE SelectorInv'
  <2> DEFINE pending == Pending(p)
             a == [p EXCEPT !.aborted = p.aborted \/ pending]
             q == [a EXCEPT !.stop = "asked", !.asks = Sources, !.refused = FALSE, !.live = pending]
  <2>1. pending \in BOOLEAN
    BY DEF Pending
  <2>2. p.at # "none" /\ closing' = closing /\ pick' = [pick EXCEPT ![j] = q]
    BY <1>3 DEF StopsStart, Abandoned, p
  <2> HIDE DEF pending
  <2>3. /\ a \in Picked /\ a.at = p.at /\ a.holds = p.holds /\ a.strict = p.strict /\ a.unclean = p.unclean
        /\ p.aborted => a.aborted
    BY <1>1, <2>1 DEF Picked
  <2> HIDE DEF a
  <2>4. q \in Picked
    BY <2>1, <2>3 DEF Picked
  <2>5. /\ q.at = p.at /\ q.holds = p.holds /\ q.strict = p.strict /\ q.unclean = p.unclean /\ q.stop = "asked"
        /\ p.aborted => q.aborted
    BY <2>3 DEF Picked
  <2> HIDE DEF q
  <2> QED
    BY <1>2, <2>2, <2>4, <2>5
<1>4. ASSUME StopsSettled(j)  PROVE SelectorInv'
  <2> DEFINE q == [p EXCEPT !.stop = IF Cancelled(p) THEN "ok" ELSE "failed"]
  <2>1. p.stop = "asked" /\ (p.refused \/ ~Pending(p)) /\ closing' = closing /\ pick' = [pick EXCEPT ![j] = q]
    BY <1>4 DEF StopsSettled, p
  <2>2. q \in Picked
    BY <1>1 DEF Picked
  <2>3. /\ q.at = p.at /\ q.holds = p.holds /\ q.strict = p.strict /\ q.unclean = p.unclean
        /\ q.aborted = p.aborted /\ q.live = p.live /\ (q.stop = "ok" => Cancelled(p))
    BY <1>1 DEF Picked
  <2> HIDE DEF q
  <2>4. p.at # "none"
    BY <1>1, <2>1 DEF PickKept
  <2>5. q.stop = "ok" => ~Pending(p) /\ (q.live => ~p.unclean)
    BY <2>1, <2>3 DEF Cancelled
  <2> QED
    BY <1>2, <2>1, <2>2, <2>3, <2>4, <2>5
<1>5. ASSUME NEW source \in Sources, NEW ok \in BOOLEAN, SourceStops(j, source, ok)  PROVE SelectorInv'
  <2> DEFINE a == [p EXCEPT !.asks = p.asks \ {source}]
             q == [a EXCEPT !.refused = p.refused \/ ~ok]
  <2>1. p.stop = "asked" /\ closing' = closing /\ pick' = [pick EXCEPT ![j] = q]
    BY <1>1, <1>5 DEF SourceStops, p, SelectorInv
  <2>2. a \in Picked /\ a.at = p.at /\ a.holds = p.holds /\ a.strict = p.strict /\ a.unclean = p.unclean
        /\ a.stop = p.stop /\ a.aborted = p.aborted
    BY <1>1 DEF Picked
  <2> HIDE DEF a
  <2>3. q \in Picked
    BY <1>1, <2>2 DEF Picked
  <2>4. /\ q.at = p.at /\ q.holds = p.holds /\ q.strict = p.strict /\ q.unclean = p.unclean
        /\ q.stop = p.stop /\ q.aborted = p.aborted
    BY <2>2 DEF Picked
  <2> HIDE DEF q
  <2>5. p.at # "none"
    BY <1>1, <2>1 DEF PickKept
  <2> QED
    BY <1>2, <2>1, <2>3, <2>4, <2>5
<1> QED
  BY <1>3, <1>4, <1>5

\* A source's start rejects: the task waits for another attempt, is given to
\* the standalone source, which then is alone with it, or has failed.
LEMMA FailSteps ==
  ASSUME SelectorInv, NEW j \in Jobs,
         \/ \E how \in Failures : EditorFails(j, how)
         \/ \E clean \in BOOLEAN : StandaloneFails(j, clean)
  PROVE  SelectorInv'
<1> DEFINE p == pick[j]
<1>1. p \in Picked /\ PickKept(p) /\ ClosingKept(closing, p) /\ closing \in ClosingRecords
  BY DEF SelectorInv
<1>2. ASSUME NEW clean \in BOOLEAN, StandaloneFails(j, clean)  PROVE SelectorInv'
  <2>1. p.at \in Sources /\ closing' = closing /\ pick' = [pick EXCEPT ![j] = FailsAt(p, clean)]
    BY <1>2 DEF StandaloneFails, Sources
  <2> QED
    BY <2>1, FailsKept, PickChanged
<1>3. ASSUME NEW how \in Failures, EditorFails(j, how)  PROVE SelectorInv'
  <2> DEFINE clean == how # "unclean"
             over == FailsAt(p, clean)
  <2>1. p.at = "editor" /\ p.at \in Sources /\ clean \in BOOLEAN /\ closing' = closing
    BY <1>3 DEF EditorFails, Sources
  <2>2. /\ over \in Picked /\ PickKept(over) /\ ClosingKept(closing, over) /\ (clean => over.holds = {})
    BY <2>1, FailsKept
  <2>3. /\ over.at = "failed" /\ over.strict = p.strict /\ over.stop = p.stop /\ over.aborted = p.aborted
        /\ over.unclean = ~clean
    BY <1>1 DEF FailsAt, Picked
  <2>4. p.stop # "ok"
    BY <1>1, <2>1 DEF PickKept, Pending
  <2>5. \/ GoesOn(p, how) /\ pick' = [pick EXCEPT ![j] = [over EXCEPT !.at = "retrying"]]
        \/ GoesOn(p, how) /\ ~p.strict /\ pick' = [pick EXCEPT ![j] = Given([over EXCEPT !.second = TRUE], "standalone")]
        \/ pick' = [pick EXCEPT ![j] = over]
    BY <1>3 DEF EditorFails
  <2>6. GoesOn(p, how) => clean /\ ~p.aborted
    BY DEF GoesOn
  <2>7. GoesOn(p, how) => over.holds = {} /\ closing.at = "no"
    BY <1>1, <2>1, <2>2, <2>6 DEF ClosingKept, ClosingRecords, Pending
  <2> HIDE DEF over, p, clean
  <2>8. CASE GoesOn(p, how) /\ pick' = [pick EXCEPT ![j] = [over EXCEPT !.at = "retrying"]]
    <3> DEFINE q == [over EXCEPT !.at = "retrying"]
    <3>1. q \in Picked
      BY <2>2 DEF Picked, PickPhases, Waits
    <3>2. q.at = "retrying" /\ q.holds = {} /\ q.stop = p.stop
      BY <2>2, <2>3, <2>7, <2>8 DEF Picked
    <3> HIDE DEF q
    <3>3. PickKept(q) /\ ClosingKept(closing, q)
      BY <2>4, <2>7, <2>8, <3>2 DEF PickKept, ClosingKept, Told, Sources
    <3> QED
      BY <2>1, <2>8, <3>1, <3>3, PickChanged DEF q
  <2>9. CASE GoesOn(p, how) /\ ~p.strict /\ pick' = [pick EXCEPT ![j] = Given([over EXCEPT !.second = TRUE], "standalone")]
    <3> DEFINE o == [over EXCEPT !.second = TRUE]
               q == Given(o, "standalone")
    <3>1. o \in Picked /\ o.holds = {} /\ o.strict = FALSE /\ o.stop = p.stop
      BY <1>1, <2>2, <2>3, <2>7, <2>9 DEF Picked, p
    <3>2. pick' = [pick EXCEPT ![j] = q]
      BY <2>9
    <3> HIDE DEF o
    <3>3. q \in Picked
      BY <3>1 DEF Picked, PickPhases, Given, Sources
    <3>4. q.at = "standalone" /\ q.holds = {"standalone"} /\ q.strict = FALSE /\ q.stop = p.stop
      BY <3>1 DEF Picked, Given
    <3> HIDE DEF q
    <3>5. PickKept(q) /\ ClosingKept(closing, q)
      BY <2>4, <2>7, <2>9, <3>4 DEF PickKept, ClosingKept, Told, Sources, Waits
    <3> QED
      BY <2>1, <3>2, <3>3, <3>5, PickChanged
  <2>10. CASE pick' = [pick EXCEPT ![j] = over]
    BY <2>1, <2>2, <2>10, PickChanged
  <2> QED
    BY <2>5, <2>8, <2>9, <2>10
<1> QED
  BY <1>2, <1>3

\* A disposal begins, ends one source after the other, and settles.
LEMMA CloseSteps ==
  ASSUME SelectorInv,
         \/ Closes \/ SelectorClosed
         \/ \E source \in Sources, ok \in BOOLEAN : SourceCloses(source, ok)
  PROVE  SelectorInv'
<1>1. /\ closing \in ClosingRecords /\ pick \in [Jobs -> Picked]
      /\ \A j \in Jobs : pick[j] \in Picked /\ PickKept(pick[j]) /\ ClosingKept(closing, pick[j])
  BY DEF SelectorInv
<1>2. CASE Closes
  <2>1. closing' = [at |-> "waiting", dues |-> Sources, bad |-> FALSE] /\ pick' = [j \in Jobs |-> Abandoned(pick[j])]
    BY <1>2 DEF Closes
  <2>2. ASSUME NEW c, c = [at |-> "waiting", dues |-> Sources, bad |-> FALSE], NEW p \in Picked, PickKept(p)
        PROVE  Abandoned(p) \in Picked /\ PickKept(Abandoned(p)) /\ ClosingKept(c, Abandoned(p))
    <3> DEFINE pending == Pending(p)
               q == [p EXCEPT !.aborted = p.aborted \/ pending]
    <3>1. pending \in BOOLEAN
      BY DEF Pending
    <3> HIDE DEF pending
    <3>2. q \in Picked
      BY <3>1, <2>2 DEF Picked
    <3>3. /\ q.at = p.at /\ q.holds = p.holds /\ q.strict = p.strict /\ q.stop = p.stop /\ q.live = p.live
          /\ q.unclean = p.unclean /\ q.aborted = (p.aborted \/ pending)
      BY <2>2, <3>1 DEF Picked
    <3>4. p.holds \subseteq Sources
      BY <2>2 DEF Picked
    <3>5. q = Abandoned(p)
      BY DEF Abandoned, pending
    <3> HIDE DEF q
    <3>6. PickKept(q)
      BY <2>2, <3>3 DEF PickKept, Pending
    <3>7. ClosingKept(c, q)
      BY <2>2, <3>3, <3>4 DEF ClosingKept, Pending, pending
    <3> QED
      BY <3>2, <3>5, <3>6, <3>7
  <2> QED
    BY <1>1, <2>1, <2>2 DEF SelectorInv, ClosingRecords
<1>3. CASE SelectorClosed
  <2>1. /\ closing' = [closing EXCEPT !.at = IF closing.bad THEN "failed" ELSE "done"] /\ pick' = pick
        /\ closing.at = "waiting" /\ closing.dues = {}
        /\ \A j \in Jobs : ~Pending(pick[j])
    BY <1>3 DEF SelectorClosed
  <2>2. closing' \in ClosingRecords /\ closing'.at = IF closing.bad THEN "failed" ELSE "done"
    BY <1>1, <2>1 DEF ClosingRecords
  <2>3. ASSUME NEW j \in Jobs  PROVE ClosingKept(closing', pick[j])
    BY <1>1, <2>1, <2>2, <2>3 DEF ClosingKept
  <2> QED
    BY <1>1, <2>1, <2>2, <2>3 DEF SelectorInv
<1>4. ASSUME NEW source \in Sources, NEW ok \in BOOLEAN, SourceCloses(source, ok)  PROVE SelectorInv'
  <2>1. /\ closing.at = "waiting" /\ (ok => \A j \in Jobs : pick[j].at # source)
        /\ closing' = [closing EXCEPT !.dues = closing.dues \ {source}, !.bad = closing.bad \/ ~ok]
        /\ pick' = [j \in Jobs |-> IF ok THEN [pick[j] EXCEPT !.holds = pick[j].holds \ {source}] ELSE pick[j]]
    BY <1>4 DEF SourceCloses
  <2>2. /\ closing' \in ClosingRecords /\ closing'.at = "waiting"
        /\ closing'.dues = closing.dues \ {source} /\ closing'.bad = (closing.bad \/ ~ok)
    BY <1>1, <2>1 DEF ClosingRecords
  <2>3. ASSUME NEW j \in Jobs
        PROVE  /\ pick'[j] \in Picked /\ PickKept(pick'[j]) /\ ClosingKept(closing', pick'[j])
    <3> DEFINE p == pick[j]
               q == [p EXCEPT !.holds = p.holds \ {source}]
    <3>1. p \in Picked /\ PickKept(p) /\ ClosingKept(closing, p) /\ pick'[j] = IF ok THEN q ELSE p
      BY <1>1, <2>1
    <3>2. ok => p.at # source
      BY <2>1
    <3> HIDE DEF p
    <3>3. CASE ~ok
      <4>1. ClosingKept(closing', p)
        BY <2>1, <2>2, <3>1, <3>3 DEF ClosingKept
      <4> QED
        BY <3>1, <3>3, <4>1
    <3>4. CASE ok
      <4>1. q \in Picked
        BY <3>1 DEF Picked
      <4>2. /\ q.at = p.at /\ q.holds = p.holds \ {source} /\ q.strict = p.strict /\ q.stop = p.stop /\ q.live = p.live
            /\ q.unclean = p.unclean /\ q.aborted = p.aborted
        BY <3>1 DEF Picked
      <4> HIDE DEF q
      <4>3. PickKept(q)
        <5>1. q.holds # Sources /\ q.holds \subseteq p.holds
          BY <4>2
        <5> QED
          BY <3>1, <4>2, <5>1 DEF PickKept, Pending
      <4>4. ClosingKept(closing', q)
        BY <2>1, <2>2, <3>1, <3>2, <3>4, <4>2 DEF ClosingKept, Pending
      <4> QED
        BY <3>1, <3>4, <4>1, <4>3, <4>4
    <3> QED
      BY <3>3, <3>4
  <2>4. pick' \in [Jobs -> Picked]
    <3>1. DOMAIN pick' = Jobs /\ pick' = [j \in Jobs |-> pick'[j]]
      BY <2>1
    <3> QED
      BY <3>1, <2>3
  <2> QED
    BY <2>2, <2>3, <2>4 DEF SelectorInv
<1> QED
  BY <1>2, <1>3, <1>4

\* Probes and failed preparations change what is shown only.
LEMMA SelectorStep ==
  ASSUME SelectorInv, [SelectorNext]_selectorVars
  PROVE  SelectorInv'
<1>1. CASE (pick' = pick /\ closing' = closing)
  BY <1>1 DEF SelectorInv
<1>2. ASSUME NEW strict \in BOOLEAN, NEW preferEditor \in BOOLEAN, Probes(strict, preferEditor)  PROVE SelectorInv'
  BY <1>1, <1>2 DEF Probes
<1>3. CASE PreparationFails
  BY <1>1, <1>3 DEF PreparationFails
<1>4. CASE UNCHANGED selectorVars
  BY <1>1, <1>4 DEF selectorVars
<1> QED
  BY <1>2, <1>3, <1>4, StartSteps, StopSteps, FailSteps, CloseSteps DEF SelectorNext

LEMMA SelectorSafe ==
  ASSUME SelectorInv
  PROVE  OneSource /\ LeftIsTold /\ ClosedHoldsNothing
<1>1. ASSUME NEW j \in Jobs
      PROVE  /\ ~({"editor", "standalone"} \subseteq pick[j].holds)
             /\ pick[j].strict => "standalone" \notin pick[j].holds
             /\ Active /\ pick[j].holds # {} =>
                  /\ pick[j].at = "failed" => pick[j].unclean
                  /\ pick[j].stop = "ok" /\ pick[j].live => pick[j].at = "started"
             /\ closing.at = "done" => ~Pending(pick[j]) /\ pick[j].holds = {}
  <2> DEFINE p == pick[j]
  <2>1. p \in Picked /\ PickKept(p) /\ ClosingKept(closing, p)
    BY DEF SelectorInv
  <2> HIDE DEF p
  <2>2. ~({"editor", "standalone"} \subseteq p.holds)
    BY <2>1 DEF PickKept, Picked, Sources
  <2>3. p.strict => "standalone" \notin p.holds
    BY <2>1 DEF PickKept
  <2>4. closing.at = "done" => ~Pending(p) /\ p.holds = {}
    BY <2>1 DEF ClosingKept
  <2>5. Active /\ p.holds # {} /\ p.at = "failed" => p.unclean
    BY <2>1 DEF ClosingKept, Told, Active
  <2>6. Active /\ p.holds # {} /\ p.stop = "ok" /\ p.live => p.at = "started"
    BY <2>1, <2>5 DEF PickKept, Pending, Picked, PickPhases
  <2> QED
    BY <2>2, <2>3, <2>4, <2>5, <2>6 DEF p
<1> QED
  BY <1>1 DEF OneSource, LeftIsTold, ClosedHoldsNothing

----------------------------------------------------------------------------
(* AgentHosts: the launcher *)

Early == {"none", "discovering", "rooted"}
Busy == {"discovering", "rooted", "polling", "cleaning", "withdrawing"}

HostRecords ==
  [at : Early \cup Busy \cup {"launched", "failed"}, aborted : BOOLEAN, alive : BOOLEAN, dir : BOOLEAN,
   spawned : BOOLEAN, owned : BOOLEAN, killed : BOOLEAN, work : {"no", "killing", "removing"}]

DisposalRecords ==
  [at : {"no", "draining", "ending", "failed", "done"}, hosts : SUBSET Launches, groups : SUBSET Callers,
   bad : BOOLEAN, probing : BOOLEAN]

\* A launch has no process before it spawns one and does not own it before it
\* is ready or given up; only what is owned is disposed of, and what is neither
\* with its launch nor owned is gone.
LaunchKept(h) ==
  /\ h.at \in Early => ~h.alive /\ ~h.owned /\ ~h.spawned /\ ~h.killed
  /\ h.at = "polling" => ~h.owned /\ ~h.killed
  /\ h.at \in {"cleaning", "withdrawing"} => h.owned
  /\ h.work # "no" => h.owned
  /\ h.work = "removing" => h.killed
  /\ h.killed => ~h.alive
  /\ h.at \notin Busy /\ ~h.owned => ~h.alive /\ (h.spawned => ~h.dir)

\* Past its drain a disposal finds no launch under way; it waits for all that
\* is owned or left, or it has failed.
DisposalKept(s, l, h, g) ==
  /\ s.at \in {"ending", "done", "failed"} => h.at \notin Busy
  /\ s.at = "ending" /\ ~s.bad => (h.owned => l \in s.hosts) /\ (g # "no" => l \in s.groups)
  /\ s.at = "done" => ~h.owned /\ g = "no"

LauncherInv ==
  /\ host \in [Launches -> HostRecords]
  /\ left \in [Callers -> {"no", "owned", "ending"}]
  /\ shutting \in DisposalRecords
  /\ \A l \in Launches : LaunchKept(host[l]) /\ DisposalKept(shutting, l, host[l], left[l])

LEMMA LauncherInvInit == LauncherInit => LauncherInv
  BY DEF LauncherInit, LauncherInv, NewHost, HostRecords, DisposalRecords, LaunchKept, DisposalKept, Callers, Early, Busy

\* A step of one launch.
LEMMA HostChanged ==
  ASSUME LauncherInv, NEW l \in Launches, NEW h \in HostRecords, LaunchKept(h),
         DisposalKept(shutting, l, h, left[l]), host' = [host EXCEPT ![l] = h], left' = left, shutting' = shutting
  PROVE  LauncherInv'
<1>1. host' \in [Launches -> HostRecords] /\ \A m \in Launches : host'[m] = IF m = l THEN h ELSE host[m]
  BY DEF LauncherInv
<1> QED
  BY <1>1 DEF LauncherInv

\* A launch that fails leaves at most one process group.
LEMMA LaunchFailed ==
  ASSUME LauncherInv, HostsAssumption, NEW l \in Launches, host[l].at \in Busy, NEW leaves \in BOOLEAN, Leaves(l, leaves),
         NEW h \in HostRecords, LaunchKept(h), host' = [host EXCEPT ![l] = h], shutting' = shutting
  PROVE  LauncherInv'
<1>1. /\ host' \in [Launches -> HostRecords] /\ \A m \in Launches : host'[m] = IF m = l THEN h ELSE host[m]
      /\ left' \in [Callers -> {"no", "owned", "ending"}] /\ \A m \in Launches : m # l => left'[m] = left[m]
      /\ shutting.at \notin {"ending", "done", "failed"}
  BY DEF LauncherInv, Leaves, Callers, DisposalKept
<1>2. DisposalKept(shutting, l, h, left'[l])
  BY <1>1 DEF DisposalKept
<1> QED
  BY <1>1, <1>2 DEF LauncherInv

LEMMA LaunchSteps ==
  ASSUME LauncherInv, HostsAssumption, NEW l \in Launches,
         \/ Launch(l) \/ AbortsLaunch(l) \/ Discovers(l) \/ Spawns(l) \/ Ready(l) \/ Exits(l)
         \/ HostDisposed(l) \/ Kills(l)
         \/ \E leaves \in BOOLEAN :
              NotDiscovered(l, leaves) \/ NotReady(l, leaves) \/ \E removed \in BOOLEAN : NotSpawned(l, leaves, removed)
  PROVE  LauncherInv'
<1> DEFINE h == host[l]
<1>1. /\ h \in HostRecords /\ LaunchKept(h) /\ DisposalKept(shutting, l, h, left[l])
      /\ Launching(l) <=> h.at \in Busy
  BY DEF LauncherInv, Launching, Busy
<1> HIDE DEF h
<1>2. CASE Launch(l)
  <2> DEFINE q == [h EXCEPT !.at = "discovering"]
  <2>1. h.at = "none" /\ shutting.at = "no" /\ host' = [host EXCEPT ![l] = q] /\ left' = left /\ shutting' = shutting
    BY <1>2 DEF Launch, Shut, h, LauncherInv
  <2>2. q \in HostRecords
    BY <1>1 DEF HostRecords, Busy
  <2>3. LaunchKept(q)
    BY <1>1, <2>1 DEF LaunchKept, HostRecords, Early, Busy
  <2>4. DisposalKept(shutting, l, q, left[l])
    BY <2>1 DEF DisposalKept
  <2> QED
    BY <2>1, <2>2, <2>3, <2>4, HostChanged
<1>3. CASE AbortsLaunch(l)
  <2> DEFINE q == [h EXCEPT !.aborted = TRUE]
  <2>1. host' = [host EXCEPT ![l] = q] /\ left' = left /\ shutting' = shutting
    BY <1>3 DEF AbortsLaunch, h
  <2>2. q \in HostRecords
    BY <1>1 DEF HostRecords
  <2>3. LaunchKept(q)
    BY <1>1 DEF LaunchKept, HostRecords
  <2>4. DisposalKept(shutting, l, q, left[l])
    BY <1>1 DEF DisposalKept, HostRecords
  <2> QED
    BY <2>1, <2>2, <2>3, <2>4, HostChanged
<1>4. CASE Discovers(l)
  <2> DEFINE q == [h EXCEPT !.at = "rooted", !.dir = TRUE]
  <2>1. h.at = "discovering" /\ host' = [host EXCEPT ![l] = q] /\ left' = left /\ shutting' = shutting
    BY <1>4 DEF Discovers, h, LauncherInv
  <2>2. q \in HostRecords
    BY <1>1 DEF HostRecords, Busy
  <2>3. LaunchKept(q)
    BY <1>1, <2>1 DEF LaunchKept, HostRecords, Early, Busy
  <2>4. DisposalKept(shutting, l, q, left[l])
    BY <1>1, <2>1 DEF DisposalKept, HostRecords, Busy
  <2> QED
    BY <2>1, <2>2, <2>3, <2>4, HostChanged
<1>5. CASE Spawns(l)
  <2> DEFINE q == [h EXCEPT !.at = "polling", !.alive = TRUE, !.spawned = TRUE]
  <2>1. h.at = "rooted" /\ host' = [host EXCEPT ![l] = q] /\ left' = left /\ shutting' = shutting
    BY <1>5 DEF Spawns, h, LauncherInv
  <2>2. q \in HostRecords
    BY <1>1 DEF HostRecords, Busy
  <2>3. LaunchKept(q)
    BY <1>1, <2>1 DEF LaunchKept, HostRecords, Early, Busy
  <2>4. DisposalKept(shutting, l, q, left[l])
    BY <1>1, <2>1 DEF DisposalKept, HostRecords, Busy
  <2> QED
    BY <2>1, <2>2, <2>3, <2>4, HostChanged
<1>6. CASE Ready(l)
  <2> DEFINE gone == [h EXCEPT !.at = "withdrawing", !.owned = TRUE, !.work = "killing"]
             kept == [h EXCEPT !.at = "launched", !.owned = TRUE]
             q == IF Shut \/ h.aborted THEN gone ELSE kept
  <2>1. h.at = "polling" /\ left' = left /\ shutting' = shutting
        /\ host' = [host EXCEPT ![l] = q]
    BY <1>6 DEF Ready, h, LauncherInv
  <2>2. gone \in HostRecords /\ kept \in HostRecords
    BY <1>1 DEF HostRecords, Busy
  <2>3. LaunchKept(gone) /\ LaunchKept(kept)
    BY <1>1, <2>1 DEF LaunchKept, HostRecords, Early, Busy
  <2>4. shutting.at \notin {"ending", "done", "failed"}
    BY <1>1, <2>1 DEF DisposalKept, Busy
  <2>5. q \in HostRecords /\ LaunchKept(q)
    BY <2>2, <2>3
  <2> HIDE DEF q
  <2>6. DisposalKept(shutting, l, q, left[l])
    BY <2>4 DEF DisposalKept
  <2> QED
    BY <2>1, <2>5, <2>6, HostChanged
<1>7. CASE Exits(l)
  <2> DEFINE q == [h EXCEPT !.alive = FALSE]
  <2>1. host' = [host EXCEPT ![l] = q] /\ left' = left /\ shutting' = shutting
    BY <1>7 DEF Exits, h
  <2>2. q \in HostRecords
    BY <1>1 DEF HostRecords
  <2>3. LaunchKept(q)
    BY <1>1 DEF LaunchKept, HostRecords
  <2>4. DisposalKept(shutting, l, q, left[l])
    BY <1>1 DEF DisposalKept, HostRecords
  <2> QED
    BY <2>1, <2>2, <2>3, <2>4, HostChanged
<1>8. CASE HostDisposed(l)
  <2> DEFINE q == [h EXCEPT !.work = IF h.killed THEN "removing" ELSE "killing"]
  <2>1. h.owned /\ host' = [host EXCEPT ![l] = q] /\ left' = left /\ shutting' = shutting
    BY <1>8 DEF HostDisposed, Disposing, h
  <2>2. q \in HostRecords
    BY <1>1 DEF HostRecords
  <2>3. LaunchKept(q)
    BY <1>1, <2>1 DEF LaunchKept, HostRecords
  <2>4. DisposalKept(shutting, l, q, left[l])
    BY <1>1 DEF DisposalKept, HostRecords
  <2> QED
    BY <2>1, <2>2, <2>3, <2>4, HostChanged
<1>9. CASE Kills(l)
  <2> DEFINE q == [h EXCEPT !.alive = FALSE, !.killed = TRUE, !.work = "removing"]
  <2>1. h.work = "killing" /\ host' = [host EXCEPT ![l] = q] /\ left' = left /\ shutting' = shutting
    BY <1>9 DEF Kills, h
  <2>2. q \in HostRecords
    BY <1>1 DEF HostRecords
  <2>3. LaunchKept(q)
    BY <1>1, <2>1 DEF LaunchKept, HostRecords, Early
  <2>4. DisposalKept(shutting, l, q, left[l])
    BY <1>1 DEF DisposalKept, HostRecords
  <2> QED
    BY <2>1, <2>2, <2>3, <2>4, HostChanged
<1>10. ASSUME NEW leaves \in BOOLEAN, NotDiscovered(l, leaves)  PROVE LauncherInv'
  <2> DEFINE q == [h EXCEPT !.at = "failed"]
  <2>1. h.at = "discovering" /\ host' = [host EXCEPT ![l] = q] /\ Leaves(l, leaves) /\ shutting' = shutting
    BY <1>10 DEF NotDiscovered, h, LauncherInv
  <2>2. q \in HostRecords
    BY <1>1 DEF HostRecords
  <2>3. LaunchKept(q) /\ host[l].at \in Busy
    BY <1>1, <2>1 DEF LaunchKept, HostRecords, Early, Busy, h
  <2> QED
    BY <2>1, <2>2, <2>3, LaunchFailed
<1>11. ASSUME NEW leaves \in BOOLEAN, NotReady(l, leaves)  PROVE LauncherInv'
  <2> DEFINE q == [h EXCEPT !.at = "cleaning", !.owned = TRUE, !.work = "killing"]
  <2>1. h.at = "polling" /\ host' = [host EXCEPT ![l] = q] /\ Leaves(l, leaves) /\ shutting' = shutting
    BY <1>11 DEF NotReady, h, LauncherInv
  <2>2. q \in HostRecords
    BY <1>1 DEF HostRecords, Busy
  <2>3. LaunchKept(q) /\ host[l].at \in Busy
    BY <1>1, <2>1 DEF LaunchKept, HostRecords, Early, Busy, h
  <2> QED
    BY <2>1, <2>2, <2>3, LaunchFailed
<1>12. ASSUME NEW leaves \in BOOLEAN, NEW removed \in BOOLEAN, NotSpawned(l, leaves, removed)  PROVE LauncherInv'
  <2> DEFINE q == [h EXCEPT !.at = "failed", !.dir = ~removed]
  <2>1. h.at = "rooted" /\ host' = [host EXCEPT ![l] = q] /\ Leaves(l, leaves) /\ shutting' = shutting
    BY <1>12 DEF NotSpawned, h, LauncherInv
  <2>2. q \in HostRecords
    BY <1>1 DEF HostRecords
  <2>3. LaunchKept(q) /\ host[l].at \in Busy
    BY <1>1, <2>1 DEF LaunchKept, HostRecords, Early, Busy, h
  <2> QED
    BY <2>1, <2>2, <2>3, LaunchFailed
<1> QED
  BY <1>2, <1>3, <1>4, <1>5, <1>6, <1>7, <1>8, <1>9, <1>10, <1>11, <1>12

\* The disposal of a host settles; a disposal of the launcher that waits for it hears of it.
LEMMA RemovalSteps ==
  ASSUME LauncherInv, NEW l \in Launches, Removes(l) \/ DisposalFails(l)
  PROVE  LauncherInv'
<1> DEFINE h == host[l]
           s == shutting
           o == [h EXCEPT !.work = "no", !.at = IF h.at = "launched" THEN "launched" ELSE "failed"]
<1>1. /\ h \in HostRecords /\ LaunchKept(h) /\ s \in DisposalRecords
      /\ \A m \in Launches : LaunchKept(host[m]) /\ DisposalKept(s, m, host[m], left[m])
  BY DEF LauncherInv
<1>2. /\ o \in HostRecords /\ o.work = "no" /\ o.at \in {"launched", "failed"} /\ o.owned = h.owned
      /\ o.alive = h.alive /\ o.spawned = h.spawned /\ o.dir = h.dir /\ o.killed = h.killed
  BY <1>1 DEF HostRecords
<1>3. o = Over(h)
  BY DEF Over
<1>4. h.work # "no" /\ left' = left
  BY DEF Removes, DisposalFails
<1>5. h.owned
  BY <1>1, <1>4 DEF LaunchKept
<1> HIDE DEF h, o
<1>6. ASSUME NEW ok \in BOOLEAN, HeardOf(l, ok)
      PROVE  /\ shutting' \in DisposalRecords /\ shutting'.at = s.at /\ shutting'.groups = s.groups
             /\ shutting'.hosts = s.hosts \ {l} /\ shutting'.bad = (s.bad \/ (l \in s.hosts /\ ~ok))
  <2> DEFINE b == s.bad \/ (l \in s.hosts /\ ~ok)
             t == [s EXCEPT !.hosts = s.hosts \ {l}]
  <2>1. shutting' = [t EXCEPT !.bad = b] /\ b \in BOOLEAN
    BY <1>1, <1>6 DEF HeardOf, DisposalRecords
  <2> HIDE DEF b
  <2>2. t \in DisposalRecords /\ t.at = s.at /\ t.groups = s.groups /\ t.hosts = s.hosts \ {l}
    BY <1>1 DEF DisposalRecords
  <2> HIDE DEF t
  <2>3. /\ shutting' \in DisposalRecords /\ shutting'.at = s.at /\ shutting'.groups = s.groups
        /\ shutting'.hosts = s.hosts \ {l} /\ shutting'.bad = b
    BY <2>1, <2>2 DEF DisposalRecords
  <2> QED
    BY <2>3 DEF b
<1> HIDE DEF s
<1>7. CASE Removes(l)
  <2> DEFINE q == [o EXCEPT !.dir = FALSE, !.owned = FALSE]
  <2>1. h.work = "removing" /\ host' = [host EXCEPT ![l] = q] /\ HeardOf(l, TRUE)
    BY <1>3, <1>7 DEF Removes, h
  <2>2. /\ q \in HostRecords /\ q.work = "no" /\ q.at \in {"launched", "failed"} /\ q.owned = FALSE /\ q.dir = FALSE
        /\ q.alive = h.alive /\ q.killed = h.killed
    BY <1>2 DEF HostRecords
  <2> HIDE DEF q
  <2>3. h.killed /\ ~h.alive
    BY <1>1, <2>1 DEF LaunchKept
  <2>4. LaunchKept(q)
    BY <2>2, <2>3 DEF LaunchKept, Early, Busy
  <2>5. /\ host' \in [Launches -> HostRecords] /\ \A m \in Launches : host'[m] = IF m = l THEN q ELSE host[m]
    BY <2>1, <2>2 DEF LauncherInv
  <2>6. /\ shutting' \in DisposalRecords /\ shutting'.at = s.at /\ shutting'.groups = s.groups
        /\ shutting'.hosts = s.hosts \ {l} /\ (shutting'.bad <=> s.bad)
    BY <1>6, <2>1, <1>1 DEF DisposalRecords
  <2>7. DisposalKept(shutting', l, q, left[l])
    BY <1>1, <2>2, <2>6 DEF DisposalKept, Busy
  <2>8. ASSUME NEW m \in Launches, m # l  PROVE DisposalKept(shutting', m, host[m], left[m])
    BY <1>1, <2>6, <2>8 DEF DisposalKept
  <2> QED
    BY <1>1, <1>4, <2>4, <2>5, <2>6, <2>7, <2>8 DEF LauncherInv
<1>8. CASE DisposalFails(l)
  <2>1. host' = [host EXCEPT ![l] = o] /\ HeardOf(l, FALSE)
    BY <1>3, <1>8 DEF DisposalFails, h
  <2>2. LaunchKept(o)
    BY <1>1, <1>2, <1>5 DEF LaunchKept, Early, Busy
  <2>3. /\ host' \in [Launches -> HostRecords] /\ \A m \in Launches : host'[m] = IF m = l THEN o ELSE host[m]
    BY <1>2, <2>1 DEF LauncherInv
  <2>4. /\ shutting' \in DisposalRecords /\ shutting'.at = s.at /\ shutting'.groups = s.groups
        /\ shutting'.hosts = s.hosts \ {l} /\ (shutting'.bad <=> s.bad \/ l \in s.hosts)
    BY <1>6, <2>1 DEF DisposalRecords
  <2>5. DisposalKept(s, l, h, left[l])
    BY <1>1 DEF h
  <2>6. DisposalKept(shutting', l, o, left[l])
    BY <1>2, <1>5, <2>4, <2>5 DEF DisposalKept, Busy
  <2>7. ASSUME NEW m \in Launches, m # l  PROVE DisposalKept(shutting', m, host[m], left[m])
    BY <1>1, <2>4, <2>7 DEF DisposalKept
  <2> QED
    BY <1>1, <1>4, <2>2, <2>3, <2>4, <2>6, <2>7 DEF LauncherInv
<1> QED
  BY <1>7, <1>8

\* The probe is not a launch: what it leaves is not what a disposal is about.
LEMMA GroupSteps ==
  ASSUME LauncherInv, HostsAssumption,
         \/ \E c \in Callers, ok \in BOOLEAN : GroupEnds(c, ok)
         \/ \E leaves \in BOOLEAN : ProbeEnds(leaves)
         \/ ProbeBegins
  PROVE  LauncherInv'
<1>1. /\ shutting \in DisposalRecords /\ left \in [Callers -> {"no", "owned", "ending"}] /\ host' = host
      /\ \A m \in Launches : m \in Callers /\ LaunchKept(host[m]) /\ DisposalKept(shutting, m, host[m], left[m])
  BY DEF LauncherInv, GroupEnds, ProbeEnds, ProbeBegins, Callers
<1>2. ASSUME NEW c \in Callers, NEW ok \in BOOLEAN, GroupEnds(c, ok)  PROVE LauncherInv'
  <2> DEFINE b == shutting.bad \/ (c \in shutting.groups /\ ~ok)
             t == [shutting EXCEPT !.groups = shutting.groups \ {c}]
             g == IF ok THEN "no" ELSE "owned"
  <2>1. shutting' = [t EXCEPT !.bad = b] /\ b \in BOOLEAN /\ left[c] = "ending" /\ left' = [left EXCEPT ![c] = g]
    BY <1>1, <1>2 DEF GroupEnds, DisposalRecords
  <2> HIDE DEF b
  <2>2. t \in DisposalRecords /\ t.at = shutting.at /\ t.groups = shutting.groups \ {c} /\ t.hosts = shutting.hosts
    BY <1>1 DEF DisposalRecords
  <2> HIDE DEF t
  <2>3. /\ shutting' \in DisposalRecords /\ shutting'.at = shutting.at /\ shutting'.groups = shutting.groups \ {c}
        /\ shutting'.hosts = shutting.hosts /\ shutting'.bad = b
    BY <2>1, <2>2 DEF DisposalRecords
  <2>4. g \in {"no", "owned"} /\ (g = "no" <=> ok)
    OBVIOUS
  <2> HIDE DEF g
  <2>5. left' \in [Callers -> {"no", "owned", "ending"}] /\ \A d \in Callers : left'[d] = IF d = c THEN g ELSE left[d]
    BY <1>1, <2>1, <2>4
  <2>6. b <=> shutting.bad \/ (c \in shutting.groups /\ ~ok)
    BY DEF b
  <2>7. ASSUME NEW m \in Launches  PROVE DisposalKept(shutting', m, host[m], left'[m])
    <3>1. CASE m = c
      BY <1>1, <2>1, <2>3, <2>4, <2>5, <2>6, <3>1 DEF DisposalKept
    <3>2. CASE m # c
      BY <1>1, <2>1, <2>3, <2>5, <2>6, <3>2 DEF DisposalKept
    <3> QED
      BY <3>1, <3>2
  <2> QED
    BY <1>1, <2>3, <2>5, <2>7 DEF LauncherInv
<1>3. ASSUME NEW leaves \in BOOLEAN, ProbeEnds(leaves)  PROVE LauncherInv'
  <2>1. /\ shutting' \in DisposalRecords /\ shutting'.at = shutting.at /\ shutting'.groups = shutting.groups
        /\ shutting'.hosts = shutting.hosts /\ shutting'.bad = shutting.bad
    BY <1>1, <1>3 DEF ProbeEnds, DisposalRecords
  <2>2. left' \in [Callers -> {"no", "owned", "ending"}] /\ \A m \in Launches : left'[m] = left[m]
    BY <1>1, <1>3 DEF ProbeEnds, Leaves, HostsAssumption, Callers
  <2>3. ASSUME NEW m \in Launches  PROVE DisposalKept(shutting', m, host[m], left'[m])
    BY <1>1, <2>1, <2>2 DEF DisposalKept
  <2> QED
    BY <1>1, <2>1, <2>2, <2>3 DEF LauncherInv
<1>4. CASE ProbeBegins
  <2>1. /\ shutting' \in DisposalRecords /\ shutting'.at = shutting.at /\ shutting'.groups = shutting.groups
        /\ shutting'.hosts = shutting.hosts /\ shutting'.bad = shutting.bad /\ left' = left
    BY <1>1, <1>4 DEF ProbeBegins, DisposalRecords
  <2>2. ASSUME NEW m \in Launches  PROVE DisposalKept(shutting', m, host[m], left[m])
    BY <1>1, <2>1 DEF DisposalKept
  <2> QED
    BY <1>1, <2>1, <2>2 DEF LauncherInv
<1> QED
  BY <1>2, <1>3, <1>4

\* The disposal of the launcher begins, takes stock of what is owned, and settles.
LEMMA DisposalSteps ==
  ASSUME LauncherInv, ShutsDown \/ Drained \/ ShutDown
  PROVE  LauncherInv'
<1>1. /\ shutting \in DisposalRecords /\ left \in [Callers -> {"no", "owned", "ending"}]
      /\ \A m \in Launches : /\ m \in Callers /\ host[m] \in HostRecords
                             /\ LaunchKept(host[m]) /\ DisposalKept(shutting, m, host[m], left[m])
  BY DEF LauncherInv, Callers
<1>2. CASE ShutsDown
  <2>1. shutting' \in DisposalRecords /\ shutting'.at = "draining" /\ left' = left
    BY <1>1, <1>2 DEF ShutsDown, DisposalRecords
  <2>2. ASSUME NEW h \in HostRecords, LaunchKept(h), NEW b \in BOOLEAN
        PROVE  [h EXCEPT !.aborted = b] \in HostRecords /\ LaunchKept([h EXCEPT !.aborted = b])
    BY <2>2 DEF HostRecords, LaunchKept
  <2>3. ASSUME NEW m \in Launches  PROVE host'[m] \in HostRecords /\ LaunchKept(host'[m])
    <3>1. host'[m] = [host[m] EXCEPT !.aborted = host[m].aborted \/ Launching(m)]
      BY <1>2 DEF ShutsDown
    <3>2. (host[m].aborted \/ Launching(m)) \in BOOLEAN
      BY <1>1 DEF HostRecords, Launching
    <3> QED
      BY <1>1, <2>2, <3>1, <3>2
  <2>4. host' \in [Launches -> HostRecords]
    <3>1. host' = [l \in Launches |-> host'[l]]
      BY <1>2 DEF ShutsDown
    <3> QED
      BY <2>3, <3>1
  <2>5. ASSUME NEW m \in Launches  PROVE DisposalKept(shutting', m, host'[m], left[m])
    BY <2>1 DEF DisposalKept
  <2> QED
    BY <1>1, <2>1, <2>3, <2>4, <2>5 DEF LauncherInv
<1>3. CASE Drained
  <2> DEFINE hosts == {l \in Launches : host[l].owned}
             groups == {c \in Callers : left[c] # "no"}
  <2>1. /\ \A l \in Launches : host[l].at \notin Busy
        /\ host' = [l \in Launches |-> Disposing(host[l])]
        /\ left' = [c \in Callers |-> IF left[c] = "no" THEN "no" ELSE "ending"]
        /\ shutting' = [shutting EXCEPT !.at = "ending", !.bad = FALSE, !.hosts = hosts, !.groups = groups]
    BY <1>3 DEF Drained, Launching, Busy
  <2>2. hosts \subseteq Launches /\ groups \subseteq Callers
    OBVIOUS
  <2>3. \A m \in Launches : (host[m].owned => m \in hosts) /\ (left[m] # "no" => m \in groups)
    BY <1>1
  <2> HIDE DEF hosts, groups
  <2>4. shutting' \in DisposalRecords /\ shutting'.at = "ending" /\ shutting'.hosts = hosts /\ shutting'.groups = groups
    BY <1>1, <2>1, <2>2 DEF DisposalRecords
  <2>5. left' \in [Callers -> {"no", "owned", "ending"}] /\ \A m \in Launches : left'[m] # "no" => left[m] # "no"
    BY <1>1, <2>1
  <2>6. ASSUME NEW h \in HostRecords, LaunchKept(h)
        PROVE  /\ Disposing(h) \in HostRecords /\ LaunchKept(Disposing(h))
               /\ Disposing(h).at = h.at /\ Disposing(h).owned = h.owned
    <3> DEFINE q == [h EXCEPT !.work = IF h.killed THEN "removing" ELSE "killing"]
    <3>1. /\ q \in HostRecords /\ q.at = h.at /\ q.owned = h.owned /\ q.alive = h.alive /\ q.killed = h.killed
          /\ q.spawned = h.spawned /\ q.dir = h.dir /\ q.work = IF h.killed THEN "removing" ELSE "killing"
      BY <2>6 DEF HostRecords
    <3>2. Disposing(h) = IF h.owned /\ h.work = "no" THEN q ELSE h
      BY DEF Disposing
    <3> HIDE DEF q
    <3>3. h.owned => LaunchKept(q)
      BY <2>6, <3>1 DEF LaunchKept
    <3> QED
      BY <2>6, <3>1, <3>2, <3>3
  <2>7. ASSUME NEW m \in Launches
        PROVE  /\ host'[m] \in HostRecords /\ LaunchKept(host'[m])
               /\ host'[m].at = host[m].at /\ host'[m].owned = host[m].owned
    <3>1. host'[m] = Disposing(host[m])
      BY <2>1
    <3> QED
      BY <1>1, <2>6, <3>1
  <2>8. host' \in [Launches -> HostRecords]
    <3>1. host' = [l \in Launches |-> host'[l]]
      BY <2>1
    <3> QED
      BY <2>7, <3>1
  <2>9. ASSUME NEW m \in Launches  PROVE DisposalKept(shutting', m, host'[m], left'[m])
    BY <2>1, <2>3, <2>4, <2>5, <2>7 DEF DisposalKept
  <2> QED
    BY <2>4, <2>5, <2>7, <2>8, <2>9 DEF LauncherInv
<1>4. CASE ShutDown
  <2>1. /\ shutting' \in DisposalRecords /\ shutting'.at = IF shutting.bad THEN "failed" ELSE "done"
        /\ shutting.at = "ending" /\ shutting.hosts = {} /\ shutting.groups = {}
        /\ left' = left /\ host' = host
    BY <1>1, <1>4 DEF ShutDown, DisposalRecords
  <2>2. ASSUME NEW m \in Launches  PROVE DisposalKept(shutting', m, host[m], left[m])
    BY <1>1, <2>1, <2>2 DEF DisposalKept
  <2> QED
    BY <1>1, <2>1, <2>2 DEF LauncherInv
<1> QED
  BY <1>2, <1>3, <1>4

LEMMA LauncherStep ==
  ASSUME LauncherInv, HostsAssumption, [LauncherNext]_launcherVars
  PROVE  LauncherInv'
<1>1. CASE UNCHANGED launcherVars
  BY <1>1 DEF launcherVars, LauncherInv
<1> QED
  BY <1>1, LaunchSteps, RemovalSteps, GroupSteps, DisposalSteps DEF LauncherNext

LEMMA LauncherSafe ==
  ASSUME LauncherInv, HostsAssumption
  PROVE  HostsTracked /\ ShutHasNothing
<1>1. ASSUME NEW l \in Launches
      PROVE  /\ ~Launching(l) /\ ~host[l].owned => ~host[l].alive /\ (host[l].spawned => ~host[l].dir)
             /\ shutting.at = "done" => ~Launching(l) /\ ~host[l].alive /\ ~host[l].owned /\ left[l] = "no"
  <2>1. LaunchKept(host[l]) /\ DisposalKept(shutting, l, host[l], left[l]) /\ (Launching(l) <=> host[l].at \in Busy)
    BY DEF LauncherInv, Launching, Busy
  <2> QED
    BY <2>1 DEF LaunchKept, DisposalKept
<1> QED
  BY <1>1 DEF HostsTracked, ShutHasNothing

\* Where the agent of a task runs is known, whichever attempts, cleanups and
\* cancellations failed and in whatever order they settled: a task is with one
\* source, the fallback begins with nothing at the editor, what a failed start
\* left was told, a disposal that succeeds leaves nothing, and a process of our
\* own is with its launch or with the launcher until it is gone.
THEOREM HostsKnown == SelectorSpec /\ LauncherSpec => []HostsSound
<1>1. SelectorSpec => []SelectorInv
  BY SelectorInvInit, SelectorStep, PTL DEF SelectorSpec
<1>2. LauncherSpec => []LauncherInv
  BY LauncherInvInit, LauncherStep, HostsAssumption, PTL DEF LauncherSpec
<1>3. SelectorInv /\ LauncherInv => HostsSound
  BY SelectorSafe, LauncherSafe, HostsAssumption DEF HostsSound
<1> QED
  BY <1>1, <1>2, <1>3, PTL

----------------------------------------------------------------------------
(* CliInstaller *)

CallPhases ==
  {"new", "queued", "entered", "locked", "previous", "inspecting", "release", "staging", "download", "extract", "verify",
   "publish", "activate", "unpublish", "unstage", "unlock", "unlinking", "ended", "dead"}

CallRecords ==
  [at : CallPhases, status : BOOLEAN, version : Versions \cup {NoCli}, waits : SUBSET Calls, aborted : BOOLEAN,
   identified : BOOLEAN, previous : Calls \cup {NoCli}, result : Calls \cup {NoCli}, activated : BOOLEAN,
   unclean : BOOLEAN, invalid : BOOLEAN]

RootRecords ==
  [lock : Calls \cup {NoCli}, staging : SUBSET Calls, dir : [Calls -> {"absent", "whole", "partial"}],
   current : Calls \cup {NoCli}]

\* What a call has left in the root at each of its phases.
Untouched == {"new", "queued", "entered"}
Unstaged == {"locked", "previous", "inspecting", "release", "staging"}
Unpublished == {"download", "extract", "verify", "publish"}
Finishing == {"unstage", "unlock", "unlinking", "ended"}

CallKept(i, r, rt) ==
  /\ r.status => r.at \in {"previous", "inspecting", "ended", "dead"}
  /\ r.status \/ r.at \in Untouched => rt.lock # i
  /\ r.status \/ r.at \in Untouched \cup Unstaged => i \notin rt.staging
  /\ r.status \/ r.at \in Untouched \cup Unstaged \cup Unpublished => rt.dir[i] = "absent"
  /\ r.at = "activate" => rt.dir[i] = "whole"
  /\ r.activated => rt.dir[i] = "whole" /\ r.at \in Finishing \cup {"unpublish", "dead"}
  /\ r.at \in Finishing => rt.dir[i] = "absent" \/ r.activated \/ r.unclean
  /\ r.at \in Finishing \ {"unstage"} => i \notin rt.staging \/ r.unclean
  /\ r.at = "ended" => rt.lock # i \/ r.unclean
  /\ r.at = "inspecting" => r.previous # NoCli
  /\ ~r.invalid

\* What a call knows of, or the manifest names, was activated.
Named(c, n) == n = NoCli \/ (n \in Calls /\ c[n].activated)
NamesKept(c, rt) == Named(c, rt.current) /\ \A i \in Calls : Named(c, c[i].previous) /\ Named(c, c[i].result)

\* Of two installations of a process that are under way one waits for the other,
\* and one that has entered waits for none.
Installs(r) == r.at \notin {"new", "ended", "dead"} /\ ~r.status
QueueKept(c) ==
  /\ \A i, j \in Calls :
       i # j /\ Installs(c[i]) /\ Installs(c[j]) /\ ProcessOf[i] = ProcessOf[j] => i \in c[j].waits \/ j \in c[i].waits
  /\ \A i, j \in Calls : Installs(c[i]) /\ c[i].at # "queued" /\ Installs(c[j]) => j \notin c[i].waits
  /\ \A i, j \in Calls : j \in c[i].waits => c[j].at # "new"

InstallerInv ==
  /\ cli \in [Calls -> CallRecords] /\ root \in RootRecords
  /\ \A i \in Calls : CallKept(i, cli[i], root)
  /\ NamesKept(cli, root) /\ QueueKept(cli)

LEMMA InstallerInvInit == CliInit => InstallerInv
<1> SUFFICES ASSUME CliInit  PROVE InstallerInv
  OBVIOUS
<1>1. NoCall \in CallRecords /\ NoCall.at = "new" /\ ~NoCall.activated /\ NoCall.previous = NoCli /\ NoCall.result = NoCli
      /\ NoCall.waits = {} /\ ~NoCall.status /\ ~NoCall.invalid
  BY DEF NoCall, CallRecords, CallPhases
<1>2. cli \in [Calls -> CallRecords] /\ \A i \in Calls : cli[i] = NoCall
  BY <1>1 DEF CliInit
<1>3. /\ root \in RootRecords /\ root.lock = NoCli /\ root.staging = {} /\ root.current = NoCli
      /\ \A i \in Calls : root.dir[i] = "absent"
  BY DEF CliInit, RootRecords
<1>4. ASSUME NEW i \in Calls  PROVE CallKept(i, cli[i], root)
  BY <1>1, <1>2, <1>3, CliAssumption DEF CallKept, Untouched, Unstaged, Unpublished, Finishing, NoCli
<1>5. NamesKept(cli, root) /\ QueueKept(cli)
  BY <1>1, <1>2, <1>3 DEF NamesKept, Named, QueueKept, Installs
<1> QED
  BY <1>2, <1>3, <1>4, <1>5 DEF InstallerInv

\* The root as another call leaves it.
LEMMA OthersKept ==
  ASSUME NEW i, NEW r, NEW rt, NEW rt2, CallKept(i, r, rt), rt2.dir[i] = rt.dir[i], i \in rt2.staging => i \in rt.staging,
         rt2.lock = i => rt.lock = i
  PROVE  CallKept(i, r, rt2)
  BY DEF CallKept

\* One call goes on.
LEMMA CallGoes ==
  ASSUME InstallerInv, NEW i \in Calls, NEW r \in CallRecords, cli' = [cli EXCEPT ![i] = r], root' \in RootRecords,
         CallKept(i, r, root'),
         \A j \in Calls \ {i} : /\ root'.dir[j] = root.dir[j] /\ (j \in root'.staging => j \in root.staging)
                                /\ root'.lock = j => root.lock = j,
         root'.current = root.current \/ (root'.current = i /\ r.activated),
         cli[i].activated => r.activated,
         r.previous = cli[i].previous \/ Named(cli, r.previous),
         r.result = cli[i].result \/ Named(cli, r.result) \/ (r.result = i /\ r.activated),
         r.waits = cli[i].waits, r.status = cli[i].status, r.at # "new",
         Installs(r) => Installs(cli[i]),
         Installs(r) /\ r.at # "queued" => cli[i].at # "queued" \/ \A j \in Calls : Installs(cli[j]) => j \notin r.waits
  PROVE  InstallerInv'
<1>1. cli \in [Calls -> CallRecords] /\ root \in RootRecords
  BY DEF InstallerInv
<1>2. cli' \in [Calls -> CallRecords] /\ \A j \in Calls : cli'[j] = IF j = i THEN r ELSE cli[j]
  BY <1>1
<1>3. ASSUME NEW j \in Calls  PROVE CallKept(j, cli'[j], root')
  <2>1. CASE j = i
    BY <1>2, <2>1
  <2>2. CASE j # i
    <3>1. CallKept(j, cli[j], root)
      BY DEF InstallerInv
    <3>2. CallKept(j, cli[j], root')
      BY <2>2, <3>1, OthersKept
    <3> QED
      BY <1>2, <2>2, <3>2
  <2> QED
    BY <2>1, <2>2
<1>4. NamesKept(cli', root')
  <2>1. ASSUME NEW n, Named(cli, n)  PROVE Named(cli', n)
    BY <1>2, <2>1 DEF Named
  <2>2. r.activated => Named(cli', i)
    BY <1>2 DEF Named
  <2>3. NamesKept(cli, root)
    BY DEF InstallerInv
  <2>4. Named(cli', root'.current)
    BY <2>1, <2>2, <2>3 DEF NamesKept
  <2>5. Named(cli', r.previous) /\ Named(cli', r.result)
    BY <2>1, <2>2, <2>3 DEF NamesKept
  <2>6. ASSUME NEW j \in Calls  PROVE Named(cli', cli'[j].previous) /\ Named(cli', cli'[j].result)
    BY <1>2, <2>1, <2>3, <2>5 DEF NamesKept
  <2> QED
    BY <2>4, <2>6 DEF NamesKept
<1>5. QueueKept(cli')
  <2>1. QueueKept(cli)
    BY DEF InstallerInv
  <2>2. ASSUME NEW j \in Calls
        PROVE  /\ Installs(cli'[j]) => Installs(cli[j])
               /\ cli'[j].waits = cli[j].waits
               /\ cli[j].at # "new" => cli'[j].at # "new"
    BY <1>2
  <2>3. ASSUME NEW k \in Calls, NEW j \in Calls, k # j, Installs(cli'[k]), Installs(cli'[j]), ProcessOf[k] = ProcessOf[j]
        PROVE  k \in cli'[j].waits \/ j \in cli'[k].waits
    BY <2>1, <2>2, <2>3 DEF QueueKept
  <2>4. ASSUME NEW k \in Calls, NEW j \in Calls, Installs(cli'[k]), cli'[k].at # "queued", Installs(cli'[j])
        PROVE  j \notin cli'[k].waits
    <3>1. Installs(cli[k]) /\ Installs(cli[j]) /\ cli'[k].waits = cli[k].waits
      BY <2>2, <2>4
    <3>2. CASE cli[k].at # "queued"
      BY <2>1, <3>1, <3>2 DEF QueueKept
    <3>3. CASE cli[k].at = "queued"
      BY <1>2, <2>4, <3>1, <3>3
    <3> QED
      BY <3>2, <3>3
  <2>5. ASSUME NEW k \in Calls, NEW j \in Calls, j \in cli'[k].waits  PROVE cli'[j].at # "new"
    BY <2>1, <2>2, <2>5 DEF QueueKept
  <2> QED
    BY <2>3, <2>4, <2>5 DEF QueueKept
<1> QED
  BY <1>2, <1>3, <1>4, <1>5 DEF InstallerInv
\* The fields of a call that a step leaves alone.
Kept(q, r) ==
  /\ r.status = q.status /\ r.waits = q.waits /\ r.previous = q.previous /\ r.result = q.result
  /\ r.activated = q.activated /\ r.invalid = q.invalid

\* A step that changes where a call is, and no name it knows.
LEMMA PhaseGoes ==
  ASSUME InstallerInv, NEW i \in Calls, NEW r \in CallRecords, cli' = [cli EXCEPT ![i] = r], Kept(cli[i], r),
         root' \in RootRecords, CallKept(i, r, root'),
         \A j \in Calls \ {i} : /\ root'.dir[j] = root.dir[j] /\ (j \in root'.staging => j \in root.staging)
                                /\ root'.lock = j => root.lock = j,
         root'.current = root.current, cli[i].at \notin {"new", "ended", "dead"}, r.at # "new",
         Installs(r) /\ r.at # "queued" => cli[i].at # "queued" \/ \A j \in Calls : Installs(cli[j]) => j \notin cli[i].waits
  PROVE  InstallerInv'
<1>1. /\ r.waits = cli[i].waits /\ r.status = cli[i].status /\ r.previous = cli[i].previous /\ r.result = cli[i].result
      /\ cli[i].activated => r.activated
  BY DEF Kept
<1>2. Installs(r) => Installs(cli[i])
  BY <1>1 DEF Installs
<1>3. Installs(r) /\ r.at # "queued" => cli[i].at # "queued" \/ \A j \in Calls : Installs(cli[j]) => j \notin r.waits
  BY <1>1
<1> QED
  BY <1>1, <1>2, <1>3, CallGoes

LEMMA PhaseTyped ==
  ASSUME InstallerInv, NEW i \in Calls, NEW at \in CallPhases
  PROVE  LET r == [cli[i] EXCEPT !.at = at] IN
         /\ r \in CallRecords /\ r.at = at /\ Kept(cli[i], r) /\ r.unclean = cli[i].unclean
         /\ [cli EXCEPT ![i].at = at] = [cli EXCEPT ![i] = r]
<1>1. cli \in [Calls -> CallRecords]
  BY DEF InstallerInv
<1> DEFINE r == [cli[i] EXCEPT !.at = at]
<1>2. r \in CallRecords /\ r.at = at /\ r.unclean = cli[i].unclean
  BY <1>1 DEF CallRecords
<1>3. Kept(cli[i], r)
  BY <1>1 DEF CallRecords, Kept
<1>4. [cli EXCEPT ![i].at = at] = [cli EXCEPT ![i] = r]
  BY <1>1
<1> QED
  BY <1>2, <1>3, <1>4

LEMMA UncleanTyped ==
  ASSUME InstallerInv, NEW i \in Calls, NEW at \in CallPhases, cli' = [cli EXCEPT ![i].at = at, ![i].unclean = TRUE]
  PROVE  \E r \in CallRecords : r.at = at /\ Kept(cli[i], r) /\ r.unclean /\ cli' = [cli EXCEPT ![i] = r]
<1>1. cli \in [Calls -> CallRecords]
  BY DEF InstallerInv
<1> DEFINE r == [cli[i] EXCEPT !.at = at, !.unclean = TRUE]
<1>2. r \in CallRecords /\ r.at = at /\ r.unclean
  <2>1. cli[i] \in CallRecords
    BY <1>1
  <2>2. r \in CallRecords
    BY <2>1 DEF CallRecords
  <2>3. r.at = at
    BY <2>1 DEF CallRecords
  <2>4. r.unclean
    BY <2>1 DEF CallRecords
  <2> QED
    BY <2>2, <2>3, <2>4
<1>3. Kept(cli[i], r)
  BY <1>1 DEF CallRecords, Kept
<1>4. cli' = [cli EXCEPT ![i] = r]
  BY <1>1
<1> HIDE DEF r
<1> QED
  BY <1>2, <1>3, <1>4, Zenon

\* A call of an installation goes to a phase that says no more of the root than
\* the one it leaves.
Ahead(p) ==
  CASE p = "queued" -> {"entered", "ended"}
    [] p = "entered" -> {"ended"}
    [] p = "locked" -> {"unpublish"}
    [] p = "inspecting" -> {"release"}
    [] p = "release" -> {"staging", "unpublish"}
    [] p = "download" -> {"extract", "unpublish"}
    [] p = "extract" -> {"verify", "unpublish"}
    [] p = "verify" -> {"publish", "unpublish"}
    [] p = "publish" -> {"unpublish"}
    [] p = "activate" -> {"unpublish"}
    [] p = "unlock" -> {"unlinking"}
    [] OTHER -> {}

LEMMA MovesKeep ==
  ASSUME InstallerInv, NEW i \in Calls, ~cli[i].status, NEW at \in Ahead(cli[i].at), Moves(i, at), UNCHANGED root,
         at = "entered" => cli[i].waits \cap Underway = {}
  PROVE  InstallerInv'
<1>1. cli[i] \in CallRecords /\ root \in RootRecords /\ CallKept(i, cli[i], root)
  BY DEF InstallerInv
<1>2. at \in CallPhases /\ at \notin {"new", "queued"} /\ cli[i].at \notin {"new", "ended", "dead"}
      /\ (at \notin {"ended"} => cli[i].at # "queued" \/ at = "entered")
  BY <1>1 DEF Ahead, CallPhases, CallRecords
<1> DEFINE r == [cli[i] EXCEPT !.at = at]
<1>3. r \in CallRecords /\ r.at = at /\ Kept(cli[i], r) /\ r.unclean = cli[i].unclean /\ cli' = [cli EXCEPT ![i] = r]
  BY <1>2, PhaseTyped DEF Moves
<1> HIDE DEF r
<1>4. CallKept(i, r, root')
  BY <1>1, <1>3 DEF CallKept, Kept, Ahead, Untouched, Unstaged, Unpublished, Finishing
<1>5. Installs(r) /\ r.at # "queued" => cli[i].at # "queued" \/ \A j \in Calls : Installs(cli[j]) => j \notin cli[i].waits
  BY <1>2, <1>3 DEF Installs, Underway
<1> QED
  BY <1>1, <1>2, <1>3, <1>4, <1>5, PhaseGoes

LEMMA SimpleSteps ==
  ASSUME InstallerInv, NEW i \in Calls,
         \/ LeavesQueue(i) \/ Enters(i) \/ Downloads(i) \/ Extracts(i) \/ Verifies(i)
  PROVE  InstallerInv'
<1>1. cli[i] \in CallRecords /\ CallKept(i, cli[i], root)
  BY DEF InstallerInv
<1>2. ~cli[i].status
  BY <1>1 DEF CallKept, LeavesQueue, Enters, Downloads, Extracts, Verifies
<1>3. CASE LeavesQueue(i)
  BY <1>2, <1>3, MovesKeep DEF LeavesQueue, Ahead
<1>4. CASE Enters(i)
  BY <1>2, <1>4, MovesKeep DEF Enters, Ahead
<1>5. CASE Downloads(i)
  BY <1>2, <1>5, MovesKeep DEF Downloads, Ahead, Breaks
<1>6. CASE Extracts(i)
  BY <1>2, <1>6, MovesKeep DEF Extracts, Ahead, Breaks
<1>7. CASE Verifies(i)
  BY <1>2, <1>7, MovesKeep DEF Verifies, Ahead, Breaks
<1> QED
  BY <1>3, <1>4, <1>5, <1>6, <1>7

LEMMA LockSteps ==
  ASSUME InstallerInv, NEW i \in Calls, TakesLock(i) \/ Identifies(i)
  PROVE  InstallerInv'
<1>1. cli[i] \in CallRecords /\ root \in RootRecords /\ CallKept(i, cli[i], root)
  BY DEF InstallerInv
<1>2. ~cli[i].status
  BY <1>1 DEF CallKept, TakesLock, Identifies
<1>3. CASE TakesLock(i) /\ UNCHANGED root
  <2>1. Moves(i, "ended")
    <3>1. CASE cli[i].aborted \/ root.lock # NoCli
      BY <1>3, <3>1 DEF TakesLock
    <3>2. CASE ~(cli[i].aborted \/ root.lock # NoCli)
      <4>1. root.lock = NoCli /\ root' = [root EXCEPT !.lock = i]
        BY <1>3, <3>2 DEF TakesLock
      <4>2. root'.lock = i
        BY <1>1, <4>1 DEF RootRecords
      <4> QED
        BY <1>3, <4>1, <4>2, CliAssumption DEF NoCli
    <3> QED
      BY <3>1, <3>2
  <2> QED
    BY <1>2, <1>3, <2>1, MovesKeep DEF TakesLock, Ahead
<1>4. CASE TakesLock(i) /\ Moves(i, "locked") /\ root' = [root EXCEPT !.lock = i]
  <2> DEFINE r == [cli[i] EXCEPT !.at = "locked"]
  <2>1. r \in CallRecords /\ r.at = "locked" /\ Kept(cli[i], r) /\ r.unclean = cli[i].unclean /\ cli' = [cli EXCEPT ![i] = r]
    BY <1>4, PhaseTyped DEF Moves, CallPhases
  <2>2. /\ root' \in RootRecords /\ root'.dir = root.dir /\ root'.staging = root.staging /\ root'.current = root.current
        /\ root'.lock = i
    BY <1>1, <1>4 DEF RootRecords
  <2>3. cli[i].at = "entered"
    BY <1>4 DEF TakesLock
  <2> HIDE DEF r
  <2>4. CallKept(i, r, root')
    BY <1>1, <1>2, <2>1, <2>2, <2>3 DEF CallKept, Kept, Untouched, Unstaged, Unpublished, Finishing
  <2> QED
    BY <2>1, <2>2, <2>3, <2>4, PhaseGoes
<1>5. CASE Identifies(i)
  <2>1. CASE Moves(i, "unpublish")
    BY <1>2, <1>5, <2>1, MovesKeep DEF Identifies, Ahead
  <2>2. CASE cli' = [cli EXCEPT ![i].at = "previous", ![i].identified = TRUE]
    <3> DEFINE r == [cli[i] EXCEPT !.at = "previous", !.identified = TRUE]
    <3>1. r \in CallRecords /\ r.at = "previous" /\ Kept(cli[i], r) /\ r.unclean = cli[i].unclean
      BY <1>1 DEF CallRecords, CallPhases, Kept
    <3>2. cli' = [cli EXCEPT ![i] = r]
      BY <2>2 DEF InstallerInv
    <3>3. cli[i].at = "locked" /\ UNCHANGED root
      BY <1>5 DEF Identifies
    <3> HIDE DEF r
    <3>4. CallKept(i, r, root')
      BY <1>1, <1>2, <3>1, <3>3 DEF CallKept, Kept, Untouched, Unstaged, Unpublished, Finishing
    <3> QED
      BY <1>1, <3>1, <3>2, <3>3, <3>4, PhaseGoes
  <2> QED
    BY <1>5, <2>1, <2>2 DEF Identifies
<1> QED
  BY <1>3, <1>4, <1>5 DEF TakesLock

LEMMA AbortKeeps ==
  ASSUME InstallerInv, NEW i \in Calls, Aborts(i)
  PROVE  InstallerInv'
<1> DEFINE r == [cli[i] EXCEPT !.aborted = TRUE]
<1>1. cli[i] \in CallRecords /\ root \in RootRecords /\ CallKept(i, cli[i], root)
  BY DEF InstallerInv
<1>2. r \in CallRecords /\ r.at = cli[i].at /\ r.unclean = cli[i].unclean
  BY <1>1 DEF CallRecords
<1>3. Kept(cli[i], r)
  BY <1>1 DEF CallRecords, Kept
<1>4. cli' = [cli EXCEPT ![i] = r] /\ UNCHANGED root /\ cli[i].at \notin {"new", "ended", "dead"}
  BY DEF Aborts, InstallerInv, Underway
<1> HIDE DEF r
<1>5. CallKept(i, r, root')
  BY <1>1, <1>2, <1>3, <1>4 DEF CallKept, Kept, Untouched, Unstaged, Unpublished, Finishing
<1> QED
  BY <1>1, <1>2, <1>3, <1>4, <1>5, PhaseGoes

\* What a call has read was activated, and stays whole: no read finds it broken.
LEMMA ReadSteps ==
  ASSUME InstallerInv, NEW i \in Calls, ReadsManifest(i) \/ Inspects(i)
  PROVE  InstallerInv'
<1>1. /\ cli \in [Calls -> CallRecords] /\ cli[i] \in CallRecords /\ root \in RootRecords /\ CallKept(i, cli[i], root)
      /\ NamesKept(cli, root) /\ UNCHANGED root
  BY DEF InstallerInv, ReadsManifest, Inspects
<1>2. cli[i].at \in {"previous", "inspecting"}
  BY DEF ReadsManifest, Inspects
<1> DEFINE on == IF cli[i].status THEN "ended" ELSE "unpublish"
<1>3. ASSUME Fails(i, FALSE)  PROVE InstallerInv'
  <2> DEFINE r == [cli[i] EXCEPT !.at = on, !.invalid = FALSE]
  <2>1. r \in CallRecords /\ r.at = on /\ r.unclean = cli[i].unclean
    BY <1>1 DEF CallRecords, CallPhases
  <2>2. Kept(cli[i], r)
    BY <1>1 DEF CallRecords, Kept, CallKept
  <2>3. cli' = [cli EXCEPT ![i] = r]
    BY <1>1, <1>3 DEF Fails
  <2> HIDE DEF r
  <2>4. CallKept(i, r, root')
    BY <1>1, <1>2, <2>1, <2>2 DEF CallKept, Kept, Untouched, Unstaged, Unpublished, Finishing
  <2> QED
    BY <1>1, <1>2, <2>1, <2>2, <2>3, <2>4, PhaseGoes
<1>4. CASE ReadsManifest(i) /\ ~cli[i].aborted
  <2> DEFINE at == IF root.current # NoCli THEN "inspecting" ELSE IF cli[i].status THEN "ended" ELSE "release"
             r == [cli[i] EXCEPT !.previous = root.current, !.at = at]
  <2>1. r \in CallRecords /\ r.at = at /\ r.unclean = cli[i].unclean /\ r.previous = root.current
    BY <1>1 DEF CallRecords, CallPhases, RootRecords
  <2>2. /\ r.status = cli[i].status /\ r.waits = cli[i].waits /\ r.result = cli[i].result
        /\ r.activated = cli[i].activated /\ r.invalid = cli[i].invalid
    BY <1>1 DEF CallRecords
  <2>3. cli' = [cli EXCEPT ![i] = r]
    BY <1>1, <1>4 DEF ReadsManifest, Manifest
  <2>4. cli[i].at = "previous" /\ Named(cli, r.previous)
    BY <1>1, <1>4, <2>1 DEF ReadsManifest, NamesKept
  <2> HIDE DEF r
  <2>5. CallKept(i, r, root')
    BY <1>1, <2>1, <2>2, <2>4 DEF CallKept, Untouched, Unstaged, Unpublished, Finishing
  <2>6. Installs(r) => Installs(cli[i])
    BY <2>2, <2>4 DEF Installs
  <2> QED
    BY <1>1, <2>1, <2>2, <2>3, <2>4, <2>5, <2>6, CallGoes
<1>5. CASE Inspects(i) /\ ~cli[i].aborted
  <2>1. CASE root.dir[cli[i].previous] # "whole"
    <3>1. PICK p \in Calls : p = cli[i].previous /\ cli[p].activated
      BY <1>1, <1>5 DEF NamesKept, Named, CallKept, Inspects
    <3>2. CallKept(p, cli[p], root)
      BY DEF InstallerInv
    <3> QED
      BY <2>1, <3>1, <3>2 DEF CallKept
  <2>2. CASE root.dir[cli[i].previous] = "whole" /\ cli[i].status
    <3> DEFINE r == [cli[i] EXCEPT !.at = "ended", !.result = cli[i].previous]
    <3>1. r \in CallRecords /\ r.at = "ended" /\ r.unclean = cli[i].unclean /\ r.result = cli[i].previous
      BY <1>1 DEF CallRecords, CallPhases
    <3>2. /\ r.status = cli[i].status /\ r.waits = cli[i].waits /\ r.previous = cli[i].previous
          /\ r.activated = cli[i].activated /\ r.invalid = cli[i].invalid
      BY <1>1 DEF CallRecords
    <3>3. cli' = [cli EXCEPT ![i] = r]
      BY <1>1, <1>5, <2>2 DEF Inspects
    <3> HIDE DEF r
    <3>4. CallKept(i, r, root') /\ Named(cli, r.result) /\ ~Installs(r)
      BY <1>1, <1>2, <2>2, <3>1, <3>2 DEF CallKept, Untouched, Unstaged, Unpublished, Finishing, NamesKept, Installs
    <3> QED
      BY <1>1, <1>2, <3>1, <3>2, <3>3, <3>4, CallGoes
  <2>3. CASE root.dir[cli[i].previous] = "whole" /\ ~cli[i].status
    BY <1>1, <1>5, <2>3, MovesKeep DEF Inspects, Ahead
  <2> QED
    BY <2>1, <2>2, <2>3
<1> QED
  BY <1>3, <1>4, <1>5 DEF ReadsManifest, Inspects
LEMMA ReleaseStep ==
  ASSUME InstallerInv, NEW i \in Calls, ReadsRelease(i)
  PROVE  InstallerInv'
<1>1. /\ cli \in [Calls -> CallRecords] /\ cli[i] \in CallRecords /\ root \in RootRecords /\ CallKept(i, cli[i], root)
      /\ NamesKept(cli, root) /\ UNCHANGED root
  BY DEF InstallerInv, ReadsRelease
<1>2. cli[i].at = "release" /\ ~cli[i].status
  BY <1>1 DEF ReadsRelease, CallKept
<1>3. CASE Moves(i, "staging") \/ Moves(i, "unpublish")
  BY <1>1, <1>2, <1>3, MovesKeep DEF Ahead
<1>4. CASE cli' = [cli EXCEPT ![i].at = "unpublish", ![i].result = cli[i].previous]
  <2> DEFINE r == [cli[i] EXCEPT !.at = "unpublish", !.result = cli[i].previous]
  <2>1. r \in CallRecords /\ r.at = "unpublish" /\ r.unclean = cli[i].unclean /\ r.result = cli[i].previous
    BY <1>1 DEF CallRecords, CallPhases
  <2>2. /\ r.status = cli[i].status /\ r.waits = cli[i].waits /\ r.previous = cli[i].previous
        /\ r.activated = cli[i].activated /\ r.invalid = cli[i].invalid
    BY <1>1 DEF CallRecords
  <2>3. cli' = [cli EXCEPT ![i] = r]
    BY <1>1, <1>4
  <2> HIDE DEF r
  <2>4. CallKept(i, r, root') /\ Named(cli, r.result) /\ (Installs(r) => Installs(cli[i]))
    BY <1>1, <1>2, <2>1, <2>2 DEF CallKept, Untouched, Unstaged, Unpublished, Finishing, NamesKept, Installs
  <2> QED
    BY <1>1, <1>2, <2>1, <2>2, <2>3, <2>4, CallGoes
<1> QED
  BY <1>3, <1>4 DEF ReadsRelease

LEMMA StageStep ==
  ASSUME InstallerInv, NEW i \in Calls, Stages(i)
  PROVE  InstallerInv'
<1>1. cli[i] \in CallRecords /\ root \in RootRecords /\ CallKept(i, cli[i], root) /\ cli[i].at = "staging" /\ ~cli[i].status
  BY DEF InstallerInv, Stages, CallKept
<1> DEFINE r == [cli[i] EXCEPT !.at = "download"]
<1>2. r \in CallRecords /\ r.at = "download" /\ Kept(cli[i], r) /\ r.unclean = cli[i].unclean /\ cli' = [cli EXCEPT ![i] = r]
  BY PhaseTyped DEF Stages, Moves, CallPhases
<1>3. root' = [root EXCEPT !.staging = root.staging \cup {i}]
  BY DEF Stages
<1>4. /\ root' \in RootRecords /\ root'.dir = root.dir /\ root'.staging = root.staging \cup {i} /\ root'.current = root.current
      /\ root'.lock = root.lock
  BY <1>1, <1>3 DEF RootRecords
<1> HIDE DEF r
<1>5. CallKept(i, r, root')
  BY <1>1, <1>2, <1>4 DEF CallKept, Kept, Untouched, Unstaged, Unpublished, Finishing
<1> QED
  BY <1>1, <1>2, <1>4, <1>5, PhaseGoes

LEMMA PublishStep ==
  ASSUME InstallerInv, NEW i \in Calls, Publishes(i)
  PROVE  InstallerInv'
<1>1. cli[i] \in CallRecords /\ root \in RootRecords /\ CallKept(i, cli[i], root) /\ cli[i].at = "publish" /\ ~cli[i].status
  BY DEF InstallerInv, Publishes, CallKept
<1>2. CASE Breaks(i)
  BY <1>1, <1>2, MovesKeep DEF Ahead, Breaks
<1>3. CASE Moves(i, "activate") /\ root' = [root EXCEPT !.dir[i] = "whole"]
  <2> DEFINE r == [cli[i] EXCEPT !.at = "activate"]
  <2>1. r \in CallRecords /\ r.at = "activate" /\ Kept(cli[i], r) /\ r.unclean = cli[i].unclean /\ cli' = [cli EXCEPT ![i] = r]
    BY <1>3, PhaseTyped DEF Moves, CallPhases
  <2>2. /\ root' \in RootRecords /\ root'.dir[i] = "whole" /\ (\A j \in Calls \ {i} : root'.dir[j] = root.dir[j])
        /\ root'.staging = root.staging /\ root'.current = root.current /\ root'.lock = root.lock
    BY <1>1, <1>3 DEF RootRecords
  <2> HIDE DEF r
  <2>3. CallKept(i, r, root')
    BY <1>1, <2>1, <2>2 DEF CallKept, Kept, Untouched, Unstaged, Unpublished, Finishing
  <2> QED
    BY <1>1, <2>1, <2>2, <2>3, PhaseGoes
<1> QED
  BY <1>2, <1>3 DEF Publishes

LEMMA ActivateStep ==
  ASSUME InstallerInv, NEW i \in Calls, Activates(i)
  PROVE  InstallerInv'
<1>1. /\ cli \in [Calls -> CallRecords] /\ cli[i] \in CallRecords /\ root \in RootRecords /\ CallKept(i, cli[i], root)
      /\ cli[i].at = "activate" /\ ~cli[i].status
  BY DEF InstallerInv, Activates, CallKept
<1>2. CASE Breaks(i)
  BY <1>1, <1>2, MovesKeep DEF Ahead, Breaks
<1>3. CASE /\ cli' = [cli EXCEPT ![i].at = "unpublish", ![i].activated = TRUE, ![i].result = i]
           /\ root' = [root EXCEPT !.current = i]
  <2> DEFINE r == [cli[i] EXCEPT !.at = "unpublish", !.activated = TRUE, !.result = i]
  <2>1. r \in CallRecords /\ r.at = "unpublish" /\ r.unclean = cli[i].unclean /\ r.result = i
    BY <1>1 DEF CallRecords, CallPhases
  <2>2. r.activated
    BY <1>1 DEF CallRecords
  <2>3. /\ r.status = cli[i].status /\ r.waits = cli[i].waits /\ r.previous = cli[i].previous /\ r.invalid = cli[i].invalid
    BY <1>1 DEF CallRecords
  <2>4. cli' = [cli EXCEPT ![i] = r]
    BY <1>1, <1>3
  <2>5. /\ root' \in RootRecords /\ root'.dir = root.dir /\ root'.staging = root.staging /\ root'.current = i
        /\ root'.lock = root.lock
    BY <1>1, <1>3 DEF RootRecords
  <2> HIDE DEF r
  <2>6. CallKept(i, r, root') /\ (Installs(r) => Installs(cli[i]))
    BY <1>1, <2>1, <2>2, <2>3, <2>5 DEF CallKept, Untouched, Unstaged, Unpublished, Finishing, Installs
  <2> QED
    BY <1>1, <2>1, <2>2, <2>3, <2>4, <2>5, <2>6, CallGoes
<1> QED
  BY <1>2, <1>3 DEF Activates

\* The finally block.
LEMMA UnpublishStep ==
  ASSUME InstallerInv, NEW i \in Calls, Unpublishes(i)
  PROVE  InstallerInv'
<1>1. cli[i] \in CallRecords /\ root \in RootRecords /\ CallKept(i, cli[i], root) /\ cli[i].at = "unpublish" /\ ~cli[i].status
  BY DEF InstallerInv, Unpublishes, CallKept
<1>2. ASSUME NEW r \in CallRecords, r.at = "unstage", Kept(cli[i], r), cli' = [cli EXCEPT ![i] = r],
             \/ UNCHANGED root /\ (root.dir[i] = "absent" \/ cli[i].activated \/ r.unclean)
             \/ ~cli[i].activated /\ root' = [root EXCEPT !.dir[i] = "absent"]
             \/ ~cli[i].activated /\ r.unclean /\ \E rest \in {"whole", "partial"} : root' = [root EXCEPT !.dir[i] = rest]
      PROVE  InstallerInv'
  <2>1. /\ root' \in RootRecords /\ (\A j \in Calls \ {i} : root'.dir[j] = root.dir[j])
        /\ root'.staging = root.staging /\ root'.current = root.current /\ root'.lock = root.lock
        /\ \/ root'.dir[i] = root.dir[i] /\ (root.dir[i] = "absent" \/ cli[i].activated \/ r.unclean)
           \/ ~cli[i].activated /\ (root'.dir[i] = "absent" \/ r.unclean)
    BY <1>1, <1>2 DEF RootRecords
  <2>2. CallKept(i, r, root')
    BY <1>1, <1>2, <2>1 DEF CallKept, Kept, Untouched, Unstaged, Unpublished, Finishing
  <2> QED
    BY <1>1, <1>2, <2>1, <2>2, PhaseGoes
<1>3. CASE Moves(i, "unstage") /\ (root.dir[i] = "absent" \/ cli[i].activated) /\ UNCHANGED root
  <2>1. PICK r \in CallRecords : r.at = "unstage" /\ Kept(cli[i], r) /\ cli' = [cli EXCEPT ![i] = r]
    BY <1>3, PhaseTyped DEF Moves, CallPhases
  <2> QED
    BY <1>2, <1>3, <2>1
<1>4. CASE Moves(i, "unstage") /\ ~cli[i].activated /\ root' = [root EXCEPT !.dir[i] = "absent"]
  <2>1. PICK r \in CallRecords : r.at = "unstage" /\ Kept(cli[i], r) /\ cli' = [cli EXCEPT ![i] = r]
    BY <1>4, PhaseTyped DEF Moves, CallPhases
  <2> QED
    BY <1>2, <1>4, <2>1
<1>5. CASE /\ ~cli[i].activated /\ cli' = [cli EXCEPT ![i].at = "unstage", ![i].unclean = TRUE]
           /\ \E rest \in {"whole", "partial"} : root' = [root EXCEPT !.dir[i] = rest]
  <2>0. "unstage" \in CallPhases
    BY DEF CallPhases
  <2>1. PICK r \in CallRecords : r.at = "unstage" /\ Kept(cli[i], r) /\ r.unclean /\ cli' = [cli EXCEPT ![i] = r]
    BY <1>5, <2>0, UncleanTyped, Zenon
  <2> QED
    BY <1>2, <1>5, <2>1
<1> QED
  BY <1>3, <1>4, <1>5 DEF Unpublishes

LEMMA CleanSteps ==
  ASSUME InstallerInv, NEW i \in Calls, Unstages(i) \/ ChecksLock(i) \/ Unlinks(i)
  PROVE  InstallerInv'
<1>1. /\ cli[i] \in CallRecords /\ root \in RootRecords /\ CallKept(i, cli[i], root)
      /\ cli[i].at \in {"unstage", "unlock", "unlinking"} /\ ~cli[i].status
  BY DEF InstallerInv, Unstages, ChecksLock, Unlinks, CallKept
<1>2. ASSUME NEW at \in {"unlock", "ended"}, cli' = [cli EXCEPT ![i].at = at, ![i].unclean = TRUE], UNCHANGED root
      PROVE  InstallerInv'
  <2>0. at \in CallPhases
    BY DEF CallPhases
  <2>1. PICK r \in CallRecords : r.at = at /\ Kept(cli[i], r) /\ r.unclean /\ cli' = [cli EXCEPT ![i] = r]
    BY <1>2, <2>0, UncleanTyped, Zenon
  <2>2. CallKept(i, r, root')
    BY <1>1, <1>2, <2>1 DEF CallKept, Kept, Untouched, Unstaged, Unpublished, Finishing
  <2> QED
    BY <1>1, <1>2, <2>1, <2>2, PhaseGoes
<1>3. CASE Unstages(i) /\ Moves(i, "unlock") /\ root' = [root EXCEPT !.staging = @ \ {i}]
  <2>1. PICK r \in CallRecords : /\ r.at = "unlock" /\ Kept(cli[i], r) /\ cli' = [cli EXCEPT ![i] = r]
                                 /\ r.unclean = cli[i].unclean
    BY <1>3, PhaseTyped DEF Moves, CallPhases
  <2>2. /\ root' \in RootRecords /\ root'.dir = root.dir /\ root'.staging = root.staging \ {i} /\ root'.current = root.current
        /\ root'.lock = root.lock
    BY <1>1, <1>3 DEF RootRecords
  <2>3. cli[i].at = "unstage"
    BY <1>3 DEF Unstages
  <2>4. CallKept(i, r, root')
    BY <1>1, <2>1, <2>2, <2>3 DEF CallKept, Kept, Untouched, Unstaged, Unpublished, Finishing
  <2> QED
    BY <1>1, <2>1, <2>2, <2>4, PhaseGoes
<1>4. CASE ChecksLock(i)
  <2>1. CASE cli' = [cli EXCEPT ![i].at = "unlinking"]
    BY <1>1, <1>4, <2>1, MovesKeep DEF ChecksLock, Ahead, Moves
  <2>2. CASE cli' = [cli EXCEPT ![i].at = "ended", ![i].unclean = TRUE]
    BY <1>2, <1>4, <2>2 DEF ChecksLock
  <2> QED
    BY <1>4, <2>1, <2>2 DEF ChecksLock
<1>5. CASE Unlinks(i) /\ Moves(i, "ended") /\ root' = [root EXCEPT !.lock = NoCli]
  <2>1. PICK r \in CallRecords : /\ r.at = "ended" /\ Kept(cli[i], r) /\ cli' = [cli EXCEPT ![i] = r]
                                 /\ r.unclean = cli[i].unclean
    BY <1>5, PhaseTyped DEF Moves, CallPhases
  <2>2. /\ root' \in RootRecords /\ root'.dir = root.dir /\ root'.staging = root.staging /\ root'.current = root.current
        /\ root'.lock = NoCli
    BY <1>1, <1>5 DEF RootRecords
  <2>3. cli[i].at = "unlinking" /\ (\A j \in Calls : NoCli # j)
    BY <1>5, CliAssumption DEF Unlinks, NoCli
  <2>4. CallKept(i, r, root')
    BY <1>1, <2>1, <2>2, <2>3 DEF CallKept, Kept, Untouched, Unstaged, Unpublished, Finishing
  <2> QED
    BY <1>1, <2>1, <2>2, <2>3, <2>4, PhaseGoes
<1> QED
  BY <1>2, <1>3, <1>4, <1>5 DEF Unstages, Unlinks

\* A call begins: it waits for those of its process that are under way, and no
\* other waits for it.
LEMMA CallBegins ==
  ASSUME InstallerInv, NEW i \in Calls, cli[i].at = "new", NEW r \in CallRecords, cli' = [cli EXCEPT ![i] = r], UNCHANGED root,
         CallKept(i, r, root), r.previous = NoCli, r.result = NoCli, r.at # "new",
         \/ r.status /\ r.waits = {}
         \/ r.at = "queued" /\ r.waits = Previous(i)
  PROVE  InstallerInv'
<1>1. /\ cli \in [Calls -> CallRecords] /\ root \in RootRecords /\ CallKept(i, cli[i], root)
      /\ NamesKept(cli, root) /\ QueueKept(cli)
  BY DEF InstallerInv
<1>2. cli' \in [Calls -> CallRecords] /\ \A j \in Calls : cli'[j] = IF j = i THEN r ELSE cli[j]
  BY <1>1
<1>3. \A j \in Calls : CallKept(j, cli'[j], root')
  BY <1>2 DEF InstallerInv
<1>4. ~cli[i].activated
  BY <1>1 DEF CallKept, Finishing
<1>5. NamesKept(cli', root')
  BY <1>1, <1>2, <1>4 DEF NamesKept, Named
<1>6. \A j \in Calls : Installs(cli[j]) /\ ProcessOf[j] = ProcessOf[i] => j \in Previous(i)
  BY DEF Previous, Underway, Installs
<1>7. \A j \in Previous(i) : j \in Calls /\ j # i /\ cli[j].at # "new"
  BY DEF Previous, Underway
<1>8. QueueKept(cli')
  <2>1. ASSUME NEW k \in Calls, NEW j \in Calls, k # j, Installs(cli'[k]), Installs(cli'[j]), ProcessOf[k] = ProcessOf[j]
        PROVE  k \in cli'[j].waits \/ j \in cli'[k].waits
    BY <1>1, <1>2, <1>6, <2>1 DEF QueueKept, Installs
  <2>2. ASSUME NEW k \in Calls, NEW j \in Calls, Installs(cli'[k]), cli'[k].at # "queued", Installs(cli'[j])
        PROVE  j \notin cli'[k].waits
    BY <1>1, <1>2, <2>2 DEF QueueKept, Installs
  <2>3. ASSUME NEW k \in Calls, NEW j \in Calls, j \in cli'[k].waits  PROVE cli'[j].at # "new"
    BY <1>1, <1>2, <1>7, <2>3 DEF QueueKept
  <2> QED
    BY <2>1, <2>2, <2>3 DEF QueueKept
<1> QED
  BY <1>1, <1>2, <1>3, <1>5, <1>8 DEF InstallerInv

LEMMA BeginSteps ==
  ASSUME InstallerInv, NEW i \in Calls, FindInstalled(i) \/ \E v \in Versions : Install(i, v)
  PROVE  InstallerInv'
<1>1. CallKept(i, cli[i], root) /\ cli[i].at = "new" /\ UNCHANGED root
  BY DEF InstallerInv, FindInstalled, Install
<1>2. NoCall \in CallRecords /\ Previous(i) \subseteq Calls
  BY DEF NoCall, CallRecords, CallPhases, Previous, Underway
<1>3. CASE FindInstalled(i)
  <2> DEFINE r == [NoCall EXCEPT !.at = "previous", !.status = TRUE]
  <2>1. r \in CallRecords /\ r.at = "previous" /\ r.previous = NoCli /\ r.result = NoCli /\ r.waits = {}
    BY DEF NoCall, CallRecords, CallPhases
  <2>2. r.status /\ ~r.activated /\ ~r.invalid
    BY DEF NoCall
  <2>3. cli' = [cli EXCEPT ![i] = r]
    BY <1>3 DEF FindInstalled
  <2> HIDE DEF r
  <2>4. CallKept(i, r, root)
    BY <1>1, <2>1, <2>2 DEF CallKept, Untouched, Unstaged, Unpublished, Finishing
  <2> QED
    BY <1>1, <2>1, <2>2, <2>3, <2>4, CallBegins
<1>4. ASSUME NEW v \in Versions, Install(i, v)  PROVE InstallerInv'
  <2> DEFINE r == [NoCall EXCEPT !.at = "queued", !.version = v, !.waits = Previous(i)]
  <2>1. r \in CallRecords /\ r.at = "queued" /\ r.previous = NoCli /\ r.result = NoCli /\ r.waits = Previous(i)
    BY <1>2 DEF NoCall, CallRecords, CallPhases
  <2>2. ~r.status /\ ~r.activated /\ ~r.invalid
    BY DEF NoCall
  <2>3. cli' = [cli EXCEPT ![i] = r]
    BY <1>4 DEF Install
  <2> HIDE DEF r
  <2>4. CallKept(i, r, root)
    BY <1>1, <2>1, <2>2 DEF CallKept, Untouched, Unstaged, Unpublished, Finishing
  <2> QED
    BY <1>1, <2>1, <2>2, <2>3, <2>4, CallBegins
<1> QED
  BY <1>3, <1>4

\* A process dies, or the user removes the lock file.
LEMMA DeathKeeps ==
  ASSUME InstallerInv, NEW p, Dies(p)
  PROVE  InstallerInv'
<1>1. /\ cli \in [Calls -> CallRecords] /\ root \in RootRecords /\ UNCHANGED root /\ NamesKept(cli, root) /\ QueueKept(cli)
  BY DEF InstallerInv, Dies
<1>2. ASSUME NEW i \in Calls
      PROVE  LET r == [cli[i] EXCEPT !.at = "dead"] IN
             r \in CallRecords /\ r.at = "dead" /\ Kept(cli[i], r) /\ r.unclean = cli[i].unclean
  <2>1. cli[i] \in CallRecords
    BY <1>1
  <2> QED
    BY <2>1 DEF CallRecords, CallPhases, Kept
<1>3. \A i \in Calls : /\ cli'[i] \in CallRecords /\ Kept(cli[i], cli'[i]) /\ cli'[i].unclean = cli[i].unclean
                       /\ cli'[i] = cli[i] \/ (cli'[i].at = "dead" /\ i \in Underway)
  BY <1>1, <1>2 DEF Dies, Kept
<1>4. cli' \in [Calls -> CallRecords]
  BY <1>3 DEF Dies
<1>5. ASSUME NEW i \in Calls  PROVE CallKept(i, cli'[i], root')
  <2>1. CallKept(i, cli[i], root)
    BY DEF InstallerInv
  <2>2. CASE cli'[i] = cli[i]
    BY <1>1, <2>1, <2>2
  <2>3. CASE cli'[i].at = "dead"
    BY <1>1, <1>3, <2>1, <2>3 DEF CallKept, Kept, Untouched, Unstaged, Unpublished, Finishing
  <2> QED
    BY <1>3, <2>2, <2>3
<1>6. NamesKept(cli', root')
  BY <1>1, <1>3 DEF NamesKept, Named, Kept
<1>7. QueueKept(cli')
  <2>1. ASSUME NEW i \in Calls
        PROVE  /\ Installs(cli'[i]) => cli'[i] = cli[i]
               /\ cli'[i].waits = cli[i].waits
               /\ cli[i].at # "new" => cli'[i].at # "new"
    BY <1>3 DEF Installs, Kept, Underway
  <2> QED
    BY <1>1, <2>1 DEF QueueKept
<1> QED
  BY <1>1, <1>4, <1>5, <1>6, <1>7 DEF InstallerInv

LEMMA UnlockKeeps ==
  ASSUME InstallerInv, UserUnlocks
  PROVE  InstallerInv'
<1>1. root \in RootRecords /\ root' = [root EXCEPT !.lock = NoCli] /\ UNCHANGED cli /\ (\A j \in Calls : NoCli # j)
  BY CliAssumption DEF InstallerInv, UserUnlocks, NoCli
<1>2. /\ root' \in RootRecords /\ root'.dir = root.dir /\ root'.staging = root.staging /\ root'.current = root.current
      /\ root'.lock = NoCli
  BY <1>1 DEF RootRecords
<1>3. ASSUME NEW i \in Calls  PROVE CallKept(i, cli'[i], root')
  <2>1. CallKept(i, cli[i], root)
    BY DEF InstallerInv
  <2> QED
    BY <1>1, <1>2, <2>1, OthersKept
<1>4. NamesKept(cli', root') /\ QueueKept(cli') /\ cli' \in [Calls -> CallRecords]
  BY <1>1, <1>2 DEF InstallerInv, NamesKept
<1> QED
  BY <1>2, <1>3, <1>4 DEF InstallerInv

\* However calls are aborted, fail, die with their process or are robbed of
\* their lock: what is installed is whole and stays, no two calls of a process
\* install at the same time, and a call that says it is clean left nothing.
THEOREM InstalledSafely == CliSpec => []InstallerSound
<1>1. InstallerInv /\ [CliNext]_cliVars => InstallerInv'
  <2> SUFFICES ASSUME InstallerInv, [CliNext]_cliVars  PROVE InstallerInv'
    OBVIOUS
  <2>1. CASE UNCHANGED cliVars
    <3>1. UNCHANGED <<cli, root>>
      BY <2>1 DEF cliVars
    <3> QED
      BY <3>1 DEF InstallerInv, CallKept, NamesKept, Named, QueueKept, Installs
  <2>2. CASE UserUnlocks
    BY <2>2, UnlockKeeps
  <2>3. ASSUME NEW i \in Calls, Dies(ProcessOf[i])  PROVE InstallerInv'
    BY <2>3, DeathKeeps
  <2>4. ASSUME NEW i \in Calls, FindInstalled(i) \/ Aborts(i) \/ \E v \in Versions : Install(i, v)
        PROVE  InstallerInv'
    BY <2>4, BeginSteps, AbortKeeps
  <2>5. ASSUME NEW i \in Calls, LeavesQueue(i) \/ Enters(i) \/ Downloads(i) \/ Extracts(i) \/ Verifies(i)
        PROVE  InstallerInv'
    BY <2>5, SimpleSteps
  <2>6. ASSUME NEW i \in Calls, TakesLock(i) \/ Identifies(i) \/ ReadsManifest(i) \/ Inspects(i)
        PROVE  InstallerInv'
    BY <2>6, LockSteps, ReadSteps
  <2>7. ASSUME NEW i \in Calls, ReadsRelease(i) \/ Stages(i) \/ Publishes(i) \/ Activates(i)
        PROVE  InstallerInv'
    BY <2>7, ReleaseStep, StageStep, PublishStep, ActivateStep
  <2>8. ASSUME NEW i \in Calls, Unpublishes(i) \/ Unstages(i) \/ ChecksLock(i) \/ Unlinks(i)
        PROVE  InstallerInv'
    BY <2>8, UnpublishStep, CleanSteps
  <2> QED
    BY <2>1, <2>2, <2>3, <2>4, <2>5, <2>6, <2>7, <2>8 DEF CliNext
<1>2. InstallerInv => InstallerSound
  <2> SUFFICES ASSUME InstallerInv  PROVE InstallerSound
    OBVIOUS
  <2>1. /\ \A i \in Calls : CallKept(i, cli[i], root)
        /\ NamesKept(cli, root) /\ QueueKept(cli)
    BY DEF InstallerInv
  <2>2. \A n : Named(cli, n) /\ n # NoCli => root.dir[n] = "whole"
    BY <2>1 DEF Named, CallKept
  <2>3. InstalledIsWhole
    BY <2>1, <2>2 DEF InstalledIsWhole, NamesKept, CallKept
  <2>4. OneInstallation
    BY <2>1 DEF OneInstallation, QueueKept, Installs, Underway
  <2>5. EndsClean
    BY <2>1 DEF EndsClean, CallKept, Finishing
  <2> QED
    BY <2>3, <2>4, <2>5 DEF InstallerSound
<1> QED
  BY InstallerInvInit, <1>1, <1>2, PTL DEF CliSpec

----------------------------------------------------------------------------
(* WindowNodeTaskExecutor *)

\* The start is under way; it needs a turn.
Starting == {"checking", "queued", "preparing", "starting"}
Turn == {"queued", "preparing", "starting"}

\* What a record holds at each phase of startCore: nothing is started, stopped or
\* published before the agent is, and a start that failed is kept only for a reason.
StartKept(r) ==
  /\ r.phase = "none" \/ r.phase \in Starting =>
       /\ ~r.active /\ ~r.terminal /\ ~r.unclean /\ ~r.scoped /\ r.pump = "none" /\ r.cancelH = "no" /\ r.disposeH = "no"
  /\ r.phase = "none" => r.cancelOp = "none"
  /\ ~r.asked => r.phase = "none" /\ r.agent # "working" /\ r.published = <<>>
  /\ r.phase \in Starting =>
       /\ r.agent # "working" /\ r.published = <<>>
       /\ r.cancelOp \in {"none", "waiting", "scoped", "failed"}
       /\ r.phase = "starting" \/ r.cancelOp \in {"none", "waiting"}
  /\ r.phase \in {"cleaning", "announcing"} =>
       /\ r.active /\ r.published = <<>> /\ r.cancelOp \notin {"stopping", "publishing", "done"}
  /\ r.phase = "announcing" => r.agent # "working" /\ r.cancelOp # "none"
  /\ r.phase \in {"cleaning", "announcing", "rejected"} => r.pump = "none"
  /\ r.phase = "rejected" => r.cancelOp # "none" \/ r.active
  /\ r.unclean => r.phase = "rejected"
  /\ r.phase = "started" => r.pump # "none" /\ (r.pump = "done" \/ (r.active /\ r.cancelOp = "none"))

\* The pump is the only one to publish until it has, and a cancellation it read is over.
PumpKept(r) ==
  /\ r.pump \in {"reading", "publishing", "failing"} => r.published = <<>>
  /\ r.pump = "publishing" => r.out \in Kinds /\ (r.out = "cancelled" => r.agent # "working")

\* A stop that was confirmed has stopped the agent, and an agent at work is known.
CancelKept(r) ==
  /\ r.cancelOp = "publishing" => r.agent # "working" /\ r.published = <<>>
  /\ r.cancelOp \in {"stopping", "publishing", "done"} => r.phase \in {"started", "rejected"}
  /\ r.cancelH = "yes" \/ r.disposeH = "yes" \/ r.scoped => r.agent # "working"
  /\ r.agent = "working" => r.active \/ r.unclean \/ r.phase = "none"

\* At most one end is published, and nobody may publish after it.
EndKept(r) ==
  /\ Len(r.published) <= 1
  /\ r.published = <<"cancelled">> => r.agent # "working"
  /\ r.published # <<>> => r.phase = "none" \/ r.told \/ (r.phase = "started" /\ r.terminal /\ r.cancelOp = "none")

RecordKept(r) == StartKept(r) /\ PumpKept(r) /\ CancelKept(r) /\ EndKept(r)

\* The turns are those of the starts that need one, once each, and the first is
\* that of the start that prepares the runtime or waits for it.
GateKept ==
  /\ \A i \in 1..Len(gate) : rec[gate[i]].phase \in Turn
  /\ \A i, j \in 1..Len(gate) : i # j => gate[i] # gate[j]
  /\ \A t \in Executions : rec[t].phase \in Turn => \E i \in 1..Len(gate) : gate[i] = t
  /\ \A t \in Executions : rec[t].phase \in {"preparing", "starting"} => gate[1] = t

\* What a disposal has settled stays settled.
DisposalSound ==
  /\ runtimeOp # "no" \/ execDisposal # "none" => execDisposed
  /\ runtimeOp = "yes" => \A t \in Executions : rec[t].phase # "starting" /\ rec[t].agent # "working"
  /\ execDisposal = "handles" => \A t \in Executions : rec[t].phase \in {"none", "started", "rejected"}
  /\ execDisposal = "done" => \A t \in Executions : rec[t].phase = "none" /\ rec[t].agent # "working"

\* A step of a record that takes no turn, gives none up and starts no agent.
Quiet(r, q) ==
  /\ q.phase = r.phase \/ (r.phase \in {"cleaning", "announcing"} /\ q.phase \in {"announcing", "rejected", "none"})
  /\ q.agent = "working" => r.agent = "working"
Fits(r, q) == q \in Records /\ RecordKept(q) /\ Quiet(r, q)

----------------------------------------------------------------------------
(* The functions of a record give a record *)

LEMMA BeginType == ASSUME NEW p \in Promise PROVE Begin(p) \in Promise
BY DEF Begin, Promise

LEMMA CancelHandleType == ASSUME NEW r \in Records PROVE CancelHandle(r) \in Records
<1> DEFINE p == Begin(r.cancelH)
<1>1. p \in Promise BY BeginType DEF Records
<1> HIDE DEF p
<1>2. [r EXCEPT !.cancelH = p] \in Records BY <1>1 DEF Records
<1> QED BY <1>2 DEF CancelHandle, p

LEMMA DisposeOfHandleType == ASSUME NEW r \in Records PROVE DisposeOfHandle(r) \in Records
<1> DEFINE p == Begin(r.disposeH)
<1>1. p \in Promise BY BeginType DEF Records
<1> HIDE DEF p
<1>2. [r EXCEPT !.disposeH = p, !.closed = TRUE] \in Records BY <1>1 DEF Records
<1> QED BY <1>2 DEF DisposeOfHandle, p

LEMMA CleanUpType == ASSUME NEW r \in Records PROVE CleanUp(r) \in Records
<1>1. [r EXCEPT !.cleanup = TRUE] \in Records BY DEF Records
<1> QED BY <1>1, CancelHandleType, DisposeOfHandleType DEF CleanUp

LEMMA StopActiveType == ASSUME NEW r \in Records PROVE StopActive(r) \in Records
<1>1. [r EXCEPT !.terminal = TRUE, !.armed = FALSE] \in Records BY DEF Records
<1> QED BY <1>1, CleanUpType DEF StopActive

LEMMA AnnounceType == ASSUME NEW r \in Records PROVE Announce(r) \in Records
BY DEF Announce, Records

LEMMA PublishType == ASSUME NEW r \in Records, NEW k \in Kinds PROVE Publish(r, k) \in Records
<1> DEFINE p == Append(r.published, k)
<1>1. p \in Seq(Kinds) BY DEF Records
<1> HIDE DEF p
<1>2. [r EXCEPT !.published = p] \in Records BY <1>1 DEF Records
<1> QED BY <1>2 DEF Publish, p

LEMMA PumpFinallyType == ASSUME NEW r \in Records PROVE PumpFinally(r) \in Records
<1>1. [r EXCEPT !.pump = "cleanup", !.out = "none", !.armed = FALSE] \in Records BY DEF Records
<1> QED BY <1>1, DisposeOfHandleType DEF PumpFinally

LEMMA NoRecordType == NoRecord \in Records
BY DEF NoRecord, Records, Phases, Promise

LEMMA ForgottenType == ASSUME NEW r \in Records PROVE ForgottenRecord(r) \in Records
<1> DEFINE n == NoRecord
<1>1. n \in Records BY NoRecordType
<1>2. r.asked \in BOOLEAN /\ r.agent \in {"none", "working", "ended"} /\ r.published \in Seq(Kinds)
  BY DEF Records
<1> HIDE DEF n
<1>3. [n EXCEPT !.asked = r.asked, !.agent = r.agent, !.published = r.published] \in Records
  BY <1>1, <1>2 DEF Records
<1> QED BY <1>3 DEF ForgottenRecord, n

LEMMA RejectedType == ASSUME NEW r \in Records PROVE Rejected(r) \in Records
<1>1. [r EXCEPT !.phase = "rejected"] \in Records BY DEF Records, Phases
<1> QED BY <1>1, ForgottenType DEF Rejected

----------------------------------------------------------------------------
(* Each change of a record keeps it *)

LEMMA BeginKept ==
  ASSUME NEW r \in Records, RecordKept(r), ~r.asked
  PROVE  /\ [r EXCEPT !.asked = TRUE, !.phase = "checking", !.armed = TRUE] \in Records
         /\ RecordKept([r EXCEPT !.asked = TRUE, !.phase = "checking", !.armed = TRUE])
<1>1. [r EXCEPT !.asked = TRUE, !.phase = "checking", !.armed = TRUE] \in Records
  BY DEF Records, Phases, Promise
<1>2. RecordKept([r EXCEPT !.asked = TRUE, !.phase = "checking", !.armed = TRUE])
  BY DEF RecordKept, StartKept, PumpKept, CancelKept, EndKept, Starting, Records, Phases, Kinds
<1> QED BY <1>1, <1>2

LEMMA AdmitKept ==
  ASSUME NEW r \in Records, RecordKept(r), r.phase = "checking", r.cancelOp = "none"
  PROVE  [r EXCEPT !.phase = "queued"] \in Records /\ RecordKept([r EXCEPT !.phase = "queued"])
<1>1. [r EXCEPT !.phase = "queued"] \in Records BY DEF Records, Phases, Promise
<1>2. RecordKept([r EXCEPT !.phase = "queued"])
  BY DEF RecordKept, StartKept, PumpKept, CancelKept, EndKept, Starting, Records, Phases, Kinds
<1> QED BY <1>1, <1>2

LEMMA TurnKept ==
  ASSUME NEW r \in Records, RecordKept(r), r.phase = "queued", r.cancelOp = "none"
  PROVE  [r EXCEPT !.phase = "preparing"] \in Records /\ RecordKept([r EXCEPT !.phase = "preparing"])
<1>1. [r EXCEPT !.phase = "preparing"] \in Records BY DEF Records, Phases, Promise
<1>2. RecordKept([r EXCEPT !.phase = "preparing"])
  BY DEF RecordKept, StartKept, PumpKept, CancelKept, EndKept, Starting, Records, Phases, Kinds
<1> QED BY <1>1, <1>2

LEMMA RuntimeCallKept ==
  ASSUME NEW r \in Records, RecordKept(r), r.phase = "preparing", r.cancelOp = "none"
  PROVE  [r EXCEPT !.phase = "starting"] \in Records /\ RecordKept([r EXCEPT !.phase = "starting"])
<1>1. [r EXCEPT !.phase = "starting"] \in Records BY DEF Records, Phases, Promise
<1>2. RecordKept([r EXCEPT !.phase = "starting"])
  BY DEF RecordKept, StartKept, PumpKept, CancelKept, EndKept, Starting, Records, Phases, Kinds
<1> QED BY <1>1, <1>2

LEMMA AgentEndsKept ==
  ASSUME NEW r \in Records, RecordKept(r)
  PROVE  Fits(r, [r EXCEPT !.agent = IF @ = "working" THEN "ended" ELSE @])
<1>1. [r EXCEPT !.agent = IF @ = "working" THEN "ended" ELSE @] \in Records BY DEF Records, Promise
<1>2. RecordKept([r EXCEPT !.agent = IF @ = "working" THEN "ended" ELSE @])
  BY DEF RecordKept, StartKept, PumpKept, CancelKept, EndKept, Starting, Records, Kinds
<1>3. Quiet(r, [r EXCEPT !.agent = IF @ = "working" THEN "ended" ELSE @]) BY DEF Quiet, Records
<1> QED BY <1>1, <1>2, <1>3 DEF Fits

LEMMA AbandonKept ==
  ASSUME NEW r \in Records, RecordKept(r), r.phase \in {"checking", "queued", "preparing"}
  PROVE  Rejected(r) \in Records /\ RecordKept(Rejected(r))
<1>1. Rejected(r) \in Records BY RejectedType
<1>2. RecordKept(Rejected(r))
  BY DEF RecordKept, StartKept, PumpKept, CancelKept, EndKept, Starting, Records, Rejected,
    ForgottenRecord, NoRecord, Phases, Kinds
<1> QED BY <1>1, <1>2

LEMMA RuntimeFailsKept ==
  ASSUME NEW r \in Records, RecordKept(r), NEW u \in BOOLEAN, r.phase = "starting"
  PROVE  /\ Rejected([r EXCEPT !.unclean = u, !.agent = IF u THEN "working" ELSE "none"]) \in Records
         /\ RecordKept(Rejected([r EXCEPT !.unclean = u, !.agent = IF u THEN "working" ELSE "none"]))
<1> DEFINE a == IF u THEN "working" ELSE "none"
<1>1. a \in {"none", "working"} OBVIOUS
<1> HIDE DEF a
<1>2. [r EXCEPT !.unclean = u, !.agent = a] \in Records BY <1>1 DEF Records
<1>3. Rejected([r EXCEPT !.unclean = u, !.agent = IF u THEN "working" ELSE "none"]) \in Records
  BY <1>2, RejectedType DEF a
<1>4. RecordKept(Rejected([r EXCEPT !.unclean = u, !.agent = IF u THEN "working" ELSE "none"]))
  BY DEF RecordKept, StartKept, PumpKept, CancelKept, EndKept, Starting, Records, Rejected,
    ForgottenRecord, NoRecord, Phases, Kinds
<1> QED BY <1>3, <1>4

LEMMA AdoptKept ==
  ASSUME NEW r \in Records, RecordKept(r), r.phase = "starting"
  PROVE  /\ [r EXCEPT !.agent = "working", !.active = TRUE, !.phase = "cleaning"] \in Records
         /\ RecordKept([r EXCEPT !.agent = "working", !.active = TRUE, !.phase = "cleaning"])
<1>1. [r EXCEPT !.agent = "working", !.active = TRUE, !.phase = "cleaning"] \in Records
  BY DEF Records, Phases, Promise
<1>2. RecordKept([r EXCEPT !.agent = "working", !.active = TRUE, !.phase = "cleaning"])
  BY DEF RecordKept, StartKept, PumpKept, CancelKept, EndKept, Starting, Records, Phases, Kinds
<1> QED BY <1>1, <1>2

LEMMA AdoptStartsKept ==
  ASSUME NEW r \in Records, RecordKept(r), r.phase = "starting", r.cancelOp = "none"
  PROVE  /\ [[r EXCEPT !.agent = "working", !.active = TRUE, !.phase = "cleaning"] EXCEPT !.phase = "started", !.pump = "reading"] \in Records
         /\ RecordKept([[r EXCEPT !.agent = "working", !.active = TRUE, !.phase = "cleaning"] EXCEPT !.phase = "started", !.pump = "reading"])
<1>1. [[r EXCEPT !.agent = "working", !.active = TRUE, !.phase = "cleaning"] EXCEPT !.phase = "started", !.pump = "reading"] \in Records
  BY DEF Records, Phases, Promise
<1>2. RecordKept([[r EXCEPT !.agent = "working", !.active = TRUE, !.phase = "cleaning"] EXCEPT !.phase = "started", !.pump = "reading"])
  BY DEF RecordKept, StartKept, PumpKept, CancelKept, EndKept, Starting, Records, Phases, Kinds
<1> QED BY <1>1, <1>2

LEMMA KeepKept ==
  ASSUME NEW r \in Records, RecordKept(r)
  PROVE  Fits(r, [r EXCEPT !.keep = TRUE])
<1>1. [r EXCEPT !.keep = TRUE] \in Records BY DEF Records, Promise
<1>2. RecordKept([r EXCEPT !.keep = TRUE])
  BY DEF RecordKept, StartKept, PumpKept, CancelKept, EndKept, Starting, Records, Kinds
<1>3. Quiet(r, [r EXCEPT !.keep = TRUE]) BY DEF Quiet, Records
<1> QED BY <1>1, <1>2, <1>3 DEF Fits

LEMMA KeepLateKept ==
  ASSUME NEW r \in Records, RecordKept(r)
  PROVE  Fits(r, [r EXCEPT !.keep = TRUE, !.expired = TRUE])
<1>1. [r EXCEPT !.keep = TRUE, !.expired = TRUE] \in Records BY DEF Records, Promise
<1>2. RecordKept([r EXCEPT !.keep = TRUE, !.expired = TRUE])
  BY DEF RecordKept, StartKept, PumpKept, CancelKept, EndKept, Starting, Records, Kinds
<1>3. Quiet(r, [r EXCEPT !.keep = TRUE, !.expired = TRUE]) BY DEF Quiet, Records
<1> QED BY <1>1, <1>2, <1>3 DEF Fits

LEMMA CoreCleanedKept ==
  ASSUME NEW r \in Records, RecordKept(r), r.phase = "cleaning"
  PROVE  Fits(r, Rejected(r))
<1>1. Rejected(r) \in Records BY RejectedType
<1>2. RecordKept(Rejected(r))
  BY DEF RecordKept, StartKept, PumpKept, CancelKept, EndKept, Starting, Records, Rejected,
    ForgottenRecord, NoRecord, Phases, Kinds
<1>3. Quiet(r, Rejected(r)) BY DEF Quiet, Records, Rejected, ForgottenRecord, NoRecord, Phases
<1> QED BY <1>1, <1>2, <1>3 DEF Fits

LEMMA CleanedTellsKept ==
  ASSUME NEW r \in Records, RecordKept(r), r.phase = "cleaning", StoppedStart(r), r.cancelOp # "none"
  PROVE  Fits(r, [Announce(r) EXCEPT !.phase = "announcing"])
<1>1. [Announce(r) EXCEPT !.phase = "announcing"] \in Records
  BY DEF Records, StoppedStart, Announce, Phases, Promise
<1>2. RecordKept([Announce(r) EXCEPT !.phase = "announcing"])
  BY DEF RecordKept, StartKept, PumpKept, CancelKept, EndKept, Starting, Records, StoppedStart,
    Announce, Phases, Kinds
<1>3. Quiet(r, [Announce(r) EXCEPT !.phase = "announcing"])
  BY DEF Quiet, Records, StoppedStart, Announce, Phases
<1> QED BY <1>1, <1>2, <1>3 DEF Fits

LEMMA CleanedEndsKept ==
  ASSUME NEW r \in Records, RecordKept(r), r.phase = "cleaning", StoppedStart(r), r.cancelOp # "none"
  PROVE  Fits(r, Rejected(Announce(r)))
<1>1. Rejected(Announce(r)) \in Records BY RejectedType, AnnounceType
<1>2. RecordKept(Rejected(Announce(r)))
  BY DEF RecordKept, StartKept, PumpKept, CancelKept, EndKept, Starting, Records, StoppedStart,
    Announce, Phases, Rejected, ForgottenRecord, NoRecord, Kinds
<1>3. Quiet(r, Rejected(Announce(r)))
  BY DEF Quiet, Records, StoppedStart, Announce, Phases, Rejected, ForgottenRecord, NoRecord
<1> QED BY <1>1, <1>2, <1>3 DEF Fits

LEMMA CleanedDropsKept ==
  ASSUME NEW r \in Records, RecordKept(r), r.phase = "cleaning", StoppedStart(r)
  PROVE  Fits(r, Rejected([r EXCEPT !.active = FALSE]))
<1>1. [r EXCEPT !.active = FALSE] \in Records BY DEF Records
<1>2. Rejected([r EXCEPT !.active = FALSE]) \in Records BY <1>1, RejectedType
<1>3. RecordKept(Rejected([r EXCEPT !.active = FALSE]))
  BY DEF RecordKept, StartKept, PumpKept, CancelKept, EndKept, Starting, Records, StoppedStart,
    Phases, Rejected, ForgottenRecord, NoRecord, Kinds
<1>4. Quiet(r, Rejected([r EXCEPT !.active = FALSE]))
  BY DEF Quiet, Records, StoppedStart, Phases, Rejected, ForgottenRecord, NoRecord
<1> QED BY <1>2, <1>3, <1>4 DEF Fits

LEMMA AnnouncedKept ==
  ASSUME NEW r \in Records, RecordKept(r), r.phase = "announcing"
  PROVE  Fits(r, Rejected([Publish(r, "cancelled") EXCEPT !.told = TRUE]))
<1>1. Publish(r, "cancelled") \in Records BY PublishType DEF Kinds
<1>2. [Publish(r, "cancelled") EXCEPT !.told = TRUE] \in Records BY <1>1 DEF Records
<1>3. Rejected([Publish(r, "cancelled") EXCEPT !.told = TRUE]) \in Records BY <1>2, RejectedType
<1>4. RecordKept(Rejected([Publish(r, "cancelled") EXCEPT !.told = TRUE]))
  BY DEF RecordKept, StartKept, PumpKept, CancelKept, EndKept, Starting, Records, Publish, Phases,
    Rejected, ForgottenRecord, NoRecord, Kinds
<1>5. Quiet(r, Rejected([Publish(r, "cancelled") EXCEPT !.told = TRUE]))
  BY DEF Quiet, Records, Publish, Phases, Rejected, ForgottenRecord, NoRecord
<1> QED BY <1>3, <1>4, <1>5 DEF Fits

LEMMA AnnounceFailsKept ==
  ASSUME NEW r \in Records, RecordKept(r), r.phase = "announcing"
  PROVE  Fits(r, Rejected(r))
<1>1. Rejected(r) \in Records BY RejectedType
<1>2. RecordKept(Rejected(r))
  BY DEF RecordKept, StartKept, PumpKept, CancelKept, EndKept, Starting, Records, Phases,
    Rejected, ForgottenRecord, NoRecord, Kinds
<1>3. Quiet(r, Rejected(r)) BY DEF Quiet, Records, Phases, Rejected, ForgottenRecord, NoRecord
<1> QED BY <1>1, <1>2, <1>3 DEF Fits

LEMMA NotifyKept ==
  ASSUME NEW r \in Records, RecordKept(r)
  PROVE  Fits(r, [r EXCEPT !.notify = TRUE])
<1>1. [r EXCEPT !.notify = TRUE] \in Records BY DEF Records, Promise
<1>2. RecordKept([r EXCEPT !.notify = TRUE])
  BY DEF RecordKept, StartKept, PumpKept, CancelKept, EndKept, Starting, Records, Kinds
<1>3. Quiet(r, [r EXCEPT !.notify = TRUE]) BY DEF Quiet, Records
<1> QED BY <1>1, <1>2, <1>3 DEF Fits

LEMMA DisarmKept ==
  ASSUME NEW r \in Records, RecordKept(r)
  PROVE  Fits(r, [r EXCEPT !.armed = FALSE])
<1>1. [r EXCEPT !.armed = FALSE] \in Records BY DEF Records, Promise
<1>2. RecordKept([r EXCEPT !.armed = FALSE])
  BY DEF RecordKept, StartKept, PumpKept, CancelKept, EndKept, Starting, Records, Kinds
<1>3. Quiet(r, [r EXCEPT !.armed = FALSE]) BY DEF Quiet, Records
<1> QED BY <1>1, <1>2, <1>3 DEF Fits

LEMMA ExpireKept ==
  ASSUME NEW r \in Records, RecordKept(r)
  PROVE  Fits(r, [r EXCEPT !.armed = FALSE, !.expired = TRUE])
<1>1. [r EXCEPT !.armed = FALSE, !.expired = TRUE] \in Records BY DEF Records, Promise
<1>2. RecordKept([r EXCEPT !.armed = FALSE, !.expired = TRUE])
  BY DEF RecordKept, StartKept, PumpKept, CancelKept, EndKept, Starting, Records, Kinds
<1>3. Quiet(r, [r EXCEPT !.armed = FALSE, !.expired = TRUE]) BY DEF Quiet, Records
<1> QED BY <1>1, <1>2, <1>3 DEF Fits

LEMMA CancelBeforeStartKept ==
  ASSUME NEW r \in Records, RecordKept(r), r.phase # "none", r.cancelOp = "none", ~r.active, ~r.terminal
  PROVE  Fits(r, CancelBeforeStart(r))
<1>1. CancelBeforeStart(r) \in Records BY DEF Records, CancelBeforeStart, Promise
<1>2. RecordKept(CancelBeforeStart(r))
  BY DEF RecordKept, StartKept, PumpKept, CancelKept, EndKept, Starting, Records,
    CancelBeforeStart, Kinds
<1>3. Quiet(r, CancelBeforeStart(r)) BY DEF Quiet, Records, CancelBeforeStart
<1> QED BY <1>1, <1>2, <1>3 DEF Fits

LEMMA CancelHandleKept ==
  ASSUME NEW r \in Records, RecordKept(r), r.active
  PROVE  Fits(r, CancelHandle(r))
<1>1. CancelHandle(r) \in Records BY DEF Records, CancelHandle, Begin, Promise
<1>2. RecordKept(CancelHandle(r))
  BY DEF RecordKept, StartKept, PumpKept, CancelKept, EndKept, Starting, Records, CancelHandle,
    Begin, Kinds
<1>3. Quiet(r, CancelHandle(r)) BY DEF Quiet, Records, CancelHandle, Begin
<1> QED BY <1>1, <1>2, <1>3 DEF Fits

LEMMA CleanUpKept ==
  ASSUME NEW r \in Records, RecordKept(r), r.active
  PROVE  Fits(r, CleanUp(r))
<1>1. CleanUp(r) \in Records BY CleanUpType
<1>2. RecordKept(CleanUp(r))
  BY DEF RecordKept, StartKept, PumpKept, CancelKept, EndKept, Starting, Records, CleanUp,
    DisposeOfHandle, CancelHandle, Begin, Kinds
<1>3. Quiet(r, CleanUp(r)) BY DEF Quiet, Records, CleanUp, DisposeOfHandle, CancelHandle, Begin
<1> QED BY <1>1, <1>2, <1>3 DEF Fits

LEMMA StopActiveKept ==
  ASSUME NEW r \in Records, RecordKept(r), r.active
  PROVE  Fits(r, StopActive(r))
<1>1. StopActive(r) \in Records BY StopActiveType
<1>2. RecordKept(StopActive(r))
  BY DEF RecordKept, StartKept, PumpKept, CancelKept, EndKept, Starting, Records, StopActive,
    CleanUp, DisposeOfHandle, CancelHandle, Begin, Kinds
<1>3. Quiet(r, StopActive(r))
  BY DEF Quiet, Records, StopActive, CleanUp, DisposeOfHandle, CancelHandle, Begin
<1> QED BY <1>1, <1>2, <1>3 DEF Fits

LEMMA ScopedKept ==
  ASSUME NEW r \in Records, RecordKept(r), r.cancelOp = "scoped", r.phase # "starting"
  PROVE  Fits(r, [r EXCEPT !.cancelOp = "waiting", !.scoped = TRUE, !.agent = IF @ = "working" THEN "ended" ELSE @])
<1>1. [r EXCEPT !.cancelOp = "waiting", !.scoped = TRUE, !.agent = IF @ = "working" THEN "ended" ELSE @] \in Records
  BY DEF Records, Promise
<1>2. RecordKept([r EXCEPT !.cancelOp = "waiting", !.scoped = TRUE, !.agent = IF @ = "working" THEN "ended" ELSE @])
  BY DEF RecordKept, StartKept, PumpKept, CancelKept, EndKept, Starting, Records, Kinds
<1>3. Quiet(r, [r EXCEPT !.cancelOp = "waiting", !.scoped = TRUE, !.agent = IF @ = "working" THEN "ended" ELSE @])
  BY DEF Quiet, Records
<1> QED BY <1>1, <1>2, <1>3 DEF Fits

LEMMA CancelFailsKept ==
  ASSUME NEW r \in Records, RecordKept(r),
         r.cancelOp \in {"scoped", "waiting", "stopping", "publishing"}, r.cancelOp = "waiting" => r.phase \in {"started", "rejected"}
  PROVE  Fits(r, [r EXCEPT !.cancelOp = "failed"])
<1>1. [r EXCEPT !.cancelOp = "failed"] \in Records BY DEF Records, Promise
<1>2. RecordKept([r EXCEPT !.cancelOp = "failed"])
  BY DEF RecordKept, StartKept, PumpKept, CancelKept, EndKept, Starting, Records, Kinds
<1>3. Quiet(r, [r EXCEPT !.cancelOp = "failed"]) BY DEF Quiet, Records
<1> QED BY <1>1, <1>2, <1>3 DEF Fits

LEMMA CancelStopsKept ==
  ASSUME NEW r \in Records, RecordKept(r),
         r.cancelOp = "waiting", r.phase \in {"started", "rejected"}, r.active
  PROVE  Fits(r, [StopActive(r) EXCEPT !.cancelOp = "stopping"])
<1>1. [StopActive(r) EXCEPT !.cancelOp = "stopping"] \in Records BY StopActiveType DEF Records
<1>2. RecordKept([StopActive(r) EXCEPT !.cancelOp = "stopping"])
  BY DEF RecordKept, StartKept, PumpKept, CancelKept, EndKept, Starting, Records, StopActive,
    CleanUp, DisposeOfHandle, CancelHandle, Begin, Kinds
<1>3. Quiet(r, [StopActive(r) EXCEPT !.cancelOp = "stopping"])
  BY DEF Quiet, Records, StopActive, CleanUp, DisposeOfHandle, CancelHandle, Begin
<1> QED BY <1>1, <1>2, <1>3 DEF Fits

LEMMA ConfirmKept ==
  ASSUME NEW r \in Records, RecordKept(r),
         r.cancelOp \in {"waiting", "stopping"}, r.phase \in {"started", "rejected"}, r.agent # "working"
  PROVE  Fits(r, Confirm(r))
<1>1. Confirm(r) \in Records BY DEF Records, Confirm, MustTell, Announce, Promise
<1>2. RecordKept(Confirm(r))
  BY DEF RecordKept, StartKept, PumpKept, CancelKept, EndKept, Starting, Records, Confirm,
    MustTell, Announce, Kinds
<1>3. Quiet(r, Confirm(r)) BY DEF Quiet, Records, Confirm, MustTell, Announce
<1> QED BY <1>1, <1>2, <1>3 DEF Fits

LEMMA CancelPublishedKept ==
  ASSUME NEW r \in Records, RecordKept(r), r.cancelOp = "publishing"
  PROVE  Fits(r, [Publish(r, "cancelled") EXCEPT !.told = TRUE, !.cancelOp = "done"])
<1>1. Publish(r, "cancelled") \in Records BY PublishType DEF Kinds
<1>2. [Publish(r, "cancelled") EXCEPT !.told = TRUE, !.cancelOp = "done"] \in Records
  BY <1>1 DEF Records
<1>3. RecordKept([Publish(r, "cancelled") EXCEPT !.told = TRUE, !.cancelOp = "done"])
  BY DEF RecordKept, StartKept, PumpKept, CancelKept, EndKept, Starting, Records, Publish, Kinds
<1>4. Quiet(r, [Publish(r, "cancelled") EXCEPT !.told = TRUE, !.cancelOp = "done"])
  BY DEF Quiet, Records, Publish
<1> QED BY <1>2, <1>3, <1>4 DEF Fits

LEMMA DeadlineStopKept ==
  ASSUME NEW r \in Records, RecordKept(r)
  PROVE  Fits(r, [r EXCEPT !.deadlineOp = "stop"])
<1>1. [r EXCEPT !.deadlineOp = "stop"] \in Records BY DEF Records, Promise
<1>2. RecordKept([r EXCEPT !.deadlineOp = "stop"])
  BY DEF RecordKept, StartKept, PumpKept, CancelKept, EndKept, Starting, Records, Kinds
<1>3. Quiet(r, [r EXCEPT !.deadlineOp = "stop"]) BY DEF Quiet, Records
<1> QED BY <1>1, <1>2, <1>3 DEF Fits

LEMMA DeadlineScopedKept ==
  ASSUME NEW r \in Records, RecordKept(r)
  PROVE  Fits(r, [r EXCEPT !.deadlineOp = "scoped"])
<1>1. [r EXCEPT !.deadlineOp = "scoped"] \in Records BY DEF Records, Promise
<1>2. RecordKept([r EXCEPT !.deadlineOp = "scoped"])
  BY DEF RecordKept, StartKept, PumpKept, CancelKept, EndKept, Starting, Records, Kinds
<1>3. Quiet(r, [r EXCEPT !.deadlineOp = "scoped"]) BY DEF Quiet, Records
<1> QED BY <1>1, <1>2, <1>3 DEF Fits

LEMMA DeadlineNoneKept ==
  ASSUME NEW r \in Records, RecordKept(r)
  PROVE  Fits(r, [r EXCEPT !.deadlineOp = "none"])
<1>1. [r EXCEPT !.deadlineOp = "none"] \in Records BY DEF Records, Promise
<1>2. RecordKept([r EXCEPT !.deadlineOp = "none"])
  BY DEF RecordKept, StartKept, PumpKept, CancelKept, EndKept, Starting, Records, Kinds
<1>3. Quiet(r, [r EXCEPT !.deadlineOp = "none"]) BY DEF Quiet, Records
<1> QED BY <1>1, <1>2, <1>3 DEF Fits

LEMMA HandleCancelledKept ==
  ASSUME NEW r \in Records, RecordKept(r), r.cancelH = "pending"
  PROVE  Fits(r, [[r EXCEPT !.cancelH = "yes"] EXCEPT !.agent = IF @ = "working" THEN "ended" ELSE @])
<1>1. [[r EXCEPT !.cancelH = "yes"] EXCEPT !.agent = IF @ = "working" THEN "ended" ELSE @] \in Records
  BY DEF Records, Promise
<1>2. RecordKept([[r EXCEPT !.cancelH = "yes"] EXCEPT !.agent = IF @ = "working" THEN "ended" ELSE @])
  BY DEF RecordKept, StartKept, PumpKept, CancelKept, EndKept, Starting, Records, Kinds
<1>3. Quiet(r, [[r EXCEPT !.cancelH = "yes"] EXCEPT !.agent = IF @ = "working" THEN "ended" ELSE @])
  BY DEF Quiet, Records
<1> QED BY <1>1, <1>2, <1>3 DEF Fits

LEMMA HandleCancelledNotKept ==
  ASSUME NEW r \in Records, RecordKept(r), r.cancelH = "pending"
  PROVE  Fits(r, [r EXCEPT !.cancelH = "no"])
<1>1. [r EXCEPT !.cancelH = "no"] \in Records BY DEF Records, Promise
<1>2. RecordKept([r EXCEPT !.cancelH = "no"])
  BY DEF RecordKept, StartKept, PumpKept, CancelKept, EndKept, Starting, Records, Kinds
<1>3. Quiet(r, [r EXCEPT !.cancelH = "no"]) BY DEF Quiet, Records
<1> QED BY <1>1, <1>2, <1>3 DEF Fits

LEMMA HandleDisposedKept ==
  ASSUME NEW r \in Records, RecordKept(r), r.disposeH = "pending"
  PROVE  Fits(r, [[r EXCEPT !.disposeH = "yes"] EXCEPT !.agent = IF @ = "working" THEN "ended" ELSE @])
<1>1. [[r EXCEPT !.disposeH = "yes"] EXCEPT !.agent = IF @ = "working" THEN "ended" ELSE @] \in Records
  BY DEF Records, Promise
<1>2. RecordKept([[r EXCEPT !.disposeH = "yes"] EXCEPT !.agent = IF @ = "working" THEN "ended" ELSE @])
  BY DEF RecordKept, StartKept, PumpKept, CancelKept, EndKept, Starting, Records, Kinds
<1>3. Quiet(r, [[r EXCEPT !.disposeH = "yes"] EXCEPT !.agent = IF @ = "working" THEN "ended" ELSE @])
  BY DEF Quiet, Records
<1> QED BY <1>1, <1>2, <1>3 DEF Fits

LEMMA HandleDisposedNotKept ==
  ASSUME NEW r \in Records, RecordKept(r), r.disposeH = "pending"
  PROVE  Fits(r, [r EXCEPT !.disposeH = "no"])
<1>1. [r EXCEPT !.disposeH = "no"] \in Records BY DEF Records, Promise
<1>2. RecordKept([r EXCEPT !.disposeH = "no"])
  BY DEF RecordKept, StartKept, PumpKept, CancelKept, EndKept, Starting, Records, Kinds
<1>3. Quiet(r, [r EXCEPT !.disposeH = "no"]) BY DEF Quiet, Records
<1> QED BY <1>1, <1>2, <1>3 DEF Fits

LEMMA DeadlineEndsKept ==
  ASSUME NEW r \in Records, RecordKept(r)
  PROVE  Fits(r, [r EXCEPT !.deadlineOp = "none", !.agent = IF @ = "working" THEN "ended" ELSE @])
<1> DEFINE a == IF r.agent = "working" THEN "ended" ELSE r.agent
<1>1. a \in {"none", "working", "ended"} BY DEF Records
<1> HIDE DEF a
<1>2. [r EXCEPT !.deadlineOp = "none", !.agent = a] \in Records BY <1>1 DEF Records
<1>3. [r EXCEPT !.deadlineOp = "none", !.agent = IF @ = "working" THEN "ended" ELSE @] \in Records
  BY <1>2 DEF a
<1>4. RecordKept([r EXCEPT !.deadlineOp = "none", !.agent = IF @ = "working" THEN "ended" ELSE @])
  BY DEF RecordKept, StartKept, PumpKept, CancelKept, EndKept, Starting, Records, Kinds
<1>5. Quiet(r, [r EXCEPT !.deadlineOp = "none", !.agent = IF @ = "working" THEN "ended" ELSE @])
  BY DEF Quiet, Records
<1> QED BY <1>3, <1>4, <1>5 DEF Fits

LEMMA AgentEndedKept ==
  ASSUME NEW r \in Records, RecordKept(r)
  PROVE  Fits(r, [r EXCEPT !.agent = "ended"])
<1>1. [r EXCEPT !.agent = "ended"] \in Records BY DEF Records, Promise
<1>2. RecordKept([r EXCEPT !.agent = "ended"])
  BY DEF RecordKept, StartKept, PumpKept, CancelKept, EndKept, Starting, Records, Kinds
<1>3. Quiet(r, [r EXCEPT !.agent = "ended"]) BY DEF Quiet, Records
<1> QED BY <1>1, <1>2, <1>3 DEF Fits

LEMMA PumpPublishesKept ==
  ASSUME NEW r \in Records, RecordKept(r),
         NEW k \in Kinds, r.pump = "reading", ~r.terminal, k = "cancelled" => r.agent # "working"
  PROVE  Fits(r, [r EXCEPT !.pump = "publishing", !.out = k])
<1>1. [r EXCEPT !.pump = "publishing", !.out = k] \in Records BY DEF Records, Promise
<1>2. RecordKept([r EXCEPT !.pump = "publishing", !.out = k])
  BY DEF RecordKept, StartKept, PumpKept, CancelKept, EndKept, Starting, Records, Kinds
<1>3. Quiet(r, [r EXCEPT !.pump = "publishing", !.out = k]) BY DEF Quiet, Records
<1> QED BY <1>1, <1>2, <1>3 DEF Fits

LEMMA PumpFinallyKept ==
  ASSUME NEW r \in Records, RecordKept(r), r.pump \in {"reading", "publishing", "failing"}
  PROVE  Fits(r, PumpFinally(r))
<1>1. PumpFinally(r) \in Records BY PumpFinallyType
<1>2. RecordKept(PumpFinally(r))
  BY DEF RecordKept, StartKept, PumpKept, CancelKept, EndKept, Starting, Records, PumpFinally,
    DisposeOfHandle, Begin, Kinds
<1>3. Quiet(r, PumpFinally(r)) BY DEF Quiet, Records, PumpFinally, DisposeOfHandle, Begin
<1> QED BY <1>1, <1>2, <1>3 DEF Fits

LEMMA PumpPublishedKept ==
  ASSUME NEW r \in Records, RecordKept(r), r.pump = "publishing"
  PROVE  Fits(r, PumpFinally([Publish(r, r.out) EXCEPT !.terminal = TRUE]))
<1> DEFINE p == Append(r.published, r.out)
           q == [[r EXCEPT !.published = p] EXCEPT !.terminal = TRUE]
<1>1. r.out \in Kinds /\ r.published = <<>> /\ (r.out = "cancelled" => r.agent # "working")
  BY DEF RecordKept, PumpKept
<1>2. p \in Seq(Kinds) /\ Len(p) = 1 /\ p[1] = r.out BY <1>1
<1>3. p = <<"cancelled">> => r.agent # "working" BY <1>1, <1>2
<1> HIDE DEF p
<1>4. q \in Records BY <1>2 DEF Records
<1>5. PumpFinally(q) \in Records BY <1>4, PumpFinallyType
<1> DEFINE d == Begin(r.disposeH)
           f == [q EXCEPT !.pump = "cleanup", !.out = "none", !.armed = FALSE, !.disposeH = d, !.closed = TRUE]
<1>6. d = "yes" => r.disposeH = "yes" BY DEF Begin
<1>7. d # "no" BY DEF Begin
<1> HIDE DEF d
<1>8. r.phase = "started" /\ r.active /\ r.cancelOp = "none"
  BY DEF RecordKept, StartKept, Starting, Records, Phases
<1>9. RecordKept(f)
  <2>1. StartKept(f)
    BY <1>1, <1>6, <1>8 DEF RecordKept, StartKept, PumpKept, CancelKept, EndKept, Starting, Records
  <2>2. PumpKept(f)
    BY <1>1, <1>6, <1>8 DEF RecordKept, StartKept, PumpKept, CancelKept, EndKept, Starting, Records
  <2>3. CancelKept(f)
    BY <1>1, <1>6, <1>8 DEF RecordKept, StartKept, PumpKept, CancelKept, EndKept, Starting, Records
  <2>4. f.published = p /\ f.phase = "started" /\ f.terminal /\ f.cancelOp = "none" /\ f.agent = r.agent
    BY <1>8 DEF Records
  <2> HIDE DEF f
  <2>5. EndKept(f) BY <2>4, <1>2, <1>3 DEF EndKept
  <2> QED BY <2>1, <2>2, <2>3, <2>5 DEF RecordKept
<1>10. PumpFinally(q) = f BY <1>4 DEF PumpFinally, DisposeOfHandle, d, Records
<1>11. Quiet(r, f) BY DEF Quiet, Records
<1> QED BY <1>5, <1>9, <1>10, <1>11 DEF Publish, p, Fits

LEMMA PumpPublishFailsKept ==
  ASSUME NEW r \in Records, RecordKept(r), r.pump = "publishing"
  PROVE  Fits(r, CleanUp([r EXCEPT !.pump = "failing"]))
<1>1. [r EXCEPT !.pump = "failing"] \in Records BY DEF Records
<1>2. CleanUp([r EXCEPT !.pump = "failing"]) \in Records BY <1>1, CleanUpType
<1>3. RecordKept(CleanUp([r EXCEPT !.pump = "failing"]))
  BY DEF RecordKept, StartKept, PumpKept, CancelKept, EndKept, Starting, Records, CleanUp,
    DisposeOfHandle, CancelHandle, Begin, Kinds
<1>4. Quiet(r, CleanUp([r EXCEPT !.pump = "failing"]))
  BY DEF Quiet, Records, CleanUp, DisposeOfHandle, CancelHandle, Begin
<1> QED BY <1>2, <1>3, <1>4 DEF Fits

LEMMA PumpEndsKept ==
  ASSUME NEW r \in Records, RecordKept(r), r.pump = "cleanup"
  PROVE  Fits(r, [r EXCEPT !.pump = "done", !.active = r.active /\ ~(r.disposeH = "yes" /\ (r.cleanup => StoppedStart(r)))])
<1> DEFINE a == r.active /\ ~(r.disposeH = "yes" /\ (r.cleanup => StoppedStart(r)))
<1>1. a \in BOOLEAN /\ (~a => ~r.active \/ r.disposeH = "yes") BY DEF Records
<1> HIDE DEF a
<1>2. [r EXCEPT !.pump = "done", !.active = a] \in Records BY <1>1 DEF Records
<1>3. RecordKept([r EXCEPT !.pump = "done", !.active = a])
  BY <1>1 DEF RecordKept, StartKept, PumpKept, CancelKept, EndKept, Starting, Records
<1>4. Quiet(r, [r EXCEPT !.pump = "done", !.active = a]) BY DEF Quiet, Records
<1> QED BY <1>2, <1>3, <1>4 DEF a, Fits

LEMMA ForgottenKept ==
  ASSUME NEW r \in Records, RecordKept(r)
  PROVE  ForgottenRecord(r) \in Records /\ RecordKept(ForgottenRecord(r))
<1>1. ForgottenRecord(r) \in Records BY ForgottenType
<1>2. RecordKept(ForgottenRecord(r))
  BY DEF RecordKept, StartKept, PumpKept, CancelKept, EndKept, Starting, Records, ForgottenRecord,
    NoRecord, Phases, Kinds
<1> QED BY <1>1, <1>2

----------------------------------------------------------------------------
(* The invariant of the executor *)

RecordsKept == \A t \in Executions : RecordKept(rec[t])
ExecutorSafe == ExecutorTypeOK /\ RecordsKept /\ GateKept /\ DisposalSound

\* A sequence without its i-th element.
LEMMA RemoveAtFacts ==
  ASSUME NEW S, NEW s \in Seq(S), NEW i \in 1..Len(s)
  PROVE  /\ RemoveAt(s, i) \in Seq(S)
         /\ Len(RemoveAt(s, i)) = Len(s) - 1
         /\ \A j \in 1..(Len(s) - 1) : RemoveAt(s, i)[j] = IF j < i THEN s[j] ELSE s[j + 1]
<1> DEFINE a == SubSeq(s, 1, i - 1)
           b == SubSeq(s, i + 1, Len(s))
<1>1. a \in Seq(S) /\ Len(a) = i - 1 /\ \A j \in 1..(i - 1) : a[j] = s[j] OBVIOUS
<1>2. b \in Seq(S) /\ Len(b) = Len(s) - i /\ \A j \in 1..(Len(s) - i) : b[j] = s[i + j] OBVIOUS
<1> HIDE DEF a, b
<1>3. a \o b \in Seq(S) /\ Len(a \o b) = Len(s) - 1
  <2>1. ASSUME NEW x \in Seq(S), NEW y \in Seq(S) PROVE x \o y \in Seq(S) /\ Len(x \o y) = Len(x) + Len(y)
    OBVIOUS
  <2>2. a \o b \in Seq(S) /\ Len(a \o b) = Len(a) + Len(b) BY <1>1, <1>2, <2>1
  <2>3. (i - 1) + (Len(s) - i) = Len(s) - 1 OBVIOUS
  <2> QED BY <1>1, <1>2, <2>2, <2>3
<1>4. \A j \in 1..(Len(s) - 1) : (a \o b)[j] = IF j < i THEN s[j] ELSE s[j + 1]
  <2> TAKE j \in 1..(Len(s) - 1)
  <2>1. CASE j < i BY <2>1, <1>1, <1>2
  <2>2. CASE ~(j < i)
    <3>1. j - (i - 1) \in 1..(Len(s) - i) BY <2>2
    <3>2. (a \o b)[j] = b[j - (i - 1)] BY <2>2, <3>1, <1>1, <1>2
    <3>3. b[j - (i - 1)] = s[i + (j - (i - 1))] BY <3>1, <1>2
    <3>4. i + (j - (i - 1)) = j + 1 OBVIOUS
    <3> QED BY <2>2, <3>2, <3>3, <3>4
  <2> QED BY <2>1, <2>2
<1> QED BY <1>3, <1>4 DEF RemoveAt, a, b

\* One record changes and stays a record that is kept.
LEMMA OneRecord ==
  ASSUME ExecutorTypeOK, RecordsKept, NEW t \in Executions, NEW q \in Records, RecordKept(q), PutRecord(t, q)
  PROVE  /\ rec' \in [Executions -> Records] /\ RecordsKept'
         /\ rec'[t] = q /\ \A u \in Executions : u # t => rec'[u] = rec[u]
<1>1. /\ rec' \in [Executions -> Records]
      /\ rec'[t] = q /\ \A u \in Executions : u # t => rec'[u] = rec[u]
  BY DEF PutRecord, ExecutorTypeOK
<1>2. RecordsKept' BY <1>1 DEF RecordsKept
<1> QED BY <1>1, <1>2

LEMMA QuietStep ==
  ASSUME ExecutorSafe, NEW t \in Executions, NEW q, Fits(rec[t], q), PutRecord(t, q),
         UNCHANGED <<gate, execDisposed, execDisposal, runtimeOp>>, pumpFaults' \subseteq Executions
  PROVE  ExecutorSafe'
<1>1. /\ rec' \in [Executions -> Records] /\ RecordsKept'
      /\ rec'[t] = q /\ \A u \in Executions : u # t => rec'[u] = rec[u]
  BY OneRecord DEF ExecutorSafe, Fits
<1>2. \A u \in Executions : Quiet(rec[u], rec'[u]) BY <1>1 DEF Quiet, Fits
<1>3. ExecutorTypeOK' BY <1>1 DEF ExecutorSafe, ExecutorTypeOK
<1>4. GateKept'
  <2>1. gate \in Seq(Executions) /\ \A i \in 1..Len(gate) : gate[i] \in Executions
    BY DEF ExecutorSafe, ExecutorTypeOK
  <2> QED BY <1>2, <2>1 DEF ExecutorSafe, GateKept, Quiet, Turn
<1>5. DisposalSound' BY <1>2 DEF ExecutorSafe, DisposalSound, Quiet
<1> QED BY <1>1, <1>3, <1>4, <1>5 DEF ExecutorSafe

----------------------------------------------------------------------------
(* The steps that take or give up a turn *)

\* A start gives up its turn, if it has one.
LEMMA LeaveStep ==
  ASSUME ExecutorTypeOK, GateKept, NEW t \in Executions, NEW q, q.phase \notin Turn, Leave(t),
         rec' = [rec EXCEPT ![t] = q]
  PROVE  gate' \in Seq(Executions) /\ GateKept'
<1>1. /\ gate \in Seq(Executions) /\ \A i \in 1..Len(gate) : gate[i] \in Executions
      /\ Range(gate) = {gate[i] : i \in 1..Len(gate)}
  BY DEF ExecutorTypeOK, Range
<1>2. rec'[t] = q /\ \A u \in Executions : u # t => rec'[u] = rec[u] BY DEF ExecutorTypeOK
<1>3. CASE t \notin Range(gate) /\ gate' = gate
  <2>1. \A i \in 1..Len(gate) : gate[i] # t BY <1>1, <1>3
  <2> QED BY <2>1, <1>1, <1>2, <1>3 DEF GateKept, Turn
<1>4. CASE \E i \in DOMAIN gate : gate[i] = t /\ gate' = RemoveAt(gate, i)
  <2>1. PICK i \in 1..Len(gate) : gate[i] = t /\ gate' = RemoveAt(gate, i) BY <1>1, <1>4
  <2>2. /\ gate' \in Seq(Executions) /\ Len(gate') = Len(gate) - 1
        /\ \A j \in 1..(Len(gate) - 1) : gate'[j] = IF j < i THEN gate[j] ELSE gate[j + 1]
    BY <1>1, <2>1, RemoveAtFacts
  <2>3. Len(gate) \in Nat BY <1>1
  <2> DEFINE o(j) == IF j < i THEN j ELSE j + 1
  <2>4. \A j \in 1..Len(gate') : o(j) \in 1..Len(gate) /\ o(j) # i /\ gate'[j] = gate[o(j)]
    BY <2>2, <2>3
  <2>5. \A j, k \in 1..Len(gate') : j # k => o(j) # o(k) BY <2>2, <2>3
  <2>6. \A k \in 1..Len(gate) : k # i => \E j \in 1..Len(gate') : o(j) = k
    <3> TAKE k \in 1..Len(gate)
    <3> HAVE k # i
    <3>1. CASE k < i BY <3>1, <2>2, <2>3
    <3>2. CASE k > i
      <4>1. k - 1 \in 1..Len(gate') /\ ~(k - 1 < i) /\ (k - 1) + 1 = k BY <3>2, <2>2, <2>3
      <4> QED BY <4>1
    <3> QED BY <3>1, <3>2
  <2>7. \A j \in 1..Len(gate') : gate'[j] # t BY <2>1, <2>4 DEF GateKept
  <2>8. 1 < i => o(1) = 1 OBVIOUS
  <2> HIDE DEF o
  <2>9. \A j \in 1..Len(gate') : rec'[gate'[j]].phase \in Turn
    BY <1>1, <1>2, <2>4, <2>7 DEF GateKept
  <2>10. \A j, k \in 1..Len(gate') : j # k => gate'[j] # gate'[k] BY <2>4, <2>5 DEF GateKept
  <2>11. \A u \in Executions : rec'[u].phase \in Turn => \E j \in 1..Len(gate') : gate'[j] = u
    <3> TAKE u \in Executions
    <3> HAVE rec'[u].phase \in Turn
    <3>1. u # t /\ rec'[u] = rec[u] BY <1>2
    <3>2. PICK k \in 1..Len(gate) : gate[k] = u BY <3>1 DEF GateKept
    <3>3. k # i BY <3>1, <3>2, <2>1
    <3> QED BY <3>2, <3>3, <2>4, <2>6
  <2>12. \A u \in Executions : rec'[u].phase \in {"preparing", "starting"} => gate'[1] = u
    <3> TAKE u \in Executions
    <3> HAVE rec'[u].phase \in {"preparing", "starting"}
    <3>1. rec'[u].phase \in Turn BY DEF Turn
    <3>2. u # t /\ rec'[u] = rec[u] BY <1>2, <3>1
    <3>3. gate[1] = u BY <3>2 DEF GateKept
    <3>4. i # 1 BY <3>3, <3>2, <2>1
    <3>5. 1 \in 1..Len(gate') /\ 1 < i BY <3>4, <2>2, <2>3
    <3> QED BY <3>3, <3>5, <2>4, <2>8
  <2> QED BY <2>2, <2>9, <2>10, <2>11, <2>12 DEF GateKept
<1> QED BY <1>3, <1>4 DEF Leave

\* A record without a turn takes the last one.
LEMMA TurnStep ==
  ASSUME ExecutorTypeOK, GateKept, NEW t \in Executions, NEW q, rec[t].phase \notin Turn, q.phase = "queued",
         gate' = Append(gate, t), rec' = [rec EXCEPT ![t] = q]
  PROVE  gate' \in Seq(Executions) /\ GateKept'
<1>1. gate \in Seq(Executions) /\ Len(gate) \in Nat /\ \A i \in 1..Len(gate) : gate[i] \in Executions
  BY DEF ExecutorTypeOK
<1>2. rec'[t] = q /\ \A u \in Executions : u # t => rec'[u] = rec[u] BY DEF ExecutorTypeOK
<1>3. /\ gate' \in Seq(Executions) /\ Len(gate') = Len(gate) + 1 /\ gate'[Len(gate) + 1] = t
      /\ \A i \in 1..Len(gate) : gate'[i] = gate[i]
  BY <1>1
<1>4. \A i \in 1..Len(gate) : gate[i] # t BY DEF GateKept
<1>5. \A i \in 1..Len(gate') : i \in 1..Len(gate) \/ i = Len(gate) + 1 BY <1>1, <1>3
<1>6. \A i \in 1..Len(gate') : rec'[gate'[i]].phase \in Turn
  BY <1>1, <1>2, <1>3, <1>4, <1>5 DEF GateKept, Turn
<1>7. \A i, j \in 1..Len(gate') : i # j => gate'[i] # gate'[j] BY <1>1, <1>3, <1>4, <1>5 DEF GateKept
<1>8. \A u \in Executions : rec'[u].phase \in Turn => \E i \in 1..Len(gate') : gate'[i] = u
  <2>1. Len(gate) + 1 \in 1..Len(gate') /\ \A i \in 1..Len(gate) : i \in 1..Len(gate') BY <1>1, <1>3
  <2> QED BY <2>1, <1>2, <1>3 DEF GateKept
<1>9. \A u \in Executions : rec'[u].phase \in {"preparing", "starting"} => gate'[1] = u
  <2> TAKE u \in Executions
  <2> HAVE rec'[u].phase \in {"preparing", "starting"}
  <2>1. u # t /\ rec'[u] = rec[u] BY <1>2
  <2>2. gate[1] = u BY <2>1 DEF GateKept
  <2>3. \E i \in 1..Len(gate) : gate[i] = u BY <2>1 DEF GateKept, Turn
  <2>4. 1 \in 1..Len(gate) BY <2>3, <1>1
  <2> QED BY <2>2, <2>4, <1>3
<1> QED BY <1>3, <1>6, <1>7, <1>8, <1>9 DEF GateKept

\* Two steps of a record in a row.
LEMMA FitsThrough ==
  ASSUME NEW r, NEW e, NEW q, Fits(r, e), Fits(e, q)
  PROVE  Fits(r, q)
BY DEF Fits, Quiet

\* startCore and what its cleanups come to
LEMMA CoreCleanedKeeps ==
  ASSUME ExecutorSafe, NEW t \in Executions, CoreCleaned(t)
  PROVE  ExecutorSafe'
<1> DEFINE r == rec[t]
<1>1. r \in Records /\ RecordKept(r) /\ pumpFaults \subseteq Executions
  BY DEF ExecutorSafe, ExecutorTypeOK, RecordsKept
<1>2. r.phase = "cleaning" BY DEF CoreCleaned
<1>3. CASE ~StoppedStart(r)
  <2> DEFINE q == Rejected(r)
  <2>1. Fits(r, q) BY <1>1, <1>2, <1>3, CoreCleanedKept
  <2>2. PutRecord(t, q) BY <1>3 DEF CoreCleaned
  <2>3. UNCHANGED <<gate, execDisposed, execDisposal, runtimeOp>> /\ pumpFaults' \subseteq Executions
    BY <1>1 DEF CoreCleaned, nodeVars
  <2> HIDE DEF q
  <2> QED BY <2>1, <2>2, <2>3, QuietStep
<1>4. CASE StoppedStart(r) /\ r.cancelOp # "none" /\ r.keep /\ MustTell(r)
  <2> DEFINE q == [Announce(r) EXCEPT !.phase = "announcing"]
  <2>1. Fits(r, q) BY <1>1, <1>2, <1>4, CleanedTellsKept
  <2>2. PutRecord(t, q) BY <1>4 DEF CoreCleaned
  <2>3. UNCHANGED <<gate, execDisposed, execDisposal, runtimeOp>> /\ pumpFaults' \subseteq Executions
    BY <1>1 DEF CoreCleaned, nodeVars
  <2> HIDE DEF q
  <2> QED BY <2>1, <2>2, <2>3, QuietStep
<1>5. CASE StoppedStart(r) /\ r.cancelOp # "none" /\ r.keep /\ ~MustTell(r)
  <2> DEFINE q == Rejected(Announce(r))
  <2>1. Fits(r, q) BY <1>1, <1>2, <1>5, CleanedEndsKept
  <2>2. PutRecord(t, q) BY <1>5 DEF CoreCleaned
  <2>3. UNCHANGED <<gate, execDisposed, execDisposal, runtimeOp>> /\ pumpFaults' \subseteq Executions
    BY <1>1 DEF CoreCleaned, nodeVars
  <2> HIDE DEF q
  <2> QED BY <2>1, <2>2, <2>3, QuietStep
<1>6. CASE StoppedStart(r) /\ r.cancelOp = "none" /\ r.keep
  <2> DEFINE q == Rejected(r)
  <2>1. Fits(r, q) BY <1>1, <1>2, <1>6, CoreCleanedKept
  <2>2. PutRecord(t, q) BY <1>6 DEF CoreCleaned
  <2>3. UNCHANGED <<gate, execDisposed, execDisposal, runtimeOp>> /\ pumpFaults' \subseteq Executions
    BY <1>1 DEF CoreCleaned, nodeVars
  <2> HIDE DEF q
  <2> QED BY <2>1, <2>2, <2>3, QuietStep
<1>7. CASE StoppedStart(r) /\ ~r.keep
  <2> DEFINE q == Rejected([r EXCEPT !.active = FALSE])
  <2>1. Fits(r, q) BY <1>1, <1>2, <1>7, CleanedDropsKept
  <2>2. PutRecord(t, q) BY <1>7 DEF CoreCleaned
  <2>3. UNCHANGED <<gate, execDisposed, execDisposal, runtimeOp>> /\ pumpFaults' \subseteq Executions
    BY <1>1 DEF CoreCleaned, nodeVars
  <2> HIDE DEF q
  <2> QED BY <2>1, <2>2, <2>3, QuietStep
<1> QED BY <1>3, <1>4, <1>5, <1>6, <1>7 DEF CoreCleaned

LEMMA CoreAnnouncedKeeps ==
  ASSUME ExecutorSafe, NEW t \in Executions, CoreAnnounced(t)
  PROVE  ExecutorSafe'
<1> DEFINE r == rec[t]
<1>1. r \in Records /\ RecordKept(r) /\ pumpFaults \subseteq Executions
  BY DEF ExecutorSafe, ExecutorTypeOK, RecordsKept
<1>2. r.phase = "announcing" BY DEF CoreAnnounced
<1>3. CASE PutRecord(t, Rejected([Publish(r, "cancelled") EXCEPT !.told = TRUE]))
  <2> DEFINE q == Rejected([Publish(r, "cancelled") EXCEPT !.told = TRUE])
  <2>1. Fits(r, q) BY <1>1, <1>2, <1>3, AnnouncedKept
  <2>2. PutRecord(t, q) BY <1>3 DEF CoreAnnounced
  <2>3. UNCHANGED <<gate, execDisposed, execDisposal, runtimeOp>> /\ pumpFaults' \subseteq Executions
    BY <1>1 DEF CoreAnnounced, nodeVars
  <2> HIDE DEF q
  <2> QED BY <2>1, <2>2, <2>3, QuietStep
<1>4. CASE PutRecord(t, Rejected(r))
  <2> DEFINE q == Rejected(r)
  <2>1. Fits(r, q) BY <1>1, <1>2, <1>4, AnnounceFailsKept
  <2>2. PutRecord(t, q) BY <1>4 DEF CoreAnnounced
  <2>3. UNCHANGED <<gate, execDisposed, execDisposal, runtimeOp>> /\ pumpFaults' \subseteq Executions
    BY <1>1 DEF CoreAnnounced, nodeVars
  <2> HIDE DEF q
  <2> QED BY <2>1, <2>2, <2>3, QuietStep
<1> QED BY <1>3, <1>4 DEF CoreAnnounced

\* cancel, disposeTask and the operations they start
LEMMA CancelExecutionKeeps ==
  ASSUME ExecutorSafe, NEW t \in Executions, CancelExecution(t)
  PROVE  ExecutorSafe'
<1> DEFINE r == rec[t]
<1>1. r \in Records /\ RecordKept(r) /\ pumpFaults \subseteq Executions
  BY DEF ExecutorSafe, ExecutorTypeOK, RecordsKept
<1>2. r.phase # "none" BY DEF CancelExecution
<1>3. CASE PutRecord(t, [r EXCEPT !.notify = TRUE])
  <2> DEFINE q == [r EXCEPT !.notify = TRUE]
  <2>1. Fits(r, q) BY <1>1, <1>2, <1>3, NotifyKept
  <2>2. PutRecord(t, q) BY <1>3 DEF CancelExecution
  <2>3. UNCHANGED <<gate, execDisposed, execDisposal, runtimeOp>> /\ pumpFaults' \subseteq Executions
    BY <1>1 DEF CancelExecution, nodeVars
  <2> HIDE DEF q
  <2> QED BY <2>1, <2>2, <2>3, QuietStep
<1>4. CASE r.cancelOp = "none" /\ ~r.active /\ ~r.terminal /\ PutRecord(t, CancelBeforeStart([r EXCEPT !.notify = TRUE]))
  <2> DEFINE q == CancelBeforeStart([r EXCEPT !.notify = TRUE])
  <2> DEFINE e == [r EXCEPT !.notify = TRUE]
  <2>1. Fits(r, e) BY <1>1, NotifyKept
  <2>2. e.phase # "none" /\ e.cancelOp = "none" /\ ~e.active /\ ~e.terminal
    BY <1>1, <1>2, <1>4 DEF Records
  <2> HIDE DEF e
  <2>3. Fits(e, CancelBeforeStart(e)) BY <2>1, <2>2, CancelBeforeStartKept DEF Fits
  <2>4. Fits(r, q) BY <2>1, <2>3, FitsThrough DEF e
  <2>5. PutRecord(t, q) BY <1>4 DEF CancelExecution
  <2>6. UNCHANGED <<gate, execDisposed, execDisposal, runtimeOp>> /\ pumpFaults' \subseteq Executions
    BY <1>1 DEF CancelExecution, nodeVars
  <2> HIDE DEF q
  <2> QED BY <2>4, <2>5, <2>6, QuietStep
<1>5. CASE r.active /\ PutRecord(t, CancelHandle(r))
  <2> DEFINE q == CancelHandle(r)
  <2>1. Fits(r, q) BY <1>1, <1>2, <1>5, CancelHandleKept
  <2>2. PutRecord(t, q) BY <1>5 DEF CancelExecution
  <2>3. UNCHANGED <<gate, execDisposed, execDisposal, runtimeOp>> /\ pumpFaults' \subseteq Executions
    BY <1>1 DEF CancelExecution, nodeVars
  <2> HIDE DEF q
  <2> QED BY <2>1, <2>2, <2>3, QuietStep
<1> QED BY <1>3, <1>4, <1>5 DEF CancelExecution

LEMMA DisposeTaskKeeps ==
  ASSUME ExecutorSafe, NEW t \in Executions, DisposeTask(t)
  PROVE  ExecutorSafe'
<1> DEFINE r == rec[t]
<1>1. r \in Records /\ RecordKept(r) /\ pumpFaults \subseteq Executions
  BY DEF ExecutorSafe, ExecutorTypeOK, RecordsKept
<1>2. r.phase # "none" /\ r.cancelOp = "none" BY DEF DisposeTask
<1>3. CASE ~r.active /\ ~r.terminal /\ PutRecord(t, CancelBeforeStart(r))
  <2> DEFINE q == CancelBeforeStart(r)
  <2>1. Fits(r, q) BY <1>1, <1>2, <1>3, CancelBeforeStartKept
  <2>2. PutRecord(t, q) BY <1>3 DEF DisposeTask
  <2>3. UNCHANGED <<gate, execDisposed, execDisposal, runtimeOp>> /\ pumpFaults' \subseteq Executions
    BY <1>1 DEF DisposeTask, nodeVars
  <2> HIDE DEF q
  <2> QED BY <2>1, <2>2, <2>3, QuietStep
<1>4. CASE r.active /\ PutRecord(t, StopActive(r))
  <2> DEFINE q == StopActive(r)
  <2>1. Fits(r, q) BY <1>1, <1>2, <1>4, StopActiveKept
  <2>2. PutRecord(t, q) BY <1>4 DEF DisposeTask
  <2>3. UNCHANGED <<gate, execDisposed, execDisposal, runtimeOp>> /\ pumpFaults' \subseteq Executions
    BY <1>1 DEF DisposeTask, nodeVars
  <2> HIDE DEF q
  <2> QED BY <2>1, <2>2, <2>3, QuietStep
<1> QED BY <1>3, <1>4 DEF DisposeTask

LEMMA ScopedCancelKeeps ==
  ASSUME ExecutorSafe, NEW t \in Executions, ScopedCancel(t)
  PROVE  ExecutorSafe'
<1> DEFINE r == rec[t]
<1>1. r \in Records /\ RecordKept(r) /\ pumpFaults \subseteq Executions
  BY DEF ExecutorSafe, ExecutorTypeOK, RecordsKept
<1>2. r.cancelOp = "scoped" BY DEF ScopedCancel
<1>3. CASE r.phase # "starting" /\ PutRecord(t, [r EXCEPT !.cancelOp = "waiting", !.scoped = TRUE, !.agent = IF @ = "working" THEN "ended" ELSE @])
  <2> DEFINE q == [r EXCEPT !.cancelOp = "waiting", !.scoped = TRUE, !.agent = IF @ = "working" THEN "ended" ELSE @]
  <2>1. Fits(r, q) BY <1>1, <1>2, <1>3, ScopedKept
  <2>2. PutRecord(t, q) BY <1>3 DEF ScopedCancel
  <2>3. UNCHANGED <<gate, execDisposed, execDisposal, runtimeOp>> /\ pumpFaults' \subseteq Executions
    BY <1>1 DEF ScopedCancel, nodeVars
  <2> HIDE DEF q
  <2> QED BY <2>1, <2>2, <2>3, QuietStep
<1>4. CASE PutRecord(t, [r EXCEPT !.cancelOp = "failed"])
  <2> DEFINE q == [r EXCEPT !.cancelOp = "failed"]
  <2>1. Fits(r, q) BY <1>1, <1>2, <1>4, CancelFailsKept
  <2>2. PutRecord(t, q) BY <1>4 DEF ScopedCancel
  <2>3. UNCHANGED <<gate, execDisposed, execDisposal, runtimeOp>> /\ pumpFaults' \subseteq Executions
    BY <1>1 DEF ScopedCancel, nodeVars
  <2> HIDE DEF q
  <2> QED BY <2>1, <2>2, <2>3, QuietStep
<1> QED BY <1>3, <1>4 DEF ScopedCancel

LEMMA CancelWaitedKeeps ==
  ASSUME ExecutorSafe, NEW t \in Executions, CancelWaited(t)
  PROVE  ExecutorSafe'
<1> DEFINE r == rec[t]
<1>1. r \in Records /\ RecordKept(r) /\ pumpFaults \subseteq Executions
  BY DEF ExecutorSafe, ExecutorTypeOK, RecordsKept
<1>2. r.cancelOp = "waiting" /\ r.phase \in {"started", "rejected"} BY DEF CancelWaited
<1>3. CASE r.unclean /\ ~r.scoped
  <2> DEFINE q == [r EXCEPT !.cancelOp = "failed"]
  <2>1. Fits(r, q) BY <1>1, <1>2, <1>3, CancelFailsKept
  <2>2. PutRecord(t, q) BY <1>3 DEF CancelWaited
  <2>3. UNCHANGED <<gate, execDisposed, execDisposal, runtimeOp>> /\ pumpFaults' \subseteq Executions
    BY <1>1 DEF CancelWaited, nodeVars
  <2> HIDE DEF q
  <2> QED BY <2>1, <2>2, <2>3, QuietStep
<1>4. CASE ~(r.unclean /\ ~r.scoped) /\ r.active /\ ~StoppedStart(r)
  <2> DEFINE q == [StopActive(r) EXCEPT !.cancelOp = "stopping"]
  <2>1. Fits(r, q) BY <1>1, <1>2, <1>4, CancelStopsKept
  <2>2. PutRecord(t, q) BY <1>4 DEF CancelWaited
  <2>3. UNCHANGED <<gate, execDisposed, execDisposal, runtimeOp>> /\ pumpFaults' \subseteq Executions
    BY <1>1 DEF CancelWaited, nodeVars
  <2> HIDE DEF q
  <2> QED BY <2>1, <2>2, <2>3, QuietStep
<1>5. CASE ~(r.unclean /\ ~r.scoped) /\ ~(r.active /\ ~StoppedStart(r))
  <2> DEFINE q == Confirm(r)
  <2>1. r.agent # "working" BY <1>1, <1>2, <1>5 DEF StoppedStart, RecordKept, CancelKept
  <2>2. Fits(r, q) BY <1>1, <1>2, <2>1, ConfirmKept
  <2>3. PutRecord(t, q) BY <1>5 DEF CancelWaited
  <2>4. UNCHANGED <<gate, execDisposed, execDisposal, runtimeOp>> /\ pumpFaults' \subseteq Executions
    BY <1>1 DEF CancelWaited, nodeVars
  <2> HIDE DEF q
  <2> QED BY <2>2, <2>3, <2>4, QuietStep
<1> QED BY <1>3, <1>4, <1>5 DEF CancelWaited

LEMMA CancelStoppedKeeps ==
  ASSUME ExecutorSafe, NEW t \in Executions, CancelStopped(t)
  PROVE  ExecutorSafe'
<1> DEFINE r == rec[t]
<1>1. r \in Records /\ RecordKept(r) /\ pumpFaults \subseteq Executions
  BY DEF ExecutorSafe, ExecutorTypeOK, RecordsKept
<1>2. r.cancelOp = "stopping" BY DEF CancelStopped
<1>3. CASE StoppedStart(r)
  <2> DEFINE q == Confirm(r)
  <2>1. r.agent # "working" /\ r.phase \in {"started", "rejected"}
    BY <1>1, <1>2, <1>3 DEF StoppedStart, RecordKept, CancelKept
  <2>2. Fits(r, q) BY <1>1, <1>2, <2>1, ConfirmKept
  <2>3. PutRecord(t, q) BY <1>3 DEF CancelStopped
  <2>4. UNCHANGED <<gate, execDisposed, execDisposal, runtimeOp>> /\ pumpFaults' \subseteq Executions
    BY <1>1 DEF CancelStopped, nodeVars
  <2> HIDE DEF q
  <2> QED BY <2>2, <2>3, <2>4, QuietStep
<1>4. CASE ~StoppedStart(r)
  <2> DEFINE q == [r EXCEPT !.cancelOp = "failed"]
  <2>1. Fits(r, q) BY <1>1, <1>2, <1>4, CancelFailsKept
  <2>2. PutRecord(t, q) BY <1>4 DEF CancelStopped
  <2>3. UNCHANGED <<gate, execDisposed, execDisposal, runtimeOp>> /\ pumpFaults' \subseteq Executions
    BY <1>1 DEF CancelStopped, nodeVars
  <2> HIDE DEF q
  <2> QED BY <2>1, <2>2, <2>3, QuietStep
<1> QED BY <1>3, <1>4 DEF CancelStopped

LEMMA CancelPublishedKeeps ==
  ASSUME ExecutorSafe, NEW t \in Executions, CancelPublished(t)
  PROVE  ExecutorSafe'
<1> DEFINE r == rec[t]
<1>1. r \in Records /\ RecordKept(r) /\ pumpFaults \subseteq Executions
  BY DEF ExecutorSafe, ExecutorTypeOK, RecordsKept
<1>2. r.cancelOp = "publishing" BY DEF CancelPublished
<1>3. CASE PutRecord(t, [Publish(r, "cancelled") EXCEPT !.told = TRUE, !.cancelOp = "done"])
  <2> DEFINE q == [Publish(r, "cancelled") EXCEPT !.told = TRUE, !.cancelOp = "done"]
  <2>1. Fits(r, q) BY <1>1, <1>2, <1>3, CancelPublishedKept
  <2>2. PutRecord(t, q) BY <1>3 DEF CancelPublished
  <2>3. UNCHANGED <<gate, execDisposed, execDisposal, runtimeOp>> /\ pumpFaults' \subseteq Executions
    BY <1>1 DEF CancelPublished, nodeVars
  <2> HIDE DEF q
  <2> QED BY <2>1, <2>2, <2>3, QuietStep
<1>4. CASE PutRecord(t, [r EXCEPT !.cancelOp = "failed"])
  <2> DEFINE q == [r EXCEPT !.cancelOp = "failed"]
  <2>1. Fits(r, q) BY <1>1, <1>2, <1>4, CancelFailsKept
  <2>2. PutRecord(t, q) BY <1>4 DEF CancelPublished
  <2>3. UNCHANGED <<gate, execDisposed, execDisposal, runtimeOp>> /\ pumpFaults' \subseteq Executions
    BY <1>1 DEF CancelPublished, nodeVars
  <2> HIDE DEF q
  <2> QED BY <2>1, <2>2, <2>3, QuietStep
<1> QED BY <1>3, <1>4 DEF CancelPublished

\* The deadline
LEMMA DeadlineKeeps ==
  ASSUME ExecutorSafe, NEW t \in Executions, Deadline(t)
  PROVE  ExecutorSafe'
<1> DEFINE r == rec[t]
<1>1. r \in Records /\ RecordKept(r) /\ pumpFaults \subseteq Executions
  BY DEF ExecutorSafe, ExecutorTypeOK, RecordsKept
<1>2. CASE r.active
  <2> DEFINE q == [StopActive([r EXCEPT !.armed = FALSE, !.expired = TRUE]) EXCEPT !.deadlineOp = "stop"]
  <2> DEFINE e == [r EXCEPT !.armed = FALSE, !.expired = TRUE]
  <2>1. Fits(r, e) BY <1>1, ExpireKept
  <2>2. e.active BY <1>1, <1>2 DEF Records
  <2> HIDE DEF e
  <2> DEFINE f == StopActive(e)
  <2>3. Fits(e, f) BY <2>1, <2>2, StopActiveKept DEF Fits
  <2> HIDE DEF f
  <2>4. Fits(f, [f EXCEPT !.deadlineOp = "stop"]) BY <2>3, DeadlineStopKept DEF Fits
  <2>5. Fits(r, q) BY <2>1, <2>3, <2>4, FitsThrough DEF f, e
  <2>6. PutRecord(t, q) BY <1>2 DEF Deadline
  <2>7. UNCHANGED <<gate, execDisposed, execDisposal, runtimeOp>> /\ pumpFaults' \subseteq Executions
    BY <1>1 DEF Deadline, nodeVars
  <2> HIDE DEF q
  <2> QED BY <2>5, <2>6, <2>7, QuietStep
<1>3. CASE ~r.active /\ r.phase = "starting"
  <2> DEFINE q == [[r EXCEPT !.armed = FALSE, !.expired = TRUE] EXCEPT !.deadlineOp = "scoped"]
  <2> DEFINE e == [r EXCEPT !.armed = FALSE, !.expired = TRUE]
  <2>1. Fits(r, e) BY <1>1, ExpireKept
  <2> HIDE DEF e
  <2>2. Fits(e, [e EXCEPT !.deadlineOp = "scoped"]) BY <2>1, DeadlineScopedKept DEF Fits
  <2>3. Fits(r, q) BY <2>1, <2>2, FitsThrough DEF e
  <2>4. PutRecord(t, q) BY <1>3 DEF Deadline
  <2>5. UNCHANGED <<gate, execDisposed, execDisposal, runtimeOp>> /\ pumpFaults' \subseteq Executions
    BY <1>1 DEF Deadline, nodeVars
  <2> HIDE DEF q
  <2> QED BY <2>3, <2>4, <2>5, QuietStep
<1>4. CASE ~r.active /\ r.phase # "starting"
  <2> DEFINE q == [r EXCEPT !.armed = FALSE, !.expired = TRUE]
  <2>1. Fits(r, q) BY <1>1, <1>4, ExpireKept
  <2>2. PutRecord(t, q) BY <1>4 DEF Deadline
  <2>3. UNCHANGED <<gate, execDisposed, execDisposal, runtimeOp>> /\ pumpFaults' \subseteq Executions
    BY <1>1 DEF Deadline, nodeVars
  <2> HIDE DEF q
  <2> QED BY <2>1, <2>2, <2>3, QuietStep
<1> QED BY <1>2, <1>3, <1>4 DEF Deadline

LEMMA DeadlineSettlesKeeps ==
  ASSUME ExecutorSafe, NEW t \in Executions, DeadlineSettles(t)
  PROVE  ExecutorSafe'
<1> DEFINE r == rec[t]
<1>1. r \in Records /\ RecordKept(r) /\ pumpFaults \subseteq Executions
  BY DEF ExecutorSafe, ExecutorTypeOK, RecordsKept
<1>2. CASE PutRecord(t, [r EXCEPT !.deadlineOp = "none"])
  <2> DEFINE q == [r EXCEPT !.deadlineOp = "none"]
  <2>1. Fits(r, q) BY <1>1, <1>2, DeadlineNoneKept
  <2>2. PutRecord(t, q) BY <1>2 DEF DeadlineSettles
  <2>3. UNCHANGED <<gate, execDisposed, execDisposal, runtimeOp>> /\ pumpFaults' \subseteq Executions
    BY <1>1 DEF DeadlineSettles, nodeVars
  <2> HIDE DEF q
  <2> QED BY <2>1, <2>2, <2>3, QuietStep
<1>3. CASE PutRecord(t, [r EXCEPT !.deadlineOp = "none", !.agent = IF @ = "working" THEN "ended" ELSE @])
  <2> DEFINE q == [r EXCEPT !.deadlineOp = "none", !.agent = IF @ = "working" THEN "ended" ELSE @]
  <2>1. Fits(r, q) BY <1>1, <1>3, DeadlineEndsKept
  <2>2. PutRecord(t, q) BY <1>3 DEF DeadlineSettles
  <2>3. UNCHANGED <<gate, execDisposed, execDisposal, runtimeOp>> /\ pumpFaults' \subseteq Executions
    BY <1>1 DEF DeadlineSettles, nodeVars
  <2> HIDE DEF q
  <2> QED BY <2>1, <2>2, <2>3, QuietStep
<1> QED BY <1>2, <1>3 DEF DeadlineSettles

\* The handle
LEMMA HandleCancelledKeeps ==
  ASSUME ExecutorSafe, NEW t \in Executions, NEW ok \in BOOLEAN, HandleCancelled(t, ok)
  PROVE  ExecutorSafe'
<1> DEFINE r == rec[t]
<1>1. r \in Records /\ RecordKept(r) /\ pumpFaults \subseteq Executions
  BY DEF ExecutorSafe, ExecutorTypeOK, RecordsKept
<1>2. r.cancelH = "pending" BY DEF HandleCancelled
<1>3. CASE ok
  <2> DEFINE q == [[r EXCEPT !.cancelH = "yes"] EXCEPT !.agent = IF @ = "working" THEN "ended" ELSE @]
  <2>1. Fits(r, q) BY <1>1, <1>2, <1>3, HandleCancelledKept
  <2>2. PutRecord(t, q) BY <1>3 DEF HandleCancelled, SettleStop
  <2>3. UNCHANGED <<gate, execDisposed, execDisposal, runtimeOp>> /\ pumpFaults' \subseteq Executions
    BY <1>1 DEF HandleCancelled, nodeVars
  <2> HIDE DEF q
  <2> QED BY <2>1, <2>2, <2>3, QuietStep
<1>4. CASE ~ok
  <2> DEFINE q == [r EXCEPT !.cancelH = "no"]
  <2>1. Fits(r, q) BY <1>1, <1>2, <1>4, HandleCancelledNotKept
  <2>2. PutRecord(t, q) BY <1>4 DEF HandleCancelled, SettleStop
  <2>3. UNCHANGED <<gate, execDisposed, execDisposal, runtimeOp>> /\ pumpFaults' \subseteq Executions
    BY <1>1 DEF HandleCancelled, nodeVars
  <2> HIDE DEF q
  <2> QED BY <2>1, <2>2, <2>3, QuietStep
<1> QED BY <1>3, <1>4 DEF HandleCancelled, SettleStop

LEMMA HandleDisposedKeeps ==
  ASSUME ExecutorSafe, NEW t \in Executions, NEW ok \in BOOLEAN, HandleDisposed(t, ok)
  PROVE  ExecutorSafe'
<1> DEFINE r == rec[t]
<1>1. r \in Records /\ RecordKept(r) /\ pumpFaults \subseteq Executions
  BY DEF ExecutorSafe, ExecutorTypeOK, RecordsKept
<1>2. r.disposeH = "pending" BY DEF HandleDisposed
<1>3. CASE ok
  <2> DEFINE q == [[r EXCEPT !.disposeH = "yes"] EXCEPT !.agent = IF @ = "working" THEN "ended" ELSE @]
  <2>1. Fits(r, q) BY <1>1, <1>2, <1>3, HandleDisposedKept
  <2>2. PutRecord(t, q) BY <1>3 DEF HandleDisposed, SettleStop
  <2>3. UNCHANGED <<gate, execDisposed, execDisposal, runtimeOp>> /\ pumpFaults' \subseteq Executions
    BY <1>1 DEF HandleDisposed, nodeVars
  <2> HIDE DEF q
  <2> QED BY <2>1, <2>2, <2>3, QuietStep
<1>4. CASE ~ok
  <2> DEFINE q == [r EXCEPT !.disposeH = "no"]
  <2>1. Fits(r, q) BY <1>1, <1>2, <1>4, HandleDisposedNotKept
  <2>2. PutRecord(t, q) BY <1>4 DEF HandleDisposed, SettleStop
  <2>3. UNCHANGED <<gate, execDisposed, execDisposal, runtimeOp>> /\ pumpFaults' \subseteq Executions
    BY <1>1 DEF HandleDisposed, nodeVars
  <2> HIDE DEF q
  <2> QED BY <2>1, <2>2, <2>3, QuietStep
<1> QED BY <1>3, <1>4 DEF HandleDisposed, SettleStop

\* The pump
LEMMA PumpReadsKeeps ==
  ASSUME ExecutorSafe, NEW t \in Executions, NEW kind \in Kinds, PumpReads(t, kind)
  PROVE  ExecutorSafe'
<1> DEFINE r == IF rec[t].closed THEN rec[t] ELSE [rec[t] EXCEPT !.agent = "ended"]
<1>1. rec[t] \in Records /\ RecordKept(rec[t]) /\ pumpFaults \subseteq Executions
  BY DEF ExecutorSafe, ExecutorTypeOK, RecordsKept
<1>2. Fits(rec[t], rec[t]) BY <1>1 DEF Fits, Quiet
<1>3. Fits(rec[t], r) BY <1>1, <1>2, AgentEndedKept
<1>4. rec[t].pump = "reading" /\ (rec[t].closed => kind = "failed") BY DEF PumpReads
<1>5. r.pump = "reading" /\ (kind = "cancelled" => r.agent # "working") BY <1>1, <1>4 DEF Records
<1>6. \/ PutRecord(t, PumpFinally(r))
      \/ ~r.terminal /\ PutRecord(t, [r EXCEPT !.pump = "publishing", !.out = kind])
  BY DEF PumpReads
<1>7. UNCHANGED <<gate, execDisposed, execDisposal, runtimeOp>> /\ pumpFaults' \subseteq Executions
  BY <1>1 DEF PumpReads, nodeVars
<1> HIDE DEF r
<1>8. CASE PutRecord(t, PumpFinally(r))
  <2>1. Fits(r, PumpFinally(r)) BY <1>3, <1>5, PumpFinallyKept DEF Fits
  <2>2. Fits(rec[t], PumpFinally(r)) BY <1>3, <2>1, FitsThrough
  <2> QED BY <1>7, <1>8, <2>2, QuietStep
<1>9. CASE ~r.terminal /\ PutRecord(t, [r EXCEPT !.pump = "publishing", !.out = kind])
  <2> DEFINE q == [r EXCEPT !.pump = "publishing", !.out = kind]
  <2>1. Fits(r, q) BY <1>3, <1>5, <1>9, PumpPublishesKept DEF Fits
  <2>2. Fits(rec[t], q) BY <1>3, <2>1, FitsThrough
  <2> HIDE DEF q
  <2>3. PutRecord(t, q) BY <1>9 DEF q
  <2> QED BY <1>7, <2>3, <2>2, QuietStep
<1> QED BY <1>6, <1>8, <1>9

LEMMA PumpPublishedKeeps ==
  ASSUME ExecutorSafe, NEW t \in Executions, PumpPublished(t)
  PROVE  ExecutorSafe'
<1> DEFINE r == rec[t]
           q == PumpFinally([Publish(r, r.out) EXCEPT !.terminal = TRUE])
<1>1. r \in Records /\ RecordKept(r) /\ pumpFaults \subseteq Executions
  BY DEF ExecutorSafe, ExecutorTypeOK, RecordsKept
<1>2. r.pump = "publishing" BY DEF PumpPublished
<1>3. Fits(r, q) BY <1>1, <1>2, PumpPublishedKept
<1>4. PutRecord(t, q) BY DEF PumpPublished
<1>5. UNCHANGED <<gate, execDisposed, execDisposal, runtimeOp>> /\ pumpFaults' \subseteq Executions
  BY <1>1 DEF PumpPublished, nodeVars
<1> HIDE DEF q
<1> QED BY <1>3, <1>4, <1>5, QuietStep

LEMMA PumpPublishFailsKeeps ==
  ASSUME ExecutorSafe, NEW t \in Executions, PumpPublishFails(t)
  PROVE  ExecutorSafe'
<1> DEFINE r == rec[t]
           q == CleanUp([r EXCEPT !.pump = "failing"])
<1>1. r \in Records /\ RecordKept(r) /\ pumpFaults \subseteq Executions
  BY DEF ExecutorSafe, ExecutorTypeOK, RecordsKept
<1>2. r.pump = "publishing" BY DEF PumpPublishFails
<1>3. Fits(r, q) BY <1>1, <1>2, PumpPublishFailsKept
<1>4. PutRecord(t, q) BY DEF PumpPublishFails
<1>5. UNCHANGED <<gate, execDisposed, execDisposal, runtimeOp>> /\ pumpFaults' \subseteq Executions
  BY <1>1 DEF PumpPublishFails, nodeVars
<1> HIDE DEF q
<1> QED BY <1>3, <1>4, <1>5, QuietStep

LEMMA PumpFailedKeeps ==
  ASSUME ExecutorSafe, NEW t \in Executions, PumpFailed(t)
  PROVE  ExecutorSafe'
<1> DEFINE r == rec[t]
           q == PumpFinally(r)
<1>1. r \in Records /\ RecordKept(r) /\ pumpFaults \subseteq Executions
  BY DEF ExecutorSafe, ExecutorTypeOK, RecordsKept
<1>2. r.pump = "failing" BY DEF PumpFailed
<1>3. Fits(r, q) BY <1>1, <1>2, PumpFinallyKept
<1>4. PutRecord(t, q) BY DEF PumpFailed
<1>5. UNCHANGED <<gate, execDisposed, execDisposal, runtimeOp>> /\ pumpFaults' \subseteq Executions
  BY <1>1 DEF PumpFailed, nodeVars
<1> HIDE DEF q
<1> QED BY <1>3, <1>4, <1>5, QuietStep

LEMMA PumpEndsKeeps ==
  ASSUME ExecutorSafe, NEW t \in Executions, PumpEnds(t)
  PROVE  ExecutorSafe'
<1> DEFINE r == rec[t]
           q == [r EXCEPT !.pump = "done", !.active = r.active /\ ~(r.disposeH = "yes" /\ (r.cleanup => StoppedStart(r)))]
<1>1. r \in Records /\ RecordKept(r) /\ pumpFaults \subseteq Executions
  BY DEF ExecutorSafe, ExecutorTypeOK, RecordsKept
<1>2. r.pump = "cleanup" BY DEF PumpEnds
<1>3. Fits(r, q) BY <1>1, <1>2, PumpEndsKept
<1>4. PutRecord(t, q) BY DEF PumpEnds
<1>5. UNCHANGED <<gate, execDisposed, execDisposal, runtimeOp>> /\ pumpFaults' \subseteq Executions
  BY <1>1 DEF PumpEnds, nodeVars
<1> HIDE DEF q
<1> QED BY <1>3, <1>4, <1>5, QuietStep

----------------------------------------------------------------------------
(* The steps of a start that take a turn, give it up or end with an agent *)

\* What the disposal of the executor asks of a record.
Allowed(q) ==
  /\ runtimeOp = "yes" => q.phase # "starting" /\ q.agent # "working"
  /\ execDisposal = "handles" => q.phase \in {"none", "started", "rejected"}
  /\ execDisposal = "done" => q.phase = "none" /\ q.agent # "working"

LEMMA StartStep ==
  ASSUME ExecutorSafe, NEW t \in Executions, NEW q \in Records, RecordKept(q), Allowed(q), PutRecord(t, q),
         gate' \in Seq(Executions), GateKept', UNCHANGED <<execDisposed, execDisposal, runtimeOp, pumpFaults>>
  PROVE  ExecutorSafe'
<1>1. /\ rec' \in [Executions -> Records] /\ RecordsKept'
      /\ rec'[t] = q /\ \A u \in Executions : u # t => rec'[u] = rec[u]
  BY OneRecord DEF ExecutorSafe
<1>2. ExecutorTypeOK' BY <1>1 DEF ExecutorSafe, ExecutorTypeOK
<1>3. DisposalSound'
  <2>1. \A u \in Executions : Allowed(rec'[u]) BY <1>1 DEF Allowed, ExecutorSafe, DisposalSound
  <2> QED BY <2>1 DEF Allowed, ExecutorSafe, DisposalSound
<1> QED BY <1>1, <1>2, <1>3 DEF ExecutorSafe

\* Nothing is asked of a record before the disposal, and a start that has not
\* returned stands in the way of the runtime's.
LEMMA OpenAllows ==
  ASSUME ExecutorSafe, ~execDisposed, NEW q
  PROVE  Allowed(q)
BY DEF ExecutorSafe, ExecutorTypeOK, DisposalSound, Allowed, Promise

LEMMA StartingAllows ==
  ASSUME ExecutorSafe, NEW t \in Executions, rec[t].phase = "starting", NEW q
  PROVE  Allowed(q)
BY DEF ExecutorSafe, DisposalSound, Allowed

LEMMA StartExecutionKeeps ==
  ASSUME ExecutorSafe, NEW t \in Executions, StartExecution(t)
  PROVE  ExecutorSafe'
<1> DEFINE r == rec[t]
           q == [r EXCEPT !.asked = TRUE, !.phase = "checking", !.armed = TRUE]
<1>1. r \in Records /\ RecordKept(r) /\ ~r.asked /\ ~execDisposed /\ gate \in Seq(Executions)
  BY DEF ExecutorSafe, ExecutorTypeOK, RecordsKept, StartExecution
<1>2. q \in Records /\ RecordKept(q) BY <1>1, BeginKept
<1>3. PutRecord(t, q) /\ gate' = gate /\ UNCHANGED <<execDisposed, execDisposal, runtimeOp, pumpFaults>>
  BY DEF StartExecution, nodeVars
<1>4. q.phase = "checking" /\ r.phase = "none" BY <1>1 DEF Records, RecordKept, StartKept
<1> HIDE DEF q
<1>5. rec'[t] = q /\ \A u \in Executions : u # t => rec'[u] = rec[u]
  BY <1>3 DEF PutRecord, ExecutorSafe, ExecutorTypeOK
<1>6. GateKept'
  <2>1. \A i \in 1..Len(gate) : gate[i] \in Executions BY <1>1
  <2> QED BY <1>3, <1>4, <1>5, <2>1 DEF ExecutorSafe, GateKept, Turn
<1> QED BY <1>1, <1>2, <1>3, <1>6, OpenAllows, StartStep

LEMMA AdmitKeeps ==
  ASSUME ExecutorSafe, NEW t \in Executions, Admit(t)
  PROVE  ExecutorSafe'
<1> DEFINE r == rec[t]
           q == [r EXCEPT !.phase = "queued"]
<1>1. /\ r \in Records /\ RecordKept(r) /\ r.phase = "checking" /\ r.cancelOp = "none" /\ ~execDisposed
      /\ ExecutorTypeOK /\ GateKept
  BY DEF ExecutorSafe, ExecutorTypeOK, RecordsKept, Admit, MayGoOn, Aborted
<1>2. q \in Records /\ RecordKept(q) BY <1>1, AdmitKept
<1>3. PutRecord(t, q) /\ gate' = Append(gate, t) /\ UNCHANGED <<execDisposed, execDisposal, runtimeOp, pumpFaults>>
  BY DEF Admit
<1>4. q.phase = "queued" BY <1>1 DEF Records
<1>5. r.phase \notin Turn BY <1>1 DEF Turn
<1> HIDE DEF q
<1>6. gate' \in Seq(Executions) /\ GateKept' BY <1>1, <1>3, <1>4, <1>5, TurnStep DEF PutRecord
<1> QED BY <1>1, <1>2, <1>3, <1>6, OpenAllows, StartStep

LEMMA AbandonStartKeeps ==
  ASSUME ExecutorSafe, NEW t \in Executions, AbandonStart(t)
  PROVE  ExecutorSafe'
<1> DEFINE r == rec[t]
           q == Rejected(r)
<1>1. /\ r \in Records /\ RecordKept(r) /\ r.phase \in {"checking", "queued", "preparing"}
      /\ ExecutorTypeOK /\ GateKept
  BY DEF ExecutorSafe, ExecutorTypeOK, RecordsKept, AbandonStart
<1>2. q \in Records /\ RecordKept(q) BY <1>1, AbandonKept
<1>3. PutRecord(t, q) /\ Leave(t) /\ UNCHANGED <<execDisposed, execDisposal, runtimeOp, pumpFaults>>
  BY DEF AbandonStart
<1>4. q.phase \in {"none", "rejected"} /\ q.agent = r.agent
  BY <1>1 DEF Records, Rejected, ForgottenRecord, NoRecord
<1>5. r.agent # "working" BY <1>1 DEF RecordKept, StartKept, Starting
<1> HIDE DEF q
<1>6. q.phase \notin Turn BY <1>4 DEF Turn
<1>7. gate' \in Seq(Executions) /\ GateKept' BY <1>1, <1>3, <1>6, LeaveStep DEF PutRecord
<1>8. Allowed(q) BY <1>1, <1>4, <1>5 DEF Allowed, ExecutorSafe, DisposalSound
<1> QED BY <1>2, <1>3, <1>7, <1>8, StartStep

LEMMA TakeGateKeeps ==
  ASSUME ExecutorSafe, NEW t \in Executions, TakeGate(t)
  PROVE  ExecutorSafe'
<1> DEFINE r == rec[t]
           q == [r EXCEPT !.phase = "preparing"]
<1>1. /\ r \in Records /\ RecordKept(r) /\ r.phase = "queued" /\ r.cancelOp = "none" /\ ~execDisposed
      /\ gate \in Seq(Executions)
  BY DEF ExecutorSafe, ExecutorTypeOK, RecordsKept, TakeGate, MayGoOn, Aborted
<1>2. q \in Records /\ RecordKept(q) BY <1>1, TurnKept
<1>3. PutRecord(t, q) /\ gate' = gate /\ UNCHANGED <<execDisposed, execDisposal, runtimeOp, pumpFaults>>
  BY DEF TakeGate, nodeVars
<1>4. q.phase = "preparing" BY <1>1 DEF Records
<1> HIDE DEF q
<1>5. rec'[t] = q /\ \A u \in Executions : u # t => rec'[u] = rec[u]
  BY <1>3 DEF PutRecord, ExecutorSafe, ExecutorTypeOK
<1>6. gate[1] = t
  <2>1. \E i \in 1..Len(gate) : gate[i] = t BY <1>1 DEF ExecutorSafe, GateKept, Turn
  <2>2. gate # <<>> BY <2>1, <1>1
  <2> QED BY <2>2, <1>1 DEF TakeGate
<1>7. GateKept'
  <2>1. \A i \in 1..Len(gate) : gate[i] \in Executions BY <1>1
  <2> QED BY <1>1, <1>3, <1>4, <1>5, <1>6, <2>1 DEF ExecutorSafe, GateKept, Turn
<1> QED BY <1>1, <1>2, <1>3, <1>7, OpenAllows, StartStep

LEMMA RuntimeStartFailsKeeps ==
  ASSUME ExecutorSafe, NEW t \in Executions, NEW unclean \in BOOLEAN, RuntimeStartFails(t, unclean)
  PROVE  ExecutorSafe'
<1> DEFINE r == rec[t]
           q == Rejected([r EXCEPT !.unclean = unclean, !.agent = IF unclean THEN "working" ELSE "none"])
<1>1. r \in Records /\ RecordKept(r) /\ r.phase = "starting" /\ ExecutorTypeOK /\ GateKept
  BY DEF ExecutorSafe, ExecutorTypeOK, RecordsKept, RuntimeStartFails
<1>2. q \in Records /\ RecordKept(q) BY <1>1, RuntimeFailsKept
<1>3. PutRecord(t, q) /\ Leave(t) /\ UNCHANGED <<execDisposed, execDisposal, runtimeOp, pumpFaults>>
  BY DEF RuntimeStartFails
<1>4. q.phase \in {"none", "rejected"} BY <1>1 DEF Records, Rejected, ForgottenRecord, NoRecord
<1> HIDE DEF q
<1>5. q.phase \notin Turn BY <1>4 DEF Turn
<1>6. gate' \in Seq(Executions) /\ GateKept' BY <1>1, <1>3, <1>5, LeaveStep DEF PutRecord
<1> QED BY <1>1, <1>2, <1>3, <1>6, StartingAllows, StartStep

\* runtime.start returned: whatever becomes of its handle, the turn is over.
LEMMA AdoptKeeps ==
  ASSUME ExecutorSafe, NEW t \in Executions, NEW late \in BOOLEAN, NEW mismatch \in BOOLEAN, Adopt(t, late, mismatch)
  PROVE  ExecutorSafe'
<1> DEFINE b == rec[t]
           r == [b EXCEPT !.agent = "working", !.active = TRUE, !.phase = "cleaning"]
<1>1. b \in Records /\ RecordKept(b) /\ b.phase = "starting" /\ ExecutorTypeOK /\ GateKept
  BY DEF ExecutorSafe, ExecutorTypeOK, RecordsKept, Adopt
<1>2. r \in Records /\ RecordKept(r) BY <1>1, AdoptKept
<1>3. r.phase = "cleaning" /\ r.active /\ r.cancelOp = b.cancelOp BY <1>1 DEF Records
<1>4. Leave(t) /\ UNCHANGED <<execDisposed, execDisposal, runtimeOp, pumpFaults>> BY DEF Adopt
<1>5. ASSUME NEW q \in Records, RecordKept(q), q.phase \notin Turn, PutRecord(t, q)
      PROVE  ExecutorSafe'
  <2>1. gate' \in Seq(Executions) /\ GateKept' BY <1>1, <1>4, <1>5, LeaveStep DEF PutRecord
  <2> QED BY <1>1, <1>4, <1>5, <2>1, StartingAllows, StartStep
<1>6. PutRecord(t, IF r.cancelOp # "none" THEN [StopActive(r) EXCEPT !.keep = TRUE]
            ELSE IF r.expired \/ late THEN [StopActive(r) EXCEPT !.keep = TRUE, !.expired = TRUE]
            ELSE IF mismatch \/ execDisposed THEN CleanUp(r)
            ELSE [r EXCEPT !.phase = "started", !.pump = "reading"])
  BY DEF Adopt
<1>7. CASE PutRecord(t, [r EXCEPT !.phase = "started", !.pump = "reading"]) /\ r.cancelOp = "none"
  <2> DEFINE q == [r EXCEPT !.phase = "started", !.pump = "reading"]
  <2>1. q \in Records /\ RecordKept(q) BY <1>1, <1>3, <1>7, AdoptStartsKept
  <2>2. q.phase \notin Turn BY <1>2 DEF Records, Turn
  <2> HIDE DEF q
  <2>3. PutRecord(t, q) BY <1>7 DEF q
  <2> QED BY <1>5, <2>1, <2>2, <2>3
<1> HIDE DEF r
<1> DEFINE s == StopActive(r)
<1>8. Fits(r, s) BY <1>2, <1>3, StopActiveKept
<1> HIDE DEF s
<1>9. Fits(s, [s EXCEPT !.keep = TRUE]) /\ Fits(s, [s EXCEPT !.keep = TRUE, !.expired = TRUE])
  BY <1>8, KeepKept, KeepLateKept DEF Fits
<1>10. ASSUME NEW q, Fits(r, q), PutRecord(t, q) PROVE ExecutorSafe'
  <2>1. q.phase \notin Turn BY <1>3, <1>10 DEF Fits, Quiet, Turn
  <2> QED BY <1>5, <1>10, <2>1 DEF Fits
<1>11. CASE PutRecord(t, [s EXCEPT !.keep = TRUE]) BY <1>8, <1>9, <1>10, <1>11, FitsThrough
<1>12. CASE PutRecord(t, [s EXCEPT !.keep = TRUE, !.expired = TRUE])
  BY <1>8, <1>9, <1>10, <1>12, FitsThrough
<1>13. CASE PutRecord(t, CleanUp(r)) BY <1>2, <1>3, <1>10, <1>13, CleanUpKept
<1> QED BY <1>6, <1>7, <1>11, <1>12, <1>13 DEF s

----------------------------------------------------------------------------
(* The steps that change every record *)

\* The runtime cleans up what nobody holds any more.
LEMMA CalledKept ==
  ASSUME NEW r \in Records, RecordKept(r), r.phase = "preparing", r.cancelOp = "none", NEW q,
         q = [r EXCEPT !.phase = "starting", !.agent = IF @ = "working" /\ ~r.active THEN "ended" ELSE @]
  PROVE  q \in Records /\ RecordKept(q) /\ q.phase = "starting"
<1> DEFINE a == IF r.agent = "working" /\ ~r.active THEN "ended" ELSE r.agent
<1>1. a \in {"none", "working", "ended"} /\ (a = "working" => r.agent = "working") BY DEF Records
<1> HIDE DEF a
<1>2. [r EXCEPT !.phase = "starting", !.agent = a] \in Records BY <1>1 DEF Records, Phases
<1>3. RecordKept([r EXCEPT !.phase = "starting", !.agent = a])
  BY <1>1 DEF RecordKept, StartKept, PumpKept, CancelKept, EndKept, Starting, Records, Phases
<1>4. [r EXCEPT !.phase = "starting", !.agent = a].phase = "starting" BY DEF Records
<1> QED BY <1>2, <1>3, <1>4 DEF a

LEMMA BystandersKept ==
  ASSUME NEW r \in Records, RecordKept(r)
  PROVE  Fits(r, [r EXCEPT !.phase = @, !.agent = IF @ = "working" /\ ~r.active THEN "ended" ELSE @])
<1> DEFINE a == IF r.agent = "working" /\ ~r.active THEN "ended" ELSE r.agent
           p == r.phase
<1>1. a \in {"none", "working", "ended"} /\ (a = "working" => r.agent = "working") /\ p \in Phases
  BY DEF Records
<1>2. p = r.phase OBVIOUS
<1> HIDE DEF a, p
<1> DEFINE q == [r EXCEPT !.phase = p, !.agent = a]
<1>3. q \in Records BY <1>1 DEF Records
<1>4. RecordKept(q)
  BY <1>1, <1>2 DEF RecordKept, StartKept, PumpKept, CancelKept, EndKept, Starting, Records
<1>5. Quiet(r, q) BY <1>1, <1>2 DEF Quiet, Records
<1> QED BY <1>3, <1>4, <1>5 DEF Fits, a, p

LEMMA CallRuntimeKeeps ==
  ASSUME ExecutorSafe, NEW t \in Executions, CallRuntime(t)
  PROVE  ExecutorSafe'
<1>1. /\ rec[t].phase = "preparing" /\ rec[t].cancelOp = "none" /\ ~execDisposed
      /\ UNCHANGED <<gate, execDisposed, execDisposal, runtimeOp, pumpFaults>>
      /\ \A u \in Executions : rec[u] \in Records /\ RecordKept(rec[u])
      /\ gate \in Seq(Executions)
  BY DEF CallRuntime, MayGoOn, Aborted, nodeVars, ExecutorSafe, ExecutorTypeOK, RecordsKept
<1>2. DOMAIN rec' = Executions /\ rec' = [u \in Executions |-> rec'[u]] BY DEF CallRuntime
<1>3. rec'[t] \in Records /\ RecordKept(rec'[t]) /\ rec'[t].phase = "starting"
  <2>1. rec'[t] = [rec[t] EXCEPT !.phase = "starting", !.agent = IF @ = "working" /\ ~rec[t].active THEN "ended" ELSE @]
    BY DEF CallRuntime
  <2> QED BY <1>1, <2>1, CalledKept
<1>4. ASSUME NEW u \in Executions, u # t PROVE Fits(rec[u], rec'[u])
  <2>1. rec'[u] = [rec[u] EXCEPT !.phase = @, !.agent = IF @ = "working" /\ ~rec[u].active THEN "ended" ELSE @]
    BY <1>4 DEF CallRuntime
  <2> QED BY <1>1, <2>1, BystandersKept
<1>5. \A u \in Executions : rec'[u] \in Records /\ RecordKept(rec'[u]) BY <1>3, <1>4 DEF Fits
<1>6. rec' \in [Executions -> Records] BY <1>2, <1>5
<1>7. ExecutorTypeOK' /\ RecordsKept' BY <1>1, <1>5, <1>6 DEF ExecutorSafe, ExecutorTypeOK, RecordsKept
<1>8. DisposalSound' BY <1>1 DEF ExecutorSafe, ExecutorTypeOK, DisposalSound, Promise
<1>9. GateKept'
  <2>1. \A i \in 1..Len(gate) : gate[i] \in Executions BY <1>1
  <2>2. \A u \in Executions : rec'[u].phase \in Turn <=> rec[u].phase \in Turn
    BY <1>1, <1>3, <1>4 DEF Fits, Quiet, Turn
  <2>3. \A u \in Executions : rec'[u].phase \in {"preparing", "starting"} => rec[u].phase \in {"preparing", "starting"}
    BY <1>1, <1>3, <1>4 DEF Fits, Quiet
  <2> QED BY <1>1, <2>1, <2>2, <2>3 DEF ExecutorSafe, GateKept
<1> QED BY <1>7, <1>8, <1>9 DEF ExecutorSafe

LEMMA QuietAll ==
  ASSUME ExecutorSafe, rec' = [t \in Executions |-> rec'[t]], \A t \in Executions : Fits(rec[t], rec'[t]),
         gate' = gate
  PROVE  rec' \in [Executions -> Records] /\ RecordsKept' /\ GateKept'
<1>1. rec' \in [Executions -> Records] /\ RecordsKept' BY DEF Fits, RecordsKept
<1>2. \A i \in 1..Len(gate) : gate[i] \in Executions BY DEF ExecutorSafe, ExecutorTypeOK
<1>3. GateKept' BY <1>2 DEF ExecutorSafe, GateKept, Fits, Quiet, Turn
<1> QED BY <1>1, <1>3

LEMMA DisposeOfExecutorKeeps ==
  ASSUME ExecutorSafe, DisposeOfExecutor
  PROVE  ExecutorSafe'
<1>1. /\ execDisposed' = TRUE /\ execDisposal' = "starts" /\ runtimeOp' = Begin(runtimeOp)
      /\ rec' = [t \in Executions |-> [rec[t] EXCEPT !.armed = FALSE]] /\ gate' = gate /\ pumpFaults' = pumpFaults
  BY DEF DisposeOfExecutor
<1>2. \A t \in Executions : rec[t] \in Records /\ RecordKept(rec[t])
  BY DEF ExecutorSafe, ExecutorTypeOK, RecordsKept
<1>3. \A t \in Executions : Fits(rec[t], rec'[t]) BY <1>1, <1>2, DisarmKept
<1>4. rec' = [t \in Executions |-> rec'[t]] BY <1>1
<1>5. rec' \in [Executions -> Records] /\ RecordsKept' /\ GateKept' BY <1>1, <1>3, <1>4, QuietAll
<1>6. runtimeOp' \in Promise /\ (runtimeOp' = "yes" => runtimeOp = "yes")
  BY <1>1 DEF Begin, ExecutorSafe, ExecutorTypeOK, Promise
<1>7. DisposalSound'
  <2>1. runtimeOp' = "yes" => \A t \in Executions : rec'[t].phase # "starting" /\ rec'[t].agent # "working"
    BY <1>3, <1>6 DEF ExecutorSafe, DisposalSound, Fits, Quiet
  <2> QED BY <1>1, <2>1 DEF DisposalSound
<1>8. ExecutorTypeOK' BY <1>1, <1>5, <1>6 DEF ExecutorSafe, ExecutorTypeOK
<1> QED BY <1>5, <1>7, <1>8 DEF ExecutorSafe

LEMMA RuntimeIsDisposedKeeps ==
  ASSUME ExecutorSafe, NEW ok \in BOOLEAN, RuntimeIsDisposed(ok)
  PROVE  ExecutorSafe'
<1>1. UNCHANGED <<gate, execDisposed, execDisposal, pumpFaults>> /\ runtimeOp = "pending"
  BY DEF RuntimeIsDisposed
<1>2. \A t \in Executions : rec[t] \in Records /\ RecordKept(rec[t])
  BY DEF ExecutorSafe, ExecutorTypeOK, RecordsKept
<1>3. CASE ok
  <2>1. /\ runtimeOp' = "yes" /\ \A t \in Executions : rec[t].phase # "starting"
        /\ rec' = [t \in Executions |-> [rec[t] EXCEPT !.agent = IF @ = "working" THEN "ended" ELSE @]]
    BY <1>3 DEF RuntimeIsDisposed
  <2>2. \A t \in Executions : Fits(rec[t], rec'[t]) BY <2>1, <1>2, AgentEndsKept
  <2>3. rec' = [t \in Executions |-> rec'[t]] BY <2>1
  <2>4. rec' \in [Executions -> Records] /\ RecordsKept' /\ GateKept' BY <1>1, <2>2, <2>3, QuietAll
  <2>5. \A t \in Executions : rec'[t].agent # "working" BY <1>2, <2>1 DEF Records
  <2>6. DisposalSound' BY <1>1, <2>1, <2>2, <2>5 DEF ExecutorSafe, DisposalSound, Fits, Quiet
  <2>7. ExecutorTypeOK' BY <1>1, <2>1, <2>4 DEF ExecutorSafe, ExecutorTypeOK, Promise
  <2> QED BY <2>4, <2>6, <2>7 DEF ExecutorSafe
<1>4. CASE ~ok
  <2>1. runtimeOp' = "no" /\ rec' = rec BY <1>4 DEF RuntimeIsDisposed
  <2>2. DisposalSound' BY <1>1, <2>1 DEF ExecutorSafe, DisposalSound
  <2>3. ExecutorTypeOK' BY <1>1, <2>1 DEF ExecutorSafe, ExecutorTypeOK, Promise
  <2>4. RecordsKept' /\ GateKept' BY <1>1, <2>1 DEF ExecutorSafe, RecordsKept, GateKept
  <2> QED BY <2>2, <2>3, <2>4 DEF ExecutorSafe
<1> QED BY <1>3, <1>4

LEMMA DisposeHandlesKeeps ==
  ASSUME ExecutorSafe, DisposeHandles
  PROVE  ExecutorSafe'
<1>1. /\ UNCHANGED <<gate, execDisposed, runtimeOp, pumpFaults>> /\ execDisposal = "starts" /\ execDisposal' = "handles"
      /\ rec' = [t \in Executions |-> IF rec[t].active THEN CleanUp(rec[t]) ELSE rec[t]]
      /\ \A t \in Executions : rec[t].phase \in {"none", "started", "rejected"}
  BY DEF DisposeHandles, OperationSettled
<1>2. \A t \in Executions : rec[t] \in Records /\ RecordKept(rec[t])
  BY DEF ExecutorSafe, ExecutorTypeOK, RecordsKept
<1>3. \A t \in Executions : Fits(rec[t], rec'[t])
  <2> TAKE t \in Executions
  <2>1. CASE rec[t].active BY <1>1, <1>2, <2>1, CleanUpKept
  <2>2. CASE ~rec[t].active BY <1>1, <1>2, <2>2 DEF Fits, Quiet
  <2> QED BY <2>1, <2>2
<1>4. rec' = [t \in Executions |-> rec'[t]] BY <1>1
<1>5. rec' \in [Executions -> Records] /\ RecordsKept' /\ GateKept' BY <1>1, <1>3, <1>4, QuietAll
<1>6. DisposalSound' BY <1>1, <1>3 DEF ExecutorSafe, DisposalSound, Fits, Quiet
<1>7. ExecutorTypeOK' BY <1>1, <1>5 DEF ExecutorSafe, ExecutorTypeOK
<1> QED BY <1>5, <1>6, <1>7 DEF ExecutorSafe

LEMMA DisposalSettlesKeeps ==
  ASSUME ExecutorSafe, DisposalSettles
  PROVE  ExecutorSafe'
<1>1. execDisposal = "handles" /\ pumpFaults' = {} /\ UNCHANGED <<gate, execDisposed, runtimeOp>>
  BY DEF DisposalSettles
<1>2. \A t \in Executions : rec[t] \in Records /\ RecordKept(rec[t])
  BY DEF ExecutorSafe, ExecutorTypeOK, RecordsKept
<1>3. \/ /\ execDisposal' = "done" /\ runtimeOp = "yes"
         /\ rec' = [t \in Executions |-> ForgottenRecord(rec[t])]
      \/ execDisposal' = "none" /\ rec' = rec
  BY DEF DisposalSettles
<1>4. CASE /\ execDisposal' = "done" /\ runtimeOp = "yes"
           /\ rec' = [t \in Executions |-> ForgottenRecord(rec[t])]
  <2>1. \A t \in Executions : rec'[t] \in Records /\ RecordKept(rec'[t]) BY <1>2, <1>4, ForgottenKept
  <2>2. \A t \in Executions : rec'[t].phase = "none" /\ rec'[t].agent = rec[t].agent
    BY <1>4 DEF ForgottenRecord, NoRecord
  <2>3. rec' \in [Executions -> Records] BY <1>4, <2>1
  <2>4. ExecutorTypeOK' /\ RecordsKept'
    BY <1>1, <1>4, <2>1, <2>3 DEF ExecutorSafe, ExecutorTypeOK, RecordsKept
  <2>5. GateKept'
    <3>1. \A i \in 1..Len(gate) : gate[i] \in Executions BY DEF ExecutorSafe, ExecutorTypeOK
    <3>2. \A i \in 1..Len(gate) : FALSE BY <1>1, <3>1 DEF ExecutorSafe, GateKept, DisposalSound, Turn
    <3> QED BY <1>1, <2>2, <3>2 DEF GateKept, Turn
  <2>6. DisposalSound' BY <1>1, <1>4, <2>2 DEF ExecutorSafe, DisposalSound
  <2> QED BY <2>4, <2>5, <2>6 DEF ExecutorSafe
<1>5. CASE execDisposal' = "none" /\ rec' = rec
  <2>1. DisposalSound' BY <1>1, <1>5 DEF ExecutorSafe, DisposalSound
  <2>2. ExecutorTypeOK' BY <1>1, <1>5 DEF ExecutorSafe, ExecutorTypeOK
  <2>3. RecordsKept' /\ GateKept' BY <1>1, <1>5 DEF ExecutorSafe, RecordsKept, GateKept
  <2> QED BY <2>1, <2>2, <2>3 DEF ExecutorSafe
<1> QED BY <1>3, <1>4, <1>5

----------------------------------------------------------------------------

LEMMA ExecutorStarts == ExecutorInit => ExecutorSafe
<1> SUFFICES ASSUME ExecutorInit PROVE ExecutorSafe OBVIOUS
<1>1. RecordKept(NoRecord)
  <2>1. NoRecord.published = <<>> /\ NoRecord.phase = "none" /\ NoRecord.agent = "none" BY DEF NoRecord
  <2>2. Len(<<>>) = 0 OBVIOUS
  <2>3. EndKept(NoRecord) BY <2>1, <2>2 DEF EndKept
  <2> QED BY <2>3 DEF NoRecord, RecordKept, StartKept, PumpKept, CancelKept, Starting
<1>2. ExecutorTypeOK
  <2>1. rec \in [Executions -> Records] BY NoRecordType DEF ExecutorInit
  <2>2. gate \in Seq(Executions) BY DEF ExecutorInit
  <2>3. execDisposal = "none" /\ execDisposed = FALSE /\ runtimeOp = "no" /\ pumpFaults = {}
    BY DEF ExecutorInit
  <2> QED BY <2>1, <2>2, <2>3 DEF ExecutorTypeOK, Promise
<1>3. RecordsKept BY <1>1 DEF ExecutorInit, RecordsKept
<1>4. GateKept BY DEF ExecutorInit, GateKept, NoRecord, Turn
<1>5. DisposalSound BY DEF ExecutorInit, DisposalSound, NoRecord
<1> QED BY <1>2, <1>3, <1>4, <1>5 DEF ExecutorSafe

LEMMA ExecutorKeeps == ExecutorSafe /\ [ExecutorNext]_executorVars => ExecutorSafe'
<1> SUFFICES ASSUME ExecutorSafe, [ExecutorNext]_executorVars PROVE ExecutorSafe' OBVIOUS
<1>1. ASSUME NEW t \in Executions, Progress(t) PROVE ExecutorSafe'
  <2>1. CASE AbandonStart(t) BY <2>1, AbandonStartKeeps
  <2>2. CASE \E unclean \in BOOLEAN : RuntimeStartFails(t, unclean) BY <2>2, RuntimeStartFailsKeeps
  <2>3. CASE \E late, mismatch \in BOOLEAN : Adopt(t, late, mismatch) BY <2>3, AdoptKeeps
  <2>4. CASE CoreCleaned(t) \/ CoreAnnounced(t) BY <2>4, CoreCleanedKeeps, CoreAnnouncedKeeps
  <2>5. CASE ScopedCancel(t) \/ CancelWaited(t) \/ CancelStopped(t) \/ CancelPublished(t)
    BY <2>5, ScopedCancelKeeps, CancelWaitedKeeps, CancelStoppedKeeps, CancelPublishedKeeps
  <2>6. CASE DeadlineSettles(t) BY <2>6, DeadlineSettlesKeeps
  <2>7. CASE \E ok \in BOOLEAN : HandleCancelled(t, ok) \/ HandleDisposed(t, ok)
    BY <2>7, HandleCancelledKeeps, HandleDisposedKeeps
  <2>8. CASE PumpPublished(t) \/ PumpPublishFails(t) \/ PumpFailed(t) \/ PumpEnds(t)
    BY <2>8, PumpPublishedKeeps, PumpPublishFailsKeeps, PumpFailedKeeps, PumpEndsKeeps
  <2> QED BY <1>1, <2>1, <2>2, <2>3, <2>4, <2>5, <2>6, <2>7, <2>8 DEF Progress
<1>2. ASSUME NEW t \in Executions,
             \/ StartExecution(t) \/ Admit(t) \/ AbandonStart(t) \/ TakeGate(t) \/ CallRuntime(t)
             \/ CancelExecution(t) \/ DisposeTask(t) \/ Deadline(t)
             \/ \E kind \in Kinds : PumpReads(t, kind)
      PROVE  ExecutorSafe'
  BY <1>2, StartExecutionKeeps, AdmitKeeps, AbandonStartKeeps, TakeGateKeeps, CallRuntimeKeeps,
    CancelExecutionKeeps,
     DisposeTaskKeeps, DeadlineKeeps, PumpReadsKeeps
<1>3. CASE DisposeOfExecutor BY <1>3, DisposeOfExecutorKeeps
<1>4. CASE DisposalStep
  BY <1>4, RuntimeIsDisposedKeeps, DisposeHandlesKeeps, DisposalSettlesKeeps DEF DisposalStep
<1>5. CASE UNCHANGED executorVars
  BY <1>5 DEF executorVars, ExecutorSafe, ExecutorTypeOK, RecordsKept, GateKept, DisposalSound
<1> QED BY <1>1, <1>2, <1>3, <1>4, <1>5 DEF ExecutorNext

LEMMA ExecutorImplies == ExecutorSafe => ExecutorSound
<1> SUFFICES ASSUME ExecutorSafe PROVE ExecutorSound OBVIOUS
<1>1. OneStartAtATime BY DEF ExecutorSafe, GateKept, OneStartAtATime
<1>2. EndIsTrue BY DEF ExecutorSafe, RecordsKept, RecordKept, EndKept, EndIsTrue
<1>3. ASSUME execDisposal = "done" PROVE gate = <<>>
  <2>1. gate \in Seq(Executions) BY DEF ExecutorSafe, ExecutorTypeOK
  <2>2. \A i \in 1..Len(gate) : FALSE BY <1>3, <2>1 DEF ExecutorSafe, GateKept, DisposalSound, Turn
  <2>3. Len(gate) = 0 BY <2>1, <2>2
  <2> QED BY <2>1, <2>3
<1>4. DisposalIsComplete BY <1>3 DEF ExecutorSafe, DisposalSound, DisposalIsComplete
<1> QED BY <1>1, <1>2, <1>4 DEF ExecutorSafe, ExecutorSound

THEOREM ExecutorHeld == ExecutorSpec => []ExecutorSound
<1>1. ExecutorInit => ExecutorSafe BY ExecutorStarts
<1>2. ExecutorSafe /\ [ExecutorNext]_executorVars => ExecutorSafe' BY ExecutorKeeps
<1>3. ExecutorSafe => ExecutorSound BY ExecutorImplies
<1> QED BY <1>1, <1>2, <1>3, PTL DEF ExecutorSpec
====
