---- MODULE Connectivity ----
(***************************************************************************)
(* The switch of the cross-device connections.  ProductionConnectivity     *)
(* runs what users, timers and account changes ask for one job at a time;  *)
(* enabling picks an account, removes what an earlier run left behind, and *)
(* starts the ListenerService, which opens the gateway and has the         *)
(* SdkDevTunnelExposureProvider create and host a tunnel.  A disable takes *)
(* effect at once on whatever is under way, and then takes its turn in the *)
(* queue.  The settings and the ledger of the tunnel survive the process;  *)
(* the tunnel itself lives in the account of the user.                     *)
(***************************************************************************)
EXTENDS Integers, Sequences

CONSTANTS
  Accounts,       \* accounts the user may sign in with
  MaxRecoveries,  \* reconnections tried in a row (5)
  MaxAsked,       \* bound: what the user asks for
  ConnectFaults   \* bound: failing calls, lost connections, sign-outs and restarts

ASSUME RecoveriesAssumption == MaxRecoveries \in Nat

VARIABLES
  saved,     \* connectivity settings: enabled, cleanupPending, legacyResourceRetired, account
  file,      \* the settings as they are stored: what a restart reads
  owned,     \* sdk-hosting.json: the tunnel this device created, or NoTunnel
  cloud,     \* the tunnels that exist, by id
  legacy,    \* whether the tunnel that an older version created with the CLI exists
  signedIn,  \* accounts with an authentication session
  conn,      \* connectionState
  failed,    \* error: "none", or the kind of the last one
  stopped,   \* stopRequested
  timer,     \* recoveryTimer
  attempts,  \* recoveryAttempts
  jobs,      \* actionQueue; its head is under way
  lst,       \* ListenerService: state and gateway; stuck: a refresh of the account could not stop it
  sdk,       \* SdkDevTunnelExposureProvider: status, host and an aborted lifetime
  asked, connectFaults

connectVars == <<saved, file, owned, cloud, legacy, signedIn, conn, failed, stopped, timer, attempts, jobs, lst, sdk,
                 asked, connectFaults>>
settings == <<saved, file>>
remote == <<owned, cloud, legacy>>
local == <<lst, sdk>>

NoTunnel == [id |-> 0]
NoAccount == "none"
TunnelIds == {1, 2}
NewJob(kind) ==
  [kind |-> kind, stale |-> FALSE, at |-> "queued", why |-> "none", bad |-> "none", accountReady |-> FALSE, code |-> "none"]

ListenerStopped == [state |-> "stopped", gateway |-> FALSE, stuck |-> FALSE]

ConnectInit ==
  /\ saved = [enabled |-> FALSE, pending |-> FALSE, retired |-> FALSE, account |-> NoAccount]
  /\ file = saved /\ owned = NoTunnel /\ cloud = {} /\ legacy \in BOOLEAN /\ signedIn = {}
  /\ conn = "disabled" /\ failed = "none" /\ stopped = FALSE /\ timer = "off" /\ attempts = 0
  /\ jobs = <<>>
  /\ lst = ListenerStopped
  /\ sdk = [status |-> "stopped", host |-> 0, cut |-> FALSE]
  /\ asked = 0 /\ connectFaults = 0

Faulty == connectFaults < ConnectFaults /\ connectFaults' = connectFaults + 1
Faultless == UNCHANGED connectFaults

\* FencedDocumentStore.update: memory follows the file. An update that throws leaves memory as it
\* was, and may have reached the file: the fence, or the sync of the directory, failed after the rename.
Writes(new) == saved' = new /\ file' = new
WriteThrows(new) == UNCHANGED saved /\ file' \in {file, new}

ConnectionsEnabled == saved.enabled /\ ~stopped
IsAuth(code) == code = "auth"

Job == IF jobs = <<>> THEN [NewJob("none") EXCEPT !.at = "none"] ELSE Head(jobs)
Becomes(job) == jobs' = <<job>> \o Tail(jobs)
Done == jobs' = Tail(jobs)
Cancelled == Job.stale \/ stopped

\* A job ends with an error; that of a switch is shown with the action (actionError).
Throws(code) == Done /\ failed' = IF Job.kind = "switch" THEN failed ELSE code

\* scheduleRecovery: only while connections are wanted, one timer at a time, a few times in a row.
Recovers == ConnectionsEnabled /\ timer = "off" /\ attempts < MaxRecoveries
Schedules(wanted) ==
  IF wanted /\ Recovers THEN timer' = "set" /\ attempts' = attempts + 1 ELSE UNCHANGED <<timer, attempts>>

----
(* What is asked for. *)

\* The epoch of a switch is that of its start; every other job has that of its request.
Fenced(job) == job.kind = "switch" => job.at # "queued"

\* act: the request joins the queue; a disable first fences off everything that is under way.
Asks(kind) ==
  /\ asked < MaxAsked /\ asked' = asked + 1
  /\ kind = "switch" => saved.account # NoAccount
  /\ IF kind = "disable"
     THEN /\ stopped' = TRUE /\ timer' = "off" /\ sdk' = [sdk EXCEPT !.cut = TRUE]
          /\ jobs' = Append([i \in DOMAIN jobs |-> [jobs[i] EXCEPT !.stale = @ \/ Fenced(jobs[i])]], NewJob(kind))
     ELSE jobs' = Append(jobs, NewJob(kind)) /\ UNCHANGED <<stopped, timer, sdk>>
  /\ UNCHANGED <<settings, remote, signedIn, conn, failed, attempts, lst, connectFaults>>

\* The recovery timer fires; its job does nothing unless connections are still wanted and down.
TimerFires ==
  /\ timer = "set" /\ timer' = "off"
  /\ jobs' = Append(jobs, NewJob("recover"))
  /\ UNCHANGED <<settings, remote, signedIn, conn, failed, stopped, attempts, local, asked, connectFaults>>

\* Sessions of the account in use change: a job refreshes the account, unless an enable is at work on it.
Starting == Job.at \notin {"none", "queued", "again"} /\ Job.why # "disable"
AccountEvent(queue) == IF ~Starting /\ ConnectionsEnabled THEN jobs' = Append(queue, NewJob("refresh")) ELSE jobs' = queue

SignsOut(a) ==
  /\ a \in signedIn /\ Faulty
  /\ signedIn' = signedIn \ {a}
  /\ IF saved.account = NoAccount THEN UNCHANGED jobs ELSE AccountEvent(jobs)
  /\ UNCHANGED <<settings, remote, conn, failed, stopped, timer, attempts, local, asked>>

----
(* A job is taken up. *)

\* enableConnections, up to its first await.
BeginsEnable ==
  /\ Job.at = "queued"
  /\ \/ Job.kind = "enable"
     \/ Job.kind = "restore" /\ saved.enabled
     \/ Job.kind = "retry" /\ saved.enabled /\ ~saved.pending
     \/ Job.kind = "recover" /\ ~Job.stale /\ ConnectionsEnabled /\ conn # "online"
  /\ IF Job.stale
     THEN Done /\ failed' = "cancelled" /\ UNCHANGED <<stopped, timer, attempts, conn>>
     ELSE IF ConnectionsEnabled /\ conn = "online"
     THEN Done /\ UNCHANGED <<stopped, timer, attempts, conn, failed>>
     ELSE /\ Becomes([Job EXCEPT !.at = "account", !.why = "enable", !.code = failed])
          /\ stopped' = FALSE /\ timer' = "off" /\ failed' = "none" /\ conn' = "authenticating"
          /\ attempts' = IF Job.kind \in {"restore", "recover"} THEN attempts ELSE 0
  /\ UNCHANGED <<settings, remote, signedIn, local, asked, connectFaults>>

\* A job that has become pointless.
Skips ==
  /\ Job.at = "queued"
  /\ \/ Job.kind = "recover" /\ (Job.stale \/ ~ConnectionsEnabled \/ conn = "online")
     \/ Job.kind = "restore" /\ ~saved.enabled /\ ~saved.pending
     \/ Job.kind = "refresh" /\ ~ConnectionsEnabled
  /\ Done
  /\ UNCHANGED <<settings, remote, signedIn, conn, failed, stopped, timer, attempts, local, asked, connectFaults>>

\* A request is refused at its turn: the window it came from has gone, or the fence fails; of a
\* retry, the revocations come first and may fail.
RefusesJob ==
  /\ Job.at = "queued" /\ Job.kind \in {"enable", "disable", "switch", "retry"} /\ Faulty
  /\ \/ Done /\ UNCHANGED failed
     \/ Job.kind = "retry" /\ Throws("other")
  /\ UNCHANGED <<settings, remote, signedIn, conn, stopped, timer, attempts, local, asked>>

\* What needs an account before it disables: a cleanup that is pending, when switching or retrying.
BeginsCleanup ==
  /\ Job.at = "queued" /\ saved.pending /\ Job.kind \in {"switch", "retry"}
  /\ Becomes([Job EXCEPT !.at = "account", !.why = "disable", !.code = failed])
  /\ UNCHANGED <<settings, remote, signedIn, conn, failed, stopped, timer, attempts, local, asked, connectFaults>>

\* disableConnections: the settings say so before anything is taken down. When they cannot be
\* written nothing more is done: the relay of the host is cut, and the host is left.
BeginsDisable ==
  /\ \/ Job.at = "queued" /\ Job.kind = "disable"
     \/ Job.at = "queued" /\ Job.kind = "restore" /\ ~saved.enabled /\ saved.pending
     \/ Job.at = "queued" /\ Job.kind = "switch" /\ ~saved.pending
     \/ Job.at = "queued" /\ Job.kind = "retry" /\ ~saved.enabled /\ ~saved.pending
     \/ Job.at = "disable"
  /\ stopped' = TRUE /\ timer' = "off" /\ conn' = "stopping" /\ sdk' = [sdk EXCEPT !.cut = TRUE]
  /\ LET off == [saved EXCEPT !.enabled = FALSE, !.pending = TRUE] IN
     \/ /\ Writes(off) /\ Faultless /\ UNCHANGED failed
        /\ Becomes([Job EXCEPT !.at = "stopping", !.why = "disable", !.bad = "none"])
     \/ WriteThrows(off) /\ Faulty /\ Throws("other")
  /\ UNCHANGED <<remote, signedIn, attempts, lst, asked>>

----
(* enableConnections ends. *)

\* A switch that was given up is no error of the connections.
Reports(code) == failed' = IF code = "cancelled" /\ Job.kind = "switch" THEN failed ELSE code

\* The catch: what the failure leaves the connection in, and whether it is tried again.
EndsBadly(code) ==
  /\ conn' = IF saved'.pending THEN "cleanupPending"
             ELSE IF IsAuth(code) THEN "authRequired"
             ELSE IF code = "cancelled" /\ ~Job.accountReady THEN IF saved'.enabled THEN "authRequired" ELSE "disabled"
             ELSE "error"
  /\ Reports(code)
  /\ Schedules(~IsAuth(code) /\ code # "cleanup" /\ (code # "cancelled" \/ Job.accountReady))

\* An enable that fails before the listener was started has nothing of its own to clean up.
FailsEarly(code) ==
  UNCHANGED <<settings, remote, signedIn, stopped, local, asked>> /\ EndsBadly(code) /\ Done

\* One that fails afterwards cleans up,
FailsLate(code) ==
  /\ Becomes([Job EXCEPT !.at = "failing", !.bad = "none", !.code = code])
  /\ UNCHANGED <<settings, signedIn, conn, failed, stopped, timer, attempts, asked>>

\* once the settings say that a cleanup is pending. When they cannot be written the error of that
\* is all that is left: nothing is cleaned up, nothing tried again, and the state shown is the last.
BeginsUndo ==
  /\ Job.at = "failing"
  /\ LET undo == [saved EXCEPT !.pending = TRUE] IN
     \/ /\ Writes(undo) /\ Faultless /\ UNCHANGED failed
        /\ Becomes([Job EXCEPT !.at = "stopping", !.why = "undo"])
     \/ WriteThrows(undo) /\ Faulty /\ Throws("other")
  /\ UNCHANGED <<remote, signedIn, conn, stopped, timer, attempts, local, asked>>

----
(* ensureAccount. *)

Interactive == Job.kind \notin {"restore", "recover"}
\* Whether the user must choose anew, by the error an earlier attempt ended with.
Chooses == Job.kind = "switch" \/ (saved.pending /\ IsAuth(Job.code))
Silently == ~Chooses /\ saved.account \in signedIn

\* Only a job the user asked for may ask back, and only while it was not given up.
Revoked == IF Job.why = "enable" THEN Cancelled ELSE ~Silently /\ Job.stale

\* What an account was needed for is not done.
Misses(code) ==
  IF Job.why = "enable" THEN EndsBadly(code)
  ELSE failed' = (IF Job.kind = "switch" THEN failed ELSE code) /\ UNCHANGED <<conn, timer, attempts>>
GivesUp(code) == UNCHANGED <<settings, remote, signedIn, stopped, local, asked>> /\ Misses(code) /\ Done

HasAccount == [Job EXCEPT !.at = IF Job.why = "enable" THEN "mark" ELSE "disable", !.accountReady = TRUE]

UsesAccount ==
  /\ Job.at = "account" /\ ~Revoked /\ Silently /\ Faultless
  /\ Becomes(HasAccount)
  /\ UNCHANGED <<settings, remote, signedIn, conn, failed, stopped, timer, attempts, local, asked>>

\* The user signs in, with the account of a tunnel left behind when there is one; the account is
\* used once the settings name it.
SelectsAccount(a) ==
  /\ Job.at = "account" /\ ~Revoked /\ ~Silently /\ Interactive
  /\ owned.id # 0 => owned.account = a
  /\ signedIn' = signedIn \union {a}
  /\ \/ /\ Writes([saved EXCEPT !.account = a]) /\ Faultless
        /\ AccountEvent(<<HasAccount>> \o Tail(jobs))
        /\ UNCHANGED <<conn, failed, timer, attempts>>
     \/ /\ WriteThrows([saved EXCEPT !.account = a]) /\ Faulty
        /\ Misses("other")
        /\ IF saved.account = NoAccount THEN Done ELSE AccountEvent(Tail(jobs))
  /\ UNCHANGED <<remote, stopped, local, asked>>

\* There is no account: it was taken away, the user dismissed the question or named another account
\* than that of a tunnel left behind, or the job was given up; or its identity could not be read, or
\* the window that asked has gone.
LacksAccount ==
  /\ Job.at = "account"
  /\ \/ Revoked /\ Faultless /\ GivesUp("cancelled")
     \/ ~Revoked /\ ~Silently /\ ~Interactive /\ Faultless /\ GivesUp("auth")
     \/ ~Revoked /\ ~Silently /\ Interactive /\ owned.id # 0 /\ Faultless /\ GivesUp("auth")
     \/ ~Revoked /\ ~Silently /\ Interactive /\ Faulty /\ \E code \in {"auth", "cancelled"} : GivesUp(code)
     \/ ~Revoked /\ Faulty /\ GivesUp("other")

\* Before anything of an earlier run is removed, the settings say that it must be.
Marks ==
  /\ Job.at = "mark"
  /\ LET marked == [saved EXCEPT !.enabled = TRUE, !.pending = TRUE] IN
     \/ Cancelled /\ Faultless /\ UNCHANGED settings /\ EndsBadly("cancelled") /\ Done
     \/ /\ ~Cancelled /\ Faultless /\ Writes(marked)
        /\ Becomes([Job EXCEPT !.at = "stopping"])
        /\ UNCHANGED <<conn, failed, timer, attempts>>
     \/ ~Cancelled /\ Faulty /\ WriteThrows(marked) /\ EndsBadly("other") /\ Done
  /\ UNCHANGED <<remote, signedIn, stopped, local, asked>>

----
(* cleanupConnectionResources. *)

Drop(id) == {[t EXCEPT !.hosted = @ /\ t.id # id] : t \in cloud}
Rests == owned' = IF owned.id # 0 /\ sdk.host # 0 THEN [owned EXCEPT !.phase = "stopped"] ELSE owned

\* SdkDevTunnelExposureProvider.stopCore: host and endpoint first, then the ledger.
SdkStops ==
  /\ cloud' = Drop(sdk.host)
  /\ Rests
  /\ sdk' = [status |-> "stopped", host |-> 0, cut |-> TRUE]
  /\ UNCHANGED legacy

\* ListenerService.stop: gateway and tunnel both, whichever fails; nothing when it never started.
ListenerStops == SdkStops /\ lst' = ListenerStopped
ListenerIsStuck ==
  \/ SdkStops /\ lst' = [lst EXCEPT !.state = "error"]
  \/ /\ sdk' = [sdk EXCEPT !.status = "cleanup-failed", !.cut = TRUE] /\ UNCHANGED remote
     /\ lst' = [lst EXCEPT !.state = "error"]

\* The connections to the peers are closed before it.
StopsListener ==
  /\ Job.at = "stopping"
  /\ IF lst.state = "stopped" /\ ~lst.gateway THEN UNCHANGED <<remote, local>>
     ELSE ListenerStops \/ (connectFaults < ConnectFaults /\ ListenerIsStuck)
  /\ \/ Faultless /\ lst'.state = "stopped" /\ Becomes([Job EXCEPT !.at = "deleting"])
     \/ Faulty /\ Becomes([Job EXCEPT !.at = "deleting", !.bad = "cleanup"])
  /\ UNCHANGED <<settings, signedIn, conn, failed, stopped, timer, attempts, asked>>

\* deleteOwnedResource: the exact tunnel of the ledger, with the account that owns it.
MayDelete == owned.account = saved.account /\ owned.account \in signedIn

OwnsNothing ==
  /\ Job.at = "deleting" /\ owned.id = 0 /\ Faultless
  /\ SdkStops
  /\ Becomes([Job EXCEPT !.at = "retiring"])
  /\ UNCHANGED <<settings, signedIn, conn, failed, stopped, timer, attempts, lst, asked>>

DeletesTunnel ==
  /\ Job.at = "deleting" /\ owned.id # 0 /\ MayDelete /\ Faultless
  /\ cloud' = {t \in cloud : t.id # owned.id}
  /\ sdk' = [status |-> "stopped", host |-> 0, cut |-> TRUE]
  /\ Becomes([Job EXCEPT !.at = "clearing"])
  /\ UNCHANGED <<settings, owned, legacy, signedIn, conn, failed, stopped, timer, attempts, lst, asked>>

\* Mutant: a tunnel that cannot be read is taken for one that is gone.
DeleteFailsAsGone ==
  /\ Job.at = "deleting" /\ owned.id # 0 /\ (IF MayDelete THEN Faulty ELSE Faultless)
  /\ SdkStops
  /\ Becomes([Job EXCEPT !.at = "clearing"])
  /\ UNCHANGED <<settings, signedIn, conn, failed, stopped, timer, attempts, lst, asked>>

DeleteFails ==
  /\ Job.at = "deleting" /\ owned.id # 0 /\ (IF MayDelete THEN Faulty ELSE Faultless)
  /\ SdkStops
  /\ Becomes([Job EXCEPT !.at = "retiring", !.bad = IF owned.account \in signedIn THEN "cleanup" ELSE "auth"])
  /\ UNCHANGED <<settings, signedIn, conn, failed, stopped, timer, attempts, lst, asked>>

\* Only once it is gone is it forgotten.
ClearsLedger ==
  /\ Job.at = "clearing"
  /\ \/ owned' = NoTunnel /\ Becomes([Job EXCEPT !.at = "retiring"]) /\ Faultless
     \/ Faulty /\ Becomes([Job EXCEPT !.at = "retiring", !.bad = "cleanup"]) /\ UNCHANGED owned
  /\ UNCHANGED <<settings, cloud, legacy, signedIn, conn, failed, stopped, timer, attempts, local, asked>>

\* retireLegacyResource: once, and only with an account; settings remember it when it is gone.
RetiresLegacy ==
  LET retired == [saved EXCEPT !.retired = TRUE]
      bad == IF Job.bad = "auth" \/ saved.account \notin signedIn THEN "auth" ELSE "cleanup" IN
  /\ Job.at = "retiring"
  /\ \/ /\ saved.retired /\ UNCHANGED <<settings, legacy>> /\ Faultless
        /\ Becomes([Job EXCEPT !.at = "cleaned"])
     \/ /\ ~saved.retired /\ (~legacy \/ saved.account \in signedIn)
        /\ legacy' = FALSE
        /\ \/ Writes(retired) /\ Faultless /\ Becomes([Job EXCEPT !.at = "cleaned"])
           \/ /\ WriteThrows(retired) /\ Faulty
              /\ Becomes([Job EXCEPT !.at = "cleaned", !.bad = IF @ = "auth" THEN @ ELSE "cleanup"])
     \/ /\ ~saved.retired /\ legacy
        /\ IF saved.account \in signedIn THEN Faulty /\ legacy' \in BOOLEAN ELSE Faultless /\ UNCHANGED legacy
        /\ Becomes([Job EXCEPT !.at = "cleaned", !.bad = bad])
        /\ UNCHANGED settings
  /\ UNCHANGED <<owned, cloud, signedIn, conn, failed, stopped, timer, attempts, local, asked>>

\* What the cleanup was for goes on; a failure of any part keeps it pending, that of the settings too.
EndsDisable ==
  /\ Job.at = "cleaned" /\ Job.why = "disable"
  /\ LET clean == [saved EXCEPT !.pending = FALSE] IN
     \/ /\ Job.bad = "none" /\ Writes(clean) /\ Faultless
        /\ conn' = "disabled" /\ failed' = "none"
        /\ IF Job.kind = "switch" THEN Becomes([Job EXCEPT !.at = "again"]) ELSE Done
     \/ /\ Job.bad = "none" /\ WriteThrows(clean) /\ Faulty
        /\ conn' = "cleanupPending" /\ failed' = "other" /\ Done
     \/ /\ Job.bad # "none" /\ UNCHANGED settings /\ Faultless
        /\ conn' = "cleanupPending" /\ failed' = Job.bad /\ Done
  /\ UNCHANGED <<remote, signedIn, stopped, timer, attempts, local, asked>>

EndsUndo ==
  /\ Job.at = "cleaned" /\ Job.why = "undo"
  /\ LET clean == [saved EXCEPT !.pending = FALSE] IN
     \/ Job.bad = "none" /\ Writes(clean) /\ Faultless
     \/ Job.bad = "none" /\ WriteThrows(clean) /\ Faulty
     \/ Job.bad # "none" /\ UNCHANGED settings /\ Faultless
  /\ EndsBadly(Job.code) /\ Done
  /\ UNCHANGED <<remote, signedIn, stopped, local, asked>>

StartsListener ==
  /\ Job.at = "cleaned" /\ Job.why = "enable" /\ Job.bad = "none" /\ ~Cancelled
  /\ LET on == [saved EXCEPT !.enabled = TRUE, !.pending = FALSE] IN
     \/ /\ Writes(on) /\ Faultless /\ conn' = "starting"
        /\ Becomes([Job EXCEPT !.at = "gateway"])
        /\ UNCHANGED <<failed, timer, attempts>>
     \/ WriteThrows(on) /\ Faulty /\ EndsBadly("other") /\ Done
  /\ UNCHANGED <<remote, signedIn, stopped, local, asked>>

StaysDown ==
  /\ Job.at = "cleaned" /\ Job.why = "enable" /\ (Job.bad # "none" \/ Cancelled) /\ Faultless
  /\ FailsEarly(IF Job.bad # "none" THEN Job.bad ELSE "cancelled")

\* switchAccount: the old account is gone from this device before a new one is chosen.
EnablesAgain ==
  /\ Job.at = "again"
  /\ \/ /\ IF Job.stale THEN Faultless ELSE Faulty
        /\ Done /\ UNCHANGED <<stopped, conn, timer, attempts, failed>>
     \/ /\ ~Job.stale /\ Faultless
        /\ Becomes([Job EXCEPT !.at = "account", !.why = "enable", !.code = "none"])
        /\ stopped' = FALSE /\ timer' = "off" /\ attempts' = 0 /\ failed' = "none" /\ conn' = "authenticating"
  /\ UNCHANGED <<settings, remote, signedIn, local, asked>>

----
(* ListenerService.startCore and SdkDevTunnelExposureProvider.startCore. *)

\* failClosed and the catch of the listener: host, gateway and ledger entry come to rest; the enable fails.
StartFails(code) ==
  /\ SdkStops
  /\ lst' = [lst EXCEPT !.state = "error", !.gateway = FALSE]
  /\ FailsLate(code)

OpensGateway ==
  /\ Job.at = "gateway"
  /\ \/ /\ lst' = [lst EXCEPT !.state = "starting", !.gateway = TRUE] /\ Faultless
        /\ Becomes([Job EXCEPT !.at = "record"])
        /\ UNCHANGED <<settings, remote, signedIn, conn, failed, stopped, timer, attempts, sdk, asked>>
     \/ Faulty /\ StartFails("other")

\* The id is chosen and recorded before the tunnel is asked for; only for connections still wanted.
RecordsTunnel ==
  /\ Job.at = "record"
  /\ \/ /\ ConnectionsEnabled /\ saved.account \in signedIn /\ owned.id = 0 /\ Faultless
        /\ owned' = [id |-> CHOOSE i \in TunnelIds : \A t \in cloud : t.id # i, account |-> saved.account, phase |-> "creating"]
        /\ sdk' = [status |-> "starting", host |-> 0, cut |-> FALSE]
        /\ Becomes([Job EXCEPT !.at = "create"])
        /\ UNCHANGED <<settings, cloud, legacy, signedIn, conn, failed, stopped, timer, attempts, lst, asked>>
     \/ /\ IF ConnectionsEnabled /\ saved.account \in signedIn THEN Faulty ELSE Faultless
        /\ StartFails(IF saved.account \in signedIn THEN "other" ELSE "auth")

\* createTunnel: an answer that is lost or aborted leaves the tunnel behind, under the recorded id.
CreatesTunnel ==
  /\ Job.at = "create"
  /\ \/ /\ ~sdk.cut /\ Faultless
        /\ cloud' = cloud \union {[id |-> owned.id, account |-> owned.account, hosted |-> FALSE]}
        /\ Becomes([Job EXCEPT !.at = "host"])
        /\ UNCHANGED <<settings, owned, legacy, signedIn, conn, failed, stopped, timer, attempts, local, asked>>
     \/ /\ IF sdk.cut THEN Faultless ELSE Faulty
        /\ \/ UNCHANGED cloud
           \/ cloud' = cloud \union {[id |-> owned.id, account |-> owned.account, hosted |-> FALSE]}
        /\ UNCHANGED <<owned, legacy>> /\ sdk' = [status |-> "circuit-open", host |-> 0, cut |-> TRUE]
        /\ lst' = [lst EXCEPT !.state = "error", !.gateway = FALSE]
        /\ FailsLate(IF sdk.cut THEN "cancelled" ELSE "other")

\* The host connects, its endpoint is recorded, and the tunnel answers the private probe; a host that
\* does not may be left connected when it cannot be disposed of.
HostsTunnel ==
  /\ Job.at = "host"
  /\ \/ /\ ~sdk.cut /\ Faultless
        /\ cloud' = {[t EXCEPT !.hosted = t.id = owned.id] : t \in cloud}
        /\ owned' = [owned EXCEPT !.phase = "hosting"]
        /\ sdk' = [sdk EXCEPT !.status = "ready", !.host = owned.id]
        /\ lst' = [lst EXCEPT !.state = "running"]
        /\ Becomes([Job EXCEPT !.at = "online"])
        /\ UNCHANGED <<settings, legacy, signedIn, conn, failed, stopped, timer, attempts, asked>>
     \/ /\ IF sdk.cut THEN Faultless ELSE Faulty
        /\ StartFails(IF sdk.cut THEN "cancelled" ELSE "other")
     \/ /\ Faulty
        /\ cloud' = {[t EXCEPT !.hosted = t.id = owned.id] : t \in cloud}
        /\ owned' = [owned EXCEPT !.phase = "hosting"] /\ UNCHANGED legacy
        /\ sdk' = [status |-> "cleanup-failed", host |-> owned.id, cut |-> TRUE]
        /\ lst' = [lst EXCEPT !.state = "error", !.gateway = FALSE]
        /\ FailsLate(IF sdk.cut THEN "cancelled" ELSE "other")

\* The last check, and the connections are up.
GoesOnline ==
  /\ Job.at = "online"
  /\ \/ Cancelled /\ Faultless /\ FailsLate("cancelled")
     \/ ~Cancelled /\ Faulty /\ FailsLate("other")
     \/ /\ ~Cancelled /\ Faultless
        /\ conn' = "online" /\ attempts' = 0 /\ Done
        /\ UNCHANGED <<settings, signedIn, failed, stopped, timer, asked>>
  /\ UNCHANGED <<remote, local>>

----
(* Events of the tunnel and of the account while connections are up. *)

\* The host lost its relay, which is also what cutting it does, or a renewal failed: it fails closed,
\* and an online connection is recovered.
HostDrops ==
  /\ sdk.status = "ready"
  /\ \/ (IF sdk.cut THEN Faultless ELSE Faulty) /\ cloud' = Drop(sdk.host) /\ Rests /\ UNCHANGED legacy
        /\ sdk' = [status |-> "circuit-open", host |-> 0, cut |-> TRUE]
     \/ Faulty /\ sdk' = [sdk EXCEPT !.status = "cleanup-failed", !.cut = TRUE] /\ UNCHANGED remote
  /\ lst' = [lst EXCEPT !.state = "error"]
  /\ IF ConnectionsEnabled /\ conn = "online"
     THEN conn' = "error" /\ failed' = "other" /\ Schedules(TRUE)
     ELSE UNCHANGED <<conn, failed, timer, attempts>>
  /\ UNCHANGED <<settings, signedIn, stopped, jobs, asked>>

\* tunnelChanged: the gateway of a failed tunnel is closed in its turn.
ClosesGateway ==
  /\ lst.state = "error" /\ lst.gateway /\ sdk.status = "circuit-open" /\ Job.at # "stopping"
  /\ lst' = [lst EXCEPT !.gateway = FALSE]
  /\ UNCHANGED <<settings, remote, signedIn, conn, failed, stopped, timer, attempts, jobs, sdk, asked, connectFaults>>

\* refreshAccount: renews the lease of a hosted tunnel with an account that still authorizes.
RefreshesAccount ==
  /\ Job.at = "queued" /\ Job.kind = "refresh" /\ ConnectionsEnabled /\ saved.account \in signedIn /\ Faultless
  /\ Schedules(sdk.status # "ready")
  /\ Done
  /\ UNCHANGED <<settings, remote, signedIn, conn, failed, stopped, local, asked>>

\* One that fails takes the listener down; only without an account is nothing tried again, nor when
\* the peers or the listener could not be stopped.
LosesAccount ==
  /\ Job.at = "queued" /\ Job.kind = "refresh" /\ ConnectionsEnabled
  /\ \E code \in {"auth", "other"} :
       /\ code = "auth" <=> saved.account \notin signedIn
       /\ conn' = IF code = "auth" THEN "authRequired" ELSE "error"
       /\ \/ /\ IF code = "auth" THEN Faultless ELSE Faulty
             /\ failed' = code /\ ListenerStops
             /\ IF code = "other" /\ attempts < MaxRecoveries
                THEN timer' = "set" /\ attempts' = attempts + 1
                ELSE timer' = "off" /\ UNCHANGED attempts
          \/ /\ Faulty /\ failed' = "cleanup" /\ timer' = "off" /\ UNCHANGED attempts
             /\ \/ UNCHANGED <<remote, sdk>> /\ lst' = [lst EXCEPT !.stuck = TRUE]
                \/ /\ lst.state # "stopped" \/ lst.gateway
                   /\ SdkStops /\ lst' = [lst EXCEPT !.state = "error", !.stuck = TRUE]
                \/ /\ lst.state # "stopped" \/ lst.gateway
                   /\ sdk' = [sdk EXCEPT !.status = "cleanup-failed", !.cut = TRUE] /\ UNCHANGED remote
                   /\ lst' = [lst EXCEPT !.state = "error", !.stuck = TRUE]
  /\ Done
  /\ UNCHANGED <<settings, signedIn, stopped, asked>>

\* The broker ends at any moment and starts again: settings and ledger are what is left.
Restarts ==
  /\ Faulty
  /\ conn' = "disabled" /\ failed' = "none" /\ stopped' = FALSE /\ timer' = "off" /\ attempts' = 0
  /\ lst' = ListenerStopped /\ saved' = file
  /\ sdk' = [status |-> "stopped", host |-> 0, cut |-> FALSE]
  /\ cloud' = {[t EXCEPT !.hosted = FALSE] : t \in cloud}
  /\ jobs' = <<NewJob("restore")>>
  /\ UNCHANGED <<file, owned, legacy, signedIn, asked>>

ConnectNext ==
  \/ \E kind \in {"enable", "disable", "switch", "retry"} : Asks(kind)
  \/ \E a \in Accounts : SignsOut(a)
  \/ TimerFires
  \/ BeginsEnable \/ Skips \/ RefusesJob \/ BeginsCleanup \/ BeginsDisable \/ UsesAccount \/ (\E a \in Accounts : SelectsAccount(a)) \/ LacksAccount \/ Marks
  \/ StopsListener \/ OwnsNothing \/ DeletesTunnel \/ DeleteFails \/ ClearsLedger \/ RetiresLegacy \/ EndsDisable \/ BeginsUndo \/ EndsUndo \/ StartsListener \/ StaysDown \/ EnablesAgain
  \/ OpensGateway \/ RecordsTunnel \/ CreatesTunnel \/ HostsTunnel \/ GoesOnline
  \/ HostDrops \/ ClosesGateway \/ RefreshesAccount \/ LosesAccount \/ Restarts

ConnectSpec == ConnectInit /\ [][ConnectNext]_connectVars

----
(* Properties. *)

\* Every tunnel in the account of the user is one the ledger names, and the settings, in memory and as a
\* restart would read them, say that it is wanted or still to be removed: no crash, lost answer, failed
\* write or race leaves one nobody would remove.
NoTunnelForgotten ==
  \A t \in cloud, s \in {saved, file} : t.id = owned.id /\ t.account = s.account /\ (s.enabled \/ s.pending)

\* Connections that are shown as disabled, and with no error, are off: nothing is hosted, open or left
\* in the cloud, and nothing is wanted or still to be removed.
DisabledIsDark ==
  conn = "disabled" /\ jobs = <<>> =>
    sdk.host = 0 /\ ~lst.gateway /\ (failed # "none" \/ (cloud = {} /\ ~saved.enabled /\ ~saved.pending))

\* A host is that of the ledger's tunnel, and one the user does not want is cut off from its relay at
\* every moment: while it is being taken down, and when that was not done because the settings could
\* not be written, a part of the cleanup failed or the window that asked has gone.
HostedIsWanted == sdk.host # 0 => sdk.host = owned.id /\ (ConnectionsEnabled \/ sdk.cut)

\* Connections that are wanted and have failed are tried again, unless that was done often enough or a
\* refresh of the account could not stop the listener.
RecoveryIsNotLost ==
  conn = "error" /\ jobs = <<>> /\ ConnectionsEnabled => timer = "set" \/ attempts = MaxRecoveries \/ lst.stuck

\* What an older version left in the account of the user is gone before connections are up, and
\* before the settings, in memory or stored, say so.
LegacyIsRetired == conn \in {"starting", "online"} \/ saved.retired \/ file.retired => ~legacy

\* The switch of the connections is safe: these hold together.
SwitchSound == NoTunnelForgotten /\ DisabledIsDark /\ HostedIsWanted /\ RecoveryIsNotLost /\ LegacyIsRetired
====
