---- MODULE DevTunnel ----
(***************************************************************************)
(* The class DevTunnelCliProvider of src/src/tunnel: it keeps one tunnel,  *)
(* hosted by one process of the CLI, and renews the entry that gives       *)
(* access to it.  Commands of the CLI are external: each succeeds, or      *)
(* fails in a way that may be retried or not.                              *)
(*                                                                         *)
(* Renewals and starts of the host run one at a time, behind               *)
(* withLifecycleMutation; stop(), the exit of the host and the timers come *)
(* at any time and are told apart by the number of the lifecycle.          *)
(***************************************************************************)
EXTENDS Naturals, Sequences

CONSTANTS MaxLifecycles,      \* bound: lifecycles, begun or closed
          MaxRestarts,        \* maxRestartAttempts
          MaxFaults           \* bound: commands that fail, exits, process stops that fail

ASSUME TunnelAssumption == MaxRestarts \in Nat \ {0}

VARIABLES provider,   \* the provider
          hosting,    \* ensureHostedOnce under way
          mutation,   \* the mutation that has the lock
          line,       \* lifecycleMutationTail: the mutations that wait for it
          stopping,   \* stop() under way
          record,     \* the metadata on disk
          service     \* the tunnel service and the processes

tunnelVars == <<provider, hosting, mutation, line, stopping, record, service>>

Idle == [phase |-> "none", gen |-> 0]
NoMutation == [who |-> "none", gen |-> 0, phase |-> "none", retry |-> FALSE]

\* An access entry is fresh, near its end, or expired.
TunnelInit ==
  /\ provider = [status |-> "idle", gen |-> 0, stopped |-> FALSE, aborted |-> TRUE, attempts |-> 0,
                 restart |-> FALSE, timer |-> "none", host |-> "none", of |-> 0, killing |-> FALSE]
  /\ hosting = Idle /\ mutation = NoMutation /\ line = <<>> /\ stopping = Idle
  /\ record = [made |-> FALSE, ready |-> FALSE, access |-> 0]
  /\ service = [tunnel |-> FALSE, port |-> FALSE, access |-> 0, given |-> 1, age |-> "fresh",
                up |-> 0, broken |-> FALSE,   \* a renewal did not end
                faults |-> 0]

\* renewAccessOnce: between them, the entry is revoked.
Destructive == {"deleting", "regranting", "storing"}
Renewing == {"listing"} \cup Destructive

\* lifecycleIsActive
Active(g) == ~provider.stopped /\ g = provider.gen /\ ~provider.aborted

\* A command of lifecycle g: it succeeds while g is active; else it throws, as
\* it does when the CLI fails, for good or for now.
WithFault(x) == [x EXCEPT !.faults = @ + 1]
MayFail(g) == service.faults < MaxFaults \/ ~Active(g)
Failing(g) == IF Active(g) THEN WithFault(service) ELSE service

----------------------------------------------------------------------------
(* The circuit, restarts and timers *)

\* openCircuit
Opened(x) == [x EXCEPT !.restart = FALSE, !.timer = "none", !.aborted = TRUE, !.status = "circuit-open"]

\* openCircuitAndStop: a new lifecycle number, and the host is stopped.
OpenedAndStopping(x) == [Opened(x) EXCEPT !.gen = @ + 1, !.killing = @ \/ x.host # "none"]

\* scheduleRestart, in an active lifecycle
RestartScheduled(x) ==
  IF x.status = "circuit-open" THEN x
  ELSE IF x.attempts >= MaxRestarts THEN Opened([x EXCEPT !.attempts = @ + 1])
  ELSE [x EXCEPT !.attempts = @ + 1, !.status = "backoff", !.restart = TRUE]

\* A start that ended well: ready, and the next renewal is due some time.
Ready(x) == [x EXCEPT !.status = "ready", !.attempts = 0, !.timer = "renewal"]

\* What follows when a mutation has failed in lifecycle g.
AfterFailure(x, who, g, retryable) ==
  IF ~Active(g) THEN x
  ELSE IF who = "timer"
  THEN IF x.status # "ready" THEN x
       ELSE IF retryable /\ service.age # "expired" THEN [x EXCEPT !.timer = "retry"] ELSE OpenedAndStopping(x)
  ELSE IF x.status = "cleanup-failed" THEN x
  ELSE IF ~retryable THEN Opened(x)
  ELSE IF who \in {"ensure-start", "restart"} THEN RestartScheduled(x) ELSE x

----------------------------------------------------------------------------
(* ensureHosted *)

\* A host that is ready, or being made so, is returned; an open circuit refuses.
\* Called while a restart renews the entry, it ends that lifecycle half-way; the
\* timers of an earlier lifecycle do nothing.
EnsureHosted ==
  /\ hosting = Idle /\ provider.status \notin {"ready", "circuit-open"}
  /\ provider.gen < MaxLifecycles
  /\ provider' = [provider EXCEPT !.stopped = FALSE, !.aborted = FALSE, !.gen = @ + 1, !.status = "starting",
                                  !.restart = FALSE, !.timer = "none"]
  /\ hosting' = [phase |-> "probing", gen |-> provider.gen + 1]
  /\ service' = [service EXCEPT !.broken = @ \/ mutation.phase \in Destructive]
  /\ UNCHANGED <<mutation, line, stopping, record>>

EnsureGoes(p) == hosting' = [hosting EXCEPT !.phase = p]

\* ensureHostedOnce fails before the host is started.
EnsureFails(retryable) ==
  /\ hosting.phase \in {"probing", "creating", "recording", "porting", "granting", "saving"}
  /\ MayFail(hosting.gen) /\ service' = Failing(hosting.gen)
  /\ provider' = AfterFailure(provider, "ensure-renew", hosting.gen, retryable)
  /\ hosting' = Idle
  /\ UNCHANGED <<mutation, line, stopping, record>>

\* The CLI is the one known, its user is logged in, the gateway answers; the
\* tunnel on record must exist.
Probe ==
  /\ hosting.phase = "probing" /\ Active(hosting.gen)
  /\ record.made => service.tunnel
  /\ EnsureGoes(CASE ~record.made -> "creating" [] record.ready -> "provisioned" [] OTHER -> "porting")
  /\ UNCHANGED <<provider, mutation, line, stopping, record, service>>

TunnelIsGone ==
  /\ hosting.phase = "probing" /\ record.made /\ ~service.tunnel
  /\ provider' = AfterFailure(provider, "ensure-renew", hosting.gen, FALSE)
  /\ hosting' = Idle
  /\ UNCHANGED <<mutation, line, stopping, record, service>>

\* createTunnel: the tunnel is made, then put on record.
CreateTunnel ==
  /\ hosting.phase = "creating" /\ ~service.tunnel
  /\ service' = [service EXCEPT !.tunnel = TRUE]
  /\ EnsureGoes("recording")
  /\ UNCHANGED <<provider, mutation, line, stopping, record>>

RecordTunnel ==
  /\ hosting.phase = "recording" /\ Active(hosting.gen)
  /\ record' = [record EXCEPT !.made = TRUE]
  /\ EnsureGoes("porting")
  /\ UNCHANGED <<provider, mutation, line, stopping, service>>

\* provisionPortAndAccess: the entry of a port that exists is adopted.
CreatePort ==
  /\ hosting.phase = "porting" /\ (service.port => Active(hosting.gen))
  /\ service' = [service EXCEPT !.port = TRUE]
  /\ EnsureGoes(IF service.port /\ service.access # 0 THEN "saving" ELSE "granting")
  /\ UNCHANGED <<provider, mutation, line, stopping, record>>

\* createAccess: the entry has another index than the one before.
Granted == [service EXCEPT !.access = 3 - service.given, !.given = 3 - @, !.age = "fresh"]

CreateAccess ==
  /\ hosting.phase = "granting" /\ Active(hosting.gen)
  /\ service' = Granted
  /\ EnsureGoes("saving")
  /\ UNCHANGED <<provider, mutation, line, stopping, record>>

SaveAccess ==
  /\ hosting.phase = "saving" /\ Active(hosting.gen)
  /\ record' = [record EXCEPT !.ready = TRUE, !.access = service.access]
  /\ EnsureGoes("provisioned")
  /\ UNCHANGED <<provider, mutation, line, stopping, service>>

\* An entry near its end is renewed first, in a turn of its own.
Provisioned ==
  /\ hosting.phase = "provisioned"
  /\ IF service.age = "expired" \/ ~Active(hosting.gen)
     THEN provider' = AfterFailure(provider, "ensure-renew", hosting.gen, FALSE) /\ hosting' = Idle /\ UNCHANGED line
     ELSE /\ EnsureGoes("waiting")
          /\ line' = Append(line, [NoMutation EXCEPT !.gen = hosting.gen, !.phase = "loading",
                                                     !.who = IF service.age = "due" THEN "ensure-renew" ELSE "ensure-start"])
          /\ UNCHANGED provider
  /\ UNCHANGED <<mutation, stopping, record, service>>

----------------------------------------------------------------------------
(* The mutations *)

TakeLock ==
  /\ mutation = NoMutation /\ line # <<>>
  /\ mutation' = Head(line) /\ line' = Tail(line)
  /\ UNCHANGED <<provider, hosting, stopping, record, service>>

MutationGoes(p) == mutation' = [mutation EXCEPT !.phase = p]
Starts(x) == x.who \in {"ensure-start", "restart"}

\* The lock is released, the caller goes on.
MutationFails(x, retryable) ==
  /\ mutation' = NoMutation
  /\ provider' = AfterFailure(x, mutation.who, mutation.gen, retryable)
  /\ hosting' = IF mutation.who \in {"ensure-renew", "ensure-start"} THEN Idle ELSE hosting

\* The record is loaded; an entry near its end is renewed by whoever has the
\* lock, one that has expired closes the circuit.
LoadRecord ==
  /\ mutation.phase = "loading" /\ Active(mutation.gen) /\ record.ready
  /\ IF service.age = "expired"
     THEN IF Starts(mutation) THEN MutationFails(provider, FALSE)
          ELSE provider' = OpenedAndStopping(provider) /\ MutationGoes("closing") /\ UNCHANGED hosting
     ELSE /\ MutationGoes(IF Starts(mutation) /\ service.age = "fresh" THEN "checking" ELSE "listing")
          /\ UNCHANGED <<provider, hosting>>
  /\ UNCHANGED <<line, stopping, record, service>>

\* The entry on the service is the one on record.
AsOnRecord == service.access = record.access

\* renewAccessOnce: what is revoked is the entry on record.
ListAccess ==
  /\ mutation.phase = "listing" /\ Active(mutation.gen) /\ AsOnRecord
  /\ MutationGoes("deleting")
  /\ UNCHANGED <<provider, hosting, line, stopping, record, service>>

\* From here on the renewal must not be interrupted.
DeleteAccess ==
  /\ mutation.phase = "deleting" /\ Active(mutation.gen)
  /\ service' = [service EXCEPT !.access = 0]
  /\ MutationGoes("regranting")
  /\ UNCHANGED <<provider, hosting, line, stopping, record>>

RecreateAccess ==
  /\ mutation.phase = "regranting" /\ Active(mutation.gen)
  /\ service' = Granted
  /\ MutationGoes("storing")
  /\ UNCHANGED <<provider, hosting, line, stopping, record>>

\* publishRenewal, and what the caller does next.
StoreRenewal ==
  /\ mutation.phase = "storing" /\ Active(mutation.gen)
  /\ record' = [record EXCEPT !.access = service.access]
  /\ IF Starts(mutation) THEN MutationGoes("checking") ELSE mutation' = NoMutation
  /\ provider' = IF ~Starts(mutation) /\ provider.status = "ready"
                 THEN [provider EXCEPT !.timer = "renewal"] ELSE provider
  /\ hosting' = IF mutation.who = "ensure-renew" THEN [hosting EXCEPT !.phase = "provisioned"] ELSE hosting
  /\ UNCHANGED <<line, stopping, service>>

\* A renewal that fails once it is destructive closes the circuit, as does one
\* for which the entry is not the one on record. A command that is cut off may
\* have done its work.
RenewalFails(retryable) ==
  /\ mutation.phase \in Renewing
  /\ MayFail(mutation.gen) \/ ~AsOnRecord
  /\ \E deleted \in (IF mutation.phase = "deleting" THEN BOOLEAN ELSE {FALSE}) :
       service' = [Failing(mutation.gen) EXCEPT !.access = IF deleted THEN 0 ELSE @,
                                               !.broken = @ \/ (mutation.phase \in Destructive /\ Active(mutation.gen))]
  /\ IF Active(mutation.gen) /\ (mutation.phase \in Destructive \/ ~retryable)
     THEN provider' = OpenedAndStopping(provider) /\ MutationGoes("closing") /\ UNCHANGED hosting
     ELSE MutationFails(provider, retryable)
  /\ UNCHANGED <<line, stopping, record>>

\* Mutant: a host that is still there is not looked for.
CheckBlind ==
  /\ mutation.phase = "checking" /\ Active(mutation.gen)
  /\ AsOnRecord
  /\ MutationGoes("spawning")
  /\ UNCHANGED <<provider, hosting, line, stopping, record, service>>

\* startAndProbeLocked: one host at a time; the tunnel, its entry and the CLI
\* are the ones on record.
Check ==
  /\ mutation.phase = "checking" /\ Active(mutation.gen)
  /\ IF provider.host # "none" \/ ~AsOnRecord THEN MutationFails(provider, FALSE)
     ELSE MutationGoes("spawning") /\ UNCHANGED <<provider, hosting>>
  /\ UNCHANGED <<line, stopping, record, service>>

\* The process is there; a lifecycle that ended meanwhile stops it.
Spawned ==
  /\ mutation.phase = "spawning"
  /\ service' = [service EXCEPT !.up = @ + 1]
  /\ provider' = [provider EXCEPT !.host = "up", !.of = mutation.gen, !.killing = ~Active(mutation.gen)]
  /\ MutationGoes(IF Active(mutation.gen) THEN "probing" ELSE "stopping")
  /\ UNCHANGED <<hosting, line, stopping, record>>

\* discoverAndProbe
HostAnswers ==
  /\ mutation.phase = "probing" /\ Active(mutation.gen) /\ provider.host = "up"
  /\ MutationGoes("saving")
  /\ UNCHANGED <<provider, hosting, line, stopping, record, service>>

\* The host is ready once the record says so, if it is still running.
HostIsReady ==
  /\ mutation.phase = "saving" /\ Active(mutation.gen) /\ provider.host = "up"
  /\ provider' = Ready(provider)
  /\ mutation' = NoMutation
  /\ hosting' = IF mutation.who = "ensure-start" THEN Idle ELSE hosting
  /\ UNCHANGED <<line, stopping, record, service>>

\* A start that fails with its host there stops it.
HostStartFails(retryable) ==
  /\ mutation.phase \in {"loading", "checking", "spawning", "probing", "saving"}
  /\ MayFail(mutation.gen) \/ (provider.host = "exited" /\ retryable)
  /\ service' = IF provider.host = "exited" THEN service ELSE Failing(mutation.gen)
  /\ IF mutation.phase \in {"probing", "saving"} /\ provider.host # "none"
     THEN /\ provider' = [provider EXCEPT !.killing = TRUE]
          /\ mutation' = [mutation EXCEPT !.phase = "stopping", !.retry = retryable]
          /\ UNCHANGED hosting
     ELSE MutationFails(provider, retryable)
  /\ UNCHANGED <<line, stopping, record>>

----------------------------------------------------------------------------
(* The process *)

\* It exits by itself. Once published as ready, it is started again
\* in its lifecycle.
HostExits ==
  /\ provider.host = "up" /\ service.faults < MaxFaults
  /\ service' = WithFault([service EXCEPT !.up = @ - 1])
  /\ provider' = IF mutation.phase \notin {"probing", "saving", "stopping"} /\ Active(provider.of)
                 THEN RestartScheduled([provider EXCEPT !.host = "none"])
                 ELSE [provider EXCEPT !.host = "exited"]
  /\ UNCHANGED <<hosting, mutation, line, stopping, record>>

\* host.stop() settles for all that wait for it: a mutation, stop(), or nobody.
HostStopped(ok) ==
  /\ provider.killing
  /\ ok \/ (service.faults < MaxFaults /\ provider.host = "up")
  /\ service' = IF ok THEN [service EXCEPT !.up = IF provider.host = "up" THEN @ - 1 ELSE @] ELSE WithFault(service)
  /\ LET x == [provider EXCEPT !.killing = FALSE, !.host = IF ok THEN "none" ELSE @,
                               !.status = IF ~ok THEN "cleanup-failed" ELSE IF stopping.phase = "host" THEN "stopped" ELSE @]
     IN IF mutation.phase \in {"closing", "stopping"} THEN MutationFails(x, mutation.retry /\ ok)
        ELSE provider' = x /\ UNCHANGED <<mutation, hosting>>
  /\ stopping' = IF stopping.phase = "host" THEN Idle ELSE stopping
  /\ UNCHANGED <<line, record>>

\* Nothing to stop.
NothingToStop ==
  /\ mutation.phase = "closing" /\ ~provider.killing
  /\ MutationFails(provider, FALSE)
  /\ UNCHANGED <<line, stopping, record, service>>

RestartTimer ==
  /\ provider.restart /\ \A i \in 1..Len(line) : line[i].who # "restart"
  /\ mutation.who # "restart"
  /\ provider' = [provider EXCEPT !.restart = FALSE]
  /\ line' = IF Active(provider.gen)
             THEN Append(line, [NoMutation EXCEPT !.who = "restart", !.gen = provider.gen, !.phase = "loading"])
             ELSE line
  /\ UNCHANGED <<hosting, mutation, stopping, record, service>>

\* runScheduledRenewal, when the entry is near its end, or after a failure.
RenewalTimer ==
  /\ provider.timer \in {"renewal", "retry"} /\ (provider.timer = "renewal" => service.age # "fresh")
  /\ provider' = [provider EXCEPT !.timer = "none"]
  /\ line' = IF Active(provider.gen) /\ provider.status = "ready"
             THEN Append(line, [NoMutation EXCEPT !.who = "timer", !.gen = provider.gen, !.phase = "loading"])
             ELSE line
  /\ UNCHANGED <<hosting, mutation, stopping, record, service>>

\* scheduleAccessExpiration, after the last retry.
ExpirationTimer ==
  /\ provider.timer = "retry" /\ service.age = "expired"
  /\ provider' = IF Active(provider.gen) /\ provider.status = "ready"
                 THEN OpenedAndStopping([provider EXCEPT !.timer = "none"])
                 ELSE [provider EXCEPT !.timer = "none"]
  /\ UNCHANGED <<hosting, mutation, line, stopping, record, service>>

TimePasses ==
  /\ service.access # 0 /\ service.age # "expired"
  /\ service' = [service EXCEPT !.age = IF @ = "fresh" THEN "due" ELSE "expired"]
  /\ UNCHANGED <<provider, hosting, mutation, line, stopping, record>>

----------------------------------------------------------------------------
(* stop *)

\* The lifecycle ends.
LifecycleEnded(x) == [x EXCEPT !.restart = FALSE, !.timer = "none", !.stopped = TRUE, !.aborted = TRUE, !.gen = @ + 1]

\* The host is stopped, if there is one; one that is being spawned is waited for.
StopHost(x) ==
  IF mutation.phase = "spawning" THEN provider' = x /\ stopping' = [phase |-> "spawn", gen |-> provider.gen]
  ELSE IF x.host = "none" THEN provider' = [x EXCEPT !.status = "stopped"] /\ stopping' = Idle
  ELSE provider' = [x EXCEPT !.killing = TRUE] /\ stopping' = [phase |-> "host", gen |-> provider.gen]

\* stop(): a destructive renewal of the lifecycle is waited for.
Stop ==
  /\ stopping = Idle /\ provider.status # "idle" /\ provider.gen < MaxLifecycles
  /\ IF mutation.phase \in Destructive /\ mutation.gen = provider.gen
     THEN /\ provider' = [provider EXCEPT !.restart = FALSE, !.timer = "none"]
          /\ stopping' = [phase |-> "renewal", gen |-> provider.gen]
     ELSE StopHost(LifecycleEnded(provider))
  /\ UNCHANGED <<hosting, mutation, line, record, service>>

StopGoesOn ==
  /\ \/ /\ stopping.phase = "renewal" /\ mutation.phase \notin Destructive \cup {"closing"}
        /\ StopHost(LifecycleEnded(provider))
     \/ stopping.phase = "spawn" /\ mutation.phase # "spawning" /\ StopHost(provider)
  /\ UNCHANGED <<hosting, mutation, line, record, service>>

\* deleteOwnedResource, of a tunnel that is stopped; its record stays.
DeleteOwnedResource ==
  /\ provider.status = "stopped" /\ hosting = Idle /\ mutation = NoMutation /\ stopping = Idle
  /\ record.made /\ service.tunnel
  /\ service' = [service EXCEPT !.tunnel = FALSE, !.port = FALSE, !.access = 0]
  /\ UNCHANGED <<provider, hosting, mutation, line, stopping, record>>

TunnelNext ==
  \/ EnsureHosted \/ Probe \/ TunnelIsGone \/ CreateTunnel \/ RecordTunnel \/ CreatePort \/ CreateAccess \/ SaveAccess
  \/ Provisioned \/ TakeLock \/ LoadRecord
  \/ ListAccess \/ DeleteAccess \/ RecreateAccess \/ StoreRenewal
  \/ Check \/ Spawned \/ HostAnswers \/ HostIsReady
  \/ \E retryable \in BOOLEAN : EnsureFails(retryable) \/ RenewalFails(retryable) \/ HostStartFails(retryable)
  \/ HostExits \/ (\E ok \in BOOLEAN : HostStopped(ok)) \/ NothingToStop
  \/ RestartTimer \/ RenewalTimer \/ ExpirationTimer \/ TimePasses
  \/ Stop \/ StopGoesOn \/ DeleteOwnedResource

TunnelSpec == TunnelInit /\ [][TunnelNext]_tunnelVars

----------------------------------------------------------------------------
(* Properties *)

\* There is never a host process the provider does not know, nor a second one,
\* whatever failed before: whoever stops the provider can stop it.
OneHostProcess == service.up = IF provider.host = "up" THEN 1 ELSE 0

\* The access entry of the service is the one on record, but while a renewal is
\* under way, or after a command of it failed, or ensureHosted cut it off; no
\* stop and no timer does so.
AccessOnRecord ==
  record.ready /\ mutation.phase \notin Renewing /\ service.tunnel => AsOnRecord \/ service.broken

\* Nothing of the tunnel is out of the provider's sight: neither a process of
\* this device nor an entry of the service.
TunnelSound == OneHostProcess /\ AccessOnRecord
====
