# Copilot Agent Mesh: TLA+ specifications

Copilot Agent Mesh is a VS Code extension that lets an agent in one window delegate a task to an
agent in another window, on the same device or on a paired one. This directory holds TLA+ models
of the code under `src/`, the TLC configurations that check them, and TLAPS proofs about them.
Paths below are relative to `src/src` unless they start with `docs`.

Contents: 1 the system, 2 the modules, 3 the runs, 4 fairness, 5 the proofs, 6 disagreements between
code and documents, 7 what is not modelled, 8 the plan.

## 1. The system

Every user-data directory has one **Device Broker**, elected by a lock file, and any number of
**Window Nodes**, VS Code windows that talk to the broker over authenticated local IPC. The broker
accepts a delegated task, writes its record, gives it to the window that claims the target
workspace, applies the events of the agent to the record and shows it to whoever delegated. Tasks
for other devices leave through a gateway and arrive at the broker of the peer; a window may also
run its agents in a codespace.

    tool in window A -> DeviceBroker -> TaskRouteCatalog (reserve the route)
                                     -> BrokerTaskService -> NodeRegistry (route and lease)
                                                          -> FileTaskStore (record)
                                                          -> window B: WindowNodeTaskExecutor -> agent
                     <- snapshot      <- events, one at a time, acknowledged

| Component | State it keeps | Operations | What makes it hard | What makes it correct |
| --- | --- | --- | --- | --- |
| Task life cycle (`domain/taskReducer.ts`) | the state of a record | reduce an event | late and repeated events | a final state is final |
| Node registry (`broker/NodeRegistry.ts`, `tasks/WorkspaceLeaseManager.ts`) | directory of windows, claims, catalog, leases, task routes | register, heartbeat, claim, release, enable, acquire and release a route | catalog writes are awaited between check and effect; windows reload | a lease has one holder, claims belong to live windows, a window with bound tasks is not replaced |
| Broker task service (`broker/BrokerTaskService.ts`) | task records, admissions, dispatches, timers | start, get, cancel, answer, node event, node loss, two deadlines, recovery | per-task queues, awaits, lost sessions, failing writes, broker restarts | one active task per workspace, at most one launch, true final status, every task ends |
| Task route catalog (`broker/TaskRouteCatalog.ts`) and the start requests of `broker/DeviceBroker.ts` | where every task was sent; attempts that share a reservation | reserve, retain, release, mark a snapshot | retries that overlap, writes that throw, restarts, a full catalog | a task that may have been sent keeps its route |
| Window node task executor (`node/WindowNodeTaskExecutor.ts`) | start records, runtime handles, one event in flight | start, cancel, dispose, pump | launch, cancel, deadline and disposal overlap | one agent per task, disposal ends |
| Window node client (`node/WindowNodeClient.ts`) | connection generation, claims, executor | connect, claim, reconnect, dispose | a reconnect overlaps old work | nothing of an old generation is published as new |
| Task store (`tasks/FileTaskStore.ts`, `storage/*`) | one file per task, fenced documents | create, transition, update | a write may throw before or after it lands | idempotent creation, no lost transition |
| Owner lock (`storage/WorkerOwnerLock.ts`) | lock file, takeover mutex, generation | contend, recover, heartbeat, dispose | every file system call may be the last, or fail; contenders, recoveries and suspended owners overlap | one owner; an owner's file and a holder's mutex stay; there is an owner again and again |
| Broker lifecycle (`broker/BrokerLifecycle.ts`) and `FencedStateStore` | runtime, timer, queue of operations, generation of the writes | start, handle a loss, contend by timer, dispose | the ownership changes at every await, every promise may reject | one runtime, writes in the order of generations, nobody waits for nothing |
| Local IPC (`ipc/LocalIpcTransport.ts`) | sessions, pending requests, output queue | handshake, request, notify, drain, close | timeouts close the session, replays | one session per client, each request is answered or failed once |
| Tools (`tools/*`, `node/LocalBrokerTaskFacade.ts`) | a wait, the cursor of a read | delegate and wait, get, list tasks, list workers | answers, notices, deadlines and lost links in any order; budgets | a call tells the truth about its task; nothing is missed without a word |
| Peer policy (`broker/PeerPolicyService.ts`, `RemotePeerPolicy*`) | allow lists, grants | edit, prune, check, revoke | edits chosen from an old snapshot, fenced writes | what was revoked is not allowed again by an older edit |
| Gateway and pairing (`gateway/*`) | invitations, pending and active peers, outbox | invite, redeem, confirm, revoke, send | expiry, lost answers, crashes, revocation while in use | an invitation is used once, a revoked peer is cut off, the outbox is bounded |
| Peer connections (`peer/*`) | profiles, secrets, connection state, timers | add, connect, reconnect, disconnect, remove | late callbacks of old connections | one live connection per peer; credentials are left behind only where a store failed or the process died |
| Dev Tunnel exposure (`tunnel/*`) | a tunnel, its host process, its access entry | host, renew, stop, delete | restarts during renewals | no tunnel is forgotten, access ends with the host |
| Connectivity and discovery (`composition/ProductionConnectivity.ts`, `application/ListenerService.ts`) | the switch, its jobs, the ledger of owned tunnels | enable, disable, retry, account changes | stops take effect at once, jobs in turn | what is shown as off is off, a host nobody wants is cut from its relay; what is wanted and down is tried again |
| Listener and remote tasks (`composition/ProductionRemoteTaskAdapter.ts`) | routes of tasks started on a peer, directory of the peer | start, read, cancel, reconcile | lost replies, several attempts | what may run on a peer is known here |
| Dashboard (`composition/ProductionDashboardManagement.ts`) | saved devices, denials | revoke, delete | partial failures | a deleted device has no unfinished task |
| Agent runtime (`agentHost/AhpAgentRuntime.ts`) | starts, cleanups, sessions, turns | start, cancel, reconnect, stop, dispose | a start is given up at any await; a link breaks in a turn | no host without an owner; an end is the host's, or told as unknown |
| Agent hosts (`agentHost/AgentHostSourceSelector.ts`, `agentHost/AgentHostLauncher.ts`) | starts in the selector, processes, directories, groups left behind | choose, fall back, launch, cancel, dispose | retries, fallbacks, failed cleanups and disposals overlap | one source has a task; what is left is told, or tracked until it is gone |
| Codespaces execution (`codespaces/RemoteExecution*.ts`) | generations, tasks, event streams | connect, start, poll, cancel, dispose | two sides with deadlines of their own | one execution per task, events once and in order |
| Codespaces native chat (`codespaces/nativeChat/*`) | transcripts under a lock | record, archive, prune | dying windows, failing releases | what is saved is what happened, in order |
| Codespaces setup (`codespaces/CodespaceCliInstaller.ts`) | lock, staging, releases, manifest | install, find | several processes, aborts, kills | what is handed out is verified and stays |

The remaining components (workspace registry, artifact store, shell, wire schemas, process host) and
the status of all are in `PROJECT.json`; section 7 gives the reasons.

## 2. The modules

| Module | Models | Uses |
| --- | --- | --- |
| `TaskReducer` | states and transitions of `taskReducer` | |
| `TaskRoutes` | abstract: what the registry promises the task service (live instances, claims, bindings with leases) | |
| `NodeRegistry` | the registry in detail; implements `TaskRoutes` | `TaskRoutes` as `Routes_` |
| `DelegatedTask` | abstract: what the mesh promises whoever delegates | |
| `BrokerTaskService` | the task service and the windows it drives; implements `DelegatedTask` | extends `TaskRoutes`, `TaskReducer` |
| `TaskRouteCatalog` | the route catalog and the start requests around it | |
| `BrokerOwnership` | abstract: at most one of the running extension hosts is the owner | |
| `WorkerOwnerLock` | the two lock files, one action per file system call; implements `BrokerOwnership` | `BrokerOwnership` as `Ownership` |
| `BrokerLifecycle` | the runtimes, operations and timers of the windows, and the fenced writes | |
| `WindowNodeTaskExecutor` | the executor of one connection generation | |
| `WindowNodeClient` | the connections of a window and their executors | |
| `LocalIpc` | the connections of one client id | |
| `DelegationTools`, `TaskReading` | the tools: delegate and wait; get, list tasks, list workers | |
| `AgentStarts`, `AgentTask` | the runtime's starts and cleanups; one task in an agent host | |
| `AgentHosts` | which host gets a task; the launches and disposals of hosts of our own | |
| `CliInstaller` | installations in the processes that share a storage root | |
| `RemoteExecution`, `RemoteTasks` | the generations of a codespace helper; the tasks of one generation | |
| `NativeChat` | the saved transcripts of a codespace | |
| `PeerPolicies` | who may start tasks where | |
| `Enrollment` | pairing over one invitation, and its revocation | |
| `PeerLinks` | the connection to a peer, from its addition to its removal | |
| `DevTunnel`, `Connectivity` | one tunnel and its host; the switch of the connections with its tunnels | |
| `RpcOutbox` | what one authenticated peer is sent | |
| `RemoteRoutes`, `SavedDevices` | the tasks started on a peer; the revocation and deletion of the peer | `SavedDevices` extends `RemoteRoutes` |
| `MC*` | values of constants; the behaviors of several modules, one at a time | those of the run |
| `*Proofs` | theorems | the modules they are about |

Modules that a run checks together share no variable. Such a run begins with a choice (`about`) of
the module the behavior is about, so that the state space is the sum and not the product.

The task service is built on `TaskRoutes`, not on `NodeRegistry`: the registry is shown to implement
that module, so what is shown of the task service over `TaskRoutes` holds over the registry.

**TaskRoutes and NodeRegistry.** An *instance* is one life of a window: a reload gives the window a
new instance id (`WindowOf` says which window). `live` are the instances the broker has a session
of, `claims` who holds a workspace, `binding` the exact route of a task together with its lease
(route and lease are two maps in the code; `NodeRegistry` keeps both, and `LeaseMatchesBinding` says
that they agree). `claimWorkspace` and `setWorkspaceEnabled` wait for a catalog write between their
check and their effect: `op` is the pending operation, `Begin...` and `Finish...` are its halves, and
the write may be lost, or land and throw. `register` is `Reconnect`, `Replace`, `RefuseReplace` and `Enter`, by
what the directory holds; eviction of offline entries is part of `Enter`. Heartbeats only matter when
they stop (`SweepExpired`).

**BrokerTaskService.** `state` and `target` are the task files and survive a crash; the broker's
memory is `phase` to `queued`; the windows keep `exec`, `launches` and `outcome`. One operation of a
task's queue (`enqueueTask`) is one action, in any order of the queued operations: properties that
hold for any order hold for the queue's. A start is three steps, as in the code: `BeginStart` takes
the route and waits for the store, `AcceptStart` or `FailStart` is the return of the write,
`DispatchStart` is the send after the approval was awaited. Every write of a record goes through
`Record`, which offers what the store can do: succeed, be *lost* (throws, nothing written), have
*landed* (written, throws), or be *unpublished* (written, then the publication throws). Time is left
out: `due` is the set of tasks whose deadline has passed, an armed timer may fire at any moment.
Windows: `NodeStart` and `Launch` separate the arrival of the request from the launch of the agent,
so cancellation may fall between; an event is published, authenticated (`ReceiveEvent`) and applied
(`ApplyEvent`), and the next one waits for its acknowledgement.

**TaskRouteCatalog.** `stored` is the persisted catalog, `routes` the map in memory, `groups` the
attempts that share a reservation, `mutation` the promise chain that runs operations one at a time.
An attempt is one call of `startLocalRoute` or of the remote start; its phase is the await it stands
at, and it goes on in the step that runs the operation it waits for, as a promise continuation
does. `tasks` is the authority on a task: the task store for local requests, the peer for remote
ones. A start holds the start lock and the task's queue while its acceptance is published
(`Starting`, `Publishing`): this ordering decides which races are possible, so it is kept.

**WorkerOwnerLock.** `lock` and `mutex` are `worker-owner.lock` and `worker-owner.takeover`, `handle` says
who has the owner file open (`this.handle` and `this.record` are set together), `pc` is the file system
call a process is about to make, and the other variables are what it remembers from earlier calls. The
path of a contention is `Observe`, `OpenMutex`, `WriteMutex`, `Decide`, (`Steal`,) `Link`, `Publish`,
`Release`, `Released`; of a recovery `Inspect` to `Taken`, and `Undo`, `Withdraw`, `Resign` when it gives
up. Owner records appear whole, since a candidate is linked into place, but the mutex is created empty.
A generation or an inode is the process with a bit that changes at every attempt: that tells an attempt
from the one before, and older ones are forgotten by then. `old` are the processes whose records are
older than the TTL; only a process in `Late` is late while it runs. A pid that runs is seen to run by all:
the extension hosts of a storage directory share a machine. The loss listeners and `takeoverBlocked`, which is a display, are left out.

**BrokerLifecycle.** `op` is the await an operation stands at, `queue` the operations behind it in
`operationTail`, `timer` the one timer. `stopRuntime` is called from five places: `Stopped` and
`StopFails` are its two results, `op` says what the caller does next. The lock is what
`WorkerOwnerLock` shows it to be: `Won` needs a file that is free or names a process that has exited, and
only its owner, a heartbeat that fails or an exit ends a tenure. `writes` is the one
`FencedStateStore.update` a runtime has in flight, between its checks and the write, and between the
write and its last check.

**A window.** `LocalIpc` is both ends (`IpcPeer`) of the connections of one client id with the frames
between them; frames are handled in order, and every await of the handshake is a phase.
`WindowNodeClient` has one phase per await of `connectOnce`, and a session together with its executor:
the promise of an executor's disposal decides when the next session may begin. `WindowNodeTaskExecutor`
is one such executor: the record of a start goes through its awaits and its start gate, its promises
(`cancel`, `dispose`) are fields other operations wait for, and `disposing` says how far the executor's
own disposal is. `DelegationTools` is what an agent's tool call sees above that link: `calls` are the
waiters, `asks` and notices travel in order, and `work` is the task at the broker, which moves as
`BrokerTaskService` lets it. `TaskReading` has what a reader keeps between calls (its cursor) and what
the broker still has of the log; a result is an interval of events and weights cut to a budget.

**Agents.** `AgentStarts` is the queue of starts (`turns`), what each has acquired and the one promise of
its disposal (`op`), the retained cleanups (`retained`, `retry`) and `disposeResources` (`life`).
`AgentTask` follows one `AhpTask`: numbered connections, one of which has its generation and one of
which a recovery tries; the host applies a client sequence number once. `AgentHosts` is the two ends around them:
`pick` is a start of the selector, from approval to a source, with what the sources hold of it (`holds`) and its
`cancelStart`; `host` is a launch, from discovery to a process with its group and its directory, `owned` is
`this.owned` of the launcher and `left` the process groups of its commands that could not be ended. `CliInstaller` has the lock
file with its identity, directories named by the call that made them, and the manifest.

**Codespaces.** `RemoteExecution`: an attempt of a client names the generation the server makes for
it; calls may outlive the deadlines of both sides. `RemoteTasks`: within a generation, invocations
arrive in order and replies any time; `adm` is what the desktop knows of a task, and the stream is
polled, handed to the broker and acknowledged. `NativeChat`: a change is a transaction under an exclusive lock file,
published by a rename and undone when the directory cannot be synced.

**Peers.** `DevTunnel` and `Connectivity` tell stops from what they interrupt by the numbers the code uses
(the lifecycle, the stop epoch). `Connectivity` has the settings twice: `saved` is the memory of the store, which the code
goes by, and `file` what a restart reads. Every update of them may throw, with the file written or not
(`WriteThrows`); what the code then leaves undone is left undone: `BeginsDisable` ends with the relay cut and the host still
connected, `BeginsUndo` without a cleanup. Requests may be refused at their turn (`RefusesJob`), and the window that asked may
vanish between two of them. `lst.stuck` is a listener that a refresh of the account could not stop.
`PeerLinks` has the stores (profile, secret, tombstone) beside the manager's memory and the connection. Every
write to a store is done, lost or has *landed* (it threw after it took effect), and every read may throw. Where the code then gives
up a key, nothing will ever delete it: `past.leaked` is the ledger of these, and `KeysHaveOwner` is about all other keys.
An attempt that a timer or a restore launches waits for the ownership first (`ops["try"]`). `Enrollment` is both sides of the pairing with their two stores.
`PeerPolicies` has an edit as the user saw it and as it is written. `RpcOutbox` counts as the code
does: bytes until the socket takes a frame, events until it has sent it. `RemoteRoutes` has the stored routes, the groups of attempts and
the peer (`svc`). A reservation is bound to the `PeerConnection` object (`link.object`), which outlives its sessions: `ReconnectPeer`
gives the link another `conn` and keeps the object, so that a task may be reserved over one session and asked for over the next; `SavedDevices` adds the stages of a revocation or deletion.

**What abstracts what.** Identifiers are model values; hashes and targets are folded into the
identity of a request; titles, prompts, summaries and timestamps are left out, except
`createdAt` and `terminalAt` where records are compared (the creating attempt, and the state).

## 3. The runs

| Run | Module | Instance | Shows |
| --- | --- | --- | --- |
| `NodeRegistry` | `MCNodeRegistry` | registry: 3 windows, one with two lives, 2 workspaces, 2 tasks, directory of 2; routes and saved device: 2 tasks of 2 attempts at a peer, a catalog of 1, one fault, one new connection | `LeaseMatchesBinding`, `ClaimsMatchView`, implements `TaskRoutes`; `RoutesSound`, `DeletedIsIdle` |
| `BrokerSafety` | `MCBrokerProcess` | broker: 2 tasks, 1 window, 1 workspace, lost writes and failing publications, restarts; switch: 2 accounts, 3 requests, 3 faults, 2 retries | `OneActiveTaskPerWorkspace`, `LeaseFollowsRecord`; `SwitchSound` |
| `BrokerFaults` | `MCTaskHistory` | broker: 1 task, 2 windows, every write fault, deadline, question, restarts; transcripts: 2 tasks in one window, a window that archives, 1 fault; readers: 4 events, of which 2 are kept | `LaunchedAtMostOnce`, `TerminalIsTrue`, implements `DelegatedTask`; `TranscriptSound`; `ReadingSound` |
| `BrokerLiveness` | `MCBrokerTaskService` | 1 task, 1 window, deadline, question, failing publications, restarts, fairness | `EveryTaskEnds`, `AgentsStop` |
| `RouteCatalog` | `MCTaskRouteCatalog` | a local, a remote and a conflicting request, 2 attempts, catalog of 1, one fault of any kind, one restart, fairness | `DispatchedHasRoute`, `RoutesLeaveSafely`, `RouteCatchesUp` |
| `OwnerLock` | `WorkerOwnerLock` | 2 windows that may be late, 2 failing calls, fairness | `OwnerHasFile`, implements `BrokerOwnership`, `LeaderReturns` |
| `Lifecycle` | `BrokerLifecycle` | 2 windows, two rejections of any kind, fairness | `OneRuntime`, `WritesInOrder`, `OwnerServes` |
| `WindowLink` | `MCWindowLink` | client: 3 sessions; transport: 2 connections with a request each; tool: 2 calls for one task, one broken link, one question | `ClientSound`, `OneSessionPerClient`, `RequestsSettle`, `CallsSound`, `CallsReturn` |
| `Agents` | `MCAgents` | executor: 2 tasks; starts: 2 with 2 failing disposals; task: 4 kinds of host, 2 connections; hosts: 1 task and 1 retry, 2 launches; installer: 4 calls in 2 processes | `ExecutorSound`, `NoHostUnowned`, `AgentEndSound`, `HostsSound`, `InstallerSound` |
| `Codespaces` | `MCCodespaces` | generations: 2 clients, 2 attempts each; tasks: 2 of 2 events, a queue of 1; policies: 2 workspaces, 2 edits, 2 pairings | `CodespacesSound`, `PoliciesSound` |
| `Peers` | `MCPeers` | tunnel: 4 lifecycles, 1 restart, 2 faults; link: 2 attempts, 2 faults; pairing: 2 coordinators, 2 connections, 2 troubles; outbox: 2 tasks, 4 calls | `TunnelSound`, `LinksSound`, `PairingSound`, `OutboxSound` |
| `BrokerSingleWriter` | `MCBrokerTaskService` | 2 tasks, 2 windows | a documented promise the code does not keep (section 6) |

Every property has a mutant in `PROJECT.json`: a definition of a module changed the way a bug would change
the code, which the run of the property then finds.

**Bounds, and why they suffice.** The only unbounded data are the tasks, windows and attempts: the sets
are as small as the interesting case allows. Two tasks in one workspace are needed for a conflict of
leases, two windows for one to take over from another, two instances of one window for a reload, a
directory of two with three windows and a catalog of one with two tasks for eviction. `BrokerSafety`
takes two tasks and one window, `BrokerFaults` one task and two windows, because their product is too
large and a task interacts with another only through the lease. `Expiring`, `Asking` and `Crashing`
are the bounds of the broker; `MaxFaults`, `MaxRestarts` and `Attempts` those of the catalog. The lifecycle
counts elections up to `MaxTerms`: a window that gave up the ownership does not get it back, so there are
no more than there are windows; two failing promises are what a failed cleanup of a failed start takes. A link takes two faults:
one that begins a rollback or a cleanup, and one in it. The switch takes three: an enable that fails late, the write that should have
announced its cleanup, and one more or a restart after that.

Where two kinds of trouble multiply, an MC module takes one at a time and says so in its next-state
relation: in `MCCodespaces`, tasks are stopped and report only their end, or report more and are not
stopped, and workspaces move, or a write fails and the device is paired anew; in `MCAgents`, three
installations of one process, or two and one of another process, or one and one with one more
thing that goes wrong; in `MCWindowLink`, one call with every trouble (but a link that breaks excludes
questions), or two calls over a link that holds, the second of which is not stopped; in `MCPeers`, two
coordinators and one trouble, or one and two; in `MCNodeRegistry`, reads of a directory, attempts with a
restart, or a device that is deleted with one attempt under way; in `MCTaskHistory`, both tasks of a
codespace run in one window, while the other archives, holds the lock and dies.

The proofs of section 5 do not depend on any of these bounds. Symmetry is declared only where the
properties are invariants or action properties, and the elements are interchangeable in the module.

`CHECK_DEADLOCK FALSE` appears where the system may stop: attempts, calls and faults are used up, tasks
end, processes exit.

## 4. Fairness

`BrokerLiveness` assumes that armed timers fire, queued work runs, a write returns, closed connections
are noticed, agents that are told to stop do stop, and a broker that is down is started again. These
are what `setTimeout`, the promise queues and IPC heartbeats give, and for the agents what the
executor enforces with its disposal. `Recover` gets strong fairness because it competes with crashes:
a broker that crashes again and again still recovers a task in one of its lives. Nothing is assumed
of users, agents that run, or answers of windows: `EveryTaskEnds` holds because of the worker deadline.

`RouteCatalog` assumes that queued catalog operations run and that starts return or throw (both
have timeouts: `taskStartTimeoutMs`, the RPC timeouts), weakly. Nobody has to retry or read a task.

`OwnerLock` assumes that a running process goes on (`Step`: its file system calls
return, and the lifecycle contends again by timer), that heartbeats come, and that a dead process's records
grow older than the TTL. A crash or a disposal is never assumed. `LeaderReturns` excludes `FailedClosed`, the
state docs/project-guide.md:212 says is not recovered (an orphan mutex that is incomplete, or that stands
beside an owner file), and `Abandoned`, a file that names a running process that is no owner (section 6).

`Lifecycle` assumes that what an operation awaits settles, successfully or not, and that timers fire.
`Stopped` gets strong fairness: it waits for the requests a runtime serves, which may write one after
another but are finitely many.

`WindowLink` assumes that the transport handles what arrives and its timers fire (`IpcProgress`); above it,
that broker and window answer and read (`BrokerAnswers`, `Hears`, `ReadsExisting`), that a broken link
returns (the client reconnects for ever), that a waiting call's budget ends and a cancellation is sent
(timers of the waiter), and that a task that is being cancelled ends (`EveryTaskEnds`). A task that nobody
cancels may run for ever.

## 5. The proofs

All proofs hold for any finite or infinite sets of tasks, windows, instances, workspaces and so on, from
the assumptions named in the modules: the sentinels (`NoInstance`, `NoRoute`, ...) are not members of the
sets, `WindowOf` is a function, limits and sizes are natural numbers, a tunnel is restarted at least once
(`maxRestartAttempts` must be positive), and for the registry, windows are finitely many and the directory has a
positive limit.

| Theorem | Says |
| --- | --- |
| `BrokerTaskServiceProofs!RoutesSafe` | `TaskRoutes`: leases are exclusive, claims belong to live instances, one life per window, a bound instance fences its window |
| `WindowLinkProofs!RegistrySafe`, `ClaimsAgree` | type invariant and the safety invariants of the registry, `LeaseMatchesBinding` and `ClaimsMatchView` among them |
| `WindowLinkProofs!RegistryImplementsRoutes` | every registry step is a `TaskRoutes` step or a stutter |
| `WindowLinkProofs!ClaimsNotStolen` | a claim passes to another window only through being free |
| `BrokerTaskServiceProofs!BrokerRoutesSafe` | type invariant of the task service and `RoutesInv` |
| `BrokerTaskServiceProofs!LeaseSafe`, `OneActiveTask` | without *landed* faults: `LeaseFollowsRecord`, `OneActiveTaskPerWorkspace` |
| `BrokerTaskServiceProofs!RecordIsTrue`, `OneAgentPerTask` | under all faults: `TerminalIsTrue`, `LaunchedAtMostOnce`; a cancelled admission was never sent |
| `BrokerTaskServiceProofs!Implementation` | `BrokerSpec` implements `DelegatedTask` |
| `TaskRouteCatalogProofs!RoutesHeld` | `DispatchedHasRoute`: a task that was accepted or may have been sent has its route on disk until it ends |
| `TaskRouteCatalogProofs!RoutesLeave` | `RoutesLeaveSafely`: a record leaves only when its task has ended or nothing was sent |
| `WorkerOwnerLockProofs!OwnersKeepTheirFile` | `OwnerHasFile`: whoever is the owner has its own record in the lock file |
| `WorkerOwnerLockProofs!HoldersKeepTheirMutex` | the mutex of a running holder stays |
| `WorkerOwnerLockProofs!Refinement` | the lock implements `BrokerOwnership` |
| `BrokerLifecycleProofs!OneRuntimeSafe` | `OneRuntime`: never two runtimes |
| `BrokerLifecycleProofs!WritesOrdered` | `WritesInOrder`: no write after one of a later generation |
| `WindowLinkProofs!OneSession` | `OneSessionPerClient` at the broker |
| `WindowLinkProofs!ClientSafe` | `ClientSound`: generations of executors are kept apart, and disposal leaves nothing |
| `AgentsProofs!ExecutorHeld` | `ExecutorSound`: one start at a time, one end that is true for each task, and a disposal that is complete |
| `AgentsProofs!HostsOwned` | `NoHostUnowned`: a host process has an owner, and none outlives the runtime's disposal |
| `AgentsProofs!HostsKnown` | `HostsSound`: one source has a task, and what a start or a launch leaves is told or tracked |
| `AgentsProofs!InstalledSafely` | `InstallerSound`: what is installed is whole and stays, one installation per process, clean ends |
| `PeersProofs!OutboxKept` | `OutboxSound`: the limits and accounts of the outbox |
| `PeersProofs!PoliciesKept` | `PoliciesSound`: what is revoked stays so, and what crosses devices was allowed |
| `PeersProofs!DevicesGrounded` | `RoutesSound`: tasks at a peer have their routes, over whichever session they were asked for; targets come from the present connection |
| `PeersProofs!DeletedNothingLeft` | `DeletedIsIdle`: nothing runs, or can still start, for a deleted device |
| `PeersProofs!PairingHeld` | `PairingSound`: one peer per invitation, no coordinator left stranded, and a revocation that holds |
| `PeerLinksProofs!LinksHeld` | `LinksSound`: every stored key that the code has not given up has its profile, a removed peer stays removed, a disposal leaves nothing |
| `BrokerTaskServiceProofs!SwitchHeld` | `SwitchSound`: no tunnel is forgotten, disabled is dark, an unwanted host is cut from its relay, no recovery is lost |
| `PeersProofs!TunnelHeld` | `TunnelSound`: no host process is out of the provider's sight, and the entry of the service is the one on record |

How the arguments go.

- *Registry.* The inductive invariant `IInv` is the type invariant, `DirectoryInv` and `LeaseInv`.
  The invariants as checked are not inductive: that a directory entry belongs to its own window
  (`EntriesOwned`) is needed before a reload can be said to replace the right entry, and
  `PendingDisableFences`, that a workspace whose disabling waits for the disk takes no new task, is
  needed before `FinishDisable` can keep `DisabledIsIdle`. The size bound is a separate induction over finite sets.
- *Leases.* `LeaseInv` adds to `LeaseFollowsRecord` what holds while the broker is down or recovering
  (no binding at all) and while a start is between route and record (`preparing`): that route has no
  record yet. It needs "no landed write": with one, the property is false (section 6).
- *Truth of the record.* `TruthInv` follows one task through admission, dispatch, executor and agent.
  `TerminalIsTrue` is not inductive because "cancelled" must mean that no request is on its way to
  a window: the invariant ties `admission` and `dispatch` to `exec` (a cancelled admission was never
  sent; what was sent was sent once; an executor record exists only for what was sent; an event in
  flight was reported by the agent whose `outcome` it is).
- *Refinement.* Each action maps to one `DelegatedTask` action or a stutter under `Status` and `Agent`;
  `TruthInv` supplies the guards of `End` and `Work`. A lost window ends several starts at once,
  which is why `Stop` takes a set.
- *Route catalog.* `DispatchedHasRoute` is not inductive: the last attempt of a group takes the record back when its
  own start failed before anything was sent, and only the group tells that no other attempt has sent it.
  `CatalogInv` has three parts. `Data` says that what attempts, groups, memory and disk hold is well formed and that what
  an attempt saw of its task is true. `QueueOK` says that no two operations of the chain are one attempt's, so that none is
  run by an attempt that has gone on. The promises are: one record for a task (`OneRecord`); an attempt about to release
  has tried nothing (`ReleasedUntried`); a task an attempt tried is known, and has its route (`AttemptedKnown`, `TasksHeld`,
  `AttemptsHeld`); an attempt about to start is in a group that may still be released, or needs none (`ReservedHeld`); and such a
  group holds every attempt that tried the task (`LooseKeeps`). The last is the point of the protocol: a failed attempt that
  leaves a group alone in it can conclude that nobody has sent the task.
- *Owner lock.* `IInv` is the type invariant with one invariant for each file. `LockInv`: from `Link` or
  `LinkRecovering` until it removes it, a running process finds its own record in the lock file. Records leave
  the file in five actions; four are taken by the process they name, and the fifth, `Steal`, by a process that
  found the record of a dead one while it held the mutex. Nobody can have replaced that record since:
  contenders need the mutex, and a recovery links only where there is no file. `MutexInv` says the
  converse for the mutex: only its holder removes it, or a recovery that has its record in the lock file
  and found the mutex of a dead process. So each file protects the other, and neither invariant can be
  proved alone. What was remembered (`observed`, `snapshot`, `claimed`) is of dead processes or of its
  own, which needs that one bit is enough to tell attempts apart. For the refinement, two owners
  would both have their record in one file (`OneOwner`), and a step of a process concerns no other owner
  (`OnlyItsOwn`). That a dead process is never taken for a live one is not needed, the converse is:
  `Stale` needs the pid to be gone, and time alone is not enough (a mutant of the run `OwnerLock`).
- *Lifecycle.* A window with a runtime, or about to get one, has its record in the lock file (`KeepsFile`), which names one
  process: this gives `OneRuntime`. It needs to know which operations can be without a runtime. For the writes, the generation
  of an owner is the latest there is and that of a write in flight is its runtime's, so that a later
  generation can only write when the earlier process, and its write, are gone.
- *Sessions at the broker.* The table has the last connection that was confirmed, and a connection that is served is in the table:
  the confirmation of a new one closes the old one in the same step, and a late close forgets only itself.
- *Window client.* No session begins before the executor of the one before was cleaned up. The invariant follows the two
  places an executor can be (`executor`, `retiring`) through each await of `connectOnce`, and says of the disposal which of
  its failures are recorded at each of its stages.
- *Executor.* `StartKept` says phase by phase what a start record holds: nothing is started, stopped or published before the
  agent is, and a start that failed is kept only while something is left of it. An end is published by the pump or by one of
  two cancellations; that there is one, and that it is true, needs all three at once: the pump is at work only in a started
  task whose cancellation has not begun (`StartKept`, `PumpKept`), a cancellation publishes only when the agent is known to have
  stopped and nothing was told (`CancelKept`, `EndKept`), and what stopped once does not work again. `GateKept` says that the turns are
  those of the starts that need one, once each, with the start under way first; it survives a start that leaves from the middle of
  the queue. `DisposalSound` says what a disposal has already settled: no start, and no agent, after the runtime's.
- *Agent starts.* A start leaves the queue in many ways. `HostKept` says of one start that it has acquired nothing before its
  host is launched, that a disposed owner has no host, that a started host is the task's, and that a host has an owner; and
  `StartsClosing` that a runtime which has drained its starts only refuses new ones. Only an owner's disposal that
  succeeded makes anybody forget it, which is what the mutant of `NoHostUnowned` breaks.
- *Agent hosts.* Both parts of `HostsSound` are about what is held after something failed, and neither is inductive. Of a task in the
  selector (`PickKept`): it waits only while nobody holds it, and at a source only that source does, so that the
  fallback begins with nothing at the editor; a cancellation that succeeded found the start over and clean. `ClosingKept`
  says how far a disposal is: what was under way is aborted, and a source that was disposed of gets nothing more. Of a
  launch (`LaunchKept`): no process before it spawns, ownership before a disposal, and what is neither with its launch nor owned is gone.
  `DisposalKept`: past its drain, a disposal of the launcher waits for all that is owned or left, or it has failed.
- *Installer.* `CallKept` says what a call has left in the storage root at each of its phases: no lock before `TakesLock`, nothing
  staged before `Stages`, a whole release from `Publishes` until the finally block. The promises rest on two more facts. What the
  manifest names, or a call has read or answered, was activated (`NamesKept`), and the finally block takes nothing away that was.
  Of two installations of a process that are under way one waits for the other, and one that has entered waits for none
  (`QueueKept`); `OneInstallation` alone is not inductive, since it forgets for whom those in the queue wait. The lock file is
  not needed for any of it, which is why a removed lock does no harm here.
- *Outbox.* The outbox is one sequence, the frame before what waits (`Held`); enqueuing appends to it and a flush takes its
  head, so that the invariants are stated of a sequence and proved once for each of four changes. Every call that is
  owed an answer waits in exactly one message (`Book`); a task is marked exactly when one message is its
  marker (`Marks`), without which a call that joins a marker could be lost.
- *Policies.* One edit at a time is on its way (`OneEdit`) and while it writes its document is held (`DocumentHeld`), so that
  what it read is what it replaces. `WritesKept` is the point: as long as an edit may write a grant the peer is not removed, and
  the grant of one that accepts without asking is still there. A revocation that holds the document has left no
  grant on disk (`RevocationStored`), so memory can follow.
- *Remote routes.* As for the route catalog, but the groups are kept in memory and a restart forgets them. `CallHeld`: a call that
  has asked, or is authorized to ask at any moment, has its route stored and in memory until the task is known to have ended, and is in
  the group of the route as long as that group may take it away (`Loose`). A restart ends every call that had not asked. What
  the peer knows it was asked (the last conjunct of `RoutesKept`), so a running task has a call that holds its route.
- *Saved devices.* `DeletedIsIdle` rests on `RoutesKept`: the routes in memory account for every call that asked, so that without an
  active route each task has ended, also for a request that still travels. The last conjunct of the property says this; it
  does not say that every request was answered, which is false with two attempts of one task: one may still travel when the other
  has seen the task end.
- *Tunnel.* `OneHostProcess` needs only that a process is spawned where there is none. That the entry is the one on record until a
  renewal revokes it, and again when the renewal has ended, needs that nothing but `ensureHosted` ends the lifecycle of a renewal half-way
  (`AccessKept`). `Kept` says of each mutation, at work or waiting, that a host of its lifecycle is in its own hands, unless the
  renewal timer sent it, in which case the provider has counted no restart: a host that exits amid that renewal is
  therefore started again instead of opening the circuit, which is where `maxRestartAttempts` > 0 is used. `Before` says that two mutations of
  the present lifecycle are a renewal and a restart, in this order, so that one that ends leaves the other's promises as they were.
- *Pairing.* `PairingSound` says of a coordinator what its worker has stored, and the two learn it at different times. `Stepping`
  gives the stages of a request on its connection, `Awaiting` says that the mutation under way is the one the request of its
  connection waits for, and `Backed` that only a peer is marked as authenticated. `CoordKept` says which means a coordinator has at each of
  its steps, and `Tied` that, as long as the connection is up, a good answer on it is about the enrollment the coordinator asked
  for. `StoreKept` is about the records alone: the invitation is used up by its one peer, and a peer keeps its root until a
  revocation is recorded. An answer that came over another connection says nothing, which is why `Tied` is only claimed of a `Linked` one.
- *Peer links.* What may be under way together comes first: `StagesKept`, `WaitsKept` and `CallsKept` say at which stages the
  calls of the manager can be and who waits for the attempt to connect, and `VirginKept` that there is nothing but `add()`
  until a profile is stored. From these follows who owns a key that is not given up (`KeysOwned`): a key is given up only together with the call that had it,
  and what an enrollment writes anew is owned again; `CleanupKept` adds that a key which a
  removal has deleted does not come back, because enrolling starts only from a profile with nothing but the invitation.
  That a removed profile does not come back rests on `AttemptKept`: an attempt that writes a profile has read
  one, and a removal marks it only when the connection has settled. This is false of a timer's try that waited for the ownership
  while `remove()` began (`past.late`, section 6), so that `LinksSound` and the invariant say it of punctual ones only.
  `EndsKept` says what is left of the connection at each point of a removal, a rollback and a disposal;
  `ProvisionalKept`, needed for the rollback, that a peer not enrolled yet has one try at a time, so that of two calls that fail
  the second finds nothing to roll back; and `DisposalKept`, that a disposal finds nothing under way from its second look on.
  The proof names the effect of each action once (the lemmas `...Does`) and keeps each part under all of them.
- *Switch.* The queue has one job under way, its head (`QueueKept`), and what that job has settled is told by its stage: from
  `Marks`, `BeginsDisable` or `BeginsUndo` until the cleanup has ended the settings say that something is pending (`StageKept`), and the
  state that is shown is that of the stage (`ShownKept`). `NoTunnelForgotten` is one half of `LedgerKept`; the other half is why it
  lasts: the ledger is only cleared when the cloud is known to be empty, a tunnel is only asked for under the id of the ledger, and its
  account is that of the settings, which nobody can change while a tunnel is left. All this is said of the settings in memory and of
  those in the file: a write that throws parts the two, and a job that launches has made them one again (`StageKept`).
  `HostedIsWanted` is kept by each step: whatever makes a host unwanted has first cut its relay, so that nothing depends on
  the cleanup, which may never come; `HostKept` adds the stages of a launch, and that an open gateway is in the settings.
  `DisabledIsDark` and `RecoveryIsNotLost` are for a switch at rest and not inductive: after a restart what is
  shown as off may be enabled or pending, but then a restore is in the queue that has not begun, and what is down may wait for a
  recovery that is queued (`Restoring`, `Recovering`): `DisabledKept` and `RecoveryKept` are the promises with that
  exception. The type invariant needs `MaxRecoveries` to be a natural number.

Only model-checked:

- every liveness property (`EveryTaskEnds`, `AgentsStop`, `RouteCatchesUp`, `LeaderReturns`, `OwnerServes`, `RequestsSettle`,
  `CallsReturn`): they need fairness, which these provers do not treat;
- `CallsSound`, `ReadingSound`, `AgentEndSound`, `CodespacesSound`, `TranscriptSound`:
  their inductive invariants are not written yet (section 8). `ReadingSound` and `TranscriptSound` speak of folds
  over logs, which need induction over data and are out of reach.

## 6. Disagreements between code and documents

`BrokerSingleWriter` is a run that expects a violation, and an entry of `findings` in `PROJECT.json`:
docs/technical-implementation.md:269 promises one writer per workspace. The lease is given back with the
terminal record, before the agent has stopped, so a second agent may start while the first still writes.
What does hold is one *active task* per workspace.

Seen while modelling, and left without a run of their own, because properties above state what does hold.

The broker:

- A retry that reserves while the first attempt is being settled replaces the group the
  first attempt is in, because groups are compared by the route record including its state. The first attempt,
  whose task runs, is answered with an `AggregateError` (`broker/TaskRouteCatalog.ts:440`), against
  docs/technical-implementation.md:79 and :475.
- One heartbeat that cannot read or write the lock file loses the ownership and leaves the
  file, which names a process that runs (`storage/WorkerOwnerLock.ts:280`). No window can be elected before that
  one exits, against docs/technical-implementation.md:1374 (exactly one broker).
- An exclusive create whose directory sync fails has written the record, but the service gives the route back
  (`broker/BrokerTaskService.ts:614`): the record stays active without lease or timer, and a second task is accepted
  in the workspace, against docs/technical-implementation.md:654. `LeaseFollowsRecord` is checked and proved without
  such writes.
- When the publication after `cancelRequested` throws, no cancellation timer is set
  (`broker/BrokerTaskService.ts:974`), against docs/technical-implementation.md:659.
- A recovery of the takeover mutex that gives up removes its file before it stops being the owner
  (`storage/WorkerOwnerLock.ts:493`), so that `isOwner()` may be true for two processes, against
  docs/project-guide.md:217. Nothing is started meanwhile, since the first is still contending; `Owners` in
  `WorkerOwnerLock` leaves this process out.
- A runtime that failed to start and then failed to stop is kept, and the retry reports it as running
  (`broker/BrokerLifecycle.ts:276`); brokerLifecycle.test.ts:209 expects a retry to create a new one. `OwnerServes`
  excludes it (phase "halted").
- The reconciliation of a failed start may mark a route with an older snapshot after it became terminal;
  `RouteCatchesUp` excludes this. A reservation whose broker died before sending stays ambiguous and keeps
  its place in the catalog for good.

Windows and tools:

- A client that is disposed of while it reconnects may show the state "reconnecting" again. The branch of
  `beginExecutorTransition` for an overlap is never reached: a session implies that no transition is pending.
- A reconnect while a call's intent is still queued for persistence reads a task that is not there yet; the call keeps
  TASK_NOT_FOUND as its outcome and reports a failure, though its task runs (`node/LocalBrokerTaskFacade.ts:366`,
  `tools/DelegationWaiter.ts:222`). A question kept from before the task was known, and then a stop, make the call return
  "needsInput" and never cancel (`tools/DelegationWaiter.ts:210`). A start carried out after its link broke can make the
  deadline of a retry differ, which the broker refuses as a conflict.
- An event too large for the budget keeps a reader that follows the cursor in its place.

Agents and codespaces:

- After a failed recovery the connection is shut, so that the session is not disposed of and its turn may go on in an
  editor's host. A session whose turn could not be stopped is kept even if the turn ended later; a session whose creation
  was answered too late stays on an editor's host.
- A launch whose directory cannot be removed, and which had no process yet, reports "cleanup also failed and remains tracked for retry"
  (`agentHost/AgentHostLauncher.ts:704`), but nothing of it is kept (`agentHost/AgentHostLauncher.ts:337`). A probe that ends after the
  launcher began to dispose of what it owns may leave a process group that no disposal looks for.
- If the status of an installer's lock cannot be read, or its process dies, the lock stays until the user removes it; a
  lock made anew between the check of its identity and the removal would be removed (`codespaces/CodespaceCliInstaller.ts:441`).
- A write lock of the transcripts whose release failed stays, and every later change ends in STORAGE_LOCKED; a failed
  release reports a failure of what was saved, and so does a rollback that fails.

Peers:

- `ensureHosted` during the destructive renewal of a restart bumps the lifecycle without waiting for it
  (`tunnel/DevTunnelCliProvider.ts:583`, :436); a tunnel is created and not recorded when a stop comes between
  (lines 671 to 701); `ensureHosted` may answer "ready" while `stop()` is stopping the host.
- `tryConnect` checks `enabled` before it awaits the ownership and not after (`peer/PeerConnectionManager.ts:402`): a timer
  just before `remove()` can connect a peer that is being removed, and bring its profile back. An aborted attempt resolves, so
  that a peer is no longer provisional though it never enrolled. A `connect()` that waits for a disconnect starts anew after a
  removal. What is left of a rollback or an enrollment is given up
  in these cases, and the keys stay in the secret store without a profile: the process dies between the two stores; the tombstone that stands for a
  profile never stored cannot be stored (line 529), or the profile cannot be read (line 504), or there is none to spare (line 522), and the key cannot be
  deleted; and in an enrollment (`peer/WebSocketPeerTransport.ts:276`) the credential's store throws after it landed, the keys of a candidate
  that was not stored cannot be deleted (line 462), or it cannot be found out whether it was stored (line 304). `KeysHaveOwner` speaks of
  all other keys (`past.leaked`). A profile whose write threw after it landed is left by the rollback when an enrollment
  has replaced its invitation (line 515).
- A route that is ambiguous and was never known to the peer blocks the deletion of the device for good; so does a revocation
  that leaves an outgoing task "cancelling" and then removes the profile. A group replaced by a later attempt makes
  an earlier attempt's `retain` throw though its task runs (`composition/ProductionRemoteTaskAdapter.ts:557`, :516). A stale
  snapshot can move a terminal route back to an active state.
- A local start is not checked again after its route was resolved. A fenced write that throws after its rename leaves
  the file ahead of memory.
- A settings write that fails stops what was to follow it. At `composition/ProductionConnectivity.ts:853` (an enable that failed late) nothing
  is cleaned up and no recovery is scheduled, and the state shown stays "starting". At line 883 a disable has set `stopRequested`
  and cut the relay of the host, but nothing is taken down: the tunnel stays in the account and the listener open, "stopping" is shown,
  and the settings stay enabled unless the write landed, so that a restart enables the connections again. A disable whose window
  vanished before its turn (line 552) is not carried out at all; it has cut the relay, too, and "online" may go on being shown.
  `HostedIsWanted` promises what is left: such a host is cut from its relay. A restore given up by such a disable shows "disabled" with an
  error while the settings stay enabled; `DisabledIsDark` speaks of "disabled" with no error. A refresh of the account that cannot
  stop the listener is not tried again (`lst.stuck`).
- The host can drop between the start of the listener and the state "online" (`composition/ProductionConnectivity.ts:842`). A creation
  of a tunnel that was aborted and lands after the last look at the account would be forgotten; it is assumed not to
  land. A queued switch takes its stop epoch when it begins. The branch of `startCore` for a tunnel already owned is not reached.

## 7. What is not modelled

- Answers to questions: the broker's answer queue and the executor's input queue (an answer is one step,
  `AnswerAccepted`). Continuations of earlier tasks (`continueFromTaskId`), artifacts, notifications to observers.
- Two brokers at once in `BrokerTaskService` and `TaskRouteCatalog`, where a restart is a crash followed by a new
  broker: `OneRuntime` and `WritesInOrder` justify it.
- Of the owner lock: failing calls of a release and of the removal of candidates, which leave files behind that
  no code removes, and pids that are used again. Records that do not parse count as absent in the code and
  are left by nothing but other programs.
- Of the link: framing, cryptography and proofs, which are right when they are about the same connection or enrollment.
- Of the peers: subscriptions and requests of a live connection, routing of requests in the gateway, the inbound
  coordinator, discovery and account enrolment, names of windows.
- Of the agents: how the editor's host is found and reached, the mapping of events, the content of archives; the CLI, the editor's host and the
  tunnel service are external and may do what their protocol allows.
- The dashboard beyond the actions above, redaction, validation and wording of the tools; the workspace registry,
  the artifact store, the wire schemas, the process host, and the shell: file system or operating system calls, or
  presentation, without a protocol of their own.
- Of the switch: an `initialize` that fails, after which every request is refused until the broker restarts.

## 8. The plan

Next, most important first:

1. Proofs of the safety properties that are only model-checked: `CallsSound` (what a call keeps until its task is known),
   `CodespacesSound` (a generation is known on both sides or being cleaned up; an event is at one of four
   places), and `AgentEndSound` (what a task's connections leave when it ends).
2. Answers to questions: at most one accepted answer per question, over retries.
3. `FileTaskStore` with `AtomicFileStore` as a module of its own, refining the write faults of `BrokerTaskService`.
