---- MODULE WindowNodeClient ----
(***************************************************************************)
(* src/src/node/WindowNodeClient.ts: a window's side of its connection to  *)
(* the device broker.  It connects, registers, claims the window's folders *)
(* and reconnects for ever; every session gets an executor of its own, and *)
(* no session begins before the executor of the one before is cleaned up.  *)
(*                                                                         *)
(* connectOnce is one phase per await; a close listener of a session runs  *)
(* within the call that closes it, so a closed session and handleDisconnect*)
(* are one step.  The executor is what WindowNodeTaskExecutor promises:    *)
(* until its disposal succeeds its agents may publish.                     *)
(***************************************************************************)
EXTENDS Naturals, FiniteSets

CONSTANT MaxSessions     \* bound: sessions, and executors but one

ASSUME SessionsAssumption == MaxSessions \in Nat

VARIABLES oneShot,       \* options.executor is an executor and no factory
          state,         \* stateValue
          first,         \* firstConnection: "none", "waiting", "resolved" or "rejected"
          blocked,       \* reconnectBlocked
          conn,          \* connectionOperation: see ConnPhases
          session,       \* this.session and this.client: is there one
          sessions,      \* sessions there have been
          registered,
          claimed,       \* this.workspaces: a folder is claimed
          timer,         \* reconnectTimer
          heartbeat,     \* heartbeatTimer: "none", "armed" or "sent"
          executor,      \* this.executor; 0 when undefined
          made,          \* executors created
          life,          \* what became of each
          retiring,      \* transitioningExecutor; 0 when undefined
          transition,    \* executorTransitionOperation is pending
          unclean,       \* executorTransitionFailure
          overlapped,    \* lifecycleFailures
          disposed,
          disposal,      \* where disposeOnce stands
          failed,        \* its failures
          used           \* the sessions an executor served or published on

connVars == <<conn, session, sessions, registered, claimed, heartbeat>>
execVars == <<executor, made, life, retiring, transition, unclean>>
disposalVars == <<disposed, disposal, failed>>
clientVars == <<oneShot, state, first, blocked, timer, overlapped, used, connVars, execVars,
                disposalVars>>

Executors == 1..(MaxSessions + 1)

\* "connecting" is the handshake, "closing" the end of an attempt that failed.
ConnPhases == {"none", "connecting", "registering", "claiming", "closing"}

FlagsOK ==
  /\ oneShot \in BOOLEAN /\ blocked \in BOOLEAN /\ session \in BOOLEAN
  /\ registered \in BOOLEAN /\ claimed \in BOOLEAN /\ timer \in BOOLEAN
  /\ transition \in BOOLEAN /\ unclean \in BOOLEAN /\ overlapped \in BOOLEAN
  /\ disposed \in BOOLEAN /\ failed \in BOOLEAN

ClientTypeOK ==
  /\ state \in {"idle", "connecting", "online", "reconnecting", "disposed"}
  /\ first \in {"none", "waiting", "resolved", "rejected"}
  /\ conn \in ConnPhases
  /\ sessions \in 0..MaxSessions
  /\ made \in Executors
  /\ FlagsOK
  /\ heartbeat \in {"none", "armed", "sent"}
  /\ executor \in {0} \cup Executors
  /\ retiring \in {0} \cup Executors
  /\ life \in [Executors -> {"absent", "live", "disposing", "dirty", "clean"}]
  /\ disposal \in {"none", "releasing", "connection", "transition", "executor",
                   "executorOnly", "retired", "rest", "done", "failed"}
  /\ used \in [Executors -> SUBSET (1..MaxSessions)]

ClientInit ==
  /\ oneShot \in BOOLEAN
  /\ state = "idle" /\ first = "none" /\ blocked = FALSE
  /\ conn = "none" /\ session = FALSE /\ sessions = 0 /\ registered = FALSE
  /\ claimed = FALSE /\ timer = FALSE /\ heartbeat = "none"
  /\ executor = 1 /\ made = 1
  /\ life = [e \in Executors |-> IF e = 1 THEN "live" ELSE "absent"]
  /\ retiring = 0 /\ transition = FALSE /\ unclean = FALSE /\ overlapped = FALSE
  /\ disposed = FALSE /\ disposal = "none" /\ failed = FALSE
  /\ used = [e \in Executors |-> {}]

----------------------------------------------------------------------------
(* Parts of methods: each says what becomes of a few variables *)

\* blockReconnect
Block ==
  /\ blocked' = TRUE
  /\ timer' = FALSE
  /\ first' = IF first = "waiting" THEN "rejected" ELSE first

\* scheduleReconnect, when a transition is (not) pending
Schedule(pending) == timer' = (timer \/ ~(disposed \/ blocked \/ pending))

\* requireConnected and assertCurrent
IsConnected == ~disposed /\ registered /\ session

\* executor.dispose() of e settles: "clean" also when a task failed but the
\* cleanup is complete (WindowNodeTaskExecutorDisposalError)
DisposedAs(e, end) == life' = [life EXCEPT ![e] = end]
Ends == {"clean", "dirty"}

\* beginExecutorTransition of this.executor, up to its await
BeginTransition ==
  /\ executor' = 0
  /\ IF transition
     THEN /\ Block
          /\ overlapped' = TRUE
          /\ UNCHANGED <<life, retiring, transition>>
     ELSE /\ transition' = TRUE
          /\ retiring' = IF executor = 0 THEN retiring ELSE executor
          /\ life' = [e \in Executors |-> IF e = executor THEN "disposing" ELSE life[e]]
          /\ UNCHANGED <<blocked, first, timer, overlapped>>

\* Mutant: the client does not wait for its old executor to be disposed of.
CloseSessionForgetting ==
  /\ session' = FALSE /\ registered' = FALSE /\ claimed' = FALSE /\ heartbeat' = "none"
  /\ state' = IF disposed THEN state ELSE "reconnecting"
  /\ executor' = 0
  /\ Schedule(transition)
  /\ UNCHANGED <<sessions, made, unclean, blocked, first, overlapped, life, retiring, transition>>

\* The session closes: handleDisconnect.
CloseSession ==
  /\ session' = FALSE /\ registered' = FALSE /\ claimed' = FALSE /\ heartbeat' = "none"
  /\ state' = IF disposed THEN state ELSE "reconnecting"
  /\ BeginTransition
  /\ UNCHANGED <<sessions, made, unclean>>

----------------------------------------------------------------------------
(* start, the timer and connectNow *)

\* connectNow: a fresh executor, unless the factory throws, and an attempt.
ConnectNow ==
  IF disposed \/ blocked \/ conn # "none" \/ transition
  THEN UNCHANGED <<state, first, blocked, conn, executor, made, life>> /\ timer' = FALSE
  ELSE IF executor = 0 /\ oneShot
  THEN Block /\ UNCHANGED <<state, conn, executor, made, life>>
  ELSE \/ /\ executor = 0
          /\ state' = "reconnecting"
          /\ timer' = TRUE
          /\ UNCHANGED <<first, blocked, conn, executor, made, life>>
       \/ /\ timer' = FALSE
          /\ UNCHANGED <<state, first, blocked>>
          /\ conn' = "connecting"
          /\ executor' = IF executor = 0 THEN made + 1 ELSE executor
          /\ made' = IF executor = 0 THEN made + 1 ELSE made
          /\ life' = [e \in Executors |-> IF e = executor' THEN "live" ELSE life[e]]

Start ==
  /\ ~disposed
  /\ first = "none"
  /\ first' = "waiting"
  /\ state' = "connecting"
  /\ conn' = "connecting"
  /\ UNCHANGED <<blocked, timer, overlapped, used, session, sessions, registered, claimed,
                 heartbeat, execVars, disposalVars>>

ReconnectTimer ==
  /\ timer
  /\ ConnectNow
  /\ UNCHANGED <<overlapped, used, session, sessions, registered, claimed, heartbeat,
                 retiring, transition, unclean, disposalVars>>

----------------------------------------------------------------------------
(* connectOnce *)

\* client.connect() returns a session. A client disposed of meanwhile keeps none.
Connected ==
  /\ conn = "connecting"
  /\ ~disposed
  /\ sessions < MaxSessions
  /\ conn' = "registering"
  /\ session' = TRUE
  /\ sessions' = sessions + 1
  /\ UNCHANGED <<state, first, blocked, timer, overlapped, used, registered, claimed,
                 heartbeat, execVars, disposalVars>>

\* The broker registers the node.
Registered ==
  /\ conn = "registering"
  /\ session /\ ~disposed
  /\ conn' = "claiming"
  /\ registered' = TRUE
  /\ UNCHANGED <<state, first, blocked, timer, overlapped, used, session, sessions, claimed,
                 heartbeat, execVars, disposalVars>>

\* claimCurrentWorkspaces: a folder is claimed, refused or released, during the
\* registration or a refresh.
ClaimWorkspace ==
  /\ conn = "claiming" \/ state = "online"
  /\ IsConnected
  /\ claimed' = ~claimed
  /\ UNCHANGED <<state, first, blocked, timer, overlapped, used, conn, session, sessions,
                 registered, heartbeat, execVars, disposalVars>>

\* Every folder has its answer.
Online ==
  /\ conn = "claiming"
  /\ IsConnected
  /\ conn' = "none"
  /\ state' = "online"
  /\ heartbeat' = "armed"
  /\ first' = IF first = "waiting" THEN "resolved" ELSE first
  /\ UNCHANGED <<blocked, timer, overlapped, used, session, sessions, registered, claimed,
                 execVars, disposalVars>>

\* A step of the attempt fails while it has a session: the session is closed.
AttemptFails ==
  /\ conn \in {"registering", "claiming"}
  /\ session
  /\ conn' = "closing"
  /\ CloseSession
  /\ UNCHANGED <<used, disposalVars>>

\* The catch of connectOnce once there is no session, and its finished: back to
\* waiting. Also a client that was disposed of leaves "disposed".
AttemptEnds ==
  /\ \/ conn \in {"connecting", "closing"}
     \/ conn \in {"registering", "claiming"} /\ ~session
  /\ conn' = "none"
  /\ \/ state' = "reconnecting"
     \/ conn = "connecting" /\ disposed /\ UNCHANGED state
  /\ Schedule(transition)
  /\ UNCHANGED <<first, blocked, overlapped, used, session, sessions, registered, claimed,
                 heartbeat, execVars, disposalVars>>

----------------------------------------------------------------------------
(* A session in use *)

\* sendHeartbeat
Heartbeat ==
  /\ \/ heartbeat = "armed" /\ heartbeat' = IF IsConnected THEN "sent" ELSE "none"
     \/ heartbeat = "sent" /\ IsConnected /\ heartbeat' = "armed"
  /\ UNCHANGED <<state, first, blocked, timer, overlapped, used, conn, session, sessions,
                 registered, claimed, execVars, disposalVars>>

\* The broker goes, a heartbeat fails, the runtime invalidates the executor
\* (invalidateExecutor), or a start met a closed generation of it.
Disconnect ==
  /\ session
  /\ CloseSession
  /\ UNCHANGED <<conn, used, disposalVars>>

\* handleBrokerRequestSafely: a start for a claimed folder reaches the executor.
ServeStart ==
  /\ IsConnected
  /\ executor # 0
  /\ claimed
  /\ used' = [used EXCEPT ![executor] = @ \cup {sessions}]
  /\ UNCHANGED <<state, first, blocked, timer, overlapped, connVars, execVars, disposalVars>>

\* publishTaskEvent, by any executor that has started tasks and is not cleaned up
PublishTaskEvent(e) ==
  /\ used[e] # {} /\ life[e] # "clean"
  /\ IsConnected
  /\ used' = [used EXCEPT ![e] = @ \cup {sessions}]
  /\ UNCHANGED <<state, first, blocked, timer, overlapped, connVars, execVars, disposalVars>>

\* The executor of the lost session is disposed of; only then a reconnect.
TransitionEnds(end) ==
  /\ transition
  /\ transition' = FALSE
  /\ DisposedAs(retiring, end)
  /\ \/ /\ end = "clean"
        /\ retiring' = 0
        /\ unclean' = FALSE
        /\ IF oneShot /\ ~disposed THEN Block
           ELSE Schedule(FALSE) /\ UNCHANGED <<blocked, first>>
     \/ /\ end = "dirty"
        /\ Block
        /\ unclean' = TRUE
        /\ UNCHANGED retiring
  /\ UNCHANGED <<state, overlapped, used, connVars, executor, made, disposalVars>>

----------------------------------------------------------------------------
(* dispose *)

\* dispose and disposeOnce up to its first await; a disposal that failed is
\* begun again.
Dispose ==
  /\ disposal \in {"none", "failed"}
  /\ disposed' = TRUE
  /\ state' = "disposed"
  /\ timer' = FALSE
  /\ heartbeat' = "none"
  /\ disposal' = "releasing"
  /\ failed' = overlapped
  /\ UNCHANGED <<first, blocked, overlapped, used, conn, session, sessions, registered,
                 claimed, execVars>>

\* The folders are released and the node unregistered, or not.
ReleaseAll ==
  /\ disposal = "releasing"
  /\ disposal' = "connection"
  /\ failed' \in {failed, failed \/ registered}
  /\ session' = FALSE
  /\ registered' = FALSE
  /\ UNCHANGED <<state, first, blocked, timer, overlapped, used, conn, sessions, claimed,
                 heartbeat, execVars, disposed>>

\* connectionOperation has returned; a pending transition is waited for.
AwaitConnection ==
  /\ disposal = "connection"
  /\ conn = "none"
  /\ claimed' = FALSE
  /\ disposal' = IF transition THEN "transition" ELSE "executor"
  /\ UNCHANGED <<state, first, blocked, timer, overlapped, used, conn, session, sessions,
                 registered, heartbeat, execVars, disposed, failed>>

AwaitTransition ==
  /\ disposal = "transition"
  /\ ~transition
  /\ disposal' = "executorOnly"
  /\ failed' = (failed \/ unclean)
  /\ UNCHANGED <<state, first, blocked, timer, overlapped, used, connVars, execVars, disposed>>

\* The current executor is disposed of; one that stays dirty is kept.
DisposeExecutor(end) ==
  /\ disposal \in {"executor", "executorOnly"}
  /\ disposal' = IF disposal = "executor" THEN "retired" ELSE "rest"
  /\ IF executor = 0 THEN UNCHANGED <<life, executor, failed>>
     ELSE /\ DisposedAs(executor, end)
          /\ executor' = IF end = "clean" THEN 0 ELSE executor
          /\ failed' = (failed \/ end = "dirty")
  /\ UNCHANGED <<state, first, blocked, timer, overlapped, used, connVars, made, retiring,
                 transition, unclean, disposed>>

\* The executor of a transition that failed before gets another try.
DisposeRetired(end) ==
  /\ disposal \in {"retired", "rest"}
  /\ IF retiring = 0 \/ disposal = "rest"
     THEN UNCHANGED <<life, retiring, unclean>>
     ELSE /\ DisposedAs(retiring, end)
          /\ retiring' = IF end = "clean" THEN 0 ELSE retiring
          /\ unclean' = (end = "dirty")
  /\ failed' = (failed \/ unclean')
  /\ disposal' = IF failed' THEN "failed" ELSE "done"
  /\ first' = IF first = "waiting" THEN "rejected" ELSE first
  /\ UNCHANGED <<state, blocked, timer, overlapped, used, connVars, executor, made, transition,
                 disposed>>

----------------------------------------------------------------------------

\* The steps the client owes: its timers fire, its requests and those it makes
\* of an executor settle.
ClientProgress ==
  \/ ReconnectTimer \/ Connected \/ Registered \/ Online \/ AttemptFails \/ AttemptEnds
  \/ \E end \in Ends : TransitionEnds(end)

DisposalProgress ==
  \/ ReleaseAll \/ AwaitConnection \/ AwaitTransition
  \/ \E end \in Ends : DisposeExecutor(end) \/ DisposeRetired(end)

ClientNext ==
  /\ \/ Start \/ ClaimWorkspace \/ Heartbeat \/ Disconnect \/ ServeStart
     \/ \E e \in Executors : PublishTaskEvent(e)
     \/ Dispose
     \/ ClientProgress
     \/ DisposalProgress
  /\ UNCHANGED oneShot

ClientSpec == ClientInit /\ [][ClientNext]_clientVars

----------------------------------------------------------------------------
(* Properties *)

\* No executor serves two sessions and no session hears of two executors: what
\* an agent of a lost connection still publishes never reaches the next one.
OneGeneration ==
  \A e \in Executors :
    /\ Cardinality(used[e]) <= 1
    /\ \A f \in Executors \ {e} : used[e] \cap used[f] = {}

\* A disposal that reports success has left no session, no timer and no executor
\* that is not cleaned up, also one whose first cleanup failed.
ClientDisposalComplete ==
  disposal = "done" =>
    /\ ~session /\ ~timer /\ conn = "none" /\ heartbeat = "none"
    /\ \A e \in Executors : life[e] \in {"absent", "clean"}

\* A window has one link to one broker, and none after its disposal.
ClientSound == OneGeneration /\ ClientDisposalComplete
====
