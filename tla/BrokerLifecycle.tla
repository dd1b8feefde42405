---- MODULE BrokerLifecycle ----
(***************************************************************************)
(* src/src/broker/BrokerLifecycle.ts: each extension host starts and stops *)
(* a broker runtime as it gains and loses the ownership, and               *)
(* FencedStateStore of WorkerOwnerLock.ts: the writes of that runtime.     *)
(*                                                                         *)
(* The ownership is what WorkerOwnerLock shows it to be: a file that names *)
(* a process, replaced only when that process took it back or has exited.  *)
(* The operations of a lifecycle run one at a time from the promise chain  *)
(* operationTail; each await in them ends a step.                          *)
(***************************************************************************)
EXTENDS Naturals, Sequences, FiniteSets

CONSTANTS Procs,     \* extension hosts
          Nobody, NoRuntime, NoWrite,
          Faults,    \* subset of FaultKinds
          MaxFaults, \* bound: faults in a behaviour
          MaxTerms   \* bound: elections in a behaviour

\* Promises that reject: the runtime factory, runtime.start, runtime.dispose,
\* contend, ownership.dispose; a heartbeat that fails and loses the ownership;
\* a provisional ownership that is lost again while it is contended for.
FaultKinds == {"create", "start", "stop", "contend", "release", "heartbeat", "provisional"}

\* A runtime: the generation it was made for, and how far it is.
Runtimes == [generation : Nat, phase : {"created", "started", "failed", "halted"}]

ASSUME LifecycleAssumption ==
  /\ Nobody \notin Procs
  /\ NoRuntime \notin Runtimes
  /\ Faults \subseteq FaultKinds
  /\ MaxFaults \in Nat
  /\ MaxTerms \in Nat

VARIABLES running,    \* the processes that have not exited
          file,       \* whose record is in worker-owner.lock
          owners,     \* where isOwner() is true
          terms,      \* generations so far
          generation, \* of each process's latest tenure
          state,      \* what the lifecycle reports
          queue,      \* operations waiting for operationTail
          op,         \* the operation under way
          runtime,
          timer,
          disposing,  \* disposeRequested
          writes,     \* the update of shared state each runtime has in flight
          shared,     \* generation of the last write that reached the state
          faults

ownershipVars == <<file, owners, terms, generation>>
vars == <<running, ownershipVars, state, queue, op, runtime, timer, disposing, writes, shared, faults>>

\* A runtime is stopped because it is not wanted any more, failed to start,
\* has lost the ownership, is found stale by a contention, or for disposal.
Stops == {"abandoning", "cleaning", "losing", "replacing", "closing"}

\* BrokerOwnerLock.acquire has run, then start() is called.
Init ==
  /\ running = Procs
  /\ \E p \in Procs \cup {Nobody} :
       /\ file = p
       /\ owners = {p} \ {Nobody}
       /\ terms = Cardinality(owners)
       /\ generation = [q \in Procs |-> IF q = p THEN 1 ELSE 0]
  /\ state = [p \in Procs |-> "contending"]
  /\ queue = [p \in Procs |-> <<"start">>]
  /\ op = [p \in Procs |-> "none"]
  /\ runtime = [p \in Procs |-> NoRuntime]
  /\ timer = {}
  /\ disposing = {}
  /\ writes = [p \in Procs |-> NoWrite]
  /\ shared = 0
  /\ faults = 0

----------------------------------------------------------------------------
(* Helpers *)

IsCurrentOwner(p, g) == p \in owners /\ generation[p] = g

HasCurrentRuntime(p) == runtime[p] # NoRuntime /\ IsCurrentOwner(p, runtime[p].generation)

Phase(p) == IF runtime[p] = NoRuntime THEN "none" ELSE runtime[p].phase

\* transition(state), and schedule() which a disposal or a timer suppresses.
Report(p, s) == state' = [state EXCEPT ![p] = s]
Then(p, step) == op' = [op EXCEPT ![p] = step]
Schedule(p) == timer' = IF p \in disposing THEN timer ELSE timer \cup {p}

\* Mutant: the operation ends without a timer.
ReportOnly(p, s) == Report(p, s) /\ Then(p, "none") /\ UNCHANGED timer

\* The operation ends with the timer set: contending again, or after an error.
Reschedule(p, s) == Report(p, s) /\ Then(p, "none") /\ Schedule(p)

\* enqueue: the operation starts when the ones before it have settled.
Enqueued(p, o) == [queue EXCEPT ![p] = Append(@, o)]
Begins(p, o) ==
  /\ p \in running
  /\ op[p] = "none"
  /\ queue[p] # <<>>
  /\ Head(queue[p]) = o
  /\ queue' = [queue EXCEPT ![p] = Tail(@)]

Awaits(p, step) == p \in running /\ op[p] = step

Fault(kind) ==
  /\ kind \in Faults
  /\ faults < MaxFaults
  /\ faults' = faults + 1

\* A loss is queued for a lifecycle that listens: one that has started, and
\* is not being disposed.
Listens(p) == p \notin disposing /\ "start" \notin {queue[p][i] : i \in DOMAIN queue[p]}

LossQueued(p) == IF Listens(p) THEN Enqueued(p, "loss") ELSE queue

\* A runtime object, and what the operation continues with.
Runs(p, g, ph) == runtime' = [runtime EXCEPT ![p] = [generation |-> g, phase |-> ph]]

writeVars == <<writes, shared>>

----------------------------------------------------------------------------
(* start: startCore, and startRuntime up to the call of the factory *)

BeginRuntime(p) ==
  IF p \in disposing
  THEN Report(p, "contending") /\ Then(p, "none") /\ UNCHANGED timer
  ELSE Report(p, "starting") /\ Then(p, "creating") /\ UNCHANGED timer

StartCore(p) ==
  /\ Begins(p, "start")
  /\ CASE p \in disposing -> UNCHANGED <<state, op, timer>>
       [] p \notin disposing /\ p \in owners -> BeginRuntime(p)
       [] p \notin disposing /\ p \notin owners -> Reschedule(p, "contending")
  /\ UNCHANGED <<running, ownershipVars, runtime, disposing, writeVars, faults>>

Wanted(p, g) == IsCurrentOwner(p, g) /\ p \notin disposing

\* The factory returns; the ownership may be gone by then.
Created(p) ==
  /\ Awaits(p, "creating")
  /\ Runs(p, generation[p], "created")
  /\ Then(p, IF Wanted(p, generation[p]) THEN "starting" ELSE "abandoning")
  /\ UNCHANGED <<running, ownershipVars, state, queue, timer, disposing, writeVars, faults>>

\* Mutant: no retry is scheduled.
CreateFailsForGood(p) ==
  /\ Awaits(p, "creating")
  /\ Fault("create")
  /\ ReportOnly(p, "error")
  /\ UNCHANGED <<running, ownershipVars, queue, runtime, disposing, writeVars>>

CreateFails(p) ==
  /\ Awaits(p, "creating")
  /\ Fault("create")
  /\ Reschedule(p, "error")
  /\ UNCHANGED <<running, ownershipVars, queue, runtime, disposing, writeVars>>

Started(p) ==
  /\ Awaits(p, "starting")
  /\ Runs(p, runtime[p].generation, "started")
  /\ IF Wanted(p, runtime[p].generation)
     THEN Report(p, "running") /\ Then(p, "none")
     ELSE Then(p, "abandoning") /\ UNCHANGED state
  /\ UNCHANGED <<running, ownershipVars, queue, timer, disposing, writeVars, faults>>

StartFails(p) ==
  /\ Awaits(p, "starting")
  /\ Fault("start")
  /\ Runs(p, runtime[p].generation, "failed")
  /\ Then(p, "cleaning")
  /\ UNCHANGED <<running, ownershipVars, state, queue, timer, disposing, writeVars>>

----------------------------------------------------------------------------
(* stopRuntime, and what each caller does next *)

\* Mutant: the requests being served are not waited for.
NotDrained(p) == TRUE

\* runtime.dispose waits for the requests it serves before it settles.
Drained(p) == writes[p] = NoWrite

Stopped(p) ==
  /\ p \in running
  /\ \/ op[p] \in {"abandoning", "losing"} /\ Reschedule(p, "contending")
     \/ op[p] = "cleaning" /\ Reschedule(p, "error")
     \/ op[p] = "replacing" /\ Report(p, "contending") /\ Then(p, "contending") /\ UNCHANGED timer
     \/ op[p] = "closing" /\ Then(p, "releasing") /\ UNCHANGED <<state, timer>>
  /\ Drained(p)
  /\ runtime' = [runtime EXCEPT ![p] = NoRuntime]
  /\ UNCHANGED <<running, ownershipVars, queue, disposing, writeVars, faults>>

\* The runtime stays, half disposed; a disposal waits to be asked for again.
StopFails(p) ==
  /\ p \in running
  /\ op[p] \in Stops
  /\ Drained(p)
  /\ Fault("stop")
  /\ Runs(p, runtime[p].generation, "halted")
  /\ Reschedule(p, "error")
  /\ UNCHANGED <<running, ownershipVars, queue, disposing, writeVars>>

----------------------------------------------------------------------------
(* handleOwnershipLoss and runScheduledContention *)

HandleOwnershipLoss(p) ==
  /\ Begins(p, "loss")
  /\ CASE p \in disposing -> UNCHANGED <<state, op, timer>>
       [] p \notin disposing /\ runtime[p] # NoRuntime ->
            Report(p, "stopping") /\ Then(p, "losing") /\ UNCHANGED timer
       [] p \notin disposing /\ runtime[p] = NoRuntime -> Reschedule(p, "contending")
  /\ UNCHANGED <<running, ownershipVars, runtime, disposing, writeVars, faults>>

Contention(p) ==
  /\ Begins(p, "contention")
  /\ CASE p \in disposing -> UNCHANGED <<state, op>>
       [] p \notin disposing /\ runtime[p] = NoRuntime -> Report(p, "contending") /\ Then(p, "contending")
       [] p \notin disposing /\ HasCurrentRuntime(p) -> Report(p, "running") /\ UNCHANGED op
       [] p \notin disposing /\ runtime[p] # NoRuntime /\ ~HasCurrentRuntime(p) ->
            Report(p, "stopping") /\ Then(p, "replacing")
  /\ UNCHANGED <<running, ownershipVars, runtime, timer, disposing, writeVars, faults>>

\* contend(): an owner stays one; a file that is free, or names a process
\* that has exited, is won with a new generation.
Won(p) ==
  /\ Awaits(p, "contending")
  /\ \/ p \in owners /\ UNCHANGED ownershipVars
     \/ /\ p \notin owners
        /\ file \notin running
        /\ terms < MaxTerms
        /\ file' = p
        /\ owners' = (owners \cap running) \cup {p}
        /\ terms' = terms + 1
        /\ generation' = [generation EXCEPT ![p] = terms + 1]
  /\ BeginRuntime(p)
  /\ UNCHANGED <<running, queue, runtime, disposing, writeVars, faults>>

\* The file names a process that runs, or the takeover mutex is held.
NotWon(p) ==
  /\ Awaits(p, "contending")
  /\ p \notin owners
  /\ Reschedule(p, "contending")
  /\ UNCHANGED <<running, ownershipVars, queue, runtime, disposing, writeVars, faults>>

\* recoverOwnerlessTakeover gave the ownership up again.
WonAndLost(p) ==
  /\ Awaits(p, "contending")
  /\ p \notin owners
  /\ file = Nobody
  /\ Fault("provisional")
  /\ queue' = LossQueued(p)
  /\ Reschedule(p, "contending")
  /\ UNCHANGED <<running, ownershipVars, runtime, disposing, writeVars>>

ContendFails(p) ==
  /\ Awaits(p, "contending")
  /\ Fault("contend")
  /\ Reschedule(p, "error")
  /\ UNCHANGED <<running, ownershipVars, queue, runtime, disposing, writeVars>>

TimerFires(p) ==
  /\ p \in running \cap timer
  /\ timer' = timer \ {p}
  /\ queue' = Enqueued(p, "contention")
  /\ UNCHANGED <<running, ownershipVars, state, op, runtime, disposing, writeVars, faults>>

----------------------------------------------------------------------------
(* dispose *)

\* Again after a disposal that failed.
RequestDispose(p) ==
  /\ p \in running
  /\ p \in disposing => state[p] = "error" /\ op[p] = "none" /\ queue[p] = <<>>
  /\ disposing' = disposing \cup {p}
  /\ timer' = timer \ {p}
  /\ queue' = Enqueued(p, "dispose")
  /\ UNCHANGED <<running, ownershipVars, state, op, runtime, writeVars, faults>>

\* Mutant: the ownership is released without stopping the runtime.
DisposeAtOnce(p) ==
  /\ Begins(p, "dispose")
  /\ Report(p, "stopping")
  /\ Then(p, "releasing")
  /\ UNCHANGED <<running, ownershipVars, runtime, timer, disposing, writeVars, faults>>

DisposeCore(p) ==
  /\ Begins(p, "dispose")
  /\ Report(p, "stopping")
  /\ Then(p, IF runtime[p] = NoRuntime THEN "releasing" ELSE "closing")
  /\ UNCHANGED <<running, ownershipVars, runtime, timer, disposing, writeVars, faults>>

\* ownership.dispose() removes the file of an owner only.
Released(p) ==
  /\ Awaits(p, "releasing")
  /\ file' = IF p \in owners /\ file = p THEN Nobody ELSE file
  /\ owners' = owners \ {p}
  /\ Report(p, "disposed")
  /\ Then(p, "none")
  /\ UNCHANGED <<running, terms, generation, queue, runtime, timer, disposing, writeVars, faults>>

\* this.record stays for the retry. That isOwner() is false from then on does
\* not show: nothing of p asks any more.
ReleaseFails(p) ==
  /\ Awaits(p, "releasing")
  /\ Fault("release")
  /\ Report(p, "error")
  /\ Then(p, "none")
  /\ UNCHANGED <<running, ownershipVars, queue, runtime, timer, disposing, writeVars>>

----------------------------------------------------------------------------
(* FencedStateStore.update of a request that the runtime serves *)

\* The generation the store was made for, checked before and after the
\* heartbeat of assertOwner; an owner's file is its own.
WriteChecked(p) ==
  /\ p \in running
  /\ Phase(p) \in {"created", "started", "failed"}
  /\ writes[p] = NoWrite
  /\ HasCurrentRuntime(p)
  /\ writes' = [writes EXCEPT ![p] = [generation |-> runtime[p].generation, phase |-> "checked"]]
  /\ UNCHANGED <<running, ownershipVars, state, queue, op, runtime, timer, disposing, shared, faults>>

WriteLands(p) ==
  /\ p \in running
  /\ writes[p] # NoWrite /\ writes[p].phase = "checked"
  /\ shared' = writes[p].generation
  /\ writes' = [writes EXCEPT ![p].phase = "landed"]
  /\ UNCHANGED <<running, ownershipVars, state, queue, op, runtime, timer, disposing, faults>>

\* The last check tells the caller whether the generation is still the one.
WriteEnds(p) ==
  /\ p \in running
  /\ writes[p] # NoWrite /\ writes[p].phase = "landed"
  /\ writes' = [writes EXCEPT ![p] = NoWrite]
  /\ UNCHANGED <<running, ownershipVars, state, queue, op, runtime, timer, disposing, shared, faults>>

----------------------------------------------------------------------------
(* The environment *)

\* A heartbeat cannot read or write the file, which stays.
HeartbeatFails(p) ==
  /\ p \in running \cap owners
  /\ p \in disposing => runtime[p] # NoRuntime
  /\ Fault("heartbeat")
  /\ owners' = owners \ {p}
  /\ queue' = LossQueued(p)
  /\ UNCHANGED <<running, file, terms, generation, state, op, runtime, timer, disposing, writeVars>>

Exit(p) ==
  /\ p \in running
  /\ running' = running \ {p}
  /\ owners' = owners \ {p}
  /\ state' = [state EXCEPT ![p] = "disposed"]
  /\ queue' = [queue EXCEPT ![p] = <<>>]
  /\ op' = [op EXCEPT ![p] = "none"]
  /\ runtime' = [runtime EXCEPT ![p] = NoRuntime]
  /\ timer' = timer \ {p}
  /\ writes' = [writes EXCEPT ![p] = NoWrite]
  /\ UNCHANGED <<file, terms, generation, disposing, shared, faults>>

----------------------------------------------------------------------------
\* What the lifecycle awaits settles, and timers fire.
Settles(p) ==
  \/ StartCore(p) \/ Created(p) \/ Started(p) \/ Stopped(p)
  \/ HandleOwnershipLoss(p) \/ Contention(p) \/ Won(p) \/ NotWon(p) \/ TimerFires(p)
  \/ DisposeCore(p) \/ Released(p)

Writes(p) == WriteChecked(p) \/ WriteLands(p) \/ WriteEnds(p)

Fails(p) ==
  \/ CreateFails(p) \/ StartFails(p) \/ StopFails(p) \/ ContendFails(p) \/ ReleaseFails(p)
  \/ WonAndLost(p) \/ HeartbeatFails(p)

Next == \E p \in Procs : Settles(p) \/ Writes(p) \/ Fails(p) \/ RequestDispose(p) \/ Exit(p)

Spec == Init /\ [][Next]_vars

\* The requests a disposal drains are finitely many: Stopped is enabled again
\* and again between their writes, and not only in the end.
Fairness == \A p \in Procs :
  /\ WF_vars(Settles(p)) /\ SF_vars(Stopped(p))
  /\ WF_vars(WriteLands(p)) /\ WF_vars(WriteEnds(p))

FairSpec == Spec /\ Fairness

----------------------------------------------------------------------------
(* Properties *)

\* Two extension hosts never have a broker runtime at the same time: one is
\* disposed of before its ownership is, whatever fails and whoever contends.
OneRuntime ==
  \A p, q \in running : runtime[p] # NoRuntime /\ runtime[q] # NoRuntime => p = q

\* The shared state takes writes in the order of the generations: none of an
\* older generation arrives after one of a newer.
WritesInOrder == [][shared' >= shared]_shared

\* An owner gets a runtime that has started, unless it loses the ownership or
\* its window is disposed of or exits, or a runtime that failed to start
\* cannot be stopped either.
OwnerServes ==
  \A p \in Procs : p \in owners ~> \/ p \notin owners \/ p \in disposing \/ Phase(p) = "halted"
                                   \/ state[p] = "running" /\ Phase(p) = "started"
====
