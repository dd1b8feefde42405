---- MODULE BrokerLifecycleProofs ----
(***************************************************************************)
(* BrokerLifecycle, for any number of windows, faults and elections: two   *)
(* windows never have a runtime at the same time, and the shared state     *)
(* takes writes in the order of the generations.                           *)
(***************************************************************************)
EXTENDS BrokerLifecycle, FiniteSetTheorems, TLAPS

Updates == [generation : Nat, phase : {"checked", "landed"}]

TypeOK ==
  /\ running \subseteq Procs
  /\ file \in Procs \cup {Nobody}
  /\ owners \subseteq running
  /\ terms \in Nat
  /\ generation \in [Procs -> Nat]
  /\ op \in [Procs -> {"none", "creating", "starting", "contending", "releasing"} \cup Stops]
  /\ runtime \in [Procs -> Runtimes \cup {NoRuntime}]
  /\ writes \in [Procs -> Updates \cup {NoWrite}]
  /\ shared \in Nat

\* Whoever is the owner, or has a runtime or is about to get one, has its record in worker-owner.lock,
\* where a process that runs takes it away from nobody but itself.
KeepsFile ==
  \A p \in running :
    p \in owners \/ runtime[p] # NoRuntime \/ op[p] \in {"creating", "starting"} \cup Stops => file = p

\* The ownership is contended for and released without a runtime; only a runtime there is is started
\* or stopped.
WithoutRuntime ==
  \A p \in Procs :
    /\ op[p] \in {"contending", "releasing"} => runtime[p] = NoRuntime
    /\ op[p] \in {"starting"} \cup Stops => runtime[p] # NoRuntime

\* The record in the file is that of the latest election.
LatestElected == file \in Procs => generation[file] = terms

\* A write in flight is of a runtime there is, and of the latest election.
WritesOfRuntime ==
  \A p \in running : writes[p] # NoWrite => runtime[p] # NoRuntime /\ writes[p].generation = terms

IInv == TypeOK /\ KeepsFile /\ WithoutRuntime /\ LatestElected /\ WritesOfRuntime /\ shared <= terms

\* A runtime object of p is replaced by one in another phase.
LEMMA RuntimeOf ==
  ASSUME TypeOK, NEW p \in Procs, NEW g \in Nat, NEW ph \in {"created", "started", "failed", "halted"},
         Runs(p, g, ph)
  PROVE  /\ runtime' \in [Procs -> Runtimes \cup {NoRuntime}]
         /\ runtime'[p] # NoRuntime
         /\ \A q \in Procs \ {p} : runtime'[q] = runtime[q]
<1>1. /\ [generation |-> g, phase |-> ph] \in Runtimes
      /\ [generation |-> g, phase |-> ph] # NoRuntime
  BY LifecycleAssumption DEF Runtimes
<1>2. runtime' = [runtime EXCEPT ![p] = [generation |-> g, phase |-> ph]]
  BY DEF Runs
<1>3. runtime \in [Procs -> Runtimes \cup {NoRuntime}]
  BY DEF TypeOK
<1> HIDE DEF Runtimes
<1> QED
  BY <1>1, <1>2, <1>3

LEMMA Step == IInv /\ [Next]_vars => IInv'
<1> SUFFICES ASSUME IInv, [Next]_vars PROVE IInv'
  OBVIOUS
<1> USE LifecycleAssumption DEF IInv, TypeOK, Stops, KeepsFile, WithoutRuntime, LatestElected, WritesOfRuntime, Runtimes, Updates, ownershipVars, writeVars
<1>1. ASSUME NEW p \in Procs, StartCore(p) PROVE IInv'
  BY <1>1 DEF StartCore, Begins, BeginRuntime, Report, Then, Reschedule, Schedule
<1>2. ASSUME NEW p \in Procs, Created(p) PROVE IInv'
  <2>1. Runs(p, generation[p], "created")
    BY <1>2 DEF Created
  <2>2. generation[p] \in Nat
    BY <1>2 DEF Created, Awaits, Runs, Wanted, IsCurrentOwner, Then
  <2>3. /\ runtime' \in [Procs -> Runtimes \cup {NoRuntime}]
        /\ runtime'[p] # NoRuntime
        /\ \A q \in Procs \ {p} : runtime'[q] = runtime[q]
    BY <2>1, <2>2, RuntimeOf
  <2> QED
    BY <1>2, <2>3 DEF Created, Awaits, Wanted, IsCurrentOwner, Then
<1>3. ASSUME NEW p \in Procs, CreateFails(p) PROVE IInv'
  BY <1>3 DEF CreateFails, Awaits, Fault, Report, Then, Reschedule, Schedule
<1>4. ASSUME NEW p \in Procs, Started(p) PROVE IInv'
  <2>1. Runs(p, runtime[p].generation, "started")
    BY <1>4 DEF Started
  <2>2. runtime[p].generation \in Nat
    BY <1>4 DEF Started, Awaits, Runs, Wanted, IsCurrentOwner, Report, Then
  <2>3. /\ runtime' \in [Procs -> Runtimes \cup {NoRuntime}]
        /\ runtime'[p] # NoRuntime
        /\ \A q \in Procs \ {p} : runtime'[q] = runtime[q]
    BY <2>1, <2>2, RuntimeOf
  <2>4. TypeOK'
    BY <1>4, <2>3 DEF Started, Awaits, Wanted, IsCurrentOwner, Report, Then
  <2>5. KeepsFile' /\ WithoutRuntime'
    BY <1>4, <2>3 DEF Started, Awaits, Wanted, IsCurrentOwner, Report, Then
  <2>6. LatestElected' /\ WritesOfRuntime' /\ shared' <= terms'
    BY <1>4, <2>3 DEF Started, Awaits, Wanted, IsCurrentOwner, Report, Then
  <2> QED
    BY <2>4, <2>5, <2>6
<1>5. ASSUME NEW p \in Procs, StartFails(p) PROVE IInv'
  <2>1. Runs(p, runtime[p].generation, "failed")
    BY <1>5 DEF StartFails
  <2>2. runtime[p].generation \in Nat
    BY <1>5 DEF StartFails, Awaits, Runs, Fault, Then
  <2>3. /\ runtime' \in [Procs -> Runtimes \cup {NoRuntime}]
        /\ runtime'[p] # NoRuntime
        /\ \A q \in Procs \ {p} : runtime'[q] = runtime[q]
    BY <2>1, <2>2, RuntimeOf
  <2>4. TypeOK'
    BY <1>5, <2>3 DEF StartFails, Awaits, Fault, Then
  <2>5. KeepsFile' /\ WithoutRuntime'
    BY <1>5, <2>3 DEF StartFails, Awaits, Fault, Then
  <2>6. LatestElected' /\ WritesOfRuntime' /\ shared' <= terms'
    BY <1>5, <2>3 DEF StartFails, Awaits, Fault, Then
  <2> QED
    BY <2>4, <2>5, <2>6
<1>6. ASSUME NEW p \in Procs, Stopped(p) PROVE IInv'
  BY <1>6 DEF Stopped, Drained, Report, Then, Reschedule, Schedule
<1>7. ASSUME NEW p \in Procs, StopFails(p) PROVE IInv'
  <2>1. Runs(p, runtime[p].generation, "halted")
    BY <1>7 DEF StopFails
  <2>2. runtime[p].generation \in Nat
    BY <1>7 DEF StopFails, Drained, Runs, Fault, Report, Then, Reschedule, Schedule
  <2>3. /\ runtime' \in [Procs -> Runtimes \cup {NoRuntime}]
        /\ runtime'[p] # NoRuntime
        /\ \A q \in Procs \ {p} : runtime'[q] = runtime[q]
    BY <2>1, <2>2, RuntimeOf
  <2>4. TypeOK'
    BY <1>7, <2>3 DEF StopFails, Drained, Fault, Report, Then, Reschedule, Schedule
  <2>5. KeepsFile' /\ WithoutRuntime'
    BY <1>7, <2>3 DEF StopFails, Drained, Fault, Report, Then, Reschedule, Schedule
  <2>6. LatestElected' /\ WritesOfRuntime' /\ shared' <= terms'
    BY <1>7, <2>3 DEF StopFails, Drained, Fault, Report, Then, Reschedule, Schedule
  <2> QED
    BY <2>4, <2>5, <2>6
<1>8. ASSUME NEW p \in Procs, HandleOwnershipLoss(p) PROVE IInv'
  BY <1>8 DEF HandleOwnershipLoss, Begins, Report, Then, Reschedule, Schedule
<1>9. ASSUME NEW p \in Procs, Contention(p) PROVE IInv'
  BY <1>9 DEF Contention, Begins, Report, Then
<1>10. ASSUME NEW p \in Procs, Won(p) PROVE IInv'
  BY <1>10 DEF Won, Awaits, BeginRuntime, Report, Then
<1>11. ASSUME NEW p \in Procs, NotWon(p) PROVE IInv'
  BY <1>11 DEF NotWon, Awaits, Report, Then, Reschedule, Schedule
<1>12. ASSUME NEW p \in Procs, WonAndLost(p) PROVE IInv'
  BY <1>12 DEF WonAndLost, Awaits, Fault, Report, Then, Reschedule, Schedule
<1>13. ASSUME NEW p \in Procs, ContendFails(p) PROVE IInv'
  BY <1>13 DEF ContendFails, Awaits, Fault, Report, Then, Reschedule, Schedule
<1>14. ASSUME NEW p \in Procs, TimerFires(p) PROVE IInv'
  BY <1>14 DEF TimerFires
<1>15. ASSUME NEW p \in Procs, RequestDispose(p) PROVE IInv'
  BY <1>15 DEF RequestDispose
<1>16. ASSUME NEW p \in Procs, DisposeCore(p) PROVE IInv'
  BY <1>16 DEF DisposeCore, Begins, Report, Then
<1>17. ASSUME NEW p \in Procs, Released(p) PROVE IInv'
  BY <1>17 DEF Released, Awaits, Report, Then
<1>18. ASSUME NEW p \in Procs, ReleaseFails(p) PROVE IInv'
  BY <1>18 DEF ReleaseFails, Awaits, Fault, Report, Then
<1>19. ASSUME NEW p \in Procs, WriteChecked(p) PROVE IInv'
  BY <1>19 DEF WriteChecked, Phase, HasCurrentRuntime, IsCurrentOwner
<1>20. ASSUME NEW p \in Procs, WriteLands(p) PROVE IInv'
  BY <1>20 DEF WriteLands
<1>21. ASSUME NEW p \in Procs, WriteEnds(p) PROVE IInv'
  BY <1>21 DEF WriteEnds
<1>22. ASSUME NEW p \in Procs, HeartbeatFails(p) PROVE IInv'
  BY <1>22 DEF HeartbeatFails, Fault
<1>23. ASSUME NEW p \in Procs, Exit(p) PROVE IInv'
  BY <1>23 DEF Exit
<1>24. CASE UNCHANGED vars
  BY <1>24 DEF vars
<1> QED
  BY <1>1, <1>2, <1>3, <1>4, <1>5, <1>6, <1>7, <1>8, <1>9, <1>10, <1>11, <1>12, <1>13, <1>14, <1>15, <1>16, <1>17, <1>18, <1>19, <1>20, <1>21, <1>22, <1>23, <1>24 DEF Next, Settles, Writes, Fails

LEMMA Start == Init => IInv
<1> SUFFICES ASSUME Init PROVE IInv
  OBVIOUS
<1>1. PICK p \in Procs \cup {Nobody} :
        /\ file = p
        /\ owners = {p} \ {Nobody}
        /\ terms = Cardinality(owners)
        /\ generation = [q \in Procs |-> IF q = p THEN 1 ELSE 0]
  BY DEF Init
<1>2. CASE p = Nobody
  <2>1. owners = {} /\ Cardinality(owners) = 0
    BY <1>1, <1>2, FS_EmptySet
  <2> QED
    BY <1>1, <1>2, <2>1, LifecycleAssumption
    DEF Init, IInv, TypeOK, KeepsFile, WithoutRuntime, LatestElected, WritesOfRuntime, Stops
<1>3. CASE p \in Procs
  <2>1. owners = {p} /\ Cardinality(owners) = 1
    BY <1>1, <1>3, FS_Singleton, LifecycleAssumption
  <2> QED
    BY <1>1, <1>3, <2>1, LifecycleAssumption
    DEF Init, IInv, TypeOK, KeepsFile, WithoutRuntime, LatestElected, WritesOfRuntime, Stops
<1> QED
  BY <1>2, <1>3

\* The strengthening holds throughout: what a window has of the ownership is matched by the file.
THEOREM LifecycleSafe == Spec => []IInv
<1>1. Init => IInv
  BY Start
<1>2. IInv /\ [Next]_vars => IInv'
  BY Step
<1> QED
  BY <1>1, <1>2, PTL DEF Spec

\* Two extension hosts never have a broker runtime at the same time: each would have its record in
\* the one owner file.
THEOREM OneRuntimeSafe == Spec => []OneRuntime
<1>1. IInv => OneRuntime
  BY DEF IInv, TypeOK, KeepsFile, OneRuntime
<1> QED
  BY <1>1, LifecycleSafe, PTL

\* A write that reaches the state is of the latest election, and none before it was of a later one.
THEOREM WritesOrdered == Spec => WritesInOrder
<1>1. IInv /\ [Next]_vars => [shared' >= shared]_shared
  <2> SUFFICES ASSUME IInv, Next, shared' # shared PROVE shared' >= shared
    BY DEF vars
  <2>1. PICK p \in Procs : WriteLands(p)
    BY DEF Next, Settles, Writes, Fails, StartCore, Created, Started, Stopped, HandleOwnershipLoss,
           Contention, Won, NotWon, TimerFires, DisposeCore, Released, WriteChecked, WriteEnds,
           CreateFails, StartFails, StopFails, ContendFails, ReleaseFails, WonAndLost, HeartbeatFails,
           RequestDispose, Exit, writeVars
  <2>2. shared' = terms
    BY <2>1 DEF WriteLands, IInv, WritesOfRuntime
  <2> QED
    BY <2>2 DEF IInv, TypeOK
<1> QED
  BY <1>1, LifecycleSafe, PTL DEF Spec, WritesInOrder
====
