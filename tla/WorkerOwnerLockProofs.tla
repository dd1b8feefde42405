---- MODULE WorkerOwnerLockProofs ----
(***************************************************************************)
(* The two lock files elect one owner at a time, for any number of         *)
(* processes, crashes, late heartbeats and failing calls.                  *)
(*                                                                         *)
(* The argument.  A record leaves the lock file in two ways: its process   *)
(* takes it back, or a thief that holds the mutex renames it after finding *)
(* its process exited.  A mutex leaves in two ways: its holder releases    *)
(* it, or a recovery takes it after finding its holder exited; two         *)
(* recoveries cannot be at that point together, because each has its own   *)
(* record in the one lock file.  So what a running process put into either *)
(* file stays until that process removes it.                               *)
(***************************************************************************)
EXTENDS WorkerOwnerLock, TLAPS

\* What p put into the lock file is there, what p steals is of the dead.
LockInv ==
  \A p \in running :
    /\ p \in handle \ disposed /\ pc[p] # "resigning" => lock = Own(p)
    /\ pc[p] \in {"linked", "published", "verifying", "taking", "taken", "withdrawing", "removing"} => lock = Own(p)
    /\ pc[p] = "stealing" => lock # NoFile /\ lock.proc \notin running

\* The mutex p created is there, or renamed by p; what p takes is of the dead.
MutexInv ==
  \A p \in running :
    /\ pc[p] \in HoldsMutex => mutex # NoFile /\ mutex.id = Own(p)
    /\ pc[p] = "claimed" => claimed[p] # NoFile /\ claimed[p].id = Own(p)
    /\ pc[p] = "taking" => mutex # NoFile /\ mutex = snapshot[p] /\ mutex.id.proc \notin running
    /\ pc[p] = "taken" => claimed[p] # NoFile /\ claimed[p] = snapshot[p] /\ claimed[p].id.proc \notin running

IInv == TypeOK /\ LockInv /\ MutexInv

(***************************************************************************)
(* Types.                                                                  *)
(***************************************************************************)
\* The initial files are absent and every process is idle.
LEMMA InitInv == Init => IInv
BY OwnerLockAssumption DEF Init, IInv, TypeOK, LockInv, MutexInv, HoldsMutex, Records

\* Nobody else holds the mutex, or takes it, while p holds it; its lock record
\* is that of nobody else.
LEMMA Exclusive ==
  ASSUME LockInv, MutexInv, NEW p \in running, NEW q \in running, q # p
  PROVE  /\ Own(p) # Own(q)
         /\ pc[p] \in HoldsMutex => pc[q] \notin HoldsMutex /\ pc[q] # "taking"
<1>1. Own(p).proc = p /\ Own(q).proc = q
  BY DEF Own
<1>2. ASSUME pc[p] \in HoldsMutex, pc[q] \in HoldsMutex PROVE FALSE
  <2>1. mutex.id = Own(p) /\ mutex.id = Own(q)
    BY <1>2 DEF MutexInv
  <2> QED BY <1>1, <2>1
<1>3. ASSUME pc[p] \in HoldsMutex, pc[q] = "taking" PROVE FALSE
  <2>1. mutex.id = Own(p)
    BY <1>3 DEF MutexInv
  <2>2. mutex.id.proc \notin running
    BY <1>3 DEF MutexInv
  <2> QED BY <1>1, <2>1, <2>2
<1> QED BY <1>1, <1>2, <1>3

\* Every step keeps the types.
LEMMA StepTyped ==
  ASSUME IInv, [Next]_vars
  PROVE  TypeOK'
<1> USE OwnerLockAssumption, NoFileAssumption DEF IInv, TypeOK, At, Goto, Branch, sideVars, Own, Records, Contending, Recovering, Disposing
<1>1. ASSUME NEW p \in Procs, Observe(p) PROVE TypeOK'
  BY <1>1 DEF Observe
<1>2. ASSUME NEW p \in Procs, OpenMutex(p) PROVE TypeOK'
  <2>1. [id |-> Own(p), written |-> FALSE] \in [id : Records, written : BOOLEAN]
    OBVIOUS
  <2>2. mutex' \in [id : Records, written : BOOLEAN] \cup {NoFile}
    BY <1>2, <2>1 DEF OpenMutex
  <2> QED BY <1>2, <2>2 DEF OpenMutex
<1>3. ASSUME NEW p \in Procs, WriteMutex(p) PROVE TypeOK'
  <2>1. \A m \in [id : Records, written : BOOLEAN] : [m EXCEPT !.written = TRUE] \in [id : Records, written : BOOLEAN]
    OBVIOUS
  <2>2. mutex' \in [id : Records, written : BOOLEAN] \cup {NoFile}
    BY <1>3, <2>1 DEF WriteMutex
  <2>3. \A q \in Procs : IF claimed[q] = [id |-> Own(p), written |-> FALSE]
                          THEN [claimed[q] EXCEPT !.written = TRUE] \in [id : Records, written : BOOLEAN]
                          ELSE claimed[q] \in [id : Records, written : BOOLEAN] \cup {NoFile}
    BY <2>1
  <2>4. claimed' \in [Procs -> [id : Records, written : BOOLEAN] \cup {NoFile}]
    BY <1>3, <2>3 DEF WriteMutex
  <2> QED BY <1>3, <2>2, <2>4 DEF WriteMutex
<1>4. ASSUME NEW p \in Procs, Decide(p) PROVE TypeOK'
  BY <1>4 DEF Decide
<1>5. ASSUME NEW p \in Procs, Steal(p) PROVE TypeOK'
  BY <1>5 DEF Steal
<1>6. ASSUME NEW p \in Procs, Link(p) PROVE TypeOK'
  BY <1>6 DEF Link
<1>7. ASSUME NEW p \in Procs, Publish(p) PROVE TypeOK'
  BY <1>7 DEF Publish
<1>8. ASSUME NEW p \in Procs, Release(p) PROVE TypeOK'
  BY <1>8 DEF Release
<1>9. ASSUME NEW p \in Procs, Released(p) PROVE TypeOK'
  BY <1>9 DEF Released, DropOrRestore
<1>10. ASSUME NEW p \in Procs, Inspect(p) PROVE TypeOK'
  BY <1>10 DEF Inspect, Recoverable
<1>11. ASSUME NEW p \in Procs, InspectOwner(p) PROVE TypeOK'
  BY <1>11 DEF InspectOwner
<1>12. ASSUME NEW p \in Procs, Recheck(p) PROVE TypeOK'
  BY <1>12 DEF Recheck
<1>13. ASSUME NEW p \in Procs, LinkRecovering(p) PROVE TypeOK'
  BY <1>13 DEF LinkRecovering
<1>14. ASSUME NEW p \in Procs, PublishRecovering(p) PROVE TypeOK'
  BY <1>14 DEF PublishRecovering
<1>15. ASSUME NEW p \in Procs, RecheckPublished(p) PROVE TypeOK'
  BY <1>15 DEF RecheckPublished
<1>16. ASSUME NEW p \in Procs, Take(p) PROVE TypeOK'
  BY <1>16 DEF Take
<1>17. ASSUME NEW p \in Procs, Taken(p) PROVE TypeOK'
  BY <1>17 DEF Taken, DropOrRestore
<1>18. ASSUME NEW p \in Procs, Undo(p) PROVE TypeOK'
  BY <1>18 DEF Undo
<1>19. ASSUME NEW p \in Procs, Withdraw(p) PROVE TypeOK'
  BY <1>19 DEF Withdraw
<1>20. ASSUME NEW p \in Procs, Resign(p) PROVE TypeOK'
  BY <1>20 DEF Resign
<1>21. ASSUME NEW p \in Procs, DisposeRead(p) PROVE TypeOK'
  BY <1>21 DEF DisposeRead
<1>22. ASSUME NEW p \in Procs, Remove(p) PROVE TypeOK'
  BY <1>22 DEF Remove
<1>23. ASSUME NEW p \in Procs, Renew(p) PROVE TypeOK'
  BY <1>23 DEF Renew
<1>24. ASSUME NEW p \in Procs, Dispose(p) PROVE TypeOK'
  BY <1>24 DEF Dispose
<1>25. ASSUME NEW p \in Procs, Crash(p) PROVE TypeOK'
  BY <1>25 DEF Crash
<1>26. ASSUME NEW p \in Procs, Expire(p) PROVE TypeOK'
  BY <1>26 DEF Expire
<1>27. ASSUME NEW p \in Procs, StepFails(p) PROVE TypeOK'
  BY <1>27 DEF StepFails
<1>28. ASSUME NEW p \in Procs, RenewFails(p) PROVE TypeOK'
  BY <1>28 DEF RenewFails
<1>29. CASE UNCHANGED vars
  BY <1>29 DEF vars
<1> QED BY <1>1, <1>2, <1>3, <1>4, <1>5, <1>6, <1>7, <1>8, <1>9, <1>10, <1>11, <1>12, <1>13, <1>14, <1>15, <1>16, <1>17, <1>18, <1>19, <1>20, <1>21, <1>22, <1>23, <1>24, <1>25, <1>26, <1>27, <1>28, <1>29 DEF Next, Step

\* What a running process put into the lock file stays.
LEMMA StepLock ==
  ASSUME IInv, [Next]_vars
  PROVE  LockInv'
<1> USE OwnerLockAssumption, NoFileAssumption DEF IInv, TypeOK, LockInv, MutexInv, HoldsMutex, At, Goto, Branch, sideVars, Own, Records
<1>1. ASSUME NEW p \in Procs, Observe(p) PROVE LockInv'
  BY <1>1 DEF Observe
<1>2. ASSUME NEW p \in Procs, OpenMutex(p) PROVE LockInv'
  BY <1>2 DEF OpenMutex
<1>3. ASSUME NEW p \in Procs, WriteMutex(p) PROVE LockInv'
  BY <1>3 DEF WriteMutex
<1>4. ASSUME NEW p \in Procs, Decide(p) PROVE LockInv'
  <2>1. pc'[p] = "stealing" => lock # NoFile /\ Stale(lock.proc)
    BY <1>4 DEF Decide
  <2>4. Stale(lock.proc) => lock.proc \notin running
    BY DEF Stale, PidAlive
  <2>2. pc'[p] \in {"releasing", "creating", "stealing"}
    BY <1>4 DEF Decide
  <2>3. \A q \in Procs \ {p} : pc'[q] = pc[q]
    BY <1>4 DEF Decide
  <2> QED BY <1>4, <2>1, <2>2, <2>3, <2>4 DEF Decide
<1>5. ASSUME NEW p \in Procs, Steal(p) PROVE LockInv'
  <2>1. \A q \in running : lock # Own(q)
    BY <1>5 DEF Steal
  <2>2. \A q \in running : pc[q] = "stealing" => q = p
    BY <1>5, Exclusive DEF Steal
  <2>3. pc'[p] \in {"releasing", "creating"}
    BY <1>5 DEF Steal
  <2> QED BY <1>5, <2>1, <2>2, <2>3 DEF Steal
<1>6. ASSUME NEW p \in Procs, Link(p) PROVE LockInv'
  BY <1>6 DEF Link
<1>7. ASSUME NEW p \in Procs, Publish(p) PROVE LockInv'
  BY <1>7 DEF Publish
<1>8. ASSUME NEW p \in Procs, Release(p) PROVE LockInv'
  BY <1>8 DEF Release
<1>9. ASSUME NEW p \in Procs, Released(p) PROVE LockInv'
  BY <1>9 DEF Released, DropOrRestore
<1>10. ASSUME NEW p \in Procs, Inspect(p) PROVE LockInv'
  BY <1>10 DEF Inspect, Recoverable
<1>11. ASSUME NEW p \in Procs, InspectOwner(p) PROVE LockInv'
  BY <1>11 DEF InspectOwner
<1>12. ASSUME NEW p \in Procs, Recheck(p) PROVE LockInv'
  BY <1>12 DEF Recheck, StillRecoverable, Recoverable
<1>13. ASSUME NEW p \in Procs, LinkRecovering(p) PROVE LockInv'
  BY <1>13 DEF LinkRecovering
<1>14. ASSUME NEW p \in Procs, PublishRecovering(p) PROVE LockInv'
  BY <1>14 DEF PublishRecovering
<1>15. ASSUME NEW p \in Procs, RecheckPublished(p) PROVE LockInv'
  BY <1>15 DEF RecheckPublished, StillRecoverable, Recoverable, Stale, PidAlive
<1>16. ASSUME NEW p \in Procs, Take(p) PROVE LockInv'
  BY <1>16 DEF Take
<1>17. ASSUME NEW p \in Procs, Taken(p) PROVE LockInv'
  BY <1>17 DEF Taken, DropOrRestore
<1>18. ASSUME NEW p \in Procs, Undo(p) PROVE LockInv'
  BY <1>18 DEF Undo
<1>19. ASSUME NEW p \in Procs, Withdraw(p) PROVE LockInv'
  BY <1>19 DEF Withdraw
<1>20. ASSUME NEW p \in Procs, Resign(p) PROVE LockInv'
  BY <1>20 DEF Resign
<1>21. ASSUME NEW p \in Procs, DisposeRead(p) PROVE LockInv'
  BY <1>21 DEF DisposeRead
<1>22. ASSUME NEW p \in Procs, Remove(p) PROVE LockInv'
  BY <1>22 DEF Remove
<1>23. ASSUME NEW p \in Procs, Renew(p) PROVE LockInv'
  BY <1>23 DEF Renew
<1>24. ASSUME NEW p \in Procs, Dispose(p) PROVE LockInv'
  BY <1>24 DEF Dispose
<1>25. ASSUME NEW p \in Procs, Crash(p) PROVE LockInv'
  BY <1>25 DEF Crash
<1>26. ASSUME NEW p \in Procs, Expire(p) PROVE LockInv'
  BY <1>26 DEF Expire
<1>27. ASSUME NEW p \in Procs, StepFails(p) PROVE LockInv'
  BY <1>27 DEF StepFails
<1>28. ASSUME NEW p \in Procs, RenewFails(p) PROVE LockInv'
  BY <1>28 DEF RenewFails
<1>29. CASE UNCHANGED vars
  BY <1>29 DEF vars
<1> QED BY <1>1, <1>2, <1>3, <1>4, <1>5, <1>6, <1>7, <1>8, <1>9, <1>10, <1>11, <1>12, <1>13, <1>14, <1>15, <1>16, <1>17, <1>18, <1>19, <1>20, <1>21, <1>22, <1>23, <1>24, <1>25, <1>26, <1>27, <1>28, <1>29 DEF Next, Step

\* What a running process put into the mutex stays.
LEMMA StepMutex ==
  ASSUME IInv, [Next]_vars
  PROVE  MutexInv'
<1> USE OwnerLockAssumption, NoFileAssumption DEF IInv, TypeOK, LockInv, MutexInv, HoldsMutex, At, Goto, Branch, sideVars, Own, Records
<1>1. ASSUME NEW p \in Procs, Observe(p) PROVE MutexInv'
  BY <1>1 DEF Observe
<1>2. ASSUME NEW p \in Procs, OpenMutex(p) PROVE MutexInv'
  <2>1. CASE mutex = NoFile
    <3>1. mutex' = [id |-> Own(p), written |-> FALSE]
      BY <1>2, <2>1 DEF OpenMutex
    <3>2. Own(p) \in Records
      OBVIOUS
    <3>3. [id |-> Own(p), written |-> FALSE] \in [id : Records, written : BOOLEAN]
      BY <3>2
    <3>4. mutex' # NoFile /\ mutex'.id = Own(p)
      BY <3>1, <3>3
    <3> QED BY <1>2, <2>1, <3>4 DEF OpenMutex
  <2>2. CASE mutex # NoFile
    BY <1>2, <2>2 DEF OpenMutex
  <2> QED BY <2>1, <2>2
<1>3. ASSUME NEW p \in Procs, WriteMutex(p) PROVE MutexInv'
  <2>1. mutex # NoFile /\ mutex.id = Own(p) /\ p \in running
    BY <1>3 DEF WriteMutex
  <2>2. mutex' # NoFile /\ mutex'.id = mutex.id
    BY <1>3, <2>1 DEF WriteMutex
  <2>3. ASSUME NEW q \in running, pc[q] \in {"claimed", "taken"}
        PROVE  claimed'[q] = claimed[q]
    <3>1. q # p
      BY <1>3, <2>3 DEF WriteMutex
    <3>2. claimed[q] # NoFile /\ claimed[q].id # Own(p)
      <4>1. Own(p).proc = p
        OBVIOUS
      <4>2. CASE pc[q] = "claimed"
        <5>1. claimed[q] # NoFile /\ claimed[q].id = Own(q)
          BY <4>2
        <5>2. Own(q) # Own(p)
          BY <2>1, <3>1, Exclusive
        <5> QED BY <5>1, <5>2
      <4>3. CASE pc[q] = "taken"
        BY <2>1, <4>1, <4>3
      <4> QED BY <2>3, <4>2, <4>3
    <3> QED BY <1>3, <2>3, <3>2 DEF WriteMutex
  <2>4. \A q \in running : pc[q] # "taking"
    BY <2>1
  <2> QED BY <1>3, <2>1, <2>2, <2>3, <2>4 DEF WriteMutex
<1>4. ASSUME NEW p \in Procs, Decide(p) PROVE MutexInv'
  BY <1>4 DEF Decide, Stale, PidAlive
<1>5. ASSUME NEW p \in Procs, Steal(p) PROVE MutexInv'
  BY <1>5 DEF Steal
<1>6. ASSUME NEW p \in Procs, Link(p) PROVE MutexInv'
  BY <1>6 DEF Link
<1>7. ASSUME NEW p \in Procs, Publish(p) PROVE MutexInv'
  BY <1>7 DEF Publish
<1>8. ASSUME NEW p \in Procs, Release(p) PROVE MutexInv'
  <2>1. mutex # NoFile /\ mutex.id = Own(p) /\ p \in running
    BY <1>8 DEF Release
  <2>2. \A q \in running \ {p} : pc[q] \notin HoldsMutex /\ pc[q] # "taking"
    BY <1>8, <2>1, Exclusive DEF Release
  <2>3. pc'[p] = "claimed" /\ claimed'[p] = mutex
    BY <1>8, <2>1 DEF Release
  <2>4. \A q \in running \ {p} : pc'[q] = pc[q] /\ claimed'[q] = claimed[q]
    BY <1>8 DEF Release
  <2> QED BY <1>8, <2>1, <2>2, <2>3, <2>4 DEF Release
<1>9. ASSUME NEW p \in Procs, Released(p) PROVE MutexInv'
  BY <1>9 DEF Released, DropOrRestore
<1>10. ASSUME NEW p \in Procs, Inspect(p) PROVE MutexInv'
  BY <1>10 DEF Inspect, Recoverable
<1>11. ASSUME NEW p \in Procs, InspectOwner(p) PROVE MutexInv'
  BY <1>11 DEF InspectOwner
<1>12. ASSUME NEW p \in Procs, Recheck(p) PROVE MutexInv'
  BY <1>12 DEF Recheck, StillRecoverable, Recoverable
<1>13. ASSUME NEW p \in Procs, LinkRecovering(p) PROVE MutexInv'
  BY <1>13 DEF LinkRecovering
<1>14. ASSUME NEW p \in Procs, PublishRecovering(p) PROVE MutexInv'
  BY <1>14 DEF PublishRecovering
<1>15. ASSUME NEW p \in Procs, RecheckPublished(p) PROVE MutexInv'
  BY <1>15 DEF RecheckPublished, StillRecoverable, Recoverable, Stale, PidAlive
<1>16. ASSUME NEW p \in Procs, Take(p) PROVE MutexInv'
  BY <1>16 DEF Take
<1>17. ASSUME NEW p \in Procs, Taken(p) PROVE MutexInv'
  BY <1>17 DEF Taken, DropOrRestore
<1>18. ASSUME NEW p \in Procs, Undo(p) PROVE MutexInv'
  BY <1>18 DEF Undo
<1>19. ASSUME NEW p \in Procs, Withdraw(p) PROVE MutexInv'
  BY <1>19 DEF Withdraw
<1>20. ASSUME NEW p \in Procs, Resign(p) PROVE MutexInv'
  BY <1>20 DEF Resign
<1>21. ASSUME NEW p \in Procs, DisposeRead(p) PROVE MutexInv'
  BY <1>21 DEF DisposeRead
<1>22. ASSUME NEW p \in Procs, Remove(p) PROVE MutexInv'
  BY <1>22 DEF Remove
<1>23. ASSUME NEW p \in Procs, Renew(p) PROVE MutexInv'
  BY <1>23 DEF Renew
<1>24. ASSUME NEW p \in Procs, Dispose(p) PROVE MutexInv'
  BY <1>24 DEF Dispose
<1>25. ASSUME NEW p \in Procs, Crash(p) PROVE MutexInv'
  BY <1>25 DEF Crash
<1>26. ASSUME NEW p \in Procs, Expire(p) PROVE MutexInv'
  BY <1>26 DEF Expire
<1>27. ASSUME NEW p \in Procs, StepFails(p) PROVE MutexInv'
  <2>1. CASE mutex' = NoFile /\ pc[p] = "opened" /\ Goto(p, "idle")
    <3>1. mutex # NoFile /\ mutex.id = Own(p) /\ p \in running
      BY <1>27, <2>1 DEF StepFails
    <3>2. \A q \in running \ {p} : pc[q] \notin HoldsMutex /\ pc[q] # "taking"
      BY <2>1, <3>1, Exclusive
    <3> QED BY <1>27, <2>1, <3>2 DEF StepFails
  <2>2. CASE UNCHANGED mutex
    BY <1>27, <2>2 DEF StepFails
  <2> QED BY <1>27, <2>1, <2>2 DEF StepFails
<1>28. ASSUME NEW p \in Procs, RenewFails(p) PROVE MutexInv'
  BY <1>28 DEF RenewFails
<1>29. CASE UNCHANGED vars
  BY <1>29 DEF vars
<1> QED BY <1>1, <1>2, <1>3, <1>4, <1>5, <1>6, <1>7, <1>8, <1>9, <1>10, <1>11, <1>12, <1>13, <1>14, <1>15, <1>16, <1>17, <1>18, <1>19, <1>20, <1>21, <1>22, <1>23, <1>24, <1>25, <1>26, <1>27, <1>28, <1>29 DEF Next, Step

----------------------------------------------------------------------------
(* The theorems *)

\* The invariants of both files together are inductive.
THEOREM InductiveInv == Spec => []IInv
<1>1. IInv /\ [Next]_vars => IInv'
  BY StepTyped, StepLock, StepMutex DEF IInv
<1> QED BY InitInv, <1>1, PTL DEF Spec

\* The lock file of WorkerOwnerLock.ts names the owner as long as it is one.
THEOREM OwnersKeepTheirFile == Spec => []OwnerHasFile
<1>1. IInv => OwnerHasFile
  BY DEF IInv, LockInv, OwnerHasFile, Owners, IsOwner
<1> QED BY InductiveInv, <1>1, PTL

\* Recoveries of an orphan mutex never take that of a running process.
THEOREM HoldersKeepTheirMutex == Spec => []MutexIsKept
<1>1. IInv => MutexIsKept
  BY DEF IInv, MutexInv, MutexIsKept
<1> QED BY InductiveInv, <1>1, PTL

----------------------------------------------------------------------------
(* The refinement: a step of p changes no other process's ownership, and   *)
(* before and after it at most one process is the owner.                   *)

\* Two owners would both have their record in the one lock file.
LEMMA OneOwner == IInv => \A p, q \in Owners : p = q
BY DEF IInv, LockInv, Owners, IsOwner, Own

\* A step of p makes and unmakes no other owner.
LEMMA OnlyItsOwn ==
  ASSUME TypeOK, NEW p \in Procs,
         Step(p) \/ Renew(p) \/ Dispose(p) \/ Expire(p) \/ StepFails(p) \/ RenewFails(p)
  PROVE  running' = running /\ Owners' \ {p} = Owners \ {p}
<1> USE DEF TypeOK, Owners, IsOwner, At, Goto, Branch, sideVars
<1>1. CASE Observe(p)
  BY <1>1 DEF Observe
<1>2. CASE OpenMutex(p)
  BY <1>2 DEF OpenMutex
<1>3. CASE WriteMutex(p)
  BY <1>3 DEF WriteMutex
<1>4. CASE Decide(p)
  BY <1>4 DEF Decide
<1>5. CASE Steal(p)
  BY <1>5 DEF Steal
<1>6. CASE Link(p)
  BY <1>6 DEF Link
<1>7. CASE Publish(p)
  BY <1>7 DEF Publish
<1>8. CASE Release(p)
  BY <1>8 DEF Release
<1>9. CASE Released(p)
  BY <1>9 DEF Released
<1>10. CASE Inspect(p)
  BY <1>10 DEF Inspect
<1>11. CASE InspectOwner(p)
  BY <1>11 DEF InspectOwner
<1>12. CASE Recheck(p)
  BY <1>12 DEF Recheck
<1>13. CASE LinkRecovering(p)
  BY <1>13 DEF LinkRecovering
<1>14. CASE PublishRecovering(p)
  BY <1>14 DEF PublishRecovering
<1>15. CASE RecheckPublished(p)
  BY <1>15 DEF RecheckPublished
<1>16. CASE Take(p)
  BY <1>16 DEF Take
<1>17. CASE Taken(p)
  BY <1>17 DEF Taken
<1>18. CASE Undo(p)
  BY <1>18 DEF Undo
<1>19. CASE Withdraw(p)
  BY <1>19 DEF Withdraw
<1>20. CASE Resign(p)
  BY <1>20 DEF Resign
<1>21. CASE DisposeRead(p)
  BY <1>21 DEF DisposeRead
<1>22. CASE Remove(p)
  BY <1>22 DEF Remove
<1>23. CASE Renew(p)
  BY <1>23 DEF Renew
<1>24. CASE Dispose(p)
  BY <1>24 DEF Dispose
<1>25. CASE Expire(p)
  BY <1>25 DEF Expire
<1>26. CASE StepFails(p)
  BY <1>26 DEF StepFails
<1>27. CASE RenewFails(p)
  BY <1>27 DEF RenewFails
<1> QED BY <1>1, <1>2, <1>3, <1>4, <1>5, <1>6, <1>7, <1>8, <1>9, <1>10, <1>11, <1>12, <1>13, <1>14, <1>15, <1>16, <1>17, <1>18, <1>19, <1>20, <1>21, <1>22, <1>23, <1>24, <1>25, <1>26, <1>27 DEF Step

\* What the windows see of the two files is BrokerOwnership.
THEOREM Refinement == Spec => ImplementsOwnership
<1> DEFINE Leader == IF Owners = {} THEN Nobody ELSE CHOOSE p \in Owners : TRUE
<1>1. Init => Ownership!OwnershipInit
  BY DEF Init, Ownership!OwnershipInit, Owners, IsOwner
<1>2. ASSUME IInv, IInv', [Next]_vars
      PROVE  [Ownership!OwnershipNext]_(Ownership!ownershipVars)
  <2> USE DEF Ownership!OwnershipNext, Ownership!ownershipVars
  <2>1. Owners \subseteq running /\ running \subseteq Procs /\ Nobody \notin Procs
    BY <1>2, OwnerLockAssumption DEF IInv, TypeOK, Owners
  <2>2. Owners' \subseteq running'
    BY DEF Owners
  <2>3. \A p \in Owners : Owners = {p} /\ Leader = p
    BY <1>2, OneOwner
  <2>4. \A p \in Owners' : Owners' = {p} /\ Leader' = p
    <3>1. \A p, q \in Owners' : p = q
      BY <1>2 DEF IInv, LockInv, Owners, IsOwner, Own
    <3> QED BY <3>1
  <2>5. (Owners = {} => Leader = Nobody) /\ (Owners' = {} => Leader' = Nobody)
    OBVIOUS
  <2>6. ASSUME NEW p \in Procs, running' = running, Owners' \ {p} = Owners \ {p}
        PROVE  Ownership!Elect(p) \/ Ownership!Leave(p) \/ (running' = running /\ Leader' = Leader)
    <3>1. CASE Owners' = Owners
      BY <2>6, <3>1
    <3>2. CASE p \in Owners' /\ p \notin Owners
      <4>1. Owners = {} /\ p \in running
        BY <2>2, <2>4, <2>6, <3>2
      <4> QED BY <2>4, <2>5, <2>6, <3>2, <4>1 DEF Ownership!Elect
    <3>3. CASE p \in Owners /\ p \notin Owners'
      <4>1. Owners' = {}
        BY <2>3, <2>6, <3>3
      <4> QED BY <2>3, <2>5, <2>6, <3>3, <4>1 DEF Ownership!Leave
    <3> QED BY <2>6, <3>1, <3>2, <3>3
  <2>7. ASSUME NEW p \in Procs, Crash(p) PROVE Ownership!Exit(p)
    <3>1. p \in running /\ running' = running \ {p} /\ Owners' = Owners \ {p}
      BY <1>2, <2>7 DEF Crash, Owners, IsOwner, IInv, TypeOK
    <3>2. Leader' = IF Leader = p THEN Nobody ELSE Leader
      <4>1. CASE p \in Owners
        BY <2>3, <2>5, <3>1, <4>1
      <4>2. CASE p \notin Owners
        BY <2>1, <2>3, <2>5, <3>1, <4>2
      <4> QED BY <4>1, <4>2
    <3> QED BY <3>1, <3>2 DEF Ownership!Exit
  <2>8. CASE UNCHANGED vars
    BY <2>8 DEF vars, Owners, IsOwner
  <2>9. CASE Next
    <3>1. PICK p \in Procs : Step(p) \/ Renew(p) \/ Dispose(p) \/ Crash(p) \/ Expire(p) \/ StepFails(p) \/ RenewFails(p)
      BY <2>9 DEF Next
    <3>2. CASE Crash(p)
      BY <2>7, <3>2
    <3>3. CASE ~Crash(p)
      BY <1>2, <2>6, <3>1, <3>3, OnlyItsOwn DEF IInv
    <3> QED BY <3>2, <3>3
  <2> QED BY <1>2, <2>8, <2>9
<1> QED BY InductiveInv, <1>1, <1>2, PTL DEF ImplementsOwnership, Ownership!OwnershipSpec, Spec
====
