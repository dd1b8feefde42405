---- MODULE WorkerOwnerLock ----
(***************************************************************************)
(* src/src/storage/WorkerOwnerLock.ts: the extension hosts that share a    *)
(* storage directory elect the owner of the Device Broker with two files,  *)
(* worker-owner.lock and the mutex worker-owner.takeover.  Every call to   *)
(* the file system is a step of its own: other processes, and crashes,     *)
(* come between any two of them.                                           *)
(*                                                                         *)
(* Files hold what identifies them.  The lock is published whole, by a     *)
(* hard link; the mutex is created empty and written afterwards, so a      *)
(* crash may leave it unwritten.  A record is old when its heartbeatAt or  *)
(* createdAt is more than ttlMs ago.                                       *)
(***************************************************************************)
EXTENDS Naturals, FiniteSets

CONSTANTS Procs,     \* extension hosts, one pid and token each
          Nobody, NoFile,
          Late,      \* processes that may miss their heartbeats, as after a suspend
          Faults,    \* subset of FaultKinds
          MaxFaults  \* bound: failing calls to the file system

\* A call to the file system fails in a contention, or in a heartbeat.
FaultKinds == {"contention", "heartbeat"}

ASSUME OwnerLockAssumption == /\ Nobody \notin Procs
                              /\ Late \subseteq Procs
                              /\ Faults \subseteq FaultKinds
                              /\ MaxFaults \in Nat

\* A generation, or the inode and createdAt of a mutex, are new at every
\* attempt to become owner; one bit tells an attempt from the one before.
Records == [proc : Procs, attempt : {0, 1}]

ASSUME NoFileAssumption == NoFile \notin Records
                           /\ NoFile \notin [id : Records, written : BOOLEAN]

VARIABLES running,   \* the processes that have not exited
          old,       \* the processes whose records are older than the TTL
          lock,      \* the record in worker-owner.lock
          mutex,     \* worker-owner.takeover
          pc,        \* where the contention or disposal of a process stands
          attempt,
          observed,  \* the owner record read before the mutex is taken
          snapshot,  \* the orphan mutex a recovery found
          claimed,   \* the mutex renamed away to be released
          handle,    \* the processes that hold the owner file (this.handle)
          disposed,
          faults

vars == <<running, old, lock, mutex, pc, attempt, observed, snapshot, claimed, handle, disposed, faults>>

\* Holding the mutex; recovering a mutex; disposing.
Contending == {"observed", "opened", "deciding", "stealing", "creating", "linked", "releasing", "claimed"}
Recovering == {"blocked", "inspecting", "preparing", "publishing", "published", "verifying", "taking", "taken",
               "undoing", "withdrawing", "resigning"}
Disposing == {"removing", "closed"}

TypeOK ==
  /\ running \subseteq Procs
  /\ old \subseteq Procs
  /\ lock \in Records \cup {NoFile}
  /\ mutex \in [id : Records, written : BOOLEAN] \cup {NoFile}
  /\ pc \in [Procs -> {"idle"} \cup Contending \cup Recovering \cup Disposing]
  /\ attempt \in [Procs -> {0, 1}]
  /\ observed \in [Procs -> Records \cup {NoFile}]
  /\ snapshot \in [Procs -> [id : Records, written : BOOLEAN] \cup {NoFile}]
  /\ claimed \in [Procs -> [id : Records, written : BOOLEAN] \cup {NoFile}]
  /\ handle \subseteq Procs
  /\ disposed \subseteq Procs
  /\ faults \in 0..MaxFaults

Init ==
  /\ running = Procs
  /\ old = {}
  /\ lock = NoFile
  /\ mutex = NoFile
  /\ pc = [p \in Procs |-> "idle"]
  /\ attempt = [p \in Procs |-> 0]
  /\ observed = [p \in Procs |-> NoFile]
  /\ snapshot = [p \in Procs |-> NoFile]
  /\ claimed = [p \in Procs |-> NoFile]
  /\ handle = {}
  /\ disposed = {}
  /\ faults = 0

----------------------------------------------------------------------------
(* Helpers *)

IsOwner(p) == p \in handle \ disposed

\* The record of p's current attempt or tenure.
Own(p) == [proc |-> p, attempt |-> attempt[p]]

\* Mutant: a pid is never found dead.
PidTaken(q) == TRUE

\* kill(pid, 0): the extension hosts of a storage directory see each other.
PidAlive(q) == q \in running

\* Mutant: a heartbeat older than the TTL is enough.
StaleByTime(q) == q \in old

\* The opposite of isLive, and isRecoverableTakeover for a mutex.
Stale(q) == q \in old /\ ~PidAlive(q)

Recoverable(m) == m # NoFile /\ m.written /\ Stale(m.id.proc)

\* The continuation of p after the step it was at.
At(p, from) == p \in running /\ pc[p] = from
Goto(p, to) == pc' = [pc EXCEPT ![p] = to]
Branch(p, test, yes, no) == Goto(p, IF test THEN yes ELSE no)

sideVars == <<running, old, attempt, disposed, faults>>

----------------------------------------------------------------------------
(* contend and acquire: read the owner record, then take the mutex *)

\* Attempts are serialized by contendOperation; an owner does not contend.
\* What earlier attempts remembered is forgotten.
Observe(p) ==
  /\ At(p, "idle")
  /\ p \notin disposed \cup handle
  /\ observed' = [observed EXCEPT ![p] = lock]
  /\ attempt' = [attempt EXCEPT ![p] = 1 - @]
  /\ old' = old \ {p}
  /\ snapshot' = [snapshot EXCEPT ![p] = NoFile]
  /\ Goto(p, "observed")
  /\ UNCHANGED <<running, lock, mutex, claimed, handle, disposed, faults>>

\* open(takeoverPath, 'wx+').
OpenMutex(p) ==
  /\ At(p, "observed")
  /\ IF mutex = NoFile
     THEN /\ mutex' = [id |-> Own(p), written |-> FALSE]
          /\ Goto(p, "opened")
          /\ UNCHANGED observed
     ELSE /\ Goto(p, "blocked")
          /\ observed' = [observed EXCEPT ![p] = NoFile]
          /\ UNCHANGED mutex
  /\ UNCHANGED <<sideVars, lock, snapshot, claimed, handle>>

\* The record goes to the inode p opened, wherever its name is now.
WriteMutex(p) ==
  /\ At(p, "opened")
  /\ mutex' = IF mutex = [id |-> Own(p), written |-> FALSE] THEN [mutex EXCEPT !.written = TRUE] ELSE mutex
  /\ claimed' = [q \in Procs |-> IF claimed[q] = [id |-> Own(p), written |-> FALSE]
                                 THEN [claimed[q] EXCEPT !.written = TRUE] ELSE claimed[q]]
  /\ Branch(p, p \in disposed, "releasing", "deciding")
  /\ UNCHANGED <<sideVars, lock, observed, snapshot, handle>>

\* contendWithMutex reads the owner record again: only the record seen before
\* the mutex was taken, or none both times, lets p go on.
Decide(p) ==
  /\ At(p, "deciding")
  /\ Goto(p, IF p \in disposed \/ lock # observed[p] THEN "releasing"
             ELSE IF lock = NoFile THEN "creating"
             ELSE IF Stale(lock.proc) THEN "stealing" ELSE "releasing")
  /\ observed' = [observed EXCEPT ![p] = NoFile]
  /\ UNCHANGED <<sideVars, lock, mutex, snapshot, claimed, handle>>

\* rename(path, stalePath) takes what is there by then; it throws on nothing.
Steal(p) ==
  /\ At(p, "stealing")
  /\ lock' = NoFile
  /\ Branch(p, lock = NoFile, "releasing", "creating")
  /\ UNCHANGED <<sideVars, mutex, observed, snapshot, claimed, handle>>

\* createOwnerFile prepares a candidate and links it without replacing.
Link(p) ==
  /\ At(p, "creating")
  /\ IF p \notin disposed /\ lock = NoFile
     THEN lock' = Own(p) /\ Goto(p, "linked")
     ELSE Goto(p, "releasing") /\ UNCHANGED lock
  /\ UNCHANGED <<sideVars, mutex, observed, snapshot, claimed, handle>>

\* A disposal that came meanwhile takes the file back.
Publish(p) ==
  /\ At(p, "linked")
  /\ IF p \in disposed
     THEN lock' = NoFile /\ UNCHANGED handle
     ELSE handle' = handle \cup {p} /\ UNCHANGED lock
  /\ Goto(p, "releasing")
  /\ UNCHANGED <<sideVars, mutex, observed, snapshot, claimed>>

\* releaseTakeoverMutex renames whatever has the mutex's name ...
Release(p) ==
  /\ At(p, "releasing")
  /\ claimed' = [claimed EXCEPT ![p] = mutex]
  /\ mutex' = NoFile
  /\ Branch(p, mutex = NoFile, "idle", "claimed")
  /\ UNCHANGED <<sideVars, lock, observed, snapshot, handle>>

\* ... and deletes it if it is the one expected; otherwise it is linked back,
\* unless the name is taken again.
DropOrRestore(p, mine) ==
  /\ mutex' = IF ~mine /\ mutex = NoFile THEN claimed[p] ELSE mutex
  /\ claimed' = [claimed EXCEPT ![p] = NoFile]

Released(p) ==
  /\ At(p, "claimed")
  /\ DropOrRestore(p, claimed[p].id = Own(p))
  /\ Goto(p, "idle")
  /\ UNCHANGED <<sideVars, lock, observed, snapshot, handle>>

----------------------------------------------------------------------------
(* recoverOwnerlessTakeover: the mutex of a holder that has exited *)

Inspect(p) ==
  /\ At(p, "blocked")
  /\ IF Recoverable(mutex)
     THEN snapshot' = [snapshot EXCEPT ![p] = mutex] /\ Goto(p, "inspecting")
     ELSE Goto(p, "idle") /\ UNCHANGED snapshot
  /\ UNCHANGED <<sideVars, lock, mutex, observed, claimed, handle>>

\* Only while there is no owner file, complete or not.
InspectOwner(p) ==
  /\ At(p, "inspecting")
  /\ Branch(p, lock = NoFile, "preparing", "idle")
  /\ UNCHANGED <<sideVars, lock, mutex, observed, snapshot, claimed, handle>>

StillRecoverable(p) == mutex = snapshot[p] /\ Recoverable(mutex)

\* beforePublish of createOwnerFile.
Recheck(p) ==
  /\ At(p, "preparing")
  /\ Branch(p, p \notin disposed /\ StillRecoverable(p), "publishing", "idle")
  /\ UNCHANGED <<sideVars, lock, mutex, observed, snapshot, claimed, handle>>

LinkRecovering(p) ==
  /\ At(p, "publishing")
  /\ IF lock = NoFile
     THEN lock' = Own(p) /\ Goto(p, "published")
     ELSE Goto(p, "idle") /\ UNCHANGED lock
  /\ UNCHANGED <<sideVars, mutex, observed, snapshot, claimed, handle>>

PublishRecovering(p) ==
  /\ At(p, "published")
  /\ IF p \in disposed
     THEN lock' = NoFile /\ Goto(p, "idle") /\ UNCHANGED handle
     ELSE handle' = handle \cup {p} /\ Goto(p, "verifying") /\ UNCHANGED lock
  /\ UNCHANGED <<sideVars, mutex, observed, snapshot, claimed>>

RecheckPublished(p) ==
  /\ At(p, "verifying")
  /\ Branch(p, StillRecoverable(p), "taking", "undoing")
  /\ UNCHANGED <<sideVars, lock, mutex, observed, snapshot, claimed, handle>>

Take(p) ==
  /\ At(p, "taking")
  /\ claimed' = [claimed EXCEPT ![p] = mutex]
  /\ mutex' = NoFile
  /\ Branch(p, mutex = NoFile, "undoing", "taken")
  /\ UNCHANGED <<sideVars, lock, observed, snapshot, handle>>

\* allowIncompleteRecord is false.
Taken(p) ==
  /\ At(p, "taken")
  /\ LET mine == claimed[p] = snapshot[p]
     IN DropOrRestore(p, mine) /\ Branch(p, mine, "idle", "undoing")
  /\ UNCHANGED <<sideVars, lock, observed, snapshot, handle>>

\* Not recovered: the provisional ownership is given up.
Undo(p) ==
  /\ At(p, "undoing")
  /\ Branch(p, p \in handle /\ lock = Own(p), "withdrawing", "resigning")
  /\ UNCHANGED <<sideVars, lock, mutex, observed, snapshot, claimed, handle>>

Withdraw(p) ==
  /\ At(p, "withdrawing")
  /\ lock' = NoFile
  /\ Goto(p, "resigning")
  /\ UNCHANGED <<sideVars, mutex, observed, snapshot, claimed, handle>>

\* loseOwnership leaves a disposed lock to disposeCore.
Resign(p) ==
  /\ At(p, "resigning")
  /\ handle' = IF p \in disposed THEN handle ELSE handle \ {p}
  /\ Goto(p, "idle")
  /\ UNCHANGED <<sideVars, lock, mutex, observed, snapshot, claimed>>

----------------------------------------------------------------------------
(* Tenure: heartbeats and assertOwner, and disposal *)

\* renew() finds its own record and refreshes it, or gives up ownership.
Renew(p) ==
  /\ p \in running
  /\ IsOwner(p)
  /\ IF lock = Own(p)
     THEN old' = old \ {p} /\ UNCHANGED handle
     ELSE handle' = handle \ {p} /\ UNCHANGED old
  /\ UNCHANGED <<running, lock, mutex, pc, attempt, observed, snapshot, claimed, disposed, faults>>

\* dispose() first makes isOwner() false, then waits for contendOperation.
Dispose(p) ==
  /\ p \in running \ disposed
  /\ disposed' = disposed \cup {p}
  /\ UNCHANGED <<running, old, lock, mutex, pc, attempt, observed, snapshot, claimed, handle, faults>>

\* Without this.record nothing on disk is this process's own.
DisposeRead(p) ==
  /\ At(p, "idle")
  /\ p \in disposed
  /\ Branch(p, p \in handle /\ lock = Own(p), "removing", "closed")
  /\ UNCHANGED <<sideVars, lock, mutex, observed, snapshot, claimed, handle>>

Remove(p) ==
  /\ At(p, "removing")
  /\ lock' = NoFile
  /\ handle' = handle \ {p}
  /\ Goto(p, "closed")
  /\ UNCHANGED <<sideVars, mutex, observed, snapshot, claimed>>

----------------------------------------------------------------------------
(* The environment *)

\* The two files survive a process; its memory and the mutex it had renamed
\* away, which nobody reads, do not.
Crash(p) ==
  /\ p \in running
  /\ running' = running \ {p}
  /\ handle' = handle \ {p}
  /\ pc' = [pc EXCEPT ![p] = "idle"]
  /\ observed' = [observed EXCEPT ![p] = NoFile]
  /\ snapshot' = [snapshot EXCEPT ![p] = NoFile]
  /\ claimed' = [claimed EXCEPT ![p] = NoFile]
  /\ UNCHANGED <<old, lock, mutex, attempt, disposed, faults>>

\* A record is a TTL old: its process has exited, or is late.
Expire(p) ==
  /\ p \notin old
  /\ p \in running => p \in Late
  /\ old' = old \cup {p}
  /\ UNCHANGED <<running, lock, mutex, pc, attempt, observed, snapshot, claimed, handle, disposed, faults>>

\* One failing call to the file system. While the mutex is held: it is
\* released. Before its stat: it is unlinked by name. Before it is opened, or
\* while a recovery has published nothing: the attempt ends. Afterwards the
\* recovery is undone, but for the removal of its candidate, which fails
\* outside of the try block: the process is the owner then, beside the mutex.
StepFails(p) ==
  /\ p \in running
  /\ "contention" \in Faults /\ faults < MaxFaults
  /\ faults' = faults + 1
  /\ \/ /\ pc[p] \in {"opened", "deciding", "stealing", "creating"}
        /\ Goto(p, "releasing")
        /\ UNCHANGED <<mutex, handle>>
     \/ /\ pc[p] = "opened"
        /\ mutex' = NoFile
        /\ Goto(p, "idle")
        /\ UNCHANGED handle
     \/ /\ pc[p] \in {"observed", "blocked", "inspecting", "preparing", "publishing"}
        /\ Goto(p, "idle")
        /\ UNCHANGED <<mutex, handle>>
     \/ /\ pc[p] \in {"verifying", "taking"}
        /\ Goto(p, "undoing")
        /\ UNCHANGED <<mutex, handle>>
     \/ /\ pc[p] = "published" /\ p \notin disposed
        /\ handle' = handle \cup {p}
        /\ Goto(p, "idle")
        /\ UNCHANGED mutex
  /\ observed' = [observed EXCEPT ![p] = NoFile]
  /\ UNCHANGED <<running, old, lock, attempt, snapshot, claimed, disposed>>

\* startHeartbeat: a heartbeat that cannot read or write the file loses the
\* ownership; the file stays.
RenewFails(p) ==
  /\ p \in running
  /\ IsOwner(p)
  /\ "heartbeat" \in Faults /\ faults < MaxFaults
  /\ faults' = faults + 1
  /\ handle' = handle \ {p}
  /\ UNCHANGED <<running, old, lock, mutex, pc, attempt, observed, snapshot, claimed, disposed>>

----------------------------------------------------------------------------
Step(p) ==
  \/ Observe(p) \/ OpenMutex(p) \/ WriteMutex(p) \/ Decide(p) \/ Steal(p)
  \/ Link(p) \/ Publish(p) \/ Release(p) \/ Released(p)
  \/ Inspect(p) \/ InspectOwner(p) \/ Recheck(p) \/ LinkRecovering(p) \/ PublishRecovering(p)
  \/ RecheckPublished(p) \/ Take(p) \/ Taken(p) \/ Undo(p) \/ Withdraw(p) \/ Resign(p)
  \/ DisposeRead(p) \/ Remove(p)

Next == \E p \in Procs : Step(p) \/ Renew(p) \/ Dispose(p) \/ Crash(p) \/ Expire(p) \/ StepFails(p) \/ RenewFails(p)

Spec == Init /\ [][Next]_vars

\* The lifecycle keeps contending, heartbeats keep coming, promises settle
\* while the process runs, and time passes. Nobody must dispose or crash.
Fairness == \A p \in Procs : WF_vars(Step(p)) /\ WF_vars(Renew(p)) /\ WF_vars(Expire(p))

FairSpec == Spec /\ Fairness

----------------------------------------------------------------------------
(* Properties *)

\* An owner that is not about to give up the ownership it took provisionally.
Owners == {p \in running : IsOwner(p) /\ pc[p] # "resigning"}

\* Whoever is the owner has its own record, of this very tenure, in the lock
\* file: nobody's recovery, takeover or disposal removed it.
OwnerHasFile == \A p \in Owners : lock = Own(p)

\* A process that runs and holds the takeover mutex keeps it until it releases
\* it itself, whatever recoveries are under way.
HoldsMutex == {"opened", "deciding", "stealing", "creating", "linked", "releasing"}
MutexIsKept ==
  \A p \in running : pc[p] \in HoldsMutex => mutex # NoFile /\ mutex.id = Own(p)

\* The elections that two files bring about are those of BrokerOwnership: no
\* extension host becomes the owner while another one that runs is.
Ownership == INSTANCE BrokerOwnership WITH
  leader <- IF Owners = {} THEN Nobody ELSE CHOOSE p \in Owners : TRUE
ImplementsOwnership == Ownership!OwnershipSpec

\* Documented limit: a mutex left by a process that has exited stays when it
\* is incomplete, or when there is an owner file too.
FailedClosed ==
  /\ mutex # NoFile
  /\ mutex.id.proc \notin running
  /\ ~mutex.written \/ lock # NoFile

\* Known limit: a heartbeat that failed lost the ownership and left the file,
\* which names a process that runs: isLive is true for every contender.
Abandoned ==
  /\ lock # NoFile /\ lock.proc \in running
  /\ lock # Own(lock.proc) \/ pc[lock.proc] = "closed"

\* Some owner has finished its election.
Led == \E p \in running : IsOwner(p) /\ pc[p] = "idle"

\* As long as a window contends there is an owner again and again, but for two
\* states: contenders never keep one another out for ever.
LeaderReturns == []<>(running \subseteq disposed \/ Led \/ FailedClosed \/ Abandoned)
====
