---- MODULE BrokerOwnership ----
(***************************************************************************)
(* What src/src/storage/WorkerOwnerLock.ts promises the windows that share *)
(* a storage directory (interface BrokerOwnership): among the extension    *)
(* hosts that run, at most one is the owner.  How the lock files bring it  *)
(* about does not show.  WorkerOwnerLock implements this module, and       *)
(* BrokerLifecycle relies on it.                                           *)
(***************************************************************************)
CONSTANTS Procs,   \* the extension hosts, each with a pid of its own
          Nobody

VARIABLES running, \* the extension hosts that have not exited
          leader   \* the one for which isOwner() is true

ownershipVars == <<running, leader>>

OwnershipInit ==
  /\ running = Procs
  /\ leader = Nobody

\* contend() finds no owner, or one that has exited.
Elect(p) ==
  /\ p \in running
  /\ leader = Nobody
  /\ leader' = p
  /\ UNCHANGED running

\* dispose(), or an ownership that is given up or lost.
Leave(p) ==
  /\ leader = p
  /\ leader' = Nobody
  /\ UNCHANGED running

Exit(p) ==
  /\ p \in running
  /\ running' = running \ {p}
  /\ leader' = IF leader = p THEN Nobody ELSE leader

OwnershipNext == \E p \in Procs : Elect(p) \/ Leave(p) \/ Exit(p)

OwnershipSpec == OwnershipInit /\ [][OwnershipNext]_ownershipVars
====
