---- MODULE SavedDevices ----
(***************************************************************************)
(* src/src/composition/ProductionDashboardManagement.ts: a paired device   *)
(* is revoked, or deleted from the saved devices.  The denial is stored    *)
(* behind the barriers that admit tasks; then the tasks of the device are  *)
(* cancelled, its trust revoked and its profile removed.  What fails is    *)
(* left to be done again, and the record is deleted only when no task of   *)
(* the device is unfinished.                                               *)
(*                                                                         *)
(* The tasks this device has started there are those of RemoteRoutes; one  *)
(* task of the other device runs here (inc).                               *)
(***************************************************************************)
EXTENDS RemoteRoutes

VARIABLES dash,   \* the action under way: one at a time (queue)
          inc     \* the incoming task

savedVars == <<dash, inc>>

NoAction == [at |-> "idle", deleting |-> FALSE, seen |-> <<FALSE, 0, 0, FALSE>>, left |-> {}, failed |-> FALSE]

SavedInit == dash = NoAction /\ inc = "none"

Unfinished == {"running", "cancelling"}

\* devices: what the choice of the user is bound to.
Fingerprint == <<link.saved, link.conn, link.profile, link.online>>

\* activeTasks: the routes to the device that are not terminal, and the task here.
\* Mutant: a route nothing has been heard of counts for no task.
HeardRoutes == {t \in RouteTasks : mem.routes[t] \in Unfinished}

ActiveRoutes == {t \in RouteTasks : mem.routes[t] # Unrouted /\ ~IsTerminal(mem.routes[t])}

ActiveTasks == ActiveRoutes # {} \/ inc \in Unfinished

At(s) == dash' = [dash EXCEPT !.at = s]
Ends == dash' = NoAction
Fails == dash' = [dash EXCEPT !.failed = TRUE]

\* snapshot issues the handle and act takes it: a device with unfinished
\* tasks has none for its deletion.
Act(deleting) ==
  /\ dash.at = "idle" /\ disk.entry # "deleted"
  /\ IF deleting THEN ~ActiveTasks ELSE disk.entry = "none" \/ disk.pending
  /\ dash' = [NoAction EXCEPT !.at = "confirming", !.deleting = deleting, !.seen = Fingerprint]
  /\ UNCHANGED <<routesVars, inc>>

\* The user declines, or the device has changed when the answer is validated.
Dismissed ==
  /\ dash.at = "confirming" /\ Ends
  /\ UNCHANGED <<routesVars, inc>>

\* validate, in act: the device and its connection are as they were shown.
AsShown == dash.seen = Fingerprint

\* denyDevice
DenyDevice ==
  LET denied == [disk EXCEPT !.entry = "denied", !.pending = TRUE] IN
  /\ dash.at = "confirming" /\ AsShown
  /\ dash.deleting => ~ActiveTasks
  /\ \/ Updates(denied, mem) /\ dash' = [dash EXCEPT !.at = "outgoing", !.left = ActiveRoutes]
     \/ UpdateThrows(denied, mem) /\ Ends
  /\ UNCHANGED <<link, att, poll, read, svc, inc>>

----------------------------------------------------------------------------
(* cleanupDevice: each part is tried, whatever failed before it *)

\* The peer answers the cancellation of a task, or does not know it.
CancelOutgoing(t) ==
  /\ dash.at = "outgoing" /\ t \in dash.left
  /\ IF Online /\ svc[t] # "none"
     THEN /\ svc' = Cancelled(t)
          /\ \E fails \in BOOLEAN :
               /\ RecordSnapshot(t, svc'[t], fails)
               /\ dash' = [dash EXCEPT !.left = @ \ {t}, !.failed = @ \/ fails]
     ELSE /\ dash' = [dash EXCEPT !.left = @ \ {t}, !.failed = TRUE]
          /\ UNCHANGED <<disk, mem, svc, mishaps>>
  /\ UNCHANGED <<link, att, poll, read, inc>>

CancelIncoming ==
  /\ dash.at = "outgoing" /\ dash.left = {}
  /\ \/ /\ inc' = IF inc = "running" THEN "cancelling" ELSE inc
        /\ At("removing") /\ NoFault
     \/ /\ inc = "running" /\ Fault /\ UNCHANGED inc
        /\ dash' = [dash EXCEPT !.at = "removing", !.failed = TRUE]
  /\ UNCHANGED <<disk, mem, link, att, poll, read, svc>>

\* The connection goes, and with it the profile, the secret and the trust.
RemovePeer ==
  /\ dash.at = "removing"
  /\ \/ link' = [link EXCEPT !.online = FALSE, !.saved = FALSE] /\ At("finishing") /\ NoFault
     \/ /\ Fault /\ link' = [link EXCEPT !.online = FALSE]
        /\ dash' = [dash EXCEPT !.at = "finishing", !.failed = TRUE]
  /\ UNCHANGED <<disk, mem, att, poll, read, svc, inc>>

\* A failure, or a task that is not finished yet, leaves the record pending.
LeftPending ==
  /\ dash.at = "finishing" /\ (dash.failed \/ (dash.deleting /\ ActiveTasks))
  /\ Ends
  /\ UNCHANGED <<routesVars, inc>>

Finish ==
  LET done == [disk EXCEPT !.pending = FALSE, !.entry = IF dash.deleting THEN "deleted" ELSE @] IN
  /\ dash.at = "finishing" /\ ~dash.failed /\ (dash.deleting => ~ActiveTasks)
  /\ \/ Updates(done, IF dash.deleting THEN Forgotten(mem) ELSE mem)
     \/ UpdateThrows(done, mem)
  /\ Ends
  /\ UNCHANGED <<link, att, poll, read, svc, inc>>

----------------------------------------------------------------------------
(* The incoming task is admitted behind the same barrier; it is kept over a *)
(* restart, and the action under way is not.                                *)

IncomingStarts ==
  /\ inc = "none" /\ DeviceAllowed
  /\ inc' = "running"
  /\ UNCHANGED <<routesVars, dash>>

IncomingEnds ==
  /\ inc \in Unfinished /\ inc' = "completed"
  /\ UNCHANGED <<routesVars, dash>>

SavedNext ==
  \/ \E deleting \in BOOLEAN : Act(deleting)
  \/ Dismissed \/ DenyDevice \/ CancelIncoming \/ RemovePeer \/ LeftPending \/ Finish
  \/ \E t \in RouteTasks : CancelOutgoing(t)
  \/ IncomingStarts \/ IncomingEnds
  \/ RestartRoutes /\ dash' = NoAction /\ UNCHANGED inc

DevicesInit == SavedInit /\ \E starts \in [RouteAttempts -> {"idle", "gone"}] : RoutesInit(starts)
DevicesNext == ((LinkNext \/ ReadsNext \/ TasksNext) /\ UNCHANGED savedVars) \/ SavedNext
DevicesSpec == DevicesInit /\ [][DevicesNext]_<<routesVars, savedVars>>

----------------------------------------------------------------------------
(* Properties *)

\* When the record of a device is deleted no task of either device runs for
\* the other, none is on its way, and the link is gone for good: deletion is
\* the promise that nothing is left behind, and nothing of the device is
\* shown, or can be found again, to be cleaned up later. A request that still
\* travels finds its task ended.
DeletedIsIdle ==
  disk.entry = "deleted" =>
    /\ ~link.saved /\ ~Target /\ ~Shown
    /\ inc \notin Unfinished
    /\ \A t \in RouteTasks : svc[t] \notin Unfinished
    /\ \A a \in RouteAttempts : att[a].asked /\ att[a].seen = "none" => svc[att[a].task] = "completed"
====
