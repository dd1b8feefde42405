---- MODULE RemoteRoutes ----
(***************************************************************************)
(* src/src/composition/ProductionRemoteTaskAdapter.ts: the tasks this      *)
(* device has started on one peer.  The route of a task is stored before   *)
(* the task is requested; the attempts that carry the same task share a    *)
(* group, and the last one that leaves without having asked the peer for   *)
(* anything takes the route away.  The directory of the peer is kept with  *)
(* the authentication under which it was read.                             *)
(*                                                                         *)
(* The operations on the stored catalog run one at a time (serializeRoute) *)
(* and are one step each.  The peer itself is svc: what it knows of each   *)
(* task.                                                                   *)
(***************************************************************************)
EXTENDS Naturals, FiniteSets

CONSTANTS RouteTasks,        \* task ids
          RouteAttempts,     \* bound: calls of startTask
          RouteReads,        \* bound: calls of listDevices, in their order
          RouteLimit,        \* REMOTE_TASK_ROUTE_LIMIT
          MaxRouteFaults,    \* bound: failed updates, lost answers and restarts
          MaxReconnects      \* bound: reconnections and new pairings

ASSUME RoutesAssumption ==
  /\ RouteReads \subseteq Nat /\ RouteLimit \in Nat \ {0}
  /\ MaxRouteFaults \in Nat /\ MaxReconnects \in Nat

VARIABLES disk,     \* the stored catalog, and the entry of savedDevices for this device
          mem,      \* taskRoutes, routeAttemptGroups, authenticatedCatalog, directory
          link,     \* the PeerConnection, its sessions and the profile of the peer
          att,      \* the calls of startTask
          poll,     \* one call of getTask or cancelTask
          read,     \* the calls of listDevices
          svc,      \* what the peer knows of each task
          mishaps   \* faults and reconnections so far

routesVars == <<disk, mem, link, att, poll, read, svc, mishaps>>

Unrouted == "none"
NoGroup == [attempts |-> {}, releasable |-> FALSE, protected |-> FALSE, state |-> "none"]
NoCatalog == [auth |-> <<0, 0>>, origin |-> <<0, 0>>]
NoAttempt == [at |-> "idle", task |-> "", asked |-> FALSE, seen |-> "none", state |-> "none",
              conn |-> 0, object |-> 0]
NoPoll == [at |-> "idle", task |-> "", cancel |-> FALSE, seen |-> "none"]
NoRead == [at |-> "idle", auth |-> <<0, 0>>, from |-> <<0, 0>>]

\* A route is ambiguous until the state of its task is heard.
IsTerminal(state) == state = "completed"

\* authenticatedBinding: the generations of the connection and of the profile.
Binding == <<link.conn, link.profile>>

\* starts: which calls of startTask there can be.
RoutesInit(starts) ==
  /\ disk = [routes |-> [t \in RouteTasks |-> Unrouted], entry |-> "none", pending |-> FALSE]
  /\ mem = [routes |-> disk.routes, groups |-> [t \in RouteTasks |-> NoGroup],
            catalog |-> NoCatalog, directory |-> "none", reading |-> 0]
  /\ link = [online |-> TRUE, conn |-> 1, object |-> 1, profile |-> 1, saved |-> TRUE]
  /\ att = [a \in RouteAttempts |-> [NoAttempt EXCEPT !.at = starts[a]]]
  /\ poll = NoPoll
  /\ read = [r \in RouteReads |-> NoRead]
  /\ svc = [t \in RouteTasks |-> "none"]
  /\ mishaps = [faults |-> 0, links |-> 0]

Fault == mishaps.faults < MaxRouteFaults /\ mishaps' = [mishaps EXCEPT !.faults = @ + 1]
NoFault == UNCHANGED mishaps

\* assertDeviceAllowed, of savedDevices; requireOnline.
DeviceAllowed == disk.entry = "none"
Online == link.online /\ link.saved

\* matchesAuthentication
Matches(auth) == Online /\ auth = Binding

\* An update of the stored catalog: it succeeds with the change of memory,
\* or throws before or after the write with memory as it was.
Updates(newDisk, newMem) == disk' = newDisk /\ mem' = newMem /\ NoFault
UpdateThrows(newDisk, newMem) == Fault /\ disk' \in {disk, newDisk} /\ mem' = newMem

----------------------------------------------------------------------------
(* The connection, and a restart of the broker *)

Drop ==
  /\ link.online /\ link' = [link EXCEPT !.online = FALSE]
  /\ UNCHANGED <<disk, mem, att, poll, read, svc, mishaps>>

\* Every authentication has a generation of its own; the PeerConnection it
\* belongs to (object) is kept.
ReconnectPeer ==
  /\ ~link.online /\ link.saved /\ mishaps.links < MaxReconnects
  /\ link' = [link EXCEPT !.online = TRUE, !.conn = @ + 1]
  /\ mishaps' = [mishaps EXCEPT !.links = @ + 1]
  /\ UNCHANGED <<disk, mem, att, poll, read, svc>>

\* Another generation of the profile: it was removed and made anew, with a
\* PeerConnection of its own, or has got the generation it lacked.
PairAgain ==
  /\ ~link.online /\ link.saved /\ mishaps.links < MaxReconnects
  /\ \E object \in {link.object, link.object + 1} :
       link' = [link EXCEPT !.profile = @ + 1, !.conn = @ + 1, !.object = object, !.online = TRUE]
  /\ mishaps' = [mishaps EXCEPT !.links = @ + 1]
  /\ UNCHANGED <<disk, mem, att, poll, read, svc>>

\* The routes are read back; calls and groups are gone.
RestartRoutes ==
  /\ Fault
  /\ mem' = [routes |-> disk.routes, groups |-> [t \in RouteTasks |-> NoGroup],
             catalog |-> NoCatalog, directory |-> "none", reading |-> mem.reading]
  /\ att' = [a \in RouteAttempts |-> IF att[a].at = "idle" THEN att[a] ELSE [att[a] EXCEPT !.at = "gone"]]
  /\ poll' = NoPoll
  /\ read' = [r \in RouteReads |-> IF read[r].at = "idle" THEN read[r] ELSE [read[r] EXCEPT !.at = "done"]]
  /\ UNCHANGED <<disk, link, svc>>

----------------------------------------------------------------------------
(* listDevices *)

Directory(d) == IF DeviceAllowed THEN d ELSE "none"

\* The peer is asked under its authentication, or shown without windows.
ReadStarts(r) ==
  /\ read[r].at = "idle" /\ \A s \in RouteReads : s < r => read[s].at # "idle"
  /\ IF Online
     THEN /\ read' = [read EXCEPT ![r] = [at |-> "asked", auth |-> Binding, from |-> Binding]]
          /\ mem' = [mem EXCEPT !.reading = r]
     ELSE /\ read' = [read EXCEPT ![r].at = "incompatible"]
          /\ mem' = [mem EXCEPT !.reading = r, !.catalog = NoCatalog]
  /\ UNCHANGED <<disk, link, att, poll, svc, mishaps>>

\* The answers, or the failure of the connection they were asked on; a read
\* that a later one has overtaken changes nothing.
ReadAnswered(r) ==
  /\ read[r].at = "asked"
  /\ IF r # mem.reading
     THEN read' = [read EXCEPT ![r].at = "done"] /\ UNCHANGED mem
     ELSE IF Matches(read[r].auth)
          THEN /\ mem' = [mem EXCEPT !.catalog = [auth |-> read[r].auth, origin |-> read[r].from]]
               /\ read' = [read EXCEPT ![r].at = "listed"]
          ELSE /\ mem' = [mem EXCEPT !.catalog = NoCatalog]
               /\ read' = [read EXCEPT ![r].at = "incompatible"]
  /\ UNCHANGED <<disk, link, att, poll, svc, mishaps>>

\* The directory is replaced when every peer has been read.
ReadEnds(r) ==
  /\ read[r].at \in {"listed", "incompatible"}
  /\ read' = [read EXCEPT ![r].at = "done"]
  /\ mem' = IF r = mem.reading THEN [mem EXCEPT !.directory = Directory(read[r].at)] ELSE mem
  /\ UNCHANGED <<disk, link, att, poll, svc, mishaps>>

\* cachedDevices: whether the windows of the peer are shown.
Shown == mem.directory = "listed" /\ DeviceAllowed /\ mem.catalog # NoCatalog /\ Matches(mem.catalog.auth)

\* lookupTarget finds a target.
Target == DeviceAllowed /\ mem.catalog # NoCatalog /\ Matches(mem.catalog.auth)

\* forgetDevice
Forgotten(m) == IF m.directory = "none" THEN m ELSE [m EXCEPT !.catalog = NoCatalog, !.directory = "none"]

----------------------------------------------------------------------------
(* startTask *)

Goes(a, at) == att' = [att EXCEPT ![a].at = at]
Leaves(a) == Goes(a, "gone")

\* startTask and validateStart: the device is asked who it is, over the
\* session that is up; the PeerConnection must still be there when the task is
\* asked for.
StartTask(a, t) ==
  /\ att[a].at = "idle"
  /\ att' = [att EXCEPT ![a].task = t, ![a].conn = link.conn, ![a].object = link.object,
                        ![a].at = IF DeviceAllowed /\ Online THEN "reserving" ELSE "gone"]
  /\ UNCHANGED <<disk, mem, link, poll, read, svc, mishaps>>

\* routeReservation: attempts of the same route share its group; a route that
\* has changed since gets a new one.
Joined(groups, a, t, state, created) ==
  [groups EXCEPT ![t] =
    IF groups[t].attempts # {} /\ groups[t].state = state
    THEN [groups[t] EXCEPT !.attempts = @ \cup {a}]
    ELSE [attempts |-> {a}, releasable |-> created, protected |-> ~created, state |-> state]]

\* makeRemoteCapacity: the tasks one of which may have to make room.
Stored == {t \in RouteTasks : disk.routes[t] # Unrouted}
Evictable == {t \in Stored : IsTerminal(disk.routes[t])}
Room == IF Cardinality(Stored) < RouteLimit THEN {{}} ELSE {{t} : t \in Evictable}

\* The routes with a new one in the place of those that make room.
Routed(routes, out, task) ==
  [t \in RouteTasks |-> CASE t = task -> "ambiguous" [] t # task /\ t \in out -> Unrouted [] OTHER -> routes[t]]

\* reserveRoute, of a task that has a route;
ReserveExisting(a) ==
  LET t == att[a].task IN
  /\ att[a].at = "reserving" /\ DeviceAllowed /\ disk.routes[t] # Unrouted
  /\ mem' = [mem EXCEPT !.routes[t] = disk.routes[t],
                        !.groups = Joined(mem.groups, a, t, disk.routes[t], FALSE)]
  /\ att' = [att EXCEPT ![a].at = "authorizing", ![a].state = disk.routes[t]]
  /\ UNCHANGED <<disk, link, poll, read, svc, mishaps>>

\* of a new one;
ReserveNew(a) ==
  LET t == att[a].task IN
  /\ att[a].at = "reserving" /\ DeviceAllowed /\ disk.routes[t] = Unrouted
  /\ \E out \in Room :
       LET new == [disk EXCEPT !.routes = Routed(disk.routes, out, t)] IN
       \/ /\ Updates(new, [mem EXCEPT !.routes = Routed(mem.routes, out, t),
                                      !.groups = Joined(mem.groups, a, t, "ambiguous", TRUE)])
          /\ att' = [att EXCEPT ![a].at = "authorizing", ![a].state = "ambiguous"]
       \/ UpdateThrows(new, mem) /\ Leaves(a)
  /\ UNCHANGED <<link, poll, read, svc>>

\* and refused: the device is denied, did not answer, or the catalog is full
\* of active tasks.
ReserveRefused(a) ==
  /\ att[a].at = "reserving"
  /\ \/ ~DeviceAllowed \/ ~Online \/ link.conn # att[a].conn
     \/ disk.routes[att[a].task] = Unrouted /\ Room = {}
  /\ Leaves(a)
  /\ UNCHANGED <<disk, mem, link, poll, read, svc, mishaps>>

\* After the authorization, the PeerConnection must be the one validated; then
\* the task is asked for over its session of now, which may be a later one.
Dispatch(a) ==
  /\ att[a].at = "authorizing"
  /\ IF DeviceAllowed /\ Online /\ link.object = att[a].object
     THEN att' = [att EXCEPT ![a].at = "asked", ![a].asked = TRUE, ![a].conn = link.conn]
     ELSE Goes(a, "settling")
  /\ UNCHANGED <<disk, mem, link, poll, read, svc, mishaps>>

\* assertAuthorized throws.
NotAuthorized(a) ==
  /\ att[a].at = "authorizing" /\ Goes(a, "settling")
  /\ UNCHANGED <<disk, mem, link, poll, read, svc, mishaps>>

\* The peer accepts the task, once, even when nobody waits for its answer.
PeerStarts(a) ==
  /\ att[a].asked /\ att[a].seen = "none"
  /\ LET state == IF svc[att[a].task] = "none" THEN "running" ELSE svc[att[a].task] IN
     /\ svc' = [svc EXCEPT ![att[a].task] = state]
     /\ att' = [att EXCEPT ![a].seen = state]
  /\ UNCHANGED <<disk, mem, link, poll, read, mishaps>>

StartFails(a) ==
  /\ att[a].at = "asked"
  /\ \/ (~Online \/ link.conn # att[a].conn) /\ NoFault
     \/ Fault
  /\ Goes(a, "settling")
  /\ UNCHANGED <<disk, mem, link, poll, read, svc>>

\* recordSnapshot: the route takes the state of the snapshot. The ways it can
\* end are the states of disk and memory after it and whether it threw.
RecordSnapshot(t, state, fails) ==
  IF disk.routes[t] = Unrouted THEN fails /\ UNCHANGED <<disk, mem, mishaps>>
  ELSE IF disk.routes[t] = state THEN ~fails /\ UNCHANGED <<disk, mem, mishaps>>
  ELSE LET new == [disk EXCEPT !.routes[t] = state] IN
       IF fails THEN UpdateThrows(new, mem) ELSE Updates(new, [mem EXCEPT !.routes[t] = state])

\* The answer comes back on the connection and is recorded.
StartAnswered(a, fails) ==
  /\ att[a].at = "asked" /\ att[a].seen # "none" /\ Online /\ link.conn = att[a].conn
  /\ RecordSnapshot(att[a].task, att[a].seen, fails)
  /\ Goes(a, "settling")
  /\ UNCHANGED <<link, poll, read, svc>>

\* requireRouteAttemptGroup
InGroup(a) ==
  LET g == mem.groups[att[a].task] IN a \in g.attempts /\ g.state = att[a].state

LeftGroup(g, a) == IF g.attempts = {a} THEN NoGroup ELSE [g EXCEPT !.attempts = @ \ {a}]

\* retainRouteAttempt: the route stays, whatever else leaves the group.
Retain(a) ==
  /\ att[a].at = "settling" /\ att[a].asked /\ InGroup(a)
  /\ mem' = [mem EXCEPT !.groups[att[a].task] = LeftGroup([mem.groups[att[a].task] EXCEPT !.protected = TRUE], a)]
  /\ Leaves(a)
  /\ UNCHANGED <<disk, link, poll, read, svc, mishaps>>

\* Mutant: an attempt that leaves takes the route away from the others.
ReleaseAlone(a) ==
  LET t == att[a].task
      m == [mem EXCEPT !.groups[t] = LeftGroup(mem.groups[t], a)] IN
  /\ att[a].at = "settling" /\ ~att[a].asked /\ InGroup(a)
  /\ IF mem.groups[t].releasable
     THEN Updates([disk EXCEPT !.routes[t] = Unrouted], [m EXCEPT !.routes[t] = Unrouted])
     ELSE mem' = m /\ UNCHANGED disk /\ NoFault
  /\ Leaves(a)
  /\ UNCHANGED <<link, poll, read, svc>>

\* releaseRouteAttempt: the last attempt takes the route away, if the group
\* made it, none of the group asked for the task and nothing is known of it.
Release(a) ==
  LET t == att[a].task
      g == mem.groups[t]
      m == [mem EXCEPT !.groups[t] = LeftGroup(mem.groups[t], a)] IN
  /\ att[a].at = "settling" /\ ~att[a].asked /\ InGroup(a)
  /\ IF g.attempts = {a} /\ g.releasable /\ ~g.protected /\ disk.routes[t] = "ambiguous"
     THEN \/ Updates([disk EXCEPT !.routes[t] = Unrouted], [m EXCEPT !.routes[t] = Unrouted])
          \/ UpdateThrows([disk EXCEPT !.routes[t] = Unrouted], m)
     ELSE mem' = m /\ UNCHANGED disk /\ NoFault
  /\ Leaves(a)
  /\ UNCHANGED <<link, poll, read, svc>>

\* The group was replaced since: the call ends with an error of its own.
SettleThrows(a) ==
  /\ att[a].at = "settling" /\ ~InGroup(a)
  /\ Leaves(a)
  /\ UNCHANGED <<disk, mem, link, poll, read, svc, mishaps>>

----------------------------------------------------------------------------
(* getTask and cancelTask; the task itself *)

Ask(t, cancel) ==
  /\ poll.at = "idle" /\ mem.routes[t] # Unrouted /\ Online
  /\ poll' = [at |-> "asked", task |-> t, cancel |-> cancel, seen |-> "none"]
  /\ UNCHANGED <<disk, mem, link, att, read, svc, mishaps>>

\* The peer is asked to end the task, which takes its time.
Cancelled(t) == IF svc[t] = "running" THEN [svc EXCEPT ![t] = "cancelling"] ELSE svc

PeerAnswers ==
  /\ poll.at = "asked" /\ svc[poll.task] # "none" /\ Online
  /\ svc' = IF poll.cancel THEN Cancelled(poll.task) ELSE svc
  /\ poll' = [poll EXCEPT !.at = "recording", !.seen = svc'[poll.task]]
  /\ UNCHANGED <<disk, mem, link, att, read, mishaps>>

\* The peer does not know the task, or is not reached.
AskFails ==
  /\ poll.at = "asked" /\ (svc[poll.task] = "none" \/ ~Online)
  /\ poll' = NoPoll
  /\ UNCHANGED <<disk, mem, link, att, read, svc, mishaps>>

Recorded(fails) ==
  /\ poll.at = "recording"
  /\ RecordSnapshot(poll.task, poll.seen, fails)
  /\ poll' = NoPoll
  /\ UNCHANGED <<link, att, read, svc>>

TaskCompletes(t) ==
  /\ svc[t] \in {"running", "cancelling"} /\ svc' = [svc EXCEPT ![t] = "completed"]
  /\ UNCHANGED <<disk, mem, link, att, poll, read, mishaps>>

LinkNext == Drop \/ ReconnectPeer \/ PairAgain

ReadsNext == \E r \in RouteReads : ReadStarts(r) \/ ReadAnswered(r) \/ ReadEnds(r)

TasksNext ==
  \/ PeerAnswers \/ AskFails
  \/ \E a \in RouteAttempts :
       \/ \E t \in RouteTasks : StartTask(a, t)
       \/ ReserveExisting(a) \/ ReserveNew(a) \/ ReserveRefused(a)
       \/ Dispatch(a) \/ NotAuthorized(a) \/ PeerStarts(a) \/ StartFails(a)
       \/ \E fails \in BOOLEAN : StartAnswered(a, fails)
       \/ Retain(a) \/ Release(a) \/ SettleThrows(a)
  \/ \E t \in RouteTasks : TaskCompletes(t) \/ \E c \in BOOLEAN : Ask(t, c)
  \/ \E fails \in BOOLEAN : Recorded(fails)

----------------------------------------------------------------------------
(* Properties *)

\* A task that runs on the peer, or was asked for, has a stored route: no
\* attempt that fails before it asks takes it away from one that did, and no
\* eviction, failed update or restart loses it.
RouteBeforeTask ==
  /\ \A t \in RouteTasks : svc[t] \in {"running", "cancelling"} => disk.routes[t] # Unrouted
  /\ \A a \in RouteAttempts : att[a].asked /\ svc[att[a].task] # "completed"
                                => disk.routes[att[a].task] # Unrouted

\* A target that is found, and the windows that are shown, were read on the
\* very connection that is authenticated now, however reads, reconnections and
\* new pairings overlap.
CatalogIsAuthentic == Target \/ Shown => mem.catalog.origin = Binding

\* What the broker believes of another device is grounded: every task there
\* has a route here, and every target comes from the present connection.
RoutesSound == RouteBeforeTask /\ CatalogIsAuthentic
====
