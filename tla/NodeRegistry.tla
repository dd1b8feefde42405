---- MODULE NodeRegistry ----
(***************************************************************************)
(* src/src/broker/NodeRegistry.ts: the directory of Window Nodes, their    *)
(* workspace claims, the persisted workspace catalog and the task routes   *)
(* with their leases (src/src/tasks/WorkspaceLeaseManager.ts).             *)
(*                                                                         *)
(* A session and its instance are one: an entry is online or a tombstone.  *)
(* Clock time is left out: a sweep finds any set of nodes expired and any  *)
(* set of tombstones old enough.  Operations under runExclusive that wait  *)
(* for the catalog write are split at the wait (op); the others run whole. *)
(***************************************************************************)
EXTENDS Naturals, FiniteSets

CONSTANTS Windows, Instances, WindowOf, Workspaces, Tasks,
          NoInstance, NoRoute, NoTask, NoOp,
          MaxNodes     \* PROTOCOL_LIMITS.nodeListCount

Routes == [inst : Instances, ws : Workspaces]

\* Operations that wait for their catalog write inside runExclusive. route
\* tells whether a claim still holds the directory's entry object.
PendingOps ==
  [kind : {"claim"}, inst : Instances, ws : Workspaces, route : BOOLEAN]
    \cup [kind : {"enable", "disable"}, ws : Workspaces]

ASSUME WindowsAssumption == IsFiniteSet(Windows)
ASSUME WindowOfAssumption == WindowOf \in [Instances -> Windows]
ASSUME SentinelAssumption == /\ NoInstance \notin Instances
                             /\ NoRoute \notin Routes
                             /\ NoTask \notin Tasks
                             /\ NoOp \notin PendingOps
ASSUME MaxNodesAssumption == MaxNodes \in Nat \ {0}

VARIABLES nodes,     \* the entry of each window: the instance it names
          online,    \* instances whose entry has an open session
          observed,  \* workspaces map of each entry: status, or "none"
          claims,    \* ActiveWorkspaceClaim: workspace -> instance
          catalog,   \* the catalog in memory: "absent", "enabled", "disabled"
          stored,    \* the catalog as persisted
          op,        \* the runExclusive operation waiting for its write
          binding,   \* taskBindings
          leases     \* WorkspaceLeaseManager

vars == <<nodes, online, observed, claims, catalog, stored, op, binding, leases>>
directoryVars == <<nodes, online, observed, claims>>
catalogVars == <<catalog, stored, op>>
leaseVars == <<binding, leases>>

Entries == {i \in Instances : nodes[WindowOf[i]] = i}
Tombstones == Entries \ online
Claimant(i, w) == claims[w] = i
BoundTo(S) == {t \in Tasks : binding[t] # NoRoute /\ binding[t].inst \in S}
Listed == {n \in Windows : nodes[n] # NoInstance}
EntryCount == Cardinality(Listed)

\* requireLiveNode
Live(i) == i \in Entries /\ i \in online

TypeOK ==
  /\ nodes \in [Windows -> Instances \cup {NoInstance}]
  /\ online \subseteq Instances
  /\ observed \in [Instances -> [Workspaces ->
                     {"none", "claimed", "conflict", "readOnly"}]]
  /\ claims \in [Workspaces -> Instances \cup {NoInstance}]
  /\ catalog \in [Workspaces -> {"absent", "enabled", "disabled"}]
  /\ stored \in [Workspaces -> {"absent", "enabled", "disabled"}]
  /\ op \in PendingOps \cup {NoOp}
  /\ binding \in [Tasks -> Routes \cup {NoRoute}]
  /\ leases \in [Workspaces -> Tasks \cup {NoTask}]

Nowhere == [i \in Instances |-> [w \in Workspaces |-> "none"]]
Unclaimed == [w \in Workspaces |-> NoInstance]
Unbound == [t \in Tasks |-> NoRoute]
Unleased == [w \in Workspaces |-> NoTask]
NoEntries == [n \in Windows |-> NoInstance]

Init ==
  /\ nodes = NoEntries /\ online = {} /\ observed = Nowhere /\ claims = Unclaimed
  /\ op = NoOp /\ binding = Unbound /\ leases = Unleased
  /\ catalog = [w \in Workspaces |-> "absent"]
  /\ stored = catalog

----------------------------------------------------------------------------
(* Losing and forgetting nodes *)

\* Mutant: the claims of a lost node are kept.
ClaimsAfterLossKept(S) == claims

\* loseNode for every instance of S: only the claims the entry observes are
\* dropped, and only if they are still its own.
ClaimsAfterLoss(S) ==
  [w \in Workspaces |->
     IF claims[w] \in S /\ observed[claims[w]][w] # "none"
     THEN NoInstance ELSE claims[w]]

ObservedAfterLoss(S) ==
  [i \in Instances |-> IF i \in S THEN [w \in Workspaces |-> "none"] ELSE observed[i]]

LoseNodes(S) ==
  /\ online' = online \ S
  /\ claims' = ClaimsAfterLoss(S)
  /\ observed' = ObservedAfterLoss(S)

\* Tombstones that hold no cleanup fence.
Removable == {i \in Tombstones : BoundTo({i}) = {}}

NodesWithout(S) ==
  [n \in Windows |-> IF nodes[n] \in S THEN NoInstance ELSE nodes[n]]

\* A claim that waits for its write holds on to its entry object: a removed
\* entry is another object when the instance registers again.
OpWithout(S) ==
  IF op # NoOp /\ op.kind = "claim" /\ op.inst \in S
  THEN [op EXCEPT !.route = FALSE] ELSE op

Remove(S) ==
  /\ nodes' = NodesWithout(S)
  /\ op' = OpWithout(S)

----------------------------------------------------------------------------
(* Directory *)

\* register: the same instance again, after its session was lost.
Reconnect(i) ==
  /\ i \in Tombstones
  /\ online' = online \cup {i}
  /\ UNCHANGED <<nodes, observed, claims, catalogVars, leaseVars>>

\* Mutant: a new life of a window takes over from one with bound tasks.
ReplaceUnfenced(i) ==
  LET old == nodes[WindowOf[i]] IN
  /\ old \notin {NoInstance, i}
  /\ nodes' = [nodes EXCEPT ![WindowOf[i]] = i]
  /\ online' = (online \ {old}) \cup {i}
  /\ claims' = ClaimsAfterLoss({old})
  /\ observed' = ObservedAfterLoss({old})
  /\ op' = OpWithout({old})
  /\ UNCHANGED <<catalog, stored, leaseVars>>

\* register: a new life of a window that has an entry. The old life is lost
\* first, even when the new one is then turned away because tasks are still
\* bound to the old one.
Replace(i) ==
  LET old == nodes[WindowOf[i]] IN
  /\ old \notin {NoInstance, i}
  /\ BoundTo({old}) = {}
  /\ nodes' = [nodes EXCEPT ![WindowOf[i]] = i]
  /\ online' = (online \ {old}) \cup {i}
  /\ claims' = ClaimsAfterLoss({old})
  /\ observed' = ObservedAfterLoss({old})
  /\ op' = OpWithout({old})
  /\ UNCHANGED <<catalog, stored, leaseVars>>

RefuseReplace(i) ==
  LET old == nodes[WindowOf[i]] IN
  /\ old \notin {NoInstance, i}
  /\ BoundTo({old}) # {}
  /\ LoseNodes({old})
  /\ UNCHANGED <<nodes, catalogVars, leaseVars>>

\* register: a window without an entry. A full directory gives up a removable
\* tombstone, or turns the window away.
Enter(i) ==
  /\ nodes[WindowOf[i]] = NoInstance
  /\ Cardinality(online) < MaxNodes
  /\ \E gone \in IF EntryCount < MaxNodes THEN {{}} ELSE {{old} : old \in Removable} :
       /\ nodes' = [NodesWithout(gone) EXCEPT ![WindowOf[i]] = i]
       /\ op' = OpWithout(gone)
  /\ online' = online \cup {i}
  /\ UNCHANGED <<observed, claims, catalog, stored, leaseVars>>

\* unregister, and the close listener of the node's session.
Unregister(i) ==
  /\ Live(i)
  /\ LoseNodes({i})
  /\ UNCHANGED <<nodes, catalogVars, leaseVars>>

\* sweepExpired: lost nodes keep their entry for another heartbeat TTL.
SweepExpired ==
  \E expired \in SUBSET online, gone \in SUBSET Removable :
    /\ expired \cup gone # {}
    /\ LoseNodes(expired)
    /\ Remove(gone)
    /\ UNCHANGED <<catalog, stored, leaseVars>>

----------------------------------------------------------------------------
(* Workspace claims and the catalog *)

\* claimWorkspace up to the wait for the catalog write.
BeginClaim(i, w) ==
  /\ op = NoOp
  /\ Live(i)
  /\ op' = [kind |-> "claim", inst |-> i, ws |-> w, route |-> TRUE]
  /\ UNCHANGED <<directoryVars, catalog, stored, leaseVars>>

\* upsertCatalogEntry: a workspace seen for the first time is enabled.
Upserted(w) ==
  [catalog EXCEPT ![w] = IF @ = "absent" THEN "enabled" ELSE @]

\* An entry whose name and tags are unchanged is not written again.
Upsert(w) ==
  /\ catalog' = Upserted(w)
  /\ stored' \in IF catalog[w] = "absent" THEN {catalog'} ELSE {stored, catalog'}

ClaimStatus(i, w) ==
  CASE catalog[w] = "disabled"           -> "readOnly"
    [] claims[w] \notin {NoInstance, i}  -> "conflict"
    [] OTHER                             -> "claimed"

\* claimWorkspace after the write, when the entry is still the live one.
FinishClaim(i, w) ==
  /\ op = [kind |-> "claim", inst |-> i, ws |-> w, route |-> TRUE]
  /\ Live(i)
  /\ Upsert(w)
  /\ observed' = [observed EXCEPT ![i][w] = ClaimStatus(i, w)]
  /\ claims' = IF ClaimStatus(i, w) = "claimed" THEN [claims EXCEPT ![w] = i] ELSE claims
  /\ op' = NoOp
  /\ UNCHANGED <<nodes, online, leaseVars>>

\* claimWorkspace after the write, when the node was lost or replaced while
\* it waited: the catalog keeps the workspace, the claim is refused.
AbandonClaim ==
  /\ op # NoOp
  /\ op.kind = "claim"
  /\ ~(op.route /\ Live(op.inst))
  /\ Upsert(op.ws)
  /\ op' = NoOp
  /\ UNCHANGED <<directoryVars, leaseVars>>

\* releaseWorkspace
ReleaseWorkspace(i, w) ==
  /\ Live(i)
  /\ observed[i][w] # "none"
  /\ claims' = IF Claimant(i, w) THEN [claims EXCEPT ![w] = NoInstance] ELSE claims
  /\ observed' = [observed EXCEPT ![i][w] = "none"]
  /\ UNCHANGED <<nodes, online, catalogVars, leaseVars>>

\* setWorkspaceEnabled up to the wait for the catalog write.
BeginSetEnabled(w, kind) ==
  /\ op = NoOp
  /\ catalog[w] # "absent"
  /\ kind = "disable" => leases[w] = NoTask
  /\ op' = [kind |-> kind, ws |-> w]
  /\ UNCHANGED <<directoryVars, catalog, stored, leaseVars>>

\* setWorkspaceEnabled after the write.
FinishEnable(w) ==
  /\ op = [kind |-> "enable", ws |-> w]
  /\ catalog' = [catalog EXCEPT ![w] = "enabled"]
  /\ stored' = catalog'
  /\ op' = NoOp
  /\ UNCHANGED <<directoryVars, leaseVars>>

FinishDisable(w) ==
  /\ op = [kind |-> "disable", ws |-> w]
  /\ catalog' = [catalog EXCEPT ![w] = "disabled"]
  /\ stored' = catalog'
  /\ claims' = [claims EXCEPT ![w] = NoInstance]
  /\ observed' = [i \in Instances |->
       IF observed[i][w] = "none" THEN observed[i]
       ELSE [observed[i] EXCEPT ![w] = "readOnly"]]
  /\ op' = NoOp
  /\ UNCHANGED <<nodes, online, leaseVars>>

\* What the waiting operation would write.
WrittenCatalog ==
  CASE op.kind = "claim"   -> Upserted(op.ws)
    [] op.kind = "enable"  -> [catalog EXCEPT ![op.ws] = "enabled"]
    [] op.kind = "disable" -> [catalog EXCEPT ![op.ws] = "disabled"]

\* writeCatalog throws: memory keeps the old catalog, the file may not.
WriteCatalogFails ==
  /\ op # NoOp
  /\ stored' \in {stored, WrittenCatalog}
  /\ op' = NoOp
  /\ UNCHANGED <<directoryVars, catalog, leaseVars>>

----------------------------------------------------------------------------
(* Task routes *)

\* requireAvailableTaskRoute
RouteAvailable(t, i, w) ==
  /\ Live(i)
  /\ Claimant(i, w)
  /\ catalog[w] = "enabled"
  /\ binding[t] \in {NoRoute, [inst |-> i, ws |-> w]}
  /\ leases[w] \in {NoTask, t}

\* acquireTaskRoute waits for its turn in runExclusive, never inside it.
AcquireTaskRoute(t, i, w) ==
  /\ op = NoOp
  /\ RouteAvailable(t, i, w)
  /\ leases' = [leases EXCEPT ![w] = t]
  /\ binding' = [binding EXCEPT ![t] = [inst |-> i, ws |-> w]]
  /\ UNCHANGED <<directoryVars, catalogVars>>

\* Mutant: the binding goes, the lease stays.
ReleaseTaskRouteOnly(t) ==
  /\ binding[t] # NoRoute
  /\ binding' = [binding EXCEPT ![t] = NoRoute]
  /\ UNCHANGED <<directoryVars, catalogVars, leases>>

\* releaseTaskRoute; tombstones this was the last fence of may go.
ReleaseTaskRoute(t) ==
  /\ binding[t] # NoRoute
  /\ leases' = [leases EXCEPT ![binding[t].ws] = IF @ = t THEN NoTask ELSE @]
  /\ binding' = [binding EXCEPT ![t] = NoRoute]
  /\ \E gone \in SUBSET {i \in Tombstones : BoundTo({i}) \subseteq {t}} : Remove(gone)
  /\ UNCHANGED <<online, observed, claims, catalog, stored>>

----------------------------------------------------------------------------

\* The broker process ends and another one reads the persisted catalog.
Restart ==
  /\ nodes' = NoEntries /\ online' = {} /\ observed' = Nowhere /\ claims' = Unclaimed
  /\ op' = NoOp /\ binding' = Unbound /\ leases' = Unleased
  /\ catalog' = stored
  /\ UNCHANGED stored

Next ==
  \/ \E i \in Instances : Reconnect(i) \/ Replace(i) \/ RefuseReplace(i)
                            \/ Enter(i) \/ Unregister(i)
  \/ SweepExpired
  \/ \E i \in Instances, w \in Workspaces :
       BeginClaim(i, w) \/ FinishClaim(i, w) \/ ReleaseWorkspace(i, w)
  \/ AbandonClaim
  \/ \E w \in Workspaces :
       \/ \E kind \in {"enable", "disable"} : BeginSetEnabled(w, kind)
       \/ FinishEnable(w)
       \/ FinishDisable(w)
  \/ WriteCatalogFails
  \/ \E t \in Tasks, i \in Instances, w \in Workspaces : AcquireTaskRoute(t, i, w)
  \/ \E t \in Tasks : ReleaseTaskRoute(t)
  \/ Restart

Spec == Init /\ [][Next]_vars

----------------------------------------------------------------------------
(* Safety *)

\* The lease of a workspace and the route of its task come and go together
\* (acquireTaskRoute, releaseTaskRoute): a leaked lease would leave the
\* workspace busy for ever, a lost one would admit a second task.
LeaseMatchesBinding ==
  \A w \in Workspaces, t \in Tasks :
    leases[w] = t <=> binding[t] # NoRoute /\ binding[t].ws = w

\* A claim is held by a node with an open session, and the window shown as
\* claiming is the claimant (claimWorkspace, loseNode, setWorkspaceEnabled).
ClaimsMatchView ==
  \A i \in Instances, w \in Workspaces :
    (claims[w] = i <=> observed[i][w] = "claimed")
      /\ (observed[i][w] # "none" => Live(i))

\* A bound node keeps its directory entry, so that no other life of the
\* window registers before the task is cleaned up (hasTaskBindings).
BoundNodeRetained ==
  \A t \in Tasks : binding[t] # NoRoute => binding[t].inst \in Entries

\* A workspace is never disabled under a running task, nor claimed while it
\* is disabled: the lease is checked before the write is awaited and nothing
\* may be leased in between (setWorkspaceEnabled, runExclusive).
DisabledIsIdle ==
  \A w \in Workspaces : catalog[w] = "disabled" =>
    leases[w] = NoTask /\ claims[w] = NoInstance

\* The directory stays within its limit: an online node is never dropped to
\* make room, and room is only made out of unbound tombstones.
DirectoryBounded == EntryCount <= MaxNodes /\ online \subseteq Entries

\* A live claimant never loses its workspace to another window's claim.
NoClaimSteal ==
  [][\A w \in Workspaces :
       claims[w] # NoInstance /\ claims'[w] # claims[w] => claims'[w] = NoInstance]_vars

\* A pending disable fences the workspace: no task route appears until done.
PendingDisableFences ==
  op # NoOp /\ op.kind = "disable" => leases[op.ws] = NoTask

Routes_ == INSTANCE TaskRoutes WITH live <- online

\* The registry keeps what TaskRoutes promises to the task service.
ImplementsTaskRoutes == Routes_!Spec
====
