---- MODULE MCPeers ----
(***************************************************************************)
(* The way to another device: the tunnel that exposes the gateway          *)
(* (DevTunnel), the pairing over one invitation (Enrollment), the          *)
(* connection to a peer (PeerLinks) and what a peer is sent (RpcOutbox).   *)
(* They share no variable; a behavior is about one of them.                *)
(***************************************************************************)
EXTENDS DevTunnel, PeerLinks, Enrollment, RpcOutbox

VARIABLE about

OfTunnel == about = "tunnel" /\ UNCHANGED <<about, enrollVars, linkVars, boxVars>>
OfEnrollment == about = "enrollment" /\ UNCHANGED <<about, tunnelVars, linkVars, boxVars>>
OfLinks == about = "links" /\ UNCHANGED <<about, tunnelVars, enrollVars, boxVars>>
OfBox == about = "outbox" /\ UNCHANGED <<about, tunnelVars, enrollVars, linkVars>>

\* Two coordinators and one trouble, or one coordinator and two.
Init ==
  /\ about \in {"tunnel", "enrollment", "links", "outbox"}
  /\ TunnelInit /\ LinksInit /\ BoxInit
  /\ \/ EnrollInitFor(Coordinators, 1)
     \/ about = "enrollment" /\ EnrollInitFor({CHOOSE c \in Coordinators : TRUE}, 0)

Next ==
  \/ OfTunnel /\ TunnelNext
  \/ OfEnrollment /\ EnrollNext
  \/ OfLinks /\ LinksNext
  \/ OfBox /\ BoxNext

vars == <<about, tunnelVars, enrollVars, linkVars, boxVars>>

Spec == Init /\ [][Next]_vars
====
