------------------------------- MODULE MCMesh -------------------------------
(***************************************************************************)
(* The mesh between two machines for TLC: the relay connection of a        *)
(* process (RelayLink), the bridge a leader keeps up over it (MeshBridge), *)
(* the messages that cross it (MeshDelivery) and the rosters exchanged     *)
(* over it (RemoteRoster).  The modules have no variable in common; a      *)
(* behaviour takes the steps of one, chosen at the start.                  *)
(***************************************************************************)
EXTENDS RelayLink, MeshBridge, MeshDelivery, RemoteRoster

CONSTANTS a1, a2, b1, site1, site2

ThreeAgents == {a1, a2, b1}
TwoLeads == {a1, b1}
TwoMachines == [a \in ThreeAgents |-> IF a = b1 THEN site2 ELSE site1]
TwoSites == {site1, site2}

VARIABLE part

MeshInit ==
    /\ part \in {"link", "bridge", "delivery", "roster"}
    /\ LinkInit /\ BridgeInit /\ DeliveryInit /\ RosterInit
    /\ part # "link" => known = {} /\ session
    /\ part # "bridge" => mode = "host" /\ meshRole = "leader"
    /\ part # "delivery" => linked = Agents /\ federation
    /\ part # "roster" => \A p, q \in Sites : alias[p][q] = NoSibling

MeshNext ==
    \/ /\ part = "link" /\ LinkNext
       /\ UNCHANGED <<bridgeVars, deliveryVars, rosterVars, part>>
    \/ /\ part = "bridge" /\ BridgeNext
       /\ UNCHANGED <<linkVars, deliveryVars, rosterVars, part>>
    \/ /\ part = "delivery" /\ DeliveryNext
       /\ UNCHANGED <<linkVars, bridgeVars, rosterVars, part>>
    \/ /\ part = "roster" /\ RosterNext
       /\ UNCHANGED <<linkVars, bridgeVars, deliveryVars, part>>

MeshSpec ==
    /\ MeshInit
    /\ [][MeshNext]_<<linkVars, bridgeVars, deliveryVars, rosterVars, part>>
=============================================================================
