------------------------------- MODULE MCHost -------------------------------
(***************************************************************************)
(* What one machine's extension processes keep, for TLC: the mail of its   *)
(* agents (AgentExchange), the Owners it trusts (OwnerTrust), the rooms of  *)
(* its subagents (SubagentRooms), the lock of its folder (CwdLock) and the *)
(* relay connection of its durable host (DurableBridge).  The modules have *)
(* no variable in common; a behaviour takes the steps of one, chosen at    *)
(* the start.                                                              *)
(***************************************************************************)
EXTENDS AgentExchange, OwnerTrust, SubagentRooms, CwdLock, DurableBridge

CONSTANTS p1, p2, p3

ThreeProcs == {p1, p2, p3}

VARIABLE part

HostInit ==
    /\ part \in {"mail", "trust", "rooms", "lock", "durable"}
    /\ ExchangeInit /\ TrustInit /\ RoomsInit /\ Init
    /\ DurableInit
    /\ part # "trust" => records = {}
    /\ part # "rooms" => marks /\ rootUp
    /\ part # "lock" => path = NoFile
    /\ part # "durable" => trusted = {}

HostNext ==
    /\ UNCHANGED part
    /\ \/ /\ part = "mail" /\ ExchangeNext
          /\ UNCHANGED <<trustVars, roomsVars, vars, durableVars>>
       \/ /\ part = "trust" /\ TrustNext
          /\ UNCHANGED <<exchangeVars, roomsVars, vars, durableVars>>
       \/ /\ part = "rooms" /\ RoomsNext
          /\ UNCHANGED <<exchangeVars, trustVars, vars, durableVars>>
       \/ /\ part = "lock" /\ Next
          /\ UNCHANGED <<exchangeVars, trustVars, roomsVars, durableVars>>
       \/ /\ part = "durable" /\ DurableNext
          /\ UNCHANGED <<exchangeVars, trustVars, roomsVars, vars>>

HostSpec ==
    /\ HostInit
    /\ [][HostNext]_<<exchangeVars, trustVars, roomsVars, vars, durableVars, part>>
    /\ Fairness
=============================================================================
