----------------------------- MODULE MCMachine ------------------------------
(***************************************************************************)
(* The processes of one machine for TLC: two that elect a leader           *)
(* (LeaderElection) and the launcher that starts sessions for a device     *)
(* (RemoteLaunch).  The modules have no variable in common; a behaviour    *)
(* takes the steps of one, chosen at the start.                            *)
(***************************************************************************)
EXTENDS MCLeaderElection, RemoteLaunch

CONSTANT phone

OneDevice == [q \in Asks |-> phone]

VARIABLE part

MachineInit ==
    /\ part \in {"election", "launch"}
    /\ Init /\ LaunchInit
    /\ part # "election" => path = 0
    /\ part # "launch" => allowed = {}

MachineNext ==
    \/ part = "election" /\ Next /\ UNCHANGED <<launchVars, part>>
    \/ part = "launch" /\ LaunchNext /\ UNCHANGED <<vars, part>>

MachineSpec == MachineInit /\ [][MachineNext]_<<vars, launchVars, part>>
=============================================================================
