------------------------------ MODULE MCViews ------------------------------
(***************************************************************************)
(* What peers and clients of a session get to see of it, for TLC: the      *)
(* roster of the local broker (BrokerRoster), the dialogs (UiDialogs), the *)
(* live events of a durable conversation (DurableView), the transcript     *)
(* (TranscriptWalk), the panels (PanelBridge), the session it has launched *)
(* (RemoteLaunch), the prompts it sends (AppPrompts) and the key it is     *)
(* known by (MachineIdentity).  The modules have no variable in common; a  *)
(* behaviour takes the steps of one, chosen at the start.                  *)
(***************************************************************************)
EXTENDS MCBrokerRoster, UiDialogs, DurableView, TranscriptWalk, PanelBridge,
        RemoteLaunch, AppPrompts, MachineIdentity

CONSTANT phone

OneDevice == [q \in Asks |-> phone]

VARIABLE part

ViewsInit ==
    /\ part \in {"roster", "dialogs", "live", "history", "panels", "launch", "prompts",
                "identity"}
    /\ Init /\ UiInit /\ ViewInit /\ WalkInit /\ PanelInit /\ LaunchInit
    /\ PromptsInit /\ IdentityInit
    /\ part # "dialogs" => sharedUi
    /\ part # "launch" => allowed = {}
    /\ part # "identity" => oldRing = NoKey /\ ~ locked

ViewsNext ==
    /\ UNCHANGED part
    /\ \/ /\ part = "roster" /\ Next
          /\ UNCHANGED <<uiVars, viewVars, walkVars, panelVars,
                         launchVars, promptVars, identityVars>>
       \/ /\ part = "dialogs" /\ UiNext
          /\ UNCHANGED <<vars, viewVars, walkVars, panelVars,
                         launchVars, promptVars, identityVars>>
       \/ /\ part = "live" /\ ViewNext
          /\ UNCHANGED <<vars, uiVars, walkVars, panelVars,
                         launchVars, promptVars, identityVars>>
       \/ /\ part = "history" /\ WalkNext
          /\ UNCHANGED <<vars, uiVars, viewVars, panelVars,
                         launchVars, promptVars, identityVars>>
       \/ /\ part = "panels" /\ PanelNext
          /\ UNCHANGED <<vars, uiVars, viewVars, walkVars,
                         launchVars, promptVars, identityVars>>
       \/ /\ part = "launch" /\ LaunchNext
          /\ UNCHANGED <<vars, uiVars, viewVars, walkVars,
                         panelVars, promptVars, identityVars>>
       \/ /\ part = "prompts" /\ PromptsNext
          /\ UNCHANGED <<vars, uiVars, viewVars, walkVars,
                         panelVars, launchVars, identityVars>>
       \/ /\ part = "identity" /\ IdentityNext
          /\ UNCHANGED <<vars, uiVars, viewVars, walkVars,
                         panelVars, launchVars, promptVars>>

ViewsSpec ==
    /\ ViewsInit
    /\ [][ViewsNext]_<<vars, uiVars, viewVars, walkVars, panelVars, launchVars,
                       promptVars, identityVars, part>>
=============================================================================
