----------------------------- MODULE PanelBridge -----------------------------
(***************************************************************************)
(* The plan and agents panels (extension/src/panel_bridge.ts): plan        *)
(* sources and subagents publish on pi's bus, the bridge accumulates and   *)
(* sends whole panels to the attached client (unbien-cli/src/panels.ts),   *)
(* which asks for the current ones with session_sync whenever it attaches  *)
(* (routing.ts).  The plan's frame is coalesced behind a timer, the        *)
(* agents' is sent at once.                                                *)
(*                                                                         *)
(* The sources are external: one numbers its changes and publishes each at *)
(* once, but a snapshot may be taken now and published later.  An agent's  *)
(* lifecycle events may come late or twice.  An item is its id: Nodes are  *)
(* rows of the plan, a member of Agents is a row of the agents panel, put  *)
(* there by a source (kind "agent"), by lifecycle events or by both.       *)
(***************************************************************************)
EXTENDS Naturals, FiniteSets, Sequences

CONSTANTS
    Sources,       \* namespaces of plan sources
    Nodes,         \* plan items
    Agents,        \* subagents
    MaxEvents,     \* changes of the sources and lifecycle events
    MaxLate,       \* snapshots of a source published late
    MaxLosses      \* link drops and session replacements

ASSUME PanelAssumption ==
    /\ IsFiniteSet(Sources) /\ IsFiniteSet(Nodes \cup Agents) /\ Nodes \cap Agents = {}
    /\ MaxEvents \in Nat /\ MaxLate \in Nat /\ MaxLosses \in Nat

VARIABLES
    truth,        \* source -> its items
    number,       \* source -> number of its last change
    held,         \* source -> snapshots taken, and how many of them are published
    planByNs,     \* source -> items the bridge holds
    planLastSeq,  \* source -> 1 + number last accepted, 0 for none
    based,        \* history: sources of which the bridge got a current snapshot
    timer,        \* the plan's broadcast is scheduled
    fleet,        \* agent -> status, "unknown" for none
    finished,     \* agents of which the bridge heard an end
    viewer,       \* the client is "away", "joining" (sync asked for) or "synced"
    panelWire,    \* panel frames on their way to the client
    panels,       \* the client's PanelStore
    busEvents, losses

sourceVars == <<truth, number, held>>
bridgeVars == <<planByNs, planLastSeq, based, timer, fleet, finished>>
viewerVars == <<viewer, panelWire, panels>>
panelVars == <<sourceVars, bridgeVars, viewerVars, busEvents, losses>>

\* "started" stands for steered and compacted too.
IN_PROGRESS == {"started"}
LIFECYCLE == IN_PROGRESS \cup {"created", "completed", "failed"}
Rows == Nodes \cup Agents

PanelTypeOK ==
    /\ truth \in [Sources -> SUBSET Rows] /\ number \in [Sources -> 0 .. MaxEvents]
    /\ planByNs \in [Sources -> SUBSET Rows] /\ planLastSeq \in [Sources -> 0 .. MaxEvents + 1]
    /\ based \subseteq Sources /\ timer \in BOOLEAN
    /\ fleet \in [Agents -> LIFECYCLE \cup {"unknown"}] /\ finished \subseteq Agents
    /\ viewer \in {"away", "joining", "synced"}

NoAgents == [a \in {} |-> "planned"]

PanelInit ==
    /\ truth = [s \in Sources |-> {}] /\ number = [s \in Sources |-> 0]
    /\ held = [s \in Sources |-> [taken |-> <<>>, out |-> 0]]
    /\ planByNs = [s \in Sources |-> {}] /\ planLastSeq = [s \in Sources |-> 0]
    /\ based = {} /\ timer = FALSE
    /\ fleet = [a \in Agents |-> "unknown"] /\ finished = {}
    /\ viewer = "away" /\ panelWire = <<>>
    /\ panels = [plan |-> {}, subagents |-> NoAgents]
    /\ busEvents = 0 /\ losses = 0

-----------------------------------------------------------------------------
(* Panels *)

displayStatus(status) ==
    CASE status = "completed" -> "done"
      [] status = "failed" -> "failed"
      [] status \in IN_PROGRESS -> "in_progress"
      [] OTHER -> "pending"

allPlanItems(byNs) == UNION {byNs[s] : s \in Sources}
planPanelItems(byNs) == allPlanItems(byNs) \cap Nodes

(* Agents of the plan and of the fleet by id; the fleet's status wins. *)
agentItems(byNs, fl) ==
    [a \in {b \in Agents : b \in allPlanItems(byNs) \/ fl[b] # "unknown"} |->
        IF fl[a] # "unknown" THEN displayStatus(fl[a]) ELSE "planned"]

PlanFrame(byNs) == [key |-> "plan", items |-> planPanelItems(byNs)]
AgentsFrame(byNs, fl) == [key |-> "subagents", items |-> agentItems(byNs, fl)]

(* _broadcastEnvelope: to the client while it is attached. *)
Broadcast(fs) == panelWire' = IF viewer = "away" THEN panelWire ELSE panelWire \o fs

(* The agents' panel follows a plan event, unless it would be empty. *)
broadcastNow(byNs, fl) ==
    Broadcast(IF DOMAIN agentItems(byNs, fl) = {} THEN <<>> ELSE <<AgentsFrame(byNs, fl)>>)

-----------------------------------------------------------------------------
(* The bridge's handlers *)

(* Mutated form of Stale: every event is taken. *)
AlwaysFresh(s, n) == FALSE

Stale(s, n) == n + 1 < planLastSeq[s]

Accept(s, n, items) ==
    /\ planLastSeq' = [planLastSeq EXCEPT ![s] = n + 1]
    /\ planByNs' = [planByNs EXCEPT ![s] = items]
    /\ timer' = TRUE
    /\ broadcastNow(planByNs', fleet)

onSnapshot(s, n, items) ==
    IF Stale(s, n) THEN UNCHANGED <<planByNs, planLastSeq, based, timer, panelWire>>
    ELSE /\ Accept(s, n, items)
         /\ based' = IF n = number'[s] THEN based \cup {s} ELSE based

(* An update that changes nothing still moves the sequence number. *)
onUpdate(s, n, upsert, remove) ==
    /\ UNCHANGED based
    /\ \/ Stale(s, n) /\ UNCHANGED <<planByNs, planLastSeq, timer, panelWire>>
       \/ /\ ~ Stale(s, n) /\ upsert = {} /\ remove \cap planByNs[s] = {}
          /\ planLastSeq' = [planLastSeq EXCEPT ![s] = n + 1]
          /\ UNCHANGED <<planByNs, timer, panelWire>>
       \/ /\ ~ Stale(s, n) /\ (upsert # {} \/ remove \cap planByNs[s] # {})
          /\ Accept(s, n, (planByNs[s] \cup upsert) \ remove)

(* The source changes one of its items, and says so. *)
Change(s, row) ==
    /\ busEvents < MaxEvents /\ busEvents' = busEvents + 1
    /\ number' = [number EXCEPT ![s] = @ + 1]
    /\ truth' = [truth EXCEPT ![s] = IF row \in @ THEN @ \ {row} ELSE @ \cup {row}]
    /\ \/ onUpdate(s, number[s] + 1, {row} \cap truth'[s], {row} \ truth'[s])
       \/ onSnapshot(s, number[s] + 1, truth'[s])
    /\ UNCHANGED <<held, fleet, finished, viewer, panels, losses>>

TakeSnapshot(s) ==
    /\ Len(held[s].taken) < MaxLate
    /\ held' = [held EXCEPT ![s].taken = Append(@, <<number[s], truth[s]>>)]
    /\ UNCHANGED <<truth, number, bridgeVars, viewerVars, busEvents, losses>>

PublishHeld(s) ==
    /\ held[s].out < Len(held[s].taken)
    /\ held' = [held EXCEPT ![s].out = @ + 1]
    /\ UNCHANGED number
    /\ LET h == held[s].taken[held[s].out + 1]
       IN  onSnapshot(s, h[1], h[2])
    /\ UNCHANGED <<truth, fleet, finished, viewer, panels, busEvents, losses>>

(* The coalescing timer: the panel is built when it fires. *)
TimerFires ==
    /\ timer /\ timer' = FALSE
    /\ Broadcast(<<PlanFrame(planByNs)>>)
    /\ UNCHANGED <<sourceVars, planByNs, planLastSeq, based, fleet, finished, viewer, panels,
                   busEvents, losses>>

statusRank(status) ==
    CASE status \in {"completed", "failed"} -> 2 [] status \in IN_PROGRESS -> 1 [] OTHER -> 0

(* Never downgraded, and a generic failure does not replace an end. *)
mergeAgentState(prev, status) ==
    IF prev # "unknown" /\ (\/ statusRank(prev) > statusRank(status)
                            \/ statusRank(prev) = 2 /\ status = "failed")
    THEN prev ELSE status

recordAgent(a, status) ==
    /\ busEvents < MaxEvents /\ busEvents' = busEvents + 1
    /\ fleet' = [fleet EXCEPT ![a] = mergeAgentState(@, status)]
    /\ finished' = IF statusRank(status) = 2 THEN finished \cup {a} ELSE finished
    /\ Broadcast(<<AgentsFrame(planByNs, fleet')>>)
    /\ UNCHANGED <<sourceVars, planByNs, planLastSeq, based, timer, viewer, panels, losses>>

(* session_shutdown and the next session_start: a new bridge; the relay     *)
(* goes idle between the two.                                               *)
Replace ==
    /\ losses < MaxLosses /\ losses' = losses + 1
    /\ planByNs' = [s \in Sources |-> {}] /\ planLastSeq' = [s \in Sources |-> 0]
    /\ based' = {} /\ timer' = FALSE
    /\ fleet' = [a \in Agents |-> "unknown"] /\ finished' = {}
    /\ viewer' = "away" /\ panelWire' = <<>>
    /\ UNCHANGED <<sourceVars, panels, busEvents>>

-----------------------------------------------------------------------------
(* The client *)

Arrive ==
    /\ viewer = "away" /\ viewer' = "joining"
    /\ UNCHANGED <<sourceVars, bridgeVars, panelWire, panels, busEvents, losses>>

Leave ==
    /\ viewer # "away" /\ viewer' = "away"
    /\ losses < MaxLosses /\ losses' = losses + 1
    /\ panelWire' = <<>>
    /\ UNCHANGED <<sourceVars, bridgeVars, panels, busEvents>>

(* pendingPanels: the panels that are not empty. *)
pendingPanels ==
    (IF planPanelItems(planByNs) # {} THEN <<PlanFrame(planByNs)>> ELSE <<>>) \o
    (IF DOMAIN agentItems(planByNs, fleet) # {} THEN <<AgentsFrame(planByNs, fleet)>> ELSE <<>>)

(* session_sync reaches the host. *)
SessionSync ==
    /\ viewer = "joining" /\ viewer' = "synced"
    /\ panelWire' = panelWire \o pendingPanels
    /\ UNCHANGED <<sourceVars, bridgeVars, panels, busEvents, losses>>

(* PanelStore.apply: the panel of that key is replaced. *)
apply ==
    /\ panelWire # <<>> /\ panelWire' = Tail(panelWire)
    /\ LET f == Head(panelWire)
       IN  panels' = [panels EXCEPT ![f.key] = f.items]
    /\ UNCHANGED <<sourceVars, bridgeVars, viewer, busEvents, losses>>

PanelNext ==
    \/ \E s \in Sources : TakeSnapshot(s) \/ PublishHeld(s)
    \/ \E s \in Sources, row \in Rows : Change(s, row)
    \/ TimerFires
    \/ \E a \in Agents, status \in LIFECYCLE : recordAgent(a, status)
    \/ Replace \/ Arrive \/ Leave \/ SessionSync \/ apply

PanelSpec == PanelInit /\ [][PanelNext]_panelVars

-----------------------------------------------------------------------------
(* Properties *)

Quiet == viewer = "synced" /\ panelWire = <<>> /\ ~ timer

(***************************************************************************)
(* Whatever is coalesced, published late or missed while away, a client    *)
(* that has synced shows, once nothing is on its way, the rows its sources *)
(* have (of every source the bridge had a current snapshot of), and every  *)
(* agent as the bridge has it: an agent that ended is never shown as       *)
(* pending or running again.  An empty panel is neither refreshed for the  *)
(* agents nor replayed, so a row that went while the client was away, and  *)
(* the last agent of a plan, may stay on the screen.                       *)
(***************************************************************************)
PanelsRight ==
    PanelTypeOK /\
    (Quiet =>
        /\ planPanelItems(planByNs) # {} \/ losses = 0 => panels.plan = planPanelItems(planByNs)
        /\ \A s \in based : planByNs[s] = truth[s]
        /\ DOMAIN agentItems(planByNs, fleet) # {} => panels.subagents = agentItems(planByNs, fleet)
        /\ \A a \in finished :
              a \in DOMAIN panels.subagents /\ panels.subagents[a] \in {"done", "failed"})
==============================================================================
