----------------------------- MODULE ViewProofs -----------------------------
(***************************************************************************)
(* Proofs about what the users of a session get to see and do: the prompts *)
(* the app sends (AppPrompts), the panels it shows (PanelBridge), the      *)
(* sessions it has launched (RemoteLaunch) and the dialogs the command     *)
(* line client shows (UiDialogs).                                          *)
(***************************************************************************)
EXTENDS AppPrompts, PanelBridge, RemoteLaunch, UiDialogs, FiniteSetTheorems, TLAPS

(***************************************************************************)
(* The prompts.  PromptsRight is inductive as it stands: a step either     *)
(* leaves pi something to do, or ends a run and flushes what is parked, or *)
(* is one of the exceptions that the history variables record.             *)
(***************************************************************************)

\* What flushing makes of the previews.
LEMMA FlushedPreviews ==
    ASSUME NEW p \in [Prompts -> {"none", "parked", "shown", "lost", "dropped"}]
    PROVE  /\ Flushed(p) \in [Prompts -> {"none", "parked", "shown", "lost", "dropped"}]
           /\ \A m \in Prompts : Flushed(p)[m] # "parked"
  BY DEF Flushed

\* A hand-off gives pi something to do, or leaves the turn id of a command, or
\* changes nothing.
LEMMA HandOffSettles ==
    ASSUME PromptsRight, NEW m \in Prompts, NEW steer \in BOOLEAN,
           HandOff(m, steer), UNCHANGED <<agentRun, stranded>>
    PROVE  /\ turnId' \in Prompts \union {NoTurn, LocalTurn}
           /\ queued' \in BOOLEAN
           /\ TurnSettles'
           /\ Resting' => Resting
  BY PromptsAssumption
     DEF HandOff, PromptsRight, PromptsTypeOK, TurnSettles, Resting

\* The steps in which a prompt arrives.
LEMMA ArrivalStep ==
    ASSUME PromptsRight, NEW m \in Prompts,
           Intercepted(m) \/ PromptText(m) \/ PromptPhoto(m)
    PROVE  PromptsRight'
<1>1. /\ UNCHANGED <<working, online, piPart, previewPart>>
      /\ handed' \in [Prompts -> {"new", "first", "after", "done", "refused"}]
  BY DEF Intercepted, PromptText, PromptPhoto, PromptsRight, PromptsTypeOK,
         piPart, previewPart
<1>2. /\ turnId' \in Prompts \union {NoTurn, LocalTurn} /\ queued' \in BOOLEAN
      /\ TurnSettles'
      /\ Resting' => Resting
  <2>1. CASE UNCHANGED <<turnId, queued>>
    BY <2>1, <1>1
       DEF PromptsRight, PromptsTypeOK, TurnSettles, Resting, piPart, previewPart
  <2>2. CASE \E steer \in BOOLEAN : HandOff(m, steer)
    BY <2>2, <1>1, HandOffSettles DEF piPart, previewPart
  <2>3. UNCHANGED <<turnId, queued>> \/ \E steer \in BOOLEAN : HandOff(m, steer)
    BY DEF Intercepted, PromptText, PromptPhoto
  <2> QED BY <2>1, <2>2, <2>3
<1> QED
  BY <1>1, <1>2
     DEF PromptsRight, PromptsTypeOK, PreviewsSettle, TurnIsBusy, piPart, previewPart

\* The steps in which a conversion ends.
LEMMA ConversionStep ==
    ASSUME PromptsRight, NEW m \in Prompts, ConvertedFirst(m) \/ ConvertedAfter(m)
    PROVE  PromptsRight'
<1>1. /\ UNCHANGED <<working, stranded, online, piPart>>
      /\ Holding(m)
      /\ handed' \in [Prompts -> {"new", "first", "after", "done", "refused"}]
  BY DEF ConvertedFirst, ConvertedAfter, PromptsRight, PromptsTypeOK, piPart
<1>2. /\ turnId' \in Prompts \union {NoTurn, LocalTurn} /\ queued' \in BOOLEAN
      /\ TurnSettles'
      /\ Resting' => Resting
  <2>1. CASE ConvertedFirst(m)
    BY <2>1, <1>1, HandOffSettles DEF ConvertedFirst, piPart
  <2>2. CASE ConvertedAfter(m)
    BY <2>2, <1>1
       DEF ConvertedAfter, PromptsRight, PromptsTypeOK, TurnSettles, Resting, piPart
  <2> QED BY <2>1, <2>2
<1>3. /\ preview' \in [Prompts -> {"none", "parked", "shown", "lost", "dropped"}]
      /\ \A q \in Prompts \ {m} : preview'[q] = "parked" => preview[q] = "parked"
      /\ preview'[m] = "parked" => Deferring
  <2>1. CASE ConvertedFirst(m)
    <3>1. PICK p \in {"lost", IF Deferring THEN "parked" ELSE "shown"} :
             preview' = [preview EXCEPT ![m] = p]
      BY <2>1 DEF ConvertedFirst
    <3> QED BY <3>1 DEF PromptsRight, PromptsTypeOK
  <2>2. CASE ConvertedAfter(m)
    <3>1. PICK p \in {"lost", "parked"} :
             preview' = IF Deferring THEN [preview EXCEPT ![m] = p]
                        ELSE Flushed([preview EXCEPT ![m] = p])
      BY <2>2 DEF ConvertedAfter
    <3>2. [preview EXCEPT ![m] = p]
             \in [Prompts -> {"none", "parked", "shown", "lost", "dropped"}]
      BY <3>1 DEF PromptsRight, PromptsTypeOK
    <3>3. CASE Deferring
      BY <3>1, <3>2, <3>3 DEF PromptsRight, PromptsTypeOK
    <3>4. CASE ~Deferring
      <4> DEFINE pushed == [preview EXCEPT ![m] = p]
      <4>1. /\ Flushed(pushed) \in [Prompts -> {"none", "parked", "shown", "lost", "dropped"}]
            /\ \A q \in Prompts : Flushed(pushed)[q] # "parked"
        BY <3>2, FlushedPreviews
      <4>2. preview' = Flushed(pushed)
        BY <3>1, <3>4
      <4> HIDE DEF pushed
      <4> QED BY <4>1, <4>2
    <3> QED BY <3>3, <3>4
  <2> QED BY <2>1, <2>2
<1>4. waiting' \subseteq Prompts /\ waiting \subseteq waiting'
  BY <1>1 DEF Holding, PromptsRight, PromptsTypeOK
<1>5. PreviewsSettle'
  <2> SUFFICES ASSUME Resting', NEW q \in Photos, preview'[q] = "parked"
               PROVE  q \in waiting'
    BY DEF PreviewsSettle
  <2>1. CASE q = m
    BY <2>1, <1>1, <1>3 DEF Holding, Resting, piPart
  <2>2. CASE q # m
    BY <2>2, <1>2, <1>3, <1>4, PromptsAssumption DEF PromptsRight, PreviewsSettle
  <2> QED BY <2>1, <2>2
<1> QED
  BY <1>1, <1>2, <1>3, <1>4, <1>5 DEF PromptsRight, PromptsTypeOK, TurnIsBusy, piPart

\* The steps of pi.
LEMMA AgentStep ==
    ASSUME PromptsRight,
           \/ OtherInput \/ AgentRunStarts \/ RefusedLate
           \/ TurnStart \/ TurnEnd \/ AgentRunEnds
    PROVE  PromptsRight'
<1>1. CASE OtherInput
  BY <1>1 DEF OtherInput, PromptsRight, PromptsTypeOK, PreviewsSettle, TurnSettles,
              TurnIsBusy, Resting, piPart, previewPart
<1>2. CASE AgentRunStarts
  BY <1>2 DEF AgentRunStarts, PromptsRight, PromptsTypeOK, PreviewsSettle, TurnSettles,
              TurnIsBusy, Resting, previewPart
<1>3. CASE TurnStart
  BY <1>3 DEF TurnStart, PromptsRight, PromptsTypeOK, PreviewsSettle, TurnSettles,
              TurnIsBusy, Resting, previewPart
<1>4. CASE TurnEnd
  BY <1>4 DEF TurnEnd, PromptsRight, PromptsTypeOK, PreviewsSettle, TurnSettles,
              TurnIsBusy, Resting, previewPart
<1>5. CASE AgentRunEnds
  <2>1. /\ preview' \in [Prompts -> {"none", "parked", "shown", "lost", "dropped"}]
        /\ \A m \in Prompts : preview'[m] # "parked"
    BY <1>5, FlushedPreviews DEF AgentRunEnds, PromptsRight, PromptsTypeOK
  <2> QED
    BY <1>5, <2>1, PromptsAssumption
       DEF AgentRunEnds, PromptsRight, PromptsTypeOK, PreviewsSettle, TurnSettles,
           TurnIsBusy, Resting
<1>6. CASE RefusedLate
  BY <1>6, PromptsAssumption
     DEF RefusedLate, PromptsRight, PromptsTypeOK, PreviewsSettle, TurnSettles,
         TurnIsBusy, Resting, piPart
<1> QED BY <1>1, <1>2, <1>3, <1>4, <1>5, <1>6

\* Compaction, and the relay going away.
LEMMA OtherStep ==
    ASSUME PromptsRight, CompactStart \/ CompactEnd \/ OwnersGone \/ GoIdle
    PROVE  PromptsRight'
<1>1. CASE CompactStart \/ CompactEnd
  BY <1>1 DEF CompactStart, CompactEnd, PromptsRight, PromptsTypeOK, PreviewsSettle,
              TurnSettles, TurnIsBusy, Resting, previewPart
<1>2. CASE OwnersGone
  BY <1>2 DEF OwnersGone, PromptsRight, PromptsTypeOK, PreviewsSettle, TurnSettles,
              TurnIsBusy, Resting, piPart, previewPart
<1>3. CASE GoIdle
  <2>1. \A m \in Prompts : preview'[m] # "parked"
    BY <1>3 DEF GoIdle, PromptsRight, PromptsTypeOK
  <2> QED
    BY <1>3, <2>1, PromptsAssumption
       DEF GoIdle, PromptsRight, PromptsTypeOK, PreviewsSettle, TurnSettles, TurnIsBusy,
           Resting, piPart
<1> QED BY <1>1, <1>2, <1>3

\* Whatever prompts, photos, runs and refusals overlap, no preview is left
\* behind a run that is over and no turn id outlives its run, but for what the
\* history variables record: previews whose flush was put off with no run
\* ahead, ids of commands, and what a refusal leaves that the extension never
\* hears of (createRpcHandlers, received_images.ts, agent_end).
THEOREM PromptsInvariant == PromptsSpec => []PromptsRight
<1>1. PromptsInit => PromptsRight
  BY PromptsAssumption
     DEF PromptsInit, PromptsRight, PromptsTypeOK, PreviewsSettle, TurnSettles,
         TurnIsBusy, Resting
<1>2. PromptsRight /\ [PromptsNext]_promptVars => PromptsRight'
  <2> SUFFICES ASSUME PromptsRight, [PromptsNext]_promptVars PROVE PromptsRight'
    OBVIOUS
  <2>1. CASE UNCHANGED promptVars
    BY <2>1 DEF promptVars, PromptsRight, PromptsTypeOK, PreviewsSettle, TurnSettles,
                TurnIsBusy, Resting
  <2>2. CASE PromptsNext
    <3>1. ASSUME NEW m \in Prompts, Intercepted(m) \/ PromptText(m) \/ PromptPhoto(m)
          PROVE  PromptsRight'
      BY <3>1, ArrivalStep
    <3>2. ASSUME NEW m \in Prompts, ConvertedFirst(m) \/ ConvertedAfter(m)
          PROVE  PromptsRight'
      BY <3>2, ConversionStep
    <3>3. CASE \/ OtherInput \/ AgentRunStarts \/ RefusedLate
               \/ TurnStart \/ TurnEnd \/ AgentRunEnds
      BY <3>3, AgentStep
    <3>4. CASE CompactStart \/ CompactEnd \/ OwnersGone \/ GoIdle
      BY <3>4, OtherStep
    <3> QED BY <2>2, <3>1, <3>2, <3>3, <3>4 DEF PromptsNext
  <2> QED BY <2>1, <2>2
<1> QED BY <1>1, <1>2, PTL DEF PromptsSpec

-----------------------------------------------------------------------------

(***************************************************************************)
(* The panels.  A frame on its way counts as shown: Shows says what the    *)
(* client will show of a panel once the frames before it are applied.      *)
(***************************************************************************)

Marks == {"planned", "pending", "in_progress", "done", "failed"}
Items == (SUBSET Nodes) \cup UNION {[S -> Marks] : S \in SUBSET Agents}
PanelFrames == [key : {"plan", "subagents"}, items : Items]

\* The client shows v under k once the frames of w are applied to ps.
Shows(w, ps, k, v) ==
    \/ (\A i \in 1 .. Len(w) : w[i].key # k) /\ ps[k] = v
    \/ \E i \in 1 .. Len(w) : /\ w[i].key = k /\ w[i].items = v
                              /\ \A j \in 1 .. Len(w) : w[j].key = k => j <= i

WillShow(k, v) == Shows(panelWire, panels, k, v)
PlanNow == planPanelItems(planByNs)
AgentsNow == agentItems(planByNs, fleet)

\* The wire and what bounds the sequence numbers.
WireTyped ==
    /\ panelWire \in Seq(PanelFrames)
    /\ DOMAIN panels = {"plan", "subagents"} /\ panels = [k \in DOMAIN panels |-> panels[k]]
    /\ losses \in Nat
    /\ busEvents \in 0 .. MaxEvents /\ \A s \in Sources : number[s] <= busEvents

\* A snapshot not yet published is a pair of a number and items.
Snapshots == (0 .. MaxEvents) \X SUBSET Rows
HeldTyped == held \in [Sources -> [taken : Seq(Snapshots), out : Nat]]

\* The plan is scheduled, or on the way to a client that synced; one that did
\* not sync will be sent it, unless it is empty, and then shows no other.
PlanOnItsWay ==
    \/ timer
    \/ viewer = "synced" /\ (PlanNow # {} \/ losses = 0 => WillShow("plan", PlanNow))
    \/ viewer # "synced" /\ (losses = 0 => PlanNow # {} \/ WillShow("plan", {}))

AgentsOnTheirWay ==
    viewer = "synced" /\ DOMAIN AgentsNow # {} => WillShow("subagents", AgentsNow)

\* No number is ahead of its source, and the items under the last are the truth.
BasedCurrent ==
    \A s \in Sources :
        /\ planLastSeq[s] <= number[s] + 1
        /\ s \in based => planByNs[s] = truth[s] /\ planLastSeq[s] = number[s] + 1
        /\ \A i \in DOMAIN held[s].taken :
              LET h == held[s].taken[i]
              IN  h[1] <= number[s] /\ (h[1] = number[s] => h[2] = truth[s])

EndsKept == \A a \in finished : fleet[a] \in {"completed", "failed"}

AwayClean == viewer = "away" => panelWire = <<>> /\ (losses = 0 => panels.plan = {})

LEMMA ShowsAppended ==
    ASSUME NEW w \in Seq(PanelFrames), NEW f \in PanelFrames, NEW ps, NEW k
    PROVE  /\ w \o <<f>> \in Seq(PanelFrames)
           /\ f.key = k => Shows(w \o <<f>>, ps, k, f.items)
           /\ f.key # k => \A v : Shows(w, ps, k, v) => Shows(w \o <<f>>, ps, k, v)
<1> DEFINE x == w \o <<f>>
<1>1. /\ x \in Seq(PanelFrames) /\ Len(x) = Len(w) + 1 /\ Len(w) \in Nat
      /\ x[Len(x)] = f /\ \A i \in 1 .. Len(w) : x[i] = w[i]
  OBVIOUS
<1> HIDE DEF x
<1>2. f.key = k => Shows(x, ps, k, f.items)
  BY <1>1 DEF Shows
<1>3. ASSUME f.key # k, NEW v, Shows(w, ps, k, v)
      PROVE  Shows(x, ps, k, v)
  <2>1. CASE (\A i \in 1 .. Len(w) : w[i].key # k) /\ ps[k] = v
    <3>1. \A i \in 1 .. Len(x) : x[i].key # k
      BY <1>1, <1>3, <2>1
    <3> QED
      BY <3>1, <2>1 DEF Shows
  <2>2. CASE \E i \in 1 .. Len(w) : /\ w[i].key = k /\ w[i].items = v
                                    /\ \A j \in 1 .. Len(w) : w[j].key = k => j <= i
    <3>1. PICK i \in 1 .. Len(w) : /\ w[i].key = k /\ w[i].items = v
                                   /\ \A j \in 1 .. Len(w) : w[j].key = k => j <= i
      BY <2>2
    <3>2. /\ i \in 1 .. Len(x) /\ x[i].key = k /\ x[i].items = v
          /\ \A j \in 1 .. Len(x) : x[j].key = k => j <= i
      BY <1>1, <1>3, <3>1
    <3> QED
      BY <3>2 DEF Shows
  <2> QED
    BY <2>1, <2>2, <1>3 DEF Shows
<1> QED
  BY <1>1, <1>2, <1>3 DEF x

\* Applying the first frame does not change what will be shown.
LEMMA ShowsApplied ==
    ASSUME NEW w \in Seq(PanelFrames), w # <<>>, NEW ps, DOMAIN ps = {"plan", "subagents"},
           NEW k \in {"plan", "subagents"}, NEW v, Shows(w, ps, k, v)
    PROVE  Shows(Tail(w), [ps EXCEPT ![Head(w).key] = Head(w).items], k, v)
<1> DEFINE x == Tail(w)
           f == Head(w)
           qs == [ps EXCEPT ![f.key] = f.items]
<1>1. /\ Len(x) = Len(w) - 1 /\ Len(w) \in Nat /\ Len(w) >= 1 /\ f = w[1]
      /\ \A i \in 1 .. Len(x) : x[i] = w[i + 1]
  OBVIOUS
<1>2. f.key = k => qs[k] = f.items
  OBVIOUS
<1>3. f.key # k => qs[k] = ps[k]
  OBVIOUS
<1> HIDE DEF x, f, qs
<1>4. CASE (\A i \in 1 .. Len(w) : w[i].key # k) /\ ps[k] = v
  <2>1. f.key # k /\ \A i \in 1 .. Len(x) : x[i].key # k
    BY <1>1, <1>4
  <2> QED
    BY <2>1, <1>3, <1>4 DEF Shows, x, f, qs
<1>5. CASE \E i \in 1 .. Len(w) : /\ w[i].key = k /\ w[i].items = v
                                  /\ \A j \in 1 .. Len(w) : w[j].key = k => j <= i
  <2>1. PICK i \in 1 .. Len(w) : /\ w[i].key = k /\ w[i].items = v
                                 /\ \A j \in 1 .. Len(w) : w[j].key = k => j <= i
    BY <1>5
  <2>2. CASE i = 1
    <3>1. \A j \in 1 .. Len(x) : x[j].key # k
      BY <1>1, <2>1, <2>2
    <3>2. qs[k] = v
      BY <1>1, <1>2, <2>1, <2>2
    <3> QED
      BY <3>1, <3>2 DEF Shows, x, f, qs
  <2>3. CASE i # 1
    <3>1. i - 1 \in 1 .. Len(x) /\ x[i - 1] = w[i]
      BY <1>1, <2>1, <2>3
    <3>2. ASSUME NEW j \in 1 .. Len(x), x[j].key = k
          PROVE  j <= i - 1
      <4>1. j + 1 \in 1 .. Len(w) /\ w[j + 1].key = k
        BY <1>1, <3>2
      <4> QED
        BY <2>1, <4>1
    <3>3. Shows(x, qs, k, v)
      BY <2>1, <3>1, <3>2 DEF Shows
    <3> QED
      BY <3>3 DEF x, f, qs
  <2> QED
    BY <2>2, <2>3
<1> QED
  BY <1>4, <1>5 DEF Shows

LEMMA ShowsNow ==
    ASSUME NEW ps, NEW k, NEW v
    PROVE  Shows(<<>>, ps, k, v) <=> ps[k] = v
<1>1. 1 .. Len(<<>>) = {}
  OBVIOUS
<1> QED
  BY <1>1 DEF Shows

\* What the two kinds of frames are.
LEMMA FrameForms ==
    ASSUME NEW b \in [Sources -> SUBSET Rows], NEW fl \in [Agents -> LIFECYCLE \cup {"unknown"}]
    PROVE  /\ PlanFrame(b) \in PanelFrames /\ PlanFrame(b).key = "plan"
           /\ PlanFrame(b).items = planPanelItems(b)
           /\ AgentsFrame(b, fl) \in PanelFrames /\ AgentsFrame(b, fl).key = "subagents"
           /\ AgentsFrame(b, fl).items = agentItems(b, fl)
<1>1. planPanelItems(b) \in SUBSET Nodes
  BY DEF planPanelItems
<1>2. \A st \in LIFECYCLE : displayStatus(st) \in Marks
  BY DEF LIFECYCLE, IN_PROGRESS, displayStatus, Marks
<1>3. agentItems(b, fl) \in UNION {[S -> Marks] : S \in SUBSET Agents}
  <2> DEFINE S == {c \in Agents : c \in allPlanItems(b) \/ fl[c] # "unknown"}
  <2>1. \A a \in S : (IF fl[a] # "unknown" THEN displayStatus(fl[a]) ELSE "planned") \in Marks
    BY <1>2 DEF Marks
  <2>2. agentItems(b, fl) \in [S -> Marks]
    BY <2>1 DEF agentItems
  <2>3. S \in SUBSET Agents
    OBVIOUS
  <2> QED
    BY <2>2, <2>3
<1>4. planPanelItems(b) \in Items /\ agentItems(b, fl) \in Items
  BY <1>1, <1>3 DEF Items
<1> QED
  BY <1>4 DEF PlanFrame, AgentsFrame, PanelFrames

\* What is published over an empty or unempty wire.
LEMMA BroadcastForms ==
    ASSUME PanelTypeOK, WireTyped, NEW f \in PanelFrames
    PROVE  /\ Broadcast(<<f>>) => /\ panelWire' \in Seq(PanelFrames)
                                  /\ panelWire' = IF viewer = "away" THEN panelWire ELSE panelWire \o <<f>>
           /\ Broadcast(<<>>) => panelWire' = panelWire
<1>1. panelWire \o <<>> = panelWire
  BY DEF WireTyped
<1> QED
  BY <1>1, ShowsAppended DEF Broadcast, WireTyped

PanelsShown == PlanOnItsWay /\ AgentsOnTheirWay /\ AwayClean

\* A plan event that is taken schedules the plan and publishes the agents.
LEMMA PlanEventShown ==
    ASSUME PanelTypeOK, WireTyped, PanelsShown,
           UNCHANGED <<fleet, viewer, panels, losses>>,
           planByNs' \in [Sources -> SUBSET Rows],
           \/ UNCHANGED <<planByNs, timer, panelWire>>
           \/ timer' = TRUE /\ broadcastNow(planByNs', fleet)
    PROVE  panelWire' \in Seq(PanelFrames) /\ PanelsShown'
<1>1. CASE UNCHANGED <<planByNs, timer, panelWire>>
  BY <1>1 DEF WireTyped, PanelsShown, PlanOnItsWay, AgentsOnTheirWay, AwayClean, WillShow, PlanNow, AgentsNow
<1>2. CASE timer' = TRUE /\ broadcastNow(planByNs', fleet)
  <2> DEFINE f == AgentsFrame(planByNs', fleet)
  <2>1. f \in PanelFrames /\ f.key = "subagents" /\ f.items = AgentsNow'
    BY FrameForms DEF PanelTypeOK, AgentsNow
  <2>2. \/ DOMAIN AgentsNow' = {} /\ Broadcast(<<>>)
        \/ DOMAIN AgentsNow' # {} /\ Broadcast(<<f>>)
    BY <1>2 DEF broadcastNow, AgentsNow
  <2> HIDE DEF f
  <2>3. panelWire' \in Seq(PanelFrames) /\ (viewer = "away" => panelWire' = panelWire)
    BY <2>1, <2>2, BroadcastForms DEF WireTyped
  <2>4. PlanOnItsWay'
    BY <1>2 DEF PlanOnItsWay
  <2>5. AwayClean'
    BY <2>3 DEF PanelsShown, AwayClean
  <2>6. AgentsOnTheirWay'
    <3> SUFFICES ASSUME viewer = "synced", DOMAIN AgentsNow' # {}
                 PROVE  Shows(panelWire', panels, "subagents", AgentsNow')
      BY DEF AgentsOnTheirWay, WillShow
    <3>1. panelWire' = panelWire \o <<f>>
      BY <2>1, <2>2, BroadcastForms
    <3> QED
      BY <2>1, <3>1, ShowsAppended DEF WireTyped
  <2> QED
    BY <2>3, <2>4, <2>5, <2>6 DEF PanelsShown
<1> QED
  BY <1>1, <1>2

\* What a source's event does to the plan.
LEMMA PlanEvent ==
    ASSUME PanelTypeOK, NEW s \in Sources, NEW n \in 0 .. MaxEvents,
           \/ \E items \in SUBSET Rows : onSnapshot(s, n, items)
           \/ \E upsert, remove \in SUBSET Rows : onUpdate(s, n, upsert, remove)
    PROVE  /\ planByNs' \in [Sources -> SUBSET Rows]
           /\ planLastSeq' \in [Sources -> 0 .. MaxEvents + 1]
           /\ based' \subseteq Sources /\ timer' \in BOOLEAN
           /\ \/ UNCHANGED <<planByNs, timer, panelWire>>
              \/ timer' = TRUE /\ broadcastNow(planByNs', fleet)
<1>1. n + 1 \in 0 .. MaxEvents + 1
  BY PanelAssumption
<1>2. \A items \in SUBSET Rows : Accept(s, n, items) =>
          /\ planByNs' \in [Sources -> SUBSET Rows]
          /\ planLastSeq' \in [Sources -> 0 .. MaxEvents + 1]
          /\ timer' = TRUE /\ broadcastNow(planByNs', fleet)
  BY <1>1 DEF Accept, PanelTypeOK
<1>3. ASSUME NEW items \in SUBSET Rows, onSnapshot(s, n, items)
      PROVE  /\ based' \subseteq Sources
             /\ Accept(s, n, items) \/ UNCHANGED <<planByNs, planLastSeq, timer, panelWire>>
  <2>1. CASE Stale(s, n)
    BY <1>3, <2>1 DEF onSnapshot, PanelTypeOK
  <2>2. CASE ~ Stale(s, n)
    BY <1>3, <2>2 DEF onSnapshot, PanelTypeOK
  <2> QED
    BY <2>1, <2>2
<1>4. ASSUME NEW upsert \in SUBSET Rows, NEW remove \in SUBSET Rows, onUpdate(s, n, upsert, remove)
      PROVE  /\ based' = based
             /\ \/ \E items \in SUBSET Rows : Accept(s, n, items)
                \/ /\ UNCHANGED <<planByNs, timer, panelWire>>
                   /\ planLastSeq' \in [Sources -> 0 .. MaxEvents + 1]
  <2>1. (planByNs[s] \cup upsert) \ remove \in SUBSET Rows
    BY DEF PanelTypeOK
  <2>2. [planLastSeq EXCEPT ![s] = n + 1] \in [Sources -> 0 .. MaxEvents + 1]
    BY <1>1 DEF PanelTypeOK
  <2>3. planLastSeq \in [Sources -> 0 .. MaxEvents + 1]
    BY DEF PanelTypeOK
  <2> QED
    BY <1>4, <2>1, <2>2, <2>3, Zenon DEF onUpdate
<1> QED
  BY <1>2, <1>3, <1>4 DEF PanelTypeOK

\* Three conjuncts that are about the sources.
PanelSources == PanelTypeOK /\ WireTyped /\ HeldTyped /\ BasedCurrent

LEMMA ChangeStep ==
    ASSUME PanelSources, PanelsShown, NEW s \in Sources, NEW row \in Rows, Change(s, row)
    PROVE  PanelSources' /\ PanelsShown'
<1> DEFINE n == number[s] + 1
<1>0. /\ busEvents' = busEvents + 1 /\ busEvents' \in 0 .. MaxEvents
      /\ number' = [number EXCEPT ![s] = n]
      /\ truth' = [truth EXCEPT ![s] = IF row \in @ THEN @ \ {row} ELSE @ \cup {row}]
      /\ UNCHANGED <<held, fleet, finished, viewer, panels, losses>>
  BY PanelAssumption DEF Change, PanelSources, WireTyped
<1>1. n \in 0 .. MaxEvents /\ number'[s] = n /\ number' \in [Sources -> 0 .. MaxEvents]
      /\ \A x \in Sources : number'[x] <= busEvents'
  BY <1>0, PanelAssumption DEF PanelSources, PanelTypeOK, WireTyped
<1>2. truth' \in [Sources -> SUBSET Rows] /\ truth'[s] \in SUBSET Rows
      /\ {row} \cap truth'[s] \in SUBSET Rows /\ {row} \ truth'[s] \in SUBSET Rows
  BY <1>0 DEF PanelSources, PanelTypeOK
<1>3. \/ onUpdate(s, n, {row} \cap truth'[s], {row} \ truth'[s])
      \/ onSnapshot(s, n, truth'[s])
  BY DEF Change
<1> HIDE DEF n
<1>4. /\ planByNs' \in [Sources -> SUBSET Rows]
      /\ planLastSeq' \in [Sources -> 0 .. MaxEvents + 1]
      /\ based' \subseteq Sources /\ timer' \in BOOLEAN
      /\ \/ UNCHANGED <<planByNs, timer, panelWire>>
         \/ timer' = TRUE /\ broadcastNow(planByNs', fleet)
  BY <1>1, <1>2, <1>3, PlanEvent DEF PanelSources
<1>5. PanelsShown' /\ panelWire' \in Seq(PanelFrames)
  BY <1>0, <1>4, PlanEventShown DEF PanelSources
<1>6. PanelTypeOK' /\ WireTyped' /\ HeldTyped'
  BY <1>0, <1>1, <1>2, <1>4, <1>5 DEF PanelSources, PanelTypeOK, WireTyped, HeldTyped
<1>7. BasedCurrent'
  <2>0. ~ Stale(s, n)
    BY <1>1 DEF Stale, PanelSources, PanelTypeOK, BasedCurrent, n
  <2>1. \A x \in Sources : x # s => /\ number'[x] = number[x] /\ truth'[x] = truth[x]
                                    /\ planByNs'[x] = planByNs[x] /\ planLastSeq'[x] = planLastSeq[x]
                                    /\ (x \in based' <=> x \in based)
    <3>1. CASE onUpdate(s, n, {row} \cap truth'[s], {row} \ truth'[s])
      BY <1>0, <3>1 DEF PanelSources, PanelTypeOK, onUpdate, Accept
    <3>2. CASE onSnapshot(s, n, truth'[s])
      BY <1>0, <3>2, <2>0 DEF PanelSources, PanelTypeOK, onSnapshot, Accept
    <3> QED
      BY <1>3, <3>1, <3>2
  <2>2. planLastSeq'[s] = n + 1 /\ (s \in based' => planByNs'[s] = truth'[s])
    <3>1. CASE onUpdate(s, n, {row} \cap truth'[s], {row} \ truth'[s])
      <4>1. s \in based => planByNs[s] = truth[s]
        BY DEF PanelSources, BasedCurrent
      <4>2. truth'[s] = IF row \in truth[s] THEN truth[s] \ {row} ELSE truth[s] \cup {row}
        BY <1>0 DEF PanelSources, PanelTypeOK
      <4>3. planLastSeq'[s] = n + 1 /\ based' = based
        BY <2>0, <3>1 DEF onUpdate, Accept, PanelSources, PanelTypeOK
      <4>4. CASE {row} \cap truth'[s] = {} /\ ({row} \ truth'[s]) \cap planByNs[s] = {}
        <5>1. s \notin based
          BY <4>1, <4>2, <4>4
        <5> QED
          BY <4>3, <5>1
      <4>5. CASE ~ ({row} \cap truth'[s] = {} /\ ({row} \ truth'[s]) \cap planByNs[s] = {})
        <5>1. planByNs'[s] = (planByNs[s] \cup ({row} \cap truth'[s])) \ ({row} \ truth'[s])
          BY <2>0, <3>1, <4>5 DEF onUpdate, Accept, PanelSources, PanelTypeOK
        <5> QED
          BY <4>1, <4>2, <4>3, <5>1
      <4> QED
        BY <4>4, <4>5
    <3>2. CASE onSnapshot(s, n, truth'[s])
      BY <3>2, <2>0 DEF onSnapshot, Accept, PanelSources, PanelTypeOK
    <3> QED
      BY <1>3, <3>1, <3>2
  <2>3. ASSUME NEW x \in Sources
        PROVE  /\ planLastSeq'[x] <= number'[x] + 1
               /\ x \in based' => planByNs'[x] = truth'[x] /\ planLastSeq'[x] = number'[x] + 1
    BY <1>1, <2>1, <2>2, <2>3 DEF PanelSources, BasedCurrent
  <2>4. ASSUME NEW x \in Sources, NEW i \in DOMAIN held'[x].taken
        PROVE  LET h == held'[x].taken[i]
               IN  h[1] <= number'[x] /\ (h[1] = number'[x] => h[2] = truth'[x])
    <3>1. held'[x].taken[i] = held[x].taken[i] /\ held[x].taken[i][1] \in Nat
          /\ i \in DOMAIN held[x].taken
      <4>1. held[x].taken \in Seq(Snapshots) /\ held'[x].taken = held[x].taken
        BY <1>0 DEF PanelSources, HeldTyped
      <4>2. held[x].taken[i] \in Snapshots
        BY <2>4, <4>1
      <4> QED
        BY <2>4, <4>1, <4>2 DEF Snapshots
    <3>2. held[x].taken[i][1] <= number[x] /\ (held[x].taken[i][1] = number[x] => held[x].taken[i][2] = truth[x])
      BY <3>1 DEF PanelSources, BasedCurrent
    <3>3. CASE x = s
      BY <1>1, <3>1, <3>2, <3>3 DEF n, PanelSources, PanelTypeOK
    <3>4. CASE x # s
      BY <2>1, <3>1, <3>2, <3>4
    <3> QED
      BY <3>3, <3>4
  <2> QED
    BY <2>3, <2>4 DEF BasedCurrent
<1> QED
  BY <1>5, <1>6, <1>7 DEF PanelSources

LEMMA PublishStep ==
    ASSUME PanelSources, PanelsShown, NEW s \in Sources, PublishHeld(s)
    PROVE  PanelSources' /\ PanelsShown'
<1> DEFINE h == held[s].taken[held[s].out + 1]
<1>1. /\ held' = [held EXCEPT ![s].out = @ + 1]
      /\ UNCHANGED <<number, truth, fleet, finished, viewer, panels, busEvents, losses>>
      /\ onSnapshot(s, h[1], h[2])
  BY DEF PublishHeld
<1>2. /\ held[s].out + 1 \in DOMAIN held[s].taken
      /\ h \in Snapshots
  BY DEF PublishHeld, PanelSources, HeldTyped
<1>3. h[1] \in 0 .. MaxEvents /\ h[2] \in SUBSET Rows
  BY <1>2 DEF Snapshots
<1>4. h[1] <= number[s] /\ (h[1] = number[s] => h[2] = truth[s])
  BY <1>2 DEF PanelSources, BasedCurrent
<1>5. HeldTyped' /\ \A x \in Sources : held'[x].taken = held[x].taken
  BY <1>1 DEF PanelSources, HeldTyped
<1> HIDE DEF h
<1>6. /\ planByNs' \in [Sources -> SUBSET Rows]
      /\ planLastSeq' \in [Sources -> 0 .. MaxEvents + 1]
      /\ based' \subseteq Sources /\ timer' \in BOOLEAN
      /\ \/ UNCHANGED <<planByNs, timer, panelWire>>
         \/ timer' = TRUE /\ broadcastNow(planByNs', fleet)
  BY <1>1, <1>3, PlanEvent DEF PanelSources
<1>7. PanelsShown' /\ panelWire' \in Seq(PanelFrames)
  BY <1>1, <1>6, PlanEventShown DEF PanelSources
<1>8. PanelTypeOK' /\ WireTyped'
  BY <1>1, <1>6, <1>7 DEF PanelSources, PanelTypeOK, WireTyped
<1>9. BasedCurrent'
  <2>1. CASE Stale(s, h[1])
    <3>1. UNCHANGED <<planByNs, planLastSeq, based>>
      BY <1>1, <2>1 DEF onSnapshot
    <3> QED
      BY <1>1, <1>5, <3>1 DEF PanelSources, BasedCurrent
  <2>2. CASE ~ Stale(s, h[1])
    <3>1. /\ planLastSeq' = [planLastSeq EXCEPT ![s] = h[1] + 1]
          /\ planByNs' = [planByNs EXCEPT ![s] = h[2]]
          /\ based' = IF h[1] = number[s] THEN based \cup {s} ELSE based
      BY <1>1, <2>2 DEF onSnapshot, Accept
    <3>2. s \in based => h[1] = number[s]
      BY <1>3, <1>4, <2>2 DEF Stale, PanelSources, BasedCurrent, PanelTypeOK
    <3>3. ASSUME NEW x \in Sources
          PROVE  /\ planLastSeq'[x] <= number[x] + 1
                 /\ x \in based' => planByNs'[x] = truth[x] /\ planLastSeq'[x] = number[x] + 1
      <4>1. CASE x = s
        BY <1>3, <1>4, <3>1, <3>2, <4>1 DEF PanelSources, PanelTypeOK
      <4>2. CASE x # s
        <5>1. planLastSeq'[x] = planLastSeq[x] /\ planByNs'[x] = planByNs[x] /\ (x \in based' <=> x \in based)
          BY <3>1, <4>2 DEF PanelSources, PanelTypeOK
        <5> QED
          BY <5>1 DEF PanelSources, BasedCurrent
      <4> QED
        BY <4>1, <4>2
    <3> QED
      BY <1>1, <1>5, <3>3 DEF PanelSources, BasedCurrent
  <2> QED
    BY <2>1, <2>2
<1> QED
  BY <1>5, <1>7, <1>8, <1>9 DEF PanelSources

LEMMA TakeStep ==
    ASSUME PanelSources, PanelsShown, NEW s \in Sources, TakeSnapshot(s)
    PROVE  PanelSources' /\ PanelsShown'
<1> DEFINE h == <<number[s], truth[s]>>
<1>1. /\ held' = [held EXCEPT ![s].taken = Append(@, h)]
      /\ UNCHANGED <<truth, number, bridgeVars, viewerVars, busEvents, losses>>
  BY DEF TakeSnapshot
<1>2. h \in Snapshots
  BY DEF PanelSources, PanelTypeOK, Snapshots
<1>3. h[1] = number[s] /\ h[2] = truth[s]
  OBVIOUS
<1> HIDE DEF h
<1>4. HeldTyped'
  <2>0. held[s] \in [taken : Seq(Snapshots), out : Nat]
    BY DEF PanelSources, HeldTyped
  <2>1. [held[s] EXCEPT !.taken = Append(@, h)] \in [taken : Seq(Snapshots), out : Nat]
    <3>1. Append(held[s].taken, h) \in Seq(Snapshots)
      BY <1>2, <2>0
    <3> QED
      BY <2>0, <3>1
  <2> QED
    BY <1>1, <2>1 DEF PanelSources, HeldTyped
<1>5. \A x \in Sources : \A i \in DOMAIN held'[x].taken :
          \/ i \in DOMAIN held[x].taken /\ held'[x].taken[i] = held[x].taken[i]
          \/ x = s /\ held'[x].taken[i] = h
  <2> TAKE x \in Sources
  <2> TAKE i \in DOMAIN held'[x].taken
  <2>1. CASE x # s
    BY <1>1, <2>1 DEF PanelSources, HeldTyped
  <2>2. CASE x = s
    <3>1. held'[s].taken = Append(held[s].taken, h) /\ held[s].taken \in Seq(Snapshots)
      BY <1>1 DEF PanelSources, HeldTyped
    <3> QED
      BY <1>2, <2>2, <3>1
  <2> QED
    BY <2>1, <2>2
<1>6. BasedCurrent'
  <2>1. ASSUME NEW x \in Sources, NEW i \in DOMAIN held'[x].taken
        PROVE  LET g == held'[x].taken[i]
               IN  g[1] <= number[x] /\ (g[1] = number[x] => g[2] = truth[x])
    <3>1. CASE i \in DOMAIN held[x].taken /\ held'[x].taken[i] = held[x].taken[i]
      BY <3>1 DEF PanelSources, BasedCurrent
    <3>2. CASE x = s /\ held'[x].taken[i] = h
      BY <1>3, <3>2 DEF PanelSources, PanelTypeOK
    <3> QED
      BY <1>5, <2>1, <3>1, <3>2
  <2> QED
    BY <1>1, <2>1 DEF PanelSources, BasedCurrent, bridgeVars
<1>7. PanelTypeOK' /\ WireTyped' /\ PanelsShown'
  BY <1>1 DEF PanelSources, PanelTypeOK, WireTyped, PanelsShown, PlanOnItsWay, AgentsOnTheirWay, AwayClean,
     WillShow, PlanNow, AgentsNow, bridgeVars, viewerVars
<1> QED
  BY <1>4, <1>6, <1>7 DEF PanelSources

LEMMA TimerStep ==
    ASSUME PanelSources, PanelsShown, TimerFires
    PROVE  PanelSources' /\ PanelsShown'
<1> DEFINE f == PlanFrame(planByNs)
<1>1. /\ timer' = FALSE /\ Broadcast(<<f>>)
      /\ UNCHANGED <<sourceVars, planByNs, planLastSeq, based, fleet, finished, viewer, panels, busEvents, losses>>
  BY DEF TimerFires
<1>2. f \in PanelFrames /\ f.key = "plan" /\ f.items = PlanNow
  BY FrameForms DEF PanelSources, PanelTypeOK, PlanNow
<1> HIDE DEF f
<1>3. panelWire' \in Seq(PanelFrames)
      /\ panelWire' = IF viewer = "away" THEN panelWire ELSE panelWire \o <<f>>
  BY <1>1, <1>2, BroadcastForms DEF PanelSources
<1>4. viewer # "away" =>
          /\ Shows(panelWire', panels, "plan", PlanNow)
          /\ \A v : Shows(panelWire, panels, "subagents", v) => Shows(panelWire', panels, "subagents", v)
  BY <1>2, <1>3, ShowsAppended DEF PanelSources, WireTyped
<1>5. PanelSources'
  BY <1>1, <1>3 DEF PanelSources, PanelTypeOK, WireTyped, HeldTyped, BasedCurrent, sourceVars
<1>6. viewer = "away" => (losses = 0 => Shows(panelWire', panels, "plan", {}))
  BY <1>3, ShowsNow DEF PanelsShown, AwayClean
<1>7. viewer \in {"away", "joining", "synced"}
  BY DEF PanelSources, PanelTypeOK
<1>8. PlanOnItsWay'
  BY <1>1, <1>4, <1>6, <1>7 DEF PlanOnItsWay, WillShow, PlanNow
<1>9. AgentsOnTheirWay' /\ AwayClean'
  BY <1>1, <1>3, <1>4 DEF PanelsShown, AgentsOnTheirWay, AwayClean, WillShow, AgentsNow
<1> QED
  BY <1>5, <1>8, <1>9 DEF PanelsShown

LEMMA FleetStep ==
    ASSUME PanelSources, PanelsShown, EndsKept, NEW a \in Agents, NEW status \in LIFECYCLE,
           recordAgent(a, status)
    PROVE  PanelSources' /\ PanelsShown' /\ EndsKept'
<1> DEFINE f == AgentsFrame(planByNs, fleet')
<1>1. /\ fleet' = [fleet EXCEPT ![a] = mergeAgentState(@, status)]
      /\ finished' = IF statusRank(status) = 2 THEN finished \cup {a} ELSE finished
      /\ Broadcast(<<f>>) /\ busEvents' \in 0 .. MaxEvents /\ busEvents' = busEvents + 1
      /\ UNCHANGED <<sourceVars, planByNs, planLastSeq, based, timer, viewer, panels, losses>>
  BY PanelAssumption DEF recordAgent, PanelSources, WireTyped
<1>2. \A prev \in LIFECYCLE \cup {"unknown"} : mergeAgentState(prev, status) \in LIFECYCLE \cup {"unknown"}
  BY DEF mergeAgentState
<1>3. fleet' \in [Agents -> LIFECYCLE \cup {"unknown"}] /\ finished' \subseteq Agents
  BY <1>1, <1>2 DEF PanelSources, PanelTypeOK
<1>4. f \in PanelFrames /\ f.key = "subagents" /\ f.items = AgentsNow'
  BY <1>1, <1>3, FrameForms DEF PanelSources, PanelTypeOK, AgentsNow
<1> HIDE DEF f
<1>5. panelWire' \in Seq(PanelFrames)
      /\ panelWire' = IF viewer = "away" THEN panelWire ELSE panelWire \o <<f>>
  BY <1>1, <1>4, BroadcastForms DEF PanelSources
<1>6. viewer # "away" =>
          /\ Shows(panelWire', panels, "subagents", AgentsNow')
          /\ \A v : Shows(panelWire, panels, "plan", v) => Shows(panelWire', panels, "plan", v)
  BY <1>4, <1>5, ShowsAppended DEF PanelSources, WireTyped
<1>7. PanelSources'
  BY <1>1, <1>3, <1>5 DEF PanelSources, PanelTypeOK, WireTyped, HeldTyped, BasedCurrent, sourceVars
<1>8. PanelsShown'
  <2>1. AwayClean' /\ AgentsOnTheirWay'
    BY <1>1, <1>5, <1>6 DEF PanelsShown, AgentsOnTheirWay, AwayClean, WillShow
  <2>2. PlanOnItsWay'
    BY <1>1, <1>5, <1>6 DEF PanelsShown, PlanOnItsWay, WillShow, PlanNow
  <2> QED
    BY <2>1, <2>2 DEF PanelsShown
<1>9. EndsKept'
  <2>1. \A prev \in LIFECYCLE \cup {"unknown"} :
            /\ statusRank(status) = 2 => mergeAgentState(prev, status) \in {"completed", "failed"}
            /\ prev \in {"completed", "failed"} => mergeAgentState(prev, status) \in {"completed", "failed"}
    BY DEF mergeAgentState, statusRank, LIFECYCLE, IN_PROGRESS
  <2> QED
    BY <1>1, <2>1 DEF EndsKept, PanelSources, PanelTypeOK
<1> QED
  BY <1>7, <1>8, <1>9

LEMMA ClientStep ==
    ASSUME PanelSources, PanelsShown, Arrive \/ Leave \/ Replace
    PROVE  PanelSources' /\ PanelsShown'
<1>1. CASE Arrive
  <2>1. PanelSources'
    BY <1>1 DEF Arrive, PanelSources, PanelTypeOK, WireTyped, HeldTyped, BasedCurrent, sourceVars, bridgeVars
  <2>2. losses = 0 => Shows(panelWire, panels, "plan", {})
    BY <1>1, ShowsNow DEF Arrive, PanelsShown, AwayClean
  <2>3. PlanOnItsWay'
    BY <1>1, <2>2 DEF Arrive, PlanOnItsWay, WillShow, bridgeVars
  <2> QED
    BY <1>1, <2>1, <2>3 DEF Arrive, PanelsShown, AgentsOnTheirWay, AwayClean
<1>2. CASE Leave
  <2>1. losses' # 0 /\ losses' \in Nat /\ panelWire' = <<>> /\ <<>> \in Seq(PanelFrames)
    BY <1>2 DEF Leave, PanelSources, WireTyped
  <2>2. PanelSources'
    BY <1>2, <2>1 DEF Leave, PanelSources, PanelTypeOK, WireTyped, HeldTyped, BasedCurrent, sourceVars, bridgeVars
  <2> QED
    BY <1>2, <2>1, <2>2 DEF Leave, PanelsShown, PlanOnItsWay, AgentsOnTheirWay, AwayClean
<1>3. CASE Replace
  <2>1. losses' # 0 /\ losses' \in Nat /\ panelWire' = <<>> /\ <<>> \in Seq(PanelFrames)
    BY <1>3 DEF Replace, PanelSources, WireTyped
  <2>2. 0 \in 0 .. MaxEvents + 1
    BY PanelAssumption
  <2>4. PanelTypeOK'
    BY <1>3, <2>2 DEF Replace, PanelSources, PanelTypeOK, sourceVars
  <2>5. WireTyped' /\ HeldTyped'
    BY <1>3, <2>1 DEF Replace, PanelSources, WireTyped, HeldTyped, sourceVars
  <2>3. BasedCurrent'
    BY <1>3 DEF Replace, PanelSources, PanelTypeOK, BasedCurrent, sourceVars
  <2> QED
    BY <1>3, <2>1, <2>3, <2>4, <2>5 DEF Replace, PanelSources, PanelsShown, PlanOnItsWay, AgentsOnTheirWay, AwayClean
<1> QED
  BY <1>1, <1>2, <1>3

\* session_sync: what is not empty is sent, behind what is on its way.
LEMMA SyncStep ==
    ASSUME PanelSources, PanelsShown, SessionSync
    PROVE  PanelSources' /\ PanelsShown'
<1> DEFINE p == PlanFrame(planByNs)
           g == AgentsFrame(planByNs, fleet)
<1>1. /\ viewer = "joining" /\ viewer' = "synced" /\ panelWire' = panelWire \o pendingPanels
      /\ UNCHANGED <<sourceVars, bridgeVars, panels, busEvents, losses>>
  BY DEF SessionSync
<1>2. /\ p \in PanelFrames /\ p.key = "plan" /\ p.items = PlanNow
      /\ g \in PanelFrames /\ g.key = "subagents" /\ g.items = AgentsNow
  BY FrameForms DEF PanelSources, PanelTypeOK, PlanNow, AgentsNow
<1>3. pendingPanels = (IF PlanNow # {} THEN <<p>> ELSE <<>>) \o (IF DOMAIN AgentsNow # {} THEN <<g>> ELSE <<>>)
  BY DEF pendingPanels, PlanNow, AgentsNow
<1> HIDE DEF p, g
<1> DEFINE w == IF PlanNow # {} THEN panelWire \o <<p>> ELSE panelWire
<1>4. w \in Seq(PanelFrames)
  BY <1>2, ShowsAppended DEF PanelSources, WireTyped
<1>5. panelWire' = IF DOMAIN AgentsNow # {} THEN w \o <<g>> ELSE w
  <2>1. panelWire \in Seq(PanelFrames)
    BY DEF PanelSources, WireTyped
  <2>2. /\ panelWire \o (<<p>> \o <<g>>) = (panelWire \o <<p>>) \o <<g>>
        /\ panelWire \o (<<p>> \o <<>>) = panelWire \o <<p>>
        /\ panelWire \o (<<>> \o <<g>>) = panelWire \o <<g>>
        /\ panelWire \o (<<>> \o <<>>) = panelWire
    BY <1>2, <2>1
  <2> QED
    BY <1>1, <1>3, <2>2, Zenon
<1>6. PlanNow # {} => Shows(w, panels, "plan", PlanNow)
  BY <1>2, ShowsAppended DEF PanelSources, WireTyped
<1>7. \A v : PlanNow = {} /\ Shows(panelWire, panels, "plan", v) => Shows(w, panels, "plan", v)
  OBVIOUS
<1> HIDE DEF w
<1>8. /\ panelWire' \in Seq(PanelFrames)
      /\ \A v : Shows(w, panels, "plan", v) => Shows(panelWire', panels, "plan", v)
      /\ DOMAIN AgentsNow # {} => Shows(panelWire', panels, "subagents", AgentsNow)
  <2>1. CASE DOMAIN AgentsNow = {}
    BY <1>4, <1>5, <2>1
  <2>2. CASE DOMAIN AgentsNow # {}
    BY <1>2, <1>4, <1>5, <2>2, ShowsAppended
  <2> QED
    BY <2>1, <2>2
<1>9. PanelSources'
  BY <1>1, <1>8 DEF PanelSources, PanelTypeOK, WireTyped, HeldTyped, BasedCurrent, sourceVars, bridgeVars
<1>10. PlanOnItsWay'
  BY <1>1, <1>6, <1>7, <1>8 DEF PanelsShown, PlanOnItsWay, WillShow, PlanNow, bridgeVars
<1>11. AgentsOnTheirWay' /\ AwayClean'
  BY <1>1, <1>8 DEF AgentsOnTheirWay, AwayClean, WillShow, AgentsNow, bridgeVars
<1> QED
  BY <1>9, <1>10, <1>11 DEF PanelsShown

LEMMA ApplyStep ==
    ASSUME PanelSources, PanelsShown, apply
    PROVE  PanelSources' /\ PanelsShown'
<1> DEFINE f == Head(panelWire)
<1>1. /\ panelWire # <<>> /\ panelWire' = Tail(panelWire)
      /\ panels' = [panels EXCEPT ![f.key] = f.items]
      /\ UNCHANGED <<sourceVars, bridgeVars, viewer, busEvents, losses>>
  BY DEF apply
<1>2. panelWire \in Seq(PanelFrames) /\ DOMAIN panels = {"plan", "subagents"}
  BY DEF PanelSources, WireTyped
<1>3. f \in PanelFrames /\ Tail(panelWire) \in Seq(PanelFrames)
  BY <1>1, <1>2
<1>4. f.key \in {"plan", "subagents"}
  BY <1>3 DEF PanelFrames
<1>5. DOMAIN panels' = {"plan", "subagents"} /\ panels' = [k \in DOMAIN panels' |-> panels'[k]]
  BY <1>1, <1>2, <1>4
<1>6. \A k \in {"plan", "subagents"} : \A v : WillShow(k, v) => WillShow(k, v)'
  BY <1>1, <1>2, ShowsApplied DEF WillShow
<1> HIDE DEF f
<1>7. PanelSources'
  BY <1>1, <1>3, <1>5 DEF PanelSources, PanelTypeOK, WireTyped, HeldTyped, BasedCurrent, sourceVars, bridgeVars
<1>8. AwayClean'
  BY <1>1 DEF PanelsShown, AwayClean
<1>9. PlanOnItsWay' /\ AgentsOnTheirWay'
  BY <1>1, <1>6 DEF PanelsShown, PlanOnItsWay, AgentsOnTheirWay, PlanNow, AgentsNow, bridgeVars
<1> QED
  BY <1>7, <1>8, <1>9 DEF PanelsShown

PanelInv == PanelSources /\ PanelsShown /\ EndsKept

\* A client that has synced shows, once nothing is on its way, the plan of the
\* bridge (unless it went empty while the client may have been away), the rows of
\* every source the bridge had a current snapshot of, and its agents, and no
\* agent that ended as running, whatever was coalesced, published late or missed:
\* panel_bridge.ts with PanelStore.
THEOREM PanelsSettle == PanelSpec => []PanelsRight
<1>1. PanelInit => PanelInv
  <2> SUFFICES ASSUME PanelInit PROVE PanelInv
    OBVIOUS
  <2> USE DEF PanelInit
  <2>0. 0 \in 0 .. MaxEvents /\ 0 \in 0 .. MaxEvents + 1
    BY PanelAssumption
  <2>1. PanelTypeOK
    BY <2>0 DEF PanelTypeOK
  <2>2. WireTyped
    <3>1. panels = [k \in DOMAIN panels |-> panels[k]] /\ DOMAIN panels = {"plan", "subagents"}
      OBVIOUS
    <3> QED
      BY <3>1, PanelAssumption DEF WireTyped
  <2>3. HeldTyped /\ BasedCurrent /\ EndsKept
    BY PanelAssumption DEF HeldTyped, BasedCurrent, EndsKept
  <2>4. panels.plan = {} /\ panelWire = <<>>
    OBVIOUS
  <2>5. PanelsShown
    BY <2>4, ShowsNow DEF PanelsShown, PlanOnItsWay, AgentsOnTheirWay, AwayClean, WillShow
  <2> QED
    BY <2>1, <2>2, <2>3, <2>5 DEF PanelInv, PanelSources
<1>2. PanelInv /\ [PanelNext]_panelVars => PanelInv'
  <2> SUFFICES ASSUME PanelInv, [PanelNext]_panelVars PROVE PanelInv'
    OBVIOUS
  <2>1. PanelSources /\ PanelsShown /\ EndsKept
    BY DEF PanelInv
  <2>2. CASE \E a \in Agents, status \in LIFECYCLE : recordAgent(a, status)
    BY <2>1, <2>2, FleetStep DEF PanelInv
  <2>3. CASE Replace
    <3>1. EndsKept'
      BY <2>3 DEF Replace, EndsKept
    <3> QED
      BY <2>1, <2>3, <3>1, ClientStep DEF PanelInv
  <2>4. CASE UNCHANGED panelVars
    BY <2>1, <2>4 DEF PanelInv, PanelSources, PanelsShown, EndsKept, PanelTypeOK, WireTyped, HeldTyped, BasedCurrent,
       PlanOnItsWay, AgentsOnTheirWay, AwayClean, WillShow, PlanNow, AgentsNow,
       panelVars, sourceVars, bridgeVars, viewerVars
  <2>5. CASE UNCHANGED <<fleet, finished>>
             /\ \/ \E s \in Sources : TakeSnapshot(s) \/ PublishHeld(s)
                \/ \E s \in Sources, row \in Rows : Change(s, row)
                \/ TimerFires \/ Arrive \/ Leave \/ SessionSync \/ apply
    <3>1. EndsKept'
      BY <2>1, <2>5 DEF EndsKept
    <3>2. PanelSources' /\ PanelsShown'
      BY <2>1, <2>5, TakeStep, PublishStep, ChangeStep, TimerStep, ClientStep, SyncStep, ApplyStep
    <3> QED
      BY <3>1, <3>2 DEF PanelInv
  <2>6. /\ \A s \in Sources : TakeSnapshot(s) \/ PublishHeld(s) => UNCHANGED <<fleet, finished>>
        /\ \A s \in Sources, row \in Rows : Change(s, row) => UNCHANGED <<fleet, finished>>
        /\ TimerFires \/ Arrive \/ Leave \/ SessionSync \/ apply => UNCHANGED <<fleet, finished>>
    BY DEF TakeSnapshot, PublishHeld, Change, TimerFires, Arrive, Leave, SessionSync, apply, bridgeVars
  <2> QED
    BY <2>2, <2>3, <2>4, <2>5, <2>6 DEF PanelNext
<1>3. PanelInv => PanelsRight
  <2> SUFFICES ASSUME PanelInv, Quiet
               PROVE  /\ planPanelItems(planByNs) # {} \/ losses = 0 => panels.plan = planPanelItems(planByNs)
                      /\ \A s \in based : planByNs[s] = truth[s]
                      /\ DOMAIN agentItems(planByNs, fleet) # {} => panels.subagents = agentItems(planByNs, fleet)
                      /\ \A a \in finished :
                            a \in DOMAIN panels.subagents /\ panels.subagents[a] \in {"done", "failed"}
    BY DEF PanelInv, PanelSources, PanelsRight
  <2>1. \A k, v : WillShow(k, v) => panels[k] = v
    BY ShowsNow DEF Quiet, WillShow
  <2>2. planPanelItems(planByNs) # {} \/ losses = 0 => panels.plan = planPanelItems(planByNs)
    BY <2>1 DEF PanelInv, PanelsShown, PlanOnItsWay, Quiet, PlanNow
  <2>3. DOMAIN agentItems(planByNs, fleet) # {} => panels.subagents = agentItems(planByNs, fleet)
    BY <2>1 DEF PanelInv, PanelsShown, AgentsOnTheirWay, Quiet, AgentsNow
  <2>4. \A s \in based : planByNs[s] = truth[s]
    BY DEF PanelInv, PanelSources, PanelTypeOK, BasedCurrent
  <2>5. ASSUME NEW a \in finished
        PROVE  a \in DOMAIN panels.subagents /\ panels.subagents[a] \in {"done", "failed"}
    <3>1. a \in Agents /\ fleet[a] \in {"completed", "failed"}
      BY <2>5 DEF PanelInv, PanelSources, PanelTypeOK, EndsKept
    <3>2. fleet[a] # "unknown" /\ displayStatus(fleet[a]) \in {"done", "failed"}
      BY <3>1 DEF displayStatus, IN_PROGRESS
    <3>3. a \in DOMAIN agentItems(planByNs, fleet)
          /\ agentItems(planByNs, fleet)[a] = displayStatus(fleet[a])
      BY <3>1, <3>2 DEF agentItems
    <3> QED
      BY <2>3, <3>2, <3>3
  <2> QED
    BY <2>2, <2>3, <2>4, <2>5
<1> QED
  BY <1>1, <1>2, <1>3, PTL DEF PanelSpec

-----------------------------------------------------------------------------

(***************************************************************************)
(* Remote launches.  A frame of an ask is in one place at a time: on its   *)
(* way to a client, at the gate, with the handler or launched.             *)
(***************************************************************************)

Kinds == {"list", "launch"}
GateCalls == [on : Dials, ask : Asks, what : Kinds, phase : {"read", "yes", "no"}]
LineFrames == [on : Dials, ask : Asks, what : Kinds]
Counts == [Asks -> [Phases -> Nat]]

\* Clients that have a connection or may get one: one at most, and none while
\* another attempt is scheduled.
Active(d) == dial[d] \in {"dialing", "closing", "open", "shut"}
Smooth == "late close" \notin excuse

OneActive ==
    /\ \A d, e \in Dials : Active(d) /\ Active(e) => d = e
    /\ redial => \A d \in Dials : ~ Active(d)

\* A client that did not open has brought nothing in.
Fresh(d) == dial[d] \in {"dialing", "closing", "late"}
FreshClean ==
    /\ \A d \in Dials : Fresh(d) =>
          /\ \A g \in gates : g.on # d
          /\ \A o \in Devices : ears[d][o] = 0 /\ chan[o] # d
    /\ \A f \in lines : dial[f.on] \in {"open", "shut"}
    /\ \A o \in Devices : chan[o] # 0 => ears[chan[o]][o] > 0

OneEar ==
    \A d \in Dials, o \in Devices :
        dial[d] = "open" => ears[d][o] = IF chan[o] = d THEN 1 ELSE 0

\* Where the frames of an ask are.
HasLine(q, w) == \E f \in lines : f.ask = q /\ f.what = w
HasGate(q, w) == \E g \in gates : g.ask = q /\ g.what = w
OneFrame ==
    /\ \A f, g \in lines : f.ask = g.ask /\ f.what = g.what => f = g
    /\ \A f, g \in gates : f.ask = g.ask /\ f.what = g.what => f = g

LineCount(q, w) == IF HasLine(q, w) THEN 1 ELSE 0
GateCount(q, w) == IF HasGate(q, w) THEN 1 ELSE 0
Listings(q) == LineCount(q, "list") + GateCount(q, "list") + handling[q]["list"]
Launches(q) ==
    LineCount(q, "launch") + GateCount(q, "launch")
        + handling[q]["read"] + handling[q]["yes"] + handling[q]["no"] + launched[q]

\* There is one frame of a kind, and none before the command sent it.
OneLaunch ==
    \A q \in Asks :
        /\ Listings(q) <= 1 /\ Launches(q) <= 1
        /\ verb[q] = "idle" => Listings(q) = 0
        /\ verb[q] \in {"idle", "listing", "ready"} => Launches(q) = 0

ClearedInTime ==
    \A q \in Asks :
        /\ AskedBy[q] \in paired /\ q \in Arrived(AskedBy[q]) => q \in cleared
        /\ handling[q]["yes"] > 0 \/ launched[q] > 0 => q \in cleared

\* An error for the only command of a device is about the frame it waits for.
Alone(q) == \A p \in Asks \ {q} : AskedBy[p] = AskedBy[q] => verb[p] = "idle"
ErrorsTrue ==
    \A q \in Asks :
        /\ verb[q] = "idle" => q \notin errs
        /\ Alone(q) =>
              /\ verb[q] = "listing" /\ q \in errs => Listings(q) = 0
              /\ verb[q] = "ready" => q \notin errs
              /\ verb[q] \in {"ready", "waiting"} => Listings(q) = 0
              /\ verb[q] = "waiting" /\ q \in errs => Launches(q) = 0
              /\ verb[q] = "rejected" => Launches(q) = 0

LaunchInv ==
    /\ LaunchTypeOK /\ FreshClean /\ ClearedInTime
    /\ Smooth => OneActive /\ OneEar /\ OneFrame /\ OneLaunch /\ ErrorsTrue

-----------------------------------------------------------------------------

LEMMA FrameShapes ==
    /\ \A d \in Dials, q \in Asks, w \in Kinds : [on |-> d, ask |-> q, what |-> w] \in LineFrames
    /\ \A f \in LineFrames : f.on \in Dials /\ f.ask \in Asks /\ f.what \in Kinds
    /\ \A d \in Dials, q \in Asks, w \in Kinds :
          [on |-> d, ask |-> q, what |-> w, phase |-> "read"] \in GateCalls
    /\ \A g \in GateCalls : g.on \in Dials /\ g.ask \in Asks /\ g.what \in Kinds
    /\ \A g \in GateCalls, v \in {"yes", "no"} :
          /\ [g EXCEPT !.phase = v] \in GateCalls
          /\ [g EXCEPT !.phase = v].on = g.on /\ [g EXCEPT !.phase = v].ask = g.ask
          /\ [g EXCEPT !.phase = v].what = g.what /\ [g EXCEPT !.phase = v].phase = v
  BY DEF LineFrames, GateCalls

\* The gate has read the file: its call goes on with the answer.
LEMMA GateGoesOn ==
    ASSUME gates \subseteq GateCalls, GateReads
    PROVE  \E g \in gates, h \in GateCalls :
               /\ gates' = (gates \ {g}) \union {h}
               /\ h.on = g.on /\ h.ask = g.ask /\ h.what = g.what
<1>1. PICK g \in gates :
          gates' = (gates \ {g}) \union {[g EXCEPT !.phase = IF AskedBy[g.ask] \in paired THEN "yes" ELSE "no"]}
  BY DEF GateReads
<1> DEFINE v == IF AskedBy[g.ask] \in paired THEN "yes" ELSE "no"
           h == [g EXCEPT !.phase = v]
<1>2. v \in {"yes", "no"} /\ g \in GateCalls
  BY <1>1
<1> HIDE DEF v
<1>3. h \in GateCalls /\ h.on = g.on /\ h.ask = g.ask /\ h.what = g.what
  BY <1>2 DEF GateCalls
<1>4. gates' = (gates \ {g}) \union {h}
  BY <1>1 DEF v
<1> HIDE DEF h
<1> QED
  BY <1>1, <1>3, <1>4

LEMMA HandledCounts ==
    ASSUME handling \in Counts, NEW q \in Asks, NEW w \in Kinds, NEW n \in Nat
    PROVE  /\ Handled(q, w, n) \in Counts
           /\ \A x \in Asks, y \in Phases :
                 Handled(q, w, n)[x][y] =
                     IF x = q /\ y = (IF w = "list" THEN "list" ELSE "read") /\ (w = "list" \/ policy # "off")
                     THEN handling[x][y] + n ELSE handling[x][y]
<1>1. "list" \in Phases /\ "read" \in Phases
  BY DEF Phases
<1>2. handling[q]["list"] + n \in Nat /\ handling[q]["read"] + n \in Nat
  BY <1>1 DEF Counts
<1>3. CASE w = "list"
  <2>1. Handled(q, w, n) = [handling EXCEPT ![q]["list"] = handling[q]["list"] + n]
    BY <1>3 DEF Handled
  <2>2. Handled(q, w, n) \in Counts
    BY <1>1, <1>2, <2>1 DEF Counts
  <2>3. \A x \in Asks, y \in Phases :
            Handled(q, w, n)[x][y] = IF x = q /\ y = "list" THEN handling[q]["list"] + n ELSE handling[x][y]
    BY <1>1, <1>2, <2>1 DEF Counts
  <2> HIDE DEF Handled
  <2> QED
    BY <1>3, <2>2, <2>3
<1>4. CASE w # "list" /\ policy = "off"
  BY <1>4 DEF Handled, Kinds
<1>5. CASE w # "list" /\ policy # "off"
  <2>1. Handled(q, w, n) = [handling EXCEPT ![q]["read"] = handling[q]["read"] + n]
    BY <1>5 DEF Handled
  <2>2. Handled(q, w, n) \in Counts
    BY <1>1, <1>2, <2>1 DEF Counts
  <2>3. \A x \in Asks, y \in Phases :
            Handled(q, w, n)[x][y] = IF x = q /\ y = "read" THEN handling[q]["read"] + n ELSE handling[x][y]
    BY <1>1, <1>2, <2>1 DEF Counts
  <2> HIDE DEF Handled
  <2> QED
    BY <1>5, <2>2, <2>3
<1> QED
  BY <1>3, <1>4, <1>5

-----------------------------------------------------------------------------
(* What the handler's steps do to its calls *)

\* Of the calls of q, n in phase p more and m in phase r less.
LEMMA HandlerSteps ==
    ASSUME handling \in Counts, NEW q \in Asks
    PROVE  /\ ListStored(q) => /\ handling' \in Counts /\ handling[q]["list"] > 0
                               /\ \A x \in Asks, y \in Phases :
                                     handling'[x][y] = IF x = q /\ y = "list" THEN handling[x][y] - 1
                                                       ELSE handling[x][y]
           /\ LaunchRefused(q) =>
                 /\ handling' \in Counts
                 /\ \E p \in {"yes", "no"} :
                       /\ handling[q][p] > 0
                       /\ \A x \in Asks, y \in Phases :
                             handling'[x][y] = IF x = q /\ y = p THEN handling[x][y] - 1
                                               ELSE handling[x][y]
           /\ launchSession(q) => /\ handling' \in Counts /\ handling[q]["yes"] > 0
                                  /\ \A x \in Asks, y \in Phases :
                                        handling'[x][y] = IF x = q /\ y = "yes" THEN handling[x][y] - 1
                                                          ELSE handling[x][y]
           /\ Recheck(q) =>
                 /\ handling' \in Counts /\ handling[q]["read"] > 0
                 /\ \E p \in {"yes", "no"} :
                       /\ p = "yes" <=> AskedBy[q] \in paired
                       /\ \A x \in Asks, y \in Phases :
                             handling'[x][y] = IF x = q /\ y = "read" THEN handling[x][y] - 1
                                               ELSE IF x = q /\ y = p THEN handling[x][y] + 1
                                               ELSE handling[x][y]
<1>0. "list" \in Phases /\ "yes" \in Phases /\ "no" \in Phases
  BY DEF Phases
<1>1. ASSUME ListStored(q)
      PROVE  /\ handling' \in Counts /\ handling[q]["list"] > 0
             /\ \A x \in Asks, y \in Phases :
                   handling'[x][y] = IF x = q /\ y = "list" THEN handling[x][y] - 1 ELSE handling[x][y]
  <2>1. handling[q]["list"] > 0 /\ handling' = [handling EXCEPT ![q]["list"] = @ - 1]
    BY <1>1 DEF ListStored
  <2>2. handling[q]["list"] - 1 \in Nat
    BY <1>0, <2>1 DEF Counts
  <2> QED
    BY <1>0, <2>1, <2>2 DEF Counts
<1>2. ASSUME NEW p \in {"yes", "no"}, handling[q][p] > 0, handling' = [handling EXCEPT ![q][p] = @ - 1]
      PROVE  /\ handling' \in Counts
             /\ \A x \in Asks, y \in Phases :
                   handling'[x][y] = IF x = q /\ y = p THEN handling[x][y] - 1 ELSE handling[x][y]
  <2>1. p \in Phases /\ handling[q][p] - 1 \in Nat
    BY <1>0, <1>2 DEF Counts
  <2> QED
    BY <1>2, <2>1 DEF Counts
<1>3. ASSUME launchSession(q)
      PROVE  /\ handling' \in Counts /\ handling[q]["yes"] > 0
             /\ \A x \in Asks, y \in Phases :
                   handling'[x][y] = IF x = q /\ y = "yes" THEN handling[x][y] - 1 ELSE handling[x][y]
  <2>1. handling[q]["yes"] > 0 /\ handling' = [handling EXCEPT ![q]["yes"] = @ - 1]
    BY <1>3 DEF launchSession
  <2>2. handling[q]["yes"] - 1 \in Nat
    BY <1>0, <2>1 DEF Counts
  <2> QED
    BY <1>0, <2>1, <2>2 DEF Counts
<1>4. ASSUME Recheck(q)
      PROVE  /\ handling' \in Counts /\ handling[q]["read"] > 0
             /\ \E p \in {"yes", "no"} :
                   /\ p = "yes" <=> AskedBy[q] \in paired
                   /\ \A x \in Asks, y \in Phases :
                         handling'[x][y] = IF x = q /\ y = "read" THEN handling[x][y] - 1
                                           ELSE IF x = q /\ y = p THEN handling[x][y] + 1
                                           ELSE handling[x][y]
  <2> DEFINE p == IF AskedBy[q] \in paired THEN "yes" ELSE "no"
  <2>1. p \in {"yes", "no"} /\ (p = "yes" <=> AskedBy[q] \in paired)
    OBVIOUS
  <2>2. handling[q]["read"] > 0 /\ handling' = [handling EXCEPT ![q]["read"] = @ - 1, ![q][p] = @ + 1]
    BY <1>4 DEF Recheck
  <2> HIDE DEF p
  <2>3. /\ handling' \in Counts
        /\ \A x \in Asks, y \in Phases :
              handling'[x][y] = IF x = q /\ y = "read" THEN handling[x][y] - 1
                                ELSE IF x = q /\ y = p THEN handling[x][y] + 1
                                ELSE handling[x][y]
    <3> DEFINE i == [handling EXCEPT ![q]["read"] = @ - 1]
    <3>1. handling[q]["read"] - 1 \in Nat /\ p \in Phases /\ "read" \in Phases /\ p # "read"
      BY <2>1, <2>2 DEF Counts, Phases
    <3>2. i \in Counts /\ \A x \in Asks, y \in Phases :
              i[x][y] = IF x = q /\ y = "read" THEN handling[x][y] - 1 ELSE handling[x][y]
      BY <3>1 DEF Counts
    <3> DEFINE h == [handling EXCEPT ![q]["read"] = @ - 1, ![q][p] = @ + 1]
    <3>7. h = [i EXCEPT ![q][p] = i[q][p] + 1]
      BY <3>1 DEF Counts
    <3>8. handling' = h
      BY <2>2
    <3> HIDE DEF h
    <3>3. handling' = [i EXCEPT ![q][p] = i[q][p] + 1]
      BY <3>7, <3>8
    <3> HIDE DEF i
    <3>4. i[q][p] + 1 \in Nat
      BY <3>1, <3>2 DEF Counts
    <3>5. handling' \in Counts /\ \A x \in Asks, y \in Phases :
              handling'[x][y] = IF x = q /\ y = p THEN i[q][p] + 1 ELSE i[x][y]
      BY <3>1, <3>2, <3>3, <3>4 DEF Counts
    <3>6. ASSUME NEW x \in Asks, NEW y \in Phases
          PROVE  handling'[x][y] = IF x = q /\ y = "read" THEN handling[x][y] - 1
                                   ELSE IF x = q /\ y = p THEN handling[x][y] + 1
                                   ELSE handling[x][y]
      BY <3>1, <3>2, <3>5, <3>6
    <3> QED
      BY <3>5, <3>6
  <2> QED
    BY <2>1, <2>2, <2>3
<1>5. LaunchRefused(q) =>
         \E p \in {"yes", "no"} : handling[q][p] > 0 /\ handling' = [handling EXCEPT ![q][p] = @ - 1]
  BY DEF LaunchRefused
<1> QED
  BY <1>1, <1>2, <1>3, <1>4, <1>5

-----------------------------------------------------------------------------
(* Types *)

LinkTypes ==
    /\ dial \in [Dials -> {"dialing", "closing", "late", "open", "shut", "closed"}]
    /\ latest \in Dials /\ redial \in BOOLEAN /\ halted \in BOOLEAN
OwnerTypes ==
    /\ chan \in [Devices -> Dials \union {0}] /\ ears \in [Dials -> [Devices -> Nat]]
    /\ gates \subseteq GateCalls /\ lines \subseteq LineFrames
    /\ handling \in Counts /\ cleared \subseteq Asks
TrustTypes ==
    /\ paired \subseteq Devices /\ allowed \subseteq Devices
    /\ push \in [Dials -> [phase : {"none", "read", "mint"}, list : SUBSET Devices]]
    /\ policy \in {"on", "elsewhere", "off"}
    /\ excuse \subseteq {"late close", "overtaken", "mint broken"}
    /\ failures \in 0 .. MaxFailures /\ edits \in 0 .. MaxEdits
VerbTypes ==
    /\ verb \in [Asks -> {"idle", "listing", "ready", "waiting", "polling", "attached", "rejected", "failed"}]
    /\ before \in [Asks -> SUBSET Asks] /\ errs \subseteq Asks
SpawnTypes ==
    /\ spawned \subseteq Spawns /\ rooms \subseteq Asks /\ windows \subseteq rooms
    /\ launched \in [Asks -> Nat]

LEMMA LaunchTypesSplit ==
    LaunchTypeOK <=> LinkTypes /\ OwnerTypes /\ TrustTypes /\ VerbTypes /\ SpawnTypes
  BY DEF LaunchTypeOK, LinkTypes, OwnerTypes, TrustTypes, VerbTypes, SpawnTypes,
     GateCalls, LineFrames, Counts, Kinds

LEMMA LinkTypesStep ==
    ASSUME LinkTypes, LaunchNext
    PROVE  LinkTypes'
<1>0. UNCHANGED linkPart => LinkTypes'
  BY DEF LinkTypes, linkPart
<1>1. CASE ReconnectTimer \/ Stop
  BY <1>1 DEF ReconnectTimer, connectOnce, Stop, LinkTypes
<1>2. CASE Reconfigure \/ SessionEnds \/ GateReads \/ GateAndAttach \/ SpawnEnds
  BY <1>0, <1>2, Zenon DEF Reconfigure, SessionEnds, GateReads, GateAndAttach, SpawnEnds
<1>3. ASSUME NEW d \in Dials, ListPeers(d) \/ PushAllowList(d) \/ OnMessage(d)
      PROVE  LinkTypes'
  BY <1>0, <1>3, Zenon DEF ListPeers, PushAllowList, OnMessage
<1>4. ASSUME NEW d \in Dials, ConnectResolves(d) \/ ConnectRejects(d) \/ ConnectTimer(d)
                                \/ ConnectResolvesLate(d) \/ OnClose(d)
      PROVE  LinkTypes'
  <2>1. (~ halted) \in BOOLEAN
    BY DEF LinkTypes
  <2>2. dial' \in [Dials -> {"dialing", "closing", "late", "open", "shut", "closed"}]
    BY <1>4 DEF LinkTypes, ConnectResolves, ConnectRejects, ConnectTimer, ConnectResolvesLate, OnClose
  <2>3. latest' = latest /\ halted' = halted
    BY <1>4, Zenon DEF ConnectResolves, ConnectRejects, ConnectTimer, ConnectResolvesLate, OnClose
  <2>4. redial' = redial \/ redial' = ~ halted
    BY <1>4, Zenon DEF ConnectResolves, ConnectRejects, ConnectTimer, ConnectResolvesLate, OnClose, scheduleReconnect
  <2>5. redial' \in BOOLEAN
    BY <2>1, <2>4, Zenon DEF LinkTypes
  <2> QED
    BY <2>2, <2>3, <2>5 DEF LinkTypes
<1>5. ASSUME NEW o \in Devices, PairingChanges(o)
      PROVE  LinkTypes'
  BY <1>0, <1>5, Zenon DEF PairingChanges
<1>6. ASSUME NEW q \in Asks, StartCreate(q) \/ StartResume(q) \/ launchAndWait(q) \/ ErrorArrives(q)
                                 \/ VerbTimeout(q) \/ waitForRoom(q)
      PROVE  LinkTypes'
  BY <1>0, <1>6, Zenon DEF StartCreate, StartResume, launchAndWait, ErrorArrives, VerbTimeout, waitForRoom
<1>7. ASSUME NEW q \in Asks, ListStored(q) \/ Recheck(q) \/ LaunchRefused(q) \/ launchSession(q)
      PROVE  LinkTypes'
  BY <1>0, <1>7, Zenon DEF ListStored, Recheck, LaunchRefused, launchSession
<1> QED
  BY <1>1, <1>2, <1>3, <1>4, <1>5, <1>6, <1>7 DEF LaunchNext

LEMMA TrustTypesStep ==
    ASSUME LaunchTypeOK, LaunchNext
    PROVE  TrustTypes'
<1>0. TrustTypes
  BY LaunchTypesSplit
<1>1. Failure \/ Edit \/ Calm => failures' \in 0 .. MaxFailures /\ edits' \in 0 .. MaxEdits
  <2>1. failures \in 0 .. MaxFailures /\ edits \in 0 .. MaxEdits
    BY <1>0 DEF TrustTypes
  <2>2. CASE Failure
    BY <2>1, <2>2, LaunchAssumption DEF Failure
  <2>3. CASE Edit
    BY <2>1, <2>3, LaunchAssumption DEF Edit
  <2>4. CASE Calm
    BY <2>1, <2>4 DEF Calm
  <2> QED
    BY <2>2, <2>3, <2>4
<1>2. UNCHANGED <<trustPart, policy, excuse>> /\ (Failure \/ Edit \/ Calm) => TrustTypes'
  BY <1>0, <1>1 DEF TrustTypes, trustPart
<1>3. CASE ReconnectTimer \/ Stop
  BY <1>2, <1>3, Zenon DEF ReconnectTimer, Stop
<1>4. CASE Reconfigure
  BY <1>0, <1>1, <1>4 DEF Reconfigure, TrustTypes, trustPart
<1>5. CASE SessionEnds \/ GateReads \/ GateAndAttach \/ SpawnEnds
  BY <1>2, <1>5, Zenon DEF SessionEnds, GateReads, GateAndAttach, SpawnEnds
<1>6. ASSUME NEW d \in Dials, ListPeers(d)
      PROVE  TrustTypes'
  <2>1. [phase |-> "mint", list |-> paired] \in [phase : {"none", "read", "mint"}, list : SUBSET Devices]
    BY <1>0 DEF TrustTypes
  <2> QED
    BY <1>0, <1>1, <1>6, <2>1 DEF ListPeers, TrustTypes
<1>7. ASSUME NEW d \in Dials, PushAllowList(d)
      PROVE  TrustTypes'
  <2>1. NoPush \in [phase : {"none", "read", "mint"}, list : SUBSET Devices] /\ push[d].list \in SUBSET Devices
    BY <1>0 DEF TrustTypes, NoPush
  <2>2. push' \in [Dials -> [phase : {"none", "read", "mint"}, list : SUBSET Devices]]
    BY <1>0, <1>7, <2>1 DEF PushAllowList, TrustTypes
  <2>3. allowed' \subseteq Devices /\ excuse' \subseteq {"late close", "overtaken", "mint broken"}
        /\ UNCHANGED <<paired, policy>> /\ (Failure \/ Calm)
    BY <1>0, <1>7, <2>1 DEF PushAllowList, TrustTypes
  <2> QED
    BY <1>0, <1>1, <2>2, <2>3 DEF TrustTypes
<1>8. ASSUME NEW d \in Dials, OnMessage(d)
      PROVE  TrustTypes'
  BY <1>2, <1>8, Zenon DEF OnMessage
<1>9. ASSUME NEW d \in Dials, ConnectResolves(d)
      PROVE  TrustTypes'
  <2>1. [phase |-> "read", list |-> {}] \in [phase : {"none", "read", "mint"}, list : SUBSET Devices]
    OBVIOUS
  <2> QED
    BY <1>0, <1>1, <1>9, <2>1 DEF ConnectResolves, TrustTypes
<1>10. ASSUME NEW d \in Dials, ConnectRejects(d) \/ ConnectTimer(d) \/ ConnectResolvesLate(d)
      PROVE  TrustTypes'
  BY <1>2, <1>10, Zenon DEF ConnectRejects, ConnectTimer, ConnectResolvesLate
<1>11. ASSUME NEW d \in Dials, OnClose(d)
      PROVE  TrustTypes'
  <2>1. UNCHANGED <<trustPart, policy>> /\ (Failure \/ Calm)
        /\ (excuse' = excuse \/ excuse' = excuse \union {"late close"})
    BY <1>11, Zenon DEF OnClose
  <2> QED
    BY <1>0, <1>1, <2>1 DEF TrustTypes, trustPart
<1>12. ASSUME NEW o \in Devices, PairingChanges(o)
      PROVE  TrustTypes'
  BY <1>0, <1>1, <1>12 DEF PairingChanges, TrustTypes
<1>13. ASSUME NEW q \in Asks, StartCreate(q) \/ StartResume(q) \/ launchAndWait(q) \/ ErrorArrives(q)
                                 \/ VerbTimeout(q) \/ waitForRoom(q)
      PROVE  TrustTypes'
  BY <1>2, <1>13, Zenon DEF StartCreate, StartResume, launchAndWait, ErrorArrives, VerbTimeout, waitForRoom
<1>14. ASSUME NEW q \in Asks, ListStored(q) \/ Recheck(q) \/ LaunchRefused(q) \/ launchSession(q)
      PROVE  TrustTypes'
  BY <1>2, <1>14, Zenon DEF ListStored, Recheck, LaunchRefused, launchSession
<1> QED
  BY <1>3, <1>4, <1>5, <1>6, <1>7, <1>8, <1>9, <1>10, <1>11, <1>12, <1>13, <1>14 DEF LaunchNext

LEMMA VerbTypesStep ==
    ASSUME LaunchTypeOK, LaunchNext
    PROVE  VerbTypes'
<1>0. VerbTypes
  BY LaunchTypesSplit
<1>1. UNCHANGED verbPart => VerbTypes'
  BY <1>0 DEF VerbTypes, verbPart
<1>2. CASE ReconnectTimer \/ Stop \/ Reconfigure \/ SessionEnds \/ GateReads \/ GateAndAttach \/ SpawnEnds
  BY <1>1, <1>2, Zenon DEF ReconnectTimer, Stop, Reconfigure, SessionEnds, GateReads, GateAndAttach, SpawnEnds
<1>3. ASSUME NEW d \in Dials,
             \/ ConnectResolves(d) \/ ConnectRejects(d) \/ ConnectTimer(d)
             \/ ConnectResolvesLate(d) \/ OnClose(d)
             \/ ListPeers(d) \/ PushAllowList(d) \/ OnMessage(d)
      PROVE  VerbTypes'
  BY <1>1, <1>3, Zenon DEF ConnectResolves, ConnectRejects, ConnectTimer, ConnectResolvesLate, OnClose,
     ListPeers, PushAllowList, OnMessage
<1>4. ASSUME NEW o \in Devices, PairingChanges(o)
      PROVE  VerbTypes'
  BY <1>1, <1>4, Zenon DEF PairingChanges
<1>5. ASSUME NEW q \in Asks, Recheck(q) \/ launchSession(q)
      PROVE  VerbTypes'
  BY <1>1, <1>5, Zenon DEF Recheck, launchSession
<1>6. ASSUME NEW q \in Asks, StartCreate(q) \/ ErrorArrives(q) \/ VerbTimeout(q) \/ waitForRoom(q)
      PROVE  VerbTypes'
  <2>1. rooms \subseteq Asks
    BY LaunchTypesSplit DEF SpawnTypes
  <2> QED
    BY <1>0, <1>6, <2>1 DEF StartCreate, ErrorArrives, VerbTimeout, waitForRoom, VerbTypes
<1>7. ASSUME NEW q \in Asks, StartResume(q) \/ launchAndWait(q)
      PROVE  VerbTypes'
  BY <1>0, <1>7 DEF StartResume, launchAndWait, Forward, VerbTypes
<1>8. ASSUME NEW q \in Asks, ListStored(q) \/ LaunchRefused(q)
      PROVE  VerbTypes'
  BY <1>0, <1>8 DEF ListStored, LaunchRefused, Refuse, VerbTypes
<1> QED
  BY <1>2, <1>3, <1>4, <1>5, <1>6, <1>7, <1>8 DEF LaunchNext

LEMMA SpawnTypesStep ==
    ASSUME LaunchTypeOK, LaunchNext
    PROVE  SpawnTypes'
<1>0. SpawnTypes
  BY LaunchTypesSplit
<1>1. UNCHANGED spawnPart => SpawnTypes'
  BY <1>0 DEF SpawnTypes, spawnPart
<1>2. CASE ReconnectTimer \/ Stop \/ Reconfigure \/ GateReads \/ GateAndAttach
  BY <1>1, <1>2, Zenon DEF ReconnectTimer, Stop, Reconfigure, GateReads, GateAndAttach
<1>3. ASSUME NEW d \in Dials,
             \/ ConnectResolves(d) \/ ConnectRejects(d) \/ ConnectTimer(d)
             \/ ConnectResolvesLate(d) \/ OnClose(d)
             \/ ListPeers(d) \/ PushAllowList(d) \/ OnMessage(d)
      PROVE  SpawnTypes'
  BY <1>1, <1>3, Zenon DEF ConnectResolves, ConnectRejects, ConnectTimer, ConnectResolvesLate, OnClose,
     ListPeers, PushAllowList, OnMessage
<1>4. ASSUME NEW o \in Devices, PairingChanges(o)
      PROVE  SpawnTypes'
  BY <1>1, <1>4, Zenon DEF PairingChanges
<1>5. ASSUME NEW q \in Asks,
             \/ StartCreate(q) \/ StartResume(q) \/ launchAndWait(q)
             \/ ErrorArrives(q) \/ VerbTimeout(q) \/ waitForRoom(q)
             \/ ListStored(q) \/ Recheck(q) \/ LaunchRefused(q)
      PROVE  SpawnTypes'
  BY <1>1, <1>5, Zenon DEF StartCreate, StartResume, launchAndWait, ErrorArrives, VerbTimeout, waitForRoom,
     ListStored, Recheck, LaunchRefused
<1>6. \A q \in Asks, h \in {"new-session", "new-window", "workspace", "agent"} : [ask |-> q, how |-> h] \in Spawns
  BY DEF Spawns
<1>7. \A s \in Spawns : s.ask \in Asks /\ [s EXCEPT !.how = "agent"] \in Spawns
  BY DEF Spawns
<1>8. ASSUME NEW q \in Asks, launchSession(q)
      PROVE  SpawnTypes'
  <2>1. \/ UNCHANGED <<spawned, launched>>
        \/ \E h \in {"new-session", "new-window", "workspace", "agent"} :
              spawned' = spawned \union {[ask |-> q, how |-> h]} /\ launched' = [launched EXCEPT ![q] = @ + 1]
    BY <1>8 DEF launchSession
  <2>2. UNCHANGED <<rooms, windows>>
    BY <1>8 DEF launchSession
  <2>3. CASE UNCHANGED <<spawned, launched>>
    BY <1>0, <2>2, <2>3 DEF SpawnTypes
  <2>4. ASSUME NEW h \in {"new-session", "new-window", "workspace", "agent"},
               spawned' = spawned \union {[ask |-> q, how |-> h]}, launched' = [launched EXCEPT ![q] = @ + 1]
        PROVE  SpawnTypes'
    <3>1. [ask |-> q, how |-> h] \in Spawns
      BY <1>6
    <3>2. spawned' \subseteq Spawns
      BY <1>0, <2>4, <3>1 DEF SpawnTypes
    <3>3. launched' \in [Asks -> Nat]
      BY <1>0, <2>4 DEF SpawnTypes
    <3> QED
      BY <1>0, <2>2, <3>2, <3>3 DEF SpawnTypes
  <2> QED
    BY <2>1, <2>3, <2>4
<1>9. CASE SpawnEnds
  <2>1. PICK s \in spawned :
            /\ UNCHANGED launched
            /\ spawned' \subseteq (spawned \ {s}) \union {[s EXCEPT !.how = "agent"]}
            /\ \/ UNCHANGED <<rooms, windows>>
               \/ rooms' = rooms \union {s.ask} /\ (windows' = windows \/ windows' = windows \union {s.ask})
    BY <1>9 DEF SpawnEnds
  <2> QED
    BY <1>0, <1>7, <2>1 DEF SpawnTypes
<1>10. CASE SessionEnds
  BY <1>0, <1>10 DEF SessionEnds, SpawnTypes
<1> QED
  BY <1>2, <1>3, <1>4, <1>5, <1>8, <1>9, <1>10 DEF LaunchNext

LEMMA OwnerTypesStep ==
    ASSUME LaunchTypeOK, FreshClean, LaunchNext
    PROVE  OwnerTypes'
<1>0. OwnerTypes /\ AskedBy \in [Asks -> Devices]
  BY LaunchTypesSplit, LaunchAssumption
<1>1. UNCHANGED ownerPart => OwnerTypes'
  BY <1>0 DEF OwnerTypes, ownerPart
<1>2. CASE Reconfigure \/ SessionEnds \/ SpawnEnds
  BY <1>1, <1>2, Zenon DEF Reconfigure, SessionEnds, SpawnEnds
<1>3. CASE ReconnectTimer
  BY <1>0, <1>3 DEF ReconnectTimer, connectOnce, OwnerTypes
<1>4. CASE Stop
  <2>1. \A d \in Dials, o \in Devices :
            (IF chan[o] = d THEN ears[d][o] - 1 ELSE ears[d][o]) \in Nat
    BY <1>0 DEF OwnerTypes, FreshClean, Dials
  <2>2. ears' \in [Dials -> [Devices -> Nat]]
    BY <1>4, <2>1 DEF Stop
  <2> QED
    BY <1>0, <1>4, <2>2 DEF Stop, OwnerTypes
<1>5. CASE GateReads
  <2>1. gates' \subseteq GateCalls
    BY <1>0, <1>5, FrameShapes DEF GateReads, OwnerTypes
  <2> QED
    BY <1>0, <1>5, <2>1, Zenon DEF GateReads, OwnerTypes
<1>6. CASE GateAndAttach
  <2>1. PICK g \in gates :
            /\ gates' = gates \ {g} /\ UNCHANGED <<lines, cleared>>
            /\ \/ /\ chan' = [chan EXCEPT ![AskedBy[g.ask]] = g.on]
                  /\ ears' = [ears EXCEPT ![g.on][AskedBy[g.ask]] = @ + 1]
                  /\ handling' = Handled(g.ask, g.what, 1)
               \/ UNCHANGED <<chan, ears, handling>>
    BY <1>6 DEF GateAndAttach
  <2>2. g.on \in Dials /\ g.ask \in Asks /\ g.what \in Kinds /\ AskedBy[g.ask] \in Devices
    BY <1>0, <2>1, FrameShapes DEF OwnerTypes
  <2>3. Handled(g.ask, g.what, 1) \in Counts
    BY <1>0, <2>2, HandledCounts DEF OwnerTypes
  <2>4. ears[g.on][AskedBy[g.ask]] + 1 \in Nat
    BY <1>0, <2>2 DEF OwnerTypes
  <2>5. chan' \in [Devices -> Dials \union {0}] /\ ears' \in [Dials -> [Devices -> Nat]]
    <3>1. CASE UNCHANGED <<chan, ears>>
      BY <1>0, <3>1 DEF OwnerTypes
    <3>2. CASE /\ chan' = [chan EXCEPT ![AskedBy[g.ask]] = g.on]
               /\ ears' = [ears EXCEPT ![g.on][AskedBy[g.ask]] = @ + 1]
      <4>1. chan' \in [Devices -> Dials \union {0}]
        BY <1>0, <2>2, <3>2 DEF OwnerTypes
      <4>2. ears' \in [Dials -> [Devices -> Nat]]
        BY <1>0, <2>2, <2>4, <3>2 DEF OwnerTypes
      <4> QED
        BY <4>1, <4>2
    <3> QED
      BY <2>1, <3>1, <3>2
  <2> QED
    BY <1>0, <2>1, <2>3, <2>5 DEF OwnerTypes
<1>7. ASSUME NEW d \in Dials, OnMessage(d)
      PROVE  OwnerTypes'
  <2>1. PICK f \in lines :
            /\ lines' = lines \ {f} /\ UNCHANGED <<chan, ears>>
            /\ handling' = Handled(f.ask, f.what, ears[d][AskedBy[f.ask]])
            /\ gates' \subseteq gates \union {[on |-> d, ask |-> f.ask, what |-> f.what, phase |-> "read"]}
            /\ cleared' \subseteq cleared \union {f.ask}
    BY <1>7 DEF OnMessage
  <2>2. f.ask \in Asks /\ f.what \in Kinds /\ AskedBy[f.ask] \in Devices
    BY <1>0, <2>1, FrameShapes DEF OwnerTypes
  <2>3. ears[d][AskedBy[f.ask]] \in Nat
    BY <1>0, <2>2 DEF OwnerTypes
  <2>4. handling' \in Counts
    BY <1>0, <2>1, <2>2, <2>3, HandledCounts DEF OwnerTypes
  <2>5. gates' \subseteq GateCalls /\ lines' \subseteq LineFrames /\ cleared' \subseteq Asks
    BY <1>0, <2>1, <2>2, FrameShapes DEF OwnerTypes
  <2> QED
    BY <1>0, <2>1, <2>4, <2>5 DEF OwnerTypes
<1>8. ASSUME NEW d \in Dials, OnClose(d)
      PROVE  OwnerTypes'
  <2>1. chan' \in [Devices -> Dials \union {0}]
    BY <1>8 DEF OnClose
  <2>2. lines' \subseteq lines /\ UNCHANGED <<ears, gates, handling, cleared>>
    BY <1>8 DEF OnClose
  <2> QED
    BY <1>0, <2>1, <2>2 DEF OwnerTypes
<1>9. ASSUME NEW d \in Dials, ConnectResolves(d) \/ ConnectRejects(d) \/ ConnectTimer(d)
                                \/ ConnectResolvesLate(d) \/ ListPeers(d) \/ PushAllowList(d)
      PROVE  OwnerTypes'
  BY <1>1, <1>9, Zenon DEF ConnectResolves, ConnectRejects, ConnectTimer, ConnectResolvesLate, ListPeers, PushAllowList
<1>10. ASSUME NEW o \in Devices, PairingChanges(o)
      PROVE  OwnerTypes'
  <2>1. Arrived(o) \subseteq Asks
    BY DEF Arrived
  <2>2. cleared' \subseteq Asks /\ UNCHANGED <<chan, ears, gates, handling, lines>>
    BY <1>0, <1>10, <2>1 DEF PairingChanges, OwnerTypes
  <2> QED
    BY <1>0, <2>2 DEF OwnerTypes
<1>11. ASSUME NEW q \in Asks, StartCreate(q) \/ ErrorArrives(q) \/ VerbTimeout(q) \/ waitForRoom(q)
      PROVE  OwnerTypes'
  BY <1>1, <1>11, Zenon DEF StartCreate, ErrorArrives, VerbTimeout, waitForRoom
<1>12. ASSUME NEW q \in Asks, StartResume(q) \/ launchAndWait(q)
      PROVE  OwnerTypes'
  <2>1. PICK w \in Kinds : Forward(q, w) /\ UNCHANGED <<chan, ears, gates, handling, cleared>>
    BY <1>12 DEF StartResume, launchAndWait, Kinds
  <2>2. lines' \subseteq LineFrames
    BY <1>0, <2>1, FrameShapes DEF Forward, OwnerTypes
  <2> QED
    BY <1>0, <2>1, <2>2 DEF OwnerTypes
<1>13. ASSUME NEW q \in Asks, ListStored(q) \/ Recheck(q) \/ LaunchRefused(q) \/ launchSession(q)
      PROVE  OwnerTypes'
  <2>1. handling' \in Counts
    BY <1>0, <1>13, HandlerSteps DEF OwnerTypes
  <2>2. UNCHANGED <<chan, ears, gates, lines, cleared>>
    BY <1>13, Zenon DEF ListStored, Recheck, LaunchRefused, launchSession
  <2> QED
    BY <1>0, <2>1, <2>2 DEF OwnerTypes
<1> QED
  BY <1>2, <1>3, <1>4, <1>5, <1>6, <1>7, <1>8, <1>9, <1>10, <1>11, <1>12, <1>13 DEF LaunchNext

LEMMA LaunchTypesStep ==
    ASSUME LaunchTypeOK, FreshClean, LaunchNext
    PROVE  LaunchTypeOK'
<1>1. LinkTypes' /\ OwnerTypes' /\ TrustTypes' /\ VerbTypes' /\ SpawnTypes'
  BY LaunchTypesSplit, LinkTypesStep, OwnerTypesStep, TrustTypesStep, VerbTypesStep, SpawnTypesStep
<1> QED
  BY <1>1 DEF LaunchTypeOK, LinkTypes, OwnerTypes, TrustTypes, VerbTypes, SpawnTypes,
     GateCalls, LineFrames, Counts, Kinds

-----------------------------------------------------------------------------
(* The connection and its channels *)

LEMMA FreshCleanStep ==
    ASSUME LaunchTypeOK, FreshClean, LaunchNext
    PROVE  FreshClean'
<1>0. LinkTypes /\ OwnerTypes /\ AskedBy \in [Asks -> Devices] /\ \A d \in Dials : d # 0
  BY LaunchTypesSplit, LaunchAssumption DEF Dials
<1>1. UNCHANGED <<dial, gates, ears, chan, lines>> => FreshClean'
  BY DEF FreshClean, Fresh
<1>2. CASE Reconfigure \/ SessionEnds \/ SpawnEnds
  BY <1>1, <1>2, Zenon DEF Reconfigure, SessionEnds, SpawnEnds, linkPart, ownerPart
<1>3. CASE ReconnectTimer
  <2>1. PICK d \in Dials : connectOnce(d)
    BY <1>3 DEF ReconnectTimer
  <2>2. UNCHANGED <<chan, gates, lines>>
    BY <1>3 DEF ReconnectTimer
  <2>3. /\ dial[d] = "closed" /\ \A g \in gates : g.on # d
        /\ \A o \in Devices : chan[o] # d
        /\ dial' = [dial EXCEPT ![d] = "dialing"] /\ ears' = [ears EXCEPT ![d] = [o \in Devices |-> 0]]
    BY <2>1 DEF connectOnce, Spare
  <2>4. \A e \in Dials : e # d => dial'[e] = dial[e] /\ ears'[e] = ears[e]
    BY <1>0, <2>3 DEF LinkTypes, OwnerTypes
  <2>5. dial'[d] = "dialing" /\ \A o \in Devices : ears'[d][o] = 0
    BY <1>0, <2>3 DEF LinkTypes, OwnerTypes
  <2>6. \A f \in lines : f.on \in Dials /\ f.on # d
    BY <1>0, <2>3, FrameShapes DEF OwnerTypes, FreshClean
  <2>7. \A o \in Devices : chan[o] \in Dials \union {0}
    BY <1>0 DEF OwnerTypes
  <2> QED
    BY <2>2, <2>3, <2>4, <2>5, <2>6, <2>7 DEF FreshClean, Fresh
<1>4. CASE Stop
  <2>1. /\ \A d \in Dials : \/ dial'[d] = dial[d]
                            \/ dial[d] = "dialing" /\ dial'[d] = "closing"
                            \/ dial[d] = "open" /\ dial'[d] = "shut"
        /\ \A d \in Dials, o \in Devices : ears'[d][o] = IF chan[o] = d THEN ears[d][o] - 1 ELSE ears[d][o]
        /\ \A o \in Devices : chan'[o] = 0
        /\ UNCHANGED <<gates, lines>>
    BY <1>0, <1>4 DEF Stop, LinkTypes
  <2>2. \A f \in lines : f.on \in Dials
    BY <1>0, FrameShapes DEF OwnerTypes
  <2> QED
    BY <1>0, <2>1, <2>2 DEF FreshClean, Fresh
<1>5. CASE GateReads
  <2>1. \A h \in gates' : \E g \in gates : h.on = g.on
    BY <1>0, <1>5, GateGoesOn DEF OwnerTypes
  <2>2. UNCHANGED <<dial, ears, chan, lines>>
    BY <1>5 DEF GateReads, linkPart
  <2> QED
    BY <2>1, <2>2 DEF FreshClean, Fresh
<1>6. CASE GateAndAttach
  <2>1. PICK g \in gates :
            /\ gates' = gates \ {g} /\ UNCHANGED <<lines, dial>>
            /\ \/ /\ chan' = [chan EXCEPT ![AskedBy[g.ask]] = g.on]
                  /\ ears' = [ears EXCEPT ![g.on][AskedBy[g.ask]] = @ + 1]
               \/ UNCHANGED <<chan, ears>>
    BY <1>6 DEF GateAndAttach, linkPart
  <2>2. g.on \in Dials /\ AskedBy[g.ask] \in Devices /\ ~ Fresh(g.on)
    BY <1>0, <2>1, FrameShapes DEF OwnerTypes, FreshClean
  <2>3. CASE UNCHANGED <<chan, ears>>
    BY <2>1, <2>3 DEF FreshClean, Fresh
  <2>4. CASE /\ chan' = [chan EXCEPT ![AskedBy[g.ask]] = g.on]
             /\ ears' = [ears EXCEPT ![g.on][AskedBy[g.ask]] = @ + 1]
    <3>1. /\ \A o \in Devices : chan'[o] = IF o = AskedBy[g.ask] THEN g.on ELSE chan[o]
          /\ \A d \in Dials, o \in Devices :
                ears'[d][o] = IF d = g.on /\ o = AskedBy[g.ask] THEN ears[d][o] + 1 ELSE ears[d][o]
      BY <1>0, <2>2, <2>4 DEF OwnerTypes
    <3>2. \A d \in Dials, o \in Devices : ears[d][o] \in Nat
      BY <1>0 DEF OwnerTypes
    <3>3. \A o \in Devices : chan'[o] # 0 => ears'[chan'[o]][o] > 0
      <4> SUFFICES ASSUME NEW o \in Devices, chan'[o] # 0 PROVE ears'[chan'[o]][o] > 0
        OBVIOUS
      <4>1. CASE o = AskedBy[g.ask]
        BY <2>2, <3>1, <3>2, <4>1
      <4>2. CASE o # AskedBy[g.ask]
        <5>1. chan[o] \in Dials /\ chan[o] # 0 /\ chan'[o] = chan[o]
          BY <1>0, <3>1, <4>2 DEF OwnerTypes
        <5> QED
          BY <3>1, <4>2, <5>1 DEF FreshClean
      <4> QED
        BY <4>1, <4>2
    <3>4. \A d \in Dials : Fresh(d)' =>
             /\ \A h \in gates' : h.on # d
             /\ \A o \in Devices : ears'[d][o] = 0 /\ chan'[o] # d
      BY <2>1, <2>2, <3>1 DEF FreshClean, Fresh
    <3> QED
      BY <2>1, <3>3, <3>4 DEF FreshClean
  <2> QED
    BY <2>1, <2>3, <2>4
<1>7. ASSUME NEW d \in Dials, OnMessage(d)
      PROVE  FreshClean'
  <2>1. PICK f \in lines :
            /\ lines' = lines \ {f} /\ UNCHANGED <<chan, ears, dial>> /\ dial[d] = "open"
            /\ gates' \subseteq gates \union {[on |-> d, ask |-> f.ask, what |-> f.what, phase |-> "read"]}
    BY <1>7 DEF OnMessage, linkPart
  <2> QED
    BY <2>1 DEF FreshClean, Fresh
<1>8. ASSUME NEW d \in Dials, OnClose(d)
      PROVE  FreshClean'
  <2>1. /\ dial' = [dial EXCEPT ![d] = "closed"] /\ lines' = {f \in lines : f.on # d}
        /\ chan' = [o \in Devices |-> 0] /\ UNCHANGED <<ears, gates>>
    BY <1>8 DEF OnClose
  <2>2. \A e \in Dials : dial'[e] = IF e = d THEN "closed" ELSE dial[e]
    BY <1>0, <2>1 DEF LinkTypes
  <2>3. \A f \in lines : f.on \in Dials
    BY <1>0, FrameShapes DEF OwnerTypes
  <2> QED
    BY <1>0, <2>1, <2>2, <2>3 DEF FreshClean, Fresh
<1>9. ASSUME NEW d \in Dials,
             ConnectResolves(d) \/ ConnectRejects(d) \/ ConnectTimer(d) \/ ConnectResolvesLate(d)
      PROVE  FreshClean'
  <2>1. /\ Fresh(d) /\ \A e \in Dials : e # d => dial'[e] = dial[e]
        /\ UNCHANGED <<chan, ears, gates, lines>>
    BY <1>0, <1>9 DEF ConnectResolves, ConnectRejects, ConnectTimer, ConnectResolvesLate, LinkTypes, Fresh, ownerPart
  <2>2. \A f \in lines : f.on \in Dials /\ f.on # d
    BY <1>0, <2>1, FrameShapes DEF OwnerTypes, FreshClean, Fresh
  <2> QED
    BY <2>1, <2>2 DEF FreshClean, Fresh
<1>10. ASSUME NEW d \in Dials, ListPeers(d) \/ PushAllowList(d)
      PROVE  FreshClean'
  BY <1>1, <1>10, Zenon DEF ListPeers, PushAllowList, linkPart, ownerPart
<1>11. ASSUME NEW o \in Devices, PairingChanges(o)
      PROVE  FreshClean'
  BY <1>1, <1>11, Zenon DEF PairingChanges, linkPart
<1>12. ASSUME NEW q \in Asks, StartCreate(q) \/ ErrorArrives(q) \/ VerbTimeout(q) \/ waitForRoom(q)
                                 \/ ListStored(q) \/ Recheck(q) \/ LaunchRefused(q) \/ launchSession(q)
      PROVE  FreshClean'
  BY <1>1, <1>12, Zenon DEF StartCreate, ErrorArrives, VerbTimeout, waitForRoom, ListStored, Recheck, LaunchRefused,
     launchSession, linkPart, ownerPart
<1>13. ASSUME NEW q \in Asks, StartResume(q) \/ launchAndWait(q)
      PROVE  FreshClean'
  <2>1. PICK w \in Kinds : Forward(q, w) /\ UNCHANGED <<chan, ears, gates, dial>>
    BY <1>13 DEF StartResume, launchAndWait, Kinds, linkPart
  <2>2. \A f \in lines' : f \in lines \/ dial[f.on] = "open"
    BY <2>1 DEF Forward
  <2> QED
    BY <2>1, <2>2 DEF FreshClean, Fresh
<1> QED
  BY <1>2, <1>3, <1>4, <1>5, <1>6, <1>7, <1>8, <1>9, <1>10, <1>11, <1>12, <1>13 DEF LaunchNext

\* The calls and launches of a device that is paired are recorded as cleared.
Held(q) ==
    \/ \E g \in gates : g.ask = q /\ g.what = "launch"
    \/ handling[q]["read"] > 0 \/ handling[q]["yes"] > 0 \/ handling[q]["no"] > 0

LEMMA ClearedForms ==
    ASSUME AskedBy \in [Asks -> Devices]
    PROVE  /\ ClearedInTime <=>
                  \A q \in Asks : /\ AskedBy[q] \in paired /\ Held(q) => q \in cleared
                                  /\ handling[q]["yes"] > 0 \/ launched[q] > 0 => q \in cleared
           /\ ClearedInTime' <=>
                  \A q \in Asks : /\ AskedBy[q] \in paired' /\ Held(q)' => q \in cleared'
                                  /\ handling'[q]["yes"] > 0 \/ launched'[q] > 0 => q \in cleared'
           /\ \A o \in Devices, q \in Asks : AskedBy[q] = o /\ Held(q) => q \in Arrived(o)
<1>1. Phases \ {"list"} = {"read", "yes", "no"}
  BY DEF Phases
<1>2. \A q \in Asks : q \in Arrived(AskedBy[q]) <=> Held(q)
  BY <1>1 DEF Arrived, Held
<1>3. \A q \in Asks : q \in Arrived(AskedBy[q])' <=> Held(q)'
  BY <1>1 DEF Arrived, Held
<1> QED
  BY <1>2, <1>3 DEF ClearedInTime

LEMMA ClearedStep ==
    ASSUME LaunchTypeOK, ClearedInTime, LaunchNext
    PROVE  ClearedInTime'
<1>0. OwnerTypes /\ SpawnTypes /\ TrustTypes /\ AskedBy \in [Asks -> Devices]
      /\ \A q \in Asks : launched[q] \in Nat
  BY LaunchTypesSplit, LaunchAssumption DEF SpawnTypes
<1>c. \A q \in Asks : /\ AskedBy[q] \in paired /\ Held(q) => q \in cleared
                      /\ handling[q]["yes"] > 0 \/ launched[q] > 0 => q \in cleared
  BY <1>0, ClearedForms
<1>t. \A q \in Asks, p \in {"list", "read", "yes", "no"} : handling[q][p] \in Nat
  BY <1>0 DEF OwnerTypes, Counts, Phases
<1>1. ASSUME UNCHANGED <<paired, gates, handling, launched>>, cleared \subseteq cleared'
      PROVE  ClearedInTime'
  BY <1>0, <1>1, <1>c, ClearedForms DEF Held
<1>2. CASE ReconnectTimer \/ Stop \/ Reconfigure \/ SessionEnds \/ SpawnEnds
  <2>1. UNCHANGED <<paired, gates, handling, launched, cleared>>
    BY <1>2, Zenon DEF ReconnectTimer, Stop, Reconfigure, SessionEnds, SpawnEnds, ownerPart, trustPart, spawnPart
  <2> QED
    BY <1>1, <2>1
<1>3. CASE GateReads
  <2>1. \A x \in Asks : Held(x)' => Held(x)
    BY <1>0, <1>3, GateGoesOn DEF GateReads, OwnerTypes, Held
  <2>2. UNCHANGED <<paired, handling, launched, cleared>>
    BY <1>3 DEF GateReads, trustPart, spawnPart
  <2> QED
    BY <1>0, <1>c, <2>1, <2>2, ClearedForms
<1>4. CASE GateAndAttach
  <2>1. PICK g \in gates :
            /\ gates' = gates \ {g} /\ UNCHANGED <<paired, launched, cleared>>
            /\ handling' = Handled(g.ask, g.what, 1) \/ UNCHANGED handling
    BY <1>4 DEF GateAndAttach, trustPart, spawnPart
  <2>2. g.ask \in Asks /\ g.what \in Kinds
    BY <1>0, <2>1, FrameShapes DEF OwnerTypes
  <2>3. \A x \in Asks, y \in Phases :
            \/ handling'[x][y] = handling[x][y]
            \/ x = g.ask /\ y = "read" /\ g.what = "launch"
            \/ y = "list"
    <3>1. CASE UNCHANGED handling
      BY <3>1
    <3>2. CASE handling' = Handled(g.ask, g.what, 1)
      BY <1>0, <2>2, <3>2, HandledCounts DEF OwnerTypes, Kinds
    <3> QED
      BY <2>1, <3>1, <3>2
  <2>4. \A x \in Asks : (Held(x)' => Held(x)) /\ handling'[x]["yes"] = handling[x]["yes"]
    BY <2>1, <2>2, <2>3 DEF Held, Phases
  <2> QED
    BY <1>0, <1>c, <2>1, <2>4, ClearedForms
<1>5. ASSUME NEW d \in Dials, OnMessage(d)
      PROVE  ClearedInTime'
  <2>1. PICK f \in lines :
            /\ UNCHANGED <<paired, launched>> /\ cleared \subseteq cleared'
            /\ AskedBy[f.ask] \in paired /\ f.what = "launch" => f.ask \in cleared'
            /\ handling' = Handled(f.ask, f.what, ears[d][AskedBy[f.ask]])
            /\ gates' \subseteq gates \union {[on |-> d, ask |-> f.ask, what |-> f.what, phase |-> "read"]}
    BY <1>5 DEF OnMessage, trustPart, spawnPart
  <2>2. f.ask \in Asks /\ f.what \in Kinds /\ ears[d][AskedBy[f.ask]] \in Nat
    BY <1>0, <2>1, FrameShapes DEF OwnerTypes
  <2>3. \A x \in Asks, y \in Phases :
            \/ handling'[x][y] = handling[x][y]
            \/ x = f.ask /\ y = "read" /\ f.what = "launch"
            \/ y = "list"
    BY <1>0, <2>1, <2>2, HandledCounts DEF OwnerTypes, Kinds
  <2>4. \A x \in Asks : /\ Held(x)' => Held(x) \/ (x = f.ask /\ f.what = "launch")
                        /\ handling'[x]["yes"] = handling[x]["yes"]
    BY <2>1, <2>2, <2>3 DEF Held, Phases
  <2> QED
    BY <1>0, <1>c, <2>1, <2>4, ClearedForms
<1>6. ASSUME NEW d \in Dials,
             \/ ConnectResolves(d) \/ ConnectRejects(d) \/ ConnectTimer(d)
             \/ ConnectResolvesLate(d) \/ OnClose(d) \/ ListPeers(d) \/ PushAllowList(d)
      PROVE  ClearedInTime'
  <2>1. UNCHANGED <<paired, gates, handling, launched, cleared>>
    BY <1>6, Zenon DEF ConnectResolves, ConnectRejects, ConnectTimer, ConnectResolvesLate, OnClose, ListPeers,
       PushAllowList, ownerPart, trustPart, spawnPart
  <2> QED
    BY <1>1, <2>1
<1>7. ASSUME NEW o \in Devices, PairingChanges(o)
      PROVE  ClearedInTime'
  <2>1. /\ UNCHANGED <<gates, handling, launched>> /\ cleared \subseteq cleared'
        /\ \A u \in Devices : u # o => (u \in paired' <=> u \in paired)
        /\ o \in paired' => Arrived(o) \subseteq cleared'
    BY <1>7 DEF PairingChanges, spawnPart
  <2>2. \A x \in Asks : Held(x)' => Held(x)
    BY <2>1 DEF Held
  <2>3. ASSUME NEW q \in Asks, AskedBy[q] \in paired', Held(q)'
        PROVE  q \in cleared'
    BY <1>0, <1>c, <2>1, <2>2, <2>3, ClearedForms
  <2> QED
    BY <1>0, <1>c, <2>1, <2>3, ClearedForms
<1>8. ASSUME NEW q \in Asks,
             \/ StartCreate(q) \/ StartResume(q) \/ launchAndWait(q)
             \/ ErrorArrives(q) \/ VerbTimeout(q) \/ waitForRoom(q)
      PROVE  ClearedInTime'
  <2>1. UNCHANGED <<paired, gates, handling, launched, cleared>>
    BY <1>8, Zenon DEF StartCreate, StartResume, launchAndWait, ErrorArrives, VerbTimeout, waitForRoom, ownerPart,
       trustPart, spawnPart
  <2> QED
    BY <1>1, <2>1
<1>9. ASSUME NEW q \in Asks, ListStored(q) \/ Recheck(q) \/ LaunchRefused(q) \/ launchSession(q)
      PROVE  ClearedInTime'
  <2>1. UNCHANGED <<paired, gates, cleared>>
    BY <1>9, Zenon DEF ListStored, Recheck, LaunchRefused, launchSession, trustPart
  <2>2. CASE ListStored(q) \/ LaunchRefused(q)
    <3>1. UNCHANGED launched
      BY <2>2 DEF ListStored, LaunchRefused, spawnPart
    <3>2. \A x \in Asks, y \in Phases : handling'[x][y] > 0 => handling[x][y] > 0
      BY <1>0, <1>t, <2>2, HandlerSteps DEF OwnerTypes, Phases
    <3>3. \A x \in Asks : /\ Held(x)' => Held(x)
                          /\ handling'[x]["yes"] > 0 => handling[x]["yes"] > 0
      BY <2>1, <3>2 DEF Held, Phases
    <3> QED
      BY <1>0, <1>c, <2>1, <3>1, <3>3, ClearedForms
  <2>3. CASE launchSession(q)
    <3>1. \A x \in Asks : launched'[x] > 0 => launched[x] > 0 \/ x = q
      BY <1>0, <2>3 DEF launchSession, SpawnTypes
    <3>2. handling[q]["yes"] > 0 /\ \A x \in Asks, y \in Phases : handling'[x][y] > 0 => handling[x][y] > 0
      BY <1>0, <1>t, <2>3, HandlerSteps DEF OwnerTypes, Phases
    <3>3. \A x \in Asks : /\ Held(x)' => Held(x)
                          /\ handling'[x]["yes"] > 0 => handling[x]["yes"] > 0
      BY <2>1, <3>2 DEF Held, Phases
    <3> QED
      BY <1>0, <1>c, <2>1, <3>1, <3>2, <3>3, ClearedForms
  <2>4. CASE Recheck(q)
    <3>1. UNCHANGED launched
      BY <2>4 DEF Recheck, spawnPart
    <3>2. /\ handling[q]["read"] > 0
          /\ \A x \in Asks, y \in Phases : x # q => handling'[x][y] = handling[x][y]
          /\ handling'[q]["yes"] > 0 => handling[q]["yes"] > 0 \/ AskedBy[q] \in paired
      BY <1>0, <1>t, <2>4, HandlerSteps DEF OwnerTypes, Phases
    <3>3. \A x \in Asks : /\ Held(x)' => Held(x)
                          /\ handling'[x]["yes"] > 0 => handling[x]["yes"] > 0 \/ (x = q /\ AskedBy[q] \in paired)
      BY <2>1, <3>2 DEF Held, Phases
    <3>4. Held(q)
      BY <3>2 DEF Held
    <3> QED
      BY <1>0, <1>c, <2>1, <3>1, <3>3, <3>4, ClearedForms
  <2> QED
    BY <1>9, <2>2, <2>3, <2>4
<1> QED
  BY <1>2, <1>3, <1>4, <1>5, <1>6, <1>7, <1>8, <1>9 DEF LaunchNext

LEMMA SmoothKept ==
    ASSUME LaunchNext, Smooth'
    PROVE  Smooth /\ \A d \in Dials : OnClose(d) => dial[d] \in {"open", "shut"}
<1>1. \A d \in Dials : OnClose(d) => Smooth /\ dial[d] \in {"open", "shut"}
  BY DEF OnClose, Smooth
<1>2. UNCHANGED excuse => Smooth
  BY DEF Smooth
<1>3. CASE ReconnectTimer \/ Stop \/ Reconfigure \/ SessionEnds \/ GateReads \/ GateAndAttach \/ SpawnEnds
  BY <1>1, <1>2, <1>3, Zenon DEF ReconnectTimer, Stop, Reconfigure, SessionEnds, GateReads, GateAndAttach, SpawnEnds
<1>4. ASSUME NEW d \in Dials,
             \/ ConnectResolves(d) \/ ConnectRejects(d) \/ ConnectTimer(d)
             \/ ConnectResolvesLate(d) \/ ListPeers(d) \/ OnMessage(d)
      PROVE  Smooth
  BY <1>2, <1>4, Zenon DEF ConnectResolves, ConnectRejects, ConnectTimer, ConnectResolvesLate, ListPeers, OnMessage
<1>5. ASSUME NEW d \in Dials, PushAllowList(d)
      PROVE  Smooth
  BY <1>5 DEF PushAllowList, Smooth
<1>6. ASSUME NEW o \in Devices, PairingChanges(o)
      PROVE  Smooth
  BY <1>6 DEF PairingChanges, Smooth
<1>7. ASSUME NEW q \in Asks,
             \/ StartCreate(q) \/ StartResume(q) \/ launchAndWait(q)
             \/ ErrorArrives(q) \/ VerbTimeout(q) \/ waitForRoom(q)
             \/ ListStored(q) \/ Recheck(q) \/ LaunchRefused(q) \/ launchSession(q)
      PROVE  Smooth
  BY <1>2, <1>7, Zenon DEF StartCreate, StartResume, launchAndWait, ErrorArrives, VerbTimeout, waitForRoom, ListStored,
     Recheck, LaunchRefused, launchSession
<1> QED
  BY <1>1, <1>3, <1>4, <1>5, <1>6, <1>7 DEF LaunchNext

LEMMA OneActiveStep ==
    ASSUME LaunchTypeOK, OneActive, LaunchNext, Smooth'
    PROVE  OneActive'
<1>0. LinkTypes
  BY LaunchTypesSplit
<1>1. UNCHANGED linkPart => OneActive'
  BY DEF OneActive, Active, linkPart
<1>2. CASE Reconfigure \/ SessionEnds \/ GateReads \/ GateAndAttach \/ SpawnEnds
  BY <1>1, <1>2, Zenon DEF Reconfigure, SessionEnds, GateReads, GateAndAttach, SpawnEnds
<1>3. CASE ReconnectTimer
  BY <1>0, <1>3 DEF ReconnectTimer, connectOnce, Spare, LinkTypes, OneActive, Active
<1>4. CASE Stop
  <2>1. \A d \in Dials : Active(d)' => Active(d)
    BY <1>0, <1>4 DEF Stop, LinkTypes, Active
  <2>2. redial' = FALSE
    BY <1>4 DEF Stop
  <2> QED
    BY <2>1, <2>2 DEF OneActive
<1>5. ASSUME NEW d \in Dials, ConnectRejects(d) \/ ConnectResolvesLate(d) \/ OnClose(d)
      PROVE  OneActive'
  <2>1. Active(d)
    BY <1>5, SmoothKept DEF ConnectRejects, ConnectResolvesLate, OnClose, Active
  <2>2. \A e \in Dials : ~ Active(e)'
    BY <1>0, <1>5, <2>1 DEF ConnectRejects, ConnectResolvesLate, OnClose, LinkTypes, OneActive, Active
  <2> QED
    BY <2>2 DEF OneActive
<1>6. ASSUME NEW d \in Dials, ConnectResolves(d) \/ ConnectTimer(d)
      PROVE  OneActive'
  <2>1. redial' = redial /\ Active(d) /\ \A e \in Dials : e # d => dial'[e] = dial[e]
    BY <1>0, <1>6 DEF ConnectResolves, ConnectTimer, LinkTypes, Active
  <2> QED
    BY <2>1 DEF OneActive, Active
<1>7. ASSUME NEW d \in Dials, ListPeers(d) \/ PushAllowList(d) \/ OnMessage(d)
      PROVE  OneActive'
  BY <1>1, <1>7, Zenon DEF ListPeers, PushAllowList, OnMessage
<1>8. ASSUME NEW o \in Devices, PairingChanges(o)
      PROVE  OneActive'
  BY <1>1, <1>8, Zenon DEF PairingChanges
<1>9. ASSUME NEW q \in Asks,
             \/ StartCreate(q) \/ StartResume(q) \/ launchAndWait(q)
             \/ ErrorArrives(q) \/ VerbTimeout(q) \/ waitForRoom(q)
             \/ ListStored(q) \/ Recheck(q) \/ LaunchRefused(q) \/ launchSession(q)
      PROVE  OneActive'
  BY <1>1, <1>9, Zenon DEF StartCreate, StartResume, launchAndWait, ErrorArrives, VerbTimeout, waitForRoom, ListStored,
     Recheck, LaunchRefused, launchSession
<1> QED
  BY <1>2, <1>3, <1>4, <1>5, <1>6, <1>7, <1>8, <1>9 DEF LaunchNext

LEMMA OneEarStep ==
    ASSUME LaunchTypeOK, FreshClean, OneActive, OneEar, LaunchNext, Smooth'
    PROVE  OneEar'
<1>0. LinkTypes /\ OwnerTypes /\ AskedBy \in [Asks -> Devices] /\ \A d \in Dials : d # 0
  BY LaunchTypesSplit, LaunchAssumption DEF Dials
<1>1. UNCHANGED <<dial, ears, chan>> => OneEar'
  BY DEF OneEar
<1>2. CASE Reconfigure \/ SessionEnds \/ GateReads \/ SpawnEnds
  BY <1>1, <1>2, Zenon DEF Reconfigure, SessionEnds, GateReads, SpawnEnds, linkPart, ownerPart
<1>3. CASE ReconnectTimer
  <2>1. PICK d \in Dials : dial' = [dial EXCEPT ![d] = "dialing"] /\ ears' = [ears EXCEPT ![d] = [o \in Devices |-> 0]]
    BY <1>3 DEF ReconnectTimer, connectOnce
  <2>2. \A e \in Dials : dial'[e] = "open" => dial[e] = "open" /\ ears'[e] = ears[e]
    BY <1>0, <2>1 DEF LinkTypes, OwnerTypes
  <2>3. UNCHANGED chan
    BY <1>3 DEF ReconnectTimer
  <2> QED
    BY <2>2, <2>3 DEF OneEar
<1>4. CASE Stop
  <2>1. /\ \A d \in Dials : dial'[d] = "open" => dial[d] = "open"
        /\ \A d \in Dials, o \in Devices : ears'[d][o] = IF chan[o] = d THEN ears[d][o] - 1 ELSE ears[d][o]
        /\ \A o \in Devices : chan'[o] = 0
    BY <1>0, <1>4 DEF Stop, LinkTypes
  <2> QED
    BY <1>0, <2>1 DEF OneEar
<1>5. CASE GateAndAttach
  <2>1. PICK g \in gates :
            /\ UNCHANGED dial
            /\ \/ /\ chan[AskedBy[g.ask]] = 0
                  /\ chan' = [chan EXCEPT ![AskedBy[g.ask]] = g.on]
                  /\ ears' = [ears EXCEPT ![g.on][AskedBy[g.ask]] = @ + 1]
               \/ UNCHANGED <<chan, ears>>
    BY <1>5 DEF GateAndAttach, linkPart
  <2>2. g.on \in Dials /\ AskedBy[g.ask] \in Devices
    BY <1>0, <2>1, FrameShapes DEF OwnerTypes
  <2>3. CASE UNCHANGED <<chan, ears>>
    BY <1>1, <2>1, <2>3
  <2>4. CASE /\ chan[AskedBy[g.ask]] = 0
             /\ chan' = [chan EXCEPT ![AskedBy[g.ask]] = g.on]
             /\ ears' = [ears EXCEPT ![g.on][AskedBy[g.ask]] = @ + 1]
    <3>1. /\ \A o \in Devices : chan'[o] = IF o = AskedBy[g.ask] THEN g.on ELSE chan[o]
          /\ \A d \in Dials, o \in Devices :
                ears'[d][o] = IF d = g.on /\ o = AskedBy[g.ask] THEN ears[d][o] + 1 ELSE ears[d][o]
      BY <1>0, <2>2, <2>4 DEF OwnerTypes
    <3> QED
      BY <1>0, <2>1, <2>2, <2>4, <3>1 DEF OneEar
  <2> QED
    BY <2>1, <2>3, <2>4
<1>6. ASSUME NEW d \in Dials, OnClose(d)
      PROVE  OneEar'
  <2>1. Active(d) /\ dial' = [dial EXCEPT ![d] = "closed"]
    BY <1>6, SmoothKept DEF OnClose, Active
  <2>2. \A e \in Dials : dial'[e] # "open"
    BY <1>0, <2>1 DEF LinkTypes, OneActive, Active
  <2> QED
    BY <2>2 DEF OneEar
<1>7. ASSUME NEW d \in Dials, ConnectResolves(d)
      PROVE  OneEar'
  <2>1. Fresh(d) /\ UNCHANGED <<ears, chan>> /\ \A e \in Dials : e # d => dial'[e] = dial[e]
    BY <1>0, <1>7 DEF ConnectResolves, LinkTypes, Fresh, ownerPart
  <2> QED
    BY <2>1 DEF OneEar, FreshClean
<1>8. ASSUME NEW d \in Dials, ConnectRejects(d) \/ ConnectTimer(d) \/ ConnectResolvesLate(d)
      PROVE  OneEar'
  <2>1. UNCHANGED <<ears, chan>> /\ \A e \in Dials : dial'[e] = "open" => dial[e] = "open"
    BY <1>0, <1>8 DEF ConnectRejects, ConnectTimer, ConnectResolvesLate, LinkTypes, ownerPart
  <2> QED
    BY <2>1 DEF OneEar
<1>9. ASSUME NEW d \in Dials, ListPeers(d) \/ PushAllowList(d) \/ OnMessage(d)
      PROVE  OneEar'
  BY <1>1, <1>9, Zenon DEF ListPeers, PushAllowList, OnMessage, linkPart, ownerPart
<1>10. ASSUME NEW o \in Devices, PairingChanges(o)
      PROVE  OneEar'
  BY <1>1, <1>10, Zenon DEF PairingChanges, linkPart
<1>11. ASSUME NEW q \in Asks,
             \/ StartCreate(q) \/ StartResume(q) \/ launchAndWait(q)
             \/ ErrorArrives(q) \/ VerbTimeout(q) \/ waitForRoom(q)
             \/ ListStored(q) \/ Recheck(q) \/ LaunchRefused(q) \/ launchSession(q)
      PROVE  OneEar'
  BY <1>1, <1>11, Zenon DEF StartCreate, StartResume, launchAndWait, ErrorArrives, VerbTimeout, waitForRoom, ListStored,
     Recheck, LaunchRefused, launchSession, linkPart, ownerPart
<1> QED
  BY <1>2, <1>3, <1>4, <1>5, <1>6, <1>7, <1>8, <1>9, <1>10, <1>11 DEF LaunchNext

-----------------------------------------------------------------------------
(* Where the frames are *)

CountTypes == handling \in Counts /\ launched \in [Asks -> Nat]

CountShapes ==
    \A q \in Asks :
        /\ Listings(q) \in Nat /\ Launches(q) \in Nat
        /\ \A w \in Kinds : /\ LineCount(q, w) \in {0, 1} /\ GateCount(q, w) \in {0, 1}
                            /\ LineCount(q, w) = 0 <=> ~ HasLine(q, w)
                            /\ GateCount(q, w) = 0 <=> ~ HasGate(q, w)
        /\ \A p \in Phases : handling[q][p] \in Nat
        /\ launched[q] \in Nat

LEMMA CountForms == CountTypes => CountShapes
<1> SUFFICES ASSUME CountTypes, NEW q \in Asks
             PROVE  /\ Listings(q) \in Nat /\ Launches(q) \in Nat
                    /\ \A w \in Kinds : /\ LineCount(q, w) \in {0, 1} /\ GateCount(q, w) \in {0, 1}
                                        /\ LineCount(q, w) = 0 <=> ~ HasLine(q, w)
                                        /\ GateCount(q, w) = 0 <=> ~ HasGate(q, w)
                    /\ \A p \in Phases : handling[q][p] \in Nat
                    /\ launched[q] \in Nat
  BY DEF CountShapes
<1>1. \A w \in Kinds : /\ LineCount(q, w) \in {0, 1} /\ GateCount(q, w) \in {0, 1}
                       /\ LineCount(q, w) = 0 <=> ~ HasLine(q, w)
                       /\ GateCount(q, w) = 0 <=> ~ HasGate(q, w)
  BY DEF LineCount, GateCount
<1>2. (\A p \in Phases : handling[q][p] \in Nat) /\ launched[q] \in Nat
  BY DEF CountTypes, Counts
<1>3. Listings(q) \in Nat /\ Launches(q) \in Nat
  BY <1>1, <1>2 DEF Listings, Launches, Kinds, Phases
<1> QED
  BY <1>1, <1>2, <1>3

LEMMA CountFormsNext == CountTypes' => CountShapes'
  BY CountForms, PTL

\* A step after which no ask has more frames than before.
LEMMA Fewer ==
    ASSUME CountTypes, CountTypes', OneLaunch, ErrorsTrue, verb' = verb, errs' \subseteq errs,
           \A q \in Asks : Listings(q)' <= Listings(q) /\ Launches(q)' <= Launches(q)
    PROVE  OneLaunch' /\ ErrorsTrue'
<1>1. \A q \in Asks : Listings(q) \in Nat /\ Launches(q) \in Nat
  BY CountForms DEF CountShapes
<1>2. \A q \in Asks : Listings(q)' \in Nat /\ Launches(q)' \in Nat
  BY CountFormsNext DEF CountShapes
<1>3. \A q \in Asks : /\ Listings(q) = 0 => Listings(q)' = 0
                      /\ Launches(q) = 0 => Launches(q)' = 0
                      /\ Listings(q) <= 1 => Listings(q)' <= 1
                      /\ Launches(q) <= 1 => Launches(q)' <= 1
  BY <1>1, <1>2
<1>4. OneLaunch'
  BY <1>3 DEF OneLaunch
<1>5. ErrorsTrue'
  BY <1>3 DEF ErrorsTrue, Alone
<1> QED
  BY <1>4, <1>5

CountInv == CountTypes /\ OneFrame /\ OneLaunch /\ ErrorsTrue

\* A connection that closes takes its lines with it; other steps leave them.
LEMMA FewerLines ==
    ASSUME CountInv, CountTypes', lines' \subseteq lines,
           UNCHANGED <<gates, handling, launched, verb, errs>>
    PROVE  CountInv'
<1>1. \A q \in Asks, w \in Kinds : LineCount(q, w)' <= LineCount(q, w) /\ GateCount(q, w)' = GateCount(q, w)
  BY DEF LineCount, GateCount, HasLine, HasGate
<1>2. CountShapes /\ CountShapes'
  BY CountForms, CountFormsNext DEF CountInv
<1>3. \A q \in Asks : Listings(q)' <= Listings(q) /\ Launches(q)' <= Launches(q)
  BY <1>1, <1>2 DEF CountShapes, Listings, Launches, Kinds, Phases
<1>4. OneFrame'
  BY DEF CountInv, OneFrame
<1> QED
  BY <1>3, <1>4, Fewer DEF CountInv

LEMMA GateCounted ==
    ASSUME CountInv, CountTypes', gates \subseteq GateCalls, GateReads
    PROVE  CountInv'
<1>1. UNCHANGED <<lines, handling, launched, verb, errs>>
  BY DEF GateReads, verbPart, spawnPart
<1>2. PICK g \in gates, h \in GateCalls :
          gates' = (gates \ {g}) \union {h} /\ h.ask = g.ask /\ h.what = g.what
  BY GateGoesOn
<1>3. \A q \in Asks, w \in Kinds : HasGate(q, w)' <=> HasGate(q, w)
  BY <1>2 DEF HasGate
<1>4. \A q \in Asks, w \in Kinds : LineCount(q, w)' = LineCount(q, w) /\ GateCount(q, w)' = GateCount(q, w)
  BY <1>1, <1>3 DEF LineCount, GateCount, HasLine
<1>5. CountShapes /\ CountShapes'
  BY CountForms, CountFormsNext DEF CountInv
<1>6. \A q \in Asks : Listings(q)' <= Listings(q) /\ Launches(q)' <= Launches(q)
  BY <1>1, <1>4, <1>5 DEF CountShapes, Listings, Launches, Kinds, Phases
<1>7. OneFrame'
  BY <1>1, <1>2 DEF CountInv, OneFrame
<1> QED
  BY <1>1, <1>6, <1>7, Fewer DEF CountInv

LEMMA AttachCounted ==
    ASSUME CountInv, CountTypes', OwnerTypes, GateAndAttach
    PROVE  CountInv'
<1>1. UNCHANGED <<lines, launched, verb, errs>>
  BY DEF GateAndAttach, verbPart, spawnPart
<1>2. PICK g \in gates :
          gates' = gates \ {g} /\ (handling' = Handled(g.ask, g.what, 1) \/ UNCHANGED handling)
  BY DEF GateAndAttach
<1>3. g.ask \in Asks /\ g.what \in Kinds
  BY <1>2, FrameShapes DEF OwnerTypes
<1>4. \A x \in Asks, y \in Phases :
          \/ handling'[x][y] = handling[x][y]
          \/ /\ x = g.ask /\ y = (IF g.what = "list" THEN "list" ELSE "read")
             /\ handling'[x][y] = handling[x][y] + 1
  BY <1>2, <1>3, HandledCounts DEF OwnerTypes
<1>5. \A q \in Asks, w \in Kinds : LineCount(q, w)' = LineCount(q, w)
  BY <1>1 DEF LineCount, HasLine
<1>12. \A q \in Asks, w \in Kinds : HasGate(q, w)' => HasGate(q, w)
  BY <1>2 DEF HasGate
<1>6. HasGate(g.ask, g.what) /\ ~ HasGate(g.ask, g.what)'
  BY <1>2 DEF HasGate, CountInv, OneFrame
<1>7. \A q \in Asks, w \in Kinds : GateCount(q, w)' <= GateCount(q, w)
  BY <1>12 DEF GateCount
<1>8. GateCount(g.ask, g.what) = 1 /\ GateCount(g.ask, g.what)' = 0
  BY <1>6 DEF GateCount
<1>9. CountShapes /\ CountShapes'
  BY CountForms, CountFormsNext DEF CountInv
<1>10. ASSUME NEW q \in Asks
       PROVE  Listings(q)' <= Listings(q) /\ Launches(q)' <= Launches(q)
  <2>0. "list" \in Phases /\ "read" \in Phases /\ "yes" \in Phases /\ "no" \in Phases
        /\ "list" \in Kinds /\ "launch" \in Kinds
    BY DEF Phases, Kinds
  <2>1. GateCount(q, "list")' + handling'[q]["list"] <= GateCount(q, "list") + handling[q]["list"]
    BY <1>3, <1>4, <1>7, <1>8, <1>9, <2>0 DEF CountShapes
  <2>2. GateCount(q, "launch")' + handling'[q]["read"] <= GateCount(q, "launch") + handling[q]["read"]
    BY <1>3, <1>4, <1>7, <1>8, <1>9, <2>0 DEF CountShapes, Kinds
  <2>3. handling'[q]["yes"] = handling[q]["yes"] /\ handling'[q]["no"] = handling[q]["no"]
    BY <1>4, <2>0
  <2>7. LineCount(q, "list")' = LineCount(q, "list") /\ LineCount(q, "launch")' = LineCount(q, "launch")
    BY <1>5, <2>0
  <2>4. /\ LineCount(q, "list") \in Nat /\ LineCount(q, "launch") \in Nat
        /\ GateCount(q, "list") \in Nat /\ GateCount(q, "launch") \in Nat
        /\ GateCount(q, "list")' \in Nat /\ GateCount(q, "launch")' \in Nat
    BY <1>9, <2>0 DEF CountShapes
  <2>5. \A p \in Phases : handling[q][p] \in Nat /\ handling'[q][p] \in Nat
    BY <1>9 DEF CountShapes
  <2>6. launched'[q] = launched[q] /\ launched[q] \in Nat
    BY <1>1, <1>9 DEF CountShapes
  <2> QED
    BY <2>0, <2>1, <2>2, <2>3, <2>4, <2>5, <2>6, <2>7 DEF Listings, Launches
<1>11. OneFrame'
  BY <1>1, <1>2 DEF CountInv, OneFrame
<1> QED
  BY <1>1, <1>10, <1>11, Fewer DEF CountInv

LEMMA MessageCounted ==
    ASSUME CountInv, CountTypes', OwnerTypes, OneEar, NEW d \in Dials, OnMessage(d)
    PROVE  CountInv'
<1>0. AskedBy \in [Asks -> Devices] /\ d # 0
  BY LaunchAssumption DEF Dials
<1>1. UNCHANGED <<launched, verb, errs>> /\ dial[d] = "open"
  BY DEF OnMessage, verbPart, spawnPart
<1>2. PICK f \in lines :
          /\ lines' = lines \ {f}
          /\ handling' = Handled(f.ask, f.what, ears[d][AskedBy[f.ask]])
          /\ gates' = IF chan[AskedBy[f.ask]] # 0 THEN gates
                      ELSE gates \union {[on |-> d, ask |-> f.ask, what |-> f.what, phase |-> "read"]}
  BY DEF OnMessage
<1>3. f.ask \in Asks /\ f.what \in Kinds
  BY <1>2, FrameShapes DEF OwnerTypes
<1> DEFINE n == ears[d][AskedBy[f.ask]]
<1>4. n \in {0, 1} /\ (n = 1 => gates' = gates)
  BY <1>0, <1>1, <1>2, <1>3 DEF OneEar
<1>5. \A x \in Asks, y \in Phases :
          \/ handling'[x][y] = handling[x][y]
          \/ /\ x = f.ask /\ y = (IF f.what = "list" THEN "list" ELSE "read")
             /\ handling'[x][y] = handling[x][y] + n
  BY <1>2, <1>3, <1>4, HandledCounts DEF OwnerTypes
<1> HIDE DEF n
<1>6. gates' = gates \/ \E g : /\ gates' = gates \union {g}
                               /\ g.ask = f.ask /\ g.what = f.what
  BY <1>2
<1>7. \A q \in Asks, w \in Kinds :
          /\ HasLine(q, w)' => HasLine(q, w)
          /\ HasGate(q, w)' => HasGate(q, w) \/ (q = f.ask /\ w = f.what /\ n = 0)
          /\ HasGate(q, w) => HasGate(q, w)'
  BY <1>2, <1>4, <1>6 DEF HasLine, HasGate
<1>8. HasLine(f.ask, f.what) /\ ~ HasLine(f.ask, f.what)'
  BY <1>2 DEF HasLine, CountInv, OneFrame
<1>9. CountShapes /\ CountShapes'
  BY CountForms, CountFormsNext DEF CountInv
<1>10. \A q \in Asks, w \in Kinds : LineCount(q, w)' <= LineCount(q, w)
  BY <1>7 DEF LineCount
<1>11. LineCount(f.ask, f.what) = 1 /\ LineCount(f.ask, f.what)' = 0
  BY <1>8 DEF LineCount
<1>12. \A q \in Asks, w \in Kinds :
           \/ GateCount(q, w)' = GateCount(q, w)
           \/ q = f.ask /\ w = f.what /\ n = 0 /\ GateCount(q, w)' = GateCount(q, w) + 1
  BY <1>7 DEF GateCount
<1>13. ~ HasGate(f.ask, f.what)
  <2>1. GateCount(f.ask, f.what) = 0
    <3>1. /\ \A p \in Phases : handling[f.ask][p] \in Nat
          /\ launched[f.ask] \in Nat /\ LineCount(f.ask, f.what) = 1
          /\ GateCount(f.ask, f.what) \in {0, 1}
      BY <1>3, <1>9, <1>11 DEF CountShapes
    <3>2. Listings(f.ask) <= 1 /\ Launches(f.ask) <= 1
      BY <1>3 DEF CountInv, OneLaunch
    <3>3. f.what = "list" \/ f.what = "launch"
      BY <1>3 DEF Kinds
    <3> QED
      BY <3>1, <3>2, <3>3 DEF Listings, Launches, Phases
  <2> QED
    BY <2>1 DEF GateCount
<1>14. ASSUME NEW q \in Asks
       PROVE  Listings(q)' <= Listings(q) /\ Launches(q)' <= Launches(q)
  <2>0. "list" \in Phases /\ "read" \in Phases /\ "yes" \in Phases /\ "no" \in Phases
        /\ "list" \in Kinds /\ "launch" \in Kinds
    BY DEF Phases, Kinds
  <2>4. /\ LineCount(q, "list") \in Nat /\ LineCount(q, "launch") \in Nat
        /\ LineCount(q, "list")' \in Nat /\ LineCount(q, "launch")' \in Nat
        /\ GateCount(q, "list") \in Nat /\ GateCount(q, "launch") \in Nat
        /\ GateCount(q, "list")' \in Nat /\ GateCount(q, "launch")' \in Nat
    BY <1>9, <2>0 DEF CountShapes
  <2>5. \A p \in Phases : handling[q][p] \in Nat /\ handling'[q][p] \in Nat
    BY <1>9 DEF CountShapes
  <2>1. LineCount(q, "list")' + GateCount(q, "list")' + handling'[q]["list"]
            <= LineCount(q, "list") + GateCount(q, "list") + handling[q]["list"]
    <3>1. CASE q = f.ask /\ f.what = "list"
      BY <1>4, <1>5, <1>11, <1>12, <2>0, <2>4, <2>5, <3>1
    <3>2. CASE ~ (q = f.ask /\ f.what = "list")
      BY <1>5, <1>10, <1>12, <2>0, <2>4, <2>5, <3>2
    <3> QED
      BY <3>1, <3>2
  <2>2. LineCount(q, "launch")' + GateCount(q, "launch")' + handling'[q]["read"]
            <= LineCount(q, "launch") + GateCount(q, "launch") + handling[q]["read"]
    <3>1. CASE q = f.ask /\ f.what = "launch"
      BY <1>4, <1>5, <1>11, <1>12, <2>0, <2>4, <2>5, <3>1
    <3>2. CASE ~ (q = f.ask /\ f.what = "launch")
      BY <1>3, <1>5, <1>10, <1>12, <2>0, <2>4, <2>5, <3>2 DEF Kinds
    <3> QED
      BY <3>1, <3>2
  <2>3. handling'[q]["yes"] = handling[q]["yes"] /\ handling'[q]["no"] = handling[q]["no"]
    BY <1>5, <2>0
  <2>6. launched'[q] = launched[q] /\ launched[q] \in Nat
    BY <1>1, <1>9 DEF CountShapes
  <2> QED
    BY <2>0, <2>1, <2>2, <2>3, <2>4, <2>5, <2>6 DEF Listings, Launches
<1>15. OneFrame'
  BY <1>2, <1>6, <1>13 DEF CountInv, OneFrame, HasGate
<1> QED
  BY <1>1, <1>14, <1>15, Fewer DEF CountInv

\* Of two commands of one device neither is alone once the other has started.
LEMMA RefusedAlone ==
    ASSUME VerbTypes, NEW q \in Asks, NEW x \in Asks, Alone(x), verb[q] # "idle", Refuse(q), x \in errs'
    PROVE  x \in errs \/ x = q
<1>1. AskedBy[x] = AskedBy[q] => x = q
  BY DEF Alone
<1> QED
  BY <1>1 DEF Refuse

LEMMA LaunchCounted ==
    ASSUME CountInv, CountTypes', NEW q \in Asks, Recheck(q) \/ launchSession(q)
    PROVE  CountInv'
<1>1. UNCHANGED <<lines, gates, verb, errs>>
  BY DEF Recheck, launchSession, verbPart
<1>2. \A x \in Asks, w \in Kinds : LineCount(x, w)' = LineCount(x, w) /\ GateCount(x, w)' = GateCount(x, w)
  BY <1>1 DEF LineCount, GateCount, HasLine, HasGate
<1>3. CountShapes /\ CountShapes'
  BY CountForms, CountFormsNext DEF CountInv
<1>0. /\ "list" \in Phases /\ "read" \in Phases /\ "yes" \in Phases /\ "no" \in Phases
      /\ "list" \in Kinds /\ "launch" \in Kinds
  BY DEF Phases, Kinds
<1>4. ASSUME NEW x \in Asks
      PROVE  Listings(x)' <= Listings(x) /\ Launches(x)' <= Launches(x)
  <2>1. /\ LineCount(x, "list")' = LineCount(x, "list") /\ LineCount(x, "launch")' = LineCount(x, "launch")
        /\ GateCount(x, "list")' = GateCount(x, "list") /\ GateCount(x, "launch")' = GateCount(x, "launch")
    BY <1>0, <1>2
  <2>2. /\ LineCount(x, "list") \in Nat /\ LineCount(x, "launch") \in Nat
        /\ GateCount(x, "list") \in Nat /\ GateCount(x, "launch") \in Nat
        /\ \A p \in Phases : handling[x][p] \in Nat /\ handling'[x][p] \in Nat
        /\ launched[x] \in Nat /\ launched'[x] \in Nat
    BY <1>0, <1>3 DEF CountShapes
  <2>3. CASE Recheck(q)
    <3>1. launched' = launched
      BY <2>3 DEF Recheck, spawnPart
    <3>2. handling'[x]["list"] = handling[x]["list"]
      BY <1>0, <2>3, HandlerSteps DEF CountInv, CountTypes
    <3>3. handling'[x]["read"] + handling'[x]["yes"] + handling'[x]["no"]
              = handling[x]["read"] + handling[x]["yes"] + handling[x]["no"]
      <4>1. PICK p \in {"yes", "no"} :
                \A y \in Phases :
                    handling'[x][y] = IF x = q /\ y = "read" THEN handling[x][y] - 1
                                      ELSE IF x = q /\ y = p THEN handling[x][y] + 1
                                      ELSE handling[x][y]
        BY <2>3, HandlerSteps DEF CountInv, CountTypes
      <4>2. CASE p = "yes"
        BY <1>0, <2>2, <4>1, <4>2
      <4>3. CASE p = "no"
        BY <1>0, <2>2, <4>1, <4>3
      <4> QED
        BY <4>2, <4>3
    <3> QED
      BY <1>0, <2>1, <2>2, <3>1, <3>2, <3>3 DEF Listings, Launches
  <2>4. CASE launchSession(q)
    <3>1. \A p \in Phases :
              handling'[x][p] = IF x = q /\ p = "yes" THEN handling[x][p] - 1 ELSE handling[x][p]
      BY <2>4, HandlerSteps DEF CountInv, CountTypes
    <3>2. launched'[x] = launched[x] \/ (x = q /\ launched'[x] = launched[x] + 1)
      BY <2>4 DEF launchSession, CountInv, CountTypes
    <3> QED
      BY <1>0, <2>1, <2>2, <3>1, <3>2 DEF Listings, Launches
  <2> QED
    BY <2>3, <2>4
<1>5. OneFrame'
  BY <1>1 DEF CountInv, OneFrame
<1> QED
  BY <1>1, <1>4, <1>5, Fewer DEF CountInv

\* The frame of q comes to its end; every other ask keeps what it has.
FrameEnds(q, list) ==
    /\ \A x \in Asks \ {q} : Listings(x)' = Listings(x) /\ Launches(x)' = Launches(x)
    /\ IF list THEN Listings(q) = 1 /\ Listings(q)' = 0 /\ Launches(q)' = Launches(q)
               ELSE Launches(q) = 1 /\ Launches(q)' = 0 /\ Listings(q)' = Listings(q)

LEMMA FrameEnding ==
    ASSUME CountInv, CountTypes', NEW q \in Asks
    PROVE  /\ ListStored(q) => FrameEnds(q, TRUE) /\ OneFrame'
           /\ LaunchRefused(q) => FrameEnds(q, FALSE) /\ OneFrame'
<1> SUFFICES ASSUME ListStored(q) \/ LaunchRefused(q)
             PROVE  /\ ListStored(q) => FrameEnds(q, TRUE) /\ OneFrame'
                    /\ LaunchRefused(q) => FrameEnds(q, FALSE) /\ OneFrame'
  OBVIOUS
<1>0. /\ "list" \in Phases /\ "read" \in Phases /\ "yes" \in Phases /\ "no" \in Phases
      /\ "list" \in Kinds /\ "launch" \in Kinds
  BY DEF Phases, Kinds
<1>1. UNCHANGED <<lines, gates, launched>>
  BY DEF ListStored, LaunchRefused, spawnPart
<1>2. \A x \in Asks, w \in Kinds : LineCount(x, w)' = LineCount(x, w) /\ GateCount(x, w)' = GateCount(x, w)
  BY <1>1 DEF LineCount, GateCount, HasLine, HasGate
<1>3. CountShapes /\ CountShapes'
  BY CountForms, CountFormsNext DEF CountInv
<1>4. OneFrame'
  BY <1>1 DEF CountInv, OneFrame
<1>5. \A x \in Asks :
          /\ LineCount(x, "list")' = LineCount(x, "list") /\ LineCount(x, "launch")' = LineCount(x, "launch")
          /\ GateCount(x, "list")' = GateCount(x, "list") /\ GateCount(x, "launch")' = GateCount(x, "launch")
  BY <1>0, <1>2
<1>6. \A x \in Asks :
          /\ LineCount(x, "list") \in Nat /\ LineCount(x, "launch") \in Nat
          /\ GateCount(x, "list") \in Nat /\ GateCount(x, "launch") \in Nat
          /\ \A p \in Phases : handling[x][p] \in Nat /\ handling'[x][p] \in Nat
          /\ launched[x] \in Nat /\ launched'[x] = launched[x]
  BY <1>0, <1>1, <1>3 DEF CountShapes
<1>7. Listings(q) <= 1 /\ Launches(q) <= 1
  BY DEF CountInv, OneLaunch
<1>8. CASE ListStored(q)
  <2>1. /\ handling[q]["list"] > 0
        /\ \A x \in Asks, y \in Phases :
              handling'[x][y] = IF x = q /\ y = "list" THEN handling[x][y] - 1 ELSE handling[x][y]
    BY <1>8, HandlerSteps DEF CountInv, CountTypes
  <2>2. \A x \in Asks \ {q} : Listings(x)' = Listings(x) /\ Launches(x)' = Launches(x)
    BY <1>0, <1>5, <1>6, <2>1 DEF Listings, Launches
  <2>3. Listings(q) = 1 /\ Listings(q)' = 0 /\ Launches(q)' = Launches(q)
    BY <1>0, <1>5, <1>6, <1>7, <2>1 DEF Listings, Launches
  <2>4. ~ LaunchRefused(q)
    <3>1. LaunchRefused(q) => handling'[q]["list"] = handling[q]["list"]
      BY <1>0, HandlerSteps DEF CountInv, CountTypes
    <3> QED
      BY <1>0, <1>6, <2>1, <3>1
  <2> QED
    BY <1>4, <2>2, <2>3, <2>4 DEF FrameEnds
<1>9. CASE LaunchRefused(q)
  <2>1. PICK p \in {"yes", "no"} :
            /\ handling[q][p] > 0
            /\ \A x \in Asks, y \in Phases :
                  handling'[x][y] = IF x = q /\ y = p THEN handling[x][y] - 1 ELSE handling[x][y]
    BY <1>9, HandlerSteps DEF CountInv, CountTypes
  <2>2. \A x \in Asks \ {q} : Listings(x)' = Listings(x) /\ Launches(x)' = Launches(x)
    BY <1>0, <1>5, <1>6, <2>1 DEF Listings, Launches
  <2>5. /\ handling[q]["yes"] + handling[q]["no"] > 0
        /\ handling'[q]["list"] = handling[q]["list"] /\ handling'[q]["read"] = handling[q]["read"]
        /\ handling'[q]["yes"] + handling'[q]["no"] = handling[q]["yes"] + handling[q]["no"] - 1
    <3>1. CASE p = "yes"
      BY <1>0, <1>6, <2>1, <3>1
    <3>2. CASE p = "no"
      BY <1>0, <1>6, <2>1, <3>2
    <3> QED
      BY <3>1, <3>2
  <2>6. /\ LineCount(q, "launch") \in Nat /\ GateCount(q, "launch") \in Nat /\ launched[q] \in Nat
        /\ handling[q]["read"] \in Nat /\ handling[q]["yes"] \in Nat /\ handling[q]["no"] \in Nat
        /\ handling'[q]["yes"] \in Nat /\ handling'[q]["no"] \in Nat
    BY <1>0, <1>6
  <2>7. /\ LineCount(q, "launch")' = LineCount(q, "launch") /\ GateCount(q, "launch")' = GateCount(q, "launch")
        /\ LineCount(q, "list")' = LineCount(q, "list") /\ GateCount(q, "list")' = GateCount(q, "list")
        /\ launched'[q] = launched[q]
    BY <1>5, <1>6
  <2>8. Launches(q) = 1
    <3>1. Launches(q) \in Nat
      BY <1>3 DEF CountShapes
    <3>2. Launches(q) # 0
      BY <2>5, <2>6 DEF Launches
    <3> QED
      BY <1>7, <3>1, <3>2
  <2>9. Launches(q)' = 0
    BY <2>5, <2>6, <2>7, <2>8 DEF Launches
  <2>10. Listings(q)' = Listings(q)
    BY <2>5, <2>7 DEF Listings
  <2>3. Launches(q) = 1 /\ Launches(q)' = 0 /\ Listings(q)' = Listings(q)
    BY <2>8, <2>9, <2>10
  <2>4. ListStored(q) => FALSE
    <3>1. ListStored(q) => handling'[q]["list"] = handling[q]["list"] - 1
      BY <1>0, HandlerSteps DEF CountInv, CountTypes
    <3> QED
      BY <1>0, <1>6, <2>1, <3>1
  <2> QED
    BY <1>4, <2>2, <2>3, <2>4 DEF FrameEnds
<1> QED
  BY <1>8, <1>9

LEMMA AnswerCounted ==
    ASSUME CountInv, CountTypes', VerbTypes, NEW q \in Asks, ListStored(q) \/ LaunchRefused(q)
    PROVE  CountInv'
<1>1. CASE ListStored(q)
  <2>1. FrameEnds(q, TRUE) /\ OneFrame'
    BY <1>1, FrameEnding
  <2>2. verb[q] # "idle"
    BY <2>1 DEF FrameEnds, CountInv, OneLaunch
  <2>3. /\ \A x \in Asks \ {q} : verb'[x] = verb[x]
        /\ verb'[q] = verb[q] \/ (verb[q] = "listing" /\ verb'[q] = "ready" /\ errs' = errs)
        /\ errs' = errs \/ Refuse(q)
    BY <1>1 DEF ListStored, VerbTypes
  <2>4. OneLaunch'
    BY <2>1, <2>2, <2>3 DEF FrameEnds, CountInv, OneLaunch
  <2>5. \A x \in Asks : Alone(x)' => Alone(x)
    BY <2>2, <2>3 DEF Alone
  <2>6. \A x \in Asks : verb[x] = "idle" => x \notin errs'
    BY <2>3 DEF CountInv, ErrorsTrue, Refuse
  <2>7. \A x \in Asks : Alone(x) /\ x \in errs' => x \in errs \/ x = q
    BY <2>2, <2>3, RefusedAlone
  <2>8. ErrorsTrue'
    <3>1. ASSUME NEW x \in Asks PROVE verb'[x] = "idle" => x \notin errs'
      BY <2>2, <2>3, <2>6
    <3>2. ASSUME NEW x \in Asks, x # q, Alone(x)
          PROVE  /\ verb'[x] = "listing" /\ x \in errs' => Listings(x)' = 0
                 /\ verb'[x] = "ready" => x \notin errs'
                 /\ verb'[x] \in {"ready", "waiting"} => Listings(x)' = 0
                 /\ verb'[x] = "waiting" /\ x \in errs' => Launches(x)' = 0
                 /\ verb'[x] = "rejected" => Launches(x)' = 0
      BY <2>1, <2>3, <2>7, <3>2 DEF FrameEnds, CountInv, ErrorsTrue
    <3>3. ASSUME Alone(q)
          PROVE  /\ verb'[q] = "listing" /\ q \in errs' => Listings(q)' = 0
                 /\ verb'[q] = "ready" => q \notin errs'
                 /\ verb'[q] \in {"ready", "waiting"} => Listings(q)' = 0
                 /\ verb'[q] = "waiting" /\ q \in errs' => Launches(q)' = 0
                 /\ verb'[q] = "rejected" => Launches(q)' = 0
      <4>1. verb[q] # "ready" /\ verb[q] # "waiting" /\ (verb[q] = "listing" => q \notin errs)
        BY <2>1, <3>3 DEF FrameEnds, CountInv, ErrorsTrue
      <4> QED
        BY <2>1, <2>3, <3>3, <4>1 DEF FrameEnds, CountInv, ErrorsTrue
    <3> QED
      BY <2>5, <3>1, <3>2, <3>3 DEF ErrorsTrue
  <2> QED
    BY <2>1, <2>4, <2>8 DEF CountInv
<1>2. CASE LaunchRefused(q)
  <2>1. FrameEnds(q, FALSE) /\ OneFrame'
    BY <1>2, FrameEnding
  <2>2. verb[q] \notin {"idle", "listing", "ready"}
    BY <2>1 DEF FrameEnds, CountInv, OneLaunch
  <2>3. verb' = verb /\ Refuse(q)
    BY <1>2 DEF LaunchRefused
  <2>4. OneLaunch'
    BY <2>1, <2>2, <2>3 DEF FrameEnds, CountInv, OneLaunch
  <2>5. \A x \in Asks : Alone(x)' => Alone(x)
    BY <2>3 DEF Alone
  <2>6. \A x \in Asks : verb[x] = "idle" => x \notin errs'
    BY <2>3 DEF CountInv, ErrorsTrue, Refuse
  <2>7. \A x \in Asks : Alone(x) /\ x \in errs' => x \in errs \/ x = q
    BY <2>2, <2>3, RefusedAlone
  <2>8. ErrorsTrue'
    <3>1. ASSUME NEW x \in Asks, Alone(x)
          PROVE  /\ verb'[x] = "listing" /\ x \in errs' => Listings(x)' = 0
                 /\ verb'[x] = "ready" => x \notin errs'
                 /\ verb'[x] \in {"ready", "waiting"} => Listings(x)' = 0
                 /\ verb'[x] = "waiting" /\ x \in errs' => Launches(x)' = 0
                 /\ verb'[x] = "rejected" => Launches(x)' = 0
      BY <2>1, <2>2, <2>3, <2>7, <3>1 DEF FrameEnds, CountInv, ErrorsTrue
    <3> QED
      BY <2>3, <2>5, <2>6, <3>1 DEF ErrorsTrue
  <2> QED
    BY <2>1, <2>4, <2>8 DEF CountInv
<1> QED
  BY <1>1, <1>2

\* A frame that is sent goes to one client, or comes back as an error.
FrameSent(q, w) ==
    /\ \A x \in Asks \ {q} : Listings(x)' = Listings(x) /\ Launches(x)' = Launches(x)
    /\ IF w = "list" THEN Launches(q)' = Launches(q) /\ Listings(q)' <= 1
                     ELSE Listings(q)' = Listings(q) /\ Launches(q)' <= 1
    /\ \/ errs' = errs
       \/ /\ errs' = errs \union {q}
          /\ Listings(q)' = Listings(q) /\ Launches(q)' = Launches(q)

LEMMA ForwardCounts ==
    ASSUME CountInv, CountTypes', LinkTypes, OneActive, NEW q \in Asks, NEW w \in Kinds,
           Forward(q, w), UNCHANGED <<gates, handling, launched>>,
           IF w = "list" THEN Listings(q) = 0 ELSE Launches(q) = 0
    PROVE  OneFrame' /\ FrameSent(q, w)
<1>0. /\ "list" \in Phases /\ "read" \in Phases /\ "yes" \in Phases /\ "no" \in Phases
      /\ "list" \in Kinds /\ "launch" \in Kinds /\ (w = "list" \/ w = "launch")
  BY DEF Phases, Kinds
<1>1. CountShapes /\ CountShapes'
  BY CountForms, CountFormsNext DEF CountInv
<1>2. \A x \in Asks, v \in Kinds : GateCount(x, v)' = GateCount(x, v)
  BY DEF GateCount, HasGate
<1>3. CASE lines' = lines /\ errs' = errs \union {q}
  <2>1. \A x \in Asks, v \in Kinds : LineCount(x, v)' = LineCount(x, v)
    BY <1>3 DEF LineCount, HasLine
  <2>2. \A x \in Asks : Listings(x)' = Listings(x) /\ Launches(x)' = Launches(x)
    BY <1>0, <1>2, <2>1 DEF Listings, Launches
  <2>3. OneFrame'
    BY <1>3 DEF CountInv, OneFrame
  <2>4. Listings(q)' <= 1 /\ Launches(q)' <= 1
    BY <2>2 DEF CountInv, OneLaunch
  <2> QED
    BY <1>3, <2>2, <2>3, <2>4 DEF FrameSent
<1>4. CASE errs' = errs /\ lines' = lines \union
               {[on |-> d, ask |-> q, what |-> w] : d \in {d \in Dials : dial[d] = "open"}}
  <2>1. ASSUME NEW f \in lines'
        PROVE  \/ f \in lines
               \/ \E d \in Dials : dial[d] = "open" /\ f = [on |-> d, ask |-> q, what |-> w]
    BY <1>4
  <2>2. \A d, e \in Dials : dial[d] = "open" /\ dial[e] = "open" => d = e
    BY DEF OneActive, Active
  <2>3. /\ GateCount(q, w) \in {0, 1} /\ LineCount(q, w) \in {0, 1} /\ launched[q] \in Nat
        /\ \A p \in Phases : handling[q][p] \in Nat
    BY <1>1 DEF CountShapes
  <2>4. ~ HasLine(q, w) /\ GateCount(q, w) = 0
    <3>1. LineCount(q, w) = 0 /\ GateCount(q, w) = 0
      BY <1>0, <2>3 DEF Listings, Launches
    <3> QED
      BY <3>1 DEF LineCount
  <2>5. OneFrame'
    <3>1. ASSUME NEW f \in lines', NEW g \in lines', f.ask = g.ask, f.what = g.what
          PROVE  f = g
      <4>1. CASE f \in lines /\ g \in lines
        BY <3>1, <4>1 DEF CountInv, OneFrame
      <4>2. CASE f \notin lines /\ g \notin lines
        BY <2>1, <2>2, <4>2
      <4>3. CASE f \in lines /\ g \notin lines
        BY <2>1, <2>4, <3>1, <4>3 DEF HasLine
      <4>4. CASE f \notin lines /\ g \in lines
        BY <2>1, <2>4, <3>1, <4>4 DEF HasLine
      <4> QED
        BY <4>1, <4>2, <4>3, <4>4
    <3> QED
      BY <3>1 DEF CountInv, OneFrame
  <2>6. \A x \in Asks, v \in Kinds : (x # q \/ v # w) => (HasLine(x, v)' <=> HasLine(x, v))
    BY <1>4, <2>1 DEF HasLine
  <2>7. \A x \in Asks, v \in Kinds : (x # q \/ v # w) => LineCount(x, v)' = LineCount(x, v)
    BY <2>6 DEF LineCount
  <2>8. \A x \in Asks \ {q} : Listings(x)' = Listings(x) /\ Launches(x)' = Launches(x)
    BY <1>0, <1>2, <2>7 DEF Listings, Launches
  <2>9. /\ GateCount(q, w)' = 0 /\ LineCount(q, w)' \in {0, 1}
    BY <1>1, <1>2, <2>4 DEF CountShapes
  <2>10. CASE w = "list"
    <3>1. Launches(q)' = Launches(q)
      BY <1>0, <1>2, <2>7, <2>10 DEF Launches
    <3>2. handling[q]["list"] = 0
      BY <1>0, <2>3, <2>10 DEF Listings
    <3>3. Listings(q)' <= 1
      BY <2>9, <2>10, <3>2 DEF Listings
    <3> QED
      BY <1>4, <2>5, <2>8, <2>10, <3>1, <3>3 DEF FrameSent
  <2>11. CASE w = "launch"
    <3>1. Listings(q)' = Listings(q)
      BY <1>0, <1>2, <2>7, <2>11 DEF Listings
    <3>2. /\ LineCount(q, "launch") \in Nat /\ GateCount(q, "launch") \in Nat /\ launched[q] \in Nat
          /\ handling[q]["read"] \in Nat /\ handling[q]["yes"] \in Nat /\ handling[q]["no"] \in Nat
      BY <1>0, <1>1 DEF CountShapes
    <3>5. Launches(q) = 0
      BY <2>11
    <3>3. handling[q]["read"] = 0 /\ handling[q]["yes"] = 0 /\ handling[q]["no"] = 0 /\ launched[q] = 0
      <4> DEFINE a == LineCount(q, "launch")  b == GateCount(q, "launch")  c == handling[q]["read"]
                 e == handling[q]["yes"]  f == handling[q]["no"]  l == launched[q]
      <4>1. a \in Nat /\ b \in Nat /\ c \in Nat /\ e \in Nat /\ f \in Nat /\ l \in Nat
        BY <3>2
      <4>2. a + b + c + e + f + l = 0
        BY <3>5 DEF Launches
      <4> HIDE DEF a, b, c, e, f, l
      <4>3. c = 0 /\ e = 0 /\ f = 0 /\ l = 0
        BY <4>1, <4>2
      <4> QED
        BY <4>3 DEF c, e, f, l
    <3>4. Launches(q)' <= 1
      BY <2>9, <2>11, <3>3 DEF Launches
    <3> QED
      BY <1>4, <2>5, <2>8, <2>11, <3>1, <3>4 DEF FrameSent
  <2> QED
    BY <1>0, <2>10, <2>11
<1> QED
  BY <1>3, <1>4 DEF Forward

LEMMA SendCounted ==
    ASSUME CountInv, CountTypes', LinkTypes, VerbTypes, OneActive, NEW q \in Asks, StartResume(q) \/ launchAndWait(q)
    PROVE  CountInv'
<1>1. UNCHANGED <<gates, handling, launched>>
  BY DEF StartResume, launchAndWait, spawnPart
<1>2. CASE StartResume(q)
  <2>1. verb[q] = "idle" /\ verb' = [verb EXCEPT ![q] = "listing"] /\ Forward(q, "list")
    BY <1>2 DEF StartResume
  <2>2. Listings(q) = 0 /\ Launches(q) = 0 /\ q \notin errs
    BY <2>1 DEF CountInv, OneLaunch, ErrorsTrue
  <2>3. OneFrame' /\ FrameSent(q, "list")
    BY <1>1, <2>1, <2>2, ForwardCounts DEF Kinds
  <2>4. verb'[q] = "listing" /\ \A x \in Asks \ {q} : verb'[x] = verb[x]
    BY <2>1 DEF VerbTypes
  <2>5. OneLaunch'
    BY <2>2, <2>3, <2>4 DEF FrameSent, CountInv, OneLaunch
  <2>6. \A x \in Asks : Alone(x)' => Alone(x)
    BY <2>1, <2>4 DEF Alone
  <2>7. ErrorsTrue'
    BY <2>2, <2>3, <2>4, <2>6 DEF FrameSent, CountInv, ErrorsTrue
  <2> QED
    BY <2>3, <2>5, <2>7 DEF CountInv
<1>3. CASE launchAndWait(q)
  <2>1. verb[q] = "ready" /\ verb' = [verb EXCEPT ![q] = "waiting"] /\ Forward(q, "launch")
    BY <1>3 DEF launchAndWait
  <2>2. Launches(q) = 0 /\ (Alone(q) => Listings(q) = 0 /\ q \notin errs)
    BY <2>1 DEF CountInv, OneLaunch, ErrorsTrue
  <2>3. OneFrame' /\ FrameSent(q, "launch")
    BY <1>1, <2>1, <2>2, ForwardCounts DEF Kinds
  <2>4. verb'[q] = "waiting" /\ \A x \in Asks \ {q} : verb'[x] = verb[x]
    BY <2>1 DEF VerbTypes
  <2>5. OneLaunch'
    BY <2>2, <2>3, <2>4 DEF FrameSent, CountInv, OneLaunch
  <2>6. \A x \in Asks : Alone(x)' => Alone(x)
    BY <2>1, <2>4 DEF Alone
  <2>7. ErrorsTrue'
    BY <2>2, <2>3, <2>4, <2>6 DEF FrameSent, CountInv, ErrorsTrue
  <2> QED
    BY <2>3, <2>5, <2>7 DEF CountInv
<1> QED
  BY <1>2, <1>3

\* The other steps of a command send nothing.
LEMMA WaitCounted ==
    ASSUME CountInv, CountTypes', VerbTypes, NEW q \in Asks,
           StartCreate(q) \/ ErrorArrives(q) \/ VerbTimeout(q) \/ waitForRoom(q)
    PROVE  CountInv'
<1>1. UNCHANGED <<lines, gates, handling, launched>> /\ errs' \subseteq errs
  BY DEF StartCreate, ErrorArrives, VerbTimeout, waitForRoom, ownerPart, spawnPart
<1>2. \A x \in Asks : Listings(x)' = Listings(x) /\ Launches(x)' = Launches(x)
  BY <1>1 DEF Listings, Launches, LineCount, GateCount, HasLine, HasGate
<1>3. /\ \A x \in Asks \ {q} : verb'[x] = verb[x]
      /\ \/ verb[q] = "idle" /\ verb'[q] \in {"ready", "failed"}
         \/ verb'[q] \in {"failed", "polling", "attached"}
         \/ verb[q] = "waiting" /\ q \in errs /\ verb'[q] = "rejected"
         \/ verb[q] # "idle" /\ verb'[q] = verb[q]
  <2>1. CASE StartCreate(q)
    BY <2>1 DEF StartCreate, VerbTypes
  <2>2. CASE ErrorArrives(q)
    <3>1. q \in errs /\ verb[q] # "idle"
      BY <2>2 DEF ErrorArrives, CountInv, ErrorsTrue
    <3> QED
      BY <2>2, <3>1 DEF ErrorArrives, VerbTypes
  <2>3. CASE VerbTimeout(q)
    BY <2>3 DEF VerbTimeout, VerbTypes
  <2>4. CASE waitForRoom(q)
    BY <2>4 DEF waitForRoom, VerbTypes
  <2> QED
    BY <2>1, <2>2, <2>3, <2>4
<1>4. OneFrame'
  BY <1>1 DEF CountInv, OneFrame
<1>5. OneLaunch'
  BY <1>2, <1>3 DEF CountInv, OneLaunch
<1>6. \A x \in Asks : Alone(x)' => Alone(x)
  BY <1>3 DEF Alone
<1>7. ErrorsTrue'
  BY <1>1, <1>2, <1>3, <1>6 DEF CountInv, OneLaunch, ErrorsTrue
<1> QED
  BY <1>4, <1>5, <1>7 DEF CountInv

LEMMA CountedStep ==
    ASSUME LaunchTypeOK, LaunchTypeOK', CountInv, OneActive, OneEar, LaunchNext
    PROVE  CountInv'
<1>0. LinkTypes /\ OwnerTypes /\ VerbTypes /\ CountTypes'
  BY DEF LaunchTypeOK, LinkTypes, OwnerTypes, VerbTypes, CountTypes, GateCalls, LineFrames, Counts, Kinds
<1>1. CASE ReconnectTimer \/ Stop \/ Reconfigure \/ SessionEnds \/ SpawnEnds
  <2>1. UNCHANGED <<lines, gates, handling, launched, verb, errs>>
    BY <1>1, Zenon DEF ReconnectTimer, Stop, Reconfigure, SessionEnds, SpawnEnds, ownerPart, verbPart, spawnPart
  <2> QED
    BY <1>0, <2>1, FewerLines
<1>2. ASSUME NEW d \in Dials,
             \/ ConnectResolves(d) \/ ConnectRejects(d) \/ ConnectTimer(d)
             \/ ConnectResolvesLate(d) \/ ListPeers(d) \/ PushAllowList(d)
      PROVE  CountInv'
  <2>1. UNCHANGED <<lines, gates, handling, launched, verb, errs>>
    BY <1>2, Zenon DEF ConnectResolves, ConnectRejects, ConnectTimer, ConnectResolvesLate, ListPeers,
       PushAllowList, ownerPart, verbPart, spawnPart
  <2> QED
    BY <1>0, <2>1, FewerLines
<1>3. ASSUME NEW d \in Dials, OnClose(d)
      PROVE  CountInv'
  BY <1>0, <1>3, FewerLines DEF OnClose, verbPart, spawnPart
<1>4. ASSUME NEW o \in Devices, PairingChanges(o)
      PROVE  CountInv'
  <2>1. UNCHANGED <<lines, gates, handling, launched, verb, errs>>
    BY <1>4, Zenon DEF PairingChanges, verbPart, spawnPart
  <2> QED
    BY <1>0, <2>1, FewerLines
<1>5. ASSUME NEW d \in Dials, OnMessage(d)
      PROVE  CountInv'
  BY <1>0, <1>5, MessageCounted
<1>6. CASE GateReads
  BY <1>0, <1>6, GateCounted DEF OwnerTypes
<1>7. CASE GateAndAttach
  BY <1>0, <1>7, AttachCounted
<1>8. ASSUME NEW q \in Asks, StartCreate(q) \/ ErrorArrives(q) \/ VerbTimeout(q) \/ waitForRoom(q)
      PROVE  CountInv'
  BY <1>0, <1>8, WaitCounted
<1>9. ASSUME NEW q \in Asks, StartResume(q) \/ launchAndWait(q)
      PROVE  CountInv'
  BY <1>0, <1>9, SendCounted
<1>10. ASSUME NEW q \in Asks, ListStored(q) \/ LaunchRefused(q)
       PROVE  CountInv'
  BY <1>0, <1>10, AnswerCounted
<1>11. ASSUME NEW q \in Asks, Recheck(q) \/ launchSession(q)
       PROVE  CountInv'
  BY <1>0, <1>11, LaunchCounted
<1> QED
  BY <1>1, <1>2, <1>3, <1>4, <1>5, <1>6, <1>7, <1>8, <1>9, <1>10, <1>11 DEF LaunchNext

-----------------------------------------------------------------------------

LEMMA LaunchInvInit == LaunchInit => LaunchInv
<1> SUFFICES ASSUME LaunchInit PROVE LaunchInv
  OBVIOUS
<1>0. 1 \in Dials /\ MaxFailures \in Nat /\ MaxEdits \in Nat /\ \A d \in Dials : d # 0
  BY LaunchAssumption DEF Dials
<1>1. LinkTypes /\ VerbTypes /\ SpawnTypes
  BY <1>0 DEF LaunchInit, LinkTypes, VerbTypes, SpawnTypes
<1>2. OwnerTypes
  BY <1>0 DEF LaunchInit, OwnerTypes, Counts
<1>3. TrustTypes
  BY <1>0 DEF LaunchInit, TrustTypes, NoPush
<1>4. LaunchTypeOK
  BY <1>1, <1>2, <1>3, LaunchTypesSplit
<1>5. OneActive /\ FreshClean /\ OneEar
  BY <1>0 DEF LaunchInit, OneActive, Active, FreshClean, Fresh, OneEar
<1>6. OneFrame
  BY DEF LaunchInit, OneFrame
<1>7. ClearedInTime
  BY DEF LaunchInit, ClearedInTime, Arrived, Phases
<1>8. \A q \in Asks, p \in Phases : handling[q][p] = 0 /\ launched[q] = 0 /\ verb[q] = "idle"
  BY DEF LaunchInit
<1>9. \A q \in Asks, w \in Kinds : LineCount(q, w) = 0 /\ GateCount(q, w) = 0
  BY DEF LaunchInit, LineCount, GateCount, HasLine, HasGate
<1>10. \A q \in Asks : Listings(q) = 0 /\ Launches(q) = 0
  BY <1>8, <1>9 DEF Listings, Launches, Phases, Kinds
<1>11. OneLaunch /\ ErrorsTrue
  BY <1>10 DEF OneLaunch, ErrorsTrue, LaunchInit
<1> QED
  BY <1>4, <1>5, <1>6, <1>7, <1>11 DEF LaunchInv

\* Whatever the connection of the launcher goes through, a session is launched
\* only for a device that was paired when its launch had come in or later; and
\* unless a client whose connect had timed out closed late, once for an ask, and
\* the only command of a device is not told of a rejection when its session was
\* launched (handleUbFrame, gateAndAttach, launchAndWait).
THEOREM LaunchesRight == LaunchSpec => []LaunchRight
<1>1. LaunchInit => LaunchInv
  BY LaunchInvInit
<1>2. LaunchInv /\ [LaunchNext]_launchVars => LaunchInv'
  <2> SUFFICES ASSUME LaunchInv, [LaunchNext]_launchVars PROVE LaunchInv'
    OBVIOUS
  <2>1. CASE UNCHANGED launchVars
    <3> USE <2>1 DEF launchVars
    <3>1. LaunchTypeOK' /\ Smooth' = Smooth
      BY DEF LaunchInv, LaunchTypeOK, Smooth
    <3>2. FreshClean' = FreshClean /\ OneActive' = OneActive /\ OneEar' = OneEar
      BY DEF FreshClean, Fresh, OneActive, Active, OneEar
    <3>3. ClearedInTime' = ClearedInTime /\ OneFrame' = OneFrame
      BY DEF ClearedInTime, Arrived, OneFrame
    <3>4. OneLaunch' = OneLaunch /\ ErrorsTrue' = ErrorsTrue
      BY DEF OneLaunch, ErrorsTrue, Alone, Listings, Launches, LineCount, GateCount, HasLine, HasGate
    <3> QED
      BY <3>1, <3>2, <3>3, <3>4 DEF LaunchInv
  <2>2. CASE LaunchNext
    <3>1. LaunchTypeOK'
      BY <2>2, LaunchTypesStep DEF LaunchInv
    <3>2. FreshClean' /\ ClearedInTime'
      BY <2>2, <3>1, FreshCleanStep, ClearedStep DEF LaunchInv
    <3>3. ASSUME Smooth'
          PROVE  OneActive' /\ OneEar' /\ OneFrame' /\ OneLaunch' /\ ErrorsTrue'
      <4>1. Smooth
        BY <2>2, <3>3, SmoothKept
      <4>2. OneActive' /\ OneEar'
        BY <2>2, <3>3, <4>1, OneActiveStep, OneEarStep DEF LaunchInv
      <4>3. CountInv
        BY <4>1 DEF LaunchInv, CountInv, CountTypes, LaunchTypeOK, Counts
      <4>4. CountInv'
        BY <2>2, <3>1, <4>1, <4>3, CountedStep DEF LaunchInv
      <4> QED
        BY <4>2, <4>4 DEF CountInv
    <3> QED
      BY <3>1, <3>2, <3>3 DEF LaunchInv
  <2> QED
    BY <2>1, <2>2
<1>3. LaunchInv => LaunchRight
  <2> SUFFICES ASSUME LaunchInv PROVE LaunchRight
    OBVIOUS
  <2>1. CountTypes
    BY DEF LaunchInv, LaunchTypeOK, CountTypes, Counts
  <2>2. CountShapes
    BY <2>1, CountForms
  <2>3. \A q \in Asks : launched[q] \in Nat /\ launched[q] <= Launches(q)
    <3>1. ASSUME NEW q \in Asks
          PROVE  launched[q] \in Nat /\ launched[q] <= Launches(q)
      <4>1. /\ LineCount(q, "launch") \in Nat /\ GateCount(q, "launch") \in Nat /\ launched[q] \in Nat
            /\ handling[q]["read"] \in Nat /\ handling[q]["yes"] \in Nat /\ handling[q]["no"] \in Nat
        BY <2>2 DEF CountShapes, Kinds, Phases
      <4> QED
        BY <4>1 DEF Launches
    <3> QED
      BY <3>1
  <2>4. LaunchedForOwner
    BY DEF LaunchInv, ClearedInTime, LaunchedForOwner
  <2>5. LaunchedOnce
    <3>1. ASSUME Smooth, NEW q \in Asks PROVE launched[q] <= 1
      <4>1. Launches(q) <= 1 /\ Launches(q) \in Nat
        BY <2>2, <3>1 DEF LaunchInv, OneLaunch, CountShapes
      <4> QED
        BY <2>3, <4>1
    <3> QED
      BY <3>1 DEF LaunchedOnce, Smooth
  <2>6. RejectionsTrue
    <3>1. ASSUME Smooth, NEW q \in Asks, verb[q] = "rejected", launched[q] > 0
          PROVE  ~ Alone(q)
      <4>1. Alone(q) => Launches(q) = 0
        BY <3>1 DEF LaunchInv, ErrorsTrue
      <4> QED
        BY <2>3, <3>1, <4>1
    <3> QED
      BY <3>1 DEF RejectionsTrue, Smooth, Alone
  <2> QED
    BY <2>4, <2>5, <2>6 DEF LaunchRight, LaunchInv
<1> QED
  BY <1>1, <1>2, <1>3, PTL DEF LaunchSpec

-----------------------------------------------------------------------------
(***************************************************************************)
(* The dialogs.  What a client will show is settled by the last frame      *)
(* about a dialog on its way to it and, without one, by what it shows and  *)
(* its sync window has seen.                                               *)
(***************************************************************************)

DialogFrames == [kind : {"request", "resolved", "warning", "syncEnd"}, id : Dialogs \cup {NoDialog}]
OwnerFrames == [kind : {"sync", "answer", "cancel"}, id : Dialogs \cup {NoDialog}]

Requests(d) == {f \in DialogFrames : f.kind = "request" /\ f.id = d}
Dismissals(d) == {f \in DialogFrames : f.kind \in {"resolved", "warning"} /\ f.id = d}

\* Among the frames of w in A or B the last is in A; without one, base holds.
LastWord(w, A, B, base) ==
    \/ \E i \in 1 .. Len(w) : w[i] \in A /\ \A j \in 1 .. Len(w) : j > i => w[j] \notin B
    \/ base /\ \A j \in 1 .. Len(w) : w[j] \notin B

\* The client shows d, or will and will not retire it.
Coming(c, d) ==
    LastWord(downlink[c], Requests(d), Dismissals(d),
             d \in openAsks[c] /\ (syncing[c] => d \in syncWindow[c]))

\* The client does not show d, or will be told to, or will find out.
Going(c, d) ==
    LastWord(downlink[c], Dismissals(d), Requests(d),
             d \notin openAsks[c] \/ (syncing[c] /\ d \notin syncWindow[c]))

\* A sync asked for on a clean line is on its way to the host, or answered and
\* the answer is the latest word.
SyncAhead(c) == \E i \in 1 .. Len(uplink[c]) : uplink[c][i].kind = "sync"
Speaks(c) == clean[c] /\ (fresh[c] \/ SyncAhead(c))

HostTypes ==
    /\ holder \in [Dialogs -> Nat] /\ bridge \in Nat /\ attached \subseteq Owners
    /\ fresh \in [Owners -> BOOLEAN]
WireTypes ==
    /\ downlink \in [Owners -> Seq(DialogFrames)] /\ uplink \in [Owners -> Seq(OwnerFrames)]
ClientTypes ==
    /\ openAsks \in [Owners -> SUBSET (Dialogs \cup {NoDialog})]
    /\ syncWindow \in [Owners -> SUBSET (Dialogs \cup {NoDialog})]
    /\ syncing \in [Owners -> BOOLEAN] /\ clean \in [Owners -> BOOLEAN]
DialogTypes == HostTypes /\ WireTypes /\ ClientTypes

LinkTold == ~ linked => attached = {} /\ \A c \in Owners : uplink[c] = <<>>
FreshTold == \A c \in Owners : fresh[c] => c \in attached /\ \A d \in pendingRequests : Coming(c, d)
CleanTold ==
    \A c \in Owners : Speaks(c) =>
        /\ \A d \in Flows \ pendingRequests : Going(c, d)
        /\ c \notin attached => downlink[c] = <<>> /\ syncing[c] /\ syncWindow[c] = {}

Told == LinkTold /\ FreshTold /\ CleanTold
DialogInv == DialogTypes /\ Told

-----------------------------------------------------------------------------
(* Sequences of frames *)

\* Frames that are none of B leave the last word what it was.
LEMMA WordKept ==
    ASSUME NEW T, NEW w \in Seq(T), NEW v \in Seq(T), NEW A, NEW B, NEW base \in BOOLEAN,
           LastWord(w, A, B, base), \A i \in 1 .. Len(v) : v[i] \notin B
    PROVE  LastWord(w \o v, A, B, base)
<1> DEFINE x == w \o v
<1>1. /\ Len(x) = Len(w) + Len(v) /\ Len(w) \in Nat /\ Len(v) \in Nat
      /\ \A i \in 1 .. Len(w) : x[i] = w[i]
      /\ \A i \in 1 .. Len(x) : i <= Len(w) \/ (i - Len(w) \in 1 .. Len(v) /\ x[i] = v[i - Len(w)])
  OBVIOUS
<1> HIDE DEF x
<1>2. \A j \in 1 .. Len(x) : j > Len(w) => x[j] \notin B
  BY <1>1
<1>3. CASE base /\ \A j \in 1 .. Len(w) : w[j] \notin B
  <2>1. \A j \in 1 .. Len(x) : x[j] \notin B
    BY <1>1, <1>2, <1>3
  <2> QED
    BY <1>3, <2>1 DEF LastWord, x
<1>4. CASE \E i \in 1 .. Len(w) : w[i] \in A /\ \A j \in 1 .. Len(w) : j > i => w[j] \notin B
  <2>1. PICK i \in 1 .. Len(w) : w[i] \in A /\ \A j \in 1 .. Len(w) : j > i => w[j] \notin B
    BY <1>4
  <2>2. i \in 1 .. Len(x) /\ x[i] \in A
    BY <1>1, <2>1
  <2>3. ASSUME NEW j \in 1 .. Len(x), j > i
        PROVE  x[j] \notin B
    <3>1. CASE j > Len(w)
      BY <1>2, <3>1
    <3>2. CASE ~ (j > Len(w))
      <4>1. j \in 1 .. Len(w) /\ x[j] = w[j]
        BY <1>1, <3>2
      <4> QED
        BY <2>1, <2>3, <4>1
    <3> QED
      BY <3>1, <3>2
  <2> QED
    BY <2>2, <2>3 DEF LastWord, x
<1> QED
  BY <1>3, <1>4 DEF LastWord

\* Frames with one of A and none of B give the last word.
LEMMA WordGiven ==
    ASSUME NEW T, NEW w \in Seq(T), NEW v \in Seq(T), NEW A, NEW B, NEW base \in BOOLEAN,
           NEW i \in 1 .. Len(v), v[i] \in A, \A j \in 1 .. Len(v) : v[j] \notin B
    PROVE  LastWord(w \o v, A, B, base)
<1> DEFINE x == w \o v
           k == Len(w) + i
<1>1. /\ Len(x) = Len(w) + Len(v) /\ Len(w) \in Nat /\ Len(v) \in Nat /\ k \in 1 .. Len(x) /\ x[k] = v[i]
      /\ \A j \in 1 .. Len(x) : j > Len(w) => j - Len(w) \in 1 .. Len(v) /\ x[j] = v[j - Len(w)]
  OBVIOUS
<1>2. k > Len(w)
  BY <1>1
<1> HIDE DEF x, k
<1>3. ASSUME NEW j \in 1 .. Len(x), j > k
      PROVE  x[j] \notin B
  <2>1. j > Len(w)
    BY <1>1, <1>2, <1>3
  <2>2. j - Len(w) \in 1 .. Len(v) /\ x[j] = v[j - Len(w)]
    BY <1>1, <2>1
  <2> QED
    BY <2>2
<1> QED
  BY <1>1, <1>3 DEF LastWord, x

\* The first frame is read; then stands for what the reader makes of it.
LEMMA WordRead ==
    ASSUME NEW T, NEW w \in Seq(T), w # <<>>, NEW A, NEW B, NEW base \in BOOLEAN, NEW then \in BOOLEAN,
           LastWord(w, A, B, base), Head(w) \in A => then, base /\ Head(w) \notin B => then
    PROVE  LastWord(Tail(w), A, B, then)
<1> DEFINE x == Tail(w)
<1>1. /\ Len(x) = Len(w) - 1 /\ Len(w) \in Nat /\ Len(w) >= 1 /\ Head(w) = w[1]
      /\ \A i \in 1 .. Len(x) : x[i] = w[i + 1] /\ i + 1 \in 1 .. Len(w)
      /\ \A i \in 1 .. Len(w) : i # 1 => i - 1 \in 1 .. Len(x) /\ x[i - 1] = w[i]
  OBVIOUS
<1> HIDE DEF x
<1>2. CASE base /\ \A j \in 1 .. Len(w) : w[j] \notin B
  <2>1. Head(w) \notin B /\ \A j \in 1 .. Len(x) : x[j] \notin B
    BY <1>1, <1>2
  <2> QED
    BY <1>2, <2>1 DEF LastWord, x
<1>3. CASE \E i \in 1 .. Len(w) : w[i] \in A /\ \A j \in 1 .. Len(w) : j > i => w[j] \notin B
  <2>1. PICK i \in 1 .. Len(w) : w[i] \in A /\ \A j \in 1 .. Len(w) : j > i => w[j] \notin B
    BY <1>3
  <2>2. CASE i = 1
    <3>1. \A j \in 1 .. Len(x) : x[j] \notin B
      BY <1>1, <2>1, <2>2
    <3> QED
      BY <1>1, <2>1, <2>2, <3>1 DEF LastWord, x
  <2>3. CASE i # 1
    <3>1. i - 1 \in 1 .. Len(x) /\ x[i - 1] \in A /\ \A j \in 1 .. Len(x) : j > i - 1 => x[j] \notin B
      BY <1>1, <2>1, <2>3
    <3> QED
      BY <3>1 DEF LastWord, x
  <2> QED
    BY <2>2, <2>3
<1> QED
  BY <1>2, <1>3 DEF LastWord

\* SetToSeq lists a finite set.
LEMMA SetListed ==
    ASSUME NEW S, IsFiniteSet(S)
    PROVE  /\ Cardinality(S) \in Nat /\ SetToSeq(S) \in [1 .. Cardinality(S) -> S]
           /\ \A x \in S : \E i \in 1 .. Cardinality(S) : SetToSeq(S)[i] = x
<1> DEFINE n == Cardinality(S)
           f == SetToSeq(S)
<1>1. n \in Nat /\ ExistsBijection(1 .. n, S)
  BY FS_CardinalityType
<1>2. \E g \in [1 .. n -> S] : IsInjective(g)
  BY <1>1 DEF ExistsBijection, Bijection, Injection
<1>3. f \in [1 .. n -> S] /\ IsInjective(f)
  BY <1>2 DEF SetToSeq
<1>4. f \in Injection(1 .. n, S)
  BY <1>3 DEF Injection
<1>5. IsFiniteSet(1 .. n) /\ Cardinality(1 .. n) = n
  BY <1>1, FS_Interval
<1> HIDE DEF n, f
<1>6. f \in Surjection(1 .. n, S)
  BY <1>4, <1>5, FS_Injection DEF n
<1> QED
  BY <1>1, <1>3, <1>6 DEF Surjection, n, f

\* Frames(kind, ids) holds one frame for every id and no other.
LEMMA FramesOf ==
    ASSUME NEW kind \in {"request", "resolved"}, NEW ids \in SUBSET Dialogs
    PROVE  /\ Frames(kind, ids) \in Seq(DialogFrames)
           /\ \A i \in 1 .. Len(Frames(kind, ids)) : Frames(kind, ids)[i].kind = kind /\ Frames(kind, ids)[i].id \in ids
           /\ \A d \in ids : \E i \in 1 .. Len(Frames(kind, ids)) : Frames(kind, ids)[i] = Frame(kind, d)
<1>1. IsFiniteSet(ids)
  BY DialogAssumption, FS_Subset
<1> DEFINE n == Cardinality(ids)
           s == SetToSeq(ids)
           w == Frames(kind, ids)
<1>2. n \in Nat /\ s \in [1 .. n -> ids] /\ \A x \in ids : \E i \in 1 .. n : s[i] = x
  BY <1>1, SetListed
<1> HIDE DEF s
<1>3. w = [i \in 1 .. n |-> Frame(kind, s[i])]
  BY DEF Frames, s
<1> HIDE DEF n, w
<1>4. \A i \in 1 .. n : w[i] = Frame(kind, s[i]) /\ s[i] \in ids
  BY <1>2, <1>3
<1>5. \A d \in ids : Frame(kind, d) \in DialogFrames /\ Frame(kind, d).kind = kind /\ Frame(kind, d).id = d
  BY DEF Frame, DialogFrames
<1>6. w \in Seq(DialogFrames) /\ Len(w) = n
  BY <1>2, <1>3, <1>4, <1>5
<1>7. \A i \in 1 .. Len(w) : w[i].kind = kind /\ w[i].id \in ids
  BY <1>4, <1>5, <1>6
<1>8. \A d \in ids : \E i \in 1 .. Len(w) : w[i] = Frame(kind, d)
  BY <1>2, <1>4, <1>6
<1> QED
  BY <1>6, <1>7, <1>8 DEF w

\* The replay requests what is pending and nothing else.
LEMMA Replayed ==
    /\ Replay \in Seq(DialogFrames)
    /\ \A d : \A i \in 1 .. Len(Replay) : /\ Replay[i] \notin Dismissals(d)
                                          /\ Replay[i] \in Requests(d) => d \in pendingRequests
    /\ \A d \in pendingRequests : \E i \in 1 .. Len(Replay) : Replay[i] \in Requests(d)
<1> DEFINE u == Frames("request", pendingRequests \cap Flows)
           v == Frames("request", pendingRequests \cap Stocks)
           e == <<Frame("syncEnd", NoDialog)>>
<1>1. pendingRequests \subseteq Dialogs
  BY DEF pendingRequests
<1>2. /\ u \in Seq(DialogFrames) /\ \A i \in 1 .. Len(u) : u[i].kind = "request" /\ u[i].id \in pendingRequests
      /\ \A d \in pendingRequests \cap Flows : \E i \in 1 .. Len(u) : u[i] = Frame("request", d)
  BY <1>1, FramesOf
<1>3. /\ v \in Seq(DialogFrames) /\ \A i \in 1 .. Len(v) : v[i].kind = "request" /\ v[i].id \in pendingRequests
      /\ \A d \in pendingRequests \cap Stocks : \E i \in 1 .. Len(v) : v[i] = Frame("request", d)
  BY <1>1, FramesOf
<1>4. e \in Seq(DialogFrames) /\ Len(e) = 1 /\ e[1].kind = "syncEnd"
  BY DEF Frame, DialogFrames
<1>5. Replay = (u \o v) \o e
  BY DEF Replay
<1> HIDE DEF u, v, e
<1> DEFINE y == u \o v
<1>6. /\ y \in Seq(DialogFrames) /\ Len(y) = Len(u) + Len(v) /\ Len(u) \in Nat /\ Len(v) \in Nat
      /\ \A i \in 1 .. Len(u) : i \in 1 .. Len(y) /\ y[i] = u[i]
      /\ \A i \in 1 .. Len(v) : Len(u) + i \in 1 .. Len(y) /\ y[Len(u) + i] = v[i]
      /\ \A i \in 1 .. Len(y) : \/ i \in 1 .. Len(u) /\ y[i] = u[i]
                                \/ i - Len(u) \in 1 .. Len(v) /\ y[i] = v[i - Len(u)]
  BY <1>2, <1>3
<1>7. \A i \in 1 .. Len(y) : y[i].kind = "request" /\ y[i].id \in pendingRequests
  <2>1. ASSUME NEW i \in 1 .. Len(y)
        PROVE  y[i].kind = "request" /\ y[i].id \in pendingRequests
    <3>1. CASE i \in 1 .. Len(u) /\ y[i] = u[i]
      BY <1>2, <3>1
    <3>2. CASE i - Len(u) \in 1 .. Len(v) /\ y[i] = v[i - Len(u)]
      BY <1>3, <3>2
    <3> QED
      BY <1>6, <3>1, <3>2
  <2> QED
    BY <2>1
<1>10. Replay = y \o e
  BY <1>5
<1>8. \A d \in pendingRequests : \E i \in 1 .. Len(y) : y[i] = Frame("request", d)
  <2>1. ASSUME NEW d \in pendingRequests
        PROVE  \E i \in 1 .. Len(y) : y[i] = Frame("request", d)
    <3>1. CASE d \in Flows
      BY <1>2, <1>6, <3>1
    <3>2. CASE d \in Stocks
      BY <1>3, <1>6, <3>2
    <3> QED
      BY <1>1, <3>1, <3>2 DEF Dialogs
  <2> QED
    BY <2>1
<1> HIDE DEF y
<1>14. /\ Replay \in Seq(DialogFrames) /\ Len(Replay) = Len(y) + 1 /\ Len(y) \in Nat
       /\ \A i \in 1 .. Len(y) : i \in 1 .. Len(Replay) /\ Replay[i] = y[i]
       /\ Replay[Len(y) + 1] = e[1]
  <2>1. Len(y) \in Nat /\ 1 \in 1 .. Len(e)
    BY <1>4, <1>6
  <2>0. y \in Seq(DialogFrames) /\ e \in Seq(DialogFrames)
    BY <1>4, <1>6
  <2>2. y \o e \in Seq(DialogFrames) /\ Len(y \o e) = Len(y) + Len(e)
    BY <2>0
  <2>3. \A i \in 1 .. Len(y) : (y \o e)[i] = y[i]
    BY <1>4, <1>6
  <2>4. \A i \in 1 .. Len(e) : (y \o e)[Len(y) + i] = e[i]
    BY <2>0
  <2> QED
    BY <1>4, <1>10, <2>1, <2>2, <2>3, <2>4
<1>11. /\ Replay \in Seq(DialogFrames)
       /\ \A i \in 1 .. Len(y) : i \in 1 .. Len(Replay) /\ Replay[i] = y[i]
       /\ \A i \in 1 .. Len(Replay) : Replay[i] = e[1] \/ (i \in 1 .. Len(y) /\ Replay[i] = y[i])
  BY <1>14
<1>9. \A d \in pendingRequests : Frame("request", d) \in Requests(d)
  BY <1>1 DEF Frame, Requests, DialogFrames
<1>12. \A i \in 1 .. Len(Replay) :
           Replay[i].kind = "syncEnd" \/ (Replay[i].kind = "request" /\ Replay[i].id \in pendingRequests)
  BY <1>4, <1>7, <1>11
<1>13. \A d \in pendingRequests : \E i \in 1 .. Len(Replay) : Replay[i] \in Requests(d)
  BY <1>8, <1>9, <1>11
<1> QED
  BY <1>11, <1>12, <1>13 DEF Requests, Dismissals

-----------------------------------------------------------------------------
(* Types *)

\* A frame is what Frame says it is.
LEMMA FrameForm ==
    /\ \A k \in {"request", "resolved", "warning", "syncEnd"}, d \in Dialogs \cup {NoDialog} :
          /\ Frame(k, d) \in DialogFrames /\ Frame(k, d).kind = k /\ Frame(k, d).id = d
          /\ <<Frame(k, d)>> \in Seq(DialogFrames) /\ Len(<<Frame(k, d)>>) = 1 /\ <<Frame(k, d)>>[1] = Frame(k, d)
    /\ \A k \in {"sync", "answer", "cancel"}, d \in Dialogs \cup {NoDialog} :
          Frame(k, d) \in OwnerFrames /\ Frame(k, d).kind = k /\ Frame(k, d).id = d
<1>1. \A k \in {"request", "resolved", "warning", "syncEnd"}, d \in Dialogs \cup {NoDialog} :
          Frame(k, d) \in DialogFrames /\ Frame(k, d).kind = k /\ Frame(k, d).id = d
  BY DEF Frame, DialogFrames
<1>2. \A f \in DialogFrames : <<f>> \in Seq(DialogFrames) /\ Len(<<f>>) = 1 /\ <<f>>[1] = f
  OBVIOUS
<1>3. \A k \in {"sync", "answer", "cancel"}, d \in Dialogs \cup {NoDialog} :
          Frame(k, d) \in OwnerFrames /\ Frame(k, d).kind = k /\ Frame(k, d).id = d
  BY DEF Frame, OwnerFrames
<1> QED
  BY <1>1, <1>2, <1>3

\* A broadcast sends what a client can read.
LEMMA BroadcastTyped ==
    ASSUME WireTypes, NEW frames \in Seq(DialogFrames), broadcast(frames)
    PROVE  downlink' \in [Owners -> Seq(DialogFrames)] /\ fresh' \in [Owners -> BOOLEAN]
<1>1. \A c \in Owners : downlink[c] \in Seq(DialogFrames) /\ downlink[c] \o frames \in Seq(DialogFrames)
  BY DEF WireTypes
<1> QED
  BY <1>1 DEF broadcast

\* Upward adds m to what is on its way to the host, or nothing.
LEMMA UpwardTyped ==
    ASSUME WireTypes, NEW c \in Owners, NEW m \in OwnerFrames, Upward(c, m)
    PROVE  /\ uplink' \in [Owners -> Seq(OwnerFrames)]
           /\ \A o \in Owners : o # c => uplink'[o] = uplink[o]
           /\ \A i \in 1 .. Len(uplink[c]) : i \in 1 .. Len(uplink'[c]) /\ uplink'[c][i] = uplink[c][i]
           /\ linked => \A i \in 1 .. Len(uplink'[c]) : i \in 1 .. Len(uplink[c]) \/ uplink'[c][i] = m
           /\ ~ linked => uplink' = uplink
<1>1. uplink[c] \in Seq(OwnerFrames)
  BY DEF WireTypes
<1>2. CASE ~ linked
  BY <1>1, <1>2 DEF Upward, WireTypes
<1>3. CASE linked
  <2> DEFINE w == uplink[c]
             v == Append(w, m)
  <2>1. /\ v \in Seq(OwnerFrames) /\ Len(v) = Len(w) + 1 /\ Len(w) \in Nat /\ v[Len(w) + 1] = m
        /\ \A i \in 1 .. Len(w) : v[i] = w[i]
    BY <1>1
  <2>2. uplink' = [uplink EXCEPT ![c] = v]
    BY <1>3 DEF Upward
  <2> HIDE DEF v
  <2>3. uplink'[c] = v /\ \A o \in Owners : o # c => uplink'[o] = uplink[o]
    BY <2>2 DEF WireTypes
  <2>4. uplink' \in [Owners -> Seq(OwnerFrames)]
    BY <2>1, <2>2 DEF WireTypes
  <2>5. \A i \in 1 .. Len(v) : i \in 1 .. Len(w) \/ v[i] = m
    BY <2>1
  <2> HIDE DEF w
  <2>6. \A i \in 1 .. Len(w) : i \in 1 .. Len(v) /\ v[i] = w[i]
    BY <2>1
  <2> QED
    BY <1>3, <2>3, <2>4, <2>5, <2>6 DEF w
<1> QED
  BY <1>2, <1>3

\* The types of the host's state.
LEMMA HostTypesStep ==
    ASSUME HostTypes, WireTypes, UiNext
    PROVE  HostTypes'
<1>0. WrapBridge \in Nat /\ bridge + 1 \in Nat
  BY DEF HostTypes, WrapBridge
<1>1. \A frames : broadcast(frames) => fresh' \in [Owners -> BOOLEAN]
  BY DEF broadcast
<1>2. LinkCut => fresh' \in [Owners -> BOOLEAN]
  BY DEF LinkCut
<1>3. ASSUME NEW d \in Stocks, openStock(d) \/ dismissStock(d)
      PROVE  HostTypes'
  <2>1. d \in Dialogs
    BY DEF Dialogs
  <2> QED
    BY <1>0, <1>1, <1>3, <2>1 DEF openStock, dismissStock, HostTypes
<1>4. ASSUME NEW d \in Flows, onStartedFlow(d) \/ onCompleted(d)
      PROVE  HostTypes'
  <2>1. d \in Dialogs
    BY DEF Dialogs
  <2> QED
    BY <1>0, <1>1, <1>4, <2>1 DEF onStartedFlow, onCompleted, HostTypes
<1>5. ASSUME NEW d \in Dialogs, onTtl(d) \/ onSubmitResult(d)
      PROVE  HostTypes'
  BY <1>0, <1>1, <1>5 DEF onTtl, onSubmitResult, HostTypes
<1>6. CASE cancelAllPending
  BY <1>1, <1>6 DEF cancelAllPending, HostTypes
<1>7. CASE cutLink \/ relink
  BY <1>2, <1>7 DEF cutLink, relink, LinkCut, HostTypes
<1>10. CASE dispose
  <2>1. /\ bridge' = bridge + 1 /\ attached' = {} /\ LinkCut
        /\ holder' = [d \in Dialogs |-> IF holder[d] = bridge THEN 0 ELSE holder[d]]
    BY <1>10 DEF dispose, LinkCut
  <2> QED
    BY <1>0, <1>2, <2>1 DEF HostTypes
<1>8. ASSUME NEW c \in Owners, onSync(c) \/ respond(c)
      PROVE  HostTypes'
  <2>1. UNCHANGED bridge /\ attached' = attached \cup {c}
    BY <1>8 DEF onSync, respond, Attach
  <2>2. fresh' \in [Owners -> BOOLEAN]
    BY <1>8 DEF onSync, respond, HostTypes
  <2>3. holder' = holder \/ \E d \in Stocks : holder' = [holder EXCEPT ![d] = 0]
    BY <1>8 DEF onSync, respond
  <2>4. holder' \in [Dialogs -> Nat]
    BY <2>3 DEF HostTypes
  <2> QED
    BY <2>1, <2>2, <2>4 DEF HostTypes
<1>11. ASSUME NEW c \in Owners, requestSync(c) \/ onEnvelope(c)
       PROVE  HostTypes'
  BY <1>11 DEF requestSync, onEnvelope, HostTypes, hostVars
<1>9. ASSUME NEW c \in Owners, NEW d \in Dialogs, NEW kind \in {"answer", "cancel"}, answer(c, d, kind)
      PROVE  HostTypes'
  BY <1>9 DEF answer, HostTypes, hostVars
<1> QED
  BY <1>3, <1>4, <1>5, <1>6, <1>7, <1>8, <1>9, <1>10, <1>11 DEF UiNext

\* The types of what is on its way.
LEMMA WireTypesStep ==
    ASSUME DialogTypes, UiNext
    PROVE  WireTypes'
<1>0. WireTypes /\ \A c \in Owners : downlink[c] \in Seq(DialogFrames) /\ uplink[c] \in Seq(OwnerFrames)
  BY DEF DialogTypes, WireTypes
<1>1. ASSUME NEW frames \in Seq(DialogFrames), broadcast(frames), UNCHANGED uplink
      PROVE  WireTypes'
  BY <1>0, <1>1, BroadcastTyped DEF WireTypes
<1>2. ASSUME LinkCut PROVE WireTypes'
  <2>1. PICK n \in [Owners -> 0 .. 6] :
            /\ \A c \in Owners : n[c] <= Len(downlink[c])
            /\ downlink' = [c \in Owners |-> SubSeq(downlink[c], 1, n[c])]
    BY <1>2 DEF LinkCut
  <2>2. \A c \in Owners : SubSeq(downlink[c], 1, n[c]) \in Seq(DialogFrames)
    <3>1. ASSUME NEW c \in Owners PROVE SubSeq(downlink[c], 1, n[c]) \in Seq(DialogFrames)
      <4>1. downlink[c] \in Seq(DialogFrames) /\ n[c] \in 0 .. 6 /\ n[c] <= Len(downlink[c])
        BY <1>0, <2>1
      <4>2. \A i \in 1 .. n[c] : downlink[c][i] \in DialogFrames
        BY <4>1
      <4> QED
        BY <4>1, <4>2
    <3> QED
      BY <3>1
  <2>3. uplink' = [c \in Owners |-> <<>>]
    BY <1>2 DEF LinkCut
  <2> QED
    BY <2>1, <2>2, <2>3 DEF WireTypes
<1>3. UNCHANGED <<downlink, uplink>> => WireTypes'
  BY <1>0 DEF WireTypes
<1>4. ASSUME NEW d \in Stocks, openStock(d) \/ dismissStock(d)
      PROVE  WireTypes'
  BY <1>1, <1>3, <1>4, FrameForm DEF openStock, dismissStock, Dialogs
<1>5. ASSUME NEW d \in Flows, onStartedFlow(d) \/ onCompleted(d)
      PROVE  WireTypes'
  BY <1>1, <1>5, FrameForm DEF onStartedFlow, onCompleted, Dialogs
<1>6. ASSUME NEW d \in Dialogs, onTtl(d) \/ onSubmitResult(d)
      PROVE  WireTypes'
  BY <1>1, <1>6, FrameForm DEF onTtl, onSubmitResult
<1>7. CASE cancelAllPending
  <2>1. pendingRequests \cap Stocks \in SUBSET Dialogs
    BY DEF pendingRequests
  <2> QED
    BY <1>1, <1>7, <2>1, FramesOf DEF cancelAllPending
<1>8. CASE cutLink \/ relink \/ dispose
  BY <1>2, <1>3, <1>8 DEF cutLink, relink, dispose
<1>9. ASSUME NEW c \in Owners, onSync(c)
      PROVE  WireTypes'
  <2>1. uplink' = [uplink EXCEPT ![c] = Tail(@)] /\ downlink' = [downlink EXCEPT ![c] = @ \o Replay] /\ uplink[c] # <<>>
    BY <1>9 DEF onSync
  <2>2. Tail(uplink[c]) \in Seq(OwnerFrames) /\ downlink[c] \o Replay \in Seq(DialogFrames)
    BY <1>0, <2>1, Replayed
  <2> QED
    BY <1>0, <2>1, <2>2 DEF WireTypes
<1>10. ASSUME NEW c \in Owners, respond(c)
       PROVE  WireTypes'
  <2>1. uplink' = [uplink EXCEPT ![c] = Tail(@)] /\ downlink' = downlink /\ uplink[c] # <<>>
    BY <1>10 DEF respond
  <2>2. Tail(uplink[c]) \in Seq(OwnerFrames)
    BY <1>0, <2>1
  <2> QED
    BY <1>0, <2>1, <2>2 DEF WireTypes
<1>11. ASSUME NEW c \in Owners, onEnvelope(c)
       PROVE  WireTypes'
  <2>1. downlink' = [downlink EXCEPT ![c] = Tail(@)] /\ uplink' = uplink /\ downlink[c] # <<>>
    BY <1>11 DEF onEnvelope
  <2>2. Tail(downlink[c]) \in Seq(DialogFrames)
    BY <1>0, <2>1
  <2> QED
    BY <1>0, <2>1, <2>2 DEF WireTypes
<1>12. ASSUME NEW c \in Owners, NEW m \in OwnerFrames, Upward(c, m), UNCHANGED downlink
       PROVE  WireTypes'
  BY <1>0, <1>12, UpwardTyped DEF WireTypes
<1>13. ASSUME NEW c \in Owners, requestSync(c)
       PROVE  WireTypes'
  BY <1>12, <1>13, FrameForm DEF requestSync
<1>14. ASSUME NEW c \in Owners, NEW d \in Dialogs, NEW kind \in {"answer", "cancel"}, answer(c, d, kind)
       PROVE  WireTypes'
  BY <1>12, <1>14, FrameForm DEF answer
<1> QED
  BY <1>4, <1>5, <1>6, <1>7, <1>8, <1>9, <1>10, <1>11, <1>13, <1>14 DEF UiNext

\* The types of the client's state.
LEMMA ClientTypesStep ==
    ASSUME DialogTypes, UiNext
    PROVE  ClientTypes'
<1>0. ClientTypes /\ WireTypes
  BY DEF DialogTypes
<1>1. UNCHANGED <<clientVars, clean>> => ClientTypes'
  BY <1>0 DEF ClientTypes, clientVars
<1>2. ASSUME NEW d \in Dialogs,
             \/ openStock(d) \/ dismissStock(d) \/ onStartedFlow(d) \/ onCompleted(d) \/ onTtl(d) \/ onSubmitResult(d)
      PROVE  ClientTypes'
  BY <1>1, <1>2, Zenon DEF openStock, dismissStock, onStartedFlow, onCompleted, onTtl, onSubmitResult
<1>3. CASE cancelAllPending \/ cutLink \/ relink \/ dispose
  BY <1>1, <1>3, Zenon DEF cancelAllPending, cutLink, relink, dispose
<1>4. ASSUME NEW c \in Owners, onSync(c) \/ respond(c)
      PROVE  ClientTypes'
  BY <1>1, <1>4, Zenon DEF onSync, respond
<1>5. ASSUME NEW c \in Owners, requestSync(c)
      PROVE  ClientTypes'
  BY <1>0, <1>5 DEF requestSync, ClientTypes
<1>6. ASSUME NEW c \in Owners, NEW ids, Retire(c, ids)
      PROVE  openAsks' \in [Owners -> SUBSET (Dialogs \cup {NoDialog})]
  BY <1>0, <1>6 DEF Retire, ClientTypes
<1>9. ASSUME NEW c \in Owners, NEW d \in Dialogs \cup {NoDialog}, Saw(c, d)
      PROVE  syncWindow' \in [Owners -> SUBSET (Dialogs \cup {NoDialog})]
  BY <1>0, <1>9 DEF Saw, ClientTypes
<1>7. ASSUME NEW c \in Owners, onEnvelope(c)
      PROVE  ClientTypes'
  <2>1. Head(downlink[c]) \in DialogFrames /\ clean' = clean
    BY <1>0, <1>7 DEF onEnvelope, WireTypes
  <2>2. \/ closeSyncWindow(c)
        \/ \E d \in Dialogs \cup {NoDialog} : presentAsk(c, d) \/ routeNotify(c, d)
    BY <1>7, <2>1 DEF onEnvelope, DialogFrames
  <2>3. CASE closeSyncWindow(c)
    BY <1>0, <1>6, <2>1, <2>3 DEF closeSyncWindow, ClientTypes
  <2>4. ASSUME NEW d \in Dialogs \cup {NoDialog}, presentAsk(c, d)
        PROVE  ClientTypes'
    <3>1. openAsks' \in [Owners -> SUBSET (Dialogs \cup {NoDialog})] /\ UNCHANGED syncing /\ Saw(c, d)
      BY <1>0, <2>4 DEF presentAsk, ClientTypes
    <3> QED
      BY <1>0, <1>9, <2>1, <3>1 DEF ClientTypes
  <2>5. ASSUME NEW d \in Dialogs \cup {NoDialog}, routeNotify(c, d)
        PROVE  ClientTypes'
    BY <1>0, <1>6, <1>9, <2>1, <2>5 DEF routeNotify, ClientTypes
  <2> QED
    BY <2>2, <2>3, <2>4, <2>5
<1>8. ASSUME NEW c \in Owners, NEW d \in Dialogs, NEW kind \in {"answer", "cancel"}, answer(c, d, kind)
      PROVE  ClientTypes'
  BY <1>0, <1>6, <1>8 DEF answer, ClientTypes
<1> QED
  BY <1>2, <1>3, <1>4, <1>5, <1>7, <1>8 DEF UiNext, Dialogs

-----------------------------------------------------------------------------
(* What is told, step by step *)

\* Only these variables matter.
ToldVars == <<holder, bridge, attached, linked, downlink, uplink, openAsks, syncWindow, syncing, fresh, clean>>

\* A step that changes none of them leaves told what was.
LEMMA NothingTold ==
    ASSUME Told, UNCHANGED ToldVars
    PROVE  Told'
BY DEF ToldVars, Told, LinkTold, FreshTold, CleanTold, Speaks, SyncAhead, Going, Coming, LastWord, pendingRequests

\* A client that is not attached and asked on a clean line has read nothing.
LEMMA GoingClean ==
    ASSUME NEW c \in Owners, NEW d, (downlink[c] = <<>> /\ syncing[c] /\ syncWindow[c] = {})'
    PROVE  Going(c, d)'
<1>1. \A j \in 1 .. Len(downlink'[c]) : FALSE
  BY DEF Going
<1> QED
  BY <1>1 DEF Going, LastWord

\* The frames a step sends dismiss every flow that stops being pending and
\* request none that is not.
LEMMA BroadcastTold ==
    ASSUME DialogTypes, Told, NEW frames \in Seq(DialogFrames), broadcast(frames),
           UNCHANGED <<openAsks, syncWindow, syncing, clean, uplink, attached, linked>>,
           \A f \in Flows \ pendingRequests' :
              /\ \A i \in 1 .. Len(frames) : frames[i] \notin Requests(f)
              /\ f \in pendingRequests => \E i \in 1 .. Len(frames) : frames[i] \in Dismissals(f)
    PROVE  Told'
<1>1. LinkTold'
  BY DEF Told, LinkTold
<1>2. \A c \in Owners : fresh'[c] = FALSE
  BY DEF broadcast
<1>3. FreshTold'
  BY <1>2 DEF FreshTold
<1>4. ASSUME NEW c \in Owners, Speaks(c)'
      PROVE  /\ \A f \in Flows \ pendingRequests' : Going(c, f)'
             /\ (c \notin attached => downlink[c] = <<>> /\ syncing[c] /\ syncWindow[c] = {})'
  <2>1. Speaks(c)
    BY <1>2, <1>4 DEF Speaks, SyncAhead
  <2>2. /\ \A f \in Flows \ pendingRequests : Going(c, f)
        /\ c \notin attached => downlink[c] = <<>> /\ syncing[c] /\ syncWindow[c] = {}
    BY <2>1 DEF Told, CleanTold
  <2>3. CASE c \notin attached
    <3>1. downlink'[c] = downlink[c]
      BY <2>3 DEF broadcast
    <3>2. (downlink[c] = <<>> /\ syncing[c] /\ syncWindow[c] = {})'
      BY <2>2, <2>3, <3>1
    <3> QED
      BY <3>2, GoingClean
  <2>4. CASE c \in attached
    <3>1. linked
      BY <2>4 DEF Told, LinkTold
    <3>2. downlink'[c] = downlink[c] \o frames
      BY <2>4, <3>1 DEF broadcast
    <3>3. downlink[c] \in Seq(DialogFrames)
      BY DEF DialogTypes, WireTypes
    <3>4. ASSUME NEW f \in Flows \ pendingRequests'
          PROVE  Going(c, f)'
      <4> DEFINE base == f \notin openAsks[c] \/ (syncing[c] /\ f \notin syncWindow[c])
                 A == Dismissals(f)
                 B == Requests(f)
                 w == downlink[c]
      <4>1. LastWord(w \o frames, A, B, base)
        <5>0. base \in BOOLEAN
          BY DEF DialogTypes, ClientTypes
        <5>1. CASE f \in pendingRequests
          <6>1. PICK i \in 1 .. Len(frames) : frames[i] \in A
            BY <5>1
          <6>2. \A j \in 1 .. Len(frames) : frames[j] \notin B
            OBVIOUS
          <6> HIDE DEF A, B, base, w
          <6>3. w \in Seq(DialogFrames)
            BY <3>3 DEF w
          <6> QED
            BY <5>0, <6>1, <6>2, <6>3, WordGiven
        <5>2. CASE f \notin pendingRequests
          <6>1. LastWord(w, A, B, base)
            BY <2>2, <5>2 DEF Going
          <6>2. \A j \in 1 .. Len(frames) : frames[j] \notin B
            OBVIOUS
          <6> HIDE DEF A, B, base, w
          <6>3. w \in Seq(DialogFrames)
            BY <3>3 DEF w
          <6> QED
            BY <5>0, <6>1, <6>2, <6>3, WordKept
        <5> QED
          BY <5>1, <5>2
      <4>2. LastWord(downlink'[c], A, B, f \notin openAsks'[c] \/ (syncing'[c] /\ f \notin syncWindow'[c]))
        BY <3>2, <4>1
      <4> QED
        BY <4>2 DEF Going, LastWord
    <3> QED
      BY <2>4, <3>4
  <2> QED
    BY <2>3, <2>4
<1>5. CleanTold'
  BY <1>4 DEF CleanTold
<1> QED
  BY <1>1, <1>3, <1>5 DEF Told

\* What a frame about d says of a flow.
LEMMA FrameSays ==
    ASSUME NEW d \in Dialogs, NEW f \in Flows
    PROVE  /\ <<Frame("request", d)>>[1] \in Requests(f) => f = d
           /\ \A k \in {"resolved", "warning"} :
                 <<Frame(k, d)>>[1] \notin Requests(f) /\ (f = d => <<Frame(k, d)>>[1] \in Dismissals(f))
BY FrameForm DEF Requests, Dismissals

\* The host's own steps: dialogs opened, ended, timed out, stopped.
LEMMA HostTold ==
    ASSUME DialogTypes, Told,
           \/ \E d \in Stocks : openStock(d) \/ dismissStock(d)
           \/ \E d \in Flows : onStartedFlow(d) \/ onCompleted(d)
           \/ \E d \in Dialogs : onTtl(d) \/ onSubmitResult(d)
           \/ cancelAllPending
    PROVE  Told'
<1> DEFINE Steady == UNCHANGED <<openAsks, syncWindow, syncing, clean, uplink, attached, linked>>
<1>0. \A d \in Stocks \cup Flows : d \in Dialogs
  BY DEF Dialogs
<1>1. holder \in [Dialogs -> Nat]
  BY DEF DialogTypes, HostTypes
<1>2. ASSUME NEW k \in {"resolved", "warning"}, NEW d \in Dialogs, broadcast(<<Frame(k, d)>>), Steady,
             \A f \in Flows \ pendingRequests' : f \in pendingRequests => f = d
      PROVE  Told'
  <2>1. /\ <<Frame(k, d)>> \in Seq(DialogFrames)
        /\ \A i \in 1 .. Len(<<Frame(k, d)>>) : i = 1
        /\ 1 \in 1 .. Len(<<Frame(k, d)>>)
    BY FrameForm
  <2>2. \A f \in Flows \ pendingRequests' :
              /\ \A i \in 1 .. Len(<<Frame(k, d)>>) : <<Frame(k, d)>>[i] \notin Requests(f)
              /\ f \in pendingRequests => \E i \in 1 .. Len(<<Frame(k, d)>>) : <<Frame(k, d)>>[i] \in Dismissals(f)
    BY <1>2, <2>1, FrameSays
  <2> QED
    BY <1>2, <2>1, <2>2, BroadcastTold
<1>3. ASSUME NEW d \in Dialogs, broadcast(<<Frame("request", d)>>), Steady,
             \A f \in Flows \ pendingRequests' : f \notin pendingRequests /\ f # d
      PROVE  Told'
  <2>1. /\ <<Frame("request", d)>> \in Seq(DialogFrames)
        /\ \A i \in 1 .. Len(<<Frame("request", d)>>) : i = 1
    BY FrameForm
  <2>2. \A f \in Flows \ pendingRequests' : \A i \in 1 .. Len(<<Frame("request", d)>>) :
            <<Frame("request", d)>>[i] \notin Requests(f)
    BY <1>3, <2>1, FrameSays
  <2> QED
    BY <1>3, <2>1, <2>2, BroadcastTold
<1>4. ASSUME NEW d \in Stocks, openStock(d)
      PROVE  Told'
  <2>1. CASE attached = {}
    BY <1>4, <2>1, NothingTold DEF openStock, ToldVars, clientVars
  <2>2. CASE attached # {}
    <3>1. Steady /\ broadcast(<<Frame("request", d)>>) /\ bridge' = bridge /\ holder' = [holder EXCEPT ![d] = WrapBridge]
      BY <1>4, <2>2 DEF openStock, clientVars
    <3>2. \A f \in Flows \ pendingRequests' : f \notin pendingRequests /\ f # d
      BY <1>0, <1>1, <3>1, DialogAssumption DEF pendingRequests
    <3> QED
      BY <1>0, <1>3, <3>1, <3>2
  <2> QED
    BY <2>1, <2>2
<1>5. ASSUME NEW d \in Stocks, dismissStock(d)
      PROVE  Told'
  <2>0. Steady /\ bridge' = bridge /\ holder' = [holder EXCEPT ![d] = 0]
    BY <1>5 DEF dismissStock, clientVars
  <2>1. CASE holder[d] = 0
    <3>1. holder' = holder
      BY <1>0, <1>1, <2>0, <2>1
    <3> QED
      BY <1>5, <2>1, <3>1, NothingTold DEF dismissStock, ToldVars, clientVars
  <2>2. CASE holder[d] # 0
    <3>1. broadcast(<<Frame("resolved", d)>>)
      BY <1>5, <2>2 DEF dismissStock
    <3>2. \A f \in Flows \ pendingRequests' : f \in pendingRequests => f = d
      BY <1>0, <1>1, <2>0 DEF pendingRequests
    <3> QED
      BY <1>0, <1>2, <2>0, <3>1, <3>2
  <2> QED
    BY <2>1, <2>2
<1>6. ASSUME NEW d \in Flows, onStartedFlow(d)
      PROVE  Told'
  <2>1. Steady /\ broadcast(<<Frame("request", d)>>) /\ bridge' = bridge /\ holder' = [holder EXCEPT ![d] = bridge]
    BY <1>6 DEF onStartedFlow, clientVars
  <2>2. \A f \in Flows \ pendingRequests' : f \notin pendingRequests /\ f # d
    BY <1>0, <1>1, <2>1 DEF pendingRequests
  <2> QED
    BY <1>0, <1>3, <2>1, <2>2
<1>7. ASSUME NEW d \in Dialogs, onCompleted(d) \/ onTtl(d)
      PROVE  Told'
  <2>1. /\ Steady /\ bridge' = bridge /\ holder' = [holder EXCEPT ![d] = 0]
        /\ broadcast(<<Frame("resolved", d)>>) \/ broadcast(<<Frame("warning", d)>>)
    BY <1>7 DEF onCompleted, onTtl, clientVars
  <2>2. \A f \in Flows \ pendingRequests' : f \in pendingRequests => f = d
    BY <1>0, <1>1, <2>1 DEF pendingRequests
  <2> QED
    BY <1>2, <2>1, <2>2
<1>8. ASSUME NEW d \in Dialogs, onSubmitResult(d)
      PROVE  Told'
  <2>1. Steady /\ broadcast(<<Frame("warning", d)>>) /\ bridge' = bridge /\ holder' = holder
    BY <1>8 DEF onSubmitResult, clientVars
  <2>2. \A f \in Flows \ pendingRequests' : f \in pendingRequests => f = d
    BY <2>1 DEF pendingRequests
  <2> QED
    BY <1>2, <2>1, <2>2
<1>9. CASE cancelAllPending
  <2> DEFINE stocks == pendingRequests \cap Stocks
             frames == Frames("resolved", stocks)
  <2>1. /\ Steady /\ bridge' = bridge /\ broadcast(frames)
        /\ holder' = [d \in Dialogs |-> IF d \in stocks THEN 0 ELSE holder[d]]
    BY <1>9 DEF cancelAllPending, clientVars
  <2>2. stocks \in SUBSET Dialogs
    BY DEF pendingRequests
  <2>3. frames \in Seq(DialogFrames) /\ \A i \in 1 .. Len(frames) : frames[i].kind = "resolved"
    BY <2>2, FramesOf
  <2>4. \A f \in Flows \ pendingRequests' : f \notin pendingRequests
    BY <1>0, <1>1, <2>1, DialogAssumption DEF pendingRequests
  <2> HIDE DEF frames
  <2>5. \A f \in Flows \ pendingRequests' : \A i \in 1 .. Len(frames) : frames[i] \notin Requests(f)
    BY <2>3 DEF Requests
  <2> QED
    BY <2>1, <2>3, <2>4, <2>5, BroadcastTold
<1> QED
  BY <1>0, <1>4, <1>5, <1>6, <1>7, <1>8, <1>9

\* The link goes, or comes back.
LEMMA LinkTurned ==
    ASSUME DialogTypes, Told, cutLink \/ relink \/ dispose
    PROVE  Told'
<1>1. CASE cutLink \/ dispose
  <2>1. /\ attached' = {} /\ \A c \in Owners : uplink'[c] = <<>> /\ fresh'[c] = FALSE
    BY <1>1 DEF cutLink, dispose, LinkCut
  <2>2. \A c \in Owners : ~ Speaks(c)'
    <3>1. ASSUME NEW c \in Owners PROVE ~ SyncAhead(c)'
      <4>1. \A i \in 1 .. Len(uplink'[c]) : FALSE
        BY <2>1
      <4> QED
        BY <4>1 DEF SyncAhead
    <3> QED
      BY <2>1, <3>1 DEF Speaks
  <2> QED
    BY <2>1, <2>2 DEF Told, LinkTold, FreshTold, CleanTold
<1>2. CASE relink
  <2>1. UNCHANGED <<holder, bridge, attached, downlink, uplink, openAsks, syncWindow, syncing, fresh, clean>> /\ linked' = TRUE
    BY <1>2 DEF relink, clientVars
  <2> QED
    BY <2>1 DEF Told, LinkTold, FreshTold, CleanTold, Speaks, SyncAhead, Going, Coming, LastWord, pendingRequests
<1> QED
  BY <1>1, <1>2

\* A client that nothing happens to.
LEMMA SameWords ==
    ASSUME NEW o \in Owners,
           downlink'[o] = downlink[o], openAsks'[o] = openAsks[o], syncWindow'[o] = syncWindow[o],
           syncing'[o] = syncing[o]
    PROVE  \A d : (Coming(o, d)' <=> Coming(o, d)) /\ (Going(o, d)' <=> Going(o, d))
BY DEF Coming, Going, LastWord

\* Only c is concerned: what is told of the others stays told.
LEMMA OnlyOne ==
    ASSUME DialogTypes, Told, NEW c \in Owners,
           \A o \in Owners : o # c =>
              /\ downlink'[o] = downlink[o] /\ openAsks'[o] = openAsks[o] /\ syncWindow'[o] = syncWindow[o]
              /\ syncing'[o] = syncing[o] /\ uplink'[o] = uplink[o] /\ clean'[o] = clean[o]
              /\ fresh'[o] => fresh[o]
              /\ fresh'[o] => pendingRequests' = pendingRequests,
           attached \subseteq attached',
           pendingRequests' \cap Flows = pendingRequests \cap Flows,
           LinkTold',
           fresh'[c] => c \in attached' /\ \A d \in pendingRequests' : Coming(c, d)',
           Speaks(c)' => /\ \A f \in Flows \ pendingRequests : Going(c, f)'
                         /\ (c \notin attached => downlink[c] = <<>> /\ syncing[c] /\ syncWindow[c] = {})'
    PROVE  Told'
<1>1. \A f \in Flows \ pendingRequests' : f \in Flows \ pendingRequests
  OBVIOUS
<1>2. ASSUME NEW o \in Owners, fresh'[o]
      PROVE  o \in attached' /\ \A d \in pendingRequests' : Coming(o, d)'
  <2>1. CASE o # c
    <3>1. o \in attached /\ \A d \in pendingRequests : Coming(o, d)
      BY <1>2, <2>1 DEF Told, FreshTold
    <3>2. \A d : Coming(o, d)' <=> Coming(o, d)
      BY <2>1, SameWords
    <3>3. pendingRequests' = pendingRequests
      BY <1>2, <2>1
    <3> QED
      BY <3>1, <3>2, <3>3
  <2> QED
    BY <1>2, <2>1
<1>3. ASSUME NEW o \in Owners, Speaks(o)'
      PROVE  /\ \A f \in Flows \ pendingRequests' : Going(o, f)'
             /\ (o \notin attached => downlink[o] = <<>> /\ syncing[o] /\ syncWindow[o] = {})'
  <2>1. CASE o # c
    <3>1. Speaks(o)
      BY <1>3, <2>1 DEF Speaks, SyncAhead
    <3>2. /\ \A f \in Flows \ pendingRequests : Going(o, f)
          /\ o \notin attached => downlink[o] = <<>> /\ syncing[o] /\ syncWindow[o] = {}
      BY <3>1 DEF Told, CleanTold
    <3>3. \A d : Going(o, d)' <=> Going(o, d)
      BY <2>1, SameWords
    <3>4. \A f \in Flows \ pendingRequests' : Going(o, f)'
      BY <1>1, <3>2, <3>3
    <3>5. (o \notin attached => downlink[o] = <<>> /\ syncing[o] /\ syncWindow[o] = {})'
      BY <2>1, <3>2
    <3> QED
      BY <3>4, <3>5
  <2> QED
    BY <1>1, <1>3, <2>1
<1>4. FreshTold'
  BY <1>2 DEF FreshTold
<1>5. CleanTold'
  BY <1>3 DEF CleanTold
<1> QED
  BY <1>4, <1>5 DEF Told

\* Reading a frame does not make a sync come up.
LEMMA SyncTail ==
    ASSUME DialogTypes, NEW c \in Owners, uplink[c] # <<>>, uplink' = [uplink EXCEPT ![c] = Tail(@)]
    PROVE  SyncAhead(c)' => SyncAhead(c)
<1> DEFINE w == uplink[c]
           x == Tail(w)
<1>1. w \in Seq(OwnerFrames) /\ w # <<>> /\ uplink'[c] = x
  BY DEF DialogTypes, WireTypes
<1>2. \A i \in 1 .. Len(x) : i + 1 \in 1 .. Len(w) /\ x[i] = w[i + 1]
  BY <1>1
<1> HIDE DEF x
<1> QED
  BY <1>1, <1>2 DEF SyncAhead

\* The host answers a sync.
LEMMA SyncTold ==
    ASSUME DialogTypes, Told, NEW c \in Owners, onSync(c)
    PROVE  Told'
<1> DEFINE w == downlink[c]
<1>1. /\ uplink[c] # <<>> /\ Head(uplink[c]).kind = "sync" /\ attached' = attached \cup {c}
      /\ uplink' = [uplink EXCEPT ![c] = Tail(@)]
      /\ downlink' = [downlink EXCEPT ![c] = @ \o Replay]
      /\ fresh' = [fresh EXCEPT ![c] = TRUE]
      /\ UNCHANGED <<openAsks, syncWindow, syncing, clean, bridge, holder, linked>>
  BY DEF onSync, Attach, clientVars
<1>2. w \in Seq(DialogFrames) /\ uplink[c] \in Seq(OwnerFrames) /\ downlink'[c] = w \o Replay /\ fresh'[c]
  BY <1>1 DEF DialogTypes, WireTypes, HostTypes
<1>3. SyncAhead(c)
  <2>1. 1 \in 1 .. Len(uplink[c]) /\ uplink[c][1] = Head(uplink[c])
    BY <1>1, <1>2
  <2> QED
    BY <1>1, <2>1 DEF SyncAhead
<1>4. linked /\ LinkTold'
  BY <1>1 DEF Told, LinkTold
<1>5. pendingRequests' = pendingRequests
  BY <1>1 DEF pendingRequests
<1>6. \A o \in Owners : o # c =>
              /\ downlink'[o] = downlink[o] /\ uplink'[o] = uplink[o] /\ fresh'[o] = fresh[o]
  BY <1>1 DEF DialogTypes, WireTypes, HostTypes
<1>7. ASSUME NEW d \in pendingRequests
      PROVE  Coming(c, d)'
  <2> DEFINE A == Requests(d)
             B == Dismissals(d)
             base == d \in openAsks[c] /\ (syncing[c] => d \in syncWindow[c])
  <2>1. LastWord(w \o Replay, A, B, base)
    <3>1. Replay \in Seq(DialogFrames) /\ \A i \in 1 .. Len(Replay) : Replay[i] \notin B
      BY Replayed
    <3>2. PICK i \in 1 .. Len(Replay) : Replay[i] \in A
      BY <1>7, Replayed
    <3>3. base \in BOOLEAN
      BY DEF DialogTypes, ClientTypes
    <3> HIDE DEF A, B, base, w
    <3>4. w \in Seq(DialogFrames)
      BY <1>2
    <3> QED
      BY <3>1, <3>2, <3>3, <3>4, WordGiven
  <2>2. LastWord(downlink'[c], A, B, d \in openAsks'[c] /\ (syncing'[c] => d \in syncWindow'[c]))
    BY <1>1, <1>2, <2>1
  <2> QED
    BY <2>2 DEF Coming, LastWord
<1>8. ASSUME Speaks(c)', NEW f \in Flows \ pendingRequests
      PROVE  Going(c, f)'
  <2> DEFINE A == Dismissals(f)
             B == Requests(f)
             base == f \notin openAsks[c] \/ (syncing[c] /\ f \notin syncWindow[c])
  <2>0. Speaks(c)
    BY <1>1, <1>3, <1>8 DEF Speaks
  <2>1. LastWord(w \o Replay, A, B, base)
    <3>1. Replay \in Seq(DialogFrames) /\ \A i \in 1 .. Len(Replay) : Replay[i] \notin B
      BY <1>8, Replayed
    <3>2. LastWord(w, A, B, base)
      BY <1>8, <2>0 DEF Told, CleanTold, Going
    <3>3. base \in BOOLEAN
      BY DEF DialogTypes, ClientTypes
    <3> HIDE DEF A, B, base, w
    <3>4. w \in Seq(DialogFrames)
      BY <1>2
    <3> QED
      BY <3>1, <3>2, <3>3, <3>4, WordKept
  <2>2. LastWord(downlink'[c], A, B, f \notin openAsks'[c] \/ (syncing'[c] /\ f \notin syncWindow'[c]))
    BY <1>1, <1>2, <2>1
  <2> QED
    BY <2>2 DEF Going, LastWord
<1>9. fresh'[c] => c \in attached' /\ \A d \in pendingRequests' : Coming(c, d)'
  BY <1>1, <1>5, <1>7
<1>10. Speaks(c)' => /\ \A f \in Flows \ pendingRequests : Going(c, f)'
                     /\ (c \notin attached => downlink[c] = <<>> /\ syncing[c] /\ syncWindow[c] = {})'
  BY <1>1, <1>8
<1>11. attached \subseteq attached'
  BY <1>1
<1> QED
  BY <1>1, <1>4, <1>5, <1>6, <1>9, <1>10, <1>11, OnlyOne

\* The host takes an answer: only a stock dialog ends by it.
LEMMA RespondTold ==
    ASSUME DialogTypes, Told, NEW c \in Owners, respond(c)
    PROVE  Told'
<1> DEFINE m == Head(uplink[c])
<1>1. /\ uplink[c] # <<>> /\ attached' = attached \cup {c}
      /\ uplink' = [uplink EXCEPT ![c] = Tail(@)]
      /\ UNCHANGED <<downlink, openAsks, syncWindow, syncing, clean, bridge, linked>>
      /\ \/ m.id \in Stocks /\ holder' = [holder EXCEPT ![m.id] = 0] /\ fresh' = [o \in Owners |-> FALSE]
         \/ UNCHANGED <<holder, fresh>>
  BY DEF respond, Attach, clientVars
<1>2. LinkTold'
  BY <1>1 DEF Told, LinkTold
<1>3. pendingRequests' \cap Flows = pendingRequests \cap Flows
  BY <1>1, DialogAssumption DEF pendingRequests, DialogTypes, HostTypes, Dialogs
<1>4. \A o \in Owners : /\ fresh'[o] => fresh[o] /\ pendingRequests' = pendingRequests
                        /\ o # c => uplink'[o] = uplink[o]
  BY <1>1 DEF pendingRequests, DialogTypes, WireTypes
<1>5. \A d : (Coming(c, d)' <=> Coming(c, d)) /\ (Going(c, d)' <=> Going(c, d))
  BY <1>1, SameWords
<1>6. fresh'[c] => c \in attached' /\ \A d \in pendingRequests' : Coming(c, d)'
  BY <1>1, <1>4, <1>5 DEF Told, FreshTold
<1>7. Speaks(c)' => Speaks(c)
  BY <1>1, <1>4, SyncTail DEF Speaks
<1>8. Speaks(c)' => /\ \A f \in Flows \ pendingRequests : Going(c, f)'
                    /\ (c \notin attached => downlink[c] = <<>> /\ syncing[c] /\ syncWindow[c] = {})'
  BY <1>1, <1>5, <1>7 DEF Told, CleanTold
<1>9. attached \subseteq attached'
  BY <1>1
<1> QED
  BY <1>1, <1>2, <1>3, <1>4, <1>6, <1>8, <1>9, OnlyOne

\* A client asks for a sync.
LEMMA AskTold ==
    ASSUME DialogTypes, Told, NEW c \in Owners, requestSync(c)
    PROVE  Told'
<1>1. /\ syncWindow' = [syncWindow EXCEPT ![c] = {}] /\ syncing' = [syncing EXCEPT ![c] = TRUE]
      /\ fresh' = [fresh EXCEPT ![c] = FALSE]
      /\ clean' = [clean EXCEPT ![c] = downlink[c] = <<>>]
      /\ Upward(c, Frame("sync", NoDialog))
      /\ UNCHANGED <<holder, bridge, attached, linked, downlink, openAsks>>
  BY DEF requestSync, hostVars
<1>2. /\ \A o \in Owners : o # c => uplink'[o] = uplink[o]
      /\ ~ linked => uplink' = uplink
  BY <1>1, FrameForm, UpwardTyped DEF DialogTypes
<1>3. LinkTold'
  BY <1>1, <1>2 DEF Told, LinkTold
<1>4. pendingRequests' = pendingRequests
  BY <1>1 DEF pendingRequests
<1>5. /\ ~ fresh'[c] /\ syncing'[c] /\ syncWindow'[c] = {} /\ (clean'[c] => downlink'[c] = <<>>)
      /\ \A o \in Owners : o # c => /\ syncWindow'[o] = syncWindow[o] /\ syncing'[o] = syncing[o]
                                    /\ fresh'[o] = fresh[o] /\ clean'[o] = clean[o]
  BY <1>1 DEF DialogTypes, ClientTypes, HostTypes
<1>6. Speaks(c)' => (downlink[c] = <<>> /\ syncing[c] /\ syncWindow[c] = {})'
  BY <1>5 DEF Speaks
<1>7. Speaks(c)' => /\ \A f \in Flows \ pendingRequests : Going(c, f)'
                    /\ (c \notin attached => downlink[c] = <<>> /\ syncing[c] /\ syncWindow[c] = {})'
  BY <1>6, GoingClean
<1> QED
  BY <1>1, <1>2, <1>3, <1>4, <1>5, <1>7, OnlyOne

\* A client answers: it shows less, and its answer is no sync.
LEMMA AnswerTold ==
    ASSUME DialogTypes, Told, NEW c \in Owners, NEW d \in Dialogs, NEW kind \in {"answer", "cancel"},
           answer(c, d, kind)
    PROVE  Told'
<1>1. /\ openAsks' = [openAsks EXCEPT ![c] = @ \ {d}]
      /\ fresh' = [fresh EXCEPT ![c] = FALSE]
      /\ Upward(c, Frame(kind, d))
      /\ UNCHANGED <<holder, bridge, attached, linked, downlink, syncWindow, syncing, clean>>
  BY DEF answer, Retire, hostVars
<1>0. Frame(kind, d) \in OwnerFrames /\ Frame(kind, d).kind # "sync"
  BY FrameForm
<1>2. /\ \A o \in Owners : o # c => uplink'[o] = uplink[o]
      /\ \A i \in 1 .. Len(uplink[c]) : i \in 1 .. Len(uplink'[c]) /\ uplink'[c][i] = uplink[c][i]
      /\ linked => \A i \in 1 .. Len(uplink'[c]) : i \in 1 .. Len(uplink[c]) \/ uplink'[c][i] = Frame(kind, d)
      /\ ~ linked => uplink' = uplink
  BY <1>0, <1>1, UpwardTyped DEF DialogTypes
<1>3. LinkTold'
  BY <1>1, <1>2 DEF Told, LinkTold
<1>4. pendingRequests' = pendingRequests
  BY <1>1 DEF pendingRequests
<1>5. /\ ~ fresh'[c] /\ openAsks'[c] \subseteq openAsks[c]
      /\ \A o \in Owners : o # c => openAsks'[o] = openAsks[o] /\ fresh'[o] = fresh[o]
  BY <1>1 DEF DialogTypes, ClientTypes, HostTypes
<1>6. SyncAhead(c)' => SyncAhead(c)
  <2>1. ASSUME NEW i \in 1 .. Len(uplink'[c]), uplink'[c][i].kind = "sync"
        PROVE  SyncAhead(c)
    BY <1>0, <1>2, <2>1 DEF SyncAhead
  <2> QED
    BY <2>1 DEF SyncAhead
<1>7. \A f : Going(c, f) => Going(c, f)'
  BY <1>1, <1>5 DEF Going, LastWord
<1>8. Speaks(c)' => Speaks(c)
  BY <1>1, <1>5, <1>6 DEF Speaks
<1>9. Speaks(c)' => /\ \A f \in Flows \ pendingRequests : Going(c, f)'
                    /\ (c \notin attached => downlink[c] = <<>> /\ syncing[c] /\ syncWindow[c] = {})'
  BY <1>1, <1>7, <1>8 DEF Told, CleanTold
<1> QED
  BY <1>1, <1>2, <1>3, <1>4, <1>5, <1>9, OnlyOne

\* A client reads a frame.
LEMMA EnvelopeTold ==
    ASSUME DialogTypes, Told, NEW c \in Owners, onEnvelope(c)
    PROVE  Told'
<1> DEFINE w == downlink[c]
           h == Head(w)
           x == Tail(w)
<1>1. /\ w # <<>> /\ downlink' = [downlink EXCEPT ![c] = x]
      /\ UNCHANGED <<holder, bridge, attached, linked, uplink, fresh, clean>>
      /\ CASE h.kind = "syncEnd" -> closeSyncWindow(c)
           [] h.kind = "request" -> presentAsk(c, h.id)
           [] h.kind \in {"resolved", "warning"} -> routeNotify(c, h.id)
  BY DEF onEnvelope, hostVars
<1>2. w \in Seq(DialogFrames) /\ h \in DialogFrames
  BY <1>1 DEF DialogTypes, WireTypes
<1>3. \/ h.kind = "syncEnd" /\ closeSyncWindow(c)
      \/ h.kind = "request" /\ presentAsk(c, h.id)
      \/ h.kind \in {"resolved", "warning"} /\ routeNotify(c, h.id)
  BY <1>1, <1>2 DEF DialogFrames
<1>4. downlink'[c] = x /\ \A o \in Owners : o # c => downlink'[o] = downlink[o]
  BY <1>1 DEF DialogTypes, WireTypes
<1>5. \A o \in Owners : o # c => /\ openAsks'[o] = openAsks[o] /\ syncWindow'[o] = syncWindow[o]
                                 /\ syncing'[o] = syncing[o]
  BY <1>3 DEF closeSyncWindow, presentAsk, routeNotify, Retire, Saw, DialogTypes, ClientTypes
<1>6. /\ h.kind = "syncEnd" => /\ openAsks'[c] = IF syncing[c] THEN openAsks[c] \cap syncWindow[c] ELSE openAsks[c]
                               /\ ~ syncing'[c]
      /\ h.kind = "request" => /\ openAsks'[c] = openAsks[c] \cup {h.id} /\ syncing'[c] = syncing[c]
                               /\ syncing[c] => syncWindow'[c] = syncWindow[c] \cup {h.id}
      /\ h.kind \in {"resolved", "warning"} =>
                               /\ openAsks'[c] = openAsks[c] \ {h.id} /\ syncing'[c] = syncing[c]
                               /\ syncing[c] => syncWindow'[c] = syncWindow[c] \cup {h.id}
  <2>0. /\ openAsks \in [Owners -> SUBSET (Dialogs \cup {NoDialog})] /\ syncWindow \in [Owners -> SUBSET (Dialogs \cup {NoDialog})]
        /\ syncing \in [Owners -> BOOLEAN]
    BY DEF DialogTypes, ClientTypes
  <2>1. CASE h.kind = "syncEnd"
    <3>1. /\ openAsks' = [openAsks EXCEPT ![c] = @ \ staleFlows(c)]
          /\ syncing' = [syncing EXCEPT ![c] = FALSE]
      BY <1>3, <2>1 DEF closeSyncWindow, Retire
    <3>2. openAsks'[c] = openAsks[c] \ staleFlows(c) /\ ~ syncing'[c]
      BY <2>0, <3>1
    <3>3. openAsks[c] \ staleFlows(c) = IF syncing[c] THEN openAsks[c] \cap syncWindow[c] ELSE openAsks[c]
      BY DEF staleFlows
    <3> QED
      BY <2>1, <3>2, <3>3
  <2>2. CASE h.kind = "request"
    BY <1>3, <2>0, <2>2 DEF presentAsk, Saw
  <2>3. CASE h.kind \in {"resolved", "warning"}
    BY <1>3, <2>0, <2>3 DEF routeNotify, Retire, Saw
  <2> QED
    BY <1>3, <2>1, <2>2, <2>3
<1>7. ASSUME NEW d, Coming(c, d)
      PROVE  Coming(c, d)'
  <2> DEFINE A == Requests(d)
             B == Dismissals(d)
             base == d \in openAsks[c] /\ (syncing[c] => d \in syncWindow[c])
             then == d \in openAsks'[c] /\ (syncing'[c] => d \in syncWindow'[c])
  <2>1. h \in A => then
    BY <1>6 DEF Requests
  <2>2. base /\ h \notin B => then
    BY <1>2, <1>6 DEF Dismissals, DialogFrames
  <2>3. LastWord(w, A, B, base)
    BY <1>7 DEF Coming
  <2>4. base \in BOOLEAN /\ then \in BOOLEAN
    OBVIOUS
  <2>5. LastWord(x, A, B, then)
    <3> HIDE DEF A, B, base, then, w
    <3> QED
      BY <1>1, <1>2, <2>1, <2>2, <2>3, <2>4, WordRead
  <2>6. LastWord(downlink'[c], A, B, then)
    BY <1>4, <2>5
  <2> QED
    BY <2>6 DEF Coming, LastWord
<1>8. ASSUME NEW d, Going(c, d)
      PROVE  Going(c, d)'
  <2> DEFINE A == Dismissals(d)
             B == Requests(d)
             base == d \notin openAsks[c] \/ (syncing[c] /\ d \notin syncWindow[c])
             then == d \notin openAsks'[c] \/ (syncing'[c] /\ d \notin syncWindow'[c])
  <2>1. h \in A => then
    BY <1>6 DEF Dismissals
  <2>2. base /\ h \notin B => then
    BY <1>2, <1>6 DEF Requests, DialogFrames
  <2>3. LastWord(w, A, B, base)
    BY <1>8 DEF Going
  <2>4. base \in BOOLEAN /\ then \in BOOLEAN
    BY <1>3 DEF closeSyncWindow, presentAsk, routeNotify, Saw, DialogTypes, ClientTypes
  <2>5. LastWord(x, A, B, then)
    <3> HIDE DEF A, B, base, then, w
    <3> QED
      BY <1>1, <1>2, <2>1, <2>2, <2>3, <2>4, WordRead
  <2>6. LastWord(downlink'[c], A, B, then)
    BY <1>4, <2>5
  <2> QED
    BY <2>6 DEF Going, LastWord
<1>9. pendingRequests' = pendingRequests /\ LinkTold'
  BY <1>1 DEF pendingRequests, Told, LinkTold
<1>10. fresh'[c] => c \in attached' /\ \A d \in pendingRequests' : Coming(c, d)'
  BY <1>1, <1>7, <1>9 DEF Told, FreshTold
<1>11. Speaks(c)' => Speaks(c)
  BY <1>1 DEF Speaks, SyncAhead
<1>12. Speaks(c)' => /\ \A f \in Flows \ pendingRequests : Going(c, f)'
                     /\ (c \notin attached => downlink[c] = <<>> /\ syncing[c] /\ syncWindow[c] = {})'
  BY <1>1, <1>8, <1>11 DEF Told, CleanTold
<1> QED
  BY <1>1, <1>4, <1>5, <1>9, <1>10, <1>12, OnlyOne

-----------------------------------------------------------------------------
\* Nothing is told at first.
LEMMA DialogInvInit == UiInit => DialogInv
<1> SUFFICES ASSUME UiInit PROVE DialogInv
  OBVIOUS
<1>1. DialogTypes
  BY DEF UiInit, DialogTypes, HostTypes, WireTypes, ClientTypes
<1>2. \A c \in Owners : ~ fresh[c] /\ ~ clean[c]
  BY DEF UiInit
<1>3. Told
  BY <1>2 DEF UiInit, Told, LinkTold, FreshTold, CleanTold, Speaks
<1> QED
  BY <1>1, <1>3 DEF DialogInv

\* DialogInv is inductive.
LEMMA DialogInvStep == DialogInv /\ [UiNext]_uiVars => DialogInv'
<1> SUFFICES ASSUME DialogInv, [UiNext]_uiVars PROVE DialogInv'
  OBVIOUS
<1>0. DialogTypes /\ Told
  BY DEF DialogInv
<1>1. CASE UNCHANGED uiVars
  <2>1. UNCHANGED ToldVars
    BY <1>1 DEF uiVars, hostVars, clientVars, ToldVars
  <2>2. DialogTypes'
    BY <1>0, <2>1 DEF ToldVars, DialogTypes, HostTypes, WireTypes, ClientTypes
  <2> QED
    BY <1>0, <2>1, <2>2, NothingTold DEF DialogInv
<1>2. CASE UiNext
  <2>1. DialogTypes'
    BY <1>0, <1>2, HostTypesStep, WireTypesStep, ClientTypesStep DEF DialogTypes
  <2>2. Told'
    BY <1>0, <1>2, HostTold, LinkTurned, SyncTold, RespondTold, AskTold, AnswerTold, EnvelopeTold DEF UiNext
  <2> QED
    BY <2>1, <2>2 DEF DialogInv
<1> QED
  BY <1>1, <1>2

\* Nothing is on its way to the client: its view is what the last word made it.
LEMMA DialogInvSettles == DialogInv => SyncedViewRight
<1> SUFFICES ASSUME DialogInv, NEW c \in Owners, fresh[c], downlink[c] = <<>>, ~ syncing[c]
             PROVE  /\ pendingRequests \subseteq openAsks[c]
                    /\ clean[c] => openAsks[c] \cap Flows \subseteq pendingRequests
  BY DEF SyncedViewRight
<1>1. \A i \in 1 .. Len(downlink[c]) : FALSE
  OBVIOUS
<1>2. \A d : (Coming(c, d) => d \in openAsks[c]) /\ (Going(c, d) => d \notin openAsks[c])
  BY <1>1 DEF Coming, Going, LastWord
<1>3. \A d \in pendingRequests : Coming(c, d)
  BY DEF DialogInv, Told, FreshTold
<1>4. clean[c] => \A d \in Flows \ pendingRequests : Going(c, d)
  BY DEF DialogInv, Told, CleanTold, Speaks
<1> QED
  BY <1>2, <1>3, <1>4

\* Once the answer to its last sync has been read and the host has not changed
\* since, a client shows every dialog the host holds and, asked on a clean
\* line, no flow that the host does not: replay, broadcasts and the retirement
\* at the end of the sync window agree, whatever was lost with the link.
THEOREM SyncsSettle == UiSpec => []SyncedViewRight
<1>1. UiInit => DialogInv
  BY DialogInvInit
<1>2. DialogInv /\ [UiNext]_uiVars => DialogInv'
  BY DialogInvStep
<1>3. DialogInv => SyncedViewRight
  BY DialogInvSettles
<1> QED
  BY <1>1, <1>2, <1>3, PTL DEF UiSpec
=============================================================================
