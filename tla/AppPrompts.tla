----------------------------- MODULE AppPrompts -----------------------------
(***************************************************************************)
(* Prompts from the owners' apps: how rpc_handlers.ts and                  *)
(* received_images.ts hand them to pi, the turn id that index.ts keeps for *)
(* the answer, and the previews of photos, which are converted beside      *)
(* everything else and held back while a turn is active.  pi is external:  *)
(* it runs the agent for what it accepted and reports the run by events.   *)
(***************************************************************************)
EXTENDS Naturals

CONSTANTS
    Prompts,    \* prompt commands, each sent once
    Photos,     \* the prompts among them with an image
    Slashes,    \* the prompts among them that are commands of pi's own
    NoTurn,     \* turnId = null
    LocalTurn   \* a turn id of the terminal

ASSUME PromptsAssumption ==
    /\ Photos \subseteq Prompts
    /\ Slashes \subseteq Prompts \ Photos
    /\ NoTurn \notin Prompts \union {LocalTurn} /\ LocalTurn \notin Prompts

VARIABLES
    turnId,     \* turnId of the root session
    working,    \* myRoomMeta.working
    agentRun,   \* what pi is doing: no run, a run between two turns, a turn
    queued,     \* pi was given something that no turn has taken up yet
    compacting, \* between session_before_compact and its end
    handed,     \* how far each prompt is: a photo is converted before it is
                \* handed to pi ("first") or after ("after")
    preview,    \* what became of each photo's preview
    waiting,    \* history: previews whose flush was put off, or left behind,
                \* with no run ahead to make up for it
    stranded,   \* history: the turn id pi left in place when it refused late
    online      \* the relay state is not idle

promptVars == <<turnId, working, agentRun, queued, compacting, handed, preview,
                waiting, stranded, online>>

piPart == <<agentRun, compacting>>
previewPart == <<preview, waiting, stranded>>

PromptsTypeOK ==
    /\ turnId \in Prompts \union {NoTurn, LocalTurn}
    /\ working \in BOOLEAN /\ queued \in BOOLEAN /\ compacting \in BOOLEAN
    /\ agentRun \in {"idle", "between", "turn"}
    /\ handed \in [Prompts -> {"new", "first", "after", "done", "refused"}]
    /\ preview \in [Prompts -> {"none", "parked", "shown", "lost", "dropped"}]
    /\ waiting \subseteq Prompts
    /\ stranded \in Prompts \union {NoTurn, LocalTurn}
    /\ online \in BOOLEAN

-----------------------------------------------------------------------------
(* Prompts *)

\* _shouldDeferReceivedImagePreview
Deferring == turnId # NoTurn \/ working

\* The turn id is seeded, the prompt given to pi, and the id put back if pi
\* throws or no session is bound.  A command of pi's own starts no run.
HandOff(m, shouldSteer) ==
    \/ /\ turnId' = IF shouldSteer /\ turnId # NoTurn THEN turnId ELSE m
       /\ queued' = (queued \/ m \notin Slashes)
    \/ UNCHANGED <<turnId, queued>>

\* dispatchRpcCommand executes a built-in of the TUI itself and refuses what
\* exists only there.
Intercepted(m) ==
    /\ online /\ handed[m] = "new"
    /\ handed' = [handed EXCEPT ![m] = "refused"]
    /\ UNCHANGED <<turnId, working, queued, online>>
    /\ UNCHANGED <<piPart, previewPart>>

PromptText(m) ==
    /\ online /\ handed[m] = "new" /\ m \notin Photos
    /\ \E requestedSteer \in BOOLEAN : HandOff(m, requestedSteer \/ agentRun # "idle")
    /\ handed' = [handed EXCEPT ![m] = "done"]
    /\ UNCHANGED <<working, online, piPart, previewPart>>

\* While pi is busy the photo is converted beside the hand-off; else the
\* hand-off waits for the conversion, with the decision not to steer taken.
PromptPhoto(m) ==
    /\ online /\ handed[m] = "new" /\ m \in Photos
    /\ \E requestedSteer \in BOOLEAN :
          LET shouldSteer == requestedSteer \/ agentRun # "idle"
          IN  \/ /\ shouldSteer \/ Deferring
                 /\ HandOff(m, shouldSteer)
                 /\ handed' = [handed EXCEPT ![m] = "after"]
              \/ /\ ~(shouldSteer \/ Deferring)
                 /\ handed' = [handed EXCEPT ![m] = "first"]
                 /\ UNCHANGED <<turnId, queued>>
    /\ UNCHANGED <<working, online, piPart, previewPart>>

\* _flushPendingReceivedImagePreviews
Flushed(p) == [m \in Prompts |-> IF p[m] = "parked" THEN "shown" ELSE p[m]]

\* Records a preview that is parked because the session counts as busy,
\* although pi neither runs nor is going to.
Holding(m) ==
    waiting' = IF preview'[m] = "parked" /\ Deferring /\ agentRun = "idle" /\ ~queued'
               THEN waiting \union {m} ELSE waiting

\* The conversion an idle session waits for: previews are emitted, then the
\* prompt is handed over.  Without a usable cache directory there is none.
ConvertedFirst(m) ==
    /\ handed[m] = "first"
    /\ handed' = [handed EXCEPT ![m] = "done"]
    /\ \E p \in {"lost", IF Deferring THEN "parked" ELSE "shown"} :
          preview' = [preview EXCEPT ![m] = p]
    /\ HandOff(m, FALSE)
    /\ Holding(m)
    /\ UNCHANGED <<working, stranded, online>> /\ UNCHANGED piPart

\* A conversion that parks its preview and leaves the rest to agent_end (mutant).
ConvertedAfterParks(m) ==
    /\ handed[m] = "after"
    /\ handed' = [handed EXCEPT ![m] = "done"]
    /\ \E p \in {"lost", "parked"} : preview' = [preview EXCEPT ![m] = p]
    /\ UNCHANGED <<turnId, working, queued, stranded, online>> /\ UNCHANGED piPart
    /\ Holding(m)

\* A conversion beside a run: the preview is parked, and all that is parked is
\* flushed if the run is over by now.
ConvertedAfter(m) ==
    /\ handed[m] = "after"
    /\ handed' = [handed EXCEPT ![m] = "done"]
    /\ \E p \in {"lost", "parked"} :
          LET pushed == [preview EXCEPT ![m] = p]
          IN  preview' = IF Deferring THEN pushed ELSE Flushed(pushed)
    /\ UNCHANGED <<turnId, working, queued, stranded, online>> /\ UNCHANGED piPart
    /\ Holding(m)

-----------------------------------------------------------------------------
(* pi *)

\* Input of the terminal, which stamps a turn id of its own while an owner is
\* attached, and every other wake-up of the agent.
OtherInput ==
    /\ queued' = TRUE
    /\ turnId' \in {turnId, LocalTurn}
    /\ UNCHANGED <<working, handed, online, piPart, previewPart>>

AgentRunStarts ==
    /\ agentRun = "idle" /\ queued
    /\ agentRun' = "between" /\ queued' = FALSE
    /\ UNCHANGED <<turnId, working, compacting, handed, online, previewPart>>

\* pi took the prompt and then fails before any run: no model, a key that
\* expired.  The extension hears nothing of it, so the turn id and what is
\* parked stay.
RefusedLate ==
    /\ agentRun = "idle" /\ queued
    /\ queued' = FALSE
    /\ stranded' = turnId
    /\ waiting' = waiting \union {m \in Prompts : preview[m] = "parked"}
    /\ UNCHANGED <<turnId, working, handed, preview, online>> /\ UNCHANGED piPart

\* A turn takes up what was queued to steer it, and leaves what is to follow.
TurnStart ==
    /\ agentRun = "between" /\ ~compacting
    /\ agentRun' = "turn" /\ working' = TRUE
    /\ queued' \in {queued, FALSE}
    /\ UNCHANGED <<turnId, compacting, handed, online, previewPart>>

TurnEnd ==
    /\ agentRun = "turn"
    /\ agentRun' = "between" /\ working' = FALSE
    /\ UNCHANGED <<turnId, queued, compacting, handed, online, previewPart>>

AgentRunEnds ==
    /\ agentRun = "between"
    /\ agentRun' = "idle" /\ turnId' = NoTurn
    /\ preview' = Flushed(preview) /\ waiting' = {} /\ stranded' = NoTurn
    /\ UNCHANGED <<working, queued, compacting, handed, online>>

CompactStart ==
    /\ agentRun # "turn" /\ ~compacting
    /\ compacting' = TRUE /\ working' = TRUE
    /\ UNCHANGED <<turnId, agentRun, queued, handed, online, previewPart>>

\* A compaction that fails reports nothing, and the flag stays.
CompactEnd ==
    /\ compacting
    /\ compacting' = FALSE /\ working' \in {working, FALSE}
    /\ UNCHANGED <<turnId, agentRun, queued, handed, online, previewPart>>

-----------------------------------------------------------------------------
(* The relay *)

\* The last owner detaches, or the relay connection is lost.
OwnersGone ==
    /\ turnId' = NoTurn
    /\ UNCHANGED <<working, queued, handed, online, piPart, previewPart>>

\* _goIdle drops what is parked; conversions under way go on.
GoIdle ==
    /\ online
    /\ online' = FALSE
    /\ turnId' = NoTurn
    /\ preview' = [m \in Prompts |->
                      IF preview[m] = "parked" THEN "dropped" ELSE preview[m]]
    /\ waiting' = {} /\ stranded' = NoTurn
    /\ UNCHANGED <<working, queued, handed>> /\ UNCHANGED piPart

PromptsInit ==
    /\ turnId = NoTurn
    /\ working = FALSE /\ agentRun = "idle" /\ queued = FALSE /\ compacting = FALSE
    /\ handed = [m \in Prompts |-> "new"]
    /\ preview = [m \in Prompts |-> "none"]
    /\ waiting = {} /\ stranded = NoTurn /\ online = TRUE

PromptsNext ==
    \/ \E m \in Prompts :
          \/ Intercepted(m) \/ PromptText(m) \/ PromptPhoto(m)
          \/ ConvertedFirst(m) \/ ConvertedAfter(m)
    \/ OtherInput \/ AgentRunStarts \/ RefusedLate
    \/ TurnStart \/ TurnEnd \/ AgentRunEnds
    \/ CompactStart \/ CompactEnd \/ OwnersGone \/ GoIdle

PromptsSpec == PromptsInit /\ [][PromptsNext]_promptVars

-----------------------------------------------------------------------------
(* Properties *)

\* pi has nothing to do.
Resting == agentRun = "idle" /\ ~queued

\* Whenever pi has nothing to do, no preview waits for the end of a run that
\* will not come.  Excepted are a preview converted while the session counted
\* as busy without a run (during a compaction, under the turn id of a command
\* or of a prompt refused late) and one parked for a run that pi refused late
\* (_flushPendingReceivedImagePreviews at agent_end and after a late conversion).
PreviewsSettle ==
    Resting => \A m \in Photos : preview[m] = "parked" => m \in waiting

\* The turn id of a prompt outlives neither its run nor a refusal that reaches
\* the extension; only that of a command of pi's own stays, and that of a
\* prompt pi refused late (prompt, _deliverImageUserMessage).
TurnSettles == Resting => turnId \in Slashes \union {NoTurn, stranded}

\* A turn counts as busy to whoever decides about a preview during it.
TurnIsBusy == agentRun = "turn" => working /\ ~compacting

\* Prompts, photos and runs that overlap leave neither a preview nor a turn
\* id behind (createRpcHandlers, received_images.ts, agent_end).
PromptsRight == PromptsTypeOK /\ PreviewsSettle /\ TurnSettles /\ TurnIsBusy
=============================================================================
