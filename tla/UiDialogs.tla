----------------------------- MODULE UiDialogs -----------------------------
(***************************************************************************)
(* The dialogs an agent opens, answered at the desk or from a client.      *)
(*                                                                         *)
(* extension_ui_bridge.ts offers two kinds of dialog to every attached     *)
(* client: stock dialogs (ctx.ui wrapped by wrapStockUi: the desk and the  *)
(* clients race) and pi-ask flows (pi-ask owns them, the bridge forwards). *)
(* The client is the command line client (unbien-cli connect.ts, ask.ts):  *)
(* it keeps the requests it shows in openAsks and reconciles them with     *)
(* session_sync, whose answer replays what is still pending.               *)
(*                                                                         *)
(* A timer of the bridge exists exactly while its entry does, so it is not *)
(* a variable: Expire may happen whenever an entry is held.                *)
(***************************************************************************)
EXTENDS Naturals, SequencesExt

CONSTANTS Owners,           \* the clients
          Stocks,           \* stock dialogs
          Flows,            \* pi-ask flows
          TextDialogs,      \* the dialogs answered by typing a line
          NoDialog,
          MaxOpens,         \* bound on the dialogs that are opened
          MaxSyncs,         \* bound on the syncs the clients ask for
          MaxUiFaults        \* bound on link drops, refused answers, /stop
                            \* and session replacements

Dialogs == Stocks \cup Flows

ASSUME DialogAssumption == IsFiniteSet(Dialogs) /\ Stocks \cap Flows = {}

VARIABLES
    sharedUi,   \* pi hands every session the same ctx.ui object
    bridge,     \* the session whose bridge is current
    life,       \* dialog -> "new", "open" (someone waits for it) or "done"
    holder,     \* dialog -> session whose bridge has it pending, 0 for none
    submits,    \* flows with a submit that pi-ask has not answered
    attached,   \* clients the host has attached
    linked,     \* the host's relay connection is up
    downlink,   \* client -> frames on their way to it
    uplink,     \* client -> frames on their way to the host
    openAsks,   \* client -> requests it shows
    chooser,    \* client -> requests whose picker is on screen
    awaitingText, \* client -> the request the next line answers
    syncWindow, \* client -> ids seen since it asked for a sync
    syncing,    \* client -> a sync window is open
    fresh,      \* client -> the host is as it was when it answered the sync
    clean,      \* client -> nothing was on its way when it asked for the sync
    syncs, uiFaults

hostVars == <<sharedUi, bridge, life, holder, submits, attached, linked>>
clientVars == <<openAsks, chooser, awaitingText, syncWindow, syncing>>
uiVars == <<hostVars, clientVars, downlink, uplink, fresh, clean, syncs, uiFaults>>

UiInit ==
    /\ sharedUi \in BOOLEAN
    /\ bridge = 1
    /\ life = [d \in Dialogs |-> "new"]
    /\ holder = [d \in Dialogs |-> 0]
    /\ submits = {}
    /\ attached = {}
    /\ linked = TRUE
    /\ downlink = [c \in Owners |-> <<>>]
    /\ uplink = [c \in Owners |-> <<>>]
    /\ openAsks = [c \in Owners |-> {}]
    /\ chooser = [c \in Owners |-> {}]
    /\ awaitingText = [c \in Owners |-> NoDialog]
    /\ syncWindow = [c \in Owners |-> {}]
    /\ syncing = [c \in Owners |-> FALSE]
    /\ fresh = [c \in Owners |-> FALSE]
    /\ clean = [c \in Owners |-> FALSE]
    /\ syncs = 0
    /\ uiFaults = 0

(***************************************************************************)
(* The host.                                                               *)
(***************************************************************************)
Frame(kind, d) == [kind |-> kind, id |-> d]
Frames(kind, ids) == [i \in 1 .. Cardinality(ids) |->
                        Frame(kind, SetToSeq(ids)[i])]

\* The frames go to every attached client while the relay is up, and nowhere
\* otherwise. Whatever was replayed before is no longer the latest word.
broadcast(frames) ==
    /\ downlink' = [c \in Owners |->
                      IF linked /\ c \in attached THEN downlink[c] \o frames
                                                  ELSE downlink[c]]
    /\ fresh' = [c \in Owners |-> FALSE]

\* What the current bridge would replay.
pendingRequests == {d \in Dialogs : holder[d] = bridge}

\* The session whose bridge the wrapped ctx.ui talks to: the marker on a
\* shared ctx.ui keeps the first wrap.
WrapBridge == IF sharedUi THEN 1 ELSE bridge

MayOpen(d) == /\ life[d] = "new"
              /\ Cardinality({e \in Dialogs : life[e] # "new"}) < MaxOpens

\* An extension opens a stock dialog. Without a client the call falls through
\* to the desk alone.
openStock(d) ==
    /\ MayOpen(d)
    /\ life' = [life EXCEPT ![d] = "open"]
    /\ IF attached = {}
         THEN UNCHANGED <<holder, downlink, fresh>>
         ELSE /\ holder' = [holder EXCEPT ![d] = WrapBridge]
              /\ broadcast(<<Frame("request", d)>>)
    /\ UNCHANGED <<clientVars, clean, sharedUi, bridge, submits, attached, linked,
                   uplink, syncs, uiFaults>>

\* pi-ask started a flow.
onStartedFlow(d) ==
    /\ MayOpen(d)
    /\ life' = [life EXCEPT ![d] = "open"]
    /\ holder' = [holder EXCEPT ![d] = bridge]
    /\ broadcast(<<Frame("request", d)>>)
    /\ UNCHANGED <<clientVars, clean, sharedUi, bridge, submits, attached, linked,
                   uplink, syncs, uiFaults>>

\* The desk answered a stock dialog first: dismissStock.
dismissStock(d) ==
    /\ life[d] = "open"
    /\ life' = [life EXCEPT ![d] = "done"]
    /\ holder' = [holder EXCEPT ![d] = 0]
    /\ IF holder[d] = 0
         THEN UNCHANGED <<downlink, fresh>>
         ELSE broadcast(<<Frame("resolved", d)>>)
    /\ UNCHANGED <<clientVars, clean, sharedUi, bridge, submits, attached, linked,
                   uplink, syncs, uiFaults>>

\* pi-ask completed a flow, answered at the desk or by a submit.
onCompleted(d) ==
    /\ life[d] = "open"
    /\ life' = [life EXCEPT ![d] = "done"]
    /\ holder' = [holder EXCEPT ![d] = 0]
    /\ submits' = submits \ {d}
    /\ broadcast(<<Frame("resolved", d)>>)
    /\ UNCHANGED <<clientVars, clean, sharedUi, bridge, attached, linked, uplink,
                   syncs, uiFaults>>

\* pi-ask refused a submit: a bad answer, or a flow that is gone.
onSubmitResult(d) ==
    /\ d \in submits
    /\ IF life[d] = "open" /\ d \in Flows
         THEN uiFaults < MaxUiFaults /\ uiFaults' = uiFaults + 1
         ELSE UNCHANGED uiFaults
    /\ submits' = submits \ {d}
    /\ broadcast(<<Frame("warning", d)>>)
    /\ UNCHANGED <<clientVars, clean, sharedUi, bridge, life, holder, attached,
                   linked, uplink, syncs>>

\* The time limit of an entry: the entry goes, its caller keeps waiting.
onTtl(d) ==
    /\ holder[d] # 0
    /\ holder' = [holder EXCEPT ![d] = 0]
    /\ broadcast(<<Frame("warning", d)>>)
    /\ UNCHANGED <<clientVars, clean, sharedUi, bridge, life, submits, attached,
                   linked, uplink, syncs, uiFaults>>

\* /stop: a cancel is submitted for every flow, every stock dialog ends.
cancelAllPending ==
    LET stocks == pendingRequests \cap Stocks
    IN  /\ pendingRequests # {}
        /\ uiFaults < MaxUiFaults
        /\ uiFaults' = uiFaults + 1
        /\ submits' = submits \cup (pendingRequests \cap Flows)
        /\ holder' = [d \in Dialogs |-> IF d \in stocks THEN 0 ELSE holder[d]]
        /\ life' = [d \in Dialogs |-> IF d \in stocks THEN "done" ELSE life[d]]
        /\ broadcast(Frames("resolved", stocks))
        /\ UNCHANGED <<clientVars, clean, sharedUi, bridge, attached, linked,
                       uplink, syncs>>

\* The relay connection goes: the host forgets its clients, a tail of what it
\* sent and all that was on its way to it are lost.
LinkCut ==
    /\ \E n \in [Owners -> 0 .. 6] :
         /\ \A c \in Owners : n[c] <= Len(downlink[c])
         /\ downlink' = [c \in Owners |-> SubSeq(downlink[c], 1, n[c])]
    /\ linked' = FALSE
    /\ attached' = {}
    /\ uplink' = [c \in Owners |-> <<>>]
    /\ fresh' = [c \in Owners |-> FALSE]

cutLink ==
    /\ linked
    /\ uiFaults < MaxUiFaults
    /\ LinkCut
    /\ uiFaults' = uiFaults + 1
    /\ UNCHANGED <<clientVars, clean, sharedUi, bridge, life, holder, submits, syncs>>

relink ==
    /\ ~linked
    /\ linked' = TRUE
    /\ UNCHANGED <<clientVars, clean, sharedUi, bridge, life, holder, submits,
                   attached, downlink, uplink, fresh, syncs, uiFaults>>

\* session_shutdown and the next session_start: dispose ends the stock calls
\* of the bridge and drops the flows, the relay is closed, a bridge is made.
dispose ==
    /\ uiFaults < MaxUiFaults
    /\ uiFaults' = uiFaults + 1
    /\ bridge' = bridge + 1
    /\ life' = [d \in Dialogs |->
                  IF holder[d] = bridge \/ (d \in Flows /\ life[d] = "open")
                    THEN "done" ELSE life[d]]
    /\ holder' = [d \in Dialogs |->
                    IF holder[d] = bridge THEN 0 ELSE holder[d]]
    /\ submits' = {}
    /\ LinkCut
    /\ UNCHANGED <<clientVars, clean, sharedUi, syncs>>

\* Mutated form of Replay: only the flows.
ReplayFlows == Frames("request", pendingRequests \cap Flows)
                 \o <<Frame("syncEnd", NoDialog)>>

\* The answer to a sync: the flows, then the stock dialogs, then the end.
Replay == Frames("request", pendingRequests \cap Flows)
            \o Frames("request", pendingRequests \cap Stocks)
            \o <<Frame("syncEnd", NoDialog)>>

\* The first frame of a client attaches it.
Attach(c) == attached' = attached \cup {c}

onSync(c) ==
    /\ uplink[c] # <<>>
    /\ Head(uplink[c]).kind = "sync"
    /\ Attach(c)
    /\ uplink' = [uplink EXCEPT ![c] = Tail(@)]
    /\ downlink' = [downlink EXCEPT ![c] = @ \o Replay]
    /\ fresh' = [fresh EXCEPT ![c] = TRUE]
    /\ UNCHANGED <<clientVars, clean, sharedUi, bridge, life, holder, submits,
                   linked, syncs, uiFaults>>

\* extension_ui_response. A pending stock dialog ends and nobody is told; an
\* answer to a flow, or a cancel of anything else (it names the id as the
\* flow), is submitted to pi-ask; a plain answer to a stock dialog that is no
\* longer pending is ignored.
respond(c) ==
    LET m == Head(uplink[c])
    IN  /\ uplink[c] # <<>>
        /\ m.kind \in {"answer", "cancel"}
        /\ Attach(c)
        /\ uplink' = [uplink EXCEPT ![c] = Tail(@)]
        /\ IF m.id \in Stocks /\ holder[m.id] = bridge
             THEN /\ holder' = [holder EXCEPT ![m.id] = 0]
                  /\ life' = [life EXCEPT ![m.id] = "done"]
                  /\ fresh' = [o \in Owners |-> FALSE]
                  /\ UNCHANGED submits
             ELSE /\ submits' = IF m.id \in Flows \/ m.kind = "cancel"
                                  THEN submits \cup {m.id} ELSE submits
                  /\ UNCHANGED <<holder, life, fresh>>
        /\ UNCHANGED <<clientVars, clean, sharedUi, bridge, linked, downlink, syncs,
                       uiFaults>>

(***************************************************************************)
(* The client.                                                             *)
(***************************************************************************)
Upward(c, m) ==
    uplink' = IF linked THEN [uplink EXCEPT ![c] = Append(@, m)] ELSE uplink

\* Attach, or /connect back to this session: the window opens before the
\* request is sent.
requestSync(c) ==
    /\ syncs < MaxSyncs
    /\ syncs' = syncs + 1
    /\ syncWindow' = [syncWindow EXCEPT ![c] = {}]
    /\ syncing' = [syncing EXCEPT ![c] = TRUE]
    /\ fresh' = [fresh EXCEPT ![c] = FALSE]
    /\ clean' = [clean EXCEPT ![c] = downlink[c] = <<>>]
    /\ Upward(c, Frame("sync", NoDialog))
    /\ UNCHANGED <<hostVars, downlink, openAsks, chooser, awaitingText, uiFaults>>

\* Stop showing some requests; a picker already on screen stays there.
Retire(c, ids) ==
    /\ openAsks' = [openAsks EXCEPT ![c] = @ \ ids]
    /\ awaitingText' = IF awaitingText[c] \in ids
                         THEN [awaitingText EXCEPT ![c] = NoDialog]
                         ELSE awaitingText

\* staleFlows: what the client shows and the window did not see.
staleFlows(c) == IF syncing[c] THEN openAsks[c] \ syncWindow[c] ELSE {}

closeSyncWindow(c) ==
    /\ Retire(c, staleFlows(c))
    /\ syncWindow' = [syncWindow EXCEPT ![c] = {}]
    /\ syncing' = [syncing EXCEPT ![c] = FALSE]
    /\ UNCHANGED chooser

Saw(c, d) == syncWindow' = IF syncing[c]
                             THEN [syncWindow EXCEPT ![c] = @ \cup {d}]
                             ELSE syncWindow

\* A request is shown, again if it was shown before; a text dialog takes the
\* input line from the one that had it.
presentAsk(c, d) ==
    /\ Saw(c, d)
    /\ openAsks' = [openAsks EXCEPT ![c] = @ \cup {d}]
    /\ IF d \in TextDialogs
         THEN /\ awaitingText' = [awaitingText EXCEPT ![c] = d]
              /\ UNCHANGED chooser
         ELSE /\ chooser' = [chooser EXCEPT ![c] = @ \cup {d}]
              /\ UNCHANGED awaitingText
    /\ UNCHANGED syncing

\* routeNotify. It reads notifyType where the bridge writes notify_type, so a
\* warning dismisses an open request just as a resolution does.
routeNotify(c, d) ==
    /\ Saw(c, d)
    /\ Retire(c, {d})
    /\ UNCHANGED <<chooser, syncing>>

onEnvelope(c) ==
    LET m == Head(downlink[c])
    IN  /\ downlink[c] # <<>>
        /\ downlink' = [downlink EXCEPT ![c] = Tail(@)]
        /\ CASE m.kind = "syncEnd" -> closeSyncWindow(c)
             [] m.kind = "request" -> presentAsk(c, m.id)
             [] m.kind \in {"resolved", "warning"} -> routeNotify(c, m.id)
        /\ UNCHANGED <<hostVars, uplink, fresh, clean, syncs, uiFaults>>

\* The user answers or cancels what is on screen, still open or not.
answer(c, d, kind) ==
    /\ d \in chooser[c] \cup {awaitingText[c]}
    /\ d # NoDialog
    /\ Retire(c, {d})
    /\ chooser' = [chooser EXCEPT ![c] = @ \ {d}]
    /\ Upward(c, Frame(kind, d))
    /\ fresh' = [fresh EXCEPT ![c] = FALSE]
    /\ UNCHANGED <<hostVars, downlink, syncWindow, syncing, clean, syncs, uiFaults>>

UiNext ==
    \/ \E d \in Stocks : openStock(d) \/ dismissStock(d)
    \/ \E d \in Flows : onStartedFlow(d) \/ onCompleted(d)
    \/ \E d \in Dialogs : onTtl(d) \/ onSubmitResult(d)
    \/ cancelAllPending \/ cutLink \/ relink \/ dispose
    \/ \E c \in Owners : onSync(c) \/ respond(c) \/ requestSync(c)
                           \/ onEnvelope(c)
    \/ \E c \in Owners, d \in Dialogs, kind \in {"answer", "cancel"} :
          answer(c, d, kind)

UiSpec == UiInit /\ [][UiNext]_uiVars

(***************************************************************************)
(* Properties.                                                             *)
(***************************************************************************)
\* A warning (an answer refused, a time limit) leaves an open request standing
\* (routeNotify of ask.ts, as its comment has it).
\* The code does not keep it: README.md, "Claims the code does not keep".
WarningKeepsAsk ==
    [][\A c \in Owners, d \in Dialogs :
          /\ downlink[c] # <<>> /\ Head(downlink[c]) = Frame("warning", d)
          /\ downlink'[c] = Tail(downlink[c]) /\ d \in openAsks[c]
          => d \in openAsks'[c]]_uiVars

UiTypeOK ==
    /\ bridge \in 1 .. MaxUiFaults + 1
    /\ life \in [Dialogs -> {"new", "open", "done"}]
    /\ holder \in [Dialogs -> 0 .. MaxUiFaults + 1]
    /\ submits \subseteq Dialogs
    /\ attached \subseteq Owners
    /\ openAsks \in [Owners -> SUBSET Dialogs]
    /\ chooser \in [Owners -> SUBSET Dialogs]
    /\ awaitingText \in [Owners -> Dialogs \cup {NoDialog}]
    /\ syncWindow \in [Owners -> SUBSET Dialogs]
    /\ \A d \in Dialogs : life[d] # "open" => holder[d] = 0

\* After a sync has been answered and read, with nothing new at the host, the
\* client shows every dialog the host still has pending and, unless a frame
\* of before was still on its way, no flow that it has not: a request that is
\* broadcast while the sync is under way is not retired by closeSyncWindow,
\* a dismissal lost with the link is made up for.
SyncedViewRight ==
    \A c \in Owners :
        fresh[c] /\ downlink[c] = <<>> /\ ~syncing[c]
            => /\ pendingRequests \subseteq openAsks[c]
               /\ clean[c] => openAsks[c] \cap Flows \subseteq pendingRequests
============================================================================
