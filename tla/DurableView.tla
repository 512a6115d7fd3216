----------------------------- MODULE DurableView -----------------------------
(***************************************************************************)
(* What an app sees live of a durable conversation                         *)
(* (unbien-durable/src/event_source.ts, mirror.ts, view_translator.ts).    *)
(* The harness publishes states, not events: each value of the watch holds *)
(* the entries and the pi.live document after any number of commits, and   *)
(* ViewTranslator.feed turns the difference to what it has emitted into    *)
(* pi's events.  The harness is external: entries, runs, a streamed answer *)
(* and tool slots change as the code here expects of it.  Texts are left   *)
(* out: a streamed answer is the number of its blocks; so are an entry's   *)
(* messages after the first, of which nothing is emitted, and compactions, *)
(* which have an event of their own.                                       *)
(***************************************************************************)
EXTENDS Naturals, Sequences, FiniteSets, SequencesExt

CONSTANTS
    Calls,       \* ids of tool calls, each used once
    MaxEntries,  \* entries of the conversation
    MaxInputs,   \* of them, submissions
    MaxApps,     \* of them, entries of the app and resets
    MaxBlocks    \* blocks of an answer

ASSUME ViewAssumption ==
    /\ IsFiniteSet(Calls) /\ MaxEntries \in Nat /\ MaxInputs \in Nat
    /\ MaxApps \in Nat /\ MaxBlocks \in Nat \ {0}

VARIABLES
    log,       \* the conversation's entries
    run,       \* pi.live.run is there
    gen,       \* blocks of pi.live.generation.message, 0 for none
    slots,     \* pi.live.tools; "none" before and after the round of a call
    spent,     \* calls whose round is over
    watching,  \* open() has seeded the mirror and the translator
    newest,    \* entries the mirror holds
    tr,        \* ViewTranslator
    app,       \* what the events so far amount to for whoever gets them
    joined     \* what open() found: entries and calls under way

harnessVars == <<log, run, gen, slots, spent>>
viewVars == <<harnessVars, watching, newest, tr, app, joined>>

Kinds == {"user", "assistant", "result", "app", "hidden", "reset"}
Unsent == {"hidden", "reset"}
Entries == [kind : Kinds, calls : SUBSET Calls, blocks : 0 .. MaxBlocks]
SlotStates == {"none", "pending", "running", "done", "faulted"}

ViewTypeOK ==
    /\ log \in Seq(Entries) /\ run \in BOOLEAN /\ gen \in 0 .. MaxBlocks
    /\ slots \in [Calls -> SlotStates] /\ spent \subseteq Calls
    /\ watching \in BOOLEAN /\ newest \in 0 .. Len(log)
    /\ tr \in [busy : BOOLEAN, inTurn : BOOLEAN, stream : BOOLEAN, blocks : 0 .. MaxBlocks,
               ended : 0 .. MaxBlocks, pending : SUBSET Calls, toolsStarted : SUBSET Calls,
               toolsEnded : SUBSET Calls]

ViewInit ==
    /\ log = <<>> /\ run = FALSE /\ gen = 0 /\ spent = {}
    /\ slots = [c \in Calls |-> "none"]
    /\ watching = FALSE /\ newest = 0
    /\ tr = [busy |-> FALSE, inTurn |-> FALSE, stream |-> FALSE, blocks |-> 0, ended |-> 0,
             pending |-> {}, toolsStarted |-> {}, toolsEnded |-> {}]
    /\ app = [shown |-> <<>>, openBlocks |-> 0,
              began |-> [c \in Calls |-> 0], finished |-> [c \in Calls |-> 0], early |-> FALSE]
    /\ joined = [at |-> 0, calls |-> {}]

-----------------------------------------------------------------------------
(* The harness *)

seenVars == <<watching, newest, tr, app, joined>>
Entry(kind, calls, blocks) == [kind |-> kind, calls |-> calls, blocks |-> blocks]
Commit(e) == Len(log) < MaxEntries /\ log' = Append(log, e)
Count(kind) == Len(SelectSeq(log, LAMBDA e : e.kind = kind))
Round == {c \in Calls : slots[c] # "none"}
Busy == {c \in Calls : slots[c] \in {"pending", "running"}}

(* A submission starts a run, or is placed between two turns of one. *)
Submit ==
    /\ gen = 0 /\ Busy = {} /\ Count("user") < MaxInputs
    /\ Commit(Entry("user", {}, 1)) /\ run' = TRUE
    /\ UNCHANGED <<gen, slots, spent, seenVars>>

Stream ==
    /\ run /\ Busy = {} /\ gen < MaxBlocks /\ gen' = gen + 1
    /\ UNCHANGED <<log, run, slots, spent, seenVars>>

(* The answer is an entry, with the blocks streamed so far and perhaps more. *)
Answer(cs, n) ==
    /\ run /\ Busy = {} /\ n >= gen
    /\ cs \cap (Round \cup spent) = {}
    /\ Commit(Entry("assistant", cs, n)) /\ gen' = 0
    /\ spent' = spent \cup Round
    /\ slots' = [c \in Calls |-> IF c \in cs THEN "pending" ELSE "none"]
    /\ UNCHANGED <<run, seenVars>>

ToolRuns(c) ==
    /\ slots[c] = "pending" /\ slots' = [slots EXCEPT ![c] = "running"]
    /\ UNCHANGED <<log, run, gen, spent, seenVars>>

ToolDone(c) ==
    /\ slots[c] = "running" /\ slots' = [slots EXCEPT ![c] = "done"]
    /\ Commit(Entry("result", {c}, 1))
    /\ UNCHANGED <<run, gen, spent, seenVars>>

ToolFaults(c) ==
    /\ slots[c] \in {"pending", "running"} /\ slots' = [slots EXCEPT ![c] = "faulted"]
    /\ UNCHANGED <<log, run, gen, spent, seenVars>>

(* A run ends with its last answer, or is aborted where it is. *)
RunEnds ==
    /\ run /\ run' = FALSE /\ gen' = 0
    /\ spent' = spent \cup Round /\ slots' = [c \in Calls |-> "none"]
    /\ UNCHANGED <<log, seenVars>>

(* An entry of the app, shown or not, or a reset of the context, at any time. *)
AppEntry(kind) ==
    /\ Count("app") + Count("hidden") + Count("reset") < MaxApps
    /\ Commit(Entry(kind, {}, 0))
    /\ UNCHANGED <<run, gen, slots, spent, seenVars>>

-----------------------------------------------------------------------------
(* ViewTranslator, as functions of v = [tr, app] *)

beginTurn(v) == [v EXCEPT !.tr.inTurn = TRUE]

(* Calls of the answers shown that have neither a result nor a fault. *)
Unresolved(v) ==
    {c \in Busy : \E j \in DOMAIN v.app.shown : /\ log[v.app.shown[j]].kind = "assistant"
                                               /\ c \in log[v.app.shown[j]].calls}

endTurn(v) ==
    IF v.tr.inTurn THEN [v EXCEPT !.tr.inTurn = FALSE, !.app.early = @ \/ Unresolved(v) # {}]
    ELSE v

(* message_start and message_end of entry i. *)
whole(v, i) == [beginTurn(v) EXCEPT !.app.shown = Append(@, i)]

(* Blocks start in order, each ends when a later one starts or with the message. *)
diffBlocks(v, n, final) ==
    LET closed == IF final THEN n ELSE IF n > v.tr.blocks THEN n - 1 ELSE v.tr.ended
    IN  [v EXCEPT !.tr.blocks = n, !.tr.ended = closed, !.app.openBlocks = n - closed]

openStream(v) ==
    IF v.tr.stream THEN v ELSE [v EXCEPT !.tr.stream = TRUE, !.tr.blocks = 0, !.tr.ended = 0]

streaming(v, n) == IF n = 0 THEN v ELSE diffBlocks(openStream(beginTurn(v)), n, FALSE)

assistant(v, i) ==
    LET e == log[i]
        w == diffBlocks(openStream(beginTurn(v)), e.blocks, TRUE)
        ended == [w EXCEPT !.tr.stream = FALSE, !.tr.pending = e.calls,
                           !.app.shown = Append(@, i)]
    IN  IF e.calls = {} THEN endTurn(ended) ELSE ended

startTool(v, c) ==
    IF c \in v.tr.toolsStarted THEN v
    ELSE [v EXCEPT !.tr.toolsStarted = @ \cup {c}, !.app.began[c] = @ + 1]

endTool(v, c) ==
    IF c \in v.tr.toolsEnded THEN v
    ELSE [v EXCEPT !.tr.toolsEnded = @ \cup {c}, !.app.finished[c] = @ + 1]

toolResult(v, i) ==
    LET c == CHOOSE c \in log[i].calls : TRUE
        w == [whole(endTool(startTool(v, c), c), i) EXCEPT !.tr.pending = @ \ {c}]
    IN  IF w.tr.pending = {} THEN endTurn(w) ELSE w

(* Of a kind that is not listed here, pi.reset among them, nothing is emitted. *)
entry(v, i) ==
    CASE log[i].kind \in {"user", "app"} -> whole(v, i)
      [] log[i].kind = "assistant" -> assistant(v, i)
      [] log[i].kind = "result" -> toolResult(v, i)
      [] OTHER -> v

(* A slot that is done without an entry has faulted. *)
slot(v, c) ==
    CASE slots[c] \in {"none", "pending"} -> v
      [] slots[c] = "faulted" -> [endTool(startTool(v, c), c) EXCEPT !.tr.pending = @ \ {c}]
      [] OTHER -> startTool(v, c)

endRun(v) ==
    LET w == endTurn([v EXCEPT !.tr.stream = FALSE, !.tr.pending = {}])
    IN  [w EXCEPT !.tr.toolsStarted = {}, !.tr.toolsEnded = {}, !.tr.busy = FALSE,
                  !.app.openBlocks = 0]

(* Mutated form of ingest: the whole transcript held is offered again. *)
ingestAgain == [j \in 1 .. Len(log) |-> j]

(* mirror.ingest: the entries newer than every held one. *)
ingest == [j \in 1 .. Len(log) - newest |-> newest + j]

feed ==
    LET v0 == [tr |-> tr, app |-> app]
        v1 == IF ~ tr.busy /\ run THEN [v0 EXCEPT !.tr.busy = TRUE] ELSE v0
        v2 == FoldLeft(entry, v1, ingest)
        v3 == streaming(v2, gen)
        v4 == FoldLeft(slot, v3, SetToSeq(Calls))
    IN  IF v4.tr.busy /\ ~ run THEN endRun(v4) ELSE v4

(* open(): the first value seeds the mirror and the translator, silently. *)
open ==
    /\ ~ watching /\ watching' = TRUE
    /\ newest' = Len(log)
    /\ tr' = [tr EXCEPT !.busy = run, !.inTurn = run,
                        !.toolsStarted = {c \in Calls : slots[c] \notin {"none", "pending"}},
                        !.toolsEnded = {c \in Calls : slots[c] \in {"done", "faulted"}}]
    /\ joined' = [at |-> Len(log), calls |-> Round]
    /\ UNCHANGED <<harnessVars, app>>

(* A value of the watch: all commits up to now, the gap filled from the store. *)
OnValue ==
    /\ watching
    /\ newest' = Len(log)
    /\ tr' = feed.tr /\ app' = feed.app
    /\ UNCHANGED <<harnessVars, watching, joined>>

ViewNext ==
    \/ Submit \/ Stream \/ RunEnds \/ open \/ OnValue
    \/ \E cs \in SUBSET Calls, n \in 1 .. MaxBlocks : Answer(cs, n)
    \/ \E c \in Calls : ToolRuns(c) \/ ToolDone(c) \/ ToolFaults(c)
    \/ \E kind \in {"app", "hidden", "reset"} : AppEntry(kind)

ViewSpec == ViewInit /\ [][ViewNext]_viewVars

-----------------------------------------------------------------------------
(* Properties *)

(* The entries whose messages are for the client. *)
Rendered == {i \in joined.at + 1 .. newest : log[i].kind \notin Unsent}

(***************************************************************************)
(* However the commits are folded into values, what has been emitted       *)
(* amounts to what a client that pages the same transcript would show, of  *)
(* the kinds the translator knows: every message once and in order, every  *)
(* tool of which a start was emitted started and ended at most once, in    *)
(* that order, an answer's blocks all closed with it, and no turn over     *)
(* before its results are there.  A round that was under way when the      *)
(* watch began is excepted from the last: the translator does not know its *)
(* calls.                                                                  *)
(***************************************************************************)
LiveRight ==
    ViewTypeOK /\
    (watching =>
        /\ ToSet(app.shown) = Rendered
        /\ \A j, k \in DOMAIN app.shown : j < k => app.shown[j] < app.shown[k]
        /\ \A c \in Calls :
              /\ app.began[c] <= 1 /\ app.finished[c] <= 1
              /\ app.finished[c] = 1 => app.began[c] = 1 \/ c \in joined.calls
        /\ \A j \in DOMAIN app.shown : log[app.shown[j]].kind = "result" =>
              \A c \in log[app.shown[j]].calls : app.finished[c] = 1 \/ c \in joined.calls
        /\ ~ tr.stream => app.openBlocks = 0
        /\ ~ app.early)

(* What a page of the mirror displays of the entries since the watch began: a *)
(* reset too.                                                                 *)
Paged == {i \in joined.at + 1 .. newest : log[i].kind # "hidden"}

(***************************************************************************)
(* Whoever follows the conversation live is shown what a page of the same  *)
(* entries displays (toWire of mirror.ts: a reset is a custom message with *)
(* display).                                                               *)
(***************************************************************************)
\* The code does not keep it: README.md, "Claims the code does not keep".
LiveAsPaged == watching => ToSet(app.shown) = Paged
==============================================================================
