---------------------------- MODULE TranscriptWalk ----------------------------
(***************************************************************************)
(* How a client that attaches to a running session gets its transcript:    *)
(* get_entries pages of the stored entries (session/rpc_inbound.ts,        *)
(* rpc_handlers.ts), walked by cursor (unbien-cli/src/client.ts), put      *)
(* before whatever has arrived live meanwhile (connect.ts) and reduced     *)
(* with it to the items shown (reduce.ts).  An entry's size is a number of *)
(* units; texts are left out.  An entry's id is its place in the log.  A   *)
(* message has one call at most; a tool's end is told live before its      *)
(* result is stored, and that entry's own live frame says nothing.         *)
(***************************************************************************)
EXTENDS Naturals, Sequences, FiniteSets, SequencesExt

CONSTANTS
    MaxLog,    \* entries of the session
    Sizes,     \* sizes of an entry's JSON
    Budget,    \* GET_ENTRIES_PAGE_BUDGET_BYTES, and MAX_ENTRY_JSON_BYTES
    MaxPages,  \* maxPages of the walk
    MaxTurns   \* tree navigations

ASSUME WalkAssumption ==
    /\ MaxLog \in Nat /\ Sizes \subseteq Nat \ {0} /\ Budget \in Nat \ {0}
    /\ MaxPages \in Nat \ {0} /\ MaxTurns \in Nat

VARIABLES
    stored,    \* the session's entries: what each is, and its size
    leaf,      \* the session's leaf, 0 for null
    ended,     \* the tool of the last call has ended, its result is not stored
    turned,    \* tree navigations so far
    listening, \* the client has a channel: live frames are sent to it
    asked,     \* the cursor of the request under way, 0 for none given
    pending,   \* a request is on its way to the session
    inbound,   \* frames on their way to the client
    walk,      \* getEntries of the client: where it is, its cursor and pages
    got,       \* entries walked
    streamed,  \* entries that arrived as live frames
    cut,       \* the walk ended on a timeout, an error or its page limit
    nulled,    \* history: a page with entries said the leaf was null
    unheard,   \* history: the channel was opened after that tool ended
    missed     \* history: a page that completed the log was made meanwhile

storeVars == <<stored, leaf, turned, ended>>
readerVars == <<listening, walk, got, streamed, cut, nulled>>
missVars == <<unheard, missed>>
walkVars == <<storeVars, readerVars, asked, pending, inbound, missVars>>

Ids == 1 .. MaxLog
What == {"message", "call", "result"}

WalkTypeOK ==
    /\ stored \in Seq([what : What, size : Sizes]) /\ leaf \in 0 .. Len(stored)
    /\ walk \in [at : {"idle", "waiting", "over"}, since : 0 .. MaxLog, pages : 0 .. MaxPages]
    /\ got \in Seq(Ids) /\ streamed \in Seq(Ids) /\ asked \in 0 .. MaxLog

WalkInit ==
    /\ stored = <<>> /\ leaf = 0 /\ turned = 0 /\ ended = FALSE
    /\ listening = FALSE /\ asked = 0 /\ pending = FALSE /\ inbound = <<>>
    /\ walk = [at |-> "idle", since |-> 0, pages |-> 0]
    /\ got = <<>> /\ streamed = <<>> /\ cut = FALSE /\ nulled = FALSE
    /\ unheard = FALSE /\ missed = FALSE

-----------------------------------------------------------------------------
(* The session *)

(* A result follows its call. *)
OpenCall == Len(stored) > 0 /\ stored[Len(stored)].what = "call"

(* What entry i says, sent to an attached client. *)
Announce(i) ==
    inbound' = IF listening THEN Append(inbound, [live |-> TRUE, id |-> i]) ELSE inbound

(* tool_execution_end: it says what the result that comes next will say. *)
ToolEnds ==
    /\ OpenCall /\ ended = FALSE /\ ended' = TRUE
    /\ Len(stored) < MaxLog /\ Announce(Len(stored) + 1)
    /\ UNCHANGED <<stored, leaf, turned, readerVars, asked, pending, missVars>>

(* An entry is stored and its event sent: reduce drops the one of a result. *)
StoreEntry(what, size) ==
    /\ Len(stored) < MaxLog /\ OpenCall = ended /\ (what = "result") = ended
    /\ stored' = Append(stored, [what |-> what, size |-> size])
    /\ leaf' = Len(stored) + 1 /\ ended' = FALSE /\ unheard' = FALSE
    /\ IF ended THEN UNCHANGED inbound ELSE Announce(Len(stored) + 1)
    /\ UNCHANGED <<turned, readerVars, asked, pending, missed>>

(* pi moves the leaf to an earlier entry, or before all of them. *)
Navigate(i) ==
    /\ turned < MaxTurns /\ turned' = turned + 1
    /\ i < leaf /\ leaf' = i
    /\ UNCHANGED <<stored, ended, readerVars, asked, pending, inbound, missVars>>

(* fitEntryForTransport: an oversized entry is shortened to the ceiling. *)
fitEntryForTransport(n) == Min({n, Budget})

(* What entries i..j take of a page. *)
Used(i, j) == FoldLeft(LAMBDA u, e : u + fitEntryForTransport(e.size), 0, SubSeq(stored, i, j))

(* Mutated form of pageCursor: a partial page names the session's leaf too. *)
pageCursorLeaf(last) == leaf

(* leafId of a page: the session's leaf if it completes the log, else its last entry. *)
pageCursor(last) == IF last = Len(stored) THEN leaf ELSE last

(* At least one entry, and as many more as the budget allows. *)
pageEntries(since) ==
    LET first == since + 1
        last == Max({k \in first .. Len(stored) : k = first \/ Used(first, k) <= Budget})
    IN  IF first > Len(stored) THEN [live |-> FALSE, ids |-> <<>>, leaf |-> leaf]
        ELSE [live |-> FALSE, ids |-> [k \in 1 .. last - since |-> since + k],
              leaf |-> pageCursor(last)]

(* get_entries of the session's handlers, and the response. *)
getEntries ==
    /\ pending /\ pending' = FALSE
    /\ inbound' = Append(inbound, pageEntries(asked))
    /\ missed' = (missed \/ (unheard /\ asked + Len(pageEntries(asked).ids) >= Len(stored)))
    /\ UNCHANGED <<storeVars, readerVars, asked, unheard>>

(* No session is bound, or the dispatch fails: success is false. *)
getEntriesFails ==
    /\ pending /\ pending' = FALSE
    /\ inbound' = Append(inbound, [live |-> FALSE, ids |-> <<>>, leaf |-> MaxLog + 1])
    /\ UNCHANGED <<storeVars, readerVars, asked, missVars>>

-----------------------------------------------------------------------------
(* The client *)

Listen ==
    /\ ~ listening /\ listening' = TRUE /\ unheard' = ended
    /\ UNCHANGED <<storeVars, walk, got, streamed, cut, nulled, asked, pending, inbound, missed>>

Request(since) == pending' = TRUE /\ asked' = since

(* loadHistory: the walk starts once the client is attached. *)
loadHistory ==
    /\ listening /\ walk.at = "idle"
    /\ walk' = [walk EXCEPT !.at = "waiting"]
    /\ Request(0)
    /\ UNCHANGED <<storeVars, listening, got, streamed, cut, nulled, inbound, missVars>>

Over == walk' = [walk EXCEPT !.at = "over"] /\ UNCHANGED <<asked, pending>>

(* A page has come.  Nothing more, a null leaf or a leaf that has not moved *)
(* ends the walk; so does the limit of pages.                              *)
OnPage(f) ==
    IF f.leaf > MaxLog THEN Over /\ cut' = TRUE /\ UNCHANGED <<got, nulled>>
    ELSE IF f.ids = <<>> \/ f.leaf = 0
    THEN Over /\ nulled' = (nulled \/ f.ids # <<>>) /\ UNCHANGED <<got, cut>>
    ELSE /\ got' = got \o f.ids /\ UNCHANGED nulled
         /\ IF f.leaf = walk.since \/ walk.pages + 1 = MaxPages
            THEN Over /\ cut' = (cut \/ f.leaf # walk.since)
            ELSE /\ walk' = [walk EXCEPT !.since = f.leaf, !.pages = @ + 1]
                 /\ Request(f.leaf) /\ UNCHANGED cut

(* A frame arrives; a page nobody waits for any more is dropped. *)
OnFrame ==
    /\ inbound # <<>> /\ inbound' = Tail(inbound)
    /\ LET f == Head(inbound)
       IN  \/ /\ f.live /\ streamed' = Append(streamed, f.id)
              /\ UNCHANGED <<walk, got, cut, nulled, asked, pending>>
           \/ /\ ~ f.live /\ UNCHANGED streamed
              /\ IF walk.at = "waiting" THEN OnPage(f)
                 ELSE UNCHANGED <<walk, got, cut, nulled, asked, pending>>
    /\ UNCHANGED <<storeVars, listening, missVars>>

(* request: no response within its time; what was walked is kept. *)
TimeOut ==
    /\ walk.at = "waiting" /\ Over /\ cut' = TRUE
    /\ UNCHANGED <<storeVars, listening, got, streamed, nulled, inbound, missVars>>

WalkNext ==
    \/ \E what \in What, size \in Sizes : StoreEntry(what, size)
    \/ \E i \in 0 .. MaxLog : Navigate(i)
    \/ ToolEnds \/ getEntries \/ getEntriesFails
    \/ Listen \/ loadHistory \/ OnFrame \/ TimeOut

WalkSpec == WalkInit /\ [][WalkNext]_walkVars

-----------------------------------------------------------------------------
(* What is shown *)

(* The entry that is not stored yet is the result of the tool that has ended. *)
WhatOf(i) == IF i \in DOMAIN stored THEN stored[i].what ELSE "result"

(* entriesToEnvelopes and the live producer agree: a message or a call is a *)
(* message_end, a call also a tool_execution_start, a result only a         *)
(* tool_execution_end.                                                      *)
EnvelopesOf(i) ==
    CASE WhatOf(i) = "message" -> <<[type |-> "message_end", id |-> i]>>
      [] WhatOf(i) = "call" -> <<[type |-> "message_end", id |-> i],
                                      [type |-> "tool_execution_start", id |-> i]>>
      [] OTHER -> <<[type |-> "tool_execution_end", id |-> i - 1]>>

(* reduce: a result goes to the card last drawn for its call. *)
reduceFrame(items, f) ==
    LET cards == {j \in DOMAIN items : items[j].kind = "tool" /\ items[j].id = f.id}
    IN  CASE f.type = "message_end" ->
                Append(items, [kind |-> "message", id |-> f.id, result |-> FALSE])
          [] f.type = "tool_execution_start" ->
                Append(items, [kind |-> "tool", id |-> f.id, result |-> FALSE])
          [] OTHER -> IF cards = {} THEN items ELSE [items EXCEPT ![Max(cards)].result = TRUE]

(* The walked history goes before what arrived live. *)
transcript == got \o streamed
reduceEntry(items, i) == FoldLeft(reduceFrame, items, EnvelopesOf(i))
shownItems == FoldLeft(reduceEntry, <<>>, transcript)

-----------------------------------------------------------------------------
(* Properties *)

LastCard(i) == Max({j \in DOMAIN shownItems : shownItems[j].kind = "tool" /\ shownItems[j].id = i})
FirstAt(i) == Min({j \in DOMAIN transcript : transcript[j] = i})

(***************************************************************************)
(* When a walk that was not cut short is over and every frame has arrived, *)
(* history and live frames together show the whole transcript, each entry  *)
(* first in its place, and the last card drawn for a call has a result if  *)
(* its tool has ended: whatever was appended between two pages, however    *)
(* the sizes fall into pages.  If the leaf was never moved back the walk   *)
(* is exactly a prefix of the log.  A null leaf is excepted, the walk      *)
(* drops such a page; and a channel opened between the end of a tool and   *)
(* the storing of its result, with the log walked to its end meanwhile:    *)
(* nothing tells that client the result.                                   *)
(***************************************************************************)
HistoryMeetsLive ==
    WalkTypeOK /\
    (walk.at = "over" /\ ~ pending /\ inbound = <<>> /\ ~ cut /\ ~ nulled /\ ~ missed =>
        /\ turned = 0 => \A j \in DOMAIN got : got[j] = j
        /\ \A i \in DOMAIN stored : i \in ToSet(transcript)
        /\ \A i, j \in DOMAIN stored : i < j => FirstAt(i) < FirstAt(j)
        /\ \A i \in DOMAIN stored : stored[i].what = "call" =>
              shownItems[LastCard(i)].result = (i < Len(stored) \/ ended))

(***************************************************************************)
(* When a walk that was not cut short is over, the transcript it rebuilt   *)
(* is in log order (loadHistory of connect.ts): no entry comes after a     *)
(* later one, or again.                                                    *)
(***************************************************************************)
\* The code does not keep it: README.md, "Claims the code does not keep".
InLogOrder ==
    walk.at = "over" /\ ~ cut =>
        \A j, k \in DOMAIN transcript : j < k => transcript[j] < transcript[k]
==============================================================================
