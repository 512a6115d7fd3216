----------------------------- MODULE RelayHub ------------------------------
(***************************************************************************)
(* One relay process: the connection registry (peers/registry.rs), the     *)
(* presence and room subscriptions (presence.rs, rooms.rs), the pairing    *)
(* allow-list (peers/pairing.rs) and the per-connection handler            *)
(* (handlers/peer.rs).  The relay runs one task per WebSocket on a         *)
(* multi-threaded runtime; the shared maps are behind separate locks that  *)
(* are released at every await, so a handler is a sequence of critical     *)
(* sections and each of them is one action.                                *)
(*                                                                         *)
(* Abstractions.  A topic is what a push is about: a peer (online/offline) *)
(* or a (peer, room) key (announced/ended).  For each connection and topic *)
(* `queued` is the last push put in its channel and not yet written to the *)
(* socket, `seen` the last word the client has: a FIFO channel makes the   *)
(* earlier pushes irrelevant to what the client ends up believing.  The    *)
(* replies to presence_check and rooms_check are written to the socket     *)
(* directly and overtake the channel.  Room metadata, envelope routing and *)
(* the peering protocol are outside this module; of the latter only the    *)
(* set of keys advertised to peered relays is kept.                        *)
(***************************************************************************)
EXTENDS SubscriptionGraph, FiniteSets

CONSTANTS
    Conns,            \* WebSocket connections (slots, reused after cleanup)
    PeerOf,           \* [Conns -> Peers]: the authenticated key of each
    RoomOf,           \* [Conns -> Rooms]: the room each opens in its hello
    PresenceLists,    \* [Peers -> lists each peer sends in presence frames]
    RoomLists,        \* [Peers -> lists each peer sends in (un)subscribe_rooms]
    RoomChecks,       \* [Peers -> machines each peer sends in rooms_check]
    AllowLists        \* [Peers -> owner sets each peer pushes in pairing_set]

Rooms == {RoomOf[c] : c \in Conns}
KeyOf(c) == <<PeerOf[c], RoomOf[c]>>
Keys == {KeyOf(c) : c \in Conns}
Topics == Peers \cup Keys

ASSUME HubConstants ==
    /\ PeerOf \in [Conns -> Peers]
    /\ DOMAIN RoomOf = Conns
    /\ \A p \in Peers : /\ PresenceLists[p] \subseteq SUBSET Peers
                       /\ RoomLists[p] \subseteq SUBSET Peers
                       /\ RoomChecks[p] \subseteq Peers
                       /\ AllowLists[p] \subseteq SUBSET Peers
    /\ Peers \cap Keys = {}

VARIABLES
    live,          \* connections in PeerRegistry.senders
    pres,          \* PresenceManager's graph
    room,          \* RoomManager's graph
    requested,     \* RoomManager.requested_by
    allow,         \* PairingRegistry.allow (unconfigured = nobody)
    advert,        \* keys advertised to peered relays
    pc,            \* where each connection's task is
    todo,          \* peers the task still has to push to, or to backfill
    arg,           \* the set the task carries across an await
    offl,          \* task-local was_offline_before / peer_offlined
    queued,        \* last push in the connection's channel, per topic
    seen,          \* last word the client received, per topic
    lastPresence,  \* last_presence_resp: peer -> word, empty before the first
    lastRooms,     \* last_rooms_resp: per target at most one set of open keys
    tracked,       \* history: topics the client has followed without a gap
    raced,         \* history: topics whose lifecycle pushes overlapped
    overtaken,     \* history: machines about which what a task carries from its
                   \* filter to its subscribe has been overtaken
    late,          \* history: <<owner, machine>> last decided on overtaken grounds
    declined       \* history: <<owner, machine>> dropped by unsubscribe_rooms

shared == <<live, pres, room, requested, allow, advert>>
task == <<pc, todo, arg, offl>>
frames == <<queued, seen, lastPresence, lastRooms>>
gate == <<overtaken, late, declined>>
history == <<tracked, raced, gate>>
vars == <<shared, task, frames, history>>

Points == {"new", "announce", "announcing", "online", "onlining", "advertise",
           "route", "backfill", "backfillSend", "filter", "subscribe",
           "reconcile", "ended", "ending", "offline", "offlining", "record",
           "unpresence", "unrooms", "unadvertise"}

Words == {"none", "up", "down"}
PresenceReplies == UNION {[ps -> Words] : ps \in SUBSET Peers}

Online(p) == \E c \in live : PeerOf[c] = p
Open(k) == \E c \in live : KeyOf(c) = k
Word(b) == IF b THEN "up" ELSE "down"

SharedOK ==
    /\ live \subseteq Conns
    /\ pres \in Graphs
    /\ room \in Graphs
    /\ requested \in [Peers -> SUBSET Peers]
    /\ allow \in [Peers -> SUBSET Peers]
    /\ advert \subseteq Keys

TaskOK ==
    /\ pc \in [Conns -> Points]
    /\ todo \in [Conns -> SUBSET Peers]
    /\ arg \in [Conns -> SUBSET Peers]
    /\ offl \in [Conns -> BOOLEAN]

FramesOK ==
    /\ queued \in [Conns -> [Topics -> Words]]
    /\ seen \in [Conns -> [Topics -> Words]]
    /\ lastPresence \in [Conns -> PresenceReplies]
    /\ lastRooms \in [Conns -> [Peers -> SUBSET SUBSET Keys]]

HistoryOK ==
    /\ tracked \in [Conns -> SUBSET Topics]
    /\ raced \subseteq Topics
    /\ overtaken \in [Conns -> SUBSET Peers]
    /\ late \subseteq Peers \X Peers
    /\ declined \subseteq Peers \X Peers

TypeOK == SharedOK /\ TaskOK /\ FramesOK /\ HistoryOK

Silence == [t \in Topics |-> "none"]
NoReply == [p \in {} |-> "none"]

Init ==
    /\ live = {}
    /\ pres = EmptyGraph
    /\ room = EmptyGraph
    /\ requested = [p \in Peers |-> {}]
    /\ allow = [p \in Peers |-> {}]
    /\ advert = {}
    /\ pc = [c \in Conns |-> "new"]
    /\ todo = [c \in Conns |-> {}]
    /\ arg = [c \in Conns |-> {}]
    /\ offl = [c \in Conns |-> FALSE]
    /\ queued = [c \in Conns |-> Silence]
    /\ seen = [c \in Conns |-> Silence]
    /\ lastPresence = [c \in Conns |-> NoReply]
    /\ lastRooms = [c \in Conns |-> [p \in Peers |-> {}]]
    /\ tracked = [c \in Conns |-> {}]
    /\ raced = {}
    /\ overtaken = [c \in Conns |-> {}]
    /\ late = {}
    /\ declined = {}
----------------------------------------------------------------------------
(* Pieces of the handlers *)

Goto(c, l) == pc' = [pc EXCEPT ![c] = l]

\* forward_to_all_rooms_of(p, ..): one push into the channel of every live
\* connection of p.
forward_to_all_rooms_of(p, topic, word) ==
    queued' = [d \in Conns |-> IF d \in live /\ PeerOf[d] = p
                               THEN [queued[d] EXCEPT ![topic] = word]
                               ELSE queued[d]]

\* The topics d's client still follows under the subscription graphs pg and rg.
Followed(d, pg, rg) ==
    {t \in tracked[d] : IF t \in Peers
                        THEN t \in pg.subscriptions_by[PeerOf[d]]
                        ELSE t[1] \in rg.subscriptions_by[PeerOf[d]]}

\* d's client will not be left believing that t is up by what it already has.
NotUp(d, t) ==
    IF queued[d][t] = "none" THEN seen[d][t] # "up" ELSE queued[d][t] = "down"

\* Some task is between reading the subscribers of p and its last push of an
\* online/offline transition, or between a backfill's check and its push.
PresencePushInFlight(p) ==
    \E d \in Conns :
        \/ /\ PeerOf[d] = p /\ offl[d]
           /\ pc[d] \in {"announce", "announcing", "online", "onlining",
                         "ended", "ending", "offline", "offlining"}
        \/ pc[d] = "backfillSend" /\ p \in arg[d]

RoomPushInFlight(k) ==
    \E d \in Conns : /\ KeyOf(d) = k
                     /\ pc[d] \in {"announce", "announcing", "ended", "ending"}

\* The tasks of o inside subscribe_rooms, past the first lock.
Asking(o) == {c \in Conns : PeerOf[c] = o /\ pc[c] \in {"filter", "subscribe"}}

\* What the tasks of o carry no longer answers the request that is recorded.
OvertakeAll(o) == [d \in Conns |-> IF d \in Asking(o) THEN Peers ELSE overtaken[d]]

\* Where a task goes once its room pushes, or its presence pushes, are done.
AfterRoomPushes(c) ==
    CASE pc[c] \in {"announce", "announcing"} ->
             IF offl[c] THEN "online" ELSE "advertise"
      [] pc[c] \in {"ended", "ending"} ->
             IF offl[c] THEN "offline" ELSE "unrooms"

AfterPresencePushes(c) ==
    IF pc[c] \in {"online", "onlining"} THEN "advertise" ELSE "record"

\* The transitions of p and k made by a registry change that overlap an
\* earlier transition still being announced.
Overlaps(p, peerMoves, k, roomMoves) ==
    (IF peerMoves /\ PresencePushInFlight(p) THEN {p} ELSE {})
        \cup (IF roomMoves /\ RoomPushInFlight(k) THEN {k} ELSE {})
----------------------------------------------------------------------------
(* Connecting *)

\* register: the critical section on `senders`.
register(c) ==
    LET p == PeerOf[c]
        was_offline_before == ~Online(p)
        is_first_in_room == ~Open(KeyOf(c))
    IN  /\ pc[c] = "new"
        /\ live' = live \cup {c}
        /\ offl' = [offl EXCEPT ![c] = was_offline_before]
        /\ Goto(c, CASE is_first_in_room -> "announce"
                     [] OTHER -> "advertise")
        /\ raced' = raced \cup
              Overlaps(p, was_offline_before, KeyOf(c), is_first_in_room)
        /\ UNCHANGED <<pres, room, requested, allow, advert, todo, arg, frames,
                       tracked, gate>>

\* rooms.subscribers_of(peer) before room_announced or room_ended.
ReadRoomSubscribers(c) ==
    LET subs == room.subscribers_of[PeerOf[c]]
    IN  /\ pc[c] \in {"announce", "ended"}
        /\ todo' = [todo EXCEPT ![c] = subs]
        /\ Goto(c, IF subs = {} THEN AfterRoomPushes(c)
                   ELSE IF pc[c] = "announce" THEN "announcing" ELSE "ending")
        /\ UNCHANGED <<shared, arg, offl, frames, history>>

\* One room_announced / room_ended push.
PushRoom(c, s) ==
    /\ pc[c] \in {"announcing", "ending"}
    /\ s \in todo[c]
    /\ forward_to_all_rooms_of(s, KeyOf(c), Word(pc[c] = "announcing"))
    /\ todo' = [todo EXCEPT ![c] = @ \ {s}]
    /\ Goto(c, IF todo[c] = {s} THEN AfterRoomPushes(c) ELSE pc[c])
    /\ UNCHANGED <<shared, arg, offl, seen, lastPresence, lastRooms, history>>

\* presence.subscribers_of(peer) before peer_online or peer_offline.
ReadPresenceSubscribers(c) ==
    LET subs == pres.subscribers_of[PeerOf[c]]
    IN  /\ pc[c] \in {"online", "offline"}
        /\ todo' = [todo EXCEPT ![c] = subs]
        /\ Goto(c, IF subs = {} THEN AfterPresencePushes(c)
                   ELSE IF pc[c] = "online" THEN "onlining" ELSE "offlining")
        /\ UNCHANGED <<shared, arg, offl, frames, history>>

\* One peer_online / peer_offline push.
PushPresence(c, s) ==
    /\ pc[c] \in {"onlining", "offlining"}
    /\ s \in todo[c]
    /\ forward_to_all_rooms_of(s, PeerOf[c], Word(pc[c] = "onlining"))
    /\ todo' = [todo EXCEPT ![c] = @ \ {s}]
    /\ Goto(c, IF todo[c] = {s} THEN AfterPresencePushes(c) ELSE pc[c])
    /\ UNCHANGED <<shared, arg, offl, seen, lastPresence, lastRooms, history>>

\* broadcast_update("add"), after a register or a room_meta_update; the routing
\* loop starts, or goes on.
Advertise(c) ==
    /\ pc[c] = "advertise"
    /\ advert' = advert \cup {KeyOf(c)}
    /\ Goto(c, "route")
    /\ UNCHANGED <<live, pres, room, requested, allow, todo, arg, offl, frames,
                   history>>
----------------------------------------------------------------------------
(* The routing loop *)

\* rx.recv: what the channel holds about t reaches the client.
Deliver(c, t) ==
    /\ pc[c] = "route"
    /\ queued[c][t] # "none"
    /\ seen' = [seen EXCEPT ![c][t] = queued[c][t]]
    /\ queued' = [queued EXCEPT ![c][t] = "none"]
    /\ UNCHANGED <<shared, task, lastPresence, lastRooms, history>>

\* Mutated form of subscribe_presence: no backfill of the peers already online.
subscribe_presenceOnly(c, ps) ==
    LET me == PeerOf[c]
        pg == subscribe(pres, me, ps)
    IN  /\ pc[c] = "route"
        /\ pres' = pg
        /\ tracked' = [d \in Conns |->
              Followed(d, pg, room)
                \cup {t \in ps : d \in live /\ PeerOf[d] = me /\ NotUp(d, t)}]
        /\ UNCHANGED <<live, room, requested, allow, advert, task, frames,
                       raced, gate>>

\* subscribe_presence: replace the list, then backfill it.
subscribe_presence(c, ps) ==
    LET me == PeerOf[c]
        pg == subscribe(pres, me, ps)
    IN  /\ pc[c] = "route"
        /\ pres' = pg
        /\ todo' = [todo EXCEPT ![c] = ps]
        /\ Goto(c, IF ps = {} THEN "route" ELSE "backfill")
        /\ tracked' = [d \in Conns |->
              Followed(d, pg, room)
                \cup {t \in ps : d \in live /\ PeerOf[d] = me /\ NotUp(d, t)}]
        /\ UNCHANGED <<live, room, requested, allow, advert, arg, offl, frames,
                       raced, gate>>

\* backfill_presence, first lock: is_online(t)?
BackfillCheck(c, t) ==
    /\ pc[c] = "backfill"
    /\ t \in todo[c]
    /\ todo' = [todo EXCEPT ![c] = @ \ {t}]
    /\ arg' = [arg EXCEPT ![c] = IF Online(t) THEN {t} ELSE {}]
    /\ Goto(c, CASE Online(t) -> "backfillSend"
                 [] ~Online(t) /\ todo[c] = {t} -> "route"
                 [] OTHER -> "backfill")
    /\ UNCHANGED <<shared, offl, frames, history>>

\* backfill_presence, second lock: the push.
BackfillSend(c, t) ==
    /\ pc[c] = "backfillSend"
    /\ t \in arg[c]
    /\ forward_to_all_rooms_of(PeerOf[c], t, "up")
    /\ arg' = [arg EXCEPT ![c] = {}]
    /\ Goto(c, IF todo[c] = {} THEN "route" ELSE "backfill")
    /\ UNCHANGED <<shared, todo, offl, seen, lastPresence, lastRooms, history>>

unsubscribe_presence(c, ps) ==
    LET pg == unsubscribe(pres, PeerOf[c], ps)
    IN  /\ pc[c] = "route"
        /\ pres' = pg
        /\ tracked' = [d \in Conns |-> Followed(d, pg, room)]
        /\ UNCHANGED <<live, room, requested, allow, advert, task, frames,
                       raced, gate>>

\* room_meta_update of the connection's own room: the room is found, its members
\* are told, and broadcast_update("add") follows.
room_meta_update(c) ==
    /\ pc[c] = "route"
    /\ Goto(c, "advertise")
    /\ UNCHANGED <<shared, todo, arg, offl, frames, history>>

\* presence_check: a snapshot written straight to the socket, unless it is
\* equal to the last one this connection was sent.
presence_check(c, ps) ==
    LET resp == [t \in ps |-> Word(Online(t))]
    IN  /\ pc[c] = "route"
        /\ resp # lastPresence[c]
        /\ lastPresence' = [lastPresence EXCEPT ![c] = resp]
        /\ seen' = [seen EXCEPT ![c] =
              [t \in Topics |-> IF t \in ps THEN resp[t] ELSE @[t]]]
        /\ UNCHANGED <<shared, task, queued, lastRooms, history>>

\* subscribe_rooms, first lock: the raw request is recorded.
subscribe_rooms(c, ps) ==
    LET me == PeerOf[c]
    IN  /\ pc[c] = "route"
        /\ requested' = [requested EXCEPT ![me] = ps]
        /\ arg' = [arg EXCEPT ![c] = ps]
        /\ Goto(c, "filter")
        /\ overtaken' = OvertakeAll(me)
        /\ declined' = {d \in declined : d[1] # me}
        /\ UNCHANGED <<live, pres, room, allow, advert, todo, offl, frames,
                       tracked, raced, late>>

\* Mutated form of FilterAllowed: every requested machine is kept.
FilterNothing(c) ==
    /\ pc[c] = "filter"
    /\ Goto(c, "subscribe")
    /\ UNCHANGED <<shared, todo, arg, offl, frames, history>>

\* subscribe_rooms, second: keep the machines that allow this requester.
FilterAllowed(c) ==
    /\ pc[c] = "filter"
    /\ arg' = [arg EXCEPT ![c] = {t \in @ : PeerOf[c] \in allow[t]}]
    /\ Goto(c, "subscribe")
    /\ UNCHANGED <<shared, todo, offl, frames, history>>

\* subscribe_rooms, third lock: the effective list replaces the old one.
SubscribeAllowed(c) ==
    LET rg == subscribe(room, PeerOf[c], arg[c])
    IN  /\ pc[c] = "subscribe"
        /\ room' = rg
        /\ arg' = [arg EXCEPT ![c] = {}]
        /\ Goto(c, "route")
        /\ tracked' = [d \in Conns |-> Followed(d, pres, rg)]
        /\ late' = {l \in late : l[1] # PeerOf[c]} \cup ({PeerOf[c]} \X overtaken[c])
        /\ overtaken' = [overtaken EXCEPT ![c] = {}]
        /\ UNCHANGED <<live, pres, requested, allow, advert, todo, offl, frames,
                       raced, declined>>

\* pairing_set, accepted or identical: the machine's owner set is replaced.
\* A stale, unsigned or foreign push changes nothing.
pairing_set(c, owners) ==
    /\ pc[c] = "route"
    /\ allow' = [allow EXCEPT ![PeerOf[c]] = owners]
    /\ arg' = [arg EXCEPT ![c] = owners]
    /\ Goto(c, "reconcile")
    /\ overtaken' = [d \in Conns |->
          IF pc[d] = "subscribe" /\ owners # allow[PeerOf[c]]
          THEN overtaken[d] \cup {PeerOf[c]} ELSE overtaken[d]]
    /\ UNCHANGED <<live, pres, room, requested, advert, todo, offl, frames,
                   tracked, raced, late, declined>>

\* Mutated form of Reconcile: revoked owners are dropped, granted ones not added.
ReconcileRevokedOnly(c) ==
    LET me == PeerOf[c]
        rg == reconcile_subscribers(room, me, room.subscribers_of[me] \cap arg[c])
    IN  /\ pc[c] = "reconcile"
        /\ room' = rg
        /\ arg' = [arg EXCEPT ![c] = {}]
        /\ Goto(c, "route")
        /\ tracked' = [d \in Conns |-> Followed(d, pres, rg)]
        /\ declined' = {d \in declined : d[2] # me}
        /\ late' = IF arg[c] = allow[me] THEN {l \in late : l[2] # me}
                   ELSE late \cup (Peers \X {me})
        /\ UNCHANGED <<live, pres, requested, allow, advert, todo, offl, frames,
                       raced, overtaken>>

\* pairing_set, then: subscribers := requesters within the pushed set.
Reconcile(c) ==
    LET me == PeerOf[c]
        rg == reconcile_subscribers(room, me,
                  {o \in Peers : me \in requested[o] /\ o \in arg[c]})
    IN  /\ pc[c] = "reconcile"
        /\ room' = rg
        /\ arg' = [arg EXCEPT ![c] = {}]
        /\ Goto(c, "route")
        /\ tracked' = [d \in Conns |-> Followed(d, pres, rg)]
        /\ declined' = {d \in declined : d[2] # me}
        /\ late' = IF arg[c] = allow[me] THEN {l \in late : l[2] # me}
                   ELSE late \cup (Peers \X {me})
        /\ UNCHANGED <<live, pres, requested, allow, advert, todo, offl, frames,
                       raced, overtaken>>

unsubscribe_rooms(c, ps) ==
    LET rg == unsubscribe(room, PeerOf[c], ps)
    IN  /\ pc[c] = "route"
        /\ room' = rg
        /\ tracked' = [d \in Conns |-> Followed(d, pres, rg)]
        /\ declined' = declined \cup ({PeerOf[c]} \X ps)
        /\ UNCHANGED <<live, pres, requested, allow, advert, task, frames,
                       raced, overtaken, late>>

\* rooms_check on one machine that allows the requester: its open rooms,
\* written straight to the socket unless equal to the last reply about it.
rooms_check(c, m) ==
    LET me == PeerOf[c]
        keys == {k \in Keys : k[1] = m}
        rooms_of == {k \in keys : Open(k)}
    IN  /\ pc[c] = "route"
        /\ me \in allow[m]
        /\ lastRooms[c][m] # {rooms_of}
        /\ lastRooms' = [lastRooms EXCEPT ![c][m] = {rooms_of}]
        /\ seen' = [seen EXCEPT ![c] =
              [t \in Topics |-> IF t \in keys THEN Word(t \in rooms_of) ELSE @[t]]]
        /\ tracked' = [tracked EXCEPT ![c] = @ \cup
              {k \in keys : /\ m \in room.subscriptions_by[me]
                            /\ queued[c][k] = "none"}]
        /\ UNCHANGED <<shared, task, queued, lastPresence, raced, gate>>
----------------------------------------------------------------------------
(* Disconnecting *)

\* Mutated form of unregister: the room is tested before the entry is removed.
unregisterTestingFirst(c) ==
    LET p == PeerOf[c]
        room_emptied == ~Open(KeyOf(c))
    IN  /\ pc[c] = "route"
        /\ live' = live \ {c}
        /\ offl' = [offl EXCEPT ![c] = FALSE]
        /\ Goto(c, IF room_emptied THEN "ended" ELSE "unrooms")
        /\ queued' = [queued EXCEPT ![c] = Silence]
        /\ seen' = [seen EXCEPT ![c] = Silence]
        /\ lastPresence' = [lastPresence EXCEPT ![c] = NoReply]
        /\ lastRooms' = [lastRooms EXCEPT ![c] = [m \in Peers |-> {}]]
        /\ tracked' = [tracked EXCEPT ![c] = {}]
        /\ UNCHANGED <<pres, room, requested, allow, advert, todo, arg,
                       raced, overtaken, late, declined>>

\* unregister: the critical section on `senders`; the channel is gone.
unregister(c) ==
    LET p == PeerOf[c]
        rest == live \ {c}
        room_emptied == \A d \in rest : KeyOf(d) # KeyOf(c)
        peer_offlined == \A d \in rest : PeerOf[d] # p
    IN  /\ pc[c] = "route"
        /\ live' = rest
        /\ offl' = [offl EXCEPT ![c] = peer_offlined]
        /\ Goto(c, IF room_emptied THEN "ended" ELSE "unrooms")
        /\ raced' = raced \cup Overlaps(p, peer_offlined, KeyOf(c), room_emptied)
        /\ queued' = [queued EXCEPT ![c] = Silence]
        /\ seen' = [seen EXCEPT ![c] = Silence]
        /\ lastPresence' = [lastPresence EXCEPT ![c] = NoReply]
        /\ lastRooms' = [lastRooms EXCEPT ![c] = [m \in Peers |-> {}]]
        /\ tracked' = [tracked EXCEPT ![c] = {}]
        /\ UNCHANGED <<pres, room, requested, allow, advert, todo, arg,
                       overtaken, late, declined>>

\* record_offline: a new since_ts, so a cached "offline" reply no longer matches.
RecordOffline(c) ==
    LET p == PeerOf[c]
        outdated(r) == p \in DOMAIN r /\ r[p] = "down"
    IN  /\ pc[c] = "record"
        /\ lastPresence' = [d \in Conns |-> IF outdated(lastPresence[d])
                                            THEN NoReply ELSE lastPresence[d]]
        /\ Goto(c, "unpresence")
        /\ UNCHANGED <<shared, todo, arg, offl, queued, seen, lastRooms, history>>

\* presence.unsubscribe_all, only when the whole peer was gone.
DropPresence(c) ==
    LET pg == unsubscribe_all(pres, PeerOf[c])
    IN  /\ pc[c] = "unpresence"
        /\ pres' = pg
        /\ Goto(c, "unrooms")
        /\ tracked' = [d \in Conns |-> Followed(d, pg, room)]
        /\ UNCHANGED <<live, room, requested, allow, advert, todo, arg, offl,
                       frames, raced, gate>>

\* Mutated form of DropRooms: the recorded request outlives the connection.
DropRoomsKeepingRequest(c) ==
    LET rg == unsubscribe_all(room, PeerOf[c])
    IN  /\ pc[c] = "unrooms"
        /\ room' = rg
        /\ Goto(c, "unadvertise")
        /\ tracked' = [d \in Conns |-> Followed(d, pres, rg)]
        /\ UNCHANGED <<live, pres, requested, allow, advert, todo, arg, offl,
                       frames, raced, gate>>

\* rooms.unsubscribe_all, whether or not other connections of the peer remain.
DropRooms(c) ==
    LET me == PeerOf[c]
        rg == unsubscribe_all(room, me)
    IN  /\ pc[c] = "unrooms"
        /\ room' = rg
        /\ requested' = [requested EXCEPT ![me] = {}]
        /\ Goto(c, "unadvertise")
        /\ tracked' = [d \in Conns |-> Followed(d, pres, rg)]
        /\ overtaken' = OvertakeAll(me)
        /\ late' = {l \in late : l[1] # me}
        /\ UNCHANGED <<live, pres, allow, advert, todo, arg, offl, frames,
                       raced, declined>>

\* Mutated form of Unadvertise: no remove when the whole peer is gone.
UnadvertiseUnlessOffline(c) ==
    /\ pc[c] = "unadvertise"
    /\ advert' = IF offl[c] THEN advert ELSE advert \ {KeyOf(c)}
    /\ offl' = [offl EXCEPT ![c] = FALSE]
    /\ Goto(c, "new")
    /\ UNCHANGED <<live, pres, room, requested, allow, todo, arg, frames,
                   history>>

\* broadcast_update("remove"), again unconditional; the slot is free.
Unadvertise(c) ==
    /\ pc[c] = "unadvertise"
    /\ advert' = advert \ {KeyOf(c)}
    /\ offl' = [offl EXCEPT ![c] = FALSE]
    /\ Goto(c, "new")
    /\ UNCHANGED <<live, pres, room, requested, allow, todo, arg, frames,
                   history>>

Connect(c) ==
    \/ register(c)
    \/ ReadRoomSubscribers(c)
    \/ \E s \in Peers : PushRoom(c, s)
    \/ ReadPresenceSubscribers(c)
    \/ \E s \in Peers : PushPresence(c, s)
    \/ Advertise(c)

PresenceFrame(c) ==
    \/ \E ps \in PresenceLists[PeerOf[c]] :
           \/ subscribe_presence(c, ps)
           \/ unsubscribe_presence(c, ps)
           \/ presence_check(c, ps)
    \/ \E t \in Peers : BackfillCheck(c, t) \/ BackfillSend(c, t)

RoomFrame(c) ==
    \/ \E ps \in RoomLists[PeerOf[c]] :
           \/ subscribe_rooms(c, ps)
           \/ unsubscribe_rooms(c, ps)
    \/ FilterAllowed(c)
    \/ SubscribeAllowed(c)
    \/ \E owners \in AllowLists[PeerOf[c]] : pairing_set(c, owners)
    \/ Reconcile(c)
    \/ \E m \in RoomChecks[PeerOf[c]] : rooms_check(c, m)
    \/ room_meta_update(c)

Disconnect(c) ==
    \/ unregister(c)
    \/ RecordOffline(c)
    \/ DropPresence(c)
    \/ DropRooms(c)
    \/ Unadvertise(c)

Next ==
    \E c \in Conns : \/ Connect(c)
                     \/ \E t \in Topics : Deliver(c, t)
                     \/ PresenceFrame(c)
                     \/ RoomFrame(c)
                     \/ Disconnect(c)

Spec == Init /\ [][Next]_vars
----------------------------------------------------------------------------
(* Properties *)

\* No task is inside a handler and every channel is empty.
Quiescent ==
    /\ \A c \in Conns : pc[c] \in {"new", "route"}
    /\ \A c \in Conns, t \in Topics : queued[c][t] = "none"

\* Both indexes of both managers are inverse to each other, whatever order the
\* handlers of presence.rs and rooms.rs run in.
IndexesAgree == Mirror(pres) /\ Mirror(room)

\* A connection is in the registry exactly from register to unregister.
LivePoints == {"announce", "announcing", "online", "onlining", "advertise",
               "route", "backfill", "backfillSend", "filter", "subscribe",
               "reconcile"}

RegistryFollowsTasks == \A c \in Conns : c \in live <=> pc[c] \in LivePoints

\* Whoever still watches something is connected, or one of its tasks is on the
\* way to the unsubscribe_all that will drop it.
WillDropPresence(d) ==
    /\ pc[d] \in {"ended", "ending", "offline", "offlining", "record", "unpresence"}
    /\ offl[d]

WillDropRooms(d) ==
    pc[d] \in {"ended", "ending", "offline", "offlining", "record",
               "unpresence", "unrooms"}

SubscriptionsOwned ==
    \A p \in Peers :
        /\ pres.subscriptions_by[p] # {} =>
              Online(p) \/ \E d \in Conns : PeerOf[d] = p /\ WillDropPresence(d)
        /\ room.subscriptions_by[p] # {} \/ requested[p] # {} =>
              Online(p) \/ \E d \in Conns : PeerOf[d] = p /\ WillDropRooms(d)

\* A key stays advertised only while a connection has it open, or while one of
\* its tasks is on the way to the remove.
WillUnadvertise(d) == WillDropRooms(d) \/ pc[d] = "unadvertise"

AdvertOwned ==
    \A k \in advert : Open(k) \/ \E d \in Conns : KeyOf(d) = k /\ WillUnadvertise(d)

\* What an owner's task carries about a machine is what was recorded and, past
\* the filter, what the machine allows, unless it has been overtaken; with neither
\* a request nor a push under way the subscriptions are right, unless they were
\* last decided on overtaken grounds.
Pushing(m) == \E c \in Conns : PeerOf[c] = m /\ pc[c] = "reconcile"
Gated(o, m) == m \in requested[o] /\ o \in allow[m]

CarriesRequest ==
    \A o, m \in Peers : \A c \in Asking(o) : m \notin overtaken[c] =>
        (m \in arg[c] <=> IF pc[c] = "filter" THEN m \in requested[o] ELSE Gated(o, m))

GateOrdered ==
    \A o, m \in Peers :
        ~Pushing(m) /\ Asking(o) = {} /\ <<o, m>> \notin late \cup declined
            => (o \in room.subscribers_of[m] <=> Gated(o, m))

\* A task on its way to tell that t is up, or down: from the registry change, or
\* a backfill's check, to the last push.
Rising(d, t) ==
    \/ t = PeerOf[d] /\ offl[d] /\ pc[d] \in {"announce", "announcing", "online", "onlining"}
    \/ t = KeyOf(d) /\ pc[d] \in {"announce", "announcing"}
    \/ t \in arg[d] /\ pc[d] = "backfillSend"

Falling(d, t) ==
    \/ t = PeerOf[d] /\ offl[d] /\ pc[d] \in {"ended", "ending", "offline", "offlining"}
    \/ t = KeyOf(d) /\ pc[d] \in {"ended", "ending"}

\* It still has to tell a subscriber s of t.
RisingTo(d, s, t) ==
    \/ /\ t = PeerOf[d] /\ offl[d]
       /\ \/ pc[d] \in {"announce", "announcing", "online"}
          \/ pc[d] = "onlining" /\ s \in todo[d]
    \/ /\ t = KeyOf(d)
       /\ \/ pc[d] = "announce"
          \/ pc[d] = "announcing" /\ s \in todo[d]
    \/ s = PeerOf[d] /\ t \in todo[d] /\ pc[d] \in {"backfill", "backfillSend"}
    \/ s = PeerOf[d] /\ t \in arg[d] /\ pc[d] = "backfillSend"

FallingTo(d, s, t) ==
    \/ /\ t = PeerOf[d] /\ offl[d]
       /\ \/ pc[d] \in {"ended", "ending", "offline"}
          \/ pc[d] = "offlining" /\ s \in todo[d]
    \/ /\ t = KeyOf(d)
       /\ \/ pc[d] = "ended"
          \/ pc[d] = "ending" /\ s \in todo[d]

\* What c's client believes of t once its channel is drained.
Belief(c, t) == IF queued[c][t] = "none" THEN seen[c][t] ELSE queued[c][t]
Truth(t) == IF t \in Peers THEN Online(t) ELSE Open(t)
Watches(s, t) == IF t \in Peers THEN t \in pres.subscriptions_by[s]
                                ELSE t[1] \in room.subscriptions_by[s]

PresencePoints == {"online", "onlining", "offline", "offlining"}

\* No task carries an overtaken word about a topic whose transitions did not
\* overlap; a backfill carries one topic at a time; only a task whose peer came
\* or went tells so.
OneWay ==
    \A d \in Conns :
        /\ \A t \in Topics \ raced : /\ Rising(d, t) => Truth(t)
                                     /\ Falling(d, t) => ~Truth(t)
        /\ pc[d] = "backfillSend" => \A x, y \in arg[d] : x = y
        /\ pc[d] \in PresencePoints => offl[d]

Informed(c, t) ==
    IF Truth(t)
    THEN Belief(c, t) = "up" \/ \E d \in Conns : RisingTo(d, PeerOf[c], t)
    ELSE Belief(c, t) # "up" \/ \E d \in Conns : FallingTo(d, PeerOf[c], t)

\* A client that follows a topic believes the truth or will be told.
ToldOrWillBe ==
    \A c \in Conns : \A t \in tracked[c] :
        /\ c \in live /\ Watches(PeerOf[c], t)
        /\ t \notin raced => Informed(c, t)

\* The inductive invariant of the hub.
HubInv ==
    /\ TypeOK
    /\ IndexesAgree
    /\ RegistryFollowsTasks
    /\ SubscriptionsOwned
    /\ AdvertOwned
    /\ CarriesRequest
    /\ GateOrdered
    /\ OneWay
    /\ ToldOrWillBe

\* "called on disconnect to prevent leaks" (presence.rs:71, rooms.rs:145): once
\* the handlers are done, a peer without connections watches nothing.
NoLeakedSubscription ==
    Quiescent => \A p \in Peers :
        ~Online(p) => /\ pres.subscriptions_by[p] = {}
                      /\ room.subscriptions_by[p] = {}
                      /\ requested[p] = {}

\* What a client was told about a topic it has followed without a gap.
ToldRight(c, t) ==
    (seen[c][t] = "up") <=> (IF t \in Peers THEN Online(t) ELSE Open(t))

\* Once things settle, a client that follows a peer or a room believes what the
\* registry says: no push is lost between subscribe, backfill and register.
\* Excepted are topics two of whose transitions were announced concurrently.
SettledViewRight ==
    Quiescent => \A c \in live : \A t \in tracked[c] \ raced : ToldRight(c, t)

\* peer_offline is announced "never wrongly while a real conn is alive"
\* (registry.rs:48): nobody is left believing that a connected peer is gone.
OfflineNeverWrong ==
    Quiescent => \A c \in live : \A t \in tracked[c] \cap Peers :
        Online(t) => seen[c][t] # "down"

\* Who gets a machine's room events is those who asked and are allowed, whichever
\* came first.  A decision may be wrong only if the request was overtaken, between
\* its locks, by a change of the machine's list or by another device of its owner,
\* or the push by a newer push; the next request of the owner, or the next push of
\* the machine, puts it right.  What unsubscribe_rooms dropped is off the list.
RoomsSettle ==
    Quiescent => \A o, m \in Peers : <<o, m>> \notin late \cup declined =>
        (o \in room.subscribers_of[m] <=> m \in requested[o] /\ o \in allow[m])

\* "a subscribe-before-pairing is honored the instant the allow-list grants it, and
\* a revoked owner is dropped - order-independent proactive push" (rooms.rs:174):
\* the same with no exception for requests and pushes that overlap.
RoomsOrderIndependent ==
    Quiescent => \A o, m \in Peers : <<o, m>> \notin declined =>
        (o \in room.subscribers_of[m] <=> m \in requested[o] /\ o \in allow[m])

\* The request is recorded "so a later pairing_set that grants a machine re-derives
\* the subscription without a reconnect" (peer.rs:334): it stays recorded while a
\* connected client follows the machine's rooms, until a client of that owner makes
\* another request.
\* The code does not keep it: README.md, "Claims the code does not keep".
FollowedRequestKept ==
    [][\A c \in live', k \in Keys :
          k \in tracked[c] /\ k[1] \in requested[PeerOf[c]] \ requested'[PeerOf[c]] =>
              \E d \in Asking(PeerOf[c])' : pc[d] = "route"]_vars

\* subscribers_of[X] is the "set of peer_ids that want push when X
\* connects/disconnects" (presence.rs:8): a connected client goes on following a
\* peer until a client of its key sends another presence list.
\* The code does not keep it: README.md, "Claims the code does not keep".
FollowedPeersKept ==
    [][\A c \in live', t \in Peers :
          t \in tracked[c] \ tracked'[c] =>
              \E d \in live : PeerOf[d] = PeerOf[c] /\ pc[d] = "route"]_vars

\* "notify federated peer relays that this session is gone" (peer.rs:887): a room
\* that still has a connection stays advertised to them.
\* The code does not keep it: README.md, "Claims the code does not keep".
OpenRoomsAdvertised ==
    Quiescent => \A c \in live : KeyOf(c) \in advert

\* A room with no connection is not left advertised to peered relays, however
\* the adds and removes of its connections interleave.
NoDeadAdvert ==
    Quiescent => \A k \in advert : Open(k)
============================================================================
