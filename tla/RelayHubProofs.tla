-------------------------- MODULE RelayHubProofs ---------------------------
(***************************************************************************)
(* For every set of peers, connections and frames: the two-way             *)
(* subscription indexes of the relay stay inverse to each other, nothing   *)
(* leaks, room events go to those who asked and are allowed, clients end   *)
(* up believing the registry, and no dead room stays advertised.           *)
(***************************************************************************)
EXTENDS RelayHub, TLAPS

\* subscribe keeps a graph a graph and its two indexes inverse.
LEMMA SubscribeKeeps ==
    ASSUME NEW g \in Graphs, NEW s \in Peers, NEW ps \in SUBSET Peers
    PROVE  /\ subscribe(g, s, ps) \in Graphs
           /\ Mirror(g) => Mirror(subscribe(g, s, ps))
<1>1. subscribe(g, s, ps) \in Graphs
  BY DEF Graphs, subscribe
<1>2. Mirror(g) => Mirror(subscribe(g, s, ps))
  BY DEF Graphs, subscribe, Mirror
<1>q. QED
  BY <1>1, <1>2

\* unsubscribe keeps a graph a graph and its two indexes inverse.
LEMMA UnsubscribeKeeps ==
    ASSUME NEW g \in Graphs, NEW s \in Peers, NEW ps \in SUBSET Peers
    PROVE  /\ unsubscribe(g, s, ps) \in Graphs
           /\ Mirror(g) => Mirror(unsubscribe(g, s, ps))
<1>1. unsubscribe(g, s, ps) \in Graphs
  BY DEF Graphs, unsubscribe
<1>2. Mirror(g) => Mirror(unsubscribe(g, s, ps))
  BY DEF Graphs, unsubscribe, Mirror
<1>q. QED
  BY <1>1, <1>2

\* unsubscribe_all keeps a graph a graph and its two indexes inverse; it visits
\* only what the reverse index names, so it needs the indexes to agree.
LEMMA UnsubscribeAllKeeps ==
    ASSUME NEW g \in Graphs, NEW s \in Peers
    PROVE  /\ unsubscribe_all(g, s) \in Graphs
           /\ Mirror(g) => Mirror(unsubscribe_all(g, s))
<1>1. unsubscribe_all(g, s) \in Graphs
  BY DEF Graphs, unsubscribe_all
<1>2. Mirror(g) => Mirror(unsubscribe_all(g, s))
  BY DEF Graphs, unsubscribe_all, Mirror
<1>q. QED
  BY <1>1, <1>2

\* reconcile_subscribers keeps a graph a graph and its two indexes inverse.
LEMMA ReconcileKeeps ==
    ASSUME NEW g \in Graphs, NEW m \in Peers, NEW desired \in SUBSET Peers
    PROVE  /\ reconcile_subscribers(g, m, desired) \in Graphs
           /\ Mirror(g) => Mirror(reconcile_subscribers(g, m, desired))
<1>1. reconcile_subscribers(g, m, desired) \in Graphs
  BY DEF Graphs, reconcile_subscribers
<1>2. Mirror(g) => Mirror(reconcile_subscribers(g, m, desired))
  BY DEF Graphs, reconcile_subscribers, Mirror
<1>q. QED
  BY <1>1, <1>2

\* Every critical section keeps the types of the shared maps.
LEMMA NextShared == SharedOK /\ TaskOK /\ [Next]_vars => SharedOK'
<1> SUFFICES ASSUME SharedOK, TaskOK, [Next]_vars PROVE SharedOK'
  OBVIOUS
<1> USE HubConstants DEF SharedOK, TaskOK, Keys, KeyOf
<1>1. ASSUME NEW c \in Conns, register(c) PROVE SharedOK'
  BY <1>1 DEF register, shared
<1>2. ASSUME NEW c \in Conns, ReadRoomSubscribers(c) PROVE SharedOK'
  BY <1>2 DEF ReadRoomSubscribers, shared
<1>3. ASSUME NEW c \in Conns, NEW s \in Peers, PushRoom(c, s) PROVE SharedOK'
  BY <1>3 DEF PushRoom, shared
<1>4. ASSUME NEW c \in Conns, ReadPresenceSubscribers(c) PROVE SharedOK'
  BY <1>4 DEF ReadPresenceSubscribers, shared
<1>5. ASSUME NEW c \in Conns, NEW s \in Peers, PushPresence(c, s)
    PROVE SharedOK'
  BY <1>5 DEF PushPresence, shared
<1>6. ASSUME NEW c \in Conns, Advertise(c) PROVE SharedOK'
  BY <1>6 DEF Advertise, shared
<1>7. ASSUME NEW c \in Conns, NEW t \in Topics, Deliver(c, t) PROVE SharedOK'
  BY <1>7 DEF Deliver, shared
<1>8. ASSUME NEW c \in Conns, NEW ps \in SUBSET Peers, subscribe_presence(c, ps)
    PROVE SharedOK'
  BY <1>8, SubscribeKeeps DEF subscribe_presence, shared
<1>9. ASSUME NEW c \in Conns, NEW t \in Peers, BackfillCheck(c, t)
    PROVE SharedOK'
  BY <1>9 DEF BackfillCheck, shared
<1>10. ASSUME NEW c \in Conns, NEW t \in Peers, BackfillSend(c, t)
    PROVE SharedOK'
  BY <1>10 DEF BackfillSend, shared
<1>11. ASSUME NEW c \in Conns, NEW ps \in SUBSET Peers, unsubscribe_presence(c, ps)
    PROVE SharedOK'
  BY <1>11, UnsubscribeKeeps DEF unsubscribe_presence, shared
<1>12. ASSUME NEW c \in Conns, NEW ps \in SUBSET Peers, presence_check(c, ps)
    PROVE SharedOK'
  BY <1>12 DEF presence_check, shared
<1>13. ASSUME NEW c \in Conns, NEW ps \in SUBSET Peers, subscribe_rooms(c, ps)
    PROVE SharedOK'
  BY <1>13 DEF subscribe_rooms, shared
<1>14. ASSUME NEW c \in Conns, FilterAllowed(c) PROVE SharedOK'
  BY <1>14 DEF FilterAllowed, shared
<1>15. ASSUME NEW c \in Conns, SubscribeAllowed(c) PROVE SharedOK'
  BY <1>15, SubscribeKeeps DEF SubscribeAllowed, shared
<1>16. ASSUME NEW c \in Conns, NEW owners \in SUBSET Peers, pairing_set(c, owners)
    PROVE SharedOK'
  BY <1>16 DEF pairing_set, shared
<1>17. ASSUME NEW c \in Conns, Reconcile(c) PROVE SharedOK'
  BY <1>17, ReconcileKeeps DEF Reconcile, shared
<1>18. ASSUME NEW c \in Conns, NEW ps \in SUBSET Peers, unsubscribe_rooms(c, ps)
    PROVE SharedOK'
  BY <1>18, UnsubscribeKeeps DEF unsubscribe_rooms, shared
<1>19. ASSUME NEW c \in Conns, NEW m \in Peers, rooms_check(c, m)
    PROVE SharedOK'
  BY <1>19 DEF rooms_check, shared
<1>20. ASSUME NEW c \in Conns, unregister(c) PROVE SharedOK'
  BY <1>20 DEF unregister, shared
<1>21. ASSUME NEW c \in Conns, RecordOffline(c) PROVE SharedOK'
  BY <1>21 DEF RecordOffline, shared
<1>22. ASSUME NEW c \in Conns, DropPresence(c) PROVE SharedOK'
  BY <1>22, UnsubscribeAllKeeps DEF DropPresence, shared
<1>23. ASSUME NEW c \in Conns, DropRooms(c) PROVE SharedOK'
  BY <1>23, UnsubscribeAllKeeps DEF DropRooms, shared
<1>24. ASSUME NEW c \in Conns, Unadvertise(c) PROVE SharedOK'
  BY <1>24 DEF Unadvertise, shared
<1>26. ASSUME NEW c \in Conns, room_meta_update(c) PROVE SharedOK'
  BY <1>26 DEF room_meta_update, shared
<1>25. CASE UNCHANGED vars
  BY <1>25 DEF vars, shared, task, frames, history
<1> HIDE DEF SharedOK, TaskOK, Keys, KeyOf
<1>q. QED
  BY <1>1, <1>2, <1>3, <1>4, <1>5, <1>6, <1>7, <1>8, <1>9, <1>10, <1>11, <1>12, <1>13,
     <1>14, <1>15, <1>16, <1>17, <1>18, <1>19, <1>20, <1>21, <1>22, <1>23, <1>24, <1>25, <1>26
     DEF Next, Connect, PresenceFrame, RoomFrame, Disconnect

\* Every critical section keeps both pairs of indexes inverse.
LEMMA NextIndexes == SharedOK /\ TaskOK /\ IndexesAgree /\ [Next]_vars => IndexesAgree'
<1> SUFFICES ASSUME SharedOK, TaskOK, IndexesAgree, [Next]_vars PROVE IndexesAgree'
  OBVIOUS
<1> USE HubConstants DEF SharedOK, TaskOK, IndexesAgree
<1>1. ASSUME NEW c \in Conns, register(c) PROVE IndexesAgree'
  BY <1>1 DEF register, shared
<1>2. ASSUME NEW c \in Conns, ReadRoomSubscribers(c) PROVE IndexesAgree'
  BY <1>2 DEF ReadRoomSubscribers, shared
<1>3. ASSUME NEW c \in Conns, NEW s \in Peers, PushRoom(c, s)
    PROVE IndexesAgree'
  BY <1>3 DEF PushRoom, shared
<1>4. ASSUME NEW c \in Conns, ReadPresenceSubscribers(c) PROVE IndexesAgree'
  BY <1>4 DEF ReadPresenceSubscribers, shared
<1>5. ASSUME NEW c \in Conns, NEW s \in Peers, PushPresence(c, s)
    PROVE IndexesAgree'
  BY <1>5 DEF PushPresence, shared
<1>6. ASSUME NEW c \in Conns, Advertise(c) PROVE IndexesAgree'
  BY <1>6 DEF Advertise, shared
<1>7. ASSUME NEW c \in Conns, NEW t \in Topics, Deliver(c, t)
    PROVE IndexesAgree'
  BY <1>7 DEF Deliver, shared
<1>8. ASSUME NEW c \in Conns, NEW ps \in SUBSET Peers, subscribe_presence(c, ps)
    PROVE IndexesAgree'
  BY <1>8, SubscribeKeeps DEF subscribe_presence, shared
<1>9. ASSUME NEW c \in Conns, NEW t \in Peers, BackfillCheck(c, t)
    PROVE IndexesAgree'
  BY <1>9 DEF BackfillCheck, shared
<1>10. ASSUME NEW c \in Conns, NEW t \in Peers, BackfillSend(c, t)
    PROVE IndexesAgree'
  BY <1>10 DEF BackfillSend, shared
<1>11. ASSUME NEW c \in Conns, NEW ps \in SUBSET Peers, unsubscribe_presence(c, ps)
    PROVE IndexesAgree'
  BY <1>11, UnsubscribeKeeps DEF unsubscribe_presence, shared
<1>12. ASSUME NEW c \in Conns, NEW ps \in SUBSET Peers, presence_check(c, ps)
    PROVE IndexesAgree'
  BY <1>12 DEF presence_check, shared
<1>13. ASSUME NEW c \in Conns, NEW ps \in SUBSET Peers, subscribe_rooms(c, ps)
    PROVE IndexesAgree'
  BY <1>13 DEF subscribe_rooms, shared
<1>14. ASSUME NEW c \in Conns, FilterAllowed(c) PROVE IndexesAgree'
  BY <1>14 DEF FilterAllowed, shared
<1>15. ASSUME NEW c \in Conns, SubscribeAllowed(c) PROVE IndexesAgree'
  BY <1>15, SubscribeKeeps DEF SubscribeAllowed, shared
<1>16. ASSUME NEW c \in Conns, NEW owners \in SUBSET Peers, pairing_set(c, owners)
    PROVE IndexesAgree'
  BY <1>16 DEF pairing_set, shared
<1>17. ASSUME NEW c \in Conns, Reconcile(c) PROVE IndexesAgree'
  BY <1>17, ReconcileKeeps DEF Reconcile, shared
<1>18. ASSUME NEW c \in Conns, NEW ps \in SUBSET Peers, unsubscribe_rooms(c, ps)
    PROVE IndexesAgree'
  BY <1>18, UnsubscribeKeeps DEF unsubscribe_rooms, shared
<1>19. ASSUME NEW c \in Conns, NEW m \in Peers, rooms_check(c, m)
    PROVE IndexesAgree'
  BY <1>19 DEF rooms_check, shared
<1>20. ASSUME NEW c \in Conns, unregister(c) PROVE IndexesAgree'
  BY <1>20 DEF unregister, shared
<1>21. ASSUME NEW c \in Conns, RecordOffline(c) PROVE IndexesAgree'
  BY <1>21 DEF RecordOffline, shared
<1>22. ASSUME NEW c \in Conns, DropPresence(c) PROVE IndexesAgree'
  BY <1>22, UnsubscribeAllKeeps DEF DropPresence, shared
<1>23. ASSUME NEW c \in Conns, DropRooms(c) PROVE IndexesAgree'
  BY <1>23, UnsubscribeAllKeeps DEF DropRooms, shared
<1>24. ASSUME NEW c \in Conns, Unadvertise(c) PROVE IndexesAgree'
  BY <1>24 DEF Unadvertise, shared
<1>26. ASSUME NEW c \in Conns, room_meta_update(c) PROVE IndexesAgree'
  BY <1>26 DEF room_meta_update, shared
<1>25. CASE UNCHANGED vars
  BY <1>25 DEF vars, shared, task, frames, history
<1> HIDE DEF SharedOK, TaskOK, IndexesAgree
<1>q. QED
  BY <1>1, <1>2, <1>3, <1>4, <1>5, <1>6, <1>7, <1>8, <1>9, <1>10, <1>11, <1>12, <1>13,
     <1>14, <1>15, <1>16, <1>17, <1>18, <1>19, <1>20, <1>21, <1>22, <1>23, <1>24, <1>25, <1>26
     DEF Next, Connect, PresenceFrame, RoomFrame, Disconnect

\* Every step keeps the types of the task-local state.
LEMMA NextTask == SharedOK /\ TaskOK /\ [Next]_vars => TaskOK'
<1> SUFFICES ASSUME SharedOK, TaskOK, [Next]_vars PROVE TaskOK'
  OBVIOUS
<1> USE HubConstants DEF SharedOK, TaskOK, Points, Graphs
<1>1. ASSUME NEW c \in Conns, register(c) PROVE TaskOK'
  BY <1>1 DEF register, task, shared, Goto
<1>2. ASSUME NEW c \in Conns, ReadRoomSubscribers(c) PROVE TaskOK'
  BY <1>2 DEF ReadRoomSubscribers, task, shared, Goto, AfterRoomPushes
<1>3. ASSUME NEW c \in Conns, NEW s \in Peers, PushRoom(c, s) PROVE TaskOK'
  BY <1>3 DEF PushRoom, task, shared, Goto, AfterRoomPushes
<1>4. ASSUME NEW c \in Conns, ReadPresenceSubscribers(c) PROVE TaskOK'
  BY <1>4 DEF ReadPresenceSubscribers, task, shared, Goto, AfterPresencePushes
<1>5. ASSUME NEW c \in Conns, NEW s \in Peers, PushPresence(c, s) PROVE TaskOK'
  BY <1>5 DEF PushPresence, task, shared, Goto, AfterPresencePushes
<1>6. ASSUME NEW c \in Conns, Advertise(c) PROVE TaskOK'
  BY <1>6 DEF Advertise, task, shared, Goto
<1>7. ASSUME NEW c \in Conns, NEW t \in Topics, Deliver(c, t) PROVE TaskOK'
  BY <1>7 DEF Deliver, task, shared, Goto
<1>8. ASSUME NEW c \in Conns, NEW ps \in SUBSET Peers, subscribe_presence(c, ps)
    PROVE TaskOK'
  BY <1>8 DEF subscribe_presence, task, shared, Goto
<1>9. ASSUME NEW c \in Conns, NEW t \in Peers, BackfillCheck(c, t) PROVE TaskOK'
  BY <1>9 DEF BackfillCheck, task, shared, Goto
<1>10. ASSUME NEW c \in Conns, NEW t \in Peers, BackfillSend(c, t) PROVE TaskOK'
  BY <1>10 DEF BackfillSend, task, shared, Goto
<1>11. ASSUME NEW c \in Conns, NEW ps \in SUBSET Peers, unsubscribe_presence(c, ps)
    PROVE TaskOK'
  BY <1>11 DEF unsubscribe_presence, task, shared, Goto
<1>12. ASSUME NEW c \in Conns, NEW ps \in SUBSET Peers, presence_check(c, ps)
    PROVE TaskOK'
  BY <1>12 DEF presence_check, task, shared, Goto
<1>13. ASSUME NEW c \in Conns, NEW ps \in SUBSET Peers, subscribe_rooms(c, ps)
    PROVE TaskOK'
  BY <1>13 DEF subscribe_rooms, task, shared, Goto
<1>14. ASSUME NEW c \in Conns, FilterAllowed(c) PROVE TaskOK'
  BY <1>14 DEF FilterAllowed, task, shared, Goto
<1>15. ASSUME NEW c \in Conns, SubscribeAllowed(c) PROVE TaskOK'
  BY <1>15 DEF SubscribeAllowed, task, shared, Goto
<1>16. ASSUME NEW c \in Conns, NEW owners \in SUBSET Peers, pairing_set(c, owners)
    PROVE TaskOK'
  BY <1>16 DEF pairing_set, task, shared, Goto
<1>17. ASSUME NEW c \in Conns, Reconcile(c) PROVE TaskOK'
  BY <1>17 DEF Reconcile, task, shared, Goto
<1>18. ASSUME NEW c \in Conns, NEW ps \in SUBSET Peers, unsubscribe_rooms(c, ps)
    PROVE TaskOK'
  BY <1>18 DEF unsubscribe_rooms, task, shared, Goto
<1>19. ASSUME NEW c \in Conns, NEW m \in Peers, rooms_check(c, m) PROVE TaskOK'
  BY <1>19 DEF rooms_check, task, shared, Goto
<1>20. ASSUME NEW c \in Conns, unregister(c) PROVE TaskOK'
  BY <1>20 DEF unregister, task, shared, Goto
<1>21. ASSUME NEW c \in Conns, RecordOffline(c) PROVE TaskOK'
  BY <1>21 DEF RecordOffline, task, shared, Goto
<1>22. ASSUME NEW c \in Conns, DropPresence(c) PROVE TaskOK'
  BY <1>22 DEF DropPresence, task, shared, Goto
<1>23. ASSUME NEW c \in Conns, DropRooms(c) PROVE TaskOK'
  BY <1>23 DEF DropRooms, task, shared, Goto
<1>24. ASSUME NEW c \in Conns, Unadvertise(c) PROVE TaskOK'
  BY <1>24 DEF Unadvertise, task, shared, Goto
<1>26. ASSUME NEW c \in Conns, room_meta_update(c) PROVE TaskOK'
  BY <1>26 DEF room_meta_update, task, shared, Goto
<1>25. CASE UNCHANGED vars
  BY <1>25 DEF vars, shared, task, frames, history
<1> HIDE DEF SharedOK, TaskOK, Points, Graphs
<1>q. QED
  BY <1>1, <1>2, <1>3, <1>4, <1>5, <1>6, <1>7, <1>8, <1>9, <1>10, <1>11, <1>12, <1>13,
     <1>14, <1>15, <1>16, <1>17, <1>18, <1>19, <1>20, <1>21, <1>22, <1>23, <1>24, <1>25, <1>26
     DEF Next, Connect, PresenceFrame, RoomFrame, Disconnect

\* What a push can be about: the peer and the key of every connection.
LEMMA TopicFacts ==
    /\ \A c \in Conns : PeerOf[c] \in Topics /\ KeyOf(c) \in Topics
    /\ Peers \subseteq Topics
    /\ Silence \in [Topics -> Words]
BY HubConstants DEF Topics, Keys, Silence, Words

\* A word for each peer of a list is a presence reply; so is no reply at all.
LEMMA ReplyFacts ==
    /\ \A ps \in SUBSET Peers : \A r \in [ps -> Words] : r \in PresenceReplies
    /\ NoReply \in PresenceReplies
<1>1. \A ps \in SUBSET Peers : \A r \in [ps -> Words] : r \in PresenceReplies
  BY DEF PresenceReplies
<1>2. NoReply \in [{} -> Words] /\ {} \in SUBSET Peers
  BY DEF NoReply
<1>q. QED
  BY <1>1, <1>2

\* Every step keeps the types of channels, clients and reply caches.
LEMMA NextFrames == SharedOK /\ TaskOK /\ FramesOK /\ [Next]_vars => FramesOK'
<1> SUFFICES ASSUME SharedOK, TaskOK, FramesOK, [Next]_vars PROVE FramesOK'
  OBVIOUS
<1> USE HubConstants DEF SharedOK, TaskOK, FramesOK
<1>1. ASSUME NEW c \in Conns, register(c) PROVE FramesOK'
  BY <1>1 DEF register, frames
<1>2. ASSUME NEW c \in Conns, ReadRoomSubscribers(c) PROVE FramesOK'
  BY <1>2 DEF ReadRoomSubscribers, frames
<1>3. ASSUME NEW c \in Conns, NEW s \in Peers, PushRoom(c, s) PROVE FramesOK'
  BY <1>3, TopicFacts DEF PushRoom, frames, forward_to_all_rooms_of, Word, Words
<1>4. ASSUME NEW c \in Conns, ReadPresenceSubscribers(c) PROVE FramesOK'
  BY <1>4 DEF ReadPresenceSubscribers, frames
<1>5. ASSUME NEW c \in Conns, NEW s \in Peers, PushPresence(c, s)
    PROVE FramesOK'
  BY <1>5, TopicFacts DEF PushPresence, frames, forward_to_all_rooms_of, Word, Words
<1>6. ASSUME NEW c \in Conns, Advertise(c) PROVE FramesOK'
  BY <1>6 DEF Advertise, frames
<1>7. ASSUME NEW c \in Conns, NEW t \in Topics, Deliver(c, t) PROVE FramesOK'
  <2>1. queued' \in [Conns -> [Topics -> Words]]
    BY <1>7 DEF Deliver, Words
  <2>2. seen' \in [Conns -> [Topics -> Words]]
    BY <1>7 DEF Deliver
  <2>q. QED
    BY <1>7, <2>1, <2>2 DEF Deliver
<1>8. ASSUME NEW c \in Conns, NEW ps \in SUBSET Peers, subscribe_presence(c, ps)
    PROVE FramesOK'
  BY <1>8 DEF subscribe_presence, frames
<1>9. ASSUME NEW c \in Conns, NEW t \in Peers, BackfillCheck(c, t)
    PROVE FramesOK'
  BY <1>9 DEF BackfillCheck, frames
<1>10. ASSUME NEW c \in Conns, NEW t \in Peers, BackfillSend(c, t)
    PROVE FramesOK'
  BY <1>10, TopicFacts DEF BackfillSend, frames, forward_to_all_rooms_of, Word, Words
<1>11. ASSUME NEW c \in Conns, NEW ps \in SUBSET Peers, unsubscribe_presence(c, ps)
    PROVE FramesOK'
  BY <1>11 DEF unsubscribe_presence, frames
<1>12. ASSUME NEW c \in Conns, NEW ps \in SUBSET Peers, presence_check(c, ps)
    PROVE FramesOK'
  <2> DEFINE resp == [t \in ps |-> Word(Online(t))]
  <2>1. resp \in [ps -> Words]
    BY DEF Word, Words
  <2>a. resp \in PresenceReplies
    BY <2>1, ReplyFacts
  <2>b. lastPresence' = [lastPresence EXCEPT ![c] = resp]
    BY <1>12 DEF presence_check
  <2>2. lastPresence' \in [Conns -> PresenceReplies]
    <3> HIDE DEF resp
    <3>q. QED
      BY <2>a, <2>b
  <2>3. [t \in Topics |-> IF t \in ps THEN resp[t] ELSE seen[c][t]] \in [Topics -> Words]
    BY <2>1
  <2>4. seen' \in [Conns -> [Topics -> Words]]
    BY <1>12, <2>3 DEF presence_check
  <2>q. QED
    BY <1>12, <2>2, <2>4 DEF presence_check
<1>13. ASSUME NEW c \in Conns, NEW ps \in SUBSET Peers, subscribe_rooms(c, ps)
    PROVE FramesOK'
  BY <1>13 DEF subscribe_rooms, frames
<1>14. ASSUME NEW c \in Conns, FilterAllowed(c) PROVE FramesOK'
  BY <1>14 DEF FilterAllowed, frames
<1>15. ASSUME NEW c \in Conns, SubscribeAllowed(c) PROVE FramesOK'
  BY <1>15 DEF SubscribeAllowed, frames
<1>16. ASSUME NEW c \in Conns, NEW owners \in SUBSET Peers, pairing_set(c, owners)
    PROVE FramesOK'
  BY <1>16 DEF pairing_set, frames
<1>17. ASSUME NEW c \in Conns, Reconcile(c) PROVE FramesOK'
  BY <1>17 DEF Reconcile, frames
<1>18. ASSUME NEW c \in Conns, NEW ps \in SUBSET Peers, unsubscribe_rooms(c, ps)
    PROVE FramesOK'
  BY <1>18 DEF unsubscribe_rooms, frames
<1>19. ASSUME NEW c \in Conns, NEW m \in Peers, rooms_check(c, m)
    PROVE FramesOK'
  <2> DEFINE keys == {k \in Keys : k[1] = m}
             rooms_of == {k \in keys : Open(k)}
  <2>1. lastRooms' \in [Conns -> [Peers -> SUBSET SUBSET Keys]]
    BY <1>19 DEF rooms_check
  <2>2. [t \in Topics |-> IF t \in keys THEN Word(t \in rooms_of) ELSE seen[c][t]]
          \in [Topics -> Words]
    BY DEF Word, Words
  <2>3. seen' \in [Conns -> [Topics -> Words]]
    BY <1>19, <2>2 DEF rooms_check
  <2>q. QED
    BY <1>19, <2>1, <2>3 DEF rooms_check
<1>20. ASSUME NEW c \in Conns, unregister(c) PROVE FramesOK'
  <2>1. /\ queued' \in [Conns -> [Topics -> Words]]
        /\ seen' \in [Conns -> [Topics -> Words]]
    BY <1>20, TopicFacts DEF unregister
  <2>2. lastPresence' \in [Conns -> PresenceReplies]
    BY <1>20, ReplyFacts DEF unregister
  <2>3. lastRooms' \in [Conns -> [Peers -> SUBSET SUBSET Keys]]
    BY <1>20 DEF unregister
  <2>q. QED
    BY <2>1, <2>2, <2>3
<1>21. ASSUME NEW c \in Conns, RecordOffline(c) PROVE FramesOK'
  <2>1. lastPresence' \in [Conns -> PresenceReplies]
    BY <1>21, ReplyFacts DEF RecordOffline
  <2>q. QED
    BY <1>21, <2>1 DEF RecordOffline
<1>22. ASSUME NEW c \in Conns, DropPresence(c) PROVE FramesOK'
  BY <1>22 DEF DropPresence, frames
<1>23. ASSUME NEW c \in Conns, DropRooms(c) PROVE FramesOK'
  BY <1>23 DEF DropRooms, frames
<1>24. ASSUME NEW c \in Conns, Unadvertise(c) PROVE FramesOK'
  BY <1>24 DEF Unadvertise, frames
<1>26. ASSUME NEW c \in Conns, room_meta_update(c) PROVE FramesOK'
  BY <1>26 DEF room_meta_update, frames
<1>25. CASE UNCHANGED vars
  BY <1>25 DEF vars, shared, task, frames, history
<1> HIDE DEF SharedOK, TaskOK, FramesOK
<1>q. QED
  BY <1>1, <1>2, <1>3, <1>4, <1>5, <1>6, <1>7, <1>8, <1>9, <1>10, <1>11, <1>12, <1>13,
     <1>14, <1>15, <1>16, <1>17, <1>18, <1>19, <1>20, <1>21, <1>22, <1>23, <1>24, <1>25, <1>26
     DEF Next, Connect, PresenceFrame, RoomFrame, Disconnect

\* Every step keeps the types of the history variables.
LEMMA NextHistory == SharedOK /\ TaskOK /\ HistoryOK /\ [Next]_vars => HistoryOK'
<1> SUFFICES ASSUME SharedOK, TaskOK, HistoryOK, [Next]_vars PROVE HistoryOK'
  OBVIOUS
<1> USE HubConstants DEF SharedOK, TaskOK, HistoryOK, Topics, Keys, KeyOf
<1>1. ASSUME NEW c \in Conns, register(c) PROVE HistoryOK'
  BY <1>1 DEF register, history, gate, Overlaps
<1>2. ASSUME NEW c \in Conns, ReadRoomSubscribers(c) PROVE HistoryOK'
  BY <1>2 DEF ReadRoomSubscribers, history, gate
<1>3. ASSUME NEW c \in Conns, NEW s \in Peers, PushRoom(c, s) PROVE HistoryOK'
  BY <1>3 DEF PushRoom, history, gate
<1>4. ASSUME NEW c \in Conns, ReadPresenceSubscribers(c) PROVE HistoryOK'
  BY <1>4 DEF ReadPresenceSubscribers, history, gate
<1>5. ASSUME NEW c \in Conns, NEW s \in Peers, PushPresence(c, s)
    PROVE HistoryOK'
  BY <1>5 DEF PushPresence, history, gate
<1>6. ASSUME NEW c \in Conns, Advertise(c) PROVE HistoryOK'
  BY <1>6 DEF Advertise, history, gate
<1>7. ASSUME NEW c \in Conns, NEW t \in Topics, Deliver(c, t) PROVE HistoryOK'
  BY <1>7 DEF Deliver, history, gate
<1>8. ASSUME NEW c \in Conns, NEW ps \in SUBSET Peers, subscribe_presence(c, ps)
    PROVE HistoryOK'
  BY <1>8 DEF subscribe_presence, history, gate, Followed
<1>9. ASSUME NEW c \in Conns, NEW t \in Peers, BackfillCheck(c, t)
    PROVE HistoryOK'
  BY <1>9 DEF BackfillCheck, history, gate
<1>10. ASSUME NEW c \in Conns, NEW t \in Peers, BackfillSend(c, t)
    PROVE HistoryOK'
  BY <1>10 DEF BackfillSend, history, gate
<1>11. ASSUME NEW c \in Conns, NEW ps \in SUBSET Peers, unsubscribe_presence(c, ps)
    PROVE HistoryOK'
  BY <1>11 DEF unsubscribe_presence, history, gate, Followed
<1>12. ASSUME NEW c \in Conns, NEW ps \in SUBSET Peers, presence_check(c, ps)
    PROVE HistoryOK'
  BY <1>12 DEF presence_check, history, gate
<1>13. ASSUME NEW c \in Conns, NEW ps \in SUBSET Peers, subscribe_rooms(c, ps)
    PROVE HistoryOK'
  BY <1>13 DEF subscribe_rooms, history, gate, OvertakeAll
<1>14. ASSUME NEW c \in Conns, FilterAllowed(c) PROVE HistoryOK'
  BY <1>14 DEF FilterAllowed, history, gate
<1>15. ASSUME NEW c \in Conns, SubscribeAllowed(c) PROVE HistoryOK'
  BY <1>15 DEF SubscribeAllowed, history, gate, Followed
<1>16. ASSUME NEW c \in Conns, NEW owners \in SUBSET Peers, pairing_set(c, owners)
    PROVE HistoryOK'
  BY <1>16 DEF pairing_set, history, gate
<1>17. ASSUME NEW c \in Conns, Reconcile(c) PROVE HistoryOK'
  BY <1>17 DEF Reconcile, history, gate, Followed
<1>18. ASSUME NEW c \in Conns, NEW ps \in SUBSET Peers, unsubscribe_rooms(c, ps)
    PROVE HistoryOK'
  BY <1>18 DEF unsubscribe_rooms, history, gate, Followed
<1>19. ASSUME NEW c \in Conns, NEW m \in Peers, rooms_check(c, m)
    PROVE HistoryOK'
  BY <1>19 DEF rooms_check, history, gate
<1>20. ASSUME NEW c \in Conns, unregister(c) PROVE HistoryOK'
  BY <1>20 DEF unregister, history, gate, Overlaps
<1>21. ASSUME NEW c \in Conns, RecordOffline(c) PROVE HistoryOK'
  BY <1>21 DEF RecordOffline, history, gate
<1>22. ASSUME NEW c \in Conns, DropPresence(c) PROVE HistoryOK'
  BY <1>22 DEF DropPresence, history, gate, Followed
<1>23. ASSUME NEW c \in Conns, DropRooms(c) PROVE HistoryOK'
  BY <1>23 DEF DropRooms, history, gate, Followed, OvertakeAll
<1>24. ASSUME NEW c \in Conns, Unadvertise(c) PROVE HistoryOK'
  BY <1>24 DEF Unadvertise, history, gate
<1>26. ASSUME NEW c \in Conns, room_meta_update(c) PROVE HistoryOK'
  BY <1>26 DEF room_meta_update, history, gate
<1>25. CASE UNCHANGED vars
  BY <1>25 DEF vars, shared, task, frames, history, gate
<1> HIDE DEF SharedOK, TaskOK, HistoryOK, Topics, Keys, KeyOf
<1>q. QED
  BY <1>1, <1>2, <1>3, <1>4, <1>5, <1>6, <1>7, <1>8, <1>9, <1>10, <1>11, <1>12, <1>13,
     <1>14, <1>15, <1>16, <1>17, <1>18, <1>19, <1>20, <1>21, <1>22, <1>23, <1>24, <1>25, <1>26
     DEF Next, Connect, PresenceFrame, RoomFrame, Disconnect

\* The registry changes only where a task registers or unregisters.
LEMMA NextRegistry == TaskOK /\ SharedOK /\ RegistryFollowsTasks /\ [Next]_vars => RegistryFollowsTasks'
<1> SUFFICES ASSUME TaskOK, SharedOK, RegistryFollowsTasks, [Next]_vars PROVE RegistryFollowsTasks'
  OBVIOUS
<1> USE HubConstants DEF SharedOK, TaskOK, RegistryFollowsTasks, LivePoints, Points
<1>1. ASSUME NEW c \in Conns, register(c) PROVE RegistryFollowsTasks'
  BY <1>1 DEF register, task, shared, Goto
<1>2. ASSUME NEW c \in Conns, ReadRoomSubscribers(c) PROVE RegistryFollowsTasks'
  BY <1>2 DEF ReadRoomSubscribers, task, shared, Goto, AfterRoomPushes
<1>3. ASSUME NEW c \in Conns, NEW s \in Peers, PushRoom(c, s)
    PROVE RegistryFollowsTasks'
  BY <1>3 DEF PushRoom, task, shared, Goto, AfterRoomPushes
<1>4. ASSUME NEW c \in Conns, ReadPresenceSubscribers(c)
    PROVE RegistryFollowsTasks'
  BY <1>4 DEF ReadPresenceSubscribers, task, shared, Goto, AfterPresencePushes
<1>5. ASSUME NEW c \in Conns, NEW s \in Peers, PushPresence(c, s)
    PROVE RegistryFollowsTasks'
  BY <1>5 DEF PushPresence, task, shared, Goto, AfterPresencePushes
<1>6. ASSUME NEW c \in Conns, Advertise(c) PROVE RegistryFollowsTasks'
  BY <1>6 DEF Advertise, task, shared, Goto
<1>7. ASSUME NEW c \in Conns, NEW t \in Topics, Deliver(c, t)
    PROVE RegistryFollowsTasks'
  BY <1>7 DEF Deliver, task, shared, Goto
<1>8. ASSUME NEW c \in Conns, NEW ps \in SUBSET Peers, subscribe_presence(c, ps)
    PROVE RegistryFollowsTasks'
  BY <1>8 DEF subscribe_presence, task, shared, Goto
<1>9. ASSUME NEW c \in Conns, NEW t \in Peers, BackfillCheck(c, t)
    PROVE RegistryFollowsTasks'
  BY <1>9 DEF BackfillCheck, task, shared, Goto
<1>10. ASSUME NEW c \in Conns, NEW t \in Peers, BackfillSend(c, t)
    PROVE RegistryFollowsTasks'
  BY <1>10 DEF BackfillSend, task, shared, Goto
<1>11. ASSUME NEW c \in Conns, NEW ps \in SUBSET Peers, unsubscribe_presence(c, ps)
    PROVE RegistryFollowsTasks'
  BY <1>11 DEF unsubscribe_presence, task, shared, Goto
<1>12. ASSUME NEW c \in Conns, NEW ps \in SUBSET Peers, presence_check(c, ps)
    PROVE RegistryFollowsTasks'
  BY <1>12 DEF presence_check, task, shared, Goto
<1>13. ASSUME NEW c \in Conns, NEW ps \in SUBSET Peers, subscribe_rooms(c, ps)
    PROVE RegistryFollowsTasks'
  BY <1>13 DEF subscribe_rooms, task, shared, Goto
<1>14. ASSUME NEW c \in Conns, FilterAllowed(c) PROVE RegistryFollowsTasks'
  BY <1>14 DEF FilterAllowed, task, shared, Goto
<1>15. ASSUME NEW c \in Conns, SubscribeAllowed(c) PROVE RegistryFollowsTasks'
  BY <1>15 DEF SubscribeAllowed, task, shared, Goto
<1>16. ASSUME NEW c \in Conns, NEW owners \in SUBSET Peers, pairing_set(c, owners)
    PROVE RegistryFollowsTasks'
  BY <1>16 DEF pairing_set, task, shared, Goto
<1>17. ASSUME NEW c \in Conns, Reconcile(c) PROVE RegistryFollowsTasks'
  BY <1>17 DEF Reconcile, task, shared, Goto
<1>18. ASSUME NEW c \in Conns, NEW ps \in SUBSET Peers, unsubscribe_rooms(c, ps)
    PROVE RegistryFollowsTasks'
  BY <1>18 DEF unsubscribe_rooms, task, shared, Goto
<1>19. ASSUME NEW c \in Conns, NEW m \in Peers, rooms_check(c, m)
    PROVE RegistryFollowsTasks'
  BY <1>19 DEF rooms_check, task, shared, Goto
<1>20. ASSUME NEW c \in Conns, unregister(c) PROVE RegistryFollowsTasks'
  BY <1>20 DEF unregister, task, shared, Goto
<1>21. ASSUME NEW c \in Conns, RecordOffline(c) PROVE RegistryFollowsTasks'
  BY <1>21 DEF RecordOffline, task, shared, Goto
<1>22. ASSUME NEW c \in Conns, DropPresence(c) PROVE RegistryFollowsTasks'
  BY <1>22 DEF DropPresence, task, shared, Goto
<1>23. ASSUME NEW c \in Conns, DropRooms(c) PROVE RegistryFollowsTasks'
  BY <1>23 DEF DropRooms, task, shared, Goto
<1>24. ASSUME NEW c \in Conns, Unadvertise(c) PROVE RegistryFollowsTasks'
  BY <1>24 DEF Unadvertise, task, shared, Goto
<1>26. ASSUME NEW c \in Conns, room_meta_update(c) PROVE RegistryFollowsTasks'
  BY <1>26 DEF room_meta_update, task, shared, Goto
<1>25. CASE UNCHANGED vars
  BY <1>25 DEF vars, shared, task, frames, history
<1> HIDE DEF SharedOK, TaskOK, RegistryFollowsTasks, LivePoints, Points
<1>q. QED
  BY <1>1, <1>2, <1>3, <1>4, <1>5, <1>6, <1>7, <1>8, <1>9, <1>10, <1>11, <1>12, <1>13,
     <1>14, <1>15, <1>16, <1>17, <1>18, <1>19, <1>20, <1>21, <1>22, <1>23, <1>24, <1>25, <1>26
     DEF Next, Connect, PresenceFrame, RoomFrame, Disconnect

\* No step leaves a subscription without a connection or a task that will drop it.
LEMMA NextOwned == SharedOK /\ TaskOK /\ RegistryFollowsTasks /\ SubscriptionsOwned /\ [Next]_vars => SubscriptionsOwned'
<1> SUFFICES ASSUME SharedOK, TaskOK, RegistryFollowsTasks, SubscriptionsOwned, [Next]_vars PROVE SubscriptionsOwned'
  OBVIOUS
<1>k. ASSUME NEW c \in live, live' = live,
             \A d \in Conns : /\ WillDropPresence(d) => WillDropPresence(d)'
                              /\ WillDropRooms(d) => WillDropRooms(d)',
             \A p \in Peers : p # PeerOf[c] =>
                 /\ pres'.subscriptions_by[p] = pres.subscriptions_by[p]
                 /\ room'.subscriptions_by[p] = room.subscriptions_by[p]
                 /\ requested'[p] = requested[p]
      PROVE  SubscriptionsOwned'
  <2>1. \A p \in Peers : Online(p) => Online(p)'
    BY <1>k DEF Online
  <2>2. Online(PeerOf[c])'
    BY <1>k DEF Online
  <2>q. QED
    BY <1>k, <2>1, <2>2 DEF SubscriptionsOwned
<1> USE HubConstants DEF SharedOK, TaskOK, RegistryFollowsTasks, LivePoints, SubscriptionsOwned, WillDropPresence, WillDropRooms, Online
<1>1. ASSUME NEW c \in Conns, register(c) PROVE SubscriptionsOwned'
  <2>1. \A d \in Conns : /\ WillDropPresence(d) => WillDropPresence(d)'
                         /\ WillDropRooms(d) => WillDropRooms(d)'
    BY <1>1 DEF register, Goto
  <2>2. \A p \in Peers : Online(p) => Online(p)'
    BY <1>1 DEF register
  <2>3. UNCHANGED <<pres, room, requested>>
    BY <1>1 DEF register
  <2> HIDE DEF WillDropPresence, WillDropRooms, Online, SharedOK, TaskOK, RegistryFollowsTasks
  <2>q. QED
    BY <2>1, <2>2, <2>3
<1>2. ASSUME NEW c \in Conns, ReadRoomSubscribers(c) PROVE SubscriptionsOwned'
  BY <1>2 DEF ReadRoomSubscribers, task, shared, Goto, Graphs, AfterRoomPushes
<1>3. ASSUME NEW c \in Conns, NEW s \in Peers, PushRoom(c, s)
    PROVE SubscriptionsOwned'
  BY <1>3 DEF PushRoom, task, shared, Goto, Graphs, AfterRoomPushes
<1>4. ASSUME NEW c \in Conns, ReadPresenceSubscribers(c)
    PROVE SubscriptionsOwned'
  BY <1>4 DEF ReadPresenceSubscribers, task, shared, Goto, Graphs, AfterPresencePushes
<1>5. ASSUME NEW c \in Conns, NEW s \in Peers, PushPresence(c, s)
    PROVE SubscriptionsOwned'
  BY <1>5 DEF PushPresence, task, shared, Goto, Graphs, AfterPresencePushes
<1>6. ASSUME NEW c \in Conns, Advertise(c) PROVE SubscriptionsOwned'
  BY <1>6 DEF Advertise, task, shared, Goto, Graphs
<1>7. ASSUME NEW c \in Conns, NEW t \in Topics, Deliver(c, t)
    PROVE SubscriptionsOwned'
  BY <1>7 DEF Deliver, task, shared, Goto, Graphs
<1>8. ASSUME NEW c \in Conns, NEW ps \in SUBSET Peers, subscribe_presence(c, ps)
    PROVE SubscriptionsOwned'
  <2>1. \A d \in Conns : /\ WillDropPresence(d) => WillDropPresence(d)'
                         /\ WillDropRooms(d) => WillDropRooms(d)'
    BY <1>8 DEF subscribe_presence, task, Goto
  <2>2. c \in live /\ UNCHANGED <<live, room, requested>>
    BY <1>8 DEF subscribe_presence
  <2>3. \A p \in Peers : p # PeerOf[c] =>
            pres'.subscriptions_by[p] = pres.subscriptions_by[p]
    <3>1. pres' = subscribe(pres, PeerOf[c], ps)
      BY <1>8 DEF subscribe_presence
    <3>q. QED
      BY <3>1 DEF subscribe, Graphs
  <2> HIDE DEF WillDropPresence, WillDropRooms, SubscriptionsOwned
  <2>q. QED
    BY <1>k, <2>1, <2>2, <2>3
<1>9. ASSUME NEW c \in Conns, NEW t \in Peers, BackfillCheck(c, t)
    PROVE SubscriptionsOwned'
  BY <1>9 DEF BackfillCheck, task, shared, Goto, Graphs
<1>10. ASSUME NEW c \in Conns, NEW t \in Peers, BackfillSend(c, t)
    PROVE SubscriptionsOwned'
  BY <1>10 DEF BackfillSend, task, shared, Goto, Graphs
<1>11. ASSUME NEW c \in Conns, NEW ps \in SUBSET Peers, unsubscribe_presence(c, ps)
    PROVE SubscriptionsOwned'
  <2>1. \A d \in Conns : /\ WillDropPresence(d) => WillDropPresence(d)'
                         /\ WillDropRooms(d) => WillDropRooms(d)'
    BY <1>11 DEF unsubscribe_presence, task, Goto
  <2>2. c \in live /\ UNCHANGED <<live, room, requested>>
    BY <1>11 DEF unsubscribe_presence
  <2>3. \A p \in Peers : p # PeerOf[c] =>
            pres'.subscriptions_by[p] = pres.subscriptions_by[p]
    <3>1. pres' = unsubscribe(pres, PeerOf[c], ps)
      BY <1>11 DEF unsubscribe_presence
    <3>q. QED
      BY <3>1 DEF unsubscribe, Graphs
  <2> HIDE DEF WillDropPresence, WillDropRooms, SubscriptionsOwned
  <2>q. QED
    BY <1>k, <2>1, <2>2, <2>3
<1>12. ASSUME NEW c \in Conns, NEW ps \in SUBSET Peers, presence_check(c, ps)
    PROVE SubscriptionsOwned'
  BY <1>12 DEF presence_check, task, shared, Goto, Graphs
<1>13. ASSUME NEW c \in Conns, NEW ps \in SUBSET Peers, subscribe_rooms(c, ps)
    PROVE SubscriptionsOwned'
  BY <1>13 DEF subscribe_rooms, task, shared, Goto, Graphs
<1>14. ASSUME NEW c \in Conns, FilterAllowed(c) PROVE SubscriptionsOwned'
  BY <1>14 DEF FilterAllowed, task, shared, Goto, Graphs
<1>15. ASSUME NEW c \in Conns, SubscribeAllowed(c) PROVE SubscriptionsOwned'
  <2>1. \A d \in Conns : /\ WillDropPresence(d) => WillDropPresence(d)'
                         /\ WillDropRooms(d) => WillDropRooms(d)'
    BY <1>15 DEF SubscribeAllowed, task, Goto
  <2>2. c \in live /\ UNCHANGED <<live, pres, requested>>
    BY <1>15 DEF SubscribeAllowed
  <2>3. \A p \in Peers : p # PeerOf[c] =>
            room'.subscriptions_by[p] = room.subscriptions_by[p]
    <3>1. room' = subscribe(room, PeerOf[c], arg[c])
      BY <1>15 DEF SubscribeAllowed
    <3>q. QED
      BY <3>1 DEF subscribe, Graphs
  <2> HIDE DEF WillDropPresence, WillDropRooms, SubscriptionsOwned
  <2>q. QED
    BY <1>k, <2>1, <2>2, <2>3
<1>16. ASSUME NEW c \in Conns, NEW owners \in SUBSET Peers, pairing_set(c, owners)
    PROVE SubscriptionsOwned'
  BY <1>16 DEF pairing_set, task, shared, Goto, Graphs
<1>17. ASSUME NEW c \in Conns, Reconcile(c) PROVE SubscriptionsOwned'
  <2>1. \A d \in Conns : /\ WillDropPresence(d) => WillDropPresence(d)'
                         /\ WillDropRooms(d) => WillDropRooms(d)'
    BY <1>17 DEF Reconcile, Goto
  <2>2. \A p \in Peers : room'.subscriptions_by[p] # {}
                           => room.subscriptions_by[p] # {} \/ requested[p] # {}
    BY <1>17 DEF Reconcile, reconcile_subscribers, Graphs
  <2>3. UNCHANGED <<live, pres, requested>>
    BY <1>17 DEF Reconcile
  <2> HIDE DEF WillDropPresence, WillDropRooms
  <2>q. QED
    BY <2>1, <2>2, <2>3
<1>18. ASSUME NEW c \in Conns, NEW ps \in SUBSET Peers, unsubscribe_rooms(c, ps)
    PROVE SubscriptionsOwned'
  <2>1. \A d \in Conns : /\ WillDropPresence(d) => WillDropPresence(d)'
                         /\ WillDropRooms(d) => WillDropRooms(d)'
    BY <1>18 DEF unsubscribe_rooms, task, Goto
  <2>2. c \in live /\ UNCHANGED <<live, pres, requested>>
    BY <1>18 DEF unsubscribe_rooms
  <2>3. \A p \in Peers : p # PeerOf[c] =>
            room'.subscriptions_by[p] = room.subscriptions_by[p]
    <3>1. room' = unsubscribe(room, PeerOf[c], ps)
      BY <1>18 DEF unsubscribe_rooms
    <3>q. QED
      BY <3>1 DEF unsubscribe, Graphs
  <2> HIDE DEF WillDropPresence, WillDropRooms, SubscriptionsOwned
  <2>q. QED
    BY <1>k, <2>1, <2>2, <2>3
<1>19. ASSUME NEW c \in Conns, NEW m \in Peers, rooms_check(c, m)
    PROVE SubscriptionsOwned'
  BY <1>19 DEF rooms_check, task, shared, Goto, Graphs
<1>20. ASSUME NEW c \in Conns, unregister(c) PROVE SubscriptionsOwned'
  <2>1. \A d \in Conns : /\ WillDropPresence(d) => WillDropPresence(d)'
                         /\ WillDropRooms(d) => WillDropRooms(d)'
    BY <1>20 DEF unregister, Goto
  <2>2. \A p \in Peers : p # PeerOf[c] /\ Online(p) => Online(p)'
    BY <1>20 DEF unregister
  <2>3. Online(PeerOf[c])' \/ (WillDropPresence(c)' /\ WillDropRooms(c)')
    BY <1>20 DEF unregister, Goto, KeyOf
  <2>4. UNCHANGED <<pres, room, requested>>
    BY <1>20 DEF unregister
  <2> HIDE DEF WillDropPresence, WillDropRooms, Online
  <2>q. QED
    BY <2>1, <2>2, <2>3, <2>4
<1>21. ASSUME NEW c \in Conns, RecordOffline(c) PROVE SubscriptionsOwned'
  BY <1>21 DEF RecordOffline, task, shared, Goto, Graphs
<1>22. ASSUME NEW c \in Conns, DropPresence(c) PROVE SubscriptionsOwned'
  <2>1. \A d \in Conns : /\ d # c /\ WillDropPresence(d) => WillDropPresence(d)'
                         /\ WillDropRooms(d) => WillDropRooms(d)'
    BY <1>22 DEF DropPresence, Goto
  <2>2. /\ pres'.subscriptions_by[PeerOf[c]] = {}
        /\ \A p \in Peers : p # PeerOf[c] =>
              pres'.subscriptions_by[p] = pres.subscriptions_by[p]
    BY <1>22 DEF DropPresence, unsubscribe_all, Graphs
  <2>3. UNCHANGED <<live, room, requested>>
    BY <1>22 DEF DropPresence
  <2> HIDE DEF WillDropPresence, WillDropRooms
  <2>q. QED
    BY <2>1, <2>2, <2>3
<1>23. ASSUME NEW c \in Conns, DropRooms(c) PROVE SubscriptionsOwned'
  <2>1. \A d \in Conns : /\ WillDropPresence(d) => WillDropPresence(d)'
                         /\ d # c /\ WillDropRooms(d) => WillDropRooms(d)'
    BY <1>23 DEF DropRooms, Goto
  <2>2. /\ room'.subscriptions_by[PeerOf[c]] = {}
        /\ requested'[PeerOf[c]] = {}
        /\ \A p \in Peers : p # PeerOf[c] =>
              /\ room'.subscriptions_by[p] = room.subscriptions_by[p]
              /\ requested'[p] = requested[p]
    BY <1>23 DEF DropRooms, unsubscribe_all, Graphs
  <2>3. UNCHANGED <<live, pres>>
    BY <1>23 DEF DropRooms
  <2> HIDE DEF WillDropPresence, WillDropRooms
  <2>q. QED
    BY <2>1, <2>2, <2>3
<1>24. ASSUME NEW c \in Conns, Unadvertise(c) PROVE SubscriptionsOwned'
  BY <1>24 DEF Unadvertise, task, shared, Goto, Graphs
<1>26. ASSUME NEW c \in Conns, room_meta_update(c) PROVE SubscriptionsOwned'
  BY <1>26 DEF room_meta_update, task, shared, Goto, Graphs
<1>25. CASE UNCHANGED vars
  BY <1>25 DEF vars, shared, task, frames, history
<1> HIDE DEF SharedOK, TaskOK, RegistryFollowsTasks, LivePoints, SubscriptionsOwned, WillDropPresence, WillDropRooms, Online
<1>q. QED
  BY <1>1, <1>2, <1>3, <1>4, <1>5, <1>6, <1>7, <1>8, <1>9, <1>10, <1>11, <1>12, <1>13,
     <1>14, <1>15, <1>16, <1>17, <1>18, <1>19, <1>20, <1>21, <1>22, <1>23, <1>24, <1>25, <1>26
     DEF Next, Connect, PresenceFrame, RoomFrame, Disconnect

\* No step leaves a key advertised without a connection or a task that will
\* remove it.
LEMMA NextAdvert == TaskOK /\ RegistryFollowsTasks /\ AdvertOwned /\ [Next]_vars => AdvertOwned'
<1> SUFFICES ASSUME TaskOK, RegistryFollowsTasks, AdvertOwned, [Next]_vars PROVE AdvertOwned'
  OBVIOUS
<1>k. ASSUME UNCHANGED <<live, advert>>,
             \A d \in Conns : WillUnadvertise(d) => WillUnadvertise(d)'
      PROVE  AdvertOwned'
  BY <1>k DEF AdvertOwned, Open
<1> USE DEF TaskOK, WillUnadvertise, WillDropRooms
<1>1. ASSUME NEW c \in Conns, register(c) PROVE AdvertOwned'
  <2>1. \A d \in Conns : WillUnadvertise(d) => WillUnadvertise(d)'
    BY <1>1 DEF register, Goto
  <2>2. \A k \in advert : Open(k) => Open(k)'
    BY <1>1 DEF register, Open
  <2>3. advert' = advert
    BY <1>1 DEF register
  <2> HIDE DEF WillUnadvertise
  <2>q. QED
    BY <2>1, <2>2, <2>3 DEF AdvertOwned
<1>2. ASSUME NEW c \in Conns, ReadRoomSubscribers(c) PROVE AdvertOwned'
  BY <1>2, <1>k DEF ReadRoomSubscribers, shared, task, Goto, AfterRoomPushes
<1>3. ASSUME NEW c \in Conns, NEW s \in Peers, PushRoom(c, s) PROVE AdvertOwned'
  BY <1>3, <1>k DEF PushRoom, shared, task, Goto, AfterRoomPushes
<1>4. ASSUME NEW c \in Conns, ReadPresenceSubscribers(c) PROVE AdvertOwned'
  BY <1>4, <1>k DEF ReadPresenceSubscribers, shared, task, Goto, AfterPresencePushes
<1>5. ASSUME NEW c \in Conns, NEW s \in Peers, PushPresence(c, s) PROVE AdvertOwned'
  BY <1>5, <1>k DEF PushPresence, shared, task, Goto, AfterPresencePushes
<1>6. ASSUME NEW c \in Conns, Advertise(c) PROVE AdvertOwned'
  <2>1. \A d \in Conns : WillUnadvertise(d) => WillUnadvertise(d)'
    BY <1>6 DEF Advertise, Goto
  <2>2. c \in live
    BY <1>6 DEF Advertise, RegistryFollowsTasks, LivePoints
  <2>3. live' = live /\ advert' = advert \cup {KeyOf(c)}
    BY <1>6 DEF Advertise
  <2> HIDE DEF WillUnadvertise
  <2>q. QED
    BY <2>1, <2>2, <2>3 DEF AdvertOwned, Open
<1>7. ASSUME NEW c \in Conns, NEW t \in Topics, Deliver(c, t) PROVE AdvertOwned'
  BY <1>7, <1>k DEF Deliver, shared, task, Goto
<1>8. ASSUME NEW c \in Conns, NEW ps \in SUBSET Peers, subscribe_presence(c, ps) PROVE AdvertOwned'
  BY <1>8, <1>k DEF subscribe_presence, shared, task, Goto
<1>9. ASSUME NEW c \in Conns, NEW t \in Peers, BackfillCheck(c, t) PROVE AdvertOwned'
  BY <1>9, <1>k DEF BackfillCheck, shared, task, Goto
<1>10. ASSUME NEW c \in Conns, NEW t \in Peers, BackfillSend(c, t) PROVE AdvertOwned'
  BY <1>10, <1>k DEF BackfillSend, shared, task, Goto
<1>11. ASSUME NEW c \in Conns, NEW ps \in SUBSET Peers, unsubscribe_presence(c, ps) PROVE AdvertOwned'
  BY <1>11, <1>k DEF unsubscribe_presence, shared, task, Goto
<1>12. ASSUME NEW c \in Conns, NEW ps \in SUBSET Peers, presence_check(c, ps) PROVE AdvertOwned'
  BY <1>12, <1>k DEF presence_check, shared, task, Goto
<1>13. ASSUME NEW c \in Conns, NEW ps \in SUBSET Peers, subscribe_rooms(c, ps) PROVE AdvertOwned'
  BY <1>13, <1>k DEF subscribe_rooms, shared, task, Goto
<1>14. ASSUME NEW c \in Conns, FilterAllowed(c) PROVE AdvertOwned'
  BY <1>14, <1>k DEF FilterAllowed, shared, task, Goto
<1>15. ASSUME NEW c \in Conns, SubscribeAllowed(c) PROVE AdvertOwned'
  BY <1>15, <1>k DEF SubscribeAllowed, shared, task, Goto
<1>16. ASSUME NEW c \in Conns, NEW owners \in SUBSET Peers, pairing_set(c, owners) PROVE AdvertOwned'
  BY <1>16, <1>k DEF pairing_set, shared, task, Goto
<1>17. ASSUME NEW c \in Conns, Reconcile(c) PROVE AdvertOwned'
  BY <1>17, <1>k DEF Reconcile, shared, task, Goto
<1>18. ASSUME NEW c \in Conns, NEW ps \in SUBSET Peers, unsubscribe_rooms(c, ps) PROVE AdvertOwned'
  BY <1>18, <1>k DEF unsubscribe_rooms, shared, task, Goto
<1>19. ASSUME NEW c \in Conns, NEW m \in Peers, rooms_check(c, m) PROVE AdvertOwned'
  BY <1>19, <1>k DEF rooms_check, shared, task, Goto
<1>20. ASSUME NEW c \in Conns, unregister(c) PROVE AdvertOwned'
  <2>1. \A d \in Conns : WillUnadvertise(d) => WillUnadvertise(d)'
    BY <1>20 DEF unregister, Goto
  <2>2. WillUnadvertise(c)'
    BY <1>20 DEF unregister, Goto
  <2>3. advert' = advert /\ live' = live \ {c}
    BY <1>20 DEF unregister
  <2> HIDE DEF WillUnadvertise
  <2>q. QED
    BY <2>1, <2>2, <2>3 DEF AdvertOwned, Open
<1>21. ASSUME NEW c \in Conns, RecordOffline(c) PROVE AdvertOwned'
  BY <1>21, <1>k DEF RecordOffline, shared, task, Goto
<1>22. ASSUME NEW c \in Conns, DropPresence(c) PROVE AdvertOwned'
  BY <1>22, <1>k DEF DropPresence, shared, task, Goto
<1>23. ASSUME NEW c \in Conns, DropRooms(c) PROVE AdvertOwned'
  BY <1>23, <1>k DEF DropRooms, shared, task, Goto
<1>24. ASSUME NEW c \in Conns, Unadvertise(c) PROVE AdvertOwned'
  <2>1. \A d \in Conns : d # c /\ WillUnadvertise(d) => WillUnadvertise(d)'
    BY <1>24 DEF Unadvertise, Goto
  <2>2. advert' = advert \ {KeyOf(c)} /\ live' = live
    BY <1>24 DEF Unadvertise
  <2> HIDE DEF WillUnadvertise
  <2>q. QED
    BY <2>1, <2>2 DEF AdvertOwned, Open
<1>26. ASSUME NEW c \in Conns, room_meta_update(c) PROVE AdvertOwned'
  BY <1>26, <1>k DEF room_meta_update, shared, task, Goto
<1>25. CASE UNCHANGED vars
  BY <1>25, <1>k DEF vars, shared, task
<1> HIDE DEF TaskOK, WillUnadvertise, WillDropRooms
<1>q. QED
  BY HubConstants, <1>1, <1>2, <1>3, <1>4, <1>5, <1>6, <1>7, <1>8, <1>9, <1>10, <1>11, <1>12, <1>13,
     <1>14, <1>15, <1>16, <1>17, <1>18, <1>19, <1>20, <1>21, <1>22, <1>23, <1>24, <1>25, <1>26
     DEF Next, Connect, PresenceFrame, RoomFrame, Disconnect

\* Who is told about a machine after each method: the caller's own place in
\* its set is what the arguments say, every other place is kept.
LEMMA SubscribersAfter ==
    ASSUME NEW g \in Graphs, Mirror(g), NEW s \in Peers, NEW ps \in SUBSET Peers,
           NEW o \in Peers, NEW m \in Peers
    PROVE  /\ o \in subscribe(g, s, ps).subscribers_of[m]
                  <=> IF o = s THEN m \in ps ELSE o \in g.subscribers_of[m]
           /\ o \in unsubscribe(g, s, ps).subscribers_of[m]
                  <=> o \in g.subscribers_of[m] /\ ~ (o = s /\ m \in ps)
           /\ o \in reconcile_subscribers(g, s, ps).subscribers_of[m]
                  <=> IF m = s THEN o \in ps ELSE o \in g.subscribers_of[m]
<1>1. o \in subscribe(g, s, ps).subscribers_of[m]
          <=> IF o = s THEN m \in ps ELSE o \in g.subscribers_of[m]
  BY DEF subscribe, Graphs, Mirror
<1>2. o \in unsubscribe(g, s, ps).subscribers_of[m]
          <=> o \in g.subscribers_of[m] /\ ~ (o = s /\ m \in ps)
  BY DEF unsubscribe, Graphs
<1>3. o \in reconcile_subscribers(g, s, ps).subscribers_of[m]
          <=> IF m = s THEN o \in ps ELSE o \in g.subscribers_of[m]
  BY DEF reconcile_subscribers, Graphs
<1>q. QED
  BY <1>1, <1>2, <1>3

\* A cleanup takes the caller, and nobody else, out of every set.
LEMMA SubscribersAfterAll ==
    ASSUME NEW g \in Graphs, Mirror(g), NEW s \in Peers,
           NEW o \in Peers, NEW m \in Peers
    PROVE  o \in unsubscribe_all(g, s).subscribers_of[m]
               <=> o \in g.subscribers_of[m] /\ o # s
BY DEF unsubscribe_all, Graphs, Mirror

\* The requests and pushes that are under way, and what they lead to.
GateInv == CarriesRequest /\ GateOrdered

\* No step disturbs what the requests and pushes under way lead to.
LEMMA NextGate ==
    SharedOK /\ TaskOK /\ HistoryOK /\ IndexesAgree /\ GateInv /\ [Next]_vars => GateInv'
<1> SUFFICES ASSUME SharedOK, TaskOK, HistoryOK, IndexesAgree, GateInv, [Next]_vars
             PROVE  GateInv'
  OBVIOUS
<1>t. /\ PeerOf \in [Conns -> Peers]
      /\ room \in Graphs /\ Mirror(room)
      /\ requested \in [Peers -> SUBSET Peers] /\ allow \in [Peers -> SUBSET Peers]
      /\ pc \in [Conns -> Points] /\ arg \in [Conns -> SUBSET Peers]
      /\ overtaken \in [Conns -> SUBSET Peers]
  BY HubConstants DEF SharedOK, TaskOK, HistoryOK, IndexesAgree
<1>g. CarriesRequest /\ GateOrdered
  BY DEF GateInv
<1> DEFINE Same(d) == pc'[d] = pc[d] /\ arg'[d] = arg[d]
           AtGate(q, d) == q[d] \in {"filter", "subscribe", "reconcile"}
<1>k. ASSUME UNCHANGED <<room, requested, allow, gate>>,
             \A d \in Conns : AtGate(pc, d) \/ AtGate(pc', d) => Same(d)
      PROVE  GateInv'
  <2>1. \A o \in Peers : Asking(o)' = Asking(o)
    BY <1>k DEF Asking
  <2>2. \A m \in Peers : Pushing(m)' <=> Pushing(m)
    BY <1>k DEF Pushing
  <2>3. \A o, m \in Peers : Gated(o, m)' <=> Gated(o, m)
    BY <1>k DEF Gated
  <2>4. \A o \in Peers : \A c \in Asking(o) : c \in Conns /\ Same(c)
    BY <1>k DEF Asking
  <2>5. CarriesRequest'
    BY <1>g, <1>k, <2>1, <2>3, <2>4 DEF CarriesRequest, gate
  <2>6. GateOrdered'
    BY <1>g, <1>k, <2>1, <2>2, <2>3 DEF GateOrdered, gate
  <2>q. QED
    BY <2>5, <2>6 DEF GateInv
<1>1. ASSUME NEW c \in Conns, register(c) PROVE GateInv'
  BY <1>1, <1>t, <1>k DEF register, shared, task, history, Goto
<1>2. ASSUME NEW c \in Conns, ReadRoomSubscribers(c) PROVE GateInv'
  BY <1>2, <1>t, <1>k DEF ReadRoomSubscribers, shared, task, history, Goto, AfterRoomPushes
<1>3. ASSUME NEW c \in Conns, NEW s \in Peers, PushRoom(c, s) PROVE GateInv'
  BY <1>3, <1>t, <1>k DEF PushRoom, shared, task, history, Goto, AfterRoomPushes
<1>4. ASSUME NEW c \in Conns, ReadPresenceSubscribers(c) PROVE GateInv'
  BY <1>4, <1>t, <1>k DEF ReadPresenceSubscribers, shared, task, history, Goto, AfterPresencePushes
<1>5. ASSUME NEW c \in Conns, NEW s \in Peers, PushPresence(c, s) PROVE GateInv'
  BY <1>5, <1>t, <1>k DEF PushPresence, shared, task, history, Goto, AfterPresencePushes
<1>6. ASSUME NEW c \in Conns, Advertise(c) PROVE GateInv'
  BY <1>6, <1>t, <1>k DEF Advertise, shared, task, history, Goto
<1>7. ASSUME NEW c \in Conns, NEW t \in Topics, Deliver(c, t) PROVE GateInv'
  BY <1>7, <1>t, <1>k DEF Deliver, shared, task, history, Goto
<1>8. ASSUME NEW c \in Conns, NEW ps \in SUBSET Peers, subscribe_presence(c, ps) PROVE GateInv'
  BY <1>8, <1>t, <1>k DEF subscribe_presence, shared, task, history, Goto
<1>9. ASSUME NEW c \in Conns, NEW t \in Peers, BackfillCheck(c, t) PROVE GateInv'
  BY <1>9, <1>t, <1>k DEF BackfillCheck, shared, task, history, Goto
<1>10. ASSUME NEW c \in Conns, NEW t \in Peers, BackfillSend(c, t) PROVE GateInv'
  BY <1>10, <1>t, <1>k DEF BackfillSend, shared, task, history, Goto
<1>11. ASSUME NEW c \in Conns, NEW ps \in SUBSET Peers, unsubscribe_presence(c, ps) PROVE GateInv'
  BY <1>11, <1>t, <1>k DEF unsubscribe_presence, shared, task, history, Goto
<1>12. ASSUME NEW c \in Conns, NEW ps \in SUBSET Peers, presence_check(c, ps) PROVE GateInv'
  BY <1>12, <1>t, <1>k DEF presence_check, shared, task, history, Goto
<1>13. ASSUME NEW c \in Conns, NEW ps \in SUBSET Peers, subscribe_rooms(c, ps) PROVE GateInv'
  <2> DEFINE me == PeerOf[c]
  <2>1. /\ pc[c] = "route" /\ me \in Peers
        /\ requested' = [requested EXCEPT ![me] = ps]
        /\ arg' = [arg EXCEPT ![c] = ps] /\ pc' = [pc EXCEPT ![c] = "filter"]
        /\ UNCHANGED <<room, allow, late>>
        /\ declined' = {d \in declined : d[1] # me}
        /\ overtaken' = OvertakeAll(me)
    BY <1>13, <1>t DEF subscribe_rooms, Goto
  <2>2. /\ \A d \in Asking(me) : overtaken'[d] = Peers
        /\ \A o \in Peers : \A d \in Asking(o) : o # me => overtaken'[d] = overtaken[d]
    BY <2>1 DEF OvertakeAll, Asking
  <2>4. Asking(me)' = Asking(me) \cup {c}
    BY <2>1, <1>t DEF Asking
  <2>5. \A o \in Peers : o # me => Asking(o)' = Asking(o) /\ c \notin Asking(o)
    BY <2>1, <1>t DEF Asking
  <2>6. \A m \in Peers : Pushing(m)' <=> Pushing(m)
    BY <2>1, <1>t DEF Pushing
  <2>7. \A o \in Peers : o # me => requested'[o] = requested[o]
    BY <2>1, <1>t
  <2>8. requested'[me] = ps /\ arg'[c] = ps /\ pc'[c] = "filter"
    BY <2>1, <1>t
  <2>9. \A o \in Peers : \A d \in Asking(o) : d # c => pc'[d] = pc[d] /\ arg'[d] = arg[d]
    BY <2>1, <1>t DEF Asking
  <2>10. \A o, m \in Peers : o # me => /\ Gated(o, m)' <=> Gated(o, m)
                                       /\ <<o, m>> \in declined' <=> <<o, m>> \in declined
    BY <2>1, <2>7 DEF Gated
  <2> HIDE DEF me
  <2>11. ASSUME NEW o \in Peers, NEW m \in Peers, NEW d \in Asking(o)', m \notin overtaken'[d]
         PROVE  m \in arg'[d] <=> IF pc'[d] = "filter" THEN m \in requested'[o]
                                                       ELSE Gated(o, m)'
    <3>1. CASE o = me
      BY <3>1, <2>11, <2>2, <2>4, <2>8
    <3>2. CASE o # me
      <4>1. /\ d \in Asking(o) /\ d # c /\ m \notin overtaken[d]
            /\ pc'[d] = pc[d] /\ arg'[d] = arg[d]
        BY <3>2, <2>11, <2>2, <2>5, <2>9
      <4>2. m \in arg[d] <=> IF pc[d] = "filter" THEN m \in requested[o] ELSE Gated(o, m)
        BY <1>g, <4>1 DEF CarriesRequest
      <4>3. requested'[o] = requested[o] /\ (Gated(o, m)' <=> Gated(o, m))
        BY <3>2, <2>7, <2>10
      <4>q. QED
        BY <4>1, <4>2, <4>3
    <3>q. QED
      BY <3>1, <3>2
  <2>12. CarriesRequest'
    BY <2>11 DEF CarriesRequest
  <2>13. GateOrdered'
    BY <1>g, <2>1, <2>4, <2>5, <2>6, <2>10 DEF GateOrdered
  <2>q. QED
    BY <2>12, <2>13 DEF GateInv
<1>14. ASSUME NEW c \in Conns, FilterAllowed(c) PROVE GateInv'
  <2> DEFINE me == PeerOf[c]
  <2>1. /\ pc[c] = "filter" /\ me \in Peers
        /\ arg' = [arg EXCEPT ![c] = {t \in @ : me \in allow[t]}]
        /\ pc' = [pc EXCEPT ![c] = "subscribe"]
        /\ UNCHANGED <<room, requested, allow, gate>>
    BY <1>14, <1>t DEF FilterAllowed, Goto, shared, history
  <2>2. \A o \in Peers : Asking(o)' = Asking(o)
    BY <2>1, <1>t DEF Asking
  <2>3. \A m \in Peers : Pushing(m)' <=> Pushing(m)
    BY <2>1, <1>t DEF Pushing
  <2>4. \A o, m \in Peers : Gated(o, m)' <=> Gated(o, m)
    BY <2>1 DEF Gated
  <2>5. \A o \in Peers : \A d \in Asking(o) : d # c => pc'[d] = pc[d] /\ arg'[d] = arg[d]
    BY <2>1, <1>t DEF Asking
  <2>6. pc'[c] = "subscribe" /\ c \in Asking(me) /\ \A o \in Peers : c \in Asking(o) => o = me
    BY <2>1, <1>t DEF Asking
  <2>7. \A m \in Peers : m \notin overtaken[c] => (m \in arg'[c] <=> Gated(me, m))
    <3>1. \A m \in Peers : m \notin overtaken[c] => (m \in arg[c] <=> m \in requested[me])
      BY <1>g, <2>1, <2>6 DEF CarriesRequest
    <3>2. arg'[c] = {t \in arg[c] : me \in allow[t]}
      BY <2>1, <1>t
    <3>q. QED
      BY <3>1, <3>2 DEF Gated
  <2> HIDE DEF me
  <2>8. CarriesRequest'
    BY <1>g, <2>1, <2>2, <2>4, <2>5, <2>6, <2>7 DEF CarriesRequest, gate
  <2>9. GateOrdered'
    BY <1>g, <2>1, <2>2, <2>3, <2>4 DEF GateOrdered, gate
  <2>q. QED
    BY <2>8, <2>9 DEF GateInv
<1>15. ASSUME NEW c \in Conns, SubscribeAllowed(c) PROVE GateInv'
  <2> DEFINE me == PeerOf[c]
  <2>1. /\ pc[c] = "subscribe" /\ me \in Peers
        /\ arg' = [arg EXCEPT ![c] = {}] /\ pc' = [pc EXCEPT ![c] = "route"]
        /\ room' = subscribe(room, me, arg[c])
        /\ late' = {l \in late : l[1] # me} \cup ({me} \X overtaken[c])
        /\ overtaken' = [overtaken EXCEPT ![c] = {}]
        /\ UNCHANGED <<requested, allow, declined>>
    BY <1>15, <1>t DEF SubscribeAllowed, Goto
  <2>2. /\ \A o \in Peers : o # me => Asking(o)' = Asking(o)
        /\ Asking(me)' = Asking(me) \ {c} /\ c \in Asking(me)
        /\ \A o \in Peers : c \notin Asking(o)'
    BY <2>1, <1>t DEF Asking
  <2>3. \A m \in Peers : Pushing(m)' <=> Pushing(m)
    BY <2>1, <1>t DEF Pushing
  <2>4. \A o, m \in Peers : Gated(o, m)' <=> Gated(o, m)
    BY <2>1 DEF Gated
  <2>5. \A o \in Peers : \A d \in Asking(o) :
            d # c => pc'[d] = pc[d] /\ arg'[d] = arg[d] /\ overtaken'[d] = overtaken[d]
    BY <2>1, <1>t DEF Asking
  <2>6. \A o, m \in Peers : o \in room'.subscribers_of[m]
            <=> IF o = me THEN m \in arg[c] ELSE o \in room.subscribers_of[m]
    BY <2>1, <1>t, SubscribersAfter
  <2>7. \A m \in Peers : <<me, m>> \notin late' => (m \in arg[c] <=> Gated(me, m))
    <3>1. \A m \in Peers : <<me, m>> \notin late' => m \notin overtaken[c]
      BY <2>1
    <3>q. QED
      BY <1>g, <2>1, <2>2, <3>1 DEF CarriesRequest
  <2>8. \A o, m \in Peers : o # me => (<<o, m>> \in late' <=> <<o, m>> \in late)
    BY <2>1
  <2> HIDE DEF me
  <2>9. CarriesRequest'
    BY <1>g, <2>1, <2>2, <2>4, <2>5 DEF CarriesRequest
  <2>10. GateOrdered'
    BY <1>g, <2>1, <2>2, <2>3, <2>4, <2>6, <2>7, <2>8 DEF GateOrdered
  <2>q. QED
    BY <2>9, <2>10 DEF GateInv
<1>16. ASSUME NEW c \in Conns, NEW owners \in SUBSET Peers, pairing_set(c, owners) PROVE GateInv'
  <2> DEFINE me == PeerOf[c]
  <2>1. /\ pc[c] = "route" /\ me \in Peers
        /\ allow' = [allow EXCEPT ![me] = owners]
        /\ pc' = [pc EXCEPT ![c] = "reconcile"]
        /\ \A d \in Conns : d # c => arg'[d] = arg[d]
        /\ UNCHANGED <<room, requested, late, declined>>
    BY <1>16, <1>t DEF pairing_set, Goto
  <2>2. \A o \in Peers : Asking(o)' = Asking(o) /\ c \notin Asking(o)
    BY <2>1, <1>t DEF Asking
  <2>3. Pushing(me)' /\ \A m \in Peers : Pushing(m) => Pushing(m)'
    BY <2>1, <1>t DEF Pushing
  <2>4. \A o, m \in Peers : m # me => (Gated(o, m)' <=> Gated(o, m))
    BY <2>1, <1>t DEF Gated
  <2>5. \A o \in Peers : \A d \in Asking(o) : d # c => pc'[d] = pc[d] /\ arg'[d] = arg[d]
    BY <2>1, <1>t DEF Asking
  <2>6. \A d \in Conns : /\ overtaken[d] \subseteq overtaken'[d]
                         /\ pc[d] = "subscribe" /\ me \notin overtaken'[d] => allow' = allow
    BY <1>16, <1>t DEF pairing_set
  <2>7. \A o \in Peers : \A d \in Asking(o) : d \in Conns /\ pc[d] \in {"filter", "subscribe"}
    BY DEF Asking
  <2> HIDE DEF me
  <2>8. ASSUME NEW o \in Peers, NEW m \in Peers, NEW d \in Asking(o)', m \notin overtaken'[d]
        PROVE  m \in arg'[d] <=> IF pc'[d] = "filter" THEN m \in requested'[o]
                                                      ELSE Gated(o, m)'
    <3>1. /\ d \in Asking(o) /\ m \notin overtaken[d]
          /\ pc'[d] = pc[d] /\ arg'[d] = arg[d]
      BY <2>8, <2>2, <2>5, <2>6, <2>7
    <3>2. m \in arg[d] <=> IF pc[d] = "filter" THEN m \in requested[o] ELSE Gated(o, m)
      BY <1>g, <3>1 DEF CarriesRequest
    <3>3. pc[d] = "subscribe" => (Gated(o, m)' <=> Gated(o, m))
      BY <2>1, <2>4, <2>6, <2>7, <2>8, <3>1 DEF Gated
    <3>q. QED
      BY <2>1, <2>7, <3>1, <3>2, <3>3
  <2>9. CarriesRequest'
    BY <2>8 DEF CarriesRequest
  <2>10. GateOrdered'
    BY <1>g, <2>1, <2>2, <2>3, <2>4 DEF GateOrdered
  <2>q. QED
    BY <2>9, <2>10 DEF GateInv
<1>17. ASSUME NEW c \in Conns, Reconcile(c) PROVE GateInv'
  <2> DEFINE me == PeerOf[c]
             desired == {o \in Peers : me \in requested[o] /\ o \in arg[c]}
  <2>1. /\ pc[c] = "reconcile" /\ me \in Peers
        /\ pc' = [pc EXCEPT ![c] = "route"] /\ arg' = [arg EXCEPT ![c] = {}]
        /\ room' = reconcile_subscribers(room, me, desired)
        /\ declined' = {d \in declined : d[2] # me}
        /\ UNCHANGED <<requested, allow, overtaken>>
    BY <1>17, <1>t DEF Reconcile, Goto
  <2>2. \A o \in Peers : Asking(o)' = Asking(o) /\ c \notin Asking(o)
    BY <2>1, <1>t DEF Asking
  <2>3. \A m \in Peers : m # me => (Pushing(m)' <=> Pushing(m))
    BY <2>1, <1>t DEF Pushing
  <2>4. \A o, m \in Peers : Gated(o, m)' <=> Gated(o, m)
    BY <2>1 DEF Gated
  <2>5. \A o \in Peers : \A d \in Asking(o) : d # c => pc'[d] = pc[d] /\ arg'[d] = arg[d]
    BY <2>1, <1>t DEF Asking
  <2>6. \A o, m \in Peers : o \in room'.subscribers_of[m]
            <=> IF m = me THEN o \in desired ELSE o \in room.subscribers_of[m]
    BY <2>1, <1>t, SubscribersAfter
  <2>7. \A o \in Peers : <<o, me>> \notin late' => (o \in desired <=> Gated(o, me))
    <3>1. \A o \in Peers : <<o, me>> \notin late' => arg[c] = allow[me]
      BY <1>17, <2>1 DEF Reconcile
    <3>q. QED
      BY <3>1 DEF Gated
  <2>8. \A o, m \in Peers : m # me => /\ <<o, m>> \in late' <=> <<o, m>> \in late
                                      /\ <<o, m>> \in declined' <=> <<o, m>> \in declined
    BY <1>17, <2>1 DEF Reconcile
  <2> HIDE DEF me, desired
  <2>9. CarriesRequest'
    BY <1>g, <2>1, <2>2, <2>4, <2>5 DEF CarriesRequest
  <2>10. GateOrdered'
    BY <1>g, <2>2, <2>3, <2>4, <2>6, <2>7, <2>8 DEF GateOrdered
  <2>q. QED
    BY <2>9, <2>10 DEF GateInv
<1>18. ASSUME NEW c \in Conns, NEW ps \in SUBSET Peers, unsubscribe_rooms(c, ps) PROVE GateInv'
  <2> DEFINE me == PeerOf[c]
  <2>1. /\ me \in Peers
        /\ room' = unsubscribe(room, me, ps)
        /\ declined' = declined \cup ({me} \X ps)
        /\ UNCHANGED <<requested, allow, overtaken, late, pc, arg>>
    BY <1>18, <1>t DEF unsubscribe_rooms, task
  <2>2. \A o \in Peers : Asking(o)' = Asking(o)
    BY <2>1 DEF Asking
  <2>3. \A m \in Peers : Pushing(m)' <=> Pushing(m)
    BY <2>1 DEF Pushing
  <2>4. \A o, m \in Peers : Gated(o, m)' <=> Gated(o, m)
    BY <2>1 DEF Gated
  <2>5. \A o, m \in Peers : o \in room'.subscribers_of[m]
            <=> o \in room.subscribers_of[m] /\ ~ (o = me /\ m \in ps)
    BY <2>1, <1>t, SubscribersAfter
  <2>6. \A o, m \in Peers : <<o, m>> \notin declined' =>
            <<o, m>> \notin declined /\ ~ (o = me /\ m \in ps)
    BY <2>1
  <2> HIDE DEF me
  <2>7. CarriesRequest'
    BY <1>g, <2>1, <2>2, <2>4 DEF CarriesRequest
  <2>8. GateOrdered'
    BY <1>g, <2>1, <2>2, <2>3, <2>4, <2>5, <2>6 DEF GateOrdered
  <2>q. QED
    BY <2>7, <2>8 DEF GateInv
<1>19. ASSUME NEW c \in Conns, NEW m \in Peers, rooms_check(c, m) PROVE GateInv'
  BY <1>19, <1>t, <1>k DEF rooms_check, shared, task, history, Goto
<1>20. ASSUME NEW c \in Conns, unregister(c) PROVE GateInv'
  BY <1>20, <1>t, <1>k DEF unregister, shared, task, history, gate, Goto
<1>21. ASSUME NEW c \in Conns, RecordOffline(c) PROVE GateInv'
  BY <1>21, <1>t, <1>k DEF RecordOffline, shared, task, history, Goto
<1>22. ASSUME NEW c \in Conns, DropPresence(c) PROVE GateInv'
  BY <1>22, <1>t, <1>k DEF DropPresence, shared, task, history, Goto
<1>23. ASSUME NEW c \in Conns, DropRooms(c) PROVE GateInv'
  <2> DEFINE me == PeerOf[c]
  <2>1. /\ pc[c] = "unrooms" /\ me \in Peers
        /\ pc' = [pc EXCEPT ![c] = "unadvertise"]
        /\ room' = unsubscribe_all(room, me)
        /\ requested' = [requested EXCEPT ![me] = {}]
        /\ overtaken' = OvertakeAll(me)
        /\ late' = {l \in late : l[1] # me}
        /\ UNCHANGED <<allow, arg, declined>>
    BY <1>23, <1>t DEF DropRooms, Goto
  <2>2. \A o \in Peers : Asking(o)' = Asking(o) /\ c \notin Asking(o)
    BY <2>1, <1>t DEF Asking
  <2>3. \A m \in Peers : Pushing(m)' <=> Pushing(m)
    BY <2>1, <1>t DEF Pushing
  <2>4. /\ \A o \in Peers : o # me => requested'[o] = requested[o]
        /\ \A o, m \in Peers : o # me => (Gated(o, m)' <=> Gated(o, m))
        /\ \A m \in Peers : ~Gated(me, m)'
    BY <2>1, <1>t DEF Gated
  <2>5. \A o \in Peers : \A d \in Asking(o) : pc'[d] = pc[d] /\ arg'[d] = arg[d]
    BY <2>1, <1>t DEF Asking
  <2>6. \A o, m \in Peers : o \in room'.subscribers_of[m]
            <=> o \in room.subscribers_of[m] /\ o # me
    BY <2>1, <1>t, SubscribersAfterAll
  <2>7. /\ \A d \in Asking(me) : overtaken'[d] = Peers
        /\ \A o \in Peers : \A d \in Asking(o) : o # me => overtaken'[d] = overtaken[d]
    BY <2>1 DEF OvertakeAll, Asking
  <2>8. \A o, m \in Peers : o # me => (<<o, m>> \in late' <=> <<o, m>> \in late)
    BY <2>1
  <2> HIDE DEF me
  <2>9. CarriesRequest'
    BY <1>g, <2>2, <2>4, <2>5, <2>7 DEF CarriesRequest
  <2>10. GateOrdered'
    BY <1>g, <2>1, <2>2, <2>3, <2>4, <2>6, <2>8 DEF GateOrdered
  <2>q. QED
    BY <2>9, <2>10 DEF GateInv
<1>24. ASSUME NEW c \in Conns, Unadvertise(c) PROVE GateInv'
  BY <1>24, <1>t, <1>k DEF Unadvertise, shared, task, history, Goto
<1>26. ASSUME NEW c \in Conns, room_meta_update(c) PROVE GateInv'
  BY <1>26, <1>t, <1>k DEF room_meta_update, shared, task, history, Goto
<1>25. CASE UNCHANGED vars
  BY <1>25, <1>k DEF vars, shared, task, history
<1>q. QED
  BY HubConstants, <1>1, <1>2, <1>3, <1>4, <1>5, <1>6, <1>7, <1>8, <1>9, <1>10, <1>11, <1>12, <1>13,
     <1>14, <1>15, <1>16, <1>17, <1>18, <1>19, <1>20, <1>21, <1>22, <1>23, <1>24, <1>25, <1>26
     DEF Next, Connect, PresenceFrame, RoomFrame, Disconnect

\* The words under way and the beliefs of the clients.
ViewInv == OneWay /\ ToldOrWillBe

\* The points at which a task tells nobody anything.
Silent == Points \ {"announce", "announcing", "online", "onlining", "ended",
                    "ending", "offline", "offlining", "backfill", "backfillSend"}

\* A topic is a peer or a key, never both.
LEMMA TopicKinds ==
    \A d \in Conns : /\ PeerOf[d] \in Peers /\ PeerOf[d] \in Topics
                     /\ KeyOf(d) \in Topics /\ KeyOf(d) \notin Peers
                     /\ KeyOf(d)[1] = PeerOf[d]
BY HubConstants DEF Keys, KeyOf, Topics

\* A step that leaves the registry alone keeps the views right if it gives a task
\* no outdated word, and takes no word away from a client that needs it.
LEMMA ViewStep ==
    ASSUME OneWay, ToldOrWillBe,
           tracked' \in [Conns -> SUBSET Topics],
           live' = live, raced' = raced,
           \A c \in Conns : \A t \in tracked'[c] : c \in live /\ Watches(PeerOf[c], t)',
           \A c \in Conns : \A t \in tracked'[c] \ raced :
               \/ t \in tracked[c] /\ Belief(c, t)' = Belief(c, t)
               \/ Belief(c, t)' = "up" <=> Truth(t)
               \/ /\ Belief(c, t)' # "up"
                  /\ Truth(t) => \E d \in Conns : RisingTo(d, PeerOf[c], t)',
           \A d \in Conns : \A t \in Topics \ raced :
               /\ Rising(d, t)' => Rising(d, t) \/ Truth(t)
               /\ Falling(d, t)' => Falling(d, t),
           \A d, c \in Conns : \A t \in tracked'[c] \ raced :
               /\ (Truth(t) /\ RisingTo(d, PeerOf[c], t)) =>
                      RisingTo(d, PeerOf[c], t)' \/ Belief(c, t)' = "up"
               /\ FallingTo(d, PeerOf[c], t) =>
                      FallingTo(d, PeerOf[c], t)' \/ Belief(c, t)' # "up",
           \A d \in Conns : pc'[d] = "backfillSend" => \A x, y \in arg'[d] : x = y,
           \A d \in Conns : pc'[d] \in PresencePoints => offl'[d]
    PROVE  ViewInv'
<1>1. \A t : Truth(t)' <=> Truth(t)
  BY DEF Truth, Online, Open
<1>2. OneWay'
  BY <1>1 DEF OneWay
<1>3. ASSUME NEW c \in Conns, NEW t \in tracked'[c] \ raced PROVE Informed(c, t)'
  <2>1. CASE t \in tracked[c] /\ Belief(c, t)' = Belief(c, t)
    <3>1. Informed(c, t)
      BY <2>1, <1>3 DEF ToldOrWillBe
    <3>q. QED
      BY <2>1, <3>1, <1>1, <1>3 DEF Informed
  <2>2. CASE Belief(c, t)' = "up" <=> Truth(t)
    BY <2>2, <1>1 DEF Informed
  <2>3. CASE /\ Belief(c, t)' # "up"
             /\ Truth(t) => \E d \in Conns : RisingTo(d, PeerOf[c], t)'
    BY <2>3, <1>1 DEF Informed
  <2>q. QED
    BY <2>1, <2>2, <2>3, <1>3
<1>4. ToldOrWillBe'
  BY <1>3 DEF ToldOrWillBe
<1>q. QED
  BY <1>2, <1>4 DEF ViewInv

\* One task moves between points where it tells nobody anything.
LEMMA SilentTask ==
    ASSUME NEW c \in Conns, pc[c] \in Silent, pc'[c] \in Silent,
           \A d \in Conns \ {c} : /\ pc'[d] = pc[d] /\ todo'[d] = todo[d]
                                  /\ arg'[d] = arg[d] /\ offl'[d] = offl[d]
    PROVE  \A d \in Conns : \A s, t :
               /\ Rising(d, t)' <=> Rising(d, t)
               /\ Falling(d, t)' <=> Falling(d, t)
               /\ RisingTo(d, s, t)' <=> RisingTo(d, s, t)
               /\ FallingTo(d, s, t)' <=> FallingTo(d, s, t)
BY DEF Silent, Rising, Falling, RisingTo, FallingTo

\* A push changes what the clients of one peer believe of one topic.
LEMMA PushedBelief ==
    ASSUME FramesOK, NEW s \in Peers, NEW t \in Topics, NEW w \in {"up", "down"},
           forward_to_all_rooms_of(s, t, w), UNCHANGED seen
    PROVE  \A c \in Conns : \A x \in Topics :
               Belief(c, x)' = IF c \in live /\ PeerOf[c] = s /\ x = t THEN w
                                                              ELSE Belief(c, x)
BY DEF FramesOK, forward_to_all_rooms_of, Belief

\* A snapshot leaves a client with its word or with what is in the channel.
LEMMA ToldBelief ==
    ASSUME FramesOK, NEW c \in Conns, NEW ts, NEW f, UNCHANGED queued,
           seen' = [seen EXCEPT ![c] = [t \in Topics |-> IF t \in ts THEN f[t] ELSE @[t]]]
    PROVE  \A d \in Conns : \A t \in Topics :
               \/ Belief(d, t)' = Belief(d, t)
               \/ d = c /\ t \in ts /\ Belief(d, t)' = f[t]
BY DEF FramesOK, Belief

\* No step leaves a client that follows a topic without the truth about it.
LEMMA NextViews ==
    SharedOK /\ TaskOK /\ FramesOK /\ HistoryOK /\ HistoryOK' /\ IndexesAgree
        /\ RegistryFollowsTasks /\ ViewInv /\ [Next]_vars => ViewInv'
<1> SUFFICES ASSUME SharedOK, TaskOK, FramesOK, HistoryOK, HistoryOK', IndexesAgree,
                    RegistryFollowsTasks, ViewInv, [Next]_vars
             PROVE  ViewInv'
  OBVIOUS
<1>t. /\ PeerOf \in [Conns -> Peers] /\ Peers \cap Keys = {}
      /\ pres \in Graphs /\ room \in Graphs /\ Mirror(pres) /\ Mirror(room)
      /\ live \subseteq Conns
      /\ pc \in [Conns -> Points] /\ todo \in [Conns -> SUBSET Peers]
      /\ arg \in [Conns -> SUBSET Peers] /\ offl \in [Conns -> BOOLEAN]
      /\ tracked \in [Conns -> SUBSET Topics]
      /\ tracked' \in [Conns -> SUBSET Topics]
  BY HubConstants DEF SharedOK, TaskOK, IndexesAgree, HistoryOK
<1>v. OneWay /\ ToldOrWillBe
  BY DEF ViewInv
<1>b. \A d \in Conns : pc[d] = "backfillSend" => \A x, y \in arg[d] : x = y
  BY <1>v DEF OneWay
<1>o. \A d \in Conns : pc[d] \in PresencePoints => offl[d]
  BY <1>v DEF OneWay
\* Steps at silent points that tell nobody anything.
<1>s. ASSUME NEW c \in Conns, pc[c] \in Silent, pc'[c] \in Silent,
             \A d \in Conns \ {c} : /\ pc'[d] = pc[d] /\ todo'[d] = todo[d]
                                    /\ arg'[d] = arg[d] /\ offl'[d] = offl[d],
             UNCHANGED <<live, raced>>,
             \A d \in Conns : \A t \in tracked'[d] : d \in live /\ Watches(PeerOf[d], t)',
             \A d \in Conns : \A t \in tracked'[d] \ raced :
                 \/ t \in tracked[d] /\ Belief(d, t)' = Belief(d, t)
                 \/ Belief(d, t)' = "up" <=> Truth(t)
      PROVE  ViewInv'
  <2>1. \A d \in Conns : \A s, t :
               /\ Rising(d, t)' <=> Rising(d, t)
               /\ Falling(d, t)' <=> Falling(d, t)
               /\ RisingTo(d, s, t)' <=> RisingTo(d, s, t)
               /\ FallingTo(d, s, t)' <=> FallingTo(d, s, t)
    BY <1>s, SilentTask
  <2>2. \A d \in Conns : pc'[d] = "backfillSend" => \A x, y \in arg'[d] : x = y
    BY <1>s, <1>b DEF Silent
  <2>3. \A d \in Conns : pc'[d] \in PresencePoints => offl'[d]
    BY <1>s, <1>o DEF Silent, PresencePoints
  <2>q. QED
    BY <1>s, <1>t, <1>v, <2>1, <2>2, <2>3, ViewStep
\* Clients and graphs are as before.
<1>w. ASSUME UNCHANGED <<pres, room, tracked>>
      PROVE  \A d \in Conns : \A t \in tracked'[d] : d \in live /\ Watches(PeerOf[d], t)'
  BY <1>w, <1>v DEF ToldOrWillBe, Watches
<1>u. ASSUME UNCHANGED <<queued, seen>>
      PROVE  \A d, t : Belief(d, t)' = Belief(d, t)
  BY <1>u DEF Belief
\* Clients follow less.
<1>f. ASSUME NEW pg, NEW rg, pres' = pg, room' = rg,
             tracked' = [d \in Conns |-> Followed(d, pg, rg)]
      PROVE  /\ \A d \in Conns : \A t \in tracked'[d] : d \in live /\ Watches(PeerOf[d], t)'
             /\ \A d \in Conns : tracked'[d] \subseteq tracked[d]
  BY <1>f, <1>v DEF ToldOrWillBe, Watches, Followed
<1>1. ASSUME NEW c \in Conns, register(c) PROVE ViewInv'
  <2> DEFINE peerMoves == ~Online(PeerOf[c])
             roomMoves == ~Open(KeyOf(c))
  <2>1. /\ UNCHANGED <<pres, room, todo, arg>>
        /\ pc[c] = "new" /\ pc' = [pc EXCEPT ![c] = IF roomMoves THEN "announce" ELSE "advertise"]
        /\ offl' = [offl EXCEPT ![c] = peerMoves]
        /\ live' = live \cup {c}
    BY <1>1 DEF register, Goto
  <2>2. raced' = raced \cup Overlaps(PeerOf[c], peerMoves, KeyOf(c), roomMoves)
    BY <1>1 DEF register
  <2>3. \A d \in Conns \ {c} : pc'[d] = pc[d] /\ offl'[d] = offl[d]
    BY <2>1, <1>t
  <2>4. /\ pc'[c] = IF roomMoves THEN "announce" ELSE "advertise"
        /\ offl'[c] = peerMoves
    BY <2>1, <1>t
  <2>5. peerMoves => roomMoves
    BY <1>t DEF Online, Open, KeyOf
  <2>6. /\ \A p \in Peers : Online(p)' <=> (Online(p) \/ p = PeerOf[c])
        /\ \A k \in Keys : Open(k)' <=> (Open(k) \/ k = KeyOf(c))
    BY <2>1 DEF Online, Open
  <2>7. \A t \in Topics :
            \/ Truth(t)' <=> Truth(t)
            \/ t = PeerOf[c] /\ peerMoves /\ Truth(t)'
            \/ t = KeyOf(c) /\ roomMoves /\ Truth(t)'
    <3>1. \A t \in Topics \ Peers : t \in Keys
      BY DEF Topics
    <3>q. QED
      BY <2>6, <3>1, TopicKinds DEF Truth
  <2>8. /\ peerMoves /\ PeerOf[c] \notin raced' =>
               \A d \in Conns : ~Rising(d, PeerOf[c]) /\ ~Falling(d, PeerOf[c])
        /\ roomMoves /\ KeyOf(c) \notin raced' =>
               \A d \in Conns : ~Rising(d, KeyOf(c)) /\ ~Falling(d, KeyOf(c))
    <3>1. peerMoves /\ PeerOf[c] \notin raced' => ~PresencePushInFlight(PeerOf[c])
      BY <2>2 DEF Overlaps
    <3>2. roomMoves /\ KeyOf(c) \notin raced' => ~RoomPushInFlight(KeyOf(c))
      BY <2>2 DEF Overlaps
    <3>3. \A d \in Conns : \A t : t \in arg[d] => t \in Peers
      BY <1>t
    <3>q. QED
      BY <3>1, <3>2, <3>3, TopicKinds
         DEF PresencePushInFlight, RoomPushInFlight, Rising, Falling
  <2>9. raced \subseteq raced'
    BY <2>2
  <2>k. offl'[c] <=> peerMoves
    BY <2>4
  <2> HIDE DEF peerMoves, roomMoves
  <2>10. \A t \in Topics :
            /\ ~Rising(c, t) /\ ~Falling(c, t)
            /\ ~Falling(c, t)'
            /\ Rising(c, t)' <=>
                   ((t = PeerOf[c] /\ peerMoves) \/ (t = KeyOf(c) /\ roomMoves))
            /\ (t = PeerOf[c] /\ peerMoves) \/ (t = KeyOf(c) /\ roomMoves)
                   => \A s : RisingTo(c, s, t)'
    <3> SUFFICES ASSUME NEW t \in Topics
                 PROVE  /\ ~Rising(c, t) /\ ~Falling(c, t)
                        /\ ~Falling(c, t)'
                        /\ Rising(c, t)' <=>
                             ((t = PeerOf[c] /\ peerMoves) \/ (t = KeyOf(c) /\ roomMoves))
                        /\ (t = PeerOf[c] /\ peerMoves) \/ (t = KeyOf(c) /\ roomMoves)
                             => \A s : RisingTo(c, s, t)'
      OBVIOUS
    <3>1. ~Rising(c, t) /\ ~Falling(c, t) /\ ~Falling(c, t)'
      BY <2>1, <2>4 DEF Rising, Falling
    <3>2. Rising(c, t)' <=> (t = PeerOf[c] /\ peerMoves) \/ (t = KeyOf(c) /\ roomMoves)
      BY <2>4, <2>5, <2>k DEF Rising
    <3>3. (t = PeerOf[c] /\ peerMoves) \/ (t = KeyOf(c) /\ roomMoves) => \A s : RisingTo(c, s, t)'
      BY <2>4, <2>5, <2>k DEF RisingTo
    <3>q. QED
      BY <3>1, <3>2, <3>3
  <2>11. \A s, t : ~RisingTo(c, s, t) /\ ~FallingTo(c, s, t)
    BY <2>1 DEF RisingTo, FallingTo
  <2>12. \A d \in Conns \ {c} : \A s, t :
            /\ Rising(d, t)' <=> Rising(d, t)
            /\ Falling(d, t)' <=> Falling(d, t)
            /\ RisingTo(d, s, t)' <=> RisingTo(d, s, t)
            /\ FallingTo(d, s, t)' <=> FallingTo(d, s, t)
    BY <2>1, <2>3 DEF Rising, Falling, RisingTo, FallingTo
  <2>13. \A e \in Conns : \A t \in tracked'[e] :
            /\ t \in tracked[e] /\ e \in live' /\ Belief(e, t)' = Belief(e, t)
            /\ Watches(PeerOf[e], t)'
    <3>1. UNCHANGED <<pres, room, queued, seen, tracked>>
      BY <1>1 DEF register, frames
    <3>q. QED
      BY <3>1, <2>1, <1>v, <1>w DEF ToldOrWillBe, Belief
  <2>14. \A d \in Conns : pc'[d] = "backfillSend" => \A x, y \in arg'[d] : x = y
    BY <1>b, <2>1, <2>3, <2>4
  <2>z. \A d \in Conns : pc'[d] \in PresencePoints => offl'[d]
    BY <1>o, <2>3, <2>4 DEF PresencePoints
  <2>15. ASSUME NEW d \in Conns, NEW t \in Topics \ raced'
         PROVE  (Rising(d, t)' => Truth(t)') /\ (Falling(d, t)' => ~Truth(t)')
    <3>1. CASE d = c
      BY <3>1, <2>4, <2>6, <2>7, <2>10, TopicKinds DEF Truth, Keys
    <3>2. CASE d # c
      <4>1. (Rising(d, t) => Truth(t)) /\ (Falling(d, t) => ~Truth(t))
        BY <2>9, <1>v DEF OneWay
      <4>q. QED
        BY <3>2, <4>1, <2>7, <2>8, <2>12
    <3>q. QED
      BY <3>1, <3>2
  <2>16. ASSUME NEW e \in Conns, NEW t \in tracked'[e] \ raced'
         PROVE  Informed(e, t)'
    <3>0. Informed(e, t) /\ t \in Topics /\ Belief(e, t)' = Belief(e, t)
      BY <2>9, <2>13, <1>v, <1>t DEF ToldOrWillBe
    <3>1. CASE Truth(t)' <=> Truth(t)
      BY <3>0, <3>1, <2>11, <2>12 DEF Informed
    <3>2. CASE (t = PeerOf[c] /\ peerMoves) \/ (t = KeyOf(c) /\ roomMoves)
      BY <3>0, <3>2, <2>7, <2>10, <3>1 DEF Informed
    <3>q. QED
      BY <3>0, <3>1, <3>2, <2>7
  <2>17. OneWay'
    BY <2>14, <2>15, <2>z DEF OneWay
  <2>18. ToldOrWillBe'
    BY <2>13, <2>16 DEF ToldOrWillBe
  <2>q. QED
    BY <2>17, <2>18 DEF ViewInv
<1>2. ASSUME NEW c \in Conns, ReadRoomSubscribers(c) PROVE ViewInv'
  <2>1. UNCHANGED <<live, raced, pres, room, tracked, queued, seen, arg, offl>>
    BY <1>2 DEF ReadRoomSubscribers, shared, frames, history
  <2>2. \A d \in Conns \ {c} : pc'[d] = pc[d] /\ todo'[d] = todo[d]
    BY <1>2, <1>t DEF ReadRoomSubscribers, Goto
  <2>3. /\ pc[c] \in {"announce", "ended"}
        /\ todo'[c] = room.subscribers_of[PeerOf[c]]
        /\ pc'[c] = IF todo'[c] = {} THEN AfterRoomPushes(c)
                    ELSE IF pc[c] = "announce" THEN "announcing" ELSE "ending"
    BY <1>2, <1>t DEF ReadRoomSubscribers, Goto
  <2>4. \A d, t : Belief(d, t)' = Belief(d, t)
    BY <2>1, <1>u
  <2>5. \A d \in Conns : \A t \in tracked'[d] : d \in live /\ Watches(PeerOf[d], t)'
    BY <2>1, <1>w
  <2>6. \A d \in Conns : \A t \in Topics : /\ Rising(d, t)' => Rising(d, t)
                                           /\ Falling(d, t)' => Falling(d, t)
    BY <2>1, <2>2, <2>3, TopicKinds DEF Rising, Falling, AfterRoomPushes
  <2>7. \A e \in Conns : KeyOf(c) \in tracked[e] => PeerOf[e] \in todo'[c]
    BY <2>3, <1>t, <1>v, TopicKinds DEF ToldOrWillBe, Watches, Mirror
  <2>8. ASSUME NEW d \in Conns, NEW e \in Conns, NEW t \in tracked[e]
        PROVE  /\ RisingTo(d, PeerOf[e], t) => RisingTo(d, PeerOf[e], t)'
               /\ FallingTo(d, PeerOf[e], t) => FallingTo(d, PeerOf[e], t)'
    <3>1. CASE d # c
      BY <3>1, <2>1, <2>2 DEF RisingTo, FallingTo
    <3>2. CASE d = c
      BY <3>2, <2>1, <2>3, <2>7, TopicKinds DEF RisingTo, FallingTo, AfterRoomPushes
    <3>q. QED
      BY <3>1, <3>2
  <2>9. \A d \in Conns : pc'[d] = "backfillSend" => \A x, y \in arg'[d] : x = y
    BY <1>b, <2>1, <2>2, <2>3 DEF AfterRoomPushes
  <2>z. \A d \in Conns : pc'[d] \in PresencePoints => offl'[d]
    BY <1>o, <2>1, <2>2, <2>3 DEF AfterRoomPushes, PresencePoints
  <2>q. QED
    BY <1>t, <1>v, <2>z, <2>1, <2>4, <2>5, <2>6, <2>8, <2>9, ViewStep
<1>3. ASSUME NEW c \in Conns, NEW s \in Peers, PushRoom(c, s) PROVE ViewInv'
  <2> DEFINE w == Word(pc[c] = "announcing")
  <2>1. /\ UNCHANGED <<live, raced, pres, room, tracked, seen, arg, offl>>
        /\ forward_to_all_rooms_of(s, KeyOf(c), w)
    BY <1>3 DEF PushRoom, shared, history
  <2>2. \A d \in Conns \ {c} : pc'[d] = pc[d] /\ todo'[d] = todo[d]
    BY <1>3, <1>t DEF PushRoom, Goto
  <2>3. /\ pc[c] \in {"announcing", "ending"} /\ s \in todo[c]
        /\ todo'[c] = todo[c] \ {s}
        /\ pc'[c] = IF todo[c] = {s} THEN AfterRoomPushes(c) ELSE pc[c]
    BY <1>3, <1>t DEF PushRoom, Goto
  <2>4. w \in {"up", "down"} /\ (w = "up" <=> pc[c] = "announcing")
    BY DEF Word
  <2> HIDE DEF w
  <2>5. \A e \in Conns : \A x \in Topics :
            Belief(e, x)' = IF e \in live /\ PeerOf[e] = s /\ x = KeyOf(c) THEN w
                                                                  ELSE Belief(e, x)
    BY <2>1, <2>4, TopicKinds, PushedBelief
  <2>6. \A d \in Conns : \A t \in tracked'[d] : d \in live /\ Watches(PeerOf[d], t)'
    BY <2>1, <1>w
  <2>7. KeyOf(c) \notin raced /\ (\E e \in Conns : PeerOf[e] = s /\ KeyOf(c) \in tracked[e])
            => (w = "up" <=> Truth(KeyOf(c)))
    BY <2>3, <2>4, <1>v, <1>o, TopicKinds DEF OneWay, Rising, Falling, PresencePoints
  <2>8. \A d \in Conns : \A t \in Topics : /\ Rising(d, t)' => Rising(d, t)
                                           /\ Falling(d, t)' => Falling(d, t)
    BY <2>1, <2>2, <2>3, TopicKinds DEF Rising, Falling, AfterRoomPushes
  <2>9. ASSUME NEW d \in Conns, NEW e \in Conns, NEW t \in tracked[e] \ raced
        PROVE  /\ RisingTo(d, PeerOf[e], t) =>
                      RisingTo(d, PeerOf[e], t)' \/ Belief(e, t)' = "up"
               /\ FallingTo(d, PeerOf[e], t) =>
                      FallingTo(d, PeerOf[e], t)' \/ Belief(e, t)' # "up"
    <3>1. CASE d # c
      BY <3>1, <2>1, <2>2 DEF RisingTo, FallingTo
    <3>2. CASE d = c /\ t = KeyOf(c) /\ PeerOf[e] = s
      BY <3>2, <2>1, <2>3, <2>4, <2>5, <2>6, TopicKinds DEF RisingTo, FallingTo
    <3>3. CASE d = c /\ ~ (t = KeyOf(c) /\ PeerOf[e] = s)
      BY <3>3, <2>1, <2>3, TopicKinds DEF RisingTo, FallingTo, AfterRoomPushes
    <3>q. QED
      BY <3>1, <3>2, <3>3
  <2>10. \A d \in Conns : pc'[d] = "backfillSend" => \A x, y \in arg'[d] : x = y
    BY <1>b, <2>1, <2>2, <2>3 DEF AfterRoomPushes
  <2>z. \A d \in Conns : pc'[d] \in PresencePoints => offl'[d]
    BY <1>o, <2>1, <2>2, <2>3 DEF AfterRoomPushes, PresencePoints
  <2>11. \A e \in Conns : \A t \in tracked'[e] \ raced :
               \/ t \in tracked[e] /\ Belief(e, t)' = Belief(e, t)
               \/ Belief(e, t)' = "up" <=> Truth(t)
    BY <2>1, <2>5, <2>7, <1>t
  <2>q. QED
    BY <1>t, <1>v, <2>z, <2>1, <2>6, <2>8, <2>9, <2>10, <2>11, ViewStep
<1>4. ASSUME NEW c \in Conns, ReadPresenceSubscribers(c) PROVE ViewInv'
  <2>1. UNCHANGED <<live, raced, pres, room, tracked, queued, seen, arg, offl>>
    BY <1>4 DEF ReadPresenceSubscribers, shared, frames, history
  <2>2. \A d \in Conns \ {c} : pc'[d] = pc[d] /\ todo'[d] = todo[d]
    BY <1>4, <1>t DEF ReadPresenceSubscribers, Goto
  <2>3. /\ pc[c] \in {"online", "offline"}
        /\ todo'[c] = pres.subscribers_of[PeerOf[c]]
        /\ pc'[c] = IF todo'[c] = {} THEN AfterPresencePushes(c)
                    ELSE IF pc[c] = "online" THEN "onlining" ELSE "offlining"
    BY <1>4, <1>t DEF ReadPresenceSubscribers, Goto
  <2>4. \A d, t : Belief(d, t)' = Belief(d, t)
    BY <2>1, <1>u
  <2>5. \A d \in Conns : \A t \in tracked'[d] : d \in live /\ Watches(PeerOf[d], t)'
    BY <2>1, <1>w
  <2>6. \A d \in Conns : \A t \in Topics : /\ Rising(d, t)' => Rising(d, t)
                                           /\ Falling(d, t)' => Falling(d, t)
    BY <2>1, <2>2, <2>3, TopicKinds DEF Rising, Falling, AfterPresencePushes
  <2>7. \A e \in Conns : PeerOf[c] \in tracked[e] => PeerOf[e] \in todo'[c]
    BY <2>3, <1>t, <1>v, TopicKinds DEF ToldOrWillBe, Watches, Mirror
  <2>8. ASSUME NEW d \in Conns, NEW e \in Conns, NEW t \in tracked[e]
        PROVE  /\ RisingTo(d, PeerOf[e], t) => RisingTo(d, PeerOf[e], t)'
               /\ FallingTo(d, PeerOf[e], t) => FallingTo(d, PeerOf[e], t)'
    <3>1. CASE d # c
      BY <3>1, <2>1, <2>2 DEF RisingTo, FallingTo
    <3>2. CASE d = c
      BY <3>2, <2>1, <2>3, <2>7, TopicKinds DEF RisingTo, FallingTo, AfterPresencePushes
    <3>q. QED
      BY <3>1, <3>2
  <2>9. \A d \in Conns : pc'[d] = "backfillSend" => \A x, y \in arg'[d] : x = y
    BY <1>b, <2>1, <2>2, <2>3 DEF AfterPresencePushes
  <2>z. \A d \in Conns : pc'[d] \in PresencePoints => offl'[d]
    BY <1>o, <2>1, <2>2, <2>3 DEF AfterPresencePushes, PresencePoints
  <2>q. QED
    BY <1>t, <1>v, <2>z, <2>1, <2>4, <2>5, <2>6, <2>8, <2>9, ViewStep
<1>5. ASSUME NEW c \in Conns, NEW s \in Peers, PushPresence(c, s) PROVE ViewInv'
  <2> DEFINE w == Word(pc[c] = "onlining")
  <2>1. /\ UNCHANGED <<live, raced, pres, room, tracked, seen, arg, offl>>
        /\ forward_to_all_rooms_of(s, PeerOf[c], w)
    BY <1>5 DEF PushPresence, shared, history
  <2>2. \A d \in Conns \ {c} : pc'[d] = pc[d] /\ todo'[d] = todo[d]
    BY <1>5, <1>t DEF PushPresence, Goto
  <2>3. /\ pc[c] \in {"onlining", "offlining"} /\ s \in todo[c]
        /\ todo'[c] = todo[c] \ {s}
        /\ pc'[c] = IF todo[c] = {s} THEN AfterPresencePushes(c) ELSE pc[c]
    BY <1>5, <1>t DEF PushPresence, Goto
  <2>4. w \in {"up", "down"} /\ (w = "up" <=> pc[c] = "onlining")
    BY DEF Word
  <2> HIDE DEF w
  <2>5. \A e \in Conns : \A x \in Topics :
            Belief(e, x)' = IF e \in live /\ PeerOf[e] = s /\ x = PeerOf[c] THEN w
                                                                  ELSE Belief(e, x)
    BY <2>1, <2>4, TopicKinds, PushedBelief
  <2>6. \A d \in Conns : \A t \in tracked'[d] : d \in live /\ Watches(PeerOf[d], t)'
    BY <2>1, <1>w
  <2>7. PeerOf[c] \notin raced /\ (\E e \in Conns : PeerOf[e] = s /\ PeerOf[c] \in tracked[e])
            => (w = "up" <=> Truth(PeerOf[c]))
    BY <2>3, <2>4, <1>v, <1>o, TopicKinds DEF OneWay, Rising, Falling, PresencePoints
  <2>8. \A d \in Conns : \A t \in Topics : /\ Rising(d, t)' => Rising(d, t)
                                           /\ Falling(d, t)' => Falling(d, t)
    BY <2>1, <2>2, <2>3, TopicKinds DEF Rising, Falling, AfterPresencePushes
  <2>9. ASSUME NEW d \in Conns, NEW e \in Conns, NEW t \in tracked[e] \ raced
        PROVE  /\ RisingTo(d, PeerOf[e], t) =>
                      RisingTo(d, PeerOf[e], t)' \/ Belief(e, t)' = "up"
               /\ FallingTo(d, PeerOf[e], t) =>
                      FallingTo(d, PeerOf[e], t)' \/ Belief(e, t)' # "up"
    <3>1. CASE d # c
      BY <3>1, <2>1, <2>2 DEF RisingTo, FallingTo
    <3>2. CASE d = c /\ t = PeerOf[c] /\ PeerOf[e] = s
      BY <3>2, <2>1, <2>3, <2>4, <2>5, <2>6, TopicKinds DEF RisingTo, FallingTo
    <3>3. CASE d = c /\ ~ (t = PeerOf[c] /\ PeerOf[e] = s)
      BY <3>3, <2>1, <2>3, TopicKinds DEF RisingTo, FallingTo, AfterPresencePushes
    <3>q. QED
      BY <3>1, <3>2, <3>3
  <2>10. \A d \in Conns : pc'[d] = "backfillSend" => \A x, y \in arg'[d] : x = y
    BY <1>b, <2>1, <2>2, <2>3 DEF AfterPresencePushes
  <2>z. \A d \in Conns : pc'[d] \in PresencePoints => offl'[d]
    BY <1>o, <2>1, <2>2, <2>3 DEF AfterPresencePushes, PresencePoints
  <2>11. \A e \in Conns : \A t \in tracked'[e] \ raced :
               \/ t \in tracked[e] /\ Belief(e, t)' = Belief(e, t)
               \/ Belief(e, t)' = "up" <=> Truth(t)
    BY <2>1, <2>5, <2>7, <1>t
  <2>q. QED
    BY <1>t, <1>v, <2>z, <2>1, <2>6, <2>8, <2>9, <2>10, <2>11, ViewStep
<1>6. ASSUME NEW c \in Conns, Advertise(c) PROVE ViewInv'
  <2>1. /\ pc[c] \in Silent /\ pc'[c] \in Silent
        /\ \A d \in Conns \ {c} : /\ pc'[d] = pc[d] /\ todo'[d] = todo[d]
                               /\ arg'[d] = arg[d] /\ offl'[d] = offl[d]
    BY <1>6, <1>t DEF Advertise, task, Goto, Silent, Points
  <2>2. UNCHANGED <<live, raced, pres, room, tracked, queued, seen>>
    BY <1>6 DEF Advertise, shared, frames, history
  <2>3. \A d, t : Belief(d, t)' = Belief(d, t)
    BY <2>2, <1>u
  <2>4. \A d \in Conns : \A t \in tracked'[d] : d \in live /\ Watches(PeerOf[d], t)'
    BY <2>2, <1>w
  <2>q. QED
    BY <2>1, <2>2, <2>3, <2>4, <1>s
<1>7. ASSUME NEW c \in Conns, NEW t \in Topics, Deliver(c, t) PROVE ViewInv'
  <2>1. /\ pc[c] \in Silent /\ UNCHANGED <<pc, todo, arg, offl>>
        /\ UNCHANGED <<live, raced, pres, room, tracked>>
    BY <1>7 DEF Deliver, task, shared, history, Silent, Points
  <2>2. \A d \in Conns : \A x \in Topics : Belief(d, x)' = Belief(d, x)
    BY <1>7 DEF Deliver, Belief, FramesOK
  <2>3. \A d \in Conns : \A x \in tracked'[d] : d \in live /\ Watches(PeerOf[d], x)'
    BY <2>1, <1>w
  <2>q. QED
    BY <2>1, <2>2, <2>3, <1>s, <1>t
<1>8. ASSUME NEW c \in Conns, NEW ps \in SUBSET Peers, subscribe_presence(c, ps) PROVE ViewInv'
  <2> DEFINE me == PeerOf[c]
  <2>1. /\ UNCHANGED <<live, raced, room, queued, seen, arg, offl>>
        /\ pres' = subscribe(pres, me, ps)
        /\ tracked' = [d \in Conns |-> Followed(d, pres', room')
                          \cup {t \in ps : d \in live /\ PeerOf[d] = me /\ NotUp(d, t)}]
    BY <1>8 DEF subscribe_presence, frames
  <2>2. \A d \in Conns \ {c} : pc'[d] = pc[d] /\ todo'[d] = todo[d]
    BY <1>8, <1>t DEF subscribe_presence, Goto
  <2>3. /\ pc[c] = "route" /\ todo'[c] = ps
        /\ pc'[c] = IF ps = {} THEN "route" ELSE "backfill"
    BY <1>8, <1>t DEF subscribe_presence, Goto
  <2>4. \A d, t : Belief(d, t)' = Belief(d, t)
    BY <2>1, <1>u
  <2>5. \A t \in ps : Watches(me, t)'
    BY <2>1, <1>t DEF subscribe, Graphs, Watches
  <2>6. ASSUME NEW d \in Conns, NEW t \in tracked'[d]
        PROVE  /\ d \in live /\ Watches(PeerOf[d], t)'
               /\ t \in tracked[d] \/ (t \in ps /\ PeerOf[d] = me /\ Belief(d, t) # "up")
    <3>1. CASE t \in Followed(d, pres', room')
      BY <3>1, <1>v DEF Followed, ToldOrWillBe, Watches
    <3>2. CASE t \in ps /\ d \in live /\ PeerOf[d] = me /\ NotUp(d, t)
      BY <3>2, <2>5 DEF NotUp, Belief
    <3>q. QED
      BY <2>1, <3>1, <3>2
  <2>7. \A e \in Conns : PeerOf[e] = me => \A t \in ps : RisingTo(c, PeerOf[e], t)'
    BY <2>3 DEF RisingTo
  <2>8. \A d \in Conns : \A t \in Topics : /\ Rising(d, t)' => Rising(d, t)
                                           /\ Falling(d, t)' => Falling(d, t)
    BY <2>1, <2>2, <2>3 DEF Rising, Falling
  <2>9. \A d \in Conns : \A s, t : /\ RisingTo(d, s, t) => RisingTo(d, s, t)'
                                   /\ FallingTo(d, s, t) => FallingTo(d, s, t)'
    BY <2>1, <2>2, <2>3 DEF RisingTo, FallingTo
  <2>10. \A d \in Conns : pc'[d] = "backfillSend" => \A x, y \in arg'[d] : x = y
    BY <1>b, <2>1, <2>2, <2>3
  <2>z. \A d \in Conns : pc'[d] \in PresencePoints => offl'[d]
    BY <1>o, <2>1, <2>2, <2>3 DEF PresencePoints
  <2> HIDE DEF me
  <2>11. \A d \in Conns : \A t \in tracked'[d] \ raced :
               \/ t \in tracked[d] /\ Belief(d, t)' = Belief(d, t)
               \/ Belief(d, t)' = "up" <=> Truth(t)
               \/ /\ Belief(d, t)' # "up"
                  /\ Truth(t) => \E e \in Conns : RisingTo(e, PeerOf[d], t)'
    BY <2>4, <2>6, <2>7
  <2>q. QED
    BY <1>t, <1>v, <2>z, <2>1, <2>6, <2>8, <2>9, <2>10, <2>11, ViewStep
<1>9. ASSUME NEW c \in Conns, NEW p \in Peers, BackfillCheck(c, p) PROVE ViewInv'
  <2>1. UNCHANGED <<live, raced, pres, room, tracked, queued, seen, offl>>
    BY <1>9 DEF BackfillCheck, shared, frames, history
  <2>2. \A d \in Conns \ {c} : pc'[d] = pc[d] /\ todo'[d] = todo[d] /\ arg'[d] = arg[d]
    BY <1>9, <1>t DEF BackfillCheck, Goto
  <2>3. /\ pc[c] = "backfill" /\ p \in todo[c] /\ todo'[c] = todo[c] \ {p}
        /\ arg'[c] = IF Online(p) THEN {p} ELSE {}
        /\ Online(p) => pc'[c] = "backfillSend"
        /\ ~Online(p) => pc'[c] = IF todo[c] = {p} THEN "route" ELSE "backfill"
    BY <1>9, <1>t DEF BackfillCheck, Goto
  <2>4. \A d, t : Belief(d, t)' = Belief(d, t)
    BY <2>1, <1>u
  <2>5. \A d \in Conns : \A t \in tracked'[d] : d \in live /\ Watches(PeerOf[d], t)'
    BY <2>1, <1>w
  <2>6. Truth(p) <=> Online(p)
    BY DEF Truth
  <2>7. \A d \in Conns : \A t \in Topics : /\ Rising(d, t)' => Rising(d, t) \/ Truth(t)
                                           /\ Falling(d, t)' => Falling(d, t)
    BY <2>1, <2>2, <2>3, <2>6 DEF Rising, Falling
  <2>8. ASSUME NEW d \in Conns, NEW e \in Conns, NEW t \in tracked[e]
        PROVE  /\ Truth(t) /\ RisingTo(d, PeerOf[e], t) => RisingTo(d, PeerOf[e], t)'
               /\ FallingTo(d, PeerOf[e], t) => FallingTo(d, PeerOf[e], t)'
    <3>1. CASE d # c
      BY <3>1, <2>1, <2>2 DEF RisingTo, FallingTo
    <3>2. CASE d = c
      BY <3>2, <2>1, <2>3, <2>6 DEF RisingTo, FallingTo
    <3>q. QED
      BY <3>1, <3>2
  <2>9. \A d \in Conns : pc'[d] = "backfillSend" => \A x, y \in arg'[d] : x = y
    BY <1>b, <2>1, <2>2, <2>3
  <2>z. \A d \in Conns : pc'[d] \in PresencePoints => offl'[d]
    BY <1>o, <2>1, <2>2, <2>3 DEF PresencePoints
  <2>q. QED
    BY <1>t, <1>v, <2>z, <2>1, <2>4, <2>5, <2>7, <2>8, <2>9, ViewStep
<1>10. ASSUME NEW c \in Conns, NEW p \in Peers, BackfillSend(c, p) PROVE ViewInv'
  <2>1. /\ UNCHANGED <<live, raced, pres, room, tracked, seen, todo, offl>>
        /\ forward_to_all_rooms_of(PeerOf[c], p, "up")
    BY <1>10 DEF BackfillSend, shared, history
  <2>2. \A d \in Conns \ {c} : pc'[d] = pc[d] /\ arg'[d] = arg[d]
    BY <1>10, <1>t DEF BackfillSend, Goto
  <2>3. /\ pc[c] = "backfillSend" /\ p \in arg[c] /\ arg'[c] = {}
        /\ pc'[c] = IF todo[c] = {} THEN "route" ELSE "backfill"
    BY <1>10, <1>t DEF BackfillSend, Goto
  <2>4. \A x \in arg[c] : x = p
    BY <2>3, <1>b
  <2>5. \A e \in Conns : \A x \in Topics :
            Belief(e, x)' = IF e \in live /\ PeerOf[e] = PeerOf[c] /\ x = p THEN "up"
                                                                  ELSE Belief(e, x)
    BY <2>1, TopicFacts, TopicKinds, PushedBelief
  <2>6. \A d \in Conns : \A t \in tracked'[d] : d \in live /\ Watches(PeerOf[d], t)'
    BY <2>1, <1>w
  <2>7. p \notin raced => Truth(p)
    BY <2>3, <1>v, TopicFacts DEF OneWay, Rising
  <2>8. \A d \in Conns : \A t \in Topics : /\ Rising(d, t)' => Rising(d, t)
                                           /\ Falling(d, t)' => Falling(d, t)
    BY <2>1, <2>2, <2>3 DEF Rising, Falling
  <2>9. ASSUME NEW d \in Conns, NEW e \in Conns, NEW t \in tracked[e] \ raced
        PROVE  /\ RisingTo(d, PeerOf[e], t) =>
                      RisingTo(d, PeerOf[e], t)' \/ Belief(e, t)' = "up"
               /\ FallingTo(d, PeerOf[e], t) => FallingTo(d, PeerOf[e], t)'
    <3>1. CASE d # c
      BY <3>1, <2>1, <2>2 DEF RisingTo, FallingTo
    <3>2. CASE d = c /\ t = p /\ PeerOf[e] = PeerOf[c]
      BY <3>2, <2>1, <2>3, <2>5, <2>6, TopicFacts DEF RisingTo, FallingTo
    <3>3. CASE d = c /\ ~ (t = p /\ PeerOf[e] = PeerOf[c])
      BY <3>3, <2>1, <2>3, <2>4 DEF RisingTo, FallingTo
    <3>q. QED
      BY <3>1, <3>2, <3>3
  <2>10. \A d \in Conns : pc'[d] = "backfillSend" => \A x, y \in arg'[d] : x = y
    BY <1>b, <2>1, <2>2, <2>3
  <2>z. \A d \in Conns : pc'[d] \in PresencePoints => offl'[d]
    BY <1>o, <2>1, <2>2, <2>3 DEF PresencePoints
  <2>11. \A e \in Conns : \A t \in tracked'[e] \ raced :
               \/ t \in tracked[e] /\ Belief(e, t)' = Belief(e, t)
               \/ Belief(e, t)' = "up" <=> Truth(t)
    BY <2>1, <2>5, <2>7, <1>t
  <2>q. QED
    BY <1>t, <1>v, <2>z, <2>1, <2>6, <2>8, <2>9, <2>10, <2>11, ViewStep
<1>11. ASSUME NEW c \in Conns, NEW ps \in SUBSET Peers, unsubscribe_presence(c, ps) PROVE ViewInv'
  <2>1. /\ pc[c] \in Silent /\ pc'[c] \in Silent
        /\ \A d \in Conns \ {c} : /\ pc'[d] = pc[d] /\ todo'[d] = todo[d]
                               /\ arg'[d] = arg[d] /\ offl'[d] = offl[d]
    BY <1>11, <1>t DEF unsubscribe_presence, task, Goto, Silent, Points
  <2>2. /\ UNCHANGED <<live, raced, queued, seen>>
        /\ tracked' = [d \in Conns |-> Followed(d, pres', room')]
    BY <1>11 DEF unsubscribe_presence, frames
  <2>3. \A d, t : Belief(d, t)' = Belief(d, t)
    BY <2>2, <1>u
  <2>4. /\ \A d \in Conns : \A t \in tracked'[d] : d \in live /\ Watches(PeerOf[d], t)'
        /\ \A d \in Conns : tracked'[d] \subseteq tracked[d]
    BY <2>2, <1>f
  <2>q. QED
    BY <2>1, <2>2, <2>3, <2>4, <1>s
<1>12. ASSUME NEW c \in Conns, NEW ps \in SUBSET Peers, presence_check(c, ps) PROVE ViewInv'
  <2> DEFINE resp == [t \in ps |-> Word(Online(t))]
  <2>1. /\ pc[c] \in Silent /\ UNCHANGED <<pc, todo, arg, offl>>
        /\ UNCHANGED <<live, raced, pres, room, tracked, queued>>
        /\ seen' = [seen EXCEPT ![c] = [t \in Topics |-> IF t \in ps THEN resp[t] ELSE @[t]]]
    BY <1>12 DEF presence_check, task, shared, history, Silent, Points
  <2>2. \A t \in ps : resp[t] = "up" <=> Truth(t)
    BY DEF Word, Truth
  <2> HIDE DEF resp
  <2>3. \A d \in Conns : \A t \in Topics :
            Belief(d, t)' = Belief(d, t) \/ (Belief(d, t)' = "up" <=> Truth(t))
    BY <2>1, <2>2, ToldBelief
  <2>4. \A d \in Conns : \A t \in tracked'[d] : d \in live /\ Watches(PeerOf[d], t)'
    BY <2>1, <1>w
  <2>q. QED
    BY <2>1, <2>3, <2>4, <1>s, <1>t
<1>13. ASSUME NEW c \in Conns, NEW ps \in SUBSET Peers, subscribe_rooms(c, ps) PROVE ViewInv'
  <2>1. /\ pc[c] \in Silent /\ pc'[c] \in Silent
        /\ \A d \in Conns \ {c} : /\ pc'[d] = pc[d] /\ todo'[d] = todo[d]
                               /\ arg'[d] = arg[d] /\ offl'[d] = offl[d]
    BY <1>13, <1>t DEF subscribe_rooms, task, Goto, Silent, Points
  <2>2. UNCHANGED <<live, raced, pres, room, tracked, queued, seen>>
    BY <1>13 DEF subscribe_rooms, shared, frames, history
  <2>3. \A d, t : Belief(d, t)' = Belief(d, t)
    BY <2>2, <1>u
  <2>4. \A d \in Conns : \A t \in tracked'[d] : d \in live /\ Watches(PeerOf[d], t)'
    BY <2>2, <1>w
  <2>q. QED
    BY <2>1, <2>2, <2>3, <2>4, <1>s
<1>14. ASSUME NEW c \in Conns, FilterAllowed(c) PROVE ViewInv'
  <2>1. /\ pc[c] \in Silent /\ pc'[c] \in Silent
        /\ \A d \in Conns \ {c} : /\ pc'[d] = pc[d] /\ todo'[d] = todo[d]
                               /\ arg'[d] = arg[d] /\ offl'[d] = offl[d]
    BY <1>14, <1>t DEF FilterAllowed, task, Goto, Silent, Points
  <2>2. UNCHANGED <<live, raced, pres, room, tracked, queued, seen>>
    BY <1>14 DEF FilterAllowed, shared, frames, history
  <2>3. \A d, t : Belief(d, t)' = Belief(d, t)
    BY <2>2, <1>u
  <2>4. \A d \in Conns : \A t \in tracked'[d] : d \in live /\ Watches(PeerOf[d], t)'
    BY <2>2, <1>w
  <2>q. QED
    BY <2>1, <2>2, <2>3, <2>4, <1>s
<1>15. ASSUME NEW c \in Conns, SubscribeAllowed(c) PROVE ViewInv'
  <2>1. /\ pc[c] \in Silent /\ pc'[c] \in Silent
        /\ \A d \in Conns \ {c} : /\ pc'[d] = pc[d] /\ todo'[d] = todo[d]
                               /\ arg'[d] = arg[d] /\ offl'[d] = offl[d]
    BY <1>15, <1>t DEF SubscribeAllowed, task, Goto, Silent, Points
  <2>2. /\ UNCHANGED <<live, raced, queued, seen>>
        /\ tracked' = [d \in Conns |-> Followed(d, pres', room')]
    BY <1>15 DEF SubscribeAllowed, frames
  <2>3. \A d, t : Belief(d, t)' = Belief(d, t)
    BY <2>2, <1>u
  <2>4. /\ \A d \in Conns : \A t \in tracked'[d] : d \in live /\ Watches(PeerOf[d], t)'
        /\ \A d \in Conns : tracked'[d] \subseteq tracked[d]
    BY <2>2, <1>f
  <2>q. QED
    BY <2>1, <2>2, <2>3, <2>4, <1>s
<1>16. ASSUME NEW c \in Conns, NEW owners \in SUBSET Peers, pairing_set(c, owners) PROVE ViewInv'
  <2>1. /\ pc[c] \in Silent /\ pc'[c] \in Silent
        /\ \A d \in Conns \ {c} : /\ pc'[d] = pc[d] /\ todo'[d] = todo[d]
                               /\ arg'[d] = arg[d] /\ offl'[d] = offl[d]
    BY <1>16, <1>t DEF pairing_set, task, Goto, Silent, Points
  <2>2. UNCHANGED <<live, raced, pres, room, tracked, queued, seen>>
    BY <1>16 DEF pairing_set, shared, frames, history
  <2>3. \A d, t : Belief(d, t)' = Belief(d, t)
    BY <2>2, <1>u
  <2>4. \A d \in Conns : \A t \in tracked'[d] : d \in live /\ Watches(PeerOf[d], t)'
    BY <2>2, <1>w
  <2>q. QED
    BY <2>1, <2>2, <2>3, <2>4, <1>s
<1>17. ASSUME NEW c \in Conns, Reconcile(c) PROVE ViewInv'
  <2>1. /\ pc[c] \in Silent /\ pc'[c] \in Silent
        /\ \A d \in Conns \ {c} : /\ pc'[d] = pc[d] /\ todo'[d] = todo[d]
                               /\ arg'[d] = arg[d] /\ offl'[d] = offl[d]
    BY <1>17, <1>t DEF Reconcile, task, Goto, Silent, Points
  <2>2. /\ UNCHANGED <<live, raced, queued, seen>>
        /\ tracked' = [d \in Conns |-> Followed(d, pres', room')]
    BY <1>17 DEF Reconcile, frames
  <2>3. \A d, t : Belief(d, t)' = Belief(d, t)
    BY <2>2, <1>u
  <2>4. /\ \A d \in Conns : \A t \in tracked'[d] : d \in live /\ Watches(PeerOf[d], t)'
        /\ \A d \in Conns : tracked'[d] \subseteq tracked[d]
    BY <2>2, <1>f
  <2>q. QED
    BY <2>1, <2>2, <2>3, <2>4, <1>s
<1>18. ASSUME NEW c \in Conns, NEW ps \in SUBSET Peers, unsubscribe_rooms(c, ps) PROVE ViewInv'
  <2>1. /\ pc[c] \in Silent /\ pc'[c] \in Silent
        /\ \A d \in Conns \ {c} : /\ pc'[d] = pc[d] /\ todo'[d] = todo[d]
                               /\ arg'[d] = arg[d] /\ offl'[d] = offl[d]
    BY <1>18, <1>t DEF unsubscribe_rooms, task, Goto, Silent, Points
  <2>2. /\ UNCHANGED <<live, raced, queued, seen>>
        /\ tracked' = [d \in Conns |-> Followed(d, pres', room')]
    BY <1>18 DEF unsubscribe_rooms, frames
  <2>3. \A d, t : Belief(d, t)' = Belief(d, t)
    BY <2>2, <1>u
  <2>4. /\ \A d \in Conns : \A t \in tracked'[d] : d \in live /\ Watches(PeerOf[d], t)'
        /\ \A d \in Conns : tracked'[d] \subseteq tracked[d]
    BY <2>2, <1>f
  <2>q. QED
    BY <2>1, <2>2, <2>3, <2>4, <1>s
<1>19. ASSUME NEW c \in Conns, NEW m \in Peers, rooms_check(c, m) PROVE ViewInv'
  <2> DEFINE keys == {k \in Keys : k[1] = m}
             told == [k \in keys |-> Word(k \in {x \in keys : Open(x)})]
             new == {k \in keys : /\ m \in room.subscriptions_by[PeerOf[c]]
                                  /\ queued[c][k] = "none"}
  <2>1. /\ pc[c] \in Silent /\ UNCHANGED <<pc, todo, arg, offl>>
        /\ UNCHANGED <<live, raced, pres, room, queued>>
        /\ tracked' = [tracked EXCEPT ![c] = @ \cup new]
        /\ pc[c] = "route"
    BY <1>19 DEF rooms_check, task, shared, Silent, Points
  <2>2. seen' = [seen EXCEPT ![c] = [t \in Topics |-> IF t \in keys THEN told[t] ELSE @[t]]]
    <3>1. seen' = [seen EXCEPT ![c] = [t \in Topics |->
              IF t \in keys THEN Word(t \in {x \in keys : Open(x)}) ELSE @[t]]]
      BY <1>19 DEF rooms_check
    <3>2. \A t \in keys : told[t] = Word(t \in {x \in keys : Open(x)})
      OBVIOUS
    <3> HIDE DEF told
    <3>q. QED
      BY <3>1, <3>2
  <2>3. \A t \in keys : told[t] = "up" <=> Truth(t)
    BY <1>t DEF Word, Truth
  <2>4. \A t \in new : Belief(c, t)' = told[t]
    <3>1. new \subseteq keys /\ keys \subseteq Topics
      BY DEF Topics
    <3>2. \A t \in new : queued'[c][t] = "none" /\ seen'[c][t] = told[t]
      <4>1. seen \in [Conns -> [Topics -> Words]]
        BY DEF FramesOK
      <4> HIDE DEF told
      <4>q. QED
        BY <2>1, <2>2, <3>1, <4>1
    <3>q. QED
      BY <3>2 DEF Belief
  <2>5. \A t \in new : t \notin Peers /\ t[1] \in room.subscriptions_by[PeerOf[c]] /\ t \in keys
    BY <1>t
  <2>6. c \in live
    BY <2>1 DEF RegistryFollowsTasks, LivePoints
  <2> HIDE DEF keys, told, new
  <2>7. \A d \in Conns : \A t \in Topics :
            Belief(d, t)' = Belief(d, t) \/ (Belief(d, t)' = "up" <=> Truth(t))
    BY <2>1, <2>2, <2>3, ToldBelief
  <2>8. \A d \in Conns : \A t \in tracked'[d] : t \in tracked[d] \/ (d = c /\ t \in new)
    BY <2>1, <1>t
  <2>9. \A d \in Conns : \A t \in tracked'[d] : d \in live /\ Watches(PeerOf[d], t)'
    BY <2>1, <2>5, <2>6, <2>8, <1>v DEF ToldOrWillBe, Watches
  <2>10. \A d \in Conns : \A t \in tracked'[d] \ raced :
                 \/ t \in tracked[d] /\ Belief(d, t)' = Belief(d, t)
                 \/ Belief(d, t)' = "up" <=> Truth(t)
    BY <2>3, <2>4, <2>5, <2>7, <2>8, <1>t
  <2>q. QED
    BY <2>1, <2>9, <2>10, <1>s
<1>20. ASSUME NEW c \in Conns, unregister(c) PROVE ViewInv'
  <2> DEFINE peerMoves == \A d \in live \ {c} : PeerOf[d] # PeerOf[c]
             roomMoves == \A d \in live \ {c} : KeyOf(d) # KeyOf(c)
  <2>1. /\ UNCHANGED <<pres, room, todo, arg>>
        /\ pc[c] = "route" /\ pc' = [pc EXCEPT ![c] = IF roomMoves THEN "ended" ELSE "unrooms"]
        /\ offl' = [offl EXCEPT ![c] = peerMoves]
        /\ live' = live \ {c}
    BY <1>20 DEF unregister, Goto
  <2>2. raced' = raced \cup Overlaps(PeerOf[c], peerMoves, KeyOf(c), roomMoves)
    BY <1>20 DEF unregister
  <2>3. \A d \in Conns \ {c} : pc'[d] = pc[d] /\ offl'[d] = offl[d]
    BY <2>1, <1>t
  <2>4. /\ pc'[c] = IF roomMoves THEN "ended" ELSE "unrooms"
        /\ offl'[c] = peerMoves
    BY <2>1, <1>t
  <2>5. peerMoves => roomMoves
    BY <1>t DEF Online, Open, KeyOf
  <2>6. /\ \A p \in Peers : Online(p)' <=> (Online(p) /\ ~ (p = PeerOf[c] /\ peerMoves))
        /\ \A k \in Keys : Open(k)' <=> (Open(k) /\ ~ (k = KeyOf(c) /\ roomMoves))
    BY <2>1 DEF Online, Open
  <2>7. \A t \in Topics :
            \/ Truth(t)' <=> Truth(t)
            \/ t = PeerOf[c] /\ peerMoves /\ ~Truth(t)'
            \/ t = KeyOf(c) /\ roomMoves /\ ~Truth(t)'
    <3>1. \A t \in Topics \ Peers : t \in Keys
      BY DEF Topics
    <3>q. QED
      BY <2>6, <3>1, TopicKinds DEF Truth
  <2>8. /\ peerMoves /\ PeerOf[c] \notin raced' =>
               \A d \in Conns : ~Rising(d, PeerOf[c]) /\ ~Falling(d, PeerOf[c])
        /\ roomMoves /\ KeyOf(c) \notin raced' =>
               \A d \in Conns : ~Rising(d, KeyOf(c)) /\ ~Falling(d, KeyOf(c))
    <3>1. peerMoves /\ PeerOf[c] \notin raced' => ~PresencePushInFlight(PeerOf[c])
      BY <2>2 DEF Overlaps
    <3>2. roomMoves /\ KeyOf(c) \notin raced' => ~RoomPushInFlight(KeyOf(c))
      BY <2>2 DEF Overlaps
    <3>3. \A d \in Conns : \A t : t \in arg[d] => t \in Peers
      BY <1>t
    <3>q. QED
      BY <3>1, <3>2, <3>3, TopicKinds
         DEF PresencePushInFlight, RoomPushInFlight, Rising, Falling
  <2>9. raced \subseteq raced'
    BY <2>2
  <2>k. offl'[c] <=> peerMoves
    BY <2>4
  <2> HIDE DEF peerMoves, roomMoves
  <2>10. \A t \in Topics :
            /\ ~Rising(c, t) /\ ~Falling(c, t)
            /\ ~Rising(c, t)'
            /\ Falling(c, t)' <=>
                   ((t = PeerOf[c] /\ peerMoves) \/ (t = KeyOf(c) /\ roomMoves))
            /\ (t = PeerOf[c] /\ peerMoves) \/ (t = KeyOf(c) /\ roomMoves)
                   => \A s : FallingTo(c, s, t)'
    <3> SUFFICES ASSUME NEW t \in Topics
                 PROVE  /\ ~Rising(c, t) /\ ~Falling(c, t)
                        /\ ~Rising(c, t)'
                        /\ Falling(c, t)' <=>
                             ((t = PeerOf[c] /\ peerMoves) \/ (t = KeyOf(c) /\ roomMoves))
                        /\ (t = PeerOf[c] /\ peerMoves) \/ (t = KeyOf(c) /\ roomMoves)
                             => \A s : FallingTo(c, s, t)'
      OBVIOUS
    <3>1. ~Rising(c, t) /\ ~Falling(c, t) /\ ~Rising(c, t)'
      BY <2>1, <2>4 DEF Rising, Falling
    <3>2. Falling(c, t)' <=> (t = PeerOf[c] /\ peerMoves) \/ (t = KeyOf(c) /\ roomMoves)
      BY <2>4, <2>5, <2>k DEF Falling
    <3>3. (t = PeerOf[c] /\ peerMoves) \/ (t = KeyOf(c) /\ roomMoves) => \A s : FallingTo(c, s, t)'
      BY <2>4, <2>5, <2>k DEF FallingTo
    <3>q. QED
      BY <3>1, <3>2, <3>3
  <2>11. \A s, t : ~RisingTo(c, s, t) /\ ~FallingTo(c, s, t)
    BY <2>1 DEF RisingTo, FallingTo
  <2>12. \A d \in Conns \ {c} : \A s, t :
            /\ Rising(d, t)' <=> Rising(d, t)
            /\ Falling(d, t)' <=> Falling(d, t)
            /\ RisingTo(d, s, t)' <=> RisingTo(d, s, t)
            /\ FallingTo(d, s, t)' <=> FallingTo(d, s, t)
    BY <2>1, <2>3 DEF Rising, Falling, RisingTo, FallingTo
  <2>13. \A e \in Conns : \A t \in tracked'[e] :
            /\ t \in tracked[e] /\ e \in live' /\ Belief(e, t)' = Belief(e, t)
            /\ Watches(PeerOf[e], t)'
    <3>1. /\ tracked' = [tracked EXCEPT ![c] = {}]
          /\ queued' = [queued EXCEPT ![c] = Silence]
          /\ seen' = [seen EXCEPT ![c] = Silence]
      BY <1>20 DEF unregister
    <3>2. \A e \in Conns : \A t \in tracked'[e] : t \in tracked[e] /\ e # c
      BY <3>1, <1>t
    <3>3. \A e \in Conns \ {c} : queued'[e] = queued[e] /\ seen'[e] = seen[e]
      BY <3>1 DEF FramesOK
    <3>q. QED
      BY <3>2, <3>3, <2>1, <1>v DEF ToldOrWillBe, Belief, Watches
  <2>14. \A d \in Conns : pc'[d] = "backfillSend" => \A x, y \in arg'[d] : x = y
    BY <1>b, <2>1, <2>3, <2>4
  <2>z. \A d \in Conns : pc'[d] \in PresencePoints => offl'[d]
    BY <1>o, <2>3, <2>4 DEF PresencePoints
  <2>15. ASSUME NEW d \in Conns, NEW t \in Topics \ raced'
         PROVE  (Rising(d, t)' => Truth(t)') /\ (Falling(d, t)' => ~Truth(t)')
    <3>1. CASE d = c
      BY <3>1, <2>4, <2>6, <2>7, <2>10, TopicKinds DEF Truth, Keys
    <3>2. CASE d # c
      <4>1. (Rising(d, t) => Truth(t)) /\ (Falling(d, t) => ~Truth(t))
        BY <2>9, <1>v DEF OneWay
      <4>q. QED
        BY <3>2, <4>1, <2>7, <2>8, <2>12
    <3>q. QED
      BY <3>1, <3>2
  <2>16. ASSUME NEW e \in Conns, NEW t \in tracked'[e] \ raced'
         PROVE  Informed(e, t)'
    <3>0. Informed(e, t) /\ t \in Topics /\ Belief(e, t)' = Belief(e, t)
      BY <2>9, <2>13, <1>v, <1>t DEF ToldOrWillBe
    <3>1. CASE Truth(t)' <=> Truth(t)
      BY <3>0, <3>1, <2>11, <2>12 DEF Informed
    <3>2. CASE (t = PeerOf[c] /\ peerMoves) \/ (t = KeyOf(c) /\ roomMoves)
      BY <3>0, <3>2, <2>7, <2>10, <3>1 DEF Informed
    <3>q. QED
      BY <3>0, <3>1, <3>2, <2>7
  <2>17. OneWay'
    BY <2>14, <2>15, <2>z DEF OneWay
  <2>18. ToldOrWillBe'
    BY <2>13, <2>16 DEF ToldOrWillBe
  <2>q. QED
    BY <2>17, <2>18 DEF ViewInv
<1>21. ASSUME NEW c \in Conns, RecordOffline(c) PROVE ViewInv'
  <2>1. /\ pc[c] \in Silent /\ pc'[c] \in Silent
        /\ \A d \in Conns \ {c} : /\ pc'[d] = pc[d] /\ todo'[d] = todo[d]
                               /\ arg'[d] = arg[d] /\ offl'[d] = offl[d]
    BY <1>21, <1>t DEF RecordOffline, task, Goto, Silent, Points
  <2>2. UNCHANGED <<live, raced, pres, room, tracked, queued, seen>>
    BY <1>21 DEF RecordOffline, shared, frames, history
  <2>3. \A d, t : Belief(d, t)' = Belief(d, t)
    BY <2>2, <1>u
  <2>4. \A d \in Conns : \A t \in tracked'[d] : d \in live /\ Watches(PeerOf[d], t)'
    BY <2>2, <1>w
  <2>q. QED
    BY <2>1, <2>2, <2>3, <2>4, <1>s
<1>22. ASSUME NEW c \in Conns, DropPresence(c) PROVE ViewInv'
  <2>1. /\ pc[c] \in Silent /\ pc'[c] \in Silent
        /\ \A d \in Conns \ {c} : /\ pc'[d] = pc[d] /\ todo'[d] = todo[d]
                               /\ arg'[d] = arg[d] /\ offl'[d] = offl[d]
    BY <1>22, <1>t DEF DropPresence, task, Goto, Silent, Points
  <2>2. /\ UNCHANGED <<live, raced, queued, seen>>
        /\ tracked' = [d \in Conns |-> Followed(d, pres', room')]
    BY <1>22 DEF DropPresence, frames
  <2>3. \A d, t : Belief(d, t)' = Belief(d, t)
    BY <2>2, <1>u
  <2>4. /\ \A d \in Conns : \A t \in tracked'[d] : d \in live /\ Watches(PeerOf[d], t)'
        /\ \A d \in Conns : tracked'[d] \subseteq tracked[d]
    BY <2>2, <1>f
  <2>q. QED
    BY <2>1, <2>2, <2>3, <2>4, <1>s
<1>23. ASSUME NEW c \in Conns, DropRooms(c) PROVE ViewInv'
  <2>1. /\ pc[c] \in Silent /\ pc'[c] \in Silent
        /\ \A d \in Conns \ {c} : /\ pc'[d] = pc[d] /\ todo'[d] = todo[d]
                               /\ arg'[d] = arg[d] /\ offl'[d] = offl[d]
    BY <1>23, <1>t DEF DropRooms, task, Goto, Silent, Points
  <2>2. /\ UNCHANGED <<live, raced, queued, seen>>
        /\ tracked' = [d \in Conns |-> Followed(d, pres', room')]
    BY <1>23 DEF DropRooms, frames
  <2>3. \A d, t : Belief(d, t)' = Belief(d, t)
    BY <2>2, <1>u
  <2>4. /\ \A d \in Conns : \A t \in tracked'[d] : d \in live /\ Watches(PeerOf[d], t)'
        /\ \A d \in Conns : tracked'[d] \subseteq tracked[d]
    BY <2>2, <1>f
  <2>q. QED
    BY <2>1, <2>2, <2>3, <2>4, <1>s
<1>24. ASSUME NEW c \in Conns, Unadvertise(c) PROVE ViewInv'
  <2>1. /\ pc[c] \in Silent /\ pc'[c] \in Silent
        /\ \A d \in Conns \ {c} : /\ pc'[d] = pc[d] /\ todo'[d] = todo[d]
                               /\ arg'[d] = arg[d] /\ offl'[d] = offl[d]
    BY <1>24, <1>t DEF Unadvertise, task, Goto, Silent, Points
  <2>2. UNCHANGED <<live, raced, pres, room, tracked, queued, seen>>
    BY <1>24 DEF Unadvertise, shared, frames, history
  <2>3. \A d, t : Belief(d, t)' = Belief(d, t)
    BY <2>2, <1>u
  <2>4. \A d \in Conns : \A t \in tracked'[d] : d \in live /\ Watches(PeerOf[d], t)'
    BY <2>2, <1>w
  <2>q. QED
    BY <2>1, <2>2, <2>3, <2>4, <1>s
<1>26. ASSUME NEW c \in Conns, room_meta_update(c) PROVE ViewInv'
  <2>1. /\ pc[c] \in Silent /\ pc'[c] \in Silent
        /\ \A d \in Conns \ {c} : /\ pc'[d] = pc[d] /\ todo'[d] = todo[d]
                               /\ arg'[d] = arg[d] /\ offl'[d] = offl[d]
    BY <1>26, <1>t DEF room_meta_update, task, Goto, Silent, Points
  <2>2. UNCHANGED <<live, raced, pres, room, tracked, queued, seen>>
    BY <1>26 DEF room_meta_update, shared, frames, history
  <2>3. \A d, t : Belief(d, t)' = Belief(d, t)
    BY <2>2, <1>u
  <2>4. \A d \in Conns : \A t \in tracked'[d] : d \in live /\ Watches(PeerOf[d], t)'
    BY <2>2, <1>w
  <2>q. QED
    BY <2>1, <2>2, <2>3, <2>4, <1>s
<1>25. CASE UNCHANGED vars
  <2>1. /\ UNCHANGED <<live, raced, pres, room, tracked, queued, seen>>
        /\ UNCHANGED <<pc, todo, arg, offl>>
    BY <1>25 DEF vars, shared, task, frames, history
  <2>q. QED
    BY <2>1, <1>v DEF ViewInv, OneWay, ToldOrWillBe, Informed, Truth, Online, Open,
       Belief, Watches, Rising, Falling, RisingTo, FallingTo, PresencePoints
<1>q. QED
  BY HubConstants, <1>1, <1>2, <1>3, <1>4, <1>5, <1>6, <1>7, <1>8, <1>9, <1>10, <1>11, <1>12, <1>13,
     <1>14, <1>15, <1>16, <1>17, <1>18, <1>19, <1>20, <1>21, <1>22, <1>23, <1>24, <1>25, <1>26
     DEF Next, Connect, PresenceFrame, RoomFrame, Disconnect

\* The initial state satisfies the invariant.
LEMMA InitHubInv == Init => HubInv
<1> SUFFICES ASSUME Init PROVE HubInv
  OBVIOUS
<1>1. EmptyGraph \in Graphs /\ Mirror(EmptyGraph)
  BY DEF EmptyGraph, Graphs, Mirror
<1>2. SharedOK
  BY <1>1 DEF Init, SharedOK
<1>3. TaskOK
  <2>1. offl \in [Conns -> BOOLEAN]
    BY Zenon DEF Init
  <2>q. QED
    BY <2>1 DEF Init, TaskOK, Points
<1>4. FramesOK
  <2>1. /\ queued \in [Conns -> [Topics -> Words]]
        /\ seen \in [Conns -> [Topics -> Words]]
    BY TopicFacts DEF Init
  <2>2. lastPresence \in [Conns -> PresenceReplies]
    BY ReplyFacts DEF Init
  <2>3. lastRooms \in [Conns -> [Peers -> SUBSET SUBSET Keys]]
    BY DEF Init
  <2>q. QED
    BY <2>1, <2>2, <2>3 DEF FramesOK
<1>5. HistoryOK
  BY DEF Init, HistoryOK
<1>6. RegistryFollowsTasks
  BY DEF Init, RegistryFollowsTasks, LivePoints
<1>7. SubscriptionsOwned
  BY DEF Init, SubscriptionsOwned, EmptyGraph
<1>8. AdvertOwned
  BY DEF Init, AdvertOwned
<1>9. CarriesRequest /\ GateOrdered
  BY DEF Init, CarriesRequest, GateOrdered, Asking, Gated, EmptyGraph
<1>10. OneWay /\ ToldOrWillBe
  BY DEF Init, OneWay, ToldOrWillBe, Rising, Falling, PresencePoints
<1>q. QED
  BY <1>1, <1>2, <1>3, <1>4, <1>5, <1>6, <1>7, <1>8, <1>9, <1>10
     DEF Init, HubInv, TypeOK, IndexesAgree

\* The invariant of the hub: types, agreement of the two indexes of each
\* manager, an owner for every subscription and every advertised key, and what
\* the requests, pushes and frames under way still carry.
THEOREM HubInvariant == Spec => []HubInv
<1>1. HubInv /\ [Next]_vars => HubInv'
  BY NextShared, NextTask, NextFrames, NextHistory, NextIndexes,
     NextRegistry, NextOwned, NextAdvert, NextGate, NextViews
     DEF HubInv, GateInv, ViewInv, TypeOK
<1>q. QED
  BY InitHubInv, <1>1, PTL DEF Spec

\* presence.rs and rooms.rs never lose the agreement of their two indexes: a
\* disconnect, which trusts the reverse index, removes every trace of a peer.
THEOREM IndexAgreement == Spec => []IndexesAgree
<1>1. HubInv => IndexesAgree
  BY DEF HubInv
<1>q. QED
  BY HubInvariant, <1>1, PTL

\* When all handlers are done, a peer with no connection watches nothing and
\* has no recorded request, however its disconnects and reconnects interleaved.
THEOREM NoLeak == Spec => []NoLeakedSubscription
<1>1. HubInv => NoLeakedSubscription
  <2> SUFFICES ASSUME HubInv, Quiescent, NEW p \in Peers, ~Online(p)
               PROVE  /\ pres.subscriptions_by[p] = {}
                      /\ room.subscriptions_by[p] = {}
                      /\ requested[p] = {}
    BY DEF NoLeakedSubscription
  <2>1. \A d \in Conns : ~WillDropPresence(d) /\ ~WillDropRooms(d)
    BY DEF Quiescent, WillDropPresence, WillDropRooms
  <2>q. QED
    BY <2>1 DEF HubInv, SubscriptionsOwned
<1>q. QED
  BY HubInvariant, <1>1, PTL

\* When all handlers are done, no room without a connection is advertised to
\* peered relays, however the adds and removes of its connections interleaved.
THEOREM AdvertLive == Spec => []NoDeadAdvert
<1>1. HubInv => NoDeadAdvert
  <2> SUFFICES ASSUME HubInv, Quiescent, NEW k \in advert PROVE Open(k)
    BY DEF NoDeadAdvert
  <2>1. \A d \in Conns : ~WillUnadvertise(d)
    BY DEF Quiescent, WillUnadvertise, WillDropRooms
  <2>q. QED
    BY <2>1 DEF HubInv, AdvertOwned
<1>q. QED
  BY HubInvariant, <1>1, PTL

\* Once the handlers are done, a machine's room events go to exactly the peers
\* that asked and that it allows, unless the peer declined them or the last decision
\* was overtaken: a request between its locks by a change of the machine's list or
\* by another device of its owner, a push by a newer push.  The exception ends with
\* the next request of the owner and with the next push of the machine.
THEOREM RoomsSettled == Spec => []RoomsSettle
<1>1. HubInv => RoomsSettle
  <2> SUFFICES ASSUME HubInv, Quiescent, NEW o \in Peers, NEW m \in Peers,
                      <<o, m>> \notin late \cup declined
               PROVE  o \in room.subscribers_of[m] <=> Gated(o, m)
    BY DEF RoomsSettle, Gated
  <2>1. Asking(o) = {} /\ ~Pushing(m)
    BY DEF Quiescent, Asking, Pushing
  <2>q. QED
    BY <2>1 DEF HubInv, GateOrdered
<1>q. QED
  BY HubInvariant, <1>1, PTL

\* Once things settle, a client that follows a peer or a room believes what the
\* registry says: between subscribe, backfill, register and unregister no push is
\* lost and none comes too late, unless transitions of the topic overlapped.
THEOREM SettledViews == Spec => []SettledViewRight
<1>1. HubInv => SettledViewRight
  <2> SUFFICES ASSUME HubInv, Quiescent, NEW c \in live, NEW t \in tracked[c] \ raced
               PROVE  ToldRight(c, t)
    BY DEF SettledViewRight
  <2>1. c \in Conns /\ t \in Topics
    BY DEF HubInv, TypeOK, SharedOK, HistoryOK
  <2>2. \A d \in Conns : \A s, x : ~RisingTo(d, s, x) /\ ~FallingTo(d, s, x)
    BY DEF Quiescent, RisingTo, FallingTo
  <2>3. Belief(c, t) = seen[c][t]
    BY <2>1 DEF Quiescent, Belief
  <2>4. Informed(c, t)
    BY <2>1 DEF HubInv, ToldOrWillBe
  <2>q. QED
    BY <2>2, <2>3, <2>4 DEF Informed, ToldRight, Truth
<1>q. QED
  BY HubInvariant, <1>1, PTL
============================================================================
