----------------------------- MODULE MCRelayHub ----------------------------
(***************************************************************************)
(* Instances of RelayHub for TLC: one owner watching one machine.          *)
(***************************************************************************)
EXTENDS RelayHub, TLC

CONSTANTS owner, machine,       \* the two keys
          o1, o2, m1, m2,       \* their connections
          r1                    \* a room

MCPeers == {owner, machine}

\* Who sends what: the owner's clients watch the machine, the machine pushes
\* its allow-list.
OwnerSends(lists) == (owner :> lists) @@ (machine :> {})
MachineSends(lists) == (owner :> {}) @@ (machine :> lists)
WatchMachine == OwnerSends({{}, {machine}})
AskForRooms == OwnerSends({{machine}})
AllowOwner == MachineSends({{}, {owner}})
CheckMachine == OwnerSends({machine})
Quiet == [p \in MCPeers |-> {}]

\* One device of the owner, two connections of the machine in one room.
MachineConns == {o1, m1, m2}
MachinePeerOf == (o1 :> owner) @@ (m1 :> machine) @@ (m2 :> machine)
MachineRoomOf == [c \in MachineConns |-> r1]

\* Two devices of the owner, one connection of the machine.
DeviceConns == {o1, o2, m1}
DevicePeerOf == (o1 :> owner) @@ (o2 :> owner) @@ (m1 :> machine)
DeviceRoomOf == [c \in DeviceConns |-> r1]

\* A client follows presence or rooms, one at a time: a step never leads to a
\* state with traces of both.
Heard(ts) ==
    \E c \in Conns, t \in ts :
        seen[c][t] # "none" \/ queued[c][t] # "none" \/ t \in tracked[c]
PresenceTraces ==
    \/ pres # EmptyGraph \/ Heard(Peers)
    \/ \E c \in Conns : \/ lastPresence[c] # NoReply
                         \/ pc[c] \in {"onlining", "offlining", "backfill", "backfillSend"}
RoomTraces ==
    \/ room # EmptyGraph \/ declined # {} \/ late # {} \/ Heard(Keys)
    \/ \E p \in Peers : requested[p] # {} \/ allow[p] # {}
    \/ \E c \in Conns : pc[c] \in {"announcing", "ending"}
\* The metadata of a room is updated while nobody has followed anything yet.
MetaFirst ==
    \A c \in Conns : pc[c] = "route" /\ pc'[c] = "advertise" => ~ PresenceTraces /\ ~ RoomTraces
OneKindAtATime == ~ (PresenceTraces /\ RoomTraces)' /\ MetaFirst

\* Connections with the same key and room are interchangeable.
MachineSymmetry == Permutations({m1, m2})
DeviceSymmetry == Permutations({o1, o2})
============================================================================
