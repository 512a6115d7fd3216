\* A device of an owner that asks for the rooms of a machine, and the machine that
\* pushes its list meanwhile.
CONSTANTS
    owner = owner
    machine = machine
    o1 = o1
    o2 = o2
    m1 = m1
    m2 = m2
    r1 = r1
    Peers <- MCPeers
    Conns <- DeviceConns
    PeerOf <- DevicePeerOf
    RoomOf <- DeviceRoomOf
    PresenceLists <- Quiet
    RoomLists <- AskForRooms
    RoomChecks <- Quiet
    AllowLists <- AllowOwner
SPECIFICATION Spec
INVARIANTS
    RoomsOrderIndependent
