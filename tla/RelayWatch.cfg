\* A machine that comes and goes on two connections and grants and revokes
\* access, watched by an owner.
CONSTANTS
    owner = owner
    machine = machine
    o1 = o1
    o2 = o2
    m1 = m1
    m2 = m2
    r1 = r1
    Peers <- MCPeers
    Conns <- MachineConns
    PeerOf <- MachinePeerOf
    RoomOf <- MachineRoomOf
    PresenceLists <- WatchMachine
    RoomLists <- AskForRooms
    RoomChecks <- CheckMachine
    AllowLists <- AllowOwner
SPECIFICATION Spec
ACTION_CONSTRAINT OneKindAtATime
SYMMETRY MachineSymmetry
INVARIANTS
    HubInv
    SettledViewRight
    NoDeadAdvert
