\* The reconnect of a machine overtaking the end of its last connection.
CONSTANTS
    owner = owner
    machine = machine
    o1 = o1
    o2 = o2
    m1 = m1
    m2 = m2
    r1 = r1
    Peers <- MCPeers
    Conns <- MachineConns
    PeerOf <- MachinePeerOf
    RoomOf <- MachineRoomOf
    PresenceLists <- WatchMachine
    RoomLists <- Quiet
    RoomChecks <- Quiet
    AllowLists <- Quiet
SPECIFICATION Spec
SYMMETRY MachineSymmetry
INVARIANTS
    OfflineNeverWrong
