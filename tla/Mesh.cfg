\* A bridge over one of two relays; one message between three agents on two
\* machines; two machines that learn each other's rosters.
CONSTANTS
    a1 = a1
    a2 = a2
    b1 = b1
    site1 = site1
    site2 = site2
    Clients = {c1, c2}
    Owners = {o1}
    NoClient = NoClient
    MaxDrops = 1
    MaxCommands = 2
    MaxPairs = 1
    MaxHandlers = 1
    Relays = {r1, r2}
    NoRelay = NoRelay
    MaxMoves = 4
    MaxLosses = 1
    Agents <- ThreeAgents
    Machine <- TwoMachines
    Leads <- TwoLeads
    Ids = {1}
    MaxDeliveryFaults = 2
    Sites <- TwoSites
    Peers = {x, y}
    Labels = {L}
    MaxWire = 1
    MaxQueue = 2
    MaxChanges = 2
SPECIFICATION MeshSpec
INVARIANTS
    LinkInv
    BridgeInv
    OnlySiblingsKnown
PROPERTIES
    RevokedOwnerDropped
    ComesBack
    BridgeComesUp
    PromiseKept
    RosterConverges
CHECK_DEADLOCK FALSE
