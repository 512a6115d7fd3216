\* Two peers of one folder, 3 joins, 1 rename; one dialog of either kind; two
\* tool calls in up to 4 entries; 3 entries of two sizes and a move of the leaf;
\* one plan source and one agent; a launcher and one command, one failure and one
\* edit; two photos, a prompt and a command of pi's own; a process of each kind
\* that resolves the machine's key, one mint and one upset.
CONSTANTS
    p1 = p1
    p2 = p2
    x = x
    y = y
    phone = phone
    dir = dir
    NoCwd = NoCwd
    None = None
    Procs <- BothProcs
    Bases <- TwoBases
    Tight <- TightBases
    Cwds <- TwoCwds
    Cwd <- CwdOf
    First <- FirstName
    Takeover <- TakesOver
    MaxPeers = 2
    MaxSuffix = 2
    MaxJoins = 3
    MaxRenames = 1
    Owners = {c1}
    Stocks = {s1}
    Flows = {f1}
    TextDialogs = {s1}
    NoDialog = NoDialog
    MaxOpens = 1
    MaxSyncs = 2
    MaxUiFaults = 1
    Calls = {k1, k2}
    MaxEntries = 4
    MaxInputs = 1
    MaxApps = 1
    MaxBlocks = 1
    MaxLog = 3
    Sizes = {1, 3}
    Budget = 2
    MaxPages = 6
    MaxTurns = 1
    Sources = {n1}
    Nodes = {r1}
    Agents = {g1}
    MaxEvents = 3
    MaxLate = 1
    MaxLosses = 1
    Devices = {phone}
    Asks = {q1}
    AskedBy <- OneDevice
    MaxDials = 2
    MaxFailures = 1
    MaxEdits = 1
    Prompts = {i1, i2, q2, s2}
    Photos = {i1, i2}
    Slashes = {s2}
    NoTurn = NoTurn
    LocalTurn = LocalTurn
    KeychainUsers = {chain1}
    FileUsers = {file1}
    Daemons = {daemon1}
    CoreKeyring = TRUE
    MaxMints = 1
    MaxUpsets = 1
SPECIFICATION ViewsSpec
INVARIANTS
    RosterInv
    CountSettles
    NameSettles
    SyncedViewRight
    LiveRight
    HistoryMeetsLive
    PanelsRight
    LaunchRight
    PromptsRight
PROPERTIES
    NoTheft
    SafeMint
CHECK_DEADLOCK FALSE
