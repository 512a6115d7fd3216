\* Two processes at a path that is free or stale, and one fault; a launcher
\* with two failures and one edit that nobody writes to.
CONSTANTS
    p1 = p1
    p2 = p2
    phone = phone
    Procs <- TwoProcs
    Rejoins <- TwoRejoins
    MaxBinds = 4
    MaxAttempts = 2
    MaxBusy = 1
    Faulty <- FirstProc
    MaxFaults = 1
    Devices = {phone}
    Asks = {}
    AskedBy <- OneDevice
    MaxDials = 3
    MaxFailures = 2
    MaxEdits = 1
SPECIFICATION MachineSpec
INVARIANT
    ElectionInv
PROPERTIES
    BusyLeaderKept
    Converges
    Reconnects
    LauncherReachable
CHECK_DEADLOCK FALSE
