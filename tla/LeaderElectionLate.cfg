\* Two processes at a path that is free or stale, and one rename.
CONSTANTS
    p1 = p1
    p2 = p2
    Procs <- TwoProcs
    Rejoins <- TwoRejoins
    MaxBinds = 4
    MaxAttempts = 2
    MaxBusy = 1
    Faulty <- FirstProc
    MaxFaults = 1
SPECIFICATION Spec
INVARIANT
    NoOrphanRegistration
CHECK_DEADLOCK FALSE
