\* Two agents, two messages and a throw; one Owner with a record of
\* two spellings; one child of each kind; three processes at one lock path; one
\* phone and two conversations of a durable host.
CONSTANTS
    Talkers = {t1, t2}
    MaxSends = 2
    MaxTroubles = 1
    Principals = {o1}
    Spellings = {1, 2}
    MaxVersions = 2
    MaxPairings = 1
    MaxMishaps = 1
    InKids = {in1}
    OutKids = {out1}
    NoKid = NoKid
    MaxRooms = 3
    MaxBreaks = 1
    p1 = p1
    p2 = p2
    p3 = p3
    Procs <- ThreeProcs
    NoFile = NoFile
    StaleFile = StaleFile
    ProbeMayTimeOut = TRUE
    MaxCrashes = 2
    Phones = {ph1}
    MaxConvs = 2
    MaxDials = 3
    MaxShocks = 1
SPECIFICATION HostSpec
INVARIANTS
    OneConversation
    NoMutualWait
    ChildrenRight
    ExclusiveUnlessUnlinked
PROPERTIES
    HostReachable
    MailDrained
    RepairKept
    RevocationApplied
    ServedEventually
    RefusalJustified
    SelfHealing
CHECK_DEADLOCK FALSE
