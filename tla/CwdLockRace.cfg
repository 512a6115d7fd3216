\* Nobody dies and no probe times out: the steps of three attempts alone.
CONSTANTS
    p1 = p1
    p2 = p2
    p3 = p3
    Procs <- MCProcs
    NoFile = NoFile
    StaleFile = StaleFile
    ProbeMayTimeOut = FALSE
    MaxCrashes = 0
SPECIFICATION Spec
SYMMETRY Symmetry
INVARIANT
    MutualExclusion
