SPECIFICATION Spec
CONSTANTS
    p1 = p1
    p2 = p2
    p3 = p3
    Procs <- MCProcs
    Modes <- AllModes
    BodyEnds = {"done", "lockTimeout"}
    Careless <- MCNone
    Mortal <- MCNone
    Faulty <- MCNone
    Evicting = FALSE
    MaxCount = 2
INVARIANTS NoLockAnymore

