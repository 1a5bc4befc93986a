SPECIFICATION Spec
CONSTANTS
    p1 = p1
    p2 = p2
    p3 = p3
    Procs <- MCProcs
    Modes <- AllModes
    BodyEnds = {"done", "lockTimeout"}
    Careless <- MCNone
    Mortal <- MCSome
    Faulty <- MCPair
    Evicting = FALSE
    MaxCount = 2
INVARIANTS MutualExclusion CountersAreOwned
PROPERTIES ImplementsMutex
