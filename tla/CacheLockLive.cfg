SPECIFICATION FairSpec
CONSTANTS
    p1 = p1
    p2 = p2
    p3 = p3
    Procs <- MCPair
    Modes <- AllModes
    BodyEnds = {"done", "lockTimeout"}
    Careless <- MCSome
    Mortal <- MCSome
    Faulty <- MCNone
    Evicting = TRUE
    MaxCount = 2
PROPERTIES TimeoutEndsWaiting PollersProgress
CHECK_DEADLOCK FALSE
