SPECIFICATION Spec
CONSTANTS
    anna = anna
    bert = bert
    carl = carl
    dora = dora
    k1 = k1
    k2 = k2
    k3 = k3
    k4 = k4
    e1 = e1
    e2 = e2
    e3 = e3
    b1 = b1
    b2 = b2
    c1 = c1
    c2 = c2
    Users <- MCUsers
    Emails = {e1, e2, e3}
    Address <- MCAddress
    Rows = {k1, k2, k3, k4}
    Held <- MCHeld
    Browsers = {b1, b2}
    Calls = {c1, c2}
    MaxCalls = 4
    Main = main
    Other = other
    None = none
    Staff = {anna, bert}
    Listed <- MCListed
    Grouped <- MCGrouped
SYMMETRY MCSymmetry
INVARIANTS MergesAreRight JoiningIsRight
CHECK_DEADLOCK FALSE
