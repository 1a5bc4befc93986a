SPECIFICATION MCSpec
CONSTANTS
    MCParts = {"delivery"}
    task = task
    resend1 = resend1
    u1 = u1
    u2 = u2
    Task = task
    Resends = {resend1}
    Recipients = {u1, u2}
    Kinds <- MCOverlap
    ProviderNo <- MCProviderNo
    Price <- MCPrice
    Mortal = {}
    n1 = n1
    p1 = p1
    p2 = p2
    Planned = {n1}
    At <- MCAt
    Pages = {p1, p2}
    Ahead = 4
    Starts <- MCStarts
    MaxTime = 5
    MaxReloads = 1
INVARIANTS OneReport
CHECK_DEADLOCK FALSE
