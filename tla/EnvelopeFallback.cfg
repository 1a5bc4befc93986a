SPECIFICATION MCSpec
CONSTANTS
    MCParts = {"envelope"}
    r1 = r1
    r2 = r2
    r3 = r3
    Requests <- MCRequests
    Calls <- MCCalls
    Threads = 2
    Own = Own
    Aggregation = 2
    Limit = 0
    Minute = 2
    Pause = 1
    Visibility = 1
    Buffer = 0
    Mortal = {r2}
    MaxTime = 2
    u1 = u1
    u2 = u2
    a1 = a1
    a2 = a2
    l1 = l1
    Users = {u1, u2}
    Addresses = {a1, a2}
    Numbers = {"+38641", "0038641", "41"}
    Spelling <- MCSpelling
    Senders = {"s1", "s2"}
    SystemSender = "system"
    Nothing = Nothing
    Letters = {l1}
    Forms <- MCShort
    Origins <- MCFallback
    MaxEdits = 1
INVARIANTS PhonelessAreMailed
