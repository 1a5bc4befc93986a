SPECIFICATION MCSpec
CONSTANTS
    u1 = u1
    e1 = e1
    e2 = e2
    r1 = r1
    r2 = r2
    c1 = c1
    c2 = c2
    Users = {u1}
    Emails = {e1, e2}
    Address <- MCAddress
    None = None
    Requests = {r1, r2}
    Delta = 1
    Validity = 1
    MaxTime = 3
    MaxRequests = 4
    People = {1, 2, 3}
    Projects = {"ours", "theirs"}
    Ours = "ours"
    FullNames = {1, 2}
    States = {"on", "off"}
    PageSize = 2
    MaxChanges = 2
    Chars = {"1", "a", "b", "s"}
    Keys <- MCKeys
    Labels <- MCLabels
    Delimiter = "s"
    Persons = {"ann", "bob", "root"}
    Admins = {"root"}
    Ids = {1, 2}
    Calls = {c1, c2}
SYMMETRY MCSymmetry
INVARIANTS RowIsAsAsked CacheIsRow CodesAreMailed TableIsRight OwnersFindTheirRoles
CHECK_DEADLOCK FALSE
