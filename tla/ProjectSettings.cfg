SPECIFICATION FairSpec
CONSTANTS
    r1 = r1
    r2 = r2
    a = a
    b = b
    c = c
    Names = {"email", "sms"}
    EmailSender = "email"
    SmsSender = "sms"
    Values <- MCValues
    Default = a
    Wanted <- MCWanted
    NoValue = NoValue
    Requests <- MCRequests
    MaxEdits = 2
INVARIANTS SettingsAreRight
PROPERTIES ProposalSettles
