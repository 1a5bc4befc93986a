SPECIFICATION Spec
CONSTANTS
  a = a
  b = b
  p = p
  q = q
  Users = {a, b}
  Staff = {a}
  Projects = {p, q}
  ProjectsOf <- MCProjectsOf
  NoUser = NoUser
  NoProject = NoProject
  MaxEvents = 3
  MaxFaults = 1
  MaxBusy = 1
  Requests = {r1, r2, r3}
  Slots = 2
  Span = 2
  Hour = 4
  NoRequest = NoRequest
  MaxTime = 8
  Writers = {w1, w2, w3, w4}
  Full = 1
  OldRecord = OldRecord
  People = {u, v}
  Tags = {t}
  Calls = {c1, c2, c3}
  NoNames = NoNames
  MaxChanges = 1
  Channels = {"SMS", "EMail"}
  Price <- MCPrice
  ShortTexts <- MCTexts
  MaxCopies = 2
  TopUp = 7
  NoReport = NoReport
  MaxEntries = 4
  MaxPolls = 3
  Readers = {d1, d2}
  Timeout = 1
  MaxVersions = 2
  MaxClock = 3
  Owners = {u, v}
  Nobody = Nobody
  Validity = 1
  MaxRequests = 4
  MaxHours = 1
  MaxIssued = 5
  MaxUnanswered = 2
  MaxOthers = 1
  Tabs = {t1, t2}
  MaxCodes = 2
  MaxTyped = 3
INVARIANTS
  PageAgrees
  ViewIsComplete
  NewestSurvive
  MessageFollowsResend
  LicenceIsRight
  CopiesAreRecent
  CodeResetsItsUser
  QuestionsAreRight
  AskedCanAnswer
PROPERTY PageSettles
CHECK_DEADLOCK FALSE
