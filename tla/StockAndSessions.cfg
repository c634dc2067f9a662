SPECIFICATION mcSpec
CONSTANTS
  None = None
  u1 = u1
  c1 = c1
  c2 = c2
  s1 = s1
  s2 = s2
  s3 = s3
  Users = {u1}
  Calls = {c1, c2}
  Sids = {s1, s2}
  MaxSessions = 1
  MaxAttempts = 2
  MaxChanges = 1
  MaxTime = 1
  Rehashing = FALSE
  Absent = Absent
  centreA = centreA
  centreB = centreB
  w1 = c1
  w2 = c2
  Centres <- mcCentres
  Workers = {c1, c2}
  RequestIds = {request1}
  UsageIds = {s1, s2}
  MaxQuantity = 1
  MaxStock = 1
CONSTRAINT mcOneKind
SYMMETRY mcBothSymmetry
INVARIANTS StockIsAccountedFor DeskOffersWhatIsAccepted GuessesAreCapped ChangeEndsSessions SessionsAreCapped
PROPERTIES EndedSessionsStayEnded KeepsLedger
