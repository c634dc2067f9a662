SPECIFICATION mcSpec
CONSTANTS
  c1 = c1
  c2 = c2
  m1 = m1
  m2 = m2
  pune = pune
  nagpur = nagpur
  centre1 = centre1
  up1 = up1
  up2 = up2
  photo1 = photo1
  k1 = k1
  k2 = k2
  k3 = k3
  Absent = Absent
  Calls = {c1, c2}
  Mobiles = {m1, m2}
  Cities = {pune, nagpur}
  Codes = {centre1}
  MaxYear = 1
  Uploaders = {up1, up2}
  Photos = {photo1}
  Keys = {k1, k2, k3}
  MaxTrips = 2
  MaxRequests = 3
  None = None
  Rules <- mcRules
  Readers = {r1}
  MaxTime = 5
SYMMETRY mcSymmetry
INVARIANTS VerdictIsTrue SnapshotAgrees LateIsLateEverywhere NumbersAreConsecutive NothingHalfMade StrandedIsReported FilesHaveTheirRows
PROPERTIES TimelyResponseStands
CHECK_DEADLOCK FALSE
