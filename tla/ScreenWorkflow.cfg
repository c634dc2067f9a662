SPECIFICATION mcSpec
CONSTANTS
  None = None
  centreA = centreA
  centreB = centreB
  techA1 = techA1
  techA2 = techA2
  techB1 = techB1
  Centres <- mcCentres
  Technicians <- mcTechnicians
  CentreOf <- mcCentreOf
  RequestIds = {}
  MaxVisits = 2
  MaxAttempts = 1
  MaxReopens = 1
  MaxInactive = 1
INVARIANTS WordsAreTheirOwn AlarmsAreExplained OpenVisitHasItsHolder WorkUnderReviewIsCredited ClockFollowsWork OfferedIsAccepted SomebodyIsOffered NothingWaitsUnseen ToldIsOnThePage
PROPERTY DraftsOutliveTrouble
SYMMETRY mcSymmetry
CHECK_DEADLOCK FALSE
