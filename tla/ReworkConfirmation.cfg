SPECIFICATION ScreenSpec
CONSTANTS
  None = None
  centreA = centreA
  centreB = centreB
  techA1 = techA1
  techA2 = techA2
  techB1 = techB1
  Centres <- mcCentres
  Technicians <- mcOneEach
  CentreOf <- mcOneEachCentreOf
  RequestIds = {r1}
  MaxVisits = 2
  MaxAttempts = 2
  MaxReopens = 1
  MaxInactive = 0
INVARIANTS ReworkNeedsItsOwnConfirmation
