SPECIFICATION ReportsSpec
CONSTANTS
  None = None
  centreA = centreA
  centreB = centreB
  techA1 = techA1
  techA2 = techA2
  techB1 = techB1
  Centres <- mcCentres
  Technicians <- mcOneEach
  CentreOf <- mcOneEachCentreOf
  RequestIds = {r1}
  MaxVisits = 3
  MaxAttempts = 2
  MaxReopens = 1
  MaxInactive = 0
INVARIANTS TypeOK TechnicianWorksForHolder WaitingRequestsFollowComplaint ClosedOnConfirmation RatingJudgesStandingClosure FiguresAddUp TilesOpenWhatTheyCount
PROPERTIES EndedVisitsStand KeepsLifecycle
CONSTRAINT OneThingAtATime
SYMMETRY mcSwapped
CHECK_DEADLOCK FALSE
