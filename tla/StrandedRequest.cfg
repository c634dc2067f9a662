SPECIFICATION StockSpec
CONSTANTS
  Absent = Absent
  centreA = centreA
  centreB = centreB
  w1 = w1
  w2 = w2
  Centres <- mcCentres
  Workers <- mcWorkers
  RequestIds = {r1}
  UsageIds = {}
  MaxQuantity = 1
  MaxStock = 1
SYMMETRY mcStockSymmetry
INVARIANT WaitingRequestsAreHeld
