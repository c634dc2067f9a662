SPECIFICATION Spec
CONSTANTS
  None = None
  Rules <- mcRules
  Readers = {r1}
  MaxTime = 5
INVARIANT BreachedTileOpensWhatItCounts
