SPECIFICATION mcSpec
CONSTANTS
  None = None
  ann = ann
  bob = bob
  tab1 = tab1
  tab2 = tab2
  r1 = r1
  r2 = r2
  Persons = {ann, bob}
  Tabs = {tab1, tab2}
  Requests = {r1, r2}
  KindOf <- mcKindOf
  MaxPairs = 2
  v1 = v1
  v2 = v2
  e1 = e1
  e2 = e2
  s1 = s1
  s2 = s2
  both = both
  text = text
  Releases = {v1, v2}
  Files = {e1, e2, s1, s2, both, text}
  Named <- mcNamed
  Inner <- mcInner
  Built <- mcBuilt
  Nothing = Nothing
  MaxDeploys = 2
  MaxLoads = 3
  asha = asha
  ravi = ravi
  x1 = x1
  y1 = y1
  Customers = {asha, ravi}
  Addresses <- mcAddresses
  HomeOf <- mcHomeOf
  Unlisted <- mcUnlisted
  Models = {x1, y1}
  ProductOf <- mcProductOf
  Unset = Unset
INVARIANT NewCacheIsNewPersons
CHECK_DEADLOCK FALSE
