CONSTANTS
  c1 = c1 c2 = c2 c3 = c3 r1 = r1 k1 = k1 k2 = k2
  Calls = {c1, c2, c3}
  Resources = {r1}
  Containers = {k1, k2}
  Accounts = {a1, a2}
  NoRegion = NoRegion
  Missing = Missing
  NoStore = NoStore
  NoCall = NoCall
  MaxChanges = 1
  Asked <- OneResource
  CanLose = {c1}
SPECIFICATION FairSpec
CHECK_DEADLOCK FALSE
INVARIANTS TypeOK OneStorePerKey OneAccountPerResource SuccessIsReal
PROPERTIES CallsEnd
