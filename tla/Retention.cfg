SPECIFICATION FairSpec
CONSTANTS
  h1 = h1
  h2 = h2
  i1 = i1
  c1 = c1
  c2 = c2
  Rows = {h1, h2}
  Instances = {i1}
  instanceOf <- AllOfOne
  Cleaners = {c1, c2}
  TaskHistoryRetention = 0
  DefaultRetention = 1
  CleanupBatchSize = 0
  DefaultBatchSize = 1
  Ends = {"cancelled"}
  MaxClock = 3
  MaxFaults = 1
INVARIANTS
  OnlyExpiredRemoved
  TrailLosesOldestFirst
PROPERTY ExpiredEventuallyRemoved
CHECK_DEADLOCK FALSE
