CONSTANTS
  start = start
  a = a
  b = b
  finish = finish
  Nodes = {start, a, b, finish}
  NodeTypings <- MCTypings
  Candidates <- MCCandidates
  None = None
SPECIFICATION FairSpec
INVARIANT SortDecidesAcyclicity
INVARIANT StepLimitUnreached
PROPERTY WalkEnds
CHECK_DEADLOCK FALSE
