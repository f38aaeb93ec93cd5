SPECIFICATION FairSpec
CONSTANTS
  r1 = r1
  r2 = r2
  k1 = k1
  ann = ann
  bob = bob
  patch = patch
  other = other
  whole = whole
  Requests = {r1, r2}
  Workloads <- MCWorkloads
  Keys = {k1}
  NoKey = NoKey
  BadKey = BadKey
  NoSubject = NoSubject
  NoCall = NoCall
  SkipOps = {"ListTasks"}
  PSKOps = {"GetTask"}
  Errors = {"forbidden"}
  FailOpen = FALSE
  Outages = {"redis"}
  Revocable <- AnnMayClaim
  RequestTimeout = 2
  ClientDeadline = 2
  ProcessingTTL = 2
  ResultTTL = 1
  FailureTTL = 1
INVARIANTS
  ExclusiveCommit
  OneEffectPerKey
  RecordTellsTruth
  ReplayIsOwn
  OnlyEntitledServed
  OmissionHasNoEffect
PROPERTY KeySettles
CHECK_DEADLOCK FALSE
