SPECIFICATION FairSpec
CONSTANTS
  p1 = p1
  m1 = m1
  Replicas = {p1}
  Commands = {m1}
  Enabled = {"events", "temporal", "grpc", "database"}
  MayEnd = TRUE
  MaxDeliver = 2
  ShutdownTimeout = 2
  WorkerStopTimeout = 1
  MaxFaults = 2
  MaxRestarts = 1
INVARIANTS
  NoUseAfterClose
  NothingLeftRunning
PROPERTIES
  CommandsSettle
  StopsEnd
CHECK_DEADLOCK FALSE
