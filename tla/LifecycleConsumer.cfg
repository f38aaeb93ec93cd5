SPECIFICATION FairSpec
CONSTANTS
  p1 = p1
  m1 = m1
  Replicas = {p1}
  Commands = {m1}
  Enabled = {"events", "temporal", "grpc", "database"}
  MayEnd = TRUE
  MaxDeliver = 2
  ShutdownTimeout = 2
  WorkerStopTimeout = 1
  MaxFaults = 1
  MaxRestarts = 0
PROPERTIES
  PublishedIsSettled
CHECK_DEADLOCK FALSE
