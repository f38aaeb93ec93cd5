SPECIFICATION Spec
CONSTANTS
  BaseFiles <- Files
  ProfileFiles <- Profiles
  Environments <- Variables
  Flags <- SomeFlags
INVARIANTS
  PrecedenceHolds
  ProductionGuarded
  
CHECK_DEADLOCK FALSE
