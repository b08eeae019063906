\* The hand workers over one-place topics, the loops fair.
CONSTANTS
  RobotModes <- AllModes
  TriggerModes <- Triggered
  OpenModes <- OpenedIn
  Sessions = 2
  Capacity = 1
SPECIFICATION FairSpec
CHECK_DEADLOCK FALSE

INVARIANTS FailureLeavesHandsOpen
PROPERTIES RestsWhenLeft DeadmanOpens
