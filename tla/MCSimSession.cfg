SPECIFICATION FairSpec
CONSTANTS
  EstopRamp = 2
  Turns = 1
  RampSteps = 2
  Warmup = 2
  Legs = 3
  BatchMax = 2
  PicoMax = 2
INVARIANTS
  StopMatchesMode
  HoldsHeading
  FollowsFreshReference
PROPERTY EngagedStopLands
CHECK_DEADLOCK FALSE
