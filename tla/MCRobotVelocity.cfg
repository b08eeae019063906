\* A Pico 4 robot with the VELOCITY stack, its loop fair.
CONSTANTS
  Provider = "pico4"
  VelocityStack = TRUE
  MocapEntryEnabled = TRUE
  CheckFrames = 0
  StartupRamp = 1
  ReturnRamp = 1
  EstopRamp = 1
  Capacity = 1
  RemoteInputs <- VelocityKeys
  EventTuples <- VelocityEvents
SPECIFICATION FairSpec
CHECK_DEADLOCK FALSE
INVARIANTS RequestOnlyInStanding NeverDrivesLatched
PROPERTIES ImplementsTeleopModes EstopEndsVelocity
