\* A normal exit from VELOCITY while the emergency stop ramps.
CONSTANTS
  Provider = "pico4"
  VelocityStack = TRUE
  MocapEntryEnabled = FALSE
  CheckFrames = 1
  StartupRamp = 1
  ReturnRamp = 1
  EstopRamp = 1
  Capacity = 1
  RemoteInputs <- StartKey
  EventTuples <- VelocityEvents
SPECIFICATION Spec
CHECK_DEADLOCK FALSE
INVARIANTS NormalExitAbortsRamp
