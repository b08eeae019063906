\* A Pico 4 robot without the VELOCITY stack.
CONSTANTS
  Provider = "pico4"
  VelocityStack = FALSE
  MocapEntryEnabled = TRUE
  CheckFrames = 2
  StartupRamp = 2
  ReturnRamp = 1
  EstopRamp = 1
  Capacity = 1
  RemoteInputs <- TeleopKeys
  EventTuples <- TeleopEvents
SPECIFICATION Spec
CHECK_DEADLOCK FALSE
INVARIANTS MotorsFollowMode MocapRunsOnPostArmReference PauseEndsWithMocap
PROPERTIES LimpOnlyAfterDamping NoHardStart
