\* Pico teleoperation, both loops fair.
CONSTANTS
  Provider = "pico4"
  VelocityStack = FALSE
  MocapEntryEnabled = TRUE
  CheckFrames = 1
  StartupRamp = 1
  ReturnRamp = 1
  EstopRamp = 1
  Capacity = 2
  Warmup = 1
  RemoteInputs <- EntryKeys
  EventTuples <- NoEvents
SPECIFICATION PicoFairSpec
CHECK_DEADLOCK FALSE

INVARIANTS SessionOwnsRetargeter
PROPERTIES EntryIsAnswered
