\* BVH teleoperation over one-place topics, both loops fair.
CONSTANTS
  Provider = "bvh"
  VelocityStack = FALSE
  MocapEntryEnabled = TRUE
  CheckFrames = 0
  StartupRamp = 1
  ReturnRamp = 1
  EstopRamp = 1
  Capacity = 1
  Duration = 1
  PauseOnEnd = TRUE
  RemoteInputs <- ClipKeys
  EventTuples <- NoEvents
SPECIFICATION BvhFairSpec
CHECK_DEADLOCK FALSE

INVARIANTS FinishedClipStaysPaused
PROPERTIES ClipWaitsForRobot PausedClipPausesSession
