\* A robot without the VELOCITY stack.
CONSTANTS
  VelocityStack = FALSE
  Settle = 3
SPECIFICATION BridgeFairSpec

INVARIANTS ReleasedDamped NoStaleTarget
PROPERTIES TargetReachesMotors
