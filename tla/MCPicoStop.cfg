SPECIFICATION Spec
CONSTANTS
  EstopRamp = 2
  Turns = 1
  RampSteps = 2
  Warmup = 2
  Legs = 1
  BatchMax = 1
  PicoMax = 1
PROPERTY PicoStopEngages
CHECK_DEADLOCK FALSE
