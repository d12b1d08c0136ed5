SPECIFICATION Spec
CONSTANTS
  Wheel = {w1}
  MaxRuns = 1
INVARIANT CorruptIsSwapped
CHECK_DEADLOCK FALSE
