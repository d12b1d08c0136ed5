SPECIFICATION Spec
CONSTANTS
  Wheel = {w1, w2}
  MaxRuns = 2
SYMMETRY Symmetry
INVARIANTS
  TypeOK
  UploadSound
  GateThorough
CHECK_DEADLOCK FALSE
