SPECIFICATION StudySpec
CONSTANTS
  Interface = {"one", "two"}
  Driver = {"d", "e"}
  Drivers <- MCDrivers
  run = run
  simulate = simulate
  Callable = {run, simulate}
  Dict <- MCDict
  Junk = Junk
  Nothing = Nothing
  MaxStudies = 2
INVARIANTS
  StudyTypeOK
  OwnCallback
  DictIsMap
CHECK_DEADLOCK FALSE
