SPECIFICATION Spec
CONSTANTS
  Launcher = {p1, p2, p3}
  Lib = {libA, libB}
  GoneLib = {libX}
  Absent = Absent
  NoLib = NoLib
  MaxLaunches = 2
SYMMETRY Symmetry
INVARIANTS
  TypeOK
  SoloLaunch
  OnePython
CHECK_DEADLOCK FALSE
