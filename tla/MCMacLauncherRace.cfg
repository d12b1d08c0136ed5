SPECIFICATION Spec
CONSTANTS
  Launcher = {p1, p2}
  Lib = {libA, libB}
  GoneLib = {}
  Absent = Absent
  NoLib = NoLib
  MaxLaunches = 1
INVARIANT LaunchBindsOwnPython
CHECK_DEADLOCK FALSE
