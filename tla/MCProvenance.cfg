SPECIFICATION Spec
CONSTANTS
  PatchSet <- MCPatchSet
  NPatch = 3
  Bindings = 2
  Rejected <- MCRejected
  Parameters <- MCParameters
  Upstream <- MCUpstream
  Leg = {gate, other, mac}
  GateLeg = gate
  ScanLeg = other
  LinuxLeg = {gate, other}
  MaxRuns = 2
  Root <- MCRoot
  Base <- MCBase
INVARIANTS
  SourceTypeOK
  SbomTypeOK
  TreeOfCommit
  StubGate
  AugmentOnce
  ScanConsistent
  SnapshotComplete
  SnapshotOfCommit
CHECK_DEADLOCK FALSE
