SPECIFICATION Spec
CONSTANTS
  Lib <- MCLib
  System = {"libc"}
  Icu = {"icuuc", "icuio"}
  IcuListed = {"icuuc"}
  Regex = "regex"
  Dashed <- MCDashed
  Begins <- MCBegins
  Unversioned = {"dakota_src"}
  First <- MCFirst
  Needs <- MCNeeds
  RootNeeds <- MCRootNeeds
  PkgDir <- MCPkgDir
INVARIANTS
  TypeOK
  AllResolve
  SearchPathsLead
  RecordExact
CHECK_DEADLOCK FALSE
