SPECIFICATION FairRepair
CONSTANTS
  Name <- MCName
  File <- MCFile
  NoFile = NoFile
  NameOf <- MCNameOf
  BaseOf <- MCBaseOf
  Dashed <- MCFile
  Rank <- MCRank
  InScripts = {"scripts/d"}
  System = {"sys"}
  VenvPython = {"py"}
  ImportSets <- MCImportSets
INVARIANTS
  TypeOK
  RepairTypeOK
  ExeLoads
  WorkListInv
  ExitTruth
PROPERTIES
  BundleSpec
  Terminates
CHECK_DEADLOCK FALSE
