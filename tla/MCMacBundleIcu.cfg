SPECIFICATION Spec
CONSTANTS
  Dylib <- MCDylib
  Stem <- MCStem
  Depth <- MCDepth
  Rank <- MCRank
  Icu = {"uc.78", "uc.78.1", "i18n.78"}
  Ext = "ext"
  Exe = "exe"
  Layouts <- MCLayouts
  Blind <- MCBlind
INVARIANT SelfContained
CHECK_DEADLOCK FALSE
