SPECIFICATION Spec
CONSTANTS
  Leg = {"linux313", "linux314"}
  Tested = {"linux314"}
  Wheel = {"cp313", "cp314"}
  LegOf <- MCLegOf
  Asked = {0, 2}
  MaxRuns = 2
  MaxVersion = 3
  MaxReruns = 1
INVARIANTS
  TypeOK
  TestedTogether
  CodeIsTagged
  VersionsFollowHistory
  PushIsPublished
PROPERTY PublicationSpec
CHECK_DEADLOCK FALSE
