CONSTANTS
  Touches <- SomeTouches
  MaxChanges = 1
SPECIFICATION FairSpec
PROPERTIES
  ReportWasHeld
  BarWasHeld
  HeldPositionReported
  LedsFollowSwitch
