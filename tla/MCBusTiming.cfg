CONSTANTS
  Delay = 10
  SuspendTime <- SpecSuspendTime
  ResumeTime <- SpecResumeTime
  ResetTime <- SpecResetTime
SPECIFICATION FairSpec
INVARIANTS
  TypeOK
  ClockWhileBusInUse
PROPERTIES
  ResumeHandledInTime
  EventsHandled
