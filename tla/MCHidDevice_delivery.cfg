CONSTANTS
  EpSize = 8
  MaxTrans = 1023
  Reports = {p0, p1}
  Center = p0
  NumConfig = 1
  ReportSize = 2
  FifoSize = 4
  HostRequests <- PlainRequests
SPECIFICATION FairSpec
PROPERTIES
  PositionReachesHost
