CONSTANTS
  CtrlSize = 8
  Requests <- DeviceRequests
  ReportPolled = TRUE
SPECIFICATION Spec
INVARIANTS
  AcceptedReadNotStalled
