CONSTANTS
  CtrlSize = 8
  Requests <- AllRequests
  ReportPolled = TRUE
SPECIFICATION FairSpec
INVARIANTS
  DataInOrder
  WholePayload
PROPERTIES
  CompletionExpected
  EndsAfterStatusStage
  ImplementsTransfer
  RequestAnswered
