SPECIFICATION Spec
CONSTANTS
  MaxEp = 15
  TableAt = 8256
  EpSize = 4
  MaxTrans = 11
  MaxSize = 19
  MaxFifo = 2
INVARIANTS
  InJobWhole
  OutJobHoldsStream
