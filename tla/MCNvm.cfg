SPECIFICATION Spec
CONSTANTS
  Bits <- OneBit
  EepromPages = 2
  EepromPage = 2
  AppPages = 2
  BootPages = 1
  FlashPage = 2
  Buffers <- MCBuffers
  MaxCalls = 3
INVARIANTS
  ReadsWhatIsStored
PROPERTIES
  ImplementsStore
