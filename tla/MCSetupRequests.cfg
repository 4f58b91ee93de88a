CONSTANTS
  Length <- DeviceLength
  TextLength <- DeviceTexts
  NumConfig = 1
SPECIFICATION Spec
INVARIANTS
  EveryAnswerFits
  EveryDescriptorReadableInPieces
  InterfacesAsDescribed
