CONSTANTS
  Configs <- SoundConfigs
  ServiceConfigs <- OnlyThisBuild
  RtcConfigs <- OnlyAlternative
  MaxInUse = 2
SPECIFICATION FairSpec
INVARIANTS
  ClockAlwaysSound
  UsbClockIs48MHz
  HandlersFindDriver
  NeverSleepsTooDeep
  PeripheralsClockedAsReported
PROPERTIES
  StartUpCompletes
