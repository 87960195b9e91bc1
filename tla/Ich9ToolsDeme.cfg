CONSTANTS
  OemStrings <- MCOemStrings
  LIBERATE <- MCLIBERATE
  OtherFields <- MCOtherFields
  FactoryRoms <- MCFactoryRoms
  DefaultSource <- MCDefaultSource
  MacArguments <- GoodMacArguments
  SomeGbe <- MCSomeGbe
  Hosts <- MCHosts
  Faults = {}
  MaxRuns = 1
SPECIFICATION Spec
INVARIANT DemeSourceRegenerates
CHECK_DEADLOCK FALSE
