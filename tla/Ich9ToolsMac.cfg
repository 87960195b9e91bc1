CONSTANTS
  OemStrings <- MCOemStrings
  LIBERATE <- MCLIBERATE
  OtherFields <- MCOtherFields
  FactoryRoms <- MCFactoryRoms
  DefaultSource <- MCDefaultSource
  MacArguments <- LooseMacArguments
  SomeGbe <- MCSomeGbe
  Hosts <- MCHosts
  Faults = {}
  MaxRuns = 1
SPECIFICATION Spec
INVARIANT InvalidMacExits
CHECK_DEADLOCK FALSE
