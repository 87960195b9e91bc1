CONSTANTS
  OemStrings <- MCOemStrings
  LIBERATE <- MCLIBERATE
  OtherFields <- MCOtherFields
  FactoryRoms <- ShortFactoryRoms
  DefaultSource <- MCDefaultSource
  MacArguments <- MCMacArguments
  SomeGbe <- MCSomeGbe
  Hosts <- Host
  Faults = {"remove", "open", "write", "full", "kill"}
  MaxRuns = 2
SPECIFICATION Spec
INVARIANTS
  TypeOK
  RebuildTakesEffect
  AcceptedHostsFit
PROPERTY SuccessIsComplete
CHECK_DEADLOCK FALSE
