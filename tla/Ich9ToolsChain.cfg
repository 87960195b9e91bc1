CONSTANTS
  OemStrings <- MCOemStrings
  LIBERATE <- MCLIBERATE
  OtherFields <- MCOtherFields
  FactoryRoms <- MCFactoryRoms
  DefaultSource <- MCDefaultSource
  MacArguments <- GoodMacArguments
  SomeGbe <- MCSomeGbe
  Hosts <- MCHosts
  Faults = {}
  MaxRuns = 3
SPECIFICATION Spec
INVARIANTS
  NoUninitialisedGbe
  LayoutFitsRom
  GbeCopiesValid
  SourceRegenerates
  DeblobIsIdempotent
CHECK_DEADLOCK FALSE
