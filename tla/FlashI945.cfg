\* A loss of power during an update can leave a laptop that never starts again: there
\* the behaviour ends.
CONSTANTS
  Machines <- MCMachines
  Environments <- MCEnvironments
  Versions = {"v1", "v2"}
  Renamed = {"v2"}
  Faults = {"power", "battery", "bucts", "flash"}
  MaxFlashes = 2
  MaxFaults = 2
SPECIFICATION FairSpec
INVARIANTS
  TypeOK
  FirstFlashArmed
  BricksAreSoft
  BootableDuringSecondFlash
PROPERTIES
  InstallIsBatterySafe
  EventuallyInstalled
CHECK_DEADLOCK FALSE
