\* The guide, other runs on any file, careless writes, images missing or of another
\* size at first, full disks, and runs that are stopped.
SPECIFICATION FairSpec
CONSTANTS
  ChipSize = 12
  Parts = {"coreboot", "ro-frid"}
  Start <- MCStart
  Stop <- MCStop
  Guide <- MCGuide
  Asked <- MCAsked
  Lines <- MCLines
  Faults = {"full", "stop"}
  MaxRuns = 2
  MaxFaults = 2
INVARIANTS TypeOK RunsReplace ChipStaysWhole
PROPERTY EventuallyInstalled
CHECK_DEADLOCK FALSE
