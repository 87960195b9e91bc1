\* The guide, when one run is stopped.
SPECIFICATION Spec
CONSTANTS
  ChipSize = 12
  Parts = {"coreboot", "ro-frid"}
  Start <- MCStart
  Stop <- MCStop
  Guide <- MCGuide
  Asked <- MCAsked
  Lines <- MCLines
  Faults = {"stop"}
  MaxRuns = 0
  MaxFaults = 1
INVARIANT ResultCanBeFlashedBack
CHECK_DEADLOCK FALSE
