SPECIFICATION ReleaseSpec
CONSTANTS
  Boards <- MCBoards
  Families <- MCFamilies
  Early <- MCEarly
  Images <- MCImages
  Finishes <- MCFinishes
  MaxRuns = 2
  MaxReleases = 3
  MaxStops = 1
INVARIANTS ReleaseTypeOK ArchivesAreCurrent FinishedAreReleased
CHECK_DEADLOCK FALSE
