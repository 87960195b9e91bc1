SPECIFICATION Spec
CONSTANTS
  Scripts = {"flashrom", "bucts static", "bucts dynamic", "util", "download", "clean"}
  MaxRuns = 5
  MaxStops = 2
INVARIANTS TypeOK NamesAreTrue ArchiveIsTrue SourcesSurvive UtilPutsTreesBack UndisturbedNeverAborts
CHECK_DEADLOCK FALSE
