SPECIFICATION Spec
CONSTANTS
  BoardOrder <- MCBoardOrder
  Revisions <- MCRevisions
  Revision <- MCRevision
  MaxRuns = 5
  MaxStops = 2
INVARIANTS TypeOK BranchesArePatched ImagesAreRight ConfigsAreOwn
CHECK_DEADLOCK FALSE
