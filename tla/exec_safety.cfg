SPECIFICATION FairSpec
CONSTANTS
  Vertices = {0, 1, 2, 3}
  From = 0
  Jobs = {1, 2}
  None = None
  Dags <- SmallDags
INVARIANTS
  AtMostOnce
  DependenciesFirst
  SuccessIsComplete
  WalkInv
  NoSendOnClosed
  GivesUpToAnother
  TreeNeverStuck
PROPERTIES
  ImplementsDagSchedule
  RunEnds
CHECK_DEADLOCK FALSE
