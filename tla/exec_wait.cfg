SPECIFICATION QuietSpec
CONSTANTS
  Vertices = {0, 1, 2, 3, 4}
  From = 0
  Jobs = {1, 2}
  None = None
  Dags <- CrossedDags
PROPERTY
  WaitEnds
CHECK_DEADLOCK FALSE
