SPECIFICATION Spec
CONSTANTS
  Vertices = {0, 1, 2, 3}
  From = 0
  Jobs = {1, 2}
  None = None
  Dags <- SmallDags
INVARIANT
  FailedDependencyStops
CHECK_DEADLOCK FALSE
