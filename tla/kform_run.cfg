SPECIFICATION Spec
CONSTANTS
  x1 = x1
  x2 = x2
  x3 = x3
  y = y
  z = z
  w = w
  o = o
  Objects = {x1, x2, x3, y, z}
  Resources = {x1, x2, x3, y, z, w, o}
  Object <- ObjectOf
  Document <- DocumentOf
  Block <- BlockOf
  Orphans = {o}
  Name <- NameOf
  Packages <- SmallPackages
  ReadErrors = TRUE
  MaxRuns = 3
  MaxLost = 1
INVARIANT RunInv
PROPERTIES DeletesOnlyUnwanted DryRunChangesNothing InventoryIsPackage NothingFoundIsForgotten RecordedExists
CHECK_DEADLOCK FALSE
