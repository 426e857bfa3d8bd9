SPECIFICATION Spec
CONSTANTS
  Docs = {d1, d2, d3}
  Names = {n1, n2}
  None = None
  Inputs <- AllInputs
SYMMETRY Alike
INVARIANTS
  ParseInv
  PairsAreKept
  DuplicatesAreReported
  ErrorsHaveReasons
CHECK_DEADLOCK FALSE
