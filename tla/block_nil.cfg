SPECIFICATION Spec
CONSTANTS
  Blocks = {"in", "res", "also", "out", "k", "l", "k_a"}
  Identifiers = {"in", "res", "also", "out", "k", "l", "k_a", "word"}
  MaxItems = 3
  None = None
  RawOf <- MCRawOf
  Packages <- MCPackages
  Graphs <- MCGraphs
INVARIANT
  SuccessIsRendered
CHECK_DEADLOCK FALSE
