SPECIFICATION Spec
CONSTANTS
  Blocks = {"in", "res", "also", "out", "k", "l", "k_a"}
  Identifiers = {"in", "res", "also", "out", "k", "l", "k_a", "word"}
  MaxItems = 3
  None = None
  RawOf <- MCRawOf
  Packages <- MCPackages
  Graphs <- MCGraphs
INVARIANTS
  ResultsInPlace
  OutputsAreWhole
  SuccessIsComplete
  ProvidersAreReady
  ProcessesAreClosed
CHECK_DEADLOCK FALSE
