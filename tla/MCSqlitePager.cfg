CONSTANTS
  Conns = {c1, c2}
  None = None
  MaxPages = 3
  MaxTx = 2
  MaxFaults = 1
  MaxBlocks = 5
  FullSync = TRUE
  Windows = {}
SPECIFICATION Spec
SYMMETRY Symmetry
INVARIANT WriteAhead
PROPERTY ImplementsStore
CHECK_DEADLOCK FALSE
