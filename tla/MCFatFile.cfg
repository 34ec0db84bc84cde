CONSTANTS
  Handles = {h1, h2, h3}
  Bytes = {a}
  Zero = Zero
  Old = Old
  NFD = 2
  MaxLen = 2
  MaxSize = 3
  MaxFaults = 1
  Careful = TRUE
SPECIFICATION Spec
SYMMETRY Symmetry
INVARIANT Counted
 
