CONSTANTS
  Handles = {h1, h2}
  Bytes = {a}
  Zero = Zero
  Old = Old
  NFD = 2
  MaxLen = 2
  MaxSize = 3
  MaxFaults = 0
  Careful = FALSE
SPECIFICATION Spec
PROPERTY HoleOnly
