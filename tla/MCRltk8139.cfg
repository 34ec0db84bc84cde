CONSTANTS
  Keys = {k1, k2}
  NoKey = NoKey
  NUM_TX_DESC = 2
  RX_BUF_LEN = 32
  Lengths = {5}
  MaskInChip = TRUE
  NetLock = TRUE
  MaxErrors = 1
SPECIFICATION Spec
INVARIANTS DoneRight RxInStep
PROPERTIES  RxServed 
CHECK_DEADLOCK FALSE
