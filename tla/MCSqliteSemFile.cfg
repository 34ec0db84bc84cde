CONSTANTS
  Conns = {c1, c2}
  Files = {f1, f2}
  SemOf <- MCSemOf
  FileIds = {a1, a2}
  NULL = NULL
  MaxFailures = 2
SPECIFICATION Spec
INVARIANTS Exclusive OneUnit Attached KeysLive ReservedRight
 
