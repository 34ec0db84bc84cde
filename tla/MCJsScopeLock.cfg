CONSTANTS
  c1 = c1  c2 = c2  c3 = c3  a = a  b = b  child = child
  Contexts = {c1, c2, c3}
  Objects = {a, b, child}
  InitProto <- MCProto
  None = None
  Programs <- MCPrograms
  AnyProto = FALSE
SPECIFICATION Spec
INVARIANTS Exclusive StopTheWorld
PROPERTIES ScopeGranted GCFinishes
CHECK_DEADLOCK FALSE
