CONSTANTS
  c1 = c1  c2 = c2  c3 = c3  a = a  b = b  child = child
  Contexts = {c1, c2, c3}
  Objects = {a, b, child}
  InitProto <- MCProto
  None = None
  Programs <- SetterPrograms
  AnyProto = TRUE
SPECIFICATION Spec
PROPERTY ScopeGranted
CHECK_DEADLOCK FALSE
