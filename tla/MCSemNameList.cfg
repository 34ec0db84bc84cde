CONSTANTS
  Clients = {c1, c2, c3}
  Names = {nm1}
  EmptyName = EmptyName
  Nodes = {n1, n2, n3}
  NULL = NULL
  Garbage = Garbage
  SEM_VALUE_MAX = 0
  CountBound = 1
SPECIFICATION ListSpec
SYMMETRY Symmetry
INVARIANTS TypeOK RefCount NoDangling UniqueNames NoLeak NeverBusy
           NeverNegative ListExact
CHECK_DEADLOCK FALSE
