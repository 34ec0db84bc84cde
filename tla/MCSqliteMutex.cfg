CONSTANTS
  Threads = {t1, t2, t3}
  NoThread = NoThread
  MaxDepth = 2
SPECIFICATION SqliteSpec
INVARIANTS Asserts ReadsSafe
PROPERTY ImplementsLock
