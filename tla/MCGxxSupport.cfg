CONSTANTS
  Threads = {t1, t2, t3}
  NoThread = NoThread
  MaxDepth = 2
SPECIFICATION SupportSpec
INVARIANTS NotDeceived NotOrphaned JustOnce
PROPERTIES ImplementsLock InitFinishes
