CONSTANTS
  Threads = {t1, t2}
  NULL = NULL
  Garbage = Garbage
  KEYS_MAX = 1
  KEY_MAP_TYPE_SIZE = 1
  THREADS_MAX = 1
  DESTRUCTOR_ITERATIONS = 1
  DESTRUCTORS = 2
  MaxCreates = 2
  MallocFails = TRUE
SPECIFICATION Spec
INVARIANT OwnArea
