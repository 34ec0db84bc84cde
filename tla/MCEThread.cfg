CONSTANTS
  Threads = {t1, t2}
  NULL = NULL
  Garbage = Garbage
  KEYS_MAX = 2
  KEY_MAP_TYPE_SIZE = 2
  THREADS_MAX = 2
  DESTRUCTOR_ITERATIONS = 1
  DESTRUCTORS = 1
  MaxCreates = 2
  MallocFails = TRUE
SPECIFICATION Spec
INVARIANTS GetSpecificRight OwnArea NoAreaLeak 
PROPERTY ExitTerminates
