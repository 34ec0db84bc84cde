----------------------------- MODULE NestedMutex -----------------------------
(***************************************************************************)
(* What the two recursive mutexes of the repository have in common: both   *)
(* are made from a plain mutex and a field that names the thread inside,   *)
(* and threads read that field without holding the plain mutex.            *)
(***************************************************************************)
EXTENDS Naturals

CONSTANTS
  Threads,
  NoThread,     \* owner of a new mutex; nobody holds the plain mutex
  MaxDepth      \* bound of the model: how often a thread nests

ASSUME NestedMutexAssumption ==
  /\ NoThread \notin Threads
  /\ MaxDepth \in Nat \ {0}

VARIABLES
  mutex,   \* the holder of the plain mutex
  owner,   \* the field
  pc,      \* pc[t]: the next access of thread t
  held     \* held[t]: entries of t that have returned, less its leaves

Goto(t, l) == pc' = [pc EXCEPT ![t] = l]

\* The mutex implements a recursive lock: a call that enters it (an enter or
\* a successful try of mutex_unix.c, a lock of gcc_ecos_multithread.cxx) takes
\* effect only while no other thread is inside, and mutual exclusion holds
\* across nested entries (the promise of the comment at mutex_unix.c:187).
RL == INSTANCE RecursiveLock
ImplementsLock == RL!Spec
=============================================================================
