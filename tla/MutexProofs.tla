---------------------------- MODULE MutexProofs ----------------------------
(***************************************************************************)
(* The two recursive mutexes of the repository, the one that               *)
(* gcc_ecos_multithread.cxx gives to libstdc++ and the one of SQLite's     *)
(* mutex_unix.c, implement a recursive lock, for any set of threads and    *)
(* any depth of nesting.                                                   *)
(***************************************************************************)
EXTENDS SqliteMutex, GxxSupport, TLAPS

LEMMA FreeAtFirst == Init => GxxInv
BY NestedMutexAssumption DEF Init, GxxInv, TypeOK

\* One access of thread t.  The accesses are grouped by what they write.
LEMMA OneAccess ==
  ASSUME NEW t \in Threads, GxxInv, Access(t)
  PROVE  GxxInv'
<1> USE NestedMutexAssumption DEF GxxInv, TypeOK, Goto
<1>quiet. CASE Call(t) \/ TestOwner(t) \/ LockFails(t)
  BY <1>quiet DEF Call, TestOwner, LockFails
<1>kernel. CASE Lock(t) \/ Unlock(t)
  <2>1. CASE Lock(t)
    BY <2>1 DEF Lock
  <2>2. CASE Unlock(t)
    BY <2>2 DEF Unlock
  <2>3. QED
    BY <1>kernel, <2>1, <2>2
<1>owner. CASE SetOwner(t) \/ Disown(t)
  <2>1. CASE SetOwner(t)
    BY <2>1 DEF SetOwner
  <2>2. CASE Disown(t)
    BY <2>2 DEF Disown
  <2>3. QED
    BY <1>owner, <2>1, <2>2
<1>count. CASE Count(t) \/ UnlockCall(t)
  <2>1. CASE Count(t)
    BY <2>1 DEF Count
  <2>2. CASE UnlockCall(t)
    BY <2>2 DEF UnlockCall, LastUnlock
  <2>3. QED
    BY <1>count, <2>1, <2>2
<1> QED
  BY <1>quiet, <1>kernel, <1>owner, <1>count DEF Access

LEMMA GxxInvHolds == Spec => []GxxInv
<1>a. GxxInv /\ UNCHANGED vars => GxxInv'
  BY DEF GxxInv, TypeOK, vars
<1>b. GxxInv /\ Next => GxxInv'
  BY OneAccess DEF Next
<1>c. QED
  BY FreeAtFirst, <1>a, <1>b, PTL DEF Spec

\* The unlocked read of owner in c_recursive_mutex_lock and _trylock is safe.
THEOREM UnlockedReadSafe == Spec => []NotDeceived
<1>1. GxxInv => NotDeceived
  BY DEF GxxInv, TypeOK, NotDeceived
<1>2. QED
  BY GxxInvHolds, <1>1, PTL

\* c_recursive_mutex_unlock never leaves the kernel mutex behind.
THEOREM NeverOrphaned == Spec => []NotOrphaned
<1>1. GxxInv => NotOrphaned
  BY DEF GxxInv, TypeOK, NotOrphaned
<1>2. QED
  BY GxxInvHolds, <1>1, PTL

\* c_recursive_mutex_lock, _trylock and _unlock implement a recursive lock.
THEOREM GxxMutexImplements == Spec => ImplementsLock
<1>1. Init => RL!Init
  BY DEF Init, RL!Init
<1>2. GxxInv /\ [Next]_vars => [RL!Next]_held
  <2> SUFFICES ASSUME GxxInv, Next, held' # held PROVE RL!Next
    BY DEF vars
  <2> PICK t \in Threads : Access(t)
    BY DEF Next
  <2> USE NestedMutexAssumption DEF GxxInv, TypeOK, Goto
  <2>in. CASE Count(t)
    <3>1. RL!Enter(t)
      BY <2>in DEF Count, RL!Enter
    <3>2. QED
      BY <3>1 DEF RL!Next
  <2>out. CASE UnlockCall(t)
    <3>1. RL!Leave(t)
      BY <2>out DEF UnlockCall, LastUnlock, RL!Leave
    <3>2. QED
      BY <3>1 DEF RL!Next
  <2>quiet. ~(\/ Call(t) \/ TestOwner(t) \/ Lock(t) \/ LockFails(t)
              \/ SetOwner(t) \/ Disown(t) \/ Unlock(t))
    BY DEF Call, TestOwner, Lock, LockFails, SetOwner, Disown, Unlock
  <2> QED
    BY <2>in, <2>out, <2>quiet DEF Access
<1>3. QED
  BY GxxInvHolds, <1>1, <1>2, PTL DEF Spec, ImplementsLock, RL!Spec

\* Using ethread_once beside the mutex takes nothing from what the mutex
\* promises: the composition is a behaviour of the mutex alone.
THEOREM MutexBesideOnce == SupportSpec => ImplementsLock
<1>1. SupportInit => Init
  BY DEF SupportInit
<1>2. [SupportNext]_<<vars, onceVars>> => [Next]_vars
  BY DEF SupportNext, UseMutex, UseOnce, Next
<1>3. SupportSpec => Spec
  BY <1>1, <1>2, PTL DEF SupportSpec, Spec
<1>4. QED
  BY <1>3, GxxMutexImplements

\* However many threads call ethread_once, init_routine is called once.
THEOREM OnceOnly == SupportSpec => []JustOnce
<1>1. SupportInit => OnceInv
  BY DEF SupportInit, OnceInv, OnceTypeOK, Once!Init
<1>2. OnceInv /\ [SupportNext]_<<vars, onceVars>> => OnceInv'
  <2> SUFFICES ASSUME OnceInv, [SupportNext]_<<vars, onceVars>>
               PROVE  OnceInv'
    OBVIOUS
  <2> USE DEF OnceInv, OnceTypeOK
  <2>1. CASE UNCHANGED onceVars
    BY <2>1 DEF onceVars
  <2>2. ASSUME NEW t \in Threads, Once!Step(t) PROVE OnceInv'
    <3> USE DEF Once!Goto
    <3>1. CASE Once!TestAndSet(t)
      BY <3>1 DEF Once!TestAndSet
    <3>2. CASE Once!CallInit(t)
      BY <3>2 DEF Once!CallInit
    <3>3. CASE Once!InitReturns(t) \/ Once!Again(t)
      BY <3>3 DEF Once!InitReturns, Once!Again
    <3>4. QED
      BY <2>2, <3>1, <3>2, <3>3 DEF Once!Step
  <2>3. QED
    BY <2>1, <2>2 DEF SupportNext, UseMutex, UseOnce
<1>3. OnceInv => JustOnce
  BY DEF OnceInv, JustOnce
<1>4. QED
  BY <1>1, <1>2, <1>3, PTL DEF SupportSpec
-----------------------------------------------------------------------------
(* SQLite's mutex.                                                         *)

LEMMA OutsideAtFirst == SqliteInit => MutexInv
BY NestedMutexAssumption DEF SqliteInit, MutexInv, SqliteTypeOK

\* One access of thread t, whichever call it is in.  The accesses are grouped
\* by what they write.
LEMMA OneSqliteAccess ==
  ASSUME NEW t \in Threads, MutexInv, SqliteAccess(t)
  PROVE  MutexInv'
<1> USE NestedMutexAssumption DEF MutexInv, SqliteTypeOK, Goto
<1>reads. CASE ReadNRef(t) \/ ReadOwner(t)
  BY <1>reads DEF ReadNRef, ReadOwner
<1>ends. CASE EnterOrTry(t) \/ Busy(t)
  BY <1>ends DEF EnterOrTry, Busy
<1>pthread. CASE PthreadLock(t) \/ PthreadUnlock(t)
  <2>1. CASE PthreadLock(t)
    BY <2>1 DEF PthreadLock
  <2>2. CASE PthreadUnlock(t)
    BY <2>2 DEF PthreadUnlock
  <2>3. QED
    BY <1>pthread, <2>1, <2>2
<1>counts. CASE EnterAgain(t) \/ Leave(t)
  <2>1. CASE EnterAgain(t)
    BY <2>1 DEF EnterAgain, Entered
  <2>2. CASE Leave(t)
    BY <2>2 DEF Leave, LastLeave
  <2>3. QED
    BY <1>counts, <2>1, <2>2
<1>owns. CASE TakeOver(t)
  BY <1>owns DEF TakeOver, Entered
<1> QED
  BY <1>reads, <1>ends, <1>pthread, <1>counts, <1>owns DEF SqliteAccess

LEMMA MutexInvHolds == SqliteSpec => []MutexInv
<1>a. MutexInv /\ UNCHANGED sqliteVars => MutexInv'
  BY DEF MutexInv, SqliteTypeOK, sqliteVars
<1>b. MutexInv /\ SqliteNext => MutexInv'
  BY OneSqliteAccess DEF SqliteNext
<1>c. QED
  BY OutsideAtFirst, <1>a, <1>b, PTL DEF SqliteSpec

\* The assertions of mutex_unix.c never fail.
THEOREM AssertsHold == SqliteSpec => []Asserts
<1>1. MutexInv => Asserts
  <2> SUFFICES ASSUME MutexInv, NEW t \in Threads
               PROVE  /\ pc[t] = "first" => nRef = 0
                      /\ held[t] > 0 => nRef # 0 /\ owner = t
    BY DEF Asserts
  <2>1. pc[t] = "first" => nRef = 0
    BY DEF MutexInv, SqliteTypeOK
  <2>2. held[t] > 0 => nRef # 0 /\ owner = t
    BY DEF MutexInv, SqliteTypeOK
  <2>3. QED
    BY <2>1, <2>2
<1>2. QED
  BY MutexInvHolds, <1>1, PTL

\* The unlocked reads of nRef and owner never let a thread in that is not
\* the one inside.
THEOREM UnlockedReadsSafe == SqliteSpec => []ReadsSafe
<1>1. MutexInv => ReadsSafe
  BY DEF MutexInv, SqliteTypeOK, ReadsSafe
<1>2. QED
  BY MutexInvHolds, <1>1, PTL

\* pthreadMutexEnter, pthreadMutexTry and pthreadMutexLeave implement a
\* recursive lock.
THEOREM SqliteMutexImplements == SqliteSpec => ImplementsLock
<1>1. SqliteInit => RL!Init
  BY DEF SqliteInit, RL!Init
<1>2. MutexInv /\ [SqliteNext]_sqliteVars => [RL!Next]_held
  <2> SUFFICES ASSUME MutexInv, SqliteNext, held' # held PROVE RL!Next
    BY DEF sqliteVars
  <2> PICK t \in Threads : SqliteAccess(t)
    BY DEF SqliteNext
  <2> USE NestedMutexAssumption DEF MutexInv, SqliteTypeOK, Goto, Entered
  <2>in. CASE EnterAgain(t) \/ TakeOver(t)
    <3>1. RL!Enter(t)
      BY <2>in DEF EnterAgain, TakeOver, RL!Enter
    <3>2. QED
      BY <3>1 DEF RL!Next
  <2>out. CASE Leave(t)
    <3>1. RL!Leave(t)
      BY <2>out DEF Leave, RL!Leave
    <3>2. QED
      BY <3>1 DEF RL!Next
  <2>quiet. ~(\/ EnterOrTry(t) \/ ReadNRef(t) \/ ReadOwner(t) \/ PthreadLock(t)
              \/ Busy(t) \/ PthreadUnlock(t))
    BY DEF EnterOrTry, ReadNRef, ReadOwner, PthreadLock, Busy, PthreadUnlock
  <2> QED
    BY <2>in, <2>out, <2>quiet DEF SqliteAccess
<1>3. QED
  BY MutexInvHolds, <1>1, <1>2, PTL DEF SqliteSpec, ImplementsLock, RL!Spec
=============================================================================
