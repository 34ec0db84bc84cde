----------------------------- MODULE SqliteMutex -----------------------------
(***************************************************************************)
(* SQLite's home-grown recursive mutex (mutex_unix.c), which the eCos port *)
(* selects with -DSQLITE_HOMEGROWN_RECURSIVE_MUTEX because eCos has no     *)
(* recursive pthread mutex.                                                *)
(*                                                                         *)
(* pthreadMutexEnter and pthreadMutexTry decide from nRef and owner, read  *)
(* one after the other without any lock, whether the caller is already     *)
(* inside.  Each access to the two fields is a step of its own here.       *)
(***************************************************************************)
EXTENDS NestedMutex

VARIABLES
  nRef,    \* p->nRef
  op       \* op[t]: the call thread t is in, "enter" or "try"

sqliteVars == <<mutex, nRef, owner, pc, op, held>>

Entered(t) == held' = [held EXCEPT ![t] = @ + 1]

-----------------------------------------------------------------------------
EnterOrTry(t) ==
  /\ pc[t] = "idle"
  /\ held[t] < MaxDepth
  /\ \E o \in {"enter", "try"} : op' = [op EXCEPT ![t] = o]
  /\ Goto(t, "read_nRef")
  /\ UNCHANGED <<mutex, nRef, owner, held>>

\* if( p->nRef>0 && ...
ReadNRef(t) ==
  /\ pc[t] = "read_nRef"
  /\ Goto(t, IF nRef > 0 THEN "read_owner" ELSE "lock")
  /\ UNCHANGED <<mutex, nRef, owner, op, held>>

\* ... pthread_equal(p->owner, self)
ReadOwner(t) ==
  /\ pc[t] = "read_owner"
  /\ Goto(t, IF owner = t THEN "again" ELSE "lock")
  /\ UNCHANGED <<mutex, nRef, owner, op, held>>

EnterAgain(t) ==
  /\ pc[t] = "again"
  /\ nRef' = nRef + 1
  /\ Entered(t)
  /\ Goto(t, "idle")
  /\ UNCHANGED <<mutex, owner, op>>

PthreadLock(t) ==
  /\ pc[t] = "lock"
  /\ mutex = NoThread
  /\ mutex' = t
  /\ Goto(t, "first")
  /\ UNCHANGED <<nRef, owner, op, held>>

\* pthread_mutex_trylock fails: pthreadMutexTry returns SQLITE_BUSY.
Busy(t) ==
  /\ pc[t] = "lock"
  /\ op[t] = "try"
  /\ mutex # NoThread
  /\ Goto(t, "idle")
  /\ UNCHANGED <<mutex, nRef, owner, op, held>>

\* The holder stores its identity first and the count second.
CountFirst(t) ==
  \/ pc[t] = "first" /\ nRef' = 1 /\ Goto(t, "second")
     /\ UNCHANGED <<mutex, owner, op, held>>
  \/ pc[t] = "second" /\ owner' = t /\ Goto(t, "idle") /\ Entered(t)
     /\ UNCHANGED <<mutex, nRef, op>>

TakeOver(t) ==
  \/ /\ pc[t] = "first"
     /\ owner' = t
     /\ Goto(t, "second")
     /\ UNCHANGED <<mutex, nRef, op, held>>
  \/ /\ pc[t] = "second"
     /\ nRef' = 1
     /\ Goto(t, "idle")
     /\ Entered(t)
     /\ UNCHANGED <<mutex, owner, op>>

\* pthreadMutexLeave; the pthread mutex is released only by the last leave.
AnyLeave(t) == TRUE
LastLeave(t) == nRef = 1

Leave(t) ==
  /\ pc[t] = "idle"
  /\ held[t] > 0
  /\ nRef' = nRef - 1
  /\ held' = [held EXCEPT ![t] = @ - 1]
  /\ Goto(t, IF LastLeave(t) THEN "unlock" ELSE "idle")
  /\ UNCHANGED <<mutex, owner, op>>

PthreadUnlock(t) ==
  /\ pc[t] = "unlock"
  /\ mutex' = NoThread
  /\ Goto(t, "idle")
  /\ UNCHANGED <<nRef, owner, op, held>>

-----------------------------------------------------------------------------
\* pthreadMutexAlloc: sqlite3MallocZero and pthread_mutex_init.
SqliteInit ==
  /\ mutex = NoThread
  /\ nRef = 0
  /\ owner = NoThread
  /\ pc = [t \in Threads |-> "idle"]
  /\ op = [t \in Threads |-> "enter"]
  /\ held = [t \in Threads |-> 0]

SqliteAccess(t) ==
  \/ EnterOrTry(t) \/ ReadNRef(t) \/ ReadOwner(t) \/ EnterAgain(t)
  \/ PthreadLock(t) \/ Busy(t) \/ TakeOver(t)
  \/ Leave(t) \/ PthreadUnlock(t)

SqliteNext == \E t \in Threads : SqliteAccess(t)

SqliteSpec == SqliteInit /\ [][SqliteNext]_sqliteVars

-----------------------------------------------------------------------------
SqliteTypeOK ==
  /\ mutex \in Threads \cup {NoThread}
  /\ nRef \in Nat
  /\ owner \in Threads \cup {NoThread}
  /\ pc \in [Threads -> {"idle", "read_nRef", "read_owner", "again", "lock",
                         "first", "second", "unlock"}]
  /\ op \in [Threads -> {"enter", "try"}]
  /\ held \in [Threads -> Nat]

\* The assertions of mutex_unix.c: a thread that just got the pthread mutex
\* finds nRef = 0 (lines 213 and 253), and a thread that leaves is the owner
\* and counted (line 288).
Asserts ==
  \A t \in Threads :
    /\ pc[t] = "first" => nRef = 0
    /\ pc[t] = "idle" /\ held[t] > 0 => nRef # 0 /\ owner = t

\* The unlocked reads do not deceive a thread that is not inside: having read
\* a positive nRef it never finds itself the owner, even when it was the
\* owner before and another thread is just taking over.  The same reads make
\* the assertion pthreadMutexNotheld (line 194) of a mutex entered once.
ReadsSafe ==
  \A t \in Threads :
    held[t] = 0 =>
      /\ pc[t] = "read_owner" => owner # t
      /\ pc[t] # "again"

\* The inductive invariant: the pthread mutex belongs to the thread that is
\* inside or on its way in or out; nRef counts its entries; owner names it
\* from its first write on.
MutexInv ==
  /\ SqliteTypeOK
  /\ \A t \in Threads :
       /\ pc[t] \in {"first", "second", "unlock", "again"} \/ held[t] > 0
            => mutex = t
       /\ held[t] > 0 => owner = t /\ nRef = held[t]
       /\ mutex = t => \/ held[t] > 0
                       \/ pc[t] \in {"first", "second", "unlock"} /\ nRef = 0
       /\ pc[t] = "second" => owner = t
       /\ pc[t] = "again" => held[t] > 0
       /\ pc[t] \in {"first", "second", "unlock"} => held[t] = 0
       /\ pc[t] = "read_owner" /\ held[t] = 0 => owner # t
       /\ pc[t] = "lock" => held[t] = 0
       /\ pc[t] = "read_nRef" /\ held[t] = 0 /\ owner = t =>
            nRef = 0
  /\ mutex = NoThread => nRef = 0
=============================================================================
