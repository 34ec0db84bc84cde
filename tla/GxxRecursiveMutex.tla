-------------------------- MODULE GxxRecursiveMutex --------------------------
(***************************************************************************)
(* The recursive mutex that gcc_ecos_multithread.cxx gives to libstdc++:   *)
(* c_recursive_mutex_lock, _trylock and _unlock over an eCos kernel mutex. *)
(*                                                                         *)
(* Whether the caller is already inside is decided by one unlocked read of *)
(* owner.  Each access to owner and count is a step of its own.            *)
(***************************************************************************)
EXTENDS NestedMutex

VARIABLE count   \* mx->count

vars == <<mutex, owner, count, pc, held>>

-----------------------------------------------------------------------------
\* c_recursive_mutex_lock or c_recursive_mutex_trylock: they differ only in
\* how they can fail.
Call(t) ==
  /\ pc[t] = "idle"
  /\ held[t] < MaxDepth
  /\ Goto(t, "test")
  /\ UNCHANGED <<mutex, owner, count, held>>

\* if (self != mx->owner)
TestOwner(t) ==
  /\ pc[t] = "test"
  /\ Goto(t, IF owner = t THEN "own" ELSE "lock")
  /\ UNCHANGED <<mutex, owner, count, held>>

Lock(t) ==
  /\ pc[t] = "lock"
  /\ mutex = NoThread
  /\ mutex' = t
  /\ Goto(t, "own")
  /\ UNCHANGED <<owner, count, held>>

\* cyg_mutex_trylock fails when the mutex is held, cyg_mutex_lock when the
\* kernel releases the waiting thread: the call returns EAGAIN.
LockFails(t) ==
  /\ pc[t] = "lock"
  /\ mutex # NoThread
  /\ Goto(t, "idle")
  /\ UNCHANGED <<mutex, owner, count, held>>

SetOwner(t) ==
  /\ pc[t] = "own"
  /\ owner' = t
  /\ Goto(t, "count")
  /\ UNCHANGED <<mutex, count, held>>

CountOnce(t) ==
  /\ pc[t] = "count"
  /\ count' = 1
  /\ held' = [held EXCEPT ![t] = @ + 1]
  /\ Goto(t, "idle")
  /\ UNCHANGED <<mutex, owner>>

Count(t) ==
  /\ pc[t] = "count"
  /\ count' = count + 1
  /\ held' = [held EXCEPT ![t] = @ + 1]
  /\ Goto(t, "idle")
  /\ UNCHANGED <<mutex, owner>>

\* mx->count--; if (mx->count == 0)
OneLeft == count = 2
LastUnlock == count = 1

UnlockCall(t) ==
  /\ pc[t] = "idle"
  /\ held[t] > 0
  /\ count' = count - 1
  /\ held' = [held EXCEPT ![t] = @ - 1]
  /\ Goto(t, IF LastUnlock THEN "disown" ELSE "idle")
  /\ UNCHANGED <<mutex, owner>>

\* mx->owner is reset while the kernel mutex is still held.
KeepOwner(t) ==
  /\ pc[t] = "disown"
  /\ Goto(t, "unlock")
  /\ UNCHANGED <<mutex, owner, count, held>>

Disown(t) ==
  /\ pc[t] = "disown"
  /\ owner' = NoThread
  /\ Goto(t, "unlock")
  /\ UNCHANGED <<mutex, count, held>>

Unlock(t) ==
  /\ pc[t] = "unlock"
  /\ mutex' = NoThread
  /\ Goto(t, "idle")
  /\ UNCHANGED <<owner, count, held>>

-----------------------------------------------------------------------------
\* c_recursive_mutex_init_function
Init ==
  /\ mutex = NoThread
  /\ owner = NoThread
  /\ count = 0
  /\ pc = [t \in Threads |-> "idle"]
  /\ held = [t \in Threads |-> 0]

Access(t) ==
  \/ Call(t) \/ TestOwner(t) \/ Lock(t) \/ LockFails(t)
  \/ SetOwner(t) \/ Count(t)
  \/ UnlockCall(t) \/ Disown(t) \/ Unlock(t)

Next == \E t \in Threads : Access(t)

Spec == Init /\ [][Next]_vars

-----------------------------------------------------------------------------
TypeOK ==
  /\ mutex \in Threads \cup {NoThread}
  /\ owner \in Threads \cup {NoThread}
  /\ count \in Nat
  /\ pc \in [Threads -> {"idle", "test", "lock", "own", "count", "disown",
                         "unlock"}]
  /\ held \in [Threads -> Nat]

\* The one unlocked read of owner never tells a thread outside the mutex that
\* it is inside, whatever another thread is doing to owner at that moment.
NotDeceived ==
  \A t \in Threads : pc[t] = "test" /\ owner = t => held[t] > 0

\* The kernel mutex is given back exactly when the last nested lock has been
\* undone, so the mutex is never left held by a thread that is outside.
NotOrphaned ==
  \A t \in Threads : mutex = t /\ held[t] = 0 => pc[t] # "idle"

\* The inductive invariant: the kernel mutex belongs to the thread inside or
\* on its way in or out, owner names a thread only while that thread holds
\* the kernel mutex, and count is the depth of that thread.
GxxInv ==
  /\ TypeOK
  /\ mutex = NoThread => count = 0
  /\ owner # NoThread => mutex = owner
  /\ \A t \in Threads :
       /\ pc[t] \in {"own", "count", "disown", "unlock"} \/ held[t] > 0
            => mutex = t
       /\ mutex = t => count = held[t]
       /\ mutex = t /\ held[t] = 0 =>
            pc[t] \in {"own", "count", "disown", "unlock"}
       /\ pc[t] = "count" \/ held[t] > 0 => owner = t
       /\ pc[t] \in {"disown", "unlock"} => held[t] = 0
       /\ pc[t] \in {"unlock", "lock"} => owner # t
       /\ pc[t] \in {"test", "lock"} /\ held[t] = 0 => owner # t
       /\ pc[t] = "idle" /\ held[t] = 0 => owner # t
=============================================================================
