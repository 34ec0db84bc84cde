---------------------------- MODULE RecursiveLock ----------------------------
(***************************************************************************)
(* What a recursive mutex promises: a thread may enter it again and again, *)
(* and no other thread is inside until it has left as often as it entered. *)
(* sqlite/current/src/mutex_unix.c:187 states this for SQLite's mutexes.   *)
(***************************************************************************)
EXTENDS Naturals

CONSTANT Threads

VARIABLE held   \* held[t]: how often thread t is inside

Init == held = [t \in Threads |-> 0]

Enter(t) ==
  /\ \A u \in Threads \ {t} : held[u] = 0
  /\ held' = [held EXCEPT ![t] = @ + 1]

Leave(t) ==
  /\ held[t] > 0
  /\ held' = [held EXCEPT ![t] = @ - 1]

Next == \E t \in Threads : Enter(t) \/ Leave(t)

Spec == Init /\ [][Next]_held
=============================================================================
