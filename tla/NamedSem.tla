------------------------------ MODULE NamedSem ------------------------------
(***************************************************************************)
(* The named POSIX semaphores that this repository adds to eCos            *)
(* (eCosCor/packages/compat/posix/current/src/sem.cxx).                    *)
(*                                                                         *)
(* Every named semaphore is a node (struct sem_name) of one list.  The     *)
(* operations sem_open, sem_close and sem_unlink search and change the     *)
(* list under name_mutex.  The semaphore proper is a kernel counting       *)
(* semaphore inside the node; sem_wait, sem_trywait and sem_post reach it  *)
(* through the address sem_open returned, without name_mutex.              *)
(*                                                                         *)
(* sem_open touches only the list, the heap and a node nobody else can     *)
(* reach yet: it is one step.  sem_close and sem_unlink ask sem_destroy    *)
(* whether the semaphore has waiters and free the node afterwards; threads *)
(* may wait and post in between, so a removal is two steps, the second one *)
(* with name_mutex still held.                                             *)
(*                                                                         *)
(* A client is one reference of the application: what one sem_open call    *)
(* returned, used by one thread until its sem_close.  The list is a set    *)
(* here; SemNameList adds the pointers.                                    *)
(***************************************************************************)
EXTENDS Integers, FiniteSets

CONSTANTS
  Clients,       \* the references the application may hold at one time
  Names,         \* the non-empty names it uses
  EmptyName,     \* "", also the name of an unlinked semaphore
  Nodes,         \* the addresses malloc can return for a struct sem_name
  NULL,          \* the null pointer; as a sem_t *, SEM_FAILED
  SEM_VALUE_MAX, \* the largest value sem_init accepts
  CountBound     \* bound of the model: no sem_post beyond this value

ASSUME NamedSemAssumption ==
  /\ IsFiniteSet(Clients)
  /\ EmptyName \notin Names
  /\ NULL \notin Nodes \cup Clients
  /\ SEM_VALUE_MAX \in Nat
  /\ CountBound \in Nat

VARIABLES
  listed,      \* the nodes reachable from psem_list
  pname,       \* pname[n]: the name stored in node n
  open_count,  \* open_count[n]: opens of node n not yet closed
  heap,        \* the allocated nodes
  strings,     \* the number of allocated name strings
  count,       \* count[n]: value of the kernel semaphore in node n
  queue,       \* queue[n]: clients asleep on the kernel semaphore in n
  name_mutex,  \* the client that holds name_mutex, or NULL
  dying,       \* the node that the holder of name_mutex is about to free
  pc,          \* pc[c]: "run"; in sem_wait "sleep" or "woken"; in the
               \*   last part of sem_close or sem_unlink "freeing";
               \*   "cancelled" when pthread_testcancel ended the thread
  ref,         \* ref[c]: the semaphore client c has open, or NULL
  last,        \* last[c]: the semaphore client c opened last, or NULL
  ret,         \* ret[c]: how the last call of client c ended
  overClosed   \* has a client closed again what it had already closed?

vars == <<listed, pname, open_count, heap, strings, count, queue,
          name_mutex, dying, pc, ref, last, ret, overClosed>>

listVars == <<listed, pname, open_count, heap, strings>>
semVars  == <<count, queue>>
lockVars == <<name_mutex, dying>>

Flags   == SUBSET {"O_CREAT", "O_EXCL"}
Results == {"OK", "EBUSY", "error"}

\* No property tells the error codes other than EBUSY apart.
Return(c, r) ==
  ret' = [ret EXCEPT ![c] = IF r \in {"OK", "EBUSY"} THEN r ELSE "error"]

\* sem_open and sem_unlink refuse the empty name before they search: it would
\* match any unlinked semaphore.
RejectEmptyName(c) ==
  /\ pc[c] = "run"
  /\ (ref[c] = NULL /\ Return(c, "EINVAL")) \/ Return(c, "ENOENT")
  /\ UNCHANGED <<listVars, semVars, lockVars, pc, ref, last, overClosed>>

\* The nodes the search loop of sem_open and sem_unlink can stop at.
LookupOpen(name) == {n \in listed : pname[n] = name /\ open_count[n] > 0}
Lookup(name) == {n \in listed : pname[n] = name}

-----------------------------------------------------------------------------
(* sem_open.  Its early failures leave the list alone; a failure after the *)
(* first malloc gives back what was allocated.                             *)

\* sem_init accepts this initial value.
sem_init(value) == value <= SEM_VALUE_MAX

OpenExisting(c, name, oflag, n) ==
  /\ n \in Lookup(name)
  /\ oflag # {"O_CREAT", "O_EXCL"}
  /\ open_count' = [open_count EXCEPT ![n] = @ + 1]
  /\ ref' = [ref EXCEPT ![c] = n]
  /\ last' = [last EXCEPT ![c] = n]
  /\ Return(c, "OK")
  /\ UNCHANGED <<listed, pname, heap, strings, semVars>>

OpenCreates(c, name, oflag, value, n) ==
  /\ Lookup(name) = {}
  /\ "O_CREAT" \in oflag
  /\ n \in Nodes \ heap
  /\ sem_init(value)
  /\ heap' = heap \cup {n}
  /\ strings' = strings + 1
  /\ listed' = listed \cup {n}
  /\ pname' = [pname EXCEPT ![n] = name]
  /\ open_count' = [open_count EXCEPT ![n] = 1]
  /\ count' = [count EXCEPT ![n] = value]
  /\ queue' = [queue EXCEPT ![n] = {}]
  /\ ref' = [ref EXCEPT ![c] = n]
  /\ last' = [last EXCEPT ![c] = n]
  /\ Return(c, "OK")

\* What the error exits give back to the heap: the name string, when malloc
\* delivered it.
FreedAfterInit(mallocs) == IF mallocs = 2 THEN 1 ELSE 0
FreedStrings(mallocs) == IF mallocs >= 1 THEN 1 ELSE 0

\* mallocs: how many of the two allocations (name, node) succeed before the
\* failure.
OpenFails(c, name, oflag, value, mallocs) ==
  /\ \/ Lookup(name) # {} /\ oflag = {"O_CREAT", "O_EXCL"} /\ mallocs = 0
        /\ Return(c, "EEXIST")
     \/ Lookup(name) = {} /\ "O_CREAT" \notin oflag /\ mallocs = 0
        /\ Return(c, "ENOENT")
     \/ Lookup(name) = {} /\ "O_CREAT" \in oflag /\ mallocs < 2
        /\ Return(c, "ENOMEM")
     \/ Lookup(name) = {} /\ "O_CREAT" \in oflag /\ mallocs = 2
        /\ ~sem_init(value)
        /\ Return(c, "EINVAL")
  /\ strings' = strings + (IF mallocs >= 1 THEN 1 ELSE 0) - FreedStrings(mallocs)
  /\ UNCHANGED <<listed, pname, open_count, heap, semVars, ref, last>>

sem_open(c, name, oflag, value) ==
  /\ pc[c] = "run"
  /\ ref[c] = NULL
  /\ name_mutex = NULL
  /\ \/ \E n \in Nodes : OpenExisting(c, name, oflag, n)
     \/ \E n \in Nodes : OpenCreates(c, name, oflag, value, n)
     \/ \E mallocs \in 0 .. 2 : OpenFails(c, name, oflag, value, mallocs)
  /\ UNCHANGED <<lockVars, pc, overClosed>>

-----------------------------------------------------------------------------
(* sem_close and sem_unlink.                                               *)

\* sem_destroy: refused while a thread sleeps on the semaphore; otherwise
\* the destructor runs and the caller goes on to free the node.
sem_destroy(c, n) ==
  \/ /\ queue[n] # {}
     /\ Return(c, "EBUSY")
     /\ UNCHANGED <<lockVars, pc>>
  \/ /\ queue[n] = {}
     /\ name_mutex' = c
     /\ dying' = n
     /\ pc' = [pc EXCEPT ![c] = "freeing"]
     /\ UNCHANGED ret

\* sem_close decides on the last reference to an unlinked semaphore.
LastButOne(n) == open_count[n] <= 2 /\ pname[n] = EmptyName
LastClose(n) == open_count[n] = 1 /\ pname[n] = EmptyName

\* Otherwise it counts one opener less, unless the count is used up.
JustDecremented(k) == k - 1
Decremented(k) == IF k > 0 THEN k - 1 ELSE k

sem_close(c, n) ==
  /\ pc[c] = "run"
  /\ n # NULL
  /\ n = ref[c] \/ (ref[c] = NULL /\ n = last[c])
  /\ overClosed' = (overClosed \/ ref[c] = NULL)
  /\ name_mutex = NULL
  /\ \/ /\ n \notin listed
        /\ Return(c, "EINVAL")
        /\ UNCHANGED <<open_count, ref, lockVars, pc>>
     \/ /\ n \in listed
        /\ LastClose(n)
        /\ sem_destroy(c, n)
        /\ UNCHANGED <<open_count, ref>>
     \/ /\ n \in listed
        /\ ~LastClose(n)
        /\ open_count' = [open_count EXCEPT ![n] = Decremented(@)]
        /\ ref' = [ref EXCEPT ![c] = NULL]
        /\ Return(c, "OK")
        /\ UNCHANGED <<lockVars, pc>>
  /\ UNCHANGED <<listed, pname, heap, strings, semVars, last>>

sem_unlink(c, name) ==
  /\ pc[c] = "run"
  /\ name_mutex = NULL
  /\ \/ /\ Lookup(name) = {}
        /\ Return(c, "ENOENT")
        /\ UNCHANGED <<pname, lockVars, pc>>
     \/ \E n \in Lookup(name) :
          \/ /\ open_count[n] = 0
             /\ sem_destroy(c, n)
             /\ UNCHANGED pname
          \/ /\ open_count[n] # 0
             /\ pname' = [pname EXCEPT ![n] = EmptyName]
             /\ Return(c, "OK")
             /\ UNCHANGED <<lockVars, pc>>
  /\ UNCHANGED <<listed, open_count, heap, strings, semVars, ref, last,
                 overClosed>>

\* The rest of either call once sem_destroy agreed: take the node out of the
\* list, free its name and the node, release name_mutex.
FreeNode(c) ==
  /\ pc[c] = "freeing"
  /\ listed' = listed \ {dying}
  /\ heap' = heap \ {dying}
  /\ strings' = strings - 1
  /\ name_mutex' = NULL
  /\ dying' = NULL
  /\ pc' = [pc EXCEPT ![c] = "run"]
  /\ ref' = [ref EXCEPT ![c] = IF @ = dying THEN NULL ELSE @]
  /\ Return(c, "OK")
  /\ UNCHANGED <<pname, open_count, semVars, last, overClosed>>

-----------------------------------------------------------------------------
(* The semaphore operations, through the client's reference.  The kernel   *)
(* semaphore is eCos's Cyg_Counting_Semaphore2: post adds a unit and wakes *)
(* one sleeper; a woken thread looks again, as another one may have taken  *)
(* the unit; the kernel may break a sleep.                                 *)

NotNegative(n) == count[n] >= 0
Available(n) == count[n] > 0

\* The end of sem_wait: it returns r, unless pthread_testcancel finds the
\* thread cancelled.
EndWait(c, r) ==
  \/ /\ pc' = [pc EXCEPT ![c] = "run"]
     /\ Return(c, r)
  \/ /\ pc' = [pc EXCEPT ![c] = "cancelled"]
     /\ UNCHANGED ret

\* One look of sema->wait() at the count of n.
TakeOrSleep(c, n) ==
  \/ /\ Available(n)
     /\ count' = [count EXCEPT ![n] = @ - 1]
     /\ EndWait(c, "OK")
     /\ UNCHANGED queue
  \/ /\ ~Available(n)
     /\ queue' = [queue EXCEPT ![n] = @ \cup {c}]
     /\ pc' = [pc EXCEPT ![c] = "sleep"]
     /\ UNCHANGED <<count, ret>>

sem_wait(c) ==
  /\ pc[c] = "run"
  /\ ref[c] # NULL
  /\ \/ TakeOrSleep(c, ref[c])
     \/ /\ pc' = [pc EXCEPT ![c] = "cancelled"]
        /\ UNCHANGED <<semVars, ret>>
  /\ UNCHANGED <<listVars, lockVars, ref, last, overClosed>>

Resume(c) ==
  /\ pc[c] = "woken"
  /\ TakeOrSleep(c, ref[c])
  /\ UNCHANGED <<listVars, lockVars, ref, last, overClosed>>

\* sema->wait() returns false when the sleep is broken by the kernel.
Interrupt(c) ==
  /\ pc[c] = "sleep"
  /\ queue' = [queue EXCEPT ![ref[c]] = @ \ {c}]
  /\ EndWait(c, "EINTR")
  /\ UNCHANGED <<listVars, count, lockVars, ref, last, overClosed>>

sem_trywait(c) ==
  /\ pc[c] = "run"
  /\ ref[c] # NULL
  /\ LET n == ref[c] IN
       \/ /\ Available(n)
          /\ count' = [count EXCEPT ![n] = @ - 1]
          /\ Return(c, "OK")
       \/ /\ ~Available(n)
          /\ Return(c, "EAGAIN")
          /\ UNCHANGED count
  /\ UNCHANGED <<listVars, queue, lockVars, pc, ref, last, overClosed>>

sem_post(c) ==
  /\ pc[c] = "run"
  /\ ref[c] # NULL
  /\ LET n == ref[c] IN
       /\ count[n] < CountBound
       /\ count' = [count EXCEPT ![n] = @ + 1]
       /\ \/ /\ queue[n] = {}
             /\ UNCHANGED <<queue, pc>>
          \/ \E w \in queue[n] :
               /\ queue' = [queue EXCEPT ![n] = @ \ {w}]
               /\ pc' = [pc EXCEPT ![w] = "woken"]
  /\ Return(c, "OK")
  /\ UNCHANGED <<listVars, lockVars, ref, last, overClosed>>

-----------------------------------------------------------------------------
Init ==
  /\ listed = {}
  /\ heap = {}
  /\ strings = 0
  /\ pname = [n \in Nodes |-> EmptyName]
  /\ open_count = [n \in Nodes |-> 0]
  /\ count = [n \in Nodes |-> 0]
  /\ queue = [n \in Nodes |-> {}]
  /\ name_mutex = NULL
  /\ dying = NULL
  /\ pc = [c \in Clients |-> "run"]
  /\ ref = [c \in Clients |-> NULL]
  /\ last = [c \in Clients |-> NULL]
  /\ ret = [c \in Clients |-> "OK"]
  /\ overClosed = FALSE

Client(c) ==
  \/ \E name \in Names, oflag \in Flags, value \in 0 .. SEM_VALUE_MAX + 1 :
       sem_open(c, name, oflag, value)
  \/ RejectEmptyName(c)
  \/ \E n \in Nodes : sem_close(c, n)
  \/ \E name \in Names : sem_unlink(c, name)
  \/ FreeNode(c)
  \/ sem_wait(c)
  \/ Resume(c)
  \/ Interrupt(c)
  \/ sem_trywait(c)
  \/ sem_post(c)

Next == \E c \in Clients : Client(c)

Spec == Init /\ [][Next]_vars

-----------------------------------------------------------------------------
Refs(n) == {c \in Clients : ref[c] = n}

TypeOK ==
  /\ listed \in SUBSET Nodes
  /\ heap \in SUBSET Nodes
  /\ strings \in Int
  /\ pname \in [Nodes -> Names \cup {EmptyName}]
  /\ open_count \in [Nodes -> Int]
  /\ count \in [Nodes -> Nat]
  /\ queue \in [Nodes -> SUBSET Clients]
  /\ name_mutex \in Clients \cup {NULL}
  /\ dying \in Nodes \cup {NULL}
  /\ pc \in [Clients -> {"run", "sleep", "woken", "freeing", "cancelled"}]
  /\ ref \in [Clients -> Nodes \cup {NULL}]
  /\ last \in [Clients -> Nodes \cup {NULL}]
  /\ ret \in [Clients -> Results]
  /\ overClosed \in BOOLEAN

\* As long as every reference is closed once: open_count, the only thing
\* that tells sem_close and sem_unlink that a node is still in use, is the
\* number of references the application holds.
RefCount ==
  overClosed \/ \A n \in listed : open_count[n] = Cardinality(Refs(n))

\* As long as every reference is closed once, one that is open points to a
\* live, listed node, even when the name is unlinked meanwhile or created
\* anew by somebody else: sem_close and sem_unlink never free a semaphore
\* under another client.
NoDangling ==
  overClosed \/ \A c \in Clients : ref[c] # NULL => ref[c] \in listed \cap heap

\* Two live semaphores never share a name, however opens, closes and unlinks
\* of that name interleave: sem_open by name is unambiguous.
UniqueNames ==
  \A m, n \in listed : pname[m] = pname[n] /\ pname[n] # EmptyName => m = n

\* Each allocated node and name string is in the list, and an unlinked node
\* still has an opener whose sem_close will free it: no path through
\* sem_open's failures, sem_close or sem_unlink leaks memory.
NoLeak ==
  /\ heap = listed
  /\ strings = Cardinality(heap)
  /\ \A n \in listed : pname[n] = EmptyName => open_count[n] > 0

\* As long as every reference is closed once, no client is told that its
\* sem_close or sem_unlink found sleepers (EBUSY): nobody else can be asleep on a
\* semaphore whose last reference goes away.
NeverBusy == overClosed \/ \A c \in Clients : ret[c] # "EBUSY"

\* Closing more often than opening, as tests/pnmsem.c does, never takes the
\* count below zero.
NeverNegative == \A n \in listed : open_count[n] >= 0

-----------------------------------------------------------------------------
(* The inductive invariants behind these properties.                       *)

\* What the list satisfies whatever the clients do: the node under removal
\* is a listed one and belongs to the client inside sem_close or sem_unlink,
\* and a thread is queued on the semaphore it sleeps on.
ListInv ==
  /\ TypeOK
  /\ IsFiniteSet(heap)
  /\ UniqueNames
  /\ NoLeak
  /\ NeverNegative
  /\ \A c \in Clients : pc[c] = "freeing" <=> name_mutex = c
  /\ name_mutex # NULL => dying \in listed
  /\ \A n \in Nodes : \A c \in queue[n] : ref[c] = n /\ pc[c] = "sleep"

\* What clients that keep the rules add: counts are exact, nobody but the
\* client that frees a node refers to it, and a thread inside sem_wait has
\* the semaphore open.
RefInv ==
  /\ ListInv
  /\ RefCount
  /\ NoDangling
  /\ NeverBusy
  /\ overClosed \/ (name_mutex # NULL => Refs(dying) \subseteq {name_mutex})
  /\ overClosed \/ \A c \in Clients :
                     pc[c] \in {"sleep", "woken"} => ref[c] # NULL
=============================================================================
