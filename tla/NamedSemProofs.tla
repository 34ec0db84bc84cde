--------------------------- MODULE NamedSemProofs ---------------------------
(***************************************************************************)
(* Proofs about NamedSem and the pointers that SemNameList adds to it, for *)
(* every set of clients, names and nodes.                                  *)
(***************************************************************************)
EXTENDS SemNameList, FiniteSetTheorems, TLAPS

LEMMA TypesAtFirst == Init => TypeOK
<1>1. Init => overClosed \in BOOLEAN
  BY Zenon DEF Init
<1>2. QED
  BY <1>1, NamedSemAssumption DEF Init, TypeOK, Results

\* Every action keeps the variables of NamedSem (sem.cxx) in their types.
THEOREM TypeCorrect == Spec => []TypeOK
<1>1. Init => TypeOK
  BY TypesAtFirst
<1>2. TypeOK /\ [Next]_vars => TypeOK'
  <2> SUFFICES ASSUME TypeOK, [Next]_vars PROVE TypeOK'
    OBVIOUS
  <2> USE NamedSemAssumption DEF TypeOK, Results, Return, listVars, semVars,
          lockVars
  <2>1. ASSUME NEW c \in Clients, NEW name \in Names, NEW oflag \in Flags,
               NEW value \in 0 .. SEM_VALUE_MAX + 1,
               sem_open(c, name, oflag, value)
        PROVE  TypeOK'
    <3>1. ASSUME NEW n \in Nodes, OpenExisting(c, name, oflag, n)
          PROVE  TypeOK'
      BY <2>1, <3>1 DEF sem_open, OpenExisting
    <3>2. ASSUME NEW n \in Nodes, OpenCreates(c, name, oflag, value, n)
          PROVE  TypeOK'
      BY <2>1, <3>2 DEF sem_open, OpenCreates
    <3>3. ASSUME NEW mallocs \in 0 .. 2,
                 OpenFails(c, name, oflag, value, mallocs)
          PROVE  TypeOK'
      BY <2>1, <3>3 DEF sem_open, OpenFails, FreedStrings
    <3>4. QED
      BY <2>1, <3>1, <3>2, <3>3 DEF sem_open
  <2>2. ASSUME NEW c \in Clients, NEW n \in Nodes, sem_close(c, n)
        PROVE  TypeOK'
    BY <2>2 DEF sem_close, sem_destroy, LastClose, Decremented
  <2>3. ASSUME NEW c \in Clients, NEW name \in Names, sem_unlink(c, name)
        PROVE  TypeOK'
    BY <2>3 DEF sem_unlink, sem_destroy, Lookup
  <2>4. ASSUME NEW c \in Clients, FreeNode(c)
        PROVE  TypeOK'
    BY <2>4 DEF FreeNode
  <2>5. ASSUME NEW c \in Clients, sem_wait(c)
        PROVE  TypeOK'
    BY <2>5 DEF sem_wait, TakeOrSleep, EndWait, Available
  <2>6. ASSUME NEW c \in Clients, Resume(c)
        PROVE  TypeOK'
    BY <2>6 DEF Resume, TakeOrSleep, EndWait, Available
  <2>7. ASSUME NEW c \in Clients, Interrupt(c)
        PROVE  TypeOK'
    BY <2>7 DEF Interrupt, EndWait
  <2>8. ASSUME NEW c \in Clients, sem_trywait(c)
        PROVE  TypeOK'
    BY <2>8 DEF sem_trywait, Available
  <2>9. ASSUME NEW c \in Clients, sem_post(c)
        PROVE  TypeOK'
    BY <2>9 DEF sem_post
  <2>10. ASSUME NEW c \in Clients, RejectEmptyName(c)
         PROVE  TypeOK'
    BY <2>10 DEF RejectEmptyName
  <2>11. CASE UNCHANGED vars
    BY <2>11 DEF vars
  <2>12. QED
    BY <2>1, <2>2, <2>3, <2>4, <2>5, <2>6, <2>7, <2>8, <2>9, <2>10, <2>11
       DEF Next, Client
<1>3. QED
  BY <1>1, <1>2, PTL DEF Spec

-----------------------------------------------------------------------------
(* The list, whatever the clients do.                                      *)

LEMMA ListInvInit == Init => ListInv
BY TypesAtFirst, NamedSemAssumption, FS_EmptySet
   DEF Init, ListInv, UniqueNames, NoLeak, NeverNegative

LEMMA ListInvStep == ListInv /\ TypeOK' /\ [Next]_vars => ListInv'
<1> SUFFICES ASSUME ListInv, TypeOK', [Next]_vars PROVE ListInv'
  OBVIOUS
<1> USE NamedSemAssumption DEF ListInv, UniqueNames, NoLeak, NeverNegative,
        Return, listVars, semVars, lockVars
<1>1. ASSUME NEW c \in Clients, NEW name \in Names, NEW oflag \in Flags,
             NEW value \in 0 .. SEM_VALUE_MAX + 1,
             sem_open(c, name, oflag, value)
      PROVE  ListInv'
  <2>1. ASSUME NEW n \in Nodes, OpenExisting(c, name, oflag, n)
        PROVE  ListInv'
    BY <1>1, <2>1 DEF sem_open, OpenExisting, Lookup, TypeOK
  <2>2. ASSUME NEW n \in Nodes, OpenCreates(c, name, oflag, value, n)
        PROVE  ListInv'
    <3>1. IsFiniteSet(heap') /\ Cardinality(heap') = Cardinality(heap) + 1
      BY <2>2, FS_AddElement DEF OpenCreates
    <3>2. \A m \in listed : pname[m] # name
      BY <2>2 DEF OpenCreates, Lookup
    <3>3. UniqueNames'
      BY <2>2, <3>2 DEF OpenCreates, TypeOK
    <3>4. QED
      BY <1>1, <2>2, <3>1, <3>3 DEF sem_open, OpenCreates, TypeOK
  <2>3. ASSUME NEW mallocs \in 0 .. 2,
               OpenFails(c, name, oflag, value, mallocs)
        PROVE  ListInv'
    BY <1>1, <2>3 DEF sem_open, OpenFails, FreedStrings, TypeOK
  <2>4. QED
    BY <1>1, <2>1, <2>2, <2>3 DEF sem_open
<1>2. ASSUME NEW c \in Clients, NEW n \in Nodes, sem_close(c, n)
      PROVE  ListInv'
  BY <1>2 DEF sem_close, sem_destroy, LastClose, Decremented, TypeOK
<1>3. ASSUME NEW c \in Clients, NEW name \in Names, sem_unlink(c, name)
      PROVE  ListInv'
  BY <1>3 DEF sem_unlink, sem_destroy, Lookup, TypeOK
<1>4. ASSUME NEW c \in Clients, FreeNode(c)
      PROVE  ListInv'
  <2>1. dying \in heap
    BY <1>4 DEF FreeNode
  <2>2. IsFiniteSet(heap') /\ Cardinality(heap') = Cardinality(heap) - 1
    BY <1>4, <2>1, FS_RemoveElement DEF FreeNode
  <2>3. QED
    BY <1>4, <2>2 DEF FreeNode, TypeOK
<1>5. ASSUME NEW c \in Clients, sem_wait(c)
      PROVE  ListInv'
  BY <1>5 DEF sem_wait, TakeOrSleep, EndWait, Available, TypeOK
<1>6. ASSUME NEW c \in Clients, Resume(c)
      PROVE  ListInv'
  BY <1>6 DEF Resume, TakeOrSleep, EndWait, Available, TypeOK
<1>7. ASSUME NEW c \in Clients, Interrupt(c)
      PROVE  ListInv'
  BY <1>7 DEF Interrupt, EndWait, TypeOK
<1>8. ASSUME NEW c \in Clients, sem_trywait(c)
      PROVE  ListInv'
  BY <1>8 DEF sem_trywait, Available, TypeOK
<1>9. ASSUME NEW c \in Clients, sem_post(c)
      PROVE  ListInv'
  BY <1>9 DEF sem_post, TypeOK
<1>10. ASSUME NEW c \in Clients, RejectEmptyName(c)
       PROVE  ListInv'
  BY <1>10 DEF RejectEmptyName, TypeOK
<1>11. CASE UNCHANGED vars
  BY <1>11 DEF vars, TypeOK
<1>12. QED
  BY <1>1, <1>2, <1>3, <1>4, <1>5, <1>6, <1>7, <1>8, <1>9, <1>10, <1>11
     DEF Next, Client

\* Whatever the clients of sem.cxx do, even closing too often: names are
\* unique, no node or name string leaks and no open_count turns negative.
THEOREM ListSafety == Spec => [](UniqueNames /\ NoLeak /\ NeverNegative)
<1>1. ListInv => UniqueNames /\ NoLeak /\ NeverNegative
  BY DEF ListInv
<1>2. QED
  BY ListInvInit, ListInvStep, TypeCorrect, <1>1, PTL DEF Spec

-----------------------------------------------------------------------------
(* References and counts, for clients that close each reference once.      *)

LEMMA RefsFinite == ASSUME NEW n PROVE IsFiniteSet(Refs(n))
BY NamedSemAssumption, FS_Subset DEF Refs

\* Opening n adds one reference to n and none elsewhere.
LEMMA RefsOpen ==
  ASSUME TypeOK, NEW c \in Clients, NEW n \in Nodes, ref[c] = NULL,
         ref' = [ref EXCEPT ![c] = n]
  PROVE  /\ Cardinality(Refs(n)') = Cardinality(Refs(n)) + 1
         /\ \A m \in Nodes : m # n => Refs(m)' = Refs(m)
<1>1. Refs(n)' = Refs(n) \cup {c} /\ c \notin Refs(n)
  BY NamedSemAssumption DEF TypeOK, Refs
<1>2. \A m \in Nodes : m # n => Refs(m)' = Refs(m)
  BY NamedSemAssumption DEF TypeOK, Refs
<1>3. QED
  BY <1>1, <1>2, RefsFinite, FS_AddElement

\* Closing n takes one reference from n and none elsewhere.
LEMMA RefsClose ==
  ASSUME TypeOK, NEW c \in Clients, NEW n \in Nodes, ref[c] = n,
         ref' = [ref EXCEPT ![c] = NULL]
  PROVE  /\ Cardinality(Refs(n)') = Cardinality(Refs(n)) - 1
         /\ \A m \in Nodes : m # n => Refs(m)' = Refs(m)
<1>1. Refs(n)' = Refs(n) \ {c} /\ c \in Refs(n)
  BY NamedSemAssumption DEF TypeOK, Refs
<1>2. \A m \in Nodes : m # n => Refs(m)' = Refs(m)
  BY NamedSemAssumption DEF TypeOK, Refs
<1>3. QED
  BY <1>1, <1>2, RefsFinite, FS_RemoveElement

\* The client that sem_close serves as the last one is the only one.
LEMMA LastReference ==
  ASSUME NEW c \in Clients, NEW n, ref[c] = n, Cardinality(Refs(n)) = 1
  PROVE  Refs(n) = {c}
<1>1. PICK x : Refs(n) = {x}
  BY RefsFinite, FS_Singleton
<1>2. QED
  BY <1>1 DEF Refs

LEMMA NoReference ==
  ASSUME NEW n, Cardinality(Refs(n)) = 0
  PROVE  Refs(n) = {}
BY RefsFinite, FS_EmptySet

LEMMA RefInvInit == Init => RefInv
<1> SUFFICES ASSUME Init PROVE RefInv
  OBVIOUS
<1>1. ListInv
  BY ListInvInit
<1>2. QED
  BY <1>1, NamedSemAssumption
     DEF Init, RefInv, RefCount, NoDangling, NeverBusy

\* sem_destroy finds no sleeper when only its caller refers to the node.
LEMMA DestroyProceeds ==
  ASSUME ~overClosed, RefInv, NEW c \in Clients, NEW n \in Nodes, pc[c] = "run",
         Refs(n) \subseteq {c}, sem_destroy(c, n)
  PROVE  /\ name_mutex' = c
         /\ dying' = n
         /\ pc' = [pc EXCEPT ![c] = "freeing"]
         /\ ret' = ret
<1>1. queue[n] = {}
  <2> SUFFICES ASSUME NEW w \in queue[n] PROVE FALSE
    OBVIOUS
  <2>1. w \in Clients /\ ref[w] = n /\ pc[w] = "sleep"
    BY DEF RefInv, ListInv, TypeOK
  <2>2. QED
    BY <2>1 DEF Refs
<1>2. QED
  BY <1>1 DEF sem_destroy

LEMMA StaysOverClosed == overClosed /\ [Next]_vars => overClosed'
BY DEF Next, Client, sem_open, sem_close, sem_unlink, FreeNode, sem_wait,
       Resume, Interrupt, sem_trywait, sem_post, RejectEmptyName, vars

LEMMA RefInvStep ==
  ASSUME ~overClosed', ~overClosed, RefInv, ListInv', [Next]_vars
  PROVE  RefInv'
<1> USE NamedSemAssumption DEF RefInv, NeverBusy, Return, listVars, semVars,
        lockVars
<1>t. TypeOK /\ ListInv /\ TypeOK'
  BY DEF ListInv
<1>1. ASSUME NEW c \in Clients, NEW name \in Names, NEW oflag \in Flags,
             NEW value \in 0 .. SEM_VALUE_MAX + 1,
             sem_open(c, name, oflag, value)
      PROVE  RefInv'
  <2>1. ASSUME NEW n \in Nodes, OpenExisting(c, name, oflag, n)
        PROVE  RefInv'
    <3>1. /\ Cardinality(Refs(n)') = Cardinality(Refs(n)) + 1
          /\ \A m \in Nodes : m # n => Refs(m)' = Refs(m)
      BY <1>t, <1>1, <2>1, RefsOpen DEF sem_open, OpenExisting
    <3>2. n \in listed /\ listed \subseteq Nodes
      BY <1>t, <2>1 DEF OpenExisting, Lookup, TypeOK
    <3>3. RefCount'
      BY <1>t, <2>1, <3>1, <3>2 DEF OpenExisting, TypeOK, RefCount
    <3>4. NoDangling'
      BY <1>t, <2>1, <3>2 DEF OpenExisting, TypeOK, NoDangling, ListInv, NoLeak
    <3>5. QED
      BY <1>t, <1>1, <2>1, <3>3, <3>4 DEF sem_open, OpenExisting, TypeOK
  <2>2. ASSUME NEW n \in Nodes, OpenCreates(c, name, oflag, value, n)
        PROVE  RefInv'
    <3>1. /\ Cardinality(Refs(n)') = Cardinality(Refs(n)) + 1
          /\ \A m \in Nodes : m # n => Refs(m)' = Refs(m)
      BY <1>t, <1>1, <2>2, RefsOpen DEF sem_open, OpenCreates
    <3>2. Cardinality(Refs(n)) = 0
      <4>1. n \notin heap /\ n # NULL
        BY <2>2 DEF OpenCreates
      <4>2. Refs(n) = {}
        BY <4>1 DEF Refs, NoDangling
      <4>3. QED
        BY <4>2, FS_EmptySet
    <3>3. RefCount'
      BY <1>t, <2>2, <3>1, <3>2 DEF OpenCreates, TypeOK, RefCount
    <3>4. NoDangling'
      BY <1>t, <2>2 DEF OpenCreates, TypeOK, NoDangling
    <3>5. QED
      BY <1>t, <1>1, <2>2, <3>3, <3>4 DEF sem_open, OpenCreates, TypeOK
  <2>3. ASSUME NEW mallocs \in 0 .. 2,
               OpenFails(c, name, oflag, value, mallocs)
        PROVE  RefInv'
    BY <1>t, <1>1, <2>3
       DEF sem_open, OpenFails, TypeOK, RefCount, NoDangling, Refs
  <2>4. QED
    BY <1>1, <2>1, <2>2, <2>3 DEF sem_open
<1>2. ASSUME NEW c \in Clients, NEW n \in Nodes, sem_close(c, n)
      PROVE  RefInv'
  <2>0. pc[c] = "run" /\ ref[c] = n /\ name_mutex = NULL /\ n \in listed
    BY <1>2 DEF sem_close, NoDangling
  <2>1. CASE LastClose(n)
    <3>1. Refs(n) = {c}
      BY <2>0, <2>1, LastReference DEF LastClose, RefCount
    <3>2. sem_destroy(c, n) /\ UNCHANGED <<listVars, semVars, ref, last>>
      BY <1>2, <2>0, <2>1 DEF sem_close
    <3>3. /\ name_mutex' = c
          /\ dying' = n
          /\ pc' = [pc EXCEPT ![c] = "freeing"]
          /\ ret' = ret
      BY <2>0, <3>1, <3>2, DestroyProceeds
    <3>4. RefCount' /\ NoDangling'
      BY <3>2 DEF RefCount, NoDangling, Refs
    <3>5. Refs(dying)' \subseteq {name_mutex'}
      BY <3>1, <3>2, <3>3 DEF Refs
    <3>6. QED
      BY <1>t, <3>2, <3>3, <3>4, <3>5 DEF TypeOK
  <2>2. CASE ~LastClose(n)
    <3>1. /\ open_count' = [open_count EXCEPT ![n] = Decremented(@)]
          /\ ref' = [ref EXCEPT ![c] = NULL]
          /\ ret' = [ret EXCEPT ![c] = "OK"]
          /\ UNCHANGED <<listed, heap, semVars, lockVars, pc>>
      BY <1>2, <2>0, <2>2 DEF sem_close
    <3>2. /\ Cardinality(Refs(n)') = Cardinality(Refs(n)) - 1
          /\ \A m \in Nodes : m # n => Refs(m)' = Refs(m)
      BY <1>t, <2>0, <3>1, RefsClose
    <3>3. Cardinality(Refs(n)) \in Nat /\ Cardinality(Refs(n)') \in Nat
      <4>1. IsFiniteSet(Refs(n)) /\ IsFiniteSet(Refs(n)')
        BY RefsFinite, FS_Subset DEF Refs
      <4>2. QED
        BY <4>1, FS_CardinalityType
    <3>4. RefCount'
      BY <1>t, <2>0, <3>1, <3>2, <3>3 DEF TypeOK, RefCount, Decremented
    <3>5. NoDangling'
      BY <1>t, <3>1 DEF TypeOK, NoDangling
    <3>6. QED
      BY <1>t, <2>0, <3>1, <3>4, <3>5 DEF TypeOK
  <2>3. QED
    BY <2>1, <2>2
<1>3. ASSUME NEW c \in Clients, NEW name \in Names, sem_unlink(c, name)
      PROVE  RefInv'
  <2>0. pc[c] = "run" /\ name_mutex = NULL
        /\ UNCHANGED <<listed, open_count, heap, semVars, ref, last>>
    BY <1>3 DEF sem_unlink
  <2>1. RefCount' /\ NoDangling'
    BY <2>0 DEF RefCount, NoDangling, Refs
  <2>2. ASSUME NEW n \in Lookup(name), open_count[n] = 0, sem_destroy(c, n)
        PROVE  RefInv'
    <3>1. n \in listed /\ n \in Nodes
      BY <1>t DEF Lookup, TypeOK
    <3>2. Refs(n) = {}
      BY <2>2, <3>1, NoReference DEF RefCount
    <3>3. /\ name_mutex' = c
          /\ dying' = n
          /\ pc' = [pc EXCEPT ![c] = "freeing"]
          /\ ret' = ret
      BY <2>0, <2>2, <3>1, <3>2, DestroyProceeds
    <3>4. Refs(dying)' \subseteq {name_mutex'}
      BY <2>0, <3>2, <3>3 DEF Refs
    <3>5. QED
      BY <1>t, <2>0, <2>1, <3>3, <3>4 DEF TypeOK
  <2>3. CASE UNCHANGED <<lockVars, pc>>
             /\ (Return(c, "OK") \/ Return(c, "ENOENT"))
    BY <1>t, <2>0, <2>1, <2>3 DEF TypeOK, Refs
  <2>4. QED
    BY <1>3, <2>2, <2>3 DEF sem_unlink
<1>4. ASSUME NEW c \in Clients, FreeNode(c)
      PROVE  RefInv'
  <2>1. name_mutex = c /\ dying \in listed /\ dying \in Nodes
    BY <1>t, <1>4 DEF FreeNode, ListInv, TypeOK
  <2>2. \A d \in Clients : ref[d] = dying => d = c
    BY <2>1 DEF Refs
  <2>3. \A m \in Nodes \ {dying} : Refs(m)' = Refs(m)
    BY <1>t, <1>4, <2>1 DEF FreeNode, TypeOK, Refs
  <2>4. RefCount'
    BY <1>t, <1>4, <2>3 DEF FreeNode, TypeOK, RefCount
  <2>5. NoDangling'
    BY <1>t, <1>4, <2>1, <2>2 DEF FreeNode, TypeOK, NoDangling
  <2>6. QED
    BY <1>t, <1>4, <2>1, <2>4, <2>5 DEF FreeNode, TypeOK
<1>5. ASSUME NEW c \in Clients,
             sem_wait(c) \/ Resume(c) \/ Interrupt(c) \/ sem_trywait(c)
               \/ sem_post(c)
      PROVE  RefInv'
  <2>1. UNCHANGED <<listVars, lockVars, ref>>
    BY <1>5 DEF sem_wait, Resume, Interrupt, sem_trywait, sem_post
  <2>2. RefCount' /\ NoDangling' 
        /\ (name_mutex # NULL => Refs(dying) \subseteq {name_mutex})'
    BY <2>1 DEF RefCount, NoDangling, Refs
  <2>3. NeverBusy'
    BY <1>t, <1>5
       DEF TypeOK, sem_wait, Resume, Interrupt, TakeOrSleep, EndWait,
           sem_trywait, sem_post
  <2>4. \A d \in Clients : (pc[d] \in {"sleep", "woken"} => ref[d] # NULL)'
    <3>1. CASE sem_post(c)
      BY <1>t, <2>1, <3>1 DEF TypeOK, sem_post, ListInv
    <3>2. CASE sem_wait(c) \/ Resume(c) \/ Interrupt(c) \/ sem_trywait(c)
      BY <1>t, <2>1, <3>2
         DEF TypeOK, sem_wait, Resume, Interrupt, TakeOrSleep, EndWait,
             sem_trywait
    <3>3. QED
      BY <1>5, <3>1, <3>2
  <2>5. QED
    BY <2>2, <2>3, <2>4
<1>6. ASSUME NEW c \in Clients, RejectEmptyName(c)
      PROVE  RefInv'
  BY <1>t, <1>6 DEF RejectEmptyName, TypeOK, RefCount, NoDangling, Refs
<1>7. CASE UNCHANGED vars
  BY <1>7 DEF vars, RefCount, NoDangling, Refs
<1>8. QED
  BY <1>1, <1>2, <1>3, <1>4, <1>5, <1>6, <1>7 DEF Next, Client

\* As long as every reference is closed once, open_count in sem.cxx is exact, no
\* sem_close or sem_unlink frees a semaphore under another client, and none
\* of them fails with EBUSY: the check for sleepers and the release of the
\* node need not be atomic.
THEOREM RefSafety == Spec => [](RefCount /\ NoDangling /\ NeverBusy)
<1>1. RefInv /\ ListInv' /\ [Next]_vars => RefInv'
  <2> SUFFICES ASSUME RefInv, ListInv', [Next]_vars PROVE RefInv'
    OBVIOUS
  <2>1. CASE overClosed'
    BY <2>1 DEF RefInv, RefCount, NoDangling, NeverBusy
  <2>2. CASE ~overClosed'
    BY <2>2, RefInvStep, StaysOverClosed
  <2>3. QED
    BY <2>1, <2>2
<1>2. RefInv => RefCount /\ NoDangling /\ NeverBusy
  BY DEF RefInv
<1>3. QED
  BY RefInvInit, ListInvInit, ListInvStep, TypeCorrect, <1>1, <1>2, PTL
     DEF Spec
-----------------------------------------------------------------------------
(* The pointers of the list.                                               *)

\* A nonempty set of numbers has a least element: the form of induction that
\* the provers can use here.
LEMMA Least ==
  ASSUME NEW T \in SUBSET Nat, T # {}
  PROVE  \E n \in T : \A k \in T : n <= k
<1> DEFINE Below == {0 .. n : n \in T}
<1>1. \A n \in Nat : 0 .. n \in FiniteSubsetsOf(Nat)
  BY FS_Interval DEF FiniteSubsetsOf
<1>2. Below \subseteq FiniteSubsetsOf(Nat) /\ Below # {}
  BY <1>1
<1>3. PICK x \in Below :
             \A y \in Below : <<y, x>> \notin StrictSubsetOrdering(Nat)
  BY <1>2, WFMin, FS_StrictSubsetOrderingWellFounded
<1>4. PICK n \in T : x = 0 .. n
  OBVIOUS
<1>5. ASSUME NEW k \in T, k < n PROVE FALSE
  <2>1. n \in 0 .. n /\ n \notin 0 .. k
    BY <1>5
  <2>2. 0 .. k \in Below /\ 0 .. k \subseteq 0 .. n /\ 0 .. k # 0 .. n
    BY <2>1, <1>5
  <2>3. <<0 .. k, 0 .. n>> \in StrictSubsetOrdering(Nat)
    BY <2>2 DEF StrictSubsetOrdering
  <2>4. QED
    BY <2>2, <2>3, <1>3, <1>4
<1>6. QED
  BY <1>5

\* The loop goes along the chain, and stays at its end.
LEMMA LoopFollowsChain ==
  ASSUME listed \subseteq Nodes,
         NEW k \in 0 .. Cardinality(Nodes), Cardinality(Nodes) \in Nat,
         NEW c \in [0 .. k -> Nodes \cup {NULL}], Chain(c, k)
  PROVE  At = [i \in 0 .. Cardinality(Nodes) |-> IF i <= k THEN c[i] ELSE NULL]
<1> DEFINE Turns == 0 .. Cardinality(Nodes)
           Loop(g) == [i \in Turns |->
                         IF i = 0 THEN psem_list
                         ELSE IF g[i - 1] \in Nodes THEN pnext[g[i - 1]]
                         ELSE NULL]
           walk == [i \in Turns |-> IF i <= k THEN c[i] ELSE NULL]
<1>1. At = CHOOSE g : g = Loop(g)
  BY DEF At
<1>2. walk = Loop(walk)
  <2> SUFFICES ASSUME NEW i \in Turns PROVE walk[i] = Loop(walk)[i]
    OBVIOUS
  <2>1. CASE i = 0
    BY <2>1 DEF Chain
  <2>2. CASE i \in 1 .. k
    <3>1. i - 1 \in 0 .. k - 1 /\ walk[i - 1] = c[i - 1] /\ walk[i] = c[i]
      BY <2>2
    <3>2. c[i - 1] \in Nodes /\ pnext[c[i - 1]] = c[i]
      BY <3>1, <2>2 DEF Chain
    <3>3. QED
      BY <2>2, <3>1, <3>2
  <2>3. CASE i > k /\ i # 0
    <3>1. i - 1 \in Turns /\ walk[i - 1] = NULL /\ walk[i] = NULL
      BY <2>3 DEF Chain
    <3>2. QED
      BY <2>3, <3>1, NamedSemAssumption
  <2>4. QED
    BY <2>1, <2>2, <2>3
<1>3. At = Loop(At)
  <2> HIDE DEF Loop, walk
  <2>1. QED
    BY <1>1, <1>2
<1>4. ASSUME NEW i \in Turns, At[i] # walk[i] PROVE FALSE
  <2> DEFINE Wrong == {j \in Turns : At[j] # walk[j]}
  <2>1. PICK j \in Wrong : \A l \in Wrong : j <= l
    <3>1. Wrong \in SUBSET Nat /\ Wrong # {}
      BY <1>4
    <3> HIDE DEF Wrong
    <3>2. QED
      BY <3>1, Least
  <2>2. j # 0
    <3>1. At[j] = Loop(At)[j] /\ walk[j] = Loop(walk)[j]
      BY <1>2, <1>3
    <3>2. QED
      BY <3>1, <2>1
  <2>3. At[j - 1] = walk[j - 1]
    <3>1. j - 1 \in Turns /\ ~(j <= j - 1)
      BY <2>2
    <3>2. j - 1 \notin Wrong
      BY <3>1, <2>1
    <3>3. QED
      BY <3>1, <3>2
  <2>4. Loop(At)[j] = Loop(walk)[j]
    BY <2>3, <2>2
  <2>5. QED
    BY <2>1, <2>4, <1>2, <1>3
<1>5. At = [i \in Turns |-> At[i]]
  BY <1>3
<1>6. QED
  BY <1>4, <1>5

LEMMA ListedFinite ==
  ASSUME listed \subseteq Nodes
  PROVE  /\ IsFiniteSet(listed)
         /\ Cardinality(Nodes) \in Nat
         /\ Cardinality(listed) \in 0 .. Cardinality(Nodes)
BY FS_Subset, FS_CardinalityType, SemNameListAssumption

\* plast of a search that ends at NULL is the last node, if there is one.
LEMMA PlastAtEnd ==
  ASSUME listed \subseteq Nodes,
         NEW k \in 0 .. Cardinality(Nodes), Cardinality(Nodes) \in Nat,
         NEW c \in [0 .. k -> Nodes \cup {NULL}], Chain(c, k)
  PROVE  Plast(NULL) = IF k = 0 THEN NULL ELSE c[k - 1]
<1>1. CASE k = 0
  BY <1>1 DEF Chain, Plast
<1>2. CASE k # 0
  <2> DEFINE Stop(j) == At[j] = NULL /\ \A i \in 0 .. j - 1 : At[i] # NULL
  <2>1. \A i \in 0 .. k - 1 : c[i] # NULL
    BY NamedSemAssumption DEF Chain
  <2>2. DOMAIN At = 0 .. Cardinality(Nodes) /\ \A i \in 0 .. k : At[i] = c[i]
    BY LoopFollowsChain
  <2>3. k \in DOMAIN At /\ Stop(k)
    BY <2>1, <2>2 DEF Chain
  <2>4. \A j \in DOMAIN At : Stop(j) => j = k
    BY <2>1, <2>2 DEF Chain
  <2>5. FirstTurn(NULL) = k
    BY <2>3, <2>4 DEF FirstTurn
  <2>6. psem_list # NULL
    BY <1>2, <2>1 DEF Chain
  <2>7. QED
    BY <1>2, <2>2, <2>5, <2>6 DEF Plast
<1>3. QED
  BY <1>1, <1>2

\* plast of a search that ends at the node in place j is the one before it.
LEMMA PlastAtNode ==
  ASSUME listed \subseteq Nodes,
         NEW k \in 0 .. Cardinality(Nodes), Cardinality(Nodes) \in Nat,
         NEW c \in [0 .. k -> Nodes \cup {NULL}], Chain(c, k),
         NEW j \in 0 .. k - 1
  PROVE  Plast(c[j]) = IF j = 0 THEN c[j] ELSE c[j - 1]
<1>1. CASE j = 0
  BY <1>1 DEF Chain, Plast
<1>2. CASE j # 0
  <2> DEFINE Stop(l) == At[l] = c[j] /\ \A i \in 0 .. l - 1 : At[i] # c[j]
  <2>1. \A i \in 0 .. k : c[i] = c[j] => i = j
    BY NamedSemAssumption DEF Chain
  <2>2. /\ DOMAIN At = 0 .. Cardinality(Nodes)
        /\ \A i \in 0 .. k : At[i] = c[i]
        /\ \A i \in 0 .. Cardinality(Nodes) : i > k => At[i] = NULL
    BY LoopFollowsChain
  <2>3. c[j] # NULL
    BY NamedSemAssumption DEF Chain
  <2>4. j \in DOMAIN At /\ Stop(j)
    BY <2>1, <2>2
  <2>5. \A l \in DOMAIN At : Stop(l) => l = j
    BY <2>1, <2>2, <2>3
  <2>6. FirstTurn(c[j]) = j
    BY <2>4, <2>5 DEF FirstTurn
  <2>7. psem_list # c[j]
    BY <1>2, <2>1 DEF Chain
  <2>8. QED
    BY <1>2, <2>2, <2>6, <2>7 DEF Plast
<1>3. QED
  BY <1>1, <1>2

\* sem_open leaves a chain that is longer by its node.
LEMMA AppendKeepsChain ==
  ASSUME PointerInv, NEW n \in Nodes, n \notin listed,
         listed' = listed \cup {n}, AppendNode(n)
  PROVE  PointerInv'
<1>k. PICK k \in 0 .. Cardinality(Nodes) : k = Cardinality(listed)
  BY ListedFinite DEF PointerInv
<1>1. k \in 0 .. Cardinality(Nodes) /\ Cardinality(Nodes) \in Nat
  BY ListedFinite DEF PointerInv
<1>2. Cardinality(listed)' = k + 1
  <2>1. Cardinality(listed \cup {n}) = k + 1
    BY <1>k, ListedFinite, FS_AddElement DEF PointerInv
  <2>2. QED
    BY <2>1
<1>3. PICK c \in [0 .. k -> Nodes \cup {NULL}] : Chain(c, k)
  BY <1>k DEF PointerInv
<1> DEFINE d == [i \in 0 .. k + 1 |-> IF i < k THEN c[i]
                                      ELSE IF i = k THEN n ELSE NULL]
<1>4. Plast(NULL) = IF k = 0 THEN NULL ELSE c[k - 1]
  BY <1>1, <1>3, PlastAtEnd DEF PointerInv
<1>5. CASE k = 0
  <2>1. listed = {}
    BY <1>5, <1>3 DEF Chain
  <2>2. psem_list' = n /\ pnext' = [pnext EXCEPT ![n] = NULL]
    BY <1>4, <1>5 DEF AppendNode
  <2>3. Chain(d, k + 1)'
    BY <1>5, <2>1, <2>2 DEF Chain, PointerInv
  <2>4. d \in [0 .. k + 1 -> Nodes \cup {NULL}]
    BY <1>1
  <2>5. QED
    BY <1>2, <2>2, <2>3, <2>4 DEF PointerInv
<1>6. CASE k # 0
  <2>1. k - 1 \in 0 .. k - 1 /\ c[k - 1] \in listed /\ c[k - 1] # NULL
    BY <1>6, <1>1, <1>3, NamedSemAssumption DEF Chain, PointerInv
  <2>2. /\ pnext' = [pnext EXCEPT ![n] = NULL, ![c[k - 1]] = n]
        /\ psem_list' = psem_list
    BY <1>4, <1>6, <2>1 DEF AppendNode
  <2>3. /\ d[0] = psem_list'
        /\ d[k + 1] = NULL
    BY <1>1, <1>3, <1>6, <2>2 DEF Chain
  <2>4. ASSUME NEW i \in 0 .. k
        PROVE  d[i] \in listed' /\ pnext'[d[i]] = d[i + 1]
    <3>1. CASE i = k
      BY <3>1, <1>1, <2>1, <2>2 DEF PointerInv
    <3>2. CASE i = k - 1
      BY <3>2, <1>1, <2>1, <2>2 DEF PointerInv
    <3>3. CASE i \in 0 .. k - 2
      <4>1. i \in 0 .. k - 1 /\ c[i] \in listed /\ c[i] # c[k - 1]
        BY <3>3, <1>1, <1>3, <2>1 DEF Chain
      <4>2. pnext'[c[i]] = pnext[c[i]] /\ pnext[c[i]] = c[i + 1]
        BY <4>1, <2>2, <1>3 DEF Chain, PointerInv
      <4>3. QED
        BY <3>3, <4>1, <4>2, <1>1
    <3>4. QED
      BY <3>1, <3>2, <3>3, <1>1
  <2>5. \A i, j \in 0 .. k : d[i] = d[j] => i = j
    BY <1>1, <1>3 DEF Chain
  <2>6. ASSUME NEW m \in listed' PROVE \E i \in 0 .. k : d[i] = m
    <3>1. CASE m = n
      <4>1. k \in 0 .. k /\ d[k] = n
        BY <1>1
      <4>2. QED
        BY <3>1, <4>1
    <3>2. CASE m \in listed
      <4>1. PICK i \in 0 .. k - 1 : c[i] = m
        BY <3>2, <1>3 DEF Chain
      <4>2. i \in 0 .. k /\ d[i] = m
        BY <4>1, <1>1
      <4>3. QED
        BY <4>2
    <3>3. QED
      BY <3>1, <3>2
  <2>7. Chain(d, k + 1)'
    <3>1. (k + 1) - 1 = k
      BY <1>1
    <3> HIDE DEF d
    <3>2. QED
      BY <3>1, <2>3, <2>4, <2>5, <2>6 DEF Chain
  <2>8. d \in [0 .. k + 1 -> Nodes \cup {NULL}]
    BY <1>1
  <2>9. pnext' \in [Nodes -> Nodes \cup {NULL, Garbage}]
    BY <2>2 DEF PointerInv
  <2>10. QED
    BY <1>2, <2>7, <2>8, <2>9 DEF PointerInv
<1>7. QED
  BY <1>5, <1>6

\* sem_close and sem_unlink leave a chain without their node.
LEMMA RemoveKeepsChain ==
  ASSUME PointerInv, NEW n \in listed, listed' = listed \ {n}, RemoveNode(n)
  PROVE  PointerInv'
<1>k. PICK k \in 0 .. Cardinality(Nodes) : k = Cardinality(listed)
  BY ListedFinite DEF PointerInv
<1>1. k \in 0 .. Cardinality(Nodes) /\ Cardinality(Nodes) \in Nat
  BY ListedFinite DEF PointerInv
<1>2. Cardinality(listed)' = k - 1
  <2>1. Cardinality(listed \ {n}) = k - 1
    BY <1>k, ListedFinite, FS_RemoveElement DEF PointerInv
  <2>2. QED
    BY <2>1
<1>3. PICK c \in [0 .. k -> Nodes \cup {NULL}] : Chain(c, k)
  BY <1>k DEF PointerInv
<1>4. PICK j \in 0 .. k - 1 : c[j] = n
  BY <1>3 DEF Chain
<1> DEFINE d == [i \in 0 .. k - 1 |-> IF i < j THEN c[i] ELSE c[i + 1]]
<1>5. Plast(n) = IF j = 0 THEN n ELSE c[j - 1]
  BY <1>1, <1>3, <1>4, PlastAtNode DEF PointerInv
<1>6. n \in Nodes /\ pnext[n] = c[j + 1]
  BY <1>3, <1>4 DEF Chain, PointerInv
<1>7. /\ pnext' \in [Nodes -> Nodes \cup {NULL, Garbage}]
      /\ psem_list' = IF j = 0 THEN c[1] ELSE psem_list
      /\ \A m \in Nodes \ {n} :
           pnext'[m] = IF j # 0 /\ m = c[j - 1] THEN c[j + 1] ELSE pnext[m]
  <2>1. CASE j = 0
    <3>1. psem_list' = pnext[n] /\ pnext' = [pnext EXCEPT ![n] = Garbage]
      BY <2>1, <1>5 DEF RemoveNode, IsFirst
    <3>2. QED
      BY <3>1, <2>1, <1>6 DEF PointerInv
  <2>2. CASE j # 0
    <3>1. j - 1 \in 0 .. k - 1 /\ c[j - 1] # n /\ c[j - 1] \in Nodes
      BY <2>2, <1>1, <1>3, <1>4 DEF Chain, PointerInv
    <3>2. /\ psem_list' = psem_list
          /\ pnext' = [pnext EXCEPT ![c[j - 1]] = pnext[n], ![n] = Garbage]
      BY <2>2, <1>5, <3>1 DEF RemoveNode, IsFirst
    <3>3. QED
      BY <3>1, <3>2, <2>2, <1>6 DEF PointerInv
  <2>3. QED
    BY <2>1, <2>2
<1>8. d[0] = psem_list' /\ d[k - 1] = NULL
  BY <1>1, <1>3, <1>4, <1>7 DEF Chain
<1>9. ASSUME NEW i \in 0 .. k - 2
      PROVE  d[i] \in listed' /\ pnext'[d[i]] = d[i + 1]
  <2>1. CASE i < j
    <3>0. i \in 0 .. k - 1 /\ i # j /\ d[i] = c[i]
      BY <2>1, <1>1
    <3>1. c[i] \in listed /\ c[i] # n /\ pnext[c[i]] = c[i + 1]
      BY <3>0, <1>3, <1>4 DEF Chain
    <3>2. i = j - 1 <=> c[i] = c[j - 1]
      BY <2>1, <1>1, <1>3, <1>4 DEF Chain
    <3>3. pnext'[c[i]] = IF i = j - 1 THEN c[j + 1] ELSE c[i + 1]
      BY <3>1, <3>2, <1>7, <2>1 DEF PointerInv
    <3>4. d[i + 1] = IF i = j - 1 THEN c[j + 1] ELSE c[i + 1]
      BY <2>1, <1>1
    <3>5. QED
      BY <3>0, <3>1, <3>3, <3>4
  <2>2. CASE i >= j
    <3>0. /\ i + 1 \in 0 .. k - 1 /\ i + 1 # j /\ (i + 1) + 1 = i + 2
          /\ d[i] = c[i + 1] /\ d[i + 1] = c[i + 2]
      BY <2>2, <1>1
    <3>1. c[i + 1] \in listed /\ c[i + 1] # n /\ pnext[c[i + 1]] = c[i + 2]
      BY <3>0, <1>3, <1>4 DEF Chain
    <3>2. j # 0 => c[i + 1] # c[j - 1]
      BY <2>2, <3>0, <1>1, <1>3, <1>4 DEF Chain
    <3>3. QED
      BY <3>0, <3>1, <3>2, <1>7 DEF PointerInv
  <2>3. QED
    BY <2>1, <2>2, <1>1
<1>10. ASSUME NEW i \in 0 .. k - 2, NEW l \in 0 .. k - 2, d[i] = d[l]
       PROVE  i = l
  <2> DEFINE Old(m) == IF m < j THEN m ELSE m + 1
  <2>1. /\ Old(i) \in 0 .. k - 1 /\ d[i] = c[Old(i)]
        /\ Old(l) \in 0 .. k - 1 /\ d[l] = c[Old(l)]
    BY <1>1
  <2>2. Old(i) = Old(l)
    <3> HIDE DEF Old
    <3>1. QED
      BY <2>1, <1>3, <1>10 DEF Chain
  <2>3. QED
    BY <2>2
<1>11. ASSUME NEW m \in listed' PROVE \E i \in 0 .. k - 2 : d[i] = m
  <2>1. PICK l \in 0 .. k - 1 : c[l] = m
    BY <1>3 DEF Chain
  <2>2. l # j
    BY <2>1, <1>4
  <2>3. CASE l < j
    BY <2>3, <2>1, <1>1
  <2>4. CASE l > j
    <3>1. l - 1 \in 0 .. k - 2 /\ d[l - 1] = m
      BY <2>4, <2>1, <1>1
    <3>2. QED
      BY <3>1
  <2>5. QED
    BY <2>2, <2>3, <2>4
<1>12. Chain(d, k - 1)'
  <2>1. (k - 1) - 1 = k - 2
    BY <1>1
  <2> HIDE DEF d
  <2>2. QED
    BY <2>1, <1>8, <1>9, <1>10, <1>11 DEF Chain
<1>13. d \in [0 .. k - 1 -> Nodes \cup {NULL}]
  BY <1>1
<1>14. QED
  BY <1>2, <1>7, <1>12, <1>13 DEF PointerInv

\* A step of NamedSem puts one node into the list, takes one out, or leaves
\* the list alone.
LEMMA OneNodeAtATime ==
  ASSUME Next
  PROVE  \/ listed' = listed
         \/ \E n \in Nodes : n \notin listed /\ listed' = listed \cup {n}
         \/ \E n \in listed : listed' = listed \ {n}
<1> PICK c \in Clients : Client(c)
  BY DEF Next
<1> USE DEF listVars
<1>1. ASSUME NEW name \in Names, NEW oflag \in Flags,
             NEW value \in 0 .. SEM_VALUE_MAX + 1,
             sem_open(c, name, oflag, value)
      PROVE  \/ listed' = listed
             \/ \E n \in Nodes : n \notin listed /\ listed' = listed \cup {n}
  BY <1>1 DEF sem_open, OpenExisting, OpenCreates, OpenFails
<1>2. ASSUME FreeNode(c)
      PROVE  listed' = listed \/ \E n \in listed : listed' = listed \ {n}
  BY <1>2 DEF FreeNode
<1>3. ASSUME NEW n \in Nodes, sem_close(c, n) PROVE listed' = listed
  BY <1>3 DEF sem_close, sem_destroy
<1>4. ASSUME NEW name \in Names, sem_unlink(c, name) PROVE listed' = listed
  BY <1>4 DEF sem_unlink, sem_destroy
<1>5. ASSUME \/ RejectEmptyName(c) \/ sem_wait(c) \/ Resume(c)
             \/ Interrupt(c) \/ sem_trywait(c) \/ sem_post(c)
      PROVE  listed' = listed
  BY <1>5 DEF RejectEmptyName, sem_wait, Resume, Interrupt, sem_trywait,
              sem_post, TakeOrSleep, EndWait
<1>6. QED
  BY <1>1, <1>2, <1>3, <1>4, <1>5 DEF Client

\* sem_open, sem_close and sem_unlink keep the list of sem.cxx exact: from
\* psem_list along pnext a search visits each live semaphore once and no freed
\* one, whatever number of semaphores was created and removed before.
THEOREM ListIsExact == ListSpec => []ListExact
<1>1. ListInit => PointerInv
  <2> SUFFICES ASSUME ListInit PROVE PointerInv
    OBVIOUS
  <2>1. listed = {} /\ psem_list = NULL /\ pnext = [n \in Nodes |-> Garbage]
    BY DEF ListInit, Init
  <2>2. Cardinality(listed) = 0
    BY <2>1, FS_EmptySet
  <2>3. Chain([i \in 0 .. 0 |-> NULL], 0)
    BY <2>1 DEF Chain
  <2>4. QED
    BY <2>1, <2>2, <2>3 DEF PointerInv
<1>2. PointerInv /\ [ListNext]_<<vars, listPointers>> => PointerInv'
  <2> SUFFICES ASSUME PointerInv, [ListNext]_<<vars, listPointers>>
               PROVE  PointerInv'
    OBVIOUS
  <2>1. CASE listed' = listed /\ UNCHANGED listPointers
    BY <2>1 DEF PointerInv, Chain, listPointers
  <2>2. ASSUME Next, NEW n \in listed' \ listed, AppendNode(n)
        PROVE  PointerInv'
    <3>1. n \in Nodes /\ n \notin listed /\ listed' = listed \cup {n}
      BY <2>2, OneNodeAtATime
    <3>2. QED
      BY <2>2, <3>1, AppendKeepsChain
  <2>3. ASSUME Next, NEW n \in listed \ listed', RemoveNode(n)
        PROVE  PointerInv'
    <3>1. n \in listed /\ listed' = listed \ {n}
      BY <2>3, OneNodeAtATime
    <3>2. QED
      BY <2>3, <3>1, RemoveKeepsChain
  <2>4. QED
    BY <2>1, <2>2, <2>3 DEF ListNext, UpdateList, vars, listPointers
<1>3. PointerInv => ListExact
  <2> SUFFICES ASSUME PointerInv PROVE ListExact
    OBVIOUS
  <2> DEFINE k == Cardinality(listed)
  <2>1. k \in 0 .. Cardinality(Nodes) /\ Cardinality(Nodes) \in Nat
    BY ListedFinite DEF PointerInv
  <2>2. PICK c \in [0 .. k -> Nodes \cup {NULL}] : Chain(c, k)
    BY DEF PointerInv
  <2>3. \A i \in 0 .. k : At[i] = c[i]
    <3> HIDE DEF k
    <3>1. QED
      BY <2>1, <2>2, LoopFollowsChain DEF PointerInv
  <2>4. {At[i] : i \in 0 .. k - 1} = listed
    BY <2>1, <2>2, <2>3 DEF Chain
  <2>5. At[k] = NULL
    BY <2>1, <2>2, <2>3 DEF Chain
  <2>6. QED
    BY <2>4, <2>5 DEF ListExact
<1>4. QED
  BY <1>1, <1>2, <1>3, PTL DEF ListSpec
=============================================================================
