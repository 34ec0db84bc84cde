----------------------------- MODULE SemNameList -----------------------------
(***************************************************************************)
(* The list of named semaphores of sem.cxx as it is in memory: psem_list   *)
(* and the pnext of every node.  NamedSem says which nodes enter and leave *)
(* the list; here every step of NamedSem also does what the code does to   *)
(* the pointers, with the plast its search loop arrives at.                *)
(***************************************************************************)
EXTENDS NamedSem

CONSTANT Garbage   \* what is read from memory that has been freed

ASSUME SemNameListAssumption ==
  /\ IsFiniteSet(Nodes)
  /\ Garbage \notin Nodes \cup {NULL}

VARIABLES
  psem_list,  \* the first node, or NULL
  pnext       \* pnext[n]

listPointers == <<psem_list, pnext>>

\* The search loop: At[k] is psem after k turns of the loop.
At ==
  LET at[k \in 0 .. Cardinality(Nodes)] ==
        IF k = 0 THEN psem_list
        ELSE IF at[k - 1] \in Nodes THEN pnext[at[k - 1]] ELSE NULL
  IN at

\* The turn of the loop that stops it: the first that finds node n, or the end
\* of the list for n = NULL.
FirstTurn(n) ==
  CHOOSE k \in DOMAIN At : At[k] = n /\ \A j \in 0 .. k - 1 : At[j] # n

\* plast of that loop: the node before it, but the first node when the loop
\* stops there.
Plast(n) == IF psem_list = n THEN n ELSE At[FirstTurn(n) - 1]

-----------------------------------------------------------------------------
\* sem_open appends a new node.
AppendNode(n) ==
  IF Plast(NULL) = NULL
  THEN /\ psem_list' = n
       /\ pnext' = [pnext EXCEPT ![n] = NULL]
  ELSE /\ pnext' = [pnext EXCEPT ![n] = NULL, ![Plast(NULL)] = n]
       /\ UNCHANGED psem_list

\* sem_close and sem_unlink take a node out and free it.
NeverFirst(n) == FALSE
IsFirst(n) == n = Plast(n)

RemoveNode(n) ==
  IF IsFirst(n)
  THEN /\ psem_list' = pnext[n]
       /\ pnext' = [pnext EXCEPT ![n] = Garbage]
  ELSE /\ pnext' = [pnext EXCEPT ![Plast(n)] = pnext[n], ![n] = Garbage]
       /\ UNCHANGED psem_list

UpdateList ==
  \/ listed' = listed /\ UNCHANGED listPointers
  \/ \E n \in listed' \ listed : AppendNode(n)
  \/ \E n \in listed \ listed' : RemoveNode(n)

ListInit ==
  /\ Init
  /\ psem_list = NULL
  /\ pnext = [n \in Nodes |-> Garbage]

ListNext == Next /\ UpdateList

ListSpec == ListInit /\ [][ListNext]_<<vars, listPointers>>

-----------------------------------------------------------------------------
\* A search that runs to the end of the list visits each live semaphore once
\* and no freed one, whatever was created and removed before: at the front,
\* in the middle or at the end.
ListExact ==
  LET n == Cardinality(listed) IN
    /\ At[n] = NULL
    /\ {At[k] : k \in 0 .. n - 1} = listed

\* c[0], c[1], ... are the nodes a search visits, in order: k nodes, which are
\* the listed ones, each once, and then NULL.
Chain(c, k) ==
  /\ c[0] = psem_list
  /\ c[k] = NULL
  /\ \A i \in 0 .. k - 1 : c[i] \in listed /\ pnext[c[i]] = c[i + 1]
  /\ \A i, j \in 0 .. k - 1 : c[i] = c[j] => i = j
  /\ \A n \in listed : \E i \in 0 .. k - 1 : c[i] = n

\* The inductive invariant behind ListExact.
PointerInv ==
  /\ listed \subseteq Nodes
  /\ pnext \in [Nodes -> Nodes \cup {NULL, Garbage}]
  /\ \E c \in [0 .. Cardinality(listed) -> Nodes \cup {NULL}] :
       Chain(c, Cardinality(listed))
=============================================================================
