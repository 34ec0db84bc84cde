---------------------------- MODULE EThreadProofs ----------------------------
(***************************************************************************)
(* Proofs about EThread, for any threads, keys and sizes of the tables.    *)
(* What they assume of the kernel: no registration of ethread_exit         *)
(* outlives a failed malloc, because malloc does not fail or because the   *)
(* kernel holds one destructor for a thread.                               *)
(***************************************************************************)
EXTENDS EThread, TLAPS

Creating == {"install", "plant"}
Loop     == {"key", "check", "take", "call", "free"}
Places   == {"run", "clear", "exit", "gone"} \cup Creating \cup Loop

Areas  == [Keys -> Words]
Locals == [key : 0 .. KEYS_MAX, area : 0 .. THREADS_MAX, value : Words,
           any : BOOLEAN, iter : Int]
Calls  == [dtor : 1 .. MaxCreates \cup {NULL}, value : Words]

Types ==
  /\ data_index \in BOOLEAN
  /\ thread_key \subseteq Keys
  /\ key_destructor \in [Keys -> 1 .. MaxCreates \cup {NULL}]
  /\ thread_table \in [0 .. THREADS_MAX -> Areas \cup {NULL}]
  /\ mutex \in Threads \cup {NULL}
  /\ table_index \in [Threads -> 0 .. THREADS_MAX]
  /\ registered \in [Threads -> Nat]
  /\ pc \in [Threads -> Places]
  /\ loc \in [Threads -> Locals]
  /\ creates \in 0 .. MaxCreates
  /\ created \in [Keys -> 0 .. MaxCreates]
  /\ stored \in [Threads -> SUBSET Keys]
  /\ called \in [Threads -> Calls \cup {NULL}]

\* A key is free, or an application knows it, or it is being created, and no
\* two of these; one thread at a time creates one.
KeysRight ==
  /\ Live \cap thread_key = {}
  /\ data_index \/ (Live = {} /\ thread_key = {})
  /\ \A t \in Threads :
       /\ pc[t] \in Creating =>
            /\ mutex = t /\ data_index
            /\ loc[t].key \in Keys \ (thread_key \cup Live)
       /\ pc[t] = "install" => creates < MaxCreates
       /\ pc[t] = "plant" => creates > 0
       /\ pc[t] \in {"check", "take", "call"} => loc[t].key \in Keys
       /\ pc[t] = "clear" => loc[t].key \in Live

KeyInv == Types /\ KeysRight

\* The area that belongs to thread t: from malloc to free.
Area(t) ==
  IF pc[t] = "clear" THEN loc[t].area
  ELSE IF \/ pc[t] \in {"run"} \cup Creating \cup Loop
          \/ pc[t] = "exit" /\ registered[t] = 1
    THEN table_index[t] ELSE 0

AreaRight(t) ==
  /\ registered[t] \in {0, 1}
  /\ Area(t) # 0 => thread_table[Area(t)] # NULL
  /\ pc[t] = "clear" =>
       table_index[t] = 0 /\ loc[t].area # 0 /\ registered[t] = 1
  /\ pc[t] \in Loop => /\ loc[t].area = table_index[t] /\ table_index[t] # 0
                       /\ registered[t] = 0
  /\ pc[t] = "gone" => registered[t] = 0
  /\ pc[t] \in {"run"} \cup Creating /\ table_index[t] # 0 => registered[t] = 1
  /\ ~MallocFails /\ registered[t] = 1 => Area(t) # 0

AreaInv ==
  /\ thread_table[0] = NULL
  /\ \A t \in Threads : AreaRight(t)
  /\ \A i \in Indices : thread_table[i] # NULL => \E t \in Threads : Area(t) = i
  /\ \A t, u \in Threads : t # u /\ Area(t) # 0 => Area(t) # Area(u)

\* What the area of t holds.
Own(t) == [by : {t}, creation : 1 .. MaxCreates] \cup {NULL}

DataRight(t) ==
  /\ Area(t) # 0 /\ pc[t] # "clear" =>
       /\ \A k \in Keys : thread_table[Area(t)][k] \in Own(t)
       /\ pc[t] \notin Loop => \A k \in Live :
            thread_table[Area(t)][k] =
              IF k \in stored[t] THEN Pointer(t, k) ELSE NULL
  /\ pc[t] \in {"run", "clear"} \cup Creating /\ table_index[t] = 0 =>
       stored[t] = {}
  /\ loc[t].value \in Own(t)
  /\ called[t] # NULL => called[t].value \in Own(t)

DataInv == \A t \in Threads : DataRight(t)

-----------------------------------------------------------------------------
(* Keys.                                                                   *)

LEMMA Numbers ==
  /\ KEYS_MAX \in Nat \ {0} /\ THREADS_MAX \in Nat \ {0} /\ MaxCreates \in Nat
  /\ 0 \in 0 .. KEYS_MAX /\ 0 \in 0 .. THREADS_MAX
  /\ \A k \in Keys : k \in 0 .. KEYS_MAX /\ k + 1 \in 0 .. KEYS_MAX
  /\ \A i \in Indices : i \in 0 .. THREADS_MAX /\ i # 0
  /\ \A i \in 0 .. THREADS_MAX : i # 0 => i \in Indices
BY EThreadAssumption DEF Keys, Indices

LEMMA MapKeysAreKeys == MapKeys \subseteq Keys
<1> DEFINE q == KEYS_MAX \div KEY_MAP_TYPE_SIZE
<1>1. KEYS_MAX \in Nat /\ KEY_MAP_TYPE_SIZE \in Nat /\ KEY_MAP_TYPE_SIZE > 0
  BY EThreadAssumption
<1>2. q * KEY_MAP_TYPE_SIZE <= KEYS_MAX /\ q \in Int
  BY <1>1
<1>3. PICK n \in Int : n = q * KEY_MAP_TYPE_SIZE /\ n <= KEYS_MAX
  BY <1>1, <1>2
<1>4. 0 .. n - 1 \subseteq 0 .. KEYS_MAX - 1
  BY <1>1, <1>3
<1>5. QED
  BY <1>3, <1>4 DEF MapKeys, Keys

LEMMA NoLocalsRight == NoLocals \in Locals /\ NoLocals.value = NULL
BY Numbers DEF NoLocals, Locals, Words

LEMMA PointerRight ==
  ASSUME Types, NEW t \in Threads, NEW k \in Live
  PROVE  Pointer(t, k) \in [by : {t}, creation : 1 .. MaxCreates]
<1>1. created[k] \in 1 .. MaxCreates
  BY Numbers DEF Types, Live
<1>2. QED
  BY <1>1 DEF Pointer

\* A step of t inside a call or an exit that leaves the keys alone.
LEMMA KeysStay ==
  ASSUME KeyInv, NEW t \in Threads, Types',
         UNCHANGED <<data_index, thread_key, mutex, creates, created>>,
         \A u \in Threads \ {t} : pc'[u] = pc[u] /\ loc'[u] = loc[u],
         pc'[t] \notin Creating,
         pc'[t] = "clear" => loc'[t].key \in Live,
         pc'[t] \in {"check", "take", "call"} => loc'[t].key \in Keys
  PROVE  KeyInv'
BY DEF KeyInv, KeysRight, Live, Creating

\* An entry of an area is overwritten; areas neither come nor go.
LEMMA WrittenRight ==
  ASSUME Types, NEW i \in 0 .. THREADS_MAX, NEW k \in Keys, NEW v \in Words
  PROVE  /\ Written(i, k, v) \in [0 .. THREADS_MAX -> Areas \cup {NULL}]
         /\ \A j \in 0 .. THREADS_MAX :
              /\ Written(i, k, v)[j] = NULL <=> thread_table[j] = NULL
              /\ j # i => Written(i, k, v)[j] = thread_table[j]
         /\ thread_table[i] # NULL => \A n \in Keys :
              Written(i, k, v)[i][n] = IF n = k THEN v ELSE thread_table[i][n]
<1>1. CASE thread_table[i] = NULL
  BY <1>1 DEF Types, Written
<1>2. CASE thread_table[i] # NULL
  <2>1. thread_table[i] \in Areas
    BY <1>2 DEF Types
  <2> DEFINE a == [thread_table[i] EXCEPT ![k] = v]
  <2>2. a \in Areas /\ a # NULL
        /\ \A n \in Keys : a[n] = IF n = k THEN v ELSE thread_table[i][n]
    BY <2>1, NullAssumption DEF Areas
  <2>3. Written(i, k, v) = [thread_table EXCEPT ![i] = a]
    BY <1>2 DEF Written
  <2> HIDE DEF a
  <2>4. QED
    BY <1>2, <2>2, <2>3 DEF Types
<1>3. QED
  BY <1>1, <1>2

LEMMA PlantedRight ==
  ASSUME Types, NEW k \in Keys
  PROVE  /\ Planted(k) \in [0 .. THREADS_MAX -> Areas \cup {NULL}]
         /\ \A j \in 0 .. THREADS_MAX :
              /\ Planted(k)[j] = NULL <=> thread_table[j] = NULL
              /\ thread_table[j] # NULL => \A n \in Keys :
                   Planted(k)[j][n] = IF n = k THEN NULL ELSE thread_table[j][n]
<1>1. \A a \in Areas : /\ [a EXCEPT ![k] = NULL] \in Areas
                       /\ [a EXCEPT ![k] = NULL] # NULL
                       /\ \A n \in Keys : [a EXCEPT ![k] = NULL][n]
                                            = IF n = k THEN NULL ELSE a[n]
  BY NullAssumption DEF Areas, Words
<1>2. DOMAIN thread_table = 0 .. THREADS_MAX
      /\ \A j \in 0 .. THREADS_MAX : thread_table[j] \in Areas \cup {NULL}
  BY DEF Types
<1>3. QED
  BY <1>1, <1>2 DEF Planted

LEMMA KeyCreateKeys ==
  ASSUME KeyInv, NEW t \in Threads, KeyCreate(t)
  PROVE  KeyInv'
<1> DEFINE free == IF data_index THEN thread_key ELSE MapKeys
<1>0. /\ pc[t] = "run" /\ mutex = NULL /\ data_index' = TRUE
      /\ UNCHANGED <<key_destructor, thread_table, table_index, registered,
                     creates, created, stored, called>>
  BY DEF KeyCreate, history
<1>1. free \subseteq Keys /\ free \cap Live = {}
  BY MapKeysAreKeys DEF KeyInv, Types, KeysRight
<1>2. \A u \in Threads : pc[u] \notin Creating
  BY <1>0, EThreadAssumption DEF KeyInv, KeysRight
<1>3. CASE thread_key' = {} /\ UNCHANGED <<mutex, pc, loc>>
  <2>1. Types'
    BY <1>0, <1>3 DEF KeyInv, Types
  <2>2. KeysRight'
    BY <1>0, <1>2, <1>3 DEF KeyInv, KeysRight, Live
  <2>3. QED
    BY <2>1, <2>2 DEF KeyInv
<1>4. CASE \E k \in free : /\ creates < MaxCreates /\ thread_key' = free \ {k}
                           /\ mutex' = t /\ loc' = [loc EXCEPT ![t].key = k]
                           /\ pc' = [pc EXCEPT ![t] = "install"]
  <2>1. PICK k \in free : /\ creates < MaxCreates /\ thread_key' = free \ {k}
                          /\ mutex' = t /\ loc' = [loc EXCEPT ![t].key = k]
                          /\ pc' = [pc EXCEPT ![t] = "install"]
    BY <1>4
  <2>2. k \in Keys /\ k \notin Live /\ thread_key' \subseteq Keys
    BY <1>1, <2>1
  <2> HIDE DEF free
  <2>3. loc' \in [Threads -> Locals] /\ loc'[t].key = k
    BY <2>1, <2>2, Numbers DEF KeyInv, Types, Locals
  <2>4. pc' \in [Threads -> Places] /\ pc'[t] = "install"
    BY <2>1 DEF KeyInv, Types, Places, Creating
  <2>5. \A u \in Threads \ {t} : pc'[u] = pc[u] /\ loc'[u] = loc[u]
    BY <2>1 DEF KeyInv, Types
  <2>6. Types'
    BY <1>0, <2>1, <2>2, <2>3, <2>4 DEF KeyInv, Types
  <2>7. Live' = Live
    BY <1>0 DEF Live
  <2>8. KeysRight'
    BY <1>0, <1>1, <1>2, <2>1, <2>2, <2>3, <2>4, <2>5, <2>7
       DEF KeyInv, KeysRight, Creating
  <2>9. QED
    BY <2>6, <2>8 DEF KeyInv
<1>5. QED
  BY <1>3, <1>4 DEF KeyCreate, Goto

LEMMA InstallKeys ==
  ASSUME KeyInv, NEW t \in Threads, InstallDestructor(t)
  PROVE  KeyInv'
<1>0. /\ pc[t] = "install" /\ creates' = creates + 1
      /\ pc' = [pc EXCEPT ![t] = "plant"]
      /\ UNCHANGED <<data_index, thread_key, thread_table, mutex, table_index,
                     registered, loc, created, stored, called>>
  BY DEF InstallDestructor, Goto
<1>1. /\ mutex = t /\ data_index /\ creates < MaxCreates
      /\ loc[t].key \in Keys \ (thread_key \cup Live)
  BY <1>0 DEF KeyInv, KeysRight, Creating
<1>2. creates' \in 0 .. MaxCreates /\ creates' \in 1 .. MaxCreates /\ creates' > 0
  BY <1>0, <1>1, Numbers DEF KeyInv, Types
<1>3. key_destructor' \in [Keys -> 1 .. MaxCreates \cup {NULL}]
  BY <1>0, <1>1, <1>2 DEF InstallDestructor, KeyInv, Types
<1>4. /\ pc' \in [Threads -> Places] /\ pc'[t] = "plant"
      /\ \A u \in Threads \ {t} : pc'[u] = pc[u]
  BY <1>0 DEF KeyInv, Types, Places, Creating
<1>5. \A u \in Threads \ {t} : pc[u] \notin Creating
  BY <1>1 DEF KeyInv, KeysRight
<1>6. Types'
  BY <1>0, <1>2, <1>3, <1>4 DEF KeyInv, Types
<1>7. KeysRight'
  BY <1>0, <1>1, <1>2, <1>4, <1>5 DEF KeyInv, KeysRight, Live, Creating
<1>8. QED
  BY <1>6, <1>7 DEF KeyInv

LEMMA PlantKeys ==
  ASSUME KeyInv, NEW t \in Threads, PlantNull(t)
  PROVE  KeyInv'
<1>0. PICK k : k = loc[t].key
  OBVIOUS
<1>1. /\ pc[t] = "plant" /\ thread_table' = Planted(k) /\ mutex' = NULL
      /\ created' = [created EXCEPT ![k] = creates]
      /\ stored' = [u \in Threads |-> stored[u] \ {k}]
      /\ loc' = [loc EXCEPT ![t] = NoLocals] /\ pc' = [pc EXCEPT ![t] = "run"]
      /\ UNCHANGED <<data_index, thread_key, key_destructor, table_index,
                     registered, creates, called>>
  BY <1>0 DEF PlantNull, Goto, keyVars
<1>2. /\ mutex = t /\ data_index /\ creates > 0
      /\ k \in Keys \ (thread_key \cup Live)
  BY <1>0, <1>1 DEF KeyInv, KeysRight, Creating
<1>3. /\ pc' \in [Threads -> Places] /\ pc'[t] = "run"
      /\ loc' \in [Threads -> Locals]
      /\ \A u \in Threads \ {t} : pc'[u] = pc[u] /\ loc'[u] = loc[u]
  BY <1>1, NoLocalsRight DEF KeyInv, Types, Places
<1>4. Live' = Live \cup {k} /\ created' \in [Keys -> 0 .. MaxCreates]
  BY <1>1, <1>2, Numbers DEF KeyInv, Types, Live
<1>5. \A u \in Threads \ {t} : pc[u] \notin Creating
  BY <1>2 DEF KeyInv, KeysRight
<1>6. Types'
  BY <1>1, <1>2, <1>3, <1>4, PlantedRight DEF KeyInv, Types
<1>7. KeysRight'
  BY <1>1, <1>2, <1>3, <1>4, <1>5 DEF KeyInv, KeysRight, Creating
<1>8. QED
  BY <1>6, <1>7 DEF KeyInv

LEMMA KeyDeleteKeys ==
  ASSUME KeyInv, NEW t \in Threads, NEW k \in Keys, KeyDelete(t, k)
  PROVE  KeyInv'
<1>1. /\ pc[t] = "run" /\ mutex = NULL /\ k \in Live
      /\ \A u \in Threads : ~(pc[u] = "clear" /\ loc[u].key = k)
      /\ thread_key' = thread_key \cup {k}
      /\ created' = [created EXCEPT ![k] = 0]
      /\ UNCHANGED <<data_index, key_destructor, thread_table, mutex,
                     table_index, registered, pc, loc, creates, stored, called>>
  BY DEF KeyDelete
<1>2. \A u \in Threads : pc[u] \notin Creating
  BY <1>1, EThreadAssumption DEF KeyInv, KeysRight
<1>3. Live' = Live \ {k} /\ created' \in [Keys -> 0 .. MaxCreates]
  BY <1>1, Numbers DEF KeyInv, Types, Live
<1>4. Types'
  BY <1>1, <1>3 DEF KeyInv, Types
<1>5. KeysRight'
  BY <1>1, <1>2, <1>3 DEF KeyInv, KeysRight, Creating
<1>6. QED
  BY <1>4, <1>5 DEF KeyInv

\* A step of t that changes areas and t's own state only.
OwnMove(t, l, x) ==
  /\ pc' = [pc EXCEPT ![t] = l]
  /\ loc' = [loc EXCEPT ![t] = x]

LEMMA OwnMoveDoes ==
  ASSUME Types, NEW t \in Threads, NEW l \in Places, NEW x \in Locals,
         OwnMove(t, l, x)
  PROVE  /\ pc' \in [Threads -> Places] /\ loc' \in [Threads -> Locals]
         /\ pc'[t] = l /\ loc'[t] = x
         /\ \A u \in Threads \ {t} : pc'[u] = pc[u] /\ loc'[u] = loc[u]
BY DEF OwnMove, Types

LEMMA OwnStep ==
  ASSUME KeyInv, NEW t \in Threads, NEW l \in Places, NEW x \in Locals,
         OwnMove(t, l, x), l \notin Creating,
         UNCHANGED <<data_index, thread_key, key_destructor, mutex, creates,
                     created>>,
         thread_table' \in [0 .. THREADS_MAX -> Areas \cup {NULL}],
         table_index' \in [Threads -> 0 .. THREADS_MAX],
         registered' \in [Threads -> Nat],
         l = "clear" => x.key \in Live,
         l \in {"check", "take", "call"} => x.key \in Keys,
         stored' \in [Threads -> SUBSET Keys],
         called' \in [Threads -> Calls \cup {NULL}]
  PROVE  /\ KeyInv' /\ pc'[t] = l /\ loc'[t] = x
         /\ \A u \in Threads \ {t} : pc'[u] = pc[u] /\ loc'[u] = loc[u]
<1>1. /\ pc'[t] = l /\ loc'[t] = x
      /\ pc' \in [Threads -> Places] /\ loc' \in [Threads -> Locals]
      /\ \A u \in Threads \ {t} : pc'[u] = pc[u] /\ loc'[u] = loc[u]
  BY OwnMoveDoes DEF KeyInv
<1>2. Types'
  BY <1>1 DEF KeyInv, Types
<1>3. QED
  BY <1>1, <1>2, KeysStay

\* What SetInArea, NewArea and ClearArea do.
LEMMA SetInAreaDoes ==
  ASSUME KeyInv, NEW t \in Threads, NEW k \in Keys, SetInArea(t, k)
  PROVE  /\ KeyInv' /\ k \in Live /\ pc[t] = "run" /\ pc' = pc /\ loc' = loc
         /\ thread_table[table_index[t]] # NULL
         /\ thread_table' = Written(table_index[t], k, Pointer(t, k))
         /\ stored' = [stored EXCEPT ![t] = stored[t] \cup {k}]
         /\ UNCHANGED <<thread_key, created, table_index, registered, called>>
<1>1. /\ k \in Live /\ pc[t] = "run" /\ pc' = pc /\ loc' = loc
      /\ thread_table[table_index[t]] # NULL
      /\ thread_table' = Written(table_index[t], k, Pointer(t, k))
      /\ stored' = [stored EXCEPT ![t] = stored[t] \cup {k}]
      /\ UNCHANGED <<data_index, thread_key, key_destructor, mutex, creates,
                     created, table_index, registered, called>>
  BY DEF SetInArea, keyVars
<1>2. Pointer(t, k) \in Words /\ table_index[t] \in 0 .. THREADS_MAX
  BY <1>1, PointerRight DEF KeyInv, Types, Words
<1>3. thread_table' \in [0 .. THREADS_MAX -> Areas \cup {NULL}]
  BY <1>1, <1>2, WrittenRight DEF KeyInv
<1>4. Types'
  BY <1>1, <1>3 DEF KeyInv, Types
<1>5. KeysRight'
  BY <1>1 DEF KeyInv, KeysRight, Live
<1>6. QED
  BY <1>1, <1>4, <1>5 DEF KeyInv

LEMMA NewAreaDoes ==
  ASSUME KeyInv, NEW t \in Threads, NEW k \in Keys, NewArea(t, k)
  PROVE  /\ KeyInv' /\ k \in Live /\ pc[t] = "run"
         /\ thread_table[table_index[t]] = NULL
         /\ UNCHANGED <<thread_key, created, table_index, stored, called>>
         /\ \/ UNCHANGED <<thread_table, registered, pc, loc>>
            \/ /\ registered[t] < DESTRUCTORS /\ MallocFails
               /\ registered' = [registered EXCEPT ![t] = registered[t] + 1]
               /\ UNCHANGED <<thread_table, pc, loc>>
            \/ \E i \in Indices :
                 /\ registered[t] < DESTRUCTORS /\ thread_table[i] = NULL
                 /\ registered' = [registered EXCEPT ![t] = registered[t] + 1]
                 /\ thread_table' =
                      [thread_table EXCEPT ![i] = [j \in Keys |-> Garbage]]
                 /\ pc'[t] = "clear" /\ loc'[t].area = i /\ loc'[t].key = k
                 /\ loc'[t].value = loc[t].value
                 /\ \A u \in Threads \ {t} : pc'[u] = pc[u] /\ loc'[u] = loc[u]
<1>0. /\ k \in Live /\ pc[t] = "run" /\ thread_table[table_index[t]] = NULL
      /\ UNCHANGED <<data_index, thread_key, key_destructor, mutex, creates,
                     created, table_index, stored, called>>
  BY DEF NewArea, keyVars, history
<1>1. CASE UNCHANGED <<thread_table, registered, pc, loc>>
  <2>1. Types' /\ KeysRight'
    BY <1>0, <1>1 DEF KeyInv, Types, KeysRight, Live
  <2>2. QED
    BY <1>0, <1>1, <2>1 DEF KeyInv
<1>2. CASE /\ registered[t] < DESTRUCTORS /\ MallocFails
           /\ registered' = [registered EXCEPT ![t] = registered[t] + 1]
           /\ UNCHANGED <<thread_table, pc, loc>>
  <2>1. Types' /\ KeysRight'
    BY <1>0, <1>2 DEF KeyInv, Types, KeysRight, Live
  <2>2. QED
    BY <1>0, <1>2, <2>1 DEF KeyInv
<1>3. CASE \E i \in Indices :
             /\ registered[t] < DESTRUCTORS /\ thread_table[i] = NULL
             /\ registered' = [registered EXCEPT ![t] = registered[t] + 1]
             /\ thread_table' =
                  [thread_table EXCEPT ![i] = [j \in Keys |-> Garbage]]
             /\ loc' = [loc EXCEPT ![t].area = i, ![t].key = k]
             /\ pc' = [pc EXCEPT ![t] = "clear"]
  <2>1. PICK i \in Indices :
             /\ registered[t] < DESTRUCTORS /\ thread_table[i] = NULL
             /\ registered' = [registered EXCEPT ![t] = registered[t] + 1]
             /\ thread_table' =
                  [thread_table EXCEPT ![i] = [j \in Keys |-> Garbage]]
             /\ loc' = [loc EXCEPT ![t].area = i, ![t].key = k]
             /\ pc' = [pc EXCEPT ![t] = "clear"]
    BY <1>3
  <2>2. i \in 0 .. THREADS_MAX /\ k \in 0 .. KEYS_MAX
    BY Numbers
  <2> DEFINE x == [loc[t] EXCEPT !.area = i, !.key = k]
  <2>3. loc[t] \in Locals
    BY DEF KeyInv, Types
  <2>4. x \in Locals /\ x.area = i /\ x.key = k /\ x.value = loc[t].value
    BY <2>2, <2>3 DEF Locals
  <2>5. loc' = [loc EXCEPT ![t] = x]
    BY <2>1 DEF KeyInv, Types
  <2> HIDE DEF x
  <2>6. thread_table' \in [0 .. THREADS_MAX -> Areas \cup {NULL}]
    BY <2>1, <2>2 DEF KeyInv, Types, Areas, Words
  <2>7. registered' \in [Threads -> Nat]
    BY <2>1 DEF KeyInv, Types
  <2>8. /\ "clear" \in Places /\ "clear" \notin Creating
        /\ OwnMove(t, "clear", x)
    BY <2>1, <2>5 DEF Places, Creating, Loop, OwnMove
  <2>9. /\ KeyInv' /\ pc'[t] = "clear" /\ loc'[t] = x
        /\ \A u \in Threads \ {t} : pc'[u] = pc[u] /\ loc'[u] = loc[u]
    BY <1>0, <2>1, <2>4, <2>5, <2>6, <2>7, <2>8, OwnStep DEF KeyInv, Types
  <2>10. QED
    BY <1>0, <2>1, <2>4, <2>9
<1>4. QED
  BY <1>1, <1>2, <1>3 DEF NewArea, Lowest, FreeIndices, Goto

LEMMA ClearAreaDoes ==
  ASSUME KeyInv, NEW t \in Threads, ClearArea(t)
  PROVE  /\ KeyInv' /\ pc[t] = "clear" /\ loc[t].key \in Live
         /\ thread_table' =
              [thread_table EXCEPT ![loc[t].area] =
                 [j \in Keys |-> IF j = loc[t].key THEN Pointer(t, loc[t].key)
                                                  ELSE NULL]]
         /\ stored' = [stored EXCEPT ![t] = stored[t] \cup {loc[t].key}]
         /\ table_index' = [table_index EXCEPT ![t] = loc[t].area]
         /\ pc'[t] = "run" /\ loc'[t] = NoLocals
         /\ \A u \in Threads \ {t} : pc'[u] = pc[u] /\ loc'[u] = loc[u]
         /\ UNCHANGED <<thread_key, created, registered, called>>
<1>1. /\ pc[t] = "clear"
      /\ thread_table' =
           [thread_table EXCEPT ![loc[t].area] =
              [j \in Keys |-> IF j = loc[t].key THEN Pointer(t, loc[t].key)
                                               ELSE NULL]]
      /\ stored' = [stored EXCEPT ![t] = stored[t] \cup {loc[t].key}]
      /\ table_index' = [table_index EXCEPT ![t] = loc[t].area]
      /\ OwnMove(t, "run", NoLocals) /\ "run" \in Places /\ "run" \notin Creating
      /\ UNCHANGED <<data_index, thread_key, key_destructor, mutex, creates,
                     created, registered, called>>
  BY DEF ClearArea, Goto, keyVars, Places, Creating, OwnMove
<1>2. PICK k \in Live : k = loc[t].key
  BY <1>1 DEF KeyInv, KeysRight
<1>3. Pointer(t, k) \in Words /\ loc[t].area \in 0 .. THREADS_MAX /\ k \in Keys
  BY PointerRight DEF KeyInv, Types, Words, Live, Locals
<1>4. [j \in Keys |-> IF j = k THEN Pointer(t, k) ELSE NULL] \in Areas
  BY <1>3 DEF Areas, Words
<1>5. thread_table' \in [0 .. THREADS_MAX -> Areas \cup {NULL}]
  BY <1>1, <1>2, <1>3, <1>4 DEF KeyInv, Types
<1>6. /\ table_index' \in [Threads -> 0 .. THREADS_MAX]
      /\ stored' \in [Threads -> SUBSET Keys]
      /\ registered' \in [Threads -> Nat]
      /\ called' \in [Threads -> Calls \cup {NULL}]
  BY <1>1, <1>2, <1>3 DEF KeyInv, Types
<1>7. /\ KeyInv' /\ pc'[t] = "run" /\ loc'[t] = NoLocals
      /\ \A u \in Threads \ {t} : pc'[u] = pc[u] /\ loc'[u] = loc[u]
  BY <1>1, <1>5, <1>6, NoLocalsRight, OwnStep
<1>8. QED
  BY <1>1, <1>2, <1>7

-----------------------------------------------------------------------------
(* What the steps of ethread_exit do.                                      *)

\* t begins to exit, is gone or starts anew.
LEMMA LifeDoes ==
  ASSUME KeyInv, NEW t \in Threads, ThreadExit(t) \/ Gone(t) \/ Start(t)
  PROVE  /\ KeyInv' /\ loc' = loc
         /\ \A u \in Threads \ {t} :
              /\ pc'[u] = pc[u] /\ table_index'[u] = table_index[u]
              /\ stored'[u] = stored[u] /\ called'[u] = called[u]
         /\ UNCHANGED <<thread_key, created, thread_table, registered>>
         /\ \/ pc[t] = "run" /\ pc'[t] = "exit"
               /\ UNCHANGED <<table_index, stored, called>>
            \/ pc[t] = "exit" /\ pc'[t] = "gone" /\ registered[t] = 0
               /\ UNCHANGED <<table_index, stored, called>>
            \/ pc[t] = "gone" /\ pc'[t] = "run" /\ table_index'[t] = 0
               /\ stored'[t] = {} /\ called'[t] = NULL
<1>0. PICK l \in {"exit", "gone", "run"} :
        /\ pc' = [pc EXCEPT ![t] = l]
        /\ loc' = loc
        /\ UNCHANGED <<data_index, thread_key, key_destructor, mutex, creates,
                       created, thread_table, registered>>
        /\ \/ pc[t] = "run" /\ l = "exit"
              /\ UNCHANGED <<table_index, stored, called>>
           \/ pc[t] = "exit" /\ l = "gone" /\ registered[t] = 0
              /\ UNCHANGED <<table_index, stored, called>>
           \/ pc[t] = "gone" /\ l = "run"
              /\ table_index' = [table_index EXCEPT ![t] = 0]
              /\ stored' = [stored EXCEPT ![t] = {}]
              /\ called' = [called EXCEPT ![t] = NULL]
  <2>1. CASE ThreadExit(t)
    BY <2>1 DEF ThreadExit, Goto, keyVars, history
  <2>2. CASE Gone(t)
    BY <2>2 DEF Gone, Goto, keyVars, history
  <2>3. CASE Start(t)
    BY <2>3 DEF Start, Goto, keyVars
  <2>4. QED
    BY <2>1, <2>2, <2>3
<1>1. l \in Places /\ l \notin Creating /\ l # "clear"
      /\ l \notin {"check", "take", "call"}
  BY DEF Places, Creating
<1>2. PICK x \in Locals : x = loc[t]
  BY DEF KeyInv, Types
<1>3. OwnMove(t, l, x)
  BY <1>0, <1>2 DEF OwnMove, KeyInv, Types
<1>4. /\ table_index' \in [Threads -> 0 .. THREADS_MAX]
      /\ stored' \in [Threads -> SUBSET Keys]
      /\ called' \in [Threads -> Calls \cup {NULL}]
  BY <1>0, Numbers DEF KeyInv, Types
<1>5. /\ thread_table' \in [0 .. THREADS_MAX -> Areas \cup {NULL}]
      /\ registered' \in [Threads -> Nat]
  BY <1>0 DEF KeyInv, Types
<1>6. /\ KeyInv' /\ pc'[t] = l
      /\ \A u \in Threads \ {t} : pc'[u] = pc[u] /\ loc'[u] = loc[u]
  BY <1>0, <1>1, <1>3, <1>4, <1>5, OwnStep
<1>7. \A u \in Threads \ {t} :
         /\ table_index'[u] = table_index[u]
         /\ stored'[u] = stored[u] /\ called'[u] = called[u]
  BY <1>0 DEF KeyInv, Types
<1>8. pc[t] = "gone" => /\ table_index'[t] = 0
                        /\ stored'[t] = {} /\ called'[t] = NULL
  BY <1>0 DEF KeyInv, Types
<1>9. QED
  BY <1>0, <1>6, <1>7, <1>8

LEMMA EnterExitDoes ==
  ASSUME KeyInv, NEW t \in Threads, EnterExit(t)
  PROVE  /\ KeyInv' /\ pc[t] = "exit" /\ registered[t] > 0
         /\ registered' = [registered EXCEPT ![t] = registered[t] - 1]
         /\ UNCHANGED <<thread_key, created, thread_table, table_index, stored,
                        called>>
         /\ \A u \in Threads \ {t} : pc'[u] = pc[u] /\ loc'[u] = loc[u]
         /\ \/ /\ thread_table[table_index[t]] = NULL
               /\ pc'[t] = "exit" /\ loc'[t] = loc[t]
            \/ /\ thread_table[table_index[t]] # NULL
               /\ pc'[t] = "key" /\ loc'[t].area = table_index[t]
               /\ loc'[t].value = NULL
<1>1. /\ pc[t] = "exit" /\ registered[t] > 0
      /\ registered' = [registered EXCEPT ![t] = registered[t] - 1]
      /\ UNCHANGED <<data_index, thread_key, key_destructor, mutex, creates,
                     created, thread_table, table_index, stored, called>>
  BY DEF EnterExit, keyVars, history
<1>2. PICK l \in {"exit", "key"}, x \in Locals :
        /\ OwnMove(t, l, x)
        /\ \/ thread_table[table_index[t]] = NULL /\ l = "exit" /\ x = loc[t]
           \/ thread_table[table_index[t]] # NULL /\ l = "key"
              /\ x.area = table_index[t] /\ x.value = NULL
  <2>1. CASE thread_table[table_index[t]] = NULL
    <3>1. OwnMove(t, "exit", loc[t]) /\ loc[t] \in Locals
      BY <1>1, <2>1 DEF EnterExit, OwnMove, KeyInv, Types
    <3>2. QED
      BY <2>1, <3>1
  <2>2. CASE thread_table[table_index[t]] # NULL
    <3>1. PICK a \in 0 .. THREADS_MAX : a = table_index[t]
      BY DEF KeyInv, Types
    <3>2. PICK r \in Locals : r = NoLocals /\ r.value = NULL
      BY NoLocalsRight
    <3> DEFINE x == [r EXCEPT !.area = a]
    <3>3. x \in Locals /\ x.area = a /\ x.value = r.value
      BY DEF Locals
    <3>4. OwnMove(t, "key", x)
      BY <2>2, <3>1, <3>2 DEF EnterExit, OwnMove, Goto
    <3> HIDE DEF x
    <3>5. QED
      BY <2>2, <3>1, <3>2, <3>3, <3>4
  <2>3. QED
    BY <2>1, <2>2
<1>3. l \in Places /\ l \notin Creating /\ l # "clear"
      /\ l \notin {"check", "take", "call"}
  BY DEF Places, Creating, Loop
<1>4. /\ registered' \in [Threads -> Nat]
      /\ thread_table' \in [0 .. THREADS_MAX -> Areas \cup {NULL}]
      /\ table_index' \in [Threads -> 0 .. THREADS_MAX]
      /\ stored' \in [Threads -> SUBSET Keys]
      /\ called' \in [Threads -> Calls \cup {NULL}]
  BY <1>1 DEF KeyInv, Types
<1>5. /\ KeyInv' /\ pc'[t] = l /\ loc'[t] = x
      /\ \A u \in Threads \ {t} : pc'[u] = pc[u] /\ loc'[u] = loc[u]
  BY <1>1, <1>2, <1>3, <1>4, OwnStep
<1>6. QED
  BY <1>1, <1>2, <1>5

\* The steps of the loop over the keys that read only.
LEMMA LookDoes ==
  ASSUME KeyInv, NEW t \in Threads, CheckKey(t) \/ CheckValue(t) \/ EndIteration(t)
  PROVE  /\ KeyInv' /\ pc[t] \in Loop /\ pc'[t] \in Loop
         /\ loc'[t].area = loc[t].area /\ loc'[t].value \in {loc[t].value, NULL}
         /\ \A u \in Threads \ {t} : pc'[u] = pc[u] /\ loc'[u] = loc[u]
         /\ UNCHANGED <<thread_key, created, thread_table, table_index,
                        registered, stored, called>>
<1>1. /\ pc[t] \in {"key", "check"} /\ pc[t] \in Loop
      /\ UNCHANGED <<data_index, thread_key, key_destructor, mutex, creates,
                     created, thread_table, table_index, registered, stored,
                     called>>
  BY DEF CheckKey, CheckValue, EndIteration, keyVars, history, Loop
<1>2. loc[t] \in Locals
  BY DEF KeyInv, Types
<1>3. PICK l \in Loop, x \in Locals :
        /\ OwnMove(t, l, x) /\ x.area = loc[t].area
        /\ x.value \in {loc[t].value, NULL}
        /\ l \in {"check", "take"} => x.key \in Keys
        /\ l # "call"
  <2>1. CASE Goto(t, "check") /\ UNCHANGED loc /\ loc[t].key \in Keys
    <3>1. OwnMove(t, "check", loc[t]) /\ "check" \in Loop
      BY <2>1 DEF Goto, OwnMove, KeyInv, Types, Loop
    <3>2. QED
      BY <1>2, <2>1, <3>1
  <2>2. CASE Goto(t, "take") /\ UNCHANGED loc /\ loc[t].key \in Keys
    <3>1. OwnMove(t, "take", loc[t]) /\ "take" \in Loop
      BY <2>2 DEF Goto, OwnMove, KeyInv, Types, Loop
    <3>2. QED
      BY <1>2, <2>2, <3>1
  <2>3. CASE NextKey(t) /\ loc[t].key \in Keys
    <3>1. PICK n \in 0 .. KEYS_MAX : n = loc[t].key + 1
      BY <2>3, Numbers
    <3> DEFINE x == [loc[t] EXCEPT !.key = n, !.value = NULL]
    <3>2. x \in Locals /\ x.area = loc[t].area /\ x.value = NULL
      BY <1>2 DEF Locals, Words
    <3>3. OwnMove(t, "key", x) /\ "key" \in Loop
      BY <2>3, <3>1 DEF NextKey, Goto, OwnMove, KeyInv, Types, Loop
    <3> HIDE DEF x
    <3>4. QED
      BY <3>2, <3>3
  <2>4. CASE EndIteration(t)
    <3>1. PICK n \in Int, l \in {"key", "free"} :
            /\ loc' = [loc EXCEPT ![t].key = 0, ![t].any = FALSE, ![t].iter = n]
            /\ pc' = [pc EXCEPT ![t] = l]
      <4>1. PICK i \in Int : i = loc[t].iter
        BY <1>2 DEF Locals
      <4>2. CASE loc[t].any /\ i + 1 <= DESTRUCTOR_ITERATIONS
        <5>1. /\ loc' = [loc EXCEPT ![t].key = 0, ![t].any = FALSE,
                                    ![t].iter = i + 1]
              /\ pc' = [pc EXCEPT ![t] = "key"]
          BY <2>4, <4>1, <4>2 DEF EndIteration, Goto, Counted
        <5>2. WITNESS i + 1 \in Int, "key" \in {"key", "free"}
        <5>3. QED
          BY <5>1
      <4>3. CASE ~(loc[t].any /\ i + 1 <= DESTRUCTOR_ITERATIONS)
        <5>1. /\ loc' = [loc EXCEPT ![t].key = 0, ![t].any = FALSE,
                                    ![t].iter = 0]
              /\ pc' = [pc EXCEPT ![t] = "free"]
          BY <2>4, <4>1, <4>3 DEF EndIteration, Goto, Counted
        <5>2. WITNESS 0 \in Int, "free" \in {"key", "free"}
        <5>3. QED
          BY <5>1
      <4>4. QED
        BY <4>2, <4>3
    <3> DEFINE x == [loc[t] EXCEPT !.key = 0, !.any = FALSE, !.iter = n]
    <3>2. x \in Locals /\ x.area = loc[t].area /\ x.value = loc[t].value
      BY <1>2, Numbers DEF Locals
    <3>3. OwnMove(t, l, x) /\ l \in Loop
      BY <3>1 DEF OwnMove, KeyInv, Types, Loop
    <3> HIDE DEF x
    <3>4. QED
      BY <3>2, <3>3
  <2>5. CASE CheckKey(t) \/ CheckValue(t)
    <3>1. loc[t].key \in Keys
      BY <1>2, <2>5, Numbers
         DEF CheckKey, CheckValue, KeyInv, KeysRight, Locals, Keys
    <3>2. QED
      BY <2>1, <2>2, <2>3, <2>5, <3>1 DEF CheckKey, CheckValue
  <2>6. QED
    BY <2>4, <2>5
<1>4. l \in Places /\ l \notin Creating /\ l # "clear"
  BY DEF Places, Creating, Loop
<1>5. /\ registered' \in [Threads -> Nat]
      /\ thread_table' \in [0 .. THREADS_MAX -> Areas \cup {NULL}]
      /\ table_index' \in [Threads -> 0 .. THREADS_MAX]
      /\ stored' \in [Threads -> SUBSET Keys]
      /\ called' \in [Threads -> Calls \cup {NULL}]
  BY <1>1 DEF KeyInv, Types
<1>6. /\ KeyInv' /\ pc'[t] = l /\ loc'[t] = x
      /\ \A u \in Threads \ {t} : pc'[u] = pc[u] /\ loc'[u] = loc[u]
  BY <1>1, <1>3, <1>4, <1>5, OwnStep
<1>7. QED
  BY <1>1, <1>3, <1>6

LEMMA TakeValueDoes ==
  ASSUME KeyInv, NEW t \in Threads, TakeValue(t)
  PROVE  /\ KeyInv' /\ pc[t] = "take" /\ pc'[t] = "call" /\ loc[t].key \in Keys
         /\ loc'[t].area = loc[t].area
         /\ loc'[t].value = Entry(loc[t].area, loc[t].key)
         /\ thread_table' = Written(loc[t].area, loc[t].key, NULL)
         /\ \A u \in Threads \ {t} : pc'[u] = pc[u] /\ loc'[u] = loc[u]
         /\ UNCHANGED <<thread_key, created, table_index, registered, stored,
                        called>>
<1>1. /\ pc[t] = "take"
      /\ loc' = [loc EXCEPT ![t].value = Entry(loc[t].area, loc[t].key)]
      /\ thread_table' = Written(loc[t].area, loc[t].key, NULL)
      /\ Goto(t, "call")
      /\ UNCHANGED <<data_index, thread_key, key_destructor, mutex, creates,
                     created, table_index, registered, stored, called>>
  BY DEF TakeValue, keyVars, history
<1>2. PICK r \in Locals : r = loc[t]
  BY DEF KeyInv, Types
<1>3. PICK k \in Keys : k = r.key
  BY <1>1, <1>2 DEF KeyInv, KeysRight
<1>4. r.area \in 0 .. THREADS_MAX
  BY DEF Locals
<1>5. PICK v \in Words : v = Entry(r.area, k)
  <2>1. thread_table[r.area] \in Areas \cup {NULL}
    BY <1>4 DEF KeyInv, Types
  <2>2. QED
    BY <2>1 DEF Entry, Areas, Words
<1> DEFINE x == [r EXCEPT !.value = v]
<1>6. x \in Locals /\ x.area = r.area /\ x.key = r.key /\ x.value = v
  BY DEF Locals
<1>7. OwnMove(t, "call", x)
  BY <1>1, <1>2, <1>3, <1>5 DEF OwnMove, Goto, KeyInv, Types
<1> HIDE DEF x
<1>8. /\ registered' \in [Threads -> Nat]
      /\ table_index' \in [Threads -> 0 .. THREADS_MAX]
      /\ stored' \in [Threads -> SUBSET Keys]
      /\ called' \in [Threads -> Calls \cup {NULL}]
  BY <1>1 DEF KeyInv, Types
<1>9. thread_table' \in [0 .. THREADS_MAX -> Areas \cup {NULL}]
  <2>1. NULL \in Words
    BY DEF Words
  <2>2. QED
    BY <1>1, <1>2, <1>3, <1>4, <2>1, WrittenRight DEF KeyInv
<1>10. "call" \in Places /\ "call" \notin Creating
  BY DEF Places, Creating, Loop
<1>11. /\ KeyInv' /\ pc'[t] = "call" /\ loc'[t] = x
       /\ \A u \in Threads \ {t} : pc'[u] = pc[u] /\ loc'[u] = loc[u]
  BY <1>1, <1>3, <1>6, <1>7, <1>8, <1>9, <1>10, OwnStep
<1>12. QED
  BY <1>1, <1>2, <1>3, <1>5, <1>6, <1>11

LEMMA CallDestructorDoes ==
  ASSUME KeyInv, NEW t \in Threads, CallDestructor(t)
  PROVE  /\ KeyInv' /\ pc[t] = "call" /\ pc'[t] = "key"
         /\ loc'[t].area = loc[t].area /\ loc'[t].value = NULL
         /\ called'[t].value = loc[t].value
         /\ \/ UNCHANGED <<thread_table, stored>>
            \/ \E k \in Live :
                 /\ thread_table[table_index[t]] # NULL
                 /\ thread_table' = Written(table_index[t], k, Pointer(t, k))
                 /\ stored' = [stored EXCEPT ![t] = stored[t] \cup {k}]
         /\ \A u \in Threads \ {t} :
              pc'[u] = pc[u] /\ loc'[u] = loc[u] /\ called'[u] = called[u]
         /\ UNCHANGED <<thread_key, created, table_index, registered>>
<1>1. /\ pc[t] = "call"
      /\ called' = [called EXCEPT ![t] = [dtor  |-> key_destructor[loc[t].key],
                                          value |-> loc[t].value]]
      /\ loc' = [loc EXCEPT ![t].key = @ + 1, ![t].value = NULL, ![t].any = TRUE]
      /\ Goto(t, "key")
      /\ UNCHANGED <<data_index, thread_key, key_destructor, mutex, creates,
                     created, table_index, registered>>
  BY DEF CallDestructor, keyVars
<1>2. PICK r \in Locals : r = loc[t]
  BY DEF KeyInv, Types
<1>3. PICK k \in Keys : k = r.key
  BY <1>1, <1>2 DEF KeyInv, KeysRight
<1>4. PICK n \in 0 .. KEYS_MAX : n = k + 1
  BY Numbers
<1>5. NULL \in Words /\ TRUE \in BOOLEAN
  BY DEF Words
<1> DEFINE x == [r EXCEPT !.key = n, !.value = NULL, !.any = TRUE]
<1>6. x \in Locals /\ x.area = r.area /\ x.value = NULL
  BY <1>5 DEF Locals
<1>7. OwnMove(t, "key", x)
  BY <1>1, <1>2, <1>3, <1>4 DEF OwnMove, Goto, KeyInv, Types
<1> HIDE DEF x
<1>8. /\ called' \in [Threads -> Calls \cup {NULL}]
      /\ called'[t].value = loc[t].value
      /\ \A u \in Threads \ {t} : called'[u] = called[u]
  <2>1. PICK d \in 1 .. MaxCreates \cup {NULL} : d = key_destructor[k]
    BY DEF KeyInv, Types
  <2> DEFINE c == [dtor |-> d, value |-> r.value]
  <2>2. c \in Calls /\ c.value = r.value
    BY DEF Calls, Locals
  <2>3. called' = [called EXCEPT ![t] = c]
    BY <1>1, <1>2, <1>3, <2>1
  <2> HIDE DEF c
  <2>4. QED
    BY <1>2, <2>2, <2>3 DEF KeyInv, Types
<1>9. /\ \/ UNCHANGED <<thread_table, stored>>
         \/ \E m \in Live :
              /\ thread_table[table_index[t]] # NULL
              /\ thread_table' = Written(table_index[t], m, Pointer(t, m))
              /\ stored' = [stored EXCEPT ![t] = stored[t] \cup {m}]
      /\ thread_table' \in [0 .. THREADS_MAX -> Areas \cup {NULL}]
      /\ stored' \in [Threads -> SUBSET Keys]
  <2>1. CASE UNCHANGED <<thread_table, stored>>
    BY <2>1 DEF KeyInv, Types
  <2>2. CASE \E m \in Live :
              /\ thread_table[table_index[t]] # NULL
              /\ thread_table' = Written(table_index[t], m, Pointer(t, m))
              /\ stored' = [stored EXCEPT ![t] = stored[t] \cup {m}]
    <3>1. PICK m \in Live :
              /\ thread_table[table_index[t]] # NULL
              /\ thread_table' = Written(table_index[t], m, Pointer(t, m))
              /\ stored' = [stored EXCEPT ![t] = stored[t] \cup {m}]
      BY <2>2
    <3>2. Pointer(t, m) \in Words /\ m \in Keys
      BY PointerRight DEF KeyInv, Words, Live
    <3>3. table_index[t] \in 0 .. THREADS_MAX
      BY DEF KeyInv, Types
    <3>4. thread_table' \in [0 .. THREADS_MAX -> Areas \cup {NULL}]
      BY <3>1, <3>2, <3>3, WrittenRight DEF KeyInv
    <3>5. stored' \in [Threads -> SUBSET Keys]
      BY <3>1, <3>2 DEF KeyInv, Types
    <3>6. QED
      BY <2>2, <3>4, <3>5
  <2>3. QED
    BY <2>1, <2>2 DEF CallDestructor
<1>10. /\ registered' \in [Threads -> Nat]
       /\ table_index' \in [Threads -> 0 .. THREADS_MAX]
  BY <1>1 DEF KeyInv, Types
<1>11. "key" \in Places /\ "key" \notin Creating
  BY DEF Places, Creating, Loop
<1>12. /\ KeyInv' /\ pc'[t] = "key" /\ loc'[t] = x
       /\ \A u \in Threads \ {t} : pc'[u] = pc[u] /\ loc'[u] = loc[u]
  BY <1>1, <1>6, <1>7, <1>8, <1>9, <1>10, <1>11, OwnStep
<1>13. QED
  BY <1>1, <1>2, <1>6, <1>8, <1>9, <1>12

LEMMA FreeAreaDoes ==
  ASSUME KeyInv, NEW t \in Threads, FreeArea(t)
  PROVE  /\ KeyInv' /\ pc[t] = "free" /\ pc'[t] = "exit" /\ loc'[t] = NoLocals
         /\ thread_table' = [thread_table EXCEPT ![loc[t].area] = NULL]
         /\ \A u \in Threads \ {t} : pc'[u] = pc[u] /\ loc'[u] = loc[u]
         /\ UNCHANGED <<thread_key, created, table_index, registered, stored,
                        called>>
<1>1. /\ pc[t] = "free" /\ OwnMove(t, "exit", NoLocals)
      /\ thread_table' = [thread_table EXCEPT ![loc[t].area] = NULL]
      /\ UNCHANGED <<data_index, thread_key, key_destructor, mutex, creates,
                     created, table_index, registered, stored, called>>
  BY DEF FreeArea, Freed, Goto, OwnMove, keyVars, history
<1>2. /\ registered' \in [Threads -> Nat]
      /\ table_index' \in [Threads -> 0 .. THREADS_MAX]
      /\ stored' \in [Threads -> SUBSET Keys]
      /\ called' \in [Threads -> Calls \cup {NULL}]
  BY <1>1 DEF KeyInv, Types
<1>3. thread_table' \in [0 .. THREADS_MAX -> Areas \cup {NULL}]
  BY <1>1 DEF KeyInv, Types
<1>4. "exit" \in Places /\ "exit" \notin Creating
  BY DEF Places, Creating, Loop
<1>5. /\ KeyInv' /\ pc'[t] = "exit" /\ loc'[t] = NoLocals
      /\ \A u \in Threads \ {t} : pc'[u] = pc[u] /\ loc'[u] = loc[u]
  BY <1>1, <1>2, <1>3, <1>4, NoLocalsRight, OwnStep
<1>6. QED
  BY <1>1, <1>5

LEMMA KeyInvAtFirst == Init => KeyInv
<1> SUFFICES ASSUME Init PROVE KeyInv
  OBVIOUS
<1>1. Types
  <2>1. 0 \in 0 .. MaxCreates /\ 0 \in 0 .. THREADS_MAX /\ 0 \in Nat
    BY Numbers
  <2>2. loc \in [Threads -> Locals]
    BY NoLocalsRight DEF Init
  <2>3. pc \in [Threads -> Places]
    BY DEF Init, Places
  <2>4. /\ key_destructor \in [Keys -> 1 .. MaxCreates \cup {NULL}]
        /\ thread_table \in [0 .. THREADS_MAX -> Areas \cup {NULL}]
        /\ created \in [Keys -> 0 .. MaxCreates]
        /\ called \in [Threads -> Calls \cup {NULL}]
    BY <2>1 DEF Init
  <2>5. QED
    BY <2>1, <2>2, <2>3, <2>4 DEF Init, Types
<1>2. Live = {}
  BY DEF Init, Live
<1>3. KeysRight
  BY <1>2 DEF Init, KeysRight, Creating
<1>4. QED
  BY <1>1, <1>3 DEF KeyInv

LEMMA KeyInvStep == KeyInv /\ [Next]_vars => KeyInv'
<1> SUFFICES ASSUME KeyInv, [Next]_vars PROVE KeyInv'
  OBVIOUS
<1>1. CASE UNCHANGED vars
  BY <1>1 DEF vars, KeyInv, Types, KeysRight, Live
<1>2. ASSUME NEW t \in Threads, KeyCreate(t) PROVE KeyInv'
  BY <1>2, KeyCreateKeys
<1>3. ASSUME NEW t \in Threads, NEW k \in Keys,
             KeyDelete(t, k) \/ SetInArea(t, k) \/ NewArea(t, k)
      PROVE  KeyInv'
  BY <1>3, KeyDeleteKeys, SetInAreaDoes, NewAreaDoes
<1>4. ASSUME NEW t \in Threads, ThreadExit(t) \/ Start(t) PROVE KeyInv'
  BY <1>4, LifeDoes
<1>5. ASSUME NEW t \in Threads, Proceed(t) PROVE KeyInv'
  BY <1>5, InstallKeys, PlantKeys, ClearAreaDoes, EnterExitDoes, LookDoes,
     TakeValueDoes, CallDestructorDoes, FreeAreaDoes, LifeDoes DEF Proceed
<1>6. QED
  BY <1>1, <1>2, <1>3, <1>4, <1>5 DEF Next

-----------------------------------------------------------------------------
(* Areas.                                                                  *)

\* The steps of ethread_key_create and ethread_key_delete move no area.
LEMMA KeyStepsDo ==
  ASSUME KeyInv, NEW t \in Threads,
         \/ KeyCreate(t) \/ InstallDestructor(t) \/ PlantNull(t)
         \/ \E k \in Keys : KeyDelete(t, k)
  PROVE  /\ KeyInv' /\ {pc[t], pc'[t]} \subseteq {"run"} \cup Creating
         /\ loc'[t].value \in {loc[t].value, NULL}
         /\ \A u \in Threads \ {t} : pc'[u] = pc[u] /\ loc'[u] = loc[u]
         /\ \A j \in 0 .. THREADS_MAX :
              thread_table'[j] = NULL <=> thread_table[j] = NULL
         /\ UNCHANGED <<table_index, registered, called>>
<1>1. CASE KeyCreate(t)
  <2>0. KeyInv' /\ pc[t] = "run"
        /\ UNCHANGED <<thread_table, table_index, registered, called>>
    BY <1>1, KeyCreateKeys DEF KeyCreate, history
  <2>1. CASE UNCHANGED <<pc, loc>>
    BY <2>0, <2>1
  <2>2. CASE \E k : /\ loc' = [loc EXCEPT ![t].key = k]
                    /\ pc' = [pc EXCEPT ![t] = "install"]
    <3>1. PICK k : /\ loc' = [loc EXCEPT ![t].key = k]
                   /\ pc' = [pc EXCEPT ![t] = "install"]
      BY <2>2
    <3>2. PICK r \in Locals : r = loc[t]
      BY DEF KeyInv, Types
    <3>3. loc'[t] = [r EXCEPT !.key = k] /\ pc'[t] = "install"
          /\ \A u \in Threads \ {t} : pc'[u] = pc[u] /\ loc'[u] = loc[u]
      BY <3>1, <3>2 DEF KeyInv, Types
    <3>4. [r EXCEPT !.key = k].value = r.value
      BY DEF Locals
    <3>5. QED
      BY <2>0, <3>2, <3>3, <3>4 DEF Creating
  <2>3. QED
    BY <1>1, <2>1, <2>2 DEF KeyCreate, Goto
<1>2. CASE InstallDestructor(t)
  <2>1. /\ pc[t] = "install" /\ pc' = [pc EXCEPT ![t] = "plant"]
        /\ UNCHANGED <<thread_table, table_index, registered, called, loc>>
    BY <1>2 DEF InstallDestructor, Goto
  <2>2. QED
    BY <1>2, <2>1, InstallKeys DEF KeyInv, Types, Creating
<1>3. CASE PlantNull(t)
  <2>1. /\ pc[t] = "plant" /\ pc' = [pc EXCEPT ![t] = "run"]
        /\ loc' = [loc EXCEPT ![t] = NoLocals]
        /\ thread_table' = Planted(loc[t].key)
        /\ UNCHANGED <<table_index, registered, called>>
    BY <1>3 DEF PlantNull, Goto
  <2>2. loc[t].key \in Keys
    BY <2>1 DEF KeyInv, KeysRight, Creating
  <2>3. \A j \in 0 .. THREADS_MAX :
          thread_table'[j] = NULL <=> thread_table[j] = NULL
    BY <2>1, <2>2, PlantedRight DEF KeyInv
  <2>4. /\ loc'[t] = NoLocals /\ pc'[t] = "run"
        /\ \A u \in Threads \ {t} : pc'[u] = pc[u] /\ loc'[u] = loc[u]
    BY <2>1 DEF KeyInv, Types
  <2>5. QED
    BY <1>3, <2>1, <2>3, <2>4, PlantKeys, NoLocalsRight DEF Creating
<1>4. CASE \E k \in Keys : KeyDelete(t, k)
  <2>1. /\ pc[t] = "run"
        /\ UNCHANGED <<pc, loc, thread_table, table_index, registered, called>>
    BY <1>4 DEF KeyDelete
  <2>2. QED
    BY <1>4, <2>1, KeyDeleteKeys
<1>5. QED
  BY <1>1, <1>2, <1>3, <1>4

\* Only t's own area comes, goes or is moved.
LEMMA OneAreaMoves ==
  ASSUME KeyInv, KeyInv', AreaInv, NEW t \in Threads,
         NEW a \in 0 .. THREADS_MAX, a = Area(t),
         NEW b \in 0 .. THREADS_MAX, b = Area(t)',
         \A u \in Threads \ {t} :
           /\ pc'[u] = pc[u] /\ loc'[u] = loc[u]
           /\ table_index'[u] = table_index[u] /\ registered'[u] = registered[u],
         \A j \in 0 .. THREADS_MAX :
           j \notin {a, b} \/ a = b =>
             (thread_table'[j] = NULL <=> thread_table[j] = NULL),
         thread_table'[0] = NULL,
         a # b /\ b # 0 => thread_table[b] = NULL,
         a # b /\ a # 0 => thread_table'[a] = NULL,
         AreaRight(t)'
  PROVE  AreaInv'
<1>1. \A u \in Threads \ {t} : Area(u)' = Area(u)
  BY DEF Area
<1>2. \A u \in Threads : Area(u) \in 0 .. THREADS_MAX
  BY Numbers DEF Area, KeyInv, Types, Locals
<1>3. ASSUME NEW u \in Threads \ {t}, Area(u) # 0
      PROVE  thread_table'[Area(u)] # NULL /\ Area(u) # b
  <2>1. thread_table[Area(u)] # NULL /\ Area(u) # a
    BY <1>3 DEF AreaInv, AreaRight
  <2>2. Area(u) # b
    BY <1>3, <2>1
  <2>3. QED
    BY <1>2, <2>1, <2>2
<1>4. \A u \in Threads \ {t} : AreaRight(u)'
  <2> TAKE u \in Threads \ {t}
  <2>1. AreaRight(u)
    BY DEF AreaInv
  <2>2. QED
    BY <1>1, <1>3, <2>1 DEF AreaRight
<1>5. \A u \in Threads : AreaRight(u)'
  BY <1>4
<1>6. ASSUME NEW i \in Indices, thread_table'[i] # NULL
      PROVE  \E u \in Threads : Area(u)' = i
  <2>0. i \in 0 .. THREADS_MAX /\ i # 0
    BY Numbers
  <2>1. CASE i = b
    BY <2>1
  <2>2. CASE i # b
    <3>1. thread_table[i] # NULL /\ i # a
      <4>1. CASE a = b
        BY <1>6, <2>0, <2>2, <4>1
      <4>2. CASE a # b
        BY <1>6, <2>0, <2>2, <4>2
      <4>3. QED
        BY <4>1, <4>2
    <3>2. PICK u \in Threads : Area(u) = i
      BY <3>1 DEF AreaInv
    <3>3. QED
      BY <1>1, <3>1, <3>2
  <2>3. QED
    BY <2>1, <2>2
<1>7. ASSUME NEW u \in Threads, NEW v \in Threads, u # v, Area(u)' # 0
      PROVE  Area(u)' # Area(v)'
  <2>1. CASE u = t
    BY <1>1, <1>3, <1>7, <2>1
  <2>2. CASE v = t
    BY <1>1, <1>3, <1>7, <2>2
  <2>3. CASE u # t /\ v # t
    BY <1>1, <1>7, <2>3 DEF AreaInv
  <2>4. QED
    BY <2>1, <2>2, <2>3
<1>8. QED
  BY <1>5, <1>6, <1>7 DEF AreaInv

\* The common case: t keeps its area, and what it knows of it.
LEMMA AreasStay ==
  ASSUME KeyInv, KeyInv', AreaInv, NEW t \in Threads,
         \/ {pc[t], pc'[t]} \subseteq {"run"} \cup Creating
         \/ {pc[t], pc'[t]} \subseteq Loop /\ loc'[t].area = loc[t].area,
         \A u \in Threads \ {t} : pc'[u] = pc[u] /\ loc'[u] = loc[u],
         \A j \in 0 .. THREADS_MAX :
           thread_table'[j] = NULL <=> thread_table[j] = NULL,
         UNCHANGED <<table_index, registered>>
  PROVE  AreaInv' /\ Area(t)' = Area(t)
<1>1. /\ pc[t] # "clear" /\ pc'[t] # "clear"
      /\ pc[t] \in Loop <=> pc'[t] \in Loop
      /\ pc[t] \in {"run"} \cup Creating <=> pc'[t] \in {"run"} \cup Creating
      /\ pc[t] \in Loop => loc'[t].area = loc[t].area
      /\ {pc[t], pc'[t]} \subseteq {"run"} \cup Creating \cup Loop
      /\ pc[t] \notin {"gone", "exit"} /\ pc'[t] \notin {"gone", "exit"}
  BY DEF Creating, Loop
<1>2. Area(t)' = Area(t) /\ Area(t) = table_index[t]
  BY <1>1 DEF Area
<1>3. Area(t) \in 0 .. THREADS_MAX
  BY <1>2 DEF KeyInv, Types
<1>4. AreaRight(t)
  BY DEF AreaInv
<1>5. AreaRight(t)'
  BY <1>1, <1>2, <1>3, <1>4 DEF AreaRight
<1>6. thread_table'[0] = NULL
  BY Numbers DEF AreaInv
<1>7. QED
  BY <1>2, <1>3, <1>5, <1>6, OneAreaMoves

\* No registration of ethread_exit outlives a failed malloc to be joined by a
\* second one.  Run ethread_stale_index shows what happens otherwise.
OneRegistration == DESTRUCTORS <= 1 \/ ~MallocFails

LEMMA NewAreaAreas ==
  ASSUME OneRegistration, KeyInv, AreaInv,
         NEW t \in Threads, NEW k \in Keys, NewArea(t, k)
  PROVE  /\ AreaInv'
         /\ pc' # pc => pc'[t] = "clear" /\ table_index[t] = 0
<1>0. /\ KeyInv' /\ pc[t] = "run" /\ thread_table[table_index[t]] = NULL
      /\ UNCHANGED table_index
  BY NewAreaDoes
<1>1. AreaRight(t) /\ registered[t] \in Nat /\ thread_table[0] = NULL
  BY DEF AreaInv, KeyInv, Types
<1>2. Area(t) = 0 /\ table_index[t] = 0
  BY <1>0, <1>1 DEF AreaRight, Area
<1>3. CASE UNCHANGED <<thread_table, registered, pc, loc>>
  BY <1>0, <1>3, AreasStay
<1>4. ASSUME registered[t] < DESTRUCTORS PROVE registered[t] = 0
  <2>1. CASE MallocFails
    BY <1>1, <1>4, <2>1, EThreadAssumption DEF OneRegistration
  <2>2. CASE ~MallocFails
    BY <1>1, <1>2, <2>2 DEF AreaRight
  <2>3. QED
    BY <2>1, <2>2
<1>5. CASE /\ registered[t] < DESTRUCTORS /\ MallocFails
           /\ registered' = [registered EXCEPT ![t] = registered[t] + 1]
           /\ UNCHANGED <<thread_table, pc, loc>>
  <2>1. /\ registered'[t] = 1
        /\ \A u \in Threads \ {t} : registered'[u] = registered[u]
    BY <1>4, <1>5 DEF KeyInv, Types
  <2>2. Area(t)' = 0
    BY <1>0, <1>2, <1>5 DEF Area
  <2>3. AreaRight(t)'
    BY <1>0, <1>2, <1>5, <2>1, <2>2 DEF AreaRight, Loop
  <2>4. QED
    BY <1>0, <1>1, <1>2, <1>5, <2>1, <2>2, <2>3, Numbers, OneAreaMoves
<1>6. CASE \E i \in Indices :
             /\ registered[t] < DESTRUCTORS /\ thread_table[i] = NULL
             /\ registered' = [registered EXCEPT ![t] = registered[t] + 1]
             /\ thread_table' =
                  [thread_table EXCEPT ![i] = [j \in Keys |-> Garbage]]
             /\ pc'[t] = "clear" /\ loc'[t].area = i
             /\ \A u \in Threads \ {t} : pc'[u] = pc[u] /\ loc'[u] = loc[u]
  <2>1. PICK i \in Indices :
             /\ registered[t] < DESTRUCTORS /\ thread_table[i] = NULL
             /\ registered' = [registered EXCEPT ![t] = registered[t] + 1]
             /\ thread_table' =
                  [thread_table EXCEPT ![i] = [j \in Keys |-> Garbage]]
             /\ pc'[t] = "clear" /\ loc'[t].area = i
             /\ \A u \in Threads \ {t} : pc'[u] = pc[u] /\ loc'[u] = loc[u]
    BY <1>6
  <2>2. i \in 0 .. THREADS_MAX /\ i # 0 /\ 0 \in 0 .. THREADS_MAX
    BY Numbers
  <2>3. /\ registered'[t] = 1
        /\ \A u \in Threads \ {t} : registered'[u] = registered[u]
    BY <1>4, <2>1 DEF KeyInv, Types
  <2>4. [j \in Keys |-> Garbage] # NULL
    BY NullAssumption DEF Words
  <2>5. /\ thread_table'[i] # NULL
        /\ \A j \in 0 .. THREADS_MAX : j # i => thread_table'[j] = thread_table[j]
    BY <2>1, <2>2, <2>4 DEF KeyInv, Types
  <2>6. Area(t)' = i
    BY <2>1 DEF Area
  <2>7. AreaRight(t)'
    BY <1>0, <1>2, <2>1, <2>2, <2>3, <2>5, <2>6 DEF AreaRight, Loop, Creating
  <2>8. QED
    BY <1>0, <1>1, <1>2, <2>1, <2>2, <2>3, <2>5, <2>6, <2>7, OneAreaMoves
<1>7. QED
  BY <1>3, <1>5, <1>6, NewAreaDoes

LEMMA ClearAreaAreas ==
  ASSUME KeyInv, AreaInv, NEW t \in Threads, ClearArea(t)
  PROVE  AreaInv' /\ Area(t)' = Area(t) /\ Area(t) = loc[t].area
         /\ Area(t) \in Indices
<1>1. /\ KeyInv' /\ pc[t] = "clear" /\ loc[t].key \in Live
      /\ table_index' = [table_index EXCEPT ![t] = loc[t].area]
      /\ pc'[t] = "run" /\ UNCHANGED registered
      /\ \A u \in Threads \ {t} : pc'[u] = pc[u] /\ loc'[u] = loc[u]
  BY ClearAreaDoes
<1>2. PICK f \in Areas :
        thread_table' = [thread_table EXCEPT ![loc[t].area] = f]
  <2>1. Pointer(t, loc[t].key) \in Words
    BY <1>1, PointerRight DEF KeyInv, Words
  <2>2. [j \in Keys |-> IF j = loc[t].key THEN Pointer(t, loc[t].key)
                                          ELSE NULL] \in Areas
    BY <2>1 DEF Areas, Words
  <2>3. QED
    BY <2>2, ClearAreaDoes
<1>3. f # NULL
  BY NullAssumption DEF Areas
<1>4. AreaRight(t) /\ thread_table[0] = NULL
  BY DEF AreaInv
<1>5. PICK i \in 0 .. THREADS_MAX : i = loc[t].area /\ i # 0 /\ i = Area(t)
  BY <1>1, <1>4 DEF AreaRight, Area, KeyInv, Types, Locals
<1>6. /\ table_index'[t] = i /\ thread_table[i] # NULL
      /\ \A u \in Threads \ {t} : table_index'[u] = table_index[u]
  BY <1>1, <1>4, <1>5 DEF KeyInv, Types, AreaRight
<1>7. \A j \in 0 .. THREADS_MAX :
        thread_table'[j] = IF j = i THEN f ELSE thread_table[j]
  BY <1>2, <1>5 DEF KeyInv, Types
<1>8. Area(t)' = i
  BY <1>1, <1>6 DEF Area
<1>9. AreaRight(t)'
  BY <1>1, <1>3, <1>4, <1>5, <1>6, <1>7, <1>8 DEF AreaRight, Loop
<1>10. QED
  BY <1>1, <1>3, <1>4, <1>5, <1>6, <1>7, <1>8, <1>9, Numbers, OneAreaMoves

LEMMA EnterExitAreas ==
  ASSUME KeyInv, AreaInv, NEW t \in Threads, EnterExit(t)
  PROVE  AreaInv' /\ Area(t)' = Area(t)
<1>1. /\ KeyInv' /\ pc[t] = "exit" /\ registered[t] > 0
      /\ registered' = [registered EXCEPT ![t] = registered[t] - 1]
      /\ UNCHANGED <<thread_table, table_index>>
      /\ \A u \in Threads \ {t} : pc'[u] = pc[u] /\ loc'[u] = loc[u]
  BY EnterExitDoes
<1>2. AreaRight(t) /\ thread_table[0] = NULL
  BY DEF AreaInv
<1>3. /\ registered[t] = 1 /\ registered'[t] = 0
      /\ \A u \in Threads \ {t} : registered'[u] = registered[u]
  BY <1>1, <1>2 DEF AreaRight, KeyInv, Types
<1>4. Area(t) = table_index[t] /\ table_index[t] \in 0 .. THREADS_MAX
  BY <1>1, <1>3 DEF Area, KeyInv, Types
<1>5. Area(t)' = Area(t) /\ AreaRight(t)'
  <2>1. CASE /\ thread_table[table_index[t]] = NULL
             /\ pc'[t] = "exit"
    <3>1. table_index[t] = 0
      BY <1>2, <1>4, <2>1 DEF AreaRight
    <3>2. Area(t)' = 0
      BY <1>3, <2>1 DEF Area, Loop, Creating
    <3>3. QED
      BY <1>3, <1>4, <2>1, <3>1, <3>2 DEF AreaRight, Loop, Creating
  <2>2. CASE /\ thread_table[table_index[t]] # NULL
             /\ pc'[t] = "key" /\ loc'[t].area = table_index[t]
    <3>1. table_index[t] # 0
      BY <1>2, <2>2
    <3>2. Area(t)' = table_index[t]
      BY <1>1, <2>2 DEF Area, Loop
    <3>3. QED
      BY <1>1, <1>3, <1>4, <2>2, <3>1, <3>2 DEF AreaRight, Loop, Creating
  <2>3. QED
    BY <2>1, <2>2, EnterExitDoes
<1>6. QED
  BY <1>1, <1>2, <1>3, <1>4, <1>5, OneAreaMoves

LEMMA FreeAreaAreas ==
  ASSUME KeyInv, AreaInv, NEW t \in Threads, FreeArea(t)
  PROVE  AreaInv' /\ Area(t)' = 0 /\ Area(t) = loc[t].area
<1>1. /\ KeyInv' /\ pc[t] = "free" /\ pc'[t] = "exit" /\ pc[t] \in Loop
      /\ thread_table' = [thread_table EXCEPT ![loc[t].area] = NULL]
      /\ \A u \in Threads \ {t} : pc'[u] = pc[u] /\ loc'[u] = loc[u]
      /\ UNCHANGED <<table_index, registered>>
  BY FreeAreaDoes DEF Loop
<1>2. AreaRight(t) /\ thread_table[0] = NULL
  BY DEF AreaInv
<1>3. /\ registered[t] = 0 /\ loc[t].area = table_index[t]
      /\ table_index[t] # 0 /\ Area(t) = loc[t].area
  BY <1>1, <1>2 DEF AreaRight, Area
<1>4. PICK i \in 0 .. THREADS_MAX : i = loc[t].area
  BY <1>3 DEF KeyInv, Types
<1>5. \A j \in 0 .. THREADS_MAX :
        thread_table'[j] = IF j = i THEN NULL ELSE thread_table[j]
  BY <1>1, <1>4 DEF KeyInv, Types
<1>6. Area(t)' = 0
  BY <1>1, <1>3 DEF Area, Loop, Creating
<1>7. AreaRight(t)'
  BY <1>1, <1>2, <1>3, <1>6 DEF AreaRight, Loop, Creating
<1>8. 0 \in 0 .. THREADS_MAX /\ thread_table'[0] = NULL
  BY <1>2, <1>5, Numbers
<1>9. QED
  BY <1>1, <1>3, <1>4, <1>5, <1>6, <1>7, <1>8, OneAreaMoves

LEMMA LifeAreas ==
  ASSUME KeyInv, AreaInv, NEW t \in Threads, ThreadExit(t) \/ Gone(t) \/ Start(t)
  PROVE  AreaInv' /\ Area(t)' = Area(t)
<1>1. /\ KeyInv' /\ loc' = loc
      /\ \A u \in Threads \ {t} :
           pc'[u] = pc[u] /\ table_index'[u] = table_index[u]
      /\ UNCHANGED <<thread_table, registered>>
  BY LifeDoes
<1>2. AreaRight(t) /\ thread_table[0] = NULL
  BY DEF AreaInv
<1>3. Area(t) \in 0 .. THREADS_MAX
  BY Numbers DEF Area, KeyInv, Types, Locals
<1>4. Area(t)' = Area(t) /\ AreaRight(t)'
  <2>1. CASE pc[t] = "run" /\ pc'[t] = "exit" /\ UNCHANGED table_index
    <3>1. Area(t) = table_index[t]
          /\ Area(t)' = IF registered[t] = 1 THEN table_index[t] ELSE 0
      BY <1>1, <2>1 DEF Area, Loop, Creating
    <3>2. Area(t)' = Area(t)
      BY <1>2, <2>1, <3>1 DEF AreaRight
    <3>3. QED
      BY <1>1, <1>2, <2>1, <3>1, <3>2 DEF AreaRight, Loop, Creating
  <2>2. CASE /\ pc[t] = "exit" /\ pc'[t] = "gone" /\ registered[t] = 0
             /\ UNCHANGED table_index
    <3>1. Area(t) = 0 /\ Area(t)' = 0
      BY <2>2 DEF Area, Loop, Creating
    <3>2. QED
      BY <1>1, <1>2, <2>2, <3>1 DEF AreaRight, Loop, Creating
  <2>3. CASE pc[t] = "gone" /\ pc'[t] = "run" /\ table_index'[t] = 0
    <3>1. Area(t) = 0 /\ Area(t)' = 0
      BY <2>3 DEF Area, Loop, Creating
    <3>2. QED
      BY <1>1, <1>2, <2>3, <3>1 DEF AreaRight, Loop, Creating
  <2>4. QED
    BY <2>1, <2>2, <2>3, LifeDoes
<1>5. QED
  BY <1>1, <1>2, <1>3, <1>4, OneAreaMoves

LEMMA KeyStepsAreas ==
  ASSUME KeyInv, AreaInv, NEW t \in Threads,
         \/ KeyCreate(t) \/ InstallDestructor(t) \/ PlantNull(t)
         \/ \E k \in Keys : KeyDelete(t, k)
  PROVE  AreaInv' /\ Area(t)' = Area(t)
BY KeyStepsDo, AreasStay

LEMMA SetInAreaAreas ==
  ASSUME KeyInv, AreaInv, NEW t \in Threads, NEW k \in Keys, SetInArea(t, k)
  PROVE  AreaInv' /\ Area(t)' = Area(t)
<1>1. /\ KeyInv' /\ k \in Live /\ pc[t] = "run" /\ pc' = pc /\ loc' = loc
      /\ thread_table' = Written(table_index[t], k, Pointer(t, k))
      /\ UNCHANGED <<table_index, registered>>
  BY SetInAreaDoes
<1>2. Pointer(t, k) \in Words /\ table_index[t] \in 0 .. THREADS_MAX
  BY <1>1, PointerRight DEF KeyInv, Types, Words
<1>3. \A j \in 0 .. THREADS_MAX :
        thread_table'[j] = NULL <=> thread_table[j] = NULL
  BY <1>1, <1>2, WrittenRight DEF KeyInv
<1>4. QED
  BY <1>1, <1>3, AreasStay

LEMMA TakeValueAreas ==
  ASSUME KeyInv, AreaInv, NEW t \in Threads, TakeValue(t)
  PROVE  AreaInv' /\ Area(t)' = Area(t)
<1>1. /\ KeyInv' /\ {pc[t], pc'[t]} \subseteq Loop /\ loc[t].key \in Keys
      /\ loc'[t].area = loc[t].area
      /\ thread_table' = Written(loc[t].area, loc[t].key, NULL)
      /\ \A u \in Threads \ {t} : pc'[u] = pc[u] /\ loc'[u] = loc[u]
      /\ UNCHANGED <<table_index, registered>>
  BY TakeValueDoes DEF Loop
<1>2. NULL \in Words /\ loc[t].area \in 0 .. THREADS_MAX
  BY DEF KeyInv, Types, Locals, Words
<1>3. \A j \in 0 .. THREADS_MAX :
        thread_table'[j] = NULL <=> thread_table[j] = NULL
  BY <1>1, <1>2, WrittenRight DEF KeyInv
<1>4. QED
  BY <1>1, <1>3, AreasStay

LEMMA CallDestructorAreas ==
  ASSUME KeyInv, AreaInv, NEW t \in Threads, CallDestructor(t)
  PROVE  AreaInv' /\ Area(t)' = Area(t)
<1>1. /\ KeyInv' /\ {pc[t], pc'[t]} \subseteq Loop
      /\ loc'[t].area = loc[t].area
      /\ \/ UNCHANGED thread_table
         \/ \E k \in Live :
              thread_table' = Written(table_index[t], k, Pointer(t, k))
      /\ \A u \in Threads \ {t} : pc'[u] = pc[u] /\ loc'[u] = loc[u]
      /\ UNCHANGED <<table_index, registered>>
  BY CallDestructorDoes DEF Loop
<1>2. /\ table_index[t] \in 0 .. THREADS_MAX /\ Live \subseteq Keys
      /\ \A k \in Live : Pointer(t, k) \in Words
  BY PointerRight DEF KeyInv, Types, Words, Live
<1>3. \A j \in 0 .. THREADS_MAX :
        thread_table'[j] = NULL <=> thread_table[j] = NULL
  BY <1>1, <1>2, WrittenRight DEF KeyInv
<1>4. QED
  BY <1>1, <1>3, AreasStay

LEMMA LookAreas ==
  ASSUME KeyInv, AreaInv, NEW t \in Threads,
         CheckKey(t) \/ CheckValue(t) \/ EndIteration(t)
  PROVE  AreaInv' /\ Area(t)' = Area(t)
BY LookDoes, AreasStay

LEMMA AreaInvAtFirst == Init => AreaInv
<1> SUFFICES ASSUME Init PROVE AreaInv
  OBVIOUS
<1>1. \A i \in 0 .. THREADS_MAX : thread_table[i] = NULL
  BY DEF Init
<1>2. \A t \in Threads :
        Area(t) = 0 /\ pc[t] = "run" /\ registered[t] = 0 /\ table_index[t] = 0
  BY DEF Init, Area
<1>3. \A t \in Threads : AreaRight(t)
  BY <1>2 DEF AreaRight, Loop, Creating
<1>4. QED
  BY <1>1, <1>2, <1>3, Numbers DEF AreaInv

LEMMA AreaInvStep ==
  OneRegistration /\ KeyInv /\ AreaInv /\ [Next]_vars => AreaInv'
<1> SUFFICES ASSUME OneRegistration, KeyInv, AreaInv, [Next]_vars PROVE AreaInv'
  OBVIOUS
<1>1. CASE UNCHANGED vars
  BY <1>1 DEF vars, AreaInv, AreaRight, Area
<1>2. ASSUME NEW t \in Threads, KeyCreate(t) PROVE AreaInv'
  BY <1>2, KeyStepsAreas
<1>3. ASSUME NEW t \in Threads, NEW k \in Keys,
             KeyDelete(t, k) \/ SetInArea(t, k) \/ NewArea(t, k)
      PROVE  AreaInv'
  BY <1>3, KeyStepsAreas, SetInAreaAreas, NewAreaAreas
<1>4. ASSUME NEW t \in Threads, ThreadExit(t) \/ Start(t) PROVE AreaInv'
  BY <1>4, LifeAreas
<1>5. ASSUME NEW t \in Threads, Proceed(t) PROVE AreaInv'
  BY <1>5, KeyStepsAreas, ClearAreaAreas, EnterExitAreas, LookAreas,
     TakeValueAreas, CallDestructorAreas, FreeAreaAreas, LifeAreas DEF Proceed
<1>6. QED
  BY <1>1, <1>2, <1>3, <1>4, <1>5 DEF Next

\* No two threads ever use one area, ethread_exit of one of them included,
\* for any number of threads and keys.
THEOREM AreasDistinct == ASSUME OneRegistration PROVE Spec => []OwnArea
<1>1. Init => KeyInv /\ AreaInv
  BY KeyInvAtFirst, AreaInvAtFirst
<1>2. KeyInv /\ AreaInv /\ [Next]_vars => (KeyInv /\ AreaInv)'
  BY KeyInvStep, AreaInvStep
<1>3. KeyInv /\ AreaInv => OwnArea
  <2> SUFFICES ASSUME KeyInv, AreaInv PROVE OwnArea
    OBVIOUS
  <2>1. ASSUME NEW t \in Threads PROVE InUse(t) \in {Area(t), 0}
    <3>1. AreaRight(t)
      BY DEF AreaInv
    <3>2. QED
      BY <3>1 DEF InUse, Area, AreaRight, Loop, Creating
  <2>2. QED
    BY <2>1 DEF OwnArea, AreaInv
<1>4. QED
  BY <1>1, <1>2, <1>3, PTL DEF Spec

\* Every area that is allocated is the area of a thread that still exists.
THEOREM AreasFreed == ASSUME OneRegistration PROVE Spec => []NoAreaLeak
<1>1. Init => KeyInv /\ AreaInv
  BY KeyInvAtFirst, AreaInvAtFirst
<1>2. KeyInv /\ AreaInv /\ [Next]_vars => (KeyInv /\ AreaInv)'
  BY KeyInvStep, AreaInvStep
<1>3. KeyInv /\ AreaInv => NoAreaLeak
  <2> SUFFICES ASSUME KeyInv, AreaInv, NEW i \in Indices, thread_table[i] # NULL
               PROVE  \E t \in Threads :
                        i \in {table_index[t], loc[t].area} /\ pc[t] # "gone"
    BY DEF NoAreaLeak
  <2>1. PICK t \in Threads : Area(t) = i
    BY DEF AreaInv
  <2>2. i # 0
    BY Numbers
  <2>3. i \in {table_index[t], loc[t].area} /\ pc[t] # "gone"
    BY <2>1, <2>2 DEF Area, Loop, Creating
  <2>4. QED
    BY <2>3
<1>4. QED
  BY <1>1, <1>2, <1>3, PTL DEF Spec

-----------------------------------------------------------------------------
(* Data.                                                                   *)

\* A step of t leaves the data of the others as they are.
LEMMA OthersKeepData ==
  ASSUME KeyInv, DataInv, NEW t \in Threads, UNCHANGED created,
         \A u \in Threads \ {t} :
           /\ pc'[u] = pc[u] /\ loc'[u] = loc[u]
           /\ table_index'[u] = table_index[u] /\ registered'[u] = registered[u]
           /\ stored'[u] = stored[u] /\ called'[u] = called[u]
           /\ Area(u) # 0 => thread_table'[Area(u)] = thread_table[Area(u)],
         DataRight(t)'
  PROVE  DataInv'
<1>1. ASSUME NEW u \in Threads \ {t} PROVE DataRight(u)'
  <2>1. Area(u)' = Area(u)
    BY DEF Area
  <2>2. Live' = Live /\ \A k : Pointer(u, k)' = Pointer(u, k)
    BY DEF Live, Pointer
  <2>3. DataRight(u)
    BY DEF DataInv
  <2>4. QED
    BY <2>1, <2>2, <2>3 DEF DataRight
<1>2. QED
  BY <1>1 DEF DataInv

\* A step of t that changes no area, no key and nothing that is stored.
LEMMA DataStays ==
  ASSUME KeyInv, DataInv, NEW t \in Threads, Area(t)' = Area(t),
         UNCHANGED <<created, thread_table, table_index, stored, called>>,
         \A u \in Threads \ {t} : /\ pc'[u] = pc[u] /\ loc'[u] = loc[u]
                                  /\ registered'[u] = registered[u],
         pc[t] # "clear", pc[t] \in Loop => pc'[t] \in Loop,
         pc'[t] \in {"run", "clear"} \cup Creating => pc[t] \in {"run"} \cup Creating,
         loc'[t].value \in {loc[t].value, NULL}
  PROVE  DataInv'
<1>1. Live' = Live /\ \A k : Pointer(t, k)' = Pointer(t, k)
  BY DEF Live, Pointer
<1>2. DataRight(t) /\ NULL \in Own(t)
  BY DEF DataInv, Own
<1>3. DataRight(t)'
  BY <1>1, <1>2 DEF DataRight, Own
<1>4. QED
  BY <1>3, OthersKeepData

\* An entry of t's area is overwritten.
LEMMA WriteKeepsOthers ==
  ASSUME KeyInv, AreaInv, NEW t \in Threads, NEW k \in Keys, NEW v \in Words,
         Area(t) # 0, Area(t) \in 0 .. THREADS_MAX,
         thread_table' = Written(Area(t), k, v)
  PROVE  /\ \A u \in Threads \ {t} :
              Area(u) # 0 => thread_table'[Area(u)] = thread_table[Area(u)]
         /\ \A n \in Keys : thread_table'[Area(t)][n] =
                              IF n = k THEN v ELSE thread_table[Area(t)][n]
<1>1. \A u \in Threads : Area(u) \in 0 .. THREADS_MAX
  BY Numbers DEF Area, KeyInv, Types, Locals
<1>2. \A u \in Threads \ {t} : Area(u) # 0 => Area(u) # Area(t)
  BY DEF AreaInv
<1>3. thread_table[Area(t)] # NULL
  BY DEF AreaInv, AreaRight
<1>4. QED
  BY <1>1, <1>2, <1>3, WrittenRight DEF KeyInv

LEMMA CreateData ==
  ASSUME KeyInv, AreaInv, DataInv, NEW t \in Threads,
         KeyCreate(t) \/ InstallDestructor(t)
  PROVE  DataInv'
<1>1. UNCHANGED <<created, thread_table, stored>>
  BY DEF KeyCreate, InstallDestructor, history
<1>2. /\ {pc[t], pc'[t]} \subseteq {"run"} \cup Creating
      /\ loc'[t].value \in {loc[t].value, NULL}
      /\ \A u \in Threads \ {t} : pc'[u] = pc[u] /\ loc'[u] = loc[u]
      /\ UNCHANGED <<table_index, registered, called>>
  BY KeyStepsDo
<1>3. pc[t] # "clear" /\ pc[t] \notin Loop
  BY <1>2 DEF Loop, Creating
<1>4. Area(t)' = Area(t)
  BY KeyStepsAreas
<1>5. QED
  BY <1>1, <1>2, <1>3, <1>4, DataStays

LEMMA PlantData ==
  ASSUME KeyInv, AreaInv, DataInv, NEW t \in Threads, PlantNull(t)
  PROVE  DataInv'
<1>0. PICK k : k = loc[t].key
  OBVIOUS
<1>1. /\ pc[t] = "plant" /\ thread_table' = Planted(k)
      /\ created' = [created EXCEPT ![k] = creates]
      /\ stored' = [u \in Threads |-> stored[u] \ {k}]
      /\ loc' = [loc EXCEPT ![t] = NoLocals] /\ pc' = [pc EXCEPT ![t] = "run"]
      /\ UNCHANGED <<table_index, registered, called>>
  BY <1>0 DEF PlantNull, Goto
<1>2. creates > 0 /\ k \in Keys /\ k \notin Live
  BY <1>0, <1>1 DEF KeyInv, KeysRight, Creating
<1>3. Live' = Live \cup {k} /\ \A j \in Live : created'[j] = created[j]
  BY <1>1, <1>2, Numbers DEF KeyInv, Types, Live
<1>4. pc'[t] = "run" /\ loc'[t] = NoLocals
      /\ \A u \in Threads \ {t} : pc'[u] = pc[u] /\ loc'[u] = loc[u]
  BY <1>1 DEF KeyInv, Types
<1>5. ASSUME NEW u \in Threads PROVE DataRight(u)'
  <2>1. Area(u)' = Area(u)
    <3>1. CASE u = t
      BY <3>1, KeyStepsAreas
    <3>2. CASE u # t
      BY <1>1, <1>4, <3>2 DEF Area
    <3>3. QED
      BY <3>1, <3>2
  <2>2. DataRight(u) /\ AreaRight(u)
    BY DEF DataInv, AreaInv
  <2>3. PICK a \in 0 .. THREADS_MAX : a = Area(u)
    BY Numbers DEF Area, KeyInv, Types, Locals
  <2>4. pc'[u] = pc[u] \/ (pc[u] = "plant" /\ pc'[u] = "run")
    BY <1>1, <1>4
  <2>5. ASSUME a # 0, pc'[u] # "clear"
        PROVE  /\ \A n \in Keys : thread_table'[a][n] \in Own(u)
               /\ pc'[u] \notin Loop => \A n \in Live' :
                    thread_table'[a][n] =
                      IF n \in stored'[u] THEN Pointer(u, n)' ELSE NULL
    <3>1. thread_table[a] # NULL
      BY <2>2, <2>3, <2>5 DEF AreaRight
    <3>2. \A n \in Keys : thread_table'[a][n] =
                            IF n = k THEN NULL ELSE thread_table[a][n]
      BY <1>1, <1>2, <3>1, PlantedRight DEF KeyInv
    <3>3. pc[u] # "clear" /\ (pc'[u] \notin Loop => pc[u] \notin Loop)
      BY <2>4, <2>5 DEF Loop
    <3>4. NULL \in Own(u) /\ \A n \in Keys : thread_table[a][n] \in Own(u)
      BY <2>2, <2>3, <2>5, <3>3 DEF DataRight, Own
    <3>5. \A n \in Keys : thread_table'[a][n] \in Own(u)
      BY <3>2, <3>4
    <3>6. ASSUME pc'[u] \notin Loop, NEW n \in Live'
          PROVE  thread_table'[a][n] =
                   IF n \in stored'[u] THEN Pointer(u, n)' ELSE NULL
      <4>1. CASE n = k
        BY <1>1, <1>2, <3>2, <4>1
      <4>2. CASE n # k
        <5>1. n \in Live /\ n \in Keys
          BY <1>3, <3>6, <4>2 DEF Live
        <5>2. Pointer(u, n)' = Pointer(u, n) /\ (n \in stored'[u] <=> n \in stored[u])
          BY <1>1, <1>3, <4>2, <5>1 DEF Pointer
        <5>3. thread_table[a][n] =
                IF n \in stored[u] THEN Pointer(u, n) ELSE NULL
          BY <2>2, <2>3, <2>5, <3>3, <3>6, <5>1 DEF DataRight
        <5>4. QED
          BY <3>2, <4>2, <5>1, <5>2, <5>3
      <4>3. QED
        BY <4>1, <4>2
    <3>7. QED
      BY <3>5, <3>6
  <2>6. /\ pc'[u] \in {"run", "clear"} \cup Creating /\ table_index'[u] = 0 =>
             stored'[u] = {}
        /\ loc'[u].value \in Own(u)
        /\ called'[u] # NULL => called'[u].value \in Own(u)
    <3>1. pc'[u] \in {"run", "clear"} \cup Creating =>
            pc[u] \in {"run", "clear"} \cup Creating
      BY <2>4 DEF Creating
    <3>2. stored[u] = {} => stored'[u] = {}
      BY <1>1
    <3>3. loc'[u].value \in {loc[u].value, NULL}
      BY <1>4, NoLocalsRight
    <3>4. QED
      BY <1>1, <2>2, <3>1, <3>2, <3>3 DEF DataRight, Own
  <2>7. QED
    BY <2>1, <2>3, <2>5, <2>6 DEF DataRight, Own
<1>6. QED
  BY <1>5 DEF DataInv

LEMMA DeleteData ==
  ASSUME KeyInv, DataInv, NEW t \in Threads, NEW k \in Keys, KeyDelete(t, k)
  PROVE  DataInv'
<1>1. /\ k \in Live /\ created' = [created EXCEPT ![k] = 0]
      /\ UNCHANGED <<thread_table, table_index, registered, pc, loc, stored,
                     called>>
  BY DEF KeyDelete
<1>2. /\ Live' \subseteq Live
      /\ \A n \in Live', u \in Threads : Pointer(u, n)' = Pointer(u, n)
  BY <1>1 DEF KeyInv, Types, Live, Pointer
<1>3. ASSUME NEW u \in Threads PROVE DataRight(u)'
  <2>1. Area(u)' = Area(u)
    BY <1>1 DEF Area
  <2>2. DataRight(u)
    BY DEF DataInv
  <2>3. QED
    BY <1>1, <1>2, <2>1, <2>2 DEF DataRight, Own
<1>4. QED
  BY <1>3 DEF DataInv

LEMMA SetInAreaData ==
  ASSUME KeyInv, AreaInv, DataInv, NEW t \in Threads, NEW k \in Keys,
         SetInArea(t, k)
  PROVE  DataInv'
<1>1. /\ k \in Live /\ pc[t] = "run" /\ pc' = pc /\ loc' = loc
      /\ thread_table[table_index[t]] # NULL
      /\ thread_table' = Written(table_index[t], k, Pointer(t, k))
      /\ stored' = [stored EXCEPT ![t] = stored[t] \cup {k}]
      /\ UNCHANGED <<created, table_index, registered, called>>
  BY SetInAreaDoes
<1>2. /\ Area(t) = table_index[t] /\ Area(t) # 0 /\ Area(t) \in 0 .. THREADS_MAX
      /\ Area(t)' = Area(t)
  BY <1>1 DEF Area, AreaInv, KeyInv, Types
<1>3. Pointer(t, k) \in Words /\ Pointer(t, k) \in Own(t)
  BY <1>1, PointerRight DEF KeyInv, Words, Own
<1>4. /\ \A u \in Threads \ {t} :
           Area(u) # 0 => thread_table'[Area(u)] = thread_table[Area(u)]
      /\ \A n \in Keys :
           thread_table'[Area(t)][n] =
             IF n = k THEN Pointer(t, k) ELSE thread_table[Area(t)][n]
  BY <1>1, <1>2, <1>3, WriteKeepsOthers
<1>5. /\ stored'[t] = stored[t] \cup {k}
      /\ \A u \in Threads \ {t} : stored'[u] = stored[u]
  BY <1>1 DEF KeyInv, Types
<1>6. Live' = Live /\ Live \subseteq Keys /\ \A n : Pointer(t, n)' = Pointer(t, n)
  BY <1>1 DEF Live, Pointer
<1>7. DataRight(t) /\ pc[t] \notin Loop
  BY <1>1 DEF DataInv, Loop
<1>8. /\ \A n \in Keys : thread_table[Area(t)][n] \in Own(t)
      /\ \A n \in Live :
           thread_table[Area(t)][n] =
             IF n \in stored[t] THEN Pointer(t, n) ELSE NULL
  BY <1>1, <1>2, <1>7 DEF DataRight
<1>9. /\ \A n \in Keys : thread_table'[Area(t)][n] \in Own(t)
      /\ \A n \in Live' :
           thread_table'[Area(t)][n] =
             IF n \in stored'[t] THEN Pointer(t, n)' ELSE NULL
  BY <1>3, <1>4, <1>5, <1>6, <1>8
<1>10. DataRight(t)'
  BY <1>1, <1>2, <1>7, <1>9 DEF DataRight, Own
<1>11. QED
  BY <1>1, <1>4, <1>5, <1>10, OthersKeepData

LEMMA NewAreaData ==
  ASSUME OneRegistration, KeyInv, AreaInv, DataInv,
         NEW t \in Threads, NEW k \in Keys, NewArea(t, k)
  PROVE  DataInv'
<1>0. /\ pc[t] = "run" /\ thread_table[table_index[t]] = NULL
      /\ UNCHANGED <<created, table_index, stored, called>>
  BY NewAreaDoes
<1>1. AreaRight(t) /\ DataRight(t)
  BY DEF AreaInv, DataInv
<1>2. Area(t) = 0 /\ table_index[t] = 0 /\ stored[t] = {} /\ pc[t] \notin Loop
  BY <1>0, <1>1 DEF AreaRight, Area, DataRight, Loop
<1>3. CASE UNCHANGED <<thread_table, pc, loc>>
           /\ \A u \in Threads \ {t} : registered'[u] = registered[u]
  <2>1. Area(t)' = Area(t)
    BY <1>0, <1>3 DEF Area
  <2>2. QED
    BY <1>0, <1>2, <1>3, <2>1, DataStays
<1>4. CASE \E i \in Indices :
             /\ thread_table[i] = NULL
             /\ registered' = [registered EXCEPT ![t] = registered[t] + 1]
             /\ thread_table' =
                  [thread_table EXCEPT ![i] = [j \in Keys |-> Garbage]]
             /\ pc'[t] = "clear" /\ loc'[t].value = loc[t].value
             /\ \A u \in Threads \ {t} : pc'[u] = pc[u] /\ loc'[u] = loc[u]
  <2>1. PICK i \in Indices :
             /\ thread_table[i] = NULL
             /\ registered' = [registered EXCEPT ![t] = registered[t] + 1]
             /\ thread_table' =
                  [thread_table EXCEPT ![i] = [j \in Keys |-> Garbage]]
             /\ pc'[t] = "clear" /\ loc'[t].value = loc[t].value
             /\ \A u \in Threads \ {t} : pc'[u] = pc[u] /\ loc'[u] = loc[u]
    BY <1>4
  <2>2. \A u \in Threads \ {t} :
          /\ registered'[u] = registered[u]
          /\ Area(u) # 0 => thread_table'[Area(u)] = thread_table[Area(u)]
    <3>1. \A u \in Threads : Area(u) \in 0 .. THREADS_MAX
      BY Numbers DEF Area, KeyInv, Types, Locals
    <3>2. \A u \in Threads : Area(u) # 0 => Area(u) # i
      BY <2>1 DEF AreaInv, AreaRight
    <3>3. QED
      BY <2>1, <3>1, <3>2 DEF KeyInv, Types
  <2>3. DataRight(t)'
    BY <1>0, <1>1, <1>2, <2>1 DEF DataRight, Own
  <2>4. QED
    BY <1>0, <2>1, <2>2, <2>3, OthersKeepData
<1>5. CASE /\ registered' = [registered EXCEPT ![t] = registered[t] + 1]
           /\ UNCHANGED <<thread_table, pc, loc>>
  BY <1>3, <1>5 DEF KeyInv, Types
<1>6. QED
  BY <1>3, <1>4, <1>5, NewAreaDoes

LEMMA ClearAreaData ==
  ASSUME KeyInv, AreaInv, DataInv, NEW t \in Threads, ClearArea(t)
  PROVE  DataInv'
<1>0. PICK k : k = loc[t].key
  OBVIOUS
<1>1. /\ pc[t] = "clear" /\ k \in Live
      /\ thread_table' =
           [thread_table EXCEPT ![loc[t].area] =
              [j \in Keys |-> IF j = k THEN Pointer(t, k) ELSE NULL]]
      /\ stored' = [stored EXCEPT ![t] = stored[t] \cup {k}]
      /\ table_index' = [table_index EXCEPT ![t] = loc[t].area]
      /\ pc'[t] = "run" /\ loc'[t] = NoLocals
      /\ \A u \in Threads \ {t} : pc'[u] = pc[u] /\ loc'[u] = loc[u]
      /\ UNCHANGED <<created, registered, called>>
  BY <1>0, ClearAreaDoes
<1>2. PICK a \in Indices : a = Area(t) /\ a = Area(t)' /\ a = loc[t].area
  BY ClearAreaAreas
<1>3. a # 0 /\ a \in 0 .. THREADS_MAX
  BY Numbers
<1>4. table_index[t] = 0 /\ stored[t] = {} /\ DataRight(t)
  BY <1>1 DEF AreaInv, AreaRight, DataInv, DataRight
<1>5. /\ thread_table'[a] = [j \in Keys |-> IF j = k THEN Pointer(t, k) ELSE NULL]
      /\ stored'[t] = {k} /\ table_index'[t] = a
      /\ \A u \in Threads \ {t} :
           stored'[u] = stored[u] /\ table_index'[u] = table_index[u]
  BY <1>1, <1>2, <1>3, <1>4 DEF KeyInv, Types
<1>6. \A u \in Threads \ {t} :
        Area(u) # 0 => thread_table'[Area(u)] = thread_table[Area(u)]
  <2>1. \A u \in Threads : Area(u) \in 0 .. THREADS_MAX
    BY Numbers DEF Area, KeyInv, Types, Locals
  <2>2. \A u \in Threads \ {t} : Area(u) # 0 => Area(u) # a
    BY <1>2 DEF AreaInv
  <2>3. QED
    BY <1>1, <1>2, <2>1, <2>2 DEF KeyInv, Types
<1>7. Pointer(t, k) \in Own(t) /\ NULL \in Own(t)
  BY <1>1, PointerRight DEF KeyInv, Own
<1>8. Live' = Live /\ Live \subseteq Keys /\ \A n : Pointer(t, n)' = Pointer(t, n)
  BY <1>1 DEF Live, Pointer
<1>9. /\ \A n \in Keys : thread_table'[a][n] \in Own(t)
      /\ \A n \in Live' : thread_table'[a][n] =
             IF n \in stored'[t] THEN Pointer(t, n)' ELSE NULL
  BY <1>5, <1>7, <1>8
<1>10. DataRight(t)'
  BY <1>1, <1>2, <1>3, <1>4, <1>5, <1>7, <1>9, NoLocalsRight DEF DataRight, Own
<1>11. QED
  BY <1>1, <1>5, <1>6, <1>10, OthersKeepData

LEMMA LifeData ==
  ASSUME KeyInv, AreaInv, DataInv, NEW t \in Threads,
         ThreadExit(t) \/ Gone(t) \/ Start(t)
  PROVE  DataInv'
<1>1. /\ loc' = loc
      /\ \A u \in Threads \ {t} :
           /\ pc'[u] = pc[u] /\ table_index'[u] = table_index[u]
           /\ stored'[u] = stored[u] /\ called'[u] = called[u]
      /\ UNCHANGED <<created, thread_table, registered>>
      /\ \/ pc[t] = "run" /\ pc'[t] = "exit"
            /\ UNCHANGED <<table_index, stored, called>>
         \/ pc[t] = "exit" /\ pc'[t] = "gone"
            /\ UNCHANGED <<table_index, stored, called>>
         \/ pc[t] = "gone" /\ pc'[t] = "run" /\ table_index'[t] = 0
            /\ stored'[t] = {} /\ called'[t] = NULL
  BY LifeDoes
<1>2. Area(t)' = Area(t)
  BY LifeAreas
<1>3. CASE pc[t] \in {"run", "exit"}
  BY <1>1, <1>2, <1>3, DataStays DEF Loop, Creating
<1>4. CASE pc[t] = "gone"
  <2>1. Area(t)' = 0
    BY <1>2, <1>4 DEF Area, Loop, Creating
  <2>2. DataRight(t)
    BY DEF DataInv
  <2>3. DataRight(t)'
    BY <1>1, <1>4, <2>1, <2>2 DEF DataRight, Own
  <2>4. QED
    BY <1>1, <2>3, OthersKeepData
<1>5. QED
  BY <1>1, <1>3, <1>4

LEMMA EnterExitData ==
  ASSUME KeyInv, AreaInv, DataInv, NEW t \in Threads, EnterExit(t)
  PROVE  DataInv'
<1>1. /\ pc[t] = "exit" /\ pc'[t] \in {"exit", "key"}
      /\ registered' = [registered EXCEPT ![t] = registered[t] - 1]
      /\ UNCHANGED <<created, thread_table, table_index, stored, called>>
      /\ \A u \in Threads \ {t} : pc'[u] = pc[u] /\ loc'[u] = loc[u]
      /\ loc'[t].value \in {loc[t].value, NULL}
  BY EnterExitDoes
<1>2. \A u \in Threads \ {t} : registered'[u] = registered[u]
  BY <1>1 DEF KeyInv, Types
<1>3. Area(t)' = Area(t)
  BY EnterExitAreas
<1>4. QED
  BY <1>1, <1>2, <1>3, DataStays DEF Loop, Creating

LEMMA LookData ==
  ASSUME KeyInv, AreaInv, DataInv, NEW t \in Threads,
         CheckKey(t) \/ CheckValue(t) \/ EndIteration(t)
  PROVE  DataInv'
<1>1. /\ pc[t] \in Loop /\ pc'[t] \in Loop
      /\ loc'[t].value \in {loc[t].value, NULL}
      /\ \A u \in Threads \ {t} : pc'[u] = pc[u] /\ loc'[u] = loc[u]
      /\ UNCHANGED <<created, thread_table, table_index, registered, stored,
                     called>>
  BY LookDoes
<1>2. Area(t)' = Area(t)
  BY LookAreas
<1>3. QED
  BY <1>1, <1>2, DataStays DEF Loop, Creating

LEMMA TakeValueData ==
  ASSUME KeyInv, AreaInv, DataInv, NEW t \in Threads, TakeValue(t)
  PROVE  DataInv'
<1>1. /\ pc[t] = "take" /\ pc'[t] = "call" /\ loc[t].key \in Keys
      /\ loc'[t].value = Entry(loc[t].area, loc[t].key)
      /\ thread_table' = Written(loc[t].area, loc[t].key, NULL)
      /\ \A u \in Threads \ {t} : pc'[u] = pc[u] /\ loc'[u] = loc[u]
      /\ UNCHANGED <<created, table_index, registered, stored, called>>
      /\ pc[t] \in Loop /\ pc'[t] \in Loop
      /\ pc'[t] \notin {"run", "clear"} \cup Creating
  BY TakeValueDoes DEF Loop, Creating
<1>2. Area(t)' = Area(t) /\ AreaRight(t) /\ DataRight(t)
  BY TakeValueAreas DEF AreaInv, DataInv
<1>3. /\ Area(t) = loc[t].area /\ Area(t) # 0 /\ Area(t) \in 0 .. THREADS_MAX
      /\ thread_table[Area(t)] # NULL
  BY <1>1, <1>2 DEF Area, AreaRight, KeyInv, Types
<1>4. NULL \in Words /\ NULL \in Own(t)
  BY DEF Words, Own
<1>5. \A n \in Keys : thread_table[Area(t)][n] \in Own(t)
  BY <1>1, <1>2, <1>3 DEF DataRight
<1>6. loc'[t].value \in Own(t)
  BY <1>1, <1>3, <1>5 DEF Entry
<1>7. /\ \A u \in Threads \ {t} :
           Area(u) # 0 => thread_table'[Area(u)] = thread_table[Area(u)]
      /\ \A n \in Keys :
           thread_table'[Area(t)][n] =
             IF n = loc[t].key THEN NULL ELSE thread_table[Area(t)][n]
  BY <1>1, <1>3, <1>4, WriteKeepsOthers
<1>8. \A n \in Keys : thread_table'[Area(t)][n] \in Own(t)
  BY <1>4, <1>5, <1>7
<1>9. DataRight(t)'
  BY <1>1, <1>2, <1>6, <1>8 DEF DataRight, Own
<1>10. QED
  BY <1>1, <1>7, <1>9, OthersKeepData

LEMMA CallDestructorData ==
  ASSUME KeyInv, AreaInv, DataInv, NEW t \in Threads, CallDestructor(t)
  PROVE  DataInv'
<1>1. /\ pc[t] = "call" /\ pc'[t] = "key" /\ loc'[t].value = NULL
      /\ called'[t].value = loc[t].value
      /\ \A u \in Threads \ {t} :
           pc'[u] = pc[u] /\ loc'[u] = loc[u] /\ called'[u] = called[u]
      /\ UNCHANGED <<created, table_index, registered>>
      /\ pc[t] \in Loop /\ pc'[t] \in Loop
      /\ pc'[t] \notin {"run", "clear"} \cup Creating
  BY CallDestructorDoes DEF Loop, Creating
<1>2. Area(t)' = Area(t) /\ AreaRight(t) /\ DataRight(t)
  BY CallDestructorAreas DEF AreaInv, DataInv
<1>3. Area(t) = table_index[t] /\ Area(t) # 0 /\ Area(t) \in 0 .. THREADS_MAX
  BY <1>1, <1>2 DEF Area, AreaRight, KeyInv, Types
<1>4. NULL \in Own(t) /\ \A n \in Keys : thread_table[Area(t)][n] \in Own(t)
  BY <1>1, <1>2, <1>3 DEF DataRight, Own
<1>5. /\ \A u \in Threads \ {t} :
           /\ stored'[u] = stored[u]
           /\ Area(u) # 0 => thread_table'[Area(u)] = thread_table[Area(u)]
      /\ \A n \in Keys : thread_table'[Area(t)][n] \in Own(t)
  <2>1. CASE UNCHANGED <<thread_table, stored>>
    BY <1>4, <2>1
  <2>2. CASE \E k \in Live :
               /\ thread_table' = Written(table_index[t], k, Pointer(t, k))
               /\ stored' = [stored EXCEPT ![t] = stored[t] \cup {k}]
    <3>1. PICK k \in Live :
               /\ thread_table' = Written(table_index[t], k, Pointer(t, k))
               /\ stored' = [stored EXCEPT ![t] = stored[t] \cup {k}]
      BY <2>2
    <3>2. Pointer(t, k) \in Words /\ Pointer(t, k) \in Own(t) /\ k \in Keys
      BY PointerRight DEF KeyInv, Words, Own, Live
    <3>3. /\ \A u \in Threads \ {t} :
               Area(u) # 0 => thread_table'[Area(u)] = thread_table[Area(u)]
          /\ \A n \in Keys :
               thread_table'[Area(t)][n] =
                 IF n = k THEN Pointer(t, k) ELSE thread_table[Area(t)][n]
      BY <1>3, <3>1, <3>2, WriteKeepsOthers
    <3>4. \A u \in Threads \ {t} : stored'[u] = stored[u]
      BY <3>1 DEF KeyInv, Types
    <3>5. QED
      BY <1>4, <3>2, <3>3, <3>4
  <2>3. QED
    BY <2>1, <2>2, CallDestructorDoes
<1>6. DataRight(t)'
  BY <1>1, <1>2, <1>4, <1>5 DEF DataRight, Own
<1>7. QED
  BY <1>1, <1>5, <1>6, OthersKeepData

LEMMA FreeAreaData ==
  ASSUME KeyInv, AreaInv, DataInv, NEW t \in Threads, FreeArea(t)
  PROVE  DataInv'
<1>1. /\ pc'[t] = "exit" /\ loc'[t] = NoLocals
      /\ thread_table' = [thread_table EXCEPT ![loc[t].area] = NULL]
      /\ \A u \in Threads \ {t} : pc'[u] = pc[u] /\ loc'[u] = loc[u]
      /\ UNCHANGED <<created, table_index, registered, stored, called>>
  BY FreeAreaDoes
<1>2. Area(t)' = 0 /\ Area(t) = loc[t].area /\ DataRight(t)
  BY FreeAreaAreas DEF DataInv
<1>3. \A u \in Threads \ {t} :
        Area(u) # 0 => thread_table'[Area(u)] = thread_table[Area(u)]
  <2>1. \A u \in Threads : Area(u) \in 0 .. THREADS_MAX
    BY Numbers DEF Area, KeyInv, Types, Locals
  <2>2. \A u \in Threads \ {t} : Area(u) # 0 => Area(u) # loc[t].area
    BY <1>2 DEF AreaInv
  <2>3. QED
    BY <1>1, <2>1, <2>2 DEF KeyInv, Types
<1>4. DataRight(t)'
  BY <1>1, <1>2, NoLocalsRight DEF DataRight, Own, Creating
<1>5. QED
  BY <1>1, <1>3, <1>4, OthersKeepData

LEMMA DataInvAtFirst == Init => DataInv
<1> SUFFICES ASSUME Init, NEW t \in Threads PROVE DataRight(t)
  BY DEF DataInv
<1>1. Area(t) = 0 /\ stored[t] = {} /\ loc[t] = NoLocals /\ called[t] = NULL
  BY DEF Init, Area
<1>2. QED
  BY <1>1, NoLocalsRight DEF DataRight, Own

LEMMA DataInvStep ==
  OneRegistration /\ KeyInv /\ AreaInv /\ DataInv /\ [Next]_vars => DataInv'
<1> SUFFICES ASSUME OneRegistration, KeyInv, AreaInv, DataInv, [Next]_vars
             PROVE  DataInv'
  OBVIOUS
<1>1. CASE UNCHANGED vars
  BY <1>1 DEF vars, DataInv, DataRight, Area, Own, Live, Pointer
<1>2. ASSUME NEW t \in Threads, KeyCreate(t) PROVE DataInv'
  BY <1>2, CreateData
<1>3. ASSUME NEW t \in Threads, NEW k \in Keys,
             KeyDelete(t, k) \/ SetInArea(t, k) \/ NewArea(t, k)
      PROVE  DataInv'
  BY <1>3, DeleteData, SetInAreaData, NewAreaData
<1>4. ASSUME NEW t \in Threads, ThreadExit(t) \/ Start(t) PROVE DataInv'
  BY <1>4, LifeData
<1>5. ASSUME NEW t \in Threads, Proceed(t) PROVE DataInv'
  BY <1>5, CreateData, PlantData, ClearAreaData, EnterExitData, LookData,
     TakeValueData, CallDestructorData, FreeAreaData, LifeData DEF Proceed
<1>6. QED
  BY <1>1, <1>2, <1>3, <1>4, <1>5 DEF Next

\* ethread_getspecific gives a running thread the pointer it stored under the
\* key, or NULL: never what another thread, an earlier thread with the same
\* index or the user of a deleted key left in the area.
THEOREM DataIsOwn == ASSUME OneRegistration PROVE Spec => []GetSpecificRight
<1> DEFINE Inv == KeyInv /\ AreaInv /\ DataInv
<1>1. Init => Inv
  BY KeyInvAtFirst, AreaInvAtFirst, DataInvAtFirst
<1>2. Inv /\ [Next]_vars => Inv'
  BY KeyInvStep, AreaInvStep, DataInvStep
<1>3. Inv => GetSpecificRight
  <2> SUFFICES ASSUME KeyInv, AreaInv, DataInv, NEW t \in Threads,
                      NEW k \in Live, pc[t] = "run"
               PROVE  ethread_getspecific(t, k) =
                        IF k \in stored[t] THEN Pointer(t, k) ELSE NULL
    BY DEF GetSpecificRight
  <2>1. k \notin thread_key
    BY DEF KeyInv, KeysRight
  <2>2. Area(t) = table_index[t] /\ AreaRight(t) /\ DataRight(t)
    BY DEF Area, AreaInv, DataInv
  <2>3. CASE table_index[t] = 0
    BY <2>2, <2>3 DEF ethread_getspecific, DataRight, AreaInv
  <2>4. CASE table_index[t] # 0
    BY <2>1, <2>2, <2>4 DEF ethread_getspecific, DataRight, AreaRight, Loop
  <2>5. QED
    BY <2>3, <2>4
<1>4. QED
  BY <1>1, <1>2, <1>3, PTL DEF Spec

\* Whatever keys are deleted and created while a thread exits, the value that
\* a key destructor is called with is one that this thread stored.
THEOREM DestructorsGetOwn == ASSUME OneRegistration PROVE Spec => []OwnValues
<1> DEFINE Inv == KeyInv /\ AreaInv /\ DataInv
<1>1. Init => Inv
  BY KeyInvAtFirst, AreaInvAtFirst, DataInvAtFirst
<1>2. Inv /\ [Next]_vars => Inv'
  BY KeyInvStep, AreaInvStep, DataInvStep
<1>3. Inv => OwnValues
  BY DEF DataInv, DataRight, Own, OwnValues
<1>4. QED
  BY <1>1, <1>2, <1>3, PTL DEF Spec
=============================================================================
