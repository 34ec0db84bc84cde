------------------------------- MODULE EThread -------------------------------
(***************************************************************************)
(* The thread-specific data that gcc_ecos_multithread.cxx gives to         *)
(* libstdc++ for native eCos threads: ethread_key_create, _key_delete,     *)
(* _setspecific, _getspecific and the thread destructor ethread_exit.      *)
(*                                                                         *)
(* thread_table maps a small index, kept in a word of kernel per-thread    *)
(* data, to the thread's area: an array with a pointer for every key.      *)
(* ethread_mutex protects the allocation of keys and areas; reading the    *)
(* key map and the destructors, and the whole loop of ethread_exit, is     *)
(* done without it.  Whatever happens under the mutex between two accesses *)
(* that others make without it is a step of its own.                       *)
(*                                                                         *)
(* A pointer stored under a key is represented by who stored it and under  *)
(* which creation of the key; a key destructor by that creation.           *)
(***************************************************************************)
EXTENDS Integers, FiniteSets

CONSTANTS
  Threads,            \* the threads; one that has exited may start anew
  NULL,
  Garbage,            \* a word of memory that nobody initialised
  KEYS_MAX,           \* ETHREAD_KEYS_MAX
  KEY_MAP_TYPE_SIZE,  \* keys per word of the key map (32 in the code)
  THREADS_MAX,        \* indices 1 .. THREADS_MAX of thread_table are used
  DESTRUCTOR_ITERATIONS,
  DESTRUCTORS,        \* destructors the kernel holds for one thread
  MaxCreates,         \* bound of the model: keys created in one behaviour
  MallocFails         \* can malloc fail?

ASSUME EThreadAssumption ==
  /\ NULL \notin Threads
  /\ KEYS_MAX \in Nat \ {0}
  /\ KEY_MAP_TYPE_SIZE \in Nat \ {0}
  /\ THREADS_MAX \in Nat \ {0}
  /\ DESTRUCTOR_ITERATIONS \in Nat \ {0}
  /\ DESTRUCTORS \in Nat
  /\ MaxCreates \in Nat
  /\ MallocFails \in BOOLEAN

VARIABLES
  data_index,      \* has the kernel's data index been allocated?
  thread_key,      \* the free keys: those with their bit set
  key_destructor,  \* key_destructor[k]
  thread_table,    \* thread_table[i]: NULL or an area
  mutex,           \* the holder of ethread_mutex, or NULL
  table_index,     \* table_index[t]: the kernel's per-thread word
  registered,      \* registered[t]: registrations of ethread_exit with the
                   \*   kernel that have not run
  pc,              \* pc[t]: where thread t is
  loc,             \* loc[t]: its local variables
  ret,             \* ret[t]: result of its last call
  creates,         \* history: how many keys have been created
  created,         \* history: created[k]: the creation the application knows
                   \*   key k by, or 0
  stored,          \* history: stored[t]: the keys under which t has stored
  called           \* history: called[t]: the last call of a key destructor

vars == <<data_index, thread_key, key_destructor, thread_table, mutex,
          table_index, registered, pc, loc, ret, creates, created, stored,
          called>>

keyVars == <<data_index, thread_key, key_destructor>>
history == <<creates, created, stored, called>>

Keys    == 0 .. KEYS_MAX - 1
Indices == 1 .. THREADS_MAX

\* The keys the key map has a bit for: KEYS_MAX/KEY_MAP_TYPE_SIZE words.
MapKeys == 0 .. (KEYS_MAX \div KEY_MAP_TYPE_SIZE) * KEY_MAP_TYPE_SIZE - 1

Live == {k \in Keys : created[k] # 0}

Pointer(t, k) == [by |-> t, creation |-> created[k]]

\* What a word of an area can hold.
Words == [by : Threads, creation : 1 .. MaxCreates] \cup {NULL, Garbage}

ASSUME NullAssumption == NULL \notin [Keys -> Words]

NoLocals == [key |-> 0, area |-> 0, value |-> NULL, any |-> FALSE, iter |-> 0]

Goto(t, l)   == pc' = [pc EXCEPT ![t] = l]
Return(t, r) == ret' = [ret EXCEPT ![t] = r]

\* What is read at entry k of the area with index i; nothing is known of the
\* contents of an area that has been freed.
Entry(i, k) == IF thread_table[i] = NULL THEN Garbage ELSE thread_table[i][k]

\* thread_table with entry k of area i overwritten.
Written(i, k, v) ==
  IF thread_table[i] = NULL THEN thread_table
  ELSE [thread_table EXCEPT ![i][k] = v]

-----------------------------------------------------------------------------
(* ethread_key_create and ethread_key_delete.                              *)

\* The lock, the first-time initialisation and the search for the lowest set
\* bit.  The bit is cleared at once; readers without the mutex now take the
\* key for an allocated one.
KeyCreate(t) ==
  /\ pc[t] = "run"
  /\ mutex = NULL
  /\ LET free == IF data_index THEN thread_key ELSE MapKeys IN
       /\ data_index' = TRUE
       /\ \/ /\ free = {}
             /\ thread_key' = {}
             /\ Return(t, "EAGAIN")
             /\ UNCHANGED <<mutex, pc, loc>>
          \/ \E k \in free :
               /\ creates < MaxCreates
               /\ \A j \in free : k <= j
               /\ thread_key' = free \ {k}
               /\ mutex' = t
               /\ loc' = [loc EXCEPT ![t].key = k]
               /\ Goto(t, "install")
               /\ UNCHANGED ret
  /\ UNCHANGED <<key_destructor, thread_table, table_index, registered,
                 history>>

\* The destructor is optional.
InstallDestructor(t) ==
  /\ pc[t] = "install"
  /\ creates' = creates + 1
  /\ \E d \in {NULL, creates + 1} :
       key_destructor' = [key_destructor EXCEPT ![loc[t].key] = d]
  /\ Goto(t, "plant")
  /\ UNCHANGED <<data_index, thread_key, thread_table, mutex, table_index,
                 registered, loc, ret, created, stored, called>>

\* Plant a NULL in every area, unlock and hand the key out.
NoPlant(k) == thread_table
Planted(k) ==
  [i \in DOMAIN thread_table |->
     IF thread_table[i] = NULL THEN NULL
     ELSE [thread_table[i] EXCEPT ![k] = NULL]]

PlantNull(t) ==
  /\ pc[t] = "plant"
  /\ LET k == loc[t].key IN
       /\ thread_table' = Planted(k)
       /\ created' = [created EXCEPT ![k] = creates]
       /\ stored' = [u \in Threads |-> stored[u] \ {k}]
  /\ mutex' = NULL
  /\ loc' = [loc EXCEPT ![t] = NoLocals]
  /\ Return(t, "OK")
  /\ Goto(t, "run")
  /\ UNCHANGED <<keyVars, table_index, registered, creates, called>>

\* The application does not delete a key that a call is just being made on;
\* threads may still have data under it.
KeyDelete(t, k) ==
  /\ pc[t] = "run"
  /\ mutex = NULL
  /\ k \in Live
  /\ \A u \in Threads : ~(pc[u] = "clear" /\ loc[u].key = k)
  /\ thread_key' = thread_key \cup {k}
  /\ created' = [created EXCEPT ![k] = 0]
  /\ Return(t, "OK")
  /\ UNCHANGED <<data_index, key_destructor, thread_table, mutex, table_index,
                 registered, pc, loc, creates, stored, called>>

-----------------------------------------------------------------------------
(* ethread_setspecific and ethread_getspecific.                            *)

\* The lowest unused index of thread_table.
AnyIndex(i) == i = 1
FreeIndices == {i \in Indices : thread_table[i] = NULL}
Lowest(i) == i \in FreeIndices /\ \A j \in FreeIndices : i <= j

\* The thread has an area: store the pointer there.
SetInArea(t, k) ==
  /\ pc[t] = "run"
  /\ k \in Live \ thread_key
  /\ thread_table[table_index[t]] # NULL
  /\ thread_table' = Written(table_index[t], k, Pointer(t, k))
  /\ stored' = [stored EXCEPT ![t] = @ \cup {k}]
  /\ Return(t, "OK")
  /\ UNCHANGED <<keyVars, mutex, table_index, registered, pc, loc, creates,
                 created, called>>

\* The first call of the thread: find an index, register ethread_exit with
\* the kernel, allocate the area and publish it, all under the mutex.
NewArea(t, k) ==
  /\ pc[t] = "run"
  /\ k \in Live \ thread_key
  /\ thread_table[table_index[t]] = NULL
  /\ mutex = NULL
  /\ \/ /\ FreeIndices = {} \/ registered[t] = DESTRUCTORS
        /\ Return(t, "EINVAL")
        /\ UNCHANGED <<thread_table, registered, pc, loc>>
     \/ \E i \in Indices :
          /\ Lowest(i)
          /\ registered[t] < DESTRUCTORS
          /\ registered' = [registered EXCEPT ![t] = @ + 1]
          /\ \/ /\ MallocFails
                /\ Return(t, "ENOMEM")
                /\ UNCHANGED <<thread_table, pc, loc>>
             \/ /\ thread_table' =
                     [thread_table EXCEPT ![i] = [j \in Keys |-> Garbage]]
                /\ loc' = [loc EXCEPT ![t].area = i, ![t].key = k]
                /\ Goto(t, "clear")
                /\ UNCHANGED ret
  /\ UNCHANGED <<keyVars, mutex, table_index, history>>

\* The rest of that call, after the unlock.
ClearArea(t) ==
  /\ pc[t] = "clear"
  /\ LET k == loc[t].key IN
       /\ thread_table' =
            [thread_table EXCEPT ![loc[t].area] =
               [j \in Keys |-> IF j = k THEN Pointer(t, k) ELSE NULL]]
       /\ stored' = [stored EXCEPT ![t] = @ \cup {k}]
  /\ table_index' = [table_index EXCEPT ![t] = loc[t].area]
  /\ loc' = [loc EXCEPT ![t] = NoLocals]
  /\ Return(t, "OK")
  /\ Goto(t, "run")
  /\ UNCHANGED <<keyVars, mutex, registered, creates, created, called>>

\* What ethread_getspecific returns to thread t.
ethread_getspecific(t, k) ==
  IF k \in thread_key \/ thread_table[table_index[t]] = NULL THEN NULL
  ELSE thread_table[table_index[t]][k]

-----------------------------------------------------------------------------
(* ethread_exit, called by the kernel once for every registration when the *)
(* thread exits.                                                           *)

ThreadExit(t) ==
  /\ pc[t] = "run"
  /\ Goto(t, "exit")
  /\ UNCHANGED <<keyVars, thread_table, mutex, table_index, registered, loc,
                 ret, history>>

EnterExit(t) ==
  /\ pc[t] = "exit"
  /\ registered[t] > 0
  /\ registered' = [registered EXCEPT ![t] = @ - 1]
  /\ \/ /\ thread_table[table_index[t]] = NULL
        /\ UNCHANGED <<loc, pc>>
     \/ /\ thread_table[table_index[t]] # NULL
        /\ loc' = [loc EXCEPT ![t] = [NoLocals EXCEPT !.area = table_index[t]]]
        /\ Goto(t, "key")
  /\ UNCHANGED <<keyVars, thread_table, mutex, table_index, ret, history>>

NextKey(t) ==
  /\ loc' = [loc EXCEPT ![t].key = @ + 1, ![t].value = NULL]
  /\ Goto(t, "key")

\* Skip unallocated keys.  A key that the map has no bit for is read from
\* the memory after the map, with either outcome.
CheckKey(t) ==
  /\ pc[t] = "key"
  /\ loc[t].key < KEYS_MAX
  /\ \/ /\ loc[t].key \in thread_key \/ loc[t].key \notin MapKeys
        /\ NextKey(t)
     \/ /\ loc[t].key \notin thread_key
        /\ Goto(t, "check")
        /\ UNCHANGED loc
  /\ UNCHANGED <<keyVars, thread_table, mutex, table_index, registered, ret,
                 history>>

\* Skip NULL destructors and NULL data values.
CheckValue(t) ==
  /\ pc[t] = "check"
  /\ LET k == loc[t].key IN
       \/ /\ key_destructor[k] = NULL \/ Entry(loc[t].area, k) = NULL
          /\ NextKey(t)
       \/ /\ key_destructor[k] # NULL
          /\ Entry(loc[t].area, k) # NULL
          /\ Goto(t, "take")
          /\ UNCHANGED loc
  /\ UNCHANGED <<keyVars, thread_table, mutex, table_index, registered, ret,
                 history>>

\* Read the value again and clear the entry.
TakeValue(t) ==
  /\ pc[t] = "take"
  /\ loc' = [loc EXCEPT ![t].value = Entry(loc[t].area, loc[t].key)]
  /\ thread_table' = Written(loc[t].area, loc[t].key, NULL)
  /\ Goto(t, "call")
  /\ UNCHANGED <<keyVars, mutex, table_index, registered, ret, history>>

\* Call the destructor that is installed now.  A key destructor may itself
\* store data under some key.
CallDestructor(t) ==
  /\ pc[t] = "call"
  /\ called' = [called EXCEPT ![t] = [dtor  |-> key_destructor[loc[t].key],
                                      value |-> loc[t].value]]
  /\ loc' = [loc EXCEPT ![t].key = @ + 1, ![t].value = NULL, ![t].any = TRUE]
  /\ Goto(t, "key")
  /\ \/ UNCHANGED <<thread_table, stored>>
     \/ \E k \in Live \ thread_key :
          /\ thread_table[table_index[t]] # NULL
          /\ thread_table' = Written(table_index[t], k, Pointer(t, k))
          /\ stored' = [stored EXCEPT ![t] = @ \cup {k}]
  /\ UNCHANGED <<keyVars, mutex, table_index, registered, ret, creates,
                 created>>

\* destructor_iterations++, then the loop condition.
Uncounted(iter) == iter
Counted(iter) == iter + 1

EndIteration(t) ==
  /\ pc[t] = "key"
  /\ loc[t].key = KEYS_MAX
  /\ LET again == /\ loc[t].any
                 /\ Counted(loc[t].iter) <= DESTRUCTOR_ITERATIONS IN
       /\ loc' = [loc EXCEPT
                    ![t].key = 0, ![t].any = FALSE,
                    ![t].iter = IF again THEN Counted(loc[t].iter) ELSE 0]
       /\ Goto(t, IF again THEN "key" ELSE "free")
  /\ UNCHANGED <<keyVars, thread_table, mutex, table_index, registered, ret,
                 history>>

\* Free the area under the mutex.  table_index keeps its value.
NotFreed(i) == thread_table
Freed(i) == [thread_table EXCEPT ![i] = NULL]

FreeArea(t) ==
  /\ pc[t] = "free"
  /\ mutex = NULL
  /\ thread_table' = Freed(loc[t].area)
  /\ loc' = [loc EXCEPT ![t] = NoLocals]
  /\ Goto(t, "exit")
  /\ UNCHANGED <<keyVars, mutex, table_index, registered, ret, history>>

\* All registered destructors have run: the thread is gone.  A new thread
\* starts with kernel data and destructors cleared.
Gone(t) ==
  /\ pc[t] = "exit"
  /\ registered[t] = 0
  /\ Goto(t, "gone")
  /\ UNCHANGED <<keyVars, thread_table, mutex, table_index, registered, loc,
                 ret, history>>

Start(t) ==
  /\ pc[t] = "gone"
  /\ table_index' = [table_index EXCEPT ![t] = 0]
  /\ stored' = [stored EXCEPT ![t] = {}]
  /\ called' = [called EXCEPT ![t] = NULL]
  /\ Return(t, "OK")
  /\ Goto(t, "run")
  /\ UNCHANGED <<keyVars, thread_table, mutex, registered, loc, creates,
                 created>>

-----------------------------------------------------------------------------
Init ==
  /\ data_index = FALSE
  /\ thread_key = {}
  /\ key_destructor = [k \in Keys |-> NULL]
  /\ thread_table = [i \in 0 .. THREADS_MAX |-> NULL]
  /\ mutex = NULL
  /\ table_index = [t \in Threads |-> 0]
  /\ registered = [t \in Threads |-> 0]
  /\ pc = [t \in Threads |-> "run"]
  /\ loc = [t \in Threads |-> NoLocals]
  /\ ret = [t \in Threads |-> "OK"]
  /\ creates = 0
  /\ created = [k \in Keys |-> 0]
  /\ stored = [t \in Threads |-> {}]
  /\ called = [t \in Threads |-> NULL]

\* The steps a call or an exit makes on its own once it has begun.
Proceed(t) ==
  \/ InstallDestructor(t) \/ PlantNull(t) \/ ClearArea(t)
  \/ EnterExit(t) \/ CheckKey(t) \/ CheckValue(t) \/ TakeValue(t)
  \/ CallDestructor(t) \/ EndIteration(t) \/ FreeArea(t) \/ Gone(t)

Next ==
  \E t \in Threads :
    \/ KeyCreate(t)
    \/ \E k \in Keys : KeyDelete(t, k) \/ SetInArea(t, k) \/ NewArea(t, k)
    \/ ThreadExit(t)
    \/ Proceed(t)
    \/ Start(t)

\* Every thread is scheduled; the kernel mutex queues its waiters, so a
\* thread that wants it is not overtaken for ever.
Fairness ==
  \A t \in Threads : WF_vars(Proceed(t)) /\ SF_vars(FreeArea(t))

Spec == Init /\ [][Next]_vars /\ Fairness

-----------------------------------------------------------------------------
\* ethread_getspecific returns to a running thread exactly the pointer that
\* this thread stored under this key, and NULL if it stored none: no other
\* thread, no deleted key and no earlier thread shows through.
GetSpecificRight ==
  \A t \in Threads, k \in Live :
    pc[t] = "run" =>
      ethread_getspecific(t, k) =
        IF k \in stored[t] THEN Pointer(t, k) ELSE NULL

\* "Each thread has its own distinct thread-specific data area"
\* (gcc_ecos_multithread.cxx:266): two threads never use one area, not even
\* while one of them runs ethread_exit.
InUse(t) ==
  CASE pc[t] \in {"run", "install", "plant"} -> table_index[t]
    [] pc[t] \in {"clear", "key", "check", "take", "call", "free"} -> loc[t].area
    [] OTHER -> 0

OwnArea ==
  \A t, u \in Threads : t # u /\ InUse(t) = InUse(u) => InUse(t) = 0

\* An area exists only while its thread does: ethread_exit frees it on every
\* way out, so thread_table cannot fill up with areas of dead threads.
NoAreaLeak ==
  \A i \in Indices :
    thread_table[i] # NULL =>
      \E t \in Threads : i \in {table_index[t], loc[t].area} /\ pc[t] # "gone"

\* A key destructor never sees a pointer that another thread stored.
OwnValues ==
  \A t \in Threads :
    called[t] # NULL =>
      called[t].value \in [by : {t}, creation : 1 .. MaxCreates] \cup {NULL}

\* A thread that exits is gone after finitely many steps, even if its key
\* destructors keep storing new data.
ExitTerminates == \A t \in Threads : pc[t] = "exit" ~> pc[t] = "gone"
=============================================================================
