----------------------------- MODULE EThreadOnce -----------------------------
(***************************************************************************)
(* ethread_once of gcc_ecos_multithread.cxx, behind __generic_gxx_once.    *)
(* once_control is tested and set under ethread_mutex; init_routine runs   *)
(* afterwards, without the mutex.                                          *)
(***************************************************************************)
EXTENDS Naturals

CONSTANT Threads

VARIABLES
  once_control,  \* 0 or 1
  pc,            \* pc[t]: "out", "decide", "init" or "return"
  old,           \* old[t]: the value thread t found in once_control
  begun,         \* how often init_routine was called
  done           \* how often it has finished

vars == <<once_control, pc, old, begun, done>>

Goto(t, l) == pc' = [pc EXCEPT ![t] = l]

\* Between lock and unlock nobody else sees once_control: one step.
NoTestAndSet(t) ==
  /\ pc[t] = "out"
  /\ old' = [old EXCEPT ![t] = once_control]
  /\ Goto(t, "decide")
  /\ UNCHANGED <<once_control, begun, done>>

TestAndSet(t) ==
  /\ pc[t] = "out"
  /\ old' = [old EXCEPT ![t] = once_control]
  /\ once_control' = 1
  /\ Goto(t, "decide")
  /\ UNCHANGED <<begun, done>>

\* if(!old) init_routine();
WaitForInit(t) ==
  /\ pc[t] = "decide"
  /\ \/ old[t] = 0 /\ begun' = begun + 1 /\ Goto(t, "init")
     \/ old[t] # 0 /\ done = 1 /\ Goto(t, "return") /\ UNCHANGED begun
  /\ UNCHANGED <<once_control, old, done>>

CallInit(t) ==
  /\ pc[t] = "decide"
  /\ \/ /\ old[t] = 0
        /\ begun' = begun + 1
        /\ Goto(t, "init")
     \/ /\ old[t] # 0
        /\ Goto(t, "return")
        /\ UNCHANGED begun
  /\ UNCHANGED <<once_control, old, done>>

InitReturns(t) ==
  /\ pc[t] = "init"
  /\ done' = done + 1
  /\ Goto(t, "return")
  /\ UNCHANGED <<once_control, old, begun>>

\* The caller goes on and may call again.
Again(t) ==
  /\ pc[t] = "return"
  /\ Goto(t, "out")
  /\ old' = [old EXCEPT ![t] = 0]
  /\ UNCHANGED <<once_control, begun, done>>

Init ==
  /\ once_control = 0
  /\ pc = [t \in Threads |-> "out"]
  /\ old = [t \in Threads |-> 0]
  /\ begun = 0
  /\ done = 0

Step(t) == TestAndSet(t) \/ CallInit(t) \/ InitReturns(t) \/ Again(t)
=============================================================================
