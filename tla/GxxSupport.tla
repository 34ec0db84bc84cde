----------------------------- MODULE GxxSupport -----------------------------
(***************************************************************************)
(* What libstdc++ gets from gcc_ecos_multithread.cxx to protect its own    *)
(* data: a recursive mutex and ethread_once, used by the same threads.  A  *)
(* thread may call ethread_once while it is inside the mutex, and          *)
(* init_routine, which runs without ethread_mutex, may use the mutex.      *)
(***************************************************************************)
EXTENDS GxxRecursiveMutex

VARIABLES once_control, opc, old, begun, done

onceVars == <<once_control, opc, old, begun, done>>

Once == INSTANCE EThreadOnce WITH pc <- opc

OnceTypeOK ==
  /\ opc \in [Threads -> {"out", "decide", "init", "return"}]
  /\ old \in [Threads -> {0, 1}]
  /\ once_control \in {0, 1}

-----------------------------------------------------------------------------
\* Outside ethread_once, or inside init_routine.
UseMutex(t) ==
  /\ opc[t] \in {"out", "init"}
  /\ Access(t)
  /\ UNCHANGED onceVars

\* init_routine gives back what it has locked before it returns.
UseOnce(t) ==
  /\ pc[t] = "idle"
  /\ opc[t] = "init" => held[t] = 0
  /\ Once!Step(t)
  /\ UNCHANGED vars

SupportInit == Init /\ Once!Init

SupportNext == \E t \in Threads : UseMutex(t) \/ UseOnce(t)

\* The scheduler runs every thread that is ready, and the kernel mutex wakes
\* its waiters in turn.  The clients' part: whoever is inside leaves, and
\* init_routine comes to its end.
Fairness(t) ==
  /\ WF_<<vars, onceVars>>(UseMutex(t) /\ pc[t] \notin {"idle", "lock"})
  /\ SF_<<vars, onceVars>>(UseMutex(t) /\ Lock(t))
  /\ SF_<<vars, onceVars>>(UseMutex(t) /\ UnlockCall(t))
  /\ SF_<<vars, onceVars>>(UseMutex(t) /\ UnlockCall(t) /\ LastUnlock)
  /\ SF_<<vars, onceVars>>(UseOnce(t) /\ opc[t] = "init")
  /\ WF_<<vars, onceVars>>(UseOnce(t) /\ opc[t] \in {"decide", "return"})

SupportSpec ==
  /\ SupportInit
  /\ [][SupportNext]_<<vars, onceVars>>
  /\ \A t \in Threads : Fairness(t)

-----------------------------------------------------------------------------
\* However many threads race, init_routine is called once at most: "Call
\* init_routine just the once per control variable" (line 244).
JustOnce == begun <= 1

\* The call that is due is eventually made and finished, although
\* init_routine may wait for a mutex whose holder is calling ethread_once at
\* that moment: nobody waits for init_routine to return.
InitFinishes == once_control = 1 ~> done = 1

\* The inductive invariant behind JustOnce: one thread at most has found
\* once_control clear, and until it has called init_routine nobody has.
OnceInv ==
  /\ OnceTypeOK
  /\ begun \in {0, 1}
  /\ once_control = 0 => begun = 0
  /\ \A t \in Threads :
       opc[t] = "decide" /\ old[t] = 0 =>
         /\ begun = 0
         /\ once_control # 0
         /\ \A u \in Threads : opc[u] = "decide" /\ old[u] = 0 => u = t
=============================================================================
