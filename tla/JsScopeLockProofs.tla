------------------------- MODULE JsScopeLockProofs -------------------------
(***************************************************************************)
(* Proofs about JsScopeLock, for any finite set of contexts, any objects   *)
(* and prototypes and any programs.                                        *)
(***************************************************************************)
EXTENDS JsScopeLock, FiniteSetTheorems, TLAPS

-----------------------------------------------------------------------------
(* Requests and the collector.                                             *)

\* What every step keeps, and StopTheWorld follows from: requestCount is the
\* number of requests that run, and the thread that collects has them all
\* ended or suspended.
OutsidePlaces == {"begin", "wait", "busy", "resume"}
InsidePlaces == {"claim", "acquire", "relock", "held", "setslot", "setagain",
                 "slotdone"}
SuspendedPlaces == {"yielded", "gcwait", "rendezvous", "collect"}

Running ==
  {c \in Contexts : requestDepth[c] = 1 /\ at[c] \notin SuspendedPlaces}

RequestInv ==
  /\ requestDepth \in [Contexts -> {0, 1}]
  /\ at \in [Contexts -> {"idle"} \cup OutsidePlaces \cup InsidePlaces
                           \cup SuspendedPlaces]
  /\ gcLevel \in Nat /\ gcThread \in Contexts \cup {None}
  /\ requestCount = Cardinality(Running)
  /\ gcLevel > 0 <=> gcThread # None
  /\ \A c \in Contexts :
       /\ at[c] \in OutsidePlaces => requestDepth[c] = 0
       /\ at[c] \in InsidePlaces \cup {"yielded"} => requestDepth[c] = 1
       /\ at[c] \in {"rendezvous", "collect"} <=> gcThread = c
       /\ at[c] = "collect" => requestCount = 0

LEMMA RunningFinite ==
  /\ IsFiniteSet(Running) /\ Cardinality(Running) \in Nat
  /\ Cardinality(Running) = 0 => Running = {}
<1>1. Running \in SUBSET Contexts
  BY DEF Running
<1>2. IsFiniteSet(Running)
  BY <1>1, FS_Subset, JsScopeLockAssumption
<1>3. QED
  BY <1>2, FS_CardinalityType, FS_EmptySet

\* One request more runs, or one less.
LEMMA RunningCounts ==
  ASSUME NEW c \in Contexts
  PROVE  /\ c \notin Running =>
              Cardinality(Running \cup {c}) = Cardinality(Running) + 1
         /\ c \in Running =>
              /\ Cardinality(Running \ {c}) = Cardinality(Running) - 1
              /\ Cardinality(Running) > 0
<1>1. c \notin Running =>
        Cardinality(Running \cup {c}) = Cardinality(Running) + 1
  BY RunningFinite, FS_AddElement
<1>2. c \in Running =>
        Cardinality(Running \ {c}) = Cardinality(Running) - 1
  BY RunningFinite, FS_RemoveElement
<1>3. c \in Running => Cardinality(Running) > 0
  BY RunningFinite
<1>4. QED
  BY <1>1, <1>2, <1>3

LEMMA RequestInvAtFirst == Init => RequestInv
<1> SUFFICES ASSUME Init PROVE RequestInv
  OBVIOUS
<1>1. Running = {}
  BY DEF Init, Running
<1>2. Cardinality(Running) = 0
  BY <1>1, FS_EmptySet
<1>3. QED
  BY <1>2, JsScopeLockAssumption
     DEF Init, RequestInv, OutsidePlaces, InsidePlaces, SuspendedPlaces

\* A thread with a running request goes from one place to another.
LEMMA MovesInside ==
  ASSUME RequestInv, NEW c \in Contexts,
         at[c] \in InsidePlaces \cup {"idle"}, requestDepth[c] = 1,
         NEW l \in InsidePlaces \cup {"idle"},
         at' = [at EXCEPT ![c] = l],
         UNCHANGED <<requestDepth, requestCount, gcLevel, gcThread>>
  PROVE  RequestInv'
<1> USE DEF RequestInv, OutsidePlaces, InsidePlaces, SuspendedPlaces
<1>1. Running' = Running
  BY DEF Running
<1>2. QED
  BY <1>1

\* A request begins or is resumed, which waits for the end of a collection.
LEMMA StartsRunning ==
  ASSUME RequestInv, NEW c \in Contexts, GCDone,
         at[c] \in {"idle"} \cup OutsidePlaces => requestDepth[c] = 0,
         at[c] \in {"idle", "yielded"} \cup OutsidePlaces,
         NEW l \in InsidePlaces \cup {"idle"},
         at' = [at EXCEPT ![c] = l],
         requestDepth' = [requestDepth EXCEPT ![c] = 1],
         requestCount' = requestCount + 1,
         UNCHANGED <<gcLevel, gcThread>>
  PROVE  RequestInv'
<1> USE DEF RequestInv, OutsidePlaces, InsidePlaces, SuspendedPlaces, GCDone
<1>1. c \notin Running /\ Running' = Running \cup {c}
  BY DEF Running
<1>2. requestCount' = Cardinality(Running')
  BY <1>1, RunningCounts
<1>3. gcThread = None
  OBVIOUS
<1>4. QED
  BY <1>2, <1>3, JsScopeLockAssumption

\* A request ends or is suspended.
LEMMA StopsRunning ==
  ASSUME RequestInv, NEW c \in Contexts,
         at[c] \in InsidePlaces \cup {"idle"}, requestDepth[c] = 1,
         NEW l \in {"idle", "yielded"} \cup OutsidePlaces,
         at' = [at EXCEPT ![c] = l],
         requestDepth' = [requestDepth EXCEPT
                            ![c] = IF l = "yielded" THEN 1 ELSE 0],
         requestCount' = requestCount - 1,
         UNCHANGED <<gcLevel, gcThread>>
  PROVE  RequestInv'
<1> USE DEF RequestInv, OutsidePlaces, InsidePlaces, SuspendedPlaces
<1>1. c \in Running /\ Running' = Running \ {c}
  BY DEF Running
<1>2. requestCount' = Cardinality(Running') /\ requestCount > 0
  BY <1>1, RunningCounts
<1>3. QED
  BY <1>2

\* A thread that runs no request goes from one place to another.
LEMMA MovesOutside ==
  ASSUME RequestInv, NEW c \in Contexts,
         at[c] \in OutsidePlaces \cup {"idle"}, requestDepth[c] = 0,
         NEW l \in OutsidePlaces \cup {"idle"},
         at' = [at EXCEPT ![c] = l],
         UNCHANGED <<requestDepth, requestCount, gcLevel, gcThread>>
  PROVE  RequestInv'
<1> USE DEF RequestInv, OutsidePlaces, InsidePlaces, SuspendedPlaces
<1>1. Running' = Running
  BY DEF Running
<1>2. QED
  BY <1>1

LEMMA GCStarts ==
  ASSUME RequestInv, NEW c \in Contexts, js_GC(c)
  PROVE  RequestInv'
<1> USE DEF RequestInv, OutsidePlaces, InsidePlaces, SuspendedPlaces
<1>0. at[c] = "idle" /\ requestDepth' = requestDepth
  BY DEF js_GC, Awake
<1>1. PICK l \in {"gcwait", "rendezvous", "collect"} :
        at' = [at EXCEPT ![c] = l]
  BY DEF js_GC, Goto
<1>2. Running' = Running \ {c} /\ (c \in Running <=> requestDepth[c] = 1)
  BY <1>0, <1>1 DEF Running
<1>3. requestCount' = Cardinality(Running')
  <2>1. CASE requestDepth[c] = 1
    BY <1>2, <2>1, RunningCounts DEF js_GC, Debit
  <2>2. CASE requestDepth[c] = 0
    <3>1. Running' = Running
      BY <1>2, <2>2
    <3>2. QED
      BY <2>2, <3>1, RunningFinite DEF js_GC, Debit
  <2>3. QED
    BY <2>1, <2>2
<1>4. requestCount' \in Nat
  <2>1. Running' \in SUBSET Running
    BY <1>2
  <2>2. QED
    BY <1>3, <2>1, RunningFinite, FS_Subset, FS_CardinalityType
<1>5. CASE gcLevel > 0
  <2>1. /\ l = "gcwait" /\ gcThread' = gcThread /\ gcLevel' = gcLevel + 1
        /\ \A d \in Contexts : at[d] = "collect" => requestCount' = 0
    <3>1. /\ Goto(c, "gcwait") /\ gcThread' = gcThread
          /\ gcLevel' = gcLevel + 1
      BY <1>5 DEF js_GC
    <3>2. \A d \in Contexts : at[d] = "collect" => Running' = {}
      BY <1>2, RunningFinite
    <3>3. \A d \in Contexts : at[d] = "collect" => requestCount' = 0
      BY <1>3, <3>2, FS_EmptySet
    <3>4. QED
      BY <1>1, <3>1, <3>3 DEF Goto
  <2>2. QED
    BY <1>0, <1>1, <1>3, <1>5, <2>1, JsScopeLockAssumption
<1>6. CASE gcLevel = 0
  <2>1. /\ gcThread' = c /\ gcLevel' = 1 /\ gcThread = None
        /\ at' = [at EXCEPT ![c] = IF requestCount' > 0 THEN "rendezvous"
                                                       ELSE "collect"]
    BY <1>6 DEF js_GC, Goto
  <2>2. QED
    BY <1>0, <1>3, <1>4, <2>1, JsScopeLockAssumption
<1>7. QED
  BY <1>5, <1>6

\* The steps of a thread that waits for a collection or makes one.
LEMMA GCGoesOn ==
  ASSUME RequestInv, NEW c \in Contexts,
         OtherGCEnds(c) \/ Rendezvous(c) \/ GCEnds(c)
  PROVE  RequestInv'
<1> USE DEF RequestInv, OutsidePlaces, InsidePlaces, SuspendedPlaces
<1>comes. ASSUME at[c] \in SuspendedPlaces, at' = [at EXCEPT ![c] = "idle"],
                 requestDepth' = requestDepth,
                 requestCount' = requestCount + Debit(c)
          PROVE  requestCount' = Cardinality(Running')
  <2>1. c \notin Running
        /\ Running' = IF requestDepth[c] = 1 THEN Running \cup {c} ELSE Running
    BY <1>comes DEF Running
  <2>2. QED
    BY <1>comes, <2>1, RunningCounts, RunningFinite DEF Debit
<1>1. CASE OtherGCEnds(c)
  <2>1. /\ at[c] = "gcwait" /\ at' = [at EXCEPT ![c] = "idle"]
        /\ requestDepth' = requestDepth /\ requestCount' = requestCount + Debit(c)
        /\ gcLevel = 0 /\ UNCHANGED <<gcLevel, gcThread>>
    BY <1>1 DEF OtherGCEnds, Awake, Goto, GCDone, gc
  <2>2. gcThread = None /\ requestCount' = Cardinality(Running')
    BY <2>1, <1>comes
  <2>3. QED
    BY <2>1, <2>2, JsScopeLockAssumption
<1>2. CASE Rendezvous(c)
  <2>1. /\ at[c] = "rendezvous" /\ at' = [at EXCEPT ![c] = "collect"]
        /\ requestCount = 0
        /\ UNCHANGED <<requestDepth, requestCount, gcLevel, gcThread>>
    BY <1>2 DEF Rendezvous, Awake, Goto, requests, gc
  <2>2. Running' = Running
    BY <2>1 DEF Running
  <2>3. QED
    BY <2>1, <2>2
<1>3. CASE GCEnds(c)
  <2>1. /\ at[c] = "collect" /\ requestDepth' = requestDepth /\ gcThread = c
        /\ gcLevel > 0
    BY <1>3, JsScopeLockAssumption DEF GCEnds, Awake
  <2>2. CASE gcLevel > 1 \/ gcPoke
    <3>1. UNCHANGED <<requestCount, gcThread, at>> /\ gcLevel' = 1
      BY <1>3, <2>2 DEF GCEnds
    <3>2. Running' = Running
      BY <2>1, <3>1 DEF Running
    <3>3. QED
      BY <2>1, <3>1, <3>2
  <2>3. CASE ~(gcLevel > 1 \/ gcPoke)
    <3>1. /\ gcLevel' = 0 /\ requestCount' = requestCount + Debit(c)
          /\ gcThread' = None /\ at' = [at EXCEPT ![c] = "idle"]
      BY <1>3, <2>3 DEF GCEnds, Goto
    <3>2. requestCount' = Cardinality(Running')
      BY <2>1, <3>1, <1>comes
    <3>3. QED
      BY <2>1, <3>1, <3>2, JsScopeLockAssumption
  <2>4. QED
    BY <2>2, <2>3
<1>4. QED
  BY <1>1, <1>2, <1>3

LEMMA RequestInvQuiet ==
  ASSUME RequestInv,
         UNCHANGED <<at, requestDepth, requestCount, gcLevel, gcThread>>
  PROVE  RequestInv'
<1>1. Running' = Running
  BY DEF Running
<1>2. QED
  BY <1>1 DEF RequestInv

\* The steps of a thread that locks, unlocks or changes objects.
LEMMA LockingMovesInside ==
  ASSUME RequestInv, NEW c \in Contexts,
         \/ \E o \in Objects : AccessObject(c, o)
         \/ \E o \in Objects, p \in Objects \cup {None} :
              js_SetProtoOrParent(c, o, p)
         \/ js_GetMutableScope(c) \/ js_UnlockObj(c)
         \/ Relock(c) \/ ClaimOwner(c) \/ ClaimShared(c) \/ Acquire(c)
         \/ SetSlotAgain(c) \/ Walk(c) \/ NestLocks(c) \/ MoveToScope(c)
         \/ SetInPlace(c) \/ SetUnlocks(c) \/ SetSlotDone(c)
  PROVE  RequestInv'
<1>1. /\ at[c] \in InsidePlaces \cup {"idle"} /\ requestDepth[c] = 1
      /\ UNCHANGED <<requestDepth, requestCount, gcLevel, gcThread>>
  <2> USE DEF RequestInv, InsidePlaces, Awake, requests, gc
  <2>1. CASE \/ \E o \in Objects : AccessObject(c, o)
             \/ \E o \in Objects, p \in Objects \cup {None} :
                  js_SetProtoOrParent(c, o, p)
    <3>1. Awake(c, "idle") /\ requestDepth[c] > 0
      BY <2>1 DEF AccessObject, js_SetProtoOrParent
    <3>2. UNCHANGED <<requests, gc>>
      BY <2>1 DEF AccessObject, js_SetProtoOrParent, SetSlot
    <3>3. QED
      BY <3>1, <3>2
  <2>2. CASE Relock(c) \/ ClaimOwner(c) \/ ClaimShared(c) \/ Acquire(c)
    BY <2>2 DEF Relock, ClaimOwner, ClaimShared, Acquire
  <2>3. CASE js_GetMutableScope(c) \/ js_UnlockObj(c) \/ SetSlotAgain(c)
    BY <2>3 DEF js_GetMutableScope, js_UnlockObj, SetSlotAgain, SetSlot
  <2>4. CASE Walk(c) \/ NestLocks(c) \/ MoveToScope(c)
    BY <2>4 DEF Walk, NestLocks, MoveToScope
  <2>5. CASE SetInPlace(c) \/ SetUnlocks(c) \/ SetSlotDone(c)
    BY <2>5 DEF SetInPlace, SetUnlocks, SetSlotDone
  <2>6. QED
    BY <2>1, <2>2, <2>3, <2>4, <2>5
<1>2. at' = at \/ \E l \in InsidePlaces \cup {"idle"} : at' = [at EXCEPT ![c] = l]
  <2> USE DEF InsidePlaces, Goto, JS_LOCK_OBJ, js_LockObj, LockNext, Settle
  <2>1. CASE \/ \E o \in Objects : AccessObject(c, o)
             \/ Relock(c) \/ Acquire(c)
    BY <2>1 DEF AccessObject, Relock, Acquire
  <2>2. CASE ClaimOwner(c) \/ ClaimShared(c)
    BY <2>2 DEF ClaimOwner, ClaimShared
  <2>3. CASE \/ \E o \in Objects, p \in Objects \cup {None} :
                   js_SetProtoOrParent(c, o, p)
             \/ SetSlotAgain(c)
    BY <2>3 DEF js_SetProtoOrParent, SetSlotAgain, SetSlot
  <2>4. CASE Walk(c) \/ NestLocks(c)
    BY <2>4 DEF Walk, NestLocks
  <2>5. CASE \/ js_GetMutableScope(c) \/ js_UnlockObj(c) \/ MoveToScope(c)
             \/ SetInPlace(c) \/ SetUnlocks(c) \/ SetSlotDone(c)
    BY <2>5 DEF js_GetMutableScope, js_UnlockObj, MoveToScope, SetInPlace,
       SetUnlocks, SetSlotDone, thread
  <2>6. QED
    BY <2>1, <2>2, <2>3, <2>4, <2>5
<1>3. QED
  BY <1>1, <1>2, MovesInside, RequestInvQuiet

LEMMA RequestInvStep ==
  ASSUME RequestInv, Next, program \in Programs
  PROVE  RequestInv'
<1> PICK c \in Contexts : Call(c) \/ Wait(c) \/ Continue(c) \/ JS_EndRequest(c)
  BY DEF Next
<1> USE DEF Awake, Goto
<1>1. CASE JS_BeginRequest(c)
  <2>1. CASE GCDone
    <3>1. /\ at[c] = "idle" /\ requestDepth[c] = 0 /\ "idle" \in {"idle"}
          /\ at' = [at EXCEPT ![c] = "idle"]
          /\ requestDepth' = [requestDepth EXCEPT ![c] = 1]
          /\ requestCount' = requestCount + 1 /\ UNCHANGED <<gcLevel, gcThread>>
      BY <1>1, <2>1 DEF JS_BeginRequest, EnterRequest, gc
    <3>2. QED
      BY <2>1, <3>1, StartsRunning DEF RequestInv, OutsidePlaces
  <2>2. CASE ~GCDone
    <3>1. /\ at[c] = "idle" /\ requestDepth[c] = 0
          /\ at' = [at EXCEPT ![c] = "begin"] /\ "begin" \in OutsidePlaces
          /\ UNCHANGED <<requestDepth, requestCount, gcLevel, gcThread>>
      BY <1>1, <2>2 DEF JS_BeginRequest, gc, OutsidePlaces
    <3>2. QED
      BY <3>1, MovesOutside
  <2>3. QED
    BY <2>1, <2>2
<1>2. CASE RequestBegins(c) \/ YieldReturns(c) \/ SetSlotResumes(c)
           \/ ClaimResumes(c)
  <2>1. /\ GCDone /\ at[c] \in {"begin", "yielded", "resume", "wait"}
        /\ requestDepth' = [requestDepth EXCEPT ![c] = 1]
        /\ requestCount' = requestCount + 1 /\ UNCHANGED <<gcLevel, gcThread>>
    BY <1>2 DEF RequestBegins, YieldReturns, SetSlotResumes, ClaimResumes,
       EnterRequest, gc
  <2>2. PICK l \in InsidePlaces \cup {"idle"} : at' = [at EXCEPT ![c] = l]
    BY <1>2 DEF RequestBegins, YieldReturns, SetSlotResumes, ClaimResumes,
       EnterRequest, InsidePlaces
  <2>3. QED
    BY <2>1, <2>2, StartsRunning DEF RequestInv, OutsidePlaces
<1>3. CASE JS_EndRequest(c) \/ SetSlotSuspends(c) \/ ClaimWaits(c)
  <2>1. /\ at[c] \in InsidePlaces \cup {"idle"} /\ requestDepth[c] = 1
        /\ requestDepth' = [requestDepth EXCEPT ![c] = 0]
        /\ requestCount' = requestCount - 1 /\ UNCHANGED <<gcLevel, gcThread>>
    BY <1>3 DEF JS_EndRequest, SetSlotSuspends, ClaimWaits, LeaveRequest, gc,
       RequestInv, InsidePlaces
  <2>2. PICK l \in {"idle"} \cup OutsidePlaces : at' = [at EXCEPT ![c] = l]
    <3>1. CASE JS_EndRequest(c)
      <4>1. at' = [at EXCEPT ![c] = "idle"]
        BY <3>1 DEF JS_EndRequest, RequestInv
      <4>2. QED
        BY <4>1
    <3>2. CASE SetSlotSuspends(c) \/ ClaimWaits(c)
      BY <3>2 DEF SetSlotSuspends, ClaimWaits, OutsidePlaces
    <3>3. QED
      BY <1>3, <3>1, <3>2
  <2>3. l # "yielded"
    BY DEF OutsidePlaces
  <2>4. QED
    BY <2>1, <2>2, <2>3, StopsRunning
<1>4. CASE JS_YieldRequest(c)
  <2>1. /\ at[c] = "idle" /\ requestDepth[c] = 1
        /\ requestDepth' = [requestDepth EXCEPT ![c] = 1]
        /\ at' = [at EXCEPT ![c] = "yielded"]
        /\ requestCount' = requestCount - 1 /\ UNCHANGED <<gcLevel, gcThread>>
    BY <1>4 DEF JS_YieldRequest, gc, RequestInv
  <2>2. QED
    BY <2>1, StopsRunning
<1>5. CASE SetSlotWaits(c)
  <2>1. /\ at[c] = "busy" /\ at' = [at EXCEPT ![c] = "resume"]
        /\ "busy" \in OutsidePlaces /\ "resume" \in OutsidePlaces
        /\ UNCHANGED <<requestDepth, requestCount, gcLevel, gcThread>>
    BY <1>5 DEF SetSlotWaits, requests, gc, OutsidePlaces
  <2>2. QED
    BY <2>1, MovesOutside DEF RequestInv
<1>6. CASE AwaitGC(c) \/ AwaitRequests(c) \/ ClaimWaitsOn(c)
  BY <1>6, RequestInvQuiet DEF AwaitGC, AwaitRequests, ClaimWaitsOn, requests, gc
<1>7. CASE js_GC(c)
  BY <1>7, GCStarts
<1>8. CASE OtherGCEnds(c) \/ Rendezvous(c) \/ GCEnds(c)
  BY <1>8, GCGoesOn
<1>9. program[c].uses \subseteq Objects
  BY JsScopeLockAssumption
<1>10. QED
  BY <1>1, <1>2, <1>3, <1>4, <1>5, <1>6, <1>7, <1>8, <1>9, LockingMovesInside
     DEF Call, Wait, Continue

LEMMA RequestInvHolds == Spec => [](program \in Programs /\ RequestInv)
<1>1. Init => program \in Programs
  BY DEF Init
<1>2. program \in Programs /\ [Next]_vars => (program \in Programs)'
  <2> SUFFICES ASSUME [Next]_vars PROVE program' = program
    OBVIOUS
  <2>1. ASSUME NEW c \in Contexts, Call(c) PROVE program' = program
    BY <2>1 DEF Call, JS_BeginRequest, EnterRequest, JS_YieldRequest, js_GC,
       AccessObject, js_SetProtoOrParent, SetSlot, js_GetMutableScope
  <2>2. ASSUME NEW c \in Contexts, Wait(c) \/ JS_EndRequest(c)
        PROVE  program' = program
    BY <2>2 DEF Wait, AwaitGC, AwaitRequests, ClaimWaitsOn, JS_EndRequest
  <2>3. ASSUME NEW c \in Contexts, Continue(c) PROVE program' = program
    BY <2>3 DEF Continue, RequestBegins, EnterRequest, YieldReturns,
       OtherGCEnds, Rendezvous, GCEnds, Relock, ClaimOwner, ClaimShared,
       ClaimWaits, ClaimResumes, Acquire, js_UnlockObj, SetSlotSuspends,
       SetSlotWaits, SetSlotResumes, SetSlotAgain, SetSlot, Walk, NestLocks,
       MoveToScope, SetInPlace, SetUnlocks, SetSlotDone
  <2>4. QED
    BY <2>1, <2>2, <2>3 DEF Next, vars
<1>3. program \in Programs /\ RequestInv /\ [Next]_vars => RequestInv'
  BY RequestInvStep, RequestInvQuiet DEF vars, requests, gc, thread
<1>4. QED
  BY RequestInvAtFirst, <1>1, <1>2, <1>3, PTL DEF Spec

\* While js_GC marks and sweeps, no other thread runs in a request.
THEOREM CollectsAlone == Spec => []StopTheWorld
<1>1. RequestInv => StopTheWorld
  <2> SUFFICES ASSUME RequestInv, NEW g \in Contexts, NEW c \in Contexts,
                      at[g] = "collect", c # g
               PROVE  \/ at[c] \in OutsidePlaces \cup {"yielded", "gcwait"}
                      \/ at[c] = "idle" /\ requestDepth[c] = 0
    BY DEF StopTheWorld, OutsidePlaces
  <2>1. c \notin Running
    BY RunningFinite DEF RequestInv
  <2>2. at[c] \notin {"rendezvous", "collect"}
    BY DEF RequestInv
  <2>3. QED
    BY <2>1, <2>2
       DEF RequestInv, Running, OutsidePlaces, InsidePlaces, SuspendedPlaces
<1>2. QED
  BY RequestInvHolds, <1>1, PTL

-----------------------------------------------------------------------------
(* Scopes and who has locked them, as long as only prototypes are set      *)
(* whose scope is shared.                                                  *)

\* An object has a scope of its own or that of its prototype; a prototype
\* whose scope is its own never takes the scope of an object below it.
Tree ==
  /\ scopeOf \in [Objects -> Objects]
  /\ proto \in [Objects -> Objects \cup {None}]
  /\ \A o \in Objects : scopeOf[o] # o =>
       proto[o] = scopeOf[o] /\ scopeOf[scopeOf[o]] = scopeOf[o]
  /\ \A o \in Objects : scopeOf[o] = o /\ proto[o] # None =>
       scopeOf[proto[o]] # o

LockRecords ==
  [ownercx : Contexts \cup {None}, linked : BOOLEAN, count : Int,
   owner : Contexts \cup {None}]
LockTypes == lock \in [Objects -> LockRecords]

Stages == {"none", "access", "walk", "outer", "inner", "set"}
SetterStages == {"walk", "outer", "inner", "set"}
LockPlaces == {"claim", "wait", "acquire", "relock", "held"}

CallTypes ==
  /\ call \in [Contexts -> [stage : Stages, target : Objects \cup {None},
                            scope : Objects \cup {None},
                            obj : Objects \cup {None},
                            pobj : Objects \cup {None},
                            outer : Objects \cup {None}]]
  /\ held \in [Contexts -> SUBSET Objects]
  /\ scopeToShare \in [Contexts -> Objects \cup {None}]

Setter(c) ==
  \/ at[c] = "slotdone"
  \/ at[c] \in LockPlaces /\ call[c].stage \in SetterStages

\* What the local variables of a call say about the objects.
CallRight(c) ==
  LET k == call[c] IN
  /\ k.pobj # None => /\ scopeOf[k.pobj] = k.pobj
                      /\ lock[k.pobj].ownercx = None
                      /\ k.obj # k.pobj
  /\ at[c] \in {"setslot", "busy", "resume", "setagain"} => k.obj \in Objects
  /\ at[c] \in LockPlaces =>
       /\ k.stage # "none" /\ k.target \in Objects
       /\ k.stage \in SetterStages => k.obj \in Objects
       /\ k.stage = "walk" => k.pobj # None
       /\ k.stage = "outer" => k.target = k.obj
       /\ k.stage = "inner" =>
            /\ at[c] \in {"acquire", "held"}
            /\ k.pobj # None /\ k.target = k.pobj
            /\ at[c] = "acquire" => k.scope = k.pobj
            /\ k.outer \in Objects \ {k.obj, k.pobj}
            /\ scopeOf[k.obj] = k.outer
       /\ k.stage = "set" => at[c] = "held" /\ k.outer \in Objects
       /\ k.pobj # None /\ k.stage \in {"walk", "outer", "inner"} =>
            proto[k.pobj] # k.obj \/ (k.stage = "walk" /\ k.target = k.pobj)
  /\ at[c] \in {"claim", "wait", "acquire"} =>
       k.scope \in Objects /\ scopeOf[k.scope] = k.scope
  /\ at[c] = "acquire" => lock[k.scope].ownercx = None
  /\ scopeToShare[c] # None => at[c] = "wait"

\* The scopes that a thread has locked, from where it is in its call.
HeldRight(c) ==
  LET k == call[c] IN
  held[c] = CASE at[c] = "held" /\ k.stage = "inner" -> {k.outer, k.pobj}
              [] at[c] = "held" /\ k.stage = "set" -> {k.outer}
              [] at[c] = "held" /\ k.stage \notin {"inner", "set"} ->
                   {scopeOf[k.target]}
              [] at[c] = "acquire" /\ k.stage = "inner" -> {k.outer}
              [] OTHER -> {}

\* A thread that has locked a scope owns it, or has the lock of a shared one.
Has(c, s) ==
  \/ lock[s].ownercx = c
  \/ lock[s].ownercx = None /\ lock[s].owner = c

Locked(c) == \A s \in held[c] : scopeOf[s] = s /\ Has(c, s)

ContextRight(c) == CallRight(c) /\ HeldRight(c) /\ Locked(c)

OneSetter ==
  /\ \A c \in Contexts : Setter(c) => setSlotBusy
  /\ \A c, d \in Contexts : Setter(c) /\ Setter(d) => c = d

ScopeInv ==
  /\ Tree /\ LockTypes /\ CallTypes /\ OneSetter
  /\ \A c \in Contexts : ContextRight(c)

LEMMA ScopesExclusive == ScopeInv => Exclusive
BY JsScopeLockAssumption DEF ScopeInv, ContextRight, Locked, Has, Exclusive

\* What a step of c must grant the other threads: an object keeps a scope of
\* its own, and any scope unless c has locked it; a shared scope stays
\* shared; what others have locked remains theirs; only the setter changes
\* prototypes.
Grants(c) ==
  /\ \A d \in Contexts \ {c} :
       /\ at'[d] = at[d] /\ call'[d] = call[d] /\ held'[d] = held[d]
       /\ scopeToShare'[d] = scopeToShare[d]
       /\ \A s \in held[d] : Has(d, s)'
  /\ \A s \in Objects : scopeOf[s] = s =>
       /\ scopeOf'[s] = s
       /\ lock[s].ownercx = None => lock'[s].ownercx = None
  /\ \A o \in Objects : scopeOf'[o] # scopeOf[o] => scopeOf[o] \in held[c]
  /\ proto' = proto \/ Setter(c)

LEMMA OthersKept ==
  ASSUME ScopeInv, NEW c \in Contexts, Grants(c), NEW d \in Contexts, d # c
  PROVE  ContextRight(d)' /\ (Setter(d)' <=> Setter(d))
<1>0. /\ at'[d] = at[d] /\ call'[d] = call[d] /\ held'[d] = held[d]
      /\ scopeToShare'[d] = scopeToShare[d]
      /\ \A s \in held[d] : Has(d, s)'
  BY DEF Grants
<1>1. Setter(d)' <=> Setter(d)
  BY <1>0 DEF Setter
<1>2. \A o \in Objects : scopeOf[o] \in held[d] => scopeOf'[o] = scopeOf[o]
  BY ScopesExclusive DEF Grants, Exclusive
<1>3. Setter(d) => proto' = proto
  BY DEF Grants, ScopeInv, OneSetter
<1>4. /\ ContextRight(d) /\ CallTypes /\ Tree
      /\ \A s \in Objects : scopeOf[s] = s =>
           /\ scopeOf'[s] = s
           /\ lock[s].ownercx = None => lock'[s].ownercx = None
  BY DEF ScopeInv, Grants
<1>5. HeldRight(d)'
  BY <1>0, <1>2, <1>4
     DEF ContextRight, HeldRight, CallRight, LockPlaces, CallTypes, Stages
<1>6. Locked(d)'
  BY <1>0, <1>4 DEF ContextRight, Locked, CallTypes
<1>7. CallRight(d)'
  <2> DEFINE k == call[d]
  <2>1. k.pobj \in Objects \cup {None} /\ k.scope \in Objects \cup {None}
    BY <1>4 DEF CallTypes
  <2>2. at[d] \in LockPlaces /\ k.stage = "inner" => scopeOf'[k.obj] = k.outer
    BY <1>2, <1>4 DEF ContextRight, CallRight, HeldRight, CallTypes, LockPlaces,
       SetterStages
  <2>3. at[d] \in LockPlaces /\ k.stage \in SetterStages => proto' = proto
    BY <1>3 DEF Setter
  <2>4. QED
    BY <1>0, <1>4, <2>1, <2>2, <2>3
       DEF ContextRight, CallRight, LockPlaces, SetterStages
<1>8. QED
  BY <1>1, <1>5, <1>6, <1>7 DEF ContextRight

LEMMA StepKeeps ==
  ASSUME ScopeInv, NEW c \in Contexts, Grants(c),
         Tree', LockTypes', CallTypes', ContextRight(c)',
         Setter(c)' => setSlotBusy' /\ (Setter(c) \/ ~setSlotBusy),
         setSlotBusy => setSlotBusy' \/ Setter(c)
  PROVE  ScopeInv'
<1>1. \A d \in Contexts \ {c} : ContextRight(d)' /\ (Setter(d)' <=> Setter(d))
  BY OthersKept
<1>2. OneSetter'
  BY <1>1 DEF ScopeInv, OneSetter
<1>3. QED
  BY <1>1, <1>2 DEF ScopeInv

LEMMA ScopeInvAtFirst == Init => ScopeInv
<1> SUFFICES ASSUME Init PROVE ScopeInv
  OBVIOUS
<1> USE JsScopeLockAssumption DEF Init
<1>1. Tree
  BY DEF Tree
<1>2. LockTypes
  BY DEF LockTypes, LockRecords, NewScope, SharedScope
<1>3. CallTypes
  BY DEF CallTypes, NoCall, Stages
<1>4. OneSetter
  BY DEF OneSetter, Setter, LockPlaces
<1>5. \A c \in Contexts : ContextRight(c)
  BY DEF ContextRight, CallRight, HeldRight, Locked, NoCall, LockPlaces
<1>6. QED
  BY <1>1, <1>2, <1>3, <1>4, <1>5 DEF ScopeInv

-----------------------------------------------------------------------------
(* Steps that touch no scope.                                              *)

FreePlaces == {"idle", "begin", "yielded", "gcwait", "rendezvous", "collect"}
AgainPlaces == {"setslot", "busy", "resume", "setagain"}

LEMMA NoScopeTouched ==
  ASSUME ScopeInv, RequestInv, NEW c \in Contexts,
         UNCHANGED <<scopeOf, proto, lock, call, held, setSlotBusy,
                     scopeToShare>>,
         \/ at' = at
         \/ /\ at[c] \in FreePlaces
            /\ \E l \in FreePlaces : at' = [at EXCEPT ![c] = l]
         \/ /\ at[c] \in AgainPlaces
            /\ \E l \in AgainPlaces : at' = [at EXCEPT ![c] = l]
  PROVE  ScopeInv'
<1>1. Grants(c)
  BY DEF Grants, ScopeInv, ContextRight, Locked, Has, RequestInv
<1>2. Tree' /\ LockTypes' /\ CallTypes'
  BY DEF ScopeInv, Tree, LockTypes, CallTypes
<1>3. ContextRight(c)'
  <2>1. ContextRight(c) /\ c \in DOMAIN at
    BY DEF ScopeInv, RequestInv
  <2>2. CallRight(c)'
    BY <2>1 DEF ContextRight, CallRight, FreePlaces, AgainPlaces, LockPlaces
  <2>3. HeldRight(c)'
    BY <2>1 DEF ContextRight, HeldRight, FreePlaces, AgainPlaces
  <2>4. Locked(c)'
    BY <2>1 DEF ContextRight, Locked, Has
  <2>5. QED
    BY <2>2, <2>3, <2>4 DEF ContextRight
<1>4. Setter(c)' <=> Setter(c)
  BY DEF Setter, LockPlaces, FreePlaces, AgainPlaces, RequestInv
<1>5. QED
  BY <1>1, <1>2, <1>3, <1>4, StepKeeps DEF ScopeInv, OneSetter

\* Nobody has locked a scope that is shared because its owner leaves.
LEMMA LeaveKeeps ==
  ASSUME ScopeInv, RequestInv, NEW c \in Contexts,
         JS_EndRequest(c) \/ SetSlotSuspends(c)
  PROVE  ScopeInv'
<1>0. /\ lock' = [s \in Objects |->
                    IF s \in ToShare(c) THEN SharedScope ELSE lock[s]]
      /\ UNCHANGED <<scopeOf, proto, call, held, setSlotBusy, scopeToShare>>
      /\ \/ at[c] = "idle" /\ at' = at
         \/ at[c] = "setslot" /\ at' = [at EXCEPT ![c] = "busy"]
  BY DEF JS_EndRequest, SetSlotSuspends, LeaveRequest, Awake, Goto, heap, setSlot
<1> USE DEF ScopeInv
<1>1. held[c] = {}
  BY <1>0 DEF ContextRight, HeldRight
<1>2. Grants(c)
  <2>1. \A d \in Contexts \ {c} : \A s \in held[d] : Has(d, s)'
    BY <1>0, JsScopeLockAssumption
       DEF ContextRight, Locked, Has, ToShare, LockTypes, CallTypes
  <2>2. \A s \in Objects : lock[s].ownercx = None => lock'[s].ownercx = None
    BY <1>0 DEF SharedScope, NewScope
  <2>3. QED
    BY <1>0, <2>1, <2>2 DEF Grants, RequestInv
<1>3. Tree' /\ CallTypes'
  BY <1>0 DEF Tree, CallTypes
<1>4. LockTypes'
  BY <1>0 DEF LockTypes, LockRecords, SharedScope, NewScope
<1>5. ContextRight(c)'
  <2>1. CallRight(c)'
    BY <1>0 DEF ContextRight, CallRight, LockPlaces, RequestInv, SharedScope,
       NewScope, CallTypes
  <2>2. HeldRight(c)' /\ Locked(c)'
    BY <1>0, <1>1 DEF HeldRight, Locked, RequestInv
  <2>3. QED
    BY <2>1, <2>2 DEF ContextRight
<1>6. Setter(c)' <=> Setter(c)
  BY <1>0 DEF Setter, LockPlaces, RequestInv
<1>7. QED
  BY <1>0, <1>2, <1>3, <1>4, <1>5, <1>6, StepKeeps DEF OneSetter

-----------------------------------------------------------------------------
(* Locking an object.                                                      *)

CallRecords ==
  [stage : Stages, target : Objects \cup {None}, scope : Objects \cup {None},
   obj : Objects \cup {None}, pobj : Objects \cup {None},
   outer : Objects \cup {None}]

\* A call that can begin to lock its target: see CallRight.
Sound(k) ==
  /\ k \in CallRecords
  /\ k.stage \in {"access", "walk", "outer", "inner"} /\ k.target \in Objects
  /\ k.pobj # None => /\ scopeOf[k.pobj] = k.pobj
                      /\ lock[k.pobj].ownercx = None
                      /\ k.obj # k.pobj
  /\ k.stage \in SetterStages => k.obj \in Objects
  /\ k.stage = "walk" => k.pobj # None
  /\ k.stage = "outer" => k.target = k.obj
  /\ k.stage = "inner" =>
       /\ k.pobj # None /\ k.target = k.pobj
       /\ k.outer \in Objects \ {k.obj, k.pobj} /\ scopeOf[k.obj] = k.outer
  /\ k.pobj # None /\ k.stage \in SetterStages =>
       proto[k.pobj] # k.obj \/ (k.stage = "walk" /\ k.target = k.pobj)

\* The scopes a thread has while it locks the target of k.
Before(k) == IF k.stage = "inner" THEN {k.outer} ELSE {}

LEMMA ScopeIsOwn ==
  ASSUME ScopeInv, NEW o \in Objects
  PROVE  scopeOf[o] \in Objects /\ scopeOf[scopeOf[o]] = scopeOf[o]
BY DEF ScopeInv, Tree

\* js_LockObj of a sound call; the step may unlock another scope first.
LEMMA LockObjBegins ==
  ASSUME ScopeInv, RequestInv, NEW c \in Contexts, at[c] # "wait",
         NEW k, Sound(k), js_LockObj(c, k),
         held' = [held EXCEPT ![c] = Before(k)],
         UNCHANGED <<scopeOf, proto, scopeToShare>>,
         \A s \in Objects : lock'[s].ownercx = lock[s].ownercx,
         \A d \in Contexts \ {c} : \A s \in held[d] : Has(d, s)',
         \A s \in Before(k) : scopeOf[s] = s /\ Has(c, s)'
  PROVE  /\ Grants(c) /\ Tree' /\ CallTypes' /\ ContextRight(c)'
         /\ at'[c] \in LockPlaces /\ call'[c].stage = k.stage
<1> DEFINE s == scopeOf[k.target]
           kk == [k EXCEPT !.scope = s]
<1>0. /\ s \in Objects /\ scopeOf[s] = s
      /\ call' = [call EXCEPT ![c] = kk]
      /\ at' = [at EXCEPT ![c] = IF lock[s].ownercx # None THEN "claim"
                                                         ELSE "acquire"]
  BY ScopeIsOwn DEF js_LockObj, Goto, Sound
<1>1. Grants(c)
  BY <1>0 DEF Grants, ScopeInv, CallTypes, RequestInv
<1>2. kk \in CallRecords /\ kk.scope = s /\ kk.stage = k.stage
      /\ kk.target = k.target /\ kk.obj = k.obj /\ kk.pobj = k.pobj
      /\ kk.outer = k.outer
  BY <1>0 DEF Sound, CallRecords
<1>3. Tree' /\ CallTypes'
  BY <1>0, <1>2 DEF ScopeInv, Tree, CallTypes, CallRecords, Before, Sound
<1>4. call'[c] = kk /\ at'[c] \in {"claim", "acquire"} /\ held'[c] = Before(k)
      /\ scopeToShare'[c] = None
  BY <1>0 DEF ScopeInv, CallTypes, RequestInv, ContextRight, CallRight
<1>5. /\ at'[c] = "acquire" <=> lock[s].ownercx = None
      /\ k.stage = "inner" => s = k.pobj /\ at'[c] = "acquire"
  BY <1>0 DEF Sound, RequestInv
<1>6. CallRight(c)'
  BY <1>0, <1>2, <1>4, <1>5 DEF CallRight, Sound, SetterStages, LockPlaces, CallRecords
<1>7. HeldRight(c)'
  BY <1>2, <1>4, <1>5 DEF HeldRight, Before
<1>8. Locked(c)'
  BY <1>4 DEF Locked
<1>9. QED
  BY <1>1, <1>2, <1>3, <1>4, <1>6, <1>7, <1>8 DEF ContextRight, LockPlaces

\* JS_LOCK_OBJ of a sound call.
LEMMA LockBegins ==
  ASSUME ScopeInv, RequestInv, NEW c \in Contexts, at[c] # "wait",
         NEW k, Sound(k), JS_LOCK_OBJ(c, k, Before(k)),
         UNCHANGED <<scopeOf, proto, scopeToShare>>,
         \A s \in Objects : lock'[s].ownercx = lock[s].ownercx,
         \A d \in Contexts \ {c} : \A s \in held[d] : Has(d, s)',
         \A s \in Before(k) : scopeOf[s] = s /\ Has(c, s)'
  PROVE  /\ Grants(c) /\ Tree' /\ CallTypes' /\ ContextRight(c)'
         /\ at'[c] \in LockPlaces /\ call'[c].stage = k.stage
<1> DEFINE s == scopeOf[k.target]
<1>0. s \in Objects /\ scopeOf[s] = s
  BY ScopeIsOwn DEF Sound
<1>1. CASE lock[s].ownercx = c
  <2>0. /\ call' = [call EXCEPT ![c] = k] /\ at' = [at EXCEPT ![c] = "held"]
        /\ held' = [held EXCEPT ![c] = Before(k) \cup {s}]
        /\ k.stage # "inner"
    BY <1>1, JsScopeLockAssumption DEF JS_LOCK_OBJ, Goto, Sound
  <2>1. Grants(c)
    BY <2>0 DEF Grants, ScopeInv, CallTypes, RequestInv
  <2>2. Tree' /\ CallTypes'
    BY <1>0, <2>0 DEF ScopeInv, Tree, CallTypes, CallRecords, Before, Sound
  <2>3. call'[c] = k /\ at'[c] = "held" /\ held'[c] = {s}
        /\ scopeToShare'[c] = None
    BY <2>0 DEF ScopeInv, CallTypes, RequestInv, ContextRight, CallRight, Before
  <2>4. CallRight(c)'
    BY <2>0, <2>3 DEF CallRight, Sound, SetterStages, LockPlaces, CallRecords
  <2>5. HeldRight(c)'
    BY <2>0, <2>3 DEF HeldRight, Sound
  <2>6. Locked(c)'
    BY <1>0, <1>1, <2>3 DEF Locked, Has
  <2>7. QED
    BY <2>1, <2>2, <2>3, <2>4, <2>5, <2>6 DEF ContextRight, LockPlaces
<1>2. CASE lock[s].ownercx # c
  <2>1. held' = [held EXCEPT ![c] = Before(k)] /\ js_LockObj(c, k)
    BY <1>2 DEF JS_LOCK_OBJ
  <2>2. QED
    BY <2>1, LockObjBegins
<1>3. QED
  BY <1>1, <1>2

\* To unlock a scope changes no owner and takes nothing from others.
LEMMA UnlockedRight ==
  ASSUME ScopeInv, NEW c \in Contexts, NEW s \in held[c], lock' = Unlocked(s, c)
  PROVE  /\ LockTypes'
         /\ \A t \in Objects : lock'[t].ownercx = lock[t].ownercx
         /\ \A d \in Contexts \ {c} : \A t \in held[d] : Has(d, t)'
<1>0. s \in Objects /\ Has(c, s) /\ LockTypes /\ CallTypes
  BY DEF ScopeInv, CallTypes, ContextRight, Locked
<1>1. LockTypes'
  <2>1. \A r \in LockRecords :
          /\ [r EXCEPT !.ownercx = c] \in LockRecords
          /\ [r EXCEPT !.count = r.count - 1] \in LockRecords
    BY DEF LockRecords
  <2>2. SharedScope \in LockRecords
    BY DEF LockRecords, SharedScope, NewScope
  <2>3. \E r \in LockRecords : lock' = [lock EXCEPT ![s] = r]
    <3>1. lock[s] \in LockRecords
      BY <1>0 DEF LockTypes
    <3>2. CASE lock[s].ownercx # None
      BY <2>1, <3>1, <3>2 DEF Unlocked
    <3>3. CASE lock[s].ownercx = None /\ lock[s].owner # c
      BY <3>1, <3>3 DEF Unlocked
    <3>4. CASE lock[s].ownercx = None /\ lock[s].owner = c
      <4>1. CASE lock[s].count > 1
        BY <2>1, <3>1, <3>4, <4>1 DEF Unlocked
      <4>2. CASE ~(lock[s].count > 1)
        BY <2>2, <3>4, <4>2 DEF Unlocked
      <4>3. QED
        BY <4>1, <4>2
    <3>5. QED
      BY <3>2, <3>3, <3>4
  <2>4. QED
    BY <1>0, <2>3 DEF LockTypes
<1>2. \A t \in Objects : lock'[t].ownercx = lock[t].ownercx
  BY <1>0, JsScopeLockAssumption
     DEF LockTypes, LockRecords, Unlocked, SharedScope, NewScope, Has
<1>3. \A t \in Objects : t # s => lock'[t] = lock[t]
  BY <1>0 DEF LockTypes, Unlocked
<1>4. \A d \in Contexts \ {c} : \A t \in held[d] : t # s /\ t \in Objects
  BY <1>0, ScopesExclusive DEF Exclusive, CallTypes
<1>5. QED
  BY <1>1, <1>2, <1>3, <1>4 DEF ScopeInv, ContextRight, Locked, Has

\* What others have locked remains theirs when no lock changes.
LEMMA SameLocks ==
  ASSUME ScopeInv, lock' = lock
  PROVE  /\ LockTypes' /\ \A s \in Objects : lock'[s].ownercx = lock[s].ownercx
         /\ \A d \in Contexts : \A s \in held[d] : Has(d, s)'
BY DEF ScopeInv, LockTypes, ContextRight, Locked, Has

LEMMA AccessKeeps ==
  ASSUME ScopeInv, RequestInv, NEW c \in Contexts, NEW o \in Objects,
         AccessObject(c, o)
  PROVE  ScopeInv'
<1> DEFINE k == [NoCall EXCEPT !.stage = "access", !.target = o]
<1>0. /\ at[c] = "idle" /\ JS_LOCK_OBJ(c, k, {})
      /\ UNCHANGED <<scopeOf, proto, scopeToShare, lock, setSlotBusy>>
  BY DEF AccessObject, Awake, heap, requests, setSlot
<1>1. Sound(k) /\ Before(k) = {} /\ k.stage = "access"
  BY DEF Sound, Before, NoCall, CallRecords, Stages, SetterStages
<1> HIDE DEF k
<1>2. /\ Grants(c) /\ Tree' /\ CallTypes' /\ ContextRight(c)' /\ LockTypes'
      /\ at'[c] \in LockPlaces /\ call'[c].stage = "access"
  BY <1>0, <1>1, LockBegins, SameLocks
<1>3. ~Setter(c)'
  BY <1>2 DEF Setter, LockPlaces, SetterStages
<1>4. QED
  BY <1>0, <1>2, <1>3, StepKeeps

LEMMA RelockKeeps ==
  ASSUME ScopeInv, RequestInv, NEW c \in Contexts, Relock(c)
  PROVE  ScopeInv'
<1> DEFINE k == call[c]
<1>0. /\ at[c] = "relock" /\ js_LockObj(c, k)
      /\ UNCHANGED <<scopeOf, proto, scopeToShare, lock, held, setSlotBusy>>
  BY DEF Relock, Awake, heap, requests, setSlot
<1>1. /\ Sound(k) /\ Before(k) = {} /\ held[c] = {}
      /\ Setter(c) <=> k.stage \in SetterStages
  BY <1>0 DEF ScopeInv, ContextRight, CallRight, HeldRight, CallTypes, Sound,
     Before, CallRecords, Stages, SetterStages, LockPlaces, Setter
<1>2. held' = [held EXCEPT ![c] = Before(k)]
  BY <1>0, <1>1 DEF ScopeInv, CallTypes
<1>3. /\ Grants(c) /\ Tree' /\ CallTypes' /\ ContextRight(c)' /\ LockTypes'
      /\ at'[c] \in LockPlaces /\ call'[c].stage = k.stage
  BY <1>0, <1>1, <1>2, LockObjBegins, SameLocks
<1>4. Setter(c)' <=> Setter(c)
  BY <1>1, <1>3 DEF Setter, LockPlaces
<1>5. QED
  BY <1>0, <1>3, <1>4, StepKeeps DEF ScopeInv, OneSetter

\* A prototype that may be set has a shared scope of its own, and keeps it.
LEMMA SetSlotKeeps ==
  ASSUME ScopeInv, RequestInv, NEW c \in Contexts,
         at[c] \in {"idle", "setagain"},
         NEW o \in Objects, NEW p \in Objects \cup {None}, o # p,
         p # None => scopeOf[p] = p /\ lock[p].ownercx = None,
         SetSlot(c, o, p)
  PROVE  ScopeInv'
<1> DEFINE k == [NoCall EXCEPT !.stage = IF p = None THEN "outer" ELSE "walk",
                               !.target = IF p = None THEN o ELSE p,
                               !.obj = o, !.pobj = p]
           w == [NoCall EXCEPT !.obj = o, !.pobj = p]
<1>0. /\ setSlotBusy' /\ held[c] = {} /\ scopeToShare[c] = None
      /\ UNCHANGED <<scopeOf, proto, scopeToShare, lock>>
  BY DEF SetSlot, heap, requests, ScopeInv, ContextRight, HeldRight, CallRight
<1>1. CASE setSlotBusy
  <2>0. call' = [call EXCEPT ![c] = w] /\ at' = [at EXCEPT ![c] = "setslot"]
        /\ held' = held
    BY <1>1 DEF SetSlot, Goto
  <2>1. w \in CallRecords /\ w.obj = o /\ w.pobj = p
    BY DEF NoCall, CallRecords, Stages
  <2> HIDE DEF w
  <2>2. Grants(c)
    BY <1>0, <2>0, SameLocks DEF Grants, ScopeInv, CallTypes, RequestInv
  <2>3. Tree' /\ CallTypes' /\ LockTypes'
    BY <1>0, <2>0, <2>1, SameLocks DEF ScopeInv, Tree, CallTypes, CallRecords
  <2>4. call'[c] = w /\ at'[c] = "setslot" /\ held'[c] = {}
        /\ scopeToShare'[c] = None
    BY <1>0, <2>0 DEF ScopeInv, CallTypes, RequestInv
  <2>5. ContextRight(c)'
    BY <1>0, <2>1, <2>4
       DEF ContextRight, CallRight, HeldRight, Locked, LockPlaces
  <2>6. ~Setter(c)'
    BY <2>4 DEF Setter, LockPlaces
  <2>7. QED
    BY <1>0, <2>2, <2>3, <2>5, <2>6, StepKeeps
<1>2. CASE ~setSlotBusy
  <2>0. JS_LOCK_OBJ(c, k, {})
    BY <1>2 DEF SetSlot, LockNext
  <2>1. Sound(k) /\ Before(k) = {}
    BY DEF Sound, Before, NoCall, CallRecords, Stages, SetterStages
  <2> HIDE DEF k
  <2>2. /\ Grants(c) /\ Tree' /\ CallTypes' /\ ContextRight(c)' /\ LockTypes'
    BY <1>0, <2>0, <2>1, LockBegins, SameLocks
  <2>3. QED
    BY <1>0, <1>2, <2>2, StepKeeps
<1>3. QED
  BY <1>1, <1>2

\* The search for a cycle has seen the prototype of pobj before it goes on.
LEMMA WalkKeeps ==
  ASSUME ScopeInv, RequestInv, NEW c \in Contexts, Walk(c)
  PROVE  ScopeInv'
<1> DEFINE k == call[c]
           s == scopeOf[k.target]
           obj2 == proto[k.target]
<1>0. /\ at[c] = "held" /\ k.stage = "walk" /\ lock' = Unlocked(s, c)
      /\ UNCHANGED <<scopeOf, proto, scopeToShare, setSlotBusy>>
  BY DEF Walk, Awake, heap, requests, setSlot
<1>1. /\ held[c] = {s} /\ k \in CallRecords /\ k.target \in Objects
      /\ k.pobj \in Objects /\ k.obj \in Objects /\ k.obj # k.pobj
      /\ scopeOf[k.pobj] = k.pobj /\ lock[k.pobj].ownercx = None
      /\ proto[k.pobj] # k.obj \/ k.target = k.pobj
      /\ scopeToShare[c] = None
  BY <1>0 DEF ScopeInv, ContextRight, HeldRight, CallRight, CallTypes,
     CallRecords, LockPlaces, SetterStages
<1>2. /\ LockTypes' /\ \A t \in Objects : lock'[t].ownercx = lock[t].ownercx
      /\ \A d \in Contexts \ {c} : \A t \in held[d] : Has(d, t)'
  BY <1>0, <1>1, UnlockedRight
<1>3. Setter(c) /\ setSlotBusy
  BY <1>0 DEF Setter, LockPlaces, SetterStages, ScopeInv, OneSetter
<1>4. CASE obj2 = k.obj
  <2>0. at' = [at EXCEPT ![c] = "slotdone"] /\ held' = [held EXCEPT ![c] = {}]
        /\ call' = call
    BY <1>4 DEF Walk, Goto
  <2>1. Grants(c)
    BY <1>0, <1>2, <2>0 DEF Grants, ScopeInv, CallTypes, RequestInv
  <2>2. Tree' /\ CallTypes'
    BY <1>0, <2>0 DEF ScopeInv, Tree, CallTypes
  <2>3. at'[c] = "slotdone" /\ held'[c] = {} /\ call'[c] = k
    BY <2>0 DEF ScopeInv, CallTypes, RequestInv
  <2>4. ContextRight(c)'
    BY <1>0, <1>1, <1>2, <2>3
       DEF ContextRight, CallRight, HeldRight, Locked, LockPlaces
  <2>5. QED
    BY <1>0, <1>2, <1>3, <2>1, <2>2, <2>4, StepKeeps
<1>5. CASE obj2 # k.obj
  <2> DEFINE n == [NoCall EXCEPT
                     !.stage = IF obj2 = None THEN "outer" ELSE "walk",
                     !.target = IF obj2 = None THEN k.obj ELSE obj2,
                     !.obj = k.obj, !.pobj = k.pobj]
  <2>0. JS_LOCK_OBJ(c, n, {}) /\ obj2 \in Objects \cup {None}
    BY <1>1, <1>5 DEF Walk, LockNext, ScopeInv, Tree
  <2>1. proto[k.pobj] # k.obj
    BY <1>1, <1>5
  <2>2. Sound(n) /\ Before(n) = {}
    <3>1. /\ n \in CallRecords /\ n.obj = k.obj /\ n.pobj = k.pobj
          /\ n.stage = IF obj2 = None THEN "outer" ELSE "walk"
          /\ n.target = IF obj2 = None THEN k.obj ELSE obj2
      BY <1>1, <2>0 DEF NoCall, CallRecords, Stages
    <3> HIDE DEF n
    <3>2. n.stage \in {"outer", "walk"} /\ n.target \in Objects
      BY <1>1, <2>0, <3>1
    <3>3. n.stage = "outer" => n.target = n.obj
      BY <3>1
    <3>4. /\ scopeOf[n.pobj] = n.pobj /\ lock[n.pobj].ownercx = None
          /\ n.obj # n.pobj /\ n.obj \in Objects /\ n.pobj \in Objects
          /\ proto[n.pobj] # n.obj /\ n \in CallRecords
      BY <1>1, <2>1, <3>1
    <3>5. QED
      BY <3>2, <3>3, <3>4, JsScopeLockAssumption DEF Sound, Before
  <2> HIDE DEF n
  <2>3. Grants(c) /\ Tree' /\ CallTypes' /\ ContextRight(c)'
    BY <1>0, <1>2, <2>0, <2>2, LockBegins
  <2>4. QED
    BY <1>0, <1>2, <1>3, <2>3, StepKeeps
<1>6. QED
  BY <1>4, <1>5

\* An object with a scope of its own shares it with no prototype of its own.
LEMMA SharersMove ==
  ASSUME ScopeInv, NEW o \in Objects, SharesScope(o)
  PROVE  scopeOf[o] # o
BY DEF ScopeInv, Tree, SharesScope

LEMMA NestLocksKeeps ==
  ASSUME ScopeInv, RequestInv, NEW c \in Contexts, NestLocks(c)
  PROVE  ScopeInv'
<1> DEFINE k == call[c]
           s == scopeOf[k.obj]
           n == [k EXCEPT !.stage = "inner", !.target = k.pobj, !.outer = s]
<1>0. /\ at[c] = "held" /\ k.stage = "outer" /\ SharesScope(k.obj)
      /\ k.pobj # None /\ scopeOf[k.pobj] # s /\ JS_LOCK_OBJ(c, n, held[c])
      /\ UNCHANGED <<scopeOf, proto, lock, scopeToShare, setSlotBusy>>
  BY DEF NestLocks, Awake, heap, requests, setSlot
<1>1. /\ held[c] = {s} /\ k \in CallRecords
      /\ k.pobj \in Objects /\ k.obj \in Objects /\ k.obj # k.pobj
      /\ scopeOf[k.pobj] = k.pobj /\ lock[k.pobj].ownercx = None
      /\ proto[k.pobj] # k.obj /\ s \in Objects
  BY <1>0, ScopeIsOwn DEF ScopeInv, ContextRight, HeldRight, CallRight, CallTypes,
     CallRecords, LockPlaces, SetterStages
<1>2. s # k.obj /\ s # k.pobj
  BY <1>0, <1>1, SharersMove
<1>3. Sound(n) /\ Before(n) = held[c]
  BY <1>0, <1>1, <1>2 DEF Sound, Before, CallRecords, Stages, SetterStages
<1>4. \A t \in held[c] : scopeOf[t] = t /\ Has(c, t)'
  BY <1>0, SameLocks DEF ScopeInv, ContextRight, Locked
<1>5. Setter(c) /\ setSlotBusy
  BY <1>0 DEF Setter, LockPlaces, SetterStages, ScopeInv, OneSetter
<1> HIDE DEF n
<1>6. Grants(c) /\ Tree' /\ CallTypes' /\ ContextRight(c)' /\ LockTypes'
  BY <1>0, <1>3, <1>4, LockBegins, SameLocks
<1>7. QED
  BY <1>0, <1>5, <1>6, StepKeeps

-----------------------------------------------------------------------------
(* Claiming a scope, having it shared, and locking a shared one.           *)

\* A thread without a running request, or one that waits, has locked nothing.
LEMMA NothingHeld ==
  ASSUME ScopeInv, RequestInv, NEW d \in Contexts,
         requestDepth[d] = 0 \/ at[d] \notin {"held", "acquire"}
  PROVE  held[d] = {}
<1>1. at[d] \notin {"held", "acquire"}
  BY DEF RequestInv, InsidePlaces
<1>2. QED
  BY <1>1 DEF ScopeInv, ContextRight, HeldRight

\* js_LockScope has locked s for c, which nobody else has locked.
LEMMA SettleKeeps ==
  ASSUME ScopeInv, RequestInv, NEW c \in Contexts,
         at[c] \in {"claim", "acquire"},
         NEW s \in Objects, s = call[c].scope, NEW locked, NEW unlocked,
         Settle(c, s, locked, unlocked),
         UNCHANGED <<scopeOf, proto, call, scopeToShare, setSlotBusy>>,
         locked \in [Objects -> LockRecords],
         unlocked \in [Objects -> LockRecords],
         \A t \in Objects \ {s} : locked[t] = lock[t] /\ unlocked[t] = lock[t],
         lock[s].ownercx = None =>
           locked[s].ownercx = None /\ unlocked[s].ownercx = None,
         \/ locked[s].ownercx = c
         \/ locked[s].ownercx = None /\ locked[s].owner = c,
         \A d \in Contexts \ {c} : s \notin held[d],
         \A t \in held[c] : t # s
  PROVE  ScopeInv'
<1> DEFINE k == call[c]
<1>0. /\ ContextRight(c) /\ CallTypes /\ scopeOf[s] = s
      /\ k.target \in Objects /\ k.stage \in {"access", "walk", "outer", "inner"}
      /\ scopeToShare[c] = None
  BY DEF ScopeInv, ContextRight, CallRight, CallTypes, Stages, LockPlaces
<1>1. lock' \in {locked, unlocked}
  BY DEF Settle
<1>2. LockTypes' /\ (\A t \in Objects \ {s} : lock'[t] = lock[t])
      /\ (lock[s].ownercx = None => lock'[s].ownercx = None)
  BY <1>1 DEF LockTypes
<1>3. /\ \A d \in Contexts \ {c} : \A t \in held[d] : Has(d, t)'
      /\ \A t \in held[c] : Has(c, t)'
  BY <1>2 DEF ScopeInv, ContextRight, Locked, Has, CallTypes
<1>4. Grants(c)
  BY <1>2, <1>3 DEF Grants, Settle, Goto, ScopeInv, CallTypes, RequestInv
<1>5. Tree' /\ CallTypes'
  BY DEF ScopeInv, Tree, CallTypes, Settle
<1>6. ContextRight(c)' /\ at'[c] \in LockPlaces
  <2>1. CASE scopeOf[k.target] = s
    <3>1. /\ lock' = locked /\ held' = [held EXCEPT ![c] = @ \cup {s}]
          /\ at' = [at EXCEPT ![c] = "held"]
      BY <2>1 DEF Settle, Goto
    <3>2. at'[c] = "held" /\ held'[c] = held[c] \cup {s}
      BY <3>1 DEF RequestInv, ScopeInv, CallTypes
    <3>3. CallRight(c)'
      BY <1>0, <1>2, <3>2 DEF ContextRight, CallRight, LockPlaces, CallTypes
    <3>4. HeldRight(c)'
      <4>1. k.stage = "inner" => s = k.pobj
        BY <1>0, <2>1 DEF ContextRight, CallRight, LockPlaces
      <4>2. held[c] = IF k.stage = "inner" THEN {k.outer} ELSE {}
        BY <1>0 DEF ContextRight, HeldRight, CallRight, LockPlaces
      <4>3. QED
        BY <1>0, <2>1, <3>2, <4>1, <4>2 DEF HeldRight
    <3>5. Locked(c)'
      BY <1>0, <1>3, <3>1, <3>2 DEF Locked, Has, ContextRight
    <3>6. QED
      BY <3>2, <3>3, <3>4, <3>5 DEF ContextRight, LockPlaces
  <2>2. CASE scopeOf[k.target] # s
    <3>1. at' = [at EXCEPT ![c] = "relock"] /\ held' = held
      BY <2>2 DEF Settle, Goto
    <3>2. k.stage # "inner"
      BY <1>0, <2>2 DEF ContextRight, CallRight, LockPlaces
    <3>3. at'[c] = "relock" /\ held'[c] = {}
      BY <1>0, <3>1, <3>2 DEF RequestInv, ContextRight, HeldRight
    <3>4. CallRight(c)'
      BY <1>0, <1>2, <3>2, <3>3
         DEF ContextRight, CallRight, LockPlaces, CallTypes
    <3>5. HeldRight(c)' /\ Locked(c)'
      BY <3>3 DEF HeldRight, Locked
    <3>6. QED
      BY <3>3, <3>4, <3>5 DEF ContextRight, LockPlaces
  <2>3. QED
    BY <2>1, <2>2
<1>7. Setter(c)' <=> Setter(c)
  BY <1>6 DEF Setter, LockPlaces, Settle, Goto, RequestInv
<1>8. QED
  BY <1>2, <1>4, <1>5, <1>6, <1>7, StepKeeps DEF ScopeInv, OneSetter

LEMMA ClaimOwnerKeeps ==
  ASSUME ScopeInv, RequestInv, NEW c \in Contexts, ClaimOwner(c)
  PROVE  ScopeInv'
<1>0. PICK s \in Objects : s = call[c].scope
  BY DEF ClaimOwner, Awake, ScopeInv, ContextRight, CallRight
<1>1. /\ at[c] = "claim" /\ lock[s].ownercx # None /\ Claimable(s, c)
      /\ Settle(c, s, [lock EXCEPT ![s].ownercx = c],
                      [lock EXCEPT ![s].ownercx = c])
      /\ UNCHANGED <<scopeOf, proto, call, scopeToShare, setSlotBusy>>
  BY <1>0 DEF ClaimOwner, Awake, heap, requests, setSlot
<1> DEFINE claimed == [lock EXCEPT ![s].ownercx = c]
<1>2. /\ claimed \in [Objects -> LockRecords] /\ claimed[s].ownercx = c
      /\ \A t \in Objects \ {s} : claimed[t] = lock[t]
  BY DEF ScopeInv, LockTypes, LockRecords
<1>3. \A d \in Contexts \ {c} : s \notin held[d]
  BY <1>1, NothingHeld DEF ScopeInv, ContextRight, Locked, Has, Claimable
<1>4. held[c] = {}
  BY <1>1, NothingHeld
<1> HIDE DEF claimed
<1>5. QED
  BY <1>0, <1>1, <1>2, <1>3, <1>4, SettleKeeps DEF claimed

LEMMA AcquireKeeps ==
  ASSUME ScopeInv, RequestInv, NEW c \in Contexts, Acquire(c)
  PROVE  ScopeInv'
<1>0. PICK s \in Objects : s = call[c].scope
  BY DEF Acquire, Awake, ScopeInv, ContextRight, CallRight
<1>1. /\ at[c] = "acquire" /\ lock[s].owner \in {c, None}
      /\ Settle(c, s, LockedOnce(s, c), lock)
      /\ UNCHANGED <<scopeOf, proto, call, scopeToShare, setSlotBusy>>
  BY <1>0 DEF Acquire, Awake, heap, requests, setSlot
<1>2. lock[s].ownercx = None
  BY <1>0, <1>1 DEF ScopeInv, ContextRight, CallRight
<1> DEFINE locked == LockedOnce(s, c)
<1>3. /\ locked \in [Objects -> LockRecords] /\ locked[s].owner = c
      /\ locked[s].ownercx = None
      /\ \A t \in Objects \ {s} : locked[t] = lock[t]
  <2>1. PICK l \in LockRecords : l = lock[s]
    BY DEF ScopeInv, LockTypes
  <2>2. PICK n \in Int : n = l.count + 1
    BY DEF LockRecords
  <2> DEFINE r == [l EXCEPT !.owner = c, !.count = n]
  <2>3. r \in LockRecords /\ r.owner = c /\ r.ownercx = l.ownercx
    BY DEF LockRecords
  <2>4. locked = [lock EXCEPT ![s] = r]
    BY <2>1, <2>2 DEF LockedOnce
  <2> HIDE DEF r, locked
  <2>5. QED
    BY <1>2, <2>1, <2>3, <2>4 DEF ScopeInv, LockTypes
<1>4. \A d \in Contexts \ {c} : s \notin held[d]
  BY <1>1, <1>2, JsScopeLockAssumption DEF ScopeInv, ContextRight, Locked, Has
<1>5. \A t \in held[c] : t # s
  <2>1. held[c] = IF call[c].stage = "inner" THEN {call[c].outer} ELSE {}
    BY <1>1 DEF ScopeInv, ContextRight, HeldRight
  <2>2. call[c].stage = "inner" => call[c].outer # s
    BY <1>0, <1>1 DEF ScopeInv, ContextRight, CallRight, LockPlaces
  <2>3. QED
    BY <2>1, <2>2
<1>6. lock \in [Objects -> LockRecords]
  BY DEF ScopeInv, LockTypes
<1> HIDE DEF locked
<1>7. QED
  BY <1>0, <1>1, <1>2, <1>3, <1>4, <1>5, <1>6, SettleKeeps DEF locked

\* Nobody has locked a scope that must be shared: its owner waits.
LEMMA SharedUnheld ==
  ASSUME ScopeInv, RequestInv, NEW c \in Contexts, at[c] \in {"claim", "wait"},
         NEW s \in Objects, lock[s].ownercx # None, MustShare(s, c)
  PROVE  \A d \in Contexts : s \notin held[d]
<1>1. gcThread # c
  BY DEF RequestInv
<1>2. scopeToShare[lock[s].ownercx] # None /\ lock[s].ownercx \in Contexts
  BY <1>1 DEF MustShare, ScopeInv, LockTypes, LockRecords
<1>3. held[lock[s].ownercx] = {}
  BY <1>2, NothingHeld DEF ScopeInv, ContextRight, CallRight
<1>4. QED
  BY <1>3 DEF ScopeInv, ContextRight, Locked, Has

\* What c gets when the scope is shared: it may lock it.
LEMMA SharedKeeps ==
  ASSUME ScopeInv, RequestInv, NEW c \in Contexts, at[c] \in {"claim", "wait"},
         NEW s \in Objects, s = call[c].scope,
         \/ lock[s].ownercx = None /\ lock' = lock
         \/ lock[s].ownercx # None /\ MustShare(s, c) /\ ShareScope(s),
         at' = [at EXCEPT ![c] = "acquire"],
         scopeToShare' = [scopeToShare EXCEPT ![c] = None],
         UNCHANGED <<scopeOf, proto, call, held, setSlotBusy>>
  PROVE  ScopeInv'
<1>1. /\ LockTypes' /\ (\A t \in Objects \ {s} : lock'[t] = lock[t])
      /\ lock'[s].ownercx = None
      /\ lock' = lock \/ \A d \in Contexts : s \notin held[d]
  <2>1. CASE lock[s].ownercx = None /\ lock' = lock
    BY <2>1, SameLocks
  <2>2. CASE lock[s].ownercx # None /\ MustShare(s, c) /\ ShareScope(s)
    <3>1. PICK r \in LockRecords :
            r.ownercx = None /\ lock' = [lock EXCEPT ![s] = r]
      <4>0. SharedScope \in LockRecords /\ SharedScope.ownercx = None
        BY DEF LockRecords, SharedScope, NewScope
      <4>1. PICK x \in LockRecords : x = SharedScope /\ x.ownercx = None
        BY <4>0
      <4>2. PICK d \in Contexts : d = lock[s].ownercx
        BY <2>2 DEF ScopeInv, LockTypes, LockRecords
      <4> PICK n \in Int : n = 1
        OBVIOUS
      <4> DEFINE r == [x EXCEPT !.owner = d, !.count = n]
      <4>3. r \in LockRecords /\ r.ownercx = None
        <5>1. r \in LockRecords /\ r.ownercx = x.ownercx
          BY DEF LockRecords
        <5>2. QED
          BY <4>1, <5>1
      <4>4. lock' = [lock EXCEPT ![s] = IF s = setSlotScope THEN r ELSE x]
        BY <2>2, <4>1, <4>2 DEF ShareScope
      <4> HIDE DEF r
      <4>5. QED
        BY <4>1, <4>3, <4>4
    <3>2. QED
      BY <2>2, <3>1, SharedUnheld DEF ScopeInv, LockTypes
  <2>3. QED
    BY <2>1, <2>2
<1>2. \A d \in Contexts : \A t \in held[d] : Has(d, t)'
  BY <1>1 DEF ScopeInv, ContextRight, Locked, Has, CallTypes
<1>3. Grants(c)
  BY <1>1, <1>2 DEF Grants, ScopeInv, CallTypes, RequestInv
<1>4. Tree' /\ CallTypes'
  BY DEF ScopeInv, Tree, CallTypes
<1>5. at'[c] = "acquire" /\ scopeToShare'[c] = None /\ held'[c] = {}
      /\ call[c].stage # "inner" /\ call[c].stage # "set"
  BY NothingHeld
     DEF ScopeInv, RequestInv, CallTypes, ContextRight, CallRight, LockPlaces
<1>6. CallRight(c)'
  BY <1>1, <1>5 DEF ScopeInv, ContextRight, CallRight, LockPlaces, CallTypes
<1>7. HeldRight(c)' /\ Locked(c)'
  BY <1>5 DEF HeldRight, Locked
<1>8. Setter(c)' <=> Setter(c)
  BY <1>5 DEF Setter, LockPlaces
<1>9. QED
  BY <1>1, <1>3, <1>4, <1>6, <1>7, <1>8, StepKeeps
     DEF ContextRight, ScopeInv, OneSetter

LEMMA ClaimWaitsKeeps ==
  ASSUME ScopeInv, RequestInv, NEW c \in Contexts, ClaimWaits(c)
  PROVE  ScopeInv'
<1>0. PICK s \in Objects : s = call[c].scope
  BY DEF ClaimWaits, Awake, ScopeInv, ContextRight, CallRight
<1>1. /\ at[c] = "claim" /\ lock' = [lock EXCEPT ![s].linked = TRUE]
      /\ scopeToShare' = [scopeToShare EXCEPT ![c] = s]
      /\ at' = [at EXCEPT ![c] = "wait"]
      /\ UNCHANGED <<scopeOf, proto, call, held, setSlotBusy>>
  BY <1>0 DEF ClaimWaits, Awake, Goto, heap, setSlot
<1>2. LockTypes'
  BY <1>1 DEF ScopeInv, LockTypes, LockRecords
<1>3. \A t \in Objects : lock'[t].ownercx = lock[t].ownercx
                          /\ lock'[t].owner = lock[t].owner
  BY <1>1 DEF ScopeInv, LockTypes, LockRecords
<1>4. Grants(c)
  BY <1>1, <1>3
     DEF Grants, ScopeInv, CallTypes, RequestInv, ContextRight, Locked, Has
<1>5. Tree' /\ CallTypes'
  BY <1>1 DEF ScopeInv, Tree, CallTypes
<1>6. at'[c] = "wait" /\ held'[c] = {} /\ call'[c] = call[c]
      /\ call[c].stage # "inner" /\ call[c].stage # "set"
  BY <1>1, NothingHeld
     DEF ScopeInv, RequestInv, CallTypes, ContextRight, CallRight, LockPlaces
<1>7. CallRight(c)'
  BY <1>1, <1>3, <1>6 DEF ScopeInv, ContextRight, CallRight, LockPlaces, CallTypes
<1>8. HeldRight(c)' /\ Locked(c)'
  BY <1>6 DEF HeldRight, Locked
<1>9. Setter(c)' <=> Setter(c)
  BY <1>1, <1>6 DEF Setter, LockPlaces
<1>10. QED
  BY <1>1, <1>2, <1>4, <1>5, <1>7, <1>8, <1>9, StepKeeps
     DEF ContextRight, ScopeInv, OneSetter

LEMMA ClaimSharedKeeps ==
  ASSUME ScopeInv, RequestInv, NEW c \in Contexts, ClaimShared(c)
  PROVE  ScopeInv'
<1>0. PICK s \in Objects : s = call[c].scope
  BY DEF ClaimShared, Awake, ScopeInv, ContextRight, CallRight
<1>1. /\ at[c] = "claim" /\ at' = [at EXCEPT ![c] = "acquire"]
      /\ \/ lock[s].ownercx = None /\ lock' = lock
         \/ lock[s].ownercx # None /\ MustShare(s, c) /\ ShareScope(s)
      /\ UNCHANGED <<scopeOf, proto, call, held, scopeToShare, setSlotBusy>>
  BY <1>0 DEF ClaimShared, Awake, Goto, heap, requests, setSlot
<1>2. scopeToShare' = [scopeToShare EXCEPT ![c] = None]
  BY <1>1 DEF ScopeInv, ContextRight, CallRight, CallTypes
<1>3. QED
  BY <1>0, <1>1, <1>2, SharedKeeps

LEMMA ClaimResumesKeeps ==
  ASSUME ScopeInv, RequestInv, NEW c \in Contexts, ClaimResumes(c)
  PROVE  ScopeInv'
<1>0. PICK s \in Objects : s = call[c].scope
  BY DEF ClaimResumes, Awake, ScopeInv, ContextRight, CallRight
<1>1. /\ at[c] = "wait" /\ at' = [at EXCEPT ![c] = "acquire"]
      /\ \/ lock[s].ownercx = None /\ lock' = lock
         \/ lock[s].ownercx # None /\ MustShare(s, c) /\ ShareScope(s)
      /\ scopeToShare' = [scopeToShare EXCEPT ![c] = None]
      /\ UNCHANGED <<scopeOf, proto, call, held, setSlotBusy>>
  BY <1>0 DEF ClaimResumes, Awake, Goto, heap, setSlot
<1>2. QED
  BY <1>0, <1>1, SharedKeeps

-----------------------------------------------------------------------------
(* Unlocking.                                                              *)

\* c unlocks the last scope it has locked.
LEMMA UnlockKeeps ==
  ASSUME ScopeInv, RequestInv, NEW c \in Contexts, at[c] = "held",
         NEW s, held[c] = {s}, lock' = Unlocked(s, c),
         held' = [held EXCEPT ![c] = @ \ {s}],
         UNCHANGED <<scopeOf, proto, scopeToShare, setSlotBusy>>,
         \/ at' = [at EXCEPT ![c] = "idle"] /\ call' = [call EXCEPT ![c] = NoCall]
         \/ /\ at' = [at EXCEPT ![c] = "slotdone"] /\ call' = call
            /\ call[c].stage = "set"
  PROVE  ScopeInv'
<1>1. /\ LockTypes' /\ \A t \in Objects : lock'[t].ownercx = lock[t].ownercx
      /\ \A d \in Contexts \ {c} : \A t \in held[d] : Has(d, t)'
  BY UnlockedRight
<1>2. Grants(c)
  BY <1>1 DEF Grants, ScopeInv, CallTypes, RequestInv
<1>3. NoCall \in CallRecords /\ NoCall.pobj = None
  BY DEF NoCall, CallRecords, Stages
<1>4. Tree' /\ CallTypes'
  BY <1>3 DEF ScopeInv, Tree, CallTypes, CallRecords
<1>5. /\ at'[c] \in {"idle", "slotdone"} /\ held'[c] = {}
      /\ scopeToShare'[c] = None /\ call'[c] \in {call[c], NoCall}
  BY DEF ScopeInv, CallTypes, RequestInv, ContextRight, CallRight
<1>6. CallRight(c)'
  BY <1>1, <1>3, <1>5 DEF ScopeInv, ContextRight, CallRight, LockPlaces, CallTypes
<1>7. HeldRight(c)' /\ Locked(c)'
  BY <1>5 DEF HeldRight, Locked
<1>8. Setter(c)' => Setter(c)
  BY <1>5 DEF Setter, LockPlaces, SetterStages, RequestInv
<1>9. QED
  BY <1>1, <1>2, <1>4, <1>6, <1>7, <1>8, StepKeeps
     DEF ContextRight, ScopeInv, OneSetter

LEMMA UnlockObjKeeps ==
  ASSUME ScopeInv, RequestInv, NEW c \in Contexts, js_UnlockObj(c)
  PROVE  ScopeInv'
<1> DEFINE s == scopeOf[call[c].target]
<1>1. /\ at[c] = "held" /\ call[c].stage = "access" /\ lock' = Unlocked(s, c)
      /\ held' = [held EXCEPT ![c] = @ \ {s}]
      /\ at' = [at EXCEPT ![c] = "idle"] /\ call' = [call EXCEPT ![c] = NoCall]
      /\ UNCHANGED <<scopeOf, proto, scopeToShare, setSlotBusy>>
  BY DEF js_UnlockObj, Awake, Goto, heap, requests, setSlot
<1>2. held[c] = {s}
  BY <1>1 DEF ScopeInv, ContextRight, HeldRight
<1>3. QED
  BY <1>1, <1>2, UnlockKeeps

LEMMA SetUnlocksKeeps ==
  ASSUME ScopeInv, RequestInv, NEW c \in Contexts, SetUnlocks(c)
  PROVE  ScopeInv'
<1> DEFINE s == call[c].outer
<1>1. /\ at[c] = "held" /\ call[c].stage = "set" /\ lock' = Unlocked(s, c)
      /\ held' = [held EXCEPT ![c] = @ \ {s}]
      /\ at' = [at EXCEPT ![c] = "slotdone"]
      /\ UNCHANGED <<scopeOf, proto, scopeToShare, setSlotBusy, call>>
  BY DEF SetUnlocks, Awake, Goto, heap, requests, setSlot
<1>2. held[c] = {s}
  BY <1>1 DEF ScopeInv, ContextRight, HeldRight
<1>3. QED
  BY <1>1, <1>2, UnlockKeeps

LEMMA SetSlotDoneKeeps ==
  ASSUME ScopeInv, RequestInv, NEW c \in Contexts, SetSlotDone(c)
  PROVE  ScopeInv'
<1>1. /\ at[c] = "slotdone" /\ at' = [at EXCEPT ![c] = "idle"]
      /\ call' = [call EXCEPT ![c] = NoCall] /\ setSlotBusy' = FALSE
      /\ UNCHANGED <<scopeOf, proto, lock, held, scopeToShare>>
  BY DEF SetSlotDone, Awake, Goto, heap, requests
<1>2. Grants(c) /\ LockTypes'
  BY <1>1, SameLocks DEF Grants, ScopeInv, CallTypes, RequestInv
<1>3. NoCall \in CallRecords /\ NoCall.pobj = None
  BY DEF NoCall, CallRecords, Stages
<1>4. Tree' /\ CallTypes'
  BY <1>1, <1>3 DEF ScopeInv, Tree, CallTypes, CallRecords
<1>5. /\ at'[c] = "idle" /\ held'[c] = {} /\ scopeToShare'[c] = None
      /\ call'[c] = NoCall
  BY <1>1 DEF ScopeInv, CallTypes, RequestInv, ContextRight, CallRight, HeldRight
<1>6. ContextRight(c)'
  BY <1>3, <1>5 DEF ContextRight, CallRight, HeldRight, Locked, LockPlaces
<1>7. ~Setter(c)' /\ Setter(c)
  BY <1>1, <1>5 DEF Setter, LockPlaces
<1>8. QED
  BY <1>2, <1>4, <1>6, <1>7, StepKeeps

-----------------------------------------------------------------------------
(* Objects that get another scope.                                         *)

\* js_GetMutableScope: a new scope for o, and the lock of its old one let go.
LEMMA MutableRight ==
  ASSUME ScopeInv, NEW c \in Contexts, NEW o \in Objects, scopeOf[o] # o,
         lock' = Mutable(o, c)
  PROVE  /\ LockTypes' /\ lock'[o].ownercx = c
         /\ \A t \in Objects \ {o} : lock'[t].ownercx = lock[t].ownercx
         /\ \A t \in Objects \ {o, scopeOf[o]} : lock'[t] = lock[t]
<1> DEFINE old == scopeOf[o]
<1>0. old \in Objects /\ LockTypes /\ old # o
  BY ScopeIsOwn DEF ScopeInv
<1>1. /\ NewScope(c) \in LockRecords /\ NewScope(c).ownercx = c
      /\ SharedScope \in LockRecords /\ SharedScope.ownercx = None
  BY DEF LockRecords, NewScope, SharedScope
<1>2. CASE lock[old].ownercx # None
  <2>1. lock' = [lock EXCEPT ![o] = NewScope(c)]
    BY <1>2 DEF Mutable, Transferred
  <2>2. QED
    BY <1>0, <1>1, <2>1 DEF LockTypes
<1>3. CASE lock[old].ownercx = None
  <2> DEFINE r == IF lock[o].ownercx = c THEN lock[o]
                  ELSE [lock[o] EXCEPT !.count = lock[old].count]
  <2>1. lock' = [[lock EXCEPT ![old] = SharedScope, ![o] = r]
                   EXCEPT ![o] = NewScope(c)]
    BY <1>0, <1>3 DEF Mutable, Transferred, LockTypes
  <2> HIDE DEF r
  <2>2. /\ lock' = [t \in Objects |-> lock'[t]] /\ lock'[o] = NewScope(c)
        /\ lock'[old] = SharedScope
        /\ \A t \in Objects \ {o, old} : lock'[t] = lock[t]
    BY <1>0, <2>1 DEF LockTypes
  <2>3. \A t \in Objects : lock'[t] \in LockRecords
    BY <1>0, <1>1, <2>2 DEF LockTypes
  <2>4. LockTypes'
    BY <2>2, <2>3 DEF LockTypes
  <2>5. QED
    BY <1>0, <1>1, <1>3, <2>2, <2>4
<1>4. QED
  BY <1>2, <1>3

\* The object gets a scope of its own while c has locked the one it shared.
LEMMA OwnScopeKeeps ==
  ASSUME ScopeInv, RequestInv, NEW c \in Contexts, NEW o \in Objects,
         at[c] = "held", scopeOf[o] # o, held[c] = {scopeOf[o]},
         lock' = Mutable(o, c), held' = [held EXCEPT ![c] = {o}],
         scopeOf' = [scopeOf EXCEPT ![o] = o],
         UNCHANGED <<at, scopeToShare, setSlotBusy>>,
         \/ /\ call[c].stage = "access" /\ call[c].target = o
            /\ UNCHANGED <<proto, call>>
         \/ /\ call[c].stage = "outer" /\ call[c].obj = o
            /\ proto' = [proto EXCEPT ![o] = None]
            /\ call' = [call EXCEPT ![c].stage = "set", ![c].outer = o]
  PROVE  ScopeInv'
<1> DEFINE old == scopeOf[o]
<1>0. /\ old \in Objects /\ scopeOf[old] = old /\ proto[o] = old
      /\ Tree /\ CallTypes /\ ContextRight(c)
  BY DEF ScopeInv, Tree
<1>1. /\ LockTypes' /\ lock'[o].ownercx = c
      /\ \A t \in Objects \ {o} : lock'[t].ownercx = lock[t].ownercx
      /\ \A t \in Objects \ {o, old} : lock'[t] = lock[t]
  BY MutableRight
<1>2. \A d \in Contexts \ {c} : \A t \in held[d] : Has(d, t)'
  <2>1. \A d \in Contexts \ {c} : \A t \in held[d] : t \in Objects \ {o, old}
    BY ScopesExclusive
       DEF Exclusive, ScopeInv, CallTypes, ContextRight, Locked
  <2>2. QED
    BY <1>1, <2>1 DEF ScopeInv, ContextRight, Locked, Has
<1>3. Setter(c) <=> call[c].stage # "access"
  BY DEF Setter, LockPlaces, SetterStages
<1>4. \A d \in Contexts \ {c} : call'[d] = call[d] /\ held'[d] = held[d]
  BY <1>0 DEF CallTypes
<1>5. \A t \in Objects : /\ scopeOf[t] = t => t # o /\ scopeOf'[t] = t
                         /\ scopeOf'[t] # scopeOf[t] => t = o
  BY <1>0 DEF Tree
<1>6. Grants(c)
  BY <1>1, <1>2, <1>3, <1>4, <1>5 DEF Grants
<1>7. Tree'
  <2>1. /\ scopeOf' \in [Objects -> Objects] /\ scopeOf'[o] = o
        /\ \A t \in Objects \ {o} : scopeOf'[t] = scopeOf[t]
    BY <1>0 DEF Tree
  <2>2. /\ proto' \in [Objects -> Objects \cup {None}]
        /\ proto'[o] \in {old, None}
        /\ \A t \in Objects \ {o} : proto'[t] = proto[t]
    BY <1>0 DEF Tree
  <2>3. QED
    BY <1>0, <2>1, <2>2 DEF Tree
<1>8. PICK k \in CallRecords :
        /\ k = call'[c] /\ k.pobj = call[c].pobj /\ k.target = call[c].target
        /\ k.obj = call[c].obj
        /\ \/ k.stage = "access" /\ k.target = o /\ call[c].stage = "access"
           \/ /\ k.stage = "set" /\ k.outer = o /\ k.obj = o
              /\ call[c].stage = "outer"
  <2>1. CASE call[c].stage = "access"
    BY <1>0, <2>1 DEF CallTypes, CallRecords
  <2>2. CASE call[c].stage = "outer"
    BY <1>0, <2>2 DEF CallTypes, CallRecords, Stages
  <2>3. QED
    BY <2>1, <2>2
<1>9. CallTypes'
  <2>1. call' \in [Contexts -> CallRecords]
    BY <1>0, <1>4, <1>8 DEF CallTypes, CallRecords
  <2>2. QED
    BY <1>0, <2>1 DEF CallTypes, CallRecords
<1>10. at'[c] = "held" /\ held'[c] = {o} /\ scopeToShare'[c] = None
  BY <1>0 DEF CallTypes, ContextRight, CallRight
<1>11. scopeOf'[o] = o
  BY <1>0 DEF Tree
<1>12. CallRight(c)'
  BY <1>0, <1>1, <1>5, <1>8, <1>10
     DEF ContextRight, CallRight, LockPlaces, CallRecords, SetterStages
<1>13. HeldRight(c)'
  BY <1>8, <1>10, <1>11 DEF HeldRight
<1>14. Locked(c)'
  BY <1>1, <1>10, <1>11 DEF Locked, Has
<1>15. Setter(c)' <=> Setter(c)
  BY <1>3, <1>8, <1>10 DEF Setter, LockPlaces, SetterStages
<1>16. QED
  BY <1>1, <1>6, <1>7, <1>9, <1>12, <1>13, <1>14, <1>15, StepKeeps
     DEF ContextRight, ScopeInv, OneSetter

LEMMA GetMutableScopeKeeps ==
  ASSUME ScopeInv, RequestInv, NEW c \in Contexts, js_GetMutableScope(c)
  PROVE  ScopeInv'
<1>0. PICK o \in Objects : o = call[c].target
  BY DEF js_GetMutableScope, Awake, ScopeInv, ContextRight, CallRight, LockPlaces
<1>1. /\ at[c] = "held" /\ call[c].stage = "access" /\ scopeOf[o] # o
      /\ lock' = Mutable(o, c) /\ held' = [held EXCEPT ![c] = {o}]
      /\ scopeOf' = [scopeOf EXCEPT ![o] = o]
      /\ UNCHANGED <<at, call, proto, scopeToShare, setSlotBusy>>
  BY <1>0 DEF js_GetMutableScope, Awake, requests, setSlot, thread
<1>2. held[c] = {scopeOf[o]}
  BY <1>0, <1>1 DEF ScopeInv, ContextRight, HeldRight
<1>3. QED
  BY <1>0, <1>1, <1>2, OwnScopeKeeps

\* The lock of old is let go, and its count moves to the lock of new.
LEMMA TransferredRight ==
  ASSUME ScopeInv, NEW c \in Contexts, NEW old \in Objects, NEW new \in Objects,
         old # new, lock[new].ownercx = None, lock' = Transferred(old, new, c)
  PROVE  /\ LockTypes' /\ lock'[new].owner = lock[new].owner
         /\ \A t \in Objects : lock'[t].ownercx = lock[t].ownercx
         /\ \A t \in Objects \ {old, new} : lock'[t] = lock[t]
<1>0. LockTypes /\ lock[new].ownercx # c
  BY JsScopeLockAssumption DEF ScopeInv
<1>1. SharedScope \in LockRecords /\ SharedScope.ownercx = None
  BY DEF LockRecords, NewScope, SharedScope
<1>2. CASE lock[old].ownercx # None
  <2>1. lock' = lock
    BY <1>2 DEF Transferred
  <2>2. QED
    BY <1>0, <2>1 DEF LockTypes
<1>3. CASE lock[old].ownercx = None
  <2>1. PICK l \in LockRecords : l = lock[new]
    BY <1>0 DEF LockTypes
  <2>2. PICK n \in Int : n = lock[old].count
    BY <1>0 DEF LockTypes, LockRecords
  <2> DEFINE r == [l EXCEPT !.count = n]
  <2>3. r \in LockRecords /\ r.ownercx = l.ownercx /\ r.owner = l.owner
    BY DEF LockRecords
  <2>4. lock' = [lock EXCEPT ![old] = SharedScope, ![new] = r]
    BY <1>0, <1>3, <2>1, <2>2 DEF Transferred, LockTypes
  <2> HIDE DEF r
  <2>5. /\ lock' = [t \in Objects |-> lock'[t]] /\ lock'[new] = r
        /\ lock'[old] = SharedScope
        /\ \A t \in Objects \ {new, old} : lock'[t] = lock[t]
    BY <1>0, <2>4 DEF LockTypes
  <2>6. \A t \in Objects : lock'[t] \in LockRecords
    BY <1>0, <1>1, <2>3, <2>5 DEF LockTypes
  <2>7. LockTypes'
    BY <2>5, <2>6 DEF LockTypes
  <2>8. QED
    BY <1>1, <1>3, <2>1, <2>3, <2>5, <2>7
<1>4. QED
  BY <1>2, <1>3

LEMMA MoveToScopeKeeps ==
  ASSUME ScopeInv, RequestInv, NEW c \in Contexts, MoveToScope(c)
  PROVE  ScopeInv'
<1>0. at[c] = "held" /\ call[c].stage = "inner"
  BY DEF MoveToScope, Awake
<1>1. PICK o \in Objects, p \in Objects, old \in Objects :
        /\ o = call[c].obj /\ p = call[c].pobj /\ old = call[c].outer
        /\ old # o /\ old # p /\ o # p /\ scopeOf[o] = old /\ scopeOf[p] = p
        /\ lock[p].ownercx = None /\ proto[p] # o
  BY <1>0 DEF ScopeInv, ContextRight, CallRight, CallTypes, LockPlaces,
     SetterStages
<1>2. /\ scopeOf' = [scopeOf EXCEPT ![o] = p]
      /\ proto' = [proto EXCEPT ![o] = p]
      /\ lock' = Transferred(old, p, c)
      /\ held' = [held EXCEPT ![c] = @ \ {old}]
      /\ call' = [call EXCEPT ![c].stage = "set", ![c].outer = p]
      /\ UNCHANGED <<at, scopeToShare, setSlotBusy>>
  BY <1>1 DEF MoveToScope, requests
<1>3. /\ Tree /\ CallTypes /\ ContextRight(c) /\ held[c] = {old, p}
      /\ scopeOf[old] = old
  BY <1>0, <1>1 DEF ScopeInv, ContextRight, HeldRight, Locked
<1>4. /\ LockTypes' /\ lock'[p].owner = lock[p].owner
      /\ \A t \in Objects : lock'[t].ownercx = lock[t].ownercx
      /\ \A t \in Objects \ {old, p} : lock'[t] = lock[t]
  BY <1>1, <1>2, TransferredRight
<1>5. \A d \in Contexts \ {c} : \A t \in held[d] : Has(d, t)'
  <2>1. \A d \in Contexts \ {c} : \A t \in held[d] : t \in Objects \ {old, p}
    BY <1>3, ScopesExclusive DEF Exclusive, CallTypes
  <2>2. QED
    BY <1>4, <2>1 DEF ScopeInv, ContextRight, Locked, Has
<1>6. Setter(c)
  BY <1>0 DEF Setter, LockPlaces, SetterStages
<1>7. \A d \in Contexts \ {c} : call'[d] = call[d] /\ held'[d] = held[d]
  BY <1>2, <1>3 DEF CallTypes
<1>8. /\ scopeOf' \in [Objects -> Objects] /\ scopeOf'[o] = p
      /\ \A t \in Objects \ {o} : scopeOf'[t] = scopeOf[t]
  BY <1>2, <1>3 DEF Tree
<1>9. \A t \in Objects : scopeOf[t] = t => t # o
  BY <1>1
<1>10. Grants(c)
  BY <1>1, <1>2, <1>3, <1>4, <1>5, <1>6, <1>7, <1>8, <1>9 DEF Grants
<1>11. Tree'
  <2>1. /\ proto' \in [Objects -> Objects \cup {None}] /\ proto'[o] = p
        /\ \A t \in Objects \ {o} : proto'[t] = proto[t]
    BY <1>2, <1>3 DEF Tree
  <2>2. QED
    BY <1>1, <1>3, <1>8, <2>1 DEF Tree
<1>12. PICK k \in CallRecords :
         /\ k = call'[c] /\ k.pobj = p /\ k.target = call[c].target /\ k.obj = o
         /\ k.stage = "set" /\ k.outer = p
  BY <1>1, <1>2, <1>3 DEF CallTypes, CallRecords, Stages
<1>13. CallTypes'
  <2>1. call' \in [Contexts -> CallRecords]
    BY <1>2, <1>3, <1>7, <1>12 DEF CallTypes, CallRecords
  <2>2. QED
    BY <1>2, <1>3, <2>1 DEF CallTypes, CallRecords
<1>14. at'[c] = "held" /\ held'[c] = {p} /\ scopeToShare'[c] = None
  BY <1>0, <1>1, <1>2, <1>3 DEF CallTypes, ContextRight, CallRight
<1>15. CallRight(c)'
  BY <1>0, <1>1, <1>3, <1>4, <1>8, <1>12, <1>14
     DEF ContextRight, CallRight, LockPlaces, SetterStages
<1>16. HeldRight(c)'
  BY <1>12, <1>14 DEF HeldRight
<1>17. Locked(c)'
  BY <1>1, <1>3, <1>4, <1>8, <1>14 DEF Locked, Has, ContextRight
<1>18. QED
  BY <1>2, <1>4, <1>6, <1>10, <1>11, <1>13, <1>15, <1>16, <1>17, StepKeeps
     DEF ContextRight, ScopeInv, OneSetter

LEMMA SetInPlaceKeeps ==
  ASSUME ScopeInv, RequestInv, NEW c \in Contexts, SetInPlace(c)
  PROVE  ScopeInv'
<1>0. at[c] = "held" /\ call[c].stage = "outer"
  BY DEF SetInPlace, Awake
<1>1. PICK o \in Objects, p \in Objects \cup {None} :
        /\ o = call[c].obj /\ p = call[c].pobj /\ call[c].target = o
        /\ p # None => /\ scopeOf[p] = p /\ lock[p].ownercx = None /\ o # p
  BY <1>0 DEF ScopeInv, ContextRight, CallRight, CallTypes, LockPlaces,
     SetterStages
<1>2. /\ call' = [call EXCEPT ![c].stage = "set", ![c].outer = scopeOf'[o]]
      /\ UNCHANGED <<at, scopeToShare, setSlotBusy>>
  BY <1>1 DEF SetInPlace, requests, setSlot
<1>3. Tree /\ CallTypes /\ ContextRight(c) /\ held[c] = {scopeOf[o]}
  BY <1>0, <1>1 DEF ScopeInv, ContextRight, HeldRight
<1>4. Setter(c)
  BY <1>0 DEF Setter, LockPlaces, SetterStages
<1>5. CASE /\ SharesScope(o) /\ proto' = [proto EXCEPT ![o] = None]
           /\ scopeOf' = [scopeOf EXCEPT ![o] = o] /\ lock' = Mutable(o, c)
           /\ held' = [held EXCEPT ![c] = {o}]
  <2>1. scopeOf[o] # o /\ scopeOf'[o] = o
    BY <1>3, <1>5, SharersMove DEF Tree
  <2>2. QED
    BY <1>0, <1>1, <1>2, <1>3, <1>5, <2>1, OwnScopeKeeps
<1>6. CASE /\ scopeOf' = scopeOf /\ lock' = lock /\ held' = held
           /\ \/ proto' = proto
              \/ /\ proto' = [proto EXCEPT ![o] = p]
                 /\ SharesScope(o) => p # None /\ scopeOf[p] = scopeOf[o]
  <2>1. Tree'
    <3>1. CASE proto' = proto
      BY <1>3, <1>6, <3>1 DEF Tree
    <3>2. CASE /\ proto' = [proto EXCEPT ![o] = p]
               /\ SharesScope(o) => p # None /\ scopeOf[p] = scopeOf[o]
      <4>1. scopeOf[o] # o => proto[o] = scopeOf[o] /\ p = scopeOf[o]
        BY <1>1, <1>3, <3>2, JsScopeLockAssumption DEF Tree, SharesScope
      <4>2. scopeOf[o] = o /\ p # None => scopeOf[p] # o
        BY <1>1
      <4>3. /\ proto' \in [Objects -> Objects \cup {None}] /\ proto'[o] = p
            /\ \A t \in Objects \ {o} : proto'[t] = proto[t]
        BY <1>3, <3>2 DEF Tree
      <4>4. QED
        BY <1>3, <1>6, <4>1, <4>2, <4>3 DEF Tree
    <3>3. QED
      BY <1>6, <3>1, <3>2
  <2>2. PICK s \in Objects : s = scopeOf[o] /\ scopeOf[s] = s
    BY ScopeIsOwn
  <2>3. PICK k \in CallRecords :
          /\ k = call'[c] /\ k.pobj = p /\ k.target = o /\ k.obj = o
          /\ k.stage = "set" /\ k.outer = s
    <3>1. call' = [call EXCEPT ![c].stage = "set", ![c].outer = s]
      BY <1>2, <1>6, <2>2
    <3>2. /\ call'[c] \in CallRecords /\ call'[c].pobj = call[c].pobj
          /\ call'[c].target = call[c].target /\ call'[c].obj = call[c].obj
          /\ call'[c].stage = "set" /\ call'[c].outer = s
      BY <1>3, <3>1 DEF CallTypes, CallRecords, Stages
    <3>3. QED
      BY <1>1, <3>2
  <2>4. \A d \in Contexts \ {c} : call'[d] = call[d]
    BY <1>2, <1>3 DEF CallTypes
  <2>5. CallTypes'
    <3>1. call' \in [Contexts -> CallRecords]
      BY <1>2, <1>3, <2>3, <2>4 DEF CallTypes, CallRecords
    <3>2. QED
      BY <1>2, <1>3, <1>6, <3>1 DEF CallTypes, CallRecords
  <2>6. Grants(c) /\ LockTypes'
    BY <1>2, <1>4, <1>6, <2>4, SameLocks DEF Grants
  <2>7. at'[c] = "held" /\ held'[c] = {s} /\ scopeToShare'[c] = None
    BY <1>0, <1>2, <1>3, <1>6, <2>2 DEF ContextRight, CallRight
  <2>8. CallRight(c)'
    BY <1>0, <1>1, <1>6, <2>2, <2>3, <2>7
       DEF CallRight, LockPlaces, SetterStages
  <2>9. HeldRight(c)' /\ Locked(c)'
    BY <1>3, <1>6, <2>3, <2>7 DEF HeldRight, Locked, ContextRight, Has
  <2>10. QED
    BY <1>2, <1>4, <2>1, <2>5, <2>6, <2>8, <2>9, StepKeeps
       DEF ContextRight, ScopeInv, OneSetter
<1>7. QED
  BY <1>1, <1>5, <1>6 DEF SetInPlace, heap

-----------------------------------------------------------------------------
LEMMA SetProtoKeeps ==
  ASSUME ScopeInv, RequestInv, NEW c \in Contexts, AnyProto = FALSE,
         \/ \E o \in Objects, p \in Objects \cup {None} :
              js_SetProtoOrParent(c, o, p)
         \/ SetSlotAgain(c)
  PROVE  ScopeInv'
<1>1. CASE \E o \in Objects, p \in Objects \cup {None} :
             js_SetProtoOrParent(c, o, p)
  <2>1. PICK o \in Objects, p \in Objects \cup {None} :
               js_SetProtoOrParent(c, o, p)
    BY <1>1
  <2>2. /\ at[c] = "idle" /\ o # p /\ SetSlot(c, o, p)
        /\ p # None => scopeOf[p] = p /\ lock[p].ownercx = None
    BY <2>1 DEF js_SetProtoOrParent, Awake, SafeProto
  <2>3. QED
    BY <2>2, SetSlotKeeps
<1>2. CASE SetSlotAgain(c)
  <2>1. PICK o \in Objects, p \in Objects \cup {None} :
               /\ o = call[c].obj /\ p = call[c].pobj
               /\ p # None => /\ scopeOf[p] = p /\ lock[p].ownercx = None
                              /\ o # p
    BY <1>2 DEF SetSlotAgain, Awake, ScopeInv, ContextRight, CallRight, CallTypes
  <2>2. at[c] = "setagain" /\ SetSlot(c, o, p) /\ o # p
    BY <1>2, <2>1, JsScopeLockAssumption DEF SetSlotAgain, Awake
  <2>3. QED
    BY <2>1, <2>2, SetSlotKeeps
<1>3. QED
  BY <1>1, <1>2

LEMMA QuietKeeps ==
  ASSUME ScopeInv, RequestInv, NEW c \in Contexts,
         \/ JS_BeginRequest(c) \/ JS_YieldRequest(c) \/ js_GC(c)
         \/ AwaitGC(c) \/ AwaitRequests(c) \/ ClaimWaitsOn(c)
         \/ RequestBegins(c) \/ YieldReturns(c) \/ OtherGCEnds(c)
         \/ Rendezvous(c) \/ GCEnds(c) \/ SetSlotWaits(c) \/ SetSlotResumes(c)
  PROVE  ScopeInv'
<1>1. UNCHANGED <<scopeOf, proto, lock, call, held, setSlotBusy, scopeToShare>>
  BY DEF JS_BeginRequest, JS_YieldRequest, js_GC, AwaitGC, AwaitRequests,
     ClaimWaitsOn, RequestBegins, YieldReturns, OtherGCEnds, Rendezvous, GCEnds,
     SetSlotWaits, SetSlotResumes, EnterRequest, heap, requests, setSlot
<1>2. \/ at' = at
      \/ /\ at[c] \in FreePlaces
         /\ \E l \in FreePlaces : at' = [at EXCEPT ![c] = l]
      \/ /\ at[c] \in AgainPlaces
         /\ \E l \in AgainPlaces : at' = [at EXCEPT ![c] = l]
  <2> USE DEF FreePlaces, AgainPlaces, Awake, Goto
  <2>1. CASE JS_BeginRequest(c) \/ JS_YieldRequest(c) \/ js_GC(c)
    BY <2>1 DEF JS_BeginRequest, JS_YieldRequest, js_GC, EnterRequest
  <2>2. CASE AwaitGC(c) \/ AwaitRequests(c) \/ ClaimWaitsOn(c)
    BY <2>2 DEF AwaitGC, AwaitRequests, ClaimWaitsOn
  <2>3. CASE \/ RequestBegins(c) \/ YieldReturns(c) \/ OtherGCEnds(c)
             \/ Rendezvous(c) \/ GCEnds(c)
    BY <2>3 DEF RequestBegins, YieldReturns, OtherGCEnds, Rendezvous, GCEnds,
       EnterRequest
  <2>4. CASE SetSlotWaits(c) \/ SetSlotResumes(c)
    BY <2>4 DEF SetSlotWaits, SetSlotResumes, EnterRequest
  <2>5. QED
    BY <2>1, <2>2, <2>3, <2>4
<1>3. QED
  BY <1>1, <1>2, NoScopeTouched

LEMMA ScopeInvStep ==
  ASSUME ScopeInv, RequestInv, program \in Programs, Next, AnyProto = FALSE
  PROVE  ScopeInv'
<1> PICK c \in Contexts : Call(c) \/ Wait(c) \/ Continue(c) \/ JS_EndRequest(c)
  BY DEF Next
<1>1. program[c].uses \subseteq Objects
  BY JsScopeLockAssumption
<1>2. CASE Call(c)
  BY <1>1, <1>2, QuietKeeps, AccessKeeps, SetProtoKeeps, GetMutableScopeKeeps
     DEF Call
<1>3. CASE Wait(c)
  BY <1>3, QuietKeeps DEF Wait
<1>4. CASE Continue(c)
  <2>1. CASE \/ RequestBegins(c) \/ YieldReturns(c) \/ OtherGCEnds(c)
             \/ Rendezvous(c) \/ GCEnds(c) \/ SetSlotWaits(c)
             \/ SetSlotResumes(c)
    BY <2>1, QuietKeeps
  <2>2. CASE \/ Relock(c) \/ ClaimOwner(c) \/ ClaimShared(c) \/ ClaimWaits(c)
             \/ ClaimResumes(c) \/ Acquire(c)
    BY <2>2, RelockKeeps, ClaimOwnerKeeps, ClaimSharedKeeps, ClaimWaitsKeeps,
       ClaimResumesKeeps, AcquireKeeps
  <2>3. CASE SetSlotSuspends(c) \/ SetSlotAgain(c) \/ SetSlotDone(c)
    BY <2>3, LeaveKeeps, SetProtoKeeps, SetSlotDoneKeeps
  <2>4. CASE \/ Walk(c) \/ NestLocks(c) \/ MoveToScope(c) \/ SetInPlace(c)
             \/ SetUnlocks(c) \/ js_UnlockObj(c)
    BY <2>4, WalkKeeps, NestLocksKeeps, MoveToScopeKeeps, SetInPlaceKeeps,
       SetUnlocksKeeps, UnlockObjKeeps
  <2>5. QED
    BY <1>4, <2>1, <2>2, <2>3, <2>4 DEF Continue
<1>5. CASE JS_EndRequest(c)
  BY <1>5, LeaveKeeps
<1>6. QED
  BY <1>2, <1>3, <1>4, <1>5

\* Two threads never have the same scope locked, whether by owning it or by
\* its lock, as long as only prototypes are set whose scope is shared.
THEOREM ScopesLockedOnce ==
  ASSUME AnyProto = FALSE
  PROVE  Spec => []Exclusive
<1>1. ScopeInv /\ RequestInv /\ program \in Programs /\ [Next]_vars => ScopeInv'
  <2> SUFFICES ASSUME ScopeInv, RequestInv, program \in Programs, [Next]_vars
               PROVE  ScopeInv'
    OBVIOUS
  <2>1. CASE Next
    BY <2>1, ScopeInvStep
  <2>2. CASE UNCHANGED vars
    <3>1. UNCHANGED <<scopeOf, proto, lock, call, held, setSlotBusy,
                      scopeToShare, at>>
      BY <2>2 DEF vars, heap, requests, setSlot, thread
    <3>2. QED
      BY <3>1 DEF ScopeInv, Tree, LockTypes, CallTypes, OneSetter, Setter,
         ContextRight, CallRight, HeldRight, Locked, Has
  <2>3. QED
    BY <2>1, <2>2
<1>2. QED
  BY ScopeInvAtFirst, RequestInvHolds, ScopesExclusive, <1>1, PTL DEF Spec
=============================================================================
