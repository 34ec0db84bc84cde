---------------------------- MODULE JsScopeLock ----------------------------
(***************************************************************************)
(* Requests, object locks and the rendezvous of the garbage collector in   *)
(* SpiderMonkey as it is built here: JS_THREADSAFE and, because jslock.h   *)
(* defines JS_USE_ONLY_NSPR_LOCKS, NSPR_LOCK.                              *)
(*                                                                         *)
(* An object's properties are in a scope, its own or its prototype's.  A   *)
(* scope belongs to one context (ownercx), which locks it for free, until  *)
(* another context claims it or, while the owner runs a request, has it    *)
(* shared; a shared scope has a lock.  Contexts run on a thread each.      *)
(* What happens between JS_LOCK_GC and JS_UNLOCK_GC or a wait is a step.   *)
(*                                                                         *)
(* A scope is known by the object that owns it.  Objects are native, of    *)
(* one class, not sealed, and are not collected.  Objects are locked in a  *)
(* request, as CHECK_REQUEST asks; that requests can be nested is left     *)
(* out, for only the outermost one matters here.  The collecting thread    *)
(* takes no locks (CX_THREAD_IS_RUNNING_GC); what its finalizers do is not *)
(* modelled.                                                               *)
(***************************************************************************)
EXTENDS Integers, FiniteSets

CONSTANTS
  Contexts, Objects,
  InitProto,  \* the prototypes at first; objects with one share its scope
  None,       \* NULL
  Programs,   \* programs that embed the engine: which objects each context
              \* uses, and what it does besides accessing them
  AnyProto    \* may a prototype be set whose scope is not yet shared?

ASSUME JsScopeLockAssumption ==
  /\ IsFiniteSet(Contexts)
  /\ None \notin Contexts \cup Objects
  /\ InitProto \in [Objects -> Objects \cup {None}]
  /\ \A o \in Objects : InitProto[o] # None => InitProto[InitProto[o]] = None
  /\ Programs \subseteq
       [Contexts -> [uses : SUBSET Objects,
                     does : SUBSET {"yield", "gc", "mutate", "proto"}]]
  /\ AnyProto \in BOOLEAN

VARIABLES
  program,      \* the one of Programs that runs
  scopeOf,      \* OBJ_SCOPE(obj)
  proto,        \* the slot JSSLOT_PROTO
  lock,         \* of each scope: ownercx, on scopeSharingTodo?, u.count, and
                \* lock.owner, which is set while the NSPR lock is held
  requestDepth, scopeToShare,
  requestCount, gcLevel, gcThread, gcPoke,
  setSlotBusy, setSlotScope,
  at,           \* where each context's thread is
  asleep,       \* the condition variable it waits for
  call,         \* what it locks an object for, and its local variables
  held          \* the scopes it has locked and not unlocked

heap     == <<scopeOf, proto>>
requests == <<requestDepth, scopeToShare, requestCount>>
gc       == <<gcLevel, gcThread, gcPoke>>
setSlot  == <<setSlotBusy, setSlotScope>>
thread   == <<at, asleep, call>>
vars     == <<program, heap, lock, requests, gc, setSlot, thread, held>>

NewScope(c) == [ownercx |-> c, linked |-> FALSE, count |-> 0, owner |-> None]
SharedScope == NewScope(None)
NoCall == [stage |-> "none", target |-> None, scope |-> None, obj |-> None,
           pobj |-> None, outer |-> None]

Awake(c, l) == at[c] = l /\ asleep[c] = "no"
Goto(c, l) == at' = [at EXCEPT ![c] = l]
Sleep(c, cv) == asleep' = [asleep EXCEPT ![c] = cv]
Notified(cvs) ==
  [c \in Contexts |-> IF asleep[c] \in cvs THEN "no" ELSE asleep[c]]
\* JS_NOTIFY_REQUEST_DONE when the last request is over or suspended.
NotifyNobody(n) == {}
RequestDone(n) == IF n = 0 THEN {"request"} ELSE {}

-----------------------------------------------------------------------------
(* Requests.                                                               *)

\* while (rt->gcLevel > 0) JS_AWAIT_GC_DONE(rt), wherever a thread that is not
\* collecting does it.
AwaitGC(c) ==
  /\ at[c] \in {"begin", "yielded", "gcwait", "wait", "resume"}
  /\ asleep[c] = "no"
  /\ gcLevel > 0
  /\ asleep' = [asleep EXCEPT ![c] = "gc"]
  /\ UNCHANGED <<program, heap, lock, requests, gc, setSlot, at, call, held>>

DoNotAwait == TRUE
GCDone == gcLevel = 0

\* The end of JS_BeginRequest.
EnterRequest(c, l) ==
  /\ GCDone
  /\ requestCount' = requestCount + 1
  /\ requestDepth' = [requestDepth EXCEPT ![c] = 1]
  /\ Goto(c, l)
  /\ UNCHANGED <<program, heap, lock, gc, setSlot, asleep, call, held>>

JS_BeginRequest(c) ==
  /\ Awake(c, "idle")
  /\ program[c].uses # {}
  /\ requestDepth[c] = 0
  /\ IF GCDone THEN EnterRequest(c, "idle")
     ELSE /\ Goto(c, "begin")
          /\ UNCHANGED <<program, heap, lock, requestDepth, requestCount, gc,
                         setSlot, asleep, call, held>>
  /\ UNCHANGED scopeToShare

RequestBegins(c) ==
  /\ Awake(c, "begin")
  /\ EnterRequest(c, "idle")
  /\ UNCHANGED scopeToShare

\* The scopes of c that somebody waits for become shared.
ToShare(c) == {s \in Objects : lock[s].linked /\ lock[s].ownercx = c}

LeaveRequest(c) ==
  /\ requestDepth' = [requestDepth EXCEPT ![c] = 0]
  /\ lock' = [s \in Objects |->
                IF s \in ToShare(c) THEN SharedScope ELSE lock[s]]
  /\ requestCount' = requestCount - 1
  /\ asleep' = Notified(RequestDone(requestCount - 1) \cup
                        (IF ToShare(c) = {} THEN {} ELSE {"sharing"}))

JS_EndRequest(c) ==
  /\ Awake(c, "idle")
  /\ requestDepth[c] = 1
  /\ LeaveRequest(c)
  /\ UNCHANGED <<program, heap, scopeToShare, gc, setSlot, at, call, held>>

\* The depth stays: others still take c for running.
JS_YieldRequest(c) ==
  /\ Awake(c, "idle")
  /\ "yield" \in program[c].does
  /\ requestDepth[c] > 0
  /\ requestCount' = requestCount - 1
  /\ asleep' = Notified(RequestDone(requestCount - 1))
  /\ Goto(c, "yielded")
  /\ UNCHANGED <<program, heap, lock, requestDepth, scopeToShare, gc, setSlot,
                 call, held>>

YieldReturns(c) ==
  /\ Awake(c, "yielded")
  /\ EnterRequest(c, "idle")
  /\ UNCHANGED <<program, scopeToShare>>

-----------------------------------------------------------------------------
(* js_GC.                                                                  *)

Debit(c) == IF requestDepth[c] > 0 THEN 1 ELSE 0

js_GC(c) ==
  /\ Awake(c, "idle")
  /\ "gc" \in program[c].does
  /\ gcPoke
  /\ gcPoke' = FALSE
  /\ requestCount' = requestCount - Debit(c)
  /\ \/ /\ gcLevel > 0
        /\ gcLevel' = gcLevel + 1
        /\ asleep' = [Notified(RequestDone(requestCount')) EXCEPT ![c] = "gc"]
        /\ Goto(c, "gcwait")
        /\ UNCHANGED gcThread
     \/ /\ gcLevel = 0
        /\ gcLevel' = 1
        /\ gcThread' = c
        /\ Goto(c, IF requestCount' > 0 THEN "rendezvous" ELSE "collect")
        /\ UNCHANGED asleep
  /\ UNCHANGED <<program, heap, lock, requestDepth, scopeToShare, setSlot,
                 call, held>>

\* Another thread's collection, which gcLevel made go round again, is over.
OtherGCEnds(c) ==
  /\ Awake(c, "gcwait")
  /\ GCDone
  /\ requestCount' = requestCount + Debit(c)
  /\ Goto(c, "idle")
  /\ UNCHANGED <<program, heap, lock, requestDepth, scopeToShare, gc, setSlot,
                 asleep, call, held>>

AwaitRequests(c) ==
  /\ Awake(c, "rendezvous")
  /\ requestCount > 0
  /\ Sleep(c, "request")
  /\ UNCHANGED <<program, heap, lock, requests, gc, setSlot, at, call, held>>

Rendezvous(c) ==
  /\ Awake(c, "rendezvous")
  /\ requestCount = 0
  /\ Goto(c, "collect")
  /\ UNCHANGED <<program, heap, lock, requests, gc, setSlot, asleep, call,
                 held>>

GCEnds(c) ==
  /\ Awake(c, "collect")
  /\ IF gcLevel > 1 \/ gcPoke
       THEN /\ gcLevel' = 1
            /\ gcPoke' = FALSE
            /\ UNCHANGED <<requestCount, gcThread, at, asleep>>
       ELSE /\ gcLevel' = 0
            /\ requestCount' = requestCount + Debit(c)
            /\ gcThread' = None
            /\ asleep' = Notified({"gc"})
            /\ Goto(c, "idle")
            /\ UNCHANGED gcPoke
  /\ UNCHANGED <<program, heap, lock, requestDepth, scopeToShare, setSlot,
                 call, held>>

-----------------------------------------------------------------------------
(* Locking a scope.                                                        *)

\* js_LockObj looks which scope the object has and enters js_LockScope.
js_LockObj(c, k) ==
  LET s == scopeOf[k.target] IN
  /\ call' = [call EXCEPT ![c] = [k EXCEPT !.scope = s]]
  /\ Goto(c, IF lock[s].ownercx # None THEN "claim" ELSE "acquire")

\* JS_LOCK_OBJ for call k of a thread that holds the scopes h: there is nothing
\* to do in the owner.
JS_LOCK_OBJ(c, k, h) ==
  LET s == scopeOf[k.target] IN
  IF lock[s].ownercx = c
    THEN /\ held' = [held EXCEPT ![c] = h \cup {s}]
         /\ call' = [call EXCEPT ![c] = k]
         /\ Goto(c, "held")
    ELSE /\ held' = [held EXCEPT ![c] = h]
         /\ js_LockObj(c, k)

\* The object got another scope meanwhile.
Relock(c) ==
  /\ Awake(c, "relock")
  /\ js_LockObj(c, call[c])
  /\ UNCHANGED <<program, heap, lock, requests, gc, setSlot, asleep, held>>

\* The scopes that s and the contexts in its way wait for, in this order.
WaitChain(s) ==
  LET chain[n \in 0 .. Cardinality(Contexts)] ==
        IF n = 0 THEN s
        ELSE IF chain[n-1] = None \/ lock[chain[n-1]].ownercx = None THEN None
        ELSE scopeToShare[lock[chain[n-1]].ownercx]
  IN  {chain[n] : n \in 0 .. Cardinality(Contexts)} \ {None}

SeesNoDeadlock(s, c) == FALSE
WillDeadlock(s, c) == \E t \in WaitChain(s) : lock[t].ownercx = c

ClaimRunning(s, c) == ~lock[s].linked

\* A context of its own, or one without a running request, unless somebody
\* already waits for s to be shared.
Claimable(s, c) ==
  /\ ~lock[s].linked
  /\ requestDepth[lock[s].ownercx] = 0 \/ lock[s].ownercx = c

MustShare(s, c) ==
  LET wanted == scopeToShare[lock[s].ownercx]
  IN  gcThread = c \/ (wanted # None /\ WillDeadlock(wanted, c))

\* The outer scope of js_SetProtoOrParent gets a lock its owner holds.
ShareScope(s) ==
  /\ lock' = [lock EXCEPT ![s] =
       IF s = setSlotScope
         THEN [SharedScope EXCEPT !.owner = lock[s].ownercx, !.count = 1]
         ELSE SharedScope]
  /\ asleep' = IF lock[s].linked THEN Notified({"sharing"}) ELSE asleep

\* js_LockScope has locked s.  If the object has another scope by now,
\* js_LockObj unlocks s and tries again.  Once s is locked nobody can move the
\* object in or out of s, so this belongs to the step that locks s.
Settle(c, s, locked, unlocked) ==
  IF scopeOf[call[c].target] = s
    THEN /\ lock' = locked
         /\ held' = [held EXCEPT ![c] = @ \cup {s}]
         /\ Goto(c, "held")
    ELSE /\ lock' = unlocked
         /\ Goto(c, "relock")
         /\ UNCHANGED held

\* ClaimScope, up to its return or its wait.
ClaimOwner(c) ==
  LET s       == call[c].scope
      claimed == [lock EXCEPT ![s].ownercx = c]
  IN
  /\ Awake(c, "claim")
  /\ lock[s].ownercx # None
  /\ Claimable(s, c)
  /\ Settle(c, s, claimed, claimed)
  /\ UNCHANGED <<program, heap, requests, gc, setSlot, asleep, call>>

ClaimShared(c) ==
  LET s == call[c].scope IN
  /\ Awake(c, "claim")
  /\ \/ lock[s].ownercx = None /\ UNCHANGED <<lock, asleep>>
     \/ /\ lock[s].ownercx # None
        /\ ~Claimable(s, c)
        /\ MustShare(s, c)
        /\ ShareScope(s)
  /\ Goto(c, "acquire")
  /\ UNCHANGED <<program, heap, requests, gc, setSlot, call, held>>

\* The request is suspended, so that a collection need not wait for it.
ClaimWaits(c) ==
  LET s == call[c].scope IN
  /\ Awake(c, "claim")
  /\ lock[s].ownercx # None
  /\ ~Claimable(s, c)
  /\ ~MustShare(s, c)
  /\ lock' = [lock EXCEPT ![s].linked = TRUE]
  /\ requestDepth' = [requestDepth EXCEPT ![c] = 0]
  /\ requestCount' = requestCount - 1
  /\ scopeToShare' = [scopeToShare EXCEPT ![c] = s]
  /\ asleep' = [Notified(RequestDone(requestCount - 1))
                  EXCEPT ![c] = "sharing"]
  /\ Goto(c, "wait")
  /\ UNCHANGED <<program, heap, gc, setSlot, call, held>>

\* Awake again and no collection running.  A scope that is still owned is
\* still on scopeSharingTodo: it must be shared now or is waited for once more,
\* with the request suspended anew.
ClaimWaitsOn(c) ==
  LET s == call[c].scope IN
  /\ Awake(c, "wait")
  /\ GCDone
  /\ lock[s].ownercx # None
  /\ ~MustShare(s, c)
  /\ Sleep(c, "sharing")
  /\ UNCHANGED <<program, heap, lock, requests, gc, setSlot, at, call, held>>

ClaimResumes(c) ==
  LET s == call[c].scope IN
  /\ Awake(c, "wait")
  /\ GCDone
  /\ lock[s].ownercx # None => MustShare(s, c)
  /\ IF lock[s].ownercx # None
       THEN ShareScope(s)
       ELSE UNCHANGED <<lock, asleep>>
  /\ requestCount' = requestCount + 1
  /\ requestDepth' = [requestDepth EXCEPT ![c] = 1]
  /\ scopeToShare' = [scopeToShare EXCEPT ![c] = None]
  /\ Goto(c, "acquire")
  /\ UNCHANGED <<program, heap, gc, setSlot, call, held>>

\* The tail of js_LockScope, for a shared scope.
LockedOnce(s, c) ==
  LET l == lock[s]
  IN  [lock EXCEPT ![s] = [l EXCEPT !.owner = c, !.count = l.count + 1]]

Acquire(c) ==
  LET s == call[c].scope IN
  /\ Awake(c, "acquire")
  /\ lock[s].owner \in {c, None}
  /\ Settle(c, s, LockedOnce(s, c), lock)
  /\ UNCHANGED <<program, heap, requests, gc, setSlot, asleep, call>>

\* JS_UNLOCK_SCOPE and js_UnlockScope.
Unlocked(s, c) ==
  LET l == lock[s] IN
  [lock EXCEPT ![s] =
     IF l.ownercx # None THEN [l EXCEPT !.ownercx = c]
     ELSE IF l.owner # c THEN l
     ELSE IF l.count > 1 THEN [l EXCEPT !.count = l.count - 1]
     ELSE SharedScope]

\* js_TransferScopeLock: lock with the lock of old let go and its count moved
\* to new.
Transferred(old, new, c) ==
  IF lock[old].ownercx # None THEN lock
  ELSE [lock EXCEPT ![old] = SharedScope,
                    ![new] = IF @.ownercx = c THEN @
                             ELSE [@ EXCEPT !.count = lock[old].count]]

-----------------------------------------------------------------------------
(* Access to an object: js_GetSlotThreadSafe, js_SetSlotThreadSafe, or     *)
(* JS_LOCK_OBJ and JS_UNLOCK_OBJ around anything else.  After a claim the  *)
(* first two do not look whether the object has another scope by now; here *)
(* they do, as js_LockObj does.                                            *)

AccessObject(c, o) ==
  /\ Awake(c, "idle")
  /\ requestDepth[c] > 0
  /\ JS_LOCK_OBJ(c, [NoCall EXCEPT !.stage = "access", !.target = o], {})
  /\ UNCHANGED <<program, heap, lock, requests, gc, setSlot, asleep>>

\* lock after js_GetMutableScope has given obj a scope of its own.
Mutable(obj, c) ==
  [Transferred(scopeOf[obj], obj, c) EXCEPT ![obj] = NewScope(c)]

js_GetMutableScope(c) ==
  LET o == call[c].target IN
  /\ Awake(c, "held")
  /\ call[c].stage = "access"
  /\ "mutate" \in program[c].does
  /\ scopeOf[o] # o
  /\ lock' = Mutable(o, c)
  /\ held' = [held EXCEPT ![c] = {o}]
  /\ scopeOf' = [scopeOf EXCEPT ![o] = o]
  /\ UNCHANGED <<program, proto, requests, gc, setSlot, thread>>

\* What has been overwritten may have become garbage (GC_POKE).
js_UnlockObj(c) ==
  LET s == scopeOf[call[c].target] IN
  /\ Awake(c, "held")
  /\ call[c].stage = "access"
  /\ lock' = Unlocked(s, c)
  /\ held' = [held EXCEPT ![c] = @ \ {s}]
  /\ gcPoke' \in {gcPoke, TRUE}
  /\ call' = [call EXCEPT ![c] = NoCall]
  /\ Goto(c, "idle")
  /\ UNCHANGED <<program, heap, requests, gcLevel, gcThread, setSlot, asleep>>

-----------------------------------------------------------------------------
(* js_SetProtoOrParent.                                                    *)

SafeProto(p) ==
  ~AnyProto /\ p # None => scopeOf[p] = p /\ lock[p].ownercx = None

\* Lock the object whose prototype is to be read in the search for a cycle, or
\* obj itself when the search is over.
LockNext(c, o, p, obj2) ==
  JS_LOCK_OBJ(c, [NoCall EXCEPT
                    !.stage = IF obj2 = None THEN "outer" ELSE "walk",
                    !.target = IF obj2 = None THEN o ELSE obj2,
                    !.obj = o, !.pobj = p], {})

\* The test of setSlotBusy under setSlotLock.
SetSlot(c, o, p) ==
  /\ IF setSlotBusy
       THEN /\ call' = [call EXCEPT
                          ![c] = [NoCall EXCEPT !.obj = o, !.pobj = p]]
            /\ Goto(c, "setslot")
            /\ UNCHANGED held
       ELSE LockNext(c, o, p, p)
  /\ setSlotBusy' = TRUE
  /\ UNCHANGED <<program, heap, lock, requests, gc, setSlotScope, asleep>>

js_SetProtoOrParent(c, o, p) ==
  /\ Awake(c, "idle")
  /\ "proto" \in program[c].does
  /\ requestDepth[c] > 0
  /\ o # p
  /\ SafeProto(p)
  /\ SetSlot(c, o, p)

\* JS_SuspendRequest, one wait, and JS_ResumeRequest.
SetSlotSuspends(c) ==
  /\ Awake(c, "setslot")
  /\ LeaveRequest(c)
  /\ Goto(c, "busy")
  /\ UNCHANGED <<program, heap, scopeToShare, gc, setSlot, call, held>>

SetSlotWaits(c) ==
  /\ Awake(c, "busy")
  /\ asleep' = [asleep EXCEPT ![c] = IF setSlotBusy THEN "slot" ELSE "no"]
  /\ Goto(c, "resume")
  /\ UNCHANGED <<program, heap, lock, requests, gc, setSlot, call, held>>

SetSlotResumes(c) ==
  /\ Awake(c, "resume")
  /\ EnterRequest(c, "setagain")
  /\ UNCHANGED scopeToShare

SetSlotAgain(c) ==
  /\ Awake(c, "setagain")
  /\ SetSlot(c, call[c].obj, call[c].pobj)

Walk(c) ==
  LET obj2 == proto[call[c].target] IN
  /\ Awake(c, "held")
  /\ call[c].stage = "walk"
  /\ lock' = Unlocked(scopeOf[call[c].target], c)
  /\ IF obj2 = call[c].obj
       THEN /\ Goto(c, "slotdone")
            /\ held' = [held EXCEPT ![c] = {}]
            /\ UNCHANGED call
       ELSE LockNext(c, call[c].obj, call[c].pobj, obj2)
  /\ UNCHANGED <<program, heap, requests, gc, setSlot, asleep>>

SharesScope(o) == proto[o] # None /\ scopeOf[proto[o]] = scopeOf[o]

\* obj shares its old prototype's scope and shall share pobj's.
NestLocks(c) ==
  LET s == scopeOf[call[c].obj] IN
  /\ Awake(c, "held")
  /\ call[c].stage = "outer"
  /\ SharesScope(call[c].obj)
  /\ call[c].pobj # None
  /\ scopeOf[call[c].pobj] # s
  /\ setSlotScope' = IF lock[s].ownercx # None THEN s ELSE setSlotScope
  /\ JS_LOCK_OBJ(c, [call[c] EXCEPT !.stage = "inner", !.target = call[c].pobj,
                     !.outer = s], held[c])
  /\ UNCHANGED <<program, heap, lock, requests, gc, setSlotBusy, asleep>>

MoveToScope(c) ==
  LET new == scopeOf[call[c].pobj] IN
  /\ Awake(c, "held")
  /\ call[c].stage = "inner"
  /\ scopeOf' = [scopeOf EXCEPT ![call[c].obj] = new]
  /\ proto' = [proto EXCEPT ![call[c].obj] = call[c].pobj]
  /\ lock' = Transferred(call[c].outer, new, c)
  /\ held' = [held EXCEPT ![c] = @ \ {call[c].outer}]
  /\ setSlotScope' = None
  /\ call' = [call EXCEPT ![c].stage = "set", ![c].outer = new]
  /\ UNCHANGED <<program, requests, gc, setSlotBusy, at, asleep>>

\* No scope has to change, or obj gets one of its own, if there is memory.
SetInPlace(c) ==
  LET o == call[c].obj IN
  /\ Awake(c, "held")
  /\ call[c].stage = "outer"
  /\ \/ /\ ~SharesScope(o) \/ (call[c].pobj # None /\
                               scopeOf[call[c].pobj] = scopeOf[o])
        /\ proto' = [proto EXCEPT ![o] = call[c].pobj]
        /\ UNCHANGED <<scopeOf, lock, held>>
     \/ /\ SharesScope(o) /\ call[c].pobj = None
        /\ proto' = [proto EXCEPT ![o] = None]
        /\ scopeOf' = [scopeOf EXCEPT ![o] = o]
        /\ lock' = Mutable(o, c)
        /\ held' = [held EXCEPT ![c] = {o}]
     \/ /\ SharesScope(o) /\ call[c].pobj = None
        /\ UNCHANGED <<heap, lock, held>>
  /\ call' = [call EXCEPT ![c].stage = "set", ![c].outer = scopeOf'[o]]
  /\ UNCHANGED <<program, requests, gc, setSlot, at, asleep>>

SetUnlocks(c) ==
  LET s == call[c].outer IN
  /\ Awake(c, "held")
  /\ call[c].stage = "set"
  /\ lock' = Unlocked(s, c)
  /\ held' = [held EXCEPT ![c] = @ \ {s}]
  /\ Goto(c, "slotdone")
  /\ UNCHANGED <<program, heap, requests, gc, setSlot, asleep, call>>

SetSlotDone(c) ==
  /\ Awake(c, "slotdone")
  /\ setSlotBusy' = FALSE
  /\ asleep' = Notified({"slot"})
  /\ call' = [call EXCEPT ![c] = NoCall]
  /\ Goto(c, "idle")
  /\ UNCHANGED <<program, heap, lock, requests, gc, setSlotScope, held>>

-----------------------------------------------------------------------------
\* Every scope was made by some context in an earlier request.
Init ==
  /\ program \in Programs
  /\ proto = InitProto
  /\ scopeOf = [o \in Objects |-> IF proto[o] = None THEN o ELSE proto[o]]
  /\ \E creator \in [Objects -> Contexts] :
       lock = [o \in Objects |->
                 IF proto[o] = None THEN NewScope(creator[o]) ELSE SharedScope]
  /\ requestDepth = [c \in Contexts |-> 0]
  /\ scopeToShare = [c \in Contexts |-> None]
  /\ requestCount = 0
  /\ gcLevel = 0 /\ gcThread = None /\ gcPoke = FALSE
  /\ setSlotBusy = FALSE /\ setSlotScope = None
  /\ at = [c \in Contexts |-> "idle"]
  /\ asleep = [c \in Contexts |-> "no"]
  /\ call = [c \in Contexts |-> NoCall]
  /\ held = [c \in Contexts |-> {}]

\* What the embedding program makes a context do.
Call(c) ==
  \/ JS_BeginRequest(c) \/ JS_YieldRequest(c) \/ js_GC(c)
  \/ \E o \in program[c].uses : AccessObject(c, o)
  \/ \E o \in program[c].uses, p \in Objects \cup {None} :
       js_SetProtoOrParent(c, o, p)
  \/ js_GetMutableScope(c)

\* A thread whose condition does not hold waits (again).
Wait(c) == AwaitGC(c) \/ AwaitRequests(c) \/ ClaimWaitsOn(c)

\* A call that has begun goes on.
Continue(c) ==
  \/ RequestBegins(c) \/ YieldReturns(c) \/ OtherGCEnds(c) \/ Rendezvous(c)
  \/ GCEnds(c)
  \/ Relock(c) \/ ClaimOwner(c) \/ ClaimShared(c) \/ ClaimWaits(c)
  \/ ClaimResumes(c) \/ Acquire(c) \/ js_UnlockObj(c)
  \/ SetSlotSuspends(c) \/ SetSlotWaits(c) \/ SetSlotResumes(c)
  \/ SetSlotAgain(c) \/ Walk(c) \/ NestLocks(c) \/ MoveToScope(c)
  \/ SetInPlace(c) \/ SetUnlocks(c) \/ SetSlotDone(c)

Next ==
  \E c \in Contexts : Call(c) \/ Wait(c) \/ Continue(c) \/ JS_EndRequest(c)

\* A thread goes on whenever it can, even if others keep taking the mutex or
\* starting collections; and every request ends.
Fairness ==
  \A c \in Contexts : SF_vars(Continue(c)) /\ SF_vars(JS_EndRequest(c))

Spec == Init /\ [][Next]_vars /\ Fairness

-----------------------------------------------------------------------------
(* A scope that one thread has locked, with or without a lock, no other    *)
(* thread has locked (jslock.c: ClaimScope, js_LockScope).                 *)
Exclusive == \A c, d \in Contexts : c # d => held[c] \cap held[d] = {}

(* While one thread collects garbage, every other one is outside of a      *)
(* request or waits for something with its request suspended (js_GC).      *)
StopTheWorld ==
  \A g, c \in Contexts :
    at[g] = "collect" /\ c # g =>
      \/ at[c] \in {"begin", "yielded", "gcwait", "wait", "busy", "resume"}
      \/ at[c] = "idle" /\ requestDepth[c] = 0

Locking(c) == at[c] \in {"claim", "wait", "acquire"}

(* js_LockScope comes to an end: nobody waits for ever for a scope that    *)
(* another context owns or has locked.                                     *)
ScopeGranted == \A c \in Contexts : Locking(c) ~> ~Locking(c)

(* Every collection comes to an end: the other requests end or are         *)
(* suspended, and nobody in a request waits for the collector (js_GC).     *)
GCFinishes == gcThread # None ~> gcThread = None
=============================================================================
