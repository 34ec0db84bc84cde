---------------------------- MODULE SqliteSemFile ----------------------------
(***************************************************************************)
(* How the eCos port of SQLite opens, locks and closes a database file     *)
(* (os_unix.c built with OS_VXWORKS): the list of file IDs, the lists of   *)
(* unixLockInfo and unixOpenCnt structures keyed by the address of a file  *)
(* ID, and a named semaphore of value 1 for every file, whose name is the  *)
(* path with '/' replaced by '_'.                                          *)
(*                                                                         *)
(* The three lists are protected by the master mutex, which is not         *)
(* recursive.  A connection is one unixFile, used by one thread; the pager *)
(* asks it for locks in the order pager.c does.  sem_open and the          *)
(* semaphore are those of NamedSem: SQLite never closes or unlinks one.    *)
(***************************************************************************)
EXTENDS Naturals, FiniteSets

CONSTANTS
  Conns,        \* the connections
  Files,        \* canonical path names of database files
  SemOf,        \* SemOf[f]: the semaphore name made from path f
  FileIds,      \* the addresses sqlite3_malloc can give a vxworksFileId
  NULL,         \* the null pointer, which also is SEM_FAILED
  MaxFailures   \* bound of the model: system calls that fail

ASSUME SqliteSemFileAssumption ==
  /\ IsFiniteSet(Conns)
  /\ DOMAIN SemOf = Files
  /\ NULL \notin Conns \cup Files \cup FileIds \cup Nat
  /\ \A f \in Files : SemOf[f] # NULL
  /\ MaxFailures \in Nat

NO_LOCK        == 0
SHARED_LOCK    == 1
RESERVED_LOCK  == 2
EXCLUSIVE_LOCK == 4

VARIABLES
  disk,        \* the database files that exist
  idName,      \* idName[a]: zCanonicalName of the file ID at address a
  idRef,       \* idRef[a]: its nRef; 0 when it is not in vxworksFileList
  lockRef,     \* lockRef[a]: nRef of the unixLockInfo with key a, or 0
  openRef,     \* openRef[a]: nRef of the unixOpenCnt with key a, or 0
  pSem,        \* pSem[a]: its semaphore, or NULL
  value,       \* value[s]: the named semaphore s; NULL when not created
  master,      \* the connection that holds the master mutex, or NULL
  pc,          \* pc[c]: what connection c is doing
  file,        \* file[c]: the path it was opened with, or NULL
  pId,         \* pId[c]: its file ID, or NULL
  locktype,    \* locktype[c]
  failures     \* how many system calls have failed

vars == <<disk, idName, idRef, lockRef, openRef, pSem, value, master, pc,
          file, pId, locktype, failures>>

idVars   == <<idName, idRef>>
infoVars == <<lockRef, openRef, pSem>>
connVars == <<file, pId, locktype>>

Goto(c, l) == pc' = [pc EXCEPT ![c] = l]

Fail ==
  /\ failures < MaxFailures
  /\ failures' = failures + 1

\* The semaphore that connection c locks: pFile->pOpen->pSem.
Sem(c) == pSem[pId[c]]

-----------------------------------------------------------------------------
(* unixOpen of a main database.                                            *)

OpenFile(c, f) ==
  /\ pc[c] = "closed"
  /\ disk' = disk \cup {f}
  /\ file' = [file EXCEPT ![c] = f]
  /\ Goto(c, "find_id")
  /\ UNCHANGED <<idVars, infoVars, value, master, pId, locktype, failures>>

\* vxworksFindFileId: the file ID of this path, or a new one.
vxworksFindFileId(c) ==
  /\ pc[c] = "find_id"
  /\ LET known == {a \in FileIds : idRef[a] > 0 /\ idName[a] = file[c]} IN
       \/ \E a \in known :
            /\ master = NULL
            /\ idRef' = [idRef EXCEPT ![a] = @ + 1]
            /\ pId' = [pId EXCEPT ![c] = a]
            /\ Goto(c, "fill_in")
            /\ UNCHANGED <<idName, failures>>
       \/ \E a \in FileIds :
            /\ master = NULL
            /\ known = {}
            /\ idRef[a] = 0
            /\ idRef' = [idRef EXCEPT ![a] = 1]
            /\ idName' = [idName EXCEPT ![a] = file[c]]
            /\ pId' = [pId EXCEPT ![c] = a]
            /\ Goto(c, "fill_in")
            /\ UNCHANGED failures
       \/ /\ Fail
          /\ Goto(c, "failed")
          /\ UNCHANGED <<idVars, pId>>
  /\ UNCHANGED <<disk, infoVars, value, master, file, locktype>>

\* findLockInfo fails: fstat, or malloc of either structure.  Nothing is left
\* behind but the reference to the file ID.
findLockInfoFails(c) ==
  /\ Fail
  /\ Goto(c, "failed")
  /\ UNCHANGED <<infoVars, value>>

\* findLockInfo and then, when the unixOpenCnt has no semaphore yet, sem_open
\* with O_CREAT and initial value 1.
Assumed(a) == IF openRef[a] = 0 THEN NULL ELSE SemOf[idName[a]]
Existing(a) == IF openRef[a] = 0 THEN NULL ELSE pSem[a]

FindInfoAndSem(c) ==
  LET a == pId[c]
      s == SemOf[file[c]] IN
    /\ lockRef' = [lockRef EXCEPT ![a] = @ + 1]
    /\ openRef' = [openRef EXCEPT ![a] = @ + 1]
    /\ \/ /\ Existing(a) # NULL
          /\ Goto(c, "open")
          /\ UNCHANGED <<pSem, value, failures>>
       \/ /\ Existing(a) = NULL
          /\ pSem' = [pSem EXCEPT ![a] = s]
          /\ value' = [value EXCEPT ![s] = IF @ = NULL THEN 1 ELSE @]
          /\ Goto(c, "open")
          /\ UNCHANGED failures
       \/ /\ Existing(a) = NULL
          /\ Fail
          /\ pSem' = [pSem EXCEPT ![a] = NULL]
          /\ Goto(c, "failed")
          /\ UNCHANGED value

fillInUnixFile(c) ==
  /\ pc[c] = "fill_in"
  /\ master = NULL
  /\ findLockInfoFails(c) \/ FindInfoAndSem(c)
  /\ UNCHANGED <<disk, idVars, master, connVars>>

\* rc!=SQLITE_OK: unlink(zFilename) and close(h); no reference is given back.
OpenFails(c) ==
  /\ pc[c] = "failed"
  /\ disk' = disk \ {file[c]}
  /\ file' = [file EXCEPT ![c] = NULL]
  /\ pId' = [pId EXCEPT ![c] = NULL]
  /\ Goto(c, "closed")
  /\ UNCHANGED <<idVars, infoVars, value, master, locktype, failures>>

-----------------------------------------------------------------------------
(* Locking.                                                                *)

\* The transitions pager.c asks for: SHARED first; then RESERVED, followed by
\* EXCLUSIVE; or EXCLUSIVE at once, to roll a hot journal back.
Requests(l) ==
  CASE l = NO_LOCK       -> {SHARED_LOCK}
    [] l = SHARED_LOCK   -> {RESERVED_LOCK, EXCLUSIVE_LOCK}
    [] l = RESERVED_LOCK -> {EXCLUSIVE_LOCK}
    [] OTHER             -> {}

semLock(c) ==
  /\ pc[c] = "open"
  /\ \E l \in Requests(locktype[c]) :
       \/ /\ locktype[c] > NO_LOCK
          /\ locktype' = [locktype EXCEPT ![c] = l]
          /\ UNCHANGED value
       \/ /\ locktype[c] = NO_LOCK
          /\ value[Sem(c)] > 0
          /\ value' = [value EXCEPT ![Sem(c)] = @ - 1]
          /\ locktype' = [locktype EXCEPT ![c] = l]
       \/ /\ locktype[c] = NO_LOCK       \* SQLITE_BUSY
          /\ value[Sem(c)] = 0
          /\ UNCHANGED <<value, locktype>>
  /\ UNCHANGED <<disk, idVars, infoVars, master, pc, file, pId, failures>>

\* What semCheckReservedLock reports to the pager, which asks while it holds
\* a SHARED lock.  The semaphore is put back if it could be had.
AtMostShared(c) == locktype[c] <= SHARED_LOCK
BelowShared(c) == locktype[c] < SHARED_LOCK

semCheckReservedLock(c) ==
  \/ locktype[c] > SHARED_LOCK
  \/ value[Sem(c)] = 0 /\ BelowShared(c)

\* semUnlock to level l: what happens to the semaphore.
PostAlways(c, l) ==
  IF locktype[c] = l THEN value ELSE [value EXCEPT ![Sem(c)] = @ + 1]
NoPost(c, l) == value
Posted(c, l) ==
  IF locktype[c] = l \/ l = SHARED_LOCK THEN value
  ELSE [value EXCEPT ![Sem(c)] = @ + 1]

\* pagerUnlock drops every lock; the end of a write transaction keeps SHARED.
semUnlock(c) ==
  /\ pc[c] = "open"
  /\ \E l \in {NO_LOCK, SHARED_LOCK} :
       /\ l = SHARED_LOCK => locktype[c] >= RESERVED_LOCK
       /\ value' = Posted(c, l)
       /\ locktype' = [locktype EXCEPT ![c] = l]
  /\ UNCHANGED <<disk, idVars, infoVars, master, pc, file, pId, failures>>

-----------------------------------------------------------------------------
(* semClose.                                                               *)

semClose(c) ==
  /\ pc[c] = "open"
  /\ value' = Posted(c, NO_LOCK)
  /\ locktype' = [locktype EXCEPT ![c] = NO_LOCK]
  /\ Goto(c, "release")
  /\ UNCHANGED <<disk, idVars, infoVars, master, file, pId, failures>>

\* The master mutex is left before closeUnixFile, which enters it again.
CloseInside == "close"
AfterRelease == "leave"

\* releaseLockInfo and releaseOpenCnt under the master mutex.
Release(c) ==
  /\ pc[c] = "release"
  /\ master = NULL
  /\ master' = c
  /\ lockRef' = [lockRef EXCEPT ![pId[c]] = @ - 1]
  /\ openRef' = [openRef EXCEPT ![pId[c]] = @ - 1]
  /\ pSem' = [pSem EXCEPT ![pId[c]] = IF openRef[pId[c]] = 1 THEN NULL ELSE @]
  /\ Goto(c, AfterRelease)
  /\ UNCHANGED <<disk, idVars, value, connVars, failures>>

LeaveMutex(c) ==
  /\ pc[c] = "leave"
  /\ master' = NULL
  /\ Goto(c, "close")
  /\ UNCHANGED <<disk, idVars, infoVars, value, connVars, failures>>

\* vxworksReleaseFileId takes the file ID out of the list with the last
\* reference.
LastTwo(n) == IF n <= 2 THEN 0 ELSE n - 1
Dropped(n) == n - 1

\* closeUnixFile; when close(h) fails it returns before it gives the file ID
\* back, and semClose reports success all the same.
closeUnixFile(c) ==
  /\ pc[c] = "close"
  /\ \/ /\ master = NULL
        /\ idRef' = [idRef EXCEPT ![pId[c]] = Dropped(@)]
        /\ UNCHANGED failures
     \/ /\ Fail
        /\ UNCHANGED idRef
  /\ file' = [file EXCEPT ![c] = NULL]
  /\ pId' = [pId EXCEPT ![c] = NULL]
  /\ Goto(c, "closed")
  /\ UNCHANGED <<disk, idName, infoVars, value, master, locktype>>

-----------------------------------------------------------------------------
Init ==
  /\ disk = {}
  /\ idName = [a \in FileIds |-> NULL]
  /\ idRef = [a \in FileIds |-> 0]
  /\ lockRef = [a \in FileIds |-> 0]
  /\ openRef = [a \in FileIds |-> 0]
  /\ pSem = [a \in FileIds |-> NULL]
  /\ value = [s \in {SemOf[f] : f \in Files} |-> NULL]
  /\ master = NULL
  /\ pc = [c \in Conns |-> "closed"]
  /\ file = [c \in Conns |-> NULL]
  /\ pId = [c \in Conns |-> NULL]
  /\ locktype = [c \in Conns |-> NO_LOCK]
  /\ failures = 0

\* The steps a call makes on its own once it has begun.
Proceed(c) ==
  \/ vxworksFindFileId(c) \/ fillInUnixFile(c) \/ OpenFails(c)
  \/ Release(c) \/ LeaveMutex(c) \/ closeUnixFile(c)

Next ==
  \E c \in Conns :
    \/ \E f \in Files : OpenFile(c, f)
    \/ semLock(c) \/ semUnlock(c) \/ semClose(c)
    \/ Proceed(c)

\* Every thread is scheduled, and the kernel mutex queues those that wait.
Fairness == \A c \in Conns : SF_vars(Proceed(c))

Spec == Init /\ [][Next]_vars /\ Fairness

-----------------------------------------------------------------------------
Holders(s) == {c \in Conns : locktype[c] > NO_LOCK /\ SemOf[file[c]] = s}

\* "all locks SHARED or above are really EXCLUSIVE locks and exclude all other
\* processes from access the file" (os_unix.c:2130-2132): two connections
\* never hold a lock on one file, whatever was opened, failed or closed
\* before, and however file IDs were reused.
Exclusive ==
  \A c, d \in Conns :
    /\ locktype[c] > NO_LOCK
    /\ locktype[d] > NO_LOCK
    /\ file[c] = file[d]
    => c = d

\* The one unit of a semaphore is in the semaphore or with one connection,
\* also where two paths give one semaphore name: no unlock, failed open or
\* close loses it, which would lock the file for ever, or adds another.
OneUnit ==
  \A s \in DOMAIN value :
    value[s] # NULL => value[s] + Cardinality(Holders(s)) = 1

\* An open connection can use its three structures and its semaphore until it
\* gives them back: a failed open or the close of another connection never
\* frees them, and an unixOpenCnt left behind by a failed sem_open gets its
\* semaphore with the next open (assert(pSem), line 2177).
Attached ==
  \A c \in Conns :
    pc[c] \in {"open", "release"} =>
      /\ idRef[pId[c]] > 0 /\ idName[pId[c]] = file[c]
      /\ lockRef[pId[c]] > 0 /\ openRef[pId[c]] > 0
      /\ Sem(c) = SemOf[file[c]]

\* The lists are keyed by the address of a file ID.  No entry outlives its
\* file ID: another file that gets the same address would find it and lock
\* the wrong semaphore.
KeysLive ==
  \A a \in FileIds : lockRef[a] > 0 \/ openRef[a] > 0 => idRef[a] > 0

\* A connection that has just got its SHARED lock and asks, in hasHotJournal,
\* for a RESERVED lock is told the truth; a wrong "yes" would leave the
\* journal of a crashed transaction unplayed (comment at lines 2065-2068).
ReservedRight ==
  \A c \in Conns :
    pc[c] = "open" /\ locktype[c] = SHARED_LOCK =>
      (semCheckReservedLock(c) <=>
         \E d \in Conns : file[d] = file[c] /\ locktype[d] > SHARED_LOCK)

\* A close ends: no thread waits for the master mutex it holds itself.
CloseEnds == \A c \in Conns : pc[c] = "release" ~> pc[c] = "closed"
=============================================================================
