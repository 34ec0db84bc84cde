------------------------ MODULE SqliteSemFileProofs ------------------------
(***************************************************************************)
(* Proofs about SqliteSemFile, for any finite set of connections, any      *)
(* files, any mapping of paths to semaphore names, any addresses of file   *)
(* IDs and any number of failing system calls.                             *)
(***************************************************************************)
EXTENDS SqliteSemFile, FiniteSetTheorems, TLAPS

\* What every step keeps, and the theorems below follow from.  The counts
\* are bounds: a failed open gives nothing back, so a count may be too high,
\* and never too low.
Sems == {SemOf[f] : f \in Files}

TypeOK ==
  /\ disk \subseteq Files
  /\ idName \in [FileIds -> Files \cup {NULL}]
  /\ idRef \in [FileIds -> Nat]
  /\ lockRef \in [FileIds -> Nat]
  /\ openRef \in [FileIds -> Nat]
  /\ pSem \in [FileIds -> Sems \cup {NULL}]
  /\ value \in [Sems -> {NULL, 0, 1}]
  /\ master \in Conns \cup {NULL}
  /\ pc \in [Conns -> {"closed", "find_id", "fill_in", "failed", "open",
                       "release", "leave", "close"}]
  /\ file \in [Conns -> Files \cup {NULL}]
  /\ pId \in [Conns -> FileIds \cup {NULL}]
  /\ locktype \in [Conns -> {NO_LOCK, SHARED_LOCK, RESERVED_LOCK,
                             EXCLUSIVE_LOCK}]
  /\ failures \in Nat

\* The connections that count in openRef[a], and those that have a reference
\* to the file ID at a alone.
InfoUsers(a) == {c \in Conns : pc[c] \in {"open", "release"} /\ pId[c] = a}
IdUsers(a) ==
  {c \in Conns : pc[c] \in {"fill_in", "leave", "close"} /\ pId[c] = a}

RefsCounted ==
  \A a \in FileIds :
    /\ lockRef[a] = openRef[a]
    /\ Cardinality(InfoUsers(a)) <= openRef[a]
    /\ openRef[a] + Cardinality(IdUsers(a)) <= idRef[a]

\* A semaphore kept under a key is that of the file the key stands for.
SemKept ==
  \A a \in FileIds :
    pSem[a] # NULL =>
      /\ openRef[a] > 0 /\ idName[a] \in Files
      /\ pSem[a] = SemOf[idName[a]] /\ value[pSem[a]] # NULL

ConnsRight ==
  \A c \in Conns :
    /\ pc[c] = "find_id" => file[c] \in Files
    /\ pc[c] \in {"fill_in", "open", "release", "leave", "close"} =>
         pId[c] \in FileIds /\ file[c] \in Files /\ idName[pId[c]] = file[c]
    /\ pc[c] \in {"open", "release"} => Sem(c) = SemOf[file[c]]
    /\ locktype[c] > NO_LOCK =>
         pc[c] = "open" /\ value[SemOf[file[c]]] = 0

UnitHeld ==
  /\ \A s \in Sems : value[s] = 0 => Holders(s) # {}
  /\ \A s \in Sems : \A c, d \in Holders(s) : c = d

SemInv == TypeOK /\ RefsCounted /\ SemKept /\ ConnsRight /\ UnitHeld

-----------------------------------------------------------------------------
LEMMA SemInvAtFirst == Init => SemInv
<1> SUFFICES ASSUME Init PROVE SemInv
  OBVIOUS
<1> USE SqliteSemFileAssumption DEF Init, NO_LOCK
<1>1. TypeOK
  BY DEF TypeOK, Sems, SHARED_LOCK, RESERVED_LOCK, EXCLUSIVE_LOCK
<1>2. RefsCounted
  <2> SUFFICES ASSUME NEW a \in FileIds
               PROVE  /\ Cardinality(InfoUsers(a)) = 0
                      /\ Cardinality(IdUsers(a)) = 0
    BY DEF RefsCounted
  <2>1. InfoUsers(a) = {} /\ IdUsers(a) = {}
    BY DEF InfoUsers, IdUsers
  <2>2. QED
    BY <2>1, FS_EmptySet
<1>3. SemKept /\ ConnsRight
  BY DEF SemKept, ConnsRight
<1>4. UnitHeld
  BY DEF UnitHeld, Holders, Sems
<1>5. QED
  BY <1>1, <1>2, <1>3, <1>4 DEF SemInv

\* The users of a file ID are finitely many; an address that nobody counts
\* has none.
LEMMA UsersFinite ==
  ASSUME SemInv, NEW a \in FileIds
  PROVE  /\ IsFiniteSet(InfoUsers(a)) /\ Cardinality(InfoUsers(a)) \in Nat
         /\ IsFiniteSet(IdUsers(a)) /\ Cardinality(IdUsers(a)) \in Nat
         /\ openRef[a] = 0 => InfoUsers(a) = {}
         /\ idRef[a] = 0 => openRef[a] = 0 /\ IdUsers(a) = {}
<1>1. InfoUsers(a) \in SUBSET Conns /\ IdUsers(a) \in SUBSET Conns
  BY DEF InfoUsers, IdUsers
<1>2. IsFiniteSet(InfoUsers(a)) /\ IsFiniteSet(IdUsers(a))
  BY <1>1, FS_Subset, SqliteSemFileAssumption
<1>3. Cardinality(InfoUsers(a)) \in Nat /\ Cardinality(IdUsers(a)) \in Nat
  BY <1>2, FS_CardinalityType
<1>4. openRef[a] = 0 => Cardinality(InfoUsers(a)) = 0
  BY <1>3 DEF SemInv, RefsCounted, TypeOK
<1>5. idRef[a] = 0 => openRef[a] = 0 /\ Cardinality(IdUsers(a)) = 0
  BY <1>3 DEF SemInv, RefsCounted, TypeOK
<1>6. QED
  BY <1>2, <1>3, <1>4, <1>5, FS_EmptySet

\* A connection leaves or enters a set of users: what becomes of its size.
LEMMA OneMore ==
  ASSUME NEW S, NEW x, IsFiniteSet(S), x \notin S
  PROVE  Cardinality(S \cup {x}) = Cardinality(S) + 1
BY FS_AddElement

LEMMA OneLess ==
  ASSUME NEW S, NEW x, IsFiniteSet(S), x \in S
  PROVE  Cardinality(S \ {x}) = Cardinality(S) - 1
BY FS_RemoveElement

LEMMA QuietKeeps ==
  ASSUME SemInv, UNCHANGED vars
  PROVE  SemInv'
<1> USE DEF SemInv, vars
<1>1. TypeOK' /\ SemKept' /\ ConnsRight' /\ UnitHeld'
  BY DEF TypeOK, SemKept, ConnsRight, Sem, UnitHeld, Holders
<1>2. \A a \in FileIds : InfoUsers(a)' = InfoUsers(a) /\ IdUsers(a)' = IdUsers(a)
  BY DEF InfoUsers, IdUsers
<1>3. QED
  BY <1>1, <1>2 DEF RefsCounted

LEMMA OpenFileKeeps ==
  ASSUME SemInv, NEW c \in Conns, NEW f \in Files, OpenFile(c, f)
  PROVE  SemInv'
<1> USE SqliteSemFileAssumption
    DEF SemInv, OpenFile, Goto, idVars, infoVars, NO_LOCK
<1>1. TypeOK'
  BY DEF TypeOK
<1>2. RefsCounted'
  <2>1. \A a \in FileIds : InfoUsers(a)' = InfoUsers(a)
                           /\ IdUsers(a)' = IdUsers(a)
    BY DEF InfoUsers, IdUsers, TypeOK
  <2>2. QED
    BY <2>1 DEF RefsCounted
<1>3. SemKept' /\ ConnsRight'
  BY DEF SemKept, ConnsRight, Sem, TypeOK
<1>4. UnitHeld'
  <2>1. locktype[c] = NO_LOCK
    BY DEF ConnsRight, TypeOK, SHARED_LOCK, RESERVED_LOCK, EXCLUSIVE_LOCK
  <2>2. \A s \in Sems : Holders(s)' = Holders(s)
    BY <2>1 DEF Holders, TypeOK
  <2>3. QED
    BY <2>2 DEF UnitHeld
<1>5. QED
  BY <1>1, <1>2, <1>3, <1>4

LEMMA FindFileIdKeeps ==
  ASSUME SemInv, NEW c \in Conns, vxworksFindFileId(c)
  PROVE  SemInv'
<1> USE SqliteSemFileAssumption DEF SemInv, Goto, idVars, infoVars, NO_LOCK
<1> DEFINE known == {a \in FileIds : idRef[a] > 0 /\ idName[a] = file[c]}
<1>0. /\ pc[c] = "find_id" /\ file[c] \in Files
      /\ UNCHANGED <<disk, infoVars, value, master, file, locktype>>
  BY DEF vxworksFindFileId, ConnsRight
<1>unit. UnitHeld'
  <2>1. \A s \in Sems : Holders(s)' = Holders(s)
    BY <1>0 DEF Holders, TypeOK
  <2>2. QED
    BY <1>0, <2>1 DEF UnitHeld
<1>1. ASSUME NEW a \in known,
             idRef' = [idRef EXCEPT ![a] = @ + 1],
             pId' = [pId EXCEPT ![c] = a],
             Goto(c, "fill_in"), UNCHANGED <<idName, failures>>
      PROVE  SemInv'
  <2>1. TypeOK'
    BY <1>0, <1>1 DEF TypeOK
  <2>2. RefsCounted'
    <3> SUFFICES ASSUME NEW b \in FileIds
                 PROVE  /\ Cardinality(InfoUsers(b)') <= openRef[b]
                        /\ openRef[b] + Cardinality(IdUsers(b)') <= idRef'[b]
      BY <1>0 DEF RefsCounted
    <3>1. InfoUsers(b)' = InfoUsers(b) /\ c \notin IdUsers(b)
      BY <1>0, <1>1 DEF InfoUsers, IdUsers, TypeOK
    <3>2. IdUsers(b)' = IF b = a THEN IdUsers(b) \cup {c} ELSE IdUsers(b)
      BY <1>0, <1>1 DEF IdUsers, TypeOK
    <3>3. Cardinality(IdUsers(b)')
            = IF b = a THEN Cardinality(IdUsers(b)) + 1
                       ELSE Cardinality(IdUsers(b))
      BY <3>1, <3>2, UsersFinite, OneMore
    <3>4. QED
      BY <1>1, <3>1, <3>3, UsersFinite DEF RefsCounted, TypeOK
  <2>3. SemKept' /\ ConnsRight'
    BY <1>0, <1>1 DEF SemKept, ConnsRight, Sem, TypeOK
  <2>4. QED
    BY <2>1, <2>2, <2>3, <1>unit
<1>2. ASSUME NEW a \in FileIds, idRef[a] = 0,
             idRef' = [idRef EXCEPT ![a] = 1],
             idName' = [idName EXCEPT ![a] = file[c]],
             pId' = [pId EXCEPT ![c] = a],
             Goto(c, "fill_in"), UNCHANGED failures
      PROVE  SemInv'
  <2>0. openRef[a] = 0 /\ InfoUsers(a) = {} /\ IdUsers(a) = {}
    BY <1>2, UsersFinite
  <2>1. TypeOK'
    BY <1>0, <1>2 DEF TypeOK
  <2>2. RefsCounted'
    <3> SUFFICES ASSUME NEW b \in FileIds
                 PROVE  /\ Cardinality(InfoUsers(b)') <= openRef[b]
                        /\ openRef[b] + Cardinality(IdUsers(b)') <= idRef'[b]
      BY <1>0 DEF RefsCounted
    <3>1. InfoUsers(b)' = InfoUsers(b) /\ c \notin IdUsers(b)
      BY <1>0, <1>2 DEF InfoUsers, IdUsers, TypeOK
    <3>2. IdUsers(b)' = IF b = a THEN IdUsers(b) \cup {c} ELSE IdUsers(b)
      BY <1>0, <1>2 DEF IdUsers, TypeOK
    <3>3. Cardinality(IdUsers(b)')
            = IF b = a THEN 1 ELSE Cardinality(IdUsers(b))
      BY <2>0, <3>1, <3>2, UsersFinite, OneMore, FS_EmptySet
    <3>4. QED
      BY <1>2, <2>0, <3>1, <3>3, UsersFinite DEF RefsCounted, TypeOK
  <2>3. SemKept'
    BY <1>0, <1>2, <2>0 DEF SemKept, TypeOK
  <2>4. ConnsRight'
    <3>1. \A d \in Conns :
            pc[d] \in {"fill_in", "open", "release", "leave", "close"} =>
              pId[d] # a
      BY <2>0 DEF InfoUsers, IdUsers
    <3>2. QED
      BY <1>0, <1>2, <3>1 DEF ConnsRight, Sem, TypeOK
  <2>5. QED
    BY <2>1, <2>2, <2>3, <2>4, <1>unit
<1>3. ASSUME Fail, Goto(c, "failed"), UNCHANGED <<idVars, pId>>
      PROVE  SemInv'
  <2>1. TypeOK'
    BY <1>0, <1>3 DEF TypeOK, Fail
  <2>2. RefsCounted'
    <3>1. \A a \in FileIds : InfoUsers(a)' = InfoUsers(a)
                             /\ IdUsers(a)' = IdUsers(a)
      BY <1>0, <1>3 DEF InfoUsers, IdUsers, TypeOK
    <3>2. QED
      BY <1>0, <1>3, <3>1 DEF RefsCounted
  <2>3. SemKept' /\ ConnsRight'
    BY <1>0, <1>3 DEF SemKept, ConnsRight, Sem, TypeOK
  <2>4. QED
    BY <2>1, <2>2, <2>3, <1>unit
<1>4. QED
  BY <1>1, <1>2, <1>3 DEF vxworksFindFileId

\* findLockInfo and sem_open; c joins the users of the unixOpenCnt, or is
\* counted there and fails.
LEMMA FillInKeeps ==
  ASSUME SemInv, NEW c \in Conns, fillInUnixFile(c)
  PROVE  SemInv'
<1> USE SqliteSemFileAssumption
    DEF SemInv, Goto, idVars, infoVars, connVars, NO_LOCK
<1> DEFINE a == pId[c]
<1>0. /\ pc[c] = "fill_in" /\ file[c] \in Files
      /\ a \in FileIds /\ idName[a] = file[c] /\ SemOf[file[c]] \in Sems
      /\ UNCHANGED <<disk, idName, idRef, master, file, pId, locktype>>
  BY DEF fillInUnixFile, ConnsRight, Sems
<1>1. CASE findLockInfoFails(c)
  <2> USE <1>0, <1>1 DEF findLockInfoFails
  <2>1. TypeOK'
    BY DEF TypeOK, Fail
  <2>2. RefsCounted'
    <3> SUFFICES ASSUME NEW b \in FileIds
                 PROVE  /\ Cardinality(InfoUsers(b)') <= openRef[b]
                        /\ openRef[b] + Cardinality(IdUsers(b)') <= idRef[b]
      BY DEF RefsCounted
    <3>1. InfoUsers(b)' = InfoUsers(b)
      BY DEF InfoUsers, TypeOK
    <3>2. IdUsers(b)' \in SUBSET IdUsers(b)
      BY DEF IdUsers, TypeOK
    <3>3. Cardinality(IdUsers(b)') <= Cardinality(IdUsers(b))
          /\ Cardinality(IdUsers(b)') \in Nat
      BY <3>2, UsersFinite, FS_Subset, FS_CardinalityType
    <3>4. QED
      BY <3>1, <3>3, UsersFinite DEF RefsCounted, TypeOK
  <2>3. SemKept' /\ ConnsRight'
    BY DEF SemKept, ConnsRight, Sem, TypeOK
  <2>4. UnitHeld'
    BY DEF UnitHeld, Holders
  <2>5. QED
    BY <2>1, <2>2, <2>3, <2>4
<1>2. CASE FindInfoAndSem(c)
  <2> DEFINE s == SemOf[file[c]]
  <2>0. /\ lockRef' = [lockRef EXCEPT ![a] = @ + 1]
        /\ openRef' = [openRef EXCEPT ![a] = @ + 1]
    BY <1>2 DEF FindInfoAndSem
  <2>refs. ASSUME pc' \in {[pc EXCEPT ![c] = "open"],
                           [pc EXCEPT ![c] = "failed"]}
           PROVE  RefsCounted'
    <3> SUFFICES ASSUME NEW b \in FileIds
                 PROVE  /\ Cardinality(InfoUsers(b)') <= openRef'[b]
                        /\ openRef'[b] + Cardinality(IdUsers(b)') <= idRef[b]
      BY <1>0, <2>0 DEF RefsCounted, TypeOK
    <3>1. InfoUsers(b)' = IF b = a /\ pc'[c] = "open"
                          THEN InfoUsers(b) \cup {c} ELSE InfoUsers(b)
      BY <1>0, <2>refs DEF InfoUsers, TypeOK
    <3>2. IdUsers(b)' = IF b = a THEN IdUsers(b) \ {c} ELSE IdUsers(b)
      BY <1>0, <2>refs DEF IdUsers, TypeOK
    <3>3. c \notin InfoUsers(b) /\ (b = a => c \in IdUsers(b))
      BY <1>0 DEF InfoUsers, IdUsers
    <3>4. /\ b # a => Cardinality(InfoUsers(b)') = Cardinality(InfoUsers(b))
          /\ b = a => Cardinality(InfoUsers(b)')
                        \in {Cardinality(InfoUsers(b)),
                            Cardinality(InfoUsers(b)) + 1}
      BY <3>1, <3>3, UsersFinite, OneMore
    <3>5. Cardinality(IdUsers(b)')
            = IF b = a THEN Cardinality(IdUsers(b)) - 1
                       ELSE Cardinality(IdUsers(b))
      BY <3>2, <3>3, UsersFinite, OneLess
    <3>6. QED
      BY <1>0, <2>0, <3>4, <3>5, UsersFinite DEF RefsCounted, TypeOK
  <2>1. CASE /\ Existing(a) # NULL /\ Goto(c, "open")
             /\ UNCHANGED <<pSem, value, failures>>
    <3> USE <1>0, <2>0, <2>1
    <3>1. TypeOK'
      BY DEF TypeOK
    <3>2. RefsCounted'
      BY <2>refs
    <3>3. SemKept'
      BY DEF SemKept, TypeOK
    <3>4. pSem[a] # NULL
      BY DEF Existing
    <3>5. ConnsRight'
      BY <3>4 DEF SemKept, ConnsRight, Sem, TypeOK
    <3>6. UnitHeld'
      BY DEF UnitHeld, Holders
    <3>7. QED
      BY <3>1, <3>2, <3>3, <3>5, <3>6
  <2>2. CASE /\ Existing(a) = NULL
             /\ pSem' = [pSem EXCEPT ![a] = s]
             /\ value' = [value EXCEPT ![s] = IF @ = NULL THEN 1 ELSE @]
             /\ Goto(c, "open") /\ UNCHANGED failures
    <3> USE <1>0, <2>0, <2>2
    <3>1. TypeOK'
      BY DEF TypeOK
    <3>2. RefsCounted'
      BY <2>refs
    <3>3. SemKept'
      BY DEF SemKept, TypeOK
    <3>4. InfoUsers(a) = {}
      BY UsersFinite DEF Existing, SemKept, ConnsRight, Sem, InfoUsers
    <3>5. ConnsRight'
      BY <3>4 DEF ConnsRight, Sem, TypeOK, InfoUsers
    <3>6. UnitHeld'
      BY DEF UnitHeld, Holders, TypeOK
    <3>7. QED
      BY <3>1, <3>2, <3>3, <3>5, <3>6
  <2>3. CASE /\ Existing(a) = NULL /\ Fail
             /\ pSem' = [pSem EXCEPT ![a] = NULL]
             /\ Goto(c, "failed") /\ UNCHANGED value
    <3> USE <1>0, <2>0, <2>3
    <3>1. TypeOK'
      BY DEF TypeOK, Fail
    <3>2. RefsCounted'
      BY <2>refs
    <3>3. SemKept'
      BY DEF SemKept, TypeOK
    <3>4. InfoUsers(a) = {}
      BY UsersFinite DEF Existing, SemKept, ConnsRight, Sem, InfoUsers
    <3>5. ConnsRight'
      BY <3>4 DEF ConnsRight, Sem, TypeOK, InfoUsers
    <3>6. UnitHeld'
      BY DEF UnitHeld, Holders
    <3>7. QED
      BY <3>1, <3>2, <3>3, <3>5, <3>6
  <2>4. QED
    BY <1>2, <2>1, <2>2, <2>3 DEF FindInfoAndSem
<1>3. QED
  BY <1>1, <1>2 DEF fillInUnixFile

LEMMA OpenFailsKeeps ==
  ASSUME SemInv, NEW c \in Conns, OpenFails(c)
  PROVE  SemInv'
<1> USE SqliteSemFileAssumption
    DEF SemInv, OpenFails, Goto, idVars, infoVars, NO_LOCK
<1>1. TypeOK'
  BY DEF TypeOK
<1>2. RefsCounted'
  <2>1. \A a \in FileIds : InfoUsers(a)' = InfoUsers(a)
                           /\ IdUsers(a)' = IdUsers(a)
    BY DEF InfoUsers, IdUsers, TypeOK
  <2>2. QED
    BY <2>1 DEF RefsCounted
<1>3. SemKept' /\ ConnsRight'
  BY DEF SemKept, ConnsRight, Sem, TypeOK
<1>4. UnitHeld'
  <2>1. \A s \in Sems : Holders(s)' = Holders(s)
    BY DEF Holders, TypeOK, ConnsRight
  <2>2. QED
    BY <2>1 DEF UnitHeld
<1>5. QED
  BY <1>1, <1>2, <1>3, <1>4

-----------------------------------------------------------------------------
(* The unit of the semaphore: taken, kept, or given back by its holder.    *)

\* An open connection locks the semaphore of its file, which exists.
LEMMA OpenHasSem ==
  ASSUME SemInv, NEW c \in Conns, pc[c] \in {"open", "release"}
  PROVE  /\ file[c] \in Files /\ Sem(c) = SemOf[file[c]]
         /\ Sem(c) \in Sems /\ value[Sem(c)] \in {0, 1}
BY SqliteSemFileAssumption
   DEF SemInv, ConnsRight, SemKept, Sem, Sems, TypeOK

\* Nothing but the lock and the semaphore of c changes: the rest is kept.
LEMMA LocksOnly ==
  ASSUME SemInv, NEW c \in Conns, pc[c] = "open",
         pc' \in {pc, [pc EXCEPT ![c] = "release"]},
         NEW l \in {NO_LOCK, SHARED_LOCK, RESERVED_LOCK, EXCLUSIVE_LOCK},
         pc'[c] = "release" => l = NO_LOCK,
         locktype' = [locktype EXCEPT ![c] = l],
         NEW v \in {0, 1}, value' = [value EXCEPT ![Sem(c)] = v],
         v = 0 <=> l > NO_LOCK \/ (locktype[c] = NO_LOCK /\ value[Sem(c)] = 0),
         locktype[c] = NO_LOCK /\ l > NO_LOCK => value[Sem(c)] = 1,
         UNCHANGED <<disk, idVars, infoVars, master, file, pId, failures>>
  PROVE  SemInv'
<1> USE SqliteSemFileAssumption
    DEF SemInv, idVars, infoVars, NO_LOCK, SHARED_LOCK, RESERVED_LOCK,
        EXCLUSIVE_LOCK
<1>0. /\ file[c] \in Files /\ Sem(c) = SemOf[file[c]] /\ Sem(c) \in Sems
      /\ value[Sem(c)] \in {0, 1}
  BY OpenHasSem
<1>1. TypeOK'
  BY <1>0 DEF TypeOK
<1>2. RefsCounted'
  <2>1. \A a \in FileIds : InfoUsers(a)' = InfoUsers(a)
                           /\ IdUsers(a)' = IdUsers(a)
    BY DEF InfoUsers, IdUsers, TypeOK
  <2>2. QED
    BY <2>1 DEF RefsCounted
<1>3. SemKept'
  BY <1>0 DEF SemKept, TypeOK
<1> PICK s \in Sems : s = Sem(c)
  BY <1>0
<1>4. ConnsRight'
  <2>1. \A d \in Conns : locktype[d] > 0 /\ SemOf[file[d]] = s /\ d # c
                           => locktype[c] = 0 /\ value[s] = 0
    BY <1>0 DEF ConnsRight, UnitHeld, Holders, TypeOK
  <2>2. QED
    BY <1>0, <2>1 DEF ConnsRight, Sem, TypeOK
<1>5. UnitHeld'
  <2>1. \A t \in Sems : t # s => Holders(t)' = Holders(t)
    BY <1>0 DEF Holders, TypeOK
  <2>2. Holders(s)' = IF l > 0 THEN Holders(s) \cup {c} ELSE Holders(s) \ {c}
    BY <1>0 DEF Holders, TypeOK
  <2>3. locktype[c] > 0 => Holders(s) = {c}
    BY <1>0 DEF Holders, UnitHeld
  <2>4. value[s] = 1 => Holders(s) \subseteq {c}
    BY <1>0 DEF Holders, ConnsRight
  <2>5. c \in Holders(s) <=> locktype[c] > 0
    BY <1>0 DEF Holders
  <2>6. /\ \A x, y \in Holders(s)' : x = y
        /\ value'[s] = 0 => Holders(s)' # {}
    BY <1>0, <2>2, <2>3, <2>4, <2>5 DEF UnitHeld, TypeOK
  <2>7. QED
    BY <1>0, <2>1, <2>6 DEF UnitHeld, TypeOK
<1>6. QED
  BY <1>1, <1>2, <1>3, <1>4, <1>5

LEMMA LockKeeps ==
  ASSUME SemInv, NEW c \in Conns, semLock(c)
  PROVE  SemInv'
<1> USE SqliteSemFileAssumption DEF NO_LOCK
<1>0. pc[c] = "open" /\ locktype \in [Conns -> {0, 1, 2, 4}]
      /\ value \in [Sems -> {NULL, 0, 1}]
      /\ UNCHANGED <<disk, idVars, infoVars, master, pc, file, pId, failures>>
  BY DEF semLock, SemInv, TypeOK, SHARED_LOCK, RESERVED_LOCK, EXCLUSIVE_LOCK
<1>1. /\ Sem(c) \in Sems /\ value[Sem(c)] \in {0, 1}
      /\ locktype[c] > 0 => value[Sem(c)] = 0
  BY <1>0, OpenHasSem DEF SemInv, ConnsRight
<1>2. PICK l \in Requests(locktype[c]) :
        \/ /\ locktype[c] > 0 /\ UNCHANGED value
           /\ locktype' = [locktype EXCEPT ![c] = l]
        \/ /\ locktype[c] = 0 /\ value[Sem(c)] > 0
           /\ value' = [value EXCEPT ![Sem(c)] = @ - 1]
           /\ locktype' = [locktype EXCEPT ![c] = l]
        \/ UNCHANGED <<value, locktype>>
  BY DEF semLock
<1>3. l \in {SHARED_LOCK, RESERVED_LOCK, EXCLUSIVE_LOCK} /\ l \in Nat /\ l > 0
  BY <1>0 DEF Requests, SHARED_LOCK, RESERVED_LOCK, EXCLUSIVE_LOCK
<1>4. CASE locktype' = [locktype EXCEPT ![c] = l]
           /\ value' = [value EXCEPT ![Sem(c)] = 0]
           /\ (locktype[c] = 0 => value[Sem(c)] = 1)
  <2>1. l \in {NO_LOCK, SHARED_LOCK, RESERVED_LOCK, EXCLUSIVE_LOCK}
    BY <1>3
  <2>2. pc' = pc /\ pc'[c] # "release"
    BY <1>0
  <2>3. QED
    BY <1>0, <1>1, <1>3, <1>4, <2>1, <2>2, LocksOnly
<1>5. CASE UNCHANGED <<value, locktype>>
  BY <1>0, <1>5, QuietKeeps DEF vars, idVars, infoVars
<1>6. [value EXCEPT ![Sem(c)] = 0] = value \/ value[Sem(c)] = 1
  BY <1>0, <1>1
<1>7. QED
  BY <1>0, <1>1, <1>2, <1>4, <1>5, <1>6

LEMMA UnlockKeeps ==
  ASSUME SemInv, NEW c \in Conns, pc[c] = "open",
         pc' \in {pc, [pc EXCEPT ![c] = "release"]},
         NEW l \in {NO_LOCK, SHARED_LOCK},
         pc'[c] = "release" => l = NO_LOCK,
         l = SHARED_LOCK => locktype[c] >= RESERVED_LOCK,
         value' = Posted(c, l),
         locktype' = [locktype EXCEPT ![c] = l],
         UNCHANGED <<disk, idVars, infoVars, master, file, pId, failures>>
  PROVE  SemInv'
<1> USE SqliteSemFileAssumption DEF NO_LOCK, SHARED_LOCK, RESERVED_LOCK
<1>1. /\ Sem(c) \in Sems /\ value[Sem(c)] \in {0, 1}
      /\ locktype[c] > 0 => value[Sem(c)] = 0
      /\ locktype[c] \in {0, 1, 2, 4} /\ value \in [Sems -> {NULL, 0, 1}]
  BY OpenHasSem DEF SemInv, ConnsRight, TypeOK, EXCLUSIVE_LOCK
<1>2. l \in {NO_LOCK, SHARED_LOCK, RESERVED_LOCK, EXCLUSIVE_LOCK}
  OBVIOUS
<1>3. value = [value EXCEPT ![Sem(c)] = value[Sem(c)]]
  BY <1>1
<1>4. CASE l = SHARED_LOCK
  <2>1. value' = [value EXCEPT ![Sem(c)] = 0] /\ l > NO_LOCK /\ l # NO_LOCK
        /\ locktype[c] # NO_LOCK
    BY <1>1, <1>3, <1>4 DEF Posted
  <2>2. QED
    BY <1>1, <1>2, <2>1, LocksOnly
<1>5. CASE l = NO_LOCK /\ locktype[c] = NO_LOCK
  <2>1. CASE value[Sem(c)] = 0
    <3>1. value' = [value EXCEPT ![Sem(c)] = 0] /\ ~(l > NO_LOCK)
      BY <1>3, <1>5, <2>1 DEF Posted
    <3>2. QED
      BY <1>1, <1>2, <1>5, <2>1, <3>1, LocksOnly
  <2>2. CASE value[Sem(c)] = 1
    <3>1. value' = [value EXCEPT ![Sem(c)] = 1] /\ ~(l > NO_LOCK)
      BY <1>3, <1>5, <2>2 DEF Posted
    <3>2. QED
      BY <1>1, <1>2, <1>5, <2>2, <3>1, LocksOnly
  <2>3. QED
    BY <1>1, <2>1, <2>2
<1>6. CASE l = NO_LOCK /\ locktype[c] # NO_LOCK
  <2>0. value[Sem(c)] = 0
    BY <1>1, <1>6
  <2>1. value' = [value EXCEPT ![Sem(c)] = 1] /\ ~(l > NO_LOCK)
    BY <1>6, <2>0 DEF Posted
  <2>2. QED
    BY <1>1, <1>2, <1>6, <2>1, LocksOnly
<1>7. QED
  BY <1>4, <1>5, <1>6

-----------------------------------------------------------------------------
(* Giving the references back.                                             *)

LEMMA ReleaseKeeps ==
  ASSUME SemInv, NEW c \in Conns, Release(c)
  PROVE  SemInv'
<1> USE SqliteSemFileAssumption
    DEF SemInv, Goto, idVars, connVars, NO_LOCK
<1> DEFINE a == pId[c]
<1>0. /\ pc[c] = "release" /\ a \in FileIds
      /\ lockRef' = [lockRef EXCEPT ![a] = @ - 1]
      /\ openRef' = [openRef EXCEPT ![a] = @ - 1]
      /\ pSem' = [pSem EXCEPT ![a] = IF openRef[a] = 1 THEN NULL ELSE @]
      /\ pc' = [pc EXCEPT ![c] = "leave"]
      /\ UNCHANGED <<disk, idName, idRef, value, file, pId, locktype, failures>>
  BY DEF Release, ConnsRight, AfterRelease
<1>1. c \in InfoUsers(a) /\ Cardinality(InfoUsers(a)) <= openRef[a]
  BY <1>0 DEF InfoUsers, RefsCounted
<1>2. /\ Cardinality(InfoUsers(a)) \in Nat /\ IsFiniteSet(InfoUsers(a) \ {c})
      /\ Cardinality(InfoUsers(a) \ {c}) = Cardinality(InfoUsers(a)) - 1
      /\ Cardinality(InfoUsers(a) \ {c}) \in Nat
  BY <1>0, <1>1, UsersFinite, FS_RemoveElement, FS_CardinalityType
<1>3. openRef[a] > 0 /\ (openRef[a] = 1 => InfoUsers(a) \ {c} = {})
  <2>1. openRef[a] = 1 => Cardinality(InfoUsers(a) \ {c}) = 0
    BY <1>0, <1>1, <1>2 DEF TypeOK
  <2>2. openRef[a] = 1 => InfoUsers(a) \ {c} = {}
    BY <1>2, <2>1, FS_EmptySet
  <2>3. QED
    BY <1>0, <1>1, <1>2, <2>2 DEF TypeOK
<1>4. TypeOK'
  <2>1. openRef[a] - 1 \in Nat /\ lockRef[a] - 1 \in Nat
    BY <1>0, <1>3 DEF TypeOK, RefsCounted
  <2>2. pSem' \in [FileIds -> Sems \cup {NULL}] /\ master' \in Conns \cup {NULL}
    BY <1>0 DEF TypeOK, Release
  <2>3. QED
    BY <1>0, <2>1, <2>2 DEF TypeOK
<1>5. RefsCounted'
  <2> SUFFICES ASSUME NEW b \in FileIds
               PROVE  /\ Cardinality(InfoUsers(b)') <= openRef'[b]
                      /\ openRef'[b] + Cardinality(IdUsers(b)') <= idRef[b]
    BY <1>0 DEF RefsCounted, TypeOK
  <2>1. InfoUsers(b)' = IF b = a THEN InfoUsers(b) \ {c} ELSE InfoUsers(b)
    BY <1>0 DEF InfoUsers, TypeOK
  <2>2. IdUsers(b)' = IF b = a THEN IdUsers(b) \cup {c} ELSE IdUsers(b)
    BY <1>0 DEF IdUsers, TypeOK
  <2>3. c \notin IdUsers(b)
    BY <1>0 DEF IdUsers
  <2>4. Cardinality(IdUsers(b)')
          = IF b = a THEN Cardinality(IdUsers(b)) + 1
                     ELSE Cardinality(IdUsers(b))
    BY <2>2, <2>3, UsersFinite, OneMore
  <2>5. Cardinality(InfoUsers(b)')
          = IF b = a THEN Cardinality(InfoUsers(b)) - 1
                     ELSE Cardinality(InfoUsers(b))
    BY <1>2, <2>1
  <2>6. QED
    BY <1>0, <1>3, <2>4, <2>5, UsersFinite DEF RefsCounted, TypeOK
<1>6. SemKept'
  BY <1>0, <1>3 DEF SemKept, TypeOK
<1>7. ConnsRight'
  BY <1>0, <1>3 DEF ConnsRight, Sem, TypeOK, InfoUsers
<1>8. UnitHeld'
  BY <1>0 DEF UnitHeld, Holders
<1>9. QED
  BY <1>4, <1>5, <1>6, <1>7, <1>8

LEMMA LeaveMutexKeeps ==
  ASSUME SemInv, NEW c \in Conns, LeaveMutex(c)
  PROVE  SemInv'
<1> USE SqliteSemFileAssumption
    DEF SemInv, LeaveMutex, Goto, idVars, infoVars, connVars, NO_LOCK
<1>1. TypeOK' /\ SemKept' /\ ConnsRight' /\ UnitHeld'
  BY DEF TypeOK, SemKept, ConnsRight, Sem, UnitHeld, Holders
<1>2. \A a \in FileIds : InfoUsers(a)' = InfoUsers(a) /\ IdUsers(a)' = IdUsers(a)
  BY DEF InfoUsers, IdUsers, TypeOK
<1>3. QED
  BY <1>1, <1>2 DEF RefsCounted

LEMMA CloseKeeps ==
  ASSUME SemInv, NEW c \in Conns, closeUnixFile(c)
  PROVE  SemInv'
<1> USE SqliteSemFileAssumption
    DEF SemInv, Goto, infoVars, NO_LOCK
<1> DEFINE a == pId[c]
<1>0. /\ pc[c] = "close" /\ a \in FileIds
      /\ idRef' = [idRef EXCEPT ![a] = @ - 1] \/ idRef' = idRef
      /\ pc' = [pc EXCEPT ![c] = "closed"]
      /\ file' = [file EXCEPT ![c] = NULL]
      /\ pId' = [pId EXCEPT ![c] = NULL]
      /\ UNCHANGED <<disk, idName, infoVars, value, master, locktype>>
      /\ failures' \in {failures, failures + 1}
  BY DEF closeUnixFile, ConnsRight, Dropped, Fail
<1>1. c \in IdUsers(a) /\ openRef[a] + Cardinality(IdUsers(a)) <= idRef[a]
  BY <1>0 DEF IdUsers, RefsCounted
<1>2. /\ Cardinality(IdUsers(a)) \in Nat
      /\ Cardinality(IdUsers(a) \ {c}) = Cardinality(IdUsers(a)) - 1
      /\ Cardinality(IdUsers(a) \ {c}) \in Nat
  BY <1>0, <1>1, UsersFinite, FS_RemoveElement, FS_CardinalityType
<1>3. TypeOK'
  BY <1>0, <1>1, <1>2 DEF TypeOK
<1>4. RefsCounted'
  <2> SUFFICES ASSUME NEW b \in FileIds
               PROVE  /\ Cardinality(InfoUsers(b)') <= openRef[b]
                      /\ openRef[b] + Cardinality(IdUsers(b)') <= idRef'[b]
    BY <1>0 DEF RefsCounted
  <2>1. InfoUsers(b)' = InfoUsers(b)
    BY <1>0 DEF InfoUsers, TypeOK
  <2>2. IdUsers(b)' = IF b = a THEN IdUsers(b) \ {c} ELSE IdUsers(b)
    BY <1>0 DEF IdUsers, TypeOK
  <2>3. Cardinality(IdUsers(b)')
          = IF b = a THEN Cardinality(IdUsers(b)) - 1
                     ELSE Cardinality(IdUsers(b))
    BY <1>2, <2>2
  <2>4. QED
    BY <1>0, <2>1, <2>3, UsersFinite DEF RefsCounted, TypeOK
<1>5. SemKept' /\ ConnsRight'
  BY <1>0 DEF SemKept, ConnsRight, Sem, TypeOK
<1>6. UnitHeld'
  <2>1. \A s \in Sems : Holders(s)' = Holders(s)
    BY <1>0 DEF Holders, TypeOK, ConnsRight
  <2>2. QED
    BY <1>0, <2>1 DEF UnitHeld
<1>7. QED
  BY <1>3, <1>4, <1>5, <1>6

-----------------------------------------------------------------------------
LEMMA SemInvKept == SemInv /\ [Next]_vars => SemInv'
<1> SUFFICES ASSUME SemInv, [Next]_vars PROVE SemInv'
  OBVIOUS
<1>1. CASE UNCHANGED vars
  BY <1>1, QuietKeeps
<1>2. CASE Next
  <2> PICK c \in Conns :
        \/ \E f \in Files : OpenFile(c, f)
        \/ semLock(c) \/ semUnlock(c) \/ semClose(c)
        \/ Proceed(c)
    BY <1>2 DEF Next
  <2>1. CASE semUnlock(c)
    <3>1. PICK l \in {NO_LOCK, SHARED_LOCK} :
            /\ l = SHARED_LOCK => locktype[c] >= RESERVED_LOCK
            /\ value' = Posted(c, l)
            /\ locktype' = [locktype EXCEPT ![c] = l]
      BY <2>1 DEF semUnlock
    <3>2. pc[c] = "open" /\ pc' = pc /\ pc'[c] # "release"
          /\ UNCHANGED <<disk, idVars, infoVars, master, file, pId, failures>>
      BY <2>1 DEF semUnlock
    <3>3. QED
      BY <3>1, <3>2, UnlockKeeps
  <2>2. CASE semClose(c)
    <3>1. NO_LOCK # SHARED_LOCK
      BY DEF NO_LOCK, SHARED_LOCK
    <3>2. QED
      BY <2>2, <3>1, UnlockKeeps DEF semClose, Goto
  <2>3. CASE Proceed(c)
    BY <2>3, FindFileIdKeeps, FillInKeeps, OpenFailsKeeps, ReleaseKeeps,
       LeaveMutexKeeps, CloseKeeps DEF Proceed
  <2>4. QED
    BY <2>1, <2>2, <2>3, OpenFileKeeps, LockKeeps
<1>3. QED
  BY <1>1, <1>2

LEMMA SemInvHolds == Spec => []SemInv
BY SemInvAtFirst, SemInvKept, PTL DEF Spec

\* Two connections never hold a lock on one file (os_unix.c, semLock).
THEOREM FileLocksExclude == Spec => []Exclusive
<1>1. SemInv => Exclusive
  <2> SUFFICES ASSUME SemInv, NEW c \in Conns, NEW d \in Conns,
                      locktype[c] > NO_LOCK, locktype[d] > NO_LOCK,
                      file[c] = file[d]
               PROVE  c = d
    BY DEF Exclusive
  <2>1. PICK s \in Sems : s = SemOf[file[c]]
    BY DEF SemInv, ConnsRight, Sems
  <2>2. c \in Holders(s) /\ d \in Holders(s)
    BY <2>1 DEF Holders
  <2>3. QED
    BY <2>2 DEF SemInv, UnitHeld
<1>2. QED
  BY SemInvHolds, <1>1, PTL

\* The unit of a semaphore is neither lost nor doubled (semLock, semUnlock
\* and semClose, after any failed open or close).
THEOREM UnitConserved == Spec => []OneUnit
<1>1. SemInv => OneUnit
  <2> SUFFICES ASSUME SemInv, NEW s \in Sems, value[s] # NULL
               PROVE  value[s] + Cardinality(Holders(s)) = 1
    BY DEF OneUnit, SemInv, TypeOK
  <2>1. CASE value[s] = 0
    <3>1. PICK c : c \in Holders(s)
      BY <2>1 DEF SemInv, UnitHeld
    <3>2. Holders(s) = {c}
      BY <3>1 DEF SemInv, UnitHeld
    <3>3. QED
      BY <2>1, <3>2, FS_Singleton
  <2>2. CASE value[s] = 1
    <3>1. Holders(s) = {}
      BY <2>2 DEF SemInv, ConnsRight, Holders
    <3>2. QED
      BY <2>2, <3>1, FS_EmptySet
  <2>3. QED
    BY <2>1, <2>2 DEF SemInv, TypeOK
<1>2. QED
  BY SemInvHolds, <1>1, PTL

\* An open connection keeps its file ID, its two structures and its semaphore
\* until semClose gives them back.
THEOREM StructuresStay == Spec => []Attached
<1>1. SemInv => Attached
  <2> SUFFICES ASSUME SemInv, NEW c \in Conns, pc[c] \in {"open", "release"}
               PROVE  /\ idRef[pId[c]] > 0 /\ idName[pId[c]] = file[c]
                      /\ lockRef[pId[c]] > 0 /\ openRef[pId[c]] > 0
                      /\ Sem(c) = SemOf[file[c]]
    BY DEF Attached
  <2>1. pId[c] \in FileIds /\ openRef[pId[c]] > 0
    BY SqliteSemFileAssumption, OpenHasSem
       DEF SemInv, ConnsRight, SemKept, Sem
  <2>2. Cardinality(IdUsers(pId[c])) \in Nat
    BY <2>1, UsersFinite
  <2>3. QED
    BY <2>1, <2>2 DEF SemInv, ConnsRight, RefsCounted, TypeOK
<1>2. QED
  BY SemInvHolds, <1>1, PTL

\* No unixLockInfo or unixOpenCnt outlives the file ID whose address is its
\* key (vxworksReleaseFileId).
THEOREM NoStaleKey == Spec => []KeysLive
<1>1. SemInv => KeysLive
  BY UsersFinite DEF SemInv, RefsCounted, KeysLive, TypeOK
<1>2. QED
  BY SemInvHolds, <1>1, PTL

\* semCheckReservedLock tells hasHotJournal the truth.
THEOREM ReservedTold == Spec => []ReservedRight
<1>1. SemInv /\ Exclusive => ReservedRight
  BY DEF SemInv, TypeOK, Exclusive, ReservedRight, semCheckReservedLock,
     BelowShared, NO_LOCK, SHARED_LOCK, RESERVED_LOCK, EXCLUSIVE_LOCK
<1>2. QED
  BY SemInvHolds, FileLocksExclude, <1>1, PTL
=============================================================================
