---------------------------- MODULE SqlitePager ----------------------------
(***************************************************************************)
(* SQLite's pager (pager.c) as the port prescribes its use: rollback       *)
(* journal kept from transaction to transaction (journal_mode=PERSIST),    *)
(* locks by semaphore, ftruncate without effect.  Every write to and every *)
(* sync of the database and of its journal is a step, and power may fail   *)
(* between any two of them.                                                *)
(*                                                                         *)
(* With semaphore locks (semLock in os_unix.c) any lock shuts out all      *)
(* other connections, so that the variables of struct Pager that matter    *)
(* only under a lock are kept once, for the connection that has it; the    *)
(* page cache and dbFileVers outlive the lock and belong to a connection.  *)
(*                                                                         *)
(* A page is a number: page 1 holds the change counter, any other page the *)
(* number of the transaction that wrote it.  The journal is a sequence of  *)
(* headers and page records, each in a block of its own; the number of the *)
(* transaction stands for cksumInit and the checksums made from it.        *)
(* Savepoints, several pages in a sector, master journals, temporary and   *)
(* in-memory databases and exclusive mode are not modelled.                *)
(***************************************************************************)
EXTENDS Integers, Sequences, SequencesExt, FiniteSets, FiniteSetsExt,
        CrashFile

CONSTANTS
  Conns,       \* connections to the database
  None,
  MaxPages,    \* bounds of the model: pages of the database,
  MaxTx,       \*   write transactions,
  MaxFaults,   \*   power failures and I/O errors
  MaxBlocks,   \*   and blocks of the journal
  FullSync,    \* synchronous=FULL, the default, or NORMAL
  Windows      \* of the two known windows of vulnerability, the ones in
               \*   which power failures and I/O errors are considered

ASSUME SqlitePagerAssumption ==
  /\ None \notin Conns
  /\ MaxPages # 0
  /\ {MaxPages, MaxTx, MaxFaults, MaxBlocks} \subseteq Nat
  /\ FullSync \in BOOLEAN
  /\ Windows \subseteq {"rollback", "header"}

VARIABLES
  db, jr,      \* the two files
  owner,       \* the connection that has the semaphore
  pc,          \* where it is
  goal,        \* the page it wants to spill, or 0 in a commit
  state,       \* Pager.state
  cache,       \* cache[c][p]: a page of c's cache or NotCached
  dbFileVers,  \* dbFileVers[c]
  dirty, need, \* pages with PGHDR_DIRTY and PGHDR_NEED_SYNC
  needSync, journalStarted, dbModified,
  dbSize, dbOrigSize,
  pInJournal, nRec,
  journalOff, journalHdr,  \* in blocks: the end, and the last header
  isHot, left, isUnsync,   \* pager_playback: its argument, its loops
  cksumInit,               \*   and the header it has read
  errCode,     \* has an I/O error made the cache suspect?
  tx,          \* number of the last write transaction
  faults,      \* power failures and I/O errors so far
  committed, previous,     \* history: the last two committed images
  inDoubt,     \* history: a rollback whose pages were never synced
  base,        \* history: what a playback of the journal restores, or the
               \*   database file when there is nothing to play back
  safe         \* history: blocks of synced sections of that journal

files   == <<db, jr>>
caches  == <<cache, dbFileVers>>
pages   == <<dirty, need>>
flags   == <<needSync, journalStarted, dbModified>>
sizes   == <<dbSize, dbOrigSize>>
journal == <<pInJournal, nRec, journalOff, journalHdr>>
play    == <<isHot, left, isUnsync, cksumInit, errCode>>
bounds  == <<tx, faults>>
history == <<committed, previous, inDoubt, base, safe>>
vars    == <<files, owner, pc, goal, state, caches, pages, flags, sizes,
             journal, play, bounds, history>>

Pages == 1 .. MaxPages
NotCached == -2
Torn == -1
NoPages == [p \in Pages |-> NotCached]
PageCount == Len(db.data)

Header(n, orig, id) == [kind |-> "header", page |-> orig, body |-> n, id |-> id]
Record(p, v, id) == [kind |-> "record", page |-> p, body |-> v, id |-> id]
Zeroes == [kind |-> "zeroes", page |-> 0, body |-> 0, id |-> 0]
TornBlock == [kind |-> "torn", page |-> 0, body |-> 0, id |-> 0]

\* What the connection reads: its cache, and the file for other pages.
Read(p) == IF cache[owner][p] # NotCached THEN cache[owner][p]
           ELSE IF p <= PageCount THEN db.data[p] ELSE 0
Image == [p \in 1 .. dbSize |-> Read(p)]

-----------------------------------------------------------------------------
(* pagerSharedLock and pager_unlock.                                       *)

\* In this journal mode the journal almost always exists, so that a reader
\* takes it for hot and lets pager_playback find out.
hasHotJournal == Len(jr.data) > 0 /\ PageCount > 0

SharedLock(c) ==
  /\ owner = None
  /\ owner' = c
  /\ isHot' = hasHotJournal
  /\ IF hasHotJournal
       THEN state' = "exclusive" /\ pc' = "header"
       ELSE state' = "shared" /\ pc' = "check"
  /\ jr' = IF PageCount = 0 THEN Unlink(jr) ELSE jr
  /\ dbSize' = PageCount
  /\ journalOff' = 0 /\ journalHdr' = 0 /\ journalStarted' = FALSE
  /\ UNCHANGED <<db, goal, caches, pages, needSync, dbModified,
                 dbOrigSize, pInJournal, nRec, left,
                 isUnsync, cksumInit, errCode, bounds, history>>

FileVers == IF PageCount > 0 THEN db.data[1] ELSE 0

\* The cache is thrown away if the change counter is not the one it was
\* filled under.
NeverStale == FALSE
Stale == cache[owner] # NoPages /\ dbFileVers[owner] # FileVers

CheckVersion ==
  /\ pc = "check"
  /\ cache' = IF Stale THEN [cache EXCEPT ![owner] = NoPages] ELSE cache
  /\ dbSize' = PageCount
  /\ pc' = "ready"
  /\ UNCHANGED <<files, owner, goal, state, dbFileVers, pages, flags,
                 dbOrigSize, journal, play, bounds, history>>

\* What belongs to a transaction is reset.
Reset ==
  /\ dirty' = {} /\ need' = {}
  /\ needSync' = FALSE /\ journalStarted' = FALSE /\ dbModified' = FALSE
  /\ dbOrigSize' = 0
  /\ pInJournal' = {} /\ nRec' = 0 /\ journalOff' = 0 /\ journalHdr' = 0
  /\ isHot' = FALSE /\ left' = 0 /\ isUnsync' = FALSE /\ cksumInit' = 0

\* The lock is released.
Unlocked ==
  /\ Reset
  /\ owner' = None
  /\ pc' = "idle" /\ goal' = 0 /\ state' = "unlock"
  /\ dbSize' = 0
  /\ errCode' = FALSE

pager_unlock ==
  /\ pc = "ready"
  /\ state = "shared"
  /\ Unlocked
  /\ UNCHANGED <<files, caches, bounds, history>>

-----------------------------------------------------------------------------
(* Reading and writing pages.                                              *)

Fetched(p) ==
  /\ cache' = [cache EXCEPT ![owner][p] = Read(p)]
  /\ dbFileVers' = IF p = 1 /\ cache[owner][1] = NotCached
                     THEN [dbFileVers EXCEPT ![owner] = Read(1)]
                     ELSE dbFileVers

\* The B-tree layer holds page 1 as long as it uses the database (lockBtree)
\* and accepts no page 1 that does not look like one.
HasPage1 == cache[owner][1] # NotCached

\* sqlite3PagerAcquire and readDbPage.
Acquire(p) ==
  /\ pc = "ready"
  /\ p <= dbSize
  /\ cache[owner][p] = NotCached
  /\ IF p = 1 THEN Read(1) # Torn ELSE HasPage1
  /\ Fetched(p)
  /\ UNCHANGED <<files, owner, pc, goal, state, pages, flags, sizes, journal,
                 play, bounds, history>>

\* sqlite3PagerBegin and pager_open_journal.
Begin ==
  /\ pc = "ready"
  /\ state = "shared"
  /\ dbSize > 0 => HasPage1
  /\ tx < MaxTx
  /\ tx' = tx + 1
  /\ state' = "reserved"
  /\ dbOrigSize' = dbSize
  /\ jr' = Write(jr, 1, Header(0, dbSize, tx + 1), TornBlock)
  /\ journalOff' = 1 /\ journalHdr' = 1
  /\ needSync' = FALSE /\ journalStarted' = FALSE
  /\ pInJournal' = {} /\ nRec' = 0
  /\ UNCHANGED <<db, owner, pc, goal, caches, pages, dbModified,
                 dbSize, play, faults, history>>

\* pager_write: page p, with the content v before the change, goes to the
\* journal unless it is there or is new; it must not be written to the
\* database before the journal is synced.
Journalled(p, v) ==
  LET old == p \notin pInJournal /\ p <= dbOrigSize
      new == p \notin pInJournal /\ p > dbOrigSize /\ ~journalStarted
  IN /\ old => journalOff < MaxBlocks
     /\ jr' = IF old THEN Write(jr, journalOff + 1, Record(p, v, tx), TornBlock)
                     ELSE jr
     /\ journalOff' = IF old THEN journalOff + 1 ELSE journalOff
     /\ nRec' = IF old THEN nRec + 1 ELSE nRec
     /\ pInJournal' = IF old THEN pInJournal \cup {p} ELSE pInJournal
     /\ need' = IF old \/ new THEN need \cup {p} ELSE need
     /\ needSync' = (needSync \/ old \/ new)
     /\ dirty' = dirty \cup {p}
     /\ dbModified' = TRUE

\* sqlite3PagerWrite, and the change its caller makes.
Change(p) ==
  /\ pc = "ready"
  /\ state \in {"reserved", "exclusive"}
  /\ p <= dbSize + 1
  /\ p = 1 => dbSize = 0
  /\ cache[owner][p] # NotCached \/ p > dbSize
  /\ Journalled(p, cache[owner][p])
  /\ cache' = [cache EXCEPT ![owner][p] = IF p = 1 THEN 0 ELSE tx]
  /\ dbSize' = IF p > dbSize THEN p ELSE dbSize
  /\ UNCHANGED <<db, owner, pc, goal, state, dbFileVers, journalStarted,
                 dbOrigSize, journalHdr, play, bounds,
                 history>>

-----------------------------------------------------------------------------
(* syncJournal, pagerStress and sqlite3PagerCommitPhaseOne.                *)

\* A page that is not in use, as page 1 always is, has to make room.
pagerStress(p) ==
  /\ pc = "ready"
  /\ p \in dirty \ {1}
  /\ p <= PageCount + 1
  /\ goal' = p
  /\ pc' = IF p \in need THEN "sync" ELSE "spill"
  /\ UNCHANGED <<files, owner, state, caches, pages, flags, sizes, journal,
                 play, bounds, history>>

\* Blocks of an earlier transaction may follow in the journal; a header
\* among them is made unrecognisable.
Invalidated(b) == b.kind = "header"

InvalidateNext ==
  /\ pc = "sync"
  /\ jr' = IF journalOff < Len(jr.data) /\ Invalidated(jr.data[journalOff + 1])
             THEN Patch(jr, journalOff + 1, Zeroes) ELSE jr
  /\ pc' = IF FullSync THEN "sync1" ELSE "nrec"
  /\ UNCHANGED <<db, owner, goal, state, caches, pages, flags, sizes, journal,
                 play, bounds, history>>

SyncRecords ==
  /\ pc = "sync1"
  /\ jr' = Sync(jr)
  /\ pc' = "nrec"
  /\ UNCHANGED <<db, owner, goal, state, caches, pages, flags, sizes, journal,
                 play, bounds, history>>

WriteNRec ==
  /\ pc = "nrec"
  /\ jr' = Patch(jr, journalHdr, Header(nRec, dbOrigSize, tx))
  /\ pc' = "sync2"
  /\ UNCHANGED <<db, owner, goal, state, caches, pages, flags, sizes, journal,
                 play, bounds, history>>

\* The file is synced before the pages are declared safe to write.
DeclareFirst == jr' = jr
SyncFirst == jr' = Sync(jr)

SyncNRec ==
  /\ pc = "sync2"
  /\ SyncFirst
  /\ safe' = journalOff
  /\ needSync' = FALSE /\ journalStarted' = TRUE /\ need' = {}
  /\ pc' = CASE goal = 0 -> "write"
             [] goal # 0 /\ FullSync -> "newheader"
             [] goal # 0 /\ ~FullSync -> "spill"
  /\ UNCHANGED <<db, owner, goal, state, caches, dirty, dbModified,
                 sizes, journal, play, bounds, committed, previous, inDoubt,
                 base>>

\* pagerStress starts a new section of the journal.
NewHeader ==
  /\ pc = "newheader"
  /\ journalOff < MaxBlocks
  /\ jr' = Write(jr, journalOff + 1, Header(0, dbOrigSize, tx), TornBlock)
  /\ journalOff' = journalOff + 1
  /\ journalHdr' = journalOff + 1
  /\ nRec' = 0
  /\ pc' = "spill"
  /\ UNCHANGED <<db, owner, goal, state, caches, pages, flags, sizes,
                 pInJournal, play, bounds, history>>

\* pager_write_pagelist, for one page.
Stored(p) ==
  /\ state' = "exclusive"
  /\ db' = Write(db, p, cache[owner][p], Torn)
  /\ dbFileVers' = IF p = 1 THEN [dbFileVers EXCEPT ![owner] = cache[owner][1]]
                            ELSE dbFileVers
  /\ dirty' = dirty \ {p}

\* The page is clean now, and its place in the cache is used for another.
Spill ==
  /\ pc = "spill"
  /\ Stored(goal)
  /\ cache' = [cache EXCEPT ![owner][goal] = NotCached]
  /\ goal' = 0
  /\ pc' = "ready"
  /\ UNCHANGED <<jr, owner, need, flags, sizes, journal, play, bounds,
                 history>>

\* A commit may first cut n pages off the end (auto-vacuum, through
\* sqlite3PagerTruncateImage).
CommitPhaseOne(n) ==
  /\ pc = "ready"
  /\ state \in {"reserved", "exclusive"}
  /\ dbModified
  /\ n < dbSize
  /\ dbSize' = dbSize - n
  /\ pc' = "count"
  /\ UNCHANGED <<files, owner, goal, state, caches, pages, flags, dbOrigSize,
                 journal, play, bounds, history>>

\* pager_incr_changecounter.
Incremented(v) == v + 1

IncrChangeCounter ==
  /\ pc = "count"
  /\ Journalled(1, Read(1))
  /\ LET vers == IF HasPage1 THEN dbFileVers[owner] ELSE Read(1)
     IN /\ dbFileVers' = [dbFileVers EXCEPT ![owner] = vers]
        /\ cache' = [cache EXCEPT ![owner][1] = Incremented(vers)]
  /\ pc' = "discard"
  /\ UNCHANGED <<db, owner, goal, state, journalStarted, sizes, journalHdr,
                 play, bounds, history>>

\* Pages that are cut off are journalled, too.
Discarded == {p \in dbSize + 1 .. dbOrigSize : p \notin pInJournal}

JournalDiscarded ==
  /\ pc = "discard"
  /\ IF Discarded # {}
       THEN /\ LET p == Min(Discarded) IN Journalled(p, Read(p)) /\ Fetched(p)
            /\ UNCHANGED pc
       ELSE /\ pc' = IF needSync THEN "sync" ELSE "write"
            /\ UNCHANGED <<jr, caches, pages, needSync, dbModified,
                           pInJournal, nRec, journalOff>>
  /\ UNCHANGED <<db, owner, goal, state, journalStarted, sizes, journalHdr,
                 play, bounds, history>>

WritePages ==
  /\ pc = "write"
  /\ LET list == {p \in dirty : p <= dbSize} IN
       IF list # {}
         THEN Stored(Min(list)) /\ UNCHANGED pc
         ELSE pc' = "dbsync" /\ UNCHANGED <<db, state, dbFileVers, dirty>>
  /\ UNCHANGED <<jr, owner, goal, cache, need, flags, sizes, journal, play,
                 bounds, history>>

SyncDb ==
  /\ pc = "dbsync"
  /\ db' = Sync(db)
  /\ state' = "synced"
  /\ inDoubt' = FALSE
  /\ pc' = "finish"
  /\ UNCHANGED <<jr, owner, goal, caches, pages, flags, sizes, journal, play,
                 bounds, committed, previous, base, safe>>

-----------------------------------------------------------------------------
(* pager_end_transaction: the journal is finalised by zeroing its first    *)
(* header (zeroJournalHdr), then what belongs to the transaction is reset. *)

ZeroHeader ==
  /\ jr' = Patch(jr, 1, Zeroes)
  /\ pc' = "zsync"

CommitPhaseTwo ==
  /\ \/ pc = "finish"
     \/ pc = "ready" /\ state \in {"reserved", "exclusive"} /\ ~dbModified
  /\ ZeroHeader
  /\ previous' = committed
  /\ committed' = Image
  /\ UNCHANGED <<db, owner, goal, state, caches, pages, flags, sizes, journal,
                 play, bounds, inDoubt, base, safe>>

SyncZero ==
  /\ pc = "zsync"
  /\ jr' = Sync(jr)
  /\ previous' = committed
  /\ base' = db.data
  /\ safe' = 0
  /\ pc' = "end"
  /\ UNCHANGED <<db, owner, goal, state, caches, pages, flags, sizes, journal,
                 play, bounds, committed, inDoubt>>

EndTransaction ==
  /\ pc = "end"
  /\ IF errCode
       THEN /\ Unlocked
            /\ cache' = [cache EXCEPT ![owner] = NoPages]
       ELSE /\ pc' = IF isHot THEN "check" ELSE "ready"
            /\ state' = "shared"
            /\ cache' = [cache EXCEPT ![owner] =
                           [p \in Pages |-> IF p <= dbSize THEN @[p]
                                                           ELSE NotCached]]
            /\ Reset
            /\ dbSize' = PageCount
            /\ UNCHANGED <<owner, goal, errCode>>
  /\ UNCHANGED <<files, dbFileVers, bounds, history>>

-----------------------------------------------------------------------------
(* sqlite3PagerRollback and pager_playback.                                *)

BeginPlayback ==
  /\ journalOff' = 0
  /\ isHot' = FALSE
  /\ goal' = 0
  /\ pc' = "header"

Rollback ==
  /\ pc = "ready"
  /\ state \in {"reserved", "exclusive"}
  /\ IF dbModified
       THEN BeginPlayback /\ UNCHANGED jr
       ELSE ZeroHeader /\ UNCHANGED <<journalOff, isHot, goal>>
  /\ UNCHANGED <<db, owner, state, caches, pages, flags, sizes, pInJournal,
                 nRec, journalHdr, left, isUnsync, cksumInit, errCode, bounds,
                 history>>

\* The next header, in this mode possibly one that was zeroed.  A last
\* section that was never synced counts as long as the file when the
\* transaction itself is rolled back, and as empty when the journal is hot.
PlayHeader ==
  /\ pc = "header"
  /\ LET i == journalOff + 1
         b == jr.data[i]
     IN IF i <= Len(jr.data) /\ b.kind = "header"
          THEN LET unsync == b.body = 0 /\ ~isHot /\ journalHdr = i
               IN /\ left' = IF unsync THEN Len(jr.data) - i ELSE b.body
                  /\ isUnsync' = unsync
                  /\ cksumInit' = b.id
                  /\ dbSize' = IF i = 1 THEN b.page ELSE dbSize
                  /\ journalOff' = i
                  /\ pc' = "record"
          ELSE /\ pc' = "endplay"
               /\ UNCHANGED <<left, isUnsync, cksumInit, dbSize, journalOff>>
  /\ UNCHANGED <<files, owner, goal, state, caches, pages, flags, dbOrigSize,
                 pInJournal, nRec, journalHdr, isHot, errCode, bounds,
                 history>>

\* pager_playback_one_page: a block that is no record of this section ends
\* the playback, unless its page number happens to be too large.
Skipped(b) == \/ b.kind \in {"torn", "header"}
              \/ b.kind = "record" /\ b.page > dbSize
Invalid(b) == b.kind # "record" \/ b.id # cksumInit

Cached(p) == cache[owner][p] # NotCached /\ ~isHot

\* What is written to the database is in doubt until it is synced if the
\* journal it comes from was never synced either.
InFlux(f) == \E i \in DOMAIN f.may : \E v, w \in f.may[i] : v # w

Restored(p, v) ==
  /\ inDoubt' = (inDoubt \/ (isHot /\ InFlux(jr)))
  /\ db' = IF state # "reserved" /\ ~(Cached(p) /\ p \in need) /\ ~isUnsync
             THEN Write(db, p, v, Torn) ELSE db
  /\ cache' = [cache EXCEPT ![owner] =
                 IF isHot THEN NoPages
                 ELSE IF Cached(p) THEN [@ EXCEPT ![p] = v] ELSE @]
  /\ dbFileVers' = IF p = 1 /\ Cached(1)
                     THEN [dbFileVers EXCEPT ![owner] = v] ELSE dbFileVers
  /\ dirty' = dirty \ {p}
  /\ need' = need \ {p}
  /\ journalOff' = journalOff + 1
  /\ left' = left - 1

PlayRecord ==
  /\ pc = "record"
  /\ left > 0
  /\ journalOff < Len(jr.data)
  /\ LET b == jr.data[journalOff + 1] IN
       \/ /\ Skipped(b)
          /\ journalOff' = journalOff + 1
          /\ left' = left - 1
          /\ UNCHANGED <<db, caches, pages, inDoubt>>
       \/ /\ Invalid(b)
          /\ ~(b.kind = "record" /\ b.page > dbSize)
          /\ journalOff' = Len(jr.data)
          /\ left' = 0
          /\ UNCHANGED <<db, caches, pages, inDoubt>>
       \/ /\ ~Invalid(b)
          /\ b.page <= dbSize
          /\ Restored(b.page, b.body)
  /\ UNCHANGED <<jr, owner, pc, goal, state, flags, sizes, pInJournal, nRec,
                 journalHdr, isHot, isUnsync, cksumInit, errCode, bounds,
                 committed, previous, base, safe>>

EndSection ==
  /\ pc = "record"
  /\ left = 0
  /\ pc' = "header"
  /\ UNCHANGED <<files, owner, goal, state, caches, pages, flags, sizes,
                 journal, play, bounds, history>>

\* The pages that were restored are not synced before the journal is
\* finalised.
EndPlayback ==
  /\ pc = "endplay"
  /\ IF journalOff > 0
       THEN ZeroHeader /\ inDoubt' = (inDoubt \/ InFlux(db))
       ELSE pc' = "end" /\ UNCHANGED <<jr, inDoubt>>
  /\ UNCHANGED <<db, owner, goal, state, caches, pages, flags, sizes, journal,
                 play, bounds, committed, previous, base, safe>>

-----------------------------------------------------------------------------
(* I/O errors and power failures.  The code is known to be vulnerable      *)
(* while the result of a rollback is in doubt, and while a header without  *)
(* records is followed by a header that an earlier transaction left and    *)
(* syncJournal has not yet made unrecognisable.                            *)

Exposed ==
  /\ jr.may # <<>> /\ \E b \in jr.may[1] : b.kind = "header"
  /\ \E i \in 1 .. Len(jr.may) - 1 :
       \E b \in jr.may[i], next \in jr.may[i + 1] :
         /\ b.kind = "header" /\ b.body = 0
         /\ next.kind = "header" /\ next.id # b.id

MayStrike ==
  /\ inDoubt => "rollback" \in Windows
  /\ Exposed => "header" \in Windows

\* sqlite3PagerCommitPhaseOne returns an error and the caller rolls back.
CommitFails ==
  /\ pc \in {"count", "discard", "sync", "sync1", "nrec", "sync2", "write",
             "dbsync"}
  /\ goal = 0
  /\ faults < MaxFaults
  /\ faults' = faults + 1
  /\ BeginPlayback
  /\ UNCHANGED <<files, owner, state, caches, pages, flags, sizes, pInJournal,
                 nRec, journalHdr, left, isUnsync, cksumInit, errCode, tx,
                 history>>

\* The connection gives up its lock and its cache; the journal stays.
GivesUp ==
  /\ MayStrike
  /\ Unlocked
  /\ cache' = [cache EXCEPT ![owner] = NoPages]
  /\ UNCHANGED <<files, dbFileVers, tx, history>>

\* pagerStress reports an error through pager_error: unless the disk is just
\* full, the rollback that follows plays the journal back only if the
\* database has been written to.
SpillFails ==
  /\ pc \in {"sync", "sync1", "nrec", "sync2", "newheader", "spill"}
  /\ goal # 0
  /\ faults < MaxFaults
  /\ faults' = faults + 1
  /\ \/ state = "reserved" /\ GivesUp
     \/ /\ BeginPlayback
        /\ errCode' = TRUE
        /\ UNCHANGED <<files, owner, state, caches, pages, flags, sizes,
                       pInJournal, nRec, journalHdr, left, isUnsync,
                       cksumInit, tx, history>>

\* An error in the playback, or a journal that is shorter than its header
\* says: nothing is finalised if the database has been written to.
ShortRead == pc = "record" /\ left > 0 /\ journalOff >= Len(jr.data)

PlaybackFails ==
  /\ pc \in {"header", "record"}
  /\ ShortRead \/ faults < MaxFaults
  /\ faults' = IF ShortRead THEN faults ELSE faults + 1
  /\ IF state # "reserved" THEN GivesUp
     ELSE /\ Exposed => "header" \in Windows
          /\ pc' = "endplay"
          /\ errCode' = TRUE
          /\ UNCHANGED <<files, owner, goal, state, caches, pages, flags,
                         sizes, journal, isHot, left, isUnsync, cksumInit,
                         tx, history>>

\* Both files come back as the disk has them.  A commit that was not settled
\* is undone if the header of its journal is still there.
PowerFailure ==
  /\ faults < MaxFaults
  /\ MayStrike
  /\ faults' = faults + 1
  /\ db' \in Survivors(db)
  /\ jr' \in Survivors(jr)
  /\ Unlocked
  /\ cache' = [c \in Conns |-> NoPages]
  /\ dbFileVers' = [c \in Conns |-> 0]
  /\ IF jr'.data # <<>> /\ jr'.data[1].kind = "header"
       THEN committed' = previous /\ UNCHANGED <<base, safe>>
       ELSE UNCHANGED committed /\ base' = db'.data /\ safe' = 0
  /\ previous' = committed'
  /\ inDoubt' = FALSE
  /\ UNCHANGED tx

-----------------------------------------------------------------------------
Init ==
  /\ db \in {OnDisk([p \in 1 .. n |-> 0]) : n \in {0, MaxPages - 1}}
  /\ jr = OnDisk(<<>>)
  /\ owner = None /\ pc = "idle" /\ goal = 0 /\ state = "unlock"
  /\ cache = [c \in Conns |-> NoPages]
  /\ dbFileVers = [c \in Conns |-> 0]
  /\ dirty = {} /\ need = {}
  /\ needSync = FALSE /\ journalStarted = FALSE
  /\ dbModified = FALSE
  /\ dbSize = 0 /\ dbOrigSize = 0
  /\ pInJournal = {} /\ nRec = 0 /\ journalOff = 0 /\ journalHdr = 0
  /\ isHot = FALSE /\ left = 0 /\ isUnsync = FALSE /\ cksumInit = 0
  /\ errCode = FALSE
  /\ tx = 0 /\ faults = 0
  /\ committed = db.data /\ previous = db.data
  /\ inDoubt = FALSE
  /\ base = db.data
  /\ safe = 0

Next ==
  \/ \E c \in Conns : SharedLock(c)
  \/ CheckVersion \/ pager_unlock
  \/ \E p \in Pages : Acquire(p) \/ Change(p) \/ pagerStress(p)
  \/ Begin
  \/ InvalidateNext \/ SyncRecords \/ WriteNRec \/ SyncNRec \/ NewHeader
  \/ Spill
  \/ \E n \in {0, 1} : CommitPhaseOne(n)
  \/ IncrChangeCounter \/ JournalDiscarded \/ WritePages \/ SyncDb
  \/ CommitPhaseTwo \/ SyncZero \/ EndTransaction
  \/ Rollback \/ PlayHeader \/ PlayRecord \/ EndSection \/ EndPlayback
  \/ CommitFails \/ SpillFails \/ PlaybackFails
  \/ PowerFailure

Spec == Init /\ [][Next]_vars

-----------------------------------------------------------------------------
Active == pc \in {"ready", "sync", "sync1", "nrec", "sync2", "newheader",
                  "spill", "count", "discard", "write", "dbsync", "finish"}

Store == INSTANCE AtomicStore WITH
           image <- committed,
           limbo <- {committed, previous},
           view <- IF Active THEN {Image} ELSE {},
           writing <- Active /\ state # "shared"

\* The pager "implements atomic commit and rollback through the use of a
\* journal file" (pager.c, lines 14-16): what a connection reads is what was
\* committed last, through its own cache, spilled pages, rollbacks, I/O
\* errors, power failures and the recovery after them.
ImplementsStore == Store!Spec

\* Write-ahead: a page of the committed database that the disk may hold in
\* any other form is in a part of the journal that is safe on the disk and
\* will be played back.
Covered(p) ==
  \E h \in 1 .. Len(jr.may), i \in 1 .. Len(jr.may), id \in 1 .. tx :
    /\ h < i
    /\ \A b \in jr.may[h] : b.kind = "header" /\ b.id = id /\ b.body >= i - h
    /\ jr.may[i] = {Record(p, committed[p], id)}

WriteAhead ==
  ~inDoubt =>
    \A p \in 1 .. Len(committed) :
      p \in DOMAIN db.may /\ (db.may[p] = {committed[p]} \/ Covered(p))
=============================================================================
