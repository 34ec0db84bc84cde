--------------------------- MODULE SqlitePagerInv ---------------------------
(***************************************************************************)
(* The inductive invariant of the pager, for synchronous=FULL and without  *)
(* faults in the two windows.                                              *)
(*                                                                         *)
(* base is the image to come back to and tx the transaction the journal    *)
(* belongs to.  The first safe blocks of the journal are sections whose    *)
(* records and header are synced, so that no power failure changes them;   *)
(* a last section may follow whose header is not.  The operators of the    *)
(* first two parts take what they depend on as arguments, as they are used *)
(* for a journal and for what a power failure makes of it.                 *)
(***************************************************************************)
EXTENDS SqlitePager

Values == {v \in Int : v >= Torn}
Blocks == [kind : {"header", "record", "zeroes", "torn"},
           page : Nat, body : {v \in Int : v >= Torn}, id : Nat]

IsHeader(b) == b.kind = "header"
LiveHeader(b, B, X) ==
  IsHeader(b) /\ b.id = X /\ b.page = Len(B) /\ b.body \in Nat
LiveRecord(b, B, X) ==
  /\ b.kind = "record"
  /\ b.id = X
  /\ b.page \in 1 .. Len(B)
  /\ b.body = B[b.page]

Prefix(s, t) == Len(s) <= Len(t) /\ \A p \in 1 .. Len(s) : s[p] = t[p]

-----------------------------------------------------------------------------
(* The journal as the disk may have it.                                    *)

Certain(poss) == \A b, c \in poss : b = c

\* What the disk may have is possible, less of it is possible, and data is
\* one of the possibilities.
Possible(may, lens) ==
  /\ Len(may) \in Nat /\ lens \subseteq Nat
  /\ \A i \in 1 .. Len(may) : may[i] # {}
Within(may2, may, lens) ==
  /\ Len(may2) \in Nat /\ Len(may2) <= Len(may)
  /\ Len(may2) \in lens \/ Len(may2) = Len(may)
  /\ \A i \in 1 .. Len(may2) : may2[i] \subseteq may[i]
OneOf(data, may, lens) ==
  /\ Len(data) \in lens /\ Len(data) <= Len(may)
  /\ \A i \in 1 .. Len(data) : data[i] \in may[i]

\* The synced sections: one header after the other, each with its records.
SafeSections(may, lens, B, X, e) ==
  /\ e <= Len(may)
  /\ \A n \in lens : e <= n
  /\ e >= 1 => \A b \in may[1] : IsHeader(b)
  /\ \A i \in 1 .. e :
       /\ Certain(may[i])
       /\ \A b \in may[i] :
            \/ /\ LiveHeader(b, B, X)
               /\ i + b.body <= e
               /\ \A k \in i + 1 .. i + b.body :
                    \A c \in may[k] : LiveRecord(c, B, X)
               /\ i + b.body < e =>
                    \A c \in may[i + b.body + 1] : IsHeader(c)
            \/ /\ LiveRecord(b, B, X)
               /\ \E g \in 1 .. i - 1 :
                    \A c \in may[g] : IsHeader(c) /\ i <= g + c.body

\* If the disk may have the header of the last section with its number of
\* records, it has the records, and nothing that looks like a header follows.
LastSection(may, lens, B, X, e) ==
  e < Len(may) =>
    \A b \in may[e + 1] : IsHeader(b) =>
      /\ LiveHeader(b, B, X)
      /\ b.body > 0 =>
           /\ \A n \in lens : e + 1 + b.body <= n
           /\ e + 1 + b.body <= Len(may)
           /\ \A k \in e + 2 .. e + 1 + b.body :
                Certain(may[k]) /\ \A c \in may[k] : LiveRecord(c, B, X)
           /\ e + 1 + b.body < Len(may) =>
                \A c \in may[e + 2 + b.body] : ~IsHeader(c)

\* There is no other header of this transaction.
NoneBeyond(may, X, e) ==
  Len(may) >= 1 /\ (\E b \in may[1] : IsHeader(b)) =>
    \A i \in e + 2 .. Len(may) : \A b \in may[i] : IsHeader(b) => b.id # X

JournalOK(may, lens, B, X, e) ==
  /\ SafeSections(may, lens, B, X, e)
  /\ LastSection(may, lens, B, X, e)
  /\ NoneBeyond(may, X, e)

\* An empty section at the end is not followed by an old header.
Sealed(may, e) ==
  e + 2 <= Len(may) /\ (\E b \in may[e + 1] : IsHeader(b) /\ b.body = 0) =>
    \A c \in may[e + 2] : ~IsHeader(c)

\* The journal of transactions that found the file empty restores nothing.
NothingToRestore(may) ==
  \A i \in 1 .. Len(may) : \A b \in may[i] :
    b.kind # "record" /\ (IsHeader(b) => b.page = 0)

\* Whatever a power failure does, page p will be restored.
Restorable(p, may, B, X, e) ==
  \E g \in 1 .. e + 1, i \in 1 .. Len(may) :
    /\ g < i
    /\ \A b \in may[g] : LiveHeader(b, B, X) /\ i <= g + b.body
    /\ \A c \in may[i] : LiveRecord(c, B, X) /\ c.page = p

-----------------------------------------------------------------------------
(* The playback of a journal: data as the program reads it.                *)

\* A place behind which there is a header to read or none.
Boundary(t, data, e) == t <= e /\ (t < e => IsHeader(data[t + 1]))
AtEnd(t, data) == t = Len(data) \/ (t < Len(data) /\ ~IsHeader(data[t + 1]))

\* Between the places m and n there is a record of page p.
RecordIn(p, m, n, data, B, X) ==
  \E k \in m + 1 .. n : LiveRecord(data[k], B, X) /\ data[k].page = p

\* The last block a recovery reads.
PlayEnd(data, e) ==
  IF e < Len(data) /\ IsHeader(data[e + 1]) THEN e + 1 + data[e + 1].body
                                            ELSE e

-----------------------------------------------------------------------------
FileOK(f, V) ==
  /\ f \in [data : Seq(V), may : Seq(SUBSET V), lens : SUBSET Nat]
  /\ Len(f.data) <= Len(f.may)
  /\ Len(f.data) \in f.lens
  /\ \A n \in f.lens : n <= Len(f.may)
  /\ \A i \in 1 .. Len(f.may) : f.may[i] # {}
  /\ \A i \in 1 .. Len(f.data) : f.data[i] \in f.may[i]

Working == {"sync", "sync1", "nrec", "sync2", "newheader", "spill", "count",
            "discard", "write", "dbsync", "finish"}
Playing == {"header", "record", "endplay"}

\* No block is from a later transaction than number X.
BlocksOK(may, X) ==
  \A i \in 1 .. Len(may) : \A b \in may[i] :
    b.id <= X /\ (IsHeader(b) => b.id >= 1 /\ b.body \in Nat)

DiskType ==
  /\ FileOK(db, Values)
  /\ Len(db.may) = Len(db.data)
  /\ Len(db.data) <= MaxPages
  /\ FileOK(jr, Blocks)
  /\ tx \in Nat
  /\ BlocksOK(jr.may, tx)
  /\ committed \in Seq(Values) /\ previous \in Seq(Values)
  /\ inDoubt \in BOOLEAN
  /\ base \in Seq(Values) /\ safe \in Nat

PagerType ==
  /\ owner \in Conns \cup {None}
  /\ pc \in {"idle", "check", "ready", "zsync", "end"} \cup Working \cup Playing
  /\ goal \in 0 .. MaxPages
  /\ state \in {"unlock", "shared", "reserved", "exclusive", "synced"}
  /\ cache \in [Conns -> [Pages -> Values \cup {NotCached}]]
  /\ dbFileVers \in [Conns -> Values]
  /\ dirty \subseteq Pages /\ need \subseteq Pages /\ pInJournal \subseteq Pages
  /\ needSync \in BOOLEAN /\ journalStarted \in BOOLEAN
  /\ dbModified \in BOOLEAN
  /\ dbSize \in 0 .. MaxPages /\ dbOrigSize \in 0 .. MaxPages
  /\ nRec \in Nat /\ journalOff \in Nat /\ journalHdr \in Nat
  /\ isHot \in BOOLEAN /\ left \in Nat /\ isUnsync \in BOOLEAN
  /\ cksumInit \in Nat /\ errCode \in BOOLEAN
  /\ faults \in Nat

-----------------------------------------------------------------------------
(* What holds everywhere.                                                  *)

\* zeroJournalHdr has made the first header one of two possibilities.
JournalMay == IF pc = "zsync" THEN [jr.may EXCEPT ![1] = @ \ {Zeroes}]
                              ELSE jr.may

FilesOK ==
  /\ base = <<>> => NothingToRestore(jr.may)
  /\ base # <<>> => JournalOK(JournalMay, jr.lens, base, tx, safe)
  /\ Len(base) <= PageCount
  /\ \A p \in 1 .. Len(base) :
       db.data[p] = base[p] \/ Restorable(p, JournalMay, base, tx, safe)
  /\ ~inDoubt =>
       /\ \A n \in db.lens : Len(base) <= n
       /\ \A p \in 1 .. Len(base) :
            \/ \A v \in db.may[p] : v = base[p]
            \/ Restorable(p, JournalMay, base, tx, safe)
  /\ InFlux(db) \/ \A n \in db.lens : n = PageCount

HistoryOK ==
  /\ Prefix(previous, base)
  /\ pc # "zsync" => previous = committed

Coherent(pgs, B) ==
  \A p \in Pages : pgs[p] # NotCached => p <= Len(B) /\ pgs[p] = B[p]

\* A cache that was filled under the present version holds the present pages.
VersionOK(pgs, vers, B) ==
  pgs # NoPages =>
    /\ Len(B) > 0
    /\ vers <= B[1]
    /\ vers = B[1] => Coherent(pgs, B)

CachesOK ==
  \A c \in Conns :
    c # owner \/ pc \in {"idle", "check"} \/ isHot =>
      VersionOK(cache[c], dbFileVers[c], base)

-----------------------------------------------------------------------------
(* What holds in the phases of the work of a connection.                   *)

LiveData == Len(jr.data) >= 1 /\ IsHeader(jr.data[1])
NoHeader(may) == Len(may) >= 1 => \A b \in may[1] : ~IsHeader(b)

\* There is nothing to play back.
Quiet == base = db.data /\ (base # <<>> => safe = 0 /\ NoHeader(jr.may))

\* There may be something: a transaction was cut short.
CutShort == LiveData /\ (base # <<>> => Sealed(jr.may, safe))

Clean == dirty = {} /\ need = {} /\ ~dbModified

Idle ==
  pc = "idle" =>
    /\ owner = None /\ state = "unlock" /\ goal = 0
    /\ ~errCode /\ ~isHot /\ Clean
    /\ CutShort \/ (~LiveData /\ Quiet)

Shared ==
  state = "shared" =>
    /\ pc \in {"check", "ready"} /\ goal = 0
    /\ ~errCode /\ ~isHot /\ Clean /\ Quiet
    /\ pc = "ready" =>
         /\ dbSize = PageCount
         /\ cache[owner] # NoPages =>
              /\ Len(base) > 0
              /\ dbFileVers[owner] = base[1]
              /\ Coherent(cache[owner], base)

Writing == {"reserved", "exclusive", "synced"}
InTransaction == pc \in {"ready"} \cup Working /\ state # "shared"

\* The journal a transaction has written: a header at hdr, the records of the
\* last section up to end, and blocks of earlier transactions behind.
OwnJournal(data, B, X, hdr, end) ==
  /\ 1 <= hdr /\ hdr <= end /\ end <= Len(data)
  /\ \A k \in 1 .. end : LiveHeader(data[k], B, X) \/ LiveRecord(data[k], B, X)
  /\ LiveHeader(data[hdr], B, X) /\ data[hdr].body \in {0, end - hdr}
  /\ \A k \in hdr + 1 .. end : LiveRecord(data[k], B, X)
  /\ \A k \in end + 1 .. Len(data) : data[k].id # X
  /\ \A k, l \in 1 .. end :
       /\ LiveRecord(data[k], B, X) /\ LiveRecord(data[l], B, X)
       /\ data[k].page = data[l].page
       => k = l

TxPlace ==
  /\ state \in Writing /\ ~isHot /\ ~errCode /\ dbOrigSize = Len(base)
  /\ state = "synced" <=> pc = "finish"
  /\ pc \in {"ready", "count", "discard", "write", "dbsync", "finish"} => goal = 0
  /\ pc \in {"newheader", "spill"} => goal # 0
  /\ goal # 0 => goal \in dirty \ {1} /\ goal <= PageCount + 1
  /\ pc = "ready" \/ goal # 0 => Len(base) <= dbSize
  /\ pc # "ready" /\ goal = 0 => dbSize >= 1
  /\ ~dbModified => /\ pc = "ready" /\ state = "reserved"
                    /\ dirty = {} /\ pInJournal = {} /\ dbSize = Len(base)
  /\ pc = "spill" => goal \notin need
  /\ pc \in {"newheader", "write", "dbsync", "finish"} => need = {}
  /\ need # {} => needSync
  /\ pc \in {"dbsync", "finish"} => \A p \in dirty : p > dbSize
  /\ pc = "finish" => ~inDoubt /\ ~InFlux(db)

TxSections ==
  /\ OwnJournal(jr.data, base, tx, journalHdr, journalOff)
  /\ journalOff = journalHdr + nRec
  /\ \/ safe = journalHdr - 1 /\ pc # "newheader"
     \/ safe = journalOff /\ pc \in {"newheader", "write", "dbsync", "finish"}
  /\ safe = journalHdr - 1 /\ pc # "sync2" =>
       \A b \in jr.may[journalHdr] : IsHeader(b) => b.body = 0
  /\ pc \in {"sync1", "nrec", "sync2"} => AtEnd(journalOff, jr.data)
  /\ pc \in {"nrec", "newheader"} => jr = OnDisk(jr.data)
  /\ pc = "sync2" => jr.data[journalHdr].body = nRec
  /\ \A p \in 1 .. Len(base) :
       p \in pInJournal <=> RecordIn(p, 0, journalOff, jr.data, base, tx)
  /\ \A k \in safe + 1 .. journalOff :
       LiveRecord(jr.data[k], base, tx) => jr.data[k].page \in need

TxJournal ==
  /\ LiveData
  /\ 1 <= journalHdr /\ journalHdr <= journalOff /\ journalOff <= Len(jr.data)
  /\ pInJournal \subseteq 1 .. Len(base)
  /\ base # <<>> => TxSections

\* Pages that are not safe in the journal are as they were.
TxPages ==
  /\ \A p \in 1 .. Len(base) : p \notin pInJournal \/ p \in need =>
       /\ db.data[p] = base[p]
       /\ ~inDoubt => \A v \in db.may[p] : v = base[p]
  /\ state = "reserved" => db.data = base

TxCache ==
  LET pgs == cache[owner] IN
  /\ need \subseteq dirty
  /\ \A p \in dirty : /\ pgs[p] # NotCached
                      /\ p > PageCount => pgs[p] # Torn
                      /\ p <= Len(base) => p \in pInJournal
  /\ \A p \in Pages \ dirty :
       pgs[p] # NotCached => p <= PageCount /\ pgs[p] = db.data[p]
  /\ \A p \in 1 .. dbSize : p <= PageCount \/ p \in dirty
  /\ dbSize > 0 => pgs[1] # NotCached
  /\ Len(base) > 0 =>
       /\ 1 \notin pInJournal => dbFileVers[owner] = base[1]
       /\ pc \in {"ready", "count"} \/ goal # 0 => 1 \notin pInJournal
  /\ pc \notin {"ready", "count"} /\ goal = 0 =>
       /\ Len(base) > 0 => pgs[1] > base[1]
       /\ 1 \notin dirty => dbFileVers[owner] = pgs[1]

Transaction ==
  InTransaction => TxPlace /\ TxJournal /\ TxPages /\ TxCache

\* A transaction is rolled back by the connection that made it.
OwnStop(t) ==
  \/ Boundary(t, jr.data, safe)
  \/ journalHdr + nRec <= t /\ AtEnd(t, jr.data)

OwnPlace ==
  LET end == journalHdr + nRec IN
  /\ OwnJournal(jr.data, base, tx, journalHdr, end)
  /\ safe \in {journalHdr - 1, end}
  /\ pc = "header" => OwnStop(journalOff)
  /\ pc = "record" =>
       /\ cksumInit = tx
       /\ IF isUnsync
            THEN /\ journalHdr <= journalOff /\ jr.data[journalHdr].body = 0
                 /\ journalOff + left = Len(jr.data)
            ELSE /\ journalOff + left <= Len(jr.data)
                 /\ OwnStop(journalOff + left)
                 /\ \A k \in journalOff + 1 .. journalOff + left :
                      LiveRecord(jr.data[k], base, tx)
  /\ pc = "endplay" => end <= journalOff \/ (errCode /\ state = "reserved")

OwnPages ==
  LET end == journalHdr + nRec
      pgs == cache[owner]
  IN
  /\ \A p \in 1 .. Len(base) :
       \/ db.data[p] = base[p]
       \/ RecordIn(p, journalOff, safe, jr.data, base, tx)
  /\ \A p \in need : p <= Len(base) => db.data[p] = base[p]
  /\ \A k \in journalOff + 1 .. end :
       k > safe /\ LiveRecord(jr.data[k], base, tx) =>
         jr.data[k].page \in need /\ pgs[jr.data[k].page] # NotCached
  /\ \A p \in 1 .. Len(base) :
       \/ pgs[p] \in {NotCached, base[p]}
       \/ RecordIn(p, journalOff, end, jr.data, base, tx)
  /\ pgs[1] # NotCached
  /\ \/ dbFileVers[owner] = base[1]
     \/ RecordIn(1, journalOff, end, jr.data, base, tx)

OwnPlayback ==
  pc \in Playing /\ ~isHot =>
    /\ state \in {"reserved", "exclusive"} /\ goal = 0
    /\ LiveData
    /\ journalOff <= Len(jr.data)
    /\ journalOff > 0 => dbSize = Len(base)
    /\ pc = "record" => journalOff > 0
    /\ pc = "endplay" /\ journalOff = 0 => errCode /\ CutShort
    /\ state = "reserved" => db.data = base
    /\ base # <<>> => OwnPlace /\ OwnPages

\* A transaction that was cut short is rolled back by the next reader.
HotStop(t) ==
  \/ Boundary(t, jr.data, safe)
  \/ t = PlayEnd(jr.data, safe) /\ AtEnd(t, jr.data)

HotPages ==
  /\ Sealed(jr.may, safe)
  /\ pc = "header" => HotStop(journalOff)
  /\ pc = "record" =>
       /\ cksumInit = tx /\ ~isUnsync
       /\ journalOff + left <= Len(jr.data)
       /\ HotStop(journalOff + left)
       /\ \A k \in journalOff + 1 .. journalOff + left :
            LiveRecord(jr.data[k], base, tx)
  /\ pc = "endplay" => PlayEnd(jr.data, safe) <= journalOff
  /\ \A p \in 1 .. Len(base) :
       \/ db.data[p] = base[p]
       \/ RecordIn(p, journalOff, PlayEnd(jr.data, safe), jr.data, base, tx)

HotPlayback ==
  pc \in Playing /\ isHot =>
    /\ state = "exclusive" /\ ~errCode /\ goal = 0 /\ Clean
    /\ journalOff <= Len(jr.data)
    /\ journalOff > 0 => dbSize = Len(base)
    /\ IF LiveData THEN /\ pc # "header" => journalOff > 0
                        /\ base # <<>> => HotPages
                   ELSE Quiet /\ pc # "record" /\ journalOff = 0

\* What the end of the transaction leaves in the cache is what is in the file.
EndCache ==
  ~errCode /\ ~isHot =>
    \A p \in Pages : p <= dbSize /\ cache[owner][p] # NotCached =>
      /\ p <= PageCount
      /\ cache[owner][p] = db.data[p]
      /\ dbFileVers[owner] = db.data[1]

Finalising ==
  pc = "zsync" =>
    /\ state \in Writing /\ goal = 0
    /\ Len(jr.data) >= 1 /\ ~IsHeader(jr.data[1])
    /\ \E b \in jr.may[1] : IsHeader(b)
    /\ Prefix(committed, db.data)
    /\ inDoubt \/ ~InFlux(db)
    /\ Len(base) > 0 => Prefix(base, db.data) \/ db.data[1] > base[1]
    /\ EndCache

Ending ==
  pc = "end" =>
    /\ state \in Writing /\ goal = 0
    /\ (errCode /\ CutShort) \/ (~LiveData /\ Quiet)
    /\ EndCache

PagerInv ==
  /\ DiskType /\ PagerType /\ FilesOK /\ HistoryOK /\ CachesOK
  /\ owner = None <=> pc = "idle"
  /\ pc = "check" => state = "shared"
  /\ Idle /\ Shared /\ Transaction /\ OwnPlayback /\ HotPlayback
  /\ Finalising /\ Ending
=============================================================================
