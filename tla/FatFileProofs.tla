---------------------------- MODULE FatFileProofs ----------------------------
(***************************************************************************)
(* Proofs about FatFile: references and descriptors are counted right,     *)
(* and, as long as the callers keep away from a file whose hole is         *)
(* pending, fatfs.c implements what they expect of a file.                 *)
(***************************************************************************)
EXTENDS FatFile, FiniteSetTheorems, TLAPS

HandlesRight ==
  /\ open \subseteq Handles /\ append \subseteq open /\ failed \subseteq open
  /\ open # {} => exists

CountInv == HandlesRight /\ Counted

\* Both places of a handle that may be used agree: fd->pos is where f_offset
\* is, or at the end of the file.
PlacesAgree ==
  /\ offset \in [Handles -> 0 .. MaxSize]
  /\ pos \in [Handles -> Int]
  /\ \A h \in open \ failed : pos[h] = Smaller(offset[h], size)

SizeRight == size \in Nat /\ room \in Nat /\ size <= room /\ room <= MaxSize

FileInv == CountInv /\ PlacesAgree /\ SizeRight

-----------------------------------------------------------------------------
(* References and descriptors.                                             *)

LEMMA HandlesCounted ==
  ASSUME HandlesRight
  PROVE  /\ Cardinality(open) \in Nat
         /\ Cardinality(open) = 0 <=> open = {}
         /\ \A h \in Handles \ open :
              Cardinality(open \cup {h}) = Cardinality(open) + 1
         /\ \A h \in open : Cardinality(open \ {h}) = Cardinality(open) - 1
<1>1. IsFiniteSet(open)
  BY FatFileAssumption, FS_Subset DEF HandlesRight
<1>2. QED
  BY <1>1, FS_CardinalityType, FS_EmptySet, FS_AddElement, FS_RemoveElement

LEMMA OpenCounted ==
  ASSUME CountInv, NEW h \in Handles, fatfs_open(h)
  PROVE  /\ CountInv'
         /\ \/ open' = open
            \/ open' = open \cup {h}
         /\ size' = size \/ open = {}
<1>0. h \notin open /\ exists' = TRUE
  BY DEF fatfs_open, OpenNode, CreateOnly
<1>1. /\ \/ UNCHANGED <<refcnt, free_cnt, open, append>>
         \/ /\ free_cnt' = free_cnt - 1 /\ refcnt' = refcnt + 1
            /\ open' = open \cup {h}
            /\ append' \in {append, append \cup {h}}
      /\ failed' \in {failed, failed \ {h}}
  BY DEF fatfs_open, OpenNode, CreateOnly, AllocFd, fdVars
<1>2. size' = size \/ open = {}
  BY HandlesCounted
     DEF fatfs_open, OpenNode, CreateOnly, CountInv, Counted, HandlesRight
<1>3. HandlesRight'
  BY <1>0, <1>1 DEF CountInv, HandlesRight
<1>4. Counted'
  BY <1>0, <1>1, HandlesCounted, FatFileAssumption DEF CountInv, Counted
<1>5. QED
  BY <1>1, <1>2, <1>3, <1>4 DEF CountInv

LEMMA CloseCounted ==
  ASSUME CountInv, NEW h \in Handles, fatfs_fo_close(h)
  PROVE  CountInv'
<1>1. /\ h \in open /\ refcnt' = refcnt - 1 /\ free_cnt' = free_cnt + 1
      /\ open' = open \ {h} /\ append' = append \ {h} /\ failed' = failed \ {h}
      /\ exists' = exists
  BY DEF fatfs_fo_close, fileVars
<1>2. HandlesRight'
  BY <1>1 DEF CountInv, HandlesRight
<1>3. Counted'
  BY <1>1, HandlesCounted, FatFileAssumption DEF CountInv, Counted
<1>4. QED
  BY <1>2, <1>3 DEF CountInv

LEMMA UseCounted ==
  ASSUME CountInv, UNCHANGED fdVars, exists' = exists \/ open = {},
         failed' \subseteq failed \/ \E h \in open : failed' = failed \cup {h}
  PROVE  CountInv'
BY DEF CountInv, HandlesRight, Counted, fdVars

LEMMA IOUses ==
  ASSUME NEW h \in Handles,
         fatfs_fo_lseek(h) \/ fatfs_fo_read(h) \/ fatfs_fo_write(h)
  PROVE  /\ UNCHANGED <<exists, fdVars>>
         /\ failed' \subseteq failed \/ \E g \in open : failed' = failed \cup {g}
<1>1. CASE fatfs_fo_lseek(h)
  BY <1>1 DEF fatfs_fo_lseek, fileVars
<1>2. CASE fatfs_fo_read(h)
  BY <1>2 DEF fatfs_fo_read, Usable, fileVars
<1>3. CASE fatfs_fo_write(h)
  BY <1>3 DEF fatfs_fo_write, Usable, FillFails, DataWritten, WriteStops
<1>4. QED
  BY <1>1, <1>2, <1>3

LEMMA CountInvStep == CountInv /\ [Next]_vars => CountInv'
<1> SUFFICES ASSUME CountInv, [Next]_vars PROVE CountInv'
  OBVIOUS
<1>1. ASSUME NEW h \in Handles, fatfs_open(h) \/ fatfs_fo_close(h)
      PROVE  CountInv'
  BY <1>1, OpenCounted, CloseCounted
<1>2. ASSUME NEW h \in Handles,
             fatfs_fo_lseek(h) \/ fatfs_fo_read(h) \/ fatfs_fo_write(h)
      PROVE  CountInv'
  BY <1>2, IOUses, UseCounted
<1>3. CASE fatfs_unlink
  BY <1>3, HandlesCounted, UseCounted
     DEF fatfs_unlink, Unreferenced, CountInv, Counted
<1>4. CASE OtherFiles
  BY <1>4, UseCounted DEF OtherFiles
<1>5. CASE UNCHANGED vars
  BY <1>5, UseCounted DEF vars, fileVars
<1>6. QED
  BY <1>1, <1>2, <1>3, <1>4, <1>5 DEF Next

LEMMA CountInvAtFirst == Init => CountInv
BY FS_EmptySet, FatFileAssumption DEF Init, CountInv, HandlesRight, Counted

\* References and descriptors are right after any calls and errors.
THEOREM CountsRight == Spec => []Counted
<1>1. CountInv => Counted
  BY DEF CountInv
<1>2. QED
  BY CountInvAtFirst, CountInvStep, <1>1, PTL DEF Spec

-----------------------------------------------------------------------------
(* Writing.  A write begins at At(h) of the file; fd->pos is there, or at  *)
(* the end of the file, where the hole begins.                             *)

LEMMA WritePlace ==
  ASSUME FileInv, NEW h \in Handles, Usable(h) \/ h \in open \cap append
  PROVE  /\ At(h) \in 0 .. MaxSize /\ From(h) = Smaller(At(h), size)
         /\ Hole(h) \in Nat /\ From(h) + Hole(h) = At(h)
         /\ Hole(h) > 0 => From(h) = size
<1>1. At(h) \in 0 .. MaxSize
  BY FatFileAssumption DEF FileInv, SizeRight, PlacesAgree, At
<1>2. From(h) = Smaller(At(h), size)
  BY <1>1 DEF FileInv, SizeRight, PlacesAgree, At, From, Usable, Smaller
<1>3. QED
  BY <1>1, <1>2, FatFileAssumption
     DEF FileInv, SizeRight, Hole, Larger, Smaller

\* The bytes a handle has put into the file when k bytes b of it are written,
\* the hole before them included.
WroteBytes(h, b, k) ==
  \A i \in 0 .. size' - 1 :
    data'[i] = IF i \in At(h) .. At(h) + k - 1 THEN b
               ELSE IF i < size THEN data[i] ELSE Zero

WriteEnds(h, k) ==
  /\ offset' = [offset EXCEPT ![h] = At(h) + k]
  /\ pos' = [pos EXCEPT ![h] = At(h) + k]
  /\ size' = Larger(size, At(h) + k) /\ size' <= room
  /\ failed' \in {failed \cup {h}, failed \ {h}}

WriteGivesUp(h) ==
  /\ offset' = [offset EXCEPT ![h] = At(h)]
  /\ \E p \in Int : pos' = [pos EXCEPT ![h] = p]
  /\ size' = size
  /\ failed' = failed \cup {h}

LEMMA CellsCover ==
  ASSUME SizeRight, NEW i \in 0 .. MaxSize PROVE i \in Cells
BY FatFileAssumption DEF SizeRight, Cells

LEMMA FillDoes ==
  ASSUME FileInv, NEW h \in Handles, Usable(h) \/ h \in open \cap append,
         NEW b \in Bytes, FillFails(h)
  PROVE  WriteGivesUp(h) /\ WroteBytes(h, b, 0)
<1>1. /\ At(h) \in 0 .. MaxSize /\ From(h) = size /\ Hole(h) \in Nat
      /\ size \in 0 .. MaxSize /\ room \in Nat
  BY WritePlace, FatFileAssumption DEF FillFails, FileInv, SizeRight
<1>2. PICK k \in Int :
        /\ data' = data \/ data' = Written(data, size, Zero, k)
        /\ WriteStops(h, data', size + k)
  <2>1. CASE WriteStops(h, data, From(h))
    <3>1. data' = data /\ WriteStops(h, data', size + 0)
      BY <1>1, <2>1 DEF WriteStops
    <3>2. QED
      BY <3>1
  <2>2. ASSUME NEW k \in Int,
               WriteStops(h, Written(data, From(h), Zero, k), From(h) + k)
        PROVE  /\ data' = Written(data, size, Zero, k)
               /\ WriteStops(h, data', size + k)
    BY <1>1, <2>2 DEF WriteStops
  <2>3. Fits(From(h), Hole(h)) \in Int
    BY <1>1 DEF Fits, Larger
  <2>4. QED
    BY <2>1, <2>2, <2>3 DEF FillFails
<1>3. size' = size
  BY <1>2 DEF WriteStops
<1>4. \A i \in 0 .. size - 1 : data'[i] = data[i]
  <2>1. \A i \in 0 .. size - 1 : i \in Cells /\ i \notin size .. size + k - 1
    BY <1>1, FatFileAssumption DEF Cells
  <2>2. QED
    BY <1>2, <2>1 DEF Written
<1>5. WroteBytes(h, b, 0)
  BY <1>1, <1>3, <1>4 DEF WroteBytes
<1>6. WriteGivesUp(h)
  <2>1. size + k \in Int
    BY <1>1
  <2>2. QED
    BY <1>2, <2>1 DEF WriteGivesUp, WriteStops
<1>7. QED
  BY <1>5, <1>6

LEMMA DataDoes ==
  ASSUME FileInv, NEW h \in Handles, Usable(h) \/ h \in open \cap append,
         NEW b \in Bytes, NEW n \in 1 .. MaxLen,
         Fits(From(h), Hole(h)) = Hole(h), DataWritten(h, b, n)
  PROVE  \E k \in 0 .. MaxLen :
           WroteBytes(h, b, k) /\ (WriteEnds(h, k) \/ WriteGivesUp(h))
<1> DEFINE d == Written(data, From(h), Zero, Hole(h))
           from == From(h) + Hole(h)
<1>1. /\ At(h) \in 0 .. MaxSize /\ from = At(h) /\ Hole(h) \in Nat
      /\ Hole(h) > 0 => From(h) = size
      /\ size \in 0 .. MaxSize /\ room \in 0 .. MaxSize /\ size <= room
      /\ From(h) = Smaller(At(h), size) /\ From(h) \in Nat
  BY WritePlace, FatFileAssumption DEF FileInv, SizeRight, Smaller
<1>2. At(h) <= room
  BY <1>1 DEF Fits, Hole, Larger, Smaller
<1>3. ASSUME NEW k \in 0 .. MaxLen, data' = Written(d, from, b, k),
             At(h) + k <= room, size' = size \/ size' = Larger(size, At(h) + k)
      PROVE  WroteBytes(h, b, k)
  <2> SUFFICES ASSUME NEW i \in 0 .. size' - 1
               PROVE  data'[i] = IF i \in At(h) .. At(h) + k - 1 THEN b
                                 ELSE IF i < size THEN data[i] ELSE Zero
    BY DEF WroteBytes
  <2>1. i \in Int /\ 0 <= i /\ i < size' /\ i <= MaxSize
    BY <1>1, <1>3, FatFileAssumption DEF Larger
  <2>2. i \in Cells
    BY <2>1, FatFileAssumption DEF Cells
  <2>3. CASE i \in At(h) .. At(h) + k - 1
    BY <1>1, <1>3, <2>2, <2>3 DEF Written
  <2>4. CASE i \notin At(h) .. At(h) + k - 1 /\ i < size
    <3>1. i \notin From(h) .. From(h) + Hole(h) - 1
      BY <1>1, <2>1, <2>4
    <3>2. QED
      BY <1>1, <1>3, <2>2, <2>4, <3>1 DEF Written
  <2>5. CASE i \notin At(h) .. At(h) + k - 1 /\ ~(i < size)
    <3>1. i \in From(h) .. From(h) + Hole(h) - 1
      BY <1>1, <1>3, <2>1, <2>5 DEF Smaller, Larger
    <3>2. QED
      BY <1>1, <1>3, <2>2, <2>5, <3>1 DEF Written
  <2>6. QED
    BY <2>3, <2>4, <2>5
<1>4. /\ Fits(from, n) \in 0 .. MaxLen /\ At(h) + Fits(from, n) <= room
      /\ Fits(from, n - 1) \in 0 .. MaxLen
      /\ \A k \in 0 .. Fits(from, n - 1) : At(h) + k <= room
  BY <1>1, <1>2, FatFileAssumption DEF Fits, Larger
<1>5. CASE LET k == Fits(from, n) IN
             /\ data' = Written(d, from, b, k)
             /\ pos' = [pos EXCEPT ![h] = from + k]
             /\ offset' = [offset EXCEPT ![h] = At(h) + k]
             /\ size' = Larger(size, At(h) + k)
             /\ failed' = IF k < n THEN failed \cup {h} ELSE failed \ {h}
  <2>1. PICK k \in 0 .. MaxLen : k = Fits(from, n)
    BY <1>4
  <2>2. /\ data' = Written(d, from, b, k)
        /\ pos' = [pos EXCEPT ![h] = At(h) + k]
        /\ offset' = [offset EXCEPT ![h] = At(h) + k]
        /\ size' = Larger(size, At(h) + k) /\ At(h) + k <= room
        /\ failed' \in {failed \cup {h}, failed \ {h}}
    BY <1>1, <1>4, <1>5, <2>1
  <2>3. WroteBytes(h, b, k)
    BY <1>3, <2>2
  <2>4. WriteEnds(h, k)
    BY <1>1, <2>2 DEF WriteEnds, Larger
  <2>5. QED
    BY <2>3, <2>4
<1>6. CASE \E k \in 0 .. Fits(from, n - 1) :
             WriteStops(h, Written(d, from, b, k), from + k)
  <2>1. PICK k \in 0 .. Fits(from, n - 1) :
               WriteStops(h, Written(d, from, b, k), from + k)
    BY <1>6
  <2>2. k \in 0 .. MaxLen /\ At(h) + k <= room
    BY <1>4, FatFileAssumption
  <2>3. WroteBytes(h, b, k)
    BY <1>3, <2>1, <2>2 DEF WriteStops
  <2>4. WriteGivesUp(h)
    <3>1. from + k \in Int
      BY <1>1, <2>2
    <3>2. QED
      BY <2>1, <3>1 DEF WriteStops, WriteGivesUp
  <2>5. QED
    BY <2>2, <2>3, <2>4
<1>7. QED
  BY <1>5, <1>6 DEF DataWritten

LEMMA WriteDoes ==
  ASSUME FileInv, NEW h \in Handles, fatfs_fo_write(h)
  PROVE  \E b \in Bytes, k \in 0 .. MaxLen :
           WroteBytes(h, b, k) /\ (WriteEnds(h, k) \/ WriteGivesUp(h))
<1>1. PICK b \in Bytes, n \in 1 .. MaxLen :
        \/ FillFails(h)
        \/ Fits(From(h), Hole(h)) = Hole(h) /\ DataWritten(h, b, n)
  BY DEF fatfs_fo_write
<1>2. Usable(h) \/ h \in open \cap append
  BY DEF fatfs_fo_write
<1>3. CASE FillFails(h)
  <2>1. 0 \in 0 .. MaxLen /\ WroteBytes(h, b, 0) /\ WriteGivesUp(h)
    BY <1>2, <1>3, FillDoes, FatFileAssumption
  <2>2. QED
    BY <2>1
<1>4. CASE Fits(From(h), Hole(h)) = Hole(h) /\ DataWritten(h, b, n)
  BY <1>2, <1>4, DataDoes
<1>5. QED
  BY <1>1, <1>3, <1>4

-----------------------------------------------------------------------------
(* The two places of a handle stay together.                               *)

LEMMA SizeNat ==
  ASSUME FileInv
  PROVE  /\ size \in Nat /\ room \in Nat /\ size <= room /\ room <= MaxSize
         /\ MaxSize \in Nat /\ 0 \in 0 .. MaxSize /\ size \in 0 .. MaxSize
         /\ Smaller(0, size) = 0 /\ Smaller(size, size) = size
BY FatFileAssumption DEF FileInv, SizeRight, Smaller

LEMMA OpenKeeps ==
  ASSUME FileInv, NEW h \in Handles, fatfs_open(h)
  PROVE  FileInv'
<1>1. CountInv' /\ (size' = size \/ open = {})
  BY OpenCounted DEF FileInv
<1>2. size' \in {size, 0} /\ room' = room
  BY DEF fatfs_open, OpenNode, CreateOnly
<1>3. SizeRight'
  BY <1>2, SizeNat DEF SizeRight
<1>4. PlacesAgree'
  <2>1. CASE UNCHANGED <<open, offset, pos>>
    <3>1. failed' \in {failed, failed \ {h}} /\ h \notin open
      BY DEF fatfs_open, OpenNode, CreateOnly
    <3>2. QED
      BY <1>1, <2>1, <3>1 DEF FileInv, PlacesAgree
  <2>2. CASE ~UNCHANGED <<open, offset, pos>>
    <3>1. PICK mode : AllocFd(h, mode, size')
      BY <2>2 DEF fatfs_open, OpenNode, CreateOnly, fdVars
    <3>2. PICK s \in {size', 0} :
            /\ open' = open \cup {h} /\ offset' = [offset EXCEPT ![h] = s]
            /\ pos' = [pos EXCEPT ![h] = s]
      BY <2>2, <3>1 DEF AllocFd, StartsAt, fdVars
    <3>3. failed' = failed \ {h} /\ h \notin open
      BY <2>2 DEF fatfs_open, OpenNode, CreateOnly, fdVars
    <3>4. s \in 0 .. MaxSize /\ s \in Int /\ Smaller(s, size') = s
      BY <1>2, <3>2, SizeNat DEF Smaller
    <3>5. \A g \in open \ failed : pos[g] = Smaller(offset[g], size')
      BY <1>1 DEF FileInv, PlacesAgree
    <3>6. open \subseteq Handles
      BY DEF FileInv, CountInv, HandlesRight
    <3>7. QED
      BY <3>2, <3>3, <3>4, <3>5, <3>6 DEF FileInv, PlacesAgree
  <2>3. QED
    BY <2>1, <2>2
<1>5. QED
  BY <1>1, <1>3, <1>4 DEF FileInv

LEMMA CloseKeeps ==
  ASSUME FileInv, NEW h \in Handles, fatfs_fo_close(h)
  PROVE  FileInv'
<1>1. CountInv'
  BY CloseCounted DEF FileInv
<1>2. /\ UNCHANGED <<size, room>> /\ open' = open \ {h}
      /\ failed' = failed \ {h} /\ open \subseteq Handles
      /\ offset' = [offset EXCEPT ![h] = 0] /\ pos' = [pos EXCEPT ![h] = 0]
  BY DEF fatfs_fo_close, fileVars, FileInv, CountInv, HandlesRight
<1>3. SizeRight'
  BY <1>2 DEF FileInv, SizeRight
<1>4. PlacesAgree'
  BY <1>2, SizeNat DEF FileInv, PlacesAgree
<1>5. QED
  BY <1>1, <1>3, <1>4 DEF FileInv

\* One handle moves both of its places, to where they agree or with an error.
LEMMA MoveKeeps ==
  ASSUME FileInv, NEW h \in Handles, CountInv', SizeRight', open' = open,
         NEW o \in 0 .. MaxSize, NEW p \in Int,
         offset' = [offset EXCEPT ![h] = o], pos' = [pos EXCEPT ![h] = p],
         \A g \in open \ failed' : g # h => g \notin failed,
         \/ size' = size
         \/ \A g \in open \ {h} : offset[g] <= size /\ size <= size',
         h \in failed' \/ p = Smaller(o, size')
  PROVE  FileInv'
<1>1. open \subseteq Handles
  BY DEF FileInv, CountInv, HandlesRight
<1>2. \A g \in open \ failed : g # h => pos[g] = Smaller(offset[g], size')
  BY <1>1, SizeNat DEF FileInv, PlacesAgree, Smaller, SizeRight
<1>3. PlacesAgree'
  BY <1>1, <1>2 DEF FileInv, PlacesAgree
<1>4. QED
  BY <1>3 DEF FileInv

LEMMA SeekKeeps ==
  ASSUME FileInv, NEW h \in Handles, fatfs_fo_lseek(h)
  PROVE  FileInv'
<1>1. CountInv'
  BY IOUses, UseCounted DEF FileInv
<1>2. PICK to \in 0 .. MaxSize : /\ pos' = [pos EXCEPT ![h] = SeekPos(to)]
                                 /\ offset' = [offset EXCEPT ![h] = to]
  BY DEF fatfs_fo_lseek
<1>3. failed' = failed \ {h} /\ UNCHANGED <<open, size, room>>
  BY DEF fatfs_fo_lseek, fdVars, fileVars
<1>4. SizeRight'
  BY <1>3 DEF FileInv, SizeRight
<1>5. SeekPos(to) \in Int /\ SeekPos(to) = Smaller(to, size')
  BY <1>3, SizeNat DEF SeekPos, Smaller
<1>6. QED
  BY <1>1, <1>2, <1>3, <1>4, <1>5, MoveKeeps

\* What a read does: n bytes from where f_offset is, or an error.
LEMMA ReadDoes ==
  ASSUME FileInv, NEW h \in Handles, fatfs_fo_read(h)
  PROVE  \E asked \in 1 .. MaxLen, n \in 0 .. MaxLen :
           /\ n = IF offset[h] < size THEN Smaller(asked, size - offset[h]) ELSE 0
           /\ \/ /\ got' = [i \in 0 .. n - 1 |-> data[offset[h] + i]]
                 /\ offset' = [offset EXCEPT ![h] = offset[h] + n]
                 /\ pos' = [pos EXCEPT ![h] = pos[h] + n]
                 /\ failed' = failed
              \/ \E p \in Int : /\ pos' = [pos EXCEPT ![h] = p]
                                /\ failed' = failed \cup {h}
                                /\ UNCHANGED <<offset, got>>
<1>1. PICK asked \in 1 .. MaxLen :
        LET n == IF offset[h] < size THEN Smaller(asked, size - offset[h]) ELSE 0
        IN  \/ /\ got' = [i \in 0 .. n - 1 |-> data[pos[h] + i]]
               /\ offset' = [offset EXCEPT ![h] = @ + n]
               /\ pos' = [pos EXCEPT ![h] = @ + n]
               /\ failed' = failed
            \/ \E k \in 0 .. n - 1 : /\ pos' = [pos EXCEPT ![h] = @ + k]
                                     /\ failed' = failed \cup {h}
                                     /\ UNCHANGED <<offset, got>>
  BY DEF fatfs_fo_read
<1>2. /\ h \in open \ failed /\ offset[h] \in 0 .. MaxSize /\ pos[h] \in Int
      /\ pos[h] = Smaller(offset[h], size)
  BY DEF fatfs_fo_read, Usable, FileInv, PlacesAgree
<1>3. PICK n \in 0 .. MaxLen :
        n = IF offset[h] < size THEN Smaller(asked, size - offset[h]) ELSE 0
  BY <1>2, SizeNat, FatFileAssumption DEF Smaller
<1>4. CASE /\ got' = [i \in 0 .. n - 1 |-> data[pos[h] + i]]
           /\ offset' = [offset EXCEPT ![h] = @ + n]
           /\ pos' = [pos EXCEPT ![h] = @ + n]
           /\ failed' = failed
  <2>1. n > 0 => pos[h] = offset[h]
    BY <1>2, <1>3, SizeNat DEF Smaller
  <2>2. [i \in 0 .. n - 1 |-> data[pos[h] + i]]
          = [i \in 0 .. n - 1 |-> data[offset[h] + i]]
    <3>1. CASE n > 0
      BY <2>1, <3>1
    <3>2. CASE n = 0
      <4>1. \A i \in 0 .. n - 1 : FALSE
        BY <3>2
      <4>2. QED
        BY <4>1
    <3>3. QED
      BY <3>1, <3>2
  <2>3. QED
    BY <1>3, <1>4, <2>2
<1>5. CASE \E k \in 0 .. n - 1 : /\ pos' = [pos EXCEPT ![h] = @ + k]
                                 /\ failed' = failed \cup {h}
                                 /\ UNCHANGED <<offset, got>>
  <2>1. PICK k \in 0 .. n - 1 : /\ pos' = [pos EXCEPT ![h] = @ + k]
                                /\ failed' = failed \cup {h}
                                /\ UNCHANGED <<offset, got>>
    BY <1>5
  <2>2. pos[h] + k \in Int
    BY <1>2
  <2>3. QED
    BY <1>3, <2>1, <2>2
<1>6. QED
  BY <1>1, <1>3, <1>4, <1>5

LEMMA ReadKeeps ==
  ASSUME FileInv, NEW h \in Handles, fatfs_fo_read(h)
  PROVE  FileInv'
<1>1. CountInv' /\ UNCHANGED <<open, size, room>>
  BY IOUses, UseCounted DEF FileInv, fatfs_fo_read, fileVars, fdVars
<1>2. SizeRight'
  BY <1>1 DEF FileInv, SizeRight
<1>3. /\ h \in open \ failed /\ offset[h] \in 0 .. MaxSize /\ pos[h] \in Int
      /\ pos[h] = Smaller(offset[h], size)
      /\ offset = [offset EXCEPT ![h] = offset[h]]
  BY DEF fatfs_fo_read, Usable, FileInv, PlacesAgree
<1>4. PICK asked \in 1 .. MaxLen, n \in 0 .. MaxLen :
        /\ n = IF offset[h] < size THEN Smaller(asked, size - offset[h]) ELSE 0
        /\ \/ /\ offset' = [offset EXCEPT ![h] = offset[h] + n]
              /\ pos' = [pos EXCEPT ![h] = pos[h] + n]
              /\ failed' = failed
           \/ \E p \in Int : /\ pos' = [pos EXCEPT ![h] = p]
                             /\ failed' = failed \cup {h}
                             /\ offset' = offset
  BY ReadDoes
<1>5. CASE /\ offset' = [offset EXCEPT ![h] = offset[h] + n]
           /\ pos' = [pos EXCEPT ![h] = pos[h] + n]
           /\ failed' = failed
  <2>1. /\ offset[h] + n \in 0 .. MaxSize /\ pos[h] + n \in Int
        /\ pos[h] + n = Smaller(offset[h] + n, size')
    BY <1>1, <1>3, <1>4, SizeNat, FatFileAssumption DEF Smaller
  <2>2. QED
    BY <1>1, <1>2, <1>5, <2>1, MoveKeeps
<1>6. CASE \E p \in Int : /\ pos' = [pos EXCEPT ![h] = p]
                          /\ failed' = failed \cup {h}
                          /\ offset' = offset
  BY <1>1, <1>2, <1>3, <1>6, MoveKeeps
<1>7. QED
  BY <1>4, <1>5, <1>6

LEMMA WriteKeeps ==
  ASSUME FileInv, Careful, NEW h \in Handles, fatfs_fo_write(h)
  PROVE  FileInv'
<1>1. /\ CountInv' /\ UNCHANGED <<open, room>>
      /\ \A g \in open \ {h} : offset[g] <= size
      /\ At(h) \in 0 .. MaxSize
  BY IOUses, UseCounted, WritePlace
     DEF FileInv, fatfs_fo_write, fdVars, NoOtherHole
<1>2. PICK k \in 0 .. MaxLen : WriteEnds(h, k) \/ WriteGivesUp(h)
  BY WriteDoes
<1>3. CASE WriteEnds(h, k)
  <2>1. /\ SizeRight' /\ At(h) + k \in 0 .. MaxSize /\ size <= size'
        /\ Smaller(At(h) + k, size') = At(h) + k
    BY <1>1, <1>3, SizeNat, FatFileAssumption
       DEF WriteEnds, SizeRight, Larger, Smaller
  <2>2. PICK o \in 0 .. MaxSize : o = At(h) + k
    BY <2>1
  <2>3. /\ offset' = [offset EXCEPT ![h] = o] /\ pos' = [pos EXCEPT ![h] = o]
        /\ failed' \in {failed \cup {h}, failed \ {h}} /\ o \in Int
        /\ o = Smaller(o, size')
    BY <1>3, <2>1, <2>2 DEF WriteEnds
  <2>4. QED
    BY <1>1, <2>1, <2>3, MoveKeeps
<1>4. CASE WriteGivesUp(h)
  <2>1. SizeRight'
    BY <1>1, <1>4 DEF FileInv, SizeRight, WriteGivesUp
  <2>2. PICK p \in Int : pos' = [pos EXCEPT ![h] = p]
    BY <1>4 DEF WriteGivesUp
  <2>3. /\ offset' = [offset EXCEPT ![h] = At(h)] /\ size' = size
        /\ failed' = failed \cup {h}
    BY <1>4 DEF WriteGivesUp
  <2>4. QED
    BY <1>1, <2>1, <2>2, <2>3, MoveKeeps
<1>5. QED
  BY <1>2, <1>3, <1>4

LEMMA FileInvStep == FileInv /\ Careful /\ [Next]_vars => FileInv'
<1> SUFFICES ASSUME FileInv, Careful, [Next]_vars PROVE FileInv'
  OBVIOUS
<1>1. CASE fatfs_unlink
  <2>1. CountInv'
    BY CountInvStep DEF FileInv
  <2>2. /\ UNCHANGED <<open, room, offset, pos>> /\ size' = 0 /\ refcnt = 0
    BY <1>1 DEF fatfs_unlink, Unreferenced, fdVars
  <2>3. open = {}
    BY <2>2, HandlesCounted DEF FileInv, CountInv, Counted
  <2>4. SizeRight' /\ PlacesAgree'
    BY <2>2, <2>3, SizeNat DEF SizeRight, FileInv, PlacesAgree
  <2>5. QED
    BY <2>1, <2>4 DEF FileInv
<1>2. CASE OtherFiles
  <2>1. CountInv'
    BY CountInvStep DEF FileInv
  <2>2. /\ UNCHANGED <<open, size, offset, pos, failed>>
        /\ \E r \in size .. MaxSize : room' = r
    BY <1>2 DEF OtherFiles, fdVars
  <2>3. SizeRight' /\ PlacesAgree'
    BY <2>2, SizeNat DEF SizeRight, FileInv, PlacesAgree
  <2>4. QED
    BY <2>1, <2>3 DEF FileInv
<1>3. CASE UNCHANGED vars
  <2>1. CountInv'
    BY CountInvStep DEF FileInv
  <2>2. SizeRight' /\ PlacesAgree'
    BY <1>3 DEF vars, fileVars, fdVars, SizeRight, FileInv, PlacesAgree
  <2>3. QED
    BY <2>1, <2>2 DEF FileInv
<1>4. QED
  BY <1>1, <1>2, <1>3, OpenKeeps, CloseKeeps, SeekKeeps, ReadKeeps, WriteKeeps
     DEF Next

LEMMA FileInvAtFirst == Init => FileInv
<1> SUFFICES ASSUME Init PROVE FileInv
  OBVIOUS
<1>1. SizeRight /\ PlacesAgree
  BY FatFileAssumption DEF Init, SizeRight, PlacesAgree
<1>2. QED
  BY <1>1, CountInvAtFirst DEF FileInv

-----------------------------------------------------------------------------
(* The refinement.                                                         *)

LEMMA ContentSame ==
  ASSUME size' = size, \A i \in 0 .. size - 1 : data'[i] = data[i]
  PROVE  Content' = Content
BY DEF Content

LEMMA OpenRefines ==
  ASSUME FileInv, NEW h \in Handles, fatfs_open(h)
  PROVE  PF!Open(h)
<1>1. PF!Prepare
  <2>1. exists' = TRUE
    BY DEF fatfs_open, OpenNode, CreateOnly
  <2>2. CASE exists /\ UNCHANGED <<size, data>>
    BY <2>1, <2>2 DEF PF!Prepare, Content
  <2>3. CASE size' = 0
    <3>1. Content' = [i \in 0 .. -1 |-> Zero]
      <4>1. Content' = [i \in 0 .. -1 |-> data'[i]]
        BY <2>3 DEF Content
      <4>2. \A i \in 0 .. -1 : FALSE
        OBVIOUS
      <4>3. QED
        BY <4>1, <4>2
    <3>2. QED
      BY <2>1, <2>3, <3>1 DEF PF!Prepare
  <2>4. QED
    BY <2>2, <2>3 DEF fatfs_open, OpenNode, CreateOnly
<1>2. /\ h \notin open /\ got' = got
      /\ \/ UNCHANGED <<open, append, offset>>
         \/ \E mode \in Modes : AllocFd(h, mode, size')
  BY DEF fatfs_open, OpenNode, CreateOnly, fdVars
<1>3. \/ UNCHANGED <<open, append, offset>>
      \/ /\ open' = open \cup {h}
         /\ \/ append' = append /\ offset' = [offset EXCEPT ![h] = 0]
            \/ append' = append \cup {h} /\ offset' = [offset EXCEPT ![h] = size']
  BY <1>2 DEF AllocFd, StartsAt, fdVars
<1>4. QED
  BY <1>1, <1>2, <1>3 DEF PF!Open

LEMMA ReadRefines ==
  ASSUME FileInv, NEW h \in Handles, fatfs_fo_read(h)
  PROVE  PF!Read(h) \/ UNCHANGED PF!vars
<1>1. /\ UNCHANGED <<exists, size, open, append>> /\ Content' = Content
      /\ h \in open /\ offset[h] \in 0 .. MaxSize
  BY DEF fatfs_fo_read, Usable, fileVars, fdVars, Content, FileInv, PlacesAgree
<1>2. PICK asked \in 1 .. MaxLen, n \in 0 .. MaxLen :
        /\ n = IF offset[h] < size THEN Smaller(asked, size - offset[h]) ELSE 0
        /\ \/ /\ got' = [i \in 0 .. n - 1 |-> data[offset[h] + i]]
              /\ offset' = [offset EXCEPT ![h] = offset[h] + n]
           \/ UNCHANGED <<offset, got>>
  BY ReadDoes
<1>3. CASE /\ got' = [i \in 0 .. n - 1 |-> data[offset[h] + i]]
           /\ offset' = [offset EXCEPT ![h] = offset[h] + n]
  <2>1. \A i \in 0 .. n - 1 : data[offset[h] + i] = Content[offset[h] + i]
    <3>1. \A i \in 0 .. n - 1 : offset[h] + i \in 0 .. size - 1
      BY <1>1, <1>2, SizeNat DEF Smaller
    <3>2. QED
      BY <3>1 DEF Content
  <2>2. got' = [i \in 0 .. n - 1 |-> Content[offset[h] + i]]
    BY <1>3, <2>1
  <2>3. \/ n = asked /\ offset[h] + n <= size
        \/ n < asked /\ offset[h] + n = size
        \/ n = 0 /\ offset[h] > size
    BY <1>1, <1>2, SizeNat DEF Smaller
  <2>4. QED
    BY <1>1, <1>3, <2>2, <2>3 DEF PF!Read
<1>4. CASE UNCHANGED <<offset, got>>
  BY <1>1, <1>4 DEF PF!vars
<1>5. QED
  BY <1>2, <1>3, <1>4

LEMMA WriteRefines ==
  ASSUME FileInv, NEW h \in Handles, fatfs_fo_write(h)
  PROVE  PF!Write(h) \/ PF!WriteFails(h)
<1>1. /\ UNCHANGED <<exists, open, append, got>> /\ h \in open
      /\ At(h) \in 0 .. MaxSize /\ PF!Place(h) = At(h)
  BY WritePlace DEF fatfs_fo_write, fdVars, Usable, PF!Place, At
<1>2. PICK b \in Bytes, k \in 0 .. MaxLen :
        WroteBytes(h, b, k) /\ (WriteEnds(h, k) \/ WriteGivesUp(h))
  BY WriteDoes
<1>3. Content' = PF!Patch(size', At(h), b, k)
  <2>1. \A i \in 0 .. size' - 1 :
          data'[i] = IF i \in At(h) .. At(h) + k - 1 THEN b
                     ELSE IF i < size THEN Content[i] ELSE Zero
    BY <1>2, SizeNat DEF WroteBytes, Content
  <2>2. QED
    BY <2>1 DEF Content, PF!Patch
<1>4. CASE WriteEnds(h, k)
  <2>1. size' = PF!Longer(At(h) + k)
    BY <1>1, <1>4, SizeNat DEF WriteEnds, Larger, PF!Longer
  <2>2. QED
    BY <1>1, <1>3, <1>4, <2>1 DEF PF!Write, WriteEnds
<1>5. CASE WriteGivesUp(h)
  BY <1>1, <1>3, <1>5 DEF PF!WriteFails, WriteGivesUp
<1>6. QED
  BY <1>2, <1>4, <1>5

LEMMA StepRefines == FileInv /\ [Next]_vars => [PF!Next]_PF!vars
<1> SUFFICES ASSUME FileInv, [Next]_vars PROVE [PF!Next]_PF!vars
  OBVIOUS
<1>1. ASSUME NEW h \in Handles, fatfs_open(h) PROVE PF!Next
  BY <1>1, OpenRefines DEF PF!Next
<1>2. ASSUME NEW h \in Handles, fatfs_fo_close(h) PROVE PF!Next
  BY <1>2 DEF fatfs_fo_close, fileVars, Content, PF!Close, PF!Next
<1>3. ASSUME NEW h \in Handles, fatfs_fo_lseek(h) PROVE PF!Next
  BY <1>3 DEF fatfs_fo_lseek, fileVars, fdVars, Content, PF!Seek, PF!Next
<1>4. ASSUME NEW h \in Handles, fatfs_fo_read(h) PROVE [PF!Next]_PF!vars
  BY <1>4, ReadRefines DEF PF!Next
<1>5. ASSUME NEW h \in Handles, fatfs_fo_write(h) PROVE PF!Next
  BY <1>5, WriteRefines DEF PF!Next
<1>6. CASE fatfs_unlink
  <2>1. /\ exists /\ exists' = FALSE /\ size' = 0 /\ refcnt = 0
        /\ UNCHANGED <<open, append, offset, got>>
    BY <1>6 DEF fatfs_unlink, Unreferenced, fdVars
  <2>2. open = {}
    BY <2>1, HandlesCounted DEF FileInv, CountInv, Counted
  <2>3. Content' = [i \in 0 .. -1 |-> Zero]
    <3>1. Content' = [i \in 0 .. -1 |-> data'[i]]
      BY <2>1 DEF Content
    <3>2. \A i \in 0 .. -1 : FALSE
      OBVIOUS
    <3>3. QED
      BY <3>1, <3>2
  <2>4. QED
    BY <2>1, <2>2, <2>3 DEF PF!Unlink, PF!Next
<1>7. CASE OtherFiles \/ UNCHANGED vars
  BY <1>7 DEF OtherFiles, vars, fileVars, fdVars, PF!vars, Content
<1>8. QED
  BY <1>1, <1>2, <1>3, <1>4, <1>5, <1>6, <1>7 DEF Next

LEMMA InitRefines == Init => PF!Init
<1> SUFFICES ASSUME Init PROVE PF!Init
  OBVIOUS
<1>1. Content = [i \in 0 .. -1 |-> Zero]
  <2>1. Content = [i \in 0 .. -1 |-> data[i]]
    BY DEF Init, Content
  <2>2. \A i \in 0 .. -1 : FALSE
    OBVIOUS
  <2>3. QED
    BY <2>1, <2>2
<1>2. QED
  BY <1>1 DEF Init, PF!Init

\* Whatever the disk and the callers do, short of extending a file whose hole
\* another handle is about to fill, the file is what POSIX promises: holes
\* are zeroes, an append is at the end, a failed write adds nothing.
THEOREM FileImplemented ==
  ASSUME Careful
  PROVE  Spec => ImplementsFile
<1>1. FileInv /\ [Next]_vars => FileInv'
  BY FileInvStep
<1>2. QED
  BY <1>1, FileInvAtFirst, InitRefines, StepRefines, PTL
     DEF Spec, ImplementsFile, PF!Spec

\* A write, even one that fails, leaves the bytes before its place alone.
THEOREM HolesOnlyFilled ==
  ASSUME Careful
  PROVE  Spec => HoleOnly
<1>1. FileInv /\ [Next]_vars => FileInv'
  BY FileInvStep
<1>2. ASSUME FileInv, NEW h \in Handles, fatfs_fo_write(h),
             NEW i \in Int, 0 <= i, i < size, i < At(h)
      PROVE  data'[i] = data[i]
  <2>1. PICK b \in Bytes, k \in 0 .. MaxLen :
          WroteBytes(h, b, k) /\ (WriteEnds(h, k) \/ WriteGivesUp(h))
    BY <1>2, WriteDoes
  <2>2. At(h) \in 0 .. MaxSize
    BY <1>2, WritePlace DEF fatfs_fo_write
  <2>3. size <= size' /\ size \in Nat /\ size' \in Nat
    BY <1>2, <2>1, <2>2, SizeNat DEF WriteEnds, WriteGivesUp, Larger
  <2>4. i \in 0 .. size' - 1
    <3>1. PICK m \in Nat : m = size' /\ size <= m /\ size \in Nat
      BY <2>3
    <3>2. i < m
      BY <1>2, <3>1
    <3>3. i \in 0 .. m - 1
      BY <1>2, <3>2
    <3>4. QED
      BY <3>1, <3>3
  <2>5. i \notin At(h) .. At(h) + k - 1
    BY <1>2, <2>2, FatFileAssumption
  <2>6. QED
    BY <1>2, <2>1, <2>4, <2>5 DEF WroteBytes
<1>3. FileInv /\ [Next]_vars =>
        [\A h \in Handles : fatfs_fo_write(h) =>
           \A i \in 0 .. Smaller(size, At(h)) - 1 : data'[i] = data[i]]_vars
  <2> SUFFICES ASSUME FileInv, NEW h \in Handles, fatfs_fo_write(h),
                      NEW i \in 0 .. Smaller(size, At(h)) - 1
               PROVE  data'[i] = data[i]
    OBVIOUS
  <2>1. At(h) \in 0 .. MaxSize
    BY WritePlace DEF fatfs_fo_write
  <2>2. i \in Int /\ 0 <= i /\ i < size /\ i < At(h)
    BY <2>1, SizeNat DEF Smaller
  <2>3. QED
    BY <1>2, <2>2
<1>4. QED
  BY <1>1, <1>3, FileInvAtFirst, PTL DEF Spec, HoleOnly
=============================================================================
