------------------------------- MODULE FatFile -------------------------------
(***************************************************************************)
(* One file of the FAT file system (fs/fat/current/src/fatfs.c), with this *)
(* repository's change: a file may be written beyond its end, and the      *)
(* write fills the hole with zeroes.                                       *)
(*                                                                         *)
(* The file system is registered with CYG_SYNCMODE_FILE_FILESYSTEM and     *)
(* CYG_SYNCMODE_IO_FILESYSTEM: the file I/O package holds one mutex of the *)
(* file system during every call, so a call is one step.  The handles of a *)
(* file share its node, and each has a place of its own, twice: f_offset,  *)
(* in bytes, and fd->pos, in the chain of clusters.                        *)
(*                                                                         *)
(* The chain is reached through fatfs_setpos, fatfs_read_data and          *)
(* fatfs_write_data, which are not in this repository.  A byte stands for  *)
(* a block of bytes.                                                       *)
(***************************************************************************)
EXTENDS Integers, FiniteSets

CONSTANTS
  Handles,    \* the open files the application may have
  Bytes,      \* what it writes
  Zero,       \* the byte that fills a hole
  Old,        \* what a cluster holds that has not been written
  NFD,        \* CYGNUM_FILEIO_NFD
  MaxLen,     \* bound of the model: bytes per call
  MaxSize,    \* bound of the model: bytes on the disk, and offsets
  MaxFaults,  \* bound of the model: I/O errors
  Careful     \* do the callers keep away from a file whose hole is pending?

ASSUME FatFileAssumption ==
  /\ IsFiniteSet(Handles)
  /\ NFD \in Nat /\ MaxLen \in Nat /\ MaxSize \in Nat /\ MaxFaults \in Nat
  /\ Careful \in BOOLEAN

VARIABLES
  exists,    \* is there an entry in the directory?
  size,      \* node->dentry.size
  refcnt,    \* node->refcnt
  data,      \* data[i]: byte i of the chain of clusters
  room,      \* the bytes the disk has for this file
  free_cnt,  \* fatfs_fds_free_cnt
  open,      \* the handles that are open
  append,    \* those with CYG_FAPPEND in f_flag
  offset,    \* offset[h]: f_offset
  pos,       \* pos[h]: fd->pos, as a distance from the start of the chain
  failed,    \* the handles whose last call ended with an error
  faults,    \* I/O errors so far
  got        \* what the last read delivered

fileVars == <<exists, size, data, room>>
fdVars   == <<refcnt, free_cnt, open, append>>
vars     == <<fileVars, fdVars, offset, pos, failed, faults, got>>

\* A hole filled on behalf of a confused handle can end beyond MaxSize.
Cells == 0 .. 2 * (MaxSize + MaxLen)

Smaller(a, b) == IF a < b THEN a ELSE b
Larger(a, b)  == IF a > b THEN a ELSE b

-----------------------------------------------------------------------------
(* The library below.                                                      *)

\* fatfs_trunc_file and fatfs_delete_file give the chain back.
NoData == [i \in Cells |-> Old]

\* fatfs_write_data puts n bytes b at place p of the chain d.
Written(d, p, b, n) == [i \in Cells |-> IF i \in p .. p + n - 1 THEN b ELSE d[i]]

\* How much of a write of n bytes at p succeeds: all of it or what the disk
\* has room for (ENOSPC).
Fits(p, n) == IF p + n <= room THEN n ELSE Larger(room - p, 0)

\* Other files of the disk come and go.
OtherFiles ==
  /\ \E r \in size .. MaxSize : r # room /\ room' = r
  /\ UNCHANGED <<exists, size, data, fdVars, offset, pos, failed, faults, got>>

-----------------------------------------------------------------------------
(* fatfs_open, fatfs_fo_close and fatfs_unlink.                            *)

\* fatfs_initpos, then fatfs_setpos for O_APPEND.
StartsAt(h, s) ==
  /\ offset' = [offset EXCEPT ![h] = s]
  /\ pos' = [pos EXCEPT ![h] = s]

\* alloc_fatfs_fd and fatfs_node_ref, or EMFILE.
RefFirst(h, mode, s) ==
  /\ refcnt' = refcnt + 1
  /\ \/ /\ free_cnt = 0
        /\ UNCHANGED <<free_cnt, open, append, offset, pos>>
     \/ /\ free_cnt > 0
        /\ free_cnt' = free_cnt - 1
        /\ open' = open \cup {h}
        /\ append' = IF "O_APPEND" \in mode THEN append \cup {h} ELSE append
        /\ StartsAt(h, IF "O_APPEND" \in mode THEN s ELSE 0)

AllocFd(h, mode, s) ==
  \/ /\ free_cnt = 0
     /\ UNCHANGED <<fdVars, offset, pos>>
  \/ /\ free_cnt > 0
     /\ free_cnt' = free_cnt - 1
     /\ refcnt' = refcnt + 1
     /\ open' = open \cup {h}
     /\ append' = IF "O_APPEND" \in mode THEN append \cup {h} ELSE append
     /\ StartsAt(h, IF "O_APPEND" \in mode THEN s ELSE 0)

\* The file is found or created; O_TRUNC empties it, before it is known
\* whether there is a descriptor for it.  What the library does to the
\* places of other handles is not known: O_TRUNC is used on a closed file.
OpenNode(h, mode) ==
  /\ \/ exists /\ ~({"O_CREAT", "O_EXCL"} \subseteq mode)
     \/ ~exists /\ "O_CREAT" \in mode
  /\ exists' = TRUE
  /\ \/ /\ exists /\ "O_TRUNC" \notin mode
        /\ UNCHANGED <<size, data>>
     \/ /\ ~exists \/ "O_TRUNC" \in mode
        /\ refcnt = 0
        /\ size' = 0
        /\ data' = NoData
  /\ AllocFd(h, mode, size')
  /\ failed' = failed \ {h}

\* fatfs_create_file has made the entry, fatfs_node_alloc finds no node.
CreateOnly(mode) ==
  /\ ~exists
  /\ "O_CREAT" \in mode
  /\ exists' = TRUE
  /\ size' = 0
  /\ data' = NoData
  /\ UNCHANGED <<fdVars, offset, pos, failed>>

\* ENOENT, EEXIST and a failing fatfs_create_file change nothing.
Modes == SUBSET {"O_CREAT", "O_EXCL", "O_TRUNC", "O_APPEND"}

fatfs_open(h) ==
  /\ h \notin open
  /\ \E mode \in Modes : OpenNode(h, mode) \/ CreateOnly(mode)
  /\ UNCHANGED <<room, faults, got>>

fatfs_fo_close(h) ==
  /\ h \in open
  /\ refcnt' = refcnt - 1
  /\ free_cnt' = free_cnt + 1
  /\ open' = open \ {h}
  /\ append' = append \ {h}
  /\ offset' = [offset EXCEPT ![h] = 0]
  /\ pos' = [pos EXCEPT ![h] = 0]
  /\ failed' = failed \ {h}
  /\ UNCHANGED <<fileVars, faults, got>>

\* EBUSY while there are references.
Unreferenced == refcnt = 0

fatfs_unlink ==
  /\ exists
  /\ Unreferenced
  /\ exists' = FALSE
  /\ size' = 0
  /\ data' = NoData
  /\ UNCHANGED <<room, fdVars, offset, pos, failed, faults, got>>

-----------------------------------------------------------------------------
(* fatfs_fo_lseek, fatfs_fo_read and fatfs_fo_write.                       *)

\* A place beyond the end of the file: fd->pos waits at the end.
SeekAnywhere(to) == to
SeekPos(to) == Smaller(to, size)

fatfs_fo_lseek(h) ==
  /\ h \in open
  /\ \E to \in 0 .. MaxSize :
       /\ pos' = [pos EXCEPT ![h] = SeekPos(to)]
       /\ offset' = [offset EXCEPT ![h] = to]
  /\ failed' = failed \ {h}
  /\ UNCHANGED <<fileVars, fdVars, faults, got>>

\* A call that failed leaves fd->pos where the library stopped; a caller that
\* is told of the error seeks before it goes on.
Usable(h) == h \in open /\ h \notin failed

fatfs_fo_read(h) ==
  /\ Usable(h)
  /\ \E asked \in 1 .. MaxLen :
       LET n == IF offset[h] < size THEN Smaller(asked, size - offset[h]) ELSE 0
       IN
         \/ /\ got' = [i \in 0 .. n - 1 |-> data[pos[h] + i]]
            /\ offset' = [offset EXCEPT ![h] = @ + n]
            /\ pos' = [pos EXCEPT ![h] = @ + n]
            /\ UNCHANGED <<failed, faults>>
         \/ \E k \in 0 .. n - 1 :
              /\ faults < MaxFaults
              /\ faults' = faults + 1
              /\ pos' = [pos EXCEPT ![h] = @ + k]
              /\ failed' = failed \cup {h}
              /\ UNCHANGED <<offset, got>>
  /\ UNCHANGED <<fileVars, fdVars>>

\* With CYG_FAPPEND both places are set to the end first.
From(h) == IF h \in append THEN size ELSE pos[h]
At(h)   == IF h \in append THEN size ELSE offset[h]

Hole(h) == Larger(At(h) - size, 0)

\* An error on the way: neither the size nor f_offset is brought up to date.
WriteStops(h, d, p) ==
  /\ data' = d
  /\ pos' = [pos EXCEPT ![h] = p]
  /\ offset' = [offset EXCEPT ![h] = At(h)]
  /\ failed' = failed \cup {h}
  /\ UNCHANGED size

\* The hole is filled with zeroes, from fd->pos on.  calloc may fail (k = 0),
\* the disk may be full and the disk may fail.
FillFails(h) ==
  /\ Hole(h) > 0
  /\ \/ /\ WriteStops(h, data, From(h))
        /\ UNCHANGED faults
     \/ LET k == Fits(From(h), Hole(h)) IN
          /\ k < Hole(h)
          /\ WriteStops(h, Written(data, From(h), Zero, k), From(h) + k)
          /\ UNCHANGED faults
     \/ \E k \in 0 .. Fits(From(h), Hole(h) - 1) :
          /\ faults < MaxFaults
          /\ faults' = faults + 1
          /\ WriteStops(h, Written(data, From(h), Zero, k), From(h) + k)

\* ENOSPC ends the loop over the data like success does.
DataWritten(h, b, n) ==
  LET d    == Written(data, From(h), Zero, Hole(h))
      from == From(h) + Hole(h)
  IN
    \/ LET k == Fits(from, n) IN
         /\ data' = Written(d, from, b, k)
         /\ pos' = [pos EXCEPT ![h] = from + k]
         /\ offset' = [offset EXCEPT ![h] = At(h) + k]
         /\ size' = Larger(size, At(h) + k)
         /\ failed' = IF k < n THEN failed \cup {h} ELSE failed \ {h}
         /\ UNCHANGED faults
    \/ \E k \in 0 .. Fits(from, n - 1) :
         /\ faults < MaxFaults
         /\ faults' = faults + 1
         /\ WriteStops(h, Written(d, from, b, k), from + k)

\* Nobody else is about to fill a hole.
NoOtherHole(h) == \A g \in open \ {h} : offset[g] <= size

fatfs_fo_write(h) ==
  /\ Usable(h) \/ h \in open \cap append
  /\ Careful => NoOtherHole(h)
  /\ \E b \in Bytes, n \in 1 .. MaxLen :
       \/ FillFails(h)
       \/ Fits(From(h), Hole(h)) = Hole(h) /\ DataWritten(h, b, n)
  /\ UNCHANGED <<exists, room, fdVars, got>>

-----------------------------------------------------------------------------
Init ==
  /\ exists = FALSE
  /\ size = 0
  /\ refcnt = 0
  /\ data = NoData
  /\ room = MaxSize
  /\ free_cnt = NFD
  /\ open = {}
  /\ append = {}
  /\ offset = [h \in Handles |-> 0]
  /\ pos = [h \in Handles |-> 0]
  /\ failed = {}
  /\ faults = 0
  /\ got = [i \in 0 .. -1 |-> Zero]

Next ==
  \/ \E h \in Handles :
       \/ fatfs_open(h) \/ fatfs_fo_close(h)
       \/ fatfs_fo_lseek(h) \/ fatfs_fo_read(h) \/ fatfs_fo_write(h)
  \/ fatfs_unlink
  \/ OtherFiles

Spec == Init /\ [][Next]_vars

-----------------------------------------------------------------------------
\* The file system promises what callers expect of a file, as long as nobody
\* extends the file while another handle waits beyond its end.
Content == [i \in 0 .. size - 1 |-> data[i]]

PF == INSTANCE PosixFile WITH len <- size, content <- Content
ImplementsFile == PF!Spec

\* References and descriptors are counted right on every path: an open that
\* ends with EMFILE after it has created or emptied the file takes neither.
Counted ==
  /\ refcnt = Cardinality(open)
  /\ free_cnt = NFD - Cardinality(open)

\* "Fill hole? Extend file if needed and write zeroes in hole." (line 1313):
\* a write leaves the bytes before the hole alone.
HoleOnly ==
  [][\A h \in Handles :
       fatfs_fo_write(h) =>
         \A i \in 0 .. Smaller(size, At(h)) - 1 : data'[i] = data[i]]_vars
=============================================================================
