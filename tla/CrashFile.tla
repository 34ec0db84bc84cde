----------------------------- MODULE CrashFile -----------------------------
(***************************************************************************)
(* Files on a disk that can lose power.  A file is a sequence of blocks as *)
(* programs see it (data), the contents each block may turn out to have    *)
(* after a power failure (may), and the lengths the file may turn out to   *)
(* have (lens).  fsync leaves one possibility; until then the disk has     *)
(* written any of the blocks, in any order, and may have been interrupted  *)
(* in the middle of one.                                                   *)
(***************************************************************************)
EXTENDS Naturals, Sequences

OnDisk(s) == [data |-> s,
              may  |-> [i \in 1 .. Len(s) |-> {s[i]}],
              lens |-> {Len(s)}]

\* Block i, at most one beyond the end, gets the content v; afterwards the
\* disk may have any of poss in its place.
Put(f, i, v, poss) ==
  LET data == IF i <= Len(f.data) THEN [f.data EXCEPT ![i] = v]
                                  ELSE Append(f.data, v)
  IN [data |-> data,
      may  |-> IF i <= Len(f.may) THEN [f.may EXCEPT ![i] = @ \cup poss]
                                  ELSE Append(f.may, poss),
      lens |-> f.lens \cup {Len(data)}]

\* A block written as a whole may be torn; a few bytes inside a sector may
\* not.
Write(f, i, v, torn) == Put(f, i, v, {v, torn})
Patch(f, i, v) == Put(f, i, v, {v})

\* unlink: whether the name is still there after a power failure is open.
Unlink(f) == [f EXCEPT !.data = <<>>, !.lens = @ \cup {0}]

Sync(f) == OnDisk(f.data)

\* What a power failure can leave.
Product(sets) ==
  LET prod[n \in 0 .. Len(sets)] ==
        IF n = 0 THEN {<<>>}
        ELSE {Append(s, v) : s \in prod[n - 1], v \in sets[n]}
  IN prod[Len(sets)]

Survivors(f) ==
  UNION {{OnDisk(s) : s \in Product(SubSeq(f.may, 1, n))} : n \in f.lens}
=============================================================================
