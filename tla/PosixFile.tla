------------------------------ MODULE PosixFile ------------------------------
(***************************************************************************)
(* What the callers of a file system expect of one file: a string of bytes *)
(* that several handles read and write, each at an offset of its own.  A   *)
(* write beyond the end leaves a hole that reads as zeroes.                *)
(***************************************************************************)
EXTENDS Integers

CONSTANTS
  Handles,   \* the open files of the application
  Bytes,     \* what it writes
  Zero,      \* the byte of a hole
  MaxLen,    \* bound of the model: bytes per call
  MaxSize    \* bound of the model: offsets

VARIABLES
  exists,    \* is the file in its directory?
  len,       \* the length of the file
  content,   \* its bytes, a function on 0 .. len - 1
  open,      \* the handles that are open
  append,    \* those that were opened with O_APPEND
  offset,    \* offset[h]
  got        \* the bytes the last read returned

vars == <<exists, len, content, open, append, offset, got>>

\* n bytes b written from place at on into a file of length l.
Patch(l, at, b, n) ==
  [i \in 0 .. l - 1 |->
     IF i \in at .. at + n - 1 THEN b
     ELSE IF i < len THEN content[i] ELSE Zero]

Longer(at) == IF at > len THEN at ELSE len

Place(h) == IF h \in append THEN len ELSE offset[h]

-----------------------------------------------------------------------------
\* The file may be created or emptied, and the open may fail after that.
Prepare ==
  /\ exists'
  /\ \/ len' = len /\ content' = content /\ exists
     \/ len' = 0 /\ content' = [i \in 0 .. -1 |-> Zero]

Open(h) ==
  /\ h \notin open
  /\ Prepare
  /\ \/ /\ open' = open \cup {h}
        /\ \/ append' = append /\ offset' = [offset EXCEPT ![h] = 0]
           \/ append' = append \cup {h} /\ offset' = [offset EXCEPT ![h] = len']
     \/ UNCHANGED <<open, append, offset>>
  /\ UNCHANGED got

\* As many bytes as are asked for, fewer only at the end of the file.
Read(h) ==
  /\ h \in open
  /\ \E asked \in 1 .. MaxLen, n \in 0 .. MaxLen :
       /\ \/ n = asked /\ offset[h] + n <= len
          \/ n < asked /\ offset[h] + n = len
          \/ n = 0 /\ offset[h] > len
       /\ got' = [i \in 0 .. n - 1 |-> content[offset[h] + i]]
       /\ offset' = [offset EXCEPT ![h] = @ + n]
  /\ UNCHANGED <<exists, len, content, open, append>>

\* n of the bytes that were to be written find room.
Write(h) ==
  /\ h \in open
  /\ \E b \in Bytes, n \in 0 .. MaxLen :
       /\ len' = Longer(Place(h) + n)
       /\ content' = Patch(len', Place(h), b, n)
       /\ offset' = [offset EXCEPT ![h] = Place(h) + n]
  /\ UNCHANGED <<exists, open, append, got>>

\* A write that fails may have changed bytes of the file, but adds none.
WriteFails(h) ==
  /\ h \in open
  /\ \E b \in Bytes, n \in 0 .. MaxLen :
       content' = Patch(len, Place(h), b, n)
  /\ offset' = [offset EXCEPT ![h] = Place(h)]
  /\ UNCHANGED <<exists, len, open, append, got>>

Seek(h) ==
  /\ h \in open
  /\ \E to \in 0 .. MaxSize : offset' = [offset EXCEPT ![h] = to]
  /\ UNCHANGED <<exists, len, content, open, append, got>>

Close(h) ==
  /\ h \in open
  /\ open' = open \ {h}
  /\ append' = append \ {h}
  /\ offset' = [offset EXCEPT ![h] = 0]
  /\ UNCHANGED <<exists, len, content, got>>

\* Never while the file is open.
Unlink ==
  /\ exists
  /\ open = {}
  /\ exists' = FALSE
  /\ len' = 0
  /\ content' = [i \in 0 .. -1 |-> Zero]
  /\ UNCHANGED <<open, append, offset, got>>

Init ==
  /\ exists = FALSE
  /\ len = 0
  /\ content = [i \in 0 .. -1 |-> Zero]
  /\ open = {}
  /\ append = {}
  /\ offset = [h \in Handles |-> 0]
  /\ got = [i \in 0 .. -1 |-> Zero]

Next ==
  \/ \E h \in Handles :
       \/ Open(h) \/ Read(h) \/ Write(h) \/ WriteFails(h)
       \/ Seek(h) \/ Close(h)
  \/ Unlink

Spec == Init /\ [][Next]_vars
=============================================================================
