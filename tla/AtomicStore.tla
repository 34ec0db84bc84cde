---------------------------- MODULE AtomicStore ----------------------------
(***************************************************************************)
(* What the pager promises: an image of the database, a sequence of pages, *)
(* that transactions replace as a whole.  Whoever reads, reads the image   *)
(* as the last transaction committed it; a power failure undoes everything *)
(* a transaction has done unless it was committed; and once a commit is    *)
(* settled no power failure undoes it.                                     *)
(*                                                                         *)
(* On eCos there is no ftruncate, so that pages beyond the end of the      *)
(* image may remain in the file and are seen by the next reader.           *)
(***************************************************************************)
EXTENDS Naturals, Sequences, SequencesExt

VARIABLES
  image,    \* the committed database
  limbo,    \* the images a power failure may bring back
  view,     \* {} or {s}: what the connection that has the lock reads
  writing   \* is that connection inside a write transaction?

vars == <<image, limbo, view, writing>>

Init ==
  /\ limbo = {image}
  /\ view = {}
  /\ writing = FALSE

Extends(s) == IsPrefix(image, s)

Look ==
  /\ ~writing
  /\ limbo = {image}
  /\ view' # {}
  /\ \A s \in view' : Extends(s)
  /\ UNCHANGED <<image, limbo, writing>>

Leave ==
  /\ ~writing
  /\ view' = {}
  /\ UNCHANGED <<image, limbo, writing>>

Begin ==
  /\ view # {}
  /\ writing' = TRUE
  /\ UNCHANGED <<image, limbo, view>>

\* One page is changed or appended, or the end is cut off.
Differ(s, t) == {i \in 1 .. Len(s) : i <= Len(t) /\ s[i] # t[i]}

Change ==
  /\ writing
  /\ view # {} /\ view' # {}
  /\ \A s \in view, t \in view' :
       \/ Len(t) = Len(s) /\ \E p \in 1 .. Len(s) : Differ(s, t) \subseteq {p}
       \/ Len(t) = Len(s) + 1 /\ IsPrefix(s, t)
       \/ IsPrefix(t, s)
  /\ UNCHANGED <<image, limbo, writing>>

Commit ==
  /\ writing
  /\ view = {image'}
  /\ limbo' = {image, image'}
  /\ view' = {}
  /\ writing' = FALSE

Settle ==
  /\ limbo' = {image}
  /\ UNCHANGED <<image, view, writing>>

Rollback ==
  /\ writing
  /\ view' = {}
  /\ writing' = FALSE
  /\ UNCHANGED <<image, limbo>>

PowerFailure ==
  /\ image' \in limbo
  /\ limbo' = {image'}
  /\ view' = {}
  /\ writing' = FALSE

Next ==
  \/ Look \/ Leave \/ Begin \/ Change \/ Commit \/ Settle \/ Rollback
  \/ PowerFailure

Spec == Init /\ [][Next]_vars
=============================================================================
