------------------------- MODULE SqlitePagerProofs -------------------------
(***************************************************************************)
(* The pager keeps its promises, for any number of connections, pages,     *)
(* transactions and faults, with synchronous=FULL and no faults in the two *)
(* windows.  PagerInv of SqlitePagerInv is the inductive invariant:        *)
(* PagerInvariant says so, WritesAhead and PagerImplementsStore follow     *)
(* from it.                                                                *)
(***************************************************************************)
EXTENDS SqlitePagerInv, FiniteSetTheorems, SequenceTheorems, TLAPS

\* A nonempty set of numbers has a least element: the form of induction that
\* the provers can use here.
LEMMA Least ==
  ASSUME NEW T \in SUBSET Nat, T # {}
  PROVE  \E n \in T : \A k \in T : n <= k
<1> DEFINE Below == {0 .. n : n \in T}
<1>1. \A n \in Nat : 0 .. n \in FiniteSubsetsOf(Nat)
  BY FS_Interval DEF FiniteSubsetsOf
<1>2. Below \subseteq FiniteSubsetsOf(Nat) /\ Below # {}
  BY <1>1
<1>3. PICK x \in Below :
             \A y \in Below : <<y, x>> \notin StrictSubsetOrdering(Nat)
  BY <1>2, WFMin, FS_StrictSubsetOrderingWellFounded
<1>4. PICK n \in T : x = 0 .. n
  OBVIOUS
<1>5. ASSUME NEW k \in T, k < n PROVE FALSE
  <2>1. n \in 0 .. n /\ n \notin 0 .. k
    BY <1>5
  <2>2. 0 .. k \in Below /\ 0 .. k \subseteq 0 .. n /\ 0 .. k # 0 .. n
    BY <2>1, <1>5
  <2>3. <<0 .. k, 0 .. n>> \in StrictSubsetOrdering(Nat)
    BY <2>2 DEF StrictSubsetOrdering
  <2>4. QED
    BY <2>2, <2>3, <1>3, <1>4
<1>6. QED
  BY <1>5

-----------------------------------------------------------------------------
(* Files that can lose power.                                              *)

\* A file that is wholly on the disk can only read as its data.
LEMMA OnDiskFile ==
  ASSUME NEW V, NEW s \in Seq(V)
  PROVE  /\ FileOK(OnDisk(s), V)
         /\ OnDisk(s).data = s
         /\ Len(OnDisk(s).may) = Len(s)
         /\ \A i \in 1 .. Len(s) : OnDisk(s).may[i] = {s[i]}
         /\ OnDisk(s).lens = {Len(s)}
<1> DEFINE may == [i \in 1 .. Len(s) |-> {s[i]}]
<1>1. /\ OnDisk(s) = [data |-> s, may |-> may, lens |-> {Len(s)}]
      /\ OnDisk(s).data = s /\ OnDisk(s).may = may
      /\ OnDisk(s).lens = {Len(s)}
  BY DEF OnDisk
<1>2. Len(s) \in Nat /\ \A i \in 1 .. Len(s) : s[i] \in V
  OBVIOUS
<1>3. may \in Seq(SUBSET V) /\ Len(may) = Len(s)
  BY <1>2
<1>4. \A i \in 1 .. Len(s) : may[i] = {s[i]}
  OBVIOUS
<1>5. {Len(s)} \in SUBSET Nat
  BY <1>2
<1> HIDE DEF may
<1>6. OnDisk(s) \in [data : Seq(V), may : Seq(SUBSET V), lens : SUBSET Nat]
  BY <1>1, <1>3, <1>5
<1>7. FileOK(OnDisk(s), V)
  <2>1. \A i \in 1 .. Len(s) : may[i] # {} /\ s[i] \in may[i]
    BY <1>4
  <2>2. \A n \in {Len(s)} : n <= Len(may)
    BY <1>2, <1>3
  <2>3. QED
    BY <1>1, <1>2, <1>3, <1>6, <2>1, <2>2 DEF FileOK
<1>8. QED
  BY <1>1, <1>3, <1>4, <1>7

\* What a write or a patch does to a file.
PutFacts(g, f, i, v, poss) ==
  /\ Len(g.data) = IF i <= Len(f.data) THEN Len(f.data) ELSE i
  /\ g.data[i] = v
  /\ \A k \in 1 .. Len(f.data) : k # i => g.data[k] = f.data[k]
  /\ Len(g.may) = IF i <= Len(f.may) THEN Len(f.may) ELSE i
  /\ g.may[i] = IF i <= Len(f.may) THEN f.may[i] \cup poss ELSE poss
  /\ \A k \in 1 .. Len(f.may) : k # i => g.may[k] = f.may[k]
  /\ g.lens = f.lens \cup {Len(g.data)}

\* A write at or right behind the end of a file: the block may now read as
\* what was written or, after a power failure, as any of poss.
LEMMA PutFile ==
  ASSUME NEW V, NEW f, FileOK(f, V), NEW i \in 1 .. Len(f.data) + 1,
         NEW v \in V, NEW poss \in SUBSET V, v \in poss
  PROVE  /\ FileOK(Put(f, i, v, poss), V)
         /\ PutFacts(Put(f, i, v, poss), f, i, v, poss)
<1> DEFINE g == Put(f, i, v, poss)
<1>1. /\ f.data \in Seq(V) /\ f.may \in Seq(SUBSET V) /\ f.lens \in SUBSET Nat
      /\ Len(f.data) \in Nat /\ Len(f.may) \in Nat
  BY DEF FileOK
<1>2. /\ g.data = IF i <= Len(f.data) THEN [f.data EXCEPT ![i] = v]
                                      ELSE Append(f.data, v)
      /\ g.may = IF i <= Len(f.may) THEN [f.may EXCEPT ![i] = @ \cup poss]
                                    ELSE Append(f.may, poss)
      /\ g.lens = f.lens \cup {Len(g.data)}
      /\ g = [data |-> g.data, may |-> g.may, lens |-> g.lens]
  BY DEF Put
<1> HIDE DEF g
<1>3. /\ g.data \in Seq(V)
      /\ Len(g.data) = IF i <= Len(f.data) THEN Len(f.data) ELSE i
      /\ g.data[i] = v
      /\ \A k \in 1 .. Len(f.data) : k # i => g.data[k] = f.data[k]
  <2>1. CASE i <= Len(f.data)
    BY <1>1, <1>2, <2>1, ExceptSeq
  <2>2. CASE i > Len(f.data)
    BY <1>1, <1>2, <2>2, AppendProperties
  <2>3. QED
    BY <1>1, <2>1, <2>2
<1>4. /\ g.may \in Seq(SUBSET V)
      /\ Len(g.may) = IF i <= Len(f.may) THEN Len(f.may) ELSE i
      /\ g.may[i] = IF i <= Len(f.may) THEN f.may[i] \cup poss ELSE poss
      /\ \A k \in 1 .. Len(f.may) : k # i => g.may[k] = f.may[k]
  <2>1. CASE i <= Len(f.may)
    <3>1. i \in 1 .. Len(f.may) /\ f.may[i] \cup poss \in SUBSET V
      BY <1>1, <2>1
    <3>2. g.may = [f.may EXCEPT ![i] = f.may[i] \cup poss]
      BY <1>2, <2>1, <3>1
    <3>3. QED
      BY <1>1, <3>1, <3>2, <2>1, ExceptSeq
  <2>2. CASE i > Len(f.may)
    <3>1. i = Len(f.may) + 1
      BY <2>2, <1>1 DEF FileOK
    <3>2. QED
      BY <1>1, <1>2, <2>2, <3>1, AppendProperties
  <2>3. QED
    BY <1>1, <2>1, <2>2
<1>5. FileOK(g, V)
  <2>1. g \in [data : Seq(V), may : Seq(SUBSET V), lens : SUBSET Nat]
    <3>1. g.lens \in SUBSET Nat
      BY <1>1, <1>2, <1>3
    <3> DEFINE x == g.data  y == g.may  z == g.lens
    <3>2. x \in Seq(V) /\ y \in Seq(SUBSET V) /\ z \in SUBSET Nat
      BY <1>3, <1>4, <3>1
    <3>3. g = [data |-> x, may |-> y, lens |-> z]
      BY <1>2
    <3> HIDE DEF x, y, z
    <3>4. QED
      BY <3>2, <3>3
  <2>2. Len(g.data) <= Len(g.may) /\ \A n \in g.lens : n <= Len(g.may)
    BY <1>1, <1>2, <1>3, <1>4 DEF FileOK
  <2>3. \A k \in 1 .. Len(g.may) : g.may[k] # {}
    <3> SUFFICES ASSUME NEW k \in 1 .. Len(g.may) PROVE g.may[k] # {}
      OBVIOUS
    <3>1. CASE k = i
      BY <3>1, <1>1, <1>4
    <3>2. CASE k # i
      BY <3>2, <1>1, <1>4 DEF FileOK
    <3>3. QED
      BY <3>1, <3>2
  <2>4. \A k \in 1 .. Len(g.data) : g.data[k] \in g.may[k]
    <3> SUFFICES ASSUME NEW k \in 1 .. Len(g.data) PROVE g.data[k] \in g.may[k]
      OBVIOUS
    <3>1. CASE k = i
      BY <3>1, <1>1, <1>3, <1>4
    <3>2. CASE k # i
      BY <3>2, <1>1, <1>3, <1>4 DEF FileOK
    <3>3. QED
      BY <3>1, <3>2
  <2>5. QED
    BY <2>1, <2>2, <2>3, <2>4, <1>2 DEF FileOK
<1>6. PutFacts(g, f, i, v, poss)
  BY <1>2, <1>3, <1>4 DEF PutFacts
<1>7. QED
  BY <1>5, <1>6 DEF g

\* The sequences in a product take one element of each set.
LEMMA InProduct ==
  ASSUME NEW V, NEW sets \in Seq(SUBSET V), NEW s \in Product(sets)
  PROVE  /\ s \in Seq(V)
         /\ Len(s) = Len(sets)
         /\ \A i \in 1 .. Len(s) : s[i] \in sets[i]
<1> DEFINE N == 0 .. Len(sets)
           More(seqs, n) == {Append(r, v) : r \in seqs, v \in sets[n]}
           Step(g) == [n \in N |-> IF n = 0 THEN {<<>>} ELSE More(g[n - 1], n)]
           Picks(n) == {r \in Seq(V) : /\ Len(r) = n
                                       /\ \A i \in 1 .. n : r[i] \in sets[i]}
           prod == CHOOSE g : g = Step(g)
           witness == [n \in N |-> Picks(n)]
<1>0. Len(sets) \in Nat
  OBVIOUS
<1>1. Product(sets) = prod[Len(sets)]
  BY DEF Product
<1>2. ASSUME NEW n \in N, n # 0 PROVE More(Picks(n - 1), n) = Picks(n)
  <2>1. n - 1 \in Nat /\ n \in 1 .. Len(sets) /\ sets[n] \in SUBSET V
    BY <1>0, <1>2
  <2>2. ASSUME NEW r \in Picks(n - 1), NEW v \in sets[n]
        PROVE  Append(r, v) \in Picks(n)
    <3>1. /\ r \in Seq(V) /\ Len(r) = n - 1
          /\ \A i \in 1 .. n - 1 : r[i] \in sets[i]
      OBVIOUS
    <3>2. v \in V
      BY <2>1
    <3>3. /\ Append(r, v) \in Seq(V) /\ Len(Append(r, v)) = n
          /\ \A i \in 1 .. n - 1 : Append(r, v)[i] = r[i]
          /\ Append(r, v)[n] = v
      BY <3>1, <3>2, <2>1, AppendProperties
    <3>4. \A i \in 1 .. n : i = n \/ i \in 1 .. n - 1
      BY <2>1
    <3>5. QED
      BY <3>1, <3>3, <3>4
  <2>3. ASSUME NEW q \in Picks(n) PROVE q \in More(Picks(n - 1), n)
    <3>1. q \in Seq(V) /\ Len(q) = n /\ \A i \in 1 .. n : q[i] \in sets[i]
      OBVIOUS
    <3> DEFINE r == [i \in 1 .. n - 1 |-> q[i]]
    <3>2. \A i \in 1 .. n - 1 : i \in 1 .. n /\ q[i] \in V
      BY <3>1, <2>1
    <3>3. r \in Seq(V) /\ Len(r) = n - 1
      BY <3>2, <2>1
    <3>4. r \in Picks(n - 1)
      BY <3>1, <3>2, <3>3
    <3>5. n \in 1 .. n /\ q[n] \in sets[n] /\ q[n] \in V
      BY <3>1, <2>1
    <3>6. q = Append(r, q[n])
      <4>0. \A i \in 1 .. n - 1 : r[i] = q[i]
        OBVIOUS
      <4> HIDE DEF r
      <4>1. /\ Append(r, q[n]) \in Seq(V) /\ Len(Append(r, q[n])) = n
            /\ \A i \in 1 .. n - 1 : Append(r, q[n])[i] = q[i]
            /\ Append(r, q[n])[n] = q[n]
        BY <4>0, <3>3, <3>5, <2>1, AppendProperties
      <4>2. \A i \in 1 .. n : Append(r, q[n])[i] = q[i]
        BY <4>1, <2>1
      <4>3. QED
        BY <4>1, <4>2, <3>1, SeqEqual
    <3> HIDE DEF r, Picks
    <3>7. QED
      BY <3>4, <3>5, <3>6
  <2> HIDE DEF Picks
  <2>4. ASSUME NEW q \in More(Picks(n - 1), n) PROVE q \in Picks(n)
    <3>1. PICK r \in Picks(n - 1), v \in sets[n] : q = Append(r, v)
      OBVIOUS
    <3>2. QED
      BY <3>1, <2>2
  <2> HIDE DEF More
  <2>5. QED
    BY <2>3, <2>4
<1>3. Picks(0) = {<<>>}
  <2>1. <<>> \in Picks(0)
    BY EmptySeq
  <2>2. ASSUME NEW r \in Picks(0) PROVE r = <<>>
    BY EmptySeq
  <2> HIDE DEF Picks
  <2>3. QED
    BY <2>1, <2>2
<1>4. witness = Step(witness)
  <2> DEFINE G(n) == IF n = 0 THEN {<<>>} ELSE More(witness[n - 1], n)
  <2> HIDE DEF Picks, More, N
  <2> SUFFICES ASSUME NEW n \in N PROVE Picks(n) = G(n)
    <3> HIDE DEF G
    <3>1. \A n \in N : Picks(n) = G(n)
      OBVIOUS
    <3>2. [n \in N |-> Picks(n)] = [n \in N |-> G(n)]
      BY <3>1
    <3>3. QED
      BY <3>2 DEF G
  <2> USE DEF N
  <2>1. CASE n = 0
    BY <2>1, <1>3
  <2>2. CASE n # 0
    <3>1. n - 1 \in N
      BY <1>0, <2>2
    <3>2. QED
      BY <2>2, <3>1, <1>2
  <2>3. QED
    BY <2>1, <2>2
<1>5. prod = Step(prod)
  <2> HIDE DEF Step, witness
  <2>1. QED
    BY <1>4
<1> HIDE DEF prod, Picks, More
<1>6. ASSUME NEW n \in N, prod[n] # Picks(n) PROVE FALSE
  <2> DEFINE Wrong == {j \in N : prod[j] # Picks(j)}
  <2>1. PICK j \in Wrong : \A l \in Wrong : j <= l
    <3>1. Wrong \in SUBSET Nat /\ Wrong # {}
      BY <1>0, <1>6
    <3> HIDE DEF Wrong
    <3>2. QED
      BY <3>1, Least
  <2>2. prod[j] = Step(prod)[j]
    BY <1>5
  <2>3. j # 0
    BY <2>1, <2>2, <1>3
  <2>4. j - 1 \in N /\ j - 1 \notin Wrong
    BY <2>1, <2>3, <1>0
  <2>5. prod[j] = More(Picks(j - 1), j)
    BY <2>2, <2>3, <2>4
  <2>6. QED
    BY <2>1, <2>3, <2>5, <1>2
<1>7. s \in Picks(Len(sets))
  BY <1>0, <1>1, <1>6
<1>8. QED
  BY <1>7 DEF Picks

\* After a power failure a file is on the disk as it may have been before.
LEMMA Survive ==
  ASSUME NEW V, NEW f, FileOK(f, V), NEW d \in Survivors(f)
  PROVE  /\ d = OnDisk(d.data)
         /\ d.data \in Seq(V)
         /\ Len(d.data) \in f.lens
         /\ \A i \in 1 .. Len(d.data) : d.data[i] \in f.may[i]
<1>0. PICK n \in f.lens : d \in {OnDisk(s) : s \in Product(SubSeq(f.may, 1, n))}
  BY DEF Survivors
<1>1. PICK s \in Product(SubSeq(f.may, 1, n)) : d = OnDisk(s)
  BY <1>0
<1>2. n \in Nat /\ n <= Len(f.may) /\ f.may \in Seq(SUBSET V)
  BY DEF FileOK
<1>3. /\ SubSeq(f.may, 1, n) \in Seq(SUBSET V)
      /\ Len(SubSeq(f.may, 1, n)) = n
      /\ \A i \in 1 .. n : SubSeq(f.may, 1, n)[i] = f.may[i]
  BY <1>2
<1>4. /\ s \in Seq(V) /\ Len(s) = n
      /\ \A i \in 1 .. n : s[i] \in f.may[i]
  BY <1>3, InProduct
<1>5. d.data = s
  BY <1>1 DEF OnDisk
<1>6. QED
  BY <1>1, <1>4, <1>5

-----------------------------------------------------------------------------
(* The journal.                                                            *)

\* A journal of which less is open is as good.
LEMMA JournalNarrows ==
  ASSUME NEW may, NEW lens, NEW may2, NEW lens2 \in SUBSET lens,
         NEW B, NEW X, NEW e \in Nat,
         Possible(may, lens), JournalOK(may, lens, B, X, e),
         Within(may2, may, lens)
  PROVE  JournalOK(may2, lens2, B, X, e)
<1> USE DEF Possible, Within
<1>1. /\ e <= Len(may) /\ \A n \in lens : e <= n
      /\ e >= 1 => \A b \in may[1] : IsHeader(b)
  BY DEF JournalOK, SafeSections
<1>2. e <= Len(may2)
  BY <1>1
<1>3. SafeSections(may2, lens2, B, X, e)
  <2>1. e >= 1 => \A b \in may2[1] : IsHeader(b)
    BY <1>1, <1>2
  <2>2. ASSUME NEW i \in 1 .. e
        PROVE  /\ Certain(may2[i])
               /\ \A b \in may2[i] :
                    \/ /\ LiveHeader(b, B, X)
                       /\ i + b.body <= e
                       /\ \A k \in i + 1 .. i + b.body :
                            \A c \in may2[k] : LiveRecord(c, B, X)
                       /\ i + b.body < e =>
                            \A c \in may2[i + b.body + 1] : IsHeader(c)
                    \/ /\ LiveRecord(b, B, X)
                       /\ \E g \in 1 .. i - 1 :
                            \A c \in may2[g] : IsHeader(c) /\ i <= g + c.body
    <3>1. may2[i] \subseteq may[i]
      BY <1>2
    <3>2. Certain(may2[i])
      BY <3>1 DEF JournalOK, SafeSections, Certain
    <3>3. ASSUME NEW b \in may2[i]
          PROVE  \/ /\ LiveHeader(b, B, X)
                    /\ i + b.body <= e
                    /\ \A k \in i + 1 .. i + b.body :
                         \A c \in may2[k] : LiveRecord(c, B, X)
                    /\ i + b.body < e =>
                         \A c \in may2[i + b.body + 1] : IsHeader(c)
                 \/ /\ LiveRecord(b, B, X)
                    /\ \E g \in 1 .. i - 1 :
                         \A c \in may2[g] : IsHeader(c) /\ i <= g + c.body
      <4>1. \/ /\ LiveHeader(b, B, X)
               /\ i + b.body <= e
               /\ \A k \in i + 1 .. i + b.body :
                    \A c \in may[k] : LiveRecord(c, B, X)
               /\ i + b.body < e =>
                    \A c \in may[i + b.body + 1] : IsHeader(c)
            \/ /\ LiveRecord(b, B, X)
               /\ \E g \in 1 .. i - 1 :
                    \A c \in may[g] : IsHeader(c) /\ i <= g + c.body
        BY <3>1 DEF JournalOK, SafeSections
      <4>2. \A k \in 1 .. e : may2[k] \subseteq may[k]
        BY <1>2
      <4>3. CASE LiveHeader(b, B, X) /\ i + b.body <= e
        <5>1. b.body \in Nat
          BY <4>3 DEF LiveHeader
        <5>2. QED
          BY <4>1, <4>2, <4>3, <5>1 DEF LiveHeader, LiveRecord, IsHeader
      <4>4. CASE LiveRecord(b, B, X)
        BY <4>1, <4>2, <4>4 DEF LiveHeader, LiveRecord, IsHeader
      <4>5. QED
        BY <4>1, <4>3, <4>4
    <3>4. QED
      BY <3>2, <3>3
  <2>3. QED
    BY <1>1, <1>2, <2>1, <2>2 DEF SafeSections
<1>4. LastSection(may2, lens2, B, X, e)
  <2> SUFFICES ASSUME e < Len(may2), NEW b \in may2[e + 1], IsHeader(b)
      PROVE  /\ LiveHeader(b, B, X)
             /\ b.body > 0 =>
                  /\ \A n \in lens2 : e + 1 + b.body <= n
                  /\ e + 1 + b.body <= Len(may2)
                  /\ \A k \in e + 2 .. e + 1 + b.body :
                       Certain(may2[k]) /\ \A c \in may2[k] : LiveRecord(c, B, X)
                  /\ e + 1 + b.body < Len(may2) =>
                       \A c \in may2[e + 2 + b.body] : ~IsHeader(c)
    BY DEF LastSection
  <2>1. b \in may[e + 1] /\ e < Len(may)
    OBVIOUS
  <2>2. /\ LiveHeader(b, B, X)
        /\ b.body > 0 =>
             /\ \A n \in lens : e + 1 + b.body <= n
             /\ e + 1 + b.body <= Len(may)
             /\ \A k \in e + 2 .. e + 1 + b.body :
                  Certain(may[k]) /\ \A c \in may[k] : LiveRecord(c, B, X)
             /\ e + 1 + b.body < Len(may) =>
                  \A c \in may[e + 2 + b.body] : ~IsHeader(c)
    BY <2>1 DEF JournalOK, LastSection
  <2>3. b.body \in Nat
    BY <2>2 DEF LiveHeader
  <2>4. ASSUME b.body > 0
        PROVE  /\ \A n \in lens2 : e + 1 + b.body <= n
               /\ e + 1 + b.body <= Len(may2)
               /\ \A k \in e + 2 .. e + 1 + b.body :
                    Certain(may2[k]) /\ \A c \in may2[k] : LiveRecord(c, B, X)
               /\ e + 1 + b.body < Len(may2) =>
                    \A c \in may2[e + 2 + b.body] : ~IsHeader(c)
    <3>1. e + 1 + b.body <= Len(may2) /\ \A n \in lens2 : e + 1 + b.body <= n
      BY <2>2, <2>4
    <3>2. ASSUME NEW k \in e + 2 .. e + 1 + b.body
          PROVE  Certain(may2[k]) /\ \A c \in may2[k] : LiveRecord(c, B, X)
      <4>1. may2[k] \subseteq may[k]
        BY <3>1, <2>3
      <4>2. QED
        BY <4>1, <2>2, <2>4 DEF Certain
    <3>3. ASSUME e + 1 + b.body < Len(may2), NEW c \in may2[e + 2 + b.body]
          PROVE  ~IsHeader(c)
      <4>0. e + 2 + b.body \in 1 .. Len(may2)
        BY <3>3, <2>3
      <4>1. may2[e + 2 + b.body] \subseteq may[e + 2 + b.body]
        BY <4>0
      <4>2. QED
        BY <4>1, <3>3, <2>2, <2>3, <2>4
    <3>4. QED
      BY <3>1, <3>2, <3>3
  <2>5. QED
    BY <2>2, <2>4
<1>5. NoneBeyond(may2, X, e)
  <2>1. \A i \in e + 2 .. Len(may2) :
           i \in e + 2 .. Len(may) /\ may2[i] \subseteq may[i]
    OBVIOUS
  <2>2. Len(may2) >= 1 => Len(may) >= 1 /\ may2[1] \subseteq may[1]
    OBVIOUS
  <2>3. QED
    BY <2>1, <2>2 DEF JournalOK, NoneBeyond
<1>6. QED
  BY <1>3, <1>4, <1>5 DEF JournalOK

\* How far the records reach that a power failure cannot take away.
LEMMA RestorableReach ==
  ASSUME NEW may, NEW lens, NEW B, NEW X, NEW e \in Nat,
         Possible(may, lens), JournalOK(may, lens, B, X, e),
         NEW g \in 1 .. e + 1, NEW i \in 1 .. Len(may), g < i,
         \A b \in may[g] : LiveHeader(b, B, X) /\ i <= g + b.body
  PROVE  \A n \in lens : i <= n
<1> USE DEF Possible
<1>1. PICK b \in may[g] : LiveHeader(b, B, X) /\ i <= g + b.body
  OBVIOUS
<1>2. b.body \in Nat /\ b.body > 0 /\ IsHeader(b)
  BY <1>1 DEF LiveHeader
<1>3. \A n \in lens : e <= n
  BY DEF JournalOK, SafeSections
<1>4. CASE g \in 1 .. e
  <2>1. g + b.body <= e
    BY <1>4, <1>1 DEF JournalOK, SafeSections, LiveHeader, LiveRecord, IsHeader
  <2>2. QED
    BY <2>1, <1>1, <1>2, <1>3
<1>5. CASE g = e + 1
  <2>1. \A n \in lens : e + 1 + b.body <= n
    <3>1. e < Len(may) /\ b \in may[e + 1]
      BY <1>5
    <3>2. QED
      BY <3>1, <1>2 DEF JournalOK, LastSection
  <2>2. QED
    BY <2>1, <1>5, <1>1, <1>2
<1>6. QED
  BY <1>4, <1>5

\* The record that restores a page is in the part the disk certainly has.
LEMMA RestorableWhere ==
  ASSUME NEW may, NEW lens, NEW B, NEW X, NEW e \in Nat,
         Possible(may, lens), JournalOK(may, lens, B, X, e),
         NEW p, Restorable(p, may, B, X, e)
  PROVE  \E g \in 1 .. e + 1, i \in 1 .. Len(may) :
           /\ g < i
           /\ \A b \in may[g] : LiveHeader(b, B, X) /\ i <= g + b.body
           /\ \A c \in may[i] : LiveRecord(c, B, X) /\ c.page = p
           /\ \A n \in lens : i <= n
<1>1. PICK g \in 1 .. e + 1, i \in 1 .. Len(may) :
        /\ g < i
        /\ \A b \in may[g] : LiveHeader(b, B, X) /\ i <= g + b.body
        /\ \A c \in may[i] : LiveRecord(c, B, X) /\ c.page = p
  BY DEF Restorable
<1>2. \A n \in lens : i <= n
  BY <1>1, RestorableReach
<1>3. QED
  BY <1>1, <1>2

\* A page that can be restored still can when less is possible, as after a
\* sync or a power failure, and when more of the journal is safe.
LEMMA RestorableNarrows ==
  ASSUME NEW may, NEW lens, NEW may2,
         NEW B, NEW X, NEW e \in Nat, NEW e2 \in Nat, e <= e2,
         Possible(may, lens), JournalOK(may, lens, B, X, e),
         Within(may2, may, lens), NEW p, Restorable(p, may, B, X, e)
  PROVE  Restorable(p, may2, B, X, e2)
<1>1. PICK g \in 1 .. e + 1, i \in 1 .. Len(may) :
        /\ g < i
        /\ \A b \in may[g] : LiveHeader(b, B, X) /\ i <= g + b.body
        /\ \A c \in may[i] : LiveRecord(c, B, X) /\ c.page = p
        /\ \A n \in lens : i <= n
  BY RestorableWhere
<1> USE DEF Possible, Within
<1>3. i \in 1 .. Len(may2) /\ g \in 1 .. Len(may2) /\ g \in 1 .. e2 + 1
  BY <1>1
<1>4. /\ \A b \in may2[g] : LiveHeader(b, B, X) /\ i <= g + b.body
      /\ \A c \in may2[i] : LiveRecord(c, B, X) /\ c.page = p
  BY <1>1, <1>3
<1>5. QED
  BY <1>1, <1>3, <1>4 DEF Restorable

\* As long as there is something to restore, the journal has its header.
LEMMA RestorableHeader ==
  ASSUME NEW may, NEW lens, NEW B, NEW X, NEW e \in Nat,
         Possible(may, lens), JournalOK(may, lens, B, X, e),
         NEW p, Restorable(p, may, B, X, e)
  PROVE  /\ Len(may) >= 1 /\ \A n \in lens : 1 <= n
         /\ \A b \in may[1] : IsHeader(b)
<1>1. PICK g \in 1 .. e + 1, i \in 1 .. Len(may) :
        /\ g < i
        /\ \A b \in may[g] : LiveHeader(b, B, X) /\ i <= g + b.body
  BY DEF Restorable
<1>2. \A n \in lens : i <= n
  BY <1>1, RestorableReach
<1> USE DEF Possible
<1>3. CASE g = 1
  BY <1>1, <1>2, <1>3 DEF LiveHeader
<1>4. CASE g > 1
  BY <1>1, <1>2, <1>4 DEF JournalOK, SafeSections
<1>5. g = 1 \/ g > 1
  OBVIOUS
<1>6. QED
  BY <1>3, <1>4, <1>5

\* A record in a synced section will be restored.
LEMMA SafeRecord ==
  ASSUME NEW may, NEW lens, NEW B, NEW X, NEW e \in Nat,
         Possible(may, lens), JournalOK(may, lens, B, X, e),
         NEW k \in 1 .. e, NEW b \in may[k], LiveRecord(b, B, X)
  PROVE  Restorable(b.page, may, B, X, e)
<1> USE DEF Possible
<1>1. /\ Certain(may[k])
      /\ \E g \in 1 .. k - 1 : \A c \in may[g] : IsHeader(c) /\ k <= g + c.body
  BY DEF JournalOK, SafeSections, LiveHeader, LiveRecord, IsHeader
<1>2. PICK g \in 1 .. k - 1 :
             \A c \in may[g] : IsHeader(c) /\ k <= g + c.body
  BY <1>1
<1>3. \A c \in may[g] : LiveHeader(c, B, X)
  BY <1>2 DEF JournalOK, SafeSections, LiveRecord, IsHeader
<1>4. \A c \in may[k] : LiveRecord(c, B, X) /\ c.page = b.page
  BY <1>1 DEF Certain
<1>5. k \in 1 .. Len(may) /\ g \in 1 .. e + 1 /\ g < k
  BY DEF JournalOK, SafeSections
<1>6. QED
  BY <1>2, <1>3, <1>4, <1>5 DEF Restorable

\* A recovery comes to what is to be restored.
LEMMA RestorableIsPlayed ==
  ASSUME NEW may, NEW lens, NEW B, NEW X, NEW e \in Nat,
         Possible(may, lens), JournalOK(may, lens, B, X, e),
         NEW data, OneOf(data, may, lens),
         NEW p, Restorable(p, may, B, X, e)
  PROVE  RecordIn(p, 0, PlayEnd(data, e), data, B, X)
<1>1. PICK g \in 1 .. e + 1, i \in 1 .. Len(may) :
        /\ g < i
        /\ \A b \in may[g] : LiveHeader(b, B, X) /\ i <= g + b.body
        /\ \A c \in may[i] : LiveRecord(c, B, X) /\ c.page = p
        /\ \A n \in lens : i <= n
  BY RestorableWhere
<1> USE DEF Possible, OneOf
<1>2. i <= Len(data)
  BY <1>1
<1>3. /\ LiveHeader(data[g], B, X) /\ i <= g + data[g].body
      /\ LiveRecord(data[i], B, X) /\ data[i].page = p
  BY <1>1, <1>2
<1>4. data[g].body \in Nat /\ IsHeader(data[g])
  BY <1>3 DEF LiveHeader
<1>5. e <= Len(data)
  BY DEF JournalOK, SafeSections
<1>6. e < Len(data) /\ IsHeader(data[e + 1]) => data[e + 1].body \in Nat
  <2>1. e < Len(data) => data[e + 1] \in may[e + 1] /\ e < Len(may)
    BY <1>5
  <2>2. QED
    BY <2>1 DEF JournalOK, LastSection, LiveHeader
<1>7. i <= PlayEnd(data, e) /\ PlayEnd(data, e) \in Nat
  <2>1. CASE g = e + 1
    BY <2>1, <1>1, <1>2, <1>3, <1>4 DEF PlayEnd
  <2>2. CASE g \in 1 .. e
    <3>1. data[g] \in may[g]
      BY <2>2, <1>5
    <3>2. g + data[g].body <= e
      BY <2>2, <3>1, <1>4 DEF JournalOK, SafeSections, LiveRecord, IsHeader
    <3>3. QED
      BY <3>2, <1>3, <1>4, <1>6 DEF PlayEnd
  <2>3. QED
    BY <2>1, <2>2
<1>8. QED
  BY <1>1, <1>3, <1>7 DEF RecordIn

\* With its first header gone a journal restores nothing.
LEMMA QuietJournal ==
  ASSUME NEW may, NEW lens \in SUBSET Nat, NEW B, NEW X, Len(may) \in Nat,
         NoHeader(may)
  PROVE  JournalOK(may, lens, B, X, 0)
BY DEF NoHeader, JournalOK, SafeSections, LastSection, NoneBeyond

\* may2 is may after a write of block j.
Written(may2, may, j) ==
  /\ Len(may) \in Nat /\ j \in 1 .. Len(may) + 1
  /\ Len(may2) = IF j <= Len(may) THEN Len(may) ELSE j
  /\ \A k \in 1 .. Len(may) : k # j => may2[k] = may[k]

\* The synced sections depend on no other block.
LEMMA SafeSectionsSame ==
  ASSUME NEW may, NEW lens, NEW may2, NEW lens2, NEW B, NEW X, NEW e \in Nat,
         SafeSections(may, lens, B, X, e),
         e <= Len(may2), \A n \in lens2 : e <= n,
         \A k \in 1 .. e : may2[k] = may[k]
  PROVE  SafeSections(may2, lens2, B, X, e)
<1>1. e >= 1 => \A b \in may2[1] : IsHeader(b)
  BY DEF SafeSections
<1>2. ASSUME NEW i \in 1 .. e
      PROVE  /\ Certain(may2[i])
             /\ \A b \in may2[i] :
                  \/ /\ LiveHeader(b, B, X)
                     /\ i + b.body <= e
                     /\ \A k \in i + 1 .. i + b.body :
                          \A c \in may2[k] : LiveRecord(c, B, X)
                     /\ i + b.body < e =>
                          \A c \in may2[i + b.body + 1] : IsHeader(c)
                  \/ /\ LiveRecord(b, B, X)
                     /\ \E g \in 1 .. i - 1 :
                          \A c \in may2[g] : IsHeader(c) /\ i <= g + c.body
  <2>1. Certain(may2[i])
    BY DEF SafeSections
  <2>2. ASSUME NEW b \in may2[i]
        PROVE  \/ /\ LiveHeader(b, B, X)
                  /\ i + b.body <= e
                  /\ \A k \in i + 1 .. i + b.body :
                       \A c \in may2[k] : LiveRecord(c, B, X)
                  /\ i + b.body < e =>
                       \A c \in may2[i + b.body + 1] : IsHeader(c)
               \/ /\ LiveRecord(b, B, X)
                  /\ \E g \in 1 .. i - 1 :
                       \A c \in may2[g] : IsHeader(c) /\ i <= g + c.body
    <3>1. b \in may[i]
      OBVIOUS
    <3>2. \/ /\ LiveHeader(b, B, X)
             /\ i + b.body <= e
             /\ \A k \in i + 1 .. i + b.body :
                  \A c \in may[k] : LiveRecord(c, B, X)
             /\ i + b.body < e =>
                  \A c \in may[i + b.body + 1] : IsHeader(c)
          \/ /\ LiveRecord(b, B, X)
             /\ \E g \in 1 .. i - 1 :
                  \A c \in may[g] : IsHeader(c) /\ i <= g + c.body
      BY <3>1 DEF SafeSections
    <3>3. CASE LiveRecord(b, B, X)
      <4>1. PICK g \in 1 .. i - 1 :
                   \A c \in may[g] : IsHeader(c) /\ i <= g + c.body
        BY <3>2, <3>3 DEF LiveHeader, LiveRecord, IsHeader
      <4>2. may2[g] = may[g]
        OBVIOUS
      <4>3. QED
        BY <3>3, <4>1, <4>2
    <3>4. CASE ~LiveRecord(b, B, X)
      <4>1. b.body \in Nat
        BY <3>2, <3>4 DEF LiveHeader
      <4>2. \A k \in i + 1 .. i + b.body : may2[k] = may[k]
        BY <3>2, <3>4, <4>1
      <4>3. i + b.body < e => may2[i + b.body + 1] = may[i + b.body + 1]
        BY <4>1
      <4>4. QED
        BY <3>2, <3>4, <4>1, <4>2, <4>3
    <3>5. QED
      BY <3>3, <3>4
  <2>3. QED
    BY <2>1, <2>2
<1>3. QED
  BY <1>1, <1>2 DEF SafeSections

\* Blocks that are written behind an empty last section do no harm as long
\* as they are no headers.
LEMMA JournalGrows ==
  ASSUME NEW may, NEW lens, NEW may2, NEW lens2,
         NEW B, NEW X, NEW e \in Nat, NEW j \in Nat, j >= e + 2,
         Possible(may, lens), JournalOK(may, lens, B, X, e), e + 1 <= Len(may),
         \A b \in may[e + 1] : IsHeader(b) => b.body = 0,
         Written(may2, may, j),
         \A b \in may2[j] : IsHeader(b) => j <= Len(may) /\ b \in may[j],
         lens2 \subseteq Nat, \A n \in lens2 : n \in lens \/ j <= n
  PROVE  JournalOK(may2, lens2, B, X, e)
<1> USE DEF Possible, Written
<1>1. \A k \in 1 .. e + 1 : k \in 1 .. Len(may2) /\ may2[k] = may[k]
  OBVIOUS
<1>2. SafeSections(may2, lens2, B, X, e)
  <2>1. /\ e <= Len(may2) /\ \A n \in lens2 : e <= n
        /\ e >= 1 => \A b \in may2[1] : IsHeader(b)
    BY <1>1 DEF JournalOK, SafeSections
  <2>2. SafeSections(may, lens, B, X, e) /\ \A k \in 1 .. e : may2[k] = may[k]
    BY <1>1 DEF JournalOK
  <2>3. QED
    BY <2>1, <2>2, SafeSectionsSame
<1>3. LastSection(may2, lens2, B, X, e)
  <2>1. may2[e + 1] = may[e + 1]
    BY <1>1
  <2>2. QED
    BY <2>1 DEF JournalOK, LastSection, LiveHeader
<1>4. NoneBeyond(may2, X, e)
  <2>1. may2[1] = may[1] /\ Len(may) >= 1
    BY <1>1
  <2>2. ASSUME NEW i \in e + 2 .. Len(may2), NEW b \in may2[i], IsHeader(b),
               \E c \in may2[1] : IsHeader(c)
        PROVE  b.id # X
    <3>1. i \in e + 2 .. Len(may) /\ b \in may[i]
      <4>1. CASE i = j
        BY <4>1, <2>2
      <4>2. CASE i # j
        BY <4>2
      <4>3. QED
        BY <4>1, <4>2
    <3>2. QED
      BY <3>1, <2>1, <2>2 DEF JournalOK, NoneBeyond
  <2>3. QED
    BY <2>2 DEF NoneBeyond
<1>5. QED
  BY <1>2, <1>3, <1>4 DEF JournalOK

\* Nor do they take anything away.
LEMMA RestorableStays ==
  ASSUME NEW may, NEW lens, NEW may2,
         NEW B, NEW X, NEW e \in Nat, NEW j \in Nat, j >= e + 1,
         Possible(may, lens), JournalOK(may, lens, B, X, e), e <= Len(may),
         e + 1 <= Len(may) => \A b \in may[e + 1] : IsHeader(b) => b.body = 0,
         Written(may2, may, j),
         NEW p, Restorable(p, may, B, X, e)
  PROVE  Restorable(p, may2, B, X, e)
<1>1. PICK g \in 1 .. e + 1, i \in 1 .. Len(may) :
        /\ g < i
        /\ \A b \in may[g] : LiveHeader(b, B, X) /\ i <= g + b.body
        /\ \A c \in may[i] : LiveRecord(c, B, X) /\ c.page = p
  BY DEF Restorable
<1> USE DEF Possible
<1>2. PICK b \in may[g] : LiveHeader(b, B, X) /\ i <= g + b.body
  BY <1>1
<1>3. b.body \in Nat /\ b.body > 0 /\ IsHeader(b)
  BY <1>1, <1>2 DEF LiveHeader
<1>4. g # e + 1
  BY <1>1, <1>2, <1>3
<1>5. g + b.body <= e
  BY <1>2, <1>4 DEF JournalOK, SafeSections, LiveHeader, LiveRecord, IsHeader
<1>6. i <= e
  BY <1>2, <1>3, <1>5
<1>7. may2[g] = may[g] /\ may2[i] = may[i] /\ i \in 1 .. Len(may2)
  BY <1>1, <1>6 DEF Written
<1>8. QED
  BY <1>1, <1>7 DEF Restorable

\* A header that opens a new last section.
LEMMA SectionOpened ==
  ASSUME NEW may, NEW lens, NEW may2, NEW lens2, NEW B, NEW X, NEW e \in Nat,
         Possible(may, lens), SafeSections(may, lens, B, X, e),
         Written(may2, may, e + 1),
         \A b \in may2[e + 1] :
           IsHeader(b) => LiveHeader(b, B, X) /\ b.body = 0,
         \A i \in e + 2 .. Len(may) : \A b \in may[i] : IsHeader(b) => b.id # X,
         lens2 \subseteq Nat, \A n \in lens2 : n \in lens \/ e <= n
  PROVE  JournalOK(may2, lens2, B, X, e)
<1> USE DEF Possible, Written
<1>1. SafeSections(may2, lens2, B, X, e)
  <2>1. e <= Len(may) /\ \A n \in lens2 : e <= n
    BY DEF SafeSections
  <2>2. e <= Len(may2) /\ \A k \in 1 .. e : may2[k] = may[k]
    BY <2>1
  <2>3. QED
    BY <2>1, <2>2, SafeSectionsSame
<1>2. LastSection(may2, lens2, B, X, e)
  BY DEF LastSection
<1>3. NoneBeyond(may2, X, e)
  <2>1. \A i \in e + 2 .. Len(may2) : i \in e + 2 .. Len(may) /\ may2[i] = may[i]
    OBVIOUS
  <2>2. QED
    BY <2>1 DEF NoneBeyond
<1>4. QED
  BY <1>1, <1>2, <1>3 DEF JournalOK

\* The possibilities of a synced file.
Synced(may, lens, data) ==
  /\ Len(data) \in Nat /\ Len(may) = Len(data) /\ lens = {Len(data)}
  /\ \A k \in 1 .. Len(data) : may[k] = {data[k]}

\* The number of records goes to the header of a section that is complete.
LEMMA SectionCounted ==
  ASSUME NEW may, NEW lens, NEW may2, NEW data, NEW B, NEW X, NEW e \in Nat,
         Synced(may, lens, data), JournalOK(may, lens, B, X, e),
         NEW end \in Nat, OwnJournal(data, B, X, e + 1, end),
         AtEnd(end, data), Written(may2, may, e + 1),
         data[e + 1].body = 0, NEW h, may2[e + 1] = {data[e + 1], h},
         LiveHeader(h, B, X), h.body = end - (e + 1)
  PROVE  JournalOK(may2, lens, B, X, e)
<1> USE DEF Synced, Written
<1>0. e + 1 <= end /\ end <= Len(data) /\ LiveHeader(data[e + 1], B, X)
  BY DEF OwnJournal
<1>1. SafeSections(may2, lens, B, X, e)
  <2>1. e <= Len(may) /\ \A n \in lens : e <= n
    BY DEF JournalOK, SafeSections
  <2>2. e <= Len(may2) /\ \A k \in 1 .. e : may2[k] = may[k]
    BY <2>1
  <2>3. SafeSections(may, lens, B, X, e)
    BY DEF JournalOK
  <2>4. QED
    BY <2>1, <2>2, <2>3, SafeSectionsSame
<1>2. LastSection(may2, lens, B, X, e)
  <2> SUFFICES ASSUME NEW b \in may2[e + 1]
      PROVE  /\ LiveHeader(b, B, X)
             /\ b.body > 0 =>
                  /\ \A n \in lens : e + 1 + b.body <= n
                  /\ e + 1 + b.body <= Len(may2)
                  /\ \A k \in e + 2 .. e + 1 + b.body :
                       Certain(may2[k]) /\ \A c \in may2[k] : LiveRecord(c, B, X)
                  /\ e + 1 + b.body < Len(may2) =>
                       \A c \in may2[e + 2 + b.body] : ~IsHeader(c)
    BY DEF LastSection
  <2>1. LiveHeader(b, B, X) /\ (b.body = 0 \/ b.body = end - (e + 1))
    BY <1>0
  <2>2. ASSUME b.body > 0
        PROVE  /\ \A n \in lens : e + 1 + b.body <= n
               /\ e + 1 + b.body <= Len(may2)
               /\ \A k \in e + 2 .. e + 1 + b.body :
                    Certain(may2[k]) /\ \A c \in may2[k] : LiveRecord(c, B, X)
               /\ e + 1 + b.body < Len(may2) =>
                    \A c \in may2[e + 2 + b.body] : ~IsHeader(c)
    <3>1. e + 1 + b.body = end
      BY <2>1, <2>2
    <3>2. ASSUME NEW k \in e + 2 .. end
          PROVE  Certain(may2[k]) /\ \A c \in may2[k] : LiveRecord(c, B, X)
      <4>1. may2[k] = {data[k]}
        BY <1>0
      <4>2. LiveRecord(data[k], B, X)
        BY <1>0 DEF OwnJournal
      <4>3. QED
        BY <4>1, <4>2 DEF Certain
    <3>3. ASSUME end < Len(may2) PROVE \A c \in may2[end + 1] : ~IsHeader(c)
      <4>1. may2[end + 1] = {data[end + 1]} /\ end < Len(data)
        BY <1>0, <3>3
      <4>2. QED
        BY <4>1 DEF AtEnd
    <3>4. e + 2 + b.body = end + 1
      <4>1. b.body \in Nat
        BY <2>1 DEF LiveHeader
      <4>2. \A m \in Nat : e + 1 + m = end => e + 2 + m = end + 1
        OBVIOUS
      <4>3. QED
        BY <3>1, <4>1, <4>2
    <3>5. QED
      BY <3>1, <3>2, <3>3, <3>4, <1>0
  <2>3. QED
    BY <2>1, <2>2
<1>3. NoneBeyond(may2, X, e)
  <2>1. \A i \in e + 2 .. Len(may2) : i \in e + 1 .. Len(data) /\ may2[i] = {data[i]}
    BY <1>0
  <2>2. ASSUME NEW i \in e + 2 .. Len(may2), IsHeader(data[i])
        PROVE  data[i].id # X
    BY <2>1, <2>2, <1>0 DEF OwnJournal, IsHeader, LiveRecord
  <2>3. QED
    BY <2>1, <2>2 DEF NoneBeyond
<1>4. QED
  BY <1>1, <1>2, <1>3 DEF JournalOK

\* Once that is synced the section is safe.
LEMMA SectionSynced ==
  ASSUME NEW may, NEW lens, NEW may2, NEW lens2, NEW data,
         NEW B, NEW X, NEW e \in Nat,
         Possible(may, lens), JournalOK(may, lens, B, X, e),
         OneOf(data, may, lens), Synced(may2, lens2, data),
         NEW end \in Nat, OwnJournal(data, B, X, e + 1, end),
         AtEnd(end, data), data[e + 1].body = end - (e + 1)
  PROVE  JournalOK(may2, lens2, B, X, end)
<1>0. e + 1 <= end /\ end <= Len(data) /\ LiveHeader(data[e + 1], B, X)
  BY DEF OwnJournal
<1>1. JournalOK(may2, lens2, B, X, e)
  <2>1. Within(may2, may, lens) /\ lens2 \in SUBSET lens
    BY DEF Within, Synced, OneOf
  <2>2. QED
    BY <2>1, JournalNarrows
<1> USE DEF Synced
<1>2. SafeSections(may2, lens2, B, X, end)
  <2>1. \A b \in may2[1] : IsHeader(b)
    <3>1. CASE e >= 1
      BY <3>1, <1>1 DEF JournalOK, SafeSections
    <3>2. CASE e = 0
      BY <3>2, <1>0 DEF LiveHeader
    <3>3. QED
      BY <3>1, <3>2
  <2>2. ASSUME NEW i \in 1 .. end
        PROVE  /\ Certain(may2[i])
               /\ \A b \in may2[i] :
                    \/ /\ LiveHeader(b, B, X)
                       /\ i + b.body <= end
                       /\ \A k \in i + 1 .. i + b.body :
                            \A c \in may2[k] : LiveRecord(c, B, X)
                       /\ i + b.body < end =>
                            \A c \in may2[i + b.body + 1] : IsHeader(c)
                    \/ /\ LiveRecord(b, B, X)
                       /\ \E g \in 1 .. i - 1 :
                            \A c \in may2[g] : IsHeader(c) /\ i <= g + c.body
    <3>1. may2[i] = {data[i]} /\ Certain(may2[i])
      BY <1>0 DEF Certain
    <3>2. CASE i <= e
      <4>1. \/ /\ LiveHeader(data[i], B, X)
               /\ i + data[i].body <= e
               /\ \A k \in i + 1 .. i + data[i].body :
                    \A c \in may2[k] : LiveRecord(c, B, X)
               /\ i + data[i].body < e =>
                    \A c \in may2[i + data[i].body + 1] : IsHeader(c)
            \/ /\ LiveRecord(data[i], B, X)
               /\ \E g \in 1 .. i - 1 :
                    \A c \in may2[g] : IsHeader(c) /\ i <= g + c.body
        <5>1. i \in 1 .. e /\ data[i] \in may2[i]
          BY <3>1, <3>2
        <5>2. QED
          BY <5>1, <1>1 DEF JournalOK, SafeSections
      <4>2. LiveHeader(data[i], B, X) => data[i].body \in Nat
        BY DEF LiveHeader
      <4>3. \A c \in may2[e + 1] : IsHeader(c)
        BY <1>0 DEF LiveHeader
      <4>4. i + data[i].body = e => i + data[i].body + 1 = e + 1
        OBVIOUS
      <4>5. QED
        BY <3>1, <4>1, <4>2, <4>3, <4>4, <1>0
    <3>3. CASE i = e + 1
      <4>1. LiveHeader(data[i], B, X) /\ i + data[i].body = end
        BY <3>3, <1>0
      <4>2. ASSUME NEW k \in i + 1 .. end, NEW c \in may2[k]
            PROVE  LiveRecord(c, B, X)
        <5>1. c = data[k]
          BY <1>0, <3>3
        <5>2. QED
          BY <5>1, <3>3 DEF OwnJournal
      <4>3. QED
        BY <3>1, <4>1, <4>2, <1>0
    <3>4. CASE i > e + 1
      <4>1. LiveRecord(data[i], B, X)
        BY <3>4, <1>0 DEF OwnJournal
      <4>2. e + 1 \in 1 .. i - 1 /\ may2[e + 1] = {data[e + 1]}
        BY <3>4, <1>0
      <4>3. IsHeader(data[e + 1]) /\ i <= (e + 1) + data[e + 1].body
        BY <1>0 DEF LiveHeader
      <4>4. QED
        BY <3>1, <4>1, <4>2, <4>3
    <3>5. QED
      BY <3>2, <3>3, <3>4
  <2>3. end <= Len(may2) /\ \A n \in lens2 : end <= n
    BY <1>0
  <2>4. QED
    BY <2>1, <2>2, <2>3 DEF SafeSections
<1>3. LastSection(may2, lens2, B, X, end)
  BY <1>0 DEF LastSection, AtEnd
<1>4. NoneBeyond(may2, X, end)
  <2>1. ASSUME NEW i \in end + 2 .. Len(may2), NEW b \in may2[i] PROVE b.id # X
    <3>1. b = data[i] /\ i \in end + 1 .. Len(data)
      BY <1>0
    <3>2. QED
      BY <3>1 DEF OwnJournal
  <2>2. QED
    BY <2>1 DEF NoneBeyond
<1>5. QED
  BY <1>2, <1>3, <1>4 DEF JournalOK

-----------------------------------------------------------------------------
(* What a step leaves alone, and the phase it ends in.                     *)

\* Only while the zeroed header waits for its sync is the journal seen otherwise.
LEMMA MayOutside ==
  ASSUME pc # "zsync" PROVE JournalMay = jr.may
BY DEF JournalMay

\* A step that writes no file keeps the agreement of the files.
LEMMA FilesSame ==
  ASSUME FilesOK, UNCHANGED <<db, jr, tx, base, safe, inDoubt>>,
         pc # "zsync", pc' # "zsync"
  PROVE  FilesOK'
<1>1. JournalMay = jr.may /\ JournalMay' = jr'.may
  BY DEF JournalMay
<1>2. JournalMay' = JournalMay /\ PageCount' = PageCount
  BY <1>1 DEF PageCount
<1>3. QED
  BY <1>2 DEF FilesOK

\* A step that ends no transaction keeps the history.
LEMMA HistorySame ==
  ASSUME HistoryOK, UNCHANGED <<committed, previous, base>>,
         pc # "zsync", pc' # "zsync"
  PROVE  HistoryOK'
BY DEF HistoryOK

\* A step that writes no file keeps the types of the files.
LEMMA DiskSame ==
  ASSUME DiskType, UNCHANGED <<db, jr, tx, history>>
  PROVE  DiskType'
BY DEF DiskType, history

\* The connection at work may change its own cache.
LEMMA CachesSame ==
  ASSUME CachesOK, UNCHANGED <<owner, base>>,
         pc' \notin {"idle", "check"}, ~isHot',
         \A c \in Conns : c # owner =>
           cache'[c] = cache[c] /\ dbFileVers'[c] = dbFileVers[c]
  PROVE  CachesOK'
BY DEF CachesOK

\* The types of the journal's parts.
LEMMA JournalFile ==
  ASSUME DiskType
  PROVE  /\ jr.data \in Seq(Blocks) /\ jr.may \in Seq(SUBSET Blocks)
         /\ Len(jr.data) \in Nat /\ Len(jr.may) \in Nat
         /\ jr.lens \in SUBSET Nat
         /\ Possible(jr.may, jr.lens) /\ OneOf(jr.data, jr.may, jr.lens)
         /\ Len(jr.data) <= Len(jr.may)
<1>1. FileOK(jr, Blocks)
  BY DEF DiskType
<1>2. /\ jr.data \in Seq(Blocks) /\ jr.may \in Seq(SUBSET Blocks)
      /\ jr.lens \in SUBSET Nat
  BY <1>1 DEF FileOK
<1>3. Len(jr.data) \in Nat /\ Len(jr.may) \in Nat
  BY <1>2
<1>4. Possible(jr.may, jr.lens)
  BY <1>1, <1>2, <1>3 DEF FileOK, Possible
<1>5. OneOf(jr.data, jr.may, jr.lens) /\ Len(jr.data) <= Len(jr.may)
  BY <1>1 DEF FileOK, OneOf
<1>6. QED
  BY <1>2, <1>3, <1>4, <1>5

\* The types of the database's parts, and its length is PageCount.
LEMMA DatabaseFile ==
  ASSUME DiskType
  PROVE  /\ db.data \in Seq(Values) /\ db.may \in Seq(SUBSET Values)
         /\ Len(db.data) \in Nat /\ Len(db.may) = Len(db.data)
         /\ db.lens \in SUBSET Nat /\ Len(db.data) \in db.lens
         /\ \A n \in db.lens : n <= Len(db.data)
         /\ \A i \in 1 .. Len(db.data) : db.data[i] \in db.may[i]
         /\ PageCount = Len(db.data) /\ PageCount \in Nat
         /\ base \in Seq(Values) /\ Len(base) \in Nat /\ safe \in Nat
BY DEF DiskType, FileOK, PageCount

TxPhase == TxPlace /\ TxJournal /\ TxPages /\ TxCache
Always == DiskType /\ PagerType /\ FilesOK /\ HistoryOK /\ CachesOK

\* What the invariant says of a connection in a transaction.
LEMMA FromTransaction ==
  ASSUME PagerInv, pc \in {"ready"} \cup Working, state # "shared"
  PROVE  Always /\ TxPhase /\ owner \in Conns /\ pc # "zsync"
BY DEF PagerInv, Always, TxPhase, Transaction, InTransaction, PagerType,
       Working

\* Outside "ready" there is always a transaction.
LEMMA FromWorking ==
  ASSUME PagerInv, pc \in Working
  PROVE  Always /\ TxPhase /\ owner \in Conns /\ pc # "zsync"
<1>1. state # "shared"
  BY DEF PagerInv, Shared, Working
<1>2. QED
  BY <1>1, FromTransaction

\* In a transaction the invariant says no more than this.
LEMMA ToTransaction ==
  ASSUME Always', TxPhase', owner' # None,
         pc' \in {"ready"} \cup Working, state' # "shared"
  PROVE  PagerInv'
BY DEF PagerInv, Always, TxPhase, Idle, Shared, Transaction, OwnPlayback,
       HotPlayback, Finalising, Ending, Working, Playing

\* What the invariant says of a connection that reads.
LEMMA FromShared ==
  ASSUME PagerInv, state = "shared"
  PROVE  Always /\ Shared /\ owner \in Conns /\ pc # "zsync"
BY DEF PagerInv, Always, Shared, PagerType

\* While a connection reads the invariant says no more than this.
LEMMA ToShared ==
  ASSUME Always', Shared', owner' # None, state' = "shared"
  PROVE  PagerInv'
BY DEF PagerInv, Always, Idle, Shared, Transaction, InTransaction, OwnPlayback,
       HotPlayback, Finalising, Ending, Working, Playing

\* While nobody has the lock the invariant says no more than this.
LEMMA ToIdle ==
  ASSUME Always', Idle', owner' = None, pc' = "idle"
  PROVE  PagerInv'
BY DEF PagerInv, Always, Idle, Shared, Transaction, InTransaction, OwnPlayback,
       HotPlayback, Finalising, Ending, Working, Playing

\* What the invariant says of a connection that plays a journal back.
LEMMA FromPlaying ==
  ASSUME PagerInv, pc \in Playing
  PROVE  /\ Always /\ OwnPlayback /\ HotPlayback
         /\ owner \in Conns /\ pc # "zsync"
BY DEF PagerInv, Always, PagerType, Playing

\* During a playback the invariant says no more than this.
LEMMA ToPlaying ==
  ASSUME Always', OwnPlayback', HotPlayback', owner' # None, pc' \in Playing
  PROVE  PagerInv'
<1>1. state' # "shared"
  BY DEF OwnPlayback, HotPlayback
<1>2. QED
  BY <1>1 DEF PagerInv, Always, Idle, Shared, Transaction, InTransaction,
              Finalising, Ending, Working, Playing

\* Until the zeroed header is synced the invariant says no more than this.
LEMMA ToFinalising ==
  ASSUME Always', Finalising', owner' # None, pc' = "zsync"
  PROVE  PagerInv'
<1>1. state' # "shared"
  BY DEF Finalising, Writing
<1>2. QED
  BY <1>1 DEF PagerInv, Always, Idle, Shared, Transaction, InTransaction,
              OwnPlayback, HotPlayback, Finalising, Ending, Working, Playing

\* At the end of a transaction the invariant says no more than this.
LEMMA ToEnding ==
  ASSUME Always', Ending', owner' # None, pc' = "end"
  PROVE  PagerInv'
<1>1. state' # "shared"
  BY DEF Ending, Writing
<1>2. QED
  BY <1>1 DEF PagerInv, Always, Idle, Shared, Transaction, InTransaction,
              OwnPlayback, HotPlayback, Finalising, Ending, Working, Playing

-----------------------------------------------------------------------------
(* A connection inside a write transaction.                                *)

\* sqlite3PagerAcquire in a transaction fills the cache from the file, which
\* has the present page where it was not changed.
LEMMA AcquireInTransaction ==
  ASSUME PagerInv, NEW p \in Pages, Acquire(p), state # "shared"
  PROVE  PagerInv'
<1>1. pc = "ready" /\ pc' = "ready" /\ state' = state
  BY DEF Acquire
<1>2. Always /\ TxPhase /\ owner \in Conns
  BY <1>1, FromTransaction
<1> USE <1>1, <1>2 DEF Always, TxPhase
<1>3. p # 1
  <2>1. dbSize > 0
    BY DEF Acquire, PagerType, Pages
  <2>2. QED
    BY <2>1 DEF Acquire, TxCache
<1>4. /\ cache' = [cache EXCEPT ![owner][p] = Read(p)]
      /\ dbFileVers' = dbFileVers
  BY <1>3 DEF Acquire, Fetched
<1>5. p <= PageCount /\ p \notin dirty /\ Read(p) = db.data[p]
  BY DEF Acquire, TxCache, Read, Pages
<1>6. Read(p) \in Values /\ Read(p) # NotCached
  BY <1>5, DatabaseFile DEF Values, Torn, NotCached, Pages
<1>7. /\ cache' \in [Conns -> [Pages -> Values \cup {NotCached}]]
      /\ cache'[owner][p] = db.data[p]
      /\ \A q \in Pages : q # p => cache'[owner][q] = cache[owner][q]
      /\ \A c \in Conns : c # owner => cache'[c] = cache[c]
  BY <1>4, <1>5, <1>6 DEF PagerType
<1>8. DiskType' /\ FilesOK' /\ HistoryOK'
  BY DiskSame, FilesSame, HistorySame DEF Acquire, files, history, bounds
<1>9. PagerType'
  BY <1>4, <1>7
     DEF Acquire, PagerType, pages, flags, sizes, journal, play, bounds
<1>10. CachesOK'
  BY <1>4, <1>7, CachesSame DEF Acquire, play, history, TxPlace
<1>11. TxPlace' /\ TxPages'
  BY DEF TxPlace, TxPages, Acquire, files, pages, flags, sizes, journal,
         play, bounds, history, PageCount
<1>12. TxJournal'
  BY DEF TxJournal, TxSections, LiveData, Acquire, files, pages, flags, sizes,
         journal, play, bounds, history
<1>13. TxCache'
  <2>1. UNCHANGED <<dirty, need, pInJournal, dbSize, base, db, goal, owner>>
    BY DEF Acquire, files, pages, sizes, journal, history
  <2>2. \A q \in Pages \ dirty : cache'[owner][q] # NotCached =>
           q <= PageCount /\ cache'[owner][q] = db.data[q]
    BY <1>5, <1>7 DEF TxCache
  <2>3. 1 \in Pages
    BY SqlitePagerAssumption DEF Pages
  <2>4. cache'[owner][1] = cache[owner][1]
    BY <1>3, <1>7, <2>3
  <2>5. \A q \in dirty : cache'[owner][q] = cache[owner][q]
    BY <1>5, <1>7 DEF PagerType
  <2>6. QED
    BY <2>1, <2>2, <2>4, <2>5, <1>4 DEF TxCache, PageCount
<1>14. QED
  <2>1. Always' /\ TxPhase'
    BY <1>8, <1>9, <1>10, <1>11, <1>12, <1>13
  <2>2. owner' # None /\ state' # "shared"
    BY SqlitePagerAssumption DEF Acquire
  <2>3. QED
    BY <2>1, <2>2, ToTransaction

\* pagerStress begins to write a page out early.
LEMMA StressStep ==
  ASSUME PagerInv, NEW p \in Pages, pagerStress(p)
  PROVE  PagerInv'
<1>1. pc = "ready" /\ state # "shared" /\ state' = state
  BY DEF pagerStress, PagerInv, Shared, Clean
<1>2. Always /\ TxPhase /\ owner \in Conns
  BY <1>1, FromTransaction
<1> USE <1>1, <1>2 DEF Always, TxPhase
<1>3. pc' \in {"sync", "spill"} /\ (pc' = "spill" => p \notin need) /\ goal' = p
  BY DEF pagerStress
<1>4. /\ UNCHANGED <<files, owner, caches, pages, flags, sizes, journal, play,
                     bounds, history>>
      /\ p \in dirty \ {1} /\ p <= PageCount + 1 /\ p \in 1 .. MaxPages
  BY DEF pagerStress, Pages
<1>5. DiskType' /\ FilesOK' /\ HistoryOK' /\ CachesOK'
  BY <1>3, <1>4, DiskSame, FilesSame, HistorySame, CachesSame
     DEF files, history, bounds, caches, play, TxPlace
<1>6. PagerType'
  BY <1>3, <1>4
     DEF PagerType, caches, pages, flags, sizes, journal, play, bounds, Working
<1>7. TxPlace'
  BY <1>3, <1>4, SqlitePagerAssumption
     DEF TxPlace, files, pages, flags, sizes, journal, play, history, PageCount
<1>8. TxPages'
  BY <1>4 DEF TxPages, files, pages, journal, history
<1>9. TxJournal'
  BY <1>3, <1>4
     DEF TxJournal, TxSections, LiveData, files, bounds, journal, history, pages
<1>10. TxCache'
  BY <1>3, <1>4 DEF TxCache, files, caches, pages, sizes, journal, history,
                    PageCount
<1>11. QED
  <2>1. owner' # None /\ Always' /\ TxPhase'
    BY <1>4, <1>5, <1>6, <1>7, <1>8, <1>9, <1>10, SqlitePagerAssumption
  <2>2. QED
    BY <2>1, <1>3, ToTransaction DEF Working

\* sqlite3PagerCommitPhaseOne begins a commit, perhaps of a shorter database.
LEMMA CommitPhaseOneStep ==
  ASSUME PagerInv, NEW n \in {0, 1}, CommitPhaseOne(n)
  PROVE  PagerInv'
<1>1. pc = "ready" /\ state # "shared" /\ state' = state /\ pc' = "count"
  BY DEF CommitPhaseOne
<1>2. Always /\ TxPhase /\ owner \in Conns
  BY <1>1, FromTransaction
<1> USE <1>1, <1>2 DEF Always, TxPhase
<1>3. dbSize \in 0 .. MaxPages /\ MaxPages \in Nat
  BY SqlitePagerAssumption DEF PagerType
<1>4. /\ UNCHANGED <<files, owner, goal, caches, pages, flags, dbOrigSize,
                     journal, play, bounds, history>>
      /\ dbSize' = dbSize - n /\ n < dbSize /\ dbModified
      /\ dbSize' \in 1 .. dbSize /\ dbSize' \in 0 .. MaxPages
  BY <1>3 DEF CommitPhaseOne
<1>5. DiskType' /\ FilesOK' /\ HistoryOK' /\ CachesOK'
  BY <1>4, DiskSame, FilesSame, HistorySame, CachesSame
     DEF files, history, bounds, caches, play, TxPlace
<1>6. PagerType'
  BY <1>4
     DEF PagerType, caches, pages, flags, journal, play, bounds, Working
<1>7. TxPlace'
  BY <1>4
     DEF TxPlace, files, pages, flags, journal, play, history, PageCount
<1>8. TxPages'
  BY <1>4 DEF TxPages, files, pages, journal, history
<1>9. TxJournal'
  BY <1>4
     DEF TxJournal, TxSections, LiveData, files, bounds, journal, history, pages
<1>10. TxCache'
  BY <1>3, <1>4 DEF TxCache, files, caches, pages, journal, history, PageCount
<1>11. QED
  <2>1. owner' # None /\ Always' /\ TxPhase'
    BY <1>4, <1>5, <1>6, <1>7, <1>8, <1>9, <1>10, SqlitePagerAssumption
  <2>2. QED
    BY <2>1, ToTransaction DEF Working

\* Blocks.
LEMMA BlockTypes ==
  /\ Zeroes \in Blocks /\ TornBlock \in Blocks
  /\ ~IsHeader(Zeroes) /\ ~IsHeader(TornBlock)
  /\ Zeroes.id = 0 /\ TornBlock.id = 0
  /\ Zeroes.kind # "record" /\ TornBlock.kind # "record"
  /\ \A n, o, x \in Nat :
       /\ Header(n, o, x) \in Blocks /\ IsHeader(Header(n, o, x))
       /\ Header(n, o, x).body = n /\ Header(n, o, x).page = o
       /\ Header(n, o, x).id = x /\ Header(n, o, x).kind = "header"
  /\ \A p, x \in Nat, v \in Values :
       /\ Record(p, v, x) \in Blocks /\ ~IsHeader(Record(p, v, x))
       /\ Record(p, v, x).body = v /\ Record(p, v, x).page = p
       /\ Record(p, v, x).id = x /\ Record(p, v, x).kind = "record"
BY DEF Zeroes, TornBlock, Header, Record, Blocks, IsHeader, Values, Torn

\* A step that writes to the journal or syncs it.
LEMMA FilesJournal ==
  ASSUME FilesOK, UNCHANGED <<db, base, inDoubt>>, pc # "zsync", pc' # "zsync",
         base = <<>> => NothingToRestore(jr'.may),
         base # <<>> => JournalOK(jr'.may, jr'.lens, base, tx', safe'),
         \A p \in 1 .. Len(base) : Restorable(p, jr.may, base, tx, safe) =>
                                   Restorable(p, jr'.may, base, tx', safe')
  PROVE  FilesOK'
<1>1. JournalMay = jr.may /\ JournalMay' = jr'.may /\ PageCount' = PageCount
  BY DEF JournalMay, PageCount
<1>2. QED
  BY <1>1 DEF FilesOK

SameUpTo(data2, data, n) == \A k \in 1 .. n : data2[k] = data[k]
NotAfter(data, n, X) == \A k \in n + 1 .. Len(data) : data[k].id # X

\* The sections of this transaction stay when something is written behind them.
LEMMA OwnJournalSame ==
  ASSUME NEW data, NEW data2, NEW B, NEW X, NEW hdr \in Nat, NEW end \in Nat,
         Len(data2) \in Nat, OwnJournal(data, B, X, hdr, end),
         end <= Len(data2), SameUpTo(data2, data, end), NotAfter(data2, end, X)
  PROVE  /\ OwnJournal(data2, B, X, hdr, end)
         /\ \A p : RecordIn(p, 0, end, data2, B, X) <=>
                   RecordIn(p, 0, end, data, B, X)
<1>0. 1 <= hdr /\ hdr <= end /\ \A k \in 1 .. end : data2[k] = data[k]
  BY DEF OwnJournal, SameUpTo
<1>1. OwnJournal(data2, B, X, hdr, end)
  <2>1. \A k \in 1 .. end : \/ LiveHeader(data2[k], B, X)
                            \/ LiveRecord(data2[k], B, X)
    BY <1>0 DEF OwnJournal
  <2>2. LiveHeader(data2[hdr], B, X) /\ data2[hdr].body \in {0, end - hdr}
    BY <1>0 DEF OwnJournal
  <2>3. \A k \in hdr + 1 .. end : LiveRecord(data2[k], B, X)
    BY <1>0 DEF OwnJournal
  <2>4. ASSUME NEW k \in 1 .. end, NEW l \in 1 .. end,
               LiveRecord(data2[k], B, X), LiveRecord(data2[l], B, X),
               data2[k].page = data2[l].page
        PROVE  k = l
    BY <2>4, <1>0 DEF OwnJournal
  <2>5. \A k \in end + 1 .. Len(data2) : data2[k].id # X
    BY DEF NotAfter
  <2>6. QED
    BY <1>0, <2>1, <2>2, <2>3, <2>4, <2>5 DEF OwnJournal
<1>2. QED
  BY <1>0, <1>1 DEF RecordIn

\* The last header of a transaction is rewritten.
LEMMA RecordsKept ==
  ASSUME NEW data, NEW data2, NEW B, NEW X, NEW hdr \in Nat, NEW end \in Nat,
         Len(data) \in Nat, Len(data2) = Len(data),
         OwnJournal(data, B, X, hdr, end),
         \A k \in 1 .. Len(data) : k = hdr \/ data2[k] = data[k],
         LiveHeader(data2[hdr], B, X), data2[hdr].body \in {0, end - hdr},
         ~LiveRecord(data2[hdr], B, X)
  PROVE  OwnJournal(data2, B, X, hdr, end)
<1>0. 1 <= hdr /\ hdr <= end /\ end <= Len(data)
  BY DEF OwnJournal
<1>1. \A k \in 1 .. end : \/ LiveHeader(data2[k], B, X)
                          \/ LiveRecord(data2[k], B, X)
  BY <1>0 DEF OwnJournal
<1>2. \A k \in hdr + 1 .. end : LiveRecord(data2[k], B, X)
  BY <1>0 DEF OwnJournal
<1>3. ASSUME NEW k \in 1 .. end, NEW l \in 1 .. end,
             LiveRecord(data2[k], B, X), LiveRecord(data2[l], B, X),
             data2[k].page = data2[l].page
      PROVE  k = l
  BY <1>3, <1>0 DEF OwnJournal
<1>4. \A k \in end + 1 .. Len(data2) : data2[k].id # X
  BY <1>0 DEF OwnJournal
<1>5. QED
  BY <1>0, <1>1, <1>2, <1>3, <1>4 DEF OwnJournal

\* A journal that restores nothing still does when a block that is no record
\* is written to it.
LEMMA NothingGrows ==
  ASSUME NEW may, NEW may2, NEW j, Written(may2, may, j), NothingToRestore(may),
         \A b \in may2[j] :
           \/ j <= Len(may) /\ b \in may[j]
           \/ b.kind # "record" /\ (IsHeader(b) => b.page = 0)
  PROVE  NothingToRestore(may2)
<1> SUFFICES ASSUME NEW i \in 1 .. Len(may2), NEW b \in may2[i]
             PROVE  b.kind # "record" /\ (IsHeader(b) => b.page = 0)
  BY DEF NothingToRestore
<1>1. CASE i = j
  BY <1>1 DEF NothingToRestore, Written
<1>2. CASE i # j
  BY <1>2 DEF NothingToRestore, Written
<1>3. QED
  BY <1>1, <1>2

\* A block that a transaction up to X may write.
Fits(b, X) ==
  b \in Blocks /\ b.id <= X /\ (IsHeader(b) => b.id >= 1 /\ b.body \in Nat)

\* What a write to the journal leaves of its types, given its effect.
LEMMA JournalPutFacts ==
  ASSUME DiskType, NEW i \in 1 .. Len(jr.data) + 1, NEW v, NEW poss,
         FileOK(jr', Blocks), PutFacts(jr', jr, i, v, poss),
         tx' \in Nat, tx <= tx', \A b \in poss : Fits(b, tx')
  PROVE  /\ BlocksOK(jr'.may, tx') /\ Written(jr'.may, jr.may, i)
         /\ jr'.lens \subseteq Nat /\ Len(jr'.data) \in Nat
<1>1. tx \in Nat
  BY DEF DiskType
<1>2. /\ Len(jr'.data) = IF i <= Len(jr.data) THEN Len(jr.data) ELSE i
      /\ jr'.data[i] = v
      /\ \A k \in 1 .. Len(jr.data) : k # i => jr'.data[k] = jr.data[k]
      /\ Len(jr'.may) = IF i <= Len(jr.may) THEN Len(jr.may) ELSE i
      /\ jr'.may[i] = IF i <= Len(jr.may) THEN jr.may[i] \cup poss ELSE poss
      /\ \A k \in 1 .. Len(jr.may) : k # i => jr'.may[k] = jr.may[k]
      /\ jr'.lens = jr.lens \cup {Len(jr'.data)}
  BY DEF PutFacts
<1>3. /\ Len(jr.data) \in Nat /\ Len(jr.may) \in Nat /\ Len(jr.data) <= Len(jr.may)
      /\ jr.lens \in SUBSET Nat
  BY JournalFile
<1>4. Written(jr'.may, jr.may, i)
  BY <1>2, <1>3 DEF Written
<1>5. BlocksOK(jr'.may, tx')
  <2> SUFFICES ASSUME NEW k \in 1 .. Len(jr'.may), NEW b \in jr'.may[k]
      PROVE  b.id <= tx' /\ (IsHeader(b) => b.id >= 1 /\ b.body \in Nat)
    BY DEF BlocksOK
  <2>1. (k \in 1 .. Len(jr.may) /\ b \in jr.may[k]) \/ b \in poss
    BY <1>2, <1>3
  <2>2. ASSUME k \in 1 .. Len(jr.may), b \in jr.may[k]
        PROVE  b.id <= tx' /\ (IsHeader(b) => b.id >= 1 /\ b.body \in Nat)
    <3>1. b.id <= tx /\ (IsHeader(b) => b.id >= 1 /\ b.body \in Nat)
      BY <2>2 DEF DiskType, BlocksOK
    <3>2. b.id \in Nat
      <4>1. jr.may[k] \in SUBSET Blocks
        BY <2>2, JournalFile
      <4>2. QED
        BY <4>1, <2>2 DEF Blocks
    <3>3. QED
      BY <3>1, <3>2, <1>1
  <2>3. QED
    BY <2>1, <2>2 DEF Fits
<1>6. QED
  BY <1>2, <1>3, <1>4, <1>5

\* The same for a write as the pager makes it.
LEMMA JournalPut ==
  ASSUME DiskType, NEW i \in 1 .. Len(jr.data) + 1, NEW v, NEW poss,
         jr' = Put(jr, i, v, poss), v \in poss,
         tx' \in Nat, tx <= tx', \A b \in poss : Fits(b, tx')
  PROVE  /\ FileOK(jr', Blocks) /\ PutFacts(jr', jr, i, v, poss)
         /\ BlocksOK(jr'.may, tx') /\ Written(jr'.may, jr.may, i)
         /\ jr'.lens \subseteq Nat /\ Len(jr'.data) \in Nat
<1>1. poss \in SUBSET Blocks /\ v \in Blocks /\ FileOK(jr, Blocks)
  BY DEF Fits, DiskType
<1>2. FileOK(jr', Blocks) /\ PutFacts(jr', jr, i, v, poss)
  BY <1>1, PutFile
<1>3. QED
  BY <1>2, JournalPutFacts

\* The number of a transaction that has a header is not zero.
LEMMA LiveNumber ==
  ASSUME DiskType, NEW k \in 1 .. Len(jr.data), LiveHeader(jr.data[k], base, tx)
  PROVE  tx >= 1
<1>1. k \in 1 .. Len(jr.may) /\ jr.data[k] \in jr.may[k]
  BY JournalFile DEF OneOf
<1>2. QED
  BY <1>1 DEF DiskType, BlocksOK, LiveHeader

\* syncJournal overwrites an old header behind its section, so that a section
\* can be sealed.
LEMMA InvalidateNextStep ==
  ASSUME PagerInv, InvalidateNext, FullSync
  PROVE  PagerInv'
<1>1. pc = "sync" /\ pc' = "sync1" /\ pc \in Working
  BY DEF InvalidateNext, Working
<1>2. Always /\ TxPhase /\ owner \in Conns
  BY <1>1, FromWorking
<1> USE <1>1, <1>2 DEF Always, TxPhase
<1>3. UNCHANGED <<db, owner, goal, state, caches, pages, flags, sizes, journal,
                  play, bounds, history>>
  BY DEF InvalidateNext
<1>4. PagerType'
  BY <1>3
     DEF PagerType, caches, pages, flags, sizes, journal, play, bounds, Working
<1>5. HistoryOK' /\ CachesOK'
  BY <1>3, HistorySame, CachesSame DEF history, caches, play, TxPlace
<1>6. TxPlace'
  BY <1>3
     DEF TxPlace, pages, flags, sizes, journal, play, history, PageCount
<1>7. TxPages'
  BY <1>3 DEF TxPages, pages, journal, history
<1>8. TxCache'
  BY <1>3 DEF TxCache, caches, pages, sizes, journal, history, PageCount
<1>9. DiskType' /\ FilesOK' /\ TxJournal'
  <2>0. /\ Len(jr.data) \in Nat /\ Len(jr.may) \in Nat
        /\ Len(jr.data) <= Len(jr.may) /\ journalOff \in Nat /\ journalHdr \in Nat
        /\ safe \in Nat /\ tx \in Nat
    BY JournalFile DEF PagerType, DiskType
  <2>1. CASE jr' = jr /\ AtEnd(journalOff, jr.data)
    <3>1. DiskType' /\ FilesOK'
      BY <1>3, <2>1, DiskSame, FilesSame DEF bounds, history
    <3>2. TxJournal'
      BY <1>3, <2>1
         DEF TxJournal, TxSections, LiveData, bounds, journal, history, pages
    <3>3. QED
      BY <3>1, <3>2
  <2>2. CASE journalOff < Len(jr.data) /\ jr' = Put(jr, journalOff + 1, Zeroes, {Zeroes})
    <3>0. journalOff < Len(jr.data)
      BY <2>2
    <3>1. /\ FileOK(jr', Blocks) /\ BlocksOK(jr'.may, tx')
          /\ Len(jr'.data) = Len(jr.data)
          /\ jr'.data[journalOff + 1] = Zeroes
          /\ \A k \in 1 .. Len(jr.data) : k # journalOff + 1 => jr'.data[k] = jr.data[k]
          /\ Written(jr'.may, jr.may, journalOff + 1)
          /\ jr'.may[journalOff + 1] = jr.may[journalOff + 1] \cup {Zeroes}
          /\ jr'.lens = jr.lens \cup {Len(jr'.data)}
          /\ jr'.lens \subseteq Nat
      <4>1. journalOff + 1 \in 1 .. Len(jr.data) + 1 /\ tx' = tx
        BY <1>3, <2>0, <2>2 DEF bounds
      <4>2. Zeroes \in Blocks /\ ~IsHeader(Zeroes) /\ Zeroes.id = 0
        BY BlockTypes
      <4>3. Fits(Zeroes, tx')
        BY <4>1, <4>2, <2>0 DEF Fits
      <4> DEFINE poss == {Zeroes}
      <4>4. Zeroes \in poss /\ \A b \in poss : Fits(b, tx')
        BY <4>3
      <4> HIDE DEF poss
      <4>5. jr' = Put(jr, journalOff + 1, Zeroes, poss)
        BY <2>2 DEF poss
      <4>6. tx' \in Nat /\ tx <= tx'
        BY <4>1, <2>0
      <4>7. /\ FileOK(jr', Blocks) /\ PutFacts(jr', jr, journalOff + 1, Zeroes, poss)
            /\ BlocksOK(jr'.may, tx') /\ Written(jr'.may, jr.may, journalOff + 1)
            /\ jr'.lens \subseteq Nat
        BY <4>1, <4>4, <4>5, <4>6, JournalPut
      <4>8. journalOff + 1 <= Len(jr.data) /\ journalOff + 1 <= Len(jr.may)
        BY <2>0, <3>0
      <4>9. QED
        BY <4>7, <4>8 DEF poss, PutFacts
    <3>2. DiskType'
      BY <1>3, <3>1 DEF DiskType, bounds, history
    <3>3. ASSUME base = <<>> PROVE NothingToRestore(jr'.may)
      <4>1. NothingToRestore(jr.may)
        BY <3>3 DEF FilesOK
      <4>2. QED
        <5>1. \A b \in jr'.may[journalOff + 1] :
                \/ journalOff + 1 <= Len(jr.may) /\ b \in jr.may[journalOff + 1]
                \/ b.kind # "record" /\ (IsHeader(b) => b.page = 0)
          BY <3>1, <2>0, <3>0, BlockTypes
        <5>2. QED
          BY <4>1, <3>1, <5>1, NothingGrows
    <3>4. ASSUME base # <<>>
          PROVE  /\ JournalOK(jr'.may, jr'.lens, base, tx, safe)
                 /\ \A p : Restorable(p, jr.may, base, tx, safe) =>
                          Restorable(p, jr'.may, base, tx, safe)
                 /\ TxSections'
      <4>1. TxSections /\ journalOff <= Len(jr.data)
        BY <3>4 DEF TxJournal
      <4>2. /\ safe + 1 = journalHdr /\ journalHdr <= journalOff
            /\ \A b \in jr.may[safe + 1] : IsHeader(b) => b.body = 0
        BY <4>1, <2>0 DEF TxSections, OwnJournal
      <4>3. JournalOK(jr.may, jr.lens, base, tx, safe)
        BY <3>4, MayOutside DEF FilesOK
      <4>4. Possible(jr.may, jr.lens)
        BY JournalFile
      <4>5. JournalOK(jr'.may, jr'.lens, base, tx, safe)
        <5>1. \A b \in jr'.may[journalOff + 1] : IsHeader(b) =>
                journalOff + 1 <= Len(jr.may) /\ b \in jr.may[journalOff + 1]
          BY <3>1, <2>0, <3>0, BlockTypes
        <5>2. \A n \in jr'.lens : n \in jr.lens \/ journalOff + 1 <= n
          BY <3>1, <2>0, <3>0
        <5>3. safe + 1 <= Len(jr.may) /\ journalOff + 1 >= safe + 2
          BY <4>2, <2>0, <3>0
        <5>4. QED
          BY <2>0, <3>1, <4>2, <4>3, <4>4, <5>1, <5>2, <5>3, JournalGrows
      <4>6. \A p : Restorable(p, jr.may, base, tx, safe) =>
                  Restorable(p, jr'.may, base, tx, safe)
        <5>1. safe <= Len(jr.may) /\ journalOff + 1 >= safe + 1
          BY <4>2, <2>0, <3>0
        <5>2. QED
          BY <2>0, <3>1, <4>2, <4>3, <4>4, <5>1, RestorableStays
      <4>7. /\ OwnJournal(jr'.data, base, tx, journalHdr, journalOff)
            /\ \A p : RecordIn(p, 0, journalOff, jr'.data, base, tx) <=>
                      RecordIn(p, 0, journalOff, jr.data, base, tx)
        <5>1. OwnJournal(jr.data, base, tx, journalHdr, journalOff)
          BY <4>1 DEF TxSections
        <5>2. \A k \in 1 .. journalOff : jr'.data[k] = jr.data[k]
          BY <2>0, <3>0, <3>1
        <5>3. tx >= 1
          BY <5>1, LiveNumber, <2>0 DEF OwnJournal
        <5>4. ASSUME NEW k \in journalOff + 1 .. Len(jr'.data)
              PROVE  jr'.data[k].id # tx
          <6>1. CASE k = journalOff + 1
            BY <6>1, <3>1, <5>3, <2>0, BlockTypes
          <6>2. CASE k # journalOff + 1
            BY <6>2, <5>1, <3>1, <2>0 DEF OwnJournal
          <6>3. QED
            BY <6>1, <6>2
        <5>5. QED
          <6>1. SameUpTo(jr'.data, jr.data, journalOff)
            BY <5>2 DEF SameUpTo
          <6>2. NotAfter(jr'.data, journalOff, tx)
            BY <5>4 DEF NotAfter
          <6>3. Len(jr'.data) \in Nat /\ journalOff <= Len(jr'.data)
            BY <2>0, <3>0, <3>1
          <6>4. QED
            BY <2>0, <5>1, <6>1, <6>2, <6>3, OwnJournalSame
      <4>8. AtEnd(journalOff, jr'.data)
        BY <3>1, <3>0, <2>0, BlockTypes DEF AtEnd
      <4>9. jr'.may[journalHdr] = jr.may[journalHdr]
        BY <3>1, <4>2, <2>0, <3>0 DEF Written
      <4>10. \A k \in safe + 1 .. journalOff : jr'.data[k] = jr.data[k]
        BY <3>1, <2>0, <3>0
      <4>11. UNCHANGED <<base, tx, journalHdr, journalOff, nRec, pInJournal,
                        safe, need>>
        BY <1>3 DEF bounds, journal, history, pages
      <4>12. TxSections'
        BY <4>1, <4>2, <4>7, <4>8, <4>9, <4>10, <4>11 DEF TxSections
      <4>13. QED
        BY <4>5, <4>6, <4>12
    <3>5. FilesOK'
      <4>1. UNCHANGED <<db, base, inDoubt, tx, safe>>
        BY <1>3 DEF history, bounds
      <4>2. base = <<>> => 1 .. Len(base) = {}
        BY EmptySeq
      <4>3. QED
        BY <4>1, <4>2, <3>3, <3>4, FilesJournal
    <3>6. TxJournal'
      <4>1. jr'.data[1] = jr.data[1]
        BY <3>1, <2>0, <3>0 DEF TxJournal
      <4>2. QED
        BY <3>1, <3>4, <4>1, <1>3 DEF TxJournal, LiveData, journal, history
    <3>7. QED
      BY <3>2, <3>5, <3>6
  <2>3. QED
    <3>1. base # <<>> \/ base = <<>>
      OBVIOUS
    <3>2. journalOff <= Len(jr.data)
      BY DEF TxJournal
    <3>3. QED
      BY <2>0, <2>1, <2>2, <3>2 DEF InvalidateNext, Patch, Invalidated, AtEnd, IsHeader
<1>10. QED
  <2>1. owner' # None /\ state' # "shared" /\ Always' /\ TxPhase'
    BY <1>3, <1>4, <1>5, <1>6, <1>7, <1>8, <1>9, SqlitePagerAssumption
       DEF TxPlace, Writing
  <2>2. QED
    BY <2>1, ToTransaction DEF Working

\* A journal that restores nothing still does when less of it is possible.
LEMMA NothingNarrows ==
  ASSUME NEW may, NEW lens, NEW may2, Possible(may, lens),
         Within(may2, may, lens), NothingToRestore(may)
  PROVE  NothingToRestore(may2)
BY DEF NothingToRestore, Within, Possible

\* A sync of the journal makes certain what was written.
LEMMA JournalSync ==
  ASSUME DiskType, jr' = OnDisk(jr.data)
  PROVE  /\ FileOK(jr', Blocks) /\ jr'.data = jr.data
         /\ Synced(jr'.may, jr'.lens, jr.data)
         /\ Within(jr'.may, jr.may, jr.lens) /\ jr'.lens \in SUBSET jr.lens
         /\ BlocksOK(jr'.may, tx)
<1>1. jr.data \in Seq(Blocks) /\ Len(jr.data) \in Nat
  BY JournalFile
<1>2. /\ FileOK(jr', Blocks) /\ jr'.data = jr.data
      /\ Len(jr'.may) = Len(jr.data)
      /\ \A i \in 1 .. Len(jr.data) : jr'.may[i] = {jr.data[i]}
      /\ jr'.lens = {Len(jr.data)}
  BY <1>1, OnDiskFile
<1>3. Synced(jr'.may, jr'.lens, jr.data)
  BY <1>1, <1>2 DEF Synced
<1>4. /\ Len(jr.data) \in jr.lens /\ Len(jr.data) <= Len(jr.may)
      /\ Len(jr.may) \in Nat /\ \A i \in 1 .. Len(jr.data) : jr.data[i] \in jr.may[i]
  BY JournalFile DEF OneOf
<1>5. Within(jr'.may, jr.may, jr.lens) /\ jr'.lens \in SUBSET jr.lens
  BY <1>1, <1>2, <1>4 DEF Within
<1>6. BlocksOK(jr'.may, tx)
  <2>1. BlocksOK(jr.may, tx)
    BY DEF DiskType
  <2>2. QED
    BY <2>1, <1>1, <1>2, <1>4 DEF BlocksOK
<1>7. QED
  BY <1>2, <1>3, <1>5, <1>6

\* The records are synced before the header counts them.
LEMMA SyncRecordsStep ==
  ASSUME PagerInv, SyncRecords
  PROVE  PagerInv'
<1>1. pc = "sync1" /\ pc' = "nrec" /\ pc \in Working
  BY DEF SyncRecords, Working
<1>2. Always /\ TxPhase /\ owner \in Conns
  BY <1>1, FromWorking
<1> USE <1>1, <1>2 DEF Always, TxPhase
<1>3. UNCHANGED <<db, owner, goal, state, caches, pages, flags, sizes, journal,
                  play, bounds, history>>
  BY DEF SyncRecords
<1>4. PagerType'
  BY <1>3
     DEF PagerType, caches, pages, flags, sizes, journal, play, bounds, Working
<1>5. HistoryOK' /\ CachesOK'
  BY <1>3, HistorySame, CachesSame DEF history, caches, play, TxPlace
<1>6. TxPlace'
  BY <1>3
     DEF TxPlace, pages, flags, sizes, journal, play, history, PageCount
<1>7. TxPages'
  BY <1>3 DEF TxPages, pages, journal, history
<1>8. TxCache'
  BY <1>3 DEF TxCache, caches, pages, sizes, journal, history, PageCount
<1>9. /\ Len(jr.data) \in Nat /\ Len(jr.may) \in Nat
      /\ Len(jr.data) <= Len(jr.may) /\ journalOff \in Nat /\ journalHdr \in Nat
      /\ safe \in Nat /\ tx \in Nat /\ nRec \in Nat
      /\ Possible(jr.may, jr.lens) /\ OneOf(jr.data, jr.may, jr.lens)
  BY JournalFile DEF PagerType, DiskType
<1>10. /\ 1 <= journalHdr /\ journalHdr <= journalOff
       /\ journalOff <= Len(jr.data) /\ LiveData
  BY DEF TxJournal
<1>11. base # <<>> => TxSections /\ JournalOK(jr.may, jr.lens, base, tx, safe)
  BY MayOutside DEF TxJournal, FilesOK
<1>12. base = <<>> => NothingToRestore(jr.may) /\ 1 .. Len(base) = {}
  BY EmptySeq DEF FilesOK
<1>13. /\ FileOK(jr', Blocks) /\ jr'.data = jr.data
       /\ Synced(jr'.may, jr'.lens, jr.data)
       /\ Within(jr'.may, jr.may, jr.lens) /\ jr'.lens \in SUBSET jr.lens
       /\ BlocksOK(jr'.may, tx)
  BY JournalSync DEF SyncRecords, Sync
<1>20. DiskType'
  BY <1>3, <1>13 DEF DiskType, bounds, history
<1>21. FilesOK'
  <2>1. UNCHANGED <<db, base, inDoubt, tx, safe>>
    BY <1>3 DEF history, bounds
  <2>2. base = <<>> => NothingToRestore(jr'.may)
    BY <1>9, <1>12, <1>13, NothingNarrows
  <2>3. base # <<>> => JournalOK(jr'.may, jr'.lens, base, tx, safe)
    BY <1>9, <1>11, <1>13, JournalNarrows
  <2>4. base # <<>> => \A p : Restorable(p, jr.may, base, tx, safe) =>
                             Restorable(p, jr'.may, base, tx, safe)
    <3>1. safe <= safe
      BY <1>9
    <3>2. QED
      BY <1>9, <1>11, <1>13, <3>1, RestorableNarrows
  <2>5. QED
    BY <2>1, <2>2, <2>3, <2>4, <1>12, FilesJournal
<1>22. TxJournal'
  <2>1. ASSUME base # <<>> PROVE TxSections'
    <3>1. UNCHANGED <<base, tx, journalHdr, journalOff, nRec, pInJournal, safe,
                      need>>
      BY <1>3 DEF bounds, journal, history, pages
    <3>2. jr' = OnDisk(jr'.data)
      BY <1>13 DEF SyncRecords, Sync
    <3>3. jr'.may[journalHdr] \subseteq jr.may[journalHdr]
      BY <1>9, <1>10, <1>13 DEF Within, Synced
    <3>4. QED
      BY <2>1, <1>11, <1>13, <3>1, <3>2, <3>3 DEF TxSections
  <2>2. QED
    BY <2>1, <1>3, <1>10, <1>13 DEF TxJournal, LiveData, journal, history
<1>30. QED
  <2>1. owner' # None /\ state' # "shared" /\ Always' /\ TxPhase'
    BY <1>3, <1>4, <1>5, <1>6, <1>7, <1>8, <1>20, <1>21, <1>22,
       SqlitePagerAssumption DEF TxPlace, Writing
  <2>2. QED
    BY <2>1, ToTransaction DEF Working

\* The count is written: the disk may have it or the old one, and with either
\* the section is sound, because its records are synced.
LEMMA WriteNRecStep ==
  ASSUME PagerInv, WriteNRec
  PROVE  PagerInv'
<1>1. pc = "nrec" /\ pc' = "sync2" /\ pc \in Working
  BY DEF WriteNRec, Working
<1>2. Always /\ TxPhase /\ owner \in Conns
  BY <1>1, FromWorking
<1> USE <1>1, <1>2 DEF Always, TxPhase
<1>3. UNCHANGED <<db, owner, goal, state, caches, pages, flags, sizes, journal,
                  play, bounds, history>>
  BY DEF WriteNRec
<1>4. PagerType'
  BY <1>3
     DEF PagerType, caches, pages, flags, sizes, journal, play, bounds, Working
<1>5. HistoryOK' /\ CachesOK'
  BY <1>3, HistorySame, CachesSame DEF history, caches, play, TxPlace
<1>6. TxPlace'
  BY <1>3
     DEF TxPlace, pages, flags, sizes, journal, play, history, PageCount
<1>7. TxPages'
  BY <1>3 DEF TxPages, pages, journal, history
<1>8. TxCache'
  BY <1>3 DEF TxCache, caches, pages, sizes, journal, history, PageCount
<1>9. /\ Len(jr.data) \in Nat /\ Len(jr.may) \in Nat
      /\ Len(jr.data) <= Len(jr.may) /\ journalOff \in Nat /\ journalHdr \in Nat
      /\ safe \in Nat /\ tx \in Nat /\ nRec \in Nat
      /\ Possible(jr.may, jr.lens) /\ OneOf(jr.data, jr.may, jr.lens)
  BY JournalFile DEF PagerType, DiskType
<1>10. /\ 1 <= journalHdr /\ journalHdr <= journalOff
       /\ journalOff <= Len(jr.data) /\ LiveData
  BY DEF TxJournal
<1>11. base # <<>> => TxSections /\ JournalOK(jr.may, jr.lens, base, tx, safe)
  BY MayOutside DEF TxJournal, FilesOK
<1>12. base = <<>> => NothingToRestore(jr.may) /\ 1 .. Len(base) = {}
  BY EmptySeq DEF FilesOK
<1>13. dbOrigSize = Len(base) /\ Len(base) \in Nat
  BY DatabaseFile DEF TxPlace
<1> DEFINE H == Header(nRec, dbOrigSize, tx)
           poss == {H}
<1>14. /\ H \in Blocks /\ IsHeader(H) /\ H.body = nRec /\ H.page = Len(base)
       /\ H.id = tx /\ H.kind = "header"
  <2>1. nRec \in Nat /\ Len(base) \in Nat /\ tx \in Nat
    BY <1>9, <1>13
  <2>2. H = Header(nRec, Len(base), tx)
    BY <1>13
  <2>3. QED
    BY <2>1, <2>2, BlockTypes
<1>15. tx >= 1
  <2>1. 1 \in 1 .. Len(jr.may) /\ jr.data[1] \in jr.may[1] /\ IsHeader(jr.data[1])
    BY <1>9, <1>10 DEF LiveData, OneOf
  <2>2. jr.data[1].id \in Nat /\ jr.data[1].id >= 1 /\ jr.data[1].id <= tx
    <3>1. jr.data[1] \in Blocks
      BY <1>9, <1>10, JournalFile
    <3>2. QED
      BY <2>1, <3>1 DEF DiskType, BlocksOK, Blocks
  <2>3. QED
    BY <2>2, <1>9
<1>16. Fits(H, tx') /\ tx' = tx
  BY <1>3, <1>9, <1>14, <1>15 DEF Fits, bounds
<1>17. H \in poss /\ \A b \in poss : Fits(b, tx')
  BY <1>16
<1>18. jr' = Put(jr, journalHdr, H, poss)
  BY DEF WriteNRec, Patch
<1> HIDE DEF poss, H
<1>19. /\ FileOK(jr', Blocks) /\ PutFacts(jr', jr, journalHdr, H, poss)
       /\ BlocksOK(jr'.may, tx') /\ Written(jr'.may, jr.may, journalHdr)
  <2>1. journalHdr \in 1 .. Len(jr.data) + 1 /\ tx' \in Nat /\ tx <= tx'
    BY <1>9, <1>10, <1>16
  <2>2. QED
    BY <2>1, <1>17, <1>18, JournalPut
<1>23. /\ Len(jr'.data) = Len(jr.data) /\ jr'.data[journalHdr] = H
       /\ \A k \in 1 .. Len(jr.data) : k # journalHdr => jr'.data[k] = jr.data[k]
       /\ jr'.may[journalHdr] = jr.may[journalHdr] \cup {H}
       /\ jr'.lens = jr.lens
  BY <1>9, <1>10, <1>19 DEF PutFacts, poss, OneOf
<1>20. DiskType'
  BY <1>3, <1>19 DEF DiskType, bounds, history
<1>24. ASSUME base # <<>>
       PROVE  /\ safe + 1 = journalHdr /\ journalOff = journalHdr + nRec
              /\ Synced(jr.may, jr.lens, jr.data)
              /\ OwnJournal(jr.data, base, tx, journalHdr, journalOff)
              /\ AtEnd(journalOff, jr.data) /\ LiveHeader(H, base, tx)
              /\ jr.data[journalHdr].body = 0
              /\ jr.may[journalHdr] = {jr.data[journalHdr]}
  <2>1. TxSections
    BY <1>11, <1>24
  <2>2. safe + 1 = journalHdr
    BY <2>1, <1>9 DEF TxSections
  <2>3. jr = OnDisk(jr.data)
    BY <2>1 DEF TxSections
  <2>4. Synced(jr.may, jr.lens, jr.data)
    <3>1. /\ Len(OnDisk(jr.data).may) = Len(jr.data)
          /\ \A i \in 1 .. Len(jr.data) : OnDisk(jr.data).may[i] = {jr.data[i]}
          /\ OnDisk(jr.data).lens = {Len(jr.data)}
      BY JournalFile, OnDiskFile
    <3>2. QED
      BY <2>3, <3>1, <1>9 DEF Synced
  <2>5. jr.may[journalHdr] = {jr.data[journalHdr]}
    BY <2>4, <1>9, <1>10 DEF Synced
  <2>6. LiveHeader(jr.data[journalHdr], base, tx)
    BY <2>1 DEF TxSections, OwnJournal
  <2>7. jr.data[journalHdr].body = 0
    BY <2>1, <2>2, <2>5, <2>6, <1>9 DEF TxSections, LiveHeader
  <2>8. QED
    BY <2>1, <2>2, <2>4, <2>5, <2>7, <1>9, <1>14 DEF TxSections, LiveHeader
<1>21. FilesOK'
  <2>1. UNCHANGED <<db, base, inDoubt, tx, safe>>
    BY <1>3 DEF history, bounds
  <2>2. ASSUME base = <<>> PROVE NothingToRestore(jr'.may)
    <3>1. \A b \in jr'.may[journalHdr] :
            \/ journalHdr <= Len(jr.may) /\ b \in jr.may[journalHdr]
            \/ b.kind # "record" /\ (IsHeader(b) => b.page = 0)
      BY <2>2, <1>9, <1>10, <1>14, <1>23, EmptySeq
    <3>2. QED
      BY <2>2, <3>1, <1>12, <1>19, NothingGrows
  <2>3. ASSUME base # <<>> PROVE JournalOK(jr'.may, jr'.lens, base, tx, safe)
    <3>0. safe + 1 = journalHdr
      BY <2>3, <1>24
    <3>1. /\ jr'.may[safe + 1] = {jr.data[safe + 1], H}
          /\ jr.data[safe + 1].body = 0
      BY <2>3, <3>0, <1>23, <1>24
    <3>4. LiveHeader(H, base, tx) /\ H.body = journalOff - (safe + 1)
      BY <2>3, <3>0, <1>9, <1>14, <1>24
    <3>2. /\ Written(jr'.may, jr.may, safe + 1)
          /\ OwnJournal(jr.data, base, tx, safe + 1, journalOff)
          /\ AtEnd(journalOff, jr.data) /\ Synced(jr.may, jr.lens, jr.data)
          /\ JournalOK(jr.may, jr.lens, base, tx, safe) /\ jr'.lens = jr.lens
      BY <2>3, <1>11, <1>19, <1>23, <1>24
    <3>3. QED
      BY <3>1, <3>2, <3>4, <1>9, SectionCounted
  <2>4. ASSUME base # <<>>, NEW p, Restorable(p, jr.may, base, tx, safe)
        PROVE  Restorable(p, jr'.may, base, tx, safe)
    <3>1. journalHdr >= safe + 1 /\ safe <= Len(jr.may)
      BY <2>4, <1>9, <1>10, <1>24
    <3>2. safe + 1 <= Len(jr.may) =>
            \A b \in jr.may[safe + 1] : IsHeader(b) => b.body = 0
      BY <2>4, <1>24
    <3>3. QED
      BY <2>4, <3>1, <3>2, <1>9, <1>11, <1>19, RestorableStays
  <2>5. QED
    BY <2>1, <2>2, <2>3, <2>4, <1>12, FilesJournal
<1>22. TxJournal'
  <2>0. UNCHANGED <<base, tx, journalHdr, journalOff, nRec, pInJournal, safe,
                    need>>
    BY <1>3 DEF bounds, journal, history, pages
  <2>1. ASSUME base # <<>> PROVE TxSections'
    <3>1. OwnJournal(jr'.data, base, tx, journalHdr, journalOff)
      <4>1. LiveHeader(jr'.data[journalHdr], base, tx)
            /\ jr'.data[journalHdr].body = journalOff - journalHdr
        BY <2>1, <1>9, <1>14, <1>23, <1>24
      <4>2. \A k \in 1 .. Len(jr.data) :
               k = journalHdr \/ jr'.data[k] = jr.data[k]
        BY <1>23
      <4>3. ~LiveRecord(jr'.data[journalHdr], base, tx)
        BY <4>1 DEF LiveHeader, LiveRecord, IsHeader
      <4>4. QED
        BY <2>1, <4>1, <4>2, <4>3, <1>9, <1>10, <1>23, <1>24, RecordsKept
    <3>2. \A p : RecordIn(p, 0, journalOff, jr'.data, base, tx) <=>
                RecordIn(p, 0, journalOff, jr.data, base, tx)
      <4>1. \A k \in 1 .. journalOff :
              \/ jr'.data[k] = jr.data[k]
              \/ /\ ~LiveRecord(jr'.data[k], base, tx)
                 /\ ~LiveRecord(jr.data[k], base, tx)
        <5>1. LiveHeader(jr.data[journalHdr], base, tx)
          BY <2>1, <1>24 DEF OwnJournal
        <5>2. QED
          BY <5>1, <2>1, <1>9, <1>10, <1>23, <1>24
             DEF LiveHeader, LiveRecord, IsHeader
      <4>2. QED
        BY <4>1, <1>9 DEF RecordIn
    <3>3. AtEnd(journalOff, jr'.data)
      <4>1. AtEnd(journalOff, jr.data)
        BY <2>1, <1>24
      <4>2. journalOff < Len(jr.data) =>
              jr'.data[journalOff + 1] = jr.data[journalOff + 1]
        <5>1. journalOff < Len(jr.data) =>
                journalOff + 1 \in 1 .. Len(jr.data) /\ journalOff + 1 # journalHdr
          BY <1>9, <1>10
        <5>2. QED
          BY <5>1, <1>23
      <4>3. QED
        BY <4>1, <4>2, <1>23 DEF AtEnd
    <3>4. jr'.data[journalHdr].body = nRec
      BY <1>14, <1>23
    <3>5. \A k \in safe + 1 .. journalOff :
             LiveRecord(jr'.data[k], base, tx) => jr'.data[k].page \in need
      <4>1. \A k \in safe + 1 .. journalOff : k # journalHdr =>
              jr'.data[k] = jr.data[k]
        BY <1>9, <1>10, <1>23
      <4>2. ~LiveRecord(jr'.data[journalHdr], base, tx)
        BY <1>14, <1>23 DEF LiveRecord
      <4>3. QED
        BY <2>1, <4>1, <4>2, <1>11 DEF TxSections
    <3>6. QED
      BY <2>0, <2>1, <1>9, <1>11, <1>24, <3>1, <3>2, <3>3, <3>4, <3>5
         DEF TxSections
  <2>2. LiveData'
    BY <1>9, <1>10, <1>14, <1>23 DEF LiveData
  <2>3. QED
    BY <2>0, <2>1, <2>2, <1>10, <1>23, <1>9 DEF TxJournal
<1>30. QED
  <2>1. owner' # None /\ state' # "shared" /\ Always' /\ TxPhase'
    BY <1>3, <1>4, <1>5, <1>6, <1>7, <1>8, <1>20, <1>21, <1>22,
       SqlitePagerAssumption DEF TxPlace, Writing
  <2>2. QED
    BY <2>1, ToTransaction DEF Working

\* The count is synced: the section joins the safe part of the journal and
\* need is emptied.
LEMMA SyncNRecStep ==
  ASSUME PagerInv, SyncNRec, FullSync
  PROVE  PagerInv'
<1>1. /\ pc = "sync2" /\ pc \in Working
      /\ pc' = IF goal = 0 THEN "write" ELSE "newheader"
  BY DEF SyncNRec, Working
<1>2. Always /\ TxPhase /\ owner \in Conns
  BY <1>1, FromWorking
<1> USE <1>1, <1>2 DEF Always, TxPhase
<1>3. /\ UNCHANGED <<db, owner, goal, state, caches, dirty, dbModified, sizes,
                     journal, play, bounds, committed, previous, inDoubt, base>>
      /\ safe' = journalOff /\ need' = {}
      /\ needSync' = FALSE /\ journalStarted' = TRUE
  BY DEF SyncNRec
<1>4. PagerType'
  BY <1>3
     DEF PagerType, caches, sizes, journal, play, bounds, Working
<1>5. HistoryOK' /\ CachesOK'
  BY <1>3, HistorySame, CachesSame DEF caches, play, TxPlace
<1>6. TxPlace'
  BY <1>3
     DEF TxPlace, sizes, journal, play, PageCount
<1>7. TxPages'
  BY <1>3 DEF TxPages, journal
<1>8. TxCache'
  BY <1>3 DEF TxCache, caches, sizes, journal, PageCount
<1>9. /\ Len(jr.data) \in Nat /\ Len(jr.may) \in Nat
      /\ Len(jr.data) <= Len(jr.may) /\ journalOff \in Nat /\ journalHdr \in Nat
      /\ safe \in Nat /\ tx \in Nat /\ nRec \in Nat
      /\ Possible(jr.may, jr.lens) /\ OneOf(jr.data, jr.may, jr.lens)
  BY JournalFile DEF PagerType, DiskType
<1>10. /\ 1 <= journalHdr /\ journalHdr <= journalOff
       /\ journalOff <= Len(jr.data) /\ LiveData
  BY DEF TxJournal
<1>11. base # <<>> => TxSections /\ JournalOK(jr.may, jr.lens, base, tx, safe)
  BY MayOutside DEF TxJournal, FilesOK
<1>12. base = <<>> => NothingToRestore(jr.may) /\ 1 .. Len(base) = {}
  BY EmptySeq DEF FilesOK
<1>13. /\ FileOK(jr', Blocks) /\ jr'.data = jr.data
       /\ Synced(jr'.may, jr'.lens, jr.data)
       /\ Within(jr'.may, jr.may, jr.lens) /\ jr'.lens \in SUBSET jr.lens
       /\ BlocksOK(jr'.may, tx)
  BY JournalSync DEF SyncNRec, SyncFirst, Sync
<1>20. DiskType'
  BY <1>3, <1>9, <1>13 DEF DiskType, bounds, history
<1>24. ASSUME base # <<>>
       PROVE  /\ safe + 1 = journalHdr /\ journalOff = journalHdr + nRec
              /\ OwnJournal(jr.data, base, tx, journalHdr, journalOff)
              /\ AtEnd(journalOff, jr.data)
              /\ jr.data[journalHdr].body = nRec
  BY <1>24, <1>9, <1>11 DEF TxSections
<1>21. FilesOK'
  <2>1. UNCHANGED <<db, base, inDoubt, tx>>
    BY <1>3 DEF bounds
  <2>2. base = <<>> => NothingToRestore(jr'.may)
    BY <1>9, <1>12, <1>13, NothingNarrows
  <2>3. ASSUME base # <<>>
        PROVE  JournalOK(jr'.may, jr'.lens, base, tx, journalOff)
    <3>1. /\ OwnJournal(jr.data, base, tx, safe + 1, journalOff)
          /\ jr.data[safe + 1].body = journalOff - (safe + 1)
      <4>1. /\ safe + 1 = journalHdr /\ journalOff - journalHdr = nRec
            /\ OwnJournal(jr.data, base, tx, journalHdr, journalOff)
            /\ jr.data[journalHdr].body = nRec
        BY <2>3, <1>9, <1>24
      <4>2. QED
        BY <4>1
    <3>2. JournalOK(jr.may, jr.lens, base, tx, safe) /\ AtEnd(journalOff, jr.data)
      BY <2>3, <1>11, <1>24
    <3>3. QED
      BY <3>1, <3>2, <1>9, <1>13, SectionSynced
  <2>4. ASSUME base # <<>>, NEW p, Restorable(p, jr.may, base, tx, safe)
        PROVE  Restorable(p, jr'.may, base, tx, journalOff)
    <3>1. safe <= journalOff /\ JournalOK(jr.may, jr.lens, base, tx, safe)
      BY <2>4, <1>9, <1>10, <1>11, <1>24
    <3>2. Len(jr'.may) \in Nat
      BY <1>13 DEF Synced
    <3>3. QED
      BY <2>4, <3>1, <3>2, <1>9, <1>13, RestorableNarrows
  <2>5. QED
    BY <2>1, <2>2, <2>3, <2>4, <1>3, <1>12, FilesJournal
<1>22. TxJournal'
  <2>1. ASSUME base # <<>> PROVE TxSections'
    <3>1. UNCHANGED <<base, tx, journalHdr, journalOff, nRec, pInJournal>>
      BY <1>3 DEF bounds, journal
    <3>2. jr' = OnDisk(jr'.data)
      BY <1>13 DEF SyncNRec, SyncFirst, Sync
    <3>3. safe' = journalOff /\ safe' # journalHdr - 1
      BY <1>3, <1>9, <1>10
    <3>4. safe' + 1 .. journalOff = {}
      BY <3>3, <1>9
    <3>5. QED
      BY <2>1, <1>11, <1>13, <3>1, <3>2, <3>3, <3>4 DEF TxSections
  <2>2. QED
    BY <2>1, <1>3, <1>10, <1>13 DEF TxJournal, LiveData, journal
<1>30. QED
  <2>1. owner' # None /\ state' # "shared" /\ Always' /\ TxPhase'
    BY <1>3, <1>4, <1>5, <1>6, <1>7, <1>8, <1>20, <1>21, <1>22,
       SqlitePagerAssumption DEF TxPlace, Writing
  <2>2. QED
    BY <2>1, <1>1, ToTransaction DEF Working

\* With synchronous=FULL a spill is followed by a new section; an old header
\* behind it is no longer of this transaction.
LEMMA NewHeaderStep ==
  ASSUME PagerInv, NewHeader
  PROVE  PagerInv'
<1>1. pc = "newheader" /\ pc \in Working /\ pc' = "spill"
  BY DEF NewHeader, Working
<1>2. Always /\ TxPhase /\ owner \in Conns
  BY <1>1, FromWorking
<1> USE <1>1, <1>2 DEF Always, TxPhase
<1>3. /\ UNCHANGED <<db, owner, goal, state, caches, pages, flags, sizes,
                     pInJournal, play, bounds, history>>
      /\ journalOff' = journalOff + 1 /\ journalHdr' = journalOff + 1
      /\ nRec' = 0
  BY DEF NewHeader
<1>4. PagerType'
  BY <1>3
     DEF PagerType, caches, pages, flags, sizes, play, bounds, Working
<1>5. HistoryOK' /\ CachesOK'
  BY <1>3, HistorySame, CachesSame DEF history, caches, play, TxPlace
<1>6. TxPlace'
  BY <1>3
     DEF TxPlace, pages, flags, sizes, play, history, PageCount
<1>7. TxPages'
  BY <1>3 DEF TxPages, pages, history
<1>8. TxCache'
  BY <1>3 DEF TxCache, caches, pages, sizes, history, PageCount
<1>9. /\ Len(jr.data) \in Nat /\ Len(jr.may) \in Nat
      /\ Len(jr.data) <= Len(jr.may) /\ journalOff \in Nat /\ journalHdr \in Nat
      /\ safe \in Nat /\ tx \in Nat /\ nRec \in Nat
      /\ Possible(jr.may, jr.lens) /\ OneOf(jr.data, jr.may, jr.lens)
  BY JournalFile DEF PagerType, DiskType
<1>10. /\ 1 <= journalHdr /\ journalHdr <= journalOff
       /\ journalOff <= Len(jr.data) /\ LiveData
  BY DEF TxJournal
<1>11. base # <<>> => TxSections /\ JournalOK(jr.may, jr.lens, base, tx, safe)
  BY MayOutside DEF TxJournal, FilesOK
<1>12. base = <<>> => NothingToRestore(jr.may) /\ 1 .. Len(base) = {}
  BY EmptySeq DEF FilesOK
<1>13. dbOrigSize = Len(base) /\ Len(base) \in Nat
  BY DatabaseFile DEF TxPlace
<1> DEFINE H == Header(0, dbOrigSize, tx)
           poss == {H, TornBlock}
<1>14. /\ H \in Blocks /\ IsHeader(H) /\ H.body = 0 /\ H.page = Len(base)
       /\ H.id = tx /\ H.kind = "header"
  BY <1>9, <1>13, BlockTypes
<1>15. tx >= 1
  <2>1. 1 \in 1 .. Len(jr.may) /\ jr.data[1] \in jr.may[1] /\ IsHeader(jr.data[1])
    BY <1>9, <1>10 DEF LiveData, OneOf
  <2>2. jr.data[1].id \in Nat /\ jr.data[1].id >= 1 /\ jr.data[1].id <= tx
    <3>1. jr.data[1] \in Blocks
      BY <1>9, <1>10, JournalFile
    <3>2. QED
      BY <2>1, <3>1 DEF DiskType, BlocksOK, Blocks
  <2>3. QED
    BY <2>2, <1>9
<1>16. Fits(H, tx') /\ Fits(TornBlock, tx') /\ tx' = tx
  BY <1>3, <1>9, <1>14, <1>15, BlockTypes DEF Fits, bounds
<1>17. H \in poss /\ \A b \in poss : Fits(b, tx')
  BY <1>16
<1>18. jr' = Put(jr, journalOff + 1, H, poss)
  BY DEF NewHeader, Write
<1> HIDE DEF poss, H
<1>19. /\ FileOK(jr', Blocks) /\ PutFacts(jr', jr, journalOff + 1, H, poss)
       /\ BlocksOK(jr'.may, tx') /\ Written(jr'.may, jr.may, journalOff + 1)
       /\ jr'.lens \subseteq Nat /\ Len(jr'.data) \in Nat
  <2>1. journalOff + 1 \in 1 .. Len(jr.data) + 1 /\ tx' \in Nat /\ tx <= tx'
    BY <1>9, <1>10, <1>16
  <2>2. QED
    BY <2>1, <1>17, <1>18, JournalPut
<1>23. /\ journalOff + 1 <= Len(jr'.data) /\ jr'.data[journalOff + 1] = H
       /\ \A k \in 1 .. Len(jr.data) :
            k # journalOff + 1 => jr'.data[k] = jr.data[k]
       /\ \A k \in 1 .. Len(jr'.data) :
            k = journalOff + 1 \/ k \in 1 .. Len(jr.data)
       /\ \A n \in jr'.lens : n \in jr.lens \/ journalOff + 1 <= n
  BY <1>9, <1>10, <1>19 DEF PutFacts
<1>25. \A b \in jr'.may[journalOff + 1] :
          \/ journalOff + 1 <= Len(jr.may) /\ b \in jr.may[journalOff + 1]
          \/ b = H \/ b = TornBlock
  BY <1>9, <1>19 DEF PutFacts, poss
<1>20. DiskType'
  BY <1>3, <1>9, <1>19 DEF DiskType, bounds, history
<1>24. ASSUME base # <<>>
       PROVE  /\ safe = journalOff
              /\ Synced(jr.may, jr.lens, jr.data)
              /\ OwnJournal(jr.data, base, tx, journalHdr, journalOff)
              /\ LiveHeader(H, base, tx)
              /\ \A k \in journalOff + 1 .. Len(jr.may) :
                   \A b \in jr.may[k] : b = jr.data[k] /\ b.id # tx
  <2>1. TxSections
    BY <1>11, <1>24
  <2>2. safe = journalOff
    BY <2>1, <1>9 DEF TxSections
  <2>3. jr = OnDisk(jr.data)
    BY <2>1 DEF TxSections
  <2>4. Synced(jr.may, jr.lens, jr.data)
    <3>1. /\ Len(OnDisk(jr.data).may) = Len(jr.data)
          /\ \A i \in 1 .. Len(jr.data) : OnDisk(jr.data).may[i] = {jr.data[i]}
          /\ OnDisk(jr.data).lens = {Len(jr.data)}
      BY JournalFile, OnDiskFile
    <3>2. QED
      BY <2>3, <3>1, <1>9 DEF Synced
  <2>5. OwnJournal(jr.data, base, tx, journalHdr, journalOff)
    BY <2>1 DEF TxSections
  <2>6. ASSUME NEW k \in journalOff + 1 .. Len(jr.may), NEW b \in jr.may[k]
        PROVE  b = jr.data[k] /\ b.id # tx
    <3>1. b = jr.data[k] /\ k \in journalOff + 1 .. Len(jr.data)
      BY <2>4, <1>9, <1>10 DEF Synced
    <3>2. QED
      BY <3>1, <2>5 DEF OwnJournal
  <2>7. LiveHeader(H, base, tx)
    BY <1>14 DEF LiveHeader
  <2>8. QED
    BY <2>2, <2>4, <2>5, <2>6, <2>7
<1>26. ASSUME base # <<>>, NEW b \in jr'.may[journalOff + 1], IsHeader(b)
       PROVE  b = H
  <2>1. CASE journalOff + 1 <= Len(jr.may) /\ b \in jr.may[journalOff + 1]
    <3>1. b.id # tx
      BY <2>1, <1>9, <1>24, <1>26
    <3>2. safe < Len(jr.may) /\ b \in jr.may[safe + 1]
      BY <2>1, <1>9, <1>24, <1>26
    <3>3. LiveHeader(b, base, tx)
      BY <3>2, <1>11, <1>26 DEF JournalOK, LastSection
    <3>4. QED
      BY <3>1, <3>3 DEF LiveHeader
  <2>2. QED
    BY <2>1, <1>25, <1>26, BlockTypes
<1>21. FilesOK'
  <2>1. UNCHANGED <<db, base, inDoubt, tx, safe>>
    BY <1>3 DEF bounds, history
  <2>2. ASSUME base = <<>> PROVE NothingToRestore(jr'.may)
    <3>1. \A b \in jr'.may[journalOff + 1] :
            \/ journalOff + 1 <= Len(jr.may) /\ b \in jr.may[journalOff + 1]
            \/ b.kind # "record" /\ (IsHeader(b) => b.page = 0)
      BY <2>2, <1>14, <1>25, EmptySeq, BlockTypes
    <3>2. QED
      BY <2>2, <3>1, <1>12, <1>19, NothingGrows
  <2>3. ASSUME base # <<>>
        PROVE  JournalOK(jr'.may, jr'.lens, base, tx, safe)
    <3>1. safe = journalOff
      BY <2>3, <1>24
    <3>2. \A b \in jr'.may[safe + 1] :
             IsHeader(b) => LiveHeader(b, base, tx) /\ b.body = 0
      BY <2>3, <3>1, <1>14, <1>24, <1>26
    <3>3. \A i \in safe + 2 .. Len(jr.may) :
             \A b \in jr.may[i] : IsHeader(b) => b.id # tx
      BY <2>3, <3>1, <1>24, <1>9
    <3>4. \A n \in jr'.lens : n \in jr.lens \/ safe <= n
      BY <3>1, <1>19, <1>23, <1>9
    <3>5. SafeSections(jr.may, jr.lens, base, tx, safe)
      BY <2>3, <1>11 DEF JournalOK
    <3>6. Written(jr'.may, jr.may, safe + 1)
      BY <3>1, <1>19
    <3>7. QED
      BY <3>2, <3>3, <3>4, <3>5, <3>6, <1>9, <1>19, SectionOpened
  <2>4. ASSUME base # <<>>, NEW p, Restorable(p, jr.may, base, tx, safe)
        PROVE  Restorable(p, jr'.may, base, tx, safe)
    <3>1. safe = journalOff /\ JournalOK(jr.may, jr.lens, base, tx, safe)
      BY <2>4, <1>11, <1>24
    <3>2. safe + 1 <= Len(jr.may) =>
            \A b \in jr.may[safe + 1] : IsHeader(b) => b.body = 0
      <4> SUFFICES ASSUME safe + 1 <= Len(jr.may), NEW b \in jr.may[safe + 1],
                          IsHeader(b)
                   PROVE  FALSE
        OBVIOUS
      <4>1. b.id # tx
        BY <2>4, <3>1, <1>9, <1>24
      <4>2. LiveHeader(b, base, tx)
        BY <3>1, <1>9 DEF JournalOK, LastSection
      <4>3. QED
        BY <4>1, <4>2 DEF LiveHeader
    <3>3. safe <= Len(jr.may) /\ journalOff + 1 >= safe + 1
      BY <3>1, <1>9, <1>10
    <3>4. QED
      BY <2>4, <3>1, <3>2, <3>3, <1>9, <1>19, RestorableStays
  <2>5. QED
    BY <2>1, <2>2, <2>3, <2>4, <1>12, FilesJournal
<1>22. TxJournal'
  <2>0. UNCHANGED <<base, tx, pInJournal, safe, need>>
    BY <1>3 DEF bounds, history, pages
  <2>1. ASSUME base # <<>> PROVE TxSections'
    <3>0. /\ OwnJournal(jr.data, base, tx, journalHdr, journalOff)
          /\ LiveHeader(H, base, tx) /\ safe = journalOff
      BY <2>1, <1>24
    <3>1. OwnJournal(jr'.data, base, tx, journalOff + 1, journalOff + 1)
      <4>1. \A k \in 1 .. journalOff : k # journalOff + 1 /\ k \in 1 .. Len(jr.data)
        BY <1>9, <1>10
      <4>2. \A k \in 1 .. journalOff : jr'.data[k] = jr.data[k]
        BY <4>1, <1>23
      <4>3. \A k \in journalOff + 2 .. Len(jr'.data) : jr'.data[k] = jr.data[k]
                   /\ k \in journalOff + 1 .. Len(jr.data)
        BY <1>9, <1>10, <1>23
      <4>4. ~LiveRecord(H, base, tx)
        BY <1>14 DEF LiveRecord
      <4>5. \A k \in 1 .. journalOff + 1 : k \in 1 .. journalOff \/ k = journalOff + 1
        BY <1>9
      <4>6. \A k \in 1 .. journalOff + 1 : \/ LiveHeader(jr'.data[k], base, tx)
                                          \/ LiveRecord(jr'.data[k], base, tx)
        BY <3>0, <4>2, <4>5, <1>23 DEF OwnJournal
      <4>7. ASSUME NEW k \in 1 .. journalOff + 1, NEW l \in 1 .. journalOff + 1,
                   LiveRecord(jr'.data[k], base, tx),
                   LiveRecord(jr'.data[l], base, tx),
                   jr'.data[k].page = jr'.data[l].page
            PROVE  k = l
        <5>1. k \in 1 .. journalOff /\ l \in 1 .. journalOff
          BY <4>4, <4>5, <4>7, <1>23
        <5>2. QED
          BY <3>0, <5>1, <4>2, <4>7 DEF OwnJournal
      <4>8. \A k \in journalOff + 2 .. Len(jr'.data) : jr'.data[k].id # tx
        BY <3>0, <4>3 DEF OwnJournal
      <4>9. \A k \in (journalOff + 1) + 1 .. Len(jr'.data) : jr'.data[k].id # tx
        BY <4>8, <1>9
      <4>10. (journalOff + 1) + 1 .. journalOff + 1 = {} /\ 1 <= journalOff + 1
        BY <1>9
      <4>11. /\ LiveHeader(jr'.data[journalOff + 1], base, tx)
             /\ jr'.data[journalOff + 1].body = 0
        BY <3>0, <1>14, <1>23
      <4>12. journalOff + 1 <= Len(jr'.data) /\ journalOff + 1 <= journalOff + 1
        BY <1>9, <1>23
      <4>13. QED
        BY <4>6, <4>7, <4>9, <4>10, <4>11, <4>12 DEF OwnJournal
    <3>2. \A p : RecordIn(p, 0, journalOff + 1, jr'.data, base, tx) <=>
                RecordIn(p, 0, journalOff, jr.data, base, tx)
      <4>1. \A k \in 1 .. journalOff : jr'.data[k] = jr.data[k]
        BY <1>9, <1>10, <1>23
      <4>2. ~LiveRecord(jr'.data[journalOff + 1], base, tx)
        BY <1>14, <1>23 DEF LiveRecord
      <4>3. \A k \in 1 .. journalOff + 1 : k \in 1 .. journalOff \/ k = journalOff + 1
        BY <1>9
      <4>4. 1 .. journalOff \subseteq 1 .. journalOff + 1
        BY <1>9
      <4>5. QED
        BY <4>1, <4>2, <4>3, <4>4 DEF RecordIn
    <3>3. \A b \in jr'.may[journalOff + 1] : IsHeader(b) => b.body = 0
      BY <2>1, <1>14, <1>26
    <3>4. \A k \in safe + 1 .. journalOff + 1 :
             ~LiveRecord(jr'.data[k], base, tx)
      <4>1. \A k \in safe + 1 .. journalOff + 1 : k = journalOff + 1
        BY <3>0, <1>9
      <4>2. QED
        BY <4>1, <1>14, <1>23 DEF LiveRecord
    <3>5. \A p \in 1 .. Len(base) :
             p \in pInJournal <=> RecordIn(p, 0, journalOff, jr.data, base, tx)
      BY <2>1, <1>11 DEF TxSections
    <3>6. /\ journalOff' = journalHdr' + nRec' /\ safe' = journalHdr' - 1
      BY <3>0, <1>3, <2>0, <1>9
    <3>7. QED
      BY <2>0, <3>1, <3>2, <3>3, <3>4, <3>5, <3>6, <1>3 DEF TxSections
  <2>2. LiveData'
    BY <1>9, <1>10, <1>23 DEF LiveData
  <2>3. QED
    BY <2>0, <2>1, <2>2, <1>3, <1>9, <1>10, <1>23 DEF TxJournal
<1>30. QED
  <2>1. owner' # None /\ state' # "shared" /\ Always' /\ TxPhase'
    BY <1>3, <1>4, <1>5, <1>6, <1>7, <1>8, <1>20, <1>21, <1>22,
       SqlitePagerAssumption DEF TxPlace, Writing
  <2>2. QED
    BY <2>1, <1>1, ToTransaction DEF Working

\* What a write of page p does to the database.
LEMMA DatabasePut ==
  ASSUME DiskType, NEW p \in Pages, p <= PageCount + 1, NEW v \in Values,
         db' = Write(db, p, v, Torn)
  PROVE  /\ FileOK(db', Values)
         /\ Len(db'.data) \in Nat /\ Len(db'.may) = Len(db'.data)
         /\ Len(db'.data) <= MaxPages
         /\ Len(db'.data) = IF p <= PageCount THEN PageCount ELSE p
         /\ db'.data[p] = v
         /\ \A k \in 1 .. PageCount : k # p => db'.data[k] = db.data[k]
         /\ \A k \in 1 .. PageCount : k # p => db'.may[k] = db.may[k]
         /\ p <= PageCount => db'.may[p] = db.may[p] \cup {v, Torn}
         /\ p > PageCount => db'.may[p] = {v, Torn}
         /\ db'.lens = db.lens \cup {Len(db'.data)}
<1> DEFINE poss == {v, Torn}
<1>1. /\ FileOK(db, Values) /\ Len(db.data) \in Nat /\ Len(db.may) = Len(db.data)
      /\ Len(db.data) <= MaxPages /\ PageCount = Len(db.data)
  BY DatabaseFile DEF DiskType
<1>2. poss \in SUBSET Values /\ v \in poss
  BY DEF Values, Torn
<1>3. p \in 1 .. Len(db.data) + 1 /\ p \in Nat /\ p <= MaxPages
  BY <1>1, SqlitePagerAssumption DEF Pages
<1>4. db' = Put(db, p, v, poss)
  BY DEF Write
<1> HIDE DEF poss
<1>5. FileOK(db', Values) /\ PutFacts(db', db, p, v, poss)
  BY <1>1, <1>2, <1>3, <1>4, PutFile
<1>6. /\ Len(db'.data) = IF p <= PageCount THEN PageCount ELSE p
      /\ Len(db'.may) = IF p <= PageCount THEN PageCount ELSE p
      /\ db'.data[p] = v
      /\ \A k \in 1 .. PageCount : k # p => db'.data[k] = db.data[k]
      /\ \A k \in 1 .. PageCount : k # p => db'.may[k] = db.may[k]
      /\ p <= PageCount => db'.may[p] = db.may[p] \cup poss
      /\ p > PageCount => db'.may[p] = poss
      /\ db'.lens = db.lens \cup {Len(db'.data)}
  BY <1>1, <1>3, <1>5 DEF PutFacts
<1>7. Len(db'.data) \in Nat /\ Len(db'.data) <= MaxPages
  BY <1>1, <1>3, <1>6
<1>8. QED
  BY <1>1, <1>5, <1>6, <1>7 DEF poss

\* It does no harm if the page is new or will be restored.
LEMMA FilesDatabase ==
  ASSUME DiskType, FilesOK, pc # "zsync", pc' # "zsync",
         UNCHANGED <<jr, tx, committed, previous, base, safe>>,
         inDoubt' \in BOOLEAN, inDoubt => inDoubt',
         NEW p \in Pages, p <= PageCount + 1, NEW v \in Values,
         db' = Write(db, p, v, Torn), p > PageCount => v # Torn,
         p <= Len(base) =>
           \/ Restorable(p, jr.may, base, tx, safe)
           \/ inDoubt' /\ v = base[p]
  PROVE  DiskType' /\ FilesOK'
<1>0. /\ FileOK(db', Values)
      /\ Len(db'.data) \in Nat /\ Len(db'.may) = Len(db'.data)
      /\ Len(db'.data) <= MaxPages
      /\ Len(db'.data) = IF p <= PageCount THEN PageCount ELSE p
      /\ db'.data[p] = v
      /\ \A k \in 1 .. PageCount : k # p => db'.data[k] = db.data[k]
      /\ \A k \in 1 .. PageCount : k # p => db'.may[k] = db.may[k]
      /\ p <= PageCount => db'.may[p] = db.may[p] \cup {v, Torn}
      /\ p > PageCount => db'.may[p] = {v, Torn}
      /\ db'.lens = db.lens \cup {Len(db'.data)}
  BY DatabasePut
<1>1. /\ PageCount \in Nat /\ Len(base) \in Nat /\ Len(base) <= PageCount
      /\ Len(db.may) = PageCount /\ PageCount \in db.lens /\ p \in Nat /\ p >= 1
      /\ \A n \in db.lens : n <= PageCount
  BY DatabaseFile DEF FilesOK, Pages
<1>2. DiskType'
  BY <1>0 DEF DiskType
<1>3. JournalMay = jr.may /\ JournalMay' = jr.may /\ PageCount' = Len(db'.data)
  BY DEF JournalMay, PageCount
<1>4. Len(base) <= PageCount'
  BY <1>0, <1>1, <1>3
<1>5. ASSUME NEW q \in 1 .. Len(base)
      PROVE  /\ db'.data[q] = base[q] \/ Restorable(q, jr.may, base, tx, safe)
             /\ ~inDoubt' => \/ \A w \in db'.may[q] : w = base[q]
                            \/ Restorable(q, jr.may, base, tx, safe)
  <2>1. q \in 1 .. PageCount
    BY <1>1
  <2>2. CASE q = p
    BY <2>2, <1>0
  <2>3. CASE q # p
    <3>1. db'.data[q] = db.data[q] /\ db'.may[q] = db.may[q]
      BY <2>1, <2>3, <1>0
    <3>2. /\ db.data[q] = base[q] \/ Restorable(q, jr.may, base, tx, safe)
          /\ ~inDoubt => \/ \A w \in db.may[q] : w = base[q]
                        \/ Restorable(q, jr.may, base, tx, safe)
      BY <1>3 DEF FilesOK
    <3>3. QED
      BY <3>1, <3>2
  <2>4. QED
    BY <2>2, <2>3
<1>6. ~inDoubt' => \A n \in db'.lens : Len(base) <= n
  BY <1>0, <1>1 DEF FilesOK
<1>7. InFlux(db') \/ \A n \in db'.lens : n = PageCount'
  <2>1. CASE p > PageCount
    <3>1. p \in DOMAIN db'.may
      <4>1. db'.may \in Seq(SUBSET Values)
        BY <1>0 DEF FileOK
      <4>2. QED
        BY <4>1, <2>1, <1>0, <1>1
    <3>2. v # Torn /\ v \in db'.may[p] /\ Torn \in db'.may[p]
      BY <2>1, <1>0
    <3>3. QED
      BY <3>1, <3>2 DEF InFlux
  <2>2. CASE p <= PageCount
    <3>1. CASE InFlux(db)
      <4>1. PICK i \in DOMAIN db.may : \E x, w \in db.may[i] : x # w
        BY <3>1 DEF InFlux
      <4>2. i \in 1 .. PageCount
        BY <1>1, DatabaseFile
      <4>3. i \in DOMAIN db'.may
        <5>1. db'.may \in Seq(SUBSET Values)
          BY <1>0 DEF FileOK
        <5>2. QED
          BY <5>1, <4>2, <2>2, <1>0, <1>1
      <4>4. db.may[i] \subseteq db'.may[i]
        BY <4>2, <2>2, <1>0
      <4>5. QED
        BY <4>1, <4>3, <4>4 DEF InFlux
    <3>2. CASE \A n \in db.lens : n = PageCount
      BY <3>2, <2>2, <1>0, <1>1, <1>3
    <3>3. QED
      BY <3>1, <3>2 DEF FilesOK
  <2>3. QED
    BY <2>1, <2>2, <1>1
<1>8. QED
  BY <1>2, <1>3, <1>4, <1>5, <1>6, <1>7 DEF FilesOK

\* A dirty page that does not need a sync is in a synced section.
LEMMA DirtyIsSafe ==
  ASSUME Always, TxPhase, pc # "zsync",
         NEW p \in dirty, p \notin need, p <= Len(base)
  PROVE  p \in pInJournal /\ Restorable(p, jr.may, base, tx, safe)
<1> USE DEF Always, TxPhase
<1>1. p \in pInJournal
  BY DEF TxCache
<1>2. p \in 1 .. Len(base)
  BY <1>1 DEF TxJournal
<1>3. base # <<>> /\ TxSections /\ JournalOK(jr.may, jr.lens, base, tx, safe)
  <2>1. base # <<>>
    BY <1>2, EmptySeq
  <2>2. QED
    BY <2>1, MayOutside DEF TxJournal, FilesOK
<1>4. /\ safe \in Nat /\ journalOff \in Nat /\ Possible(jr.may, jr.lens)
      /\ OneOf(jr.data, jr.may, jr.lens) /\ Len(jr.data) \in Nat
      /\ journalOff <= Len(jr.data)
  BY JournalFile DEF DiskType, PagerType, TxJournal
<1>5. PICK k \in 1 .. journalOff :
             LiveRecord(jr.data[k], base, tx) /\ jr.data[k].page = p
  BY <1>1, <1>2, <1>3 DEF TxSections, RecordIn
<1>6. k \in 1 .. safe
  BY <1>3, <1>4, <1>5 DEF TxSections
<1>7. jr.data[k] \in jr.may[k]
  BY <1>4, <1>5 DEF OneOf
<1>8. Restorable(jr.data[k].page, jr.may, base, tx, safe)
  BY <1>3, <1>4, <1>5, <1>6, <1>7, SafeRecord
<1>9. QED
  BY <1>1, <1>5, <1>8

\* In a transaction a dirty page is written that needs no sync.
LEMMA StoreFacts ==
  ASSUME Always, TxPhase, pc # "zsync", pc' # "zsync", owner \in Conns,
         NEW p \in dirty, p \notin need, p <= PageCount + 1,
         db' = Write(db, p, cache[owner][p], Torn),
         UNCHANGED <<jr, tx, history>>
  PROVE  /\ DiskType' /\ FilesOK'
         /\ PageCount \in Nat /\ PageCount' \in Nat
         /\ PageCount' = IF p <= PageCount THEN PageCount ELSE p
         /\ db'.data[p] = cache[owner][p]
         /\ \A k \in 1 .. PageCount : k # p => db'.data[k] = db.data[k]
         /\ \A k \in 1 .. PageCount : k # p => db'.may[k] = db.may[k]
         /\ \A q \in 1 .. Len(base) : q \notin pInJournal \/ q \in need =>
              /\ db'.data[q] = base[q]
              /\ ~inDoubt => \A w \in db'.may[q] : w = base[q]
<1> USE DEF Always, TxPhase
<1> DEFINE v == cache[owner][p]
<1>1. p \in Pages /\ v \in Values /\ (p > PageCount => v # Torn)
  BY DEF TxCache, PagerType
<1>2. p <= Len(base) => p \in pInJournal /\ Restorable(p, jr.may, base, tx, safe)
  BY DirtyIsSafe
<1>3. db' = Write(db, p, v, Torn)
  OBVIOUS
<1>4. UNCHANGED <<jr, tx, committed, previous, base, safe, inDoubt>>
  BY DEF history
<1>5. inDoubt \in BOOLEAN
  BY DEF DiskType
<1> HIDE DEF v
<1>6. DiskType' /\ FilesOK'
  BY <1>1, <1>2, <1>3, <1>4, <1>5, FilesDatabase
<1>7. /\ Len(db'.data) \in Nat
      /\ Len(db'.data) = IF p <= PageCount THEN PageCount ELSE p
      /\ db'.data[p] = v
      /\ \A k \in 1 .. PageCount : k # p => db'.data[k] = db.data[k]
      /\ \A k \in 1 .. PageCount : k # p => db'.may[k] = db.may[k]
  BY <1>1, <1>3, DatabasePut
<1>8. /\ PageCount \in Nat /\ Len(base) \in Nat /\ Len(base) <= PageCount
  BY DatabaseFile DEF FilesOK
<1>9. ASSUME NEW q \in 1 .. Len(base), q \notin pInJournal \/ q \in need
      PROVE  /\ db'.data[q] = base[q]
             /\ ~inDoubt => \A w \in db'.may[q] : w = base[q]
  <2>1. q # p /\ q \in 1 .. PageCount
    BY <1>2, <1>8, <1>9
  <2>2. db'.data[q] = db.data[q] /\ db'.may[q] = db.may[q]
    BY <2>1, <1>7
  <2>3. QED
    BY <2>2, <1>9 DEF TxPages
<1>10. QED
  BY <1>6, <1>7, <1>8, <1>9 DEF v, PageCount

\* A page that is safe in the journal is written to the database early.
LEMMA SpillStep ==
  ASSUME PagerInv, Spill
  PROVE  PagerInv'
<1>1. pc = "spill" /\ pc \in Working /\ pc' = "ready"
  BY DEF Spill, Working
<1>2. Always /\ TxPhase /\ owner \in Conns
  BY <1>1, FromWorking
<1> USE <1>1, <1>2 DEF Always, TxPhase
<1>9. /\ goal \in dirty /\ goal # 1 /\ goal <= PageCount + 1 /\ goal \notin need
      /\ goal \in Pages /\ Len(base) <= dbSize /\ dbModified
  BY DEF TxPlace, PagerType
<1>3. /\ UNCHANGED <<jr, owner, need, flags, sizes, journal, play, bounds,
                     history, dbFileVers>>
      /\ state' = "exclusive" /\ dirty' = dirty \ {goal} /\ goal' = 0
      /\ db' = Write(db, goal, cache[owner][goal], Torn)
      /\ cache' = [cache EXCEPT ![owner][goal] = NotCached]
  BY <1>9 DEF Spill, Stored
<1>10. /\ DiskType' /\ FilesOK'
       /\ PageCount \in Nat /\ PageCount' \in Nat
       /\ PageCount' = IF goal <= PageCount THEN PageCount ELSE goal
       /\ \A k \in 1 .. PageCount : k # goal => db'.data[k] = db.data[k]
       /\ \A q \in 1 .. Len(base) : q \notin pInJournal \/ q \in need =>
            /\ db'.data[q] = base[q]
            /\ ~inDoubt => \A w \in db'.may[q] : w = base[q]
  BY <1>3, <1>9, StoreFacts DEF bounds
<1>20. DiskType' /\ FilesOK'
  BY <1>10
<1>11. /\ cache' \in [Conns -> [Pages -> Values \cup {NotCached}]]
       /\ cache'[owner][goal] = NotCached
       /\ \A q \in Pages : q # goal => cache'[owner][q] = cache[owner][q]
       /\ \A c \in Conns : c # owner => cache'[c] = cache[c]
  BY <1>3, <1>9 DEF PagerType
<1>4. PagerType'
  BY <1>3, <1>11, SqlitePagerAssumption
     DEF PagerType, flags, sizes, journal, play, bounds, Working
<1>5. HistoryOK' /\ CachesOK'
  BY <1>3, <1>11, HistorySame, CachesSame DEF history, play, TxPlace
<1>6. TxPlace'
  BY <1>3, <1>9 DEF TxPlace, flags, sizes, journal, play, history, Writing
<1>7. TxPages'
  BY <1>3, <1>10 DEF TxPages, journal, history
<1>8. TxCache'
  <2>1. UNCHANGED <<dirty, need, pInJournal, dbSize, base, owner>>
        \/ UNCHANGED <<need, pInJournal, dbSize, base, owner>>
    BY <1>3 DEF sizes, journal, history
  <2>2. \A q \in Pages : q <= PageCount => q <= PageCount'
    BY <1>9, <1>10 DEF Pages
  <2>3. goal <= PageCount'
    BY <1>9, <1>10 DEF Pages
  <2>4. ASSUME NEW q \in dirty'
        PROVE  /\ cache'[owner][q] # NotCached
               /\ q > PageCount' => cache'[owner][q] # Torn
               /\ q <= Len(base) => q \in pInJournal
    <3>1. q \in dirty /\ q # goal /\ q \in Pages /\ q \in Nat
      BY <1>3 DEF PagerType, Pages
    <3>2. cache'[owner][q] = cache[owner][q] /\ (q > PageCount' => q > PageCount)
      BY <3>1, <2>2, <1>10, <1>11
    <3>3. QED
      BY <3>1, <3>2 DEF TxCache
  <2>5. ASSUME NEW q \in Pages \ dirty', cache'[owner][q] # NotCached
        PROVE  q <= PageCount' /\ cache'[owner][q] = db'.data[q]
    <3>1. q # goal /\ q \in Pages \ dirty /\ cache'[owner][q] = cache[owner][q]
      BY <2>5, <1>3, <1>11
    <3>2. q <= PageCount /\ cache[owner][q] = db.data[q]
      BY <2>5, <3>1 DEF TxCache
    <3>3. db'.data[q] = db.data[q]
      BY <3>1, <3>2, <1>10 DEF Pages
    <3>4. QED
      BY <3>1, <3>2, <3>3, <2>2
  <2>6. \A q \in 1 .. dbSize : q <= PageCount' \/ q \in dirty'
    <3>1. 1 .. dbSize \subseteq Pages
      BY SqlitePagerAssumption DEF PagerType, Pages
    <3>2. QED
      BY <3>1, <2>2, <2>3, <1>3 DEF TxCache
  <2>7. cache'[owner][1] = cache[owner][1]
    BY <1>9, <1>11, SqlitePagerAssumption DEF Pages
  <2>8. goal # 0
    BY <1>9 DEF Pages
  <2>9. need' \subseteq dirty'
    BY <1>3, <1>9 DEF TxCache
  <2>10. UNCHANGED <<need, pInJournal, dbSize, base, owner, dbFileVers>>
    BY <1>3 DEF sizes, journal, history
  <2>11. QED
    BY <2>4, <2>5, <2>6, <2>7, <2>8, <2>9, <2>10, <1>3 DEF TxCache
<1>22. TxJournal'
  BY <1>3 DEF TxJournal, TxSections, LiveData, bounds, journal, history
<1>30. QED
  <2>1. owner' # None /\ state' # "shared" /\ Always' /\ TxPhase'
    BY <1>3, <1>4, <1>5, <1>6, <1>7, <1>8, <1>20, <1>22,
       SqlitePagerAssumption DEF TxPlace, Writing
  <2>2. QED
    BY <2>1, <1>1, ToTransaction DEF Working

\* The minimum of a nonempty set of page numbers is its least member.
LEMMA LeastPage ==
  ASSUME NEW T \in SUBSET Nat, T # {}
  PROVE  Min(T) \in T /\ \A k \in T : Min(T) <= k
<1>1. PICK n \in T : \A k \in T : n <= k
  BY Least
<1>2. QED
  BY <1>1 DEF Min

\* The dirty pages are written once all of them are safe in the journal.
LEMMA WritePagesStep ==
  ASSUME PagerInv, WritePages
  PROVE  PagerInv'
<1>1. pc = "write" /\ pc \in Working /\ pc' \in {"write", "dbsync"}
  BY DEF WritePages, Working
<1>2. Always /\ TxPhase /\ owner \in Conns
  BY <1>1, FromWorking
<1> USE <1>1, <1>2 DEF Always, TxPhase
<1> DEFINE list == {q \in dirty : q <= dbSize}
<1>a. CASE list = {}
  <2>3. /\ UNCHANGED <<files, owner, goal, state, caches, pages, flags, sizes,
                       journal, play, bounds, history>>
        /\ pc' = "dbsync"
    BY <1>a DEF WritePages, files, caches, pages
  <2>4. PagerType'
    BY <2>3
       DEF PagerType, caches, pages, flags, sizes, journal, play, bounds, Working
  <2>5. DiskType' /\ FilesOK' /\ HistoryOK' /\ CachesOK'
    BY <2>3, DiskSame, FilesSame, HistorySame, CachesSame
       DEF files, history, bounds, caches, play, TxPlace
  <2>6. TxPlace'
    <3>1. \A q \in dirty : q > dbSize
      BY <1>a, SqlitePagerAssumption DEF PagerType, Pages
    <3>2. QED
      BY <2>3, <3>1
         DEF TxPlace, files, pages, flags, sizes, journal, play, history, PageCount
  <2>7. TxPages'
    BY <2>3 DEF TxPages, files, pages, journal, history
  <2>8. TxCache'
    BY <2>3 DEF TxCache, files, caches, pages, sizes, journal, history, PageCount
  <2>9. TxJournal'
    BY <2>3
       DEF TxJournal, TxSections, LiveData, files, bounds, journal, history, pages
  <2>10. owner' # None /\ state' # "shared" /\ Always' /\ TxPhase'
    BY <2>3, <2>4, <2>5, <2>6, <2>7, <2>8, <2>9, SqlitePagerAssumption
       DEF TxPlace, Writing
  <2>11. QED
    BY <2>10, <1>1, ToTransaction DEF Working
<1>b. CASE list # {}
  <2> DEFINE p == Min(list)
  <2>1. /\ p \in dirty /\ p <= dbSize /\ p \in Pages
        /\ \A k \in dirty : k <= dbSize => p <= k
    <3>0. dirty \subseteq Pages /\ Pages \subseteq Nat
      BY DEF PagerType, Pages
    <3>1. list \in SUBSET Nat
      BY <3>0
    <3>2. p \in list /\ \A k \in list : p <= k
      BY <3>1, <1>b, LeastPage
    <3>3. QED
      BY <3>2 DEF PagerType
  <2>2. /\ UNCHANGED <<jr, owner, goal, cache, need, flags, sizes, journal, play,
                       bounds, history>>
        /\ pc' = "write"
        /\ state' = "exclusive" /\ dirty' = dirty \ {p}
        /\ db' = Write(db, p, cache[owner][p], Torn)
        /\ dbFileVers' = IF p = 1 THEN [dbFileVers EXCEPT ![owner] = cache[owner][1]]
                                  ELSE dbFileVers
    BY <1>b DEF WritePages, Stored
  <2> HIDE DEF p
  <2>3. p <= PageCount + 1
    <3>1. dbSize \in Nat /\ dbSize <= MaxPages /\ PageCount \in Nat /\ p \in Nat /\ p >= 1
      BY DatabaseFile, SqlitePagerAssumption, <2>1 DEF PagerType, Pages
    <3>2. ASSUME p > PageCount + 1 PROVE FALSE
      <4>1. p - 1 \in 1 .. dbSize /\ ~(p - 1 <= PageCount)
        BY <3>1, <3>2, <2>1
      <4>2. p - 1 \in dirty
        BY <4>1 DEF TxCache
      <4>3. QED
        BY <4>1, <4>2, <2>1, <3>1
    <3>3. QED
      BY <3>1, <3>2
  <2>4. need = {} /\ goal = 0
    BY DEF TxPlace
  <2>5. /\ DiskType' /\ FilesOK'
        /\ PageCount \in Nat /\ PageCount' \in Nat
        /\ PageCount' = IF p <= PageCount THEN PageCount ELSE p
        /\ db'.data[p] = cache[owner][p]
        /\ \A k \in 1 .. PageCount : k # p => db'.data[k] = db.data[k]
        /\ \A q \in 1 .. Len(base) : q \notin pInJournal \/ q \in need =>
             /\ db'.data[q] = base[q]
             /\ ~inDoubt => \A w \in db'.may[q] : w = base[q]
    BY <2>1, <2>2, <2>3, <2>4, StoreFacts DEF bounds
  <2>6. /\ 1 \in Pages /\ dbFileVers' \in [Conns -> Values]
        /\ p = 1 => dbFileVers'[owner] = cache[owner][1]
        /\ p # 1 => dbFileVers'[owner] = dbFileVers[owner]
        /\ \A c \in Conns : c # owner => dbFileVers'[c] = dbFileVers[c]
    <3>1. 1 \in Pages
      BY SqlitePagerAssumption DEF Pages
    <3>2. p = 1 => cache[owner][1] \in Values
      BY <2>1, <3>1 DEF PagerType, TxCache
    <3>3. QED
      BY <2>2, <3>1, <3>2 DEF PagerType
  <2>7. PagerType'
    BY <2>2, <2>6
       DEF PagerType, flags, sizes, journal, play, bounds, Working
  <2>8. HistoryOK' /\ CachesOK'
    BY <2>2, <2>6, HistorySame, CachesSame DEF history, play, TxPlace
  <2>9. TxPlace'
    BY <2>2, <2>4 DEF TxPlace, flags, sizes, journal, play, history, Writing
  <2>10. TxPages'
    BY <2>2, <2>5 DEF TxPages, journal, history
  <2>11. TxCache'
    <3>1. UNCHANGED <<need, pInJournal, dbSize, base, owner, cache, goal>>
      BY <2>2 DEF sizes, journal, history
    <3>2. \A q \in Pages : q <= PageCount => q <= PageCount'
      BY <2>3, <2>5, <2>1 DEF Pages
    <3>3. p <= PageCount'
      BY <2>5, <2>1 DEF Pages
    <3>4. ASSUME NEW q \in dirty'
          PROVE  /\ cache[owner][q] # NotCached
                 /\ q > PageCount' => cache[owner][q] # Torn
                 /\ q <= Len(base) => q \in pInJournal
      <4>1. q \in dirty /\ q \in Pages /\ q \in Nat
        BY <2>2 DEF PagerType, Pages
      <4>2. q > PageCount' => q > PageCount
        BY <4>1, <3>2, <2>5
      <4>3. QED
        BY <4>1, <4>2 DEF TxCache
    <3>5. ASSUME NEW q \in Pages \ dirty', cache[owner][q] # NotCached
          PROVE  q <= PageCount' /\ cache[owner][q] = db'.data[q]
      <4>1. CASE q = p
        BY <4>1, <3>3, <2>5
      <4>2. CASE q # p
        <5>1. q \in Pages \ dirty
          BY <4>2, <2>2
        <5>2. q <= PageCount /\ cache[owner][q] = db.data[q]
          BY <3>5, <5>1 DEF TxCache
        <5>3. db'.data[q] = db.data[q]
          BY <4>2, <5>2, <2>5 DEF Pages
        <5>4. QED
          BY <5>2, <5>3, <3>2
      <4>3. QED
        BY <4>1, <4>2
    <3>6. \A q \in 1 .. dbSize : q <= PageCount' \/ q \in dirty'
      <4>1. 1 .. dbSize \subseteq Pages
        BY SqlitePagerAssumption DEF PagerType, Pages
      <4>2. QED
        BY <4>1, <3>2, <3>3, <2>2 DEF TxCache
    <3>7. need' \subseteq dirty'
      BY <2>2, <2>4 DEF TxCache
    <3>8. Len(base) > 0 /\ 1 \notin pInJournal => dbFileVers'[owner] = base[1]
      <4>1. SUFFICES ASSUME Len(base) > 0, 1 \notin pInJournal
                     PROVE  p # 1
        BY <2>6 DEF TxCache
      <4>2. Len(base) \in Nat
        BY DatabaseFile
      <4>3. QED
        BY <4>1, <4>2, <2>1 DEF TxCache
    <3>9. 1 \notin dirty' => dbFileVers'[owner] = cache[owner][1]
      BY <2>2, <2>4, <2>6 DEF TxCache
    <3>10. QED
      BY <3>1, <3>4, <3>5, <3>6, <3>7, <3>8, <3>9, <2>2, <2>4 DEF TxCache
  <2>12. TxJournal'
    BY <2>2 DEF TxJournal, TxSections, LiveData, bounds, journal, history
  <2>13. owner' # None /\ state' # "shared" /\ Always' /\ TxPhase'
    BY <2>2, <2>5, <2>7, <2>8, <2>9, <2>10, <2>11, <2>12, SqlitePagerAssumption
  <2>14. QED
    BY <2>13, <1>1, ToTransaction DEF Working
<1>c. QED
  BY <1>a, <1>b

\* The database is synced before the transaction can end.
LEMMA SyncDbStep ==
  ASSUME PagerInv, SyncDb
  PROVE  PagerInv'
<1>1. pc = "dbsync" /\ pc \in Working /\ pc' = "finish" /\ state' = "synced"
  BY DEF SyncDb, Working
<1>2. Always /\ TxPhase /\ owner \in Conns
  BY <1>1, FromWorking
<1> USE <1>1, <1>2 DEF Always, TxPhase
<1>3. /\ UNCHANGED <<jr, owner, goal, caches, pages, flags, sizes, journal, play,
                     bounds, committed, previous, base, safe>>
      /\ inDoubt' = FALSE /\ db' = OnDisk(db.data)
  BY DEF SyncDb, Sync
<1>4. PagerType'
  BY <1>3
     DEF PagerType, caches, pages, flags, sizes, journal, play, bounds, Working
<1>5. HistoryOK' /\ CachesOK'
  BY <1>3, HistorySame, CachesSame DEF caches, play, TxPlace
<1>9. /\ db.data \in Seq(Values) /\ Len(db.data) \in Nat /\ Len(base) \in Nat
      /\ PageCount = Len(db.data) /\ Len(db.data) <= MaxPages
  BY DatabaseFile DEF DiskType
<1>10. /\ FileOK(db', Values) /\ db'.data = db.data
       /\ Len(db'.may) = Len(db.data) /\ db'.lens = {Len(db.data)}
       /\ \A i \in 1 .. Len(db.data) : db'.may[i] = {db.data[i]}
  BY <1>3, <1>9, OnDiskFile
<1>11. ~InFlux(db')
  <2>1. DOMAIN db'.may = 1 .. Len(db.data)
    BY <1>9, <1>10 DEF FileOK
  <2>2. QED
    BY <2>1, <1>10 DEF InFlux
<1>6. TxPlace'
  BY <1>3, <1>10, <1>11
     DEF TxPlace, pages, flags, sizes, journal, play, PageCount, Writing
<1>7. TxPages'
  <2>1. Len(base) <= PageCount
    BY DEF FilesOK
  <2>2. \A q \in 1 .. Len(base) : db'.may[q] = {db.data[q]}
    BY <2>1, <1>9, <1>10
  <2>3. QED
    BY <2>2, <1>3, <1>10 DEF TxPages, pages, journal
<1>8. TxCache'
  BY <1>3, <1>10 DEF TxCache, caches, pages, sizes, journal, PageCount
<1>20. DiskType' /\ FilesOK'
  <2>1. DiskType'
    BY <1>3, <1>9, <1>10 DEF DiskType, bounds
  <2>2. JournalMay = jr.may /\ JournalMay' = jr.may /\ PageCount' = PageCount
    BY <1>3, <1>10 DEF JournalMay, PageCount
  <2>3. Len(base) <= PageCount
    BY DEF FilesOK
  <2>4. \A q \in 1 .. Len(base) : db'.may[q] = {db.data[q]}
    BY <2>3, <1>9, <1>10
  <2>5. UNCHANGED <<tx, jr, base, safe>>
    BY <1>3 DEF bounds
  <2>6. QED
    BY <2>1, <2>2, <2>3, <2>4, <2>5, <1>3, <1>9, <1>10 DEF FilesOK
<1>22. TxJournal'
  BY <1>3 DEF TxJournal, TxSections, LiveData, bounds, journal, pages
<1>30. QED
  <2>1. owner' # None /\ state' # "shared" /\ Always' /\ TxPhase'
    BY <1>3, <1>4, <1>5, <1>6, <1>7, <1>8, <1>20, <1>22,
       SqlitePagerAssumption DEF TxPlace, Writing
  <2>2. QED
    BY <2>1, <1>1, ToTransaction DEF Working

\* A record is appended to the journal of a transaction.
Appended(data2, data, end, p, B, X) ==
  /\ end + 1 <= Len(data2) /\ LiveRecord(data2[end + 1], B, X)
  /\ data2[end + 1].page = p
  /\ \A k \in 1 .. Len(data2) :
       k = end + 1 \/ (k \in 1 .. Len(data) /\ data2[k] = data[k])

\* A new record extends the last section and adds one page to those recorded.
LEMMA OwnJournalGrows ==
  ASSUME NEW data, NEW data2, NEW B, NEW X, NEW hdr \in Nat, NEW end \in Nat,
         Len(data) \in Nat, Len(data2) \in Nat, NEW p,
         OwnJournal(data, B, X, hdr, end), data[hdr].body = 0,
         Appended(data2, data, end, p, B, X), ~RecordIn(p, 0, end, data, B, X)
  PROVE  /\ OwnJournal(data2, B, X, hdr, end + 1)
         /\ \A q : RecordIn(q, 0, end + 1, data2, B, X) <=>
                   q = p \/ RecordIn(q, 0, end, data, B, X)
<1> USE DEF Appended
<1>0. /\ 1 <= hdr /\ hdr <= end /\ end <= Len(data)
      /\ \A k \in 1 .. end : data2[k] = data[k]
      /\ \A k \in 1 .. end + 1 : k \in 1 .. end \/ k = end + 1
      /\ 1 .. end \subseteq 1 .. end + 1 /\ end + 1 \in 1 .. end + 1
  BY DEF OwnJournal
<1>1. \A k \in 1 .. end + 1 : \/ LiveHeader(data2[k], B, X)
                              \/ LiveRecord(data2[k], B, X)
  BY <1>0 DEF OwnJournal
<1>2. LiveHeader(data2[hdr], B, X) /\ data2[hdr].body = 0
  BY <1>0 DEF OwnJournal
<1>3. \A k \in hdr + 1 .. end + 1 : LiveRecord(data2[k], B, X)
  <2>1. \A k \in hdr + 1 .. end + 1 : k = end + 1 \/
           (k \in hdr + 1 .. end /\ k \in 1 .. end)
    BY <1>0
  <2>2. QED
    BY <1>0, <2>1 DEF OwnJournal
<1>4. \A k \in (end + 1) + 1 .. Len(data2) : data2[k].id # X
  <2>1. \A k \in (end + 1) + 1 .. Len(data2) :
           k \in end + 1 .. Len(data) /\ data2[k] = data[k]
    BY <1>0
  <2>2. QED
    BY <2>1 DEF OwnJournal
<1>5. ASSUME NEW k \in 1 .. end + 1, NEW l \in 1 .. end + 1,
             LiveRecord(data2[k], B, X), LiveRecord(data2[l], B, X),
             data2[k].page = data2[l].page
      PROVE  k = l
  <2>1. CASE k \in 1 .. end /\ l \in 1 .. end
    BY <2>1, <1>0, <1>5 DEF OwnJournal
  <2>2. CASE k = end + 1 /\ l \in 1 .. end
    BY <2>2, <1>0, <1>5 DEF RecordIn
  <2>3. CASE l = end + 1 /\ k \in 1 .. end
    BY <2>3, <1>0, <1>5 DEF RecordIn
  <2>4. QED
    BY <2>1, <2>2, <2>3, <1>0
<1>6. OwnJournal(data2, B, X, hdr, end + 1)
  <2>1. 1 <= hdr /\ hdr <= end + 1
    BY <1>0
  <2>2. QED
    BY <2>1, <1>1, <1>2, <1>3, <1>4, <1>5 DEF OwnJournal
<1>7. ASSUME NEW q
      PROVE  RecordIn(q, 0, end + 1, data2, B, X) <=>
               q = p \/ RecordIn(q, 0, end, data, B, X)
  BY <1>0 DEF RecordIn
<1>8. QED
  BY <1>6, <1>7

\* pager_write puts the old content of a page into the journal before it may
\* change, if the page was in the database and is not there already.
LEMMA JournalledFacts ==
  ASSUME Always, TxPhase, pc \in {"ready", "count", "discard"},
         pc' # "zsync", pc' \notin Working \/ pc' \in {"count", "discard"},
         NEW p \in Pages, NEW v, Journalled(p, v),
         p \notin pInJournal /\ p <= Len(base) => v = base[p],
         UNCHANGED <<db, tx, history, journalHdr>>
  PROVE  DiskType' /\ FilesOK' /\ TxJournal'
<1> USE DEF Always, TxPhase
<1>1. dbOrigSize = Len(base) /\ pc # "zsync"
  BY DEF TxPlace
<1>2. UNCHANGED <<base, safe, inDoubt, committed, previous>>
  BY DEF history
<1>3. /\ Len(jr.data) \in Nat /\ Len(jr.may) \in Nat
      /\ Len(jr.data) <= Len(jr.may) /\ journalOff \in Nat /\ journalHdr \in Nat
      /\ safe \in Nat /\ tx \in Nat /\ nRec \in Nat
      /\ Possible(jr.may, jr.lens) /\ OneOf(jr.data, jr.may, jr.lens)
  BY JournalFile DEF PagerType, DiskType
<1>4. /\ 1 <= journalHdr /\ journalHdr <= journalOff
      /\ journalOff <= Len(jr.data) /\ LiveData
      /\ pInJournal \subseteq 1 .. Len(base)
  BY DEF TxJournal
<1>5. base # <<>> => TxSections /\ JournalOK(jr.may, jr.lens, base, tx, safe)
  BY <1>1, MayOutside DEF TxJournal, FilesOK
<1>6. CASE ~(p \notin pInJournal /\ p <= dbOrigSize)
  <2>1. UNCHANGED <<jr, journalOff, nRec, pInJournal>> /\ need \subseteq need'
    BY <1>6 DEF Journalled
  <2>2. DiskType' /\ FilesOK'
    BY <1>1, <1>2, <2>1, DiskSame, FilesSame
  <2>3. TxJournal'
    <3>1. ASSUME base # <<>> PROVE TxSections'
      BY <3>1, <1>2, <1>5, <2>1 DEF TxSections, Working
    <3>2. QED
      BY <3>1, <1>2, <1>4, <2>1 DEF TxJournal, LiveData
  <2>4. QED
    BY <2>2, <2>3
<1>7. CASE p \notin pInJournal /\ p <= dbOrigSize
  <2>1. /\ p \in 1 .. Len(base) /\ base # <<>> /\ v = base[p] /\ v \in Values
        /\ p \in Nat /\ Len(base) \in Nat
    <3>1. p \in 1 .. Len(base) /\ Len(base) \in Nat /\ base \in Seq(Values)
      BY <1>1, <1>7, DatabaseFile DEF Pages
    <3>2. QED
      BY <3>1, <1>1, <1>7, EmptySeq
  <2>2. /\ journalOff' = journalOff + 1 /\ nRec' = nRec + 1
        /\ pInJournal' = pInJournal \cup {p} /\ need' = need \cup {p}
    BY <1>7 DEF Journalled
  <2> DEFINE R == Record(p, v, tx)
             poss == {R, TornBlock}
  <2>3. /\ R \in Blocks /\ ~IsHeader(R) /\ R.body = v /\ R.page = p
        /\ R.id = tx /\ R.kind = "record"
    BY <2>1, <1>3, BlockTypes
  <2>4. LiveRecord(R, base, tx)
    BY <2>1, <2>3 DEF LiveRecord
  <2>5. R \in poss /\ \A b \in poss : Fits(b, tx')
    <3>1. Fits(R, tx')
      BY <2>3, <1>3 DEF Fits
    <3>2. Fits(TornBlock, tx')
      BY <1>3, BlockTypes DEF Fits
    <3>3. QED
      BY <3>1, <3>2
  <2>6. jr' = Put(jr, journalOff + 1, R, poss)
    BY <1>7 DEF Journalled, Write
  <2> HIDE DEF R, poss
  <2>7. /\ FileOK(jr', Blocks) /\ PutFacts(jr', jr, journalOff + 1, R, poss)
        /\ BlocksOK(jr'.may, tx') /\ Written(jr'.may, jr.may, journalOff + 1)
        /\ jr'.lens \subseteq Nat /\ Len(jr'.data) \in Nat
    <3>1. journalOff + 1 \in 1 .. Len(jr.data) + 1 /\ tx' \in Nat /\ tx <= tx'
      BY <1>3, <1>4
    <3>2. QED
      BY <3>1, <2>5, <2>6, JournalPut
  <2>8. /\ journalOff + 1 <= Len(jr'.data) /\ jr'.data[journalOff + 1] = R
        /\ \A k \in 1 .. Len(jr'.data) :
             k = journalOff + 1 \/ (k \in 1 .. Len(jr.data) /\ jr'.data[k] = jr.data[k])
        /\ \A n \in jr'.lens : n \in jr.lens \/ journalOff + 1 <= n
        /\ \A b \in jr'.may[journalOff + 1] :
             \/ journalOff + 1 <= Len(jr.may) /\ b \in jr.may[journalOff + 1]
             \/ b = R \/ b = TornBlock
    BY <1>3, <1>4, <2>7 DEF PutFacts, poss
  <2>9. \A b \in jr'.may[journalOff + 1] : IsHeader(b) =>
           journalOff + 1 <= Len(jr.may) /\ b \in jr.may[journalOff + 1]
    BY <2>3, <2>8, BlockTypes
  <2>10. /\ TxSections /\ JournalOK(jr.may, jr.lens, base, tx, safe)
    BY <2>1, <1>5
  <2>11. /\ safe + 1 = journalHdr /\ journalOff = journalHdr + nRec
         /\ OwnJournal(jr.data, base, tx, journalHdr, journalOff)
         /\ \A b \in jr.may[safe + 1] : IsHeader(b) => b.body = 0
    BY <2>10, <1>3 DEF TxSections
  <2>12. jr.data[journalHdr].body = 0
    <3>1. jr.data[journalHdr] \in jr.may[journalHdr]
      BY <1>3, <1>4 DEF OneOf
    <3>2. IsHeader(jr.data[journalHdr])
      BY <2>11 DEF OwnJournal, LiveHeader
    <3>3. QED
      BY <3>1, <3>2, <2>11
  <2>13. DiskType'
    BY <1>2, <1>3, <2>7 DEF DiskType
  <2>14. FilesOK'
    <3>1. journalOff + 1 >= safe + 2 /\ safe + 1 <= Len(jr.may)
      BY <2>11, <1>3, <1>4
    <3>2. JournalOK(jr'.may, jr'.lens, base, tx, safe)
      <4>1. /\ journalOff + 1 \in Nat /\ jr'.lens \subseteq Nat
            /\ Written(jr'.may, jr.may, journalOff + 1)
        BY <2>7, <1>3
      <4>2. \A n \in jr'.lens : n \in jr.lens \/ journalOff + 1 <= n
        BY <2>8
      <4>3. \A b \in jr.may[safe + 1] : IsHeader(b) => b.body = 0
        BY <2>11
      <4>4. Possible(jr.may, jr.lens) /\ safe \in Nat
        BY <1>3
      <4>5. JournalOK(jr.may, jr.lens, base, tx, safe)
        BY <2>10
      <4> DEFINE j == journalOff + 1
      <4>6. /\ j \in Nat /\ j >= safe + 2 /\ Written(jr'.may, jr.may, j)
            /\ \A b \in jr'.may[j] : IsHeader(b) => j <= Len(jr.may) /\ b \in jr.may[j]
            /\ \A n \in jr'.lens : n \in jr.lens \/ j <= n
        BY <3>1, <4>1, <4>2, <2>9
      <4> HIDE DEF j
      <4>7. QED
        BY <3>1, <4>1, <4>3, <4>4, <4>5, <4>6, JournalGrows
    <3>3. \A q : Restorable(q, jr.may, base, tx, safe) =>
                Restorable(q, jr'.may, base, tx, safe)
      <4>1. journalOff + 1 >= safe + 1 /\ safe <= Len(jr.may)
        BY <3>1, <1>3
      <4>2. QED
        BY <4>1, <2>7, <2>10, <2>11, <1>3, RestorableStays
    <3>4. QED
      BY <3>2, <3>3, <2>1, <1>1, <1>2, FilesJournal
  <2>15. ~RecordIn(p, 0, journalOff, jr.data, base, tx)
    BY <2>1, <2>10, <1>7 DEF TxSections
  <2>16. /\ OwnJournal(jr'.data, base, tx, journalHdr, journalOff + 1)
         /\ \A q : RecordIn(q, 0, journalOff + 1, jr'.data, base, tx) <=>
                   q = p \/ RecordIn(q, 0, journalOff, jr.data, base, tx)
    <3>1. /\ LiveRecord(jr'.data[journalOff + 1], base, tx)
          /\ jr'.data[journalOff + 1].page = p
          /\ journalOff + 1 <= Len(jr'.data)
      BY <2>3, <2>4, <2>8
    <3>2. \A k \in 1 .. Len(jr'.data) :
             k = journalOff + 1 \/ (k \in 1 .. Len(jr.data) /\ jr'.data[k] = jr.data[k])
      BY <2>8
    <3>3. /\ Len(jr.data) \in Nat /\ Len(jr'.data) \in Nat /\ journalHdr \in Nat
          /\ journalOff \in Nat /\ OwnJournal(jr.data, base, tx, journalHdr, journalOff)
      BY <2>7, <2>11, <1>3
    <3>4. Appended(jr'.data, jr.data, journalOff, p, base, tx)
      BY <3>1, <3>2 DEF Appended
    <3>5. QED
      BY <3>3, <3>4, <2>12, <2>15, OwnJournalGrows
  <2>17. TxSections'
    <3>1. jr'.may[journalHdr] = jr.may[journalHdr]
      BY <2>7, <1>3, <1>4 DEF Written
    <3>2. ASSUME NEW k \in safe + 1 .. journalOff + 1,
                 LiveRecord(jr'.data[k], base, tx)
          PROVE  jr'.data[k].page \in need'
      <4>1. CASE k = journalOff + 1
        BY <4>1, <2>2, <2>3, <2>8
      <4>2. CASE k # journalOff + 1
        <5>1. k \in safe + 1 .. journalOff /\ jr'.data[k] = jr.data[k]
          BY <4>2, <1>3, <1>4, <2>8
        <5>2. QED
          BY <3>2, <5>1, <2>2, <2>10 DEF TxSections
      <4>3. QED
        BY <4>1, <4>2
    <3>3. \A q \in 1 .. Len(base) : q \in pInJournal' <=>
             RecordIn(q, 0, journalOff + 1, jr'.data, base, tx)
      BY <2>2, <2>10, <2>16 DEF TxSections
    <3>4. journalOff' = journalHdr + nRec'
      BY <2>2, <2>11, <1>3
    <3>5. safe = journalHdr - 1 /\ \A b \in jr'.may[journalHdr] : IsHeader(b) => b.body = 0
      BY <3>1, <2>11, <1>3
    <3>6. QED
      BY <2>2, <2>16, <3>2, <3>3, <3>4, <3>5, <1>2 DEF TxSections, Working
  <2>18. TxJournal'
    <3>1. LiveData'
      BY <1>3, <1>4, <2>8 DEF LiveData
    <3>2. pInJournal' \subseteq 1 .. Len(base)
      BY <2>1, <2>2, <1>4
    <3>3. QED
      BY <3>1, <3>2, <2>2, <2>8, <2>17, <1>2, <1>3, <1>4 DEF TxJournal
  <2>19. QED
    BY <2>13, <2>14, <2>18
<1>8. QED
  BY <1>6, <1>7

\* What sqlite3PagerWrite does to the sets of pages.
LEMMA JournalledPages ==
  ASSUME Always, TxPhase, NEW p \in Pages, NEW v, Journalled(p, v),
         UNCHANGED <<db, history, state>>
  PROVE  /\ dirty' = dirty \cup {p} /\ dbModified' = TRUE
         /\ dirty' \subseteq Pages /\ need' \subseteq Pages
         /\ pInJournal' \subseteq Pages
         /\ needSync' \in BOOLEAN /\ nRec' \in Nat /\ journalOff' \in Nat
         /\ need' # {} => needSync'
         /\ need' \subseteq dirty'
         /\ p <= Len(base) => p \in pInJournal'
         /\ pInJournal \subseteq pInJournal'
         /\ \A q \in pInJournal' : q \in pInJournal \/ q = p
         /\ TxPages'
<1> USE DEF Always, TxPhase
<1>1. dbOrigSize = Len(base) /\ UNCHANGED <<base, inDoubt>>
  BY DEF TxPlace, history
<1>2. /\ dirty \subseteq Pages /\ need \subseteq Pages /\ pInJournal \subseteq Pages
      /\ needSync \in BOOLEAN /\ nRec \in Nat /\ journalOff \in Nat
      /\ need # {} => needSync
      /\ need \subseteq dirty
  BY DEF PagerType, TxPlace, TxCache
<1>3. dirty' = dirty \cup {p} /\ dbModified' = TRUE
  BY DEF Journalled
<1>4. CASE p \notin pInJournal /\ p <= dbOrigSize
  <2>1. /\ journalOff' = journalOff + 1 /\ nRec' = nRec + 1 /\ needSync' = TRUE
        /\ pInJournal' = pInJournal \cup {p} /\ need' = need \cup {p}
    BY <1>4 DEF Journalled
  <2>2. TxPages'
    BY <2>1, <1>1, <1>4 DEF TxPages
  <2>3. QED
    BY <2>1, <2>2, <1>2, <1>3
<1>5. CASE ~(p \notin pInJournal /\ p <= dbOrigSize)
  <2>1. /\ journalOff' = journalOff /\ nRec' = nRec
        /\ pInJournal' = pInJournal
        /\ \/ need' = need /\ needSync' = needSync
           \/ need' = need \cup {p} /\ needSync' = TRUE /\ p > dbOrigSize
    BY <1>5, <1>2 DEF Journalled
  <2>2. TxPages'
    <3>1. \A q \in 1 .. Len(base) : q \in need' => q \in need
      <4>1. Len(base) \in Nat /\ p \in Nat
        BY DatabaseFile DEF Pages
      <4>2. QED
        BY <4>1, <2>1, <1>1
    <3>2. QED
      BY <2>1, <3>1, <1>1 DEF TxPages
  <2>3. QED
    BY <2>1, <2>2, <1>1, <1>2, <1>3, <1>5
<1>6. QED
  BY <1>4, <1>5

\* sqlite3PagerWrite and the change of the page by the caller.
LEMMA ChangeStep ==
  ASSUME PagerInv, NEW p \in Pages, Change(p)
  PROVE  PagerInv'
<1>1. pc = "ready" /\ pc' = "ready" /\ state # "shared" /\ state' = state
  BY DEF Change
<1>2. Always /\ TxPhase /\ owner \in Conns
  BY <1>1, FromTransaction
<1> USE <1>1, <1>2 DEF Always, TxPhase
<1> DEFINE w == IF p = 1 THEN 0 ELSE tx
<1>3. /\ UNCHANGED <<db, owner, goal, dbFileVers, journalStarted,
                     dbOrigSize, journalHdr, play, bounds, history>>
      /\ Journalled(p, cache[owner][p])
      /\ dbSize' = (IF p > dbSize THEN p ELSE dbSize)
      /\ cache' = [cache EXCEPT ![owner][p] = w]
  BY DEF Change
<1>4. /\ p <= dbSize + 1 /\ (p = 1 => dbSize = 0)
      /\ cache[owner][p] # NotCached \/ p > dbSize
      /\ p \in Nat /\ p >= 1 /\ p <= MaxPages
      /\ dbSize \in Nat /\ Len(base) \in Nat /\ Len(base) <= dbSize
      /\ MaxPages \in Nat /\ dbSize <= MaxPages
  BY DatabaseFile, SqlitePagerAssumption DEF Change, Pages, PagerType, TxPlace
<1>5. /\ dbSize' \in 0 .. MaxPages /\ dbSize' >= dbSize
      /\ \A q \in 1 .. dbSize' : q \in 1 .. dbSize \/ q = p
      /\ dbSize' >= 1
  BY <1>3, <1>4
<1>6. p \notin pInJournal /\ p <= Len(base) => cache[owner][p] = base[p]
  <2> SUFFICES ASSUME p \notin pInJournal, p <= Len(base)
               PROVE  cache[owner][p] = base[p]
    OBVIOUS
  <2>1. p \in Pages \ dirty /\ cache[owner][p] # NotCached /\ p \in 1 .. Len(base)
    BY <1>4 DEF TxCache
  <2>2. QED
    BY <2>1 DEF TxCache, TxPages
<1>7. DiskType' /\ FilesOK' /\ TxJournal'
  <2>1. UNCHANGED <<db, tx, history, journalHdr>>
    BY <1>3 DEF bounds
  <2>2. pc' # "zsync" /\ pc' \notin Working
    BY DEF Working
  <2>3. QED
    BY <1>3, <1>6, <2>1, <2>2, JournalledFacts
<1>8. /\ dirty' = dirty \cup {p} /\ dbModified' = TRUE
      /\ dirty' \subseteq Pages /\ need' \subseteq Pages
      /\ pInJournal' \subseteq Pages
      /\ needSync' \in BOOLEAN /\ nRec' \in Nat /\ journalOff' \in Nat
      /\ need' # {} => needSync'
      /\ need' \subseteq dirty'
      /\ p <= Len(base) => p \in pInJournal'
      /\ pInJournal \subseteq pInJournal'
      /\ \A q \in pInJournal' : q \in pInJournal \/ q = p
      /\ TxPages'
  BY <1>3, JournalledPages
<1>9. w \in Values /\ w # NotCached /\ w # Torn
  BY DEF DiskType, Values, Torn, NotCached
<1> HIDE DEF w
<1>10. /\ cache' \in [Conns -> [Pages -> Values \cup {NotCached}]]
       /\ cache'[owner][p] = w
       /\ \A q \in Pages : q # p => cache'[owner][q] = cache[owner][q]
       /\ \A c \in Conns : c # owner => cache'[c] = cache[c]
  BY <1>3, <1>9 DEF PagerType
<1>11. PagerType'
  BY <1>3, <1>5, <1>8, <1>10 DEF PagerType, play, bounds
<1>12. HistoryOK' /\ CachesOK'
  BY <1>3, <1>10, HistorySame, CachesSame DEF history, play, TxPlace
<1>13. TxPlace'
  <2>1. Len(base) <= dbSize'
    BY <1>4, <1>5
  <2>2. QED
    BY <1>3, <1>8, <2>1 DEF TxPlace, play, history, PageCount
<1>14. TxCache'
  <2>1. UNCHANGED <<base, owner, dbFileVers, goal>> /\ PageCount' = PageCount
    BY <1>3 DEF history, PageCount
  <2>2. ASSUME NEW q \in dirty'
        PROVE  /\ cache'[owner][q] # NotCached
               /\ q > PageCount => cache'[owner][q] # Torn
               /\ q <= Len(base) => q \in pInJournal'
    <3>1. CASE q = p
      BY <3>1, <1>8, <1>9, <1>10
    <3>2. CASE q # p
      <4>1. q \in dirty /\ q \in Pages
        BY <3>2, <1>8
      <4>2. cache'[owner][q] = cache[owner][q]
        BY <3>2, <4>1, <1>10
      <4>3. QED
        BY <4>1, <4>2, <1>8 DEF TxCache
    <3>3. QED
      BY <3>1, <3>2
  <2>3. ASSUME NEW q \in Pages \ dirty', cache'[owner][q] # NotCached
        PROVE  q <= PageCount /\ cache'[owner][q] = db.data[q]
    <3>1. q \in Pages \ dirty /\ cache'[owner][q] = cache[owner][q]
      BY <1>8, <1>10
    <3>2. QED
      BY <2>3, <3>1 DEF TxCache
  <2>4. \A q \in 1 .. dbSize' : q <= PageCount \/ q \in dirty'
    BY <1>5, <1>8 DEF TxCache
  <2>5. cache'[owner][1] # NotCached
    <3>1. CASE p = 1
      BY <3>1, <1>9, <1>10
    <3>2. CASE p # 1
      <4>1. dbSize > 0 /\ 1 \in Pages
        BY <3>2, <1>4 DEF Pages
      <4>2. QED
        BY <3>2, <4>1, <1>10 DEF TxCache
    <3>3. QED
      BY <3>1, <3>2
  <2>6. Len(base) > 0 => 1 \notin pInJournal' /\ dbFileVers[owner] = base[1]
    <3>1. Len(base) > 0 => 1 \notin pInJournal /\ p # 1
      BY <1>4 DEF TxCache
    <3>2. QED
      BY <3>1, <1>8 DEF TxCache
  <2>7. goal = 0
    BY DEF TxPlace
  <2>8. QED
    BY <1>3, <1>8, <2>1, <2>2, <2>3, <2>4, <2>5, <2>6, <2>7 DEF TxCache
<1>15. QED
  <2>1. owner' # None /\ Always' /\ TxPhase'
    BY <1>3, <1>7, <1>8, <1>11, <1>12, <1>13, <1>14, SqlitePagerAssumption
  <2>2. QED
    BY <2>1, ToTransaction

\* pager_incr_changecounter: page 1 changes once in a transaction, so that
\* the version of every other cache becomes old.
LEMMA IncrChangeCounterStep ==
  ASSUME PagerInv, IncrChangeCounter
  PROVE  PagerInv'
<1>1. pc = "count" /\ pc \in Working /\ pc' = "discard" /\ pc' \in Working
  BY DEF IncrChangeCounter, Working
<1>2. Always /\ TxPhase /\ owner \in Conns
  BY <1>1, FromWorking
<1> USE <1>1, <1>2 DEF Always, TxPhase
<1>3. /\ UNCHANGED <<db, owner, goal, state, journalStarted, sizes, journalHdr,
                     play, bounds, history>>
      /\ Journalled(1, Read(1))
  BY DEF IncrChangeCounter
<1>4. /\ goal = 0 /\ dbSize >= 1 /\ 1 \in Pages /\ Len(base) \in Nat
      /\ cache[owner][1] # NotCached /\ Read(1) = cache[owner][1]
  BY DatabaseFile, SqlitePagerAssumption DEF TxPlace, TxCache, Pages, Read, PagerType
<1> DEFINE w == dbFileVers[owner] + 1
<1>5. dbFileVers' = dbFileVers /\ cache' = [cache EXCEPT ![owner][1] = w]
  BY <1>4 DEF IncrChangeCounter, HasPage1, Incremented, PagerType
<1>6. 1 \notin pInJournal /\ 1 <= Len(base) => Read(1) = base[1]
  <2> SUFFICES ASSUME 1 \notin pInJournal, 1 <= Len(base)
               PROVE  cache[owner][1] = base[1]
    BY <1>4
  <2>1. 1 \in Pages \ dirty /\ 1 \in 1 .. Len(base)
    BY <1>4 DEF TxCache
  <2>2. QED
    BY <2>1, <1>4 DEF TxCache, TxPages
<1>7. DiskType' /\ FilesOK' /\ TxJournal'
  <2>1. UNCHANGED <<db, tx, history, journalHdr>>
    BY <1>3 DEF bounds
  <2>2. pc' # "zsync" /\ pc' \in {"count", "discard"}
    OBVIOUS
  <2>3. QED
    BY <1>3, <1>4, <1>6, <2>1, <2>2, JournalledFacts
<1>8. /\ dirty' = dirty \cup {1} /\ dbModified' = TRUE
      /\ dirty' \subseteq Pages /\ need' \subseteq Pages
      /\ pInJournal' \subseteq Pages
      /\ needSync' \in BOOLEAN /\ nRec' \in Nat /\ journalOff' \in Nat
      /\ need' # {} => needSync'
      /\ need' \subseteq dirty'
      /\ 1 <= Len(base) => 1 \in pInJournal'
      /\ pInJournal \subseteq pInJournal'
      /\ \A q \in pInJournal' : q \in pInJournal \/ q = 1
      /\ TxPages'
  BY <1>3, <1>4, JournalledPages
<1>9. /\ w \in Values /\ w # NotCached /\ w # Torn
      /\ Len(base) > 0 => w > base[1]
  <2>1. dbFileVers[owner] \in Int /\ dbFileVers[owner] >= -1
    BY DEF PagerType, Values, Torn
  <2>2. Len(base) > 0 => dbFileVers[owner] = base[1]
    BY DEF TxCache
  <2>3. QED
    BY <2>1, <2>2 DEF Values, Torn, NotCached
<1> HIDE DEF w
<1>10. /\ cache' \in [Conns -> [Pages -> Values \cup {NotCached}]]
       /\ cache'[owner][1] = w
       /\ \A q \in Pages : q # 1 => cache'[owner][q] = cache[owner][q]
       /\ \A c \in Conns : c # owner => cache'[c] = cache[c]
  BY <1>4, <1>5, <1>9 DEF PagerType
<1>11. PagerType'
  BY <1>3, <1>5, <1>8, <1>10 DEF PagerType, sizes, play, bounds
<1>12. HistoryOK' /\ CachesOK'
  BY <1>3, <1>5, <1>10, HistorySame, CachesSame DEF history, play, TxPlace
<1>13. TxPlace'
  BY <1>3, <1>4, <1>8 DEF TxPlace, sizes, play, history, PageCount
<1>14. TxCache'
  <2>1. UNCHANGED <<base, owner, dbFileVers, goal, dbSize>> /\ PageCount' = PageCount
    BY <1>3, <1>5 DEF history, PageCount, sizes
  <2>2. ASSUME NEW q \in dirty'
        PROVE  /\ cache'[owner][q] # NotCached
               /\ q > PageCount => cache'[owner][q] # Torn
               /\ q <= Len(base) => q \in pInJournal'
    <3>1. CASE q = 1
      BY <3>1, <1>8, <1>9, <1>10
    <3>2. CASE q # 1
      <4>1. q \in dirty /\ q \in Pages
        BY <3>2, <1>8
      <4>2. cache'[owner][q] = cache[owner][q]
        BY <3>2, <4>1, <1>10
      <4>3. QED
        BY <4>1, <4>2, <1>8 DEF TxCache
    <3>3. QED
      BY <3>1, <3>2
  <2>3. ASSUME NEW q \in Pages \ dirty', cache'[owner][q] # NotCached
        PROVE  q <= PageCount /\ cache'[owner][q] = db.data[q]
    <3>1. q \in Pages \ dirty /\ cache'[owner][q] = cache[owner][q]
      BY <1>8, <1>10
    <3>2. QED
      BY <2>3, <3>1 DEF TxCache
  <2>4. \A q \in 1 .. dbSize : q <= PageCount \/ q \in dirty'
    BY <1>8 DEF TxCache
  <2>5. Len(base) > 0 => 1 \in pInJournal'
    BY <1>4, <1>8
  <2>6. 1 \in dirty'
    BY <1>8
  <2>7. QED
    BY <1>3, <1>4, <1>8, <1>9, <1>10, <2>1, <2>2, <2>3, <2>4, <2>5, <2>6 DEF TxCache
<1>15. QED
  <2>1. owner' # None /\ state' # "shared" /\ Always' /\ TxPhase'
    BY <1>3, <1>7, <1>8, <1>11, <1>12, <1>13, <1>14, SqlitePagerAssumption
       DEF TxPlace, Writing
  <2>2. QED
    BY <2>1, ToTransaction

\* The pages a shrinking commit cuts off are journalled first.
LEMMA JournalDiscardedStep ==
  ASSUME PagerInv, JournalDiscarded
  PROVE  PagerInv'
<1>1. pc = "discard" /\ pc \in Working /\ pc' \in {"discard", "sync", "write"}
      /\ pc' \in Working
  BY DEF JournalDiscarded, Working
<1>2. Always /\ TxPhase /\ owner \in Conns
  BY <1>1, FromWorking
<1> USE <1>1, <1>2 DEF Always, TxPhase
<1>3. goal = 0 /\ dbSize \in Nat /\ dbSize >= 1 /\ dbOrigSize = Len(base)
      /\ Len(base) \in Nat /\ Len(base) <= PageCount /\ PageCount \in Nat
  BY DatabaseFile DEF TxPlace, PagerType, FilesOK
<1>4. CASE Discarded = {}
  <2>3. /\ UNCHANGED <<files, owner, goal, state, caches, pages, flags, sizes,
                       journal, play, bounds, history>>
        /\ pc' = IF needSync THEN "sync" ELSE "write"
    BY <1>4 DEF JournalDiscarded, files, caches, pages, flags, journal
  <2>4. PagerType'
    BY <2>3
       DEF PagerType, caches, pages, flags, sizes, journal, play, bounds, Working
  <2>5. DiskType' /\ FilesOK' /\ HistoryOK' /\ CachesOK'
    BY <2>3, DiskSame, FilesSame, HistorySame, CachesSame
       DEF files, history, bounds, caches, play, TxPlace
  <2>6. TxPlace'
    BY <2>3, <1>3
       DEF TxPlace, files, pages, flags, sizes, journal, play, history, PageCount
  <2>7. TxPages'
    BY <2>3 DEF TxPages, files, pages, journal, history
  <2>8. TxCache'
    BY <2>3 DEF TxCache, files, caches, pages, sizes, journal, history, PageCount
  <2>9. TxJournal'
    BY <2>3
       DEF TxJournal, TxSections, LiveData, files, bounds, journal, history, pages
  <2>10. owner' # None /\ state' # "shared" /\ Always' /\ TxPhase'
    BY <2>3, <2>4, <2>5, <2>6, <2>7, <2>8, <2>9, SqlitePagerAssumption
       DEF TxPlace, Writing
  <2>11. QED
    BY <2>10, <1>1, ToTransaction DEF Working
<1>5. CASE Discarded # {}
  <2> DEFINE p == Min(Discarded)
  <2>1. p \in Discarded
    <3>1. Discarded \in SUBSET Nat
      BY <1>3 DEF Discarded
    <3>2. QED
      BY <3>1, <1>5, LeastPage
  <2>2. /\ UNCHANGED <<db, owner, goal, state, journalStarted, sizes, journalHdr,
                       play, bounds, history, pc>>
        /\ Journalled(p, Read(p)) /\ Fetched(p)
    BY <1>5 DEF JournalDiscarded
  <2> HIDE DEF p
  <2>3. /\ p \in 1 .. Len(base) /\ p > dbSize /\ p # 1 /\ p \in Pages
        /\ p \notin pInJournal
    <3>1. p \in dbSize + 1 .. dbOrigSize /\ p \notin pInJournal
      BY <2>1 DEF Discarded
    <3>2. dbOrigSize <= MaxPages /\ MaxPages \in Nat
      BY SqlitePagerAssumption DEF PagerType
    <3>3. QED
      BY <3>1, <3>2, <1>3 DEF Pages
  <2>4. db.data[p] = base[p] /\ Read(p) = base[p] /\ p \notin dirty /\ p <= PageCount
    <3>1. db.data[p] = base[p] /\ p \notin dirty /\ p <= PageCount
      BY <2>3, <1>3 DEF TxPages, TxCache
    <3>2. QED
      BY <3>1, <2>3 DEF Read, TxCache
  <2>5. Read(p) \in Values /\ Read(p) # NotCached
    BY <2>3, <2>4, DatabaseFile DEF Values, Torn, NotCached
  <2>6. dbFileVers' = dbFileVers /\ cache' = [cache EXCEPT ![owner][p] = Read(p)]
    BY <2>2, <2>3 DEF Fetched
  <2>7. DiskType' /\ FilesOK' /\ TxJournal'
    <3>1. UNCHANGED <<db, tx, history, journalHdr>>
      BY <2>2 DEF bounds
    <3>2. pc' # "zsync" /\ pc' \in {"count", "discard"}
      BY <2>2
    <3>3. QED
      BY <2>2, <2>3, <2>4, <3>1, <3>2, JournalledFacts
  <2>8. /\ dirty' = dirty \cup {p} /\ dbModified' = TRUE
        /\ dirty' \subseteq Pages /\ need' \subseteq Pages
        /\ pInJournal' \subseteq Pages
        /\ needSync' \in BOOLEAN /\ nRec' \in Nat /\ journalOff' \in Nat
        /\ need' # {} => needSync'
        /\ need' \subseteq dirty'
        /\ p <= Len(base) => p \in pInJournal'
        /\ pInJournal \subseteq pInJournal'
        /\ \A q \in pInJournal' : q \in pInJournal \/ q = p
        /\ TxPages'
    BY <2>2, <2>3, JournalledPages
  <2>10. /\ cache' \in [Conns -> [Pages -> Values \cup {NotCached}]]
         /\ cache'[owner][p] = Read(p)
         /\ \A q \in Pages : q # p => cache'[owner][q] = cache[owner][q]
         /\ \A c \in Conns : c # owner => cache'[c] = cache[c]
    BY <2>3, <2>5, <2>6 DEF PagerType
  <2>11. PagerType'
    BY <2>2, <2>6, <2>8, <2>10 DEF PagerType, sizes, play, bounds
  <2>12. HistoryOK' /\ CachesOK'
    BY <2>2, <2>6, <2>10, HistorySame, CachesSame DEF history, play, TxPlace
  <2>13. TxPlace'
    BY <2>2, <1>3, <2>8 DEF TxPlace, sizes, play, history, PageCount
  <2>14. TxCache'
    <3>1. UNCHANGED <<base, owner, dbFileVers, goal, dbSize, db>>
          /\ PageCount' = PageCount
      BY <2>2, <2>6 DEF history, PageCount, sizes
    <3>2. ASSUME NEW q \in dirty'
          PROVE  /\ cache'[owner][q] # NotCached
                 /\ q > PageCount => cache'[owner][q] # Torn
                 /\ q <= Len(base) => q \in pInJournal'
      <4>1. CASE q = p
        <5>1. ~(p > PageCount) /\ p <= Len(base)
          BY <2>3, <2>4, <1>3
        <5>2. QED
          BY <4>1, <5>1, <2>5, <2>8, <2>10
      <4>2. CASE q # p
        <5>1. q \in dirty /\ q \in Pages
          BY <4>2, <2>8
        <5>2. cache'[owner][q] = cache[owner][q]
          BY <4>2, <5>1, <2>10
        <5>3. QED
          BY <5>1, <5>2, <2>8 DEF TxCache
      <4>3. QED
        BY <4>1, <4>2
    <3>3. ASSUME NEW q \in Pages \ dirty', cache'[owner][q] # NotCached
          PROVE  q <= PageCount /\ cache'[owner][q] = db.data[q]
      <4>1. q \in Pages \ dirty /\ cache'[owner][q] = cache[owner][q]
        BY <2>8, <2>10
      <4>2. QED
        BY <3>3, <4>1 DEF TxCache
    <3>4. \A q \in 1 .. dbSize : q <= PageCount \/ q \in dirty'
      BY <2>8 DEF TxCache
    <3>5. cache'[owner][1] = cache[owner][1]
      BY <2>3, <2>10, SqlitePagerAssumption DEF Pages
    <3>6. (1 \in dirty' <=> 1 \in dirty) /\ (1 \in pInJournal' <=> 1 \in pInJournal)
      BY <2>3, <2>8
    <3>7. QED
      BY <1>3, <2>2, <2>8, <3>1, <3>2, <3>3, <3>4, <3>5, <3>6 DEF TxCache
  <2>15. QED
    <3>1. owner' # None /\ state' # "shared" /\ Always' /\ TxPhase'
      BY <2>2, <2>7, <2>8, <2>11, <2>12, <2>13, <2>14, SqlitePagerAssumption
         DEF TxPlace, Writing
    <3>2. QED
      BY <3>1, ToTransaction
<1>6. QED
  BY <1>4, <1>5

-----------------------------------------------------------------------------
(* A connection that reads.                                                *)

\* The lock is released.
LEMMA UnlockedType ==
  ASSUME PagerType, Unlocked, faults' \in Nat,
         cache' \in [Conns -> [Pages -> Values \cup {NotCached}]],
         dbFileVers' \in [Conns -> Values]
  PROVE  PagerType'
<1>1. MaxPages \in Nat
  BY SqlitePagerAssumption
<1>2. /\ owner' = None /\ pc' = "idle" /\ goal' = 0 /\ state' = "unlock"
      /\ dbSize' = 0 /\ errCode' = FALSE /\ dirty' = {} /\ need' = {}
      /\ needSync' = FALSE /\ journalStarted' = FALSE /\ dbModified' = FALSE
      /\ dbOrigSize' = 0 /\ pInJournal' = {} /\ nRec' = 0 /\ journalOff' = 0
      /\ journalHdr' = 0 /\ isHot' = FALSE /\ left' = 0 /\ isUnsync' = FALSE
      /\ cksumInit' = 0
  BY DEF Unlocked, Reset
<1>3. goal' \in 0 .. MaxPages /\ dbSize' \in 0 .. MaxPages
      /\ dbOrigSize' \in 0 .. MaxPages
  BY <1>1, <1>2
<1>4. QED
  BY <1>2, <1>3 DEF PagerType

\* With nothing to play back the lock can be given up.
LEMMA QuietIdle ==
  ASSUME DiskType, Quiet
  PROVE  CutShort \/ (~LiveData /\ Quiet)
<1>1. CASE base = <<>>
  BY <1>1 DEF CutShort
<1>2. CASE base # <<>>
  <2>1. NoHeader(jr.may) /\ OneOf(jr.data, jr.may, jr.lens)
        /\ Len(jr.data) \in Nat /\ Len(jr.may) \in Nat
    BY <1>2, JournalFile DEF Quiet
  <2>2. Len(jr.data) >= 1 => Len(jr.may) >= 1 /\ jr.data[1] \in jr.may[1]
    BY <2>1 DEF OneOf
  <2>3. ~LiveData
    BY <2>1, <2>2 DEF NoHeader, LiveData
  <2>4. QED
    BY <2>3
<1>3. QED
  BY <1>1, <1>2

\* An empty cache has no page.
LEMMA NoPagesCached ==
  ASSUME NEW pgs \in [Pages -> Values \cup {NotCached}]
  PROVE  pgs # NoPages <=> \E p \in Pages : pgs[p] # NotCached
<1>1. ASSUME \A p \in Pages : pgs[p] = NotCached PROVE pgs = NoPages
  BY <1>1 DEF NoPages
<1>2. QED
  BY <1>1 DEF NoPages

\* sqlite3PagerAcquire under a shared lock: what is read is what is committed.
LEMMA AcquireShared ==
  ASSUME PagerInv, NEW p \in Pages, Acquire(p), state = "shared"
  PROVE  PagerInv'
<1>1. pc = "ready" /\ pc' = "ready" /\ state' = "shared"
  BY DEF Acquire
<1>2. Always /\ Shared /\ owner \in Conns
  BY FromShared
<1> USE <1>1, <1>2 DEF Always
<1>3. /\ goal = 0 /\ ~errCode /\ ~isHot /\ Clean /\ Quiet /\ dbSize = PageCount
      /\ cache[owner] # NoPages =>
           /\ Len(base) > 0
           /\ dbFileVers[owner] = base[1]
           /\ Coherent(cache[owner], base)
  BY DEF Shared
<1>4. /\ UNCHANGED <<files, owner, goal, pages, flags, sizes, journal, play,
                     bounds, history>>
      /\ p <= dbSize /\ cache[owner][p] = NotCached
      /\ p # 1 => cache[owner][1] # NotCached
      /\ cache' = [cache EXCEPT ![owner][p] = Read(p)]
      /\ dbFileVers' = IF p = 1 THEN [dbFileVers EXCEPT ![owner] = Read(1)]
                                ELSE dbFileVers
  BY DEF Acquire, Fetched, HasPage1
<1>5. /\ base = db.data /\ PageCount = Len(base) /\ Len(base) \in Nat
      /\ p \in 1 .. Len(base) /\ Read(p) = base[p] /\ base[p] \in Values
      /\ base[p] # NotCached /\ Len(base) > 0 /\ 1 \in Pages
  <2>1. /\ base = db.data /\ PageCount = Len(base) /\ Len(base) \in Nat
        /\ p \in 1 .. Len(base) /\ base \in Seq(Values)
    BY <1>3, <1>4, DatabaseFile DEF Quiet, Pages
  <2>2. base[p] \in Values
    BY <2>1
  <2>3. QED
    BY <2>1, <2>2, <1>4, SqlitePagerAssumption
       DEF Read, Pages, Values, Torn, NotCached
<1>6. /\ cache' \in [Conns -> [Pages -> Values \cup {NotCached}]]
      /\ cache'[owner][p] = base[p]
      /\ \A q \in Pages : q # p => cache'[owner][q] = cache[owner][q]
      /\ \A c \in Conns : c # owner => cache'[c] = cache[c]
  BY <1>4, <1>5 DEF PagerType
<1>7. dbFileVers[owner] = base[1] \/ p = 1
  BY <1>3, <1>4, <1>5, NoPagesCached DEF PagerType
<1>8. /\ dbFileVers' \in [Conns -> Values] /\ dbFileVers'[owner] = base[1]
      /\ \A c \in Conns : c # owner => dbFileVers'[c] = dbFileVers[c]
  BY <1>4, <1>5, <1>7 DEF PagerType
<1>9. Coherent(cache'[owner], base)
  <2>1. Coherent(cache[owner], base)
    BY <1>3, NoPagesCached DEF Coherent, PagerType
  <2>2. QED
    BY <2>1, <1>5, <1>6 DEF Coherent
<1>10. DiskType' /\ FilesOK' /\ HistoryOK'
  BY <1>4, DiskSame, FilesSame, HistorySame DEF files, history, bounds
<1>11. PagerType'
  BY <1>4, <1>6, <1>8
     DEF PagerType, pages, flags, sizes, journal, play, bounds
<1>12. CachesOK'
  BY <1>3, <1>4, <1>6, <1>8, CachesSame DEF play, history
<1>13. Shared'
  <2>1. UNCHANGED <<db, jr, base, safe, owner, goal, dirty, need, dbModified,
                    dbSize, errCode, isHot>>
    BY <1>4 DEF files, history, pages, flags, sizes, play
  <2>2. Clean' /\ Quiet' /\ PageCount' = PageCount
    BY <2>1, <1>3 DEF Clean, Quiet, PageCount
  <2>3. QED
    BY <2>1, <2>2, <1>3, <1>5, <1>8, <1>9 DEF Shared
<1>14. QED
  <2>1. owner' # None /\ Always'
    BY <1>4, <1>10, <1>11, <1>12, SqlitePagerAssumption
  <2>2. QED
    BY <2>1, <1>13, ToShared

\* pagerSharedLock keeps the cache only if the version is that of the file.
LEMMA CheckVersionStep ==
  ASSUME PagerInv, CheckVersion
  PROVE  PagerInv'
<1>1. pc = "check" /\ pc' = "ready" /\ state = "shared" /\ state' = "shared"
  BY DEF CheckVersion, PagerInv
<1>2. Always /\ Shared /\ owner \in Conns
  BY <1>1, FromShared
<1> USE <1>1, <1>2 DEF Always
<1>3. goal = 0 /\ ~errCode /\ ~isHot /\ Clean /\ Quiet
  BY DEF Shared
<1>4. /\ UNCHANGED <<files, owner, goal, dbFileVers, pages, flags, dbOrigSize,
                     journal, play, bounds, history>>
      /\ cache' = IF Stale THEN [cache EXCEPT ![owner] = NoPages] ELSE cache
      /\ dbSize' = PageCount
  BY DEF CheckVersion
<1>5. NoPages \in [Pages -> Values \cup {NotCached}]
  BY DEF NoPages
<1>6. /\ cache' \in [Conns -> [Pages -> Values \cup {NotCached}]]
      /\ \A c \in Conns : c # owner => cache'[c] = cache[c]
      /\ cache'[owner] # NoPages => ~Stale /\ cache'[owner] = cache[owner]
  BY <1>4, <1>5 DEF PagerType
<1>7. /\ base = db.data /\ PageCount = Len(base) /\ Len(base) \in Nat
      /\ PageCount \in 0 .. MaxPages
  BY <1>3, DatabaseFile, SqlitePagerAssumption DEF Quiet, DiskType
<1>8. VersionOK(cache[owner], dbFileVers[owner], base)
  BY DEF CachesOK
<1>9. cache'[owner] # NoPages => /\ Len(base) > 0
                                 /\ dbFileVers[owner] = base[1]
                                 /\ Coherent(cache'[owner], base)
  BY <1>6, <1>7, <1>8 DEF VersionOK, Stale, FileVers
<1>10. DiskType' /\ FilesOK' /\ HistoryOK'
  BY <1>4, DiskSame, FilesSame, HistorySame DEF files, history, bounds
<1>11. PagerType'
  BY <1>4, <1>6, <1>7
     DEF PagerType, pages, flags, journal, play, bounds
<1>12. CachesOK'
  BY <1>3, <1>4, <1>6, CachesSame DEF play, history
<1>13. Shared'
  <2>1. UNCHANGED <<db, jr, base, safe, owner, goal, dirty, need, dbModified,
                    errCode, isHot, dbFileVers>>
    BY <1>4 DEF files, history, pages, flags, play
  <2>2. Clean' /\ Quiet' /\ PageCount' = PageCount
    BY <2>1, <1>3 DEF Clean, Quiet, PageCount
  <2>3. QED
    BY <2>1, <2>2, <1>3, <1>4, <1>9 DEF Shared
<1>14. QED
  <2>1. owner' # None /\ Always'
    BY <1>4, <1>10, <1>11, <1>12, SqlitePagerAssumption
  <2>2. QED
    BY <2>1, <1>13, ToShared

\* pager_unlock leaves a cache that is right for the version it remembers.
LEMMA PagerUnlockStep ==
  ASSUME PagerInv, pager_unlock
  PROVE  PagerInv'
<1>1. pc = "ready" /\ state = "shared" /\ pc' = "idle"
  BY DEF pager_unlock, Unlocked
<1>2. Always /\ Shared /\ owner \in Conns
  BY <1>1, FromShared
<1> USE <1>1, <1>2 DEF Always
<1>3. /\ goal = 0 /\ ~errCode /\ ~isHot /\ Clean /\ Quiet
      /\ cache[owner] # NoPages =>
           /\ Len(base) > 0
           /\ dbFileVers[owner] = base[1]
           /\ Coherent(cache[owner], base)
  BY DEF Shared
<1>4. UNCHANGED <<files, caches, bounds, history>> /\ Unlocked /\ Reset
  BY DEF pager_unlock, Unlocked
<1>5. /\ owner' = None /\ goal' = 0 /\ state' = "unlock" /\ errCode' = FALSE
      /\ isHot' = FALSE /\ dirty' = {} /\ need' = {} /\ dbModified' = FALSE
  BY <1>4 DEF Unlocked, Reset
<1>6. DiskType' /\ FilesOK' /\ HistoryOK'
  BY <1>4, DiskSame, FilesSame, HistorySame DEF files, history, bounds
<1>7. PagerType'
  <2>1. faults' \in Nat /\ cache' = cache /\ dbFileVers' = dbFileVers
    BY <1>4 DEF PagerType, bounds, caches
  <2>2. /\ cache' \in [Conns -> [Pages -> Values \cup {NotCached}]]
        /\ dbFileVers' \in [Conns -> Values]
    BY <2>1 DEF PagerType
  <2>3. QED
    BY <1>4, <2>1, <2>2, UnlockedType
<1>8. CachesOK'
  <2>1. VersionOK(cache[owner], dbFileVers[owner], base)
    <3>1. SUFFICES ASSUME cache[owner] # NoPages
                   PROVE  /\ Len(base) > 0
                          /\ dbFileVers[owner] <= base[1]
                          /\ Coherent(cache[owner], base)
      BY DEF VersionOK
    <3>2. dbFileVers[owner] \in Int
      BY DEF PagerType, Values
    <3>3. QED
      BY <3>1, <3>2, <1>3
  <2>2. ASSUME NEW c \in Conns PROVE VersionOK(cache[c], dbFileVers[c], base)
    BY <2>1 DEF CachesOK
  <2>3. QED
    BY <2>2, <1>4 DEF CachesOK, caches, history
<1>9. Idle'
  <2>1. UNCHANGED <<db, jr, base, safe>>
    BY <1>4 DEF files, history
  <2>2. CutShort \/ (~LiveData /\ Quiet)
    BY <1>3, QuietIdle
  <2>3. (CutShort' <=> CutShort) /\ (LiveData' <=> LiveData) /\ (Quiet' <=> Quiet)
    BY <2>1 DEF CutShort, LiveData, Quiet
  <2>4. QED
    BY <2>2, <2>3, <1>5 DEF Idle, Clean
<1>10. QED
  <2>1. Always'
    BY <1>6, <1>7, <1>8
  <2>2. QED
    BY <2>1, <1>5, <1>9, ToIdle

\* pagerSharedLock finds out whether there is a journal to play back.
LEMMA SharedLockStep ==
  ASSUME PagerInv, NEW c \in Conns, SharedLock(c)
  PROVE  PagerInv'
<1>1. owner = None /\ pc = "idle" /\ owner' = c /\ pc' \in {"header", "check"}
  BY DEF SharedLock, PagerInv
<1>2. Always /\ Idle
  BY DEF PagerInv, Always
<1> USE <1>1, <1>2 DEF Always
<1>3. /\ state = "unlock" /\ goal = 0 /\ ~errCode /\ ~isHot /\ Clean
      /\ CutShort \/ (~LiveData /\ Quiet)
  BY DEF Idle
<1>4. /\ UNCHANGED <<db, goal, caches, pages, needSync, dbModified,
                     dbOrigSize, pInJournal, nRec, left,
                     isUnsync, cksumInit, errCode, bounds, history>>
      /\ isHot' = hasHotJournal
      /\ dbSize' = PageCount /\ journalOff' = 0 /\ journalHdr' = 0
      /\ journalStarted' = FALSE
      /\ jr' = IF PageCount = 0 THEN Unlink(jr) ELSE jr
      /\ IF hasHotJournal THEN state' = "exclusive" /\ pc' = "header"
                          ELSE state' = "shared" /\ pc' = "check"
  BY DEF SharedLock
<1>5. /\ UNCHANGED <<db, tx, faults, committed, previous, inDoubt, base, safe,
                     cache, dbFileVers, dirty, need>>
  BY <1>4 DEF bounds, history, caches, pages
<1>6. /\ PageCount \in 0 .. MaxPages /\ PageCount = Len(db.data)
      /\ Len(db.data) \in Nat /\ Len(jr.data) \in Nat /\ Len(base) \in Nat
      /\ Len(base) <= PageCount /\ MaxPages \in Nat /\ Clean'
  BY <1>3, <1>5, <1>4, DatabaseFile, JournalFile, SqlitePagerAssumption
     DEF DiskType, FilesOK, Clean
<1>7. PagerType'
  <2>1. state' \in {"exclusive", "shared"} /\ pc' \in {"header", "check"}
        /\ isHot' \in BOOLEAN
    BY <1>4 DEF hasHotJournal
  <2>2. dbSize' \in 0 .. MaxPages
    BY <1>4, <1>6
  <2>3. QED
    BY <2>1, <2>2, <1>4, <1>5 DEF PagerType, Playing
<1>8. HistoryOK'
  BY <1>5, HistorySame
<1>9. CachesOK'
  BY <1>5 DEF CachesOK
<1>10. owner' # None
  BY SqlitePagerAssumption
<1>11. CASE hasHotJournal
  <2>1. /\ jr' = jr /\ pc' = "header" /\ state' = "exclusive" /\ isHot'
        /\ Len(jr.data) > 0 /\ PageCount > 0
    <3>1. Len(jr.data) > 0 /\ PageCount > 0
      BY <1>11 DEF hasHotJournal
    <3>2. PageCount # 0
      BY <3>1, <1>6
    <3>3. QED
      BY <3>1, <3>2, <1>4, <1>11
  <2>2. DiskType' /\ FilesOK'
    BY <1>5, <2>1, DiskSame, FilesSame DEF history
  <2>3. OwnPlayback'
    BY <2>1 DEF OwnPlayback
  <2>4. (LiveData' <=> LiveData) /\ (Quiet' <=> Quiet) /\ journalOff' <= Len(jr'.data)
    BY <1>4, <1>5, <1>6, <2>1 DEF LiveData, Quiet
  <2>5. ASSUME LiveData, base # <<>> PROVE HotPages'
    <3>1. Sealed(jr.may, safe) /\ IsHeader(jr.data[1])
      BY <1>3, <2>5 DEF CutShort, LiveData
    <3>2. safe \in Nat
      BY DEF DiskType
    <3>3. HotStop(0)' /\ HotStop(journalOff)'
      <4>1. Boundary(0, jr'.data, safe')
        BY <3>1, <3>2, <2>1, <1>5 DEF Boundary
      <4>2. QED
        BY <4>1, <1>4 DEF HotStop
    <3>4. ASSUME NEW p \in 1 .. Len(base)
          PROVE  \/ db.data[p] = base[p]
                 \/ RecordIn(p, 0, PlayEnd(jr.data, safe), jr.data, base, tx)
      <4>1. CASE Restorable(p, jr.may, base, tx, safe)
        <5>1. JournalOK(jr.may, jr.lens, base, tx, safe)
          BY <2>5, MayOutside DEF FilesOK
        <5>2. Possible(jr.may, jr.lens) /\ OneOf(jr.data, jr.may, jr.lens)
          BY JournalFile
        <5>3. QED
          BY <4>1, <5>1, <5>2, <3>2, RestorableIsPlayed
      <4>2. QED
        BY <4>1, MayOutside DEF FilesOK
    <3>5. QED
      BY <3>1, <3>3, <3>4, <2>1, <1>4, <1>5 DEF HotPages
  <2>6. HotPlayback'
    <3>1. ~LiveData => Quiet
      BY <1>3 DEF CutShort
    <3>2. QED
      BY <3>1, <2>1, <2>4, <2>5, <1>3, <1>4, <1>5, <1>6 DEF HotPlayback
  <2>7. Always' /\ pc' \in Playing
    BY <2>1, <2>2, <1>7, <1>8, <1>9 DEF Playing
  <2>8. QED
    BY <2>3, <2>6, <2>7, <1>10, ToPlaying
<1>12. CASE ~hasHotJournal
  <2>1. pc' = "check" /\ state' = "shared" /\ ~isHot'
    BY <1>4, <1>12
  <2>2. CASE PageCount = 0
    <3>1. jr' = Unlink(jr) /\ base = <<>> /\ db.data = <<>>
      <4>1. base \in Seq(Values) /\ db.data \in Seq(Values)
        BY DatabaseFile
      <4>2. Len(base) = 0 /\ Len(db.data) = 0
        BY <2>2, <1>6
      <4>3. QED
        BY <4>1, <4>2, <2>2, <1>4, EmptySeq
    <3>2. /\ jr'.data = <<>> /\ jr'.may = jr.may /\ jr'.lens = jr.lens \cup {0}
          /\ FileOK(jr', Blocks)
      <4>1. FileOK(jr, Blocks)
        BY DEF DiskType
      <4>2. /\ jr \in [data : Seq(Blocks), may : Seq(SUBSET Blocks), lens : SUBSET Nat]
            /\ Len(jr.may) \in Nat
        BY <4>1 DEF FileOK
      <4>3. /\ jr'.data = <<>> /\ jr'.may = jr.may /\ jr'.lens = jr.lens \cup {0}
            /\ jr' \in [data : Seq(Blocks), may : Seq(SUBSET Blocks), lens : SUBSET Nat]
        <5>1. <<>> \in Seq(Blocks) /\ jr.lens \cup {0} \in SUBSET Nat
          BY <4>2, EmptySeq
        <5>2. jr' = [jr EXCEPT !.data = <<>>, !.lens = jr.lens \cup {0}]
          BY <3>1 DEF Unlink
        <5>3. jr.data \in Seq(Blocks) /\ jr.may \in Seq(SUBSET Blocks)
          BY <4>2
        <5>4. jr' = [data |-> <<>>, may |-> jr.may, lens |-> jr.lens \cup {0}]
          BY <5>2, <4>2
        <5>5. QED
          BY <5>1, <5>3, <5>4
      <4>4. Len(jr'.data) = 0
        BY <4>3, EmptySeq
      <4>5. QED
        BY <4>1, <4>2, <4>3, <4>4 DEF FileOK
    <3>3. DiskType'
      BY <1>5, <3>2 DEF DiskType
    <3>4. FilesOK'
      <4>1. PageCount' = PageCount
        BY <1>5 DEF PageCount
      <4>2. 1 .. Len(base) = {} /\ Len(base) = 0
        BY <2>2, <1>6
      <4>3. UNCHANGED <<db, base, inDoubt>>
        BY <1>5
      <4>4. QED
        BY <4>1, <4>2, <4>3, <3>1, <3>2 DEF FilesOK
    <3>5. Quiet'
      BY <3>1, <1>5 DEF Quiet
    <3>6. Shared'
      BY <2>1, <3>5, <1>3, <1>4, <1>6 DEF Shared
    <3>7. Always'
      BY <3>3, <3>4, <1>7, <1>8, <1>9
    <3>8. QED
      BY <2>1, <3>6, <3>7, <1>10, ToShared
  <2>3. CASE PageCount # 0
    <3>1. jr' = jr /\ Len(jr.data) = 0
      BY <2>3, <1>4, <1>6, <1>12 DEF hasHotJournal
    <3>2. DiskType' /\ FilesOK'
      BY <1>5, <2>1, <3>1, DiskSame, FilesSame DEF history
    <3>3. Quiet
      BY <3>1, <1>3 DEF CutShort, LiveData
    <3>4. Quiet'
      BY <3>1, <3>3, <1>5 DEF Quiet
    <3>5. Shared'
      BY <2>1, <3>4, <1>3, <1>4, <1>6 DEF Shared
    <3>6. Always'
      BY <3>2, <1>7, <1>8, <1>9
    <3>7. QED
      BY <2>1, <3>5, <3>6, <1>10, ToShared
  <2>4. QED
    BY <2>2, <2>3
<1>13. QED
  BY <1>11, <1>12

\* Without a header there is nothing to restore.
LEMMA QuietNothing ==
  ASSUME DiskType, FilesOK, pc # "zsync", Quiet, NEW p \in 1 .. Len(base)
  PROVE  ~Restorable(p, jr.may, base, tx, safe)
<1>1. base # <<>>
  BY DatabaseFile, EmptySeq
<1>2. JournalOK(jr.may, jr.lens, base, tx, safe) /\ NoHeader(jr.may) /\ safe \in Nat
  BY <1>1, MayOutside DEF FilesOK, Quiet, DiskType
<1>3. Possible(jr.may, jr.lens) /\ Len(jr.may) \in Nat
  BY JournalFile
<1>4. SUFFICES ASSUME Restorable(p, jr.may, base, tx, safe) PROVE FALSE
  OBVIOUS
<1>5. Len(jr.may) >= 1 /\ \A b \in jr.may[1] : IsHeader(b)
  BY <1>2, <1>3, <1>4, RestorableHeader
<1>6. QED
  BY <1>2, <1>3, <1>5 DEF NoHeader, Possible

\* pager_begin starts a transaction and the first section of its journal; the
\* old sections behind it belong to earlier transactions.
LEMMA BeginStep ==
  ASSUME PagerInv, Begin
  PROVE  PagerInv'
<1>1. pc = "ready" /\ state = "shared" /\ pc' = "ready" /\ state' = "reserved"
  BY DEF Begin
<1>2. Always /\ Shared /\ owner \in Conns
  BY <1>1, FromShared
<1> USE <1>1, <1>2 DEF Always
<1>3. /\ goal = 0 /\ ~errCode /\ ~isHot /\ Clean /\ Quiet /\ dbSize = PageCount
      /\ cache[owner] # NoPages =>
           /\ Len(base) > 0
           /\ dbFileVers[owner] = base[1]
           /\ Coherent(cache[owner], base)
  BY DEF Shared
<1>4. /\ UNCHANGED <<db, owner, goal, caches, pages, dbModified,
                     dbSize, play, faults, history>>
      /\ tx' = tx + 1 /\ dbOrigSize' = dbSize
      /\ journalOff' = 1 /\ journalHdr' = 1
      /\ needSync' = FALSE /\ journalStarted' = FALSE
      /\ pInJournal' = {} /\ nRec' = 0
      /\ dbSize > 0 => cache[owner][1] # NotCached
  BY DEF Begin, HasPage1
<1>5. UNCHANGED <<db, owner, goal, cache, dbFileVers, dirty, need, isHot, errCode,
                  committed, previous, inDoubt, base, safe>>
  BY <1>4 DEF caches, pages, play, history
<1>6. /\ base = db.data /\ Len(base) \in Nat /\ dbSize = Len(base)
      /\ PageCount = Len(base) /\ tx \in Nat
      /\ base # <<>> => safe = 0 /\ NoHeader(jr.may)
      /\ Len(jr.data) \in Nat /\ Len(jr.may) \in Nat /\ Len(jr.data) <= Len(jr.may)
      /\ Possible(jr.may, jr.lens) /\ OneOf(jr.data, jr.may, jr.lens)
  BY <1>3, DatabaseFile, JournalFile DEF Quiet, DiskType
<1> DEFINE H == Header(0, dbSize, tx + 1)
           poss == {H, TornBlock}
<1>7. /\ H \in Blocks /\ IsHeader(H) /\ H.body = 0 /\ H.page = Len(base)
      /\ H.id = tx' /\ H.kind = "header" /\ LiveHeader(H, base, tx')
      /\ ~LiveRecord(H, base, tx')
  BY <1>4, <1>6, BlockTypes DEF LiveHeader, LiveRecord
<1>8. H \in poss /\ (\A b \in poss : Fits(b, tx')) /\ tx' \in Nat /\ tx <= tx'
      /\ 1 \in 1 .. Len(jr.data) + 1
  <2>1. Fits(H, tx')
    BY <1>4, <1>6, <1>7 DEF Fits
  <2>2. Fits(TornBlock, tx')
    BY <1>4, <1>6, BlockTypes DEF Fits
  <2>3. QED
    BY <2>1, <2>2, <1>4, <1>6
<1>9. jr' = Put(jr, 1, H, poss)
  BY DEF Begin, Write
<1> HIDE DEF H, poss
<1>10. /\ FileOK(jr', Blocks) /\ PutFacts(jr', jr, 1, H, poss)
       /\ BlocksOK(jr'.may, tx') /\ Written(jr'.may, jr.may, 1)
       /\ jr'.lens \subseteq Nat /\ Len(jr'.data) \in Nat
  BY <1>8, <1>9, JournalPut
<1>11. /\ 1 <= Len(jr'.data) /\ jr'.data[1] = H
       /\ \A k \in 2 .. Len(jr'.data) : k \in 1 .. Len(jr.data) /\ jr'.data[k] = jr.data[k]
       /\ \A n \in jr'.lens : n \in jr.lens \/ 0 <= n
       /\ \A b \in jr'.may[1] :
            \/ 1 <= Len(jr.may) /\ b \in jr.may[1]
            \/ b = H \/ b = TornBlock
  BY <1>6, <1>10 DEF PutFacts, poss
<1>12. \A k \in 1 .. Len(jr.may) : \A b \in jr.may[k] : b.id # tx'
  <2> SUFFICES ASSUME NEW k \in 1 .. Len(jr.may), NEW b \in jr.may[k]
               PROVE  b.id # tx'
    OBVIOUS
  <2>1. jr.may[k] \in SUBSET Blocks /\ b.id <= tx
    BY JournalFile DEF DiskType, BlocksOK
  <2>2. b.id \in Nat
    BY <2>1 DEF Blocks
  <2>3. QED
    BY <2>1, <2>2, <1>4, <1>6
<1>13. DiskType'
  BY <1>5, <1>8, <1>10 DEF DiskType
<1>14. base # <<>> => \A b \in jr'.may[1] :
          IsHeader(b) => LiveHeader(b, base, tx') /\ b.body = 0
  <2> SUFFICES ASSUME base # <<>>, NEW b \in jr'.may[1], IsHeader(b)
               PROVE  LiveHeader(b, base, tx') /\ b.body = 0
    OBVIOUS
  <2>1. b # TornBlock
    BY BlockTypes
  <2>2. b = H
    BY <2>1, <1>6, <1>11 DEF NoHeader
  <2>3. QED
    BY <2>2, <1>7
<1>15. FilesOK'
  <2>1. ASSUME base = <<>> PROVE NothingToRestore(jr'.may)
    <3>1. NothingToRestore(jr.may)
      BY <2>1 DEF FilesOK
    <3>2. Len(base) = 0
      BY <2>1, EmptySeq
    <3>3. \A b \in jr'.may[1] :
            \/ 1 <= Len(jr.may) /\ b \in jr.may[1]
            \/ b.kind # "record" /\ (IsHeader(b) => b.page = 0)
      BY <3>2, <1>7, <1>11, BlockTypes
    <3>4. QED
      BY <3>1, <3>3, <1>10, NothingGrows
  <2>2. ASSUME base # <<>> PROVE JournalOK(jr'.may, jr'.lens, base, tx', 0)
    <3>1. SafeSections(jr.may, jr.lens, base, tx', 0)
      <4>1. JournalOK(jr.may, jr.lens, base, tx', 0)
        BY <2>2, <1>6, JournalFile, QuietJournal
      <4>2. QED
        BY <4>1 DEF JournalOK
    <3>2. Written(jr'.may, jr.may, 0 + 1)
      BY <1>10
    <3>3. \A b \in jr'.may[0 + 1] :
            IsHeader(b) => LiveHeader(b, base, tx') /\ b.body = 0
      BY <2>2, <1>14
    <3>4. \A i \in 0 + 2 .. Len(jr.may) : \A b \in jr.may[i] :
            IsHeader(b) => b.id # tx'
      BY <1>6, <1>12
    <3>5. \A n \in jr'.lens : n \in jr.lens \/ 0 <= n
      BY <1>11
    <3>6. jr'.lens \subseteq Nat /\ 0 \in Nat /\ Possible(jr.may, jr.lens)
      BY <1>6, <1>10
    <3>7. QED
      BY <3>1, <3>2, <3>3, <3>4, <3>5, <3>6, SectionOpened
  <2>3. \A p \in 1 .. Len(base) : ~Restorable(p, jr.may, base, tx, safe)
    BY <1>3, QuietNothing
  <2>4. QED
    BY <2>1, <2>2, <2>3, <1>5, <1>6, FilesJournal
<1>16. HistoryOK' /\ CachesOK'
  BY <1>3, <1>5, HistorySame, CachesSame
<1>17. PagerType'
  BY <1>4, <1>5, <1>6 DEF PagerType, play
<1>18. TxPlace'
  BY <1>3, <1>4, <1>5, <1>6 DEF TxPlace, Clean, Writing
<1>19. TxPages'
  <2>1. \A p \in 1 .. Len(base) : ~Restorable(p, jr.may, base, tx, safe)
    BY <1>3, QuietNothing
  <2>2. ASSUME NEW p \in 1 .. Len(base)
        PROVE  db.data[p] = base[p] /\ (~inDoubt => \A v \in db.may[p] : v = base[p])
    BY <2>1, <1>6, MayOutside DEF FilesOK
  <2>3. QED
    BY <2>2, <1>5, <1>6 DEF TxPages
<1>20. TxCache'
  <2>1. dirty' = {} /\ need' = {} /\ dbSize' = dbSize /\ PageCount' = PageCount
        /\ goal' = 0
    BY <1>3, <1>4, <1>5 DEF Clean, PageCount
  <2>2. \A q \in Pages : cache[owner][q] # NotCached =>
           q <= PageCount /\ cache[owner][q] = db.data[q]
    <3> SUFFICES ASSUME NEW q \in Pages, cache[owner][q] # NotCached
                 PROVE  q <= PageCount /\ cache[owner][q] = db.data[q]
      OBVIOUS
    <3>1. cache[owner] # NoPages
      BY NoPagesCached DEF PagerType
    <3>2. QED
      BY <3>1, <1>3, <1>6 DEF Coherent
  <2>3. Len(base) > 0 => dbFileVers[owner] = base[1]
    <3> SUFFICES ASSUME Len(base) > 0 PROVE dbFileVers[owner] = base[1]
      OBVIOUS
    <3>1. cache[owner][1] # NotCached /\ 1 \in Pages
      BY <1>4, <1>6, SqlitePagerAssumption DEF Pages
    <3>2. cache[owner] # NoPages
      BY <3>1, NoPagesCached DEF PagerType
    <3>3. QED
      BY <3>2, <1>3
  <2>4. \A q \in 1 .. dbSize : q <= PageCount
    BY <1>6
  <2>5. QED
    BY <2>1, <2>2, <2>3, <2>4, <1>4, <1>5 DEF TxCache
<1>21. TxJournal'
  <2>1. LiveData' /\ journalOff' <= Len(jr'.data)
    BY <1>4, <1>7, <1>11 DEF LiveData
  <2>2. ASSUME base # <<>> PROVE TxSections'
    <3>1. OwnJournal(jr'.data, base, tx', 1, 1)
      <4>1. \A k \in 1 .. 1 : k = 1
        OBVIOUS
      <4>2. \A k \in 1 + 1 .. Len(jr'.data) : jr'.data[k].id # tx'
        <5>1. \A k \in 1 + 1 .. Len(jr'.data) :
                 k \in 1 .. Len(jr.may) /\ jr'.data[k] \in jr.may[k]
          BY <1>6, <1>11 DEF OneOf
        <5>2. QED
          BY <5>1, <1>12
      <4>3. 1 + 1 .. 1 = {} /\ H.body \in {0, 1 - 1}
        BY <1>7
      <4>4. LiveHeader(jr'.data[1], base, tx') /\ jr'.data[1].body \in {0, 1 - 1}
        BY <4>3, <1>7, <1>11
      <4>5. QED
        BY <4>1, <4>2, <4>3, <4>4, <1>11 DEF OwnJournal
    <3>2. \A p : ~RecordIn(p, 0, 1, jr'.data, base, tx')
      BY <1>7, <1>11 DEF RecordIn
    <3>3. \A k \in 0 + 1 .. 1 : ~LiveRecord(jr'.data[k], base, tx')
      BY <1>7, <1>11
    <3>4. safe = 0 /\ 0 = 1 - 1 /\ 1 = 1 + 0
      BY <2>2, <1>6
    <3>5. QED
      BY <3>1, <3>2, <3>3, <3>4, <2>2, <1>4, <1>5, <1>14 DEF TxSections
  <2>3. QED
    BY <2>1, <2>2, <1>4, <1>5 DEF TxJournal
<1>22. QED
  <2>1. owner' # None /\ state' # "shared" /\ Always' /\ TxPhase'
    BY <1>5, <1>13, <1>15, <1>16, <1>17, <1>18, <1>19, <1>20, <1>21,
       SqlitePagerAssumption DEF TxPhase
  <2>2. QED
    BY <2>1, ToTransaction

-----------------------------------------------------------------------------
(* The journal is finalised.                                               *)

\* What pager_end_transaction does to the files.
LEMMA ZeroHeaderFacts ==
  ASSUME DiskType, FilesOK, pc # "zsync", LiveData, ZeroHeader,
         UNCHANGED <<db, tx, base, safe>>,
         inDoubt' \in BOOLEAN, inDoubt => inDoubt',
         committed' \in Seq(Values), previous' \in Seq(Values)
  PROVE  /\ DiskType' /\ FilesOK'
         /\ Len(jr'.data) >= 1 /\ ~IsHeader(jr'.data[1])
         /\ \E b \in jr'.may[1] : IsHeader(b)
<1>1. /\ Len(jr.data) \in Nat /\ Len(jr.data) >= 1 /\ IsHeader(jr.data[1])
      /\ Len(jr.may) \in Nat /\ Len(jr.data) <= Len(jr.may)
      /\ jr.lens \in SUBSET Nat /\ Len(jr.data) \in jr.lens
      /\ Possible(jr.may, jr.lens) /\ jr.data[1] \in jr.may[1]
  BY JournalFile DEF LiveData, OneOf
<1>2. tx \in Nat /\ safe \in Nat
  BY DEF DiskType
<1>3. Fits(Zeroes, tx') /\ ~IsHeader(Zeroes)
  BY <1>2, BlockTypes DEF Fits
<1>4. jr' = Put(jr, 1, Zeroes, {Zeroes}) /\ pc' = "zsync"
  BY DEF ZeroHeader, Patch
<1>5. 1 \in 1 .. Len(jr.data) + 1 /\ tx' \in Nat /\ tx <= tx'
  BY <1>1, <1>2
<1>6. /\ FileOK(jr', Blocks) /\ PutFacts(jr', jr, 1, Zeroes, {Zeroes})
      /\ BlocksOK(jr'.may, tx') /\ Written(jr'.may, jr.may, 1)
  <2>1. \A b \in {Zeroes} : Fits(b, tx')
    BY <1>3
  <2>2. Zeroes \in {Zeroes}
    OBVIOUS
  <2> DEFINE poss == {Zeroes}
  <2> HIDE DEF poss
  <2>3. Zeroes \in poss /\ \A b \in poss : Fits(b, tx')
    BY <2>1 DEF poss
  <2>4. jr' = Put(jr, 1, Zeroes, poss)
    BY <1>4 DEF poss
  <2>5. /\ FileOK(jr', Blocks) /\ PutFacts(jr', jr, 1, Zeroes, poss)
        /\ BlocksOK(jr'.may, tx') /\ Written(jr'.may, jr.may, 1)
    BY <2>3, <2>4, <1>5, JournalPut
  <2>6. QED
    BY <2>5 DEF poss
<1>7. /\ Len(jr'.data) = Len(jr.data) /\ jr'.data[1] = Zeroes
      /\ Len(jr'.may) = Len(jr.may) /\ jr'.may[1] = jr.may[1] \cup {Zeroes}
      /\ \A k \in 1 .. Len(jr.may) : k # 1 => jr'.may[k] = jr.may[k]
      /\ jr'.lens = jr.lens
  <2>1. jr'.lens = jr.lens \cup {Len(jr'.data)} /\ Len(jr'.data) = Len(jr.data)
    BY <1>1, <1>6 DEF PutFacts
  <2>2. QED
    BY <2>1, <1>1, <1>6 DEF PutFacts
<1>8. DiskType'
  BY <1>6 DEF DiskType
<1> DEFINE may2 == [jr'.may EXCEPT ![1] = jr'.may[1] \ {Zeroes}]
<1>9. JournalMay' = may2 /\ JournalMay = jr.may
  BY <1>4 DEF JournalMay
<1>10. /\ Len(may2) = Len(jr.may)
       /\ \A k \in 1 .. Len(jr.may) : may2[k] \subseteq jr.may[k]
  <2>1. jr'.may \in Seq(SUBSET Blocks) /\ 1 \in 1 .. Len(jr'.may)
    BY <1>1, <1>6, <1>7 DEF FileOK
  <2>2. jr'.may[1] \ {Zeroes} \in SUBSET Blocks
    BY <2>1
  <2>3. /\ Len(may2) = Len(jr'.may) /\ may2[1] = jr'.may[1] \ {Zeroes}
        /\ \A k \in 1 .. Len(jr'.may) : k # 1 => may2[k] = jr'.may[k]
    BY <2>1, <2>2, ExceptSeq
  <2> HIDE DEF may2
  <2>4. QED
    BY <2>3, <1>7
<1> HIDE DEF may2
<1>11. Within(may2, jr.may, jr.lens)
  BY <1>1, <1>10 DEF Within
<1>12. base # <<>> => JournalOK(jr.may, jr.lens, base, tx, safe)
  BY <1>9 DEF FilesOK
<1>13. base # <<>> => JournalOK(may2, jr.lens, base, tx, safe)
  <2>1. jr.lens \in SUBSET jr.lens
    OBVIOUS
  <2>2. QED
    BY <2>1, <1>1, <1>2, <1>11, <1>12, JournalNarrows
<1>14. ASSUME NEW p \in 1 .. Len(base), Restorable(p, jr.may, base, tx, safe)
       PROVE  Restorable(p, may2, base, tx, safe)
  <2>1. base # <<>> /\ safe <= safe
    BY <1>2, <1>14, EmptySeq
  <2>2. QED
    BY <2>1, <1>1, <1>2, <1>11, <1>12, <1>14, RestorableNarrows
<1>15. base = <<>> => NothingToRestore(jr'.may)
  <2> SUFFICES ASSUME base = <<>> PROVE NothingToRestore(jr'.may)
    OBVIOUS
  <2>1. NothingToRestore(jr.may)
    BY DEF FilesOK
  <2>2. \A b \in jr'.may[1] :
           \/ 1 <= Len(jr.may) /\ b \in jr.may[1]
           \/ b.kind # "record" /\ (IsHeader(b) => b.page = 0)
    BY <1>1, <1>7, BlockTypes
  <2>3. QED
    BY <2>1, <2>2, <1>6, NothingGrows
<1>16. FilesOK'
  <2>1. PageCount' = PageCount
    BY DEF PageCount
  <2>2. /\ Len(base) <= PageCount
        /\ InFlux(db) \/ \A n \in db.lens : n = PageCount
        /\ ~inDoubt' => \A n \in db.lens : Len(base) <= n
    BY DEF FilesOK
  <2>3. ASSUME NEW p \in 1 .. Len(base)
        PROVE  /\ db.data[p] = base[p] \/ Restorable(p, may2, base, tx, safe)
               /\ ~inDoubt' => \/ \A v \in db.may[p] : v = base[p]
                              \/ Restorable(p, may2, base, tx, safe)
    BY <1>9, <1>14 DEF FilesOK
  <2>4. QED
    BY <2>1, <2>2, <2>3, <1>7, <1>9, <1>13, <1>15 DEF FilesOK
<1>17. QED
  BY <1>1, <1>3, <1>7, <1>8, <1>16

\* With the database written and synced, or never written, the cache is what
\* is in the file.
LEMMA WorkDone ==
  ASSUME Always, TxPhase, owner \in Conns,
         pc = "finish" \/ (pc = "ready" /\ ~dbModified)
  PROVE  /\ state \in Writing /\ goal = 0 /\ LiveData /\ pc # "zsync" /\ ~isHot
         /\ inDoubt \/ ~InFlux(db)
         /\ Len(base) > 0 => Prefix(base, db.data) \/ db.data[1] > base[1]
         /\ EndCache
         /\ Image \in Seq(Values) /\ Prefix(Image, db.data)
         /\ ~dbModified => base = db.data
<1> USE DEF Always, TxPhase
<1>1. /\ state \in Writing /\ goal = 0 /\ LiveData /\ pc # "zsync" /\ ~isHot
      /\ \A p \in dirty : p > dbSize
      /\ pc = "ready" => base = db.data /\ dbSize = Len(base) /\ pInJournal = {}
      /\ ~dbModified => base = db.data
  BY DEF TxPlace, TxJournal, TxPages
<1>2. /\ db.data \in Seq(Values) /\ PageCount = Len(db.data) /\ PageCount \in Nat
      /\ Len(db.data) \in Nat /\ Len(base) \in Nat /\ base \in Seq(Values)
      /\ Len(base) <= PageCount /\ Len(db.may) = Len(db.data)
      /\ dbSize \in Nat /\ dbSize <= MaxPages /\ MaxPages \in Nat
  BY DatabaseFile, SqlitePagerAssumption DEF PagerType, FilesOK
<1>3. ASSUME NEW p \in Pages, p <= dbSize
      PROVE  p <= PageCount /\ Read(p) = db.data[p] /\ Read(p) \in Values
             /\ (cache[owner][p] # NotCached => cache[owner][p] = db.data[p])
  <2>1. p \in Nat /\ p >= 1 /\ p \notin dirty /\ p \in 1 .. dbSize
    BY <1>1, <1>2, <1>3 DEF Pages
  <2>2. p <= PageCount
    BY <2>1 DEF TxCache
  <2>3. cache[owner][p] # NotCached => cache[owner][p] = db.data[p]
    BY <2>1 DEF TxCache
  <2>4. Read(p) = db.data[p]
    BY <2>2, <2>3 DEF Read
  <2>5. db.data[p] \in Values
    BY <1>2, <2>1, <2>2
  <2>6. QED
    BY <2>2, <2>3, <2>4, <2>5
<1>4. inDoubt \/ ~InFlux(db)
  <2>1. CASE pc = "finish"
    BY <2>1 DEF TxPlace
  <2>2. CASE pc = "ready" /\ ~inDoubt
    <3>1. \A p \in 1 .. Len(db.may) : \A v \in db.may[p] : v = base[p]
      BY <2>2, <1>1, <1>2 DEF TxPages
    <3>2. DOMAIN db.may = 1 .. Len(db.may)
      BY DatabaseFile
    <3>3. QED
      BY <3>1, <3>2 DEF InFlux
  <2>3. QED
    BY <2>1, <2>2
<1>5. dbSize >= 1 =>
        /\ cache[owner][1] = db.data[1]
        /\ dbFileVers[owner] = db.data[1]
        /\ pc = "finish" /\ Len(base) > 0 => db.data[1] > base[1]
  <2> SUFFICES ASSUME dbSize >= 1
               PROVE  /\ cache[owner][1] = db.data[1]
                      /\ dbFileVers[owner] = db.data[1]
                      /\ pc = "finish" /\ Len(base) > 0 => db.data[1] > base[1]
    OBVIOUS
  <2>1. 1 \in Pages /\ 1 \notin dirty /\ cache[owner][1] # NotCached
    BY <1>1, <1>2 DEF Pages, TxCache
  <2>2. cache[owner][1] = db.data[1]
    BY <2>1, <1>3, <1>2
  <2>3. CASE pc = "finish"
    BY <2>1, <2>2, <2>3, <1>1 DEF TxCache
  <2>4. CASE pc = "ready"
    BY <2>2, <2>4, <1>1, <1>2 DEF TxCache
  <2>5. QED
    BY <2>2, <2>3, <2>4
<1>6. Len(base) > 0 => Prefix(base, db.data) \/ db.data[1] > base[1]
  <2>1. CASE pc = "finish"
    BY <2>1, <1>5 DEF TxPlace
  <2>2. CASE pc = "ready"
    BY <2>2, <1>1, <1>2 DEF Prefix
  <2>3. QED
    BY <2>1, <2>2
<1>7. EndCache
  BY <1>2, <1>3, <1>5 DEF EndCache, Pages
<1>8. Image \in Seq(Values) /\ Prefix(Image, db.data)
  <2>1. \A p \in 1 .. dbSize : p \in Pages
    BY <1>2 DEF Pages
  <2>2. \A p \in 1 .. dbSize :
           p <= PageCount /\ Read(p) = db.data[p] /\ Read(p) \in Values
    BY <2>1, <1>2, <1>3
  <2>3. Image \in Seq(Values) /\ Len(Image) = dbSize
    BY <2>2, <1>2 DEF Image
  <2>4. \A p \in 1 .. dbSize : Image[p] = db.data[p]
    BY <2>2 DEF Image
  <2>5. dbSize <= Len(db.data)
    BY <2>2, <1>2
  <2>6. QED
    BY <2>3, <2>4, <2>5 DEF Prefix
<1>9. QED
  BY <1>1, <1>4, <1>6, <1>7, <1>8

\* The first header is zeroed: from here either image may survive.
LEMMA CommitPhaseTwoStep ==
  ASSUME PagerInv, CommitPhaseTwo
  PROVE  PagerInv'
<1>1. pc \in {"ready"} \cup Working /\ state # "shared" /\ pc' = "zsync"
  BY DEF CommitPhaseTwo, Working, ZeroHeader, PagerInv, Shared
<1>2. Always /\ TxPhase /\ owner \in Conns
  BY <1>1, FromTransaction
<1>3. /\ state \in Writing /\ goal = 0 /\ LiveData /\ pc # "zsync" /\ ~isHot
      /\ inDoubt \/ ~InFlux(db)
      /\ Len(base) > 0 => Prefix(base, db.data) \/ db.data[1] > base[1]
      /\ EndCache
      /\ Image \in Seq(Values) /\ Prefix(Image, db.data)
  BY <1>2, WorkDone DEF CommitPhaseTwo
<1> USE <1>1, <1>2 DEF Always
<1>4. /\ ZeroHeader /\ previous' = committed /\ committed' = Image
      /\ UNCHANGED <<db, owner, goal, state, caches, pages, flags, sizes, journal,
                     play, bounds, inDoubt, base, safe>>
  BY DEF CommitPhaseTwo
<1>5. /\ inDoubt \in BOOLEAN /\ committed \in Seq(Values)
      /\ UNCHANGED <<db, tx, base, safe>>
  BY <1>4 DEF DiskType, bounds
<1>6. /\ DiskType' /\ FilesOK'
      /\ Len(jr'.data) >= 1 /\ ~IsHeader(jr'.data[1])
      /\ \E b \in jr'.may[1] : IsHeader(b)
  BY <1>3, <1>4, <1>5, ZeroHeaderFacts
<1>7. PagerType'
  BY <1>4 DEF PagerType, caches, pages, flags, sizes, journal, play, bounds
<1>8. HistoryOK'
  BY <1>3, <1>4 DEF HistoryOK
<1>9. CachesOK'
  BY <1>3, <1>4, CachesSame DEF caches, play
<1>10. Finalising'
  <2>1. EndCache'
    BY <1>3, <1>4 DEF EndCache, play, sizes, caches, PageCount
  <2>2. QED
    BY <2>1, <1>3, <1>4, <1>6 DEF Finalising
<1>11. QED
  <2>1. owner' # None /\ Always'
    BY <1>4, <1>6, <1>7, <1>8, <1>9, SqlitePagerAssumption
  <2>2. QED
    BY <2>1, <1>10, ToFinalising

\* A transaction that changed nothing is rolled back.
LEMMA RollbackUnmodified ==
  ASSUME PagerInv, Rollback, ~dbModified
  PROVE  PagerInv'
<1>1. pc = "ready" /\ state # "shared" /\ pc' = "zsync"
  BY DEF Rollback, ZeroHeader
<1>2. Always /\ TxPhase /\ owner \in Conns
  BY <1>1, FromTransaction
<1>3. /\ state \in Writing /\ goal = 0 /\ LiveData /\ pc # "zsync" /\ ~isHot
      /\ inDoubt \/ ~InFlux(db)
      /\ Len(base) > 0 => Prefix(base, db.data) \/ db.data[1] > base[1]
      /\ EndCache /\ base = db.data
  BY <1>1, <1>2, WorkDone
<1> USE <1>1, <1>2 DEF Always
<1>4. /\ ZeroHeader
      /\ UNCHANGED <<db, owner, goal, state, caches, pages, flags, sizes, journal,
                     play, bounds, history>>
  BY DEF Rollback, journal, play
<1>5. /\ inDoubt \in BOOLEAN /\ committed \in Seq(Values) /\ previous \in Seq(Values)
      /\ UNCHANGED <<db, tx, base, safe, inDoubt, committed, previous>>
  BY <1>4 DEF DiskType, bounds, history
<1>6. /\ DiskType' /\ FilesOK'
      /\ Len(jr'.data) >= 1 /\ ~IsHeader(jr'.data[1])
      /\ \E b \in jr'.may[1] : IsHeader(b)
  BY <1>3, <1>4, <1>5, ZeroHeaderFacts
<1>7. PagerType'
  BY <1>4 DEF PagerType, caches, pages, flags, sizes, journal, play, bounds
<1>8. HistoryOK' /\ Prefix(committed, db.data)
  BY <1>3, <1>5 DEF HistoryOK
<1>9. CachesOK'
  BY <1>3, <1>4, <1>5, CachesSame DEF caches, play
<1>10. Finalising'
  <2>1. EndCache'
    BY <1>3, <1>4 DEF EndCache, play, sizes, caches, PageCount
  <2>2. QED
    BY <2>1, <1>3, <1>4, <1>5, <1>6, <1>8 DEF Finalising
<1>11. QED
  <2>1. owner' # None /\ Always'
    BY <1>4, <1>6, <1>7, <1>8, <1>9, SqlitePagerAssumption
  <2>2. QED
    BY <2>1, <1>10, ToFinalising

\* A file that does not change when power fails is what programs read.
LEMMA Settled ==
  ASSUME DiskType, FilesOK, ~InFlux(db)
  PROVE  /\ \A n \in db.lens : n = Len(db.data)
         /\ \A p \in 1 .. Len(db.data) : \A v \in db.may[p] : v = db.data[p]
<1>1. DOMAIN db.may = 1 .. Len(db.data)
  BY DatabaseFile
<1>2. \A p \in 1 .. Len(db.data) : db.data[p] \in db.may[p]
  BY DatabaseFile
<1>3. \A n \in db.lens : n = Len(db.data)
  BY DEF FilesOK, PageCount
<1>4. QED
  BY <1>1, <1>2, <1>3 DEF InFlux

\* The zeroed header is synced: the new image is the one to come back to.
LEMMA SyncZeroStep ==
  ASSUME PagerInv, SyncZero
  PROVE  PagerInv'
<1>1. pc = "zsync" /\ pc' = "end"
  BY DEF SyncZero
<1>2. Always /\ Finalising /\ owner \in Conns
  BY <1>1 DEF PagerInv, Always, PagerType
<1> USE <1>1, <1>2 DEF Always
<1>3. /\ state \in Writing /\ goal = 0
      /\ Len(jr.data) >= 1 /\ ~IsHeader(jr.data[1])
      /\ Prefix(committed, db.data)
      /\ inDoubt \/ ~InFlux(db)
      /\ Len(base) > 0 => Prefix(base, db.data) \/ db.data[1] > base[1]
      /\ EndCache
  BY DEF Finalising
<1>4. /\ UNCHANGED <<db, owner, goal, state, caches, pages, flags, sizes, journal,
                     play, bounds, committed, inDoubt>>
      /\ jr' = OnDisk(jr.data)
      /\ previous' = committed /\ base' = db.data /\ safe' = 0
  BY DEF SyncZero, Sync
<1>5. /\ db.data \in Seq(Values) /\ Len(db.data) \in Nat /\ Len(base) \in Nat
      /\ PageCount = Len(db.data) /\ Len(base) <= Len(db.data)
      /\ base \in Seq(Values) /\ jr.data \in Seq(Blocks) /\ tx \in Nat
      /\ Len(jr.data) \in Nat /\ Len(jr.data) <= Len(jr.may)
      /\ OneOf(jr.data, jr.may, jr.lens) /\ Len(jr.may) \in Nat
      /\ tx' = tx
  BY <1>4, DatabaseFile, JournalFile DEF DiskType, FilesOK, bounds
<1>6. /\ FileOK(jr', Blocks) /\ jr'.data = jr.data /\ Len(jr'.may) = Len(jr.data)
      /\ jr'.lens = {Len(jr.data)}
      /\ \A i \in 1 .. Len(jr.data) : jr'.may[i] = {jr.data[i]}
  BY <1>4, <1>5, OnDiskFile
<1>7. \A i \in 1 .. Len(jr'.may) : i \in 1 .. Len(jr.may) /\ jr'.may[i] \subseteq jr.may[i]
  BY <1>5, <1>6 DEF OneOf
<1>8. BlocksOK(jr'.may, tx)
  BY <1>7 DEF DiskType, BlocksOK
<1>9. DiskType'
  BY <1>4, <1>5, <1>6, <1>8 DEF DiskType
<1>10. NoHeader(jr'.may)
  BY <1>3, <1>5, <1>6 DEF NoHeader
<1>11. FilesOK'
  <2>1. JournalMay' = jr'.may /\ PageCount' = Len(db.data)
    BY <1>4 DEF JournalMay, PageCount
  <2>2. ASSUME db.data = <<>> PROVE NothingToRestore(jr'.may)
    <3>1. base = <<>>
      BY <2>2, <1>5, EmptySeq
    <3>2. NothingToRestore(jr.may)
      BY <3>1 DEF FilesOK
    <3>3. QED
      BY <3>2, <1>7 DEF NothingToRestore
  <2>3. JournalOK(jr'.may, jr'.lens, db.data, tx, 0)
    <3>1. jr'.lens \in SUBSET Nat /\ Len(jr'.may) \in Nat
      BY <1>5, <1>6
    <3>2. QED
      BY <3>1, <1>10, QuietJournal
  <2>4. ~inDoubt => /\ \A n \in db.lens : n = Len(db.data)
                    /\ \A p \in 1 .. Len(db.data) : \A v \in db.may[p] : v = db.data[p]
    BY <1>3, Settled
  <2>5. InFlux(db) \/ \A n \in db.lens : n = PageCount
    BY DEF FilesOK
  <2>6. \A n \in db.lens : n = Len(db.data) => Len(db.data) <= n
    BY <1>5
  <2>7. QED
    BY <2>1, <2>2, <2>3, <2>4, <2>5, <2>6, <1>4, <1>5 DEF FilesOK
<1>12. HistoryOK'
  BY <1>3, <1>4 DEF HistoryOK
<1>13. ASSUME NEW pgs \in [Pages -> Values \cup {NotCached}], NEW vers \in Values,
              VersionOK(pgs, vers, base)
       PROVE  VersionOK(pgs, vers, db.data)
  <2> SUFFICES ASSUME pgs # NoPages
               PROVE  /\ Len(db.data) > 0 /\ vers <= db.data[1]
                      /\ vers = db.data[1] => Coherent(pgs, db.data)
    BY DEF VersionOK
  <2>1. Len(base) > 0 /\ vers <= base[1] /\ (vers = base[1] => Coherent(pgs, base))
    BY <1>13 DEF VersionOK
  <2>2. Len(db.data) > 0 /\ base[1] \in Int /\ db.data[1] \in Int /\ vers \in Int
    <3>1. 1 \in 1 .. Len(base) /\ 1 \in 1 .. Len(db.data)
      BY <2>1, <1>5
    <3>2. base[1] \in Values /\ db.data[1] \in Values
      BY <3>1, <1>5
    <3>3. QED
      BY <2>1, <3>1, <3>2, <1>5 DEF Values
  <2>3. CASE Prefix(base, db.data)
    <3>1. base[1] = db.data[1] /\ \A p \in 1 .. Len(base) : base[p] = db.data[p]
      BY <2>1, <2>3, <1>5 DEF Prefix
    <3>2. Coherent(pgs, base) => Coherent(pgs, db.data)
      BY <3>1, <1>5 DEF Coherent, Pages
    <3>3. QED
      BY <2>1, <2>2, <3>1, <3>2
  <2>4. CASE db.data[1] > base[1]
    BY <2>1, <2>2, <2>4
  <2>5. QED
    BY <2>1, <2>3, <2>4, <1>3
<1>14. CachesOK'
  <2>1. UNCHANGED <<owner, cache, dbFileVers, isHot>>
    BY <1>4 DEF caches, play
  <2>2. \A c \in Conns : cache[c] \in [Pages -> Values \cup {NotCached}]
                         /\ dbFileVers[c] \in Values
    BY DEF PagerType
  <2>3. \A c \in Conns : c # owner \/ isHot => VersionOK(cache[c], dbFileVers[c], base)
    BY DEF CachesOK
  <2>4. \A c \in Conns : c # owner \/ isHot => VersionOK(cache[c], dbFileVers[c], db.data)
    BY <2>2, <2>3, <1>13
  <2>5. QED
    BY <2>1, <2>4, <1>4 DEF CachesOK
<1>15. PagerType'
  BY <1>4 DEF PagerType, caches, pages, flags, sizes, journal, play, bounds
<1>16. Ending'
  <2>1. EndCache'
    BY <1>3, <1>4 DEF EndCache, play, sizes, caches, PageCount
  <2>2. ~LiveData' /\ Quiet'
    BY <1>3, <1>4, <1>6, <1>10 DEF LiveData, Quiet
  <2>3. QED
    BY <2>1, <2>2, <1>3, <1>4 DEF Ending
<1>17. QED
  <2>1. owner' # None /\ Always'
    BY <1>4, <1>9, <1>11, <1>12, <1>14, <1>15, SqlitePagerAssumption
  <2>2. QED
    BY <2>1, <1>16, ToEnding

\* A connection that drops its cache leaves the others theirs.
LEMMA GivenUpCaches ==
  ASSUME CachesOK, PagerType, owner \in Conns, pc # "idle",
         cache' = [cache EXCEPT ![owner] = NoPages], owner' = None, pc' = "idle",
         UNCHANGED <<dbFileVers, base>>
  PROVE  /\ CachesOK'
         /\ cache' \in [Conns -> [Pages -> Values \cup {NotCached}]]
         /\ dbFileVers' \in [Conns -> Values]
<1>1. NoPages \in [Pages -> Values \cup {NotCached}]
  BY DEF NoPages
<1>2. /\ cache' \in [Conns -> [Pages -> Values \cup {NotCached}]]
      /\ cache'[owner] = NoPages
      /\ \A c \in Conns : c # owner => cache'[c] = cache[c]
  BY <1>1 DEF PagerType
<1>3. ASSUME NEW c \in Conns PROVE VersionOK(cache'[c], dbFileVers'[c], base')
  <2>1. CASE c = owner
    BY <2>1, <1>2 DEF VersionOK
  <2>2. CASE c # owner
    BY <2>2, <1>2 DEF CachesOK
  <2>3. QED
    BY <2>1, <2>2
<1>4. QED
  BY <1>2, <1>3 DEF CachesOK, PagerType

\* pager_end_transaction goes back to reading, or gives up after an error.
LEMMA EndTransactionStep ==
  ASSUME PagerInv, EndTransaction
  PROVE  PagerInv'
<1>1. pc = "end"
  BY DEF EndTransaction
<1>2. Always /\ Ending /\ owner \in Conns
  BY <1>1 DEF PagerInv, Always, PagerType
<1> USE <1>1, <1>2 DEF Always
<1>3. /\ state \in Writing /\ goal = 0
      /\ (errCode /\ CutShort) \/ (~LiveData /\ Quiet)
      /\ EndCache
  BY DEF Ending
<1>4. /\ UNCHANGED <<files, dbFileVers, bounds, history>>
      /\ UNCHANGED <<db, jr, tx, faults, base, safe, inDoubt, committed, previous>>
  BY DEF EndTransaction, files, bounds, history
<1>5. (CutShort' <=> CutShort) /\ (LiveData' <=> LiveData) /\ (Quiet' <=> Quiet)
      /\ PageCount' = PageCount
  BY <1>4 DEF CutShort, LiveData, Quiet, PageCount
<1>6. faults' \in Nat
  BY <1>4 DEF PagerType
<1>7. CASE errCode
  <2>1. Unlocked /\ cache' = [cache EXCEPT ![owner] = NoPages]
    BY <1>7 DEF EndTransaction
  <2>2. /\ owner' = None /\ pc' = "idle" /\ goal' = 0 /\ state' = "unlock"
        /\ errCode' = FALSE /\ isHot' = FALSE /\ dirty' = {} /\ need' = {}
        /\ dbModified' = FALSE
    BY <2>1 DEF Unlocked, Reset
  <2>3. DiskType' /\ FilesOK' /\ HistoryOK'
    BY <1>4, <2>2, DiskSame, FilesSame, HistorySame
  <2>4. /\ CachesOK'
        /\ cache' \in [Conns -> [Pages -> Values \cup {NotCached}]]
        /\ dbFileVers' \in [Conns -> Values]
    BY <1>4, <2>1, <2>2, GivenUpCaches
  <2>5. PagerType'
    BY <1>6, <2>1, <2>4, UnlockedType
  <2>6. Idle'
    BY <1>3, <1>5, <2>2 DEF Idle, Clean
  <2>7. Always'
    BY <2>3, <2>4, <2>5
  <2>8. QED
    BY <2>2, <2>6, <2>7, ToIdle
<1>8. CASE ~errCode
  <2>1. ~LiveData /\ Quiet
    BY <1>3, <1>8
  <2>2. /\ pc' = (IF isHot THEN "check" ELSE "ready") /\ state' = "shared"
        /\ cache' = [cache EXCEPT ![owner] =
                       [p \in Pages |-> IF p <= dbSize THEN cache[owner][p]
                                                       ELSE NotCached]]
        /\ Reset /\ dbSize' = PageCount /\ UNCHANGED <<owner, goal, errCode>>
    BY <1>8 DEF EndTransaction
  <2>3. /\ isHot' = FALSE /\ dirty' = {} /\ need' = {} /\ dbModified' = FALSE
        /\ needSync' = FALSE /\ journalStarted' = FALSE
        /\ dbOrigSize' = 0 /\ pInJournal' = {} /\ nRec' = 0 /\ journalOff' = 0
        /\ journalHdr' = 0 /\ left' = 0 /\ isUnsync' = FALSE /\ cksumInit' = 0
    BY <2>2 DEF Reset
  <2>4. DiskType' /\ FilesOK' /\ HistoryOK'
    BY <1>4, <2>2, DiskSame, FilesSame, HistorySame
  <2> DEFINE pgs2 == [p \in Pages |-> IF p <= dbSize THEN cache[owner][p]
                                                     ELSE NotCached]
  <2>5. /\ pgs2 \in [Pages -> Values \cup {NotCached}]
        /\ \A p \in Pages : pgs2[p] # NotCached => p <= dbSize /\ pgs2[p] = cache[owner][p]
    BY DEF PagerType
  <2>6. cache' = [cache EXCEPT ![owner] = pgs2]
    BY <2>2
  <2> HIDE DEF pgs2
  <2>7. /\ cache' \in [Conns -> [Pages -> Values \cup {NotCached}]]
        /\ cache'[owner] = pgs2
        /\ \A c \in Conns : c # owner => cache'[c] = cache[c]
    BY <2>5, <2>6 DEF PagerType
  <2>8. PagerType'
    <3>1. PageCount \in 0 .. MaxPages /\ 0 \in 0 .. MaxPages
      BY DatabaseFile, SqlitePagerAssumption DEF DiskType
    <3>2. dbSize' \in 0 .. MaxPages /\ dbOrigSize' \in 0 .. MaxPages
      BY <3>1, <2>2, <2>3
    <3>3. pc' \in {"check", "ready"}
      BY <2>2
    <3>4. QED
      BY <3>2, <3>3, <1>4, <1>6, <2>2, <2>3, <2>7 DEF PagerType
  <2>9. base = db.data /\ PageCount = Len(base) /\ Len(base) \in Nat
    BY <2>1, DatabaseFile DEF Quiet
  <2>10. ~isHot /\ pgs2 # NoPages => /\ Len(base) > 0
                                     /\ dbFileVers[owner] = base[1]
                                     /\ Coherent(pgs2, base)
    <3> SUFFICES ASSUME ~isHot, pgs2 # NoPages
                 PROVE  /\ Len(base) > 0
                        /\ dbFileVers[owner] = base[1]
                        /\ Coherent(pgs2, base)
      OBVIOUS
    <3>1. PICK p \in Pages : pgs2[p] # NotCached
      BY <2>5, NoPagesCached
    <3>2. \A q \in Pages : pgs2[q] # NotCached =>
            /\ q <= Len(base) /\ pgs2[q] = base[q] /\ dbFileVers[owner] = base[1]
      BY <2>5, <2>9, <1>3, <1>8 DEF EndCache
    <3>3. p \in Nat /\ p >= 1
      BY DEF Pages
    <3>4. p <= Len(base) /\ dbFileVers[owner] = base[1]
      BY <3>1, <3>2
    <3>5. Len(base) > 0
      BY <3>3, <3>4, <2>9
    <3>6. Coherent(pgs2, base)
      BY <3>2 DEF Coherent
    <3>7. QED
      BY <3>4, <3>5, <3>6
  <2>11. CachesOK'
    <3>1. isHot => VersionOK(pgs2, dbFileVers[owner], base)
      <4> SUFFICES ASSUME isHot, pgs2 # NoPages
                   PROVE  /\ Len(base) > 0 /\ dbFileVers[owner] <= base[1]
                          /\ dbFileVers[owner] = base[1] => Coherent(pgs2, base)
        BY DEF VersionOK
      <4>1. PICK p \in Pages : pgs2[p] # NotCached
        BY <2>5, NoPagesCached
      <4>2. cache[owner] # NoPages
        BY <4>1, <2>5, NoPagesCached DEF PagerType
      <4>3. /\ Len(base) > 0 /\ dbFileVers[owner] <= base[1]
            /\ dbFileVers[owner] = base[1] => Coherent(cache[owner], base)
        BY <4>2 DEF CachesOK, VersionOK
      <4>4. Coherent(cache[owner], base) => Coherent(pgs2, base)
        BY <2>5 DEF Coherent
      <4>5. QED
        BY <4>3, <4>4
    <3>2. UNCHANGED <<owner, base, dbFileVers>>
      BY <1>4, <2>2
    <3>3. ASSUME NEW c \in Conns, c # owner \/ isHot
          PROVE  VersionOK(cache'[c], dbFileVers[c], base)
      <4>1. CASE c = owner
        BY <4>1, <3>1, <3>3, <2>7
      <4>2. CASE c # owner
        BY <4>2, <2>7 DEF CachesOK
      <4>3. QED
        BY <4>1, <4>2
    <3>4. pc' \in {"idle", "check"} => isHot
      BY <2>2
    <3>5. QED
      BY <3>2, <3>3, <3>4, <2>3 DEF CachesOK
  <2>12. Shared'
    BY <1>3, <1>4, <1>5, <1>8, <2>1, <2>2, <2>3, <2>7, <2>10 DEF Shared, Clean
  <2>13. owner' # None /\ Always'
    BY <2>2, <2>4, <2>8, <2>11, SqlitePagerAssumption
  <2>14. QED
    BY <2>2, <2>12, <2>13, ToShared
<1>9. QED
  BY <1>7, <1>8

-----------------------------------------------------------------------------
(* Errors, and the beginning and the end of a playback.                    *)

\* Outside the window of the header, an empty section is the last.
LEMMA NotExposed ==
  ASSUME DiskType, FilesOK, pc # "zsync", LiveData, ~Exposed
  PROVE  CutShort
<1> SUFFICES ASSUME base # <<>> PROVE Sealed(jr.may, safe)
  BY DEF CutShort
<1>1. JournalOK(jr.may, jr.lens, base, tx, safe) /\ safe \in Nat
  BY MayOutside DEF FilesOK, DiskType
<1>2. /\ Len(jr.may) \in Nat /\ Len(jr.may) >= 1 /\ jr.may # <<>>
      /\ jr.data[1] \in jr.may[1] /\ IsHeader(jr.data[1])
  BY JournalFile, EmptySeq DEF LiveData, OneOf
<1>3. SUFFICES ASSUME safe + 2 <= Len(jr.may), NEW b \in jr.may[safe + 1],
                      IsHeader(b), b.body = 0, NEW c \in jr.may[safe + 2],
                      IsHeader(c)
               PROVE  FALSE
  BY DEF Sealed
<1>4. b.id = tx
  BY <1>1, <1>2, <1>3 DEF JournalOK, LastSection, LiveHeader
<1>5. c.id # tx
  BY <1>1, <1>2, <1>3 DEF JournalOK, NoneBeyond
<1>6. safe + 1 \in 1 .. Len(jr.may) - 1 /\ (safe + 1) + 1 = safe + 2
  BY <1>1, <1>2, <1>3
<1>7. c \in jr.may[(safe + 1) + 1]
  BY <1>6
<1>8. Exposed
  BY <1>2, <1>3, <1>4, <1>5, <1>6, <1>7 DEF Exposed, IsHeader
<1>9. QED
  BY <1>8

\* A connection gives up its lock and its cache.
LEMMA GaveUp ==
  ASSUME Always, owner \in Conns, pc \notin {"idle", "zsync"}, GivesUp,
         faults' \in Nat, Windows = {}, LiveData \/ (~LiveData /\ Quiet)
  PROVE  PagerInv'
<1> USE DEF Always
<1>1. /\ Unlocked /\ cache' = [cache EXCEPT ![owner] = NoPages]
      /\ UNCHANGED <<files, dbFileVers, tx, history>> /\ ~Exposed
  BY DEF GivesUp, MayStrike
<1>2. /\ owner' = None /\ pc' = "idle" /\ goal' = 0 /\ state' = "unlock"
      /\ errCode' = FALSE /\ isHot' = FALSE /\ dirty' = {} /\ need' = {}
      /\ dbModified' = FALSE
  BY <1>1 DEF Unlocked, Reset
<1>3. UNCHANGED <<db, jr, base, safe, inDoubt, committed, previous>>
  BY <1>1 DEF files, history
<1>4. DiskType' /\ FilesOK' /\ HistoryOK'
  BY <1>1, <1>2, <1>3, DiskSame, FilesSame, HistorySame
<1>5. /\ CachesOK'
      /\ cache' \in [Conns -> [Pages -> Values \cup {NotCached}]]
      /\ dbFileVers' \in [Conns -> Values]
  BY <1>1, <1>2, <1>3, GivenUpCaches
<1>6. PagerType'
  BY <1>1, <1>5, UnlockedType
<1>7. Idle'
  <2>1. CutShort \/ (~LiveData /\ Quiet)
    BY <1>1, NotExposed
  <2>2. (CutShort' <=> CutShort) /\ (LiveData' <=> LiveData) /\ (Quiet' <=> Quiet)
    BY <1>3 DEF CutShort, LiveData, Quiet
  <2>3. QED
    BY <2>1, <2>2, <1>2 DEF Idle, Clean
<1>8. Always'
  BY <1>4, <1>5, <1>6
<1>9. QED
  BY <1>2, <1>7, <1>8, ToIdle

\* A transaction is to be rolled back by its own connection.
LEMMA BeginOwnPlayback ==
  ASSUME Always, TxPhase, owner \in Conns, pc \in {"ready"} \cup Working,
         pc # "finish", dbModified, BeginPlayback,
         UNCHANGED <<files, owner, state, caches, pages, flags, sizes, pInJournal,
                     nRec, journalHdr, left, isUnsync, cksumInit, tx, history>>,
         errCode' \in BOOLEAN, faults' \in Nat
  PROVE  PagerInv'
<1> USE DEF Always, TxPhase
<1>1. /\ journalOff' = 0 /\ isHot' = FALSE /\ goal' = 0 /\ pc' = "header"
      /\ pc # "zsync"
  BY DEF BeginPlayback, Working
<1>2. UNCHANGED <<db, jr, cache, dbFileVers, dirty, need, dbSize, dbOrigSize,
                  committed, previous, inDoubt, base, safe>>
  BY DEF files, caches, pages, sizes, history
<1>3. DiskType' /\ FilesOK' /\ HistoryOK' /\ CachesOK'
  BY <1>1, <1>2, DiskSame, FilesSame, HistorySame, CachesSame
<1>4. PagerType'
  <2>1. goal' \in 0 .. MaxPages /\ journalOff' \in Nat /\ isHot' \in BOOLEAN
        /\ pc' \in Playing
    <3>1. goal' \in 0 .. MaxPages
      <4>1. MaxPages \in Nat
        BY SqlitePagerAssumption
      <4>2. 0 \in 0 .. MaxPages
        BY <4>1
      <4>3. QED
        BY <4>2, <1>1
    <3>2. journalOff' \in Nat /\ isHot' \in BOOLEAN
      BY <1>1
    <3>3. pc' \in Playing
      BY <1>1 DEF Playing
    <3>4. QED
      BY <3>1, <3>2, <3>3
  <2>2. UNCHANGED <<owner, state, pInJournal, nRec, journalHdr, left, isUnsync,
                    cksumInit, needSync, journalStarted, dbModified>>
    BY DEF flags
  <2>3. QED
    BY <2>1, <2>2, <1>2 DEF PagerType
<1>5. /\ state \in {"reserved", "exclusive"} /\ LiveData /\ Len(jr.data) \in Nat
      /\ state = "reserved" => db.data = base
  BY JournalFile DEF TxPlace, TxJournal, TxPages, Writing
<1>6. LiveData' <=> LiveData
  BY <1>2 DEF LiveData
<1>7. ASSUME base # <<>> PROVE OwnPlace' /\ OwnPages'
  <2> DEFINE end == journalHdr + nRec
             pgs == cache[owner]
  <2>1. /\ TxSections /\ end = journalOff /\ safe \in {journalHdr - 1, end}
        /\ OwnJournal(jr.data, base, tx, journalHdr, end)
        /\ end \in Nat /\ safe \in Nat /\ journalOff \in Nat
    BY <1>7 DEF TxJournal, TxSections, PagerType, DiskType
  <2> HIDE DEF end
  <2>2. OwnStop(0)'
    <3>1. Boundary(0, jr.data, safe)
      BY <2>1, <1>5 DEF Boundary, LiveData
    <3>2. QED
      BY <3>1, <1>2 DEF OwnStop
  <2>3. OwnPlace'
    BY <2>1, <2>2, <1>1, <1>2 DEF OwnPlace, end
  <2>4. ASSUME NEW p \in 1 .. Len(base)
        PROVE  p \in pInJournal <=> RecordIn(p, 0, end, jr.data, base, tx)
    BY <2>1 DEF TxSections
  <2>5. ASSUME NEW p \in 1 .. Len(base)
        PROVE  \/ db.data[p] = base[p]
               \/ RecordIn(p, 0, safe, jr.data, base, tx)
    <3> SUFFICES ASSUME p \in pInJournal, p \notin need
                 PROVE  RecordIn(p, 0, safe, jr.data, base, tx)
      BY DEF TxPages
    <3>1. PICK k \in 0 + 1 .. end : LiveRecord(jr.data[k], base, tx) /\ jr.data[k].page = p
      BY <2>4 DEF RecordIn
    <3>2. k \in 0 + 1 .. safe
      <4>1. k \in safe + 1 .. journalOff => jr.data[k].page \in need
        BY <2>1, <3>1 DEF TxSections
      <4>2. QED
        BY <4>1, <3>1, <2>1
    <3>3. QED
      BY <3>1, <3>2 DEF RecordIn
  <2>6. \A p \in need : p <= Len(base) => db.data[p] = base[p]
    BY DEF TxPages, PagerType, Pages
  <2>7. ASSUME NEW k \in 0 + 1 .. end, k > safe, LiveRecord(jr.data[k], base, tx)
        PROVE  jr.data[k].page \in need /\ pgs[jr.data[k].page] # NotCached
    <3>1. k \in safe + 1 .. journalOff
      BY <2>1, <2>7
    <3>2. jr.data[k].page \in need
      BY <2>1, <2>7, <3>1 DEF TxSections
    <3>3. QED
      BY <3>2 DEF TxCache
  <2>8. ASSUME NEW p \in 1 .. Len(base)
        PROVE  \/ pgs[p] \in {NotCached, base[p]}
               \/ RecordIn(p, 0, end, jr.data, base, tx)
    <3> SUFFICES ASSUME p \notin pInJournal PROVE pgs[p] \in {NotCached, base[p]}
      BY <2>4
    <3>1. p \in Pages
      BY SqlitePagerAssumption, DatabaseFile DEF DiskType, FilesOK, Pages
    <3>2. p \notin dirty /\ db.data[p] = base[p]
      BY <3>1 DEF TxCache, TxPages
    <3>3. QED
      BY <3>1, <3>2 DEF TxCache
  <2>9. Len(base) > 0 /\ 1 \in 1 .. Len(base)
    BY <1>7, DatabaseFile, EmptySeq
  <2>10. pgs[1] # NotCached
    <3>1. dbSize > 0
      BY <2>9, DatabaseFile DEF TxPlace, PagerType
    <3>2. QED
      BY <3>1 DEF TxCache
  <2>11. \/ dbFileVers[owner] = base[1]
         \/ RecordIn(1, 0, end, jr.data, base, tx)
    BY <2>4, <2>9 DEF TxCache
  <2>12. OwnPages'
    BY <2>5, <2>6, <2>7, <2>8, <2>10, <2>11, <1>1, <1>2 DEF OwnPages, end
  <2>13. QED
    BY <2>3, <2>12
<1>8. OwnPlayback'
  BY <1>1, <1>2, <1>5, <1>6, <1>7 DEF OwnPlayback, Playing
<1>9. HotPlayback'
  BY <1>1 DEF HotPlayback
<1>10. QED
  <2>1. owner' # None /\ pc' \in Playing /\ Always'
    BY <1>1, <1>3, <1>4, SqlitePagerAssumption DEF Playing
  <2>2. QED
    BY <2>1, <1>8, <1>9, ToPlaying

\* sqlite3PagerRollback begins to play back the transaction's own journal.
LEMMA RollbackStep ==
  ASSUME PagerInv, Rollback
  PROVE  PagerInv'
<1>1. CASE ~dbModified
  BY <1>1, RollbackUnmodified
<1>2. CASE dbModified
  <2>1. pc = "ready" /\ state # "shared" /\ pc \in {"ready"} \cup Working
    BY DEF Rollback
  <2>2. Always /\ TxPhase /\ owner \in Conns
    BY <2>1, FromTransaction
  <2>3. /\ BeginPlayback
        /\ UNCHANGED <<files, owner, state, caches, pages, flags, sizes, pInJournal,
                     nRec, journalHdr, left, isUnsync, cksumInit, errCode, bounds,
                     history>>
    BY <1>2 DEF Rollback, files
  <2>4. errCode' \in BOOLEAN /\ faults' \in Nat /\ tx' = tx
    BY <2>2, <2>3 DEF Always, PagerType, bounds
  <2>5. QED
    BY <1>2, <2>1, <2>2, <2>3, <2>4, BeginOwnPlayback
<1>3. QED
  BY <1>1, <1>2

\* An I/O error in a commit is followed by a rollback.
LEMMA CommitFailsStep ==
  ASSUME PagerInv, CommitFails
  PROVE  PagerInv'
<1>1. pc \in Working /\ pc # "finish"
  BY DEF CommitFails, Working
<1>2. Always /\ TxPhase /\ owner \in Conns
  BY <1>1, FromWorking
<1>3. /\ BeginPlayback
      /\ UNCHANGED <<files, owner, state, caches, pages, flags, sizes, pInJournal,
                     nRec, journalHdr, left, isUnsync, cksumInit, errCode, tx,
                     history>>
      /\ faults' = faults + 1
  BY DEF CommitFails
<1>4. errCode' \in BOOLEAN /\ faults' \in Nat /\ dbModified
  BY <1>1, <1>2, <1>3 DEF Always, TxPhase, PagerType, TxPlace, Working
<1>5. QED
  BY <1>1, <1>2, <1>3, <1>4, BeginOwnPlayback

\* An I/O error in a spill is followed by a rollback.
LEMMA SpillFailsStep ==
  ASSUME PagerInv, SpillFails, Windows = {}
  PROVE  PagerInv'
<1>1. pc \in Working /\ pc \notin {"finish", "idle", "zsync"}
  BY DEF SpillFails, Working
<1>2. Always /\ TxPhase /\ owner \in Conns
  BY <1>1, FromWorking
<1>3. faults' \in Nat /\ dbModified /\ LiveData
  BY <1>1, <1>2 DEF SpillFails, Always, TxPhase, PagerType, TxPlace, TxJournal, Working
<1>4. CASE state = "reserved" /\ GivesUp
  BY <1>1, <1>2, <1>3, <1>4, GaveUp
<1>5. CASE /\ BeginPlayback
           /\ errCode' = TRUE
           /\ UNCHANGED <<files, owner, state, caches, pages, flags, sizes,
                          pInJournal, nRec, journalHdr, left, isUnsync,
                          cksumInit, tx, history>>
  <2>1. errCode' \in BOOLEAN
    BY <1>5
  <2>2. QED
    BY <2>1, <1>1, <1>2, <1>3, <1>5, BeginOwnPlayback
<1>6. QED
  BY <1>4, <1>5 DEF SpillFails

\* A step of a playback that leaves the caches of the connections alone.
LEMMA CachesKept ==
  ASSUME CachesOK, UNCHANGED <<owner, base, cache, dbFileVers, isHot>>,
         pc' \notin {"idle", "check"}
  PROVE  CachesOK'
BY DEF CachesOK

\* An I/O error in a playback leaves the journal hot for the next reader.
LEMMA PlaybackFailsStep ==
  ASSUME PagerInv, PlaybackFails, Windows = {}
  PROVE  PagerInv'
<1>1. pc \in {"header", "record"} /\ pc \in Playing /\ pc \notin {"idle", "zsync"}
  BY DEF PlaybackFails, Playing
<1>2. Always /\ OwnPlayback /\ HotPlayback /\ owner \in Conns
  BY <1>1, FromPlaying
<1>3. faults' \in Nat
  BY <1>2 DEF PlaybackFails, Always, PagerType
<1>4. LiveData \/ (~LiveData /\ Quiet)
  BY <1>1, <1>2 DEF OwnPlayback, HotPlayback
<1>5. CASE state # "reserved"
  <2>1. GivesUp
    BY <1>5 DEF PlaybackFails
  <2>2. QED
    BY <2>1, <1>1, <1>2, <1>3, <1>4, GaveUp
<1>6. CASE state = "reserved"
  <2> USE <1>1, <1>2 DEF Always
  <2>1. /\ ~Exposed /\ pc' = "endplay" /\ errCode' = TRUE
        /\ UNCHANGED <<files, owner, goal, state, caches, pages, flags,
                       sizes, journal, isHot, left, isUnsync, cksumInit,
                       tx, history>>
    BY <1>6 DEF PlaybackFails
  <2>2. UNCHANGED <<db, jr, cache, dbFileVers, dirty, need, dbSize, dbOrigSize,
                    nRec, journalOff, journalHdr,
                    committed, previous, inDoubt, base, safe>>
    BY <2>1 DEF files, caches, pages, sizes, history, journal
  <2>3. ~isHot /\ LiveData
    BY <1>6 DEF OwnPlayback, HotPlayback
  <2>4. DiskType' /\ FilesOK' /\ HistoryOK' /\ CachesOK'
    BY <2>1, <2>2, DiskSame, FilesSame, HistorySame, CachesKept
  <2>5. PagerType'
    BY <2>1, <2>2, <1>3 DEF PagerType, flags, journal, Playing
  <2>6. CutShort
    BY <2>1, <2>3, NotExposed
  <2>7. (LiveData' <=> LiveData) /\ (CutShort' <=> CutShort)
    BY <2>2 DEF LiveData, CutShort
  <2>8. ASSUME base # <<>> PROVE OwnPlace' /\ OwnPages'
    <3>1. OwnPlace /\ OwnPages
      BY <2>3, <2>8 DEF OwnPlayback
    <3>2. OwnPlace'
      BY <3>1, <2>1, <2>2, <1>6 DEF OwnPlace
    <3>3. OwnPages'
      BY <3>1, <2>1, <2>2 DEF OwnPages
    <3>4. QED
      BY <3>2, <3>3
  <2>9. OwnPlayback'
    BY <2>1, <2>2, <2>3, <2>6, <2>7, <2>8 DEF OwnPlayback
  <2>10. HotPlayback'
    BY <2>1, <2>3 DEF HotPlayback
  <2>11. QED
    <3>1. owner' # None /\ pc' \in Playing /\ Always'
      BY <2>1, <2>4, <2>5, SqlitePagerAssumption DEF Playing
    <3>2. QED
      BY <3>1, <2>9, <2>10, ToPlaying
<1>7. QED
  BY <1>5, <1>6

\* A playback that has met its end restores the length and zeroes the header.
LEMMA EndSectionStep ==
  ASSUME PagerInv, EndSection
  PROVE  PagerInv'
<1>1. pc = "record" /\ pc \in Playing /\ pc' = "header" /\ left = 0
  BY DEF EndSection, Playing
<1>2. Always /\ OwnPlayback /\ HotPlayback /\ owner \in Conns
  BY <1>1, FromPlaying
<1> USE <1>1, <1>2 DEF Always
<1>3. UNCHANGED <<files, owner, goal, state, caches, pages, flags, sizes,
                  journal, play, bounds, history>>
  BY DEF EndSection
<1>4. UNCHANGED <<db, jr, cache, dbFileVers, dirty, need, dbModified, dbSize,
                  dbOrigSize, nRec, journalOff, journalHdr, isHot, left, isUnsync,
                  cksumInit, errCode, tx, committed, previous, inDoubt, base, safe>>
  BY <1>3 DEF files, caches, pages, flags, sizes, history, journal, play, bounds
<1>5. DiskType' /\ FilesOK' /\ HistoryOK' /\ CachesOK'
  BY <1>3, <1>4, DiskSame, FilesSame, HistorySame, CachesKept
<1>6. PagerType'
  BY <1>3, <1>4 DEF PagerType, flags, journal, bounds, Playing
<1>7. LiveData' <=> LiveData
  BY <1>4 DEF LiveData
<1>8. journalOff \in Nat /\ journalOff + 0 = journalOff /\ Len(jr.data) \in Nat
  BY JournalFile DEF PagerType
<1>9. OwnPlayback'
  <2>1. ASSUME ~isHot, base # <<>> PROVE OwnPlace' /\ OwnPages'
    <3>1. OwnPlace /\ OwnPages /\ journalOff <= Len(jr.data)
      BY <2>1 DEF OwnPlayback
    <3>2. OwnStop(journalOff)
      <4>1. CASE isUnsync
        <5>1. journalOff = Len(jr.data) /\ journalHdr + nRec <= Len(jr.data)
          BY <4>1, <3>1, <1>8 DEF OwnPlace, OwnJournal
        <5>2. QED
          BY <5>1 DEF OwnStop, AtEnd
      <4>2. CASE ~isUnsync
        BY <4>2, <3>1, <1>8 DEF OwnPlace
      <4>3. QED
        BY <4>1, <4>2
    <3>3. OwnPlace'
      <4>1. OwnStop(journalOff)'
        BY <3>2, <1>4 DEF OwnStop
      <4>2. QED
        BY <3>1, <4>1, <1>4 DEF OwnPlace
    <3>4. OwnPages'
      BY <3>1, <1>3, <1>4 DEF OwnPages
    <3>5. QED
      BY <3>3, <3>4
  <2>2. QED
    BY <2>1, <1>3, <1>4, <1>7 DEF OwnPlayback
<1>10. HotPlayback'
  <2>1. ASSUME isHot, LiveData, base # <<>> PROVE HotPages'
    <3>1. HotPages
      BY <2>1 DEF HotPlayback
    <3>2. HotStop(journalOff)
      BY <3>1, <1>8 DEF HotPages
    <3>3. HotStop(journalOff)'
      BY <3>2, <1>4 DEF HotStop
    <3>4. QED
      BY <3>1, <3>3, <1>4 DEF HotPages
  <2>2. isHot => LiveData /\ Clean
    BY DEF HotPlayback
  <2>3. Clean => Clean'
    BY <1>4 DEF Clean
  <2>4. QED
    BY <2>1, <2>2, <2>3, <1>3, <1>4, <1>7 DEF HotPlayback
<1>11. QED
  <2>1. owner' # None /\ pc' \in Playing /\ Always'
    BY <1>3, <1>5, <1>6, SqlitePagerAssumption DEF Playing
  <2>2. QED
    BY <2>1, <1>9, <1>10, ToPlaying

\* The last block a recovery reads has a number.
LEMMA PlayEndInt ==
  ASSUME DiskType
  PROVE  PlayEnd(jr.data, safe) \in Int
<1>1. safe \in Nat /\ jr.data \in Seq(Blocks) /\ Len(jr.data) \in Nat
  BY JournalFile DEF DiskType
<1>2. CASE safe < Len(jr.data)
  <2>1. safe + 1 \in 1 .. Len(jr.data)
    BY <1>1, <1>2
  <2>2. jr.data[safe + 1] \in Blocks
    BY <1>1, <2>1
  <2>3. jr.data[safe + 1].body \in Int
    BY <2>2 DEF Blocks
  <2>4. QED
    BY <1>1, <2>3 DEF PlayEnd
<1>3. CASE ~(safe < Len(jr.data))
  BY <1>1, <1>3 DEF PlayEnd
<1>4. QED
  BY <1>2, <1>3

\* At the end of a playback all the pages of base are back.
LEMMA PlaybackDone ==
  ASSUME Always, OwnPlayback, HotPlayback, pc = "endplay", journalOff > 0
  PROVE  LiveData /\ state \in Writing /\ goal = 0 /\ Prefix(base, db.data) /\ EndCache
<1> USE DEF Always
<1>1. /\ base \in Seq(Values) /\ Len(base) \in Nat /\ Len(db.data) \in Nat
      /\ PageCount = Len(db.data) /\ Len(base) <= Len(db.data) /\ safe \in Nat
      /\ journalOff \in Nat /\ journalHdr \in Nat /\ nRec \in Nat
      /\ pc \in Playing
  BY DatabaseFile DEF FilesOK, PagerType, Playing
<1>2. CASE ~isHot
  <2>1. /\ state \in {"reserved", "exclusive"} /\ goal = 0 /\ LiveData
        /\ dbSize = Len(base) /\ (state = "reserved" => db.data = base)
        /\ base # <<>> => OwnPlace /\ OwnPages
    BY <1>1, <1>2 DEF OwnPlayback
  <2>2. CASE base = <<>>
    <3>1. Len(base) = 0
      BY <2>2
    <3>2. Prefix(base, db.data)
      BY <3>1, <1>1 DEF Prefix
    <3>3. EndCache
      BY <3>1, <2>1 DEF EndCache, Pages
    <3>4. QED
      BY <2>1, <3>2, <3>3 DEF Writing
  <2>3. CASE base # <<>>
    <3> DEFINE end == journalHdr + nRec
               pgs == cache[owner]
    <3>1. OwnPlace /\ OwnPages /\ end \in Nat
      BY <2>1, <2>3, <1>1
    <3>2. /\ end <= journalOff \/ (errCode /\ state = "reserved")
          /\ 1 <= journalHdr /\ safe \in {journalHdr - 1, end}
      BY <3>1 DEF OwnPlace, OwnJournal
    <3>3. safe <= end
      BY <3>2, <1>1
    <3> HIDE DEF end
    <3>4. ASSUME NEW p \in 1 .. Len(base) PROVE db.data[p] = base[p]
      <4>1. CASE end <= journalOff
        <5>1. ~RecordIn(p, journalOff, safe, jr.data, base, tx)
          BY <4>1, <3>1, <3>3, <1>1 DEF RecordIn
        <5>2. QED
          BY <5>1, <3>1 DEF OwnPages
      <4>2. CASE state = "reserved"
        BY <4>2, <2>1
      <4>3. QED
        BY <3>2, <4>1, <4>2
    <3>5. Prefix(base, db.data)
      BY <3>4, <1>1 DEF Prefix
    <3>6. EndCache
      <4> SUFFICES ASSUME ~errCode, NEW p \in Pages, p <= dbSize, pgs[p] # NotCached
                   PROVE  /\ p <= PageCount /\ pgs[p] = db.data[p]
                          /\ dbFileVers[owner] = db.data[1]
        BY DEF EndCache
      <4>1. end <= journalOff
        BY <3>2
      <4>2. ~RecordIn(p, journalOff, end, jr.data, base, tx)
            /\ ~RecordIn(1, journalOff, end, jr.data, base, tx)
        BY <4>1, <3>1, <1>1 DEF RecordIn
      <4>3. p \in 1 .. Len(base) /\ 1 \in 1 .. Len(base) /\ p <= PageCount
        BY <2>1, <1>1, SqlitePagerAssumption DEF Pages
      <4>4. pgs[p] = base[p] /\ dbFileVers[owner] = base[1]
        BY <3>1, <4>2, <4>3 DEF OwnPages, end
      <4>5. QED
        BY <4>3, <4>4, <3>4
    <3>7. QED
      BY <2>1, <3>5, <3>6 DEF Writing
  <2>4. QED
    BY <2>2, <2>3
<1>3. CASE isHot
  <2>1. state = "exclusive" /\ goal = 0 /\ LiveData /\ (base # <<>> => HotPages)
    BY <1>1, <1>3 DEF HotPlayback
  <2>2. ASSUME NEW p \in 1 .. Len(base) PROVE db.data[p] = base[p]
    <3>1. HotPages
      BY <2>1
    <3> DEFINE stop == PlayEnd(jr.data, safe)
    <3>2. stop <= journalOff
      BY <3>1 DEF HotPages
    <3>3. stop \in Int
      BY <1>1, PlayEndInt
    <3> HIDE DEF stop
    <3>4. ~RecordIn(p, journalOff, stop, jr.data, base, tx)
      BY <3>2, <3>3, <1>1 DEF RecordIn
    <3>5. QED
      BY <3>1, <3>4 DEF HotPages, stop
  <2>3. Prefix(base, db.data)
    BY <2>2, <1>1 DEF Prefix
  <2>4. EndCache
    BY <1>3 DEF EndCache
  <2>5. QED
    BY <2>1, <2>3, <2>4 DEF Writing
<1>4. QED
  BY <1>2, <1>3 DEF PagerType

\* pager_playback finalises the journal, or finds nothing to finalise.
LEMMA EndPlaybackStep ==
  ASSUME PagerInv, EndPlayback
  PROVE  PagerInv'
<1>1. pc = "endplay" /\ pc \in Playing
  BY DEF EndPlayback, Playing
<1>2. Always /\ OwnPlayback /\ HotPlayback /\ owner \in Conns
  BY <1>1, FromPlaying
<1> USE <1>1, <1>2 DEF Always
<1>3. UNCHANGED <<db, owner, goal, state, caches, pages, flags, sizes, journal,
                  play, bounds, committed, previous, base, safe>>
  BY DEF EndPlayback
<1>4. UNCHANGED <<owner, db, tx, base, safe, cache, dbFileVers, isHot, committed,
                  previous, errCode, dbSize, state, goal>>
  BY <1>3 DEF caches, sizes, bounds, play
<1>5. ASSUME pc' \in {"zsync", "end"} PROVE PagerType'
  BY <1>3, <1>5 DEF PagerType, caches, pages, flags, sizes, journal, play, bounds
<1>6. ASSUME pc' \in {"zsync", "end"} PROVE CachesOK'
  BY <1>4, <1>6, CachesKept
<1>7. EndCache => EndCache'
  BY <1>4 DEF EndCache, PageCount
<1>8. CASE journalOff > 0
  <2>1. ZeroHeader /\ inDoubt' = (inDoubt \/ InFlux(db)) /\ pc' = "zsync"
    BY <1>8 DEF EndPlayback, ZeroHeader
  <2>2. LiveData /\ state \in Writing /\ goal = 0 /\ Prefix(base, db.data) /\ EndCache
    BY <1>8, PlaybackDone
  <2>3. /\ inDoubt' \in BOOLEAN /\ (inDoubt => inDoubt')
        /\ committed' \in Seq(Values) /\ previous' \in Seq(Values)
        /\ inDoubt' \/ ~InFlux(db)
    BY <2>1, <1>4 DEF DiskType
  <2>4. /\ DiskType' /\ FilesOK'
        /\ Len(jr'.data) >= 1 /\ ~IsHeader(jr'.data[1])
        /\ \E b \in jr'.may[1] : IsHeader(b)
    BY <1>4, <2>1, <2>2, <2>3, ZeroHeaderFacts
  <2>5. HistoryOK'
    BY <2>1, <1>4 DEF HistoryOK
  <2>6. Prefix(committed, db.data)
    <3>1. Prefix(committed, base)
      BY DEF HistoryOK
    <3>2. Len(committed) \in Nat /\ Len(base) \in Nat /\ Len(db.data) \in Nat
      BY DatabaseFile DEF DiskType
    <3>3. QED
      BY <3>1, <3>2, <2>2 DEF Prefix
  <2>7. Finalising'
    BY <2>1, <2>2, <2>3, <2>4, <2>6, <1>4, <1>7 DEF Finalising
  <2>8. owner' # None /\ Always'
    BY <1>4, <1>5, <1>6, <2>1, <2>4, <2>5, SqlitePagerAssumption
  <2>9. QED
    BY <2>1, <2>7, <2>8, ToFinalising
<1>9. CASE ~(journalOff > 0)
  <2>1. pc' = "end" /\ UNCHANGED <<jr, inDoubt>>
    BY <1>9 DEF EndPlayback
  <2>2. journalOff = 0
    BY <1>9 DEF PagerType
  <2>3. state \in Writing /\ goal = 0
    BY DEF OwnPlayback, HotPlayback, Writing
  <2>4. (errCode /\ CutShort) \/ (~LiveData /\ Quiet)
    BY <1>9, <2>2 DEF OwnPlayback, HotPlayback
  <2>5. EndCache
    BY <2>4, <2>2 DEF EndCache, OwnPlayback
  <2>6. (CutShort' <=> CutShort) /\ (LiveData' <=> LiveData) /\ (Quiet' <=> Quiet)
    BY <2>1, <1>4 DEF CutShort, LiveData, Quiet
  <2>7. Ending'
    BY <2>1, <2>3, <2>4, <2>5, <2>6, <1>4, <1>7 DEF Ending
  <2>8. DiskType' /\ FilesOK' /\ HistoryOK'
    BY <2>1, <1>4, DiskSame, FilesSame, HistorySame DEF history
  <2>9. owner' # None /\ Always'
    BY <1>4, <1>5, <1>6, <2>1, <2>8, SqlitePagerAssumption
  <2>10. QED
    BY <2>1, <2>7, <2>9, ToEnding
<1>10. QED
  BY <1>8, <1>9

-----------------------------------------------------------------------------
(* A power failure.                                                        *)

\* After a power failure a file reads as one of the possibilities it had.
LEMMA SurvivorFacts ==
  ASSUME NEW V, NEW f, FileOK(f, V), NEW d \in Survivors(f)
  PROVE  /\ FileOK(d, V)
         /\ Len(d.data) \in Nat /\ Len(d.may) = Len(d.data)
         /\ Len(d.data) \in f.lens /\ Len(d.data) <= Len(f.may)
         /\ d.lens = {Len(d.data)}
         /\ \A i \in 1 .. Len(d.data) :
              d.may[i] = {d.data[i]} /\ d.data[i] \in f.may[i]
<1>1. /\ d = OnDisk(d.data) /\ d.data \in Seq(V) /\ Len(d.data) \in f.lens
      /\ \A i \in 1 .. Len(d.data) : d.data[i] \in f.may[i]
  BY Survive
<1>2. /\ FileOK(d, V) /\ Len(d.may) = Len(d.data) /\ d.lens = {Len(d.data)}
      /\ \A i \in 1 .. Len(d.data) : d.may[i] = {d.data[i]}
  BY <1>1, OnDiskFile
<1>3. Len(d.data) \in Nat /\ Len(d.data) <= Len(f.may)
  BY <1>1 DEF FileOK
<1>4. QED
  BY <1>1, <1>2, <1>3

\* What the disk may hold of the journal while its first header is zeroed is
\* one of the possibilities there were before.
LEMMA MayOfJournal ==
  ASSUME DiskType, Finalising
  PROVE  /\ Len(JournalMay) = Len(jr.may)
         /\ Possible(JournalMay, jr.lens)
         /\ \A i \in 1 .. Len(jr.may) : \A b \in jr.may[i] :
              b \in JournalMay[i] \/ (pc = "zsync" /\ i = 1 /\ ~IsHeader(b))
         /\ \A i \in 1 .. Len(jr.may) : JournalMay[i] \subseteq jr.may[i]
<1>1. Possible(jr.may, jr.lens) /\ jr.may \in Seq(SUBSET Blocks) /\ Len(jr.may) \in Nat
  BY JournalFile
<1>2. CASE pc # "zsync"
  BY <1>1, <1>2 DEF JournalMay
<1>3. CASE pc = "zsync"
  <2>1. /\ JournalMay = [jr.may EXCEPT ![1] = @ \ {Zeroes}]
        /\ \E b \in jr.may[1] : IsHeader(b)
        /\ Len(jr.data) >= 1
    BY <1>3 DEF JournalMay, Finalising
  <2>2. Len(jr.may) >= 1 /\ 1 \in 1 .. Len(jr.may)
    BY <2>1, JournalFile, <1>1
  <2>3. /\ Len(JournalMay) = Len(jr.may)
        /\ \A i \in 1 .. Len(jr.may) : i # 1 => JournalMay[i] = jr.may[i]
        /\ JournalMay[1] = jr.may[1] \ {Zeroes}
    BY <2>1, <2>2, <1>1
  <2>4. ~IsHeader(Zeroes)
    BY BlockTypes
  <2>5. JournalMay[1] # {}
    BY <2>1, <2>3, <2>4
  <2>6. Possible(JournalMay, jr.lens)
    BY <2>3, <2>5, <1>1 DEF Possible
  <2>7. QED
    BY <2>3, <2>4, <2>6, <1>3
<1>4. QED
  BY <1>2, <1>3

\* The files, if the first header of the journal is still there.
LEMMA HeaderSurvives ==
  ASSUME DiskType, FilesOK, HistoryOK, Finalising, ~inDoubt, ~Exposed,
         db' \in Survivors(db), jr' \in Survivors(jr),
         jr'.data # <<>>, IsHeader(jr'.data[1]),
         committed' = previous, previous' = committed',
         pc' = "idle", inDoubt' = FALSE, UNCHANGED <<base, safe, tx>>
  PROVE  DiskType' /\ FilesOK' /\ HistoryOK' /\ CutShort'
<1> DEFINE may == JournalMay
<1>1. /\ FileOK(db', Values)
      /\ Len(db'.data) \in Nat /\ Len(db'.may) = Len(db'.data)
      /\ Len(db'.data) \in db.lens /\ Len(db'.data) <= Len(db.may)
      /\ db'.lens = {Len(db'.data)}
      /\ \A i \in 1 .. Len(db'.data) :
           db'.may[i] = {db'.data[i]} /\ db'.data[i] \in db.may[i]
  BY SurvivorFacts DEF DiskType
<1>2. /\ FileOK(jr', Blocks)
      /\ Len(jr'.data) \in Nat /\ Len(jr'.may) = Len(jr'.data)
      /\ Len(jr'.data) \in jr.lens /\ Len(jr'.data) <= Len(jr.may)
      /\ jr'.lens = {Len(jr'.data)}
      /\ \A i \in 1 .. Len(jr'.data) :
           jr'.may[i] = {jr'.data[i]} /\ jr'.data[i] \in jr.may[i]
  BY SurvivorFacts DEF DiskType
<1>3. /\ base \in Seq(Values) /\ Len(base) \in Nat /\ safe \in Nat
      /\ Len(db.may) = Len(db.data) /\ Len(db.data) <= MaxPages
      /\ jr.lens \in SUBSET Nat /\ Len(jr.may) \in Nat /\ tx \in Nat
  BY DatabaseFile, JournalFile DEF DiskType
<1>4. \A i \in 1 .. Len(jr'.may) : jr'.may[i] \subseteq jr.may[i] /\ i \in 1 .. Len(jr.may)
  BY <1>2, <1>3
<1>5. DiskType'
  <2>1. BlocksOK(jr'.may, tx)
    BY <1>4 DEF DiskType, BlocksOK
  <2>2. Len(db'.data) <= MaxPages
    BY <1>1, <1>3, SqlitePagerAssumption
  <2>3. previous' \in Seq(Values) /\ committed' \in Seq(Values)
    BY DEF DiskType
  <2>4. QED
    BY <1>1, <1>2, <1>3, <2>1, <2>2, <2>3 DEF DiskType
<1>6. /\ Len(may) = Len(jr.may) /\ Possible(may, jr.lens)
      /\ \A i \in 1 .. Len(jr.may) : \A b \in jr.may[i] :
           b \in may[i] \/ (pc = "zsync" /\ i = 1 /\ ~IsHeader(b))
  BY MayOfJournal
<1>7. Len(jr'.data) >= 1
  BY <1>2, EmptySeq DEF FileOK
<1>8. Within(jr'.may, may, jr.lens)
  <2>1. \A i \in 1 .. Len(jr'.may) : jr'.may[i] \subseteq may[i]
    BY <1>2, <1>4, <1>6
  <2>2. QED
    BY <2>1, <1>2, <1>6 DEF Within
<1>9. Within(jr'.may, jr.may, jr.lens) /\ Possible(jr.may, jr.lens)
  BY <1>2, <1>4, JournalFile DEF Within
<1>10. jr'.lens \in SUBSET jr.lens
  BY <1>2
<1>11. base # <<>> => JournalOK(may, jr.lens, base, tx, safe)
  BY DEF FilesOK
<1> HIDE DEF may
<1>12. base # <<>> => JournalOK(jr'.may, jr'.lens, base, tx, safe)
  BY <1>3, <1>6, <1>8, <1>10, <1>11, JournalNarrows
<1>13. base = <<>> => NothingToRestore(jr'.may)
  BY <1>9, NothingNarrows DEF FilesOK
<1>14. ASSUME NEW p \in 1 .. Len(base)
       PROVE  db'.data[p] = base[p] \/ Restorable(p, jr'.may, base, tx, safe)
  <2>1. base # <<>>
    BY <1>14
  <2>2. (\A v \in db.may[p] : v = base[p]) \/ Restorable(p, may, base, tx, safe)
    BY DEF FilesOK, may
  <2>3. p \in 1 .. Len(db'.data)
    BY <1>1, <1>3 DEF FilesOK
  <2>4. CASE \A v \in db.may[p] : v = base[p]
    BY <2>3, <2>4, <1>1
  <2>5. CASE Restorable(p, may, base, tx, safe)
    <3>1. safe <= safe
      BY <1>3
    <3>2. QED
      BY <2>1, <2>5, <3>1, <1>3, <1>6, <1>8, <1>11, RestorableNarrows
  <2>6. QED
    BY <2>2, <2>4, <2>5
<1>15. FilesOK'
  <2>1. JournalMay' = jr'.may /\ PageCount' = Len(db'.data)
    BY DEF JournalMay, PageCount
  <2>2. Len(base) <= Len(db'.data)
    BY <1>1 DEF FilesOK
  <2>3. \A p \in 1 .. Len(base) :
           (\A v \in db'.may[p] : v = base[p]) \/ Restorable(p, jr'.may, base, tx, safe)
    BY <1>1, <1>3, <1>14, <2>2
  <2>4. QED
    BY <2>1, <2>2, <2>3, <1>1, <1>12, <1>13, <1>14 DEF FilesOK
<1>16. HistoryOK'
  BY DEF HistoryOK
<1>17. ASSUME base # <<>> PROVE Sealed(jr'.may, safe)
  <2> SUFFICES ASSUME safe + 2 <= Len(jr'.may), NEW b \in jr'.may[safe + 1],
                      IsHeader(b), b.body = 0, NEW c \in jr'.may[safe + 2],
                      IsHeader(c)
               PROVE  FALSE
    BY DEF Sealed
  <2>1. /\ safe + 1 \in 1 .. Len(jr'.may) /\ safe + 2 \in 1 .. Len(jr'.may)
        /\ safe + 1 \in 1 .. Len(jr.may) - 1 /\ (safe + 1) + 1 = safe + 2
        /\ 1 \in 1 .. Len(jr'.may) /\ safe < Len(jr'.may)
    BY <1>2, <1>3
  <2>2. b.id = tx
    BY <2>1, <1>12, <1>17 DEF JournalOK, LastSection, LiveHeader
  <2>3. c.id # tx
    <3>1. \E d \in jr'.may[1] : IsHeader(d)
      BY <1>2, <2>1
    <3>2. NoneBeyond(jr'.may, tx, safe) /\ Len(jr'.may) >= 1
      BY <1>12, <1>17, <1>2, <1>7 DEF JournalOK
    <3>3. QED
      BY <3>1, <3>2, <2>1 DEF NoneBeyond
  <2>4. b \in jr.may[safe + 1] /\ c \in jr.may[(safe + 1) + 1]
    BY <2>1, <1>4
  <2>5. jr'.data[1] \in jr.may[1] /\ jr.may # <<>>
    BY <1>2, <1>7, <1>3
  <2>6. Exposed
    BY <2>1, <2>2, <2>3, <2>4, <2>5 DEF Exposed, IsHeader
  <2>7. QED
    BY <2>6
<1>18. CutShort'
  BY <1>7, <1>17 DEF CutShort, LiveData
<1>19. QED
  BY <1>5, <1>15, <1>16, <1>18

\* The files, if it is not: the transaction is settled, one way or the other.
LEMMA HeaderLost ==
  ASSUME DiskType, FilesOK, HistoryOK, Finalising, ~inDoubt,
         db' \in Survivors(db), jr' \in Survivors(jr),
         ~(jr'.data # <<>> /\ IsHeader(jr'.data[1])),
         UNCHANGED committed, previous' = committed',
         pc' = "idle", inDoubt' = FALSE, base' = db'.data, safe' = 0, tx' = tx
  PROVE  DiskType' /\ FilesOK' /\ HistoryOK' /\ ~LiveData' /\ Quiet'
<1>1. /\ FileOK(db', Values)
      /\ Len(db'.data) \in Nat /\ Len(db'.may) = Len(db'.data)
      /\ Len(db'.data) \in db.lens /\ Len(db'.data) <= Len(db.may)
      /\ db'.lens = {Len(db'.data)}
      /\ \A i \in 1 .. Len(db'.data) :
           db'.may[i] = {db'.data[i]} /\ db'.data[i] \in db.may[i]
  BY SurvivorFacts DEF DiskType
<1>2. /\ FileOK(jr', Blocks)
      /\ Len(jr'.data) \in Nat /\ Len(jr'.may) = Len(jr'.data)
      /\ Len(jr'.data) \in jr.lens /\ Len(jr'.data) <= Len(jr.may)
      /\ jr'.lens = {Len(jr'.data)}
      /\ \A i \in 1 .. Len(jr'.data) :
           jr'.may[i] = {jr'.data[i]} /\ jr'.data[i] \in jr.may[i]
  BY SurvivorFacts DEF DiskType
<1>3. /\ base \in Seq(Values) /\ Len(base) \in Nat /\ safe \in Nat
      /\ Len(db.may) = Len(db.data) /\ Len(db.data) <= MaxPages
      /\ jr.lens \in SUBSET Nat /\ Len(jr.may) \in Nat /\ tx \in Nat
      /\ db'.data \in Seq(Values) /\ db.data \in Seq(Values)
  BY <1>1, DatabaseFile, JournalFile DEF DiskType, FileOK
<1>4. \A i \in 1 .. Len(jr'.may) : jr'.may[i] \subseteq jr.may[i] /\ i \in 1 .. Len(jr.may)
  BY <1>2, <1>3
<1>5. DiskType'
  <2>1. BlocksOK(jr'.may, tx)
    BY <1>4 DEF DiskType, BlocksOK
  <2>2. Len(db'.data) <= MaxPages
    BY <1>1, <1>3, SqlitePagerAssumption
  <2>3. previous' \in Seq(Values) /\ committed' \in Seq(Values)
    BY DEF DiskType
  <2>4. QED
    BY <1>1, <1>2, <1>3, <2>1, <2>2, <2>3 DEF DiskType
<1>6. ~(Len(jr'.data) >= 1 /\ IsHeader(jr'.data[1]))
  BY <1>2, EmptySeq DEF FileOK
<1>7. NoHeader(jr'.may)
  <2>1. Len(jr'.may) >= 1 => 1 \in 1 .. Len(jr'.data)
    BY <1>2
  <2>2. QED
    BY <2>1, <1>2, <1>6 DEF NoHeader
<1>8. Within(jr'.may, jr.may, jr.lens) /\ Possible(jr.may, jr.lens)
  BY <1>2, <1>4, JournalFile DEF Within
<1>9. Len(base) <= Len(db'.data)
  BY <1>1 DEF FilesOK
<1>10. FilesOK'
  <2>1. JournalMay' = jr'.may /\ PageCount' = Len(db'.data)
    BY DEF JournalMay, PageCount
  <2>2. ASSUME db'.data = <<>> PROVE NothingToRestore(jr'.may)
    <3>1. base = <<>>
      BY <2>2, <1>9, <1>3, EmptySeq
    <3>2. QED
      BY <3>1, <1>8, NothingNarrows DEF FilesOK
  <2>3. JournalOK(jr'.may, jr'.lens, db'.data, tx, 0)
    <3>1. jr'.lens \in SUBSET Nat /\ Len(jr'.may) \in Nat
      BY <1>2
    <3>2. QED
      BY <3>1, <1>7, QuietJournal
  <2>4. /\ \A n \in db'.lens : n = Len(db'.data) /\ Len(db'.data) <= n
        /\ \A p \in 1 .. Len(db'.data) : \A v \in db'.may[p] : v = db'.data[p]
    BY <1>1
  <2>5. QED
    BY <2>1, <2>2, <2>3, <2>4, <1>1 DEF FilesOK
<1>11. Prefix(committed, db'.data)
  <2>0. committed \in Seq(Values) /\ Len(committed) \in Nat
    BY DEF DiskType
  <2>1. CASE pc = "zsync"
    <3>1. Prefix(committed, db.data) /\ ~InFlux(db)
      BY <2>1 DEF Finalising
    <3>2. /\ \A n \in db.lens : n = Len(db.data)
          /\ \A p \in 1 .. Len(db.data) : \A v \in db.may[p] : v = db.data[p]
      BY <3>1, Settled
    <3>3. Len(db'.data) = Len(db.data)
      BY <3>2, <1>1
    <3>4. \A p \in 1 .. Len(db'.data) : db'.data[p] = db.data[p]
      BY <3>2, <3>3, <1>1
    <3>5. QED
      BY <3>1, <3>3, <3>4, <1>1, <2>0 DEF Prefix
  <2>2. CASE pc # "zsync"
    <3>1. Prefix(committed, base)
      BY <2>2 DEF HistoryOK
    <3>2. ASSUME NEW p \in 1 .. Len(base) PROVE db'.data[p] = base[p]
      <4>1. p \in 1 .. Len(db'.data) /\ base # <<>>
        BY <1>9, <1>1, <1>3
      <4>2. (\A v \in db.may[p] : v = base[p]) \/ Restorable(p, jr.may, base, tx, safe)
        BY <2>2, MayOutside DEF FilesOK
      <4>3. ~Restorable(p, jr.may, base, tx, safe)
        <5> SUFFICES ASSUME Restorable(p, jr.may, base, tx, safe) PROVE FALSE
          OBVIOUS
        <5>1. JournalOK(jr.may, jr.lens, base, tx, safe)
          BY <2>2, <4>1, MayOutside DEF FilesOK
        <5>2. /\ \A n \in jr.lens : 1 <= n
              /\ \A b \in jr.may[1] : IsHeader(b)
          BY <5>1, <1>8, <1>3, RestorableHeader
        <5>3. 1 \in 1 .. Len(jr'.data)
          BY <5>2, <1>2
        <5>4. jr'.data[1] \in jr.may[1]
          BY <5>3, <1>2
        <5>5. QED
          BY <5>2, <5>3, <5>4, <1>6, <1>2
      <4>4. QED
        BY <4>1, <4>2, <4>3, <1>1
    <3>3. QED
      BY <3>1, <3>2, <1>9, <1>1, <1>3, <2>0 DEF Prefix
  <2>3. QED
    BY <2>1, <2>2
<1>12. HistoryOK'
  BY <1>11 DEF HistoryOK
<1>13. ~LiveData'
  BY <1>6 DEF LiveData
<1>14. Quiet'
  BY <1>7 DEF Quiet
<1>15. QED
  BY <1>5, <1>10, <1>12, <1>13, <1>14

\* A power failure at any step leaves files from which base can be restored.
LEMMA PowerFailureStep ==
  ASSUME PagerInv, PowerFailure, Windows = {}
  PROVE  PagerInv'
<1>1. /\ DiskType /\ PagerType /\ FilesOK /\ HistoryOK /\ CachesOK /\ Finalising
  BY DEF PagerInv
<1>2. /\ ~inDoubt /\ ~Exposed /\ faults' = faults + 1
      /\ db' \in Survivors(db) /\ jr' \in Survivors(jr) /\ Unlocked
      /\ cache' = [c \in Conns |-> NoPages] /\ dbFileVers' = [c \in Conns |-> 0]
      /\ previous' = committed' /\ inDoubt' = FALSE /\ tx' = tx
  BY DEF PowerFailure, MayStrike
<1>3. /\ owner' = None /\ pc' = "idle" /\ goal' = 0 /\ state' = "unlock"
      /\ errCode' = FALSE /\ isHot' = FALSE /\ dirty' = {} /\ need' = {}
      /\ dbModified' = FALSE
  BY <1>2 DEF Unlocked, Reset
<1>4. PagerType'
  <2>1. faults' \in Nat
    BY <1>1, <1>2 DEF PagerType
  <2>2. NoPages \in [Pages -> Values \cup {NotCached}] /\ 0 \in Values
    BY DEF NoPages, Values, Torn
  <2>3. /\ cache' \in [Conns -> [Pages -> Values \cup {NotCached}]]
        /\ dbFileVers' \in [Conns -> Values]
    BY <1>2, <2>2
  <2>4. QED
    BY <1>1, <1>2, <2>1, <2>3, UnlockedType
<1>5. CachesOK'
  BY <1>2 DEF CachesOK, VersionOK
<1>6. /\ DiskType' /\ FilesOK' /\ HistoryOK'
      /\ CutShort' \/ (~LiveData' /\ Quiet')
  <2>1. CASE jr'.data # <<>> /\ IsHeader(jr'.data[1])
    <3>1. committed' = previous /\ UNCHANGED <<base, safe>>
      BY <2>1 DEF PowerFailure, IsHeader
    <3>2. DiskType' /\ FilesOK' /\ HistoryOK' /\ CutShort'
      BY <2>1, <3>1, <1>1, <1>2, <1>3, HeaderSurvives
    <3>3. QED
      BY <3>2
  <2>2. CASE ~(jr'.data # <<>> /\ IsHeader(jr'.data[1]))
    <3>1. UNCHANGED committed /\ base' = db'.data /\ safe' = 0
      BY <2>2 DEF PowerFailure, IsHeader
    <3>2. DiskType' /\ FilesOK' /\ HistoryOK' /\ ~LiveData' /\ Quiet'
      BY <2>2, <3>1, <1>1, <1>2, <1>3, HeaderLost
    <3>3. QED
      BY <3>2
  <2>3. QED
    BY <2>1, <2>2
<1>7. Idle'
  BY <1>3, <1>6 DEF Idle, Clean
<1>8. Always'
  BY <1>4, <1>5, <1>6 DEF Always
<1>9. QED
  BY <1>3, <1>7, <1>8, ToIdle

-----------------------------------------------------------------------------
(* The playback.                                                           *)

\* A header that is read among the synced sections.
LEMMA NextSection ==
  ASSUME NEW may, NEW lens \in SUBSET Nat, NEW data, NEW B, NEW X, NEW e \in Nat,
         Len(may) \in Nat, OneOf(data, may, lens), SafeSections(may, lens, B, X, e),
         NEW t \in Nat, t < e, IsHeader(data[t + 1])
  PROVE  /\ LiveHeader(data[t + 1], B, X) /\ data[t + 1].body \in Nat
         /\ t + 1 + data[t + 1].body <= e /\ e <= Len(data)
         /\ Boundary(t + 1 + data[t + 1].body, data, e)
         /\ \A k \in t + 2 .. t + 1 + data[t + 1].body : LiveRecord(data[k], B, X)
<1> DEFINE i == t + 1
           b == data[t + 1]
<1>1. /\ Len(data) \in lens /\ Len(data) \in Nat /\ e <= Len(data) /\ i \in 1 .. e
      /\ Len(data) <= Len(may)
      /\ \A k \in 1 .. Len(data) : data[k] \in may[k]
  BY DEF OneOf, SafeSections
<1>2. b \in may[i]
  BY <1>1
<1>3. /\ LiveHeader(b, B, X)
      /\ i + b.body <= e
      /\ \A k \in i + 1 .. i + b.body : \A c \in may[k] : LiveRecord(c, B, X)
      /\ i + b.body < e => \A c \in may[i + b.body + 1] : IsHeader(c)
  BY <1>1, <1>2 DEF SafeSections, LiveRecord, IsHeader
<1>4. b.body \in Nat
  BY <1>3 DEF LiveHeader
<1> HIDE DEF b
<1>5. \A k \in i + 1 .. i + b.body : k \in 1 .. Len(data)
  BY <1>1, <1>3, <1>4
<1>6. \A k \in i + 1 .. i + b.body : LiveRecord(data[k], B, X)
  BY <1>1, <1>3, <1>5
<1>7. Boundary(i + b.body, data, e)
  <2>1. i + b.body < e => i + b.body + 1 \in 1 .. Len(data)
    BY <1>1, <1>4
  <2>2. QED
    BY <2>1, <1>1, <1>3 DEF Boundary
<1>8. i + 1 = t + 2
  OBVIOUS
<1>9. QED
  BY <1>1, <1>3, <1>4, <1>6, <1>7, <1>8 DEF b

\* The header of the last section, if the disk has it.
LEMMA FinalSection ==
  ASSUME NEW may, NEW lens \in SUBSET Nat, NEW data, NEW B, NEW X, NEW e \in Nat,
         Len(may) \in Nat, OneOf(data, may, lens), LastSection(may, lens, B, X, e),
         e < Len(data), IsHeader(data[e + 1])
  PROVE  /\ LiveHeader(data[e + 1], B, X) /\ data[e + 1].body \in Nat
         /\ e + 1 + data[e + 1].body <= Len(data)
         /\ data[e + 1].body > 0 => AtEnd(e + 1 + data[e + 1].body, data)
         /\ \A k \in e + 2 .. e + 1 + data[e + 1].body : LiveRecord(data[k], B, X)
<1> DEFINE b == data[e + 1]
<1>1. /\ Len(data) \in lens /\ Len(data) \in Nat /\ e + 1 \in 1 .. Len(data)
      /\ Len(data) <= Len(may) /\ e < Len(may)
      /\ \A k \in 1 .. Len(data) : data[k] \in may[k]
  BY DEF OneOf
<1>2. b \in may[e + 1]
  BY <1>1
<1>3. LiveHeader(b, B, X) /\ b.body \in Nat
  BY <1>1, <1>2 DEF LastSection, LiveHeader
<1> HIDE DEF b
<1>4. CASE b.body = 0
  <2>1. e + 1 + b.body <= Len(data) /\ e + 2 .. e + 1 + b.body = {}
    BY <1>1, <1>4
  <2>2. QED
    BY <2>1, <1>3, <1>4 DEF b
<1>5. CASE b.body > 0
  <2>1. /\ \A n \in lens : e + 1 + b.body <= n
        /\ e + 1 + b.body <= Len(may)
        /\ \A k \in e + 2 .. e + 1 + b.body : \A c \in may[k] : LiveRecord(c, B, X)
        /\ e + 1 + b.body < Len(may) => \A c \in may[e + 2 + b.body] : ~IsHeader(c)
    BY <1>1, <1>2, <1>5 DEF LastSection, b
  <2>2. e + 1 + b.body <= Len(data)
    BY <2>1, <1>1
  <2>3. \A k \in e + 2 .. e + 1 + b.body : k \in 1 .. Len(data)
    BY <2>2, <1>1, <1>3
  <2>4. \A k \in e + 2 .. e + 1 + b.body : LiveRecord(data[k], B, X)
    BY <2>1, <2>3, <1>1
  <2>5. AtEnd(e + 1 + b.body, data)
    <3>1. CASE e + 1 + b.body = Len(data)
      BY <3>1 DEF AtEnd
    <3>2. CASE e + 1 + b.body < Len(data)
      <4>0. Len(may) \in Nat /\ Len(data) \in Nat /\ Len(data) <= Len(may)
        BY <1>1
      <4>1. /\ e + 2 + b.body \in 1 .. Len(data) /\ e + 1 + b.body < Len(may)
            /\ (e + 1 + b.body) + 1 = e + 2 + b.body
        BY <3>2, <4>0, <1>3
      <4>2. ~IsHeader(data[(e + 1 + b.body) + 1])
        BY <4>1, <2>1, <1>1
      <4>3. QED
        BY <3>2, <4>2 DEF AtEnd
    <3>3. QED
      BY <2>2, <3>1, <3>2, <1>1, <1>3
  <2>6. QED
    BY <2>2, <2>4, <2>5, <1>3 DEF b
<1>6. QED
  BY <1>3, <1>4, <1>5

\* Past a block that is no record.
LEMMA NoRecordHere ==
  ASSUME NEW p, NEW m \in Nat, NEW n \in Int, NEW data, NEW B, NEW X,
         ~LiveRecord(data[m + 1], B, X) \/ data[m + 1].page # p,
         RecordIn(p, m, n, data, B, X)
  PROVE  RecordIn(p, m + 1, n, data, B, X)
<1>1. PICK k \in m + 1 .. n : LiveRecord(data[k], B, X) /\ data[k].page = p
  BY DEF RecordIn
<1>2. k # m + 1
  BY <1>1
<1>3. k \in (m + 1) + 1 .. n
  BY <1>1, <1>2
<1>4. QED
  BY <1>1, <1>3 DEF RecordIn

\* The header is read.
LEMMA HeaderRead ==
  ASSUME PagerInv, PlayHeader,
         journalOff + 1 <= Len(jr.data), IsHeader(jr.data[journalOff + 1])
  PROVE  PagerInv'
<1>1. pc = "header" /\ pc \in Playing
  BY DEF PlayHeader, Playing
<1>2. Always /\ OwnPlayback /\ HotPlayback /\ owner \in Conns
  BY <1>1, FromPlaying
<1> USE <1>1, <1>2 DEF Always
<1> DEFINE i == journalOff + 1
           b == jr.data[i]
           unsync == b.body = 0 /\ ~isHot /\ journalHdr = i
<1>3. /\ left' = (IF unsync THEN Len(jr.data) - i ELSE b.body)
      /\ isUnsync' = unsync /\ cksumInit' = b.id
      /\ dbSize' = (IF i = 1 THEN b.page ELSE dbSize)
      /\ journalOff' = i /\ pc' = "record"
      /\ UNCHANGED <<files, owner, goal, state, caches, pages, flags, dbOrigSize,
                     pInJournal, nRec, journalHdr, isHot, errCode, bounds, history>>
  BY DEF PlayHeader, IsHeader
<1>4. UNCHANGED <<db, jr, cache, dbFileVers, dirty, need, dbModified, tx,
                  committed, previous, inDoubt, base, safe>>
  BY <1>3 DEF files, caches, pages, flags, bounds, history
<1>5. /\ i \in Nat /\ journalOff \in Nat /\ i >= 1 /\ i - 1 = journalOff
      /\ Len(jr.data) \in Nat /\ Len(jr.may) \in Nat
      /\ jr.lens \in SUBSET Nat /\ OneOf(jr.data, jr.may, jr.lens)
      /\ Possible(jr.may, jr.lens) /\ i <= Len(jr.data)
      /\ Len(jr.data) <= Len(jr.may) /\ safe \in Nat /\ Len(base) \in Nat
      /\ base \in Seq(Values) /\ Len(base) <= PageCount /\ PageCount <= MaxPages
      /\ journalHdr \in Nat /\ nRec \in Nat /\ PageCount \in Nat /\ MaxPages \in Nat
      /\ i \in 1 .. Len(jr.data) /\ i \in 1 .. Len(jr.may)
  <2>1. /\ Len(jr.data) \in Nat /\ Len(jr.may) \in Nat
        /\ jr.lens \in SUBSET Nat /\ OneOf(jr.data, jr.may, jr.lens)
        /\ Possible(jr.may, jr.lens) /\ Len(jr.data) <= Len(jr.may)
    BY JournalFile
  <2>2. /\ safe \in Nat /\ Len(base) \in Nat /\ base \in Seq(Values)
        /\ PageCount \in Nat /\ PageCount <= MaxPages /\ Len(base) <= PageCount
    BY DatabaseFile DEF FilesOK, DiskType
  <2>3. MaxPages \in Nat
    BY SqlitePagerAssumption
  <2>4. journalOff \in Nat /\ journalHdr \in Nat /\ nRec \in Nat
    BY DEF PagerType
  <2>5. i \in Nat /\ i >= 1 /\ i - 1 = journalOff /\ i <= Len(jr.data)
    BY <2>4
  <2>6. i \in 1 .. Len(jr.data) /\ i \in 1 .. Len(jr.may)
    BY <2>1, <2>5
  <2>7. QED
    BY <2>1, <2>2, <2>3, <2>4, <2>5, <2>6
<1> HIDE DEF i
<1>6. b \in Blocks /\ b.body \in Nat /\ b.id \in Nat /\ IsHeader(b)
  <2>1. b \in jr.may[i]
    BY <1>5 DEF OneOf
  <2>2. b \in Blocks
    BY <1>5, JournalFile
  <2>3. b.body \in Nat
    BY <2>1, <1>5 DEF DiskType, BlocksOK, i
  <2>4. QED
    BY <2>2, <2>3 DEF Blocks, i
<1> HIDE DEF b
<1>7. DiskType' /\ FilesOK' /\ HistoryOK' /\ CachesOK'
  BY <1>3, <1>4, DiskSame, FilesSame, HistorySame, CachesKept
<1>8. LiveData' <=> LiveData
  BY <1>4 DEF LiveData
<1>9. LiveData
  <2>1. CASE journalOff = 0
    BY <2>1, <1>5, <1>6 DEF LiveData, i, b
  <2>2. CASE journalOff # 0
    BY <2>2 DEF OwnPlayback, HotPlayback
  <2>3. QED
    BY <2>1, <2>2
<1>10. base # <<>> => JournalOK(jr.may, jr.lens, base, tx, safe)
  BY MayOutside DEF FilesOK
\* A header in one of the sections; none behind them belongs to the
\* transaction.
<1>11. ASSUME base # <<>>, journalOff < safe
       PROVE  /\ LiveHeader(b, base, tx)
              /\ i + b.body <= safe /\ safe <= Len(jr.data)
              /\ Boundary(i + b.body, jr.data, safe)
              /\ \A k \in i + 1 .. i + b.body : LiveRecord(jr.data[k], base, tx)
  <2>1. SafeSections(jr.may, jr.lens, base, tx, safe)
    BY <1>10, <1>11 DEF JournalOK
  <2>2. IsHeader(jr.data[journalOff + 1])
    OBVIOUS
  <2>3. journalOff + 1 = i /\ journalOff + 2 = i + 1
    BY <1>5 DEF i
  <2>4. /\ LiveHeader(jr.data[journalOff + 1], base, tx)
        /\ journalOff + 1 + jr.data[journalOff + 1].body <= safe
        /\ safe <= Len(jr.data)
        /\ Boundary(journalOff + 1 + jr.data[journalOff + 1].body, jr.data, safe)
        /\ \A k \in journalOff + 2 .. journalOff + 1 + jr.data[journalOff + 1].body :
             LiveRecord(jr.data[k], base, tx)
    BY <2>1, <2>2, <1>11, <1>5, NextSection
  <2>5. QED
    BY <2>3, <2>4 DEF b
<1>12. ASSUME base # <<>>, journalOff = safe
       PROVE  /\ LiveHeader(b, base, tx) /\ i = safe + 1
              /\ i + b.body <= Len(jr.data)
              /\ b.body > 0 => AtEnd(i + b.body, jr.data)
              /\ \A k \in i + 1 .. i + b.body : LiveRecord(jr.data[k], base, tx)
  <2>1. LastSection(jr.may, jr.lens, base, tx, safe)
    BY <1>10, <1>12 DEF JournalOK
  <2>2. IsHeader(jr.data[safe + 1]) /\ safe < Len(jr.data)
    BY <1>12, <1>5 DEF i
  <2>3. safe + 1 = i /\ safe + 2 = i + 1
    BY <1>12, <1>5 DEF i
  <2>4. /\ LiveHeader(jr.data[safe + 1], base, tx)
        /\ safe + 1 + jr.data[safe + 1].body <= Len(jr.data)
        /\ jr.data[safe + 1].body > 0 =>
             AtEnd(safe + 1 + jr.data[safe + 1].body, jr.data)
        /\ \A k \in safe + 2 .. safe + 1 + jr.data[safe + 1].body :
             LiveRecord(jr.data[k], base, tx)
    BY <2>1, <2>2, <1>5, FinalSection
  <2>5. QED
    BY <2>3, <2>4 DEF b
<1>13. ASSUME base # <<>> PROVE Boundary(journalOff, jr.data, safe)
  <2>1. ~AtEnd(journalOff, jr.data)
    BY <1>5 DEF AtEnd, i
  <2>2. CASE isHot
    BY <2>1, <2>2, <1>9, <1>13 DEF HotPlayback, HotPages, HotStop
  <2>3. CASE ~isHot
    BY <2>1, <2>3, <1>13 DEF OwnPlayback, OwnPlace, OwnStop
  <2>4. QED
    BY <2>2, <2>3
<1>14. base # <<>> => journalOff < safe \/ journalOff = safe
  BY <1>13, <1>5 DEF Boundary
<1>15. base # <<>> => LiveHeader(b, base, tx)
  BY <1>11, <1>12, <1>14
<1>16. dbSize' = Len(base)
  <2>1. CASE i = 1
    <3>1. base = <<>> => b.page = 0
      <4>1. b \in jr.may[i]
        BY <1>5 DEF OneOf, b
      <4>2. QED
        BY <4>1, <1>5, <1>6 DEF FilesOK, NothingToRestore
    <3>2. base = <<>> => Len(base) = 0
      OBVIOUS
    <3>3. QED
      BY <2>1, <3>1, <3>2, <1>15, <1>3 DEF LiveHeader
  <2>2. CASE i # 1
    <3>1. journalOff > 0
      BY <2>2, <1>5
    <3>2. dbSize = Len(base)
      BY <3>1 DEF OwnPlayback, HotPlayback
    <3>3. QED
      BY <2>2, <3>2, <1>3
  <2>3. QED
    BY <2>1, <2>2
<1>17. PagerType'
  <2>1. dbSize' \in 0 .. MaxPages
    BY <1>5, <1>16
  <2>2. /\ left' \in Nat /\ isUnsync' \in BOOLEAN /\ cksumInit' \in Nat
        /\ journalOff' \in Nat /\ pc' \in Playing
    BY <1>3, <1>5, <1>6 DEF Playing
  <2>3. QED
    BY <2>1, <2>2, <1>3 DEF PagerType, caches, pages, flags, bounds
<1>18. \A p, n : n \in Int /\ RecordIn(p, journalOff, n, jr.data, base, tx) =>
                 RecordIn(p, i, n, jr.data, base, tx)
  <2>1. ~LiveRecord(jr.data[journalOff + 1], base, tx)
    BY <1>6 DEF LiveRecord, IsHeader, i, b
  <2>2. QED
    BY <2>1, <1>5, NoRecordHere DEF i
<1>19. OwnPlayback'
  <2>1. SUFFICES ASSUME ~isHot PROVE OwnPlayback'
    BY <1>3 DEF OwnPlayback
  <2>2. ASSUME base # <<>> PROVE OwnPlace' /\ OwnPages'
    <3> DEFINE end == journalHdr + nRec
    <3>0. end \in Nat
      BY <1>5
    <3>1. OwnPlace /\ OwnPages /\ end \in Nat
      BY <2>1, <2>2, <3>0 DEF OwnPlayback
    <3>2. OwnJournal(jr.data, base, tx, journalHdr, end) /\ safe \in {journalHdr - 1, end}
      BY <3>1 DEF OwnPlace
    <3>3. /\ 1 <= journalHdr /\ journalHdr <= end /\ end <= Len(jr.data)
          /\ jr.data[journalHdr].body \in {0, end - journalHdr}
          /\ \A k \in journalHdr + 1 .. end : LiveRecord(jr.data[k], base, tx)
          /\ \A k \in end + 1 .. Len(jr.data) : jr.data[k].id # tx
      BY <3>2 DEF OwnJournal
    <3> HIDE DEF end
    <3>4. cksumInit' = tx
      BY <2>2, <1>3, <1>15 DEF LiveHeader
    <3>6. ASSUME ~unsync
          PROVE  /\ ~isUnsync' /\ i + left' <= Len(jr.data)
                 /\ OwnStop(i + left')
                 /\ \A k \in i + 1 .. i + left' : LiveRecord(jr.data[k], base, tx)
      <4>1. ~isUnsync' /\ left' = b.body
        BY <3>6, <1>3
      <4>2. /\ i + b.body <= Len(jr.data) /\ OwnStop(i + b.body)
            /\ \A k \in i + 1 .. i + b.body : LiveRecord(jr.data[k], base, tx)
        <5>1. CASE journalOff < safe
          <6>1. i + b.body <= Len(jr.data)
            BY <5>1, <2>2, <1>5, <1>6, <1>11
          <6>2. QED
            BY <5>1, <2>2, <1>11, <6>1 DEF OwnStop
        <5>2. CASE journalOff = safe
          <6>1. /\ i = safe + 1 /\ i + b.body <= Len(jr.data) /\ b.id = tx
                /\ b.body > 0 => AtEnd(i + b.body, jr.data)
                /\ \A k \in i + 1 .. i + b.body : LiveRecord(jr.data[k], base, tx)
            BY <5>2, <2>2, <1>12 DEF LiveHeader
          <6>2. safe # end
            <7> SUFFICES ASSUME safe = end PROVE FALSE
              OBVIOUS
            <7>1. i \in end + 1 .. Len(jr.data)
              BY <6>1, <1>5, <3>1
            <7>2. QED
              BY <7>1, <6>1, <3>3 DEF b
          <6>3. i = journalHdr
            BY <6>1, <6>2, <3>2, <1>5
          <6>4. b.body > 0 /\ b.body = end - journalHdr
            BY <6>3, <3>6, <3>3, <2>1, <1>6 DEF b
          <6>5. end <= i + b.body
            BY <6>3, <6>4, <1>5, <3>1
          <6>6. QED
            BY <6>1, <6>4, <6>5 DEF OwnStop, end
        <5>3. QED
          BY <5>1, <5>2, <1>14, <2>2
      <4>3. QED
        BY <4>1, <4>2
    <3>7. IF isUnsync'
            THEN /\ journalHdr <= i /\ jr.data[journalHdr].body = 0
                 /\ i + left' = Len(jr.data)
            ELSE /\ i + left' <= Len(jr.data)
                 /\ OwnStop(i + left')
                 /\ \A k \in i + 1 .. i + left' : LiveRecord(jr.data[k], base, tx)
      <4>1. CASE unsync
        <5>1. journalHdr <= i /\ jr.data[journalHdr].body = 0
              /\ i + (Len(jr.data) - i) = Len(jr.data)
          BY <4>1, <1>5 DEF b
        <5>2. isUnsync' /\ left' = Len(jr.data) - i
          BY <4>1, <1>3
        <5>3. QED
          BY <5>1, <5>2
      <4>2. CASE ~unsync
        BY <3>6, <4>2
      <4>3. QED
        BY <4>1, <4>2
    <3>8. OwnPlace'
      BY <3>2, <3>4, <3>7, <1>3, <1>4 DEF OwnPlace, OwnStop, end
    <3>9. OwnPages'
      <4>1. safe \in Int /\ end \in Int
        BY <1>5, <3>1
      <4>2. \A k \in i + 1 .. end : k \in journalOff + 1 .. end
        BY <1>5, <3>1
      <4>3. UNCHANGED <<cache, owner, need, dbFileVers, db, jr, base, tx, safe,
                        journalHdr, nRec>> /\ journalOff' = i
        BY <1>3, <1>4
      <4>4. ASSUME NEW p \in 1 .. Len(base)
            PROVE  /\ db.data[p] = base[p] \/ RecordIn(p, i, safe, jr.data, base, tx)
                   /\ \/ cache[owner][p] \in {NotCached, base[p]}
                      \/ RecordIn(p, i, end, jr.data, base, tx)
        BY <3>1, <4>1, <1>18 DEF OwnPages, end
      <4>5. \/ dbFileVers[owner] = base[1]
            \/ RecordIn(1, i, end, jr.data, base, tx)
        BY <3>1, <4>1, <1>18 DEF OwnPages, end
      <4>6. \A k \in i + 1 .. end :
              k > safe /\ LiveRecord(jr.data[k], base, tx) =>
                jr.data[k].page \in need /\ cache[owner][jr.data[k].page] # NotCached
        BY <3>1, <4>2 DEF OwnPages, end
      <4>7. /\ \A p \in need : p <= Len(base) => db.data[p] = base[p]
            /\ cache[owner][1] # NotCached
        BY <3>1 DEF OwnPages
      <4>8. QED
        BY <4>3, <4>4, <4>5, <4>6, <4>7 DEF OwnPages, end
    <3>10. QED
      BY <3>8, <3>9
  <2>3. /\ state \in {"reserved", "exclusive"} /\ goal = 0 /\ LiveData
        /\ state = "reserved" => db.data = base
    BY <2>1 DEF OwnPlayback
  <2>4. journalOff' <= Len(jr'.data) /\ journalOff' > 0 /\ dbSize' = Len(base')
    BY <1>3, <1>4, <1>5, <1>16
  <2>5. QED
    BY <2>2, <2>3, <2>4, <1>3, <1>4, <1>8 DEF OwnPlayback
<1>20. HotPlayback'
  <2>1. SUFFICES ASSUME isHot PROVE HotPlayback'
    BY <1>3 DEF HotPlayback
  <2>2. ASSUME base # <<>> PROVE HotPages'
    <3>1. HotPages
      BY <2>1, <2>2, <1>9 DEF HotPlayback
    <3> DEFINE stop == PlayEnd(jr.data, safe)
    <3>2. cksumInit' = tx /\ ~isUnsync' /\ left' = b.body
      BY <2>1, <2>2, <1>3, <1>15 DEF LiveHeader
    <3>3. /\ i + b.body <= Len(jr.data) /\ HotStop(i + b.body)
          /\ \A k \in i + 1 .. i + b.body : LiveRecord(jr.data[k], base, tx)
      <4>1. CASE journalOff < safe
        <5>1. i + b.body <= Len(jr.data)
          BY <4>1, <2>2, <1>5, <1>6, <1>11
        <5>2. QED
          BY <4>1, <2>2, <1>11, <5>1 DEF HotStop
      <4>2. CASE journalOff = safe
        <5>1. /\ i = safe + 1 /\ i + b.body <= Len(jr.data)
              /\ b.body > 0 => AtEnd(i + b.body, jr.data)
              /\ \A k \in i + 1 .. i + b.body : LiveRecord(jr.data[k], base, tx)
          BY <4>2, <2>2, <1>12
        <5>2. stop = i + b.body
          <6>1. safe < Len(jr.data) /\ IsHeader(jr.data[safe + 1])
            BY <5>1, <1>5, <1>6 DEF b
          <6>2. QED
            BY <6>1, <5>1 DEF PlayEnd, b
        <5>3. AtEnd(i + b.body, jr.data)
          <6>1. CASE b.body > 0
            BY <6>1, <5>1
          <6>2. CASE b.body = 0
            <7>1. i + b.body = i
              BY <6>2, <1>5
            <7>2. CASE i = Len(jr.data)
              BY <7>1, <7>2 DEF AtEnd
            <7>3. CASE i < Len(jr.data)
              <8>1. /\ safe + 2 <= Len(jr.may) /\ i + 1 = safe + 2
                    /\ i + 1 \in 1 .. Len(jr.data)
                BY <7>3, <5>1, <1>5
              <8>2. b \in jr.may[safe + 1] /\ jr.data[i + 1] \in jr.may[safe + 2]
                BY <8>1, <5>1, <1>5 DEF OneOf, b
              <8>3. Sealed(jr.may, safe)
                BY <3>1 DEF HotPages
              <8>4. ~IsHeader(jr.data[i + 1])
                BY <8>1, <8>2, <8>3, <6>2, <1>6 DEF Sealed
              <8>5. QED
                BY <8>4, <7>1, <7>3 DEF AtEnd
            <7>4. QED
              BY <7>2, <7>3, <1>5
          <6>3. QED
            BY <6>1, <6>2, <1>6
        <5>4. QED
          BY <5>1, <5>2, <5>3 DEF HotStop
      <4>3. QED
        BY <4>1, <4>2, <1>14, <2>2
    <3>4. ASSUME NEW p \in 1 .. Len(base)
          PROVE  db.data[p] = base[p] \/ RecordIn(p, i, stop, jr.data, base, tx)
      <4>1. stop \in Int
        BY PlayEndInt
      <4>2. QED
        BY <4>1, <3>1, <1>18 DEF HotPages
    <3>5. QED
      BY <3>1, <3>2, <3>3, <3>4, <1>3, <1>4 DEF HotPages, HotStop
  <2>3. state = "exclusive" /\ ~errCode /\ goal = 0 /\ Clean
    BY <2>1 DEF HotPlayback
  <2>4. journalOff' <= Len(jr'.data) /\ journalOff' > 0 /\ dbSize' = Len(base')
    BY <1>3, <1>4, <1>5, <1>16
  <2>5. Clean'
    BY <2>3, <1>4 DEF Clean
  <2>6. QED
    BY <2>2, <2>3, <2>4, <2>5, <1>3, <1>4, <1>8, <1>9 DEF HotPlayback
<1>21. QED
  <2>1. owner' # None /\ pc' \in Playing /\ Always'
    BY <1>3, <1>7, <1>17, SqlitePagerAssumption DEF Playing
  <2>2. QED
    BY <2>1, <1>19, <1>20, ToPlaying

\* There is no further header.
LEMMA NoHeaderRead ==
  ASSUME PagerInv, PlayHeader,
         ~(journalOff + 1 <= Len(jr.data) /\ IsHeader(jr.data[journalOff + 1]))
  PROVE  PagerInv'
<1>1. pc = "header" /\ pc \in Playing
  BY DEF PlayHeader, Playing
<1>2. Always /\ OwnPlayback /\ HotPlayback /\ owner \in Conns
  BY <1>1, FromPlaying
<1> USE <1>1, <1>2 DEF Always
<1>3. /\ pc' = "endplay"
      /\ UNCHANGED <<left, isUnsync, cksumInit, dbSize, journalOff>>
      /\ UNCHANGED <<files, owner, goal, state, caches, pages, flags, dbOrigSize,
                     pInJournal, nRec, journalHdr, isHot, errCode, bounds, history>>
  BY DEF PlayHeader, IsHeader
<1>4. UNCHANGED <<db, jr, cache, dbFileVers, dirty, need, dbModified, tx,
                  committed, previous, inDoubt, base, safe>>
  BY <1>3 DEF files, caches, pages, flags, bounds, history
<1>5. /\ Len(jr.data) \in Nat /\ OneOf(jr.data, jr.may, jr.lens)
      /\ safe \in Nat /\ journalHdr \in Nat /\ nRec \in Nat /\ journalOff \in Nat
  BY JournalFile DEF PagerType, DiskType
<1>6. DiskType' /\ FilesOK' /\ HistoryOK' /\ CachesOK'
  BY <1>3, <1>4, DiskSame, FilesSame, HistorySame, CachesKept
<1>7. PagerType'
  BY <1>3 DEF PagerType, caches, pages, flags, bounds, Playing
<1>8. LiveData' <=> LiveData
  BY <1>4 DEF LiveData
<1>9. LiveData => journalOff > 0
  <2>1. journalOff = 0 => ~LiveData
    BY <1>5 DEF LiveData
  <2>2. QED
    BY <2>1, <1>5
<1>10. base # <<>> => safe <= Len(jr.data)
  BY MayOutside, <1>5 DEF FilesOK, JournalOK, SafeSections, OneOf
<1>11. ASSUME base # <<>>, Boundary(journalOff, jr.data, safe)
       PROVE  journalOff = safe
  <2>1. journalOff <= safe /\ safe <= Len(jr.data)
    BY <1>10, <1>11 DEF Boundary
  <2>2. ~(journalOff < safe)
    BY <2>1, <1>11, <1>5 DEF Boundary
  <2>3. QED
    BY <2>1, <2>2, <1>5
<1>12. OwnPlayback'
  <2>1. SUFFICES ASSUME ~isHot PROVE OwnPlayback'
    BY <1>3 DEF OwnPlayback
  <2>2. /\ state \in {"reserved", "exclusive"} /\ goal = 0 /\ LiveData
        /\ journalOff <= Len(jr.data) /\ (journalOff > 0 => dbSize = Len(base))
        /\ state = "reserved" => db.data = base
        /\ base # <<>> => OwnPlace /\ OwnPages
    BY <2>1 DEF OwnPlayback
  <2>3. ASSUME base # <<>> PROVE OwnPlace' /\ OwnPages'
    <3> DEFINE end == journalHdr + nRec
    <3>1. OwnPlace /\ OwnPages /\ OwnStop(journalOff) /\ end \in Nat
      BY <2>2, <2>3, <1>5 DEF OwnPlace
    <3>2. /\ OwnJournal(jr.data, base, tx, journalHdr, end)
          /\ safe \in {journalHdr - 1, end}
      BY <3>1 DEF OwnPlace
    <3>3. /\ 1 <= journalHdr /\ journalHdr <= end /\ end <= Len(jr.data)
          /\ IsHeader(jr.data[journalHdr])
      BY <3>2 DEF OwnJournal, LiveHeader
    <3>4. end <= journalOff
      <4>1. CASE Boundary(journalOff, jr.data, safe)
        <5>1. journalOff = safe
          BY <4>1, <2>3, <1>11
        <5>2. safe # journalHdr - 1
          <6> SUFFICES ASSUME safe = journalHdr - 1 PROVE FALSE
            OBVIOUS
          <6>1. journalOff + 1 = journalHdr
            BY <5>1, <1>5
          <6>2. journalOff + 1 <= Len(jr.data)
            BY <6>1, <3>1, <3>3, <1>5
          <6>3. QED
            BY <6>1, <6>2, <3>3
        <5>3. safe = end
          BY <5>2, <3>2
        <5>4. QED
          BY <5>1, <5>3, <3>1
      <4>2. QED
        BY <3>1, <4>1 DEF OwnStop
    <3>5. OwnPlace'
      BY <3>2, <3>4, <1>3, <1>4 DEF OwnPlace
    <3>6. OwnPages'
      BY <3>1, <1>3, <1>4 DEF OwnPages
    <3>7. QED
      BY <3>5, <3>6
  <2>4. QED
    BY <2>2, <2>3, <1>3, <1>4, <1>8, <1>9 DEF OwnPlayback
<1>13. HotPlayback'
  <2>1. SUFFICES ASSUME isHot PROVE HotPlayback'
    BY <1>3 DEF HotPlayback
  <2>2. /\ state = "exclusive" /\ ~errCode /\ goal = 0 /\ Clean
        /\ journalOff <= Len(jr.data) /\ (journalOff > 0 => dbSize = Len(base))
        /\ LiveData /\ base # <<>> => HotPages
        /\ ~LiveData => Quiet /\ journalOff = 0
    BY <2>1 DEF HotPlayback
  <2>3. ASSUME LiveData, base # <<>> PROVE HotPages'
    <3>1. HotPages /\ HotStop(journalOff)
      BY <2>2, <2>3 DEF HotPages
    <3>2. PlayEnd(jr.data, safe) <= journalOff
      <4>1. CASE Boundary(journalOff, jr.data, safe)
        <5>1. journalOff = safe
          BY <4>1, <2>3, <1>11
        <5>2. PlayEnd(jr.data, safe) = safe
          BY <5>1, <1>5 DEF PlayEnd
        <5>3. QED
          BY <5>1, <5>2, <1>5
      <4>2. CASE journalOff = PlayEnd(jr.data, safe)
        BY <4>2, <1>5
      <4>3. QED
        BY <3>1, <4>1, <4>2 DEF HotStop
    <3>3. QED
      BY <3>1, <3>2, <1>3, <1>4 DEF HotPages
  <2>4. Clean' /\ (Quiet' <=> Quiet)
    BY <2>2, <1>4 DEF Clean, Quiet
  <2>5. QED
    BY <2>2, <2>3, <2>4, <1>3, <1>4, <1>8, <1>9 DEF HotPlayback
<1>14. QED
  <2>1. owner' # None /\ pc' \in Playing /\ Always'
    BY <1>3, <1>6, <1>7, SqlitePagerAssumption DEF Playing
  <2>2. QED
    BY <2>1, <1>12, <1>13, ToPlaying

\* A playback reads the next header: it finds one of this transaction exactly
\* as long as there are records to restore.
LEMMA PlayHeaderStep ==
  ASSUME PagerInv, PlayHeader
  PROVE  PagerInv'
BY HeaderRead, NoHeaderRead

-----------------------------------------------------------------------------
(* A record is read.                                                       *)

\* A block behind the records of an own playback.
LEMMA RecordPassed ==
  ASSUME Always, OwnPlayback, pc = "record", ~isHot, pc' = pc,
         base # <<>> => isUnsync /\ journalHdr + nRec <= journalOff,
         journalOff' \in Nat, journalOff <= journalOff',
         journalOff' <= Len(jr.data), left' \in Nat,
         journalOff' + left' = Len(jr.data) \/ base = <<>>,
         owner \in Conns,
         UNCHANGED <<db, caches, pages, inDoubt>>,
         UNCHANGED <<jr, owner, pc, goal, state, flags, sizes, pInJournal, nRec,
                     journalHdr, isHot, isUnsync, cksumInit, errCode, bounds,
                     committed, previous, base, safe>>
  PROVE  PagerInv'
<1> USE DEF Always
<1>1. UNCHANGED <<db, jr, cache, dbFileVers, dirty, need, dbModified, dbSize, tx,
                  committed, previous, inDoubt, base, safe, history>>
  BY DEF caches, pages, flags, sizes, bounds, history
<1>2. DiskType' /\ FilesOK' /\ HistoryOK' /\ CachesOK'
  BY <1>1, DiskSame, FilesSame, HistorySame, CachesKept
<1>3. PagerType'
  BY <1>1 DEF PagerType, flags, sizes, bounds
<1>4. /\ state \in {"reserved", "exclusive"} /\ goal = 0 /\ LiveData
      /\ journalOff > 0 /\ dbSize = Len(base) /\ journalOff \in Nat
      /\ state = "reserved" => db.data = base
      /\ base # <<>> => OwnPlace /\ OwnPages
      /\ pc \in Playing
  BY DEF OwnPlayback, PagerType, Playing
<1>5. LiveData' <=> LiveData
  BY <1>1 DEF LiveData
<1>6. ASSUME base # <<>> PROVE OwnPlace' /\ OwnPages'
  <2> DEFINE end == journalHdr + nRec
  <2>1. /\ OwnPlace /\ OwnPages /\ end \in Nat /\ end <= journalOff
        /\ journalHdr \in Nat /\ nRec \in Nat /\ safe \in Nat
    BY <1>4, <1>6 DEF PagerType, DiskType
  <2>2. /\ OwnJournal(jr.data, base, tx, journalHdr, end)
        /\ safe \in {journalHdr - 1, end} /\ cksumInit = tx
        /\ journalHdr <= journalOff /\ jr.data[journalHdr].body = 0
    BY <2>1, <1>6 DEF OwnPlace
  <2>3. safe <= end
    BY <2>1, <2>2
  <2>4. OwnPlace'
    <3>1. journalHdr <= journalOff'
      BY <2>1, <2>2, <1>4
    <3>2. journalOff' + left' = Len(jr.data)
      BY <1>6
    <3>3. QED
      BY <2>2, <3>1, <3>2, <1>1, <1>6 DEF OwnPlace
  <2> HIDE DEF end
  <2>5. OwnPages'
    <3>1. \A p : ~RecordIn(p, journalOff, safe, jr.data, base, tx)
                 /\ ~RecordIn(p, journalOff, end, jr.data, base, tx)
      BY <2>1, <2>3, <1>4 DEF RecordIn
    <3>2. \A k \in journalOff' + 1 .. end : FALSE
      <4> DEFINE m == journalOff'
      <4>1. end <= m /\ m \in Nat /\ end \in Nat
        BY <2>1, <1>4
      <4> HIDE DEF m
      <4>2. \A k \in m + 1 .. end : FALSE
        BY <4>1
      <4>3. QED
        BY <4>2 DEF m
    <3>3. QED
      BY <2>1, <3>1, <3>2, <1>1 DEF OwnPages, end
  <2>6. QED
    BY <2>4, <2>5
<1>7. journalOff' > 0
  BY <1>4
<1>8. OwnPlayback'
  BY <1>1, <1>4, <1>5, <1>6, <1>7 DEF OwnPlayback
<1>9. HotPlayback'
  BY DEF HotPlayback
<1>10. QED
  <2>1. owner' # None /\ pc' \in Playing /\ Always'
    BY <1>2, <1>3, <1>4, SqlitePagerAssumption
  <2>2. QED
    BY <2>1, <1>8, <1>9, ToPlaying
\* What the playback of a record of page p does, for the own connection.
LEMMA OwnRecordRestored ==
  ASSUME Always, OwnPlayback, pc = "record", ~isHot, base # <<>>, owner \in Conns,
         left > 0, journalOff + 1 <= journalHdr + nRec,
         LiveRecord(jr.data[journalOff + 1], base, tx),
         Restored(jr.data[journalOff + 1].page, jr.data[journalOff + 1].body),
         UNCHANGED <<jr, owner, pc, goal, state, flags, sizes, pInJournal, nRec,
                     journalHdr, isHot, isUnsync, cksumInit, errCode, bounds,
                     committed, previous, base, safe>>
  PROVE  PagerInv'
<1> USE DEF Always
<1> DEFINE k0 == journalOff + 1
           p == jr.data[k0].page
           v == jr.data[k0].body
           end == journalHdr + nRec
           pgs == cache[owner]
<1>1. /\ inDoubt' = (inDoubt \/ (isHot /\ InFlux(jr)))
      /\ db' = IF state # "reserved" /\ ~(Cached(p) /\ p \in need) /\ ~isUnsync
                 THEN Write(db, p, v, Torn) ELSE db
      /\ cache' = [cache EXCEPT ![owner] =
                     IF isHot THEN NoPages
                     ELSE IF Cached(p) THEN [@ EXCEPT ![p] = v] ELSE @]
      /\ dbFileVers' = IF p = 1 /\ Cached(1)
                         THEN [dbFileVers EXCEPT ![owner] = v] ELSE dbFileVers
      /\ dirty' = dirty \ {p}
      /\ need' = need \ {p}
      /\ journalOff' = journalOff + 1
      /\ left' = left - 1
  BY DEF Restored
<1>2. UNCHANGED <<jr, owner, pc, goal, state, dbModified, dbSize, tx, nRec,
                  journalHdr, isHot, isUnsync, cksumInit, errCode,
                  committed, previous, base, safe>>
  BY DEF flags, sizes, bounds
<1>3. /\ p \in 1 .. Len(base) /\ v = base[p] /\ jr.data[k0].kind = "record"
      /\ LiveRecord(jr.data[k0], base, tx)
  BY DEF LiveRecord
<1>4. /\ state \in {"reserved", "exclusive"} /\ goal = 0 /\ LiveData
      /\ journalOff > 0 /\ dbSize = Len(base) /\ journalOff \in Nat
      /\ state = "reserved" => db.data = base
      /\ OwnPlace /\ OwnPages
      /\ pc \in Playing /\ journalOff <= Len(jr.data)
  BY DEF OwnPlayback, PagerType, Playing
<1>5. /\ end \in Nat /\ journalHdr \in Nat /\ nRec \in Nat /\ safe \in Nat
      /\ left \in Nat
  BY DEF PagerType, DiskType
<1>6. /\ OwnJournal(jr.data, base, tx, journalHdr, end)
      /\ safe \in {journalHdr - 1, end} /\ cksumInit = tx
  BY <1>4 DEF OwnPlace
<1>7. /\ 1 <= journalHdr /\ journalHdr <= end /\ end <= Len(jr.data)
      /\ LiveHeader(jr.data[journalHdr], base, tx)
      /\ \A k \in journalHdr + 1 .. end : LiveRecord(jr.data[k], base, tx)
      /\ \A k, l \in 1 .. end :
           /\ LiveRecord(jr.data[k], base, tx) /\ LiveRecord(jr.data[l], base, tx)
           /\ jr.data[k].page = jr.data[l].page
           => k = l
  BY <1>6 DEF OwnJournal
<1>8. /\ base \in Seq(Values) /\ Len(base) \in Nat /\ Len(base) <= PageCount
      /\ PageCount \in Nat /\ PageCount <= MaxPages /\ MaxPages \in Nat
      /\ Len(jr.data) \in Nat /\ Len(jr.may) \in Nat /\ jr.lens \in SUBSET Nat
      /\ Possible(jr.may, jr.lens) /\ OneOf(jr.data, jr.may, jr.lens)
      /\ PageCount = Len(db.data) /\ db.data \in Seq(Values)
  BY JournalFile, DatabaseFile, SqlitePagerAssumption DEF FilesOK, DiskType
<1>9. JournalOK(jr.may, jr.lens, base, tx, safe)
  BY MayOutside DEF FilesOK
<1>10. /\ k0 \in Nat /\ k0 >= 1 /\ k0 <= end /\ k0 \in 1 .. end /\ k0 \in 1 .. Len(jr.data)
       /\ k0 \in journalOff + 1 .. end
  <2>1. k0 \in Nat /\ k0 >= 1 /\ k0 <= end
    BY <1>4
  <2>2. QED
    BY <2>1, <1>5, <1>7, <1>4, <1>8
<1>11. p \in Pages /\ v \in Values /\ p <= PageCount /\ p \in 1 .. PageCount
  BY <1>3, <1>8 DEF Pages
<1>12. journalOff' = k0 /\ journalOff' \in Nat
  BY <1>1, <1>10
<1> HIDE DEF k0, p, v, end
\* Where the record is.
<1>13. ASSUME safe < k0
       PROVE  p \in need /\ pgs[p] # NotCached /\ db.data[p] = base[p]
  <2>1. p \in need /\ pgs[p] # NotCached
    <3>1. k0 > safe
      BY <1>13, <1>5, <1>10
    <3>2. QED
      BY <3>1, <1>3, <1>4, <1>10 DEF OwnPages, end, p
  <2>2. QED
    BY <2>1, <1>3, <1>4, <1>8 DEF OwnPages
<1>14. ASSUME isUnsync PROVE safe < k0
  <2> SUFFICES ASSUME k0 <= safe PROVE FALSE
    BY <1>5, <1>10
  <2>1. /\ journalHdr <= journalOff /\ jr.data[journalHdr].body = 0
    BY <1>4, <1>14 DEF OwnPlace
  <2>2. safe = end /\ journalHdr \in Nat /\ journalHdr < k0
    <3>1. journalHdr < k0
      BY <2>1, <1>4, <1>5 DEF k0
    <3>2. safe # journalHdr - 1
      BY <3>1, <1>5, <1>10
    <3>3. QED
      BY <3>1, <3>2, <1>5, <1>6
  <2> DEFINE t == journalHdr - 1
  <2>3. t \in Nat /\ t < safe /\ t + 1 = journalHdr /\ journalHdr < safe
    BY <2>2, <1>5, <1>7, <1>10
  <2>4. IsHeader(jr.data[t + 1]) /\ SafeSections(jr.may, jr.lens, base, tx, safe)
    BY <2>3, <1>7, <1>9 DEF LiveHeader, JournalOK
  <2> HIDE DEF t
  <2>5. Boundary(t + 1 + jr.data[t + 1].body, jr.data, safe)
    BY <2>3, <2>4, <1>5, <1>8, NextSection
  <2>6. t + 1 + jr.data[t + 1].body = journalHdr
    BY <2>1, <2>3, <1>5
  <2>7. IsHeader(jr.data[journalHdr + 1])
    BY <2>3, <2>5, <2>6 DEF Boundary
  <2>8. LiveRecord(jr.data[journalHdr + 1], base, tx)
    <3>1. journalHdr + 1 \in journalHdr + 1 .. end
      BY <2>2, <2>3, <1>5
    <3>2. QED
      BY <3>1, <1>7
  <2>9. QED
    BY <2>7, <2>8 DEF IsHeader, LiveRecord
\* The database is written only with what is safe in the journal.
<1>15. ASSUME db' # db
       PROVE  /\ db' = Write(db, p, v, Torn) /\ state # "reserved"
              /\ Restorable(p, jr.may, base, tx, safe)
  <2>1. /\ db' = Write(db, p, v, Torn) /\ state # "reserved"
        /\ ~(Cached(p) /\ p \in need) /\ ~isUnsync
    BY <1>1, <1>15
  <2>2. k0 \in 1 .. safe
    <3>1. ~(safe < k0)
      BY <2>1, <1>13 DEF Cached
    <3>2. QED
      BY <3>1, <1>5, <1>10
  <2>3. jr.data[k0] \in jr.may[k0]
    BY <1>8, <1>10 DEF OneOf
  <2>4. Restorable(jr.data[k0].page, jr.may, base, tx, safe)
    BY <2>2, <2>3, <1>3, <1>5, <1>8, <1>9, SafeRecord
  <2>5. QED
    BY <2>1, <2>4 DEF p
<1>16. inDoubt' = inDoubt
  BY <1>1 DEF DiskType
<1>17. /\ DiskType' /\ FilesOK' /\ PageCount' = PageCount
       /\ db'.data[p] = base[p]
       /\ \A q \in 1 .. PageCount : q # p => db'.data[q] = db.data[q]
       /\ state = "reserved" => db' = db
  <2>1. CASE db' = db
    <3>1. DiskType' /\ FilesOK'
      BY <2>1, <1>2, <1>16, DiskSame, FilesSame DEF history
    <3>2. db.data[p] = base[p]
      <4>1. CASE safe < k0
        BY <4>1, <1>13
      <4>2. CASE ~(safe < k0) /\ state = "reserved"
        BY <4>2, <1>4
      <4>3. CASE ~(safe < k0) /\ state # "reserved"
        <5>1. ~isUnsync
          BY <4>3, <1>14
        <5>2. CASE p \in need
          BY <5>2, <1>3, <1>4, <1>8 DEF OwnPages
        <5>3. CASE p \notin need
          <6>1. db' = Write(db, p, v, Torn)
            BY <5>1, <5>3, <4>3, <1>1
          <6>2. db'.data[p] = v
            <7>1. p <= PageCount + 1
              BY <1>8, <1>11
            <7>2. QED
              BY <6>1, <7>1, <1>11, DatabasePut
          <6>3. QED
            BY <6>2, <2>1, <1>3
        <5>4. QED
          BY <5>2, <5>3
      <4>4. QED
        BY <4>1, <4>2, <4>3
    <3>3. QED
      BY <3>1, <3>2, <2>1 DEF PageCount
  <2>2. CASE db' # db
    <3>1. /\ db' = Write(db, p, v, Torn) /\ state # "reserved"
          /\ Restorable(p, jr.may, base, tx, safe)
      BY <2>2, <1>15
    <3>2. /\ inDoubt' \in BOOLEAN /\ (inDoubt => inDoubt') /\ p <= PageCount + 1
          /\ (p > PageCount => v # Torn) /\ pc # "zsync" /\ pc' # "zsync"
      BY <1>2, <1>8, <1>11, <1>16 DEF DiskType
    <3>3. DiskType' /\ FilesOK'
      BY <3>1, <3>2, <1>2, <1>11, FilesDatabase
    <3>4. /\ Len(db'.data) = IF p <= PageCount THEN PageCount ELSE p
          /\ db'.data[p] = v
          /\ \A q \in 1 .. PageCount : q # p => db'.data[q] = db.data[q]
      BY <3>1, <3>2, <1>11, DatabasePut
    <3>5. PageCount' = PageCount
      BY <3>4, <1>11 DEF PageCount
    <3>6. QED
      BY <3>1, <3>3, <3>4, <3>5, <1>3
  <2>3. QED
    BY <2>1, <2>2
<1>18. /\ cache'[owner][p] = IF pgs[p] # NotCached THEN v ELSE NotCached
       /\ \A q \in Pages : q # p => cache'[owner][q] = pgs[q]
       /\ cache' \in [Conns -> [Pages -> Values \cup {NotCached}]]
       /\ \A c \in Conns : c # owner => cache'[c] = cache[c]
  <2>1. /\ cache \in [Conns -> [Pages -> Values \cup {NotCached}]]
        /\ pgs \in [Pages -> Values \cup {NotCached}]
    BY DEF PagerType
  <2>2. CASE Cached(p)
    <3>1. cache' = [cache EXCEPT ![owner] = [pgs EXCEPT ![p] = v]]
      BY <2>2, <1>1
    <3>2. [pgs EXCEPT ![p] = v] \in [Pages -> Values \cup {NotCached}]
      BY <2>1, <1>11
    <3>3. QED
      BY <3>1, <3>2, <2>1, <2>2, <1>11 DEF Cached
  <2>3. CASE ~Cached(p)
    <3>1. cache' = cache
      BY <2>1, <2>3, <1>1
    <3>2. QED
      BY <3>1, <2>1, <2>3 DEF Cached
  <2>4. QED
    BY <2>2, <2>3
<1>19. /\ dbFileVers' \in [Conns -> Values]
       /\ \A c \in Conns : c # owner => dbFileVers'[c] = dbFileVers[c]
       /\ p # 1 => dbFileVers' = dbFileVers
       /\ p = 1 => dbFileVers'[owner] = base[1]
  <2>1. dbFileVers \in [Conns -> Values]
    BY DEF PagerType
  <2>2. Cached(1)
    BY <1>4 DEF OwnPages, Cached
  <2>3. CASE p = 1
    <3>1. dbFileVers' = [dbFileVers EXCEPT ![owner] = v]
      BY <2>2, <2>3, <1>1
    <3>2. QED
      BY <3>1, <2>1, <2>3, <1>11, <1>3
  <2>4. CASE p # 1
    BY <2>1, <2>4, <1>1
  <2>5. QED
    BY <2>3, <2>4
<1>20. HistoryOK' /\ CachesOK'
  <2>1. HistoryOK'
    BY <1>2, HistorySame
  <2>2. pc' \notin {"idle", "check"} /\ ~isHot'
    BY <1>2
  <2>3. CachesOK'
    BY <2>2, <1>2, <1>18, <1>19, CachesSame
  <2>4. QED
    BY <2>1, <2>3
<1>21. PagerType'
  <2>1. left' \in Nat /\ journalOff' \in Nat
    BY <1>1, <1>5, <1>12
  <2>2. dirty' \subseteq Pages /\ need' \subseteq Pages
    BY <1>1 DEF PagerType
  <2>3. QED
    BY <2>1, <2>2, <1>2, <1>18, <1>19 DEF PagerType, flags, sizes, bounds
<1>22. \A q, n : n \in Int /\ q # p /\ RecordIn(q, journalOff, n, jr.data, base, tx) =>
                 RecordIn(q, k0, n, jr.data, base, tx)
  BY <1>4, NoRecordHere DEF k0, p
<1>23. OwnPlace'
  <2>1. IF isUnsync
          THEN /\ journalHdr <= journalOff /\ jr.data[journalHdr].body = 0
               /\ journalOff + left = Len(jr.data)
          ELSE /\ journalOff + left <= Len(jr.data)
               /\ OwnStop(journalOff + left)
               /\ \A k \in journalOff + 1 .. journalOff + left :
                    LiveRecord(jr.data[k], base, tx)
    BY <1>4 DEF OwnPlace
  <2>2. journalOff' + left' = journalOff + left
    BY <1>1, <1>4, <1>5
  <2>3. /\ journalHdr <= journalOff => journalHdr <= journalOff'
        /\ \A k \in journalOff' + 1 .. journalOff + left :
             k \in journalOff + 1 .. journalOff + left
    BY <1>12, <1>4, <1>5 DEF k0
  <2>4. IF isUnsync
          THEN /\ journalHdr <= journalOff' /\ jr.data[journalHdr].body = 0
               /\ journalOff' + left' = Len(jr.data)
          ELSE /\ journalOff' + left' <= Len(jr.data)
               /\ OwnStop(journalOff' + left')
               /\ \A k \in journalOff' + 1 .. journalOff' + left' :
                    LiveRecord(jr.data[k], base, tx)
    BY <2>1, <2>2, <2>3
  <2>5. QED
    BY <2>4, <1>2, <1>6 DEF OwnPlace, OwnStop, end
<1>24. OwnPages'
  <2>1. safe \in Int /\ end \in Int
    BY <1>5
  <2>2. ASSUME NEW q \in 1 .. Len(base)
        PROVE  db'.data[q] = base[q] \/ RecordIn(q, k0, safe, jr.data, base, tx)
    <3>1. CASE q = p
      BY <3>1, <1>17
    <3>2. CASE q # p
      <4>1. q \in 1 .. PageCount
        BY <1>8
      <4>2. db.data[q] = base[q] \/ RecordIn(q, journalOff, safe, jr.data, base, tx)
        BY <1>4 DEF OwnPages
      <4>3. QED
        BY <3>2, <4>1, <4>2, <2>1, <1>17, <1>22
    <3>3. QED
      BY <3>1, <3>2
  <2>3. ASSUME NEW q \in need', q <= Len(base) PROVE db'.data[q] = base[q]
    <3>1. q \in need /\ q # p /\ q \in Pages
      BY <1>1 DEF PagerType
    <3>2. q \in 1 .. PageCount
      BY <3>1, <2>3, <1>8 DEF Pages
    <3>3. QED
      BY <3>1, <3>2, <2>3, <1>17, <1>4 DEF OwnPages
  <2>4. ASSUME NEW k \in k0 + 1 .. end, k > safe, LiveRecord(jr.data[k], base, tx)
        PROVE  /\ jr.data[k].page \in need'
               /\ cache'[owner][jr.data[k].page] # NotCached
    <3>1. k \in journalOff + 1 .. end /\ k \in 1 .. end /\ k # k0
      <4>1. k \in k0 + 1 .. end /\ k0 = journalOff + 1
        BY DEF k0
      <4>2. QED
        BY <4>1, <1>4, <1>5, <1>10
    <3>2. jr.data[k].page # p
      BY <3>1, <2>4, <1>3, <1>7, <1>10 DEF p
    <3>3. jr.data[k].page \in need /\ pgs[jr.data[k].page] # NotCached
      BY <3>1, <2>4, <1>4 DEF OwnPages, end
    <3>4. jr.data[k].page \in Pages
      BY <3>3 DEF PagerType
    <3>5. QED
      BY <3>2, <3>3, <3>4, <1>1, <1>18
  <2>5. ASSUME NEW q \in 1 .. Len(base)
        PROVE  \/ cache'[owner][q] \in {NotCached, base[q]}
               \/ RecordIn(q, k0, end, jr.data, base, tx)
    <3>1. CASE q = p
      BY <3>1, <1>18, <1>3
    <3>2. CASE q # p
      <4>1. q \in Pages
        BY <1>8 DEF Pages
      <4>2. \/ pgs[q] \in {NotCached, base[q]}
            \/ RecordIn(q, journalOff, end, jr.data, base, tx)
        BY <1>4 DEF OwnPages, end
      <4>3. QED
        BY <3>2, <4>1, <4>2, <2>1, <1>18, <1>22
    <3>3. QED
      BY <3>1, <3>2
  <2>6. cache'[owner][1] # NotCached
    <3>1. pgs[1] # NotCached
      BY <1>4 DEF OwnPages
    <3>2. v # NotCached
      BY <1>11 DEF Values, NotCached, Torn
    <3>3. 1 \in Pages
      BY <1>3, <1>8 DEF Pages
    <3>4. QED
      BY <3>1, <3>2, <3>3, <1>18
  <2>7. \/ dbFileVers'[owner] = base[1]
        \/ RecordIn(1, k0, end, jr.data, base, tx)
    <3>1. CASE p = 1
      BY <3>1, <1>19
    <3>2. CASE p # 1
      <4>1. \/ dbFileVers[owner] = base[1]
            \/ RecordIn(1, journalOff, end, jr.data, base, tx)
        BY <1>4 DEF OwnPages, end
      <4>2. QED
        BY <3>2, <4>1, <2>1, <1>19, <1>22
    <3>3. QED
      BY <3>1, <3>2
  <2>8. QED
    BY <2>2, <2>3, <2>4, <2>5, <2>6, <2>7, <1>2, <1>12 DEF OwnPages, end
<1>25. OwnPlayback'
  <2>1. LiveData' <=> LiveData
    BY <1>2 DEF LiveData
  <2>2. journalOff' <= Len(jr'.data) /\ journalOff' > 0
    BY <1>2, <1>10, <1>12
  <2>3. state = "reserved" => db'.data = base
    BY <1>4, <1>17
  <2>4. QED
    BY <2>1, <2>2, <2>3, <1>2, <1>4, <1>23, <1>24 DEF OwnPlayback
<1>26. HotPlayback'
  BY <1>2 DEF HotPlayback
<1>27. QED
  <2>1. owner' # None /\ pc' \in Playing /\ Always'
    BY <1>2, <1>4, <1>17, <1>20, <1>21, SqlitePagerAssumption
  <2>2. QED
    BY <2>1, <1>25, <1>26, ToPlaying

\* A block that is no record when the journal is hot: it can only be the
\* journal of a transaction that found the file empty.
LEMMA HotBlockPassed ==
  ASSUME Always, HotPlayback, pc = "record", isHot, base = <<>>, pc' = pc,
         journalOff' \in Nat, journalOff <= journalOff',
         journalOff' <= Len(jr.data), left' \in Nat, owner \in Conns,
         UNCHANGED <<db, caches, pages, inDoubt>>,
         UNCHANGED <<jr, owner, pc, goal, state, flags, sizes, pInJournal, nRec,
                     journalHdr, isHot, isUnsync, cksumInit, errCode, bounds,
                     committed, previous, base, safe>>
  PROVE  PagerInv'
<1> USE DEF Always
<1>1. UNCHANGED <<db, jr, cache, dbFileVers, dirty, need, dbModified, dbSize, tx,
                  committed, previous, inDoubt, base, safe, history>>
  BY DEF caches, pages, flags, sizes, bounds, history
<1>2. DiskType' /\ FilesOK' /\ HistoryOK' /\ CachesOK'
  BY <1>1, DiskSame, FilesSame, HistorySame, CachesKept
<1>3. PagerType'
  BY <1>1 DEF PagerType, flags, sizes, bounds
<1>4. /\ state = "exclusive" /\ ~errCode /\ goal = 0 /\ Clean /\ LiveData
      /\ journalOff > 0 /\ dbSize = Len(base) /\ journalOff \in Nat
      /\ pc \in Playing
  BY DEF HotPlayback, PagerType, Playing
<1>5. (LiveData' <=> LiveData) /\ (Clean' <=> Clean)
  BY <1>1 DEF LiveData, Clean
<1>6. journalOff' > 0
  BY <1>4
<1>7. HotPlayback'
  BY <1>1, <1>4, <1>5, <1>6 DEF HotPlayback
<1>8. OwnPlayback'
  BY DEF OwnPlayback
<1>9. QED
  <2>1. owner' # None /\ pc' \in Playing /\ Always'
    BY <1>2, <1>3, <1>4, SqlitePagerAssumption
  <2>2. QED
    BY <2>1, <1>7, <1>8, ToPlaying

\* A record that no power failure can take away, or the result is in doubt.
LEMMA HotRecordKept ==
  ASSUME Always, HotPages, pc = "record", base # <<>>, left > 0,
         NEW k \in journalOff + 1 .. journalOff + left, ~InFlux(jr)
  PROVE  Restorable(jr.data[k].page, jr.may, base, tx, safe)
<1> USE DEF Always
<1>1. /\ journalOff + left <= Len(jr.data)
      /\ HotStop(journalOff + left)
      /\ LiveRecord(jr.data[k], base, tx)
  BY DEF HotPages
<1>2. /\ Len(jr.data) \in Nat /\ Len(jr.may) \in Nat /\ jr.lens \in SUBSET Nat
      /\ Possible(jr.may, jr.lens) /\ OneOf(jr.data, jr.may, jr.lens)
      /\ Len(jr.data) <= Len(jr.may) /\ safe \in Nat
      /\ journalOff \in Nat /\ left \in Nat /\ jr.data \in Seq(Blocks)
  BY JournalFile DEF PagerType, DiskType
<1>3. JournalOK(jr.may, jr.lens, base, tx, safe)
  BY MayOutside DEF FilesOK
<1>4. k \in Nat /\ k >= 1 /\ k <= journalOff + left /\ k <= Len(jr.data)
  BY <1>1, <1>2
<1>5. k \in 1 .. Len(jr.data) /\ k \in 1 .. Len(jr.may)
  BY <1>2, <1>4
<1>6. jr.data[k] \in jr.may[k]
  BY <1>2, <1>5 DEF OneOf
<1>7. CASE k <= safe
  <2>1. k \in 1 .. safe
    BY <1>2, <1>4, <1>7
  <2>2. QED
    BY <2>1, <1>1, <1>2, <1>3, <1>6, SafeRecord
<1>8. CASE ~(k <= safe)
  <2>1. journalOff + left = PlayEnd(jr.data, safe)
    <3>1. ~(journalOff + left <= safe)
      BY <1>2, <1>4, <1>8
    <3>2. QED
      BY <3>1, <1>1 DEF HotStop, Boundary
  <2>2. PlayEnd(jr.data, safe) # safe
    BY <2>1, <1>2, <1>4, <1>8
  <2>3. /\ safe < Len(jr.data) /\ IsHeader(jr.data[safe + 1])
        /\ PlayEnd(jr.data, safe) = safe + 1 + jr.data[safe + 1].body
    BY <2>2 DEF PlayEnd
  <2>4. safe + 1 \in 1 .. Len(jr.data) /\ safe + 1 \in 1 .. safe + 1
        /\ safe + 1 \in DOMAIN jr.may /\ k \in DOMAIN jr.may
    BY <2>3, <1>2, <1>5, JournalFile
  <2>5. jr.data[safe + 1] \in jr.may[safe + 1]
    BY <2>4, <1>2 DEF OneOf
  <2>6. LiveHeader(jr.data[safe + 1], base, tx)
    BY <2>3, <1>2, <1>3, FinalSection DEF JournalOK
  <2>7. k # safe + 1
    BY <2>6, <1>1 DEF LiveHeader, LiveRecord, IsHeader
  <2>8. safe + 1 < k /\ k <= safe + 1 + jr.data[safe + 1].body
    <3>1. safe + 1 < k
      BY <2>7, <1>2, <1>4, <1>8
    <3>2. QED
      BY <3>1, <2>1, <2>3, <1>4
  <2>9. \A b \in jr.may[safe + 1] : b = jr.data[safe + 1]
    BY <2>4, <2>5 DEF InFlux
  <2>10. \A b \in jr.may[k] : b = jr.data[k]
    BY <2>4, <1>6 DEF InFlux
  <2>11. /\ \A b \in jr.may[safe + 1] :
              LiveHeader(b, base, tx) /\ k <= safe + 1 + b.body
         /\ \A c \in jr.may[k] :
              LiveRecord(c, base, tx) /\ c.page = jr.data[k].page
    BY <2>6, <2>8, <2>9, <2>10, <1>1
  <2>12. QED
    BY <2>4, <2>8, <2>11, <1>5 DEF Restorable
<1>9. QED
  BY <1>7, <1>8

\* What the playback of a record does when the journal is hot.
LEMMA HotRecordRestored ==
  ASSUME Always, HotPlayback, pc = "record", isHot, base # <<>>, owner \in Conns,
         left > 0,
         Restored(jr.data[journalOff + 1].page, jr.data[journalOff + 1].body),
         UNCHANGED <<jr, owner, pc, goal, state, flags, sizes, pInJournal, nRec,
                     journalHdr, isHot, isUnsync, cksumInit, errCode, bounds,
                     committed, previous, base, safe>>
  PROVE  PagerInv'
<1> USE DEF Always
<1> DEFINE k0 == journalOff + 1
           p == jr.data[k0].page
           v == jr.data[k0].body
           stop == PlayEnd(jr.data, safe)
<1>1. /\ state = "exclusive" /\ ~errCode /\ goal = 0 /\ Clean /\ LiveData
      /\ journalOff > 0 /\ dbSize = Len(base) /\ HotPages
      /\ journalOff \in Nat /\ left \in Nat /\ pc \in Playing /\ stop \in Int
  BY PlayEndInt DEF HotPlayback, PagerType, Playing
<1>2. /\ cksumInit = tx /\ ~isUnsync
      /\ journalOff + left <= Len(jr.data)
      /\ HotStop(journalOff + left)
      /\ \A k \in journalOff + 1 .. journalOff + left :
           LiveRecord(jr.data[k], base, tx)
  BY <1>1 DEF HotPages
<1>3. /\ k0 \in journalOff + 1 .. journalOff + left /\ k0 \in Nat
      /\ k0 <= Len(jr.data) /\ k0 >= 1
  <2>1. k0 \in Nat /\ k0 <= journalOff + left /\ k0 >= 1
    BY <1>1
  <2>2. k0 \in journalOff + 1 .. journalOff + left
    BY <2>1, <1>1
  <2>3. k0 <= Len(jr.data)
    BY <2>1, <1>1, <1>2, JournalFile
  <2>4. QED
    BY <2>1, <2>2, <2>3
<1>4. p \in 1 .. Len(base) /\ v = base[p] /\ LiveRecord(jr.data[k0], base, tx)
  BY <1>2, <1>3 DEF LiveRecord
<1>5. /\ inDoubt' = (inDoubt \/ InFlux(jr))
      /\ db' = Write(db, p, v, Torn)
      /\ cache' = [cache EXCEPT ![owner] = NoPages]
      /\ dbFileVers' = dbFileVers
      /\ dirty' = dirty \ {p}
      /\ need' = need \ {p}
      /\ journalOff' = k0
      /\ left' = left - 1
  BY <1>1, <1>2 DEF Restored, Cached
<1>6. UNCHANGED <<jr, owner, pc, goal, state, dbModified, dbSize, tx,
                  isHot, isUnsync, cksumInit, errCode,
                  committed, previous, base, safe>>
  BY DEF flags, sizes, bounds
<1>7. /\ base \in Seq(Values) /\ Len(base) \in Nat /\ Len(base) <= PageCount
      /\ PageCount \in Nat /\ PageCount <= MaxPages /\ MaxPages \in Nat
      /\ PageCount = Len(db.data)
  BY DatabaseFile, SqlitePagerAssumption DEF FilesOK, DiskType
<1> HIDE DEF k0, p, v, stop
<1>8. p \in Pages /\ v \in Values /\ p <= PageCount /\ p <= PageCount + 1
  BY <1>4, <1>7 DEF Pages
<1>9. DiskType' /\ FilesOK'
  <2>1. inDoubt' \in BOOLEAN /\ (inDoubt => inDoubt')
    <3>1. inDoubt \in BOOLEAN /\ InFlux(jr) \in BOOLEAN
      BY DEF DiskType, InFlux
    <3>2. QED
      BY <3>1, <1>5
  <2>2. \/ Restorable(p, jr.may, base, tx, safe)
        \/ inDoubt' /\ v = base[p]
    <3>1. CASE InFlux(jr)
      BY <3>1, <1>4, <1>5
    <3>2. CASE ~InFlux(jr)
      <4>1. Restorable(jr.data[k0].page, jr.may, base, tx, safe)
        BY <3>2, <1>1, <1>3, HotRecordKept
      <4>2. QED
        BY <4>1 DEF p
    <3>3. QED
      BY <3>1, <3>2
  <2>3. (p > PageCount => v # Torn) /\ pc # "zsync" /\ pc' # "zsync"
    <3>1. ~(p > PageCount)
      BY <1>4, <1>7
    <3>2. pc # "zsync" /\ pc' # "zsync"
      BY <1>6
    <3>3. QED
      BY <3>1, <3>2
  <2>4. QED
    BY <2>1, <2>2, <2>3, <1>5, <1>6, <1>8, FilesDatabase
<1>10. /\ db'.data[p] = base[p]
       /\ \A q \in 1 .. PageCount : q # p => db'.data[q] = db.data[q]
  BY <1>4, <1>5, <1>8, DatabasePut
<1>11. /\ cache' \in [Conns -> [Pages -> Values \cup {NotCached}]]
       /\ cache'[owner] = NoPages
       /\ \A c \in Conns : c # owner => cache'[c] = cache[c]
  <2>1. NoPages \in [Pages -> Values \cup {NotCached}]
    BY DEF NoPages
  <2>2. cache \in [Conns -> [Pages -> Values \cup {NotCached}]]
    BY DEF PagerType
  <2>3. QED
    BY <2>1, <2>2, <1>5
<1>12. CachesOK'
  <2>1. \A c \in Conns : VersionOK(cache[c], dbFileVers[c], base)
    BY DEF CachesOK
  <2>2. \A c \in Conns : VersionOK(cache'[c], dbFileVers'[c], base)
    BY <2>1, <1>5, <1>11 DEF VersionOK
  <2>3. QED
    BY <2>2, <1>6 DEF CachesOK
<1>13. HistoryOK'
  BY <1>6, HistorySame
<1>14. Clean'
  BY <1>1, <1>5, <1>6 DEF Clean
<1>15. PagerType'
  <2>1. left' \in Nat /\ journalOff' \in Nat
    BY <1>1, <1>3, <1>5
  <2>2. dirty' \subseteq Pages /\ need' \subseteq Pages
    BY <1>5 DEF PagerType
  <2>3. dbFileVers' \in [Conns -> Values]
    BY <1>5 DEF PagerType
  <2>4. QED
    BY <2>1, <2>2, <2>3, <1>6, <1>11 DEF PagerType, flags, sizes, bounds
<1>16. HotPages'
  <2>1. journalOff' + left' = journalOff + left
    BY <1>1, <1>5 DEF k0
  <2>2. \A k \in journalOff' + 1 .. journalOff + left :
          k \in journalOff + 1 .. journalOff + left
    BY <1>1, <1>5 DEF k0
  <2>3. /\ journalOff' + left' <= Len(jr.data)
        /\ HotStop(journalOff' + left')
        /\ \A k \in journalOff' + 1 .. journalOff' + left' :
             LiveRecord(jr.data[k], base, tx)
    BY <2>1, <2>2, <1>2
  <2>4. ASSUME NEW q \in 1 .. Len(base)
        PROVE  db'.data[q] = base[q] \/ RecordIn(q, k0, stop, jr.data, base, tx)
    <3>1. CASE q = p
      BY <3>1, <1>10
    <3>2. CASE q # p
      <4>1. db.data[q] = base[q] \/ RecordIn(q, journalOff, stop, jr.data, base, tx)
        BY <1>1 DEF HotPages, stop
      <4>2. q \in 1 .. PageCount
        BY <1>7
      <4>3. CASE db.data[q] = base[q]
        BY <4>2, <4>3, <3>2, <1>10
      <4>4. CASE RecordIn(q, journalOff, stop, jr.data, base, tx)
        BY <4>4, <3>2, <1>1, NoRecordHere DEF k0, p
      <4>5. QED
        BY <4>1, <4>3, <4>4
    <3>3. QED
      BY <3>1, <3>2
  <2>5. Sealed(jr.may, safe)
    BY <1>1 DEF HotPages
  <2>6. QED
    BY <2>3, <2>4, <2>5, <1>2, <1>5, <1>6 DEF HotPages, HotStop, stop
<1>17. HotPlayback'
  <2>1. LiveData' <=> LiveData
    BY <1>6 DEF LiveData
  <2>2. journalOff' <= Len(jr'.data) /\ journalOff' > 0
    BY <1>3, <1>5, <1>6
  <2>3. QED
    BY <2>1, <2>2, <1>1, <1>6, <1>14, <1>16 DEF HotPlayback
<1>18. OwnPlayback'
  BY <1>6 DEF OwnPlayback
<1>19. QED
  <2>1. owner' # None /\ pc' \in Playing /\ Always'
    BY <1>1, <1>6, <1>9, <1>12, <1>13, <1>15, SqlitePagerAssumption
  <2>2. QED
    BY <2>1, <1>17, <1>18, ToPlaying

\* A playback restores a page from its record.
LEMMA PlayRecordStep ==
  ASSUME PagerInv, PlayRecord
  PROVE  PagerInv'
<1>1. pc = "record" /\ pc \in Playing /\ left > 0 /\ journalOff < Len(jr.data)
  BY DEF PlayRecord, Playing
<1>2. Always /\ OwnPlayback /\ HotPlayback /\ owner \in Conns
  BY <1>1, FromPlaying
<1> DEFINE k0 == journalOff + 1
           b == jr.data[k0]
           end == journalHdr + nRec
<1>3. UNCHANGED <<jr, owner, pc, goal, state, flags, sizes, pInJournal, nRec,
                  journalHdr, isHot, isUnsync, cksumInit, errCode, bounds,
                  committed, previous, base, safe>>
  BY DEF PlayRecord
<1>4. \/ /\ Skipped(b)
         /\ journalOff' = journalOff + 1
         /\ left' = left - 1
         /\ UNCHANGED <<db, caches, pages, inDoubt>>
      \/ /\ Invalid(b)
         /\ ~(b.kind = "record" /\ b.page > dbSize)
         /\ journalOff' = Len(jr.data)
         /\ left' = 0
         /\ UNCHANGED <<db, caches, pages, inDoubt>>
      \/ /\ ~Invalid(b)
         /\ b.page <= dbSize
         /\ Restored(b.page, b.body)
  BY DEF PlayRecord
<1>5. /\ journalOff \in Nat /\ left \in Nat /\ Len(jr.data) \in Nat
      /\ Len(base) \in Nat /\ journalHdr \in Nat /\ nRec \in Nat
      /\ k0 \in 1 .. Len(jr.data) /\ k0 \in 1 .. Len(jr.may)
  <2>1. /\ journalOff \in Nat /\ left \in Nat /\ Len(jr.data) \in Nat
        /\ Len(base) \in Nat /\ journalHdr \in Nat /\ nRec \in Nat
        /\ Len(jr.may) \in Nat /\ Len(jr.data) <= Len(jr.may)
    BY <1>2, JournalFile, DatabaseFile DEF Always, PagerType
  <2>2. k0 \in Nat /\ k0 >= 1 /\ k0 <= Len(jr.data)
    BY <2>1, <1>1
  <2>3. QED
    BY <2>1, <2>2
<1>6. b \in jr.may[k0]
  BY <1>2, <1>5, JournalFile DEF Always, OneOf
<1>7. dbSize = Len(base)
  BY <1>1, <1>2, <1>5 DEF OwnPlayback, HotPlayback
\* Unless the record is restored the step passes a block.
<1>8. ASSUME ~(~Invalid(b) /\ b.page <= dbSize /\ Restored(b.page, b.body))
      PROVE  /\ journalOff' \in Nat /\ journalOff <= journalOff'
             /\ journalOff' <= Len(jr.data) /\ left' \in Nat
             /\ journalOff + left = Len(jr.data) => journalOff' + left' = Len(jr.data)
             /\ UNCHANGED <<db, caches, pages, inDoubt>>
  <2>1. CASE /\ Skipped(b)
             /\ journalOff' = journalOff + 1
             /\ left' = left - 1
             /\ UNCHANGED <<db, caches, pages, inDoubt>>
    <3>1. /\ journalOff + 1 \in Nat /\ journalOff <= journalOff + 1
          /\ journalOff + 1 <= Len(jr.data) /\ left - 1 \in Nat
          /\ (journalOff + 1) + (left - 1) = journalOff + left
      BY <1>1, <1>5
    <3>2. QED
      BY <2>1, <3>1
  <2>2. CASE /\ journalOff' = Len(jr.data)
             /\ left' = 0
             /\ UNCHANGED <<db, caches, pages, inDoubt>>
    BY <2>2, <1>1, <1>5
  <2>3. QED
    BY <2>1, <2>2, <1>4, <1>8
<1>9. ASSUME LiveRecord(b, base, tx), cksumInit = tx
      PROVE  Restored(b.page, b.body)
  <2>1. ~Skipped(b) /\ ~Invalid(b)
    BY <1>5, <1>7, <1>9 DEF LiveRecord, Skipped, Invalid
  <2>2. QED
    BY <2>1, <1>4
<1> HIDE DEF k0, b, end
<1>10. CASE base = <<>>
  <2>1. b.kind # "record"
    BY <1>2, <1>5, <1>6, <1>10 DEF Always, FilesOK, NothingToRestore
  <2>2. ~(~Invalid(b) /\ b.page <= dbSize /\ Restored(b.page, b.body))
    BY <2>1 DEF Invalid
  <2>3. /\ journalOff' \in Nat /\ journalOff <= journalOff'
        /\ journalOff' <= Len(jr.data) /\ left' \in Nat
        /\ UNCHANGED <<db, caches, pages, inDoubt>>
    BY <2>2, <1>8
  <2>4. pc' = pc
    BY <1>3
  <2>5. CASE isHot
    BY <2>3, <2>4, <2>5, <1>1, <1>2, <1>3, <1>10, HotBlockPassed
  <2>6. CASE ~isHot
    BY <2>3, <2>4, <2>6, <1>1, <1>2, <1>3, <1>10, RecordPassed
  <2>7. QED
    BY <2>5, <2>6
<1>11. CASE base # <<>> /\ isHot
  <2>1. HotPages
    BY <1>1, <1>2, <1>11 DEF HotPlayback
  <2>2. k0 \in journalOff + 1 .. journalOff + left
    BY <1>1, <1>5 DEF k0
  <2>3. LiveRecord(b, base, tx) /\ cksumInit = tx
    BY <2>1, <2>2, <1>1 DEF HotPages, b
  <2>4. Restored(b.page, b.body)
    BY <2>3, <1>9
  <2>5. Restored(jr.data[journalOff + 1].page, jr.data[journalOff + 1].body)
    BY <2>4 DEF b, k0
  <2>6. QED
    BY <2>5, <1>1, <1>2, <1>3, <1>11, HotRecordRestored
<1>12. CASE base # <<>> /\ ~isHot
  <2>1. OwnPlace /\ cksumInit = tx
    BY <1>1, <1>2, <1>12 DEF OwnPlayback, OwnPlace
  <2>2. OwnJournal(jr.data, base, tx, journalHdr, end)
    BY <2>1 DEF OwnPlace, end
  <2>3. /\ end \in Nat
        /\ \A k \in journalHdr + 1 .. end : LiveRecord(jr.data[k], base, tx)
        /\ \A k \in end + 1 .. Len(jr.data) : jr.data[k].id # tx
    BY <2>2, <1>5 DEF OwnJournal, end
  <2>4. k0 = journalOff + 1 /\ k0 \in Nat /\ k0 <= Len(jr.data)
    BY <1>5 DEF k0
  <2>5. CASE k0 <= end
    <3>1. LiveRecord(b, base, tx)
      <4>1. CASE isUnsync
        <5>1. journalHdr <= journalOff
          BY <4>1, <2>1, <1>1 DEF OwnPlace
        <5>2. k0 \in journalHdr + 1 .. end
          BY <5>1, <2>3, <2>4, <2>5, <1>5
        <5>3. QED
          BY <5>2, <2>3 DEF b
      <4>2. CASE ~isUnsync
        <5>1. k0 \in journalOff + 1 .. journalOff + left
          BY <2>4, <1>1, <1>5
        <5>2. QED
          BY <4>2, <5>1, <2>1, <1>1 DEF OwnPlace, b
      <4>3. QED
        BY <4>1, <4>2
    <3>2. Restored(b.page, b.body)
      BY <3>1, <2>1, <1>9
    <3>3. /\ LiveRecord(jr.data[journalOff + 1], base, tx)
          /\ Restored(jr.data[journalOff + 1].page, jr.data[journalOff + 1].body)
          /\ journalOff + 1 <= journalHdr + nRec
      BY <3>1, <3>2, <2>5 DEF b, k0, end
    <3>4. QED
      BY <3>3, <1>1, <1>2, <1>3, <1>12, OwnRecordRestored
  <2>6. CASE ~(k0 <= end)
    <3>1. k0 \in end + 1 .. Len(jr.data)
      BY <2>3, <2>4, <2>6, <1>5
    <3>2. b.id # tx
      BY <3>1, <2>3 DEF b
    <3>3. isUnsync
      <4> SUFFICES ASSUME ~isUnsync PROVE FALSE
        OBVIOUS
      <4>1. k0 \in journalOff + 1 .. journalOff + left
        BY <2>4, <1>1, <1>5
      <4>2. LiveRecord(b, base, tx)
        BY <4>1, <2>1, <1>1 DEF OwnPlace, b
      <4>3. QED
        BY <4>2, <3>2 DEF LiveRecord
    <3>4. journalOff + left = Len(jr.data)
      BY <3>3, <2>1, <1>1 DEF OwnPlace
    <3>5. ~(~Invalid(b) /\ b.page <= dbSize /\ Restored(b.page, b.body))
      BY <3>2, <2>1 DEF Invalid
    <3>6. /\ journalOff' \in Nat /\ journalOff <= journalOff'
          /\ journalOff' <= Len(jr.data) /\ left' \in Nat
          /\ journalOff' + left' = Len(jr.data)
          /\ UNCHANGED <<db, caches, pages, inDoubt>>
      BY <3>4, <3>5, <1>8
    <3>7. journalHdr + nRec <= journalOff /\ pc' = pc
      <4>1. journalHdr + nRec <= journalOff
        BY <2>3, <2>4, <2>6, <1>5 DEF end
      <4>2. QED
        BY <4>1, <1>3
    <3>8. QED
      BY <3>3, <3>6, <3>7, <1>1, <1>2, <1>3, <1>12, RecordPassed
  <2>7. QED
    BY <2>5, <2>6
<1>13. QED
  BY <1>10, <1>11, <1>12

-----------------------------------------------------------------------------
(* The invariant.                                                          *)

\* A database of any length that is settled, without a journal.
LEMMA InitInv ==
  ASSUME Init
  PROVE  PagerInv
<1>1. PICK n \in {0, MaxPages - 1} : db = OnDisk([p \in 1 .. n |-> 0])
  BY DEF Init
<1>2. n \in Nat /\ n <= MaxPages /\ MaxPages \in Nat
  BY <1>1, SqlitePagerAssumption
<1> DEFINE s == [p \in 1 .. n |-> 0]
<1>3. s \in Seq(Values) /\ Len(s) = n
  BY <1>2 DEF Values, Torn
<1> HIDE DEF s
<1>4. /\ FileOK(db, Values) /\ db.data = s /\ Len(db.may) = n
      /\ \A i \in 1 .. n : db.may[i] = {s[i]}
      /\ db.lens = {n}
  BY <1>1, <1>3, OnDiskFile DEF s
<1>5. /\ FileOK(jr, Blocks) /\ jr.data = <<>> /\ Len(jr.may) = 0 /\ jr.lens = {0}
  <2>1. jr = OnDisk(<<>>) /\ <<>> \in Seq(Blocks) /\ Len(<<>>) = 0
    BY DEF Init
  <2>2. QED
    BY <2>1, OnDiskFile
<1>6. /\ owner = None /\ pc = "idle" /\ goal = 0 /\ state = "unlock"
      /\ cache = [c \in Conns |-> NoPages] /\ dbFileVers = [c \in Conns |-> 0]
      /\ dirty = {} /\ need = {} /\ ~dbModified /\ ~isHot /\ ~errCode
      /\ tx = 0 /\ committed = s /\ previous = s /\ inDoubt = FALSE /\ base = s
      /\ safe = 0
  BY <1>4 DEF Init
<1>7. DiskType
  <2>1. BlocksOK(jr.may, tx)
    BY <1>5 DEF BlocksOK
  <2>2. QED
    BY <1>2, <1>3, <1>4, <1>5, <1>6, <2>1 DEF DiskType
<1>8. PagerType
  <2>1. NoPages \in [Pages -> Values \cup {NotCached}] /\ 0 \in Values
    BY DEF NoPages, Values, Torn
  <2>2. /\ cache \in [Conns -> [Pages -> Values \cup {NotCached}]]
        /\ dbFileVers \in [Conns -> Values]
    BY <1>6, <2>1
  <2>3. 0 \in 0 .. MaxPages
    BY <1>2
  <2>4. QED
    BY <1>6, <2>2, <2>3 DEF Init, PagerType
<1>9. NoHeader(jr.may) /\ NothingToRestore(jr.may)
  BY <1>5 DEF NoHeader, NothingToRestore
<1>10. JournalOK(jr.may, jr.lens, base, tx, safe)
  <2>1. jr.lens \in SUBSET Nat /\ Len(jr.may) \in Nat
    BY <1>5
  <2>2. QED
    BY <2>1, <1>6, <1>9, QuietJournal
<1>11. FilesOK
  <2>1. PageCount = n /\ JournalMay = jr.may
    BY <1>3, <1>4, <1>6 DEF PageCount, JournalMay
  <2>2. QED
    BY <2>1, <1>2, <1>3, <1>4, <1>6, <1>9, <1>10 DEF FilesOK
<1>12. HistoryOK
  BY <1>2, <1>3, <1>6 DEF HistoryOK, Prefix
<1>13. CachesOK
  BY <1>6 DEF CachesOK, VersionOK
<1>14. Idle
  <2>1. ~LiveData
    BY <1>5 DEF LiveData
  <2>2. Quiet
    BY <1>4, <1>6, <1>9 DEF Quiet
  <2>3. QED
    BY <2>1, <2>2, <1>6 DEF Idle, Clean
<1>15. Shared /\ Transaction /\ OwnPlayback /\ HotPlayback /\ Finalising /\ Ending
  BY <1>6 DEF Shared, Transaction, InTransaction, Working, OwnPlayback, HotPlayback,
              Playing, Finalising, Ending
<1>16. QED
  BY <1>6, <1>7, <1>8, <1>11, <1>12, <1>13, <1>14, <1>15 DEF PagerInv

\* A stuttering step.
LEMMA StutterInv ==
  ASSUME PagerInv, UNCHANGED vars
  PROVE  PagerInv'
<1>1. UNCHANGED <<db, jr, owner, pc, goal, state, cache, dbFileVers, dirty, need,
                  needSync, journalStarted, dbModified, dbSize, dbOrigSize,
                  pInJournal, nRec, journalOff, journalHdr, isHot, left, isUnsync,
                  cksumInit, errCode, tx, faults, committed, previous, inDoubt,
                  base, safe>>
  BY DEF vars, files, caches, pages, flags, sizes, journal, play, bounds, history
<1> USE DEF PagerInv
<1>2. DiskType' /\ PagerType' /\ HistoryOK' /\ CachesOK'
  BY <1>1 DEF DiskType, PagerType, HistoryOK, CachesOK
<1>3. FilesOK'
  BY <1>1 DEF FilesOK, JournalMay, PageCount
<1>4. (LiveData' <=> LiveData) /\ (Quiet' <=> Quiet) /\ (CutShort' <=> CutShort)
      /\ (Clean' <=> Clean) /\ PageCount' = PageCount /\ (EndCache' <=> EndCache)
  BY <1>1 DEF LiveData, Quiet, CutShort, Clean, PageCount, EndCache
<1>5. Idle' /\ Shared' /\ Finalising' /\ Ending'
  BY <1>1, <1>4 DEF Idle, Shared, Finalising, Ending
<1>6. Transaction'
  <2>1. TxPlace => TxPlace'
    BY <1>1, <1>4 DEF TxPlace
  <2>2. TxJournal => TxJournal'
    BY <1>1, <1>4 DEF TxJournal, TxSections
  <2>3. TxPages => TxPages'
    BY <1>1 DEF TxPages
  <2>4. TxCache => TxCache'
    BY <1>1, <1>4 DEF TxCache
  <2>5. QED
    BY <2>1, <2>2, <2>3, <2>4, <1>1 DEF Transaction, InTransaction
<1>7. OwnPlayback'
  <2>1. OwnPlace => OwnPlace'
    BY <1>1 DEF OwnPlace, OwnStop
  <2>2. OwnPages => OwnPages'
    BY <1>1 DEF OwnPages
  <2>3. QED
    BY <2>1, <2>2, <1>1, <1>4 DEF OwnPlayback
<1>8. HotPlayback'
  <2>1. HotPages => HotPages'
    BY <1>1 DEF HotPages, HotStop
  <2>2. QED
    BY <2>1, <1>1, <1>4 DEF HotPlayback
<1>9. QED
  BY <1>1, <1>2, <1>3, <1>5, <1>6, <1>7, <1>8

\* The invariant is inductive.
LEMMA NextInv ==
  ASSUME PagerInv, [Next]_vars, FullSync, Windows = {}
  PROVE  PagerInv'
<1>1. ASSUME NEW c \in Conns, SharedLock(c) PROVE PagerInv'
  BY <1>1, SharedLockStep
<1>2. CASE CheckVersion
  BY <1>2, CheckVersionStep
<1>3. CASE pager_unlock
  BY <1>3, PagerUnlockStep
<1>4. ASSUME NEW p \in Pages, Acquire(p) PROVE PagerInv'
  BY <1>4, AcquireShared, AcquireInTransaction
<1>5. ASSUME NEW p \in Pages, Change(p) PROVE PagerInv'
  BY <1>5, ChangeStep
<1>6. ASSUME NEW p \in Pages, pagerStress(p) PROVE PagerInv'
  BY <1>6, StressStep
<1>7. CASE Begin
  BY <1>7, BeginStep
<1>8. CASE InvalidateNext
  BY <1>8, InvalidateNextStep
<1>9. CASE SyncRecords
  BY <1>9, SyncRecordsStep
<1>10. CASE WriteNRec
  BY <1>10, WriteNRecStep
<1>11. CASE SyncNRec
  BY <1>11, SyncNRecStep
<1>12. CASE NewHeader
  BY <1>12, NewHeaderStep
<1>13. CASE Spill
  BY <1>13, SpillStep
<1>14. ASSUME NEW n \in {0, 1}, CommitPhaseOne(n) PROVE PagerInv'
  BY <1>14, CommitPhaseOneStep
<1>15. CASE IncrChangeCounter
  BY <1>15, IncrChangeCounterStep
<1>16. CASE JournalDiscarded
  BY <1>16, JournalDiscardedStep
<1>17. CASE WritePages
  BY <1>17, WritePagesStep
<1>18. CASE SyncDb
  BY <1>18, SyncDbStep
<1>19. CASE CommitPhaseTwo
  BY <1>19, CommitPhaseTwoStep
<1>20. CASE SyncZero
  BY <1>20, SyncZeroStep
<1>21. CASE EndTransaction
  BY <1>21, EndTransactionStep
<1>22. CASE Rollback
  BY <1>22, RollbackStep
<1>23. CASE PlayHeader
  BY <1>23, PlayHeaderStep
<1>24. CASE PlayRecord
  BY <1>24, PlayRecordStep
<1>25. CASE EndSection
  BY <1>25, EndSectionStep
<1>26. CASE EndPlayback
  BY <1>26, EndPlaybackStep
<1>27. CASE CommitFails
  BY <1>27, CommitFailsStep
<1>28. CASE SpillFails
  BY <1>28, SpillFailsStep
<1>29. CASE PlaybackFails
  BY <1>29, PlaybackFailsStep
<1>30. CASE PowerFailure
  BY <1>30, PowerFailureStep
<1>31. CASE UNCHANGED vars
  BY <1>31, StutterInv
<1>32. QED
  BY <1>1, <1>2, <1>3, <1>4, <1>5, <1>6, <1>7, <1>8, <1>9, <1>10, <1>11, <1>12,
     <1>13, <1>14, <1>15, <1>16, <1>17, <1>18, <1>19, <1>20, <1>21, <1>22, <1>23,
     <1>24, <1>25, <1>26, <1>27, <1>28, <1>29, <1>30, <1>31 DEF Next

\* With synchronous=FULL, and outside the two known windows, PagerInv holds
\* through every interleaving of the connections, spill, commit, rollback,
\* recovery, I/O error and power failure, for databases and journals of any
\* length.
THEOREM PagerInvariant ==
  ASSUME FullSync, Windows = {}
  PROVE  Spec => []PagerInv
<1>1. Init => PagerInv
  BY InitInv
<1>2. PagerInv /\ [Next]_vars => PagerInv'
  BY NextInv
<1>3. QED
  BY <1>1, <1>2, PTL DEF Spec

\* A block that can only be a certain record.
LEMMA TheRecord ==
  ASSUME NEW c \in Blocks, NEW B, NEW X, LiveRecord(c, B, X)
  PROVE  c = Record(c.page, B[c.page], X)
BY DEF Blocks, LiveRecord, Record

\* The invariant is stronger than write-ahead.
LEMMA InvWriteAhead ==
  ASSUME PagerInv
  PROVE  WriteAhead
<1> SUFFICES ASSUME ~inDoubt, NEW p \in 1 .. Len(committed)
             PROVE  /\ p \in DOMAIN db.may
                    /\ db.may[p] = {committed[p]} \/ Covered(p)
  BY DEF WriteAhead
<1> USE DEF PagerInv
<1>1. /\ committed \in Seq(Values) /\ Len(committed) \in Nat
      /\ base \in Seq(Values) /\ Len(base) \in Nat /\ safe \in Nat /\ tx \in Nat
      /\ db.may \in Seq(SUBSET Values) /\ Len(db.may) = Len(db.data)
      /\ Len(db.data) \in Nat /\ PageCount = Len(db.data)
      /\ Len(base) <= Len(db.data)
      /\ \A i \in 1 .. Len(db.data) : db.data[i] \in db.may[i]
  BY DatabaseFile DEF DiskType, FilesOK
<1>2. CASE pc = "zsync"
  <2>1. Prefix(committed, db.data) /\ ~InFlux(db)
    BY <1>2 DEF Finalising
  <2>2. p \in 1 .. Len(db.data) /\ committed[p] = db.data[p]
    BY <2>1, <1>1 DEF Prefix
  <2>3. \A v \in db.may[p] : v = db.data[p]
    BY <2>1, <2>2, Settled
  <2>4. db.may[p] = {committed[p]}
    BY <2>2, <2>3, <1>1
  <2>5. QED
    BY <2>2, <2>4, <1>1
<1>3. CASE pc # "zsync"
  <2>1. Prefix(committed, base)
    BY <1>3 DEF HistoryOK
  <2>2. p \in 1 .. Len(base) /\ committed[p] = base[p] /\ p \in 1 .. Len(db.data)
    BY <2>1, <1>1 DEF Prefix
  <2>3. (\A v \in db.may[p] : v = base[p]) \/ Restorable(p, jr.may, base, tx, safe)
    BY <2>2, <1>3, MayOutside DEF FilesOK
  <2>4. CASE \A v \in db.may[p] : v = base[p]
    <3>1. db.may[p] = {committed[p]}
      BY <2>2, <2>4, <1>1
    <3>2. QED
      BY <3>1, <2>2, <1>1
  <2>5. CASE Restorable(p, jr.may, base, tx, safe)
    <3>1. PICK g \in 1 .. safe + 1, i \in 1 .. Len(jr.may) :
            /\ g < i
            /\ \A b \in jr.may[g] : LiveHeader(b, base, tx) /\ i <= g + b.body
            /\ \A c \in jr.may[i] : LiveRecord(c, base, tx) /\ c.page = p
      BY <2>5 DEF Restorable
    <3>2. /\ Len(jr.may) \in Nat /\ jr.may \in Seq(SUBSET Blocks)
          /\ \A k \in 1 .. Len(jr.may) : jr.may[k] # {}
      BY JournalFile DEF Possible
    <3>3. g \in 1 .. Len(jr.may) /\ g \in Nat /\ i \in Nat
      BY <3>1, <3>2, <1>1
    <3>4. tx \in 1 .. tx
      <4>1. PICK b \in jr.may[g] : LiveHeader(b, base, tx)
        BY <3>1, <3>2, <3>3
      <4>2. b.id = tx /\ b.id >= 1
        BY <4>1, <3>3 DEF LiveHeader, DiskType, BlocksOK
      <4>3. QED
        BY <4>2, <1>1
    <3>5. \A b \in jr.may[g] : b.kind = "header" /\ b.id = tx /\ b.body >= i - g
      BY <3>1, <3>3 DEF LiveHeader, IsHeader
    <3>6. jr.may[i] = {Record(p, committed[p], tx)}
      <4>1. jr.may[i] \subseteq Blocks /\ jr.may[i] # {}
        BY <3>2
      <4>2. \A c \in jr.may[i] : c = Record(p, base[p], tx)
        BY <4>1, <3>1, TheRecord
      <4>3. QED
        BY <4>1, <4>2, <2>2
    <3>7. Covered(p)
      BY <3>1, <3>3, <3>4, <3>5, <3>6 DEF Covered
    <3>8. QED
      BY <3>7, <2>2, <1>1
  <2>6. QED
    BY <2>3, <2>4, <2>5
<1>4. QED
  BY <1>2, <1>3

\* Write-ahead: a page of the committed database that the disk may hold in
\* any other form is in a part of the journal that is safe on the disk and
\* will be played back.
THEOREM WritesAhead ==
  ASSUME FullSync, Windows = {}
  PROVE  Spec => []WriteAhead
<1>1. Spec => []PagerInv
  BY PagerInvariant
<1>2. PagerInv => WriteAhead
  BY InvWriteAhead
<1>3. QED
  BY <1>1, <1>2, PTL

-----------------------------------------------------------------------------
(* The pager implements the atomic store.                                  *)

\* What the connection that has the lock reads, and whether it may write.
StoreView == IF Active THEN {Image} ELSE {}
StoreWriting == Active /\ state # "shared"

\* A step that the store does not see.
Unseen ==
  /\ UNCHANGED <<committed, previous>>
  /\ StoreView' = StoreView
  /\ StoreWriting' = StoreWriting

\* A step that the store does not see is a stutter of the store.
LEMMA UnseenStep ==
  ASSUME Unseen
  PROVE  UNCHANGED Store!vars
BY DEF Unseen, StoreView, StoreWriting, Store!vars

\* The places at which a connection reads what the store shows it.
LEMMA ActivePlaces ==
  Active <=> pc \in {"ready"} \cup Working
BY DEF Active, Working

\* The image has a page for every number.
LEMMA ImageFile ==
  ASSUME DiskType, PagerType, owner \in Conns
  PROVE  /\ \A p \in Pages : Read(p) \in Values
         /\ Image \in Seq(Values) /\ Len(Image) = dbSize
         /\ \A p \in 1 .. dbSize : p \in Pages /\ Image[p] = Read(p)
         /\ dbSize \in Nat
<1>1. /\ cache[owner] \in [Pages -> Values \cup {NotCached}]
      /\ dbSize \in 0 .. MaxPages
      /\ db.data \in Seq(Values) /\ PageCount = Len(db.data) /\ PageCount \in Nat
      /\ MaxPages \in Nat
  BY DatabaseFile, SqlitePagerAssumption DEF PagerType
<1>2. 0 \in Values
  BY DEF Values, Torn
<1>3. ASSUME NEW p \in Pages PROVE Read(p) \in Values
  <2>1. cache[owner][p] # NotCached => cache[owner][p] \in Values
    BY <1>1
  <2>2. p <= PageCount => db.data[p] \in Values
    BY <1>1 DEF Pages
  <2>3. QED
    BY <2>1, <2>2, <1>2 DEF Read
<1>4. \A p \in 1 .. dbSize : p \in Pages
  BY <1>1 DEF Pages
<1>5. Image \in Seq(Values) /\ Len(Image) = dbSize
  BY <1>1, <1>3, <1>4 DEF Image
<1>6. \A p \in 1 .. dbSize : Image[p] = Read(p)
  BY DEF Image
<1>7. QED
  BY <1>1, <1>3, <1>4, <1>5, <1>6

\* The image stays if every page reads as before.
LEMMA ImageSame ==
  ASSUME dbSize' = dbSize, \A p \in 1 .. dbSize : Read(p)' = Read(p)
  PROVE  Image' = Image
BY DEF Image

\* What is read depends on the lock, the size, the cache and the file.
LEMMA ReadsSame ==
  ASSUME UNCHANGED <<owner, dbSize, cache>>, db'.data = db.data
  PROVE  Image' = Image
<1>1. \A p \in 1 .. dbSize : Read(p)' = Read(p)
  BY DEF Read, PageCount
<1>2. QED
  BY <1>1, ImageSame

\* The two forms of being a prefix.
LEMMA PrefixIs ==
  ASSUME NEW s \in Seq(Values), NEW t \in Seq(Values), Prefix(s, t)
  PROVE  Store!IsPrefix(s, t)
<1>1. /\ Len(s) \in Nat /\ Len(t) \in Nat /\ Len(s) <= Len(t)
      /\ \A p \in 1 .. Len(s) : s[p] = t[p]
  BY DEF Prefix
<1>2. SubSeq(s, 1, Len(s)) = SubSeq(t, 1, Len(s))
  <2>1. SubSeq(s, 1, Len(s)) = [p \in 1 .. Len(s) |-> s[p]]
    BY <1>1
  <2>2. SubSeq(t, 1, Len(s)) = [p \in 1 .. Len(s) |-> t[p]]
    BY <1>1
  <2>3. QED
    BY <2>1, <2>2, <1>1
<1>3. QED
  BY <1>1, <1>2 DEF Store!IsPrefix

\* A reader reads what was committed.
LEMMA SharedImage ==
  PagerInv /\ pc = "ready" /\ state = "shared" =>
    /\ previous = committed
    /\ Store!IsPrefix(committed, Image)
<1> SUFFICES ASSUME PagerInv, pc = "ready", state = "shared"
             PROVE  /\ previous = committed
                    /\ Store!IsPrefix(committed, Image)
  OBVIOUS
<1>1. Always /\ Shared /\ owner \in Conns /\ pc # "zsync"
  BY FromShared
<1> USE <1>1 DEF Always
<1>2. /\ Quiet /\ dbSize = PageCount
      /\ cache[owner] # NoPages => Coherent(cache[owner], base)
  BY DEF Shared
<1>3. /\ PageCount = Len(db.data) /\ base = db.data /\ Len(base) \in Nat
      /\ cache[owner] \in [Pages -> Values \cup {NotCached}]
      /\ committed \in Seq(Values) /\ Len(committed) \in Nat
      /\ PageCount \in Nat
  BY <1>2, DatabaseFile DEF Quiet, PagerType, DiskType
<1>4. /\ Image \in Seq(Values) /\ Len(Image) = dbSize
      /\ \A p \in 1 .. dbSize : p \in Pages /\ Image[p] = Read(p)
  BY ImageFile
<1>5. ASSUME NEW p \in 1 .. dbSize PROVE Image[p] = base[p]
  <2>1. cache[owner][p] # NotCached => cache[owner][p] = base[p]
    BY <1>2, <1>3, <1>4, NoPagesCached DEF Coherent
  <2>2. p <= PageCount
    BY <1>2, <1>3
  <2>3. Read(p) = base[p]
    BY <2>1, <2>2, <1>3 DEF Read
  <2>4. QED
    BY <2>3, <1>4
<1>6. previous = committed /\ Prefix(committed, base)
  BY DEF HistoryOK
<1>7. Prefix(committed, Image)
  <2>1. Len(committed) <= Len(Image)
    BY <1>2, <1>3, <1>4, <1>6 DEF Prefix
  <2>2. \A p \in 1 .. Len(committed) : p \in 1 .. dbSize
    BY <2>1, <1>2, <1>3, <1>4
  <2>3. QED
    BY <2>1, <2>2, <1>5, <1>6 DEF Prefix
<1>8. QED
  BY <1>3, <1>4, <1>6, <1>7, PrefixIs

\* A connection comes to read.
LEMMA LookStep ==
  ASSUME PagerInv, PagerInv', pc \notin {"ready", "zsync"}, pc \notin Working,
         pc' = "ready", state' = "shared", UNCHANGED <<committed, previous>>
  PROVE  Store!Look
<1>1. (PagerInv /\ pc = "ready" /\ state = "shared" =>
        /\ previous = committed
        /\ Store!IsPrefix(committed, Image))'
  BY SharedImage, PTL
<1>2. previous' = committed' /\ Store!IsPrefix(committed', Image')
  BY <1>1
<1>3. ~Active /\ Active'
  BY DEF Active, Working
<1>4. Store!IsPrefix(committed, Image')
  BY <1>2
<1>5. QED
  BY <1>2, <1>3, <1>4 DEF Store!Look, Store!Extends

\* The store sees nothing of what happens outside a transaction.
LEMMA UnseenIdle ==
  ASSUME ~Active, ~Active', UNCHANGED <<committed, previous>>
  PROVE  Unseen
BY DEF Unseen, StoreView, StoreWriting

\* The store sees nothing of a step that keeps what is read.
LEMMA UnseenBusy ==
  ASSUME Active, Active', Image' = Image, (state # "shared") = (state' # "shared"),
         UNCHANGED <<committed, previous>>
  PROVE  Unseen
BY DEF Unseen, StoreView, StoreWriting

\* The work of a transaction that concerns the journal only.
LEMMA JournalUnseen ==
  ASSUME \/ InvalidateNext \/ SyncRecords \/ WriteNRec \/ SyncNRec \/ NewHeader
         \/ SyncDb \/ \E p \in Pages : pagerStress(p)
  PROVE  Active /\ Active' /\ Image' = Image /\ UNCHANGED <<committed, previous>>
         /\ (state = "shared" => pc = "ready" \/ pc \in Working)
         /\ (state' = state \/ state' = "synced")
<1>1. CASE InvalidateNext
  <2>1. pc' \in {"sync1", "nrec"} /\ UNCHANGED <<db, owner, dbSize, cache>>
    BY <1>1 DEF InvalidateNext, sizes, caches
  <2>2. Image' = Image
    BY <2>1, ReadsSame
  <2>3. QED
    BY <1>1, <2>1, <2>2 DEF InvalidateNext, Active, history, Working
<1>2. CASE SyncRecords
  <2>1. UNCHANGED <<db, owner, dbSize, cache>>
    BY <1>2 DEF SyncRecords, sizes, caches
  <2>2. Image' = Image
    BY <2>1, ReadsSame
  <2>3. QED
    BY <1>2, <2>2 DEF SyncRecords, Active, history, Working
<1>3. CASE WriteNRec
  <2>1. UNCHANGED <<db, owner, dbSize, cache>>
    BY <1>3 DEF WriteNRec, sizes, caches
  <2>2. Image' = Image
    BY <2>1, ReadsSame
  <2>3. QED
    BY <1>3, <2>2 DEF WriteNRec, Active, history, Working
<1>4. CASE SyncNRec
  <2>1. UNCHANGED <<db, owner, dbSize, cache>>
    BY <1>4 DEF SyncNRec, sizes, caches
  <2>2. Image' = Image
    BY <2>1, ReadsSame
  <2>3. pc' \in {"write", "newheader", "spill"}
    BY <1>4, SqlitePagerAssumption DEF SyncNRec
  <2>4. QED
    BY <1>4, <2>2, <2>3 DEF SyncNRec, Active, Working
<1>5. CASE NewHeader
  <2>1. UNCHANGED <<db, owner, dbSize, cache>>
    BY <1>5 DEF NewHeader, sizes, caches
  <2>2. Image' = Image
    BY <2>1, ReadsSame
  <2>3. QED
    BY <1>5, <2>2 DEF NewHeader, Active, history, Working
<1>6. CASE SyncDb
  <2>1. UNCHANGED <<owner, dbSize, cache>> /\ db'.data = db.data
    BY <1>6 DEF SyncDb, sizes, caches, Sync, OnDisk
  <2>2. Image' = Image
    BY <2>1, ReadsSame
  <2>3. QED
    BY <1>6, <2>2 DEF SyncDb, Active, Working
<1>7. CASE \E p \in Pages : pagerStress(p)
  <2>1. PICK p \in Pages : pagerStress(p)
    BY <1>7
  <2>2. UNCHANGED <<db, owner, dbSize, cache>> /\ pc' \in {"sync", "spill"}
    BY <2>1 DEF pagerStress, sizes, caches, files
  <2>3. Image' = Image
    BY <2>2, ReadsSame
  <2>4. QED
    BY <2>1, <2>2, <2>3 DEF pagerStress, Active, history, Working
<1>8. QED
  BY <1>1, <1>2, <1>3, <1>4, <1>5, <1>6, <1>7

\* Writing and syncing the journal is not seen.
LEMMA JournalStepUnseen ==
  ASSUME PagerInv,
         \/ InvalidateNext \/ SyncRecords \/ WriteNRec \/ SyncNRec \/ NewHeader
         \/ SyncDb \/ \E p \in Pages : pagerStress(p)
  PROVE  Unseen
<1>1. Active /\ Active' /\ Image' = Image /\ UNCHANGED <<committed, previous>>
      /\ (state' = state \/ state' = "synced")
  BY JournalUnseen
<1>2. SyncDb => state # "shared"
  BY DEF SyncDb, PagerInv, Shared
<1>3. ~SyncDb => state' = state
  BY DEF InvalidateNext, SyncRecords, WriteNRec, SyncNRec, NewHeader, pagerStress
<1>4. (state # "shared") = (state' # "shared")
  BY <1>1, <1>2, <1>3
<1>5. QED
  BY <1>1, <1>4, UnseenBusy

\* A page that is fetched reads as before.
LEMMA FetchedSame ==
  ASSUME PagerType, owner \in Conns, NEW p \in Pages, Fetched(p),
         UNCHANGED <<owner, db, dbSize>>
  PROVE  Image' = Image
<1>1. cache \in [Conns -> [Pages -> Values \cup {NotCached}]]
      /\ dbSize \in 0 .. MaxPages
  BY DEF PagerType
<1>2. /\ cache'[owner][p] = Read(p)
      /\ \A q \in Pages : q # p => cache'[owner][q] = cache[owner][q]
  BY <1>1 DEF Fetched
<1>3. ASSUME NEW q \in 1 .. dbSize PROVE Read(q)' = Read(q)
  <2>1. q \in Pages
    BY <1>1, SqlitePagerAssumption DEF Pages
  <2>2. CASE q = p
    <3>1. cache'[owner][q] # NotCached => Read(q)' = cache'[owner][q]
      BY DEF Read
    <3>2. cache'[owner][q] = NotCached => cache[owner][q] = NotCached
      BY <2>2, <1>2 DEF Read
    <3>3. cache'[owner][q] = NotCached => Read(q)' = Read(q)
      BY <3>2 DEF Read, PageCount
    <3>4. QED
      BY <2>2, <3>1, <3>3, <1>2
  <2>3. CASE q # p
    BY <2>1, <2>3, <1>2 DEF Read, PageCount
  <2>4. QED
    BY <2>2, <2>3
<1>4. QED
  BY <1>3, ImageSame

\* Filling the cache is not seen: the page reads as before.
LEMMA AcquireUnseen ==
  ASSUME PagerInv, NEW p \in Pages, Acquire(p)
  PROVE  Unseen
<1>1. pc = "ready" /\ PagerType /\ owner \in Conns
  BY DEF Acquire, PagerInv, PagerType
<1>2. /\ Fetched(p) /\ UNCHANGED <<owner, db, dbSize, pc, state, committed, previous>>
  BY DEF Acquire, files, sizes, history
<1>3. Image' = Image
  BY <1>1, <1>2, FetchedSame
<1>4. Active /\ Active'
  BY <1>1, <1>2 DEF Active
<1>5. QED
  BY <1>2, <1>3, <1>4, UnseenBusy

\* Journalling the pages to be cut off is not seen.
LEMMA JournalDiscardedUnseen ==
  ASSUME PagerInv, JournalDiscarded
  PROVE  Unseen
<1>1. pc = "discard" /\ PagerType /\ owner \in Conns
  <2>1. pc = "discard"
    BY DEF JournalDiscarded
  <2>2. QED
    BY <2>1 DEF PagerInv, PagerType
<1>2. UNCHANGED <<owner, db, dbSize, state, committed, previous>>
  BY DEF JournalDiscarded, sizes, history
<1>3. Image' = Image /\ Active'
  <2>1. CASE Discarded # {}
    <3>1. Fetched(Min(Discarded)) /\ pc' = pc
      BY <2>1 DEF JournalDiscarded
    <3>2. Min(Discarded) \in Pages
      <4>1. Discarded \in SUBSET Nat
        BY <1>1 DEF Discarded, PagerType
      <4>2. Min(Discarded) \in Discarded
        BY <2>1, <4>1, LeastPage
      <4>3. dbSize \in 0 .. MaxPages /\ dbOrigSize \in 0 .. MaxPages /\ MaxPages \in Nat
        BY <1>1, SqlitePagerAssumption DEF PagerType
      <4>4. QED
        BY <4>2, <4>3 DEF Discarded, Pages
    <3>3. Image' = Image
      BY <3>1, <3>2, <1>1, <1>2, FetchedSame
    <3>4. QED
      BY <3>1, <3>3, <1>1 DEF Active
  <2>2. CASE Discarded = {}
    <3>1. pc' \in {"sync", "write"} /\ cache' = cache
      BY <2>2 DEF JournalDiscarded, caches
    <3>2. Image' = Image
      BY <3>1, <1>2, ReadsSame
    <3>3. QED
      BY <3>1, <3>2 DEF Active
  <2>3. QED
    BY <2>1, <2>2
<1>4. Active
  BY <1>1 DEF Active
<1>5. QED
  BY <1>2, <1>3, <1>4, UnseenBusy

\* A page that is stored reads as before, from the cache or from the file.
LEMMA StoredSame ==
  ASSUME DiskType, PagerType, owner \in Conns,
         NEW p \in Pages, p <= PageCount + 1, cache[owner][p] # NotCached,
         db' = Write(db, p, cache[owner][p], Torn),
         UNCHANGED <<owner, dbSize>>,
         cache' = cache \/ cache' = [cache EXCEPT ![owner][p] = NotCached]
  PROVE  Image' = Image
<1>1. /\ cache \in [Conns -> [Pages -> Values \cup {NotCached}]]
      /\ dbSize \in 0 .. MaxPages /\ MaxPages \in Nat
      /\ PageCount \in Nat /\ cache[owner][p] \in Values
  BY DatabaseFile, SqlitePagerAssumption DEF PagerType
<1>2. /\ PageCount' = IF p <= PageCount THEN PageCount ELSE p
      /\ db'.data[p] = cache[owner][p]
      /\ \A k \in 1 .. PageCount : k # p => db'.data[k] = db.data[k]
  BY <1>1, DatabasePut DEF PageCount
<1>3. /\ \A q \in Pages : q # p => cache'[owner][q] = cache[owner][q]
      /\ cache'[owner][p] \in {NotCached, cache[owner][p]}
  BY <1>1
<1>4. ASSUME NEW q \in 1 .. dbSize PROVE Read(q)' = Read(q)
  <2>1. q \in Pages /\ q \in Nat /\ q >= 1
    BY <1>1 DEF Pages
  <2>2. CASE q = p
    <3>1. p <= PageCount'
      BY <2>1, <2>2, <1>1, <1>2
    <3>2. QED
      BY <2>2, <3>1, <1>2, <1>3 DEF Read
  <2>3. CASE q # p
    <3>1. q <= PageCount' <=> q <= PageCount
      BY <2>1, <2>3, <1>1, <1>2 DEF Pages
    <3>2. q <= PageCount => db'.data[q] = db.data[q]
      BY <2>1, <2>3, <1>1, <1>2
    <3>3. QED
      BY <2>1, <2>3, <3>1, <3>2, <1>3 DEF Read
  <2>4. QED
    BY <2>2, <2>3
<1>5. QED
  BY <1>4, ImageSame

\* A spill is not seen: the page reads from the file as it did from the cache.
LEMMA SpillUnseen ==
  ASSUME PagerInv, Spill
  PROVE  Unseen
<1>1. pc = "spill" /\ pc \in Working /\ pc' = "ready"
  BY DEF Spill, Working
<1>2. Always /\ TxPhase /\ owner \in Conns
  BY <1>1, FromWorking
<1>3. state # "shared" /\ goal \in dirty /\ goal \in Pages /\ goal <= PageCount + 1
      /\ cache[owner][goal] # NotCached
  BY <1>1, <1>2 DEF Always, TxPhase, TxPlace, TxCache, PagerType, Writing
<1>4. /\ state' = "exclusive" /\ db' = Write(db, goal, cache[owner][goal], Torn)
      /\ cache' = [cache EXCEPT ![owner][goal] = NotCached]
      /\ UNCHANGED <<owner, dbSize, committed, previous>>
  BY DEF Spill, Stored, sizes, history
<1>5. Image' = Image
  BY <1>2, <1>3, <1>4, StoredSame DEF Always
<1>6. Active /\ Active'
  BY <1>1 DEF Active
<1>7. QED
  BY <1>3, <1>4, <1>5, <1>6, UnseenBusy

\* Writing the dirty pages out is not seen.
LEMMA WritePagesUnseen ==
  ASSUME PagerInv, WritePages
  PROVE  Unseen
<1>1. pc = "write" /\ pc \in Working
  BY DEF WritePages, Working
<1>2. Always /\ TxPhase /\ owner \in Conns
  BY <1>1, FromWorking
<1>3. UNCHANGED <<owner, dbSize, cache, committed, previous>>
  BY DEF WritePages, sizes, history
<1>4. state # "shared" /\ Active
  BY <1>1, <1>2 DEF TxPhase, TxPlace, Writing, Active
<1> DEFINE list == {p \in dirty : p <= dbSize}
<1>5. CASE list # {}
  <2>1. Stored(Min(list)) /\ pc' = pc
    BY <1>5 DEF WritePages
  <2>2. list \in SUBSET Nat
    <3>1. dirty \subseteq Pages
      BY <1>2 DEF Always, PagerType
    <3>2. dirty \subseteq Nat
      BY <3>1 DEF Pages
    <3>3. QED
      BY <3>2
  <2>3. Min(list) \in list /\ \A k \in list : Min(list) <= k
    BY <1>5, <2>2, LeastPage
  <2> DEFINE m == Min(list)
  <2>4. m \in dirty /\ m \in Pages /\ m <= dbSize /\ m \in Nat
        /\ cache[owner][m] # NotCached
    BY <2>2, <2>3, <1>2 DEF Always, TxPhase, PagerType, TxCache
  <2>5. m <= PageCount + 1
    <3> SUFFICES ASSUME m > PageCount + 1 PROVE FALSE
      BY <2>4, <1>2, DatabaseFile DEF Always
    <3>1. PageCount \in Nat /\ dbSize \in Nat
      BY <1>2, DatabaseFile DEF Always, PagerType
    <3> DEFINE k == PageCount + 1
    <3>2. k \in 1 .. dbSize /\ ~(k <= PageCount) /\ k < m /\ k <= dbSize
      BY <3>1, <2>4
    <3> HIDE DEF k, m
    <3>3. k \in dirty
      BY <3>2, <1>2 DEF TxPhase, TxCache
    <3>4. k \in list
      BY <3>2, <3>3
    <3>5. m <= k
      BY <3>4, <2>3 DEF m
    <3>6. QED
      BY <3>1, <3>2, <3>5, <2>4
  <2>6. state' = "exclusive" /\ db' = Write(db, m, cache[owner][m], Torn)
    BY <2>1 DEF Stored
  <2> HIDE DEF m
  <2>7. Image' = Image
    BY <2>4, <2>5, <2>6, <1>2, <1>3, StoredSame DEF Always
  <2>8. Active'
    BY <2>1, <1>1 DEF Active
  <2>9. QED
    BY <2>6, <2>7, <2>8, <1>3, <1>4, UnseenBusy
<1>6. CASE list = {}
  <2>1. pc' = "dbsync" /\ UNCHANGED <<db, state>>
    BY <1>6 DEF WritePages
  <2>2. Image' = Image
    BY <2>1, <1>3, ReadsSame
  <2>3. Active'
    BY <2>1 DEF Active
  <2>4. QED
    BY <2>1, <2>2, <2>3, <1>3, <1>4, UnseenBusy
<1>7. QED
  BY <1>5, <1>6

\* What a connection reads is a sequence of dbSize pages.
LEMMA ImageType ==
  DiskType /\ PagerType /\ owner \in Conns =>
    /\ Image \in Seq(Values) /\ Len(Image) = dbSize
    /\ \A p \in 1 .. dbSize : p \in Pages /\ Image[p] = Read(p)
    /\ dbSize \in Nat
BY ImageFile

\* The same before and after a step.
LEMMA ImageTypes ==
  ASSUME PagerInv, PagerInv', owner \in Conns, owner' = owner
  PROVE  /\ Image \in Seq(Values) /\ Len(Image) = dbSize
         /\ \A p \in 1 .. dbSize : p \in Pages /\ Image[p] = Read(p)
         /\ dbSize \in Nat
         /\ Image' \in Seq(Values) /\ Len(Image') = dbSize'
         /\ \A p \in 1 .. dbSize' : p \in Pages /\ Image'[p] = Read(p)'
         /\ dbSize' \in Nat
<1>1. (DiskType /\ PagerType /\ owner \in Conns =>
         /\ Image \in Seq(Values) /\ Len(Image) = dbSize
         /\ \A p \in 1 .. dbSize : p \in Pages /\ Image[p] = Read(p)
         /\ dbSize \in Nat)'
  BY ImageType, PTL
<1>2. DiskType /\ PagerType /\ DiskType' /\ PagerType'
  BY DEF PagerInv
<1>3. /\ Image' \in Seq(Values) /\ Len(Image') = dbSize'
      /\ \A p \in 1 .. dbSize' : p \in Pages /\ Image'[p] = Read(p)'
      /\ dbSize' \in Nat
  BY <1>1, <1>2
<1>4. QED
  BY <1>2, <1>3, ImageType

\* What a step of a transaction may do to the image.
OnePage == Len(Image') = Len(Image)
           /\ \E p \in 1 .. Len(Image) : Store!Differ(Image, Image') \subseteq {p}

\* A step that changes one page, appends one or cuts some off is a change.
LEMMA ChangeSeen ==
  ASSUME Active, Active', state # "shared", state' # "shared",
         UNCHANGED <<committed, previous>>,
         \/ OnePage
         \/ Len(Image') = Len(Image) + 1 /\ Store!IsPrefix(Image, Image')
         \/ Store!IsPrefix(Image', Image)
  PROVE  Store!Change
BY DEF Store!Change, OnePage

\* If all other pages read as before at most one page has changed.
LEMMA OnePageChanged ==
  ASSUME PagerInv, PagerInv', owner \in Conns, owner' = owner,
         dbSize' = dbSize, NEW p \in 1 .. dbSize,
         \A q \in 1 .. dbSize : q # p => Read(q)' = Read(q)
  PROVE  OnePage
<1>1. /\ Len(Image) = dbSize /\ dbSize \in Nat /\ Len(Image') = dbSize
      /\ \A q \in 1 .. dbSize : Image[q] = Read(q) /\ Image'[q] = Read(q)'
  BY ImageTypes
<1>2. p \in 1 .. Len(Image)
  BY <1>1
<1>3. Store!Differ(Image, Image') \subseteq {p}
  BY <1>1 DEF Store!Differ
<1>4. QED
  BY <1>1, <1>2, <1>3 DEF OnePage

\* Pages that keep their place in the cache, or stay out of it, read the same.
LEMMA CacheKept ==
  ASSUME UNCHANGED <<db, owner>>, NEW q, cache'[owner][q] = cache[owner][q]
  PROVE  Read(q)' = Read(q)
BY DEF Read, PageCount

\* A change of a page is one.
LEMMA ChangeRefines ==
  ASSUME PagerInv, PagerInv', NEW p \in Pages, Change(p)
  PROVE  Store!Change
<1>1. /\ pc = "ready" /\ state \in {"reserved", "exclusive"} /\ p <= dbSize + 1
      /\ cache' = [cache EXCEPT ![owner][p] = IF p = 1 THEN 0 ELSE tx]
      /\ dbSize' = IF p > dbSize THEN p ELSE dbSize
      /\ UNCHANGED <<db, owner, pc, state, committed, previous>>
  BY DEF Change, history
<1>2. owner \in Conns /\ cache \in [Conns -> [Pages -> Values \cup {NotCached}]]
  BY <1>1 DEF PagerInv, PagerType
<1>3. \A q \in Pages : q # p => Read(q)' = Read(q)
  <2>1. \A q \in Pages : q # p => cache'[owner][q] = cache[owner][q]
    BY <1>1, <1>2
  <2>2. QED
    BY <2>1, <1>1, CacheKept
<1>4. /\ Image \in Seq(Values) /\ Len(Image) = dbSize
      /\ \A q \in 1 .. dbSize : q \in Pages /\ Image[q] = Read(q)
      /\ dbSize \in Nat
      /\ Image' \in Seq(Values) /\ Len(Image') = dbSize'
      /\ \A q \in 1 .. dbSize' : q \in Pages /\ Image'[q] = Read(q)'
  BY <1>1, <1>2, ImageTypes
<1>5. Active /\ Active' /\ state # "shared" /\ state' # "shared"
  BY <1>1 DEF Active
<1>6. p \in Nat /\ p >= 1
  BY DEF Pages
<1>7. CASE p <= dbSize
  <2>1. dbSize' = dbSize /\ p \in 1 .. dbSize
    BY <1>1, <1>4, <1>6, <1>7
  <2>2. OnePage
    BY <2>1, <1>1, <1>2, <1>3, <1>4, OnePageChanged
  <2>3. QED
    BY <2>2, <1>1, <1>5, ChangeSeen
<1>8. CASE ~(p <= dbSize)
  <2>1. p = dbSize + 1 /\ dbSize' = dbSize + 1
    BY <1>1, <1>4, <1>6, <1>8
  <2>2. \A q \in 1 .. dbSize : q \in 1 .. dbSize' /\ q # p
    BY <2>1, <1>4
  <2>3. \A q \in 1 .. dbSize : Image[q] = Image'[q]
    BY <2>2, <1>3, <1>4
  <2>4. Prefix(Image, Image')
    BY <2>1, <2>3, <1>4 DEF Prefix
  <2>5. Store!IsPrefix(Image, Image')
    BY <2>4, <1>4, PrefixIs
  <2>6. Len(Image') = Len(Image) + 1
    BY <2>1, <1>4
  <2>7. QED
    BY <2>5, <2>6, <1>1, <1>5, ChangeSeen
<1>9. QED
  BY <1>7, <1>8

\* The increment of the change counter is a change of page 1.
LEMMA IncrRefines ==
  ASSUME PagerInv, PagerInv', IncrChangeCounter
  PROVE  Store!Change
<1>1. pc = "count" /\ pc \in Working /\ pc' = "discard"
  BY DEF IncrChangeCounter, Working
<1>2. Always /\ TxPhase /\ owner \in Conns
  BY <1>1, FromWorking
<1>3. UNCHANGED <<db, owner, state, dbSize, committed, previous>>
  BY DEF IncrChangeCounter, sizes, history
<1>4. \A q \in Pages : q # 1 => Read(q)' = Read(q)
  <2>1. PICK v : cache' = [cache EXCEPT ![owner][1] = v]
    BY DEF IncrChangeCounter
  <2>2. cache \in [Conns -> [Pages -> Values \cup {NotCached}]]
    BY <1>2 DEF Always, PagerType
  <2>3. \A q \in Pages : q # 1 => cache'[owner][q] = cache[owner][q]
    BY <2>1, <2>2, <1>2
  <2>4. QED
    BY <2>3, <1>3, CacheKept
<1>5. dbSize >= 1 /\ state # "shared"
  BY <1>1, <1>2 DEF TxPhase, TxPlace, Writing
<1>6. dbSize \in Nat /\ \A q \in 1 .. dbSize : q \in Pages
  BY <1>2, <1>3, ImageTypes
<1>7. OnePage
  <2>1. 1 \in 1 .. dbSize /\ \A q \in 1 .. dbSize : q # 1 => Read(q)' = Read(q)
    BY <1>4, <1>5, <1>6
  <2>2. QED
    BY <2>1, <1>2, <1>3, OnePageChanged
<1>8. Active /\ Active'
  BY <1>1 DEF Active
<1>9. QED
  BY <1>3, <1>5, <1>7, <1>8, ChangeSeen

\* A commit that shrinks the database is a change to a shorter one.
LEMMA CommitPhaseOneRefines ==
  ASSUME PagerInv, PagerInv', NEW n \in {0, 1}, CommitPhaseOne(n)
  PROVE  Store!Change
<1>1. /\ pc = "ready" /\ state \in {"reserved", "exclusive"} /\ n < dbSize
      /\ dbSize' = dbSize - n /\ pc' = "count"
      /\ UNCHANGED <<db, cache, owner, state, committed, previous>>
  BY DEF CommitPhaseOne, history, files, caches
<1>2. owner \in Conns
  BY <1>1 DEF PagerInv, PagerType
<1>3. /\ Image \in Seq(Values) /\ Len(Image) = dbSize
      /\ \A q \in 1 .. dbSize : q \in Pages /\ Image[q] = Read(q)
      /\ dbSize \in Nat
      /\ Image' \in Seq(Values) /\ Len(Image') = dbSize'
      /\ \A q \in 1 .. dbSize' : q \in Pages /\ Image'[q] = Read(q)'
      /\ dbSize' \in Nat
  BY <1>1, <1>2, ImageTypes
<1>4. \A q : Read(q)' = Read(q)
  BY <1>1, CacheKept
<1>5. dbSize' <= dbSize /\ \A q \in 1 .. dbSize' : q \in 1 .. dbSize
  BY <1>1, <1>3
<1>6. Prefix(Image', Image)
  BY <1>3, <1>4, <1>5 DEF Prefix
<1>7. Store!IsPrefix(Image', Image)
  BY <1>3, <1>6, PrefixIs
<1>8. Active /\ Active' /\ state # "shared" /\ state' # "shared"
  BY <1>1 DEF Active
<1>9. QED
  BY <1>1, <1>7, <1>8, ChangeSeen

\* pager_begin begins the store's transaction.
LEMMA BeginRefines ==
  ASSUME Begin
  PROVE  Store!Begin
<1>1. /\ pc = "ready" /\ pc' = "ready" /\ state' = "reserved"
      /\ UNCHANGED <<db, owner, dbSize, cache, committed, previous>>
  BY DEF Begin, caches, history
<1>2. Image' = Image
  BY <1>1, ReadsSame
<1>3. Active /\ Active'
  BY <1>1 DEF Active
<1>4. QED
  BY <1>1, <1>2, <1>3 DEF Store!Begin

\* pager_unlock leaves the store.
LEMMA LeaveRefines ==
  ASSUME pager_unlock
  PROVE  Store!Leave
BY DEF pager_unlock, Unlocked, history, Active, Store!Leave

\* Zeroing the header commits what the connection reads.
LEMMA CommitRefines ==
  ASSUME PagerInv, CommitPhaseTwo
  PROVE  Store!Commit
<1>1. /\ pc' = "zsync" /\ committed' = Image /\ previous' = committed
      /\ pc \in {"finish", "ready"}
      /\ pc = "ready" => state # "shared"
  BY DEF CommitPhaseTwo, ZeroHeader
<1>2. state # "shared"
  BY <1>1 DEF PagerInv, Shared
<1>3. Active /\ ~Active'
  BY <1>1 DEF Active
<1>4. QED
  BY <1>1, <1>2, <1>3 DEF Store!Commit

\* The sync of the zeroed header settles the commit.
LEMMA SettleRefines ==
  ASSUME SyncZero
  PROVE  Store!Settle
BY DEF SyncZero, Active, Store!Settle

\* A transaction ends without a commit.
LEMMA RollbackSeen ==
  ASSUME Active, ~Active', state # "shared", UNCHANGED <<committed, previous>>
  PROVE  Store!Rollback
BY DEF Store!Rollback

\* A rollback, asked for or after an error, gives the changes up.
LEMMA RollbackRefines ==
  ASSUME PagerInv, Rollback \/ CommitFails \/ SpillFails
  PROVE  Store!Rollback
<1>1. Active /\ UNCHANGED <<committed, previous>>
  BY DEF Rollback, CommitFails, SpillFails, GivesUp, Active, history
<1>2. pc' \in {"header", "zsync", "idle"}
  BY DEF Rollback, CommitFails, SpillFails, GivesUp, Unlocked, BeginPlayback,
         ZeroHeader
<1>3. state # "shared"
  BY DEF Rollback, CommitFails, SpillFails, PagerInv, Shared
<1>4. ~Active'
  BY <1>2 DEF Active
<1>5. QED
  BY <1>1, <1>3, <1>4, RollbackSeen

\* A power failure loses the lock, and the last commit unless it is settled.
LEMMA PowerRefines ==
  ASSUME PowerFailure
  PROVE  Store!PowerFailure
<1>1. pc' = "idle" /\ previous' = committed' /\ committed' \in {committed, previous}
  BY DEF PowerFailure, Unlocked
<1>2. ~Active'
  BY <1>1 DEF Active
<1>3. QED
  BY <1>1, <1>2 DEF Store!PowerFailure

\* The steps of a connection that is not at work.
LEMMA OutsideUnseen ==
  ASSUME PagerInv,
         \/ \E c \in Conns : SharedLock(c)
         \/ PlayHeader \/ PlayRecord \/ EndSection \/ EndPlayback
         \/ PlaybackFails \/ (EndTransaction /\ (errCode \/ isHot))
  PROVE  Unseen
<1>1. ~Active
  <2>1. owner = None => pc = "idle"
    BY DEF PagerInv
  <2>2. QED
    BY <2>1 DEF SharedLock, PlayHeader, PlayRecord, EndSection, EndPlayback,
                PlaybackFails, EndTransaction, Active
<1>2. UNCHANGED <<committed, previous>>
  BY DEF SharedLock, PlayHeader, PlayRecord, EndSection, EndPlayback,
         PlaybackFails, EndTransaction, GivesUp, history
<1>3. pc' \in {"header", "check", "record", "endplay", "zsync", "end", "idle"}
  BY DEF SharedLock, PlayHeader, PlayRecord, EndSection, EndPlayback,
         PlaybackFails, EndTransaction, GivesUp, Unlocked, ZeroHeader
<1>4. ~Active'
  BY <1>3 DEF Active
<1>5. QED
  BY <1>1, <1>2, <1>4, UnseenIdle

\* A connection that comes to read, by a new lock or after its transaction,
\* reads an image that begins with the committed one.
LEMMA LookRefines ==
  ASSUME PagerInv, PagerInv', CheckVersion \/ (EndTransaction /\ ~errCode /\ ~isHot)
  PROVE  Store!Look
<1>1. pc \in {"check", "end"} /\ pc \notin Working
  BY DEF CheckVersion, EndTransaction, Working
<1>2. pc' = "ready" /\ UNCHANGED <<committed, previous>>
  BY DEF CheckVersion, EndTransaction, history
<1>3. state' = "shared"
  BY DEF CheckVersion, EndTransaction, PagerInv
<1>4. QED
  BY <1>1, <1>2, <1>3, LookStep

\* Every step of the pager is a step of the store or a stutter.
LEMMA NextRefines ==
  ASSUME PagerInv, PagerInv', [Next]_vars
  PROVE  [Store!Next]_Store!vars
<1>1. CASE UNCHANGED vars
  BY <1>1 DEF vars, files, caches, sizes, history, Store!vars, Active, Image, Read,
              PageCount
<1>2. ASSUME Unseen PROVE [Store!Next]_Store!vars
  BY <1>2, UnseenStep
<1>3. ASSUME NEW p \in Pages, Change(p) PROVE Store!Next
  BY <1>3, ChangeRefines DEF Store!Next
<1>4. ASSUME NEW n \in {0, 1}, CommitPhaseOne(n) PROVE Store!Next
  BY <1>4, CommitPhaseOneRefines DEF Store!Next
<1>5. CASE IncrChangeCounter
  BY <1>5, IncrRefines DEF Store!Next
<1>6. CASE Begin
  BY <1>6, BeginRefines DEF Store!Next
<1>7. CASE pager_unlock
  BY <1>7, LeaveRefines DEF Store!Next
<1>8. CASE CommitPhaseTwo
  BY <1>8, CommitRefines DEF Store!Next
<1>9. CASE SyncZero
  BY <1>9, SettleRefines DEF Store!Next
<1>10. CASE Rollback \/ CommitFails \/ SpillFails
  BY <1>10, RollbackRefines DEF Store!Next
<1>11. CASE PowerFailure
  BY <1>11, PowerRefines DEF Store!Next
<1>12. CASE CheckVersion \/ (EndTransaction /\ ~errCode /\ ~isHot)
  BY <1>12, LookRefines DEF Store!Next
<1>13. CASE \/ \E c \in Conns : SharedLock(c)
            \/ PlayHeader \/ PlayRecord \/ EndSection \/ EndPlayback
            \/ PlaybackFails \/ (EndTransaction /\ (errCode \/ isHot))
  BY <1>2, <1>13, OutsideUnseen
<1>14. CASE \/ InvalidateNext \/ SyncRecords \/ WriteNRec \/ SyncNRec \/ NewHeader
            \/ SyncDb \/ \E p \in Pages : pagerStress(p)
  BY <1>2, <1>14, JournalStepUnseen
<1>15. ASSUME NEW p \in Pages, Acquire(p) PROVE [Store!Next]_Store!vars
  BY <1>2, <1>15, AcquireUnseen
<1>16. CASE JournalDiscarded
  BY <1>2, <1>16, JournalDiscardedUnseen
<1>17. CASE Spill
  BY <1>2, <1>17, SpillUnseen
<1>18. CASE WritePages
  BY <1>2, <1>18, WritePagesUnseen
<1>19. QED
  BY <1>1, <1>3, <1>4, <1>5, <1>6, <1>7, <1>8, <1>9, <1>10, <1>11, <1>12, <1>13,
     <1>14, <1>15, <1>16, <1>17, <1>18 DEF Next

\* The pager "implements atomic commit and rollback through the use of a
\* journal file" (pager.c, lines 14-16): what a connection reads is what was
\* committed last, a transaction takes effect as a whole or not at all, and
\* once its journal is finalised on the disk no power failure undoes it.
THEOREM PagerImplementsStore ==
  ASSUME FullSync, Windows = {}
  PROVE  Spec => ImplementsStore
<1>1. Init => Store!Init
  BY DEF Init, Active, Store!Init
<1>2. PagerInv /\ PagerInv' /\ [Next]_vars => [Store!Next]_Store!vars
  BY NextRefines
<1>3. Spec => []PagerInv
  BY PagerInvariant
<1>4. QED
  BY <1>1, <1>2, <1>3, PTL DEF Spec, ImplementsStore, Store!Spec

=============================================================================
