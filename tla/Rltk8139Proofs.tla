---------------------------- MODULE Rltk8139Proofs ----------------------------
(***************************************************************************)
(* Proofs about Rltk8139: the two rings that driver and chip share stay in *)
(* step, for any number of packets and transmit descriptors and any length *)
(* of the receive ring.                                                    *)
(***************************************************************************)
EXTENDS Rltk8139, SequenceTheorems, TLAPS

\* The receive ring: every frame begins where the one before it ends, and the
\* chip writes where the last one ends.
End4(f) == (f.at + Aligned(f.len + 4)) % RX_BUF_LEN
Places  == 0 .. RX_BUF_LEN - 1
Frames  == [at : Places, len : Lengths]

RxInv ==
  /\ rx \in Seq(Frames)
  /\ capr \in Nat
  /\ cbr \in Places /\ cbr % 4 = 0
  /\ (capr + 16) % RX_BUF_LEN = IF rx = <<>> THEN cbr ELSE rx[1].at
  /\ \A i \in 1 .. Len(rx) :
       /\ rx[i].at % 4 = 0
       /\ End4(rx[i]) = IF i = Len(rx) THEN cbr ELSE rx[i + 1].at
  /\ dpc = "rx" => rx_pos = (capr + 16) % RX_BUF_LEN

-----------------------------------------------------------------------------
\* The transmit ring: Used descriptors are with the driver, the oldest first.
Used    == NUM_TX_DESC - tx_num_free_desc
Slot(j) == (tx_free_desc - Used + j) % NUM_TX_DESC

TxTypes ==
  /\ tx_free_desc \in Desc
  /\ tx_num_free_desc \in 0 .. NUM_TX_DESC
  /\ tx_desc_key \in [Desc -> Keys \cup {NoKey}]
  /\ tsd \in [Desc -> {"own", "own_host", "TOK", "TABT"}]
  /\ pkt \in [Desc -> Keys \cup {NoKey}]
  /\ state \in [Keys -> {"free", "busy", "sent", "lost"}]
  /\ spc \in {"out", "fill", "start"}

\* The packet of the descriptor at place j, also while rltk8139_send has not
\* yet written its key; the oldest has none between tx_done and its release.
KeyOf(j) == IF j = Used - 1 /\ spc # "out" THEN skey ELSE tx_desc_key[Slot(j)]
Held     == {j \in 0 .. Used - 1 : j = 0 => dpc # "free"}

\* The chip has sent the first s descriptors.
RingRight(s) ==
  /\ s \in 0 .. Used
  /\ next_desc = Slot(s)
  /\ \A j \in Held :
       /\ KeyOf(j) \in Keys
       /\ state[KeyOf(j)] = IF j < s THEN "sent" ELSE "busy"
       /\ \A i \in Held : i # j => KeyOf(i) # KeyOf(j)
  /\ \A j \in s .. Used - 1 :
       spc = "out" \/ j < Used - 1 =>
         tsd[Slot(j)] = "own" /\ pkt[Slot(j)] = tx_desc_key[Slot(j)]
  /\ \A d \in Desc : tsd[d] = "own" =>
       \E j \in s .. Used - 1 : d = Slot(j) /\ (spc = "out" \/ j < Used - 1)
  /\ spc # "out" => s < Used
  /\ dpc \in {"done", "free"} => s > 0

TxInv ==
  /\ TxTypes
  /\ spc # "out" => dpc = "out" /\ Used > 0 /\ sdesc = Slot(Used - 1)
  /\ spc = "start" => tx_desc_key[sdesc] = skey
  /\ dpc \in {"tsd", "done", "free"} => Used > 0 /\ ddesc = Slot(0)
  /\ \E s \in 0 .. NUM_TX_DESC : RingRight(s)

-----------------------------------------------------------------------------
(* Remainders.                                                             *)

LEMMA Division ==
  ASSUME NEW a \in Int, NEW n \in Nat, n > 0
  PROVE  /\ a \div n \in Int /\ a % n \in 0 .. n - 1
         /\ a = n * (a \div n) + (a % n)
OBVIOUS

LEMMA Multiples ==
  ASSUME NEW n \in Nat, n > 0, NEW k \in Int, k >= 1
  PROVE  n * k >= n
OBVIOUS

LEMMA RemainderUnique ==
  ASSUME NEW n \in Nat, n > 0, NEW q \in Int, NEW p \in Int,
         NEW r \in 0 .. n - 1, NEW s \in 0 .. n - 1, n * q + r = n * p + s
  PROVE  r = s
<1>1. n * (q - p) = s - r /\ n * (p - q) = r - s
  OBVIOUS
<1>2. CASE q - p >= 1
  BY <1>1, <1>2, Multiples
<1>3. CASE p - q >= 1
  BY <1>1, <1>3, Multiples
<1>4. QED
  BY <1>1, <1>2, <1>3

LEMMA RemainderIs ==
  ASSUME NEW n \in Nat, n > 0, NEW q \in Int, NEW r \in 0 .. n - 1,
         NEW a \in Int, a = n * q + r
  PROVE  a % n = r
<1>1. PICK p \in Int, s \in 0 .. n - 1 : s = a % n /\ a = n * p + s
  BY Division
<1>2. n * q + r = n * p + s
  BY <1>1
<1>3. r = s
  BY <1>2, RemainderUnique
<1>4. QED
  BY <1>1, <1>3

LEMMA RemainderSmall ==
  ASSUME NEW n \in Nat, n > 0, NEW r \in 0 .. n - 1
  PROVE  r % n = r
<1>1. r = n * 0 + r /\ r \in Int
  OBVIOUS
<1>2. QED
  BY <1>1, RemainderIs

LEMMA RemainderOfSum ==
  ASSUME NEW n \in Nat, n > 0, NEW a \in Int, NEW b \in Int
  PROVE  ((a % n) + b) % n = (a + b) % n
<1>1. PICK p \in Int, s \in 0 .. n - 1 : s = a % n /\ a = n * p + s
  BY Division
<1>2. PICK c \in Int : c = s + b
  OBVIOUS
<1>3. PICK q \in Int, r \in 0 .. n - 1 : r = c % n /\ c = n * q + r
  BY Division
<1>4. PICK d \in Int, m \in Int : d = a + b /\ m = p + q
  OBVIOUS
<1>5. d = n * m + r
  BY <1>1, <1>2, <1>3, <1>4
<1>6. d % n = r
  BY <1>5, RemainderIs
<1>7. QED
  BY <1>1, <1>2, <1>3, <1>4, <1>6

LEMMA RemainderInjective ==
  ASSUME NEW n \in Nat, n > 0, NEW a \in Int, NEW b \in Int,
         a % n = b % n, a - b < n, b - a < n
  PROVE  a = b
<1>1. PICK p \in Int, s \in 0 .. n - 1 : s = a % n /\ a = n * p + s
  BY Division
<1>2. PICK q \in Int : b = n * q + s
  BY <1>1, Division
<1>3. n * (p - q) = a - b /\ n * (q - p) = b - a
  BY <1>1, <1>2
<1>4. CASE p - q >= 1
  BY <1>3, <1>4, Multiples
<1>5. CASE q - p >= 1
  BY <1>3, <1>5, Multiples
<1>6. QED
  BY <1>1, <1>2, <1>4, <1>5

-----------------------------------------------------------------------------
(* Places in the receive ring.                                             *)

LEMMA AlignedRight ==
  ASSUME NEW n \in Nat
  PROVE  /\ Aligned(n) \in Nat /\ Aligned(n) % 4 = 0
         /\ \A a \in Nat : a % 4 = 0 => Aligned(a + n) = a + Aligned(n)
BY DEF Aligned

LEMMA RingLength ==
  /\ RX_BUF_LEN \in Nat /\ RX_BUF_LEN > 0 /\ RX_BUF_LEN >= 16
  /\ RX_BUF_LEN <= 65536
  /\ \E q \in Int : 65536 = RX_BUF_LEN * q
  /\ \E m \in Nat : RX_BUF_LEN = 4 * m
<1>1. /\ RX_BUF_LEN \in Nat /\ RX_BUF_LEN > 0 /\ RX_BUF_LEN >= 16
      /\ 65536 % RX_BUF_LEN = 0 /\ RX_BUF_LEN % 4 = 0
  BY Rltk8139Assumption
<1>2. PICK c \in Nat : c = 65536
  OBVIOUS
<1>3. RX_BUF_LEN <= 65536
  <2>1. SUFFICES ASSUME RX_BUF_LEN > c PROVE FALSE
    BY <1>1, <1>2
  <2>2. c % RX_BUF_LEN = c
    BY <1>1, <2>1, RemainderSmall
  <2>3. QED
    BY <1>1, <1>2, <2>2
<1>4. \E q \in Int : 65536 = RX_BUF_LEN * q
  <2>1. c = RX_BUF_LEN * (c \div RX_BUF_LEN) + (c % RX_BUF_LEN)
        /\ c \div RX_BUF_LEN \in Int
    BY <1>1, Division
  <2>2. QED
    BY <1>1, <1>2, <2>1
<1>5. \E m \in Nat : RX_BUF_LEN = 4 * m
  BY <1>1
<1>6. QED
  BY <1>1, <1>3, <1>4, <1>5

LEMMA PlaceAligned ==
  ASSUME NEW a \in Nat, a % 4 = 0
  PROVE  a % RX_BUF_LEN \in Places /\ (a % RX_BUF_LEN) % 4 = 0
<1>1. PICK q \in Int, r \in 0 .. RX_BUF_LEN - 1 :
        r = a % RX_BUF_LEN /\ a = RX_BUF_LEN * q + r
  BY Division, RingLength
<1>2. PICK m \in Nat : RX_BUF_LEN = 4 * m
  BY RingLength
<1>3. PICK t \in Int : t = m * q
  OBVIOUS
<1>4. a = 4 * t + r
  BY <1>1, <1>2, <1>3
<1>5. r % 4 = 0 /\ r \in Places
  BY <1>4, RingLength DEF Places
<1>6. QED
  BY <1>1, <1>5

LEMMA End4Right ==
  ASSUME NEW p \in Places, p % 4 = 0, NEW l \in Lengths
  PROVE  /\ (p + Aligned(l + 4)) % RX_BUF_LEN \in Places
         /\ ((p + Aligned(l + 4)) % RX_BUF_LEN) % 4 = 0
<1>1. PICK n \in Nat : n = Aligned(l + 4) /\ n % 4 = 0
  BY AlignedRight, Rltk8139Assumption
<1>2. p + n \in Nat /\ (p + n) % 4 = 0
  BY <1>1, RingLength DEF Places
<1>3. QED
  BY <1>1, <1>2, PlaceAligned

LEMMA NextPosRight ==
  ASSUME rx_pos \in Places, rx_pos % 4 = 0, NEW l \in Lengths
  PROVE  NextPos(l) = (rx_pos + Aligned(l + 4)) % RX_BUF_LEN
<1>1. rx_pos \in Nat /\ l \in Nat /\ l + 4 \in Nat
  BY RingLength, Rltk8139Assumption DEF Places
<1>2. rx_pos + (l - 4) + 8 = rx_pos + (l + 4)
  BY <1>1
<1>3. QED
  BY <1>1, <1>2, AlignedRight DEF NextPos

\* Through the register and back.
LEMMA CaprRight ==
  ASSUME NEW p \in Places
  PROVE  Capr(p) \in Nat /\ (Capr(p) + 16) % RX_BUF_LEN = p
<1> DEFINE n == RX_BUF_LEN
<1>0. n \in Nat /\ n > 0 /\ n >= 16 /\ n <= 65536 /\ p \in 0 .. n - 1
  BY RingLength DEF Places
<1>1. PICK q \in Int : 65536 = n * q
  BY RingLength
<1> HIDE DEF n
<1>2. CASE p >= 16
  <2>1. PICK c \in 0 .. n - 1 : c = p - 16
    BY <1>0, <1>2
  <2>2. c % n = c
    BY <1>0, RemainderSmall
  <2>3. c % 65536 = c
    BY <1>0, <2>1
  <2>4. Capr(p) = c
    BY <1>0, <1>2, <2>1, <2>2, <2>3 DEF Capr, Remainder, n
  <2>5. QED
    BY <1>0, <2>1, <2>4, RemainderSmall DEF n
<1>3. CASE p < 16 /\ 16 - p < n
  <2>1. PICK c \in 0 .. n - 1 : c = 16 - p
    BY <1>0, <1>3
  <2>2. c % n = c
    BY <1>0, RemainderSmall
  <2>3. (-c) % 65536 = 65536 - c
    BY <1>0, <1>3, <2>1
  <2>4. p - 16 < 0 /\ -(p - 16) = c
    BY <1>0, <1>3, <2>1
  <2>5. Capr(p) = 65536 - c
    BY <1>0, <2>2, <2>3, <2>4 DEF Capr, Remainder, n
  <2>6. PICK a \in Int : a = Capr(p) + 16
    BY <1>0, <2>1, <2>5
  <2>7. a = n * q + p
    BY <1>0, <1>1, <2>1, <2>5, <2>6
  <2>8. a % n = p
    BY <1>0, <2>7, RemainderIs
  <2>9. QED
    BY <1>0, <2>1, <2>5, <2>6, <2>8 DEF n
<1>4. CASE p < 16 /\ 16 - p >= n
  <2>1. p = 0 /\ n = 16
    BY <1>0, <1>4
  <2>2. QED
    BY <2>1 DEF Capr, Remainder, n
<1>5. QED
  BY <1>0, <1>2, <1>3, <1>4

-----------------------------------------------------------------------------
(* The receive ring.                                                       *)

LEMMA RxAtFirst == Init => RxInv
<1> SUFFICES ASSUME Init PROVE RxInv
  OBVIOUS
<1>1. 65536 % RX_BUF_LEN = 0
  BY Rltk8139Assumption
<1>2. 0 \in Places
  BY RingLength DEF Places
<1>3. QED
  BY <1>1, <1>2 DEF Init, RxInv

\* A step that neither fills nor empties the ring.
LEMMA RxStays ==
  ASSUME RxInv, UNCHANGED <<rx, cbr, capr>>,
         dpc' = "rx" => dpc = "rx" /\ rx_pos' = rx_pos
  PROVE  RxInv'
BY DEF RxInv, End4

LEMMA RxReset ==
  ASSUME RxInv, rltk8139_reset, dpc' = "out"
  PROVE  RxInv'
<1>1. rx' = <<>> /\ cbr' = 0 /\ capr' = 65536 - 16
  BY DEF rltk8139_reset
<1>2. 65536 % RX_BUF_LEN = 0
  BY Rltk8139Assumption
<1>3. 0 \in Places
  BY RingLength DEF Places
<1>4. QED
  BY <1>1, <1>2, <1>3 DEF RxInv

LEMMA ReceiveRx ==
  ASSUME RxInv, NEW l \in Lengths, Receive(l)
  PROVE  RxInv'
<1> DEFINE f == [at |-> cbr, len |-> l]
<1>1. /\ rx' = Append(rx, f) /\ cbr' = (cbr + Aligned(l + 4)) % RX_BUF_LEN
      /\ UNCHANGED <<capr, dpc, rx_pos>>
  BY DEF Receive, network
<1>2. f \in Frames /\ f.at = cbr /\ f.len = l /\ rx \in Seq(Frames)
  BY DEF RxInv, Frames
<1>3. cbr' = End4(f)
  BY <1>1 DEF End4
<1> HIDE DEF f
<1>4. /\ rx' \in Seq(Frames) /\ Len(rx') = Len(rx) + 1 /\ Len(rx) \in Nat
      /\ rx'[Len(rx) + 1] = f /\ \A i \in 1 .. Len(rx) : rx'[i] = rx[i]
  BY <1>1, <1>2, AppendProperties
<1>5. cbr' \in Places /\ cbr' % 4 = 0
  BY <1>1, End4Right DEF RxInv
<1>6. rx' # <<>> /\ (capr' + 16) % RX_BUF_LEN = rx'[1].at
  <2>1. CASE rx = <<>>
    BY <1>1, <1>2, <1>4, <2>1 DEF RxInv
  <2>2. CASE rx # <<>>
    BY <1>1, <1>2, <1>4, <2>2 DEF RxInv
  <2>3. QED
    BY <2>1, <2>2
<1>7. ASSUME NEW i \in 1 .. Len(rx')
      PROVE  /\ rx'[i].at % 4 = 0
             /\ End4(rx'[i]) = IF i = Len(rx') THEN cbr' ELSE rx'[i + 1].at
  <2>1. CASE i = Len(rx')
    BY <1>2, <1>3, <1>4, <2>1 DEF RxInv
  <2>2. CASE i = Len(rx) /\ i # Len(rx')
    BY <1>2, <1>4, <2>2 DEF RxInv
  <2>3. CASE i \in 1 .. Len(rx) /\ i # Len(rx)
    BY <1>4, <2>3 DEF RxInv
  <2>4. QED
    BY <1>4, <2>1, <2>2, <2>3
<1>8. QED
  BY <1>1, <1>4, <1>5, <1>6, <1>7 DEF RxInv, End4

LEMMA RxFrameRx ==
  ASSUME RxInv, RxFrame
  PROVE  RxInv'
<1>1. CASE rx = <<>> /\ dpc' = "end" /\ UNCHANGED <<rx, cbr, capr>>
  BY <1>1, RxStays
<1>2. CASE /\ rx # <<>> /\ dpc = "rx" /\ dpc' = dpc /\ cbr' = cbr
           /\ rx_pos' = NextPos(Head(rx).len)
           /\ capr' = Capr(NextPos(Head(rx).len)) /\ rx' = Tail(rx)
  <2>1. PICK f \in Frames : f = rx[1]
    BY <1>2 DEF RxInv
  <2>2. /\ Head(rx) = f /\ rx' \in Seq(Frames) /\ Len(rx) \in Nat /\ Len(rx) > 0
        /\ Len(rx') = Len(rx) - 1 /\ \A i \in 1 .. Len(rx') : rx'[i] = rx[i + 1]
    BY <1>2, <2>1, HeadTailProperties, LenProperties DEF RxInv
  <2>3. f.at = rx_pos /\ f.at \in Places /\ f.at % 4 = 0 /\ f.len \in Lengths
    <3>1. f.at \in Places /\ f.len \in Lengths
      BY DEF Frames
    <3>2. f.at = rx_pos
      BY <1>2, <2>1 DEF RxInv
    <3>3. 1 \in 1 .. Len(rx)
      BY <2>2
    <3>4. rx[1].at % 4 = 0
      BY <3>3 DEF RxInv
    <3>5. QED
      BY <2>1, <3>1, <3>2, <3>4
  <2>4. PICK p \in Places : p = NextPos(f.len) /\ p = End4(f)
    BY <2>3, NextPosRight, End4Right DEF End4
  <2>5. capr' \in Nat /\ (capr' + 16) % RX_BUF_LEN = p /\ rx_pos' = p
    BY <1>2, <2>2, <2>4, CaprRight
  <2>6. p = IF Len(rx) = 1 THEN cbr ELSE rx[2].at
    BY <2>1, <2>2, <2>4 DEF RxInv
  <2>7. p = IF rx' = <<>> THEN cbr' ELSE rx'[1].at
    <3>1. CASE Len(rx) = 1
      BY <1>2, <2>2, <2>6, <3>1
    <3>2. CASE Len(rx) # 1
      <4>1. rx'[1] = rx[2] /\ rx' # <<>>
        BY <2>2, <3>2
      <4>2. QED
        BY <2>6, <3>2, <4>1
    <3>3. QED
      BY <3>1, <3>2
  <2>8. ASSUME NEW i \in 1 .. Len(rx')
        PROVE  /\ rx'[i].at % 4 = 0
               /\ End4(rx'[i]) = IF i = Len(rx') THEN cbr' ELSE rx'[i + 1].at
    <3>1. PICK j \in 1 .. Len(rx) : j = i + 1
      BY <2>2
    <3>2. /\ rx[j].at % 4 = 0
          /\ End4(rx[j]) = IF j = Len(rx) THEN cbr ELSE rx[j + 1].at
      BY DEF RxInv
    <3>3. rx'[i] = rx[j] /\ (i = Len(rx') <=> j = Len(rx))
      BY <2>2, <3>1
    <3>4. i # Len(rx') => rx'[i + 1] = rx[j + 1]
      BY <2>2, <3>1
    <3>5. QED
      BY <1>2, <3>2, <3>3, <3>4
  <2>9. QED
    BY <1>2, <2>2, <2>5, <2>7, <2>8 DEF RxInv, End4
<1>3. QED
  BY <1>1, <1>2 DEF RxFrame, Goto

LEMMA RxStep == RxInv /\ [Next]_vars => RxInv'
<1> SUFFICES ASSUME RxInv, [Next]_vars PROVE RxInv'
  OBVIOUS
<1>1. CASE UNCHANGED vars
  BY <1>1, RxStays DEF vars, rxChip, network
<1>2. CASE \E k \in Keys : Reserve(k)
  BY <1>2, RxStays DEF Reserve, rxChip, network
<1>3. CASE SendRest
  BY <1>3, RxStays DEF SendRest, FillBuffer, StartChip, rxChip, network
<1>4. CASE Transmit
  BY <1>4, RxStays DEF Transmit, rxChip, network
<1>5. CASE \E l \in Lengths : Receive(l)
  BY <1>5, ReceiveRx
<1>6. CASE Error
  BY <1>6, RxStays DEF Error, rxChip, network
<1>7. CASE rltk8139_isr
  BY <1>7, RxStays DEF rltk8139_isr, rxChip, network
<1>8. CASE Begin \/ ReadStatus
  BY <1>8, RxStays DEF Begin, ReadStatus, rxChip, Goto
<1>9. CASE Acknowledge
  <2>1. CASE rltk8139_reset /\ Return
    BY <2>1, RxReset DEF Return, Goto
  <2>2. CASE /\ Goto(IF "IR_TX" \in status THEN "tx" ELSE "begin_rx")
             /\ UNCHANGED rxChip
    BY <2>2, RxStays DEF Goto, rxChip
  <2>3. QED
    BY <1>9, <2>1, <2>2 DEF Acknowledge
<1>10. CASE PickDescriptor \/ ReadTsd \/ TxDone \/ FreeDescriptor
  <2>1. UNCHANGED rxChip /\ dpc' # "rx"
    BY <1>10 DEF PickDescriptor, ReadTsd, TxDone, FreeDescriptor, Goto
  <2>2. QED
    BY <2>1, RxStays DEF rxChip
<1>11. CASE BeginRx
  <2>1. UNCHANGED <<rx, cbr, capr>>
        /\ (dpc' = "rx" => rx_pos' = (capr + 16) % RX_BUF_LEN)
    BY <1>11 DEF BeginRx, rxChip, Goto
  <2>2. QED
    BY <2>1 DEF RxInv, End4
<1>12. CASE RxFrame
  BY <1>12, RxFrameRx
<1>13. CASE End
  <2>1. CASE rltk8139_reset /\ Return
    BY <2>1, RxReset DEF Return, Goto
  <2>2. CASE UNCHANGED rxChip /\ Return
    BY <2>2, RxStays DEF Return, Goto, rxChip
  <2>3. QED
    BY <1>13, <2>1, <2>2 DEF End
<1>14. QED
  BY <1>1, <1>2, <1>3, <1>4, <1>5, <1>6, <1>7, <1>8, <1>9, <1>10, <1>11, <1>12,
     <1>13 DEF Next, Deliver

\* Driver and chip agree on where the next frame is, for any length of the
\* ring that divides the range of CAPR, any lengths of frames, however the
\* chip's writes and the driver's reads interleave and through resets.
THEOREM RxStaysInStep == Spec => []RxInStep
<1>1. RxInv => RxInStep
  <2> SUFFICES ASSUME RxInv, rx # <<>>
               PROVE  Head(rx).at =
                        IF dpc = "rx" THEN rx_pos ELSE (capr + 16) % RX_BUF_LEN
    BY DEF RxInStep
  <2>1. Head(rx) = rx[1]
    BY HeadTailProperties DEF RxInv
  <2>2. QED
    BY <2>1 DEF RxInv
<1>2. QED
  BY <1>1, RxAtFirst, RxStep, PTL DEF Spec

-----------------------------------------------------------------------------
(* Places in the transmit ring.                                            *)

LEMMA SlotsRight ==
  ASSUME TxTypes
  PROVE  /\ Used \in 0 .. NUM_TX_DESC /\ NUM_TX_DESC \in Nat /\ NUM_TX_DESC > 0
         /\ \A j \in Int : Slot(j) \in Desc
         /\ \A i, j \in 0 .. NUM_TX_DESC - 1 : Slot(i) = Slot(j) => i = j
         /\ Slot(Used) = tx_free_desc
<1>1. /\ NUM_TX_DESC \in Nat /\ NUM_TX_DESC > 0 /\ Used \in 0 .. NUM_TX_DESC
      /\ tx_free_desc \in 0 .. NUM_TX_DESC - 1
  BY Rltk8139Assumption DEF TxTypes, Used, Desc
<1>2. PICK o \in Int : o = tx_free_desc - Used
  BY <1>1
<1>3. \A j \in Int : Slot(j) = (o + j) % NUM_TX_DESC
  BY <1>2 DEF Slot
<1>4. \A j \in Int : Slot(j) \in Desc
  BY <1>1, <1>3, Division DEF Desc
<1>5. ASSUME NEW i \in 0 .. NUM_TX_DESC - 1, NEW j \in 0 .. NUM_TX_DESC - 1,
             Slot(i) = Slot(j)
      PROVE  i = j
  <2>1. PICK a \in Int, b \in Int : a = o + i /\ b = o + j
    OBVIOUS
  <2>2. a % NUM_TX_DESC = b % NUM_TX_DESC
    BY <1>3, <1>5, <2>1
  <2>3. a - b < NUM_TX_DESC /\ b - a < NUM_TX_DESC
    BY <1>1, <2>1
  <2>4. a = b
    BY <1>1, <2>2, <2>3, RemainderInjective
  <2>5. QED
    BY <2>1, <2>4
<1>6. Slot(Used) = tx_free_desc
  <2>1. o + Used = tx_free_desc
    BY <1>1, <1>2
  <2>2. QED
    BY <1>1, <1>3, <2>1, RemainderSmall
<1>7. QED
  BY <1>1, <1>4, <1>5, <1>6

LEMMA SlotNext ==
  ASSUME TxTypes, NEW j \in Int
  PROVE  (Slot(j) + 1) % NUM_TX_DESC = Slot(j + 1)
<1>1. NUM_TX_DESC \in Nat /\ NUM_TX_DESC > 0 /\ Used \in Int /\ tx_free_desc \in Int
  BY SlotsRight DEF TxTypes, Desc
<1>2. PICK a \in Int : a = tx_free_desc - Used + j
  BY <1>1
<1>3. ((a % NUM_TX_DESC) + 1) % NUM_TX_DESC = (a + 1) % NUM_TX_DESC
  <2>1. PICK c \in Int : c = 1
    OBVIOUS
  <2>2. ((a % NUM_TX_DESC) + c) % NUM_TX_DESC = (a + c) % NUM_TX_DESC
    BY <1>1, RemainderOfSum
  <2>3. QED
    BY <2>1, <2>2
<1>4. a + 1 = tx_free_desc - Used + (j + 1)
  BY <1>1, <1>2
<1>5. QED
  BY <1>2, <1>3, <1>4 DEF Slot

\* Taking one more descriptor, the free one, moves none of the others.
LEMMA SlotsOnReserve ==
  ASSUME TxTypes, tx_free_desc' = (tx_free_desc + 1) % NUM_TX_DESC,
         tx_num_free_desc' = tx_num_free_desc - 1
  PROVE  Used' = Used + 1 /\ \A j \in Int : Slot(j)' = Slot(j)
<1>1. NUM_TX_DESC \in Nat /\ NUM_TX_DESC > 0 /\ Used \in Int /\ tx_free_desc \in Int
  BY SlotsRight DEF TxTypes, Desc
<1>2. Used' = Used + 1
  BY <1>1 DEF Used, TxTypes
<1>3. ASSUME NEW j \in Int PROVE Slot(j)' = Slot(j)
  <2>1. PICK a \in Int, b \in Int : a = tx_free_desc + 1 /\ b = j - Used - 1
    BY <1>1
  <2>2. ((a % NUM_TX_DESC) + b) % NUM_TX_DESC = (a + b) % NUM_TX_DESC
    BY <1>1, RemainderOfSum
  <2>3. PICK r \in Int : r = a % NUM_TX_DESC /\ r = tx_free_desc'
    BY <1>1, <2>1, Division
  <2>4. r - Used' + j = r + b /\ tx_free_desc - Used + j = a + b
    BY <1>1, <1>2, <2>1
  <2>5. QED
    BY <2>2, <2>3, <2>4 DEF Slot
<1>4. QED
  BY <1>2, <1>3

\* Giving the oldest back makes the second the oldest.
LEMMA SlotsOnFree ==
  ASSUME TxTypes, tx_free_desc' = tx_free_desc,
         tx_num_free_desc' = tx_num_free_desc + 1
  PROVE  Used' = Used - 1 /\ \A j \in Int : Slot(j)' = Slot(j + 1)
<1>1. Used \in Int /\ tx_free_desc \in Int
  BY SlotsRight DEF TxTypes, Desc
<1>2. Used' = Used - 1
  BY SlotsRight DEF Used, TxTypes
<1>3. \A j \in Int : tx_free_desc' - Used' + j = tx_free_desc - Used + (j + 1)
  BY <1>1, <1>2
<1>4. QED
  BY <1>2, <1>3 DEF Slot

-----------------------------------------------------------------------------
(* The transmit ring.                                                      *)

LEMMA TxAtFirst == Init => TxInv
<1> SUFFICES ASSUME Init PROVE TxInv
  OBVIOUS
<1>1. NUM_TX_DESC \in Nat /\ NUM_TX_DESC > 0 /\ 0 \in Desc
  BY Rltk8139Assumption DEF Desc
<1>2. TxTypes
  BY <1>1 DEF Init, TxTypes
<1>3. Used = 0 /\ tx_free_desc = 0 /\ next_desc = 0
  BY <1>1 DEF Init, Used
<1>4. Slot(0) = 0
  BY <1>2, <1>3, SlotsRight
<1>5. RingRight(0)
  BY <1>3, <1>4 DEF Init, RingRight, Held
<1>6. QED
  BY <1>1, <1>2, <1>5 DEF Init, TxInv

txRing == <<tx_free_desc, tx_num_free_desc, tx_desc_key, tsd, pkt, next_desc,
            state, spc, sdesc, skey>>

Releasing == {"tsd", "done", "free"}

\* A step that leaves the transmit ring alone.
LEMMA TxStays ==
  ASSUME TxInv, UNCHANGED txRing,
         \/ dpc' = dpc /\ ddesc' = ddesc
         \/ /\ spc = "out" \/ dpc' = "out"
            /\ dpc \notin Releasing /\ dpc' \notin Releasing
  PROVE  TxInv'
<1>1. /\ Used' = Used /\ TxTypes' /\ \A j : Slot(j)' = Slot(j)
      /\ \A j : KeyOf(j)' = KeyOf(j)
  BY DEF txRing, Used, Slot, TxInv, TxTypes, KeyOf
<1>2. Held' = Held
  BY <1>1 DEF Held, Releasing
<1>3. ASSUME NEW s \in 0 .. NUM_TX_DESC, RingRight(s) PROVE RingRight(s)'
  BY <1>1, <1>2, <1>3 DEF RingRight, txRing, Releasing
<1>4. QED
  BY <1>1, <1>3 DEF TxInv, txRing, Releasing

LEMMA ResetTx ==
  ASSUME TxInv, rltk8139_reset, Return, spc = "out", UNCHANGED sender
  PROVE  TxInv'
<1>1. NUM_TX_DESC \in Nat /\ NUM_TX_DESC > 0 /\ 0 \in Desc
  BY Rltk8139Assumption DEF Desc
<1>2. /\ tx_free_desc' = 0 /\ tx_num_free_desc' = NUM_TX_DESC
      /\ tx_desc_key' = [d \in Desc |-> NoKey]
      /\ tsd' = [d \in Desc |-> "own_host"] /\ pkt' = [d \in Desc |-> NoKey]
      /\ next_desc' = 0 /\ spc' = "out" /\ dpc' = "out"
      /\ state' = [k \in Keys |-> IF state[k] = "free" THEN "free" ELSE "lost"]
  BY DEF rltk8139_reset, Return, Goto, sender
<1>3. TxTypes'
  BY <1>1, <1>2 DEF TxTypes
<1>4. Used' = 0
  BY <1>1, <1>2 DEF Used
<1>5. Slot(0)' = 0
  <2>1. 0 % NUM_TX_DESC = 0
    BY <1>1, RemainderSmall
  <2>2. QED
    BY <1>2, <1>4, <2>1 DEF Slot
<1>6. RingRight(0)'
  BY <1>2, <1>4, <1>5 DEF RingRight, Held
<1>7. QED
  BY <1>1, <1>2, <1>3, <1>6 DEF TxInv

LEMMA ReserveTx ==
  ASSUME NetLock, TxInv, NEW k \in Keys, Reserve(k)
  PROVE  TxInv'
<1>1. /\ spc = "out" /\ dpc = "out" /\ state[k] = "free"
      /\ tx_num_free_desc > 0 /\ sdesc' = tx_free_desc /\ skey' = k
      /\ tx_free_desc' = (tx_free_desc + 1) % NUM_TX_DESC
      /\ tx_num_free_desc' = tx_num_free_desc - 1
      /\ state' = [state EXCEPT ![k] = "busy"] /\ spc' = "fill"
      /\ UNCHANGED <<tx_desc_key, tsd, pkt, next_desc, dpc>>
  BY DEF Reserve, NetFree, txChip, network
<1>2. TxTypes /\ NUM_TX_DESC \in Nat
      /\ Slot(Used) = tx_free_desc /\ Used \in 0 .. NUM_TX_DESC
  BY SlotsRight DEF TxInv
<1>3. PICK u \in 0 .. NUM_TX_DESC : u = Used
  BY <1>2
<1>4. Used' = u + 1 /\ \A j \in Int : Slot(j)' = Slot(j)
  BY <1>1, <1>2, <1>3, SlotsOnReserve
<1>5. TxTypes' /\ Used' \in 1 .. NUM_TX_DESC
  <2>1. tx_free_desc' \in Desc
    BY <1>1, <1>2, SlotsRight, Division DEF TxTypes, Desc
  <2>2. QED
    BY <1>1, <1>2, <1>3, <1>4, <2>1 DEF TxTypes, Used
<1>6. sdesc' = Slot(u)'
  BY <1>1, <1>2, <1>3, <1>4
<1>7. PICK s \in 0 .. NUM_TX_DESC : RingRight(s)
  BY DEF TxInv
<1>8. s \in 0 .. u /\ next_desc = Slot(s)
  BY <1>3, <1>7 DEF RingRight
<1>9. /\ Held = 0 .. u - 1 /\ Held' = 0 .. u
      /\ \A j \in 0 .. u - 1 : KeyOf(j)' = KeyOf(j)
      /\ KeyOf(u)' = k
  BY <1>1, <1>2, <1>3, <1>4 DEF Held, KeyOf
<1>10. \A j \in 0 .. u - 1 :
         /\ KeyOf(j) \in Keys /\ KeyOf(j) # k
         /\ state'[KeyOf(j)] = IF j < s THEN "sent" ELSE "busy"
         /\ \A i \in 0 .. u - 1 : i # j => KeyOf(i) # KeyOf(j)
  BY <1>1, <1>2, <1>7, <1>9 DEF RingRight, TxTypes
<1>11. state'[k] = "busy"
  BY <1>1, <1>2 DEF TxTypes
<1>12. \A j \in Held' :
         /\ KeyOf(j)' \in Keys
         /\ state'[KeyOf(j)'] = IF j < s THEN "sent" ELSE "busy"
         /\ \A i \in Held' : i # j => KeyOf(i)' # KeyOf(j)'
  <2>1. \A j \in Held' : j = u \/ j \in 0 .. u - 1
    BY <1>9
  <2>2. QED
    BY <1>8, <1>9, <1>10, <1>11, <2>1
<1>13. \A j \in s .. Used' - 1 : j < Used' - 1 =>
         tsd'[Slot(j)'] = "own" /\ pkt'[Slot(j)'] = tx_desc_key'[Slot(j)']
  BY <1>1, <1>3, <1>4, <1>7, <1>8 DEF RingRight
<1>14. \A d \in Desc : tsd'[d] = "own" =>
         \E j \in s .. Used' - 1 : d = Slot(j)' /\ j < Used' - 1
  BY <1>1, <1>3, <1>4, <1>7, <1>8 DEF RingRight
<1>15. RingRight(s)'
  <2>1. s \in 0 .. Used' /\ s < Used' /\ next_desc' = Slot(s)'
    BY <1>1, <1>2, <1>4, <1>8
  <2>2. QED
    BY <1>1, <1>12, <1>13, <1>14, <2>1 DEF RingRight
<1>16. (Slot(Used - 1))' = Slot(u)'
  BY <1>4 DEF Slot
<1>17. QED
  BY <1>1, <1>5, <1>6, <1>15, <1>16 DEF TxInv

LEMMA FillBufferTx ==
  ASSUME TxInv, FillBuffer
  PROVE  TxInv'
<1>1. /\ spc = "fill" /\ spc' = "start"
      /\ tx_desc_key' = [tx_desc_key EXCEPT ![sdesc] = skey]
      /\ UNCHANGED <<tx_free_desc, tx_num_free_desc, tsd, pkt, next_desc, sdesc,
                     skey, dpc, state>>
  BY DEF FillBuffer, txChip, network
<1>2. PICK s \in 0 .. NUM_TX_DESC : RingRight(s)
  BY DEF TxInv
<1>3. PICK u \in 1 .. NUM_TX_DESC : u = Used
  BY <1>1, SlotsRight DEF TxInv
<1>4. /\ TxTypes /\ dpc = "out" /\ s < u /\ s \in 0 .. u
      /\ sdesc = Slot(u - 1) /\ sdesc \in Desc
  BY <1>1, <1>2, <1>3, SlotsRight DEF TxInv, RingRight
<1>5. Used' = Used /\ \A j : Slot(j)' = Slot(j)
  BY <1>1 DEF Used, Slot
<1>6. \A j \in 0 .. u - 1 : j < u - 1 => Slot(j) \in Desc /\ Slot(j) # sdesc
  BY <1>4, SlotsRight
<1>7. \A j \in 0 .. u - 1 :
        j < u - 1 => tx_desc_key'[Slot(j)] = tx_desc_key[Slot(j)]
  BY <1>1, <1>4, <1>6 DEF TxTypes
<1>8. Held' = Held /\ Held = 0 .. u - 1
  BY <1>1, <1>3, <1>4, <1>5 DEF Held
<1>9. \A j \in 0 .. u - 1 : KeyOf(j)' = KeyOf(j)
  BY <1>1, <1>3, <1>5, <1>7 DEF KeyOf
<1>10. skey \in Keys
  <2>1. u - 1 \in Held /\ KeyOf(u - 1) = skey
    BY <1>1, <1>3, <1>8 DEF KeyOf
  <2>2. QED
    BY <1>2, <2>1 DEF RingRight
<1>11. TxTypes' /\ tx_desc_key'[sdesc] = skey
  BY <1>1, <1>4, <1>10 DEF TxTypes
<1>12. \A j \in s .. u - 1 : j < u - 1 =>
         tsd'[Slot(j)] = "own" /\ pkt'[Slot(j)] = tx_desc_key'[Slot(j)]
  BY <1>1, <1>2, <1>3, <1>4, <1>7 DEF RingRight
<1>13. RingRight(s)'
  BY <1>1, <1>2, <1>3, <1>4, <1>5, <1>8, <1>9, <1>12 DEF RingRight
<1>14. (Slot(Used - 1))' = Slot(Used - 1)
  BY <1>5 DEF Slot
<1>15. QED
  BY <1>1, <1>3, <1>4, <1>5, <1>11, <1>13, <1>14 DEF TxInv

LEMMA StartChipTx ==
  ASSUME TxInv, StartChip
  PROVE  TxInv'
<1>1. /\ spc = "start" /\ spc' = "out"
      /\ tsd' = [tsd EXCEPT ![sdesc] = "own"]
      /\ pkt' = [pkt EXCEPT ![sdesc] = skey]
      /\ UNCHANGED <<tx_free_desc, tx_num_free_desc, tx_desc_key, next_desc,
                     dpc, state>>
  BY DEF StartChip, driver, network
<1>2. PICK s \in 0 .. NUM_TX_DESC : RingRight(s)
  BY DEF TxInv
<1>3. PICK u \in 1 .. NUM_TX_DESC : u = Used
  BY <1>1, SlotsRight DEF TxInv
<1>4. /\ TxTypes /\ dpc = "out" /\ s < u /\ s \in 0 .. u
      /\ sdesc = Slot(u - 1) /\ sdesc \in Desc /\ tx_desc_key[sdesc] = skey
  BY <1>1, <1>2, <1>3, SlotsRight DEF TxInv, RingRight
<1>5. Used' = Used /\ \A j : Slot(j)' = Slot(j)
  BY <1>1 DEF Used, Slot
<1>6. \A j \in 0 .. u - 1 : j < u - 1 => Slot(j) \in Desc /\ Slot(j) # sdesc
  BY <1>4, SlotsRight
<1>7. Held' = Held /\ Held = 0 .. u - 1
  BY <1>1, <1>3, <1>4, <1>5 DEF Held
<1>8. \A j \in 0 .. u - 1 : KeyOf(j)' = KeyOf(j)
  BY <1>1, <1>3, <1>4, <1>5 DEF KeyOf
<1>9. skey \in Keys
  <2>1. u - 1 \in Held /\ KeyOf(u - 1) = skey
    BY <1>1, <1>3, <1>7 DEF KeyOf
  <2>2. QED
    BY <1>2, <2>1 DEF RingRight
<1>10. TxTypes'
  BY <1>1, <1>4, <1>9 DEF TxTypes
<1>11. \A j \in s .. u - 1 :
         tsd'[Slot(j)] = "own" /\ pkt'[Slot(j)] = tx_desc_key'[Slot(j)]
  <2>1. ASSUME NEW j \in s .. u - 1, j < u - 1
        PROVE  tsd'[Slot(j)] = "own" /\ pkt'[Slot(j)] = tx_desc_key'[Slot(j)]
    <3>1. tsd[Slot(j)] = "own" /\ pkt[Slot(j)] = tx_desc_key[Slot(j)]
      BY <1>2, <1>3, <2>1 DEF RingRight
    <3>2. Slot(j) \in Desc /\ Slot(j) # sdesc
      BY <1>4, <1>6, <2>1
    <3>3. QED
      BY <1>1, <1>4, <3>1, <3>2 DEF TxTypes
  <2>2. tsd'[sdesc] = "own" /\ pkt'[sdesc] = tx_desc_key'[sdesc]
    BY <1>1, <1>4 DEF TxTypes
  <2>3. QED
    BY <1>4, <2>1, <2>2
<1>12. \A d \in Desc : tsd'[d] = "own" => \E j \in s .. u - 1 : d = Slot(j)
  <2> SUFFICES ASSUME NEW d \in Desc, tsd'[d] = "own"
               PROVE  \E j \in s .. u - 1 : d = Slot(j)
    OBVIOUS
  <2>1. CASE d = sdesc
    <3>1. u - 1 \in s .. u - 1
      BY <1>4
    <3>2. QED
      BY <1>4, <2>1, <3>1
  <2>2. CASE d # sdesc
    BY <1>1, <1>2, <1>3, <1>4, <2>2 DEF RingRight, TxTypes
  <2>3. QED
    BY <2>1, <2>2
<1>13. RingRight(s)'
  BY <1>1, <1>2, <1>3, <1>4, <1>5, <1>7, <1>8, <1>11, <1>12 DEF RingRight
<1>14. QED
  BY <1>1, <1>4, <1>10, <1>13 DEF TxInv

LEMMA TransmitTx ==
  ASSUME TxInv, Transmit
  PROVE  TxInv'
<1>1. /\ tsd[next_desc] = "own"
      /\ \E r \in {"TOK", "TABT"} : tsd' = [tsd EXCEPT ![next_desc] = r]
      /\ state' = [state EXCEPT ![pkt[next_desc]] = "sent"]
      /\ pkt' = [pkt EXCEPT ![next_desc] = NoKey]
      /\ next_desc' = (next_desc + 1) % NUM_TX_DESC
      /\ UNCHANGED <<tx_free_desc, tx_num_free_desc, tx_desc_key, spc, sdesc,
                     skey, dpc, ddesc>>
  BY DEF Transmit, driver, sender, network
<1>2. PICK s \in 0 .. NUM_TX_DESC : RingRight(s)
  BY DEF TxInv
<1>3. PICK u \in 0 .. NUM_TX_DESC : u = Used
  BY SlotsRight DEF TxInv
<1>4. /\ TxTypes /\ s \in 0 .. u /\ next_desc = Slot(s) /\ next_desc \in Desc
  BY <1>2, <1>3, SlotsRight DEF TxInv, RingRight
<1>5. s < u /\ (spc = "out" \/ s < u - 1)
  <2>1. PICK j \in s .. u - 1 : Slot(s) = Slot(j) /\ (spc = "out" \/ j < u - 1)
    BY <1>1, <1>2, <1>3, <1>4 DEF RingRight
  <2>2. s \in 0 .. NUM_TX_DESC - 1 /\ j \in 0 .. NUM_TX_DESC - 1
    BY <1>4, <2>1, SlotsRight
  <2>3. s = j
    BY <1>4, <2>1, <2>2, SlotsRight
  <2>4. QED
    BY <2>1, <2>3
<1>6. Used' = Used /\ (\A j : Slot(j)' = Slot(j)) /\ \A j : KeyOf(j)' = KeyOf(j)
  BY <1>1 DEF Used, Slot, KeyOf
<1>7. Held' = Held /\ s \in Held
  BY <1>1, <1>2, <1>3, <1>5, <1>6 DEF Held, RingRight
<1>8. PICK k \in Keys : k = KeyOf(s) /\ pkt[next_desc] = k
  BY <1>2, <1>3, <1>4, <1>5, <1>7 DEF RingRight, KeyOf
<1>9. \A j \in Held :
        /\ KeyOf(j) \in Keys
        /\ state'[KeyOf(j)] = IF j < s + 1 THEN "sent" ELSE "busy"
        /\ \A i \in Held : i # j => KeyOf(i) # KeyOf(j)
  <2>1. \A j \in Held : j = s \/ (j # s /\ KeyOf(j) # k)
    BY <1>2, <1>7, <1>8 DEF RingRight
  <2>2. \A j \in Held : j \in Int /\ (j # s => (j < s + 1 <=> j < s))
    BY <1>3 DEF Held
  <2>3. state'[k] = "sent" /\ \A m \in Keys : m # k => state'[m] = state[m]
    BY <1>1, <1>4, <1>8 DEF TxTypes
  <2>4. QED
    BY <1>2, <1>8, <2>1, <2>2, <2>3 DEF RingRight
<1>10. \A j \in s + 1 .. u - 1 : Slot(j) \in Desc /\ Slot(j) # next_desc
  BY <1>4, <1>5, SlotsRight
<1>11. \A j \in s + 1 .. u - 1 : spc = "out" \/ j < u - 1 =>
         tsd'[Slot(j)] = "own" /\ pkt'[Slot(j)] = tx_desc_key'[Slot(j)]
  BY <1>1, <1>2, <1>3, <1>4, <1>10 DEF RingRight, TxTypes
<1>12. \A d \in Desc : tsd'[d] = "own" =>
         \E j \in s + 1 .. u - 1 : d = Slot(j) /\ (spc = "out" \/ j < u - 1)
  <2> SUFFICES ASSUME NEW d \in Desc, tsd'[d] = "own"
               PROVE  \E j \in s + 1 .. u - 1 :
                        d = Slot(j) /\ (spc = "out" \/ j < u - 1)
    OBVIOUS
  <2>1. d # Slot(s) /\ tsd[d] = "own"
    BY <1>1, <1>4 DEF TxTypes
  <2>2. PICK j \in s .. u - 1 : d = Slot(j) /\ (spc = "out" \/ j < u - 1)
    BY <1>2, <1>3, <2>1 DEF RingRight
  <2>3. j \in s + 1 .. u - 1
    BY <2>1, <2>2
  <2>4. QED
    BY <2>2, <2>3
<1>13. next_desc' = Slot(s + 1)
  BY <1>1, <1>4, SlotNext
<1>14. TxTypes'
  BY <1>1, <1>4 DEF TxTypes
<1>15. PICK z \in 0 .. NUM_TX_DESC : z = s + 1
  BY <1>4, <1>5, SlotsRight
<1>16. RingRight(z)'
  <2>1. z \in 0 .. Used' /\ next_desc' = Slot(z)' /\ z > 0
    BY <1>3, <1>5, <1>6, <1>13, <1>15
  <2>2. spc' # "out" => z < Used'
    BY <1>1, <1>3, <1>5, <1>6, <1>15
  <2>3. QED
    BY <1>1, <1>3, <1>6, <1>7, <1>9, <1>11, <1>12, <1>15, <2>1, <2>2
       DEF RingRight
<1>17. (Slot(Used - 1))' = Slot(Used - 1)
  BY <1>6 DEF Slot
<1>18. QED
  BY <1>1, <1>6, <1>14, <1>16, <1>17 DEF TxInv

LEMMA PickDescriptorTx ==
  ASSUME TxInv, PickDescriptor
  PROVE  TxInv'
<1>1. /\ dpc = "tx" /\ UNCHANGED txRing
  BY DEF PickDescriptor, driver, txChip, sender, txRing
<1>2. spc = "out" /\ TxTypes /\ Used \in Int /\ tx_free_desc \in Int
  <2>1. spc = "out" /\ TxTypes
    BY <1>1 DEF TxInv
  <2>2. Used \in Int
    BY <2>1, SlotsRight
  <2>3. tx_free_desc \in Int
    BY <2>1 DEF TxTypes, Desc
  <2>4. QED
    BY <2>1, <2>2, <2>3
<1>3. CASE dpc' = "begin_rx"
  BY <1>1, <1>2, <1>3, TxStays DEF Releasing
<1>4. CASE /\ tx_num_free_desc < NUM_TX_DESC /\ ddesc' = Oldest /\ dpc' = "tsd"
  <2>1. Used > 0
    BY <1>2, <1>4, SlotsRight DEF Used, TxTypes
  <2>2. Oldest = Slot(0)
    BY <1>2 DEF Oldest, Slot, Used
  <2>3. /\ Used' = Used /\ TxTypes' /\ (\A j : Slot(j)' = Slot(j))
        /\ \A j : KeyOf(j)' = KeyOf(j)
    BY <1>1, <1>2 DEF txRing, Used, Slot, TxTypes, KeyOf
  <2>4. Held' = Held
    BY <1>1, <1>4, <2>3 DEF Held
  <2>5. ASSUME NEW s \in 0 .. NUM_TX_DESC, RingRight(s) PROVE RingRight(s)'
    BY <1>1, <1>4, <2>3, <2>4, <2>5 DEF RingRight, txRing
  <2>6. QED
    BY <1>1, <1>2, <1>4, <2>1, <2>2, <2>3, <2>5 DEF TxInv, txRing
<1>5. QED
  BY <1>3, <1>4 DEF PickDescriptor, Goto

LEMMA ReadTsdTx ==
  ASSUME TxInv, ReadTsd
  PROVE  TxInv'
<1>1. /\ dpc = "tsd" /\ ddesc' = ddesc /\ UNCHANGED txRing
      /\ dpc' = IF tsd[ddesc] \in {"TOK", "TABT"} THEN "done" ELSE "begin_rx"
  BY DEF ReadTsd, Goto, driver, txChip, sender, txRing
<1>2. spc = "out" /\ TxTypes /\ Used > 0 /\ ddesc = Slot(0) /\ Used \in Int
  BY <1>1, SlotsRight DEF TxInv
<1>3. PICK s \in 0 .. NUM_TX_DESC : RingRight(s)
  BY DEF TxInv
<1>4. dpc' = "done" => s > 0
  <2> SUFFICES ASSUME dpc' = "done", s = 0 PROVE FALSE
    BY <1>2, SlotsRight
  <2>1. 0 \in s .. Used - 1
    BY <1>2
  <2>2. tsd[Slot(0)] = "own"
    BY <1>2, <1>3, <2>1 DEF RingRight
  <2>3. QED
    BY <1>1, <1>2, <2>2
<1>5. /\ Used' = Used /\ TxTypes' /\ (\A j : Slot(j)' = Slot(j))
      /\ \A j : KeyOf(j)' = KeyOf(j)
  BY <1>1, <1>2 DEF txRing, Used, Slot, TxTypes, KeyOf
<1>6. Held' = Held
  BY <1>1, <1>5 DEF Held
<1>7. RingRight(s)'
  BY <1>1, <1>3, <1>4, <1>5, <1>6 DEF RingRight, txRing
<1>8. QED
  BY <1>1, <1>2, <1>5, <1>7 DEF TxInv, txRing

LEMMA TxDoneTx ==
  ASSUME TxInv, TxDone
  PROVE  TxInv'
<1>1. /\ dpc = "done" /\ dpc' = "free" /\ ddesc' = ddesc
      /\ state' = [k \in Keys |-> IF k = tx_desc_key[ddesc] THEN "free"
                                  ELSE state[k]]
      /\ tx_desc_key' = [tx_desc_key EXCEPT ![ddesc] = NoKey]
      /\ UNCHANGED <<tx_free_desc, tx_num_free_desc, tsd, pkt, next_desc, spc,
                     sdesc, skey>>
  BY DEF TxDone, Goto, txChip, sender
<1>2. PICK s \in 0 .. NUM_TX_DESC : RingRight(s)
  BY DEF TxInv
<1>3. PICK u \in 1 .. NUM_TX_DESC : u = Used
  BY <1>1, SlotsRight DEF TxInv
<1>4. /\ spc = "out" /\ TxTypes /\ ddesc = Slot(0) /\ ddesc \in Desc
      /\ s \in 1 .. u
  BY <1>1, <1>2, <1>3, SlotsRight DEF TxInv, RingRight
<1>5. Used' = Used /\ \A j : Slot(j)' = Slot(j)
  BY <1>1 DEF Used, Slot
<1>6. Held = 0 .. u - 1 /\ Held' = 1 .. u - 1
  BY <1>1, <1>3, <1>5 DEF Held
<1>7. \A j \in 1 .. u - 1 : Slot(j) \in Desc /\ Slot(j) # ddesc
  BY <1>4, SlotsRight
<1>8. \A j \in 1 .. u - 1 : tx_desc_key'[Slot(j)] = tx_desc_key[Slot(j)]
  BY <1>1, <1>4, <1>7 DEF TxTypes
<1>9. /\ \A j \in 1 .. u - 1 : KeyOf(j)' = KeyOf(j)
      /\ KeyOf(0) = tx_desc_key[ddesc]
  BY <1>1, <1>4, <1>5, <1>8 DEF KeyOf
<1>10. \A j \in Held' :
         /\ KeyOf(j) \in Keys
         /\ state'[KeyOf(j)] = IF j < s THEN "sent" ELSE "busy"
         /\ \A i \in Held' : i # j => KeyOf(i) # KeyOf(j)
  <2>1. 0 \in Held /\ \A j \in Held' : j \in Held /\ j # 0
    BY <1>6
  <2>2. \A j \in Held' : KeyOf(j) \in Keys /\ KeyOf(j) # tx_desc_key[ddesc]
    BY <1>2, <1>9, <2>1 DEF RingRight
  <2>3. QED
    BY <1>1, <1>2, <2>1, <2>2 DEF RingRight
<1>11. TxTypes'
  BY <1>1, <1>4 DEF TxTypes
<1>12. \A j \in s .. u - 1 :
         tsd'[Slot(j)] = "own" /\ pkt'[Slot(j)] = tx_desc_key'[Slot(j)]
  BY <1>1, <1>2, <1>3, <1>4, <1>8 DEF RingRight
<1>13. RingRight(s)'
  BY <1>1, <1>2, <1>3, <1>4, <1>5, <1>6, <1>9, <1>10, <1>12 DEF RingRight
<1>14. QED
  BY <1>1, <1>3, <1>4, <1>5, <1>11, <1>13 DEF TxInv

LEMMA FreeDescriptorTx ==
  ASSUME TxInv, FreeDescriptor
  PROVE  TxInv'
<1>1. /\ dpc = "free" /\ dpc' = "tx"
      /\ tx_num_free_desc' = tx_num_free_desc + 1
      /\ UNCHANGED <<tx_free_desc, tx_desc_key, tsd, pkt, next_desc, spc, sdesc,
                     skey, state>>
  BY DEF FreeDescriptor, Goto, txChip, sender
<1>2. PICK s \in 0 .. NUM_TX_DESC : RingRight(s)
  BY DEF TxInv
<1>3. PICK u \in 1 .. NUM_TX_DESC : u = Used
  BY <1>1, SlotsRight DEF TxInv
<1>4. spc = "out" /\ TxTypes /\ s \in 1 .. u /\ NUM_TX_DESC \in Nat
  BY <1>1, <1>2, <1>3, SlotsRight DEF TxInv, RingRight
<1>5. Used' = u - 1 /\ \A j \in Int : Slot(j)' = Slot(j + 1)
  BY <1>1, <1>3, <1>4, SlotsOnFree
<1>6. TxTypes'
  <2>1. tx_num_free_desc' \in 0 .. NUM_TX_DESC
    BY <1>1, <1>3, <1>4 DEF Used, TxTypes
  <2>2. QED
    BY <1>1, <1>4, <2>1 DEF TxTypes
<1>7. Held = 1 .. u - 1 /\ Held' = 0 .. u - 2
  BY <1>1, <1>3, <1>5 DEF Held
<1>8. \A j \in 0 .. u - 2 : KeyOf(j)' = KeyOf(j + 1)
  BY <1>1, <1>4, <1>5 DEF KeyOf
<1>9. PICK z \in 0 .. NUM_TX_DESC : z = s - 1
  BY <1>4
<1>10. \A j \in Held' :
         /\ KeyOf(j)' \in Keys
         /\ state'[KeyOf(j)'] = IF j < z THEN "sent" ELSE "busy"
         /\ \A i \in Held' : i # j => KeyOf(i)' # KeyOf(j)'
  <2>1. \A j \in Held' : j + 1 \in Held /\ j \in Int /\ (j + 1 < s <=> j < z)
    BY <1>4, <1>7, <1>9
  <2>2. \A j \in Held' : /\ KeyOf(j)' = KeyOf(j + 1) /\ KeyOf(j + 1) \in Keys
                         /\ state[KeyOf(j + 1)] = IF j < z THEN "sent" ELSE "busy"
    BY <1>2, <1>7, <1>8, <2>1 DEF RingRight
  <2>3. \A i, j \in Held' : i # j => KeyOf(i + 1) # KeyOf(j + 1)
    <3> SUFFICES ASSUME NEW i \in Held', NEW j \in Held', i # j
                 PROVE  KeyOf(i + 1) # KeyOf(j + 1)
      OBVIOUS
    <3>1. PICK m \in Held, n \in Held : m = i + 1 /\ n = j + 1 /\ m # n
      BY <2>1
    <3>2. QED
      BY <1>2, <3>1 DEF RingRight
  <2>4. QED
    BY <1>1, <2>2, <2>3
<1>11. \A j \in z .. u - 2 :
         tsd'[Slot(j)'] = "own" /\ pkt'[Slot(j)'] = tx_desc_key'[Slot(j)']
  <2> SUFFICES ASSUME NEW j \in z .. u - 2
               PROVE  /\ tsd[Slot(j + 1)] = "own"
                      /\ pkt[Slot(j + 1)] = tx_desc_key[Slot(j + 1)]
    BY <1>1, <1>5
  <2>1. PICK m \in s .. u - 1 : m = j + 1
    BY <1>4, <1>9
  <2>2. QED
    BY <1>2, <1>3, <1>4, <2>1 DEF RingRight
<1>12. \A d \in Desc : tsd'[d] = "own" => \E j \in z .. u - 2 : d = Slot(j)'
  <2> SUFFICES ASSUME NEW d \in Desc, tsd[d] = "own"
               PROVE  \E j \in z .. u - 2 : d = Slot(j + 1)
    BY <1>1, <1>5
  <2>1. PICK m \in s .. u - 1 : d = Slot(m)
    BY <1>2, <1>3 DEF RingRight
  <2>2. PICK j \in z .. u - 2 : m = j + 1
    BY <1>4, <1>9, <2>1
  <2>3. QED
    BY <2>1, <2>2
<1>13. next_desc' = Slot(z)' /\ z \in 0 .. Used'
  <2>1. next_desc = Slot(s) /\ s = z + 1
    BY <1>2, <1>4, <1>9 DEF RingRight
  <2>2. QED
    BY <1>1, <1>4, <1>5, <2>1
<1>14. RingRight(z)'
  <2>1. u - 2 = Used' - 1
    BY <1>5
  <2>2. QED
    BY <1>1, <1>4, <1>10, <1>11, <1>12, <1>13, <2>1 DEF RingRight
<1>15. QED
  BY <1>1, <1>4, <1>6, <1>14 DEF TxInv

LEMMA TxStep == NetLock /\ TxInv /\ [Next]_vars => TxInv'
<1> SUFFICES ASSUME NetLock, TxInv, [Next]_vars PROVE TxInv'
  OBVIOUS
<1> USE DEF txRing, driver, txChip, sender, network
<1>1. CASE UNCHANGED vars
  BY <1>1, TxStays DEF vars
<1>2. CASE \E k \in Keys : Reserve(k)
  BY <1>2, ReserveTx
<1>3. CASE SendRest
  BY <1>3, FillBufferTx, StartChipTx DEF SendRest
<1>4. CASE Transmit
  BY <1>4, TransmitTx
<1>5. CASE \E l \in Lengths : Receive(l)
  BY <1>5, TxStays DEF Receive
<1>6. CASE Error \/ rltk8139_isr
  BY <1>6, TxStays DEF Error, rltk8139_isr
<1>7. CASE Begin
  <2>1. spc = "out" /\ dpc = "out" /\ dpc' = "status" /\ UNCHANGED txRing
    BY <1>7 DEF Begin, NetFree, Goto
  <2>2. QED
    BY <2>1, TxStays DEF Releasing
<1>8. ASSUME dpc # "out" PROVE spc = "out"
  BY <1>8 DEF TxInv
<1>9. CASE ReadStatus
  <2>1. dpc = "status" /\ dpc' = "ack" /\ UNCHANGED txRing
    BY <1>9 DEF ReadStatus, Goto
  <2>2. QED
    BY <1>8, <2>1, TxStays DEF Releasing
<1>10. CASE Acknowledge
  <2>1. dpc = "ack" /\ spc = "out" /\ UNCHANGED sender
    BY <1>8, <1>10 DEF Acknowledge
  <2>2. CASE rltk8139_reset /\ Return
    BY <2>1, <2>2, ResetTx
  <2>3. CASE /\ Goto(IF "IR_TX" \in status THEN "tx" ELSE "begin_rx")
             /\ UNCHANGED <<driver, txChip, state>>
    <3>1. dpc' \notin Releasing /\ UNCHANGED txRing
      BY <2>1, <2>3 DEF Goto, Releasing
    <3>2. QED
      BY <2>1, <3>1, TxStays DEF Releasing
  <2>4. QED
    BY <1>10, <2>2, <2>3 DEF Acknowledge
<1>11. CASE PickDescriptor \/ ReadTsd \/ TxDone \/ FreeDescriptor
  BY <1>11, PickDescriptorTx, ReadTsdTx, TxDoneTx, FreeDescriptorTx
<1>12. CASE BeginRx
  <2>1. dpc = "begin_rx" /\ dpc' \in {"rx", "end"} /\ UNCHANGED txRing
    BY <1>12 DEF BeginRx, Goto
  <2>2. QED
    BY <1>8, <2>1, TxStays DEF Releasing
<1>13. CASE RxFrame
  <2>1. dpc = "rx" /\ dpc' \in {"rx", "end"} /\ UNCHANGED txRing
    BY <1>13 DEF RxFrame, Goto
  <2>2. QED
    BY <1>8, <2>1, TxStays DEF Releasing
<1>14. CASE End
  <2>1. dpc = "end" /\ spc = "out" /\ UNCHANGED sender /\ Return
    BY <1>8, <1>14 DEF End
  <2>2. CASE rltk8139_reset
    BY <2>1, <2>2, ResetTx
  <2>3. CASE UNCHANGED <<driver, txChip, state>>
    <3>1. dpc' = "out" /\ UNCHANGED txRing
      BY <2>1, <2>3 DEF Return, Goto
    <3>2. QED
      BY <2>1, <3>1, TxStays DEF Releasing
  <2>4. QED
    BY <1>14, <2>2, <2>3 DEF End
<1>15. QED
  BY <1>1, <1>2, <1>3, <1>4, <1>5, <1>6, <1>7, <1>9, <1>10, <1>11, <1>12, <1>13,
     <1>14 DEF Next, Deliver

\* For any number of packets and descriptors, with the chip sending while
\* packets are queued and released and with resets at any time: tx_done is
\* called for the packet that the chip has sent from this descriptor.  The
\* network stack must keep rltk8139_send and rltk8139_deliver apart.
THEOREM TxStaysInStep == ASSUME NetLock PROVE Spec => []DoneRight
<1>1. TxInv => DoneRight
  <2> SUFFICES ASSUME TxInv, dpc = "done"
               PROVE  /\ tx_desc_key[ddesc] \in Keys
                      /\ state[tx_desc_key[ddesc]] = "sent"
    BY DEF DoneRight
  <2>1. PICK s \in 0 .. NUM_TX_DESC : RingRight(s)
    BY DEF TxInv
  <2>2. /\ spc = "out" /\ Used > 0 /\ ddesc = Slot(0) /\ s > 0 /\ Used \in Int
    BY <2>1, SlotsRight DEF TxInv, RingRight
  <2>3. 0 \in Held /\ KeyOf(0) = tx_desc_key[ddesc]
    BY <2>2 DEF Held, KeyOf
  <2>4. QED
    BY <2>1, <2>2, <2>3 DEF RingRight
<1>2. TxInv /\ [Next]_vars => TxInv'
  BY TxStep
<1>3. QED
  BY <1>1, <1>2, TxAtFirst, PTL DEF Spec
===============================================================================
