------------------------------ MODULE Rltk8139 ------------------------------
(***************************************************************************)
(* The driver of the RealTek 8139 Ethernet chip (devs/eth/rltk/8139): the  *)
(* ring of transmit descriptors, the receive ring, the interrupt mask, and *)
(* the reset that the driver answers errors with.                          *)
(*                                                                         *)
(* Three parties run at the same time: the chip, a thread inside           *)
(* rltk8139_send, and the network thread that rltk8139_isr wakes and that  *)
(* runs rltk8139_deliver.  Every access to a register or to a field that   *)
(* two of them use is a step of its own.  The chip and the generic         *)
(* Ethernet driver are not in this repository; a packet is known by the    *)
(* key the latter gives to rltk8139_send and gets back from tx_done.       *)
(***************************************************************************)
EXTENDS Integers, Sequences, FiniteSets

CONSTANTS
  Keys,        \* the packets the network stack can have in flight
  NoKey,       \* a cleared key
  NUM_TX_DESC, \* the number of transmit descriptors, a power of two
  RX_BUF_LEN,  \* the length of the receive ring, a power of two
  Lengths,     \* lengths of received frames, CRC included
  MaskInChip,  \* CYGPKG_DEVS_ETH_RLTK_8139_MASK_INTERRUPTS_IN_8139
  NetLock,     \* does the network stack keep send and deliver apart?
  MaxErrors    \* bound of the model: PCI errors and receive overflows

ASSUME Rltk8139Assumption ==
  /\ NoKey \notin Keys
  /\ NUM_TX_DESC \in Nat \ {0}
  /\ RX_BUF_LEN \in Nat /\ RX_BUF_LEN >= 16
  /\ RX_BUF_LEN % 4 = 0 /\ 65536 % RX_BUF_LEN = 0
  /\ Lengths \subseteq Nat
  /\ MaskInChip \in BOOLEAN /\ NetLock \in BOOLEAN
  /\ MaxErrors \in Nat

VARIABLES
  \* the driver
  tx_free_desc, tx_num_free_desc, tx_desc_key,
  \* the chip: status of the descriptors and the packet in each one's buffer,
  \* the descriptor it sends next, ISR, IMR, the frames in the receive ring,
  \* where it writes the next frame, and CAPR
  tsd, pkt, next_desc, isr, imr, rx, cbr, capr,
  \* the interrupt controller and the DSR
  masked, wake,
  \* the thread in rltk8139_send: its program counter, descriptor and key
  spc, sdesc, skey,
  \* the network thread in rltk8139_deliver
  dpc, ddesc, status, rx_pos,
  \* state[k]: "free", with the driver ("busy"), sent by the chip ("sent")
  \* or forgotten by a reset ("lost")
  state,
  errors

driver  == <<tx_free_desc, tx_num_free_desc, tx_desc_key>>
txChip  == <<tsd, pkt, next_desc>>
rxChip  == <<rx, cbr, capr>>
sender  == <<spc, sdesc, skey>>
network == <<dpc, ddesc, status, rx_pos>>
vars    == <<driver, txChip, isr, imr, rxChip, masked, wake, sender, network,
             state, errors>>

Desc == 0 .. NUM_TX_DESC - 1

-----------------------------------------------------------------------------
(* rltk8139_send.                                                          *)

NetFree == NetLock => spc = "out" /\ dpc = "out"

\* Between cyg_drv_isr_lock and cyg_drv_isr_unlock.
Reserve(k) ==
  /\ spc = "out"
  /\ NetFree
  /\ state[k] = "free"
  /\ tx_num_free_desc > 0
  /\ sdesc' = tx_free_desc
  /\ skey' = k
  /\ tx_free_desc' = (tx_free_desc + 1) % NUM_TX_DESC
  /\ tx_num_free_desc' = tx_num_free_desc - 1
  /\ state' = [state EXCEPT ![k] = "busy"]
  /\ spc' = "fill"
  /\ UNCHANGED <<tx_desc_key, txChip, isr, imr, rxChip, masked, wake, network,
                 errors>>

FillBuffer ==
  /\ spc = "fill"
  /\ tx_desc_key' = [tx_desc_key EXCEPT ![sdesc] = skey]
  /\ spc' = "start"
  /\ UNCHANGED <<tx_free_desc, tx_num_free_desc, txChip, isr, imr, rxChip,
                 masked, wake, sdesc, skey, network, state, errors>>

\* The write to TSD clears its status bits and hands the buffer to the chip.
StartChip ==
  /\ spc = "start"
  /\ tsd' = [tsd EXCEPT ![sdesc] = "own"]
  /\ pkt' = [pkt EXCEPT ![sdesc] = skey]
  /\ spc' = "out"
  /\ sdesc' = 0
  /\ skey' = NoKey
  /\ UNCHANGED <<driver, next_desc, isr, imr, rxChip, masked, wake, network,
                 state, errors>>

-----------------------------------------------------------------------------
(* The chip.                                                               *)

\* "you _must_ use descriptor #1 after descriptor #0": the chip looks at one
\* descriptor only.
Transmit ==
  /\ tsd[next_desc] = "own"
  /\ \E r \in {"TOK", "TABT"} : tsd' = [tsd EXCEPT ![next_desc] = r]
  /\ state' = [state EXCEPT ![pkt[next_desc]] = "sent"]
  /\ pkt' = [pkt EXCEPT ![next_desc] = NoKey]
  /\ next_desc' = (next_desc + 1) % NUM_TX_DESC
  /\ isr' = isr \cup {"IR_TX"}
  /\ UNCHANGED <<driver, imr, rxChip, masked, wake, sender, network,
                 errors>>

\* A frame takes a header of 4 bytes and starts at a multiple of 4.
Aligned(n) == ((n + 3) \div 4) * 4
Taken == IF rx = <<>> THEN 0 ELSE (cbr - Head(rx).at) % RX_BUF_LEN

Receive(l) ==
  /\ Taken + Aligned(l + 4) < RX_BUF_LEN
  /\ rx' = Append(rx, [at |-> cbr, len |-> l])
  /\ cbr' = (cbr + Aligned(l + 4)) % RX_BUF_LEN
  /\ isr' = isr \cup {"IR_ROK"}
  /\ UNCHANGED <<driver, txChip, imr, capr, masked, wake, sender, network,
                 state, errors>>

\* IR_SERR at any time, IR_RXOVW or IR_FOVW when there is no room.
Error ==
  /\ errors < MaxErrors
  /\ errors' = errors + 1
  /\ \/ isr' = isr \cup {"IR_SERR"}
     \/ /\ \E l \in Lengths : Taken + Aligned(l + 4) >= RX_BUF_LEN
        /\ isr' = isr \cup {"IR_OVW"}
  /\ UNCHANGED <<driver, txChip, imr, rxChip, masked, wake, sender, network,
                 state>>

-----------------------------------------------------------------------------
\* rltk8139_isr, then eth_drv_dsr, which wakes the network thread.
rltk8139_isr ==
  /\ isr # {} /\ imr /\ ~masked
  /\ imr' = ~MaskInChip
  /\ masked' = ~MaskInChip
  /\ wake' = TRUE
  /\ UNCHANGED <<driver, txChip, isr, rxChip, sender, network, state, errors>>

-----------------------------------------------------------------------------
(* rltk8139_deliver.                                                       *)

Goto(l) == dpc' = l

\* rltk8139_stop clears IMR, rltk8139_start sets it.
StopOnly == imr' = FALSE
EnableInterrupts == imr' = TRUE

\* rltk8139_reset: rltk8139_stop and rltk8139_start.
rltk8139_reset ==
  /\ tx_free_desc' = 0
  /\ tx_num_free_desc' = NUM_TX_DESC
  /\ tx_desc_key' = [d \in Desc |-> NoKey]
  /\ tsd' = [d \in Desc |-> "own_host"]
  /\ pkt' = [d \in Desc |-> NoKey]
  /\ next_desc' = 0
  /\ isr' = {}
  /\ EnableInterrupts
  /\ rx' = <<>>
  /\ cbr' = 0
  /\ capr' = 65536 - 16
  /\ state' = [k \in Keys |-> IF state[k] = "free" THEN "free" ELSE "lost"]

Return ==
  /\ Goto("out")
  /\ ddesc' = 0
  /\ status' = {}
  /\ rx_pos' = 0

Begin ==
  /\ dpc = "out"
  /\ wake
  /\ NetFree
  /\ wake' = FALSE
  /\ Goto("status")
  /\ UNCHANGED <<driver, txChip, isr, imr, rxChip, masked, sender, ddesc,
                 status, rx_pos, state, errors>>

ReadStatus ==
  /\ dpc = "status"
  /\ status' = isr
  /\ Goto("ack")
  /\ UNCHANGED <<driver, txChip, isr, imr, rxChip, masked, wake, sender,
                 ddesc, rx_pos, state, errors>>

\* Bits are cleared by writing them, whatever has happened since the read.
AckAll == isr' = {}
Ack == isr' = isr \ status

Acknowledge ==
  /\ dpc = "ack"
  /\ \/ /\ "IR_SERR" \in status
        /\ rltk8139_reset
        /\ Return
     \/ /\ "IR_SERR" \notin status
        /\ Ack
        /\ Goto(IF "IR_TX" \in status THEN "tx" ELSE "begin_rx")
        /\ UNCHANGED <<driver, txChip, imr, rxChip, ddesc, status, rx_pos,
                       state>>
  /\ UNCHANGED <<masked, wake, sender, errors>>

\* The oldest descriptor that is in use, under cyg_drv_isr_lock.
Newest == (tx_free_desc - 1) % NUM_TX_DESC
Oldest == (tx_free_desc - (NUM_TX_DESC - tx_num_free_desc)) % NUM_TX_DESC

PickDescriptor ==
  /\ dpc = "tx"
  /\ \/ /\ tx_num_free_desc >= NUM_TX_DESC
        /\ Goto("begin_rx")
        /\ UNCHANGED ddesc
     \/ /\ tx_num_free_desc < NUM_TX_DESC
        /\ ddesc' = Oldest
        /\ Goto("tsd")
  /\ UNCHANGED <<driver, txChip, isr, imr, rxChip, masked, wake, sender,
                 status, rx_pos, state, errors>>

ReadTsd ==
  /\ dpc = "tsd"
  /\ Goto(IF tsd[ddesc] \in {"TOK", "TABT"} THEN "done" ELSE "begin_rx")
  /\ UNCHANGED <<driver, txChip, isr, imr, rxChip, masked, wake, sender,
                 ddesc, status, rx_pos, state, errors>>

\* The callback tx_done, and the key is cleared.
TxDone ==
  /\ dpc = "done"
  /\ state' = [k \in Keys |-> IF k = tx_desc_key[ddesc] THEN "free"
                              ELSE state[k]]
  /\ tx_desc_key' = [tx_desc_key EXCEPT ![ddesc] = NoKey]
  /\ Goto("free")
  /\ UNCHANGED <<tx_free_desc, tx_num_free_desc, txChip, isr, imr, rxChip,
                 masked, wake, sender, ddesc, status, rx_pos, errors>>

FreeDescriptor ==
  /\ dpc = "free"
  /\ tx_num_free_desc' = tx_num_free_desc + 1
  /\ ddesc' = 0
  /\ Goto("tx")
  /\ UNCHANGED <<tx_free_desc, tx_desc_key, txChip, isr, imr, rxChip, masked,
                 wake, sender, status, rx_pos, state, errors>>

BeginRx ==
  /\ dpc = "begin_rx"
  /\ ddesc' = 0
  /\ \/ /\ "IR_ROK" \in status
        /\ rx_pos' = (capr + 16) % RX_BUF_LEN
        /\ Goto("rx")
     \/ /\ "IR_ROK" \notin status
        /\ Goto("end")
        /\ UNCHANGED rx_pos
  /\ UNCHANGED <<driver, txChip, isr, imr, rxChip, masked, wake, sender,
                 status, state, errors>>

\* The place of the frame after one of length l, CRC included, and the value
\* of CAPR for it: C's remainder of a negative number is negative, and the
\* register has 16 bits.
NoHeader(l) == (Aligned(rx_pos + (l - 4) + 4)) % RX_BUF_LEN
NextPos(l) == (Aligned(rx_pos + (l - 4) + 8)) % RX_BUF_LEN

Remainder(a, b) == IF a >= 0 THEN a % b ELSE -((-a) % b)
Capr(p) == Remainder(p - 16, RX_BUF_LEN) % 65536

\* One turn of the loop, which ends when the chip says BUFE.
RxFrame ==
  /\ dpc = "rx"
  /\ \/ /\ rx = <<>>
        /\ Goto("end")
        /\ rx_pos' = 0
        /\ UNCHANGED <<rx, capr>>
     \/ /\ rx # <<>>
        /\ rx_pos' = NextPos(Head(rx).len)
        /\ capr' = Capr(NextPos(Head(rx).len))
        /\ rx' = Tail(rx)
        /\ UNCHANGED dpc
  /\ UNCHANGED <<driver, txChip, isr, imr, cbr, masked, wake, sender, ddesc,
                 status, state, errors>>

End ==
  /\ dpc = "end"
  /\ \/ /\ "IR_OVW" \in status
        /\ rltk8139_reset
        /\ UNCHANGED masked
     \/ /\ "IR_OVW" \notin status
        /\ imr' = (MaskInChip \/ imr)
        /\ masked' = (MaskInChip /\ masked)
        /\ UNCHANGED <<driver, txChip, isr, rxChip, state>>
  /\ Return
  /\ UNCHANGED <<wake, sender, errors>>

-----------------------------------------------------------------------------
\* After rltk8139_init and rltk8139_start.
Init ==
  /\ tx_free_desc = 0
  /\ tx_num_free_desc = NUM_TX_DESC
  /\ tx_desc_key = [d \in Desc |-> NoKey]
  /\ tsd = [d \in Desc |-> "own_host"]
  /\ pkt = [d \in Desc |-> NoKey]
  /\ next_desc = 0
  /\ isr = {} /\ imr = TRUE
  /\ rx = <<>> /\ cbr = 0 /\ capr = 65536 - 16
  /\ masked = FALSE /\ wake = FALSE
  /\ spc = "out" /\ sdesc = 0 /\ skey = NoKey
  /\ dpc = "out" /\ ddesc = 0 /\ status = {} /\ rx_pos = 0
  /\ state = [k \in Keys |-> "free"]
  /\ errors = 0

SendRest == FillBuffer \/ StartChip

Deliver ==
  \/ Begin \/ ReadStatus \/ Acknowledge
  \/ PickDescriptor \/ ReadTsd \/ TxDone \/ FreeDescriptor
  \/ BeginRx \/ RxFrame \/ End

Next ==
  \/ \E k \in Keys : Reserve(k)
  \/ SendRest
  \/ Transmit
  \/ \E l \in Lengths : Receive(l)
  \/ Error
  \/ rltk8139_isr
  \/ Deliver

\* The chip works on, the interrupt is served, threads that are ready run,
\* and frames do not for ever come as fast as rltk8139_deliver takes them, so
\* that its loop over the receive ring ends.
Fairness ==
  /\ WF_vars(Transmit)
  /\ WF_vars(rltk8139_isr)
  /\ WF_vars(SendRest)
  /\ WF_vars(Deliver)
  /\ []<>(dpc # "rx")

Spec == Init /\ [][Next]_vars /\ Fairness

-----------------------------------------------------------------------------
\* tx_done gives back a packet only when the chip is done with it, and gives
\* back exactly the packet of the descriptor it has looked at: the keys and
\* the ring positions of driver and chip stay in step.
DoneRight == dpc = "done" => /\ tx_desc_key[ddesc] \in Keys
                             /\ state[tx_desc_key[ddesc]] = "sent"

\* The place the driver reads the next frame from is where the chip has put
\* it, through the offset of 16 in CAPR and the wrap-around of the ring.
RxInStep ==
  rx # <<>> =>
    Head(rx).at = IF dpc = "rx" THEN rx_pos ELSE (capr + 16) % RX_BUF_LEN

\* A packet that was handed to the driver comes back by tx_done, or a reset
\* has forgotten it: no completion is missed, although status bits are
\* cleared while the chip sets them and the interrupt is masked.
AllDone ==
  \A k \in Keys : state[k] = "busy" ~> state[k] \in {"free", "lost"}

\* A received frame makes the network thread empty the ring, or reset it.
RxServed == rx # <<>> ~> (dpc = "rx" \/ rx = <<>>)

\* The interrupt is masked "until the network thread gets around to calling
\* the '_deliver' routine" (line 489).
Unmasked == (masked \/ ~imr) ~> (~masked /\ imr)
=============================================================================
