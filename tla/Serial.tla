------------------------------- MODULE Serial -------------------------------
(***************************************************************************)
(* One USART port of src/src/driver/serial.c: the main loop's calls        *)
(* serial_open, serial_write and serial_read against the interrupt handler *)
(* serial_IRQHandler, over the two fifos they share.                       *)
(*                                                                         *)
(* The handler preempts the main loop between any two of its steps and     *)
(* runs to its end before the main loop resumes (USART1 and USART3 have    *)
(* the same preemption priority, and nothing the other interrupt, TIM7,    *)
(* does touches a port), so it is one action.  A main-loop call is several *)
(* actions, one per section it runs with interrupts off and one per write  *)
(* to the control register; pc says which comes next.                      *)
(***************************************************************************)
EXTENDS Fifo

CONSTANTS Bytes,             \* the values of a byte
          RxSize, TxSize,    \* rxbuf_size, txbuf_size
          MaxLen             \* bound on len of one serial_write

Nothing == "nothing"         \* an empty data register, no byte returned yet

(* Sizes are uint16_t.  At 65535 fifo_write_force's cnt++ would wrap before *)
(* it is compared with size; below that no index or count overflows.       *)
ASSUME SizeAssumption ==
  /\ RxSize \in Nat \ {0} /\ RxSize < 65535
  /\ TxSize \in Nat \ {0} /\ TxSize < 65535
  /\ MaxLen \in Nat
ASSUME ByteAssumption == Nothing \notin Bytes /\ Blank \notin Bytes

VARIABLES
  inited,  \* self->inited
  rx, tx,  \* self->rx_fifo, self->tx_fifo
  txie,    \* the transmit interrupt is enabled (USART_IT_TXE)
  rdr,     \* receive data register: Nothing iff USART_FLAG_RXNE is clear
  tdr,     \* transmit data register: Nothing iff USART_FLAG_TXE is set
  pc,      \* where the main loop stands inside a call
  left,    \* serial_write: bytes of buf still to queue
  got      \* serial_read: *val, Nothing from the next call on

vars == <<inited, rx, tx, txie, rdr, tdr, pc, left, got>>

TypeOK ==
  /\ inited \in BOOLEAN
  /\ rx \in FifoType(Bytes, RxSize)
  /\ tx \in FifoType(Bytes, TxSize)
  /\ txie \in BOOLEAN
  /\ rdr \in Bytes \cup {Nothing}
  /\ tdr \in Bytes \cup {Nothing}
  /\ pc \in {"idle", "queue", "enable", "take"}
  /\ left \in 0 .. MaxLen
  /\ got \in Bytes \cup {Nothing}

Init ==
  /\ inited = FALSE
  /\ rx = FifoInit(RxSize) /\ tx = FifoInit(TxSize)
  /\ txie = FALSE
  /\ rdr = Nothing /\ tdr = Nothing
  /\ pc = "idle" /\ left = 0 /\ got = Nothing

-----------------------------------------------------------------------------
(* serial_open.  The port starts with both interrupts enabled and nothing  *)
(* to send; a later open of the same port returns it as it is.             *)
Open ==
  /\ pc = "idle" /\ ~inited
  /\ inited' = TRUE
  /\ rx' = FifoInit(RxSize) /\ tx' = FifoInit(TxSize)
  /\ txie' = TRUE
  /\ UNCHANGED <<rdr, tdr, pc, left, got>>

(* serial_write(buf, len): the call, and the loop's exit. *)
WriteBegin(n) ==
  /\ pc = "idle" /\ inited
  /\ pc' = IF n = 0 THEN "enable" ELSE "queue"
  /\ left' = n
  /\ UNCHANGED <<inited, rx, tx, txie, rdr, tdr, got>>

(* Bug: the loop's exit returns without enabling the interrupt. *)
WriteByteNoEnable(c) ==
  /\ pc = "queue"
  /\ tx' = FifoWriteForce(tx, c)
  /\ left' = left - 1
  /\ pc' = IF left = 1 THEN "idle" ELSE pc
  /\ UNCHANGED <<inited, rx, txie, rdr, tdr, got>>

(* One turn of serial_write's loop: fifo_write_force(&tx_fifo, buf[i]). *)
WriteByte(c) ==
  /\ pc = "queue"
  /\ tx' = FifoWriteForce(tx, c)
  /\ left' = left - 1
  /\ pc' = IF left = 1 THEN "enable" ELSE pc
  /\ UNCHANGED <<inited, rx, txie, rdr, tdr, got>>

(* serial_enable_tx_int, after the loop. *)
EnableTx ==
  /\ pc = "enable"
  /\ txie' = TRUE
  /\ pc' = "idle"
  /\ UNCHANGED <<inited, rx, tx, rdr, tdr, left, got>>

(* serial_read: fifo_read's test, made with interrupts on.  On an empty    *)
(* buffer the call returns -1 and nothing changes.                         *)
ReadTest ==
  /\ pc = "idle" /\ inited
  /\ ~FifoIsEmpty(rx)
  /\ pc' = "take" /\ got' = Nothing
  /\ UNCHANGED <<inited, rx, tx, txie, rdr, tdr, left>>

(* fifo_read's section, which trusts the test. *)
ReadTake ==
  /\ pc = "take"
  /\ got' = FifoFront(rx)
  /\ rx' = FifoTake(rx)
  /\ pc' = "idle"
  /\ UNCHANGED <<inited, tx, txie, rdr, tdr, left>>

-----------------------------------------------------------------------------
(* serial_IRQHandler, first half: a received byte goes to the rx fifo.     *)
HandlerReceives ==
  IF rdr # Nothing
  THEN rx' = FifoWriteForce(rx, rdr) /\ rdr' = Nothing
  ELSE UNCHANGED <<rx, rdr>>

(* Bug: the handler disables the interrupt after every byte it sends. *)
HandlerSendsEager ==
  IF tdr # Nothing
  THEN UNCHANGED <<tx, tdr, txie>>
  ELSE IF FifoIsEmpty(tx)
       THEN txie' = FALSE /\ UNCHANGED <<tx, tdr>>
       ELSE /\ tdr' = FifoFront(tx) /\ tx' = FifoTake(tx)
            /\ txie' = FALSE

(* Bug: the handler does not look at the register flag first. *)
HandlerSendsBlindly ==
  IF FifoIsEmpty(tx)
  THEN txie' = FALSE /\ UNCHANGED <<tx, tdr>>
  ELSE tdr' = FifoFront(tx) /\ tx' = FifoTake(tx) /\ UNCHANGED txie

(* serial_IRQHandler, second half.  serial_tx_int looks at the register    *)
(* flag, not at the enable bit, so a receive interrupt also sends.         *)
HandlerSends ==
  IF tdr # Nothing
  THEN UNCHANGED <<tx, tdr, txie>>
  ELSE IF FifoIsEmpty(tx)
       THEN txie' = FALSE /\ UNCHANGED <<tx, tdr>>
       ELSE /\ tdr' = FifoFront(tx) /\ tx' = FifoTake(tx)
            /\ UNCHANGED txie

(* The USART requests service; the receive interrupt is always enabled. *)
Requested == inited /\ (rdr # Nothing \/ (txie /\ tdr = Nothing))

Interrupt ==
  /\ Requested
  /\ HandlerReceives /\ HandlerSends
  /\ UNCHANGED <<inited, pc, left, got>>

(* The wire: a byte arrives (into a register still full it is lost, which  *)
(* changes nothing here), and a byte leaves the transmit register.         *)
Arrive(c) ==
  /\ inited /\ rdr = Nothing
  /\ rdr' = c
  /\ UNCHANGED <<inited, rx, tx, txie, tdr, pc, left, got>>

Leave ==
  /\ tdr # Nothing
  /\ tdr' = Nothing
  /\ UNCHANGED <<inited, rx, tx, txie, rdr, pc, left, got>>

-----------------------------------------------------------------------------
Main == \/ Open
        \/ \E n \in 0 .. MaxLen : WriteBegin(n)
        \/ \E c \in Bytes : WriteByte(c)
        \/ EnableTx
        \/ ReadTest
        \/ ReadTake

Next == Main \/ Interrupt \/ (\E c \in Bytes : Arrive(c)) \/ Leave

(* A call that has begun goes on (the main loop is never suspended for     *)
(* good), a requested interrupt is served and a byte in the transmit       *)
(* register is shifted out.  Nothing obliges a call to be made or a byte   *)
(* to arrive.                                                              *)
Fairness ==
  /\ WF_vars(\E c \in Bytes : WriteByte(c))
  /\ WF_vars(EnableTx)
  /\ WF_vars(ReadTake)
  /\ WF_vars(Interrupt)
  /\ WF_vars(Leave)

Spec == Init /\ [][Next]_vars
FairSpec == Spec /\ Fairness
-----------------------------------------------------------------------------
(* Correctness.                                                            *)

(* The indexes of both rings agree after any interleaving of queuing,      *)
(* taking and dropping (fifo.c keeps head, tail and cnt separately, and    *)
(* the main loop and the handler each move two of the three).              *)
RingsOK == RingOK(rx) /\ RingOK(tx)

(* The emptiness test of serial_read is made with interrupts on and not    *)
(* repeated: when the section runs, the buffer still holds a byte, whatever *)
(* the handler did in between.                                             *)
TestStillHolds == pc = "take" => ~FifoIsEmpty(rx)

(* No lost wakeup: bytes waiting for transmission have the interrupt       *)
(* enabled, or a serial_write that has yet to enable it.                   *)
NoLostWakeup == ~FifoIsEmpty(tx) => txie \/ pc \in {"queue", "enable"}

(* Each direction is a bounded queue that drops its oldest byte: what      *)
(* serial_read returns is what arrived, in order, each byte at most once;  *)
(* what leaves on the wire is what serial_write was given, and no byte is  *)
(* written over one still in the transmit register.                        *)
RxChannel == INSTANCE ByteChannel
               WITH q <- Contents(rx), outlet <- got, Cap <- RxSize
TxChannel == INSTANCE ByteChannel
               WITH q <- Contents(tx), outlet <- tdr, Cap <- TxSize
RxIsChannel == RxChannel!Spec
TxIsChannel == TxChannel!Spec

(* Transmission goes on: while bytes wait, one always reaches the wire.    *)
TxFlows == ~FifoIsEmpty(tx) ~> tdr # Nothing
=============================================================================
