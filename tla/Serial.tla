------------------------------- MODULE Serial -------------------------------
(***************************************************************************)
(* Mikey's UART, the ComLynx port: src/serial.c.  The receive FIFO is the  *)
(* ring buffer of the code, rx_head = rx_tail meaning empty, so a ring of  *)
(* FifoSize cells holds FifoSize - 1 bytes.  An action is one call of the  *)
(* module's interface, made by the game through mikey_write/mikey_read or  *)
(* by the host.  The host calls are made from the thread that runs the     *)
(* game, so no two calls overlap.                                          *)
(*                                                                         *)
(* Abstractions: of SERCTL's control bits only TXINTEN and RXINTEN are     *)
(* ever read back by the code, and OVERRUN is the only error it ever sets; *)
(* the effect of lynx_serial_tx_hook is the host's and is left out here.   *)
(***************************************************************************)
EXTENDS Integers, Sequences

CONSTANTS
  Byte,      (* the values a byte can have *)
  FifoSize,  (* RXFIFO_SIZE, 256 in the code *)
  Slot,      (* names of save states the user can write and load *)
  NoSave     (* what a slot holds before it is first written *)

\* RXFIFO_SIZE is a power of two, which makes `& (RXFIFO_SIZE - 1)' the
\* remainder; what follows holds for every size above 1.
ASSUME FifoSizeAssumption == FifoSize \in Nat /\ FifoSize > 1
ASSUME ByteAssumption == 0 \in Byte

VARIABLES
  ctrl,        (* s.ctrl: which interrupts are armed *)
  status_err,  (* s.status_err: whether SERCTL_OVERRUN is set *)
  rx_fifo,     (* s.rx_fifo *)
  rx_head,     (* s.rx_head: the next byte to read *)
  rx_tail,     (* s.rx_tail: the next free cell *)
  irq,         (* bit 4 of lynx_irq_latch *)
  dat,         (* the value the last read of SERDAT returned *)
  saved        (* the save states written so far *)

vars == <<ctrl, status_err, rx_fifo, rx_head, rx_tail, irq, dat, saved>>

Cell == 0 .. FifoSize - 1
Ctrl == {"TXINTEN", "RXINTEN"}

\* The UART's part of a save state, and what it stands for in SerialQueue.
UartState ==
  [ctrl : SUBSET Ctrl, status_err : BOOLEAN, rx_fifo : [Cell -> Byte],
   rx_head : Cell, rx_tail : Cell, irq : BOOLEAN]
QueueState ==
  [q : Seq(Byte), ctrl : SUBSET Ctrl, overrun : BOOLEAN, irq : BOOLEAN]

ASSUME NoSaveAssumption == NoSave \notin UartState /\ NoSave \notin QueueState

\* A mutant, for the check of TypeOK: the index is not masked.
Advance_unmasked(i) == i + 1

Advance(i) == (i + 1) % FifoSize

Zeroed ==
  [ctrl |-> {}, status_err |-> FALSE, rx_fifo |-> [i \in Cell |-> 0],
   rx_head |-> 0, rx_tail |-> 0, irq |-> FALSE]

Init ==
  /\ ctrl = Zeroed.ctrl
  /\ status_err = Zeroed.status_err
  /\ rx_fifo = Zeroed.rx_fifo
  /\ rx_head = Zeroed.rx_head
  /\ rx_tail = Zeroed.rx_tail
  /\ irq = Zeroed.irq
  /\ dat = 0
  /\ saved = [s \in Slot |-> NoSave]

rx_empty == rx_head = rx_tail

\* The last statement of every receiver operation.
rx_service ==
  irq' = (irq \/ (rx_head' # rx_tail' /\ "RXINTEN" \in ctrl'))

\* A mutant: a byte that arrives does not interrupt.
rx_push_silent(b) ==
  IF Advance(rx_tail) = rx_head
  THEN status_err' = TRUE /\ UNCHANGED <<ctrl, rx_fifo, rx_head, rx_tail, irq, dat, saved>>
  ELSE /\ rx_fifo' = [rx_fifo EXCEPT ![rx_tail] = b]
       /\ rx_tail' = Advance(rx_tail)
       /\ UNCHANGED <<ctrl, status_err, rx_head, irq, dat, saved>>

\* lynx_serial_rx_push: the host delivers a byte from the link.
rx_push(b) ==
  IF Advance(rx_tail) = rx_head
  THEN /\ status_err' = TRUE
       /\ UNCHANGED <<ctrl, rx_fifo, rx_head, rx_tail, irq, dat, saved>>
  ELSE /\ rx_fifo' = [rx_fifo EXCEPT ![rx_tail] = b]
       /\ rx_tail' = Advance(rx_tail)
       /\ UNCHANGED <<ctrl, status_err, rx_head, dat, saved>>
       /\ rx_service

\* A mutant: a read that leaves bytes waiting does not interrupt again.
read_SERDAT_silent ==
  /\ dat' = IF rx_empty THEN 0 ELSE rx_fifo[rx_head]
  /\ rx_head' = IF rx_empty THEN rx_head ELSE Advance(rx_head)
  /\ UNCHANGED <<ctrl, status_err, rx_fifo, rx_tail, irq, saved>>

\* A read of SERDAT.
read_SERDAT ==
  IF rx_empty
  THEN /\ dat' = 0
       /\ UNCHANGED <<ctrl, status_err, rx_fifo, rx_head, rx_tail, irq, saved>>
  ELSE /\ dat' = rx_fifo[rx_head]
       /\ rx_head' = Advance(rx_head)
       /\ UNCHANGED <<ctrl, status_err, rx_fifo, rx_tail, saved>>
       /\ rx_service

\* What a read of SERCTL shows the game; the read changes nothing.
status ==
  {"TXRDY", "TXEMPTY"}
    \cup (IF rx_empty THEN {} ELSE {"RXRDY"})
    \cup (IF status_err THEN {"OVERRUN"} ELSE {})

\* A write of SERDAT: the byte is gone at once, so only the interrupt is left.
write_SERDAT ==
  /\ irq' = (irq \/ "TXINTEN" \in ctrl)
  /\ UNCHANGED <<ctrl, status_err, rx_fifo, rx_head, rx_tail, dat, saved>>

\* A write of SERCTL; reseterr is the RESETERR bit of the value.
write_SERCTL(c, reseterr) ==
  /\ ctrl' = c
  /\ status_err' = (status_err /\ ~reseterr)
  /\ UNCHANGED <<rx_fifo, rx_head, rx_tail, dat, saved>>
  /\ rx_service

\* lynx_irq_ack and lynx_irq_raise on the shared bit: the game's INTRST and
\* INTSET writes, and timer 4's underflow.
irq_ack ==
  /\ irq' = FALSE
  /\ UNCHANGED <<ctrl, status_err, rx_fifo, rx_head, rx_tail, dat, saved>>

irq_raise ==
  /\ irq' = TRUE
  /\ UNCHANGED <<ctrl, status_err, rx_fifo, rx_head, rx_tail, dat, saved>>

\* lynx_state_save and a load that finds a well-formed save: the UART's own
\* section, with the latch that the timer section carries.
state_save(s) ==
  /\ saved' = [saved EXCEPT ![s] =
       [ctrl |-> ctrl, status_err |-> status_err, rx_fifo |-> rx_fifo,
        rx_head |-> rx_head, rx_tail |-> rx_tail, irq |-> irq]]
  /\ UNCHANGED <<ctrl, status_err, rx_fifo, rx_head, rx_tail, irq, dat>>

\* A mutant: the two indices change places on their way through a save.
state_load_swapped(s) ==
  /\ saved[s] # NoSave
  /\ ctrl' = saved[s].ctrl
  /\ status_err' = saved[s].status_err
  /\ rx_fifo' = saved[s].rx_fifo
  /\ rx_head' = saved[s].rx_tail
  /\ rx_tail' = saved[s].rx_head
  /\ irq' = saved[s].irq
  /\ UNCHANGED <<dat, saved>>

state_load(s) ==
  /\ saved[s] # NoSave
  /\ ctrl' = saved[s].ctrl
  /\ status_err' = saved[s].status_err
  /\ rx_fifo' = saved[s].rx_fifo
  /\ rx_head' = saved[s].rx_head
  /\ rx_tail' = saved[s].rx_tail
  /\ irq' = saved[s].irq
  /\ UNCHANGED <<dat, saved>>

\* lynx_mikey_init: the UART's memset and the timers' clearing of the latch.
mikey_init ==
  /\ ctrl' = Zeroed.ctrl
  /\ status_err' = Zeroed.status_err
  /\ rx_fifo' = Zeroed.rx_fifo
  /\ rx_head' = Zeroed.rx_head
  /\ rx_tail' = Zeroed.rx_tail
  /\ irq' = Zeroed.irq
  /\ UNCHANGED <<dat, saved>>

Host == (\E b \in Byte : rx_push(b)) \/ mikey_init
             \/ \E s \in Slot : state_save(s) \/ state_load(s)

Game == read_SERDAT \/ write_SERDAT \/ irq_ack
          \/ \E c \in SUBSET Ctrl, reseterr \in BOOLEAN : write_SERCTL(c, reseterr)

Next == Host \/ Game \/ irq_raise

Spec == Init /\ [][Next]_vars

-----------------------------------------------------------------------------
\* The bytes the ring holds, oldest first, in a state of the UART.
Count(head, tail) == (tail - head) % FifoSize
Queued(fifo, head, tail) ==
  [i \in 1 .. Count(head, tail) |-> fifo[(head + i - 1) % FifoSize]]

rx_queue == Queued(rx_fifo, rx_head, rx_tail)

SavedQueue(u) ==
  IF u = NoSave THEN NoSave
  ELSE [q |-> Queued(u.rx_fifo, u.rx_head, u.rx_tail), ctrl |-> u.ctrl,
        overrun |-> u.status_err, irq |-> u.irq]

\* The variables keep the range the C declarations and the masks give them.
TypeOK ==
  /\ ctrl \subseteq Ctrl
  /\ status_err \in BOOLEAN
  /\ rx_fifo \in [Cell -> Byte]
  /\ rx_head \in Cell
  /\ rx_tail \in Cell
  /\ irq \in BOOLEAN
  /\ dat \in Byte
  /\ saved \in [Slot -> UartState \cup {NoSave}]

\* The UART is a first-in first-out queue of FifoSize - 1 bytes: no byte is
\* reordered, duplicated, lost without OVERRUN or returned after a wrap of the
\* indices, a load brings back the queue that was saved, and each receiver
\* event with a byte waiting and RXINTEN armed raises the latch.
Queue == INSTANCE SerialQueue
           WITH q <- rx_queue, overrun <- status_err, Capacity <- FifoSize - 1,
                saved <- [s \in Slot |-> SavedQueue(saved[s])]

ImplementsQueue == Queue!Spec

=============================================================================
