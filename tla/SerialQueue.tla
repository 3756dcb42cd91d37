---------------------------- MODULE SerialQueue ----------------------------
(***************************************************************************)
(* What Mikey's UART promises the game and the host, with no ring buffer:  *)
(* received bytes wait in a bounded first-in first-out queue, a byte that  *)
(* finds the queue full is refused and flagged, and every event at which   *)
(* a byte is waiting with receive interrupts armed raises the interrupt.   *)
(* Module Serial, the code of src/serial.c, is checked and proved to       *)
(* implement this specification.                                           *)
(***************************************************************************)
EXTENDS Integers, Sequences

CONSTANTS
  Byte,      (* the values a received byte can have *)
  Capacity,  (* how many unread bytes the UART can hold *)
  Slot,      (* names of save states the user can write and load *)
  NoSave     (* what a slot holds before it is first written *)

VARIABLES
  q,           (* received bytes the game has not read, oldest first *)
  ctrl,        (* which of the two interrupts are armed *)
  overrun,     (* a byte was lost since the errors were last reset *)
  irq,         (* the interrupt latch bit the UART shares with timer 4 *)
  dat,         (* the value the last read of SERDAT returned *)
  saved        (* the save states *)

vars == <<q, ctrl, overrun, irq, dat, saved>>

Init ==
  /\ q = <<>>
  /\ ctrl = {}
  /\ overrun = FALSE
  /\ irq = FALSE
  /\ dat = 0
  /\ saved = [s \in Slot |-> NoSave]

\* An event of the receiver: with a byte waiting and armed, it interrupts.
Service == irq' = (irq \/ (q' # <<>> /\ "RXINTEN" \in ctrl'))

Accept(b) ==
  /\ Len(q) < Capacity
  /\ q' = Append(q, b)
  /\ Service
  /\ UNCHANGED <<ctrl, overrun, dat, saved>>

Refuse ==
  /\ Len(q) = Capacity
  /\ overrun' = TRUE
  /\ UNCHANGED <<q, ctrl, irq, dat, saved>>

Take ==
  /\ q # <<>>
  /\ dat' = Head(q)
  /\ q' = Tail(q)
  /\ Service
  /\ UNCHANGED <<ctrl, overrun, saved>>

TakeNothing ==
  /\ q = <<>>
  /\ dat' = 0
  /\ UNCHANGED <<q, ctrl, overrun, irq, saved>>

Control(c, reset) ==
  /\ ctrl' = c
  /\ overrun' = (overrun /\ ~reset)
  /\ Service
  /\ UNCHANGED <<q, dat, saved>>

Transmit ==
  /\ irq' = (irq \/ "TXINTEN" \in ctrl)
  /\ UNCHANGED <<q, ctrl, overrun, dat, saved>>

\* Timer 4 or a write of INTSET sets the shared latch bit, INTRST clears it.
Latch ==
  /\ irq' \in BOOLEAN
  /\ UNCHANGED <<q, ctrl, overrun, dat, saved>>

Save(s) ==
  /\ saved' = [saved EXCEPT ![s] =
       [q |-> q, ctrl |-> ctrl, overrun |-> overrun, irq |-> irq]]
  /\ UNCHANGED <<q, ctrl, overrun, irq, dat>>

Load(s) ==
  /\ saved[s] # NoSave
  /\ q' = saved[s].q
  /\ ctrl' = saved[s].ctrl
  /\ overrun' = saved[s].overrun
  /\ irq' = saved[s].irq
  /\ UNCHANGED <<dat, saved>>

Reset ==
  /\ q' = <<>>
  /\ ctrl' = {}
  /\ overrun' = FALSE
  /\ irq' = FALSE
  /\ UNCHANGED <<dat, saved>>

Next ==
  \/ \E b \in Byte : Accept(b)
  \/ Refuse \/ Take \/ TakeNothing
  \/ \E c \in SUBSET {"TXINTEN", "RXINTEN"}, reset \in BOOLEAN : Control(c, reset)
  \/ Transmit \/ Latch \/ Reset
  \/ \E s \in Slot : Save(s) \/ Load(s)

Spec == Init /\ [][Next]_vars

=============================================================================
