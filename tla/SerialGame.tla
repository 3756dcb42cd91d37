----------------------------- MODULE SerialGame -----------------------------
(***************************************************************************)
(* A game receiving over ComLynx by interrupt: module Serial composed with *)
(* the runtime's interrupt delivery (src/recomp_exec.c) and with the       *)
(* game's interrupt handler, which acknowledges the shared latch bit       *)
(* through INTRST and then reads one byte if SERCTL shows RXRDY.  The      *)
(* handler is the game's, not the repository's: one that read first and    *)
(* acknowledged afterwards would clear the interrupt of the bytes left.    *)
(* The host's net pump runs in a frame hook, which the game can reach      *)
(* anywhere it flips the display, the handler included, so bytes arrive    *)
(* between any two steps.  The player saves, loads and restarts while the  *)
(* main program runs: what a load inside a handler does is module Exec's.  *)
(***************************************************************************)
EXTENDS Serial

CONSTANT MaxBytes  (* bound: how many bytes the peer sends *)

ASSUME MaxBytesAssumption == MaxBytes \in Nat

VARIABLES
  pc,      (* where the game's code is: its main program or its handler *)
  i,       (* lynx_cpu.i: interrupts are masked *)
  unsent   (* how many bytes the peer has still to send *)

game == <<pc, i, unsent>>
gvars == <<ctrl, status_err, rx_fifo, rx_head, rx_tail, irq, dat, saved, pc, i, unsent>>

GameInit ==
  /\ Init
  /\ pc = "main"
  /\ i = FALSE
  /\ unsent = MaxBytes

Goto(from, to) == pc = from /\ pc' = to

\* lynx_net_pump hands the UART one byte that has arrived from the peer.
Deliver(b) ==
  /\ unsent > 0
  /\ rx_push(b)
  /\ unsent' = unsent - 1
  /\ UNCHANGED <<pc, i>>

\* The loop back-edge: a pending unmasked interrupt calls the handler.
TickDeliver ==
  /\ irq /\ ~i
  /\ Goto("main", "entry")
  /\ i' = TRUE
  /\ UNCHANGED <<ctrl, status_err, rx_fifo, rx_head, rx_tail, irq, dat, saved, unsent>>

HandlerAck ==
  /\ Goto("entry", "acked")
  /\ irq_ack
  /\ UNCHANGED <<i, unsent>>

HandlerRead ==
  /\ Goto("acked", "done")
  /\ IF "RXRDY" \in status
     THEN read_SERDAT
     ELSE UNCHANGED vars
  /\ UNCHANGED <<i, unsent>>

\* lynx_rti restores the flags the delivery pushed, I clear among them.
HandlerRti ==
  /\ Goto("done", "main")
  /\ i' = FALSE
  /\ UNCHANGED <<ctrl, status_err, rx_fifo, rx_head, rx_tail, irq, dat, saved, unsent>>

\* The main program arms and disarms the interrupts and transmits.
MainControl ==
  /\ pc = "main"
  /\ \E c \in SUBSET Ctrl, reseterr \in BOOLEAN : write_SERCTL(c, reseterr)
  /\ UNCHANGED game

MainTransmit ==
  /\ pc = "main"
  /\ write_SERDAT
  /\ UNCHANGED game

\* Timer 4 underflows with its own interrupt enabled.
Timer4 ==
  /\ irq_raise
  /\ UNCHANGED game

\* lynx_state_save, lynx_state_load and lynx_mikey_init, by the player's menu.
HostSave(s) == pc = "main" /\ state_save(s) /\ UNCHANGED game
HostLoad(s) == pc = "main" /\ state_load(s) /\ UNCHANGED game
HostRestart == pc = "main" /\ mikey_init /\ UNCHANGED game

HostLoads == \E s \in Slot : HostLoad(s)

Handler == TickDeliver \/ HandlerAck \/ HandlerRead \/ HandlerRti

GameNext == (\E b \in Byte : Deliver(b)) \/ Handler
              \/ MainControl \/ MainTransmit \/ Timer4
              \/ (\E s \in Slot : HostSave(s)) \/ HostLoads \/ HostRestart

\* The handler runs to its end, and the main program's loops tick for ever.
GameSpec == GameInit /\ [][GameNext]_gvars /\ WF_gvars(Handler)

-----------------------------------------------------------------------------
\* No wake-up is lost: whenever the game is in its main program with receive
\* interrupts armed and a byte waiting, the interrupt that will make it read
\* the byte is pending.  It rests on rx_service being called by every receiver
\* event, the read of one byte of several included (serial.c: "keep the
\* receiver flagged + interrupting"), and on a save state's carrying the latch
\* along with the FIFO, in another of its sections.
ReceiverKeepsInterrupting ==
  pc = "main" /\ ~rx_empty /\ "RXINTEN" \in ctrl => irq

\* Every byte that entered the FIFO is read, unless the game disarms or the
\* player loads again and again.
WaitingBytesAreRead ==
  \/ []<><<HostLoads>>_gvars
  \/ ~rx_empty ~> (rx_empty \/ "RXINTEN" \notin ctrl)

=============================================================================
