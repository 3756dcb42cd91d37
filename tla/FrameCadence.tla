---------------------------- MODULE FrameCadence ----------------------------
(***************************************************************************)
(* The frame interrupt a game's main loop waits on (timer.h, "frame        *)
(* cadence"): timer 0 counts lines on its own clock, timer 2 is linked to  *)
(* it and counts frames, both reload, and timer 2 interrupts.  The module  *)
(* puts a clock beside the timers of module Timer and asks whether the     *)
(* interrupt keeps to it: however the runtime slices time, whenever the    *)
(* game acknowledges, whatever it does with its other timers, and across   *)
(* save states.  Before it sets the two timers up the game plays with      *)
(* their registers, and the properties of Timer are checked there too.     *)
(***************************************************************************)
EXTENDS Timer

CONSTANTS
  LineBackup,   (* timer 0's backup: a line is LineBackup + 1 counts *)
  LineClock,    (* timer 0's clock *)
  FrameBackup,  (* timer 2's backup: a frame is FrameBackup + 1 lines *)
  Slot,         (* names of save states the host can write and load *)
  NoSave        (* what a slot holds before it is first written *)

ASSUME CadenceAssumption ==
  /\ {0, 2} \subseteq Timer
  /\ LineBackup \in 0 .. MaxCount
  /\ FrameBackup \in 0 .. MaxCount
  /\ LineClock \in 0 .. 6

VARIABLES
  framed,   (* the game has set up timers 0 and 2 and leaves them alone *)
  elapsed,  (* microseconds since the last frame was due *)
  saved,    (* the timers' part of each save state *)
  noted     (* elapsed, as each save state found it *)

cvars == <<vars, framed, elapsed, saved, noted>>

Line == (LineBackup + 1) * 2 ^ LineClock
Frame == (FrameBackup + 1) * Line

Free(backup, clock) ==
  [backup |-> backup, count |-> backup, ctlB |-> {},
   ctlA |-> [int |-> clock = 7, reload |-> TRUE, count |-> TRUE, clock |-> clock]]

CadenceInit ==
  /\ Init
  /\ framed = FALSE
  /\ saved = [s \in Slot |-> NoSave]
  /\ elapsed = 0
  /\ noted = [s \in Slot |-> 0]

\* The game's start code sets the two timers up before it touches any other.
SetUp ==
  /\ ~framed /\ Machine = Reset
  /\ reg' = [reg EXCEPT ![0] = Free(LineBackup, LineClock), ![2] = Free(FrameBackup, 7)]
  /\ framed' = TRUE
  /\ elapsed' = 0
  /\ UNCHANGED <<phase, lynx_irq_latch, saved, noted>>

Pass(us) ==
  /\ lynx_timer_step(us)
  /\ elapsed' = IF framed THEN (elapsed + us) % Frame ELSE 0
  /\ UNCHANGED <<framed, saved, noted>>

\* The registers travel in the save state's Mikey section, the phases and the
\* latch in its timer section.
state_save(s) ==
  /\ framed
  /\ saved' = [saved EXCEPT ![s] = Machine]
  /\ noted' = [noted EXCEPT ![s] = elapsed]
  /\ UNCHANGED <<reg, phase, lynx_irq_latch, framed, elapsed>>

\* A mutant: the phases are not restored.
state_load_phaseless(s) ==
  /\ saved[s] # NoSave
  /\ MachineBecomes([saved[s] EXCEPT !.phase = phase])
  /\ elapsed' = noted[s]
  /\ UNCHANGED <<framed, saved, noted>>

state_load(s) ==
  /\ saved[s] # NoSave
  /\ MachineBecomes(saved[s])
  /\ elapsed' = noted[s]
  /\ UNCHANGED <<framed, saved, noted>>

\* The game's other register writes and its handlers' acknowledgements.  Bound:
\* it plays with timers 0 and 2 before it sets them up, afterwards it restarts
\* the others, to run freely.
Writes ==
  /\ \/ ~framed /\ \E i \in {0, 2} : GameWrites(i)
     \/ ~framed /\ \E mask \in SUBSET {0, 2} : lynx_irq_raise(mask)
     \/ framed /\ \E i \in Timer \ {0, 2}, v \in 0 .. MaxCount : write_count(i, v)
     \/ framed /\ \E i \in Timer \ {0, 2}, c \in {c \in Control : c.reload} : write_ctlA(i, c)
     \/ \E mask \in SUBSET Timer : lynx_irq_ack(mask)
  /\ UNCHANGED <<framed, elapsed, saved, noted>>

\* The player restarts the game; bound: not after the first save.
Restart ==
  /\ saved = [s \in Slot |-> NoSave]
  /\ lynx_mikey_init
  /\ framed' = FALSE
  /\ elapsed' = 0
  /\ UNCHANGED <<saved, noted>>

CadenceNext ==
  \/ SetUp
  \/ \E us \in Us : Pass(us)
  \/ \E s \in Slot : state_save(s) \/ state_load(s)
  \/ Writes
  \/ Restart

CadenceSpec == CadenceInit /\ [][CadenceNext]_cvars

-----------------------------------------------------------------------------
\* The counters tell the time: what timers 0 and 2 hold is the part of the
\* frame that is left, to the microsecond.  Nothing drifts, not the rest of a
\* step that is no whole count, nor the lines a long step crosses.
CountersTellTheTime ==
  framed => Frame - elapsed
    = reg[2].count * Line + (reg[0].count + 1) * 2 ^ LineClock - phase[0]

\* The frame interrupt is raised by the step in which the frame is due, and by
\* no other.
FrameInterruptOnTime ==
  [][\A us \in Us : framed /\ Pass(us) =>
       (2 \in lynx_irq_latch' <=> 2 \in lynx_irq_latch \/ elapsed + us >= Frame)]_cvars

=============================================================================
