--------------------------- MODULE MCFrameCadence ---------------------------
(***************************************************************************)
(* Values of FrameCadence's constants for TLC: what the game writes to the *)
(* control A register of a timer it owns.                                  *)
(***************************************************************************)
EXTENDS FrameCadence

Running(clock) == [int |-> TRUE, reload |-> TRUE, count |-> TRUE, clock |-> clock]

\* Free-running, linked, and a single shot with no interrupt.
MCControl ==
  {Running(0), Running(7), [Running(1) EXCEPT !.reload = FALSE, !.int = FALSE]}

=============================================================================
