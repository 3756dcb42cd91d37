-------------------------------- MODULE Cable --------------------------------
(***************************************************************************)
(* What two games may rely on of the ComLynx cable that frontend/src/net.c *)
(* makes of TCP: a queue in each direction, with no units, threads, TCP,   *)
(* pump or FIFO.  It loses bytes only behind as many unread ones as a UART *)
(* holds, and flags the loss.  Module Link, which has all of those, is     *)
(* checked and proved to implement it.                                     *)
(***************************************************************************)
EXTENDS Integers, Sequences

CONSTANTS
  Unit,      (* the two ends *)
  Capacity   (* unread bytes that are safe from loss *)

VARIABLES
  written,   (* how many bytes have been written to each unit, by its peer *)
  coming,    (* those that its game has not read and that are not lost *)
  read,      (* the last byte its game has read, 0 before the first *)
  lost       (* whether a byte to it has been lost *)

vars == <<written, coming, read, lost>>

Init ==
  /\ written = [u \in Unit |-> 0]
  /\ coming = [u \in Unit |-> <<>>]
  /\ read = [u \in Unit |-> 0]
  /\ lost = [u \in Unit |-> FALSE]

\* A byte is its number in the order they are written.
Write(u) ==
  /\ written' = [written EXCEPT ![u] = @ + 1]
  /\ coming' = [coming EXCEPT ![u] = Append(@, written[u] + 1)]
  /\ UNCHANGED <<read, lost>>

Read(u) ==
  /\ coming[u] # <<>>
  /\ read' = [read EXCEPT ![u] = Head(coming[u])]
  /\ coming' = [coming EXCEPT ![u] = Tail(@)]
  /\ UNCHANGED <<written, lost>>

\* The n bytes that follow the first Capacity ones are lost.
Without(s, n) == SubSeq(s, 1, Capacity) \o SubSeq(s, Capacity + n + 1, Len(s))

Lose(u) ==
  /\ \E n \in 1 .. Len(coming[u]) - Capacity :
       coming' = [coming EXCEPT ![u] = Without(@, n)]
  /\ lost' = [lost EXCEPT ![u] = TRUE]
  /\ UNCHANGED <<written, read>>

Next == \E u \in Unit : Write(u) \/ Read(u) \/ Lose(u)

Spec == Init /\ [][Next]_vars
=============================================================================
