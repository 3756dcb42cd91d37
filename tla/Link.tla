-------------------------------- MODULE Link --------------------------------
(***************************************************************************)
(* The ComLynx cable made of TCP: two units, each running its game, its    *)
(* UART (module SerialQueue, which module Serial implements), the bridge   *)
(* of frontend/src/net.c and the relay half of frontend/src/mp_session.c,  *)
(* joined by one TCP connection that stays up.                             *)
(*                                                                         *)
(* Each unit is one thread.  A byte the game writes to SERDAT goes to TCP  *)
(* at once, in a send that blocks while TCP has no room.  Bytes come in    *)
(* when the frame hook pumps, which drains TCP into the UART's FIFO.  A    *)
(* byte is its number in the order the peer sent them.                     *)
(***************************************************************************)
EXTENDS Integers, Sequences

CONSTANTS
  Unit,      (* the two units *)
  Capacity,  (* unread bytes a UART can hold, 255 *)
  Pipe,      (* bytes TCP holds in one direction: the two sockets' buffers *)
  Chunk,     (* the pump's buffer, 256 bytes *)
  MaxSent    (* bound: bytes a game sends *)

ASSUME UnitAssumption == \E u, v \in Unit : u # v /\ Unit = {u, v}
ASSUME SizeAssumption == {Capacity, Pipe, Chunk, MaxSent} \subseteq Nat \ {0}

Peer(u) == CHOOSE v \in Unit : v # u

VARIABLES
  at,       (* what each unit's thread is doing: its game, a send, or a pump *)
  sent,     (* how many bytes each game has written to SERDAT *)
  pipe,     (* bytes in TCP on their way to each unit, oldest first *)
  q,        (* each UART's queue of received bytes *)
  overrun,  (* each UART's OVERRUN flag *)
  read      (* the last byte each game has read, 0 before the first *)

vars == <<at, sent, pipe, q, overrun, read>>

Init ==
  /\ at = [u \in Unit |-> "game"]
  /\ sent = [u \in Unit |-> 0]
  /\ pipe = [u \in Unit |-> <<>>]
  /\ q = [u \in Unit |-> <<>>]
  /\ overrun = [u \in Unit |-> FALSE]
  /\ read = [u \in Unit |-> 0]

Goes(u, from, to) == at[u] = from /\ at' = [at EXCEPT ![u] = to]

\* The game writes SERDAT: tx_to_link, mp_link_send and send_all.
tx_to_link(u) ==
  /\ sent[u] < MaxSent
  /\ Goes(u, "game", "send")
  /\ sent' = [sent EXCEPT ![u] = @ + 1]
  /\ UNCHANGED <<pipe, q, overrun, read>>

\* send returns when TCP has taken the byte.
send_all(u) ==
  /\ Goes(u, "send", "game")
  /\ Len(pipe[Peer(u)]) < Pipe
  /\ pipe' = [pipe EXCEPT ![Peer(u)] = Append(@, sent[u])]
  /\ UNCHANGED <<sent, q, overrun, read>>

Min(m, n) == IF m < n THEN m ELSE n

\* A mutant: an overrun is not flagged.
Pumps_unflagged(u, n, kept) ==
  /\ Goes(u, "game", IF n = Chunk THEN "pump" ELSE "game")
       \/ Goes(u, "pump", IF n = Chunk THEN "pump" ELSE "game")
  /\ pipe' = [pipe EXCEPT ![u] = SubSeq(@, n + 1, Len(@))]
  /\ q' = [q EXCEPT ![u] = @ \o SubSeq(pipe[u], 1, kept)]
  /\ UNCHANGED <<overrun, sent, read>>

\* mp_link_recv returns n bytes, of which the UART keeps so many.
Pumps(u, n, kept) ==
  /\ Goes(u, "game", IF n = Chunk THEN "pump" ELSE "game")
       \/ Goes(u, "pump", IF n = Chunk THEN "pump" ELSE "game")
  /\ pipe' = [pipe EXCEPT ![u] = SubSeq(@, n + 1, Len(@))]
  /\ q' = [q EXCEPT ![u] = @ \o SubSeq(pipe[u], 1, kept)]
  /\ overrun' = [overrun EXCEPT ![u] = @ \/ kept < n]
  /\ UNCHANGED <<sent, read>>

\* Mutants: the UART takes every byte; the pump waits for a whole chunk.
lynx_net_pump_unbounded(u) ==
  LET n == Min(Len(pipe[u]), Chunk) IN Pumps(u, n, n)

lynx_net_pump_whole(u) ==
  Len(pipe[u]) >= Chunk /\ Pumps(u, Chunk, Min(Chunk, Capacity - Len(q[u])))

\* A mutant: a chunk that does not fit the FIFO is refused as a whole.
lynx_net_pump_refusing(u) ==
  LET n == Min(Len(pipe[u]), Chunk)
  IN  Pumps(u, n, IF n <= Capacity - Len(q[u]) THEN n ELSE 0)

\* One turn of lynx_net_pump's loop: it takes what TCP has, up to a chunk, and
\* pushes it byte by byte; those that find the FIFO full are refused.  A full
\* chunk makes it ask again before the game goes on.
lynx_net_pump(u) ==
  LET n == Min(Len(pipe[u]), Chunk)
  IN  Pumps(u, n, Min(n, Capacity - Len(q[u])))

\* The game reads a byte from SERDAT.
read_SERDAT(u) ==
  /\ at[u] = "game"
  /\ q[u] # <<>>
  /\ read' = [read EXCEPT ![u] = Head(q[u])]
  /\ q' = [q EXCEPT ![u] = Tail(@)]
  /\ UNCHANGED <<at, sent, pipe, overrun>>

Next == \E u \in Unit : tx_to_link(u) \/ send_all(u) \/ lynx_net_pump(u) \/ read_SERDAT(u)

\* Each game flips its display again and again, and reads what has come.
Fairness ==
  \A u \in Unit :
    WF_vars(send_all(u)) /\ WF_vars(lynx_net_pump(u)) /\ WF_vars(read_SERDAT(u))

Spec == Init /\ [][Next]_vars /\ Fairness

-----------------------------------------------------------------------------
TypeOK ==
  /\ at \in [Unit -> {"game", "send", "pump"}]
  /\ sent \in [Unit -> 0 .. MaxSent]
  /\ pipe \in [Unit -> Seq(1 .. MaxSent)]
  /\ q \in [Unit -> Seq(1 .. MaxSent)]
  /\ \A u \in Unit : Len(pipe[u]) <= Pipe /\ Len(q[u]) <= Capacity
  /\ overrun \in [Unit -> BOOLEAN]
  /\ read \in [Unit -> 0 .. MaxSent]

\* The bytes the peer has sent, as far as they can be seen from unit u: the
\* last one read, those in its FIFO, those in TCP, the one being sent.
Stream(u) ==
  <<read[u]>> \o q[u] \o pipe[u]
    \o (IF at[Peer(u)] = "send" THEN <<sent[Peer(u)]>> ELSE <<>>)

\* Across the two threads, the pump's chunks and the FIFO, no byte is ever
\* overtaken or duplicated.  (ImplementsCable, below, says so of every step.)
InOrder ==
  \A u \in Unit : \A m, n \in 1 .. Len(Stream(u)) :
    m < n => Stream(u)[m] < Stream(u)[n]

\* A byte that does not reach the game is missed: nothing is lost between the
\* one game's write and the other's read without OVERRUN.
Complete(u) ==
  /\ \A m \in 1 .. Len(Stream(u)) : Stream(u)[m] = read[u] + m - 1
  /\ Stream(u)[Len(Stream(u))] = sent[Peer(u)]
NoSilentLoss == \A u \in Unit : ~overrun[u] => Complete(u)

\* Each step of the units, wherever it leaves a byte, is for the two games a step
\* of a plain queue, which loses bytes only behind a full FIFO's worth of unread
\* ones: the FIFO's refusals, byte by byte, and the pump's chunks do no harm to
\* what is ahead of the bytes refused or behind them.
OnTheWay(u) ==
  q[u] \o pipe[u] \o (IF at[Peer(u)] = "send" THEN <<sent[Peer(u)]>> ELSE <<>>)
Wire == INSTANCE Cable WITH
  written <- [u \in Unit |-> sent[Peer(u)]],
  coming <- [u \in Unit |-> OnTheWay(u)],
  lost <- overrun
ImplementsCable == Wire!Spec

\* What is sent arrives, or is flagged as lost.
SentIsRead ==
  \A u \in Unit : \A n \in 1 .. MaxSent :
    sent[Peer(u)] = n ~> read[u] >= n \/ overrun[u]

\* mp_session.h says of mp_link_send and mp_link_recv "Both are non-blocking".
SendReturns == \A u \in Unit : at[u] = "send" ~> at[u] = "game"

=============================================================================
