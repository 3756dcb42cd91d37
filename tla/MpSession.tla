----------------------------- MODULE MpSession -----------------------------
(***************************************************************************)
(* The ComLynx netplay session: frontend/src/mp_session.c.  Two threads    *)
(* share the module's static variables without a lock: the main thread,    *)
(* which runs the user interface and the game and calls the mp_ functions, *)
(* and the worker that mp_host or mp_join creates to sit in accept or      *)
(* connect.  A step is one access to a shared variable, or one system      *)
(* call, of one of them; what a thread does before its partner exists is a *)
(* single step.                                                            *)
(*                                                                         *)
(* The variables are plain or volatile ints.  Their accesses are taken to  *)
(* be atomic and in program order, which the x86 builds give: each store   *)
(* the worker publishes with is separated by a call the compiler cannot    *)
(* see through.  The status text and the bytes of the link are left out;   *)
(* the failure of a send or receive is not.                                *)
(***************************************************************************)
EXTENDS Integers, FiniteSets

CONSTANTS
  Fd,               (* socket descriptors the system hands out; closed ones are reused *)
  NoSock,           (* SOCK_INVALID *)
  CloseWakesAccept  (* closing a listening socket makes a blocked accept return:
                       Winsock does, POSIX close does not *)

ASSUME NoSockAssumption == NoSock \notin Fd
ASSUME WakesAssumption == CloseWakesAccept \in BOOLEAN

VARIABLES
  s_state,    (* MpState, read by the user interface and by the net pump *)
  s_is_host,
  s_listen,   (* the listening socket *)
  s_peer,     (* the socket of the link *)
  s_thread,   (* whether a thread handle is held *)
  s_cancel,
  main,       (* where the main thread is: its loop, the menu or an mp_ function *)
  shown,      (* the state the multiplayer window read when it was last drawn *)
  goal,       (* which function called mp_disconnect: it, mp_host or mp_join *)
  worker,     (* where the worker is; "none" when no thread exists *)
  c,          (* the worker's local socket *)
  open        (* descriptors of this module the system holds open *)

vars == <<s_state, s_is_host, s_listen, s_peer, s_thread, s_cancel,
          main, shown, goal, worker, c, open>>

MpState == {"IDLE", "HOSTING", "CONNECTING", "CONNECTED", "DISCONNECTED"}
Disconnecting == {"close_listen", "close_peer", "clear_peer", "wait", "ended"}
Losing == {"lost", "drop_peer", "forget_peer"}
MainPc == {"ui", "window", "host", "join", "spawn"} \cup Disconnecting \cup Losing
WorkerPc == {"none", "start", "accept", "accepted", "connect", "refused", "bad_address",
             "connected", "fail", "fail_close", "close", "publish", "announce", "exited"}

Init ==
  /\ s_state = "IDLE"
  /\ s_is_host = FALSE
  /\ s_listen = NoSock
  /\ s_peer = NoSock
  /\ s_thread = FALSE
  /\ s_cancel = FALSE
  /\ main = "ui"
  /\ shown = "IDLE"
  /\ goal = "disconnect"
  /\ worker = "none"
  /\ c = NoSock
  /\ open = {}

MainGoes(from, to) == main = from /\ main' = to
WorkerGoes(from, to) == worker = from /\ worker' = to

-----------------------------------------------------------------------------
(* The main thread.                                                        *)

\* Drawing the multiplayer window reads the state, and the buttons it offers
\* depend on that reading.
draw_window ==
  /\ MainGoes("ui", "window")
  /\ shown' = s_state
  /\ UNCHANGED <<s_state, s_is_host, s_listen, s_peer, s_thread, s_cancel, goal, worker, c, open>>

no_button ==
  /\ MainGoes("window", "ui")
  /\ UNCHANGED <<s_state, s_is_host, s_listen, s_peer, s_thread, s_cancel,
                 shown, goal, worker, c, open>>

\* mp_disconnect, which mp_host and mp_join call first, begins by cancelling
\* the worker; g is the function that was called.
mp_disconnect(g) ==
  /\ goal' = g
  /\ s_cancel' = TRUE
  /\ UNCHANGED <<s_state, s_is_host, s_listen, s_peer, s_thread, shown, worker, c, open>>

press_button ==
  /\ MainGoes("window", "close_listen")
  /\ IF shown \in {"IDLE", "DISCONNECTED"}
     THEN mp_disconnect("host") \/ mp_disconnect("join")
     ELSE mp_disconnect("disconnect")

mp_shutdown == MainGoes("ui", "close_listen") /\ mp_disconnect("disconnect")

\* A mutant: the listening socket is left open.
close_listen_later ==
  /\ MainGoes("close_listen", "close_peer")
  /\ UNCHANGED <<s_state, s_is_host, s_listen, s_peer, s_thread, s_cancel, shown, goal, worker, c, open>>

close_listen ==
  /\ MainGoes("close_listen", "close_peer")
  /\ open' = open \ {s_listen}
  /\ s_listen' = NoSock
  /\ UNCHANGED <<s_state, s_is_host, s_peer, s_thread, s_cancel, shown, goal, worker, c>>

\* The test of s_peer, then sock_close, then the assignment: the worker may
\* publish its socket around them.
close_peer ==
  /\ IF s_peer # NoSock
     THEN MainGoes("close_peer", "clear_peer") /\ open' = open \ {s_peer}
     ELSE MainGoes("close_peer", "wait") /\ UNCHANGED open
  /\ UNCHANGED <<s_state, s_is_host, s_listen, s_peer, s_thread, s_cancel, shown, goal, worker, c>>

clear_peer ==
  /\ MainGoes("clear_peer", "wait")
  /\ s_peer' = NoSock
  /\ UNCHANGED <<s_state, s_is_host, s_listen, s_thread, s_cancel, shown, goal, worker, c, open>>

\* Mutants: the handle is kept after the wait; the thread is detached instead.
wait_thread_keeping ==
  /\ MainGoes("wait", "ended")
  /\ s_thread => worker = "exited"
  /\ worker' = IF s_thread THEN "none" ELSE worker
  /\ UNCHANGED <<s_state, s_is_host, s_listen, s_peer, s_thread, s_cancel, shown, goal, c, open>>

wait_thread_detaching ==
  /\ MainGoes("wait", "ended")
  /\ s_thread' = FALSE
  /\ UNCHANGED <<s_state, s_is_host, s_listen, s_peer, s_cancel, shown, goal, worker, c, open>>

\* SDL_WaitThread blocks until the worker has returned.
wait_thread ==
  /\ MainGoes("wait", "ended")
  /\ s_thread => worker = "exited"
  /\ worker' = IF s_thread THEN "none" ELSE worker
  /\ s_thread' = FALSE
  /\ UNCHANGED <<s_state, s_is_host, s_listen, s_peer, s_cancel, shown, goal, c, open>>

ended ==
  /\ MainGoes("ended", IF goal = "disconnect" THEN "ui" ELSE goal)
  /\ s_state' = "IDLE"
  /\ UNCHANGED <<s_is_host, s_listen, s_peer, s_thread, s_cancel, shown, goal, worker, c, open>>

\* mp_host after mp_disconnect: socket, bind and listen, any of which may fail.
mp_host ==
  /\ s_is_host' = TRUE
  /\ s_cancel' = FALSE
  /\ \/ /\ MainGoes("host", "spawn")
        /\ \E f \in Fd \ open : s_listen' = f /\ open' = open \cup {f}
        /\ s_state' = "HOSTING"
     \/ /\ MainGoes("host", "ui")
        /\ s_listen' = NoSock
        /\ UNCHANGED <<s_state, open>>
  /\ UNCHANGED <<s_peer, s_thread, shown, goal, worker, c>>

mp_join ==
  /\ MainGoes("join", "spawn")
  /\ s_is_host' = FALSE
  /\ s_cancel' = FALSE
  /\ s_state' = "CONNECTING"
  /\ UNCHANGED <<s_listen, s_peer, s_thread, shown, goal, worker, c, open>>

\* SDL_CreateThread; when it fails the state keeps what was announced.
create_thread ==
  /\ MainGoes("spawn", "ui")
  /\ \/ s_thread' = TRUE /\ worker' = "start"
     \/ s_thread' = FALSE /\ UNCHANGED worker
  /\ UNCHANGED <<s_state, s_is_host, s_listen, s_peer, s_cancel, shown, goal, c, open>>

\* mp_link_send fails, called for a SERDAT write of the game: it asks only
\* whether there is a peer.
link_send_fails ==
  /\ s_peer # NoSock
  /\ MainGoes("ui", "lost")
  /\ UNCHANGED <<s_state, s_is_host, s_listen, s_peer, s_thread, s_cancel, shown, goal, worker, c, open>>

\* mp_link_recv finds the peer gone, called by the net pump when connected.
link_recv_fails ==
  /\ s_state = "CONNECTED"
  /\ s_peer # NoSock
  /\ MainGoes("ui", "lost")
  /\ UNCHANGED <<s_state, s_is_host, s_listen, s_peer, s_thread, s_cancel, shown, goal, worker, c, open>>

\* What both do then: set_state, sock_close, forget the socket.
lose_peer ==
  \/ /\ MainGoes("lost", "drop_peer")
     /\ s_state' = "DISCONNECTED"
     /\ UNCHANGED <<s_is_host, s_listen, s_peer, s_thread, s_cancel, shown, goal, worker, c, open>>
  \/ /\ MainGoes("drop_peer", "forget_peer")
     /\ open' = open \ {s_peer}
     /\ UNCHANGED <<s_state, s_is_host, s_listen, s_peer, s_thread, s_cancel, shown, goal, worker, c>>
  \/ /\ MainGoes("forget_peer", "ui")
     /\ s_peer' = NoSock
     /\ UNCHANGED <<s_state, s_is_host, s_listen, s_thread, s_cancel, shown, goal, worker, c, open>>

User == draw_window \/ no_button \/ press_button \/ mp_shutdown
LinkFails == link_send_fails \/ link_recv_fails
Main == close_listen \/ close_peer \/ clear_peer \/ wait_thread \/ ended
          \/ mp_host \/ mp_join \/ create_thread \/ lose_peer

-----------------------------------------------------------------------------
(* The worker.                                                             *)

MainUnchanged == UNCHANGED <<s_is_host, s_listen, s_thread, s_cancel, main, shown, goal>>
OnlyMoves == MainUnchanged /\ UNCHANGED <<s_state, s_peer, c, open>>

\* The host enters accept, which fails at once on a socket already closed.
host_start ==
  /\ s_is_host
  /\ WorkerGoes("start", IF s_listen = NoSock THEN "accepted" ELSE "accept")
  /\ c' = NoSock
  /\ MainUnchanged /\ UNCHANGED <<s_state, s_peer, open>>

\* A peer connects.  On POSIX a blocked accept keeps its listening socket
\* alive, and still takes a connection after the main thread has closed it.
accept_peer ==
  /\ s_listen = NoSock => ~CloseWakesAccept
  /\ WorkerGoes("accept", "accepted")
  /\ \E f \in Fd \ open : c' = f /\ open' = open \cup {f}
  /\ MainUnchanged /\ UNCHANGED <<s_state, s_peer>>

\* accept returns without a socket: an error, or, where closing wakes it, the
\* main thread's close.
accept_error ==
  /\ WorkerGoes("accept", "accepted")
  /\ c' = NoSock
  /\ MainUnchanged /\ UNCHANGED <<s_state, s_peer, open>>

accept_woken == CloseWakesAccept /\ s_listen = NoSock /\ accept_error

\* A mutant: a worker that finds itself cancelled returns without closing.
host_check_leaking ==
  /\ WorkerGoes("accepted", IF s_cancel THEN "exited" ELSE IF c = NoSock THEN "fail" ELSE "publish")
  /\ OnlyMoves

\* The test of s_cancel after accept.
host_check ==
  /\ WorkerGoes("accepted", IF s_cancel THEN "close" ELSE IF c = NoSock THEN "fail" ELSE "publish")
  /\ OnlyMoves

\* The client: socket may fail, and inet_pton refuses a bad address, both
\* before connect.
client_start ==
  /\ ~s_is_host
  /\ \/ WorkerGoes("start", "fail") /\ c' = NoSock /\ UNCHANGED open
     \/ /\ \/ WorkerGoes("start", "connect")
           \/ WorkerGoes("start", "bad_address")
        /\ \E f \in Fd \ open : c' = f /\ open' = open \cup {f}
  /\ MainUnchanged /\ UNCHANGED <<s_state, s_peer>>

connect_returns ==
  /\ \/ WorkerGoes("connect", "connected")
     \/ WorkerGoes("connect", "refused")
  /\ OnlyMoves

\* A mutant: a refused connection is not reported.
refused_check_silent == WorkerGoes("refused", "close") /\ OnlyMoves

\* After a failed connect s_cancel is read first, then the state written.
refused_check ==
  /\ WorkerGoes("refused", IF s_cancel THEN "close" ELSE "fail_close")
  /\ OnlyMoves

\* The test of s_cancel after a successful connect.
client_check ==
  /\ WorkerGoes("connected", IF s_cancel THEN "close" ELSE "publish")
  /\ OnlyMoves

\* set_state(MP_DISCONNECTED) on a failure, with a socket left to close or not.
worker_fail ==
  /\ WorkerGoes("fail", "exited") \/ WorkerGoes("fail_close", "close")
  /\ s_state' = "DISCONNECTED"
  /\ MainUnchanged /\ UNCHANGED <<s_peer, c, open>>

\* sock_close of the worker's own socket; a bad address is reported after it.
worker_close ==
  /\ WorkerGoes("close", "exited") \/ WorkerGoes("bad_address", "fail")
  /\ open' = open \ {c}
  /\ c' = NoSock
  /\ MainUnchanged /\ UNCHANGED <<s_state, s_peer>>

\* s_peer = c, and only then set_state(MP_CONNECTED).
publish_peer ==
  /\ WorkerGoes("publish", "announce")
  /\ s_peer' = c
  /\ c' = NoSock
  /\ MainUnchanged /\ UNCHANGED <<s_state, open>>

announce ==
  /\ WorkerGoes("announce", "exited")
  /\ s_state' = "CONNECTED"
  /\ MainUnchanged /\ UNCHANGED <<s_peer, c, open>>

Network == accept_peer \/ accept_error
Worker == host_start \/ accept_woken \/ host_check \/ client_start \/ connect_returns
            \/ refused_check \/ client_check \/ worker_fail \/ worker_close
            \/ publish_peer \/ announce

Next == User \/ LinkFails \/ Main \/ Worker \/ Network

\* Each thread runs when it can.  connect returns in the end, if only by the
\* system's timeout, and accept returns when closing its socket wakes it; that
\* a peer ever arrives, or that the user presses a button, is not assumed.
Spec == Init /\ [][Next]_vars /\ WF_vars(Main) /\ WF_vars(Worker)

-----------------------------------------------------------------------------
(* Properties.                                                             *)

WorkerAlive == worker \notin {"none", "exited"}
WorkerHolds == worker \in {"accepted", "connect", "refused", "bad_address",
                           "connected", "fail_close", "close", "publish"}

\* Ranges; the thread handle is held exactly while there is a thread to join.
TypeOK ==
  /\ s_state \in MpState
  /\ s_is_host \in BOOLEAN
  /\ s_listen \in Fd \cup {NoSock}
  /\ s_peer \in Fd \cup {NoSock}
  /\ s_thread \in BOOLEAN
  /\ s_cancel \in BOOLEAN
  /\ main \in MainPc
  /\ shown \in MpState
  /\ goal \in {"disconnect", "host", "join"}
  /\ worker \in WorkerPc
  /\ c \in Fd \cup {NoSock}
  /\ open \subseteq Fd
  /\ s_thread = (worker # "none")

\* mp_disconnect waits for the worker, so its one s_cancel flag is enough: a
\* worker that runs while the main thread is outside mp_disconnect belongs to
\* the session in progress, which has not been cancelled, and while mp_host or
\* mp_join prepares the next session no worker is left that could see the flag
\* cleared again and go on.
OneWorker ==
  /\ WorkerAlive /\ main \notin Disconnecting => ~s_cancel /\ s_state # "IDLE"
  /\ main \in {"host", "join", "spawn"} => worker = "none"

\* Sockets are owned by exactly one holder: every descriptor the system holds
\* open is the listening socket, the peer or the worker's own, and these are
\* different.  So nothing leaks, and no sock_close ever hits a descriptor that
\* was closed before and may have been handed out again.
HeldByMain ==
  {s_listen} \cup (IF main \in {"clear_peer", "forget_peer"} THEN {} ELSE {s_peer})
Held == (HeldByMain \cup (IF WorkerHolds THEN {c} ELSE {})) \ {NoSock}

SocketsOwned ==
  /\ open = Held
  /\ s_listen # NoSock /\ s_peer # NoSock => s_listen # s_peer
  /\ WorkerHolds /\ c # NoSock => c \notin HeldByMain

\* From "no session" only the user's own host or join begins a session: a
\* worker of the ended one, which the main thread may have cancelled at any of
\* its steps, never brings it back.  (A socket it left behind may still fail,
\* which reads as "disconnected": see IdleHasNoPeer.)
IdleIsFinal ==
  [][s_state = "IDLE" /\ s_state' \in {"HOSTING", "CONNECTING", "CONNECTED"}
       => main \in {"host", "join"}]_vars

\* Pressing Disconnect, Host or Join always returns to the user interface.
DisconnectReturns == (main \in Disconnecting) ~> (main \notin Disconnecting)

\* A join is decided: it does not stay "connecting" for ever.
JoinIsDecided ==
  (s_state = "CONNECTING" /\ s_thread) ~> s_state \in {"CONNECTED", "DISCONNECTED", "IDLE"}

\* mp_session.h calls MP_IDLE "no session": back at the user interface in that
\* state, no peer is attached.
IdleHasNoPeer == main = "ui" /\ s_state = "IDLE" => s_peer = NoSock

=============================================================================
