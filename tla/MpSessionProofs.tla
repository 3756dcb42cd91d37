-------------------------- MODULE MpSessionProofs --------------------------
(***************************************************************************)
(* Proofs about module MpSession, for every set of descriptors and for     *)
(* both meanings of closing a listening socket.                            *)
(***************************************************************************)
EXTENDS MpSession, TLAPS

(* A worker that may still publish its socket, and one that has not yet    *)
(* decided how the session's attempt ends.                                 *)
Attempting == worker \in {"start", "accept", "accepted", "connect", "refused",
                          "connected", "publish"}
Undecided == Attempting \/ worker \in {"bad_address", "fail", "fail_close"}

(* Why the two threads do not meet over s_peer: until the attempt is over, *)
(* there is no peer to close or to lose.                                   *)
PeerUnset == Undecided => s_peer = NoSock
PeerInHand == main \in Losing \cup {"clear_peer"} => s_peer # NoSock

(* Why the state tells the menu the truth about the worker: an attempt is  *)
(* shown as one, and a live worker is never shown as idle.                 *)
AttemptShown == Undecided => s_state \in {"HOSTING", "CONNECTING"}
AliveShown == WorkerAlive => s_state # "IDLE"

(* Why no worker reaches the next session: the menu offers Host and Join   *)
(* only in states that a worker still attempting does not show.            *)
Replacing == \/ main = "window" /\ shown \in {"IDLE", "DISCONNECTED"}
             \/ main \in Disconnecting /\ goal \in {"host", "join"}
NoneAttempting == Replacing => ~Attempting
Cleared ==
  /\ main \in {"close_peer", "clear_peer", "wait", "ended", "host", "join"} => s_listen = NoSock
  /\ main \in {"wait", "ended"} /\ goal \in {"host", "join"} => s_peer = NoSock
  /\ main \in {"host", "join", "spawn"} => s_peer = NoSock
  /\ main \in {"ended", "host", "join", "spawn"} => worker = "none"
  /\ main = "spawn" => s_state \in {"HOSTING", "CONNECTING"} /\ ~s_cancel

IInv ==
  /\ TypeOK /\ OneWorker /\ SocketsOwned
  /\ PeerUnset /\ PeerInHand /\ AttemptShown /\ AliveShown /\ NoneAttempting /\ Cleared

(* The invariant survives the steps of the user, and of a failing link,    *)
(* which only the main thread notices.                                     *)
LEMMA UserStep == IInv /\ (User \/ LinkFails) => IInv'
<1> SUFFICES ASSUME IInv, User \/ LinkFails PROVE IInv'
  OBVIOUS
<1> USE NoSockAssumption DEF IInv, TypeOK, OneWorker, SocketsOwned, Held, HeldByMain, WorkerHolds,
      PeerUnset, PeerInHand, AttemptShown, AliveShown, NoneAttempting, Cleared,
      WorkerAlive, Attempting, Undecided, Replacing, Disconnecting, Losing,
      MpState, MainPc, WorkerPc, MainGoes, WorkerGoes, mp_disconnect
<1>1. CASE draw_window BY <1>1 DEF draw_window
<1>2. CASE no_button BY <1>2 DEF no_button
<1>3. CASE press_button
  <2>1. TypeOK' BY <1>3, ZenonT(60) DEF press_button
  <2>2. OneWorker' BY <1>3 DEF press_button
  <2>3. SocketsOwned' BY <1>3 DEF press_button
  <2>4. (PeerUnset /\ PeerInHand)' BY <1>3 DEF press_button
  <2>5. (AttemptShown /\ AliveShown)' BY <1>3 DEF press_button
  <2>6. (NoneAttempting /\ Cleared)' BY <1>3 DEF press_button
  <2> QED BY ONLY <2>1, <2>2, <2>3, <2>4, <2>5, <2>6 DEF IInv
<1>4. CASE mp_shutdown BY <1>4 DEF mp_shutdown
<1>5. CASE link_send_fails BY <1>5 DEF link_send_fails
<1>6. CASE link_recv_fails BY <1>6 DEF link_recv_fails
<1> QED BY ONLY User \/ LinkFails, <1>1, <1>2, <1>3, <1>4, <1>5, <1>6 DEF User, LinkFails

(* The invariant survives the steps of the main thread inside an mp_ function. *)
LEMMA MainStep == IInv /\ (Main) => IInv'
<1> SUFFICES ASSUME IInv, Main PROVE IInv'
  OBVIOUS
<1> USE NoSockAssumption DEF IInv, TypeOK, OneWorker, SocketsOwned, Held, HeldByMain, WorkerHolds,
      PeerUnset, PeerInHand, AttemptShown, AliveShown, NoneAttempting, Cleared,
      WorkerAlive, Attempting, Undecided, Replacing, Disconnecting, Losing,
      MpState, MainPc, WorkerPc, MainGoes, WorkerGoes
<1>1. CASE close_listen BY <1>1 DEF close_listen
<1>2. CASE close_peer BY <1>2 DEF close_peer
<1>3. CASE clear_peer BY <1>3 DEF clear_peer
<1>4. CASE wait_thread
  <2>1. TypeOK' BY <1>4, ZenonT(60) DEF wait_thread
  <2>2. OneWorker' BY <1>4 DEF wait_thread
  <2>3. SocketsOwned' BY <1>4 DEF wait_thread
  <2>4. (PeerUnset /\ PeerInHand)' BY <1>4 DEF wait_thread
  <2>5. (AttemptShown /\ AliveShown)' BY <1>4 DEF wait_thread
  <2>6. (NoneAttempting /\ Cleared)' BY <1>4 DEF wait_thread
  <2> QED BY ONLY <2>1, <2>2, <2>3, <2>4, <2>5, <2>6 DEF IInv
<1>5. CASE ended BY <1>5 DEF ended
<1>6. CASE mp_host
  <2>1. TypeOK' BY <1>6, ZenonT(60) DEF mp_host
  <2>2. OneWorker' BY <1>6 DEF mp_host
  <2>3. SocketsOwned' BY <1>6 DEF mp_host
  <2>4. (PeerUnset /\ PeerInHand)' BY <1>6 DEF mp_host
  <2>5. (AttemptShown /\ AliveShown)' BY <1>6 DEF mp_host
  <2>6. (NoneAttempting /\ Cleared)' BY <1>6 DEF mp_host
  <2> QED BY ONLY <2>1, <2>2, <2>3, <2>4, <2>5, <2>6 DEF IInv
<1>7. CASE mp_join BY <1>7 DEF mp_join
<1>8. CASE create_thread
  <2>1. TypeOK' BY <1>8, ZenonT(60) DEF create_thread
  <2>2. OneWorker' BY <1>8 DEF create_thread
  <2>3. SocketsOwned' BY <1>8 DEF create_thread
  <2>4. (PeerUnset /\ PeerInHand)' BY <1>8 DEF create_thread
  <2>5. (AttemptShown /\ AliveShown)' BY <1>8 DEF create_thread
  <2>6. (NoneAttempting /\ Cleared)' BY <1>8 DEF create_thread
  <2> QED BY ONLY <2>1, <2>2, <2>3, <2>4, <2>5, <2>6 DEF IInv
<1>9. CASE lose_peer
  <2>1. CASE main = "lost" BY <1>9, <2>1 DEF lose_peer
  <2>2. CASE main = "drop_peer" BY <1>9, <2>2 DEF lose_peer
  <2>3. CASE main = "forget_peer" BY <1>9, <2>3 DEF lose_peer
  <2> QED BY ONLY <1>9, <2>1, <2>2, <2>3 DEF lose_peer, MainGoes
<1> QED BY ONLY Main, <1>1, <1>2, <1>3, <1>4, <1>5, <1>6, <1>7, <1>8, <1>9 DEF Main

(* The invariant survives the steps of the worker and the peers it meets. *)
LEMMA WorkerStep == IInv /\ (Worker \/ Network) => IInv'
<1> SUFFICES ASSUME IInv, Worker \/ Network PROVE IInv'
  OBVIOUS
<1> USE NoSockAssumption DEF IInv, TypeOK, OneWorker, SocketsOwned, Held, HeldByMain, WorkerHolds,
      PeerUnset, PeerInHand, AttemptShown, AliveShown, NoneAttempting, Cleared,
      WorkerAlive, Attempting, Undecided, Replacing, Disconnecting, Losing,
      MpState, MainPc, WorkerPc, MainGoes, WorkerGoes, MainUnchanged, OnlyMoves
<1>1. CASE host_start BY <1>1 DEF host_start
<1>2. CASE accept_peer BY <1>2 DEF accept_peer
<1>3. CASE accept_error BY <1>3 DEF accept_error
<1>4. CASE accept_woken BY <1>4 DEF accept_woken, accept_error
<1>5. CASE host_check BY <1>5 DEF host_check
<1>6. CASE client_start BY <1>6 DEF client_start
<1>7. CASE connect_returns BY <1>7 DEF connect_returns
<1>8. CASE refused_check BY <1>8 DEF refused_check
<1>9. CASE client_check BY <1>9 DEF client_check
<1>10. CASE worker_fail BY <1>10 DEF worker_fail
<1>11. CASE worker_close BY <1>11 DEF worker_close
<1>12. CASE publish_peer BY <1>12 DEF publish_peer
<1>13. CASE announce BY <1>13 DEF announce
<1> QED BY ONLY Worker \/ Network, <1>1, <1>2, <1>3, <1>4, <1>5, <1>6, <1>7, <1>8, <1>9, <1>10, <1>11, <1>12, <1>13 DEF Worker, Network

-----------------------------------------------------------------------------
(* The invariant holds before the first session.                           *)
LEMMA InvInit == Init => IInv
BY NoSockAssumption
DEF Init, IInv, TypeOK, OneWorker, SocketsOwned, Held, HeldByMain, WorkerHolds,
    PeerUnset, PeerInHand, AttemptShown, AliveShown, NoneAttempting, Cleared,
    WorkerAlive, Attempting, Undecided, Replacing, Disconnecting, Losing,
    MpState, MainPc, WorkerPc

(* Every step of either thread preserves it.                               *)
LEMMA InvStep == IInv /\ [Next]_vars => IInv'
<1> SUFFICES ASSUME IInv, [Next]_vars PROVE IInv'
  OBVIOUS
<1>1. CASE UNCHANGED vars
  BY <1>1
  DEF vars, IInv, TypeOK, OneWorker, SocketsOwned, Held, HeldByMain, WorkerHolds,
      PeerUnset, PeerInHand, AttemptShown, AliveShown, NoneAttempting, Cleared,
      WorkerAlive, Attempting, Undecided, Replacing
<1> QED BY <1>1, UserStep, MainStep, WorkerStep DEF Next

(* Hence it always holds; the theorems below read off its parts.           *)
LEMMA Invariance == Spec => []IInv
<1> QED BY InvInit, InvStep, PTL DEF Spec

(* The ranges of the session's variables, and that a thread handle is held *)
(* exactly while there is a thread to wait for.                            *)
THEOREM SessionTypeCorrect == Spec => []TypeOK
<1>1. IInv => TypeOK BY DEF IInv
<1> QED BY <1>1, Invariance, PTL

(* The worker of an ended session never runs into the next one, whatever   *)
(* the interleaving of mp_disconnect with accept and connect.              *)
THEOREM OneWorkerAtATime == Spec => []OneWorker
<1>1. IInv => OneWorker BY DEF IInv
<1> QED BY <1>1, Invariance, PTL

(* No interleaving leaks a socket, closes one twice or closes one that was *)
(* reused, on either meaning of closing a listening socket.                *)
THEOREM SocketsHaveOneOwner == Spec => []SocketsOwned
<1>1. IInv => SocketsOwned BY DEF IInv
<1> QED BY <1>1, Invariance, PTL

(* A cancelled worker never brings an ended session back: in the idle      *)
(* state no worker is alive that could announce anything.                  *)
THEOREM IdleStaysIdle == Spec => IdleIsFinal
<1>1. IInv /\ [Next]_vars
        => [s_state = "IDLE" /\ s_state' \in {"HOSTING", "CONNECTING", "CONNECTED"}
              => main \in {"host", "join"}]_vars
  BY DEF IInv, AliveShown, WorkerAlive, Next, vars, User, LinkFails, Main, Worker, Network,
         draw_window, no_button, press_button, mp_disconnect, mp_shutdown, close_listen,
         close_peer, clear_peer, wait_thread, ended, mp_host, mp_join, create_thread,
         link_send_fails, link_recv_fails, lose_peer, MainGoes, WorkerGoes,
         MainUnchanged, OnlyMoves, host_start, accept_peer, accept_error, accept_woken,
         host_check, client_start, connect_returns, refused_check, client_check,
         worker_fail, worker_close, publish_peer, announce
<1> QED BY <1>1, Invariance, PTL DEF Spec, IdleIsFinal

=============================================================================
