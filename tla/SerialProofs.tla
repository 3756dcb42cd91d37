---------------------------- MODULE SerialProofs ----------------------------
(***************************************************************************)
(* Proofs about the UART: its types, that the ring buffer is a first-in    *)
(* first-out queue (Serial implements SerialQueue), and that a handler     *)
(* that acknowledges before it reads loses no wake-up, for every FIFO      *)
(* size above 1, every set of bytes and any number of save slots.          *)
(***************************************************************************)
EXTENDS SerialGame, SequenceTheorems, TLAPS

USE FifoSizeAssumption, ByteAssumption DEF Cell

-----------------------------------------------------------------------------
(* The arithmetic of the ring.                                             *)

LEMMA AdvanceCell ==
  ASSUME NEW k \in Cell
  PROVE  /\ Advance(k) \in Cell
         /\ Advance(k) = IF k + 1 = FifoSize THEN 0 ELSE k + 1
  BY DEF Advance

LEMMA CountCell ==
  ASSUME NEW h \in Cell, NEW t \in Cell
  PROVE  /\ Count(h, t) \in 0 .. FifoSize - 1
         /\ Count(h, t) = IF t < h THEN t - h + FifoSize ELSE t - h
  BY DEF Count

LEMMA CellAfter ==
  ASSUME NEW h \in Cell, NEW k \in Cell
  PROVE  /\ (h + k) % FifoSize \in Cell
         /\ (h + k) % FifoSize = IF h + k >= FifoSize THEN h + k - FifoSize ELSE h + k
  OBVIOUS

LEMMA QueuedType ==
  ASSUME NEW fifo \in [Cell -> Byte], NEW h \in Cell, NEW t \in Cell
  PROVE  /\ Queued(fifo, h, t) \in Seq(Byte)
         /\ Len(Queued(fifo, h, t)) = Count(h, t)
         /\ \A k \in 1 .. Count(h, t) :
              Queued(fifo, h, t)[k] = fifo[(h + k - 1) % FifoSize]
         /\ Queued(fifo, h, t) = <<>> <=> h = t
<1> DEFINE n == Count(h, t)
           s == Queued(fifo, h, t)
<1>1. n \in 0 .. FifoSize - 1 /\ (n = 0 <=> h = t)
  <2>1. n \in 0 .. FifoSize - 1 /\ n = IF t < h THEN t - h + FifoSize ELSE t - h
    BY ONLY h \in Cell, t \in Cell, CountCell
  <2> HIDE DEF n
  <2> QED BY <2>1
<1>2. \A k \in 1 .. n : fifo[(h + k - 1) % FifoSize] \in Byte
  <2>1. SUFFICES ASSUME NEW k \in 1 .. n
                 PROVE  fifo[(h + k - 1) % FifoSize] \in Byte
    OBVIOUS
  <2>2. k - 1 \in Cell /\ h + k - 1 = h + (k - 1)
    BY <1>1, <2>1
  <2>3. (h + (k - 1)) % FifoSize \in Cell
    BY <2>2, CellAfter
  <2> QED BY <2>2, <2>3
<1>3. s = [k \in 1 .. n |-> fifo[(h + k - 1) % FifoSize]]
  BY DEF Queued
<1> HIDE DEF n, s
<1>4. s \in Seq(Byte) /\ Len(s) = n
  BY <1>1, <1>2, <1>3
<1>5. s = <<>> <=> n = 0
  BY <1>4
<1> QED BY <1>1, <1>3, <1>4, <1>5 DEF n, s

\* A full ring: advancing the tail would make it meet the head.
LEMMA FullRing ==
  ASSUME NEW h \in Cell, NEW t \in Cell
  PROVE  Count(h, t) = FifoSize - 1 <=> Advance(t) = h
<1>1. Count(h, t) = IF t < h THEN t - h + FifoSize ELSE t - h
  BY CountCell
<1>2. Advance(t) = IF t + 1 = FifoSize THEN 0 ELSE t + 1
  BY AdvanceCell
<1> QED BY <1>1, <1>2

\* Storing at the tail of a ring that is not full appends to its queue.
LEMMA PushAppends ==
  ASSUME NEW fifo \in [Cell -> Byte], NEW h \in Cell, NEW t \in Cell, NEW b \in Byte,
         Advance(t) # h
  PROVE  Queued([fifo EXCEPT ![t] = b], h, Advance(t)) = Append(Queued(fifo, h, t), b)
<1> DEFINE fifo2 == [fifo EXCEPT ![t] = b]
           s == Queued(fifo, h, t)
           s2 == Queued(fifo2, h, Advance(t))
           n == Count(h, t)
<1>1. fifo2 \in [Cell -> Byte] /\ Advance(t) \in Cell
  BY AdvanceCell
<1>2. n \in 0 .. FifoSize - 1 /\ Count(h, Advance(t)) = n + 1
  <2>1. n \in 0 .. FifoSize - 1 /\ n = IF t < h THEN t - h + FifoSize ELSE t - h
    BY CountCell
  <2>2. Count(h, Advance(t))
          = IF Advance(t) < h THEN Advance(t) - h + FifoSize ELSE Advance(t) - h
    BY <1>1, CountCell
  <2>3. Advance(t) = IF t + 1 = FifoSize THEN 0 ELSE t + 1
    BY AdvanceCell
  <2>4. /\ FifoSize \in Nat \ {0} /\ h \in 0 .. FifoSize - 1 /\ t \in 0 .. FifoSize - 1
        /\ Advance(t) # h
    BY <1>1
  <2> HIDE DEF n
  <2>5. CASE t + 1 = FifoSize
    BY ONLY <2>1, <2>2, <2>3, <2>4, <2>5
  <2>6. CASE t + 1 # FifoSize
    BY ONLY <2>1, <2>2, <2>3, <2>4, <2>6
  <2> QED BY <2>5, <2>6
<1>3. /\ s \in Seq(Byte) /\ Len(s) = n
      /\ \A k \in 1 .. n : s[k] = fifo[(h + k - 1) % FifoSize]
  BY QueuedType, ZenonT(60)
<1>4. /\ s2 \in Seq(Byte) /\ Len(s2) = n + 1
      /\ \A k \in 1 .. n + 1 : s2[k] = fifo2[(h + k - 1) % FifoSize]
  <2>1. /\ s2 \in Seq(Byte) /\ Len(s2) = Count(h, Advance(t))
        /\ \A k \in 1 .. Count(h, Advance(t)) : s2[k] = fifo2[(h + k - 1) % FifoSize]
    <3> DEFINE t2 == Advance(t)
    <3>0. fifo2 \in [Cell -> Byte]
      BY <1>1
    <3>1. t2 \in Cell
      BY <1>1
    <3> HIDE DEF fifo2, t2, Cell
    <3>2. /\ Queued(fifo2, h, t2) \in Seq(Byte)
          /\ Len(Queued(fifo2, h, t2)) = Count(h, t2)
          /\ \A k \in 1 .. Count(h, t2) :
                Queued(fifo2, h, t2)[k] = fifo2[(h + k - 1) % FifoSize]
      BY ONLY <3>0, <3>1, h \in Cell, QueuedType, SMTT(60)
    <3> QED BY <3>2 DEF t2
  <2> HIDE DEF n, s2, fifo2
  <2> QED BY <2>1, <1>2
<1>5. ASSUME NEW k \in 1 .. n + 1
      PROVE  /\ (h + k - 1) % FifoSize \in Cell
             /\ (h + k - 1) % FifoSize = t <=> k = n + 1
  <2>1. k - 1 \in Cell /\ h + k - 1 = h + (k - 1) /\ n \in Cell
    BY <1>2, <1>5, <1>1, CountCell
  <2>2. /\ (h + (k - 1)) % FifoSize \in Cell
        /\ (h + (k - 1)) % FifoSize
             = IF h + (k - 1) >= FifoSize THEN h + (k - 1) - FifoSize ELSE h + (k - 1)
    BY <2>1, CellAfter
  <2>3. n = IF t < h THEN t - h + FifoSize ELSE t - h
    BY CountCell
  <2> QED BY <2>1, <2>2, <2>3, <1>2 DEF n
<1> HIDE DEF n, s, s2, fifo2
<1>6. ASSUME NEW k \in 1 .. n + 1
      PROVE  s2[k] = Append(s, b)[k]
  <2>1. CASE k = n + 1
    <3>1. s2[k] = fifo2[t]
      BY <2>1, <1>2, <1>4, <1>5
    <3>2. fifo2[t] = b
      BY DEF fifo2
    <3>3. Append(s, b)[n + 1] = b
      BY <1>3, AppendProperties
    <3> QED BY <2>1, <3>1, <3>2, <3>3
  <2>2. CASE k # n + 1
    <3>1. k \in 1 .. n
      BY <1>2, <2>2
    <3>2. s2[k] = fifo[(h + k - 1) % FifoSize]
      BY <2>2, <1>4, <1>5 DEF fifo2
    <3> QED BY <3>1, <3>2, <1>2, <1>3
  <2> QED BY <2>1, <2>2
<1>7. Append(s, b) \in Seq(Byte) /\ Len(Append(s, b)) = n + 1
  BY <1>3
<1>8. s2 = Append(s, b)
  BY <1>2, <1>4, <1>6, <1>7, SeqEqual
<1> QED BY <1>8 DEF s, s2, fifo2

\* Reading at the head removes the oldest byte.
LEMMA PopTakesHead ==
  ASSUME NEW fifo \in [Cell -> Byte], NEW h \in Cell, NEW t \in Cell, h # t
  PROVE  /\ Head(Queued(fifo, h, t)) = fifo[h]
         /\ Queued(fifo, Advance(h), t) = Tail(Queued(fifo, h, t))
<1> DEFINE s == Queued(fifo, h, t)
           s2 == Queued(fifo, Advance(h), t)
           n == Count(h, t)
<1>1. Advance(h) \in Cell
  BY AdvanceCell
<1>2. n \in 1 .. FifoSize - 1 /\ Count(Advance(h), t) = n - 1
  <2>1. n \in 0 .. FifoSize - 1 /\ n = IF t < h THEN t - h + FifoSize ELSE t - h
    BY CountCell
  <2>2. Count(Advance(h), t)
          = IF t < Advance(h) THEN t - Advance(h) + FifoSize ELSE t - Advance(h)
    BY <1>1, CountCell
  <2>3. Advance(h) = IF h + 1 = FifoSize THEN 0 ELSE h + 1
    BY AdvanceCell
  <2>4. /\ FifoSize \in Nat \ {0} /\ h \in 0 .. FifoSize - 1 /\ t \in 0 .. FifoSize - 1
        /\ h # t
    BY <1>1
  <2> HIDE DEF n
  <2>5. CASE h + 1 = FifoSize
    BY ONLY <2>1, <2>2, <2>3, <2>4, <2>5
  <2>6. CASE h + 1 # FifoSize
    BY ONLY <2>1, <2>2, <2>3, <2>4, <2>6
  <2> QED BY <2>5, <2>6
<1>3. /\ s \in Seq(Byte) /\ Len(s) = n
      /\ \A k \in 1 .. n : s[k] = fifo[(h + k - 1) % FifoSize]
  BY QueuedType, ZenonT(60)
<1>4. /\ s2 \in Seq(Byte) /\ Len(s2) = n - 1
      /\ \A k \in 1 .. n - 1 : s2[k] = fifo[(Advance(h) + k - 1) % FifoSize]
  <2>1. /\ s2 \in Seq(Byte) /\ Len(s2) = Count(Advance(h), t)
        /\ \A k \in 1 .. Count(Advance(h), t) :
              s2[k] = fifo[(Advance(h) + k - 1) % FifoSize]
    <3> DEFINE h2 == Advance(h)
    <3>1. h2 \in Cell
      BY <1>1
    <3> HIDE DEF h2, Cell
    <3>2. /\ Queued(fifo, h2, t) \in Seq(Byte)
          /\ Len(Queued(fifo, h2, t)) = Count(h2, t)
          /\ \A k \in 1 .. Count(h2, t) :
                Queued(fifo, h2, t)[k] = fifo[(h2 + k - 1) % FifoSize]
      BY ONLY <3>1, fifo \in [Cell -> Byte], t \in Cell, QueuedType, SMTT(60)
    <3> QED BY <3>2 DEF h2
  <2> HIDE DEF n, s2
  <2> QED BY <2>1, <1>2
<1>5. ASSUME NEW k \in 1 .. n - 1
      PROVE  (Advance(h) + k - 1) % FifoSize = (h + (k + 1) - 1) % FifoSize
  <2>1. k - 1 \in Cell /\ k \in Cell
    BY <1>2, <1>5
  <2>2. /\ (Advance(h) + (k - 1)) % FifoSize
             = IF Advance(h) + (k - 1) >= FifoSize
               THEN Advance(h) + (k - 1) - FifoSize ELSE Advance(h) + (k - 1)
        /\ (h + k) % FifoSize = IF h + k >= FifoSize THEN h + k - FifoSize ELSE h + k
    BY <1>1, <2>1, CellAfter
  <2>3. (Advance(h) + (k - 1)) % FifoSize = (h + k) % FifoSize
    <3>1. Advance(h) = IF h + 1 = FifoSize THEN 0 ELSE h + 1
      BY AdvanceCell
    <3> QED BY <2>1, <2>2, <3>1, <1>1
  <2>4. Advance(h) + (k - 1) = Advance(h) + k - 1 /\ h + k = h + (k + 1) - 1
    BY <1>1, <2>1
  <2> QED BY <2>3, <2>4
<1> HIDE DEF n, s, s2
<1>6. Head(s) = fifo[h]
  <2>1. Head(s) = s[1] /\ s[1] = fifo[(h + 1 - 1) % FifoSize]
    BY <1>2, <1>3
  <2>2. h + 1 - 1 = h /\ h % FifoSize = h
    OBVIOUS
  <2> QED BY <2>1, <2>2
<1>7. /\ Tail(s) \in Seq(Byte) /\ Len(Tail(s)) = n - 1
      /\ \A k \in 1 .. n - 1 : Tail(s)[k] = s[k + 1]
  BY <1>2, <1>3
<1>8. ASSUME NEW k \in 1 .. n - 1
      PROVE  s2[k] = Tail(s)[k]
  <2>1. k + 1 \in 1 .. n
    BY <1>2
  <2>2. s2[k] = fifo[(Advance(h) + k - 1) % FifoSize]
    BY <1>4
  <2>3. Tail(s)[k] = fifo[(h + (k + 1) - 1) % FifoSize]
    BY <1>3, <1>7, <2>1
  <2> QED BY <2>2, <2>3, <1>5
<1>9. s2 = Tail(s)
  BY <1>2, <1>4, <1>7, <1>8, SeqEqual
<1> QED BY <1>6, <1>9 DEF s, s2

-----------------------------------------------------------------------------
(* Types.                                                                  *)

LEMMA InitType == Init => TypeOK
BY DEF Init, TypeOK, Zeroed

LEMMA NextType == TypeOK /\ [Next]_vars => TypeOK'
<1> SUFFICES ASSUME TypeOK, [Next]_vars
             PROVE  TypeOK'
  OBVIOUS
<1> USE DEF TypeOK
<1>1. ASSUME NEW b \in Byte, rx_push(b)
      PROVE  TypeOK'
  <2>1. Advance(rx_tail) \in Cell
    BY AdvanceCell
  <2> QED BY <1>1, <2>1 DEF rx_push, rx_service
<1>2. CASE read_SERDAT
  <2>1. Advance(rx_head) \in Cell
    BY AdvanceCell
  <2> QED BY <1>2, <2>1 DEF read_SERDAT, rx_empty, rx_service
<1>3. CASE write_SERDAT
  BY <1>3 DEF write_SERDAT
<1>4. ASSUME NEW c \in SUBSET Ctrl, NEW reseterr \in BOOLEAN, write_SERCTL(c, reseterr)
      PROVE  TypeOK'
  BY <1>4 DEF write_SERCTL, rx_service
<1>5. CASE irq_ack \/ irq_raise
  BY <1>5 DEF irq_ack, irq_raise
<1>6. ASSUME NEW s \in Slot, state_save(s)
      PROVE  TypeOK'
  BY <1>6 DEF state_save, UartState
<1>7. ASSUME NEW s \in Slot, state_load(s)
      PROVE  TypeOK'
  <2>1. saved[s] \in UartState
    BY <1>7 DEF state_load
  <2> QED BY <1>7, <2>1 DEF state_load, UartState
<1>8. CASE mikey_init
  BY <1>8 DEF mikey_init, Zeroed
<1>9. CASE UNCHANGED vars
  BY <1>9 DEF vars
<1> QED
  BY <1>1, <1>2, <1>3, <1>4, <1>5, <1>6, <1>7, <1>8, <1>9 DEF Next, Host, Game

\* The UART's variables never leave their ranges: in particular the indices
\* stay inside the ring at every wrap, and a load brings back indices in range.
THEOREM TypeCorrect == Spec => []TypeOK
BY InitType, NextType, PTL DEF Spec

-----------------------------------------------------------------------------
(* No wake-up is lost.                                                     *)

LEMMA GameStep == GameNext => [Next]_vars
BY DEF GameNext, Handler, Next, Host, Game, vars,
       Deliver, TickDeliver, HandlerAck, HandlerRead, HandlerRti, MainControl,
       MainTransmit, Timer4, HostSave, HostLoad, HostLoads, HostRestart

LEMMA GameType == GameSpec => []TypeOK
<1>1. GameInit => TypeOK
  BY InitType DEF GameInit
<1>2. TypeOK /\ [GameNext]_gvars => TypeOK'
  <2>1. TypeOK /\ GameNext => TypeOK'
    BY GameStep, NextType
  <2>2. UNCHANGED gvars => UNCHANGED vars
    BY DEF gvars, vars
  <2> QED BY <2>1, <2>2, NextType
<1> QED BY <1>1, <1>2, PTL DEF GameSpec

\* ReceiverKeepsInterrupting is not inductive: between its read and its RTI the
\* handler has yet to return to the main program, and the same must hold there.
\* Only between the acknowledgement and the read may a byte wait unannounced.
\* And it must hold of every save state, since a load makes one current: saves
\* are written from the main program, where it holds.
Announced(head, tail, c, latch) == head # tail /\ "RXINTEN" \in c => latch

WakeupInv ==
  /\ pc \in {"main", "done"} => Announced(rx_head, rx_tail, ctrl, irq)
  /\ \A s \in Slot : saved[s] # NoSave =>
       Announced(saved[s].rx_head, saved[s].rx_tail, saved[s].ctrl, saved[s].irq)

\* For a handler that acknowledges before it reads, whatever the sizes and
\* however bytes, timer underflows, control writes, save states, loads and
\* restarts interleave with it, no byte waits in the FIFO with its interrupt
\* armed and not pending once the handler has returned.
THEOREM NoLostWakeup == GameSpec => []ReceiverKeepsInterrupting
<1>1. GameInit => WakeupInv
  BY DEF GameInit, Init, WakeupInv, Announced, Zeroed
<1>2. TypeOK /\ WakeupInv /\ [GameNext]_gvars => WakeupInv'
  <2> SUFFICES ASSUME TypeOK, WakeupInv, [GameNext]_gvars
               PROVE  WakeupInv'
    OBVIOUS
  <2> USE DEF WakeupInv, Announced, rx_empty, Goto
  <2>1. ASSUME NEW b \in Byte, Deliver(b)
        PROVE  WakeupInv'
    BY <2>1 DEF Deliver, rx_push, rx_service
  <2>2. CASE TickDeliver
    BY <2>2 DEF TickDeliver
  <2>3. CASE HandlerAck
    BY <2>3 DEF HandlerAck, irq_ack
  <2>4. CASE HandlerRead
    <3>1. CASE rx_head = rx_tail
      BY <2>4, <3>1 DEF HandlerRead, status, read_SERDAT, vars
    <3>2. CASE rx_head # rx_tail
      BY <2>4, <3>2 DEF HandlerRead, status, read_SERDAT, rx_service
    <3> QED BY <3>1, <3>2
  <2>5. CASE HandlerRti
    BY <2>5 DEF HandlerRti
  <2>6. CASE MainControl
    BY <2>6 DEF MainControl, write_SERCTL, rx_service, game
  <2>7. CASE MainTransmit
    BY <2>7 DEF MainTransmit, write_SERDAT, game
  <2>8. CASE Timer4
    BY <2>8 DEF Timer4, irq_raise, game
  <2>9. ASSUME NEW s \in Slot, HostSave(s)
        PROVE  WakeupInv'
    <3> DEFINE u == [ctrl |-> ctrl, status_err |-> status_err, rx_fifo |-> rx_fifo,
                     rx_head |-> rx_head, rx_tail |-> rx_tail, irq |-> irq]
    <3>1. pc = "main" /\ saved' = [saved EXCEPT ![s] = u]
          /\ UNCHANGED <<pc, ctrl, rx_head, rx_tail, irq>>
      BY <2>9 DEF HostSave, state_save, game
    <3>2. Announced(u.rx_head, u.rx_tail, u.ctrl, u.irq)
      BY <3>1
    <3>3. ASSUME NEW r \in Slot, saved'[r] # NoSave
          PROVE  Announced(saved'[r].rx_head, saved'[r].rx_tail, saved'[r].ctrl, saved'[r].irq)
      <4>1. CASE r = s
        BY <4>1, <3>1, <3>2 DEF TypeOK
      <4>2. CASE r # s
        BY <4>2, <3>1, <3>3 DEF TypeOK
      <4> QED BY <4>1, <4>2
    <3> QED BY <3>1, <3>3
  <2>10. ASSUME NEW s \in Slot, HostLoad(s)
         PROVE  WakeupInv'
    BY <2>10 DEF HostLoad, state_load, game
  <2>11. CASE HostRestart
    BY <2>11 DEF HostRestart, mikey_init, Zeroed, game
  <2>12. CASE UNCHANGED gvars
    BY <2>12 DEF gvars
  <2> QED
    BY <2>1, <2>2, <2>3, <2>4, <2>5, <2>6, <2>7, <2>8, <2>9, <2>10, <2>11, <2>12
    DEF GameNext, Handler, HostLoads
<1>3. WakeupInv => ReceiverKeepsInterrupting
  BY DEF WakeupInv, Announced, ReceiverKeepsInterrupting, rx_empty
<1> QED BY <1>1, <1>2, <1>3, GameType, PTL DEF GameSpec

-----------------------------------------------------------------------------
(* Refinement: every step of the ring is a step of the queue.              *)

saved_queues == [s \in Slot |-> SavedQueue(saved[s])]

LEMMA InitRefines == Init => Queue!Init
<1> SUFFICES ASSUME Init PROVE Queue!Init
  OBVIOUS
<1>1. rx_fifo \in [Cell -> Byte] /\ rx_head \in Cell /\ rx_tail \in Cell
  BY InitType DEF TypeOK
<1>2. rx_queue = <<>>
  BY <1>1, QueuedType DEF Init, Zeroed, rx_queue
<1>3. saved_queues = [s \in Slot |-> NoSave]
  BY DEF Init, saved_queues, SavedQueue
<1> QED BY <1>2, <1>3 DEF Init, Zeroed, Queue!Init, saved_queues

\* The ring and the queue agree on emptiness, and so on when to interrupt.
LEMMA ServiceRefines ==
  ASSUME TypeOK', rx_service
  PROVE  Queue!Service
<1>1. rx_queue' = <<>> <=> rx_head' = rx_tail'
  BY QueuedType DEF TypeOK, rx_queue
<1> QED BY <1>1 DEF rx_service, Queue!Service

LEMMA PushRefines ==
  ASSUME TypeOK, TypeOK', NEW b \in Byte, rx_push(b)
  PROVE  Queue!Refuse \/ Queue!Accept(b)
<1>1. /\ rx_queue \in Seq(Byte)
      /\ Len(rx_queue) = Count(rx_head, rx_tail)
      /\ Count(rx_head, rx_tail) \in 0 .. FifoSize - 1
  <2>1. rx_fifo \in [Cell -> Byte] /\ rx_head \in Cell /\ rx_tail \in Cell
    BY DEF TypeOK
  <2>2. Count(rx_head, rx_tail) \in 0 .. FifoSize - 1
    BY <2>1, CountCell
  <2>3. rx_queue \in Seq(Byte) /\ Len(rx_queue) = Count(rx_head, rx_tail)
    BY <2>1, QueuedType DEF rx_queue
  <2> QED BY <2>2, <2>3
<1>2. Count(rx_head, rx_tail) = FifoSize - 1 <=> Advance(rx_tail) = rx_head
  BY FullRing DEF TypeOK
<1>3. CASE Advance(rx_tail) = rx_head
  <2>1. Len(rx_queue) = FifoSize - 1
    BY <1>1, <1>2, <1>3
  <2> QED BY <1>3, <2>1 DEF rx_push, Queue!Refuse, rx_queue
<1>4. CASE Advance(rx_tail) # rx_head
  <2>1. Len(rx_queue) < FifoSize - 1
    BY <1>1, <1>2, <1>4
  <2>2. rx_queue' = Append(rx_queue, b)
    <3>1. rx_fifo \in [Cell -> Byte] /\ rx_head \in Cell /\ rx_tail \in Cell
      BY DEF TypeOK
    <3>2. rx_queue' = Queued([rx_fifo EXCEPT ![rx_tail] = b], rx_head, Advance(rx_tail))
      BY <1>4 DEF rx_push, rx_queue
    <3>3. Queued([rx_fifo EXCEPT ![rx_tail] = b], rx_head, Advance(rx_tail))
            = Append(Queued(rx_fifo, rx_head, rx_tail), b)
      BY <1>4, <3>1, PushAppends
    <3> QED BY <3>2, <3>3 DEF rx_queue
  <2>3. Queue!Service
    BY <1>4, ServiceRefines DEF rx_push
  <2> QED BY <1>4, <2>1, <2>2, <2>3 DEF rx_push, Queue!Accept
<1> QED BY <1>3, <1>4

LEMMA ReadRefines ==
  ASSUME TypeOK, TypeOK', read_SERDAT
  PROVE  Queue!Take \/ Queue!TakeNothing
<1>1. rx_queue = <<>> <=> rx_head = rx_tail
  BY QueuedType DEF TypeOK, rx_queue
<1>2. CASE rx_head = rx_tail
  BY <1>1, <1>2 DEF read_SERDAT, rx_empty, Queue!TakeNothing, rx_queue
<1>3. CASE rx_head # rx_tail
  <2>1. Head(rx_queue) = rx_fifo[rx_head] /\ rx_queue' = Tail(rx_queue)
    BY <1>3, PopTakesHead DEF TypeOK, read_SERDAT, rx_empty, rx_queue
  <2>2. Queue!Service
    BY <1>3, ServiceRefines DEF read_SERDAT, rx_empty
  <2> QED BY <1>1, <1>3, <2>1, <2>2 DEF read_SERDAT, rx_empty, Queue!Take
<1> QED BY <1>2, <1>3

LEMMA SaveRefines ==
  ASSUME TypeOK, NEW s \in Slot, state_save(s)
  PROVE  Queue!Save(s)
<1> DEFINE u == [ctrl |-> ctrl, status_err |-> status_err, rx_fifo |-> rx_fifo,
                 rx_head |-> rx_head, rx_tail |-> rx_tail, irq |-> irq]
<1>1. u \in UartState /\ u # NoSave
  BY NoSaveAssumption DEF TypeOK, UartState
<1>2. SavedQueue(u) = [q |-> rx_queue, ctrl |-> ctrl, overrun |-> status_err, irq |-> irq]
  BY <1>1 DEF SavedQueue, rx_queue
<1>3. saved' = [saved EXCEPT ![s] = u]
  BY DEF state_save
<1>4. saved_queues' = [saved_queues EXCEPT ![s] = SavedQueue(u)]
  <2> HIDE DEF u
  <2> QED BY <1>3 DEF saved_queues, TypeOK
<1> QED BY <1>2, <1>4 DEF state_save, Queue!Save, saved_queues, rx_queue

LEMMA LoadRefines ==
  ASSUME TypeOK, NEW s \in Slot, state_load(s)
  PROVE  Queue!Load(s)
<1>1. saved[s] \in UartState /\ saved[s] # NoSave
  BY DEF TypeOK, state_load
<1>2. /\ rx_queue' = Queued(saved[s].rx_fifo, saved[s].rx_head, saved[s].rx_tail)
      /\ rx_queue' \in Seq(Byte)
  BY <1>1, QueuedType DEF state_load, rx_queue, UartState
<1>3. saved_queues[s] = [q |-> rx_queue', ctrl |-> ctrl', overrun |-> status_err', irq |-> irq']
  BY <1>1, <1>2 DEF saved_queues, SavedQueue, state_load
<1>4. saved_queues[s] # NoSave
  BY <1>1, <1>2, <1>3, NoSaveAssumption DEF QueueState, state_load, UartState
<1>5. saved_queues' = saved_queues /\ dat' = dat
  BY DEF state_load, saved_queues
<1> QED BY <1>3, <1>4, <1>5 DEF Queue!Load, saved_queues

LEMMA NextRefines ==
  ASSUME TypeOK, TypeOK', [Next]_vars
  PROVE  [Queue!Next]_(Queue!vars)
<1> USE DEF Ctrl
<1>1. ASSUME NEW b \in Byte, rx_push(b)
      PROVE  Queue!Next
  BY <1>1, PushRefines DEF Queue!Next
<1>2. CASE read_SERDAT
  BY <1>2, ReadRefines DEF Queue!Next
<1>3. CASE write_SERDAT
  BY <1>3 DEF write_SERDAT, rx_queue, Queue!Transmit, Queue!Next
<1>4. ASSUME NEW c \in SUBSET Ctrl, NEW reseterr \in BOOLEAN, write_SERCTL(c, reseterr)
      PROVE  Queue!Next
  <2>1. Queue!Service
    BY <1>4, ServiceRefines DEF write_SERCTL
  <2>2. Queue!Control(c, reseterr)
    BY <1>4, <2>1 DEF write_SERCTL, rx_queue, Queue!Control
  <2> QED BY <2>2 DEF Queue!Next
<1>5. CASE irq_ack \/ irq_raise
  <2>1. rx_queue' = rx_queue
    BY <1>5 DEF irq_ack, irq_raise, rx_queue
  <2>2. Queue!Latch
    BY <1>5, <2>1 DEF irq_ack, irq_raise, Queue!Latch
  <2> QED BY <2>2 DEF Queue!Next
<1>6. ASSUME NEW s \in Slot, state_save(s)
      PROVE  Queue!Next
  BY <1>6, SaveRefines DEF Queue!Next
<1>7. ASSUME NEW s \in Slot, state_load(s)
      PROVE  Queue!Next
  BY <1>7, LoadRefines DEF Queue!Next
<1>8. CASE mikey_init
  <2>1. rx_queue' = <<>>
    BY <1>8, QueuedType, ZenonT(60) DEF mikey_init, Zeroed, rx_queue, TypeOK
  <2>2. Queue!Reset
    BY <1>8, <2>1 DEF mikey_init, Zeroed, Queue!Reset
  <2> QED BY <2>2 DEF Queue!Next
<1>9. CASE UNCHANGED vars
  BY <1>9 DEF vars, rx_queue, Queue!vars
<1> QED
  BY <1>1, <1>2, <1>3, <1>4, <1>5, <1>6, <1>7, <1>8, <1>9 DEF Next, Host, Game

\* The ring buffer of serial.c implements the bounded queue: nothing is
\* reordered, repeated or dropped unflagged, for every size of the ring.
THEOREM SerialImplementsQueue == Spec => ImplementsQueue
<1>1. Init => Queue!Init
  BY InitRefines
<1>2. TypeOK /\ TypeOK' /\ [Next]_vars => [Queue!Next]_(Queue!vars)
  BY NextRefines
<1> QED BY <1>1, <1>2, TypeCorrect, PTL DEF Spec, ImplementsQueue, Queue!Spec

=============================================================================
