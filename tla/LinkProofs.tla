------------------------------ MODULE LinkProofs ------------------------------
(***************************************************************************)
(* Proofs about module Link, for every FIFO, connection and chunk size.    *)
(* What unit u sees of its peer's bytes is a chain: the last byte read,    *)
(* the FIFO, TCP, and the byte in the peer's hand.  A step either leaves   *)
(* the chain as it is, adds the next byte at its end, takes away its       *)
(* first, or cuts bytes out of it where a FIFO was full.                   *)
(* The second half shows that these are the steps of Cable: only writing,  *)
(* reading and losing can be seen from the games.                          *)
(***************************************************************************)
EXTENDS Link, SequenceTheorems, TLAPS

InHand(u) == IF at[Peer(u)] = "send" THEN <<sent[Peer(u)]>> ELSE <<>>

Chain(r, a, b, c) == <<r>> \o a \o b \o c

Increasing(s) == \A m, n \in 1 .. Len(s) : m < n => s[m] < s[n]

(* What a chain must be, by what the peer has sent, x: its elements grow   *)
(* and do not pass x; and, if none was lost, they are the numbers from     *)
(* the first, r, to x.                                                     *)
Ordered(s, x) == Increasing(s) /\ \A m \in 1 .. Len(s) : s[m] <= x
Whole(s, r, x) == (\A m \in 1 .. Len(s) : s[m] = r + m - 1) /\ s[Len(s)] = x

(* The inductive invariant: order alone does not say that the next byte is *)
(* later than all that are on their way, so it needs the bound; and a byte *)
(* being sent has a number.                                                *)
Coming(u) == Chain(read[u], q[u], pipe[u], InHand(u))
Sound(u) ==
  /\ Ordered(Coming(u), sent[Peer(u)])
  /\ ~overrun[u] => Whole(Coming(u), read[u], sent[Peer(u)])
Numbered == \A u \in Unit : at[u] = "send" => sent[u] >= 1

IInv == TypeOK /\ Numbered /\ \A u \in Unit : Sound(u)

-----------------------------------------------------------------------------
LEMMA Sizes ==
  /\ Capacity \in Nat /\ Capacity >= 1 /\ Pipe \in Nat /\ Pipe >= 1
  /\ Chunk \in Nat /\ Chunk >= 1 /\ MaxSent \in Nat /\ MaxSent >= 1
BY SizeAssumption

(* The two units are each other's peers.                                   *)
LEMMA Peers ==
  ASSUME NEW u \in Unit
  PROVE  /\ Peer(u) \in Unit /\ Peer(u) # u /\ Peer(Peer(u)) = u
         /\ \A v \in Unit : v # u => v = Peer(u)
<1>1. PICK a, b \in Unit : a # b /\ Unit = {a, b}
  BY UnitAssumption
<1>2. \A w \in Unit : Peer(w) \in Unit /\ Peer(w) # w
  <2>. SUFFICES ASSUME NEW w \in Unit PROVE Peer(w) \in Unit /\ Peer(w) # w
    OBVIOUS
  <2>1. \E v \in Unit : v # w
    BY <1>1
  <2>. QED
    BY <2>1 DEF Peer
<1>3. /\ Peer(u) \in Unit /\ Peer(u) # u
      /\ Peer(Peer(u)) \in Unit /\ Peer(Peer(u)) # Peer(u)
  BY <1>2
<1>. QED
  BY <1>1, <1>3

LEMMA Concat ==
  ASSUME NEW s \in Seq(Int), NEW t \in Seq(Int)
  PROVE  /\ s \o t \in Seq(Int)
         /\ Len(s) \in Nat /\ Len(t) \in Nat /\ Len(s \o t) = Len(s) + Len(t)
         /\ \A m \in 1 .. Len(s) : (s \o t)[m] = s[m]
         /\ \A m \in 1 .. Len(t) : (s \o t)[Len(s) + m] = t[m]
OBVIOUS

(* The k elements of d after the first i are those of a after the first j. *)
Copies(d, i, a, j, k) == \A m \in 1 .. k : d[i + m] = a[j + m]

(* The elements of a chain, by where they are.                             *)
Element(r, a, b, c, m) ==
  IF m = 1 THEN r
  ELSE IF m <= 1 + Len(a) THEN a[m - 1]
  ELSE IF m <= 1 + Len(a) + Len(b) THEN b[m - (1 + Len(a))]
  ELSE c[m - (1 + Len(a) + Len(b))]

LaidOut(r, a, b, c) ==
  /\ Len(a) \in Nat /\ Len(b) \in Nat /\ Len(c) \in Nat
  /\ Len(Chain(r, a, b, c)) = 1 + Len(a) + Len(b) + Len(c)
  /\ \A m \in 1 .. 1 + Len(a) + Len(b) + Len(c) :
       Chain(r, a, b, c)[m] = Element(r, a, b, c, m)

LEMMA ChainAt ==
  ASSUME NEW r \in Int, NEW a \in Seq(Int), NEW b \in Seq(Int), NEW c \in Seq(Int)
  PROVE  LaidOut(r, a, b, c) /\ Chain(r, a, b, c) \in Seq(Int)
<1>1. /\ <<r>> \in Seq(Int) /\ Len(<<r>>) = 1 /\ <<r>>[1] = r
  OBVIOUS
<1>2. PICK x : x = <<r>> \o a
  OBVIOUS
<1>3. /\ x \in Seq(Int) /\ Len(a) \in Nat /\ Len(x) = 1 + Len(a)
      /\ x[1] = r
      /\ \A m \in 1 .. Len(a) : x[1 + m] = a[m]
  <2>1. Len(a) \in Nat /\ x \in Seq(Int) /\ Len(x) = 1 + Len(a)
    BY <1>1, <1>2
  <2>2. x[1] = r
    BY <1>1, <1>2
  <2>3. \A m \in 1 .. Len(a) : x[1 + m] = a[m]
    BY <1>1, <1>2, Concat
  <2>. QED
    BY <2>1, <2>2, <2>3
<1>4. PICK y : y = x \o b
  OBVIOUS
<1>5. /\ y \in Seq(Int) /\ Len(b) \in Nat /\ Len(y) = Len(x) + Len(b)
      /\ \A m \in 1 .. Len(x) : y[m] = x[m]
      /\ \A m \in 1 .. Len(b) : y[Len(x) + m] = b[m]
  BY <1>3, <1>4, Concat, ZenonT(60)
<1>6. PICK z : z = y \o c
  OBVIOUS
<1>7. /\ z \in Seq(Int) /\ Len(c) \in Nat /\ Len(z) = Len(y) + Len(c)
      /\ \A m \in 1 .. Len(y) : z[m] = y[m]
      /\ \A m \in 1 .. Len(c) : z[Len(y) + m] = c[m]
  BY <1>5, <1>6, Concat, ZenonT(60)
<1>8. Chain(r, a, b, c) = z
  BY <1>2, <1>4, <1>6 DEF Chain
<1>9. Len(x) = 1 + Len(a) /\ Len(y) = 1 + Len(a) + Len(b)
      /\ Len(z) = 1 + Len(a) + Len(b) + Len(c)
  BY <1>3, <1>5, <1>7
<1>10. ASSUME NEW m \in 1 .. 1 + Len(a) + Len(b) + Len(c)
       PROVE  z[m] = Element(r, a, b, c, m)
  <2>. USE DEF Element
  <2>0. m \in Int /\ Len(a) \in Nat /\ Len(b) \in Nat /\ Len(c) \in Nat
    BY <1>3, <1>5, <1>7
  <2>1. CASE m = 1
    <3>1. 1 \in 1 .. Len(x) /\ 1 \in 1 .. Len(y)
      BY <2>0, <1>9
    <3>. QED
      BY <3>1, <2>1, <1>3, <1>5, <1>7
  <2>2. CASE m # 1 /\ m <= 1 + Len(a)
    <3>1. m \in 1 .. Len(x) /\ m \in 1 .. Len(y) /\ m - 1 \in 1 .. Len(a) /\ 1 + (m - 1) = m
      BY <2>0, <2>2, <1>9
    <3>2. x[1 + (m - 1)] = a[m - 1]
      BY <3>1, <1>3
    <3>3. z[m] = y[m] /\ y[m] = x[m]
      BY <3>1, <1>5, <1>7
    <3>. QED
      BY <3>1, <3>2, <3>3, <2>2
  <2>3. CASE m > 1 + Len(a) /\ m <= 1 + Len(a) + Len(b)
    <3>1. /\ m \in 1 .. Len(y) /\ m - (1 + Len(a)) \in 1 .. Len(b) /\ m # 1
          /\ Len(x) + (m - (1 + Len(a))) = m
      BY <2>0, <2>3, <1>9
    <3>2. y[Len(x) + (m - (1 + Len(a)))] = b[m - (1 + Len(a))]
      BY <3>1, <1>5
    <3>3. z[m] = y[m]
      BY <3>1, <1>7
    <3>4. ~(m <= 1 + Len(a))
      BY <2>0, <2>3
    <3>. QED
      BY <3>1, <3>2, <3>3, <3>4, <2>3
  <2>4. CASE m > 1 + Len(a) + Len(b)
    <3>1. /\ m - (1 + Len(a) + Len(b)) \in 1 .. Len(c) /\ m # 1
          /\ Len(y) + (m - (1 + Len(a) + Len(b))) = m
      BY <2>0, <2>4, <1>9
    <3>2. z[Len(y) + (m - (1 + Len(a) + Len(b)))] = c[m - (1 + Len(a) + Len(b))]
      BY <3>1, <1>7
    <3>3. ~(m <= 1 + Len(a)) /\ ~(m <= 1 + Len(a) + Len(b))
      BY <2>0, <2>4
    <3>. QED
      BY <3>1, <3>2, <3>3
  <2>. QED
    BY <2>0, <2>1, <2>2, <2>3, <2>4
<1>. QED
  BY <1>3, <1>5, <1>7, <1>8, <1>9, <1>10 DEF LaidOut

-----------------------------------------------------------------------------
(* What a step does to a chain s: it adds v, leaves it, takes its first,   *)
(* or cuts g elements out after the first e.                               *)
Grown(s, t, v) ==
  /\ Len(s) \in Nat /\ Len(s) >= 1 /\ Len(t) = Len(s) + 1 /\ t[Len(t)] = v
  /\ \A m \in 1 .. Len(s) : t[m] = s[m]
Same(s, t) ==
  /\ Len(t) \in Nat /\ Len(t) >= 1 /\ Len(s) = Len(t)
  /\ \A m \in 1 .. Len(t) : t[m] = s[m]
Shorter(s, t, h) ==
  /\ Len(t) \in Nat /\ Len(t) >= 1 /\ Len(s) = Len(t) + 1 /\ t[1] = h
  /\ \A m \in 1 .. Len(t) : t[m] = s[m + 1]
Cut(s, t, e, g) ==
  /\ Len(t) \in Nat /\ Len(t) >= 1 /\ Len(s) = Len(t) + g
  /\ \A m \in 1 .. Len(t) : m <= e => t[m] = s[m]
  /\ \A m \in 1 .. Len(t) : ~(m <= e) => t[m] = s[m + g]

(* A byte is added at the end.                                             *)
LEMMA ChainGrows ==
  ASSUME NEW r \in Int, NEW a \in Seq(Int), NEW b \in Seq(Int), NEW v \in Int,
         NEW e \in Seq(Int), Len(e) = 0,
         NEW c \in Seq(Int), Len(c) = 1, c[1] = v
  PROVE  Grown(Chain(r, a, b, e), Chain(r, a, b, c), v)
<1>1. /\ Len(a) \in Nat /\ Len(b) \in Nat
      /\ Len(Chain(r, a, b, e)) = 1 + Len(a) + Len(b)
      /\ LaidOut(r, a, b, e)
  <2>1. LaidOut(r, a, b, e)
    BY ChainAt
  <2>. QED
    BY <2>1 DEF LaidOut
<1>2. /\ Len(Chain(r, a, b, c)) = 2 + Len(a) + Len(b)
      /\ LaidOut(r, a, b, c)
  <2>1. LaidOut(r, a, b, c)
    BY ChainAt
  <2>. QED
    BY <2>1 DEF LaidOut
<1>3. Chain(r, a, b, c)[2 + Len(a) + Len(b)] = v
  <2>1. /\ 2 + Len(a) + Len(b) \in 1 .. 2 + Len(a) + Len(b)
        /\ 2 + Len(a) + Len(b) - (1 + Len(a) + Len(b)) = 1
    BY <1>1
  <2>. QED
    BY <2>1, <1>1, <1>2 DEF Element, LaidOut
<1>4. ASSUME NEW m \in 1 .. 1 + Len(a) + Len(b)
      PROVE  Chain(r, a, b, c)[m] = Chain(r, a, b, e)[m]
  <2>1. m \in 1 .. 2 + Len(a) + Len(b)
    BY <1>1
  <2>2. Element(r, a, b, c, m) = Element(r, a, b, e, m)
    BY <1>1 DEF Element
  <2>. QED
    BY <2>1, <2>2, <1>1, <1>2 DEF LaidOut
<1>5. Len(Chain(r, a, b, c)) = Len(Chain(r, a, b, e)) + 1
  BY <1>1, <1>2
<1>. QED
  BY <1>1, <1>2, <1>3, <1>4, <1>5 DEF Grown

(* TCP takes the byte in hand.                                             *)
LEMMA ChainSent ==
  ASSUME NEW r \in Int, NEW a \in Seq(Int), NEW b \in Seq(Int), NEW v \in Int,
         NEW e \in Seq(Int), Len(e) = 0,
         NEW c \in Seq(Int), Len(c) = 1, c[1] = v,
         NEW d \in Seq(Int), Len(d) = Len(b) + 1, d[Len(b) + 1] = v,
         Copies(d, 0, b, 0, Len(b))
  PROVE  Same(Chain(r, a, b, c), Chain(r, a, d, e))
<1>1. /\ Len(a) \in Nat /\ Len(b) \in Nat
      /\ Len(Chain(r, a, b, c)) = 2 + Len(a) + Len(b)
      /\ LaidOut(r, a, b, c)
  <2>1. LaidOut(r, a, b, c)
    BY ChainAt
  <2>. QED
    BY <2>1 DEF LaidOut
<1>2. /\ Len(Chain(r, a, d, e)) = 2 + Len(a) + Len(b)
      /\ LaidOut(r, a, d, e)
  <2>1. LaidOut(r, a, d, e)
    BY ChainAt
  <2>. QED
    BY <2>1 DEF LaidOut
<1>3. ASSUME NEW m \in 1 .. 2 + Len(a) + Len(b)
      PROVE  Element(r, a, d, e, m) = Element(r, a, b, c, m)
  <2>1. CASE m <= 1 + Len(a)
    BY <2>1, <1>1 DEF Element, LaidOut
  <2>2. CASE ~(m <= 1 + Len(a)) /\ m <= 1 + Len(a) + Len(b)
    <3>1. /\ m - (1 + Len(a)) \in 1 .. Len(b) /\ m # 1 /\ m <= 1 + Len(a) + Len(d)
          /\ 0 + (m - (1 + Len(a))) = m - (1 + Len(a))
      BY <2>2, <1>1, SMTT(30)
    <3>2. d[m - (1 + Len(a))] = b[m - (1 + Len(a))]
      BY <3>1 DEF Copies
    <3>. QED
      BY <3>1, <3>2, <2>2 DEF Element
  <2>3. CASE ~(m <= 1 + Len(a) + Len(b))
    <3>1. /\ m - (1 + Len(a)) = Len(b) + 1 /\ m - (1 + Len(a) + Len(b)) = 1
          /\ m # 1 /\ m <= 1 + Len(a) + Len(d)
          /\ ~(m <= 1 + Len(a))
      <4>1. m \in Nat /\ m <= 2 + Len(a) + Len(b) /\ Len(a) \in Nat /\ Len(b) \in Nat
        BY <1>1
      <4>2. m = 2 + Len(a) + Len(b)
        <5>1. \A x, y, z \in Nat : z <= 2 + x + y /\ ~(z <= 1 + x + y) => z = 2 + x + y
          OBVIOUS
        <5>. QED
          BY <4>1, <2>3, <5>1, Zenon
      <4>3. m - (1 + Len(a)) = Len(b) + 1 /\ m - (1 + Len(a) + Len(b)) = 1
        BY <4>1, <4>2
      <4>4. m # 1 /\ m <= 1 + Len(a) + Len(d) /\ ~(m <= 1 + Len(a))
        BY <4>1, <4>2
      <4>. QED
        BY <4>3, <4>4
    <3>2. Element(r, a, d, e, m) = d[m - (1 + Len(a))]
      BY <3>1, SMTT(20) DEF Element
    <3>3. Element(r, a, b, c, m) = c[1]
      BY <3>1, <2>3 DEF Element
    <3>. QED
      BY <3>1, <3>2, <3>3, Zenon
  <2>. QED
    BY <2>1, <2>2, <2>3
<1>. QED
  <2>1. Len(c) = 1 /\ 1 + Len(a) + Len(b) + 1 = 2 + Len(a) + Len(b)
        /\ 1 + Len(a) + Len(d) + Len(e) = 2 + Len(a) + Len(b)
    BY <1>1
  <2>2. \A m \in 1 .. 2 + Len(a) + Len(b) : Chain(r, a, d, e)[m] = Chain(r, a, b, c)[m]
    BY <2>1, <1>1, <1>2, <1>3 DEF LaidOut
  <2>3. 2 + Len(a) + Len(b) \in Nat /\ 2 + Len(a) + Len(b) >= 1
    BY <1>1
  <2>. QED
    BY <2>2, <2>3, <1>1, <1>2 DEF Same

(* The game reads the first byte of its FIFO.                              *)
LEMMA ChainRead ==
  ASSUME NEW r \in Int, NEW a \in Seq(Int), NEW b \in Seq(Int), NEW c \in Seq(Int),
         NEW h \in Int, NEW d \in Seq(Int), Len(a) = Len(d) + 1, h = a[1],
         Copies(d, 0, a, 1, Len(d))
  PROVE  Shorter(Chain(r, a, b, c), Chain(h, d, b, c), h)
<1>1. /\ Len(a) \in Nat /\ Len(b) \in Nat /\ Len(c) \in Nat /\ Len(d) \in Nat
      /\ Len(Chain(r, a, b, c)) = 1 + Len(a) + Len(b) + Len(c)
      /\ LaidOut(r, a, b, c)
  <2>1. LaidOut(r, a, b, c)
    BY ChainAt
  <2>. QED
    BY <2>1 DEF LaidOut
<1>2. /\ Len(Chain(h, d, b, c)) = 1 + Len(d) + Len(b) + Len(c)
      /\ LaidOut(h, d, b, c)
  <2>1. LaidOut(h, d, b, c)
    BY ChainAt
  <2>. QED
    BY <2>1 DEF LaidOut
<1>3. ASSUME NEW m \in 1 .. 1 + Len(d) + Len(b) + Len(c)
      PROVE  Element(h, d, b, c, m) = Element(r, a, b, c, m + 1)
  <2>1. CASE m = 1
    BY <2>1, <1>1 DEF Element, LaidOut
  <2>2. CASE m # 1 /\ m <= 1 + Len(d)
    <3>1. /\ m - 1 \in 1 .. Len(d) /\ 1 + (m - 1) = m /\ (m + 1) - 1 = m
          /\ 0 + (m - 1) = m - 1
          /\ m + 1 <= 1 + Len(a) /\ m + 1 # 1
      BY <2>2, <1>1
    <3>2. d[m - 1] = a[m]
      BY <3>1 DEF Copies
    <3>. QED
      BY <3>1, <3>2, <2>2 DEF Element, LaidOut
  <2>3. CASE ~(m <= 1 + Len(d))
    <3>1. /\ m # 1 /\ m + 1 # 1 /\ ~(m + 1 <= 1 + Len(a))
          /\ (m <= 1 + Len(d) + Len(b)) <=> (m + 1 <= 1 + Len(a) + Len(b))
          /\ m - (1 + Len(d)) = m + 1 - (1 + Len(a))
          /\ m - (1 + Len(d) + Len(b)) = m + 1 - (1 + Len(a) + Len(b))
      BY <2>3, <1>1
    <3>. QED
      BY <3>1, <2>3 DEF Element, LaidOut
  <2>. QED
    BY <2>1, <2>2, <2>3
<1>4. ASSUME NEW m \in 1 .. 1 + Len(d) + Len(b) + Len(c)
      PROVE  Chain(h, d, b, c)[m] = Chain(r, a, b, c)[m + 1]
  <2>1. m + 1 \in 1 .. 1 + Len(a) + Len(b) + Len(c)
    BY <1>1
  <2>2. Chain(h, d, b, c)[m] = Element(h, d, b, c, m)
    BY <1>2 DEF LaidOut
  <2>3. Chain(r, a, b, c)[m + 1] = Element(r, a, b, c, m + 1)
    BY <2>1, <1>1 DEF LaidOut
  <2>. QED
    BY <2>2, <2>3, <1>3
<1>5. Chain(h, d, b, c)[1] = h
  <2>1. 1 \in 1 .. 1 + Len(d) + Len(b) + Len(c)
    BY <1>1
  <2>. QED
    BY <2>1, <1>2 DEF Element, LaidOut
<1>6. /\ Len(Chain(h, d, b, c)) \in Nat /\ Len(Chain(h, d, b, c)) >= 1
      /\ Len(Chain(r, a, b, c)) = Len(Chain(h, d, b, c)) + 1
  BY <1>1, <1>2
<1>. QED
  BY <1>2, <1>4, <1>5, <1>6 DEF Shorter

(* The pump takes n bytes from TCP, of which the FIFO keeps k.             *)
LEMMA ChainCut ==
  ASSUME NEW r \in Int, NEW a \in Seq(Int), NEW b \in Seq(Int), NEW c \in Seq(Int),
         NEW n \in Nat, NEW k \in Nat, k <= n, n <= Len(b),
         NEW d \in Seq(Int), Len(d) = Len(a) + k,
         Copies(d, 0, a, 0, Len(a)), Copies(d, Len(a), b, 0, k),
         NEW y \in Seq(Int), Len(y) = Len(b) - n, Copies(y, 0, b, n, Len(b) - n)
  PROVE  Cut(Chain(r, a, b, c), Chain(r, d, y, c), 1 + Len(d), n - k)
<1>1. /\ Len(a) \in Nat /\ Len(b) \in Nat /\ Len(c) \in Nat /\ Len(d) \in Nat /\ Len(y) \in Nat
      /\ Len(Chain(r, a, b, c)) = 1 + Len(a) + Len(b) + Len(c)
      /\ LaidOut(r, a, b, c)
  <2>1. LaidOut(r, a, b, c)
    BY ChainAt
  <2>. QED
    BY <2>1 DEF LaidOut
<1>2. /\ Len(Chain(r, d, y, c)) = 1 + Len(d) + Len(y) + Len(c)
      /\ LaidOut(r, d, y, c)
  <2>1. LaidOut(r, d, y, c)
    BY ChainAt
  <2>. QED
    BY <2>1 DEF LaidOut
<1>3. ASSUME NEW m \in 1 .. 1 + Len(d) + Len(y) + Len(c), m <= 1 + Len(d)
      PROVE  Chain(r, d, y, c)[m] = Chain(r, a, b, c)[m]
  <2>1. m \in 1 .. 1 + Len(a) + Len(b) + Len(c)
    BY <1>1, <1>3
  <2>2. CASE m = 1
    BY <2>1, <2>2, <1>1, <1>2 DEF Element, LaidOut
  <2>3. CASE m # 1 /\ m <= 1 + Len(a)
    <3>1. m - 1 \in 1 .. Len(a) /\ 0 + (m - 1) = m - 1
      BY <2>3, <1>1
    <3>2. d[m - 1] = a[m - 1]
      BY <3>1 DEF Copies
    <3>3. Chain(r, d, y, c)[m] = d[m - 1]
      BY <1>2, <1>3, <2>3 DEF Element, LaidOut
    <3>4. Chain(r, a, b, c)[m] = a[m - 1]
      BY <1>1, <2>1, <2>3 DEF Element, LaidOut
    <3>. QED
      BY <3>2, <3>3, <3>4
  <2>4. CASE ~(m <= 1 + Len(a))
    <3>. DEFINE i == m - (1 + Len(a))
    <3>1. /\ i \in 1 .. k /\ Len(a) + i = m - 1 /\ 0 + i = i
          /\ m <= 1 + Len(a) + Len(b) /\ m # 1
      <4>1. m \in Int /\ Len(a) \in Nat /\ Len(b) \in Nat /\ m <= 1 + Len(a) + k
        BY <1>1, <1>3
      <4>2. ~(m <= 1 + Len(a))
        BY <2>4
      <4>3. m <= 1 + Len(a) + Len(b)
        BY <4>1
      <4>4. i \in Int /\ Len(a) + i = m - 1 /\ 0 + i = i /\ m # 1
        BY <4>1, <4>2
      <4>5. i >= 1 /\ i <= k
        BY <4>1, <4>2
      <4>. HIDE DEF i
      <4>6. i \in 1 .. k
        BY <4>4, <4>5
      <4>. QED
        BY <4>3, <4>4, <4>6
    <3>2. d[m - 1] = b[m - (1 + Len(a))]
      <4>. HIDE DEF i
      <4>1. d[Len(a) + i] = b[0 + i]
        BY <3>1, Zenon DEF Copies
      <4>2. d[m - 1] = b[i]
        BY <4>1, <3>1, Zenon
      <4>. QED
        BY <4>2 DEF i
    <3>3. Chain(r, d, y, c)[m] = d[m - 1]
      <4>1. Chain(r, d, y, c)[m] = Element(r, d, y, c, m)
        BY <1>2 DEF LaidOut
      <4>. QED
        BY <4>1, <3>1, <1>3 DEF Element
    <3>4. Chain(r, a, b, c)[m] = b[m - (1 + Len(a))]
      BY <1>1, <2>1, <2>4, <3>1 DEF Element, LaidOut
    <3>. QED
      BY <3>1, <3>2, <3>3, <3>4
  <2>. QED
    BY <2>2, <2>3, <2>4
<1>4. ASSUME NEW m \in 1 .. 1 + Len(d) + Len(y) + Len(c), ~(m <= 1 + Len(d))
      PROVE  Chain(r, d, y, c)[m] = Chain(r, a, b, c)[m + (n - k)]
  <2>. DEFINE j == m + (n - k)
  <2>1. /\ j \in 1 .. 1 + Len(a) + Len(b) + Len(c)
        /\ m # 1 /\ j # 1 /\ ~(j <= 1 + Len(a))
        /\ (m <= 1 + Len(d) + Len(y)) <=> (j <= 1 + Len(a) + Len(b))
        /\ m - (1 + Len(d) + Len(y)) = j - (1 + Len(a) + Len(b))
        /\ n + (m - (1 + Len(d))) = j - (1 + Len(a))
    BY <1>1, <1>4, SMTT(30)
  <2>. HIDE DEF j
  <2>2. CASE m <= 1 + Len(d) + Len(y)
    <3>1. m - (1 + Len(d)) \in 1 .. Len(b) - n /\ 0 + (m - (1 + Len(d))) = m - (1 + Len(d))
      BY <2>2, <1>1, <1>4
    <3>2. y[m - (1 + Len(d))] = b[n + (m - (1 + Len(d)))]
      BY <3>1 DEF Copies
    <3>3. Chain(r, d, y, c)[m] = y[m - (1 + Len(d))]
      BY <1>2, <1>4, <2>1, <2>2 DEF Element, LaidOut
    <3>4. Chain(r, a, b, c)[j] = b[j - (1 + Len(a))]
      BY <1>1, <2>1, <2>2 DEF Element, LaidOut
    <3>5. Chain(r, d, y, c)[m] = Chain(r, a, b, c)[j]
      BY <2>1, <3>2, <3>3, <3>4
    <3>. QED
      BY <3>5 DEF j
  <2>3. CASE ~(m <= 1 + Len(d) + Len(y))
    <3>1. Chain(r, d, y, c)[m] = c[m - (1 + Len(d) + Len(y))]
      BY <1>2, <1>4, <2>1, <2>3 DEF Element, LaidOut
    <3>2. Chain(r, a, b, c)[j] = c[j - (1 + Len(a) + Len(b))]
      BY <1>1, <2>1, <2>3 DEF Element, LaidOut
    <3>3. Chain(r, d, y, c)[m] = Chain(r, a, b, c)[j]
      BY <2>1, <3>1, <3>2
    <3>. QED
      BY <3>3 DEF j
  <2>. QED
    BY <2>2, <2>3
<1>5. 1 + Len(a) + Len(b) + Len(c) = (1 + Len(d) + Len(y) + Len(c)) + (n - k)
  BY <1>1
<1>6. 1 + Len(d) + Len(y) + Len(c) \in Nat /\ 1 + Len(d) + Len(y) + Len(c) >= 1
  BY <1>1
<1>. QED
  BY <1>1, <1>2, <1>3, <1>4, <1>5, <1>6 DEF Cut

-----------------------------------------------------------------------------
(* What becomes of order and wholeness.                                    *)
LEMMA SameChain ==
  ASSUME NEW s, NEW t, Same(s, t)
  PROVE  \A x, r : (Ordered(s, x) => Ordered(t, x)) /\ (Whole(s, r, x) => Whole(t, r, x))
<1>1. Len(t) \in 1 .. Len(t)
  BY DEF Same
<1>2. ASSUME NEW x, Ordered(s, x) PROVE Ordered(t, x)
  BY <1>2 DEF Ordered, Increasing, Same
<1>3. ASSUME NEW x, NEW r, Whole(s, r, x) PROVE Whole(t, r, x)
  BY <1>1, <1>3 DEF Whole, Same
<1>. QED
  BY <1>2, <1>3

LEMMA GrownChain ==
  ASSUME NEW s \in Seq(Int), NEW t \in Seq(Int), NEW x \in Int,
         Grown(s, t, x + 1), Ordered(s, x)
  PROVE  /\ Ordered(t, x + 1)
         /\ \A r \in Int : Whole(s, r, x) => Whole(t, r, x + 1)
<1>0. /\ Len(s) >= 1 /\ Len(t) = Len(s) + 1 /\ t[Len(t)] = x + 1
      /\ \A m \in 1 .. Len(s) : t[m] = s[m]
  BY DEF Grown
<1>1. Len(s) \in Nat /\ Len(s) \in 1 .. Len(s) /\ Len(t) = Len(s) + 1
  BY <1>0
<1>2. ASSUME NEW m \in 1 .. Len(t)
      PROVE  (m \in 1 .. Len(s) /\ t[m] = s[m]) \/ (m = Len(t) /\ t[m] = x + 1)
  <2>1. m \in Nat /\ 1 <= m /\ m <= Len(s) + 1
    BY <1>1
  <2>2. CASE m <= Len(s)
    <3>1. m \in 1 .. Len(s)
      <4>1. \A y \in Nat : 1 <= m /\ m <= y => m \in 1 .. y
        BY <2>1
      <4>. QED
        BY <2>1, <2>2, <1>1, <4>1, Zenon
    <3>. QED
      BY <3>1, <1>0
  <2>3. CASE ~(m <= Len(s))
    <3>1. m = Len(t)
      BY <2>1, <2>3, <1>1
    <3>. QED
      BY <3>1, <1>0
  <2>. QED
    BY <2>2, <2>3
<1>3. \A m \in 1 .. Len(s) : s[m] \in Int /\ s[m] <= x
  <2>1. \A m \in 1 .. Len(s) : s[m] <= x
    BY DEF Ordered
  <2>2. \A m \in 1 .. Len(s) : s[m] \in Int
    OBVIOUS
  <2>. QED
    BY <2>1, <2>2
<1>4. ASSUME NEW m \in 1 .. Len(t) PROVE t[m] <= x + 1
  <2>1. CASE m \in 1 .. Len(s) /\ t[m] = s[m]
    BY <2>1, <1>3
  <2>2. CASE m = Len(t) /\ t[m] = x + 1
    BY <2>2
  <2>. QED
    BY <1>2, <2>1, <2>2
<1>5. ASSUME NEW m \in 1 .. Len(t), NEW n \in 1 .. Len(t), m < n
      PROVE  t[m] < t[n]
  <2>1. m \in 1 .. Len(s) /\ t[m] = s[m]
    BY <1>1, <1>2, <1>5
  <2>2. CASE n \in 1 .. Len(s)
    <3>1. s[m] < s[n]
      BY <2>1, <2>2, <1>5 DEF Ordered, Increasing
    <3>. QED
      BY <3>1, <2>1, <2>2, <1>0
  <2>3. CASE n = Len(t)
    <3>1. t[n] = x + 1 /\ s[m] \in Int /\ s[m] <= x
      BY <2>1, <2>3, <1>0, <1>3
    <3>. QED
      BY <3>1, <2>1
  <2>. QED
    BY <1>2, <2>2, <2>3
<1>6. ASSUME NEW r \in Int, Whole(s, r, x) PROVE Whole(t, r, x + 1)
  <2>1. x = r + Len(s) - 1
    BY <1>1, <1>6 DEF Whole
  <2>2. ASSUME NEW m \in 1 .. Len(t) PROVE t[m] = r + m - 1
    <3>1. CASE m \in 1 .. Len(s) /\ t[m] = s[m]
      BY <3>1, <1>6 DEF Whole
    <3>2. CASE m = Len(t) /\ t[m] = x + 1
      BY <3>2, <2>1, <1>1
    <3>. QED
      BY <1>2, <3>1, <3>2
  <2>. QED
    BY <2>2, <1>0 DEF Whole
<1>. QED
  BY <1>4, <1>5, <1>6 DEF Ordered, Increasing

LEMMA ShorterChain ==
  ASSUME NEW s \in Seq(Int), NEW t \in Seq(Int), NEW x \in Int, NEW h,
         Shorter(s, t, h), Ordered(s, x)
  PROVE  /\ Ordered(t, x)
         /\ \A r \in Int : Whole(s, r, x) => Whole(t, h, x)
<1>1. /\ Len(t) \in Nat /\ Len(t) >= 1 /\ Len(s) = Len(t) + 1 /\ t[1] = h
      /\ \A m \in 1 .. Len(t) : t[m] = s[m + 1] /\ m + 1 \in 1 .. Len(s)
  BY DEF Shorter
<1>2. \A m \in 1 .. Len(t) : t[m] <= x
  BY <1>1 DEF Ordered
<1>3. ASSUME NEW m \in 1 .. Len(t), NEW n \in 1 .. Len(t), m < n
      PROVE  t[m] < t[n]
  <2>1. m + 1 \in 1 .. Len(s) /\ n + 1 \in 1 .. Len(s) /\ m + 1 < n + 1
    BY <1>1, <1>3
  <2>2. s[m + 1] < s[n + 1]
    BY <2>1 DEF Ordered, Increasing
  <2>. QED
    BY <2>2, <1>1
<1>4. ASSUME NEW r \in Int, Whole(s, r, x) PROVE Whole(t, h, x)
  <2>1. \A m \in 1 .. Len(t) : t[m] = r + m
    BY <1>1, <1>4 DEF Whole
  <2>2. t[1] = r + 1
    BY <1>1, <2>1
  <2>3. t[Len(t)] = s[Len(s)]
    <3>1. PICK n \in Nat : n = Len(t) /\ n \in 1 .. n /\ Len(s) = n + 1
      BY ONLY <1>1
    <3>2. t[n] = s[n + 1]
      BY <1>1, <3>1
    <3>. QED
      BY <3>1, <3>2
  <2>0. t[1] = h
    BY <1>1
  <2>4. h = r + 1
    BY <1>1, <2>2
  <2>5. \A m \in 1 .. Len(t) : t[m] = h + m - 1
    <3>. HIDE DEF Shorter
    <3>1. \A m \in 1 .. Len(t) : m \in Int
      BY <1>1
    <3>2. \A m \in Int : r + m = (r + 1) + m - 1
      OBVIOUS
    <3>. QED
      BY ONLY <2>1, <2>4, <3>1, <3>2
  <2>6. t[Len(t)] = x
    BY <2>3, <1>4 DEF Whole
  <2>. QED
    BY ONLY <2>5, <2>6 DEF Whole
<1>. QED
  BY <1>2, <1>3, <1>4 DEF Ordered, Increasing

LEMMA CutChain ==
  ASSUME NEW s \in Seq(Int), NEW t \in Seq(Int), NEW x \in Int, NEW e \in Nat, NEW g \in Nat,
         Cut(s, t, e, g), Ordered(s, x)
  PROVE  Ordered(t, x)
<1>. DEFINE f(m) == IF m <= e THEN m ELSE m + g
<1>1. ASSUME NEW m \in 1 .. Len(t) PROVE f(m) \in 1 .. Len(s) /\ t[m] = s[f(m)]
  BY DEF Cut
<1>2. ASSUME NEW m \in 1 .. Len(t), NEW n \in 1 .. Len(t), m < n PROVE f(m) < f(n)
  BY <1>2
<1>. HIDE DEF f
<1>3. \A m \in 1 .. Len(t) : t[m] <= x
  BY <1>1 DEF Ordered
<1>4. \A m, n \in 1 .. Len(t) : m < n => t[m] < t[n]
  BY <1>1, <1>2 DEF Ordered, Increasing
<1>. QED
  BY <1>3, <1>4 DEF Ordered, Increasing

-----------------------------------------------------------------------------
(* What the queue operations of the actions do.                            *)
LEMMA AppendCopies ==
  ASSUME NEW S \in SUBSET Int, NEW b \in Seq(S), NEW v \in S
  PROVE  /\ Append(b, v) \in Seq(S) /\ Len(b) \in Nat
         /\ Len(Append(b, v)) = Len(b) + 1 /\ Append(b, v)[Len(b) + 1] = v
         /\ Copies(Append(b, v), 0, b, 0, Len(b))
BY DEF Copies

LEMMA TailCopies ==
  ASSUME NEW S \in SUBSET Int, NEW a \in Seq(S), a # <<>>
  PROVE  /\ Tail(a) \in Seq(S) /\ Len(Tail(a)) \in Nat
         /\ Head(a) \in S /\ Head(a) = a[1] /\ Len(a) = Len(Tail(a)) + 1
         /\ Copies(Tail(a), 0, a, 1, Len(Tail(a)))
<1>1. /\ Tail(a) \in Seq(S) /\ Len(a) \in Nat /\ Len(a) >= 1 /\ Len(Tail(a)) = Len(a) - 1
      /\ Head(a) = a[1] /\ 1 \in 1 .. Len(a)
  OBVIOUS
<1>2. a[1] \in S
  BY <1>1
<1>3. Copies(Tail(a), 0, a, 1, Len(Tail(a)))
  BY <1>1 DEF Copies
<1>. QED
  BY <1>1, <1>2, <1>3

Kept(a, b, k) == a \o SubSeq(b, 1, k)
Left(b, n) == SubSeq(b, n + 1, Len(b))

Pumped(S, a, b, n, k) ==
  /\ Kept(a, b, k) \in Seq(S) /\ Len(Kept(a, b, k)) = Len(a) + k
  /\ Copies(Kept(a, b, k), 0, a, 0, Len(a)) /\ Copies(Kept(a, b, k), Len(a), b, 0, k)
  /\ Left(b, n) \in Seq(S) /\ Len(Left(b, n)) = Len(b) - n
  /\ Copies(Left(b, n), 0, b, n, Len(b) - n)

LEMMA PumpCopies ==
  ASSUME NEW S, NEW a \in Seq(S), NEW b \in Seq(S),
         NEW n \in Nat, NEW k \in Nat, k <= n, n <= Len(b)
  PROVE  Pumped(S, a, b, n, k)
<1>. DEFINE c == SubSeq(b, 1, k)
            d == Kept(a, b, k)
            y == Left(b, n)
<1>1. Len(a) \in Nat /\ Len(b) \in Nat
  OBVIOUS
<1>2. c \in Seq(S) /\ Len(c) = k /\ \A m \in 1 .. k : c[m] = b[m]
  BY <1>1
<1>3. y \in Seq(S) /\ Len(y) = Len(b) - n /\ \A m \in 1 .. Len(b) - n : y[m] = b[n + m]
  BY <1>1 DEF Left
<1>0. d = a \o c
  BY DEF Kept
<1>. HIDE DEF c
<1>4. /\ d \in Seq(S) /\ Len(d) = Len(a) + k
      /\ \A m \in 1 .. Len(a) : d[m] = a[m]
      /\ \A m \in 1 .. k : d[Len(a) + m] = c[m]
  <2>1. a \o c \in Seq(S) /\ Len(a \o c) = Len(a) + Len(c)
    <3>1. \A x, z \in Seq(S) : x \o z \in Seq(S) /\ Len(x \o z) = Len(x) + Len(z)
      OBVIOUS
    <3>. QED
      BY <1>2, <3>1, Zenon
  <2>2. \A m \in 1 .. Len(a) : (a \o c)[m] = a[m]
    BY <1>1, <1>2
  <2>3. ASSUME NEW m \in 1 .. k PROVE (a \o c)[Len(a) + m] = c[m]
    BY <1>1, <1>2
  <2>. HIDE DEF d
  <2>. QED
    BY <1>0, <1>2, <2>1, <2>2, <2>3
<1>5. Copies(d, 0, a, 0, Len(a)) /\ Copies(d, Len(a), b, 0, k)
  BY <1>1, <1>2, <1>4 DEF Copies
<1>6. Copies(y, 0, b, n, Len(b) - n)
  BY <1>1, <1>3 DEF Copies
<1>. QED
  BY <1>3, <1>4, <1>5, <1>6 DEF Pumped

LEMMA Widen ==
  ASSUME NEW S \in SUBSET Int, NEW s \in Seq(S)
  PROVE  s \in Seq(Int)
<1>1. Len(s) \in Nat /\ s = [m \in 1 .. Len(s) |-> s[m]] /\ \A m \in 1 .. Len(s) : s[m] \in S
  OBVIOUS
<1>2. s \in [1 .. Len(s) -> Int]
  BY <1>1
<1>. QED
  BY <1>1, <1>2

(* The four parts of a unit's stream.                                      *)
LEMMA StreamIsChain ==
  ASSUME NEW u \in Unit
  PROVE  Stream(u) = Coming(u)
BY Zenon DEF Stream, Coming, Chain, InHand

LEMMA PartsOK ==
  ASSUME TypeOK, NEW u \in Unit
  PROVE  /\ 1 .. MaxSent \in SUBSET Int /\ 0 .. MaxSent \in SUBSET Int
         /\ read[u] \in 0 .. MaxSent /\ q[u] \in Seq(1 .. MaxSent)
         /\ pipe[u] \in Seq(1 .. MaxSent) /\ sent[u] \in 0 .. MaxSent
         /\ read[u] \in Int /\ q[u] \in Seq(Int) /\ pipe[u] \in Seq(Int)
         /\ sent[u] \in Int /\ InHand(u) \in Seq(Int)
<1>1. Peer(u) \in Unit
  BY Peers
<1>2. /\ read[u] \in 0 .. MaxSent /\ q[u] \in Seq(1 .. MaxSent)
      /\ pipe[u] \in Seq(1 .. MaxSent) /\ sent[u] \in 0 .. MaxSent
      /\ sent[Peer(u)] \in 0 .. MaxSent
  BY <1>1 DEF TypeOK
<1>3. 1 .. MaxSent \in SUBSET Int /\ 0 .. MaxSent \in SUBSET Int
  BY Sizes
<1>4. \A s \in Seq(1 .. MaxSent) : s \in Seq(Int)
  BY Widen, <1>3
<1>5. InHand(u) \in Seq(Int)
  BY <1>2, <1>3 DEF InHand
<1>. QED
  BY <1>2, <1>3, <1>4, <1>5

-----------------------------------------------------------------------------
(* The peer writes a byte: its stream has the next number at its end.      *)
LEMMA Writes ==
  ASSUME NEW r \in Int, NEW a \in Seq(Int), NEW b \in Seq(Int), NEW x \in Int,
         NEW e \in Seq(Int), Len(e) = 0,
         NEW c \in Seq(Int), Len(c) = 1, c[1] = x + 1,
         Ordered(Chain(r, a, b, e), x)
  PROVE  /\ Ordered(Chain(r, a, b, c), x + 1)
         /\ Whole(Chain(r, a, b, e), r, x) => Whole(Chain(r, a, b, c), r, x + 1)
<1>1. x + 1 \in Int
  OBVIOUS
<1>2. Grown(Chain(r, a, b, e), Chain(r, a, b, c), x + 1)
  BY <1>1, ChainGrows
<1>3. Chain(r, a, b, e) \in Seq(Int) /\ Chain(r, a, b, c) \in Seq(Int)
  BY ChainAt
<1>. QED
  BY <1>2, <1>3, GrownChain

(* TCP takes the byte the peer is sending.                                 *)
LEMMA Sends ==
  ASSUME NEW r \in Int, NEW a \in Seq(Int), NEW b \in Seq(Int), NEW x \in Int,
         NEW e \in Seq(Int), Len(e) = 0,
         NEW c \in Seq(Int), Len(c) = 1, c[1] = x
  PROVE  /\ Ordered(Chain(r, a, b, c), x) => Ordered(Chain(r, a, Append(b, x), e), x)
         /\ Whole(Chain(r, a, b, c), r, x) => Whole(Chain(r, a, Append(b, x), e), r, x)
<1>1. /\ Append(b, x) \in Seq(Int) /\ Len(Append(b, x)) = Len(b) + 1
      /\ Append(b, x)[Len(b) + 1] = x /\ Copies(Append(b, x), 0, b, 0, Len(b))
  BY AppendCopies
<1>2. Same(Chain(r, a, b, c), Chain(r, a, Append(b, x), e))
  BY <1>1, ChainSent
<1>. QED
  BY <1>2, SameChain

(* The game reads a byte.                                                  *)
LEMMA Reads ==
  ASSUME NEW r \in Int, NEW a \in Seq(Int), NEW b \in Seq(Int), NEW c \in Seq(Int),
         NEW x \in Int, a # <<>>, Ordered(Chain(r, a, b, c), x)
  PROVE  /\ Ordered(Chain(Head(a), Tail(a), b, c), x)
         /\ Whole(Chain(r, a, b, c), r, x) => Whole(Chain(Head(a), Tail(a), b, c), Head(a), x)
<1>1. /\ Tail(a) \in Seq(Int) /\ Head(a) \in Int /\ Head(a) = a[1]
      /\ Len(a) = Len(Tail(a)) + 1 /\ Copies(Tail(a), 0, a, 1, Len(Tail(a)))
  BY TailCopies
<1>2. Shorter(Chain(r, a, b, c), Chain(Head(a), Tail(a), b, c), Head(a))
  BY <1>1, ChainRead
<1>3. Chain(r, a, b, c) \in Seq(Int) /\ Chain(Head(a), Tail(a), b, c) \in Seq(Int)
  BY <1>1, ChainAt
<1>. QED
  BY <1>2, <1>3, ShorterChain

(* The pump moves n bytes out of TCP, k of them into the FIFO.             *)
LEMMA Moves ==
  ASSUME NEW r \in Int, NEW a \in Seq(Int), NEW b \in Seq(Int), NEW c \in Seq(Int),
         NEW x \in Int, NEW n \in Nat, NEW k \in Nat, k <= n, n <= Len(b),
         Ordered(Chain(r, a, b, c), x)
  PROVE  LET t == Chain(r, Kept(a, b, k), Left(b, n), c)
         IN  /\ Ordered(t, x)
             /\ k = n /\ Whole(Chain(r, a, b, c), r, x) => Whole(t, r, x)
<1>. DEFINE d == Kept(a, b, k)
            y == Left(b, n)
            s == Chain(r, a, b, c)
            t == Chain(r, d, y, c)
<1>1. /\ d \in Seq(Int) /\ Len(d) = Len(a) + k
      /\ Copies(d, 0, a, 0, Len(a)) /\ Copies(d, Len(a), b, 0, k)
      /\ y \in Seq(Int) /\ Len(y) = Len(b) - n /\ Copies(y, 0, b, n, Len(b) - n)
  <2>1. Pumped(Int, a, b, n, k)
    BY PumpCopies
  <2>. QED
    BY <2>1 DEF Pumped
<1>2. Cut(s, t, 1 + Len(d), n - k)
  BY <1>1, ChainCut
<1>3. s \in Seq(Int) /\ t \in Seq(Int)
  BY <1>1, ChainAt
<1>4. 1 + Len(d) \in Nat /\ n - k \in Nat
  BY <1>1
<1>5. Ordered(s, x)
  OBVIOUS
<1>. HIDE DEF s, t
<1>6. Ordered(t, x)
  BY <1>2, <1>3, <1>4, <1>5, CutChain
<1>7. ASSUME k = n PROVE Same(s, t)
  <2>1. n - k = 0
    BY <1>7
  <2>. QED
    BY <1>2, <2>1 DEF Cut, Same
<1>8. k = n /\ Whole(s, r, x) => Whole(t, r, x)
  BY <1>7, SameChain
<1>. QED
  BY <1>6, <1>8 DEF s, t

-----------------------------------------------------------------------------
LEMMA Untouched ==
  ASSUME NEW w \in Unit, Sound(w), read'[w] = read[w], q'[w] = q[w], pipe'[w] = pipe[w],
         InHand(w)' = InHand(w), overrun'[w] = overrun[w], sent'[Peer(w)] = sent[Peer(w)]
  PROVE  Sound(w)'
<1>1. Coming(w)' = Coming(w)
  BY Zenon DEF Coming
<1>. QED
  BY <1>1, Zenon DEF Sound

LEMMA InitIInv == Init => IInv
<1>. SUFFICES ASSUME Init PROVE IInv
  OBVIOUS
<1>1. TypeOK
  <2>1. <<>> \in Seq(1 .. MaxSent) /\ Len(<<>>) = 0 /\ 0 \in 0 .. MaxSent
    BY Sizes
  <2>. QED
    BY <2>1, Sizes DEF Init, TypeOK
<1>2. Numbered
  BY DEF Init, Numbered
<1>3. ASSUME NEW u \in Unit PROVE Sound(u)
  <2>1. read[u] = 0 /\ q[u] = <<>> /\ pipe[u] = <<>> /\ InHand(u) = <<>> /\ sent[Peer(u)] = 0
    BY Peers DEF Init, InHand
  <2>2. Coming(u) = Chain(0, <<>>, <<>>, <<>>)
    BY <2>1, Zenon DEF Coming
  <2>3. <<>> \in Seq(Int) /\ 0 \in Int /\ Len(<<>>) = 0
    OBVIOUS
  <2>4. LaidOut(0, <<>>, <<>>, <<>>)
    BY <2>3, ChainAt
  <2>5. Len(Coming(u)) = 1 /\ Coming(u)[1] = 0
    BY <2>2, <2>3, <2>4 DEF LaidOut, Element
  <2>6. Ordered(Coming(u), 0) /\ Whole(Coming(u), 0, 0)
    BY <2>5 DEF Ordered, Increasing, Whole
  <2>. QED
    BY <2>1, <2>6 DEF Sound
<1>. QED
  BY <1>1, <1>2, <1>3 DEF IInv

LEMMA WriteStep ==
  ASSUME IInv, NEW u \in Unit, tx_to_link(u)
  PROVE  IInv'
<1>. DEFINE v == Peer(u)
<1>1. /\ v \in Unit /\ v # u /\ Peer(v) = u /\ \A w \in Unit : w # u => w = v
  BY Peers
<1>. HIDE DEF v
<1>2. /\ at \in [Unit -> {"game", "send", "pump"}] /\ sent \in [Unit -> 0 .. MaxSent]
      /\ at[u] = "game" /\ at' = [at EXCEPT ![u] = "send"]
      /\ sent[u] < MaxSent /\ sent' = [sent EXCEPT ![u] = sent[u] + 1]
      /\ pipe' = pipe /\ q' = q /\ overrun' = overrun /\ read' = read
  BY DEF IInv, TypeOK, tx_to_link, Goes
<1>3. TypeOK'
  BY <1>2, Sizes DEF IInv, TypeOK
<1>4. Numbered'
  BY <1>2, Sizes DEF IInv, Numbered
<1>5. Sound(u)'
  <2>1. at'[v] = at[v] /\ sent'[v] = sent[v]
    BY <1>1, <1>2
  <2>2. InHand(u)' = InHand(u)
    BY <2>1, Zenon DEF InHand, v
  <2>. QED
    BY <1>2, <2>1, <2>2, Untouched, Zenon DEF IInv, v
<1>6. Sound(v)'
  <2>1. at'[u] = "send" /\ sent'[u] = sent[u] + 1
    BY <1>2
  <2>2. InHand(v) = <<>> /\ InHand(v)' = <<sent[u] + 1>>
    BY <1>1, <1>2, <2>1 DEF InHand
  <2>3. /\ read[v] \in Int /\ q[v] \in Seq(Int) /\ pipe[v] \in Seq(Int) /\ sent[u] \in Int
    BY <1>1, PartsOK DEF IInv
  <2>4. /\ InHand(v) \in Seq(Int) /\ Len(InHand(v)) = 0
        /\ InHand(v)' \in Seq(Int) /\ Len(InHand(v)') = 1 /\ InHand(v)'[1] = sent[u] + 1
    BY <2>2, <2>3
  <2>5. Ordered(Coming(v), sent[u]) /\ (~overrun[v] => Whole(Coming(v), read[v], sent[u]))
    BY <1>1 DEF IInv, Sound
  <2>6. Coming(v)' = Chain(read[v], q[v], pipe[v], InHand(v)')
    BY <1>2, Zenon DEF Coming
  <2>7. /\ Ordered(Coming(v)', sent[u] + 1)
        /\ Whole(Coming(v), read[v], sent[u]) => Whole(Coming(v)', read[v], sent[u] + 1)
    BY <2>3, <2>4, <2>5, <2>6, Writes, Zenon DEF Coming
  <2>. QED
    BY <1>1, <1>2, <2>1, <2>5, <2>7, Zenon DEF Sound
<1>. QED
  BY <1>1, <1>3, <1>4, <1>5, <1>6 DEF IInv

LEMMA SendStep ==
  ASSUME IInv, NEW u \in Unit, send_all(u)
  PROVE  IInv'
<1>. DEFINE v == Peer(u)
<1>1. /\ v \in Unit /\ v # u /\ Peer(v) = u /\ \A w \in Unit : w # u => w = v
  BY Peers
<1>2. /\ 1 .. MaxSent \in SUBSET Int /\ sent[u] \in 1 .. MaxSent /\ pipe[v] \in Seq(1 .. MaxSent)
  <2>1. at[u] = "send" /\ sent[u] >= 1
    BY DEF IInv, Numbered, send_all, Goes
  <2>. QED
    BY <1>1, <2>1, PartsOK, Sizes DEF IInv
<1>3. /\ Append(pipe[v], sent[u]) \in Seq(1 .. MaxSent)
      /\ Len(pipe[v]) \in Nat /\ Len(Append(pipe[v], sent[u])) = Len(pipe[v]) + 1
  BY <1>2, AppendCopies
<1>4. Len(pipe[v]) < Pipe
  BY DEF send_all
<1>5. pipe' = [pipe EXCEPT ![v] = Append(pipe[v], sent[u])]
  BY DEF send_all
<1>. HIDE DEF v
<1>6. /\ at \in [Unit -> {"game", "send", "pump"}] /\ pipe \in [Unit -> Seq(1 .. MaxSent)]
      /\ at[u] = "send" /\ at' = [at EXCEPT ![u] = "game"]
      /\ sent' = sent /\ q' = q /\ overrun' = overrun /\ read' = read
  BY DEF IInv, TypeOK, send_all, Goes
<1>7. TypeOK'
  <2>1. pipe' \in [Unit -> Seq(1 .. MaxSent)] /\ at' \in [Unit -> {"game", "send", "pump"}]
    BY <1>1, <1>3, <1>5, <1>6
  <2>2. ASSUME NEW w \in Unit PROVE Len(pipe'[w]) <= Pipe /\ Len(q'[w]) <= Capacity
    <3>1. CASE w = v
      BY <3>1, <1>1, <1>3, <1>4, <1>5, <1>6, Sizes DEF IInv, TypeOK
    <3>2. CASE w # v
      BY <3>2, <1>1, <1>5, <1>6 DEF IInv, TypeOK
    <3>. QED
      BY <3>1, <3>2
  <2>. QED
    BY <2>1, <2>2, <1>6 DEF IInv, TypeOK
<1>8. Numbered'
  BY <1>6 DEF IInv, Numbered
<1>9. Sound(u)'
  <2>1. at'[v] = at[v] /\ pipe'[u] = pipe[u]
    BY <1>1, <1>5, <1>6
  <2>2. InHand(u)' = InHand(u)
    BY <2>1, <1>6, Zenon DEF InHand, v
  <2>. QED
    BY <1>6, <2>1, <2>2, Untouched, Zenon DEF IInv, v
<1>10. Sound(v)'
  <2>1. at'[u] = "game" /\ pipe'[v] = Append(pipe[v], sent[u])
    BY <1>1, <1>5, <1>6
  <2>2. InHand(v) = <<sent[u]>> /\ InHand(v)' = <<>>
    BY <1>1, <1>6, <2>1 DEF InHand
  <2>3. /\ read[v] \in Int /\ q[v] \in Seq(Int) /\ pipe[v] \in Seq(Int) /\ sent[u] \in Int
    BY <1>1, PartsOK DEF IInv
  <2>4. /\ InHand(v)' \in Seq(Int) /\ Len(InHand(v)') = 0
        /\ InHand(v) \in Seq(Int) /\ Len(InHand(v)) = 1 /\ InHand(v)[1] = sent[u]
    BY <2>2, <2>3
  <2>5. Ordered(Coming(v), sent[u]) /\ (~overrun[v] => Whole(Coming(v), read[v], sent[u]))
    BY <1>1 DEF IInv, Sound
  <2>6. Coming(v)' = Chain(read[v], q[v], Append(pipe[v], sent[u]), InHand(v)')
    BY <1>6, <2>1, Zenon DEF Coming
  <2>7. /\ Ordered(Coming(v), sent[u]) => Ordered(Coming(v)', sent[u])
        /\ Whole(Coming(v), read[v], sent[u]) => Whole(Coming(v)', read[v], sent[u])
    BY <2>3, <2>4, <2>6, Sends, Zenon DEF Coming
  <2>. QED
    BY <1>1, <1>6, <2>5, <2>7, Zenon DEF Sound
<1>. QED
  BY <1>1, <1>7, <1>8, <1>9, <1>10 DEF IInv

LEMMA ReadStep ==
  ASSUME IInv, NEW u \in Unit, read_SERDAT(u)
  PROVE  IInv'
<1>. DEFINE v == Peer(u)
<1>1. /\ v \in Unit /\ v # u /\ Peer(v) = u /\ \A w \in Unit : w # u => w = v
  BY Peers
<1>. HIDE DEF v
<1>2. /\ 1 .. MaxSent \in SUBSET Int /\ q[u] \in Seq(1 .. MaxSent) /\ q[u] # <<>>
  BY PartsOK DEF IInv, read_SERDAT
<1>3. /\ Tail(q[u]) \in Seq(1 .. MaxSent) /\ Head(q[u]) \in 1 .. MaxSent
      /\ Len(Tail(q[u])) \in Nat /\ Len(q[u]) = Len(Tail(q[u])) + 1
  BY <1>2, TailCopies
<1>4. /\ q \in [Unit -> Seq(1 .. MaxSent)] /\ read \in [Unit -> 0 .. MaxSent]
      /\ q' = [q EXCEPT ![u] = Tail(q[u])] /\ read' = [read EXCEPT ![u] = Head(q[u])]
      /\ at' = at /\ sent' = sent /\ pipe' = pipe /\ overrun' = overrun
  BY DEF IInv, TypeOK, read_SERDAT
<1>5. TypeOK'
  <2>1. q' \in [Unit -> Seq(1 .. MaxSent)]
    BY <1>3, <1>4
  <2>2. read' \in [Unit -> 0 .. MaxSent]
    <3>1. Head(q[u]) \in 0 .. MaxSent
      BY <1>3, Sizes
    <3>. QED
      BY <3>1, <1>4
  <2>3. ASSUME NEW w \in Unit PROVE Len(pipe'[w]) <= Pipe /\ Len(q'[w]) <= Capacity
    <3>0. Len(pipe[w]) <= Pipe /\ Len(q[w]) <= Capacity
      BY DEF IInv, TypeOK
    <3>1. CASE w = u
      BY <3>0, <3>1, <1>3, <1>4, Sizes
    <3>2. CASE w # u
      BY <3>0, <3>2, <1>4
    <3>. QED
      BY <3>1, <3>2
  <2>. QED
    BY <2>1, <2>2, <2>3, <1>4 DEF IInv, TypeOK
<1>6. Numbered'
  BY <1>4 DEF IInv, Numbered
<1>7. Sound(v)'
  <2>1. read'[v] = read[v] /\ q'[v] = q[v]
    BY <1>1, <1>4
  <2>2. InHand(v)' = InHand(v)
    BY <1>4, Zenon DEF InHand
  <2>. QED
    BY <1>1, <1>4, <2>1, <2>2, Untouched, Zenon DEF IInv
<1>8. Sound(u)'
  <2>1. read'[u] = Head(q[u]) /\ q'[u] = Tail(q[u])
    BY <1>4
  <2>2. InHand(u)' = InHand(u)
    BY <1>4, Zenon DEF InHand
  <2>3. /\ read[u] \in Int /\ q[u] \in Seq(Int) /\ pipe[u] \in Seq(Int)
        /\ sent[v] \in Int /\ InHand(u) \in Seq(Int)
    BY <1>1, PartsOK DEF IInv
  <2>5. Ordered(Coming(u), sent[v]) /\ (~overrun[u] => Whole(Coming(u), read[u], sent[v]))
    BY <1>1, Zenon DEF IInv, Sound, v
  <2>6. Coming(u)' = Chain(Head(q[u]), Tail(q[u]), pipe[u], InHand(u))
    BY <1>4, <2>1, <2>2, Zenon DEF Coming
  <2>7. /\ Ordered(Coming(u)', sent[v])
        /\ Whole(Coming(u), read[u], sent[v]) => Whole(Coming(u)', Head(q[u]), sent[v])
    BY <1>2, <2>3, <2>5, <2>6, Reads, Zenon DEF Coming
  <2>. QED
    BY <1>4, <2>1, <2>5, <2>7, Zenon DEF Sound, v
<1>. QED
  BY <1>1, <1>5, <1>6, <1>7, <1>8 DEF IInv

LEMMA PumpStep ==
  ASSUME IInv, NEW u \in Unit, lynx_net_pump(u)
  PROVE  IInv'
<1>. DEFINE v == Peer(u)
            n == Min(Len(pipe[u]), Chunk)
            k == Min(n, Capacity - Len(q[u]))
            d == Kept(q[u], pipe[u], k)
            y == Left(pipe[u], n)
<1>1. /\ v \in Unit /\ v # u /\ Peer(v) = u /\ \A w \in Unit : w # u => w = v
  BY Peers
<1>2. /\ 1 .. MaxSent \in SUBSET Int /\ q[u] \in Seq(1 .. MaxSent) /\ pipe[u] \in Seq(1 .. MaxSent)
  BY PartsOK DEF IInv
<1>3. Len(q[u]) \in Nat /\ Len(pipe[u]) \in Nat /\ Len(q[u]) <= Capacity /\ Len(pipe[u]) <= Pipe
  BY <1>2 DEF IInv, TypeOK
<1>4. /\ n \in Nat /\ k \in Nat /\ k <= n /\ n <= Len(pipe[u]) /\ Len(q[u]) + k <= Capacity
  <2>1. Capacity - Len(q[u]) \in Nat /\ Chunk \in Nat
    BY <1>3, Sizes
  <2>2. \A a, b \in Nat : Min(a, b) \in Nat /\ Min(a, b) <= a /\ Min(a, b) <= b
    BY DEF Min
  <2>3. n \in Nat /\ n <= Len(pipe[u])
    BY <1>3, <2>1, <2>2
  <2>. HIDE DEF n
  <2>4. k \in Nat /\ k <= n /\ k <= Capacity - Len(q[u])
    BY <2>1, <2>2, <2>3
  <2>. HIDE DEF k
  <2>5. Len(q[u]) + k <= Capacity
    BY <1>3, <2>4, Sizes
  <2>. QED
    BY <2>3, <2>4, <2>5
<1>5. /\ at' \in {[at EXCEPT ![u] = "game"], [at EXCEPT ![u] = "pump"]}
      /\ at[u] \in {"game", "pump"}
      /\ pipe' = [pipe EXCEPT ![u] = y] /\ q' = [q EXCEPT ![u] = d]
      /\ overrun' = [overrun EXCEPT ![u] = overrun[u] \/ k < n]
      /\ sent' = sent /\ read' = read
  BY DEF lynx_net_pump, Pumps, Goes, Kept, Left
<1>. HIDE DEF v, n, k
<1>6. /\ d \in Seq(1 .. MaxSent) /\ Len(d) = Len(q[u]) + k
      /\ y \in Seq(1 .. MaxSent) /\ Len(y) = Len(pipe[u]) - n
  <2>1. Pumped(1 .. MaxSent, q[u], pipe[u], n, k)
    BY <1>2, <1>4, PumpCopies
  <2>. QED
    BY <2>1 DEF Pumped
<1>. HIDE DEF d, y
<1>7. /\ at \in [Unit -> {"game", "send", "pump"}] /\ pipe \in [Unit -> Seq(1 .. MaxSent)]
      /\ q \in [Unit -> Seq(1 .. MaxSent)] /\ overrun \in [Unit -> BOOLEAN]
  BY DEF IInv, TypeOK
<1>8. TypeOK'
  <2>1. /\ pipe' \in [Unit -> Seq(1 .. MaxSent)] /\ q' \in [Unit -> Seq(1 .. MaxSent)]
        /\ at' \in [Unit -> {"game", "send", "pump"}] /\ overrun' \in [Unit -> BOOLEAN]
    BY <1>5, <1>6, <1>7
  <2>2. ASSUME NEW w \in Unit PROVE Len(pipe'[w]) <= Pipe /\ Len(q'[w]) <= Capacity
    <3>0. Len(pipe[w]) <= Pipe /\ Len(q[w]) <= Capacity
      BY DEF IInv, TypeOK
    <3>1. CASE w = u
      BY <3>1, <1>3, <1>4, <1>5, <1>6, <1>7, Sizes
    <3>2. CASE w # u
      BY <3>0, <3>2, <1>5, <1>7
    <3>. QED
      BY <3>1, <3>2
  <2>. QED
    BY <2>1, <2>2, <1>5 DEF IInv, TypeOK
<1>9. Numbered'
  BY <1>5, <1>7 DEF IInv, Numbered
<1>10. Sound(v)'
  <2>1. pipe'[v] = pipe[v] /\ q'[v] = q[v] /\ overrun'[v] = overrun[v]
    BY <1>1, <1>5, <1>7
  <2>2. at[u] # "send" /\ at'[u] # "send"
    BY <1>5, <1>7
  <2>3. InHand(v)' = InHand(v)
    BY <1>1, <2>2 DEF InHand
  <2>. QED
    BY <1>1, <1>5, <2>1, <2>3, Untouched, Zenon DEF IInv
<1>11. Sound(u)'
  <2>1. pipe'[u] = y /\ q'[u] = d /\ (overrun'[u] <=> overrun[u] \/ k < n)
    BY <1>5, <1>7
  <2>2. at'[v] = at[v]
    BY <1>1, <1>5, <1>7
  <2>3. InHand(u)' = InHand(u)
    BY <1>5, <2>2, Zenon DEF InHand, v
  <2>4. /\ read[u] \in Int /\ q[u] \in Seq(Int) /\ pipe[u] \in Seq(Int)
        /\ sent[v] \in Int /\ InHand(u) \in Seq(Int)
    BY <1>1, PartsOK DEF IInv
  <2>5. Ordered(Coming(u), sent[v]) /\ (~overrun[u] => Whole(Coming(u), read[u], sent[v]))
    BY <1>1, Zenon DEF IInv, Sound, v
  <2>6. Coming(u)' = Chain(read[u], d, y, InHand(u))
    BY <1>5, <2>1, <2>3, Zenon DEF Coming
  <2>7. /\ Ordered(Chain(read[u], d, y, InHand(u)), sent[v])
        /\ k = n /\ Whole(Coming(u), read[u], sent[v])
             => Whole(Chain(read[u], d, y, InHand(u)), read[u], sent[v])
    BY <1>4, <2>4, <2>5, Moves, Zenon DEF Coming, d, y
  <2>8. ~overrun'[u] => ~overrun[u] /\ k = n
    BY <1>4, <2>1
  <2>. QED
    BY <1>5, <2>5, <2>6, <2>7, <2>8, Zenon DEF Sound, v
<1>. QED
  BY <1>1, <1>8, <1>9, <1>10, <1>11 DEF IInv

-----------------------------------------------------------------------------
LEMMA NextIInv == IInv /\ [Next]_vars => IInv'
<1>. SUFFICES ASSUME IInv, [Next]_vars PROVE IInv'
  OBVIOUS
<1>1. ASSUME NEW u \in Unit, tx_to_link(u) PROVE IInv'
  BY <1>1, WriteStep
<1>2. ASSUME NEW u \in Unit, send_all(u) PROVE IInv'
  BY <1>2, SendStep
<1>3. ASSUME NEW u \in Unit, lynx_net_pump(u) PROVE IInv'
  BY <1>3, PumpStep
<1>4. ASSUME NEW u \in Unit, read_SERDAT(u) PROVE IInv'
  BY <1>4, ReadStep
<1>5. CASE UNCHANGED vars
  BY <1>5 DEF vars, IInv, TypeOK, Numbered, Sound, Coming, InHand
<1>. QED
  BY <1>1, <1>2, <1>3, <1>4, <1>5 DEF Next

(* The invariant of every behaviour of the cable.                          *)
THEOREM Invariant == Spec => []IInv
BY InitIInv, NextIInv, PTL DEF Spec

(* TCP and the FIFOs hold what they can hold, and every byte has a number. *)
THEOREM TypeCorrect == Spec => []TypeOK
<1>1. IInv => TypeOK
  BY DEF IInv
<1>. QED
  BY <1>1, Invariant, PTL

(* No byte is ever overtaken or duplicated on its way, however large the   *)
(* FIFO, TCP's buffers and the pump's chunk are.                           *)
THEOREM OrderKept == Spec => []InOrder
<1>1. IInv => InOrder
  BY StreamIsChain, Zenon DEF IInv, Sound, Ordered, Increasing, InOrder
<1>. QED
  BY <1>1, Invariant, PTL

(* As long as OVERRUN is not set, all that has been written and not read   *)
(* is on its way, in one unbroken run.                                     *)
THEOREM LossIsFlagged == Spec => []NoSilentLoss
<1>1. IInv => NoSilentLoss
  BY StreamIsChain, Zenon DEF IInv, Sound, Whole, NoSilentLoss, Complete
<1>. QED
  BY <1>1, Invariant, PTL

-----------------------------------------------------------------------------
\* Three sequences put end to end, by where the elements are.
At3(a, b, c, m) ==
  IF m <= Len(a) THEN a[m]
  ELSE IF m <= Len(a) + Len(b) THEN b[m - Len(a)]
  ELSE c[m - (Len(a) + Len(b))]

EndToEnd(z, a, b, c) ==
  /\ z \in Seq(Int) /\ Len(z) = Len(a) + Len(b) + Len(c)
  /\ Len(a) \in Nat /\ Len(b) \in Nat /\ Len(c) \in Nat
  /\ \A m \in 1 .. Len(a) + Len(b) + Len(c) : z[m] = At3(a, b, c, m)

LEMMA InARow ==
  ASSUME NEW a \in Seq(Int), NEW b \in Seq(Int), NEW c \in Seq(Int)
  PROVE  EndToEnd(a \o b \o c, a, b, c)
<1>1. PICK x : x = a \o b
  OBVIOUS
<1>2. /\ x \in Seq(Int) /\ Len(a) \in Nat /\ Len(b) \in Nat /\ Len(x) = Len(a) + Len(b)
      /\ \A m \in 1 .. Len(a) : x[m] = a[m]
      /\ \A m \in 1 .. Len(b) : x[Len(a) + m] = b[m]
  BY <1>1, Concat, ZenonT(60)
<1>3. PICK z : z = x \o c
  OBVIOUS
<1>4. /\ z \in Seq(Int) /\ Len(x) \in Nat /\ Len(c) \in Nat /\ Len(z) = Len(x) + Len(c)
      /\ \A m \in 1 .. Len(x) : z[m] = x[m]
      /\ \A m \in 1 .. Len(c) : z[Len(x) + m] = c[m]
  BY <1>2, <1>3, Concat, ZenonT(60)
<1>5. ASSUME NEW m \in 1 .. Len(a) + Len(b) + Len(c)
      PROVE  z[m] = At3(a, b, c, m)
  <2>1. CASE m <= Len(a)
    <3>1. m \in 1 .. Len(a) /\ m \in 1 .. Len(x)
      BY <1>2, <2>1
    <3>. QED
      BY <1>2, <1>4, <2>1, <3>1 DEF At3
  <2>2. CASE m > Len(a) /\ m <= Len(a) + Len(b)
    <3>1. m \in 1 .. Len(x) /\ m - Len(a) \in 1 .. Len(b) /\ Len(a) + (m - Len(a)) = m
      BY <1>2, <2>2
    <3>2. x[Len(a) + (m - Len(a))] = b[m - Len(a)]
      BY <1>2, <3>1
    <3>3. z[m] = x[m] /\ x[m] = b[m - Len(a)] /\ ~(m <= Len(a))
      BY <1>2, <1>4, <2>2, <3>1, <3>2
    <3>. QED
      BY <2>2, <3>3 DEF At3
  <2>3. CASE m > Len(a) + Len(b)
    <3>1. /\ m - Len(x) \in 1 .. Len(c) /\ Len(x) + (m - Len(x)) = m
          /\ Len(x) = Len(a) + Len(b) /\ ~(m <= Len(a))
      BY <1>2, <1>4, <2>3
    <3>2. z[Len(x) + (m - Len(x))] = c[m - Len(x)]
      BY <1>4, <3>1
    <3>. QED
      BY <2>3, <3>1, <3>2 DEF At3
  <2>. QED
    BY <1>2, <2>1, <2>2, <2>3
<1>6. z = a \o b \o c
  BY <1>1, <1>3
<1>. QED
  BY <1>2, <1>4, <1>5, <1>6 DEF EndToEnd

LEMMA Alike ==
  ASSUME NEW s \in Seq(Int), NEW t \in Seq(Int), Len(s) = Len(t),
         \A m \in 1 .. Len(s) : s[m] = t[m]
  PROVE  s = t
BY SeqEqual

\* A byte is added behind all others.
LEMMA RowGrows ==
  ASSUME NEW a \in Seq(Int), NEW b \in Seq(Int), NEW x \in Int
  PROVE  a \o b \o <<x>> = Append(a \o b \o <<>>, x)
<1>1. PICK s \in Seq(Int) : s = a \o b
  BY Concat
<1>2. s \o <<>> = s
  BY ConcatEmptySeq
<1>3. s \o <<x>> = Append(s, x)
  BY AppendIsConcat
<1>. QED
  BY <1>1, <1>2, <1>3

\* A byte goes from the hand of the sender into TCP.
LEMMA RowMoves ==
  ASSUME NEW a \in Seq(Int), NEW b \in Seq(Int), NEW x \in Int
  PROVE  a \o Append(b, x) \o <<>> = a \o b \o <<x>>
<1>1. PICK d : d = Append(b, x)
  OBVIOUS
<1>2. /\ d \in Seq(Int) /\ Len(b) \in Nat /\ Len(d) = Len(b) + 1
      /\ \A m \in 1 .. Len(b) : d[m] = b[m]
      /\ d[Len(b) + 1] = x
  BY <1>1
<1>3. PICK e : e = <<>> /\ e \in Seq(Int) /\ Len(e) = 0
  <2>1. <<>> \in Seq(Int) /\ Len(<<>>) = 0
    OBVIOUS
  <2>. QED
    BY <2>1
<1>4. PICK c : c = <<x>> /\ c \in Seq(Int) /\ Len(c) = 1 /\ c[1] = x
  <2>1. <<x>> \in Seq(Int) /\ Len(<<x>>) = 1 /\ <<x>>[1] = x
    OBVIOUS
  <2>. QED
    BY <2>1
<1>5. PICK s : s = a \o d \o e
  OBVIOUS
<1>6. PICK t : t = a \o b \o c
  OBVIOUS
<1>7. EndToEnd(s, a, d, e) /\ EndToEnd(t, a, b, c)
  BY <1>2, <1>3, <1>4, <1>5, <1>6, InARow
<1>8. s \in Seq(Int) /\ t \in Seq(Int) /\ Len(s) = Len(t) /\ Len(a) \in Nat
      /\ Len(s) = Len(a) + Len(b) + 1
  BY <1>2, <1>3, <1>4, <1>7 DEF EndToEnd
<1>9. ASSUME NEW m \in 1 .. Len(s) PROVE s[m] = t[m]
  <2>1. s[m] = At3(a, d, e, m) /\ t[m] = At3(a, b, c, m)
    BY <1>7, <1>8 DEF EndToEnd
  <2>2. At3(a, d, e, m) = At3(a, b, c, m)
    <3>1. CASE m <= Len(a)
      BY <3>1 DEF At3
    <3>2. CASE m > Len(a) /\ m <= Len(a) + Len(b)
      <4>1. m - Len(a) \in 1 .. Len(b)
        BY <1>2, <1>8, <3>2
      <4>2. d[m - Len(a)] = b[m - Len(a)]
        BY <1>2, <4>1
      <4>. QED
        BY <1>2, <1>8, <3>2, <4>2 DEF At3
    <3>3. CASE m = Len(a) + Len(b) + 1
      <4>1. m - Len(a) = Len(b) + 1 /\ m - (Len(a) + Len(b)) = 1
        BY <1>2, <1>8, <3>3
      <4>2. At3(a, d, e, m) = d[m - Len(a)]
        BY <1>2, <1>8, <3>3 DEF At3
      <4>3. At3(a, b, c, m) = c[m - (Len(a) + Len(b))]
        BY <1>2, <1>8, <3>3 DEF At3
      <4>. QED
        BY <1>2, <1>4, <4>1, <4>2, <4>3
    <3>4. m \in 1 .. Len(a) + Len(b) + 1 /\ Len(a) \in Nat /\ Len(b) \in Nat
      BY <1>2, <1>8
    <3>5. m <= Len(a) \/ (m > Len(a) /\ m <= Len(a) + Len(b)) \/ m = Len(a) + Len(b) + 1
      <4>1. PICK i, j \in Nat : i = Len(a) /\ j = Len(b)
        BY <3>4
      <4>2. m \in 1 .. i + j + 1
        BY <3>4, <4>1
      <4>3. m <= i \/ (m > i /\ m <= i + j) \/ m = i + j + 1
        BY ONLY <4>2, i \in Nat, j \in Nat
      <4>. QED
        BY <4>1, <4>3
    <3>. QED
      BY ONLY <3>1, <3>2, <3>3, <3>5
  <2>. QED
    BY <2>1, <2>2
<1>10. s = t
  BY <1>8, <1>9, Alike
<1>. QED
  BY <1>1, <1>3, <1>4, <1>5, <1>6, <1>10

\* The first byte is read.
LEMMA RowRead ==
  ASSUME NEW a \in Seq(Int), NEW b \in Seq(Int), NEW c \in Seq(Int), a # <<>>,
         NEW z, z = a \o b \o c
  PROVE  z # <<>> /\ Head(z) = Head(a) /\ Tail(z) = Tail(a) \o b \o c
<1>1. PICK d : d = Tail(a)
  OBVIOUS
<1>2. /\ d \in Seq(Int) /\ Len(d) \in Nat /\ Len(a) = Len(d) + 1 /\ Head(a) = a[1]
      /\ \A m \in 1 .. Len(d) : d[m] = a[m + 1]
  <2>1. Tail(a) \in Seq(Int) /\ Len(Tail(a)) \in Nat /\ Head(a) = a[1] /\ Len(a) = Len(Tail(a)) + 1
        /\ Copies(Tail(a), 0, a, 1, Len(Tail(a)))
    BY TailCopies
  <2>. QED
    BY <1>1, <2>1 DEF Copies
<1>4. EndToEnd(z, a, b, c)
  BY InARow
<1>5. PICK t : t = d \o b \o c
  OBVIOUS
<1>6. EndToEnd(t, d, b, c)
  BY <1>2, <1>5, InARow
<1>7. /\ z \in Seq(Int) /\ t \in Seq(Int) /\ Len(z) = Len(t) + 1 /\ Len(z) \in Nat /\ Len(t) \in Nat
      /\ Len(b) \in Nat /\ Len(c) \in Nat
      /\ Len(t) = Len(d) + Len(b) + Len(c)
  BY <1>2, <1>4, <1>6 DEF EndToEnd
<1>8. z # <<>> /\ Head(z) = z[1] /\ z[1] = a[1]
  <2>1. 1 \in 1 .. Len(a) + Len(b) + Len(c) /\ 1 <= Len(a)
    BY <1>2, <1>7
  <2>2. z[1] = At3(a, b, c, 1)
    BY <1>4, <2>1 DEF EndToEnd
  <2>3. z # <<>> /\ Head(z) = z[1]
    BY <1>7
  <2>. QED
    BY <2>1, <2>2, <2>3 DEF At3
<1>9. PICK y : y = Tail(z)
  OBVIOUS
<1>10. y \in Seq(Int) /\ Len(y) = Len(t) /\ \A m \in 1 .. Len(t) : y[m] = z[m + 1]
  <2>1. Tail(z) \in Seq(Int) /\ Len(Tail(z)) \in Nat /\ Len(z) = Len(Tail(z)) + 1
        /\ Copies(Tail(z), 0, z, 1, Len(Tail(z)))
    BY <1>7, <1>8, TailCopies
  <2>2. Len(y) = Len(t)
    BY <1>7, <1>9, <2>1
  <2>3. \A m \in 1 .. Len(y) : y[0 + m] = z[1 + m]
    BY ONLY <1>9, <2>1 DEF Copies
  <2>4. \A m \in 1 .. Len(y) : 0 + m = m /\ 1 + m = m + 1
    OBVIOUS
  <2>. QED
    BY <1>9, <2>1, <2>2, <2>3, <2>4
<1>11. ASSUME NEW m \in 1 .. Len(y) PROVE y[m] = t[m]
  <2>1. m + 1 \in 1 .. Len(a) + Len(b) + Len(c) /\ m \in 1 .. Len(d) + Len(b) + Len(c) /\ m \in Int
    BY <1>2, <1>7, <1>10
  <2>2. y[m] = At3(a, b, c, m + 1) /\ t[m] = At3(d, b, c, m)
    BY <1>4, <1>6, <1>7, <1>10, <2>1 DEF EndToEnd
  <2>3. At3(a, b, c, m + 1) = At3(d, b, c, m)
    <3>1. CASE m <= Len(d)
      <4>1. m \in 1 .. Len(d) /\ m + 1 <= Len(a)
        BY <1>2, <2>1, <3>1
      <4>. QED
        BY <1>2, <3>1, <4>1 DEF At3
    <3>2. CASE m > Len(d)
      <4>1. PICK i, j, k \in Nat : i = Len(a) /\ j = Len(b) /\ k = Len(d)
        BY <1>2, <1>7
      <4>2. i = k + 1
        BY <1>2, <4>1
      <4>3. m > k
        BY <3>2, <4>1
      <4>4. ~(m + 1 <= i) /\ ~(m <= k) /\ m + 1 - i = m - k
            /\ m + 1 - (i + j) = m - (k + j) /\ (m + 1 <= i + j <=> m <= k + j)
        BY ONLY <2>1, <4>1, <4>2, <4>3, m \in Int
      <4>5. CASE m <= k + j
        <5>1. m + 1 <= Len(a) + Len(b) /\ ~(m + 1 <= Len(a)) /\ ~(m <= Len(d)) /\ m <= Len(d) + Len(b)
          BY <4>1, <4>4, <4>5
        <5>2. At3(a, b, c, m + 1) = b[m + 1 - Len(a)] /\ At3(d, b, c, m) = b[m - Len(d)]
          BY ONLY <5>1 DEF At3
        <5>. QED
          BY <4>1, <4>4, <5>2
      <4>6. CASE ~(m <= k + j)
        <5>1. ~(m + 1 <= Len(a) + Len(b)) /\ ~(m + 1 <= Len(a)) /\ ~(m <= Len(d)) /\ ~(m <= Len(d) + Len(b))
          BY <4>1, <4>4, <4>6
        <5>2. At3(a, b, c, m + 1) = c[m + 1 - (Len(a) + Len(b))] /\ At3(d, b, c, m) = c[m - (Len(d) + Len(b))]
          BY ONLY <5>1 DEF At3
        <5>. QED
          BY <4>1, <4>4, <5>2
      <4>. QED
        BY <4>5, <4>6
    <3>. QED
      BY <1>2, <2>1, <3>1, <3>2
  <2>. QED
    BY <2>2, <2>3
<1>12. y = t
  BY <1>7, <1>10, <1>11, Alike
<1>. QED
  BY <1>1, <1>2, <1>5, <1>8, <1>9, <1>12

\* What a turn of the pump leaves, by where it was: the bytes that are refused
\* are missing.
Shortened(z, t, f, g) ==
  /\ z \in Seq(Int) /\ t \in Seq(Int) /\ Len(z) \in Nat
  /\ Len(t) = Len(z) - g /\ f + g <= Len(z)
  /\ \A m \in 1 .. Len(t) : t[m] = IF m <= f THEN z[m] ELSE z[m + g]

LEMMA RowPumped ==
  ASSUME NEW a \in Seq(Int), NEW b \in Seq(Int), NEW c \in Seq(Int),
         NEW n \in Nat, NEW k \in Nat, k <= n, n <= Len(b),
         NEW f \in Nat, f = Len(a) + k, NEW g \in Nat, g = n - k
  PROVE  Shortened(a \o b \o c, Kept(a, b, k) \o Left(b, n) \o c, f, g)
<1>1. PICK d, y, z, t : /\ d = Kept(a, b, k) /\ y = Left(b, n)
                        /\ z = a \o b \o c /\ t = d \o y \o c
  OBVIOUS
<1>2. Len(a) \in Nat /\ Len(b) \in Nat
  OBVIOUS
<1>3. Pumped(Int, a, b, n, k)
  BY PumpCopies
<1>4. d \in Seq(Int) /\ Len(d) = Len(a) + k /\ y \in Seq(Int) /\ Len(y) = Len(b) - n
  BY <1>1, <1>3 DEF Pumped
<1>5. EndToEnd(z, a, b, c) /\ EndToEnd(t, d, y, c)
  BY <1>1, <1>4, InARow
<1>6. PICK i, j, l \in Nat : i = Len(a) /\ j = Len(b) /\ l = Len(c)
  BY <1>5 DEF EndToEnd
<1>7. f = i + k /\ n <= j /\ Len(d) = f /\ Len(y) = j - n
  BY <1>4, <1>6
<1>8. \A m \in 1 .. i : d[m] = a[m]
  <2>1. \A m \in 1 .. i : d[0 + m] = a[0 + m]
    BY <1>1, <1>3, <1>6 DEF Pumped, Copies
  <2>2. \A m \in 1 .. i : 0 + m = m
    OBVIOUS
  <2>. QED
    BY <2>1, <2>2
<1>9. \A m \in 1 .. k : d[i + m] = b[m]
  <2>1. \A m \in 1 .. k : d[i + m] = b[0 + m]
    BY <1>1, <1>3, <1>6 DEF Pumped, Copies
  <2>2. \A m \in 1 .. k : 0 + m = m
    OBVIOUS
  <2>. QED
    BY <2>1, <2>2
<1>10. \A m \in 1 .. j - n : y[m] = b[n + m]
  <2>1. \A m \in 1 .. j - n : y[0 + m] = b[n + m]
    BY <1>1, <1>3, <1>6 DEF Pumped, Copies
  <2>2. \A m \in 1 .. j - n : 0 + m = m
    OBVIOUS
  <2>. QED
    BY <2>1, <2>2
<1>11. z \in Seq(Int) /\ t \in Seq(Int) /\ Len(z) = i + j + l /\ Len(t) = f + (j - n) + l
  BY <1>5, <1>6, <1>7 DEF EndToEnd
<1>12. \A m \in 1 .. i + j + l :
         z[m] = IF m <= i THEN a[m] ELSE IF m <= i + j THEN b[m - i] ELSE c[m - (i + j)]
  BY <1>5, <1>6 DEF EndToEnd, At3
<1>13. \A m \in 1 .. f + (j - n) + l :
         t[m] = IF m <= f THEN d[m] ELSE IF m <= f + (j - n) THEN y[m - f] ELSE c[m - (f + (j - n))]
  BY <1>5, <1>6, <1>7 DEF EndToEnd, At3
<1>14. Len(z) = i + j + l /\ Len(z) \in Nat /\ Len(t) = Len(z) - g /\ f + g <= Len(z)
  BY <1>6, <1>7, <1>11
<1>15. ASSUME NEW m \in Int, m >= 1, m <= f + (j - n) + l
       PROVE  t[m] = IF m <= f THEN z[m] ELSE z[m + g]
  <2>0. n <= j /\ k <= n /\ g = n - k /\ f = i + k
    BY <1>7
  <2>1. CASE m <= i
    <3>1. m \in 1 .. i /\ m \in 1 .. i + j + l /\ m \in 1 .. f + (j - n) + l /\ m <= f
      BY ONLY <1>15, <2>0, <2>1, i \in Nat, j \in Nat, l \in Nat, n \in Nat, k \in Nat
    <3>2. t[m] = d[m] /\ z[m] = a[m] /\ d[m] = a[m]
      BY ONLY <1>8, <1>12, <1>13, <2>1, <3>1
    <3>. QED
      BY ONLY <3>1, <3>2
  <2>2. CASE m > i /\ m <= f
    <3>1. PICK e : e = m - i
      OBVIOUS
    <3>2. /\ e \in 1 .. k /\ i + e = m /\ m \in 1 .. i + j + l /\ m \in 1 .. f + (j - n) + l
          /\ m <= i + j /\ ~(m <= i)
      BY ONLY <3>1, <1>15, <2>0, <2>2, i \in Nat, j \in Nat, l \in Nat, n \in Nat, k \in Nat
    <3>3. t[m] = d[m] /\ z[m] = b[e]
      BY ONLY <1>12, <1>13, <2>2, <3>1, <3>2
    <3>4. d[i + e] = b[e]
      BY ONLY <1>9, <3>2
    <3>. QED
      BY ONLY <2>2, <3>2, <3>3, <3>4
  <2>3. CASE m > f /\ m <= f + (j - n)
    <3>1. PICK e, h : e = m - f /\ h = m + g
      OBVIOUS
    <3>2. /\ e \in 1 .. j - n /\ h - i = n + e /\ h \in 1 .. i + j + l /\ m \in 1 .. f + (j - n) + l
          /\ h <= i + j /\ ~(h <= i) /\ ~(m <= f)
      BY ONLY <3>1, <1>15, <2>0, <2>3, i \in Nat, j \in Nat, l \in Nat, n \in Nat, k \in Nat
    <3>3. t[m] = y[e] /\ z[h] = b[h - i]
      BY ONLY <1>12, <1>13, <2>3, <3>1, <3>2
    <3>4. y[e] = b[n + e]
      BY ONLY <1>10, <3>2
    <3>. QED
      BY ONLY <3>1, <3>2, <3>3, <3>4
  <2>4. CASE m > f + (j - n)
    <3>1. PICK e, h : e = m - (f + (j - n)) /\ h = m + g
      OBVIOUS
    <3>2. /\ h - (i + j) = e /\ h \in 1 .. i + j + l /\ m \in 1 .. f + (j - n) + l
          /\ ~(h <= i + j) /\ ~(h <= i) /\ ~(m <= f)
      BY ONLY <3>1, <1>15, <2>0, <2>4, i \in Nat, j \in Nat, l \in Nat, n \in Nat, k \in Nat
    <3>3. t[m] = c[e] /\ z[h] = c[h - (i + j)]
      BY ONLY <1>12, <1>13, <2>4, <3>1, <3>2
    <3>. QED
      BY ONLY <3>1, <3>2, <3>3
  <2>. QED
    BY ONLY <2>1, <2>2, <2>3, <2>4, <1>15, f \in Nat, i \in Nat, j \in Nat, n \in Nat
<1>16. ASSUME NEW m \in 1 .. Len(t) PROVE t[m] = IF m <= f THEN z[m] ELSE z[m + g]
  <2>1. m \in Int /\ m >= 1 /\ m <= f + (j - n) + l
    BY <1>11
  <2>. QED
    BY ONLY <1>15, <2>1
<1>17. Shortened(z, t, f, g)
  BY ONLY <1>11, <1>14, <1>16 DEF Shortened
<1>. QED
  BY <1>1, <1>17

LEMMA RowKept ==
  ASSUME NEW a \in Seq(Int), NEW b \in Seq(Int), NEW c \in Seq(Int),
         NEW n \in Nat, n <= Len(b)
  PROVE  Kept(a, b, n) \o Left(b, n) \o c = a \o b \o c
<1>1. PICK z, t : z = a \o b \o c /\ t = Kept(a, b, n) \o Left(b, n) \o c
  OBVIOUS
<1>2. PICK f \in Nat : f = Len(a) + n
  OBVIOUS
<1>3. 0 \in Nat /\ 0 = n - n /\ n <= n
  OBVIOUS
<1>4. Shortened(z, t, f, 0)
  BY <1>1, <1>2, <1>3, RowPumped
<1>5. z \in Seq(Int) /\ t \in Seq(Int) /\ Len(t) = Len(z) /\ \A m \in 1 .. Len(t) : t[m] = z[m]
  BY <1>4 DEF Shortened
<1>6. t = z
  BY <1>5, Alike
<1>. QED
  BY <1>1, <1>6

LEMMA Slice ==
  ASSUME NEW s \in Seq(Int), NEW i \in Nat, NEW j \in Nat, i <= j, j <= Len(s), NEW h, h = SubSeq(s, i + 1, j)
  PROVE  h \in Seq(Int) /\ Len(h) = j - i /\ \A m \in 1 .. j - i : h[m] = s[i + m]
<1>1. Len(s) \in Nat
  OBVIOUS
<1>2. Len(h) = j - i
  BY <1>1
<1>3. h \in Seq(Int)
  BY <1>1
<1>. QED
  BY <1>1, <1>2, <1>3

\* The bytes that are refused are the ones right behind a full FIFO.
LEMMA RowCut ==
  ASSUME NEW z, NEW t, NEW f \in Nat, NEW g \in Nat, Shortened(z, t, f, g)
  PROVE  t = SubSeq(z, 1, f) \o SubSeq(z, f + g + 1, Len(z))
<1>1. PICK l \in Nat : l = Len(z)
  BY DEF Shortened
<1>2. z \in Seq(Int) /\ t \in Seq(Int) /\ Len(t) = l - g /\ f + g <= l
  BY <1>1 DEF Shortened
<1>3. PICK x, y : x = SubSeq(z, 0 + 1, f) /\ y = SubSeq(z, f + g + 1, l)
  OBVIOUS
<1>4. x \in Seq(Int) /\ Len(x) = f - 0 /\ \A m \in 1 .. f - 0 : x[m] = z[0 + m]
  BY <1>1, <1>2, <1>3, Slice
<1>5. x \in Seq(Int) /\ Len(x) = f /\ \A m \in 1 .. f : x[m] = z[m]
  BY <1>4
<1>6. PICK e \in Nat : e = f + g
  OBVIOUS
<1>7. y \in Seq(Int) /\ Len(y) = l - e /\ \A m \in 1 .. l - e : y[m] = z[e + m]
  <2>1. y = SubSeq(z, e + 1, l) /\ e <= l /\ l <= Len(z) /\ z \in Seq(Int)
    BY <1>1, <1>2, <1>3, <1>6
  <2>. QED
    BY ONLY <2>1, e \in Nat, l \in Nat, Slice
<1>8. PICK w : w = x \o y
  OBVIOUS
<1>9. /\ w \in Seq(Int) /\ Len(w) = Len(x) + Len(y)
      /\ \A m \in 1 .. Len(x) : w[m] = x[m]
      /\ \A m \in 1 .. Len(y) : w[Len(x) + m] = y[m]
  BY <1>5, <1>7, <1>8, Concat
<1>10. /\ Len(w) = l - g
       /\ \A m \in 1 .. f : w[m] = x[m]
       /\ \A m \in 1 .. l - e : w[f + m] = y[m]
  BY <1>5, <1>6, <1>7, <1>9
<1>11. ASSUME NEW m \in Int, m >= 1, m <= l - g PROVE t[m] = w[m]
  <2>0. t[m] = IF m <= f THEN z[m] ELSE z[m + g]
    BY <1>2, <1>11 DEF Shortened
  <2>1. CASE m <= f
    <3>1. m \in 1 .. f
      BY <1>11, <2>1
    <3>. QED
      BY <1>5, <1>10, <2>0, <2>1, <3>1
  <2>2. CASE m > f
    <3>1. PICK h \in Int : h = m - f
      OBVIOUS
    <3>2. h \in 1 .. l - e /\ f + h = m /\ e + h = m + g /\ ~(m <= f)
      BY <1>2, <1>6, <1>11, <2>2, <3>1
    <3>3. w[f + h] = y[h] /\ y[h] = z[e + h]
      BY ONLY <1>7, <1>10, <3>2
    <3>. QED
      BY ONLY <2>0, <3>2, <3>3
  <2>. QED
    BY <2>1, <2>2
<1>12. Len(t) = Len(w) /\ \A m \in 1 .. Len(t) : t[m] = w[m]
  <2>1. Len(t) = l - g /\ Len(w) = l - g
    BY <1>2, <1>10
  <2>2. \A m \in 1 .. l - g : m \in Int /\ m >= 1 /\ m <= l - g
    OBVIOUS
  <2>. QED
    BY ONLY <1>11, <2>1, <2>2
<1>13. t = w
  BY <1>2, <1>9, <1>12, Alike
<1>. QED
  BY <1>1, <1>3, <1>8, <1>13

-----------------------------------------------------------------------------
(* The refinement.  What is on its way to a unit is changed at one end and *)
(* by one action at a time.                                                *)
OnWay == [w \in Unit |-> OnTheWay(w)]
WrittenTo == [w \in Unit |-> sent[Peer(w)]]

LEMMA OnTheWayIs ==
  ASSUME NEW u \in Unit
  PROVE  /\ OnTheWay(u) = q[u] \o pipe[u] \o InHand(u)
         /\ OnTheWay(u)' = q'[u] \o pipe'[u] \o InHand(u)'
BY Zenon DEF OnTheWay, InHand

LEMMA WriteFollows ==
  ASSUME IInv, NEW u \in Unit, tx_to_link(u)
  PROVE  Wire!Write(Peer(u))
<1>1. PICK v \in Unit : v = Peer(u) /\ v # u /\ Peer(v) = u /\ \A w \in Unit : w # u => w = v
  BY Peers
<1>2. /\ at \in [Unit -> {"game", "send", "pump"}] /\ sent \in [Unit -> 0 .. MaxSent]
      /\ at[u] = "game" /\ at' = [at EXCEPT ![u] = "send"]
      /\ sent' = [sent EXCEPT ![u] = sent[u] + 1]
      /\ pipe' = pipe /\ q' = q /\ overrun' = overrun /\ read' = read
  BY DEF IInv, TypeOK, tx_to_link, Goes
<1>3. q[v] \in Seq(Int) /\ pipe[v] \in Seq(Int) /\ sent[u] + 1 \in Int
  BY PartsOK DEF IInv
<1>4. InHand(v) = <<>> /\ InHand(v)' = <<sent[u] + 1>> /\ InHand(u)' = InHand(u)
  BY <1>1, <1>2 DEF InHand
<1>5. OnTheWay(v)' = Append(OnTheWay(v), sent[u] + 1)
  <2>1. q[v] \o pipe[v] \o <<sent[u] + 1>> = Append(q[v] \o pipe[v] \o <<>>, sent[u] + 1)
    BY ONLY <1>3, RowGrows
  <2>2. OnTheWay(v) = q[v] \o pipe[v] \o <<>>
    BY <1>4, OnTheWayIs, Zenon
  <2>3. OnTheWay(v)' = q[v] \o pipe[v] \o <<sent[u] + 1>>
    BY <1>2, <1>4, OnTheWayIs, Zenon
  <2>. QED
    BY ONLY <2>1, <2>2, <2>3, Zenon
<1>6. OnTheWay(u)' = OnTheWay(u)
  BY <1>2, <1>4, OnTheWayIs, Zenon
<1>7. OnWay' = [OnWay EXCEPT ![v] = Append(OnWay[v], sent[u] + 1)]
  <2>1. OnWay[v] = OnTheWay(v)
    BY DEF OnWay
  <2>2. \A w \in Unit : OnTheWay(w)' = IF w = v THEN Append(OnWay[v], sent[u] + 1) ELSE OnTheWay(w)
    BY <1>1, <1>5, <1>6, <2>1
  <2>. QED
    BY <2>2 DEF OnWay
<1>8. WrittenTo' = [WrittenTo EXCEPT ![v] = WrittenTo[v] + 1] /\ WrittenTo[v] = sent[u]
  <2>1. sent'[u] = sent[u] + 1 /\ sent'[v] = sent[v]
    BY <1>1, <1>2
  <2>2. WrittenTo[v] = sent[u]
    BY <1>1 DEF WrittenTo
  <2>3. \A w \in Unit : sent'[Peer(w)] = IF w = v THEN WrittenTo[v] + 1 ELSE sent[Peer(w)]
    BY <1>1, <2>1, <2>2
  <2>. QED
    BY <2>2, <2>3 DEF WrittenTo
<1>. QED
  BY <1>1, <1>2, <1>7, <1>8 DEF Wire!Write, OnWay, WrittenTo

LEMMA SendFollows ==
  ASSUME IInv, NEW u \in Unit, send_all(u)
  PROVE  UNCHANGED Wire!vars
<1>1. PICK v \in Unit : v = Peer(u) /\ v # u /\ Peer(v) = u /\ \A w \in Unit : w # u => w = v
  BY Peers
<1>2. /\ at \in [Unit -> {"game", "send", "pump"}] /\ pipe \in [Unit -> Seq(1 .. MaxSent)]
      /\ at[u] = "send" /\ at' = [at EXCEPT ![u] = "game"]
      /\ pipe' = [pipe EXCEPT ![v] = Append(pipe[v], sent[u])]
      /\ sent' = sent /\ q' = q /\ overrun' = overrun /\ read' = read
  BY <1>1 DEF IInv, TypeOK, send_all, Goes
<1>3. q[v] \in Seq(Int) /\ pipe[v] \in Seq(Int) /\ sent[u] \in Int
  BY PartsOK DEF IInv
<1>4. InHand(v) = <<sent[u]>> /\ InHand(v)' = <<>> /\ InHand(u)' = InHand(u)
  BY <1>1, <1>2 DEF InHand
<1>5. OnTheWay(v)' = OnTheWay(v)
  <2>1. pipe'[v] = Append(pipe[v], sent[u])
    BY <1>2
  <2>. QED
    <3>1. q[v] \o Append(pipe[v], sent[u]) \o <<>> = q[v] \o pipe[v] \o <<sent[u]>>
      BY ONLY <1>3, RowMoves
    <3>2. OnTheWay(v) = q[v] \o pipe[v] \o <<sent[u]>>
      BY <1>4, OnTheWayIs, Zenon
    <3>3. OnTheWay(v)' = q[v] \o Append(pipe[v], sent[u]) \o <<>>
      BY <1>2, <1>4, <2>1, OnTheWayIs, Zenon
    <3>. QED
      BY ONLY <3>1, <3>2, <3>3, Zenon
<1>6. OnTheWay(u)' = OnTheWay(u)
  <2>1. pipe'[u] = pipe[u]
    BY <1>1, <1>2
  <2>. QED
    BY <1>2, <1>4, <2>1, OnTheWayIs, Zenon
<1>7. OnWay' = OnWay
  BY <1>1, <1>5, <1>6 DEF OnWay
<1>8. WrittenTo' = WrittenTo
  BY <1>2 DEF WrittenTo
<1>. QED
  BY <1>2, <1>7, <1>8 DEF Wire!vars, OnWay, WrittenTo

LEMMA ReadFollows ==
  ASSUME IInv, NEW u \in Unit, read_SERDAT(u)
  PROVE  Wire!Read(u)
<1>1. PICK v \in Unit : v = Peer(u) /\ v # u /\ Peer(v) = u /\ \A w \in Unit : w # u => w = v
  BY Peers
<1>2. /\ q \in [Unit -> Seq(1 .. MaxSent)] /\ q[u] # <<>>
      /\ read' = [read EXCEPT ![u] = Head(q[u])] /\ q' = [q EXCEPT ![u] = Tail(q[u])]
      /\ at' = at /\ sent' = sent /\ pipe' = pipe /\ overrun' = overrun
  BY DEF IInv, TypeOK, read_SERDAT
<1>3. q[u] \in Seq(Int) /\ pipe[u] \in Seq(Int) /\ InHand(u) \in Seq(Int)
  BY PartsOK DEF IInv
<1>4. InHand(v)' = InHand(v) /\ InHand(u)' = InHand(u)
  BY <1>2 DEF InHand
<1>5. /\ OnTheWay(u) # <<>> /\ Head(OnTheWay(u)) = Head(q[u])
      /\ OnTheWay(u)' = Tail(OnTheWay(u))
  <2>1. q'[u] = Tail(q[u])
    BY <1>2
  <2>2. OnTheWay(u)' = Tail(q[u]) \o pipe[u] \o InHand(u)
    BY <1>2, <1>4, <2>1, OnTheWayIs, Zenon
  <2>. QED
    <3>1. PICK a, b, c \in Seq(Int) : a = q[u] /\ b = pipe[u] /\ c = InHand(u)
      BY <1>3
    <3>2. a # <<>>
      BY <1>2, <3>1
    <3>3. PICK z : z = a \o b \o c
      OBVIOUS
    <3>4. z # <<>> /\ Head(z) = Head(a) /\ Tail(z) = Tail(a) \o b \o c
      BY ONLY <3>2, <3>3, a \in Seq(Int), b \in Seq(Int), c \in Seq(Int), RowRead
    <3>5. OnTheWay(u) = z
      BY <3>1, <3>3, OnTheWayIs, Zenon
    <3>. QED
      BY ONLY <2>2, <3>1, <3>4, <3>5, Zenon
<1>6. OnTheWay(v)' = OnTheWay(v)
  <2>1. q'[v] = q[v]
    BY <1>1, <1>2
  <2>. QED
    BY <1>2, <1>4, <2>1, OnTheWayIs, Zenon
<1>7. OnWay[u] = OnTheWay(u) /\ OnWay' = [OnWay EXCEPT ![u] = Tail(OnWay[u])]
  <2>1. OnWay[u] = OnTheWay(u)
    BY DEF OnWay
  <2>2. \A w \in Unit : OnTheWay(w)' = IF w = u THEN Tail(OnWay[u]) ELSE OnTheWay(w)
    BY <1>1, <1>5, <1>6, <2>1
  <2>. QED
    BY <2>1, <2>2 DEF OnWay
<1>8. WrittenTo' = WrittenTo
  BY <1>2 DEF WrittenTo
<1>. QED
  BY <1>2, <1>5, <1>7, <1>8 DEF Wire!Read, OnWay, WrittenTo

LEMMA PumpFollows ==
  ASSUME IInv, NEW u \in Unit, lynx_net_pump(u)
  PROVE  Wire!Lose(u) \/ UNCHANGED Wire!vars
<1>1. PICK v \in Unit : v = Peer(u) /\ v # u /\ Peer(v) = u /\ \A w \in Unit : w # u => w = v
  BY Peers
<1>2. /\ q[u] \in Seq(Int) /\ pipe[u] \in Seq(Int) /\ InHand(u) \in Seq(Int)
      /\ Len(q[u]) \in Nat /\ Len(pipe[u]) \in Nat /\ Len(q[u]) <= Capacity
  BY PartsOK DEF IInv, TypeOK
<1>3. PICK n : n = Min(Len(pipe[u]), Chunk)
  OBVIOUS
<1>4. PICK k : k = Min(n, Capacity - Len(q[u]))
  OBVIOUS
<1>5. /\ n \in Nat /\ k \in Nat /\ k <= n /\ n <= Len(pipe[u])
      /\ k < n => Len(q[u]) + k = Capacity
  <2>1. PICK i, j, f \in Nat : i = Len(q[u]) /\ j = Len(pipe[u]) /\ f = Capacity /\ i <= f
    BY <1>2, Sizes
  <2>2. n \in Nat /\ n <= j
    BY <1>3, <2>1, Sizes DEF Min
  <2>3. k \in Nat /\ k <= n /\ (k < n => i + k = f)
    <3>0. f - i \in Nat
      BY ONLY <2>1, i \in Nat, f \in Nat
    <3>1. PICK h : h = f - i /\ h \in Nat
      BY <3>0
    <3>2. k = IF n < h THEN n ELSE h
      BY <1>4, <2>1, <3>1 DEF Min
    <3>. QED
      BY ONLY <2>2, <3>1, <3>2, i \in Nat, f \in Nat
  <2>. QED
    BY <2>1, <2>2, <2>3
<1>6. /\ at' \in {[at EXCEPT ![u] = "game"], [at EXCEPT ![u] = "pump"]}
      /\ at[u] \in {"game", "pump"}
      /\ pipe' = [pipe EXCEPT ![u] = Left(pipe[u], n)] /\ q' = [q EXCEPT ![u] = Kept(q[u], pipe[u], k)]
      /\ overrun' = [overrun EXCEPT ![u] = overrun[u] \/ k < n]
      /\ sent' = sent /\ read' = read
  BY <1>3, <1>4 DEF lynx_net_pump, Pumps, Goes, Kept, Left
<1>7. /\ at \in [Unit -> {"game", "send", "pump"}] /\ pipe \in [Unit -> Seq(1 .. MaxSent)]
      /\ q \in [Unit -> Seq(1 .. MaxSent)] /\ overrun \in [Unit -> BOOLEAN]
  BY DEF IInv, TypeOK
<1>8. InHand(v)' = InHand(v) /\ InHand(u)' = InHand(u)
  <2>1. at'[v] = at[v] /\ at'[u] # "send" /\ at[u] # "send"
    BY <1>1, <1>6, <1>7
  <2>. QED
    BY <1>1, <1>6, <2>1 DEF InHand
<1>9. OnTheWay(v)' = OnTheWay(v)
  <2>1. q'[v] = q[v] /\ pipe'[v] = pipe[v]
    BY <1>1, <1>6, <1>7
  <2>. QED
    BY <1>8, <2>1, OnTheWayIs, Zenon
<1>10. OnTheWay(u)' = Kept(q[u], pipe[u], k) \o Left(pipe[u], n) \o InHand(u)
  <2>1. q'[u] = Kept(q[u], pipe[u], k) /\ pipe'[u] = Left(pipe[u], n)
    BY <1>6, <1>7
  <2>. QED
    BY <1>8, <2>1, OnTheWayIs, Zenon
<1>11. WrittenTo' = WrittenTo
  BY <1>6 DEF WrittenTo
<1>12. CASE k = n
  <2>1. OnTheWay(u)' = OnTheWay(u)
    <3>1. Kept(q[u], pipe[u], n) \o Left(pipe[u], n) \o InHand(u) = q[u] \o pipe[u] \o InHand(u)
      <4>1. PICK a, b, c \in Seq(Int) : a = q[u] /\ b = pipe[u] /\ c = InHand(u)
        BY <1>2
      <4>2. n \in Nat /\ n <= Len(b)
        BY <1>5, <4>1
      <4>3. Kept(a, b, n) \o Left(b, n) \o c = a \o b \o c
        BY ONLY <4>2, a \in Seq(Int), b \in Seq(Int), c \in Seq(Int), RowKept
      <4>. QED
        BY ONLY <4>1, <4>3, Zenon
    <3>. QED
      BY ONLY <1>10, <1>12, <3>1, u \in Unit, OnTheWayIs, Zenon
  <2>2. OnWay' = OnWay
    BY <1>1, <1>9, <2>1 DEF OnWay
  <2>3. overrun' = overrun
    <3>1. ~(k < n)
      BY <1>5, <1>12
    <3>. QED
      BY <1>6, <1>7, <3>1
  <2>. QED
    BY <1>6, <1>11, <2>2, <2>3 DEF Wire!vars, OnWay, WrittenTo
<1>13. CASE k < n
  <2>1. PICK g \in Nat : g = n - k /\ g >= 1
    BY <1>5, <1>13
  <2>2. Capacity \in Nat /\ Capacity = Len(q[u]) + k
    BY <1>5, <1>13, Sizes
  <2>3. PICK z, t : z = OnTheWay(u) /\ t = OnTheWay(u)'
    OBVIOUS
  <2>4. Shortened(z, t, Capacity, g)
    <3>1. Shortened(q[u] \o pipe[u] \o InHand(u),
                    Kept(q[u], pipe[u], k) \o Left(pipe[u], n) \o InHand(u), Capacity, g)
      BY ONLY <1>2, <1>5, <2>1, <2>2, RowPumped
    <3>. QED
      BY ONLY <1>10, <2>3, <3>1, u \in Unit, OnTheWayIs, Zenon
  <2>5. t = Wire!Without(z, g)
    BY <2>2, <2>4, RowCut DEF Wire!Without
  <2>6. Len(z) \in Nat /\ g \in 1 .. Len(z) - Capacity
    BY <2>1, <2>2, <2>4 DEF Shortened
  <2>7. OnWay[u] = z /\ OnWay' = [OnWay EXCEPT ![u] = Wire!Without(OnWay[u], g)]
    <3>1. OnWay[u] = z
      BY <2>3 DEF OnWay
    <3>2. \A w \in Unit : OnTheWay(w)' = IF w = u THEN Wire!Without(OnWay[u], g) ELSE OnTheWay(w)
      BY <1>1, <1>9, <2>3, <2>5, <3>1
    <3>. QED
      BY <3>1, <3>2 DEF OnWay
  <2>8. overrun' = [overrun EXCEPT ![u] = TRUE]
    BY <1>6, <1>13
  <2>. QED
    BY <1>6, <1>11, <2>6, <2>7, <2>8 DEF Wire!Lose, OnWay, WrittenTo
<1>. QED
  BY <1>5, <1>12, <1>13

(* For the two games the units, threads and buffers are a cable.           *)
THEOREM LinkImplementsCable == Spec => ImplementsCable
<1>1. Init => Wire!Init
  <2>. SUFFICES ASSUME Init PROVE Wire!Init
    OBVIOUS
  <2>1. \A u \in Unit : sent[Peer(u)] = 0
    BY Peers DEF Init
  <2>2. \A u \in Unit : OnTheWay(u) = <<>>
    <3>. SUFFICES ASSUME NEW u \in Unit PROVE OnTheWay(u) = <<>>
      OBVIOUS
    <3>1. q[u] = <<>> /\ pipe[u] = <<>> /\ InHand(u) = <<>>
      BY Peers DEF Init, InHand
    <3>2. <<>> \o <<>> \o <<>> = <<>>
      OBVIOUS
    <3>. QED
      BY <3>1, <3>2, OnTheWayIs, Zenon
  <2>. QED
    BY <2>1, <2>2 DEF Init, Wire!Init
<1>2. IInv /\ [Next]_vars => [Wire!Next]_(Wire!vars)
  <2>. SUFFICES ASSUME IInv, [Next]_vars PROVE Wire!Next \/ UNCHANGED Wire!vars
    OBVIOUS
  <2>1. ASSUME NEW u \in Unit, tx_to_link(u) PROVE Wire!Next
    BY <2>1, WriteFollows, Peers DEF Wire!Next
  <2>2. ASSUME NEW u \in Unit, read_SERDAT(u) PROVE Wire!Next
    BY <2>2, ReadFollows DEF Wire!Next
  <2>3. ASSUME NEW u \in Unit, lynx_net_pump(u) PROVE Wire!Next \/ UNCHANGED Wire!vars
    BY <2>3, PumpFollows DEF Wire!Next
  <2>4. ASSUME NEW u \in Unit, send_all(u) PROVE UNCHANGED Wire!vars
    BY <2>4, SendFollows
  <2>5. CASE UNCHANGED vars
    BY <2>5 DEF vars, Wire!vars, OnTheWay
  <2>. QED
    BY <2>1, <2>2, <2>3, <2>4, <2>5 DEF Next
<1>. QED
  BY <1>1, <1>2, Invariant, PTL DEF Spec, ImplementsCable, Wire!Spec
=============================================================================
