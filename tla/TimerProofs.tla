----------------------------- MODULE TimerProofs -----------------------------
(***************************************************************************)
(* Proofs about modules Timer and FrameCadence, for every set of timers    *)
(* and every line and frame length.                                        *)
(***************************************************************************)
EXTENDS FrameCadence, Iteration

-----------------------------------------------------------------------------
(* One tick.                                                               *)

(* A timer that underflows ticks its successor.                            *)
Carries(m, i) ==
  /\ m.reg[i].count = 0
  /\ link_succ[i] \in Timer
  /\ Linked(m, link_succ[i])

(* The cascade has an end: it is given by what it is at each timer, the    *)
(* last of a chain first.                                                  *)
LEMMA Reached ==
  ASSUME NEW m
  PROVE  ticked(m) = [i \in Timer |->
           {i} \cup (IF Carries(m, i) THEN ticked(m)[link_succ[i]] ELSE {})]
<1> DEFINE Onward(i, S) == {i} \cup (IF Carries(m, i) THEN S ELSE {})
           w7 == Onward(7, {})
           w6 == Onward(6, {})
           w5 == Onward(5, w7)
           w3 == Onward(3, w5)
           w1 == Onward(1, w3)
           w4 == Onward(4, w1)
           w2 == Onward(2, w4)
           w0 == Onward(0, w2)
           W(i) == CASE i = 0 -> w0 [] i = 1 -> w1 [] i = 2 -> w2 [] i = 3 -> w3
                     [] i = 4 -> w4 [] i = 5 -> w5 [] i = 6 -> w6 [] i = 7 -> w7
           w == [i \in Timer |-> W(i)]
<1>1. ASSUME NEW i \in Timer
      PROVE  w[i] = {i} \cup (IF Carries(m, i) THEN w[link_succ[i]] ELSE {})
  <2>1. i \in 0 .. 7
    BY TimerAssumption
  <2>2. CASE i = 0 BY <2>2 DEF Carries, link_succ
  <2>3. CASE i = 1 BY <2>3 DEF Carries, link_succ
  <2>4. CASE i = 2 BY <2>4 DEF Carries, link_succ
  <2>5. CASE i = 3 BY <2>5 DEF Carries, link_succ
  <2>6. CASE i = 4 BY <2>6 DEF Carries, link_succ
  <2>7. CASE i = 5 BY <2>7 DEF Carries, link_succ
  <2>8. CASE i = 6 BY <2>8, TimerAssumption DEF Carries, link_succ
  <2>9. CASE i = 7 BY <2>9, TimerAssumption DEF Carries, link_succ
  <2> HIDE DEF w
  <2> QED BY <2>1, <2>2, <2>3, <2>4, <2>5, <2>6, <2>7, <2>8, <2>9
<1>2. w = [i \in Timer |-> {i} \cup (IF Carries(m, i) THEN w[link_succ[i]] ELSE {})]
  <2> HIDE DEF W
  <2>1. w = [i \in Timer |-> w[i]]
    OBVIOUS
  <2> HIDE DEF w
  <2> QED BY ONLY <1>1, <2>1
<1> HIDE DEF w
<1>3. \E g : g = [i \in Timer |-> {i} \cup (IF Carries(m, i) THEN g[link_succ[i]] ELSE {})]
  BY <1>2
<1> QED BY <1>3 DEF ticked, Carries

(* What the cascades have to do with timers 0 and 2, whatever is linked:   *)
(* only timer 0 reaches 2, and none reaches 0.                             *)
Cascade(m, t) ==
  \A i \in Timer :
    /\ i \in t[i] /\ t[i] \subseteq Timer
    /\ i # 0 => 0 \notin t[i]
    /\ i \notin {0, 2} => 2 \notin t[i]
    /\ i = 0 => (2 \in t[i] <=> Carries(m, 0))

LEMMA Cascades ==
  ASSUME NEW m
  PROVE  Cascade(m, ticked(m))
<1> PICK t : t = ticked(m)
  OBVIOUS
<1>0. \A i \in Timer : t[i] = {i} \cup (IF Carries(m, i) THEN t[link_succ[i]] ELSE {})
  BY Reached
<1>1. \A i \in Timer : i \in 0 .. 7 /\ i \in t[i]
  BY <1>0, TimerAssumption
<1>2. /\ link_succ[0] = 2 /\ link_succ[1] = 3 /\ link_succ[2] = 4 /\ link_succ[3] = 5
      /\ link_succ[4] = 1 /\ link_succ[5] = 7 /\ link_succ[6] = -1 /\ link_succ[7] = -1
  BY DEF link_succ
<1>3. \A i : Carries(m, i) => link_succ[i] \in Timer
  BY DEF Carries
<1>4. -1 \notin Timer
  BY TimerAssumption
<1>5. \A i \in Timer : i \in {6, 7} => t[i] = {i}
  BY ONLY <1>0, <1>2, <1>3, <1>4
<1>6. 5 \in Timer => t[5] \subseteq {5, 7} \cap Timer
  BY ONLY <1>0, <1>2, <1>3, <1>5
<1>7. 3 \in Timer => t[3] \subseteq {3, 5, 7} \cap Timer
  BY ONLY <1>0, <1>2, <1>3, <1>6
<1>8. 1 \in Timer => t[1] \subseteq {1, 3, 5, 7} \cap Timer
  BY ONLY <1>0, <1>2, <1>3, <1>7
<1>9. 4 \in Timer => t[4] \subseteq {1, 3, 4, 5, 7} \cap Timer
  BY ONLY <1>0, <1>2, <1>3, <1>8
<1>10. 2 \in Timer => t[2] \subseteq {1, 2, 3, 4, 5, 7} \cap Timer
  BY ONLY <1>0, <1>2, <1>3, <1>9
<1>11. 0 \in Timer => t[0] \subseteq Timer
  BY ONLY <1>0, <1>2, <1>3, <1>10
<1>12. 0 \in Timer => (2 \in t[0] <=> Carries(m, 0))
  <2>1. Carries(m, 0) => 2 \in t[2]
    BY <1>1, <1>2, <1>3
  <2> QED BY ONLY <2>1, <1>0, <1>2
<1>13. \A i \in Timer : t[i] \subseteq Timer
  <2> TAKE i \in Timer
  <2>1. i = 0 \/ i = 1 \/ i = 2 \/ i = 3 \/ i = 4 \/ i = 5 \/ i \in {6, 7}
    BY <1>1
  <2> QED BY ONLY i \in Timer, <2>1, <1>5, <1>6, <1>7, <1>8, <1>9, <1>10, <1>11
<1>14. \A i \in Timer : i # 0 => 0 \notin t[i]
  BY ONLY <1>1, <1>5, <1>6, <1>7, <1>8, <1>9, <1>10
<1>15. \A i \in Timer : i \notin {0, 2} => 2 \notin t[i]
  BY ONLY <1>1, <1>5, <1>6, <1>7, <1>8, <1>9
<1> QED BY <1>1, <1>12, <1>13, <1>14, <1>15 DEF Cascade

(* A tick leaves the registers in range, and what the game has programmed. *)
LEMMA CountedType ==
  ASSUME NEW r \in Registers
  PROVE  counted(r) \in Registers /\ counted(r).ctlA = r.ctlA /\ counted(r).backup = r.backup
<1>1. r.count \in 0 .. MaxCount /\ r.backup \in 0 .. MaxCount /\ MaxCount \in Nat
  BY MaxCountAssumption DEF Registers
<1>2. CASE r.count = 0
  BY <1>1, <1>2 DEF counted, Registers
<1>3. CASE r.count # 0
  <2>1. r.count - 1 \in 0 .. MaxCount
    BY <1>1, <1>3
  <2> QED BY <2>1, <1>3 DEF counted, Registers
<1> QED BY <1>2, <1>3

(* A tick of timer i, field by field.                                      *)
Ticks(m, i, n) ==
  /\ n \in Machines
  /\ n.phase = m.phase
  /\ \A j \in Timer :
       n.reg[j] = IF j \in ticked(m)[i] THEN counted(m.reg[j]) ELSE m.reg[j]
  /\ \A j \in Timer :
       j \in n.latch <=>
         j \in m.latch \/ (j \in ticked(m)[i] /\ m.reg[j].count = 0 /\ m.reg[j].ctlA.int)

LEMMA TickFields ==
  ASSUME NEW m \in Machines, NEW i \in Timer
  PROVE  Ticks(m, i, tick(m, i))
<1> PICK t : t = ticked(m)[i]
  OBVIOUS
<1>1. t \subseteq Timer
  BY Cascades DEF Cascade
<1> DEFINE Fires(j) == m.reg[j].count = 0 /\ m.reg[j].ctlA.int
           reg1 == [j \in Timer |-> IF j \in t THEN counted(m.reg[j]) ELSE m.reg[j]]
           latch1 == m.latch \cup {j \in t : Fires(j)}
<1>2. tick(m, i) = [m EXCEPT !.reg = reg1, !.latch = latch1]
  BY DEF tick
<1>3. m.reg \in [Timer -> Registers] /\ m.phase \in [Timer -> 0 .. 63] /\ m.latch \subseteq Timer
  BY DEF Machines
<1>4. reg1 \in [Timer -> Registers]
  BY <1>3, CountedType
<1>5. latch1 \subseteq Timer
  BY <1>1, <1>3
<1>6. \A j \in Timer : reg1[j] = IF j \in t THEN counted(m.reg[j]) ELSE m.reg[j]
  OBVIOUS
<1>7. \A j \in Timer : j \in latch1 <=> j \in m.latch \/ (j \in t /\ Fires(j))
  <2> HIDE DEF Fires
  <2> QED OBVIOUS
<1> HIDE DEF reg1, latch1, Fires
<1>8. tick(m, i) \in Machines /\ tick(m, i).phase = m.phase
      /\ tick(m, i).reg = reg1 /\ tick(m, i).latch = latch1
  BY <1>2, <1>4, <1>5 DEF Machines
<1> QED BY <1>6, <1>7, <1>8 DEF Ticks, Fires

-----------------------------------------------------------------------------
(* A timer's share of a step is a run of ticks.                            *)
Ticker(i) == [x \in Machines |-> tick(x, i)]
Wholes(m, i, us) == (m.phase[i] + us) \div Period(m.reg[i])
Rest(m, i, us) == (m.phase[i] + us) % Period(m.reg[i])
Begun(m, i, us) == [m EXCEPT !.phase[i] = Rest(m, i, us)]
Runs(m, i) == m.reg[i].ctlA.count /\ m.reg[i].ctlA.clock # 7

LEMMA Periods ==
  ASSUME NEW r \in Registers, r.ctlA.clock # 7
  PROVE  Period(r) \in Powers
<1>1. r.ctlA.clock \in 0 .. 6
  BY DEF Registers, ControlA
<1> QED BY <1>1, Power DEF Period

LEMMA Shares ==
  ASSUME NEW m \in Machines, NEW i \in Timer, NEW us \in Nat, Runs(m, i)
  PROVE  /\ Period(m.reg[i]) \in Powers
         /\ Wholes(m, i, us) \in Nat
         /\ Rest(m, i, us) \in 0 .. Period(m.reg[i]) - 1
         /\ m.phase[i] + us = Wholes(m, i, us) * Period(m.reg[i]) + Rest(m, i, us)
<1>1. m.reg[i] \in Registers /\ m.phase[i] \in 0 .. 63
  BY DEF Machines
<1>2. Period(m.reg[i]) \in Powers
  BY <1>1, Periods DEF Runs
<1>3. m.phase[i] + us \in Nat
  BY <1>1
<1>5. PICK t \in Nat, p \in Powers : t = m.phase[i] + us /\ p = Period(m.reg[i])
  BY <1>2, <1>3
<1>4. t \div p \in Nat /\ t % p \in 0 .. p - 1 /\ t = (t \div p) * p + (t % p)
  BY Divides
<1> QED BY ONLY <1>2, <1>4, <1>5, Zenon DEF Wholes, Rest

LEMMA BegunFields ==
  ASSUME NEW m \in Machines, NEW i \in Timer, NEW us \in Nat, Runs(m, i)
  PROVE  /\ Begun(m, i, us) \in Machines
         /\ Begun(m, i, us).reg = m.reg /\ Begun(m, i, us).latch = m.latch
         /\ Begun(m, i, us).phase = [m.phase EXCEPT ![i] = Rest(m, i, us)]
<1>1. Rest(m, i, us) \in 0 .. 63
  <2>1. /\ Rest(m, i, us) \in 0 .. Period(m.reg[i]) - 1
        /\ Period(m.reg[i]) \in {1, 2, 4, 8, 16, 32, 64}
    BY Shares DEF Powers
  <2> QED BY ONLY <2>1
<1> QED BY <1>1 DEF Begun, Machines

LEMMA AdvanceRun ==
  ASSUME NEW m \in Machines, NEW i \in Timer, NEW us \in Nat, Runs(m, i)
  PROVE  \E g : /\ Run(g, Ticker(i), Begun(m, i, us), Wholes(m, i, us))
                /\ advance(m, i, us) = g[Wholes(m, i, us)]
<1> DEFINE N == Wholes(m, i, us)
           x == Begun(m, i, us)
           F == Ticker(i)
           IsAfter(g) == g = [n \in 0 .. N |-> IF n = 0 THEN x ELSE tick(g[n - 1], i)]
           after == CHOOSE g : IsAfter(g)
<1>1. N \in Nat /\ x \in Machines /\ F \in [Machines -> Machines]
  <2>1. \A y \in Machines : tick(y, i) \in Machines
    BY TickFields DEF Ticks
  <2> QED BY <2>1, Shares, BegunFields DEF Ticker
<1>2. \A y \in Machines : F[y] = tick(y, i)
  BY DEF Ticker
<1>3. advance(m, i, us) = after[N]
  BY DEF advance, Runs, Wholes, Begun, Rest
<1> HIDE DEF N, x, F
<1>4. \E g : IsAfter(g)
  <2>1. PICK g : Run(g, F, x, N)
    BY <1>1, RunExists
  <2>2. \A k \in 0 .. N : g[k] \in Machines
    BY <1>1, <2>1, RunStays
  <2>3. \A n \in 0 .. N : n # 0 => F[g[n - 1]] = tick(g[n - 1], i)
    BY <1>1, <1>2, <2>2
  <2>4. IsAfter(g)
    BY <2>1, <2>3 DEF Run
  <2> QED BY <2>4
<1>5. IsAfter(after)
  BY <1>4
<1> HIDE DEF after
<1>6. Loop(after, F, Machines, x, N)
  <2>1. \A k \in 0 .. N : after[k] = IF k = 0 THEN x ELSE tick(after[k - 1], i)
    BY <1>5
  <2>2. after = [k \in 0 .. N |-> after[k]]
    BY <1>5
  <2>3. after[0] = x
    BY <1>1, <2>1
  <2>4. \A k \in 0 .. N - 1 : after[k + 1] = tick(after[k], i)
    BY <1>1, <2>1
  <2> QED BY <2>2, <2>3, <2>4, <1>2 DEF Loop
<1>7. Run(after, F, x, N)
  BY <1>1, <1>6, LoopRuns
<1> QED BY <1>3, <1>7 DEF N, x, F

LEMMA TickerType ==
  ASSUME NEW i \in Timer
  PROVE  /\ Ticker(i) \in [Machines -> Machines]
         /\ \A y \in Machines : Ticker(i)[y] = tick(y, i) /\ Ticks(y, i, Ticker(i)[y])
<1>1. \A y \in Machines : tick(y, i) \in Machines /\ Ticks(y, i, tick(y, i))
  BY TickFields DEF Ticks
<1> QED BY <1>1 DEF Ticker

LEMMA AdvanceType ==
  ASSUME NEW m \in Machines, NEW i \in Timer, NEW us \in Nat
  PROVE  advance(m, i, us) \in Machines
<1>1. CASE ~Runs(m, i)
  BY <1>1 DEF advance, Runs
<1>2. CASE Runs(m, i)
  <2>1. PICK g : /\ Run(g, Ticker(i), Begun(m, i, us), Wholes(m, i, us))
                 /\ advance(m, i, us) = g[Wholes(m, i, us)]
    BY <1>2, AdvanceRun
  <2>2. /\ Wholes(m, i, us) \in Nat /\ Begun(m, i, us) \in Machines
        /\ \A y \in Machines : Ticker(i)[y] \in Machines
    BY <1>2, Shares, BegunFields, TickerType
  <2>3. \A k \in 0 .. Wholes(m, i, us) : g[k] \in Machines
    BY <2>1, <2>2, RunStays
  <2> QED BY <2>1, <2>2, <2>3
<1> QED BY <1>1, <1>2

(* A step advances the timers one after the other.                         *)
Share(m, i, us) == IF i \in Timer THEN advance(m, i, us) ELSE m

LEMMA StepIs ==
  ASSUME NEW m, NEW us
  PROVE  step(m, us) =
           Share(Share(Share(Share(Share(Share(Share(Share(
             m, 0, us), 1, us), 2, us), 3, us), 4, us), 5, us), 6, us), 7, us)
<1> DEFINE m1 == Share(m, 0, us)
           m2 == Share(m1, 1, us)
           m3 == Share(m2, 2, us)
           m4 == Share(m3, 3, us)
           m5 == Share(m4, 4, us)
           m6 == Share(m5, 5, us)
           m7 == Share(m6, 6, us)
           m8 == Share(m7, 7, us)
           W(i) == CASE i = 0 -> m [] i = 1 -> m1 [] i = 2 -> m2 [] i = 3 -> m3 [] i = 4 -> m4
                     [] i = 5 -> m5 [] i = 6 -> m6 [] i = 7 -> m7 [] i = 8 -> m8
           IsUpto(g) == g = [i \in 0 .. 8 |-> IF i = 0 THEN m
                               ELSE IF i - 1 \in Timer THEN advance(g[i - 1], i - 1, us) ELSE g[i - 1]]
           w == [i \in 0 .. 8 |-> W(i)]
           upto == CHOOSE g : IsUpto(g)
<1>1. step(m, us) = upto[8]
  BY DEF step
<1>2. IsUpto(w)
  <2>1. ASSUME NEW i \in 0 .. 8
        PROVE  w[i] = IF i = 0 THEN m ELSE Share(w[i - 1], i - 1, us)
    <3> HIDE DEF m1, m2, m3, m4, m5, m6, m7, m8
    <3>1. CASE i = 0 BY <3>1
    <3>2. CASE i = 1 BY <3>2 DEF m1
    <3>3. CASE i = 2 BY <3>3 DEF m2
    <3>4. CASE i = 3 BY <3>4 DEF m3
    <3>5. CASE i = 4 BY <3>5 DEF m4
    <3>6. CASE i = 5 BY <3>6 DEF m5
    <3>7. CASE i = 6 BY <3>7 DEF m6
    <3>8. CASE i = 7 BY <3>8 DEF m7
    <3>9. CASE i = 8 BY <3>9 DEF m8
    <3> HIDE DEF w
    <3> QED BY <3>1, <3>2, <3>3, <3>4, <3>5, <3>6, <3>7, <3>8, <3>9
  <2> HIDE DEF W
  <2>2. w = [i \in 0 .. 8 |-> w[i]]
    OBVIOUS
  <2> HIDE DEF w
  <2>3. w = [i \in 0 .. 8 |-> IF i = 0 THEN m ELSE Share(w[i - 1], i - 1, us)]
    BY ONLY <2>1, <2>2
  <2> QED BY <2>3 DEF Share
<1> HIDE DEF w
<1>3. IsUpto(upto)
  BY <1>2
<1> HIDE DEF upto
<1>4. \A i \in 0 .. 8 : upto[i] = IF i = 0 THEN m ELSE Share(upto[i - 1], i - 1, us)
  BY <1>3 DEF Share
<1>5. \A i \in 1 .. 8 : upto[i] = Share(upto[i - 1], i - 1, us)
  BY ONLY <1>4
<1> HIDE DEF IsUpto
<1>6. /\ upto[0] = m /\ upto[1] = Share(upto[0], 0, us) /\ upto[2] = Share(upto[1], 1, us)
      /\ upto[3] = Share(upto[2], 2, us) /\ upto[4] = Share(upto[3], 3, us)
      /\ upto[5] = Share(upto[4], 4, us) /\ upto[6] = Share(upto[5], 5, us)
      /\ upto[7] = Share(upto[6], 6, us) /\ upto[8] = Share(upto[7], 7, us)
  BY ONLY <1>4, <1>5
<1> QED BY ONLY <1>1, <1>6, Zenon

LEMMA ShareType ==
  ASSUME NEW m \in Machines, NEW i, NEW us \in Nat
  PROVE  Share(m, i, us) \in Machines
BY AdvanceType DEF Share

THEOREM StepType ==
  ASSUME NEW m \in Machines, NEW us \in Nat
  PROVE  step(m, us) \in Machines
BY StepIs, ShareType

-----------------------------------------------------------------------------
(* The timers fall into parts that have nothing to do with each other: a   *)
(* timer on a clock of its own, and the linked timers it drives.           *)

LEMMA Eight ==
  \A i \in Timer : i = 0 \/ i = 1 \/ i = 2 \/ i = 3 \/ i = 4 \/ i = 5 \/ i = 6 \/ i = 7
<1> TAKE i \in Timer
<1>1. i \in 0 .. 7
  BY TimerAssumption
<1> QED BY ONLY <1>1

(* Whatever holds at a timer if it holds at its successor holds at all.    *)
LEMMA ChainInduction ==
  ASSUME NEW S,
         \A i \in Timer : (link_succ[i] \in Timer => link_succ[i] \in S) => i \in S
  PROVE  \A i \in Timer : i \in S
<1>1. /\ link_succ[0] = 2 /\ link_succ[1] = 3 /\ link_succ[2] = 4 /\ link_succ[3] = 5
      /\ link_succ[4] = 1 /\ link_succ[5] = 7 /\ link_succ[6] = -1 /\ link_succ[7] = -1
  BY DEF link_succ
<1>2. -1 \notin Timer
  BY TimerAssumption
<1>3. (6 \in Timer => 6 \in S) /\ (7 \in Timer => 7 \in S)
  BY <1>1, <1>2
<1>4. 5 \in Timer => 5 \in S
  BY <1>1, <1>3
<1>5. 3 \in Timer => 3 \in S
  BY <1>1, <1>4
<1>6. 1 \in Timer => 1 \in S
  BY <1>1, <1>5
<1>7. 4 \in Timer => 4 \in S
  BY <1>1, <1>6
<1>8. 2 \in Timer => 2 \in S
  BY <1>1, <1>7
<1>9. 0 \in Timer => 0 \in S
  BY <1>1, <1>8
<1>10. \A i \in Timer : i = 0 \/ i = 1 \/ i = 2 \/ i = 3 \/ i = 4 \/ i = 5 \/ i = 6 \/ i = 7
  BY Eight
<1> QED BY ONLY <1>3, <1>4, <1>5, <1>6, <1>7, <1>8, <1>9, <1>10

(* The timers that others drive, and the timer at the head of a part.      *)
Links(m) == {k \in Timer : Linked(m, k)}

Owner2(L) == IF 2 \in L THEN 0 ELSE 2
Owner4(L) == IF 4 \in L THEN Owner2(L) ELSE 4
Owner1(L) == IF 1 \in L THEN Owner4(L) ELSE 1
Owner3(L) == IF 3 \in L THEN Owner1(L) ELSE 3
Owner5(L) == IF 5 \in L THEN Owner3(L) ELSE 5
Owner7(L) == IF 7 \in L THEN Owner5(L) ELSE 7
Owner(L, k) ==
  CASE k = 1 -> Owner1(L) [] k = 2 -> Owner2(L) [] k = 3 -> Owner3(L) [] k = 4 -> Owner4(L)
    [] k = 5 -> Owner5(L) [] k = 7 -> Owner7(L) [] OTHER -> k

LEMMA Owners ==
  ASSUME NEW L
  PROVE  /\ \A i \in Timer : link_succ[i] \in L \cap Timer => Owner(L, link_succ[i]) = Owner(L, i)
         /\ \A i \in Timer : i \notin L => Owner(L, i) = i
<1>1. \A i \in Timer : i = 0 \/ i = 1 \/ i = 2 \/ i = 3 \/ i = 4 \/ i = 5 \/ i = 6 \/ i = 7
  BY Eight
<1>2. ASSUME NEW i \in Timer, link_succ[i] \in L \cap Timer
      PROVE  Owner(L, link_succ[i]) = Owner(L, i)
  <2>0. -1 \notin Timer
    BY TimerAssumption
  <2>1. CASE i = 0 BY <1>2, <2>1 DEF link_succ, Owner, Owner2
  <2>2. CASE i = 1 BY <1>2, <2>2 DEF link_succ, Owner, Owner3
  <2>3. CASE i = 2 BY <1>2, <2>3 DEF link_succ, Owner, Owner4
  <2>4. CASE i = 3 BY <1>2, <2>4 DEF link_succ, Owner, Owner5
  <2>5. CASE i = 4 BY <1>2, <2>5 DEF link_succ, Owner, Owner1
  <2>6. CASE i = 5 BY <1>2, <2>6 DEF link_succ, Owner, Owner7
  <2>7. CASE i = 6 \/ i = 7 BY <1>2, <2>0, <2>7 DEF link_succ
  <2> QED BY <1>1, <2>1, <2>2, <2>3, <2>4, <2>5, <2>6, <2>7
<1>3. ASSUME NEW i \in Timer, i \notin L PROVE Owner(L, i) = i
  BY <1>1, <1>3 DEF Owner, Owner1, Owner2, Owner3, Owner4, Owner5, Owner7
<1> QED BY <1>2, <1>3

(* A tick stays in its part.                                               *)
LEMMA ReachOwner ==
  ASSUME NEW m, NEW i \in Timer, NEW k \in ticked(m)[i]
  PROVE  k \in Timer /\ Owner(Links(m), k) = Owner(Links(m), i)
<1> PICK t, L : t = ticked(m) /\ L = Links(m)
  OBVIOUS
<1> DEFINE S == {j \in Timer : \A c \in t[j] : c \in Timer /\ Owner(L, c) = Owner(L, j)}
<1>1. ASSUME NEW j \in Timer, link_succ[j] \in Timer => link_succ[j] \in S PROVE j \in S
  <2>1. t[j] = {j} \cup (IF Carries(m, j) THEN t[link_succ[j]] ELSE {})
    BY Reached
  <2>2. Carries(m, j) => link_succ[j] \in L \cap Timer
    BY DEF Carries, Links
  <2>3. Carries(m, j) => Owner(L, link_succ[j]) = Owner(L, j)
    BY <2>2, Owners
  <2> QED BY ONLY <1>1, <2>1, <2>2, <2>3, j \in Timer
<1> HIDE DEF S
<1>2. i \in S
  BY ONLY <1>1, ChainInduction, i \in Timer
<1> QED BY <1>2 DEF S

(* Two machines that have a part in common, the one headed by o.           *)
Agree(L, o, x, y) ==
  \A k \in Timer : Owner(L, k) = o =>
    x.reg[k] = y.reg[k] /\ x.phase[k] = y.phase[k] /\ (k \in x.latch <=> k \in y.latch)

LEMMA Agreeing ==
  ASSUME NEW L, NEW o, NEW x, NEW y, NEW z, Agree(L, o, x, y)
  PROVE  /\ Agree(L, o, y, x)
         /\ Agree(L, o, y, z) => Agree(L, o, x, z)
BY DEF Agree

(* What a tick reaches depends on its part alone.                          *)
LEMMA ReachLocal ==
  ASSUME NEW x, NEW y, Links(x) = Links(y), NEW o, Agree(Links(x), o, x, y),
         NEW i \in Timer, Owner(Links(x), i) = o
  PROVE  ticked(x)[i] = ticked(y)[i]
<1>0. PICK t, u, L : t = ticked(x) /\ u = ticked(y) /\ L = Links(x) /\ L = Links(y)
  OBVIOUS
<1> DEFINE S == {j \in Timer : Owner(L, j) = o => t[j] = u[j]}
<1>1. ASSUME NEW j \in Timer, link_succ[j] \in Timer => link_succ[j] \in S PROVE j \in S
  <2> SUFFICES ASSUME Owner(L, j) = o PROVE t[j] = u[j]
    OBVIOUS
  <2>1. /\ t[j] = {j} \cup (IF Carries(x, j) THEN t[link_succ[j]] ELSE {})
        /\ u[j] = {j} \cup (IF Carries(y, j) THEN u[link_succ[j]] ELSE {})
    BY <1>0, Reached
  <2>2. x.reg[j] = y.reg[j]
    BY <1>0 DEF Agree
  <2>3. link_succ[j] \in Timer => (Linked(x, link_succ[j]) <=> Linked(y, link_succ[j]))
    BY <1>0 DEF Links
  <2>4. Carries(x, j) <=> Carries(y, j)
    BY ONLY <2>2, <2>3 DEF Carries
  <2>5. Carries(x, j) => link_succ[j] \in L \cap Timer
    BY <1>0 DEF Carries, Links
  <2>6. Carries(x, j) => Owner(L, link_succ[j]) = o
    BY <2>5, Owners
  <2>7. Carries(x, j) => t[link_succ[j]] = u[link_succ[j]]
    BY <1>1, <2>5, <2>6
  <2> QED BY ONLY <2>1, <2>4, <2>7
<1> HIDE DEF S
<1>2. i \in S
  BY ONLY <1>1, ChainInduction, i \in Timer
<1> QED BY <1>0, <1>2 DEF S

(* A tick of timer i changes no other part than its own, and no link.      *)
LEMMA TickPart ==
  ASSUME NEW m \in Machines, NEW i \in Timer, NEW n, Ticks(m, i, n),
         NEW L, L = Links(m)
  PROVE  /\ Links(n) = L
         /\ \A o : o # Owner(L, i) => Agree(L, o, m, n)
<1>1. \A k \in Timer : n.reg[k].ctlA = m.reg[k].ctlA
  <2> TAKE k \in Timer
  <2>1. m.reg[k] \in Registers
    BY DEF Machines
  <2>2. n.reg[k] = m.reg[k] \/ n.reg[k] = counted(m.reg[k])
    BY DEF Ticks
  <2> QED BY ONLY <2>1, <2>2, CountedType
<1>2. Links(n) = L
  BY <1>1 DEF Links, Linked
<1>3. \A k \in Timer : Owner(L, k) # Owner(L, i) => k \notin ticked(m)[i]
  BY ReachOwner
<1>4. \A o : o # Owner(L, i) => Agree(L, o, m, n)
  BY <1>3 DEF Ticks, Agree
<1> QED BY <1>2, <1>4

(* It does the same to machines that agree on its part.                    *)
LEMMA TickLocal ==
  ASSUME NEW L, NEW i \in Timer, NEW x \in Machines, Links(x) = L, NEW y \in Machines, Links(y) = L,
         Agree(L, Owner(L, i), x, y),
         NEW v, Ticks(x, i, v), NEW w, Ticks(y, i, w)
  PROVE  Agree(L, Owner(L, i), v, w)
<1>1. ticked(x)[i] = ticked(y)[i]
  BY ReachLocal
<1> SUFFICES ASSUME NEW k \in Timer, Owner(L, k) = Owner(L, i)
             PROVE  v.reg[k] = w.reg[k] /\ v.phase[k] = w.phase[k] /\ (k \in v.latch <=> k \in w.latch)
  BY DEF Agree
<1>2. x.reg[k] = y.reg[k] /\ x.phase[k] = y.phase[k] /\ (k \in x.latch <=> k \in y.latch)
  BY DEF Agree
<1>3. v.reg[k] = w.reg[k]
  BY <1>1, <1>2 DEF Ticks
<1>4. v.phase[k] = w.phase[k]
  BY <1>2 DEF Ticks
<1>5. k \in v.latch <=> k \in w.latch
  BY <1>1, <1>2 DEF Ticks
<1> QED BY <1>3, <1>4, <1>5

(* A run of ticks of timer i stays in its part too.                        *)
LEMMA RunPart ==
  ASSUME NEW m \in Machines, NEW i \in Timer, NEW L, L = Links(m),
         NEW N \in Nat, NEW g, Run(g, Ticker(i), m, N)
  PROVE  \A k \in 0 .. N :
           /\ g[k] \in Machines /\ Links(g[k]) = L
           /\ \A o : o # Owner(L, i) => Agree(L, o, m, g[k])
<1> DEFINE S == {y \in Machines : Links(y) = L /\ \A o : o # Owner(L, i) => Agree(L, o, m, y)}
<1>1. m \in S
  BY DEF Agree
<1>2. ASSUME NEW y \in S PROVE Ticker(i)[y] \in S
  <2> PICK z : z = Ticker(i)[y]
    OBVIOUS
  <2>1. Ticks(y, i, z) /\ z \in Machines
    BY TickerType
  <2>2. Links(z) = L /\ \A o : o # Owner(L, i) => Agree(L, o, y, z)
    BY <2>1, TickPart
  <2>3. \A o : o # Owner(L, i) => Agree(L, o, m, z)
    BY <2>2, Agreeing
  <2> QED BY <2>1, <2>2, <2>3
<1> HIDE DEF S
<1>3. \A k \in 0 .. N : g[k] \in S
  BY <1>1, <1>2, RunStays
<1> QED BY <1>3 DEF S

(* Two of them, from machines that agree on that part, keep agreeing.      *)
LEMMA RunLocal ==
  ASSUME NEW L, NEW i \in Timer, NEW x \in Machines, Links(x) = L, NEW y \in Machines, Links(y) = L,
         Agree(L, Owner(L, i), x, y),
         NEW N \in Nat, NEW g, Run(g, Ticker(i), x, N), NEW h, Run(h, Ticker(i), y, N)
  PROVE  Agree(L, Owner(L, i), g[N], h[N])
<1> DEFINE T == {k \in Nat : k <= N => Agree(L, Owner(L, i), g[k], h[k])}
<1>0. Rounds(g, Ticker(i), x, N) /\ Rounds(h, Ticker(i), y, N)
  BY RunRounds
<1>1. 0 \in T
  BY <1>0 DEF Rounds
<1>2. ASSUME NEW k \in Nat, k \in T PROVE k + 1 \in T
  <2> SUFFICES ASSUME k + 1 <= N PROVE Agree(L, Owner(L, i), g[k + 1], h[k + 1])
    OBVIOUS
  <2>1. k \in 0 .. N - 1 /\ k \in 0 .. N /\ Agree(L, Owner(L, i), g[k], h[k])
    BY <1>2
  <2>2. /\ g[k] \in Machines /\ Links(g[k]) = L
        /\ h[k] \in Machines /\ Links(h[k]) = L
    BY <2>1, RunPart
  <2>3. Ticks(g[k], i, g[k + 1]) /\ Ticks(h[k], i, h[k + 1])
    BY <1>0, <2>1, <2>2, TickerType DEF Rounds
  <2> QED BY ONLY <2>1, <2>2, <2>3, TickLocal, i \in Timer
<1> HIDE DEF T
<1>3. \A k \in Nat : k \in T
  BY ONLY <1>1, <1>2, Induction
<1> QED BY <1>3 DEF T

(* So a timer's share of a step changes no part but the one it heads, and  *)
(* changes that one the same way whatever the others hold.                 *)
LEMMA AdvancePart ==
  ASSUME NEW m \in Machines, NEW i \in Timer, NEW us \in Nat, NEW L, L = Links(m)
  PROVE  /\ Links(advance(m, i, us)) = L
         /\ \A o : o # i => Agree(L, o, m, advance(m, i, us))
<1>1. CASE ~Runs(m, i)
  <2>1. advance(m, i, us) = m
    BY <1>1 DEF advance, Runs
  <2> QED BY <2>1 DEF Agree
<1>2. CASE Runs(m, i)
  <2>1. i \notin L
    BY <1>2 DEF Links, Linked, Runs
  <2>2. Owner(L, i) = i
    BY <2>1, Owners
  <2> DEFINE x == Begun(m, i, us)
             N == Wholes(m, i, us)
  <2>3. /\ x \in Machines /\ x.reg = m.reg /\ x.latch = m.latch /\ N \in Nat
        /\ x.phase = [m.phase EXCEPT ![i] = Rest(m, i, us)]
    BY <1>2, BegunFields, Shares
  <2>4. PICK g : Run(g, Ticker(i), x, N) /\ advance(m, i, us) = g[N]
    BY <1>2, AdvanceRun
  <2> HIDE DEF x, N
  <2>5. Links(x) = L
    BY <2>3 DEF Links, Linked
  <2>6. N \in 0 .. N
    BY <2>3
  <2>7. Links(g[N]) = L /\ \A o : o # i => Agree(L, o, x, g[N])
    <3>1. \A k \in 0 .. N :
            /\ g[k] \in Machines /\ Links(g[k]) = L
            /\ \A o : o # Owner(L, i) => Agree(L, o, x, g[k])
      <4>1. x \in Machines /\ L = Links(x) /\ N \in Nat /\ Run(g, Ticker(i), x, N)
        BY <2>3, <2>4, <2>5
      <4> QED BY ONLY <4>1, i \in Timer, RunPart
    <3> QED BY ONLY <3>1, <2>2, <2>6
  <2>8. ASSUME NEW o, o # i PROVE Agree(L, o, m, x)
    <3> SUFFICES ASSUME NEW k \in Timer, Owner(L, k) = o
                 PROVE  x.phase[k] = m.phase[k]
      BY <2>3 DEF Agree
    <3>1. k # i
      BY <2>2, <2>8
    <3> QED BY <2>3, <3>1 DEF Machines
  <2> QED BY <2>4, <2>7, <2>8, Agreeing
<1> QED BY <1>1, <1>2

LEMMA AdvanceLocal ==
  ASSUME NEW L, NEW i \in Timer, NEW us \in Nat,
         NEW x \in Machines, Links(x) = L, NEW y \in Machines, Links(y) = L,
         Agree(L, i, x, y)
  PROVE  Agree(L, i, advance(x, i, us), advance(y, i, us))
<1>1. CASE i \in L
  <2>1. ~Runs(x, i) /\ ~Runs(y, i)
    BY <1>1 DEF Links, Linked, Runs
  <2>2. advance(x, i, us) = x /\ advance(y, i, us) = y
    BY <2>1 DEF advance, Runs
  <2> QED BY <2>2
<1>2. CASE i \notin L
  <2>1. Owner(L, i) = i
    BY <1>2, Owners
  <2>2. x.reg[i] = y.reg[i] /\ x.phase[i] = y.phase[i]
    BY <2>1 DEF Agree
  <2>3. Runs(x, i) <=> Runs(y, i)
    BY <2>2 DEF Runs
  <2>4. CASE ~Runs(x, i)
    <3>1. advance(x, i, us) = x /\ advance(y, i, us) = y
      BY <2>3, <2>4 DEF advance, Runs
    <3> QED BY <3>1
  <2>5. CASE Runs(x, i)
    <3> DEFINE v == Begun(x, i, us)
               w == Begun(y, i, us)
    <3>0. PICK N, R : N = Wholes(x, i, us) /\ R = Rest(x, i, us)
      OBVIOUS
    <3>1. N = Wholes(y, i, us) /\ R = Rest(y, i, us) /\ N \in Nat
      BY <3>0, <2>2, <2>5, Shares DEF Wholes, Rest
    <3>2. /\ v \in Machines /\ v.reg = x.reg /\ v.latch = x.latch
          /\ v.phase = [x.phase EXCEPT ![i] = R]
      BY <3>0, <2>5, BegunFields
    <3>3. /\ w \in Machines /\ w.reg = y.reg /\ w.latch = y.latch
          /\ w.phase = [y.phase EXCEPT ![i] = R]
      BY <3>1, <2>3, <2>5, BegunFields
    <3>4. PICK g : Run(g, Ticker(i), v, N) /\ advance(x, i, us) = g[N]
      BY <3>0, <2>5, AdvanceRun
    <3>5. PICK h : Run(h, Ticker(i), w, N) /\ advance(y, i, us) = h[N]
      BY <3>1, <2>3, <2>5, AdvanceRun
    <3> HIDE DEF v, w
    <3>6. Links(v) = L /\ Links(w) = L
      BY <3>2, <3>3 DEF Links, Linked
    <3>7. Agree(L, i, v, w)
      <4> SUFFICES ASSUME NEW k \in Timer, Owner(L, k) = i
                   PROVE  v.phase[k] = w.phase[k]
        BY <3>2, <3>3 DEF Agree
      <4>1. x.phase[k] = y.phase[k]
        BY DEF Agree
      <4> QED BY <3>2, <3>3, <4>1 DEF Machines
    <3>8. Agree(L, i, g[N], h[N])
      BY <2>1, <3>1, <3>2, <3>3, <3>4, <3>5, <3>6, <3>7, RunLocal
    <3> QED BY <3>4, <3>5, <3>8
  <2> QED BY <2>4, <2>5
<1> QED BY <1>1, <1>2

(* The part a timer heads is changed by that timer's share alone.          *)
Progress(L, m, o, us, k, x) ==
  /\ x \in Machines /\ Links(x) = L
  /\ k <= o => Agree(L, o, x, m)
  /\ k > o => Agree(L, o, x, Share(m, o, us))

LEMMA Progresses ==
  ASSUME NEW m \in Machines, NEW L, L = Links(m), NEW us \in Nat,
         NEW o \in 0 .. 7, NEW k \in 0 .. 7, NEW x, Progress(L, m, o, us, k, x)
  PROVE  Progress(L, m, o, us, k + 1, Share(x, k, us))
<1> PICK z : z = Share(x, k, us)
  OBVIOUS
<1>1. x \in Machines /\ Links(x) = L
  BY DEF Progress
<1>2. z \in Machines
  BY <1>1, ShareType
<1>3. Links(z) = L /\ \A c : c # k => Agree(L, c, x, z)
  <2>1. CASE k \in Timer
    BY <2>1, <1>1, AdvancePart DEF Share
  <2>2. CASE k \notin Timer
    BY <2>2, <1>1 DEF Share, Agree
  <2> QED BY <2>1, <2>2
<1>4. CASE k < o
  <2>1. Agree(L, o, z, m)
    BY <1>3, <1>4, Agreeing DEF Progress
  <2> QED BY <1>2, <1>3, <1>4, <2>1 DEF Progress
<1>5. CASE k > o
  <2>1. Agree(L, o, z, Share(m, o, us))
    BY <1>3, <1>5, Agreeing DEF Progress
  <2> QED BY <1>2, <1>3, <1>5, <2>1 DEF Progress
<1>6. CASE k = o
  <2>1. Agree(L, o, x, m)
    BY <1>6 DEF Progress
  <2>2. Agree(L, o, z, Share(m, o, us))
    <3>1. CASE o \in Timer
      BY <3>1, <2>1, <1>1, <1>6, AdvanceLocal DEF Share
    <3>2. CASE o \notin Timer
      BY <3>2, <2>1, <1>6 DEF Share
    <3> QED BY <3>1, <3>2
  <2> QED BY <1>2, <1>3, <1>6, <2>2 DEF Progress
<1> QED BY <1>4, <1>5, <1>6

LEMMA StepParts ==
  ASSUME NEW m \in Machines, NEW us \in Nat, NEW L, L = Links(m)
  PROVE  /\ Links(step(m, us)) = L
         /\ \A o \in 0 .. 7 : Agree(L, o, step(m, us), Share(m, o, us))
<1> SUFFICES ASSUME NEW o \in 0 .. 7
             PROVE  Links(step(m, us)) = L /\ Agree(L, o, step(m, us), Share(m, o, us))
  BY 0 \in 0 .. 7
<1> DEFINE m1 == Share(m, 0, us)
           m2 == Share(m1, 1, us)
           m3 == Share(m2, 2, us)
           m4 == Share(m3, 3, us)
           m5 == Share(m4, 4, us)
           m6 == Share(m5, 5, us)
           m7 == Share(m6, 6, us)
           m8 == Share(m7, 7, us)
           At(k, x) == Progress(L, m, o, us, k, x)
<1>0. step(m, us) = m8
  BY StepIs
<1>a. \A k \in 0 .. 7 : \A x : At(k, x) => At(k + 1, Share(x, k, us))
  BY Progresses
<1>b. At(0, m)
  BY DEF Progress, Agree
<1> HIDE DEF m1, m2, m3, m4, m5, m6, m7, m8, At
<1>1. At(1, m1) BY <1>b, <1>a DEF m1
<1>2. At(2, m2) BY <1>1, <1>a DEF m2
<1>3. At(3, m3) BY <1>2, <1>a DEF m3
<1>4. At(4, m4) BY <1>3, <1>a DEF m4
<1>5. At(5, m5) BY <1>4, <1>a DEF m5
<1>6. At(6, m6) BY <1>5, <1>a DEF m6
<1>7. At(7, m7) BY <1>6, <1>a DEF m7
<1>8. At(8, m8) BY <1>7, <1>a DEF m8
<1> QED BY <1>0, <1>8 DEF At, Progress

-----------------------------------------------------------------------------
(* Two shares of a timer are one share of their sum.                       *)

(* The registers and the latch, which a tick reads and writes; it leaves   *)
(* the phases alone.                                                       *)
Alike(x, y) == x.reg = y.reg /\ x.latch = y.latch

LEMMA ReachAlike ==
  ASSUME NEW x, NEW y, x.reg = y.reg, NEW i \in Timer
  PROVE  ticked(x)[i] = ticked(y)[i]
<1> PICK t, u : t = ticked(x) /\ u = ticked(y)
  OBVIOUS
<1> DEFINE S == {j \in Timer : t[j] = u[j]}
<1>1. ASSUME NEW j \in Timer, link_succ[j] \in Timer => link_succ[j] \in S PROVE j \in S
  <2>1. /\ t[j] = {j} \cup (IF Carries(x, j) THEN t[link_succ[j]] ELSE {})
        /\ u[j] = {j} \cup (IF Carries(y, j) THEN u[link_succ[j]] ELSE {})
    BY Reached
  <2>2. Carries(x, j) <=> Carries(y, j)
    BY DEF Carries, Linked
  <2>3. Carries(x, j) => link_succ[j] \in Timer
    BY DEF Carries
  <2> QED BY ONLY <1>1, <2>1, <2>2, <2>3, j \in Timer
<1> HIDE DEF S
<1>2. i \in S
  BY ONLY <1>1, ChainInduction, i \in Timer
<1> QED BY <1>2 DEF S

LEMMA TickAlike ==
  ASSUME NEW i \in Timer, NEW x \in Machines, NEW y \in Machines, Alike(x, y),
         NEW v, Ticks(x, i, v), NEW w, Ticks(y, i, w)
  PROVE  Alike(v, w)
<1>0. x.reg = y.reg /\ x.latch = y.latch
  BY DEF Alike
<1>1. ticked(x)[i] = ticked(y)[i]
  BY <1>0, ReachAlike
<1>2. v.reg = [j \in Timer |-> v.reg[j]] /\ w.reg = [j \in Timer |-> w.reg[j]]
      /\ v.latch \subseteq Timer /\ w.latch \subseteq Timer
  BY DEF Ticks, Machines
<1>3. ASSUME NEW j \in Timer PROVE v.reg[j] = w.reg[j] /\ (j \in v.latch <=> j \in w.latch)
  <2>1. /\ v.reg[j] = IF j \in ticked(x)[i] THEN counted(x.reg[j]) ELSE x.reg[j]
        /\ j \in v.latch <=>
             j \in x.latch \/ (j \in ticked(x)[i] /\ x.reg[j].count = 0 /\ x.reg[j].ctlA.int)
    BY DEF Ticks
  <2>2. /\ w.reg[j] = IF j \in ticked(y)[i] THEN counted(y.reg[j]) ELSE y.reg[j]
        /\ j \in w.latch <=>
             j \in y.latch \/ (j \in ticked(y)[i] /\ y.reg[j].count = 0 /\ y.reg[j].ctlA.int)
    BY DEF Ticks
  <2> QED BY ONLY <1>0, <1>1, <2>1, <2>2
<1>5. v.reg = w.reg
  BY ONLY <1>2, <1>3
<1>6. v.latch = w.latch
  BY ONLY <1>2, <1>3
<1> QED BY <1>5, <1>6 DEF Alike

(* A run of ticks leaves the phases and what is programmed.                *)
LEMMA RunKeeps ==
  ASSUME NEW m \in Machines, NEW i \in Timer, NEW N \in Nat, NEW g, Run(g, Ticker(i), m, N)
  PROVE  \A k \in 0 .. N :
           /\ g[k] \in Machines /\ g[k].phase = m.phase
           /\ \A j \in Timer : g[k].reg[j].ctlA = m.reg[j].ctlA
<1> DEFINE S == {y \in Machines : /\ y.phase = m.phase
                                  /\ \A j \in Timer : y.reg[j].ctlA = m.reg[j].ctlA}
<1>1. m \in S
  OBVIOUS
<1>2. ASSUME NEW y \in S PROVE Ticker(i)[y] \in S
  <2> PICK z : z = Ticker(i)[y]
    OBVIOUS
  <2>1. Ticks(y, i, z)
    BY TickerType
  <2>2. z \in Machines /\ z.phase = m.phase
    BY <2>1 DEF Ticks
  <2>3. ASSUME NEW j \in Timer PROVE z.reg[j].ctlA = m.reg[j].ctlA
    <3>1. y.reg[j] \in Registers /\ y.reg[j].ctlA = m.reg[j].ctlA
      BY DEF Machines
    <3>2. z.reg[j] = y.reg[j] \/ z.reg[j] = counted(y.reg[j])
      BY <2>1 DEF Ticks
    <3> QED BY ONLY <3>1, <3>2, CountedType
  <2> QED BY <2>2, <2>3
<1> HIDE DEF S
<1>3. \A k \in 0 .. N : g[k] \in S
  BY <1>1, <1>2, RunStays
<1> QED BY <1>3 DEF S

(* Runs from machines that differ in their phases differ in nothing else.  *)
LEMMA RunAlike ==
  ASSUME NEW i \in Timer, NEW x \in Machines, NEW y \in Machines, Alike(x, y),
         NEW N \in Nat, NEW g, Run(g, Ticker(i), x, N),
         NEW M \in Nat, NEW h, Run(h, Ticker(i), y, M), N <= M
  PROVE  Alike(g[N], h[N])
<1> DEFINE T == {k \in Nat : k <= N => Alike(g[k], h[k])}
<1>0. Rounds(g, Ticker(i), x, N) /\ Rounds(h, Ticker(i), y, M)
  BY RunRounds
<1>1. 0 \in T
  BY <1>0 DEF Rounds
<1>2. ASSUME NEW k \in Nat, k \in T PROVE k + 1 \in T
  <2> SUFFICES ASSUME k + 1 <= N PROVE Alike(g[k + 1], h[k + 1])
    OBVIOUS
  <2>1. k \in 0 .. N - 1 /\ k \in 0 .. M - 1 /\ k \in 0 .. N /\ k \in 0 .. M /\ Alike(g[k], h[k])
    BY <1>2
  <2>2. g[k] \in Machines /\ h[k] \in Machines
    BY <2>1, RunKeeps
  <2>3. Ticks(g[k], i, g[k + 1]) /\ Ticks(h[k], i, h[k + 1])
    BY <1>0, <2>1, <2>2, TickerType DEF Rounds
  <2> QED BY ONLY <2>1, <2>2, <2>3, TickAlike, i \in Timer
<1> HIDE DEF T
<1>3. \A k \in Nat : k \in T
  BY ONLY <1>1, <1>2, Induction
<1> QED BY <1>3 DEF T

LEMMA AdvanceAdds ==
  ASSUME NEW m \in Machines, NEW i \in Timer, NEW a \in Nat, NEW b \in Nat
  PROVE  advance(advance(m, i, a), i, b) = advance(m, i, a + b)
<1>0. a + b \in Nat
  OBVIOUS
<1>1. CASE ~Runs(m, i)
  <2>1. \A us : advance(m, i, us) = m
    BY <1>1 DEF advance, Runs
  <2> QED BY <2>1
<1>2. CASE Runs(m, i)
  <2> PICK n : n = advance(m, i, a)
    OBVIOUS
  <2> DEFINE F == Ticker(i)
  <2>1. PICK x, N, R, g : /\ x = Begun(m, i, a) /\ N = Wholes(m, i, a) /\ R = Rest(m, i, a)
                          /\ Run(g, F, x, N) /\ n = g[N]
    BY <1>2, AdvanceRun
  <2>2. PICK y, M, S, h : /\ y = Begun(m, i, a + b) /\ M = Wholes(m, i, a + b) /\ S = Rest(m, i, a + b)
                          /\ Run(h, F, y, M) /\ advance(m, i, a + b) = h[M]
    BY <1>2, AdvanceRun
  <2>3. /\ x \in Machines /\ x.reg = m.reg /\ x.latch = m.latch
        /\ x.phase = [m.phase EXCEPT ![i] = R] /\ N \in Nat
    BY <1>2, <2>1, BegunFields, Shares
  <2>4. /\ y \in Machines /\ y.reg = m.reg /\ y.latch = m.latch
        /\ y.phase = [m.phase EXCEPT ![i] = S] /\ M \in Nat
    BY <1>0, <1>2, <2>2, BegunFields, Shares
  <2>5. /\ n \in Machines /\ n.phase = x.phase
        /\ n.reg[i].ctlA = m.reg[i].ctlA
    <3>1. N \in 0 .. N
      BY <2>3
    <3> QED BY <2>1, <2>3, <3>1, RunKeeps
  <2>6. Runs(n, i) /\ Period(n.reg[i]) = Period(m.reg[i]) /\ n.phase[i] = R
    BY <1>2, <2>3, <2>5 DEF Runs, Period, Machines
  <2>7. PICK z, O, Q, l : /\ z = Begun(n, i, b) /\ O = Wholes(n, i, b) /\ Q = Rest(n, i, b)
                          /\ Run(l, F, z, O) /\ advance(n, i, b) = l[O]
    BY <2>5, <2>6, AdvanceRun
  <2>8. /\ z \in Machines /\ z.reg = n.reg /\ z.latch = n.latch
        /\ z.phase = [n.phase EXCEPT ![i] = Q] /\ O \in Nat
    BY <2>5, <2>6, <2>7, BegunFields, Shares
  <2>9. M = N + O /\ S = Q
    <3> PICK p \in Powers : p = Period(m.reg[i])
      BY <1>2, Shares
    <3>1. p \in Nat \ {0}
      BY DEF Powers
    <3>2. m.phase[i] \in Nat
      BY DEF Machines
    <3>3. m.phase[i] + a = N * p + R /\ R \in 0 .. p - 1
      BY <1>2, <2>1, Shares
    <3>4. m.phase[i] + (a + b) = M * p + S /\ S \in 0 .. p - 1
      BY <1>0, <1>2, <2>2, Shares
    <3>5. R + b = O * p + Q /\ Q \in 0 .. p - 1
      BY <2>5, <2>6, <2>7, Shares
    <3>6. PICK f \in Nat, np \in Int, mp \in Int, op \in Int :
            f = m.phase[i] /\ np = N * p /\ mp = M * p /\ op = O * p
      <4>1. N * p \in Int /\ M * p \in Int /\ O * p \in Int
        BY <2>3, <2>4, <2>8, <3>1
      <4> QED BY <3>2, <4>1
    <3>7. mp + S = (np + op) + Q
      BY ONLY <3>1, <3>3, <3>4, <3>5, <3>6, a \in Nat, b \in Nat
    <3>8. np + op = (N + O) * p
      BY <2>3, <2>8, <3>1, <3>6
    <3>9. M \in Int /\ N + O \in Int
      BY <2>3, <2>4, <2>8
    <3>10. M * p + S = (N + O) * p + Q
      BY ONLY <3>6, <3>7, <3>8
    <3> PICK K \in Int : K = N + O
      BY <3>9
    <3>11. /\ p \in Nat \ {0} /\ M \in Int /\ K \in Int /\ S \in 0 .. p - 1 /\ Q \in 0 .. p - 1
           /\ M * p + S = K * p + Q
      BY ONLY <3>1, <3>4, <3>5, <3>9, <3>10, K \in Int, K = N + O
    <3>12. M = K /\ S = Q
      BY ONLY <3>11, Quotient
    <3> QED BY ONLY <3>12, K = N + O
  <2>10. N <= M /\ N \in 0 .. M
    BY <2>3, <2>4, <2>8, <2>9
  <2>11. Alike(n, h[N])
    <3>1. Alike(x, y)
      BY <2>3, <2>4 DEF Alike
    <3> QED BY <2>1, <2>2, <2>3, <2>4, <2>10, <3>1, RunAlike
  <2>12. h[N] \in Machines /\ h[N].phase = y.phase
    BY <2>2, <2>4, <2>10, RunKeeps
  <2>13. z = h[N]
    <3>1. z.reg = h[N].reg /\ z.latch = h[N].latch
      BY <2>8, <2>11 DEF Alike
    <3>2. z.phase = [m.phase EXCEPT ![i] = Q]
      BY <2>3, <2>5, <2>8
    <3>3. z.phase = h[N].phase
      BY ONLY <3>2, <2>4, <2>9, <2>12
    <3>4. \A v, w \in Machines : v.reg = w.reg /\ v.phase = w.phase /\ v.latch = w.latch => v = w
      BY DEF Machines
    <3> QED BY ONLY <3>1, <3>3, <3>4, <2>8, <2>12
  <2>14. l[O] = h[N + O]
    <3>1. Run(h, F, y, N + O) /\ Run(l, F, h[N], O) /\ N \in Nat /\ O \in Nat
      BY <2>2, <2>3, <2>7, <2>8, <2>9, <2>13
    <3> HIDE DEF F
    <3> QED BY ONLY <3>1, RunsJoin
  <2> QED BY <2>2, <2>7, <2>9, <2>14
<1> QED BY <1>1, <1>2

(* So two steps are one step of their sum, part by part.                   *)
LEMMA OwnerRange ==
  ASSUME NEW L, NEW k \in Timer
  PROVE  Owner(L, k) \in 0 .. 7
<1>1. k \in 0 .. 7
  BY TimerAssumption
<1>2. Owner2(L) \in 0 .. 7
  BY DEF Owner2
<1>3. Owner4(L) \in 0 .. 7
  BY <1>2 DEF Owner4
<1>4. Owner1(L) \in 0 .. 7
  BY <1>3 DEF Owner1
<1>5. Owner3(L) \in 0 .. 7
  BY <1>4 DEF Owner3
<1>6. Owner5(L) \in 0 .. 7
  BY <1>5 DEF Owner5
<1>7. Owner7(L) \in 0 .. 7
  BY <1>6 DEF Owner7
<1> QED BY <1>1, <1>2, <1>3, <1>4, <1>5, <1>6, <1>7 DEF Owner

THEOREM StepAdds ==
  ASSUME NEW m \in Machines, NEW a \in Nat, NEW b \in Nat
  PROVE  step(step(m, a), b) = step(m, a + b)
<1>0. a + b \in Nat
  OBVIOUS
<1> PICK L, n, x, y : /\ L = Links(m) /\ n = step(m, a) /\ x = step(n, b) /\ y = step(m, a + b)
  OBVIOUS
<1>1. n \in Machines /\ x \in Machines /\ y \in Machines
  BY <1>0, StepType
<1>2. Links(n) = L
  BY StepParts
<1>3. ASSUME NEW o \in 0 .. 7 PROVE Agree(L, o, x, y)
  <2> PICK s : s = Share(m, o, a)
    OBVIOUS
  <2>1. Agree(L, o, n, s)
    BY StepParts
  <2>2. Agree(L, o, x, Share(n, o, b))
    BY <1>1, <1>2, StepParts
  <2>3. Agree(L, o, y, Share(m, o, a + b))
    BY <1>0, StepParts
  <2>4. Agree(L, o, Share(n, o, b), Share(s, o, b))
    <3>1. CASE o \in Timer
      <4>1. s \in Machines /\ Links(s) = L
        BY <3>1, ShareType, AdvancePart DEF Share
      <4>2. Agree(L, o, advance(n, o, b), advance(s, o, b))
        BY <1>1, <1>2, <2>1, <3>1, <4>1, AdvanceLocal
      <4> QED BY <3>1, <4>2 DEF Share
    <3>2. CASE o \notin Timer
      BY <2>1, <3>2 DEF Share
    <3> QED BY <3>1, <3>2
  <2>5. Share(s, o, b) = Share(m, o, a + b)
    BY AdvanceAdds DEF Share
  <2>6. Agree(L, o, x, Share(m, o, a + b))
    BY ONLY <2>2, <2>4, <2>5, Agreeing
  <2>7. Agree(L, o, Share(m, o, a + b), y)
    BY ONLY <2>3, Agreeing
  <2> QED BY ONLY <2>6, <2>7, Agreeing
<1>4. \A k \in Timer : x.reg[k] = y.reg[k] /\ x.phase[k] = y.phase[k] /\ (k \in x.latch <=> k \in y.latch)
  BY <1>3, OwnerRange DEF Agree
<1>5. /\ x.reg = [k \in Timer |-> x.reg[k]] /\ y.reg = [k \in Timer |-> y.reg[k]]
      /\ x.phase = [k \in Timer |-> x.phase[k]] /\ y.phase = [k \in Timer |-> y.phase[k]]
      /\ x.latch \subseteq Timer /\ y.latch \subseteq Timer
  BY <1>1 DEF Machines
<1>6. x.reg = y.reg
  BY ONLY <1>4, <1>5
<1>7. x.phase = y.phase
  BY ONLY <1>4, <1>5
<1>8. x.latch = y.latch
  BY ONLY <1>4, <1>5
<1>9. \A v, w \in Machines : v.reg = w.reg /\ v.phase = w.phase /\ v.latch = w.latch => v = w
  BY DEF Machines
<1>10. x = y
  BY ONLY <1>1, <1>6, <1>7, <1>8, <1>9
<1> QED BY ONLY <1>10, n = step(m, a), x = step(n, b), y = step(m, a + b)

-----------------------------------------------------------------------------
(* The frame.                                                              *)
LinePeriod == 2 ^ LineClock

Programmed(m) ==
  /\ m.reg[0].backup = LineBackup /\ m.reg[0].ctlA = Free(LineBackup, LineClock).ctlA
  /\ m.reg[2].backup = FrameBackup /\ m.reg[2].ctlA = Free(FrameBackup, 7).ctlA
  /\ m.reg[0].count <= LineBackup /\ m.reg[2].count <= FrameBackup

(* What is left of the frame, up to the phase of timer 0.                  *)
Left(m) == m.reg[2].count * Line + (m.reg[0].count + 1) * LinePeriod

(* The programming, field by field.                                        *)
Counts(m) ==
  /\ 0 \in Timer /\ 2 \in Timer
  /\ LineBackup \in Nat /\ FrameBackup \in Nat /\ LinePeriod \in Nat \ {0}
  /\ m.reg[0] \in Registers /\ m.reg[2] \in Registers
  /\ m.reg[0].count \in Nat /\ m.reg[0].count <= LineBackup
  /\ m.reg[2].count \in Nat /\ m.reg[2].count <= FrameBackup
Controls(m) ==
  /\ m.reg[0].ctlA.reload = TRUE /\ m.reg[0].ctlA.count = TRUE
  /\ m.reg[0].ctlA.clock = LineClock /\ m.reg[0].ctlA.clock # 7
  /\ m.reg[0].ctlA.int = FALSE
  /\ m.reg[2].ctlA.reload = TRUE /\ m.reg[2].ctlA.count = TRUE
  /\ m.reg[2].ctlA.clock = 7 /\ m.reg[2].ctlA.int = TRUE

LEMMA Program ==
  ASSUME NEW m \in Machines, Programmed(m)
  PROVE  Counts(m) /\ Controls(m)
<1>1. 0 \in Timer /\ 2 \in Timer /\ LineBackup \in Nat /\ FrameBackup \in Nat /\ LineClock \in 0 .. 6
  BY CadenceAssumption, MaxCountAssumption
<1>2. LinePeriod \in Nat \ {0}
  <2>1. LinePeriod \in {1, 2, 4, 8, 16, 32, 64}
    BY <1>1, Power DEF LinePeriod, Powers
  <2> QED BY ONLY <2>1
<1>3. m.reg[0] \in Registers /\ m.reg[2] \in Registers
  BY <1>1 DEF Machines
<1>4. /\ m.reg[0].count \in Nat /\ m.reg[0].count <= LineBackup
      /\ m.reg[2].count \in Nat /\ m.reg[2].count <= FrameBackup
  BY <1>3, MaxCountAssumption DEF Registers, Programmed
<1>5. m.reg[0].ctlA = [int |-> LineClock = 7, reload |-> TRUE, count |-> TRUE, clock |-> LineClock]
  BY DEF Programmed, Free
<1>6. m.reg[2].ctlA = [int |-> TRUE, reload |-> TRUE, count |-> TRUE, clock |-> 7]
  BY DEF Programmed, Free
<1>7. LineClock # 7
  BY <1>1
<1>8. (LineClock = 7) = FALSE
  BY ONLY <1>7
<1>9. m.reg[0].ctlA = [int |-> FALSE, reload |-> TRUE, count |-> TRUE, clock |-> LineClock]
  BY ONLY <1>5, <1>8, Zenon
<1>10. Controls(m)
  BY ONLY <1>6, <1>7, <1>9 DEF Controls
<1>11. Counts(m)
  BY ONLY <1>1, <1>2, <1>3, <1>4 DEF Counts
<1> QED BY ONLY <1>10, <1>11

(* The sizes of a line and a frame.                                        *)
LEMMA Sizes ==
  /\ Line \in Nat \ {0} /\ Frame \in Nat \ {0} /\ LinePeriod \in Nat \ {0}
  /\ Line = LineBackup * LinePeriod + LinePeriod
  /\ Frame = FrameBackup * Line + Line
<1>1. LineBackup \in Nat /\ FrameBackup \in Nat /\ LinePeriod \in Nat \ {0}
  <2>1. LinePeriod \in {1, 2, 4, 8, 16, 32, 64}
    BY CadenceAssumption, Power DEF LinePeriod, Powers
  <2> QED BY <2>1, CadenceAssumption, MaxCountAssumption
<1>2. \A n \in Nat, p \in Nat \ {0} : (n + 1) * p \in Nat \ {0} /\ (n + 1) * p = n * p + p
  <2> TAKE n \in Nat, p \in Nat \ {0}
  <2>1. n * p \in Nat
    OBVIOUS
  <2>2. (n + 1) * p = n * p + p
    OBVIOUS
  <2> QED BY <2>1, <2>2
<1>3. Line \in Nat \ {0} /\ Line = LineBackup * LinePeriod + LinePeriod
  BY <1>1, <1>2 DEF Line, LinePeriod
<1> QED BY <1>1, <1>2, <1>3 DEF Frame

(* What is left is at least a count and at most a frame.                   *)
LEMMA LeftRange ==
  ASSUME NEW m \in Machines, Programmed(m)
  PROVE  Left(m) \in Nat /\ Left(m) >= LinePeriod /\ Left(m) <= Frame
<1> PICK c \in Nat, d \in Nat, p \in Nat \ {0}, l \in Nat, L \in Nat \ {0}, f \in Nat :
       /\ c = m.reg[0].count /\ d = m.reg[2].count /\ p = LinePeriod
       /\ l = LineBackup /\ L = Line /\ f = FrameBackup
  <2>1. m.reg[0].count \in Nat /\ m.reg[2].count \in Nat /\ LineBackup \in Nat /\ FrameBackup \in Nat
    BY Program DEF Counts
  <2> QED BY ONLY <2>1, Sizes
<1>0. m.reg[0].count <= LineBackup /\ m.reg[2].count <= FrameBackup
  BY Program DEF Counts
<1>1. c <= l /\ d <= f /\ L = l * p + p /\ Frame = f * L + L
  BY ONLY <1>0, Sizes, c = m.reg[0].count, d = m.reg[2].count, p = LinePeriod,
     l = LineBackup, L = Line, f = FrameBackup
<1>2. Left(m) = d * L + (c * p + p)
  BY DEF Left
<1>3. \A x, y, z \in Nat : x <= y => x * z <= y * z
  OBVIOUS
<1>4. c * p <= l * p /\ d * L <= f * L /\ c * p \in Nat /\ d * L \in Nat /\ l * p \in Nat /\ f * L \in Nat
  BY <1>1, <1>3
<1> PICK cp \in Nat, dL \in Nat, lp \in Nat, fL \in Nat :
       cp = c * p /\ dL = d * L /\ lp = l * p /\ fL = f * L
  BY <1>4
<1> QED BY ONLY <1>1, <1>2, <1>4, p \in Nat, cp = c * p, dL = d * L, lp = l * p, fL = f * L, p = LinePeriod

(* One count of timer 0: a period of what is left goes by, or the frame    *)
(* ends, timer 2 interrupts and the next frame begins.                     *)
Tick0(m, n) ==
  /\ Programmed(n)
  /\ \/ Left(n) = Left(m) - LinePeriod /\ (2 \in n.latch <=> 2 \in m.latch)
     \/ Left(m) = LinePeriod /\ Left(n) = Frame /\ 2 \in n.latch

LEMMA CountedFields ==
  ASSUME NEW r \in Registers, r.ctlA.reload = TRUE
  PROVE  /\ counted(r).backup = r.backup /\ counted(r).ctlA = r.ctlA
         /\ r.count = 0 => counted(r).count = r.backup
         /\ r.count # 0 => counted(r).count = r.count - 1
<1>1. r.count = 0 => counted(r).count = r.backup
  BY DEF counted, Registers
<1>2. r.count # 0 => counted(r).count = r.count - 1
  BY DEF counted, Registers
<1> QED BY <1>1, <1>2, CountedType

LEMMA TickZero ==
  ASSUME NEW m \in Machines, Programmed(m), NEW n, Ticks(m, 0, n)
  PROVE  Tick0(m, n)
<1>1. /\ m.reg[0].backup = LineBackup /\ m.reg[2].backup = FrameBackup
      /\ m.reg[0].ctlA = Free(LineBackup, LineClock).ctlA /\ m.reg[2].ctlA = Free(FrameBackup, 7).ctlA
  BY DEF Programmed
<1>2. 0 \in Timer /\ 2 \in Timer /\ m.reg[0] \in Registers /\ m.reg[2] \in Registers
  BY Program DEF Counts
<1>3. m.reg[0].ctlA.reload = TRUE /\ m.reg[2].ctlA.reload = TRUE /\ m.reg[2].ctlA.int = TRUE
  BY Program DEF Controls
<1>4. 0 \in ticked(m)[0] /\ (2 \in ticked(m)[0] <=> m.reg[0].count = 0)
  <2>1. link_succ[0] = 2
    BY DEF link_succ
  <2>2. Linked(m, 2)
    BY Program DEF Controls, Linked
  <2>3. Carries(m, 0) <=> m.reg[0].count = 0
    BY ONLY <2>1, <2>2, <1>2 DEF Carries
  <2>4. 0 \in ticked(m)[0] /\ (2 \in ticked(m)[0] <=> Carries(m, 0))
    BY Cascades, <1>2 DEF Cascade
  <2> QED BY ONLY <2>3, <2>4
<1>5. /\ n.reg[0] = counted(m.reg[0])
      /\ n.reg[2] = IF m.reg[0].count = 0 THEN counted(m.reg[2]) ELSE m.reg[2]
      /\ 2 \in n.latch <=> 2 \in m.latch \/ (m.reg[0].count = 0 /\ m.reg[2].count = 0)
  <2>1. /\ n.reg[0] = IF 0 \in ticked(m)[0] THEN counted(m.reg[0]) ELSE m.reg[0]
        /\ n.reg[2] = IF 2 \in ticked(m)[0] THEN counted(m.reg[2]) ELSE m.reg[2]
        /\ 2 \in n.latch <=> 2 \in m.latch \/ (2 \in ticked(m)[0] /\ m.reg[2].count = 0 /\ m.reg[2].ctlA.int)
    BY <1>2 DEF Ticks
  <2> QED BY ONLY <2>1, <1>3, <1>4
<1> PICK c \in Nat, d \in Nat, l \in Nat, f \in Nat, p \in Nat \ {0}, L \in Nat \ {0} :
       /\ c = m.reg[0].count /\ d = m.reg[2].count /\ l = LineBackup /\ f = FrameBackup
       /\ p = LinePeriod /\ L = Line
  <2>1. /\ m.reg[0].count \in Nat /\ m.reg[2].count \in Nat
        /\ LineBackup \in Nat /\ FrameBackup \in Nat
    BY Program DEF Counts
  <2> QED BY ONLY <2>1, Sizes
<1>6. c <= l /\ d <= f /\ L = l * p + p /\ Frame = f * L + L
  <2>1. m.reg[0].count <= LineBackup /\ m.reg[2].count <= FrameBackup
    BY Program DEF Counts
  <2> QED BY ONLY <2>1, Sizes, c = m.reg[0].count, d = m.reg[2].count, p = LinePeriod,
     l = LineBackup, L = Line, f = FrameBackup
<1>7. Left(m) = d * L + (c + 1) * p
  BY DEF Left
<1>8. /\ counted(m.reg[0]).backup = l /\ counted(m.reg[0]).ctlA = m.reg[0].ctlA
      /\ c = 0 => counted(m.reg[0]).count = l
      /\ c # 0 => counted(m.reg[0]).count = c - 1
  BY <1>1, <1>2, <1>3, CountedFields
<1>9. /\ counted(m.reg[2]).backup = f /\ counted(m.reg[2]).ctlA = m.reg[2].ctlA
      /\ d = 0 => counted(m.reg[2]).count = f
      /\ d # 0 => counted(m.reg[2]).count = d - 1
  BY <1>1, <1>2, <1>3, CountedFields
<1>10. n.reg[0].backup = LineBackup /\ n.reg[0].ctlA = m.reg[0].ctlA
  BY ONLY <1>5, <1>8, l = LineBackup
<1>11. n.reg[2].backup = FrameBackup /\ n.reg[2].ctlA = m.reg[2].ctlA
  BY ONLY <1>1, <1>5, <1>9, f = FrameBackup
<1> SUFFICES /\ n.reg[0].count <= LineBackup /\ n.reg[2].count <= FrameBackup
             /\ \/ Left(n) = Left(m) - p /\ (2 \in n.latch <=> 2 \in m.latch)
                \/ Left(m) = p /\ Left(n) = Frame /\ 2 \in n.latch
  BY <1>1, <1>10, <1>11 DEF Tick0, Programmed
<1>12. CASE c # 0
  <2>1. n.reg[0].count = c - 1 /\ n.reg[2].count = d
    BY ONLY <1>5, <1>8, <1>12, c = m.reg[0].count, d = m.reg[2].count
  <2>2. Left(n) = d * L + ((c - 1) + 1) * p
    BY <2>1 DEF Left
  <2>3. (c + 1) * p = ((c - 1) + 1) * p + p
    OBVIOUS
  <2>4. d * L \in Nat /\ ((c - 1) + 1) * p \in Nat
    BY <1>12
  <2>5. Left(n) = Left(m) - p
    BY ONLY <2>2, <2>3, <2>4, <1>7, p \in Nat
  <2>6. 2 \in n.latch <=> 2 \in m.latch
    BY ONLY <1>5, <1>12, c = m.reg[0].count
  <2> QED BY ONLY <2>1, <2>5, <2>6, <1>6, l = LineBackup, f = FrameBackup, c \in Nat, l \in Nat
<1>13. CASE c = 0 /\ d # 0
  <2>1. n.reg[0].count = l /\ n.reg[2].count = d - 1
    BY ONLY <1>5, <1>8, <1>9, <1>13, c = m.reg[0].count, d = m.reg[2].count
  <2>2. Left(n) = (d - 1) * L + (l + 1) * p
    BY <2>1 DEF Left
  <2>3. d * L = (d - 1) * L + L /\ (l + 1) * p = l * p + p /\ (c + 1) * p = p
    BY <1>13
  <2>4. d * L \in Nat /\ (d - 1) * L \in Nat /\ l * p \in Nat
    BY <1>13
  <2>5. Left(n) = Left(m) - p
    BY ONLY <2>2, <2>3, <2>4, <1>6, <1>7, p \in Nat, L \in Nat
  <2>6. 2 \in n.latch <=> 2 \in m.latch
    BY ONLY <1>5, <1>13, d = m.reg[2].count
  <2> QED BY ONLY <2>1, <2>5, <2>6, <1>6, l = LineBackup, f = FrameBackup, d \in Nat, l \in Nat, f \in Nat
<1>14. CASE c = 0 /\ d = 0
  <2>1. n.reg[0].count = l /\ n.reg[2].count = f
    BY ONLY <1>5, <1>8, <1>9, <1>14, c = m.reg[0].count, d = m.reg[2].count
  <2>2. Left(n) = f * L + (l + 1) * p
    BY <2>1 DEF Left
  <2>3. (l + 1) * p = l * p + p /\ d * L = 0 /\ (c + 1) * p = p
    BY <1>14
  <2>4. f * L \in Nat /\ l * p \in Nat
    OBVIOUS
  <2>5. Left(n) = Frame
    BY ONLY <2>2, <2>3, <2>4, <1>6, p \in Nat, L \in Nat
  <2>6. Left(m) = p
    BY ONLY <2>3, <1>7, p \in Nat
  <2>7. 2 \in n.latch
    BY ONLY <1>5, <1>14, c = m.reg[0].count, d = m.reg[2].count
  <2> QED BY ONLY <2>1, <2>5, <2>6, <2>7, l = LineBackup, f = FrameBackup, l \in Nat, f \in Nat
<1> QED BY ONLY <1>12, <1>13, <1>14

(* After k counts of timer 0, k periods have gone by, and timer 2 has      *)
(* interrupted if frames have ended in them.                               *)
After0(m, n, k) ==
  /\ n \in Machines /\ Programmed(n) /\ n.phase = m.phase
  /\ \E j \in Nat :
       /\ Left(n) = Left(m) - k * LinePeriod + j * Frame
       /\ 2 \in n.latch <=> (2 \in m.latch \/ j > 0)

LEMMA RunZero ==
  ASSUME NEW m \in Machines, Programmed(m), NEW N \in Nat, NEW g, Run(g, Ticker(0), m, N)
  PROVE  After0(m, g[N], N)
<1> DEFINE T == {k \in Nat : k <= N => After0(m, g[k], k)}
<1>0. 0 \in Timer /\ Rounds(g, Ticker(0), m, N) /\ Left(m) \in Int /\ LinePeriod \in Nat /\ Frame \in Nat
  BY CadenceAssumption, RunRounds, LeftRange, Sizes
<1>1. 0 \in T
  <2>1. g[0] = m
    BY <1>0 DEF Rounds
  <2>2. Left(m) = Left(m) - 0 * LinePeriod + 0 * Frame
    BY <1>0
  <2>3. 0 \in Nat /\ (2 \in m.latch <=> (2 \in m.latch \/ 0 > 0))
    OBVIOUS
  <2> QED BY ONLY <2>1, <2>2, <2>3, m \in Machines, Programmed(m) DEF After0
<1>2. ASSUME NEW k \in Nat, k \in T PROVE k + 1 \in T
  <2> SUFFICES ASSUME k + 1 <= N PROVE After0(m, g[k + 1], k + 1)
    OBVIOUS
  <2>1. k \in 0 .. N - 1 /\ After0(m, g[k], k)
    BY <1>2
  <2>2. g[k + 1] = Ticker(0)[g[k]]
    BY <1>0, <2>1 DEF Rounds
  <2> PICK n, o : n = g[k] /\ o = g[k + 1]
    OBVIOUS
  <2>3. n \in Machines /\ Programmed(n) /\ n.phase = m.phase
    BY <2>1 DEF After0
  <2>4. Ticks(n, 0, o)
    BY <1>0, <2>2, <2>3, TickerType
  <2>5. Tick0(n, o) /\ o \in Machines /\ o.phase = m.phase
    BY <2>3, <2>4, TickZero DEF Ticks
  <2>6. PICK j \in Nat : /\ Left(n) = Left(m) - k * LinePeriod + j * Frame
                         /\ 2 \in n.latch <=> (2 \in m.latch \/ j > 0)
    BY <2>1 DEF After0
  <2> PICK x \in Int, p \in Nat, F \in Nat, kp \in Int, jF \in Int :
         x = Left(m) /\ p = LinePeriod /\ F = Frame /\ kp = k * LinePeriod /\ jF = j * Frame
    BY <1>0
  <2>7. (k + 1) * LinePeriod = kp + p /\ (j + 1) * Frame = jF + F
    BY <1>0
  <2>8. CASE Left(o) = Left(n) - LinePeriod /\ (2 \in o.latch <=> 2 \in n.latch)
    <3>1. Left(o) = Left(m) - (k + 1) * LinePeriod + j * Frame
      BY ONLY <2>6, <2>7, <2>8, x = Left(m), p = LinePeriod, kp = k * LinePeriod, jF = j * Frame,
         x \in Int, p \in Nat, kp \in Int, jF \in Int
    <3>2. 2 \in o.latch <=> (2 \in m.latch \/ j > 0)
      BY ONLY <2>6, <2>8
    <3> QED BY ONLY <3>1, <3>2, <2>5, j \in Nat, o = g[k + 1] DEF After0, Tick0
  <2>9. CASE Left(n) = LinePeriod /\ Left(o) = Frame /\ 2 \in o.latch
    <3>1. Left(o) = Left(m) - (k + 1) * LinePeriod + (j + 1) * Frame
      <4>1. p = x - kp + jF
        BY ONLY <2>6, <2>9, x = Left(m), p = LinePeriod, kp = k * LinePeriod, jF = j * Frame
      <4>2. F = x - (kp + p) + (jF + F)
        BY ONLY <4>1, x \in Int, p \in Nat, F \in Nat, kp \in Int, jF \in Int
      <4> QED BY ONLY <4>2, <2>7, <2>9, x = Left(m), F = Frame
    <3>2. j + 1 \in Nat /\ (2 \in o.latch <=> (2 \in m.latch \/ j + 1 > 0))
      BY ONLY <2>9, j \in Nat
    <3> QED BY ONLY <3>1, <3>2, <2>5, o = g[k + 1] DEF After0, Tick0
  <2> QED BY ONLY <2>5, <2>8, <2>9 DEF Tick0
<1> HIDE DEF T
<1>3. \A k \in Nat : k \in T
  BY ONLY <1>1, <1>2, Induction
<1> QED BY <1>3 DEF T

LEMMA Remainder ==
  ASSUME NEW f \in Nat \ {0}, NEW t \in Nat, NEW j \in Int, NEW r \in 0 .. f - 1, t = j * f + r
  PROVE  t % f = r
<1> PICK q \in Int, s \in 0 .. f - 1 : t = f * q + s /\ s = t % f
  <2>1. t = f * (t \div f) + (t % f) /\ t \div f \in Int /\ t % f \in 0 .. f - 1
    OBVIOUS
  <2> QED BY ONLY <2>1
<1>1. f * q + s = f * j + r
  OBVIOUS
<1>2. CASE q >= j + 1
  <2>1. f * q >= f * (j + 1)
    BY <1>2
  <2>2. f * (j + 1) = f * j + f
    OBVIOUS
  <2> QED BY <1>1, <2>1, <2>2
<1>3. CASE j >= q + 1
  <2>1. f * j >= f * (q + 1)
    BY <1>3
  <2>2. f * (q + 1) = f * q + f
    OBVIOUS
  <2> QED BY <1>1, <2>1, <2>2
<1>4. CASE q = j
  <2>1. PICK y \in Int : y = f * q
    OBVIOUS
  <2>2. y + s = y + r
    BY ONLY <1>1, <1>4, <2>1
  <2> QED BY ONLY <2>1, <2>2, s = t % f, s \in Int, r \in Int
<1> QED BY <1>2, <1>3, <1>4

(* What the timers tell, of the microseconds gone by in the frame.         *)
Tells(m, e) ==
  /\ Programmed(m) /\ m.phase[0] < LinePeriod
  /\ e \in 0 .. Frame - 1
  /\ Frame - e = Left(m) - m.phase[0]

(* Time passes: timer 2 interrupts when a frame has ended.                 *)
Passes(m, e, us, n) ==
  /\ n \in Machines
  /\ Tells(n, (e + us) % Frame)
  /\ 2 \in n.latch <=> (2 \in m.latch \/ e + us >= Frame)

LEMMA AdvanceZero ==
  ASSUME NEW m \in Machines, NEW e, Tells(m, e), NEW us \in Nat
  PROVE  Passes(m, e, us, advance(m, 0, us))
<1> DEFINE x == Begun(m, 0, us)
<1>1. 0 \in Timer /\ Runs(m, 0) /\ Period(m.reg[0]) = LinePeriod
  BY Program DEF Tells, Counts, Controls, Runs, Period, LinePeriod
<1> PICK N, R : N = Wholes(m, 0, us) /\ R = Rest(m, 0, us)
  OBVIOUS
<1>2. /\ N \in Nat /\ R \in 0 .. LinePeriod - 1
      /\ m.phase[0] + us = N * LinePeriod + R
  BY <1>1, Shares
<1>3. /\ x \in Machines /\ x.reg = m.reg /\ x.latch = m.latch
      /\ x.phase = [m.phase EXCEPT ![0] = R]
  BY <1>1, BegunFields
<1> PICK g, n : Run(g, Ticker(0), x, N) /\ n = advance(m, 0, us) /\ n = g[N]
  BY <1>1, AdvanceRun
<1> HIDE DEF x
<1>4. Programmed(x) /\ Left(x) = Left(m)
  BY <1>3 DEF Tells, Programmed, Left
<1>5. After0(x, n, N)
  BY <1>2, <1>3, <1>4, RunZero
<1>6. n \in Machines /\ Programmed(n) /\ n.phase[0] = R
  BY <1>1, <1>3, <1>5 DEF After0, Machines
<1>7. PICK j \in Nat : /\ Left(n) = Left(m) - N * LinePeriod + j * Frame
                       /\ 2 \in n.latch <=> (2 \in m.latch \/ j > 0)
  BY <1>3, <1>4, <1>5 DEF After0
<1>8. /\ Left(n) \in Nat /\ Left(n) >= LinePeriod /\ Left(n) <= Frame
      /\ Left(m) \in Nat /\ Frame \in Nat \ {0} /\ LinePeriod \in Nat \ {0}
      /\ m.phase[0] \in Nat
  BY <1>1, <1>6, LeftRange, Sizes DEF Tells, Machines
<1>9. e \in 0 .. Frame - 1 /\ Frame - e = Left(m) - m.phase[0]
  BY DEF Tells
<1> PICK f \in Nat \ {0}, p \in Nat \ {0}, ln \in Nat, lm \in Nat, ph \in Nat, np \in Int, jf \in Int :
       /\ f = Frame /\ p = LinePeriod /\ ln = Left(n) /\ lm = Left(m) /\ ph = m.phase[0]
       /\ np = N * LinePeriod /\ jf = j * Frame
  <2>1. N * LinePeriod \in Int /\ j * Frame \in Int
    BY ONLY <1>2, <1>8, j \in Nat
  <2> QED BY ONLY <2>1, <1>8
<1>10. /\ ln = lm - np + jf /\ ln >= p /\ ln <= f /\ R \in 0 .. p - 1 /\ ph + us = np + R
       /\ e \in 0 .. f - 1 /\ f - e = lm - ph
  BY <1>2, <1>7, <1>8, <1>9
<1>11. PICK r \in 0 .. f - 1 : r = f - (ln - R) /\ e + us = jf + r
  <2>1. f - (ln - R) \in 0 .. f - 1 /\ e + us = jf + (f - (ln - R))
    BY ONLY <1>10, us \in Nat, f \in Nat \ {0}, p \in Nat \ {0}, ln \in Nat, lm \in Nat, ph \in Nat,
            np \in Int, jf \in Int
  <2> QED BY ONLY <2>1
<1>12. e + us \in Nat /\ (e + us) % f = r
  <2>1. e + us \in Nat
    BY ONLY <1>10, us \in Nat, f \in Nat \ {0}
  <2>2. e + us = j * f + r
    BY ONLY <1>11, jf = j * Frame, f = Frame
  <2>3. PICK t \in Nat : t = e + us
    BY ONLY <2>1
  <2>4. t % f = r
    BY ONLY <2>2, <2>3, Remainder, f \in Nat \ {0}, j \in Nat, r \in 0 .. f - 1, j \in Int
  <2> QED BY ONLY <2>1, <2>3, <2>4
<1>13. j > 0 <=> e + us >= f
  <2>1. CASE j = 0
    <3>1. jf = 0
      BY <2>1
    <3> QED BY ONLY <2>1, <3>1, <1>11, f \in Nat
  <2>2. CASE j >= 1
    <3>1. jf >= f
      <4>1. \A a, b \in Nat : a >= 1 => a * b >= b
        OBVIOUS
      <4> QED BY <4>1, <2>2
    <3> QED BY ONLY <2>2, <3>1, <1>11, f \in Nat, jf \in Int
  <2> QED BY <2>1, <2>2
<1>14. Tells(n, r)
  <2>1. n.phase[0] < LinePeriod
    BY ONLY <1>6, <1>10, p = LinePeriod, p \in Nat
  <2>2. r \in 0 .. Frame - 1 /\ Frame - r = Left(n) - n.phase[0]
    BY ONLY <1>6, <1>10, <1>11, f = Frame, ln = Left(n), f \in Nat, ln \in Nat, p \in Nat
  <2> QED BY ONLY <1>6, <2>1, <2>2 DEF Tells
<1>15. (e + us) % Frame = r /\ (2 \in n.latch <=> (2 \in m.latch \/ e + us >= Frame))
  BY ONLY <1>7, <1>12, <1>13, f = Frame
<1> QED BY ONLY <1>6, <1>14, <1>15, n = advance(m, 0, us) DEF Passes

(* What the frame is told by: timers 0 and 2.                              *)
SameFrame(m, n) ==
  /\ n.reg[0] = m.reg[0] /\ n.reg[2] = m.reg[2] /\ n.phase[0] = m.phase[0]
  /\ 2 \in n.latch <=> 2 \in m.latch

LEMMA SameTells ==
  ASSUME NEW m, NEW n, SameFrame(m, n), NEW e, Tells(m, e)
  PROVE  Tells(n, e)
BY DEF SameFrame, Tells, Programmed, Left

(* No other timer's share touches them.                                    *)
LEMMA TickOther ==
  ASSUME NEW m, NEW i \in Timer \ {0, 2}, NEW n, Ticks(m, i, n)
  PROVE  SameFrame(m, n)
<1>1. 0 \notin ticked(m)[i] /\ 2 \notin ticked(m)[i] /\ 0 \in Timer /\ 2 \in Timer
  BY Cascades, CadenceAssumption DEF Cascade
<1> QED BY <1>1 DEF Ticks, SameFrame

LEMMA AdvanceOther ==
  ASSUME NEW m \in Machines, Programmed(m), NEW i \in Timer \ {0}, NEW us \in Nat
  PROVE  SameFrame(m, advance(m, i, us))
<1>1. CASE ~Runs(m, i)
  <2>1. advance(m, i, us) = m
    BY <1>1 DEF advance, Runs
  <2> QED BY <2>1 DEF SameFrame
<1>2. CASE Runs(m, i)
  <2>1. i # 2
    BY <1>2, Program DEF Controls, Runs
  <2> DEFINE x == Begun(m, i, us)
             N == Wholes(m, i, us)
             S == {y \in Machines : SameFrame(m, y)}
  <2>2. N \in Nat
    BY <1>2, Shares
  <2>3. x \in S
    <3>1. x \in Machines /\ x.reg = m.reg /\ x.latch = m.latch
          /\ x.phase = [m.phase EXCEPT ![i] = Rest(m, i, us)]
      BY <1>2, BegunFields
    <3>2. x.phase[0] = m.phase[0]
      BY <3>1, CadenceAssumption DEF Machines
    <3> QED BY <3>1, <3>2 DEF SameFrame
  <2>4. \A y \in S : Ticker(i)[y] \in S
    <3> TAKE y \in S
    <3> PICK z : z = Ticker(i)[y]
      OBVIOUS
    <3>1. Ticks(y, i, z)
      BY TickerType
    <3>2. SameFrame(y, z) /\ z \in Machines
      BY <2>1, <3>1, TickOther DEF Ticks
    <3> QED BY <3>2 DEF SameFrame
  <2>5. PICK g : Run(g, Ticker(i), x, N) /\ advance(m, i, us) = g[N]
    BY <1>2, AdvanceRun
  <2> HIDE DEF x, N, S
  <2>6. g[N] \in S
    <3>1. \A k \in 0 .. N : g[k] \in S
      BY ONLY <2>2, <2>3, <2>4, <2>5, RunStays
    <3> QED BY <2>2, <3>1
  <2> QED BY <2>5, <2>6 DEF S
<1> QED BY <1>1, <1>2

LEMMA PassesOn ==
  ASSUME NEW m, NEW e, NEW us \in Nat, NEW n, Passes(m, e, us, n), NEW i \in 1 .. 7
  PROVE  Passes(m, e, us, Share(n, i, us))
<1>1. Programmed(n) /\ n \in Machines
  BY DEF Passes, Tells
<1>2. SameFrame(n, Share(n, i, us))
  <2>1. CASE i \in Timer
    BY <1>1, <2>1, AdvanceOther DEF Share
  <2>2. CASE i \notin Timer
    BY <2>2 DEF Share, SameFrame
  <2> QED BY <2>1, <2>2
<1>3. Share(n, i, us) \in Machines
  BY <1>1, ShareType
<1>4. Tells(Share(n, i, us), (e + us) % Frame)
  BY <1>2, SameTells DEF Passes
<1> QED BY <1>2, <1>3, <1>4 DEF Passes, SameFrame

(* However long a step is, timers 0 and 2 tell the time after it, and the  *)
(* frame interrupt is pending exactly if it was or a frame has ended.      *)
THEOREM StepTells ==
  ASSUME NEW m \in Machines, NEW e, Tells(m, e), NEW us \in Nat
  PROVE  Passes(m, e, us, step(m, us))
<1>1. Passes(m, e, us, Share(m, 0, us))
  BY AdvanceZero, CadenceAssumption DEF Share
<1>0. PICK m1, m2, m3, m4, m5, m6, m7, m8 :
       /\ m1 = Share(m, 0, us) /\ m2 = Share(m1, 1, us) /\ m3 = Share(m2, 2, us)
       /\ m4 = Share(m3, 3, us) /\ m5 = Share(m4, 4, us) /\ m6 = Share(m5, 5, us)
       /\ m7 = Share(m6, 6, us) /\ m8 = Share(m7, 7, us)
  OBVIOUS
<1>2. step(m, us) = m8
  BY ONLY <1>0, StepIs
<1>3. Passes(m, e, us, m2)
  BY <1>0, <1>1, PassesOn
<1>4. Passes(m, e, us, m3)
  BY <1>0, <1>3, PassesOn
<1>5. Passes(m, e, us, m4)
  BY <1>0, <1>4, PassesOn
<1>6. Passes(m, e, us, m5)
  BY <1>0, <1>5, PassesOn
<1>7. Passes(m, e, us, m6)
  BY <1>0, <1>6, PassesOn
<1>8. Passes(m, e, us, m7)
  BY <1>0, <1>7, PassesOn
<1>9. Passes(m, e, us, m8)
  BY <1>0, <1>8, PassesOn
<1> QED BY <1>2, <1>9

-----------------------------------------------------------------------------
(* The machine's own types.                                                *)
LEMMA Becomes ==
  ASSUME NEW m \in Machines, MachineBecomes(m)
  PROVE  Machine' = m
BY DEF MachineBecomes, Machine, Machines

LEMMA ResetType == Reset \in Machines
<1>1. 0 \in 0 .. MaxCount
  BY MaxCountAssumption
<1>2. Stopped \in ControlA
  BY DEF Stopped, ControlA
<1> QED BY <1>1, <1>2 DEF Reset, Machines, Registers

(* A write of the game to timer i.                                         *)
LEMMA WriteType ==
  ASSUME TypeOK, NEW i \in Timer, GameWrites(i)
  PROVE  /\ TypeOK'
         /\ phase' = phase /\ lynx_irq_latch' = lynx_irq_latch
         /\ \A j \in Timer : j # i => reg'[j] = reg[j]
<1>1. reg \in [Timer -> Registers] /\ phase \in [Timer -> 0 .. 63] /\ lynx_irq_latch \subseteq Timer
  BY DEF TypeOK, Machine, Machines
<1> DEFINE Written(r) == /\ reg' = [reg EXCEPT ![i] = r] /\ r \in Registers
                         /\ phase' = phase /\ lynx_irq_latch' = lynx_irq_latch
<1>2. ASSUME NEW v \in 0 .. MaxCount, write_backup(i, v) \/ write_count(i, v) PROVE \E r : Written(r)
  <2>1. CASE write_backup(i, v)
    <3>1. [reg[i] EXCEPT !.backup = v] \in Registers
      BY <1>1 DEF Registers
    <3> QED BY <2>1, <3>1 DEF write_backup
  <2>2. CASE write_count(i, v)
    <3>1. [reg[i] EXCEPT !.count = v] \in Registers
      BY <1>1 DEF Registers
    <3> QED BY <2>2, <3>1 DEF write_count
  <2> QED BY <1>2, <2>1, <2>2
<1>3. ASSUME NEW c \in Control, write_ctlA(i, c) PROVE \E r : Written(r)
  <2>1. [reg[i] EXCEPT !.ctlA = c] \in Registers
    BY <1>1, ControlAssumption DEF Registers
  <2> QED BY <1>3, <2>1 DEF write_ctlA
<1>4. ASSUME NEW b \in Flags, write_ctlB(i, b) PROVE \E r : Written(r)
  <2>1. [reg[i] EXCEPT !.ctlB = b] \in Registers
    BY <1>1, FlagsAssumption DEF Registers
  <2> QED BY <1>4, <2>1 DEF write_ctlB
<1>5. \E r : Written(r)
  BY <1>2, <1>3, <1>4 DEF GameWrites
<1> QED BY <1>1, <1>5 DEF TypeOK, Machine, Machines

LEMMA LatchType ==
  ASSUME TypeOK, NEW mask \in SUBSET Timer, lynx_irq_ack(mask) \/ lynx_irq_raise(mask)
  PROVE  TypeOK' /\ reg' = reg /\ phase' = phase
BY DEF TypeOK, Machine, Machines, lynx_irq_ack, lynx_irq_raise

-----------------------------------------------------------------------------
(* The inductive invariant: while the game leaves timers 0 and 2 alone     *)
(* they tell the time, in the machine and in every save state, and no save *)
(* state is older than their programming.                                  *)
SavedType ==
  /\ saved \in [Slot -> Machines \cup {NoSave}]
  /\ noted \in [Slot -> Nat]

IInv ==
  /\ TypeOK /\ framed \in BOOLEAN /\ elapsed \in Nat /\ SavedType
  /\ framed => Tells(Machine, elapsed)
  /\ \A s \in Slot : saved[s] # NoSave => framed /\ Tells(saved[s], noted[s])

(* Programming both timers begins a frame.                                 *)
LEMMA SetUpTells ==
  ASSUME Machine = Reset, SetUp
  PROVE  TypeOK' /\ Tells(Machine, elapsed)'
<1>1. reg = Reset.reg /\ phase = Reset.phase /\ lynx_irq_latch = Reset.latch
  BY DEF Machine
<1>2. reg \in [Timer -> Registers] /\ phase \in [Timer -> 0 .. 63] /\ lynx_irq_latch \subseteq Timer
  BY <1>1, ResetType DEF Machines
<1>3. 0 \in Timer /\ 2 \in Timer /\ LineBackup \in 0 .. MaxCount /\ FrameBackup \in 0 .. MaxCount
      /\ LineClock \in 0 .. 7 /\ 7 \in 0 .. 7
  BY CadenceAssumption
<1> PICK l, f : l = Free(LineBackup, LineClock) /\ f = Free(FrameBackup, 7)
  OBVIOUS
<1>4. l \in Registers /\ f \in Registers
  <2>1. \A b \in 0 .. MaxCount, c \in 0 .. 7 : Free(b, c) \in Registers
    BY DEF Free, Registers, ControlA
  <2> QED BY <1>3, <2>1
<1>5. /\ l.backup = LineBackup /\ l.count = LineBackup
      /\ f.backup = FrameBackup /\ f.count = FrameBackup
  BY DEF Free
<1>6. reg' = [reg EXCEPT ![0] = l, ![2] = f] /\ phase' = phase /\ lynx_irq_latch' = lynx_irq_latch /\ elapsed' = 0
  BY DEF SetUp
<1>7. reg' \in [Timer -> Registers] /\ reg'[0] = l /\ reg'[2] = f
  BY <1>2, <1>3, <1>4, <1>6
<1>8. TypeOK'
  BY <1>2, <1>6, <1>7 DEF TypeOK, Machine, Machines
<1>9. Programmed(Machine')
  BY <1>3, <1>5, <1>7, MaxCountAssumption DEF Programmed, Machine
<1>10. phase'[0] = 0
  BY <1>1, <1>3, <1>6 DEF Reset
<1>11. Left(Machine') = FrameBackup * Line + (LineBackup + 1) * LinePeriod
  BY <1>5, <1>7 DEF Left, Machine
<1>12. Left(Machine') = Frame
  BY <1>11, Sizes, <1>3, MaxCountAssumption DEF Line, LinePeriod
<1>13. Tells(Machine', elapsed')
  BY <1>6, <1>9, <1>10, <1>12, Sizes DEF Tells, Machine
<1> QED BY <1>8, <1>13

(* The calls that leave the frame alone leave the invariant.               *)
LEMMA Quiet ==
  ASSUME IInv, TypeOK', UNCHANGED <<framed, elapsed, saved, noted>>,
         framed => reg'[0] = reg[0] /\ reg'[2] = reg[2] /\ phase' = phase
  PROVE  IInv'
<1>1. framed => Tells(Machine', elapsed)
  BY DEF IInv, Tells, Programmed, Left, Machine
<1>2. (framed \in BOOLEAN)' /\ (elapsed \in Nat)' /\ SavedType'
  BY DEF IInv, SavedType
<1>3. (framed => Tells(Machine, elapsed))'
  BY <1>1
<1>4. (\A s \in Slot : saved[s] # NoSave => framed /\ Tells(saved[s], noted[s]))'
  BY DEF IInv
<1> QED BY <1>2, <1>3, <1>4 DEF IInv

LEMMA WritesKeep ==
  ASSUME IInv, Writes
  PROVE  IInv'
<1> USE DEF Writes
<1>0. TypeOK /\ UNCHANGED <<framed, elapsed, saved, noted>>
  BY DEF IInv
<1>1. ASSUME ~framed, NEW i \in {0, 2}, GameWrites(i) PROVE IInv'
  <2>1. TypeOK'
    BY <1>0, <1>1, CadenceAssumption, WriteType
  <2> QED BY <1>0, <1>1, <2>1, Quiet
<1>2. ASSUME ~framed, NEW mask \in SUBSET {0, 2}, lynx_irq_raise(mask) PROVE IInv'
  <2>1. TypeOK'
    BY <1>0, <1>2, CadenceAssumption, LatchType
  <2> QED BY <1>0, <1>2, <2>1, Quiet
<1>3. ASSUME framed, NEW i \in Timer \ {0, 2}, GameWrites(i) PROVE IInv'
  <2>1. TypeOK' /\ phase' = phase /\ reg'[0] = reg[0] /\ reg'[2] = reg[2]
    BY <1>0, <1>3, CadenceAssumption, WriteType
  <2> QED BY <1>0, <1>3, <2>1, Quiet
<1>4. ASSUME framed, NEW i \in Timer \ {0, 2}, NEW v \in 0 .. MaxCount, write_count(i, v) PROVE IInv'
  BY <1>3, <1>4 DEF GameWrites
<1>5. ASSUME framed, NEW i \in Timer \ {0, 2}, NEW c \in Control, write_ctlA(i, c) PROVE IInv'
  BY <1>3, <1>5 DEF GameWrites
<1>6. ASSUME NEW mask \in SUBSET Timer, lynx_irq_ack(mask) PROVE IInv'
  <2>1. TypeOK' /\ reg' = reg /\ phase' = phase
    BY <1>0, <1>6, LatchType
  <2> QED BY <1>0, <2>1, Quiet
<1> QED BY <1>1, <1>2, <1>4, <1>5, <1>6

LEMMA CadenceInitial == CadenceInit => IInv
<1> SUFFICES ASSUME CadenceInit PROVE IInv
  OBVIOUS
<1>1. Machine = Reset
  BY DEF CadenceInit, Init, Machine, Reset
<1>2. TypeOK
  BY <1>1, ResetType DEF TypeOK
<1>3. SavedType /\ framed = FALSE /\ elapsed \in Nat /\ \A s \in Slot : saved[s] = NoSave
  BY DEF CadenceInit, SavedType
<1> QED BY <1>2, <1>3 DEF IInv

LEMMA PassKeeps ==
  ASSUME IInv, NEW us \in Us, Pass(us)
  PROVE  /\ IInv'
         /\ framed => (2 \in lynx_irq_latch' <=> (2 \in lynx_irq_latch \/ elapsed + us >= Frame))
<1>1. Machine \in Machines /\ us \in Nat
  BY UsAssumption DEF IInv, TypeOK
<1>2. Machine' = step(Machine, us)
  BY <1>1, StepType, Becomes DEF Pass, lynx_timer_step
<1>3. TypeOK'
  BY <1>1, <1>2, StepType DEF TypeOK
<1>4. framed' = framed /\ saved' = saved /\ noted' = noted
      /\ elapsed' = IF framed THEN (elapsed + us) % Frame ELSE 0
  BY DEF Pass
<1>5. framed => Passes(Machine, elapsed, us, Machine')
  BY <1>1, <1>2, StepTells DEF IInv
<1>6. framed => Tells(Machine', elapsed')
  BY <1>4, <1>5 DEF Passes
<1>7. elapsed' \in Nat
  BY <1>4, <1>6, Sizes DEF Tells
<1>8. IInv'
  BY <1>3, <1>4, <1>6, <1>7 DEF IInv, SavedType
<1>9. Machine.latch = lynx_irq_latch /\ (Machine').latch = lynx_irq_latch'
  BY DEF Machine
<1> QED BY <1>5, <1>8, <1>9 DEF Passes

LEMMA CadenceStep == IInv /\ [CadenceNext]_cvars => IInv'
<1> SUFFICES ASSUME IInv, [CadenceNext]_cvars PROVE IInv'
  OBVIOUS
<1>0. SavedType /\ TypeOK
  BY DEF IInv
<1>1. CASE SetUp
  <2>1. TypeOK' /\ (Tells(Machine, elapsed))' /\ framed' = TRUE /\ saved' = saved /\ noted' = noted
        /\ elapsed' = 0 /\ ~framed
    BY <1>1, SetUpTells DEF SetUp
  <2>2. \A s \in Slot : saved[s] = NoSave
    BY <2>1 DEF IInv
  <2> QED BY <1>0, <2>1, <2>2 DEF IInv, SavedType
<1>2. ASSUME NEW us \in Us, Pass(us) PROVE IInv'
  BY <1>2, PassKeeps
<1>3. ASSUME NEW s \in Slot, state_save(s) PROVE IInv'
  <2>1. /\ framed /\ saved' = [saved EXCEPT ![s] = Machine] /\ noted' = [noted EXCEPT ![s] = elapsed]
        /\ Machine' = Machine /\ framed' = framed /\ elapsed' = elapsed
    BY <1>3 DEF state_save, Machine
  <2>2. Machine \in Machines /\ elapsed \in Nat
    BY DEF IInv, TypeOK
  <2>3. SavedType'
    BY <1>0, <2>1, <2>2 DEF SavedType
  <2>4. \A t \in Slot : /\ t = s => saved'[t] = Machine /\ noted'[t] = elapsed
                        /\ t # s => saved'[t] = saved[t] /\ noted'[t] = noted[t]
    BY <1>0, <2>1 DEF SavedType
  <2>5. \A t \in Slot : saved'[t] # NoSave => framed /\ Tells(saved'[t], noted'[t])
    BY <2>1, <2>4 DEF IInv
  <2>6. TypeOK'
    BY <2>1, <2>2 DEF TypeOK
  <2> QED BY <2>1, <2>3, <2>5, <2>6 DEF IInv
<1>4. ASSUME NEW s \in Slot, state_load(s) PROVE IInv'
  <2>1. saved[s] # NoSave /\ MachineBecomes(saved[s]) /\ elapsed' = noted[s]
        /\ framed' = framed /\ saved' = saved /\ noted' = noted
    BY <1>4 DEF state_load
  <2>2. saved[s] \in Machines /\ noted[s] \in Nat
    BY <1>0, <2>1 DEF SavedType
  <2>3. Machine' = saved[s]
    BY <2>1, <2>2, Becomes
  <2>4. TypeOK' /\ Tells(Machine', elapsed')
    BY <2>1, <2>2, <2>3 DEF TypeOK, IInv
  <2> QED BY <2>1, <2>2, <2>4 DEF IInv, SavedType
<1>5. CASE Writes
  BY <1>5, WritesKeep
<1>6. CASE Restart
  <2>1. \A s \in Slot : saved[s] = NoSave
    BY <1>6 DEF Restart
  <2>2. Machine' = Reset
    BY <1>6, ResetType, Becomes DEF Restart, lynx_mikey_init
  <2>3. TypeOK'
    BY <2>2, ResetType DEF TypeOK
  <2> QED BY <1>0, <1>6, <2>1, <2>3 DEF IInv, SavedType, Restart
<1>7. CASE UNCHANGED cvars
  BY <1>7 DEF cvars, vars, IInv, SavedType, TypeOK, Machine
<1> QED BY <1>1, <1>2, <1>3, <1>4, <1>5, <1>6, <1>7 DEF CadenceNext

LEMMA CadenceInvariant == CadenceSpec => []IInv
<1> QED BY CadenceInitial, CadenceStep, PTL DEF CadenceSpec

(* The timers' registers, phases and latch keep their ranges, whatever the *)
(* game programs and however the runtime slices time: no phase reaches 64  *)
(* microseconds (lynx_timer_step).                                         *)
THEOREM TimersTypeCorrect == CadenceSpec => []TypeOK
<1>1. IInv => TypeOK
  BY DEF IInv
<1> QED BY <1>1, CadenceInvariant, PTL

(* How the runtime slices time makes no difference, for every set of       *)
(* timers and every state the game can put them in: the loop of            *)
(* lynx_timer_step handles each timer's microseconds in turn, and a timer's *)
(* cascade stays in the part of the chain that it heads.                   *)
THEOREM StepsAlwaysCompose == CadenceSpec => []StepsCompose
<1>1. TypeOK => StepsCompose
  BY UsAssumption, StepAdds DEF TypeOK, StepsCompose
<1> QED BY <1>1, TimersTypeCorrect, PTL

(* Timers 0 and 2 tell the time to the microsecond, for every line and     *)
(* frame length, however the steps slice it, and across save states.       *)
THEOREM CountersTellTheTimeAlways == CadenceSpec => []CountersTellTheTime
<1>1. IInv => CountersTellTheTime
  <2> SUFFICES ASSUME IInv, framed
               PROVE  Frame - elapsed
                        = reg[2].count * Line + (reg[0].count + 1) * 2 ^ LineClock - phase[0]
    BY DEF CountersTellTheTime
  <2>1. Tells(Machine, elapsed)
    BY DEF IInv
  <2>2. Machine.reg = reg /\ Machine.phase = phase
    BY DEF Machine
  <2>3. Frame - elapsed = Left(Machine) - Machine.phase[0]
    BY <2>1 DEF Tells
  <2>4. Left(Machine) = reg[2].count * Line + (reg[0].count + 1) * 2 ^ LineClock
    BY ONLY <2>2 DEF Left, LinePeriod
  <2>5. Frame - elapsed = Left(Machine) - phase[0]
    BY ONLY <2>2, <2>3
  <2>6. /\ reg[2].count * Line \in Int /\ (reg[0].count + 1) * 2 ^ LineClock \in Int
        /\ phase[0] \in Int
    <3>1. Machine \in Machines /\ Programmed(Machine)
      BY <2>1 DEF IInv, TypeOK, Tells
    <3>2. reg[0].count \in Nat /\ reg[2].count \in Nat
      BY <2>2, <3>1, Program DEF Counts
    <3>3. phase[0] \in Int
      BY <2>2, <3>1, CadenceAssumption DEF Machines
    <3>4. 2 ^ LineClock \in Int /\ Line \in Int
      BY Sizes DEF LinePeriod
    <3> QED BY ONLY <3>2, <3>3, <3>4
  <2>7. \A x, y, z \in Int : x + (y - z) = (x + y) - z
    OBVIOUS
  <2> QED BY ONLY <2>4, <2>5, <2>6, <2>7
<1> QED BY <1>1, CadenceInvariant, PTL

(* The frame interrupt becomes pending in the step in which the frame is   *)
(* due, and in no other.                                                   *)
THEOREM FrameInterruptAlwaysOnTime == CadenceSpec => FrameInterruptOnTime
<1>1. IInv /\ [CadenceNext]_cvars =>
        [\A us \in Us : framed /\ Pass(us) =>
           (2 \in lynx_irq_latch' <=> 2 \in lynx_irq_latch \/ elapsed + us >= Frame)]_cvars
  BY PassKeeps
<1> QED BY <1>1, CadenceInvariant, PTL DEF CadenceSpec, FrameInterruptOnTime
=============================================================================
