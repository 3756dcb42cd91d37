------------------------------ MODULE Iteration ------------------------------
(***************************************************************************)
(* Facts about counting loops and about division.  A loop that applies a   *)
(* step n times is written as a recursive function of the number of        *)
(* rounds.  The facts are stated for sets and functions instead of         *)
(* operators, so that a proof can instantiate them: for a predicate P, the *)
(* induction is over {n \in Nat : P(n)}.                                   *)
(***************************************************************************)
EXTENDS Integers, WellFoundedInduction, TLAPS

(* Induction over the natural numbers.                                     *)
THEOREM Induction ==
  ASSUME NEW T, 0 \in T, \A n \in Nat : n \in T => n + 1 \in T
  PROVE  \A n \in Nat : n \in T
<1> SUFFICES ASSUME NEW k \in Nat, k \notin T PROVE FALSE
  OBVIOUS
<1> DEFINE R == OpToRel(<, Nat)
           U == {n \in Nat : n \notin T}
<1>1. \A x, y \in Nat : y < x => <<y, x>> \in R
  BY DEF OpToRel
<1> HIDE DEF R
<1>2. \E x \in U : \A y \in U : ~(<<y, x>> \in R)
  <2>1. U \subseteq Nat /\ U # {}
    OBVIOUS
  <2>2. IsWellFoundedOn(R, Nat)
    BY NatLessThanWellFounded DEF R
  <2> HIDE DEF U
  <2> QED BY ONLY <2>1, <2>2, WFMin
<1>3. PICK x \in U : \A y \in U : ~(<<y, x>> \in R)
  BY ONLY <1>2
<1>4. x \in Nat \ {0} /\ x - 1 \in Nat /\ x - 1 < x
  BY <1>3
<1>5. x - 1 \in T
  BY <1>1, <1>3, <1>4
<1>6. (x - 1) + 1 \in T
  BY <1>4, <1>5
<1> QED BY <1>3, <1>4, <1>6

(* A run of n rounds: F is applied n times, beginning with x.              *)
Run(g, F, x, n) == g = [k \in 0 .. n |-> IF k = 0 THEN x ELSE F[g[k - 1]]]

(* What a run holds after each round, as a fact on its own.                *)
Rounds(g, F, x, n) ==
  /\ g[0] = x
  /\ \A k \in 0 .. n - 1 : g[k + 1] = F[g[k]]

LEMMA RunRounds ==
  ASSUME NEW g, NEW F, NEW x, NEW n \in Nat, Run(g, F, x, n)
  PROVE  Rounds(g, F, x, n)
<1>1. \A k \in 0 .. n : g[k] = IF k = 0 THEN x ELSE F[g[k - 1]]
  BY DEF Run
<1>2. 0 \in 0 .. n /\ \A k \in 0 .. n - 1 : k + 1 \in 0 .. n /\ k + 1 # 0 /\ (k + 1) - 1 = k
  OBVIOUS
<1> QED BY ONLY <1>1, <1>2 DEF Rounds

(* A set that the rounds do not leave holds all of a run.                  *)
THEOREM RunStays ==
  ASSUME NEW g, NEW F, NEW x, NEW n \in Nat, Run(g, F, x, n),
         NEW S, x \in S, \A y \in S : F[y] \in S
  PROVE  \A k \in 0 .. n : g[k] \in S
<1> DEFINE T == {k \in Nat : k <= n => g[k] \in S}
<1>1. Rounds(g, F, x, n)
  BY RunRounds
<1>2. 0 \in T
  BY <1>1 DEF Rounds
<1>3. ASSUME NEW k \in Nat, k \in T PROVE k + 1 \in T
  BY <1>1, <1>3 DEF Rounds
<1> HIDE DEF T
<1>4. \A k \in Nat : k \in T
  BY ONLY <1>2, <1>3, Induction
<1> QED BY <1>4 DEF T

(* A loop whose step is F, as long as it stays where F is defined, is a    *)
(* run.                                                                    *)
Loop(g, F, S, x, n) ==
  /\ g = [k \in 0 .. n |-> g[k]]
  /\ g[0] = x
  /\ \A k \in 0 .. n - 1 : g[k] \in S => g[k + 1] = F[g[k]]

THEOREM LoopRuns ==
  ASSUME NEW S, NEW F \in [S -> S], NEW x \in S, NEW n \in Nat,
         NEW g, Loop(g, F, S, x, n)
  PROVE  Run(g, F, x, n)
<1> DEFINE T == {k \in Nat : k <= n => g[k] \in S}
<1>1. 0 \in T
  BY DEF Loop
<1>2. ASSUME NEW k \in Nat, k \in T PROVE k + 1 \in T
  <2>1. k + 1 <= n => k \in 0 .. n - 1 /\ g[k] \in S
    BY <1>2
  <2>2. k + 1 <= n => g[k + 1] = F[g[k]]
    BY <2>1 DEF Loop
  <2> QED BY <2>1, <2>2
<1>3. \A k \in Nat : k \in T
  <2> HIDE DEF T
  <2> QED BY ONLY <1>1, <1>2, Induction
<1>4. ASSUME NEW k \in 0 .. n PROVE g[k] = IF k = 0 THEN x ELSE F[g[k - 1]]
  <2>1. CASE k = 0
    BY <2>1 DEF Loop
  <2>2. CASE k # 0
    <3>1. k - 1 \in 0 .. n - 1 /\ k - 1 \in Nat /\ k - 1 <= n /\ (k - 1) + 1 = k
      BY <2>2
    <3>2. g[k - 1] \in S
      BY <3>1, <1>3
    <3>3. g[(k - 1) + 1] = F[g[k - 1]]
      BY <3>1, <3>2 DEF Loop
    <3> QED BY ONLY <3>1, <3>3, <2>2
  <2> QED BY <2>1, <2>2
<1>5. g = [k \in 0 .. n |-> g[k]]
  BY DEF Loop
<1> QED BY ONLY <1>4, <1>5 DEF Run

(* There is a run of every length, so a function defined by it is one.     *)
THEOREM RunExists ==
  ASSUME NEW S, NEW F \in [S -> S], NEW x \in S, NEW n \in Nat
  PROVE  \E g : Run(g, F, x, n)
<1> DEFINE T == {k \in Nat : \E g : Run(g, F, x, k)}
<1>1. 0 \in T
  <2>1. Run([k \in 0 .. 0 |-> x], F, x, 0)
    BY DEF Run
  <2> QED BY <2>1
<1>2. ASSUME NEW k \in Nat, k \in T PROVE k + 1 \in T
  <2>1. PICK g : Run(g, F, x, k)
    BY <1>2
  <2> DEFINE h == [j \in 0 .. k + 1 |-> IF j = 0 THEN x ELSE F[g[j - 1]]]
  <2>2. \A j \in 0 .. k : h[j] = g[j]
    BY <2>1 DEF Run
  <2>3. \A j \in 0 .. k + 1 : j # 0 => h[j - 1] = g[j - 1]
    BY <2>2
  <2>4. h = [j \in 0 .. k + 1 |-> IF j = 0 THEN x ELSE F[h[j - 1]]]
    BY <2>3
  <2>5. Run(h, F, x, k + 1)
    BY <2>4 DEF Run
  <2> QED BY <2>5
<1> HIDE DEF T
<1>3. \A k \in Nat : k \in T
  BY ONLY <1>1, <1>2, Induction
<1> QED BY <1>3 DEF T

(* Two runs from the same state agree as long as both last.                *)
THEOREM RunsAgree ==
  ASSUME NEW F, NEW x, NEW g, NEW n \in Nat, Run(g, F, x, n),
         NEW h, NEW m \in Nat, Run(h, F, x, m)
  PROVE  \A k \in Nat : k <= n /\ k <= m => g[k] = h[k]
<1> DEFINE T == {k \in Nat : k <= n /\ k <= m => g[k] = h[k]}
<1>1. Rounds(g, F, x, n) /\ Rounds(h, F, x, m)
  BY RunRounds
<1>2. 0 \in T
  BY <1>1 DEF Rounds
<1>3. ASSUME NEW k \in Nat, k \in T PROVE k + 1 \in T
  <2> SUFFICES ASSUME k + 1 <= n, k + 1 <= m PROVE g[k + 1] = h[k + 1]
    OBVIOUS
  <2>1. k \in 0 .. n - 1 /\ k \in 0 .. m - 1 /\ g[k] = h[k]
    BY <1>3
  <2> QED BY <2>1, <1>1 DEF Rounds
<1> HIDE DEF T
<1>4. \A k \in Nat : k \in T
  BY ONLY <1>2, <1>3, Induction
<1> QED BY <1>4 DEF T

(* A run that begins where another one is, after a rounds, holds what that *)
(* one holds a rounds later.                                               *)
THEOREM RunsJoin ==
  ASSUME NEW F, NEW x, NEW a \in Nat, NEW b \in Nat,
         NEW g, Run(g, F, x, a + b), NEW h, Run(h, F, g[a], b)
  PROVE  h[b] = g[a + b]
<1> DEFINE T == {k \in Nat : k <= b => h[k] = g[a + k]}
<1>1. Rounds(g, F, x, a + b) /\ Rounds(h, F, g[a], b)
  BY RunRounds
<1>2. 0 \in T
  BY <1>1 DEF Rounds
<1>3. ASSUME NEW k \in Nat, k \in T PROVE k + 1 \in T
  <2> SUFFICES ASSUME k + 1 <= b PROVE h[k + 1] = g[a + (k + 1)]
    OBVIOUS
  <2>1. k \in 0 .. b - 1 /\ a + k \in 0 .. (a + b) - 1 /\ h[k] = g[a + k] /\ a + (k + 1) = (a + k) + 1
    BY <1>3
  <2>2. h[k + 1] = F[h[k]] /\ g[(a + k) + 1] = F[g[a + k]]
    BY <2>1, <1>1 DEF Rounds
  <2> QED BY ONLY <2>1, <2>2
<1> HIDE DEF T
<1>4. \A k \in Nat : k \in T
  BY ONLY <1>2, <1>3, Induction
<1> QED BY <1>4 DEF T

(* A loop over the elements of a sequence: its step depends on the round.  *)
Over(g, G, x, n) == g = [k \in 0 .. n |-> IF k = 0 THEN x ELSE G[<<k, g[k - 1]>>]]

THEOREM OverExists ==
  ASSUME NEW S, NEW x \in S, NEW n \in Nat, NEW G,
         \A k \in 1 .. n, y \in S : G[<<k, y>>] \in S
  PROVE  \E g : Over(g, G, x, n) /\ \A k \in 0 .. n : g[k] \in S
<1> DEFINE T == {m \in Nat : m <= n => \E g : Over(g, G, x, m) /\ \A k \in 0 .. m : g[k] \in S}
<1>1. 0 \in T
  <2>1. Over([k \in 0 .. 0 |-> x], G, x, 0)
    BY DEF Over
  <2> QED BY <2>1
<1>2. ASSUME NEW m \in Nat, m \in T PROVE m + 1 \in T
  <2> SUFFICES ASSUME m + 1 <= n
               PROVE  \E g : Over(g, G, x, m + 1) /\ \A k \in 0 .. m + 1 : g[k] \in S
    OBVIOUS
  <2>1. PICK g : Over(g, G, x, m) /\ \A k \in 0 .. m : g[k] \in S
    BY <1>2
  <2> DEFINE h == [k \in 0 .. m + 1 |-> IF k = 0 THEN x ELSE G[<<k, g[k - 1]>>]]
  <2>2. \A k \in 0 .. m : h[k] = g[k]
    BY <2>1 DEF Over
  <2>3. \A k \in 0 .. m + 1 : k # 0 => k - 1 \in 0 .. m /\ k \in 1 .. n
    OBVIOUS
  <2>4. \A k \in 0 .. m + 1 : h[k] = IF k = 0 THEN x ELSE G[<<k, h[k - 1]>>]
    BY <2>2, <2>3
  <2>5. Over(h, G, x, m + 1)
    <3>1. h = [k \in 0 .. m + 1 |-> h[k]]
      OBVIOUS
    <3> HIDE DEF h
    <3> QED BY ONLY <3>1, <2>4 DEF Over
  <2>6. \A k \in 0 .. m + 1 : h[k] \in S
    <3> TAKE k \in 0 .. m + 1
    <3>1. CASE k = 0
      BY <3>1
    <3>2. CASE k # 0
      <4>1. k - 1 \in 0 .. m /\ k \in 1 .. n
        BY <2>3, <3>2
      <4>2. g[k - 1] \in S
        BY <2>1, <4>1
      <4>3. h[k] = G[<<k, g[k - 1]>>]
        BY <3>2
      <4> QED BY ONLY <4>1, <4>2, <4>3, \A j \in 1 .. n, y \in S : G[<<j, y>>] \in S
    <3> QED BY <3>1, <3>2
  <2> QED BY <2>5, <2>6
<1> HIDE DEF T
<1>3. \A m \in Nat : m \in T
  BY ONLY <1>1, <1>2, Induction
<1> QED BY <1>3 DEF T

(* A walk goes up from a place to the next, to the first where it stops.   *)
(* It is given, from the last place down, as the places it visits.         *)
Walk(g, next, stop, top) ==
  g = [a \in 0 .. top |-> IF a \in stop THEN {} ELSE {a} \cup g[next[a]]]

Upward(next, stop, top) ==
  \A a \in 0 .. top : a \notin stop => next[a] \in 0 .. top /\ next[a] > a

THEOREM WalkExists ==
  ASSUME NEW top \in Nat, NEW next, NEW stop, Upward(next, stop, top)
  PROVE  \E g : Walk(g, next, stop, top)
<1> DEFINE Body(g, a) == IF a \in stop THEN {} ELSE {a} \cup g[next[a]]
           Holds(g, n) == /\ g = [a \in 0 .. top |-> g[a]]
                          /\ \A a \in 0 .. top : a + n > top => g[a] = Body(g, a)
           T == {n \in Nat : \E g : Holds(g, n)}
<1>1. 0 \in T
  <2> DEFINE e == [a \in 0 .. top |-> {}]
  <2>1. e = [a \in 0 .. top |-> e[a]]
    OBVIOUS
  <2>2. \A a \in 0 .. top : ~(a + 0 > top)
    OBVIOUS
  <2> HIDE DEF e, Body
  <2>3. Holds(e, 0)
    BY ONLY <2>1, <2>2
  <2> HIDE DEF Holds
  <2> QED BY <2>3
<1>2. ASSUME NEW n \in Nat, n \in T PROVE n + 1 \in T
  <2>1. PICK g : Holds(g, n)
    BY <1>2
  <2> DEFINE h == [a \in 0 .. top |-> Body(g, a)]
  <2>2. \A a \in 0 .. top : a + n > top => h[a] = g[a]
    BY <2>1
  <2>3. ASSUME NEW a \in 0 .. top, a + (n + 1) > top PROVE h[a] = Body(h, a)
    <3>1. CASE a \in stop
      BY <3>1
    <3>2. CASE a \notin stop
      <4>1. next[a] \in 0 .. top /\ next[a] > a
        BY <3>2 DEF Upward
      <4>2. next[a] + n > top
        BY <4>1, <2>3
      <4>3. h[next[a]] = g[next[a]]
        BY ONLY <2>2, <4>1, <4>2
      <4> QED BY <4>3, <3>2
    <3> QED BY <3>1, <3>2
  <2>4. h = [a \in 0 .. top |-> h[a]]
    OBVIOUS
  <2> HIDE DEF h, Body
  <2>5. Holds(h, n + 1)
    BY ONLY <2>3, <2>4
  <2> HIDE DEF Holds
  <2> QED BY <2>5
<1> HIDE DEF T
<1>3. \A n \in Nat : n \in T
  BY ONLY <1>1, <1>2, Induction
<1> HIDE DEF Holds, Body
<1>4. PICK g : Holds(g, top + 1)
  <2>1. top + 1 \in T
    BY <1>3
  <2> QED BY ONLY <2>1 DEF T
<1>5. \A a \in 0 .. top : a + (top + 1) > top
  OBVIOUS
<1>6. g = [a \in 0 .. top |-> g[a]] /\ \A a \in 0 .. top : g[a] = Body(g, a)
  BY ONLY <1>4, <1>5 DEF Holds
<1> QED BY ONLY <1>6 DEF Walk, Body

(* What holds of the walk from every place where it stops, and passes from *)
(* the next place to a place, holds of the walks from everywhere.          *)
THEOREM WalkInduction ==
  ASSUME NEW top \in Nat, NEW next, NEW stop, Upward(next, stop, top),
         NEW P, \A a \in 0 .. top : (a \notin stop => next[a] \in P) => a \in P
  PROVE  \A a \in 0 .. top : a \in P
<1> DEFINE T == {n \in Nat : \A a \in 0 .. top : a + n > top => a \in P}
<1>1. 0 \in T
  OBVIOUS
<1>2. ASSUME NEW n \in Nat, n \in T PROVE n + 1 \in T
  <2> SUFFICES ASSUME NEW a \in 0 .. top, a + (n + 1) > top PROVE a \in P
    OBVIOUS
  <2>1. a \notin stop => next[a] \in 0 .. top /\ next[a] + n > top
    BY DEF Upward
  <2>2. a \notin stop => next[a] \in P
    BY <1>2, <2>1
  <2> QED BY <2>2
<1> HIDE DEF T
<1>3. \A n \in Nat : n \in T
  BY ONLY <1>1, <1>2, Induction
<1>4. top + 1 \in T /\ \A a \in 0 .. top : a + (top + 1) > top
  BY <1>3
<1> QED BY ONLY <1>4 DEF T

-----------------------------------------------------------------------------
(* Division, and the powers of two by which registers divide.              *)
Powers == {1, 2, 4, 8, 16, 32, 64}

LEMMA Power ==
  ASSUME NEW c \in 0 .. 6
  PROVE  2 ^ c \in Powers
<1>1. c = 0 \/ c = 1 \/ c = 2 \/ c = 3 \/ c = 4 \/ c = 5 \/ c = 6
  OBVIOUS
<1>2. 2 ^ 0 = 1 /\ 2 ^ 1 = 2 /\ 2 ^ 2 = 4 /\ 2 ^ 3 = 8 /\ 2 ^ 4 = 16 /\ 2 ^ 5 = 32 /\ 2 ^ 6 = 64
  OBVIOUS
<1> PICK v : v = 2 ^ c
  OBVIOUS
<1>3. v = 2 ^ 0 \/ v = 2 ^ 1 \/ v = 2 ^ 2 \/ v = 2 ^ 3 \/ v = 2 ^ 4 \/ v = 2 ^ 5 \/ v = 2 ^ 6
  BY ONLY <1>1, v = 2 ^ c, Zenon
<1>4. v = 1 \/ v = 2 \/ v = 4 \/ v = 8 \/ v = 16 \/ v = 32 \/ v = 64
  BY ONLY <1>2, <1>3
<1>5. v \in Powers
  BY ONLY <1>4 DEF Powers
<1> QED BY ONLY <1>5, v = 2 ^ c

LEMMA Double ==
  ASSUME NEW n \in 0 .. 7
  PROVE  2 ^ n \in Nat \ {0} /\ 2 ^ (n + 1) = 2 * (2 ^ n)
<1> PICK k : k = n + 1
  OBVIOUS
<1>1. \/ (n = 0 /\ k = 1)
      \/ (n = 1 /\ k = 2)
      \/ (n = 2 /\ k = 3)
      \/ (n = 3 /\ k = 4)
      \/ (n = 4 /\ k = 5)
      \/ (n = 5 /\ k = 6)
      \/ (n = 6 /\ k = 7)
      \/ (n = 7 /\ k = 8)
  <2>1. n = 0 \/ n = 1 \/ n = 2 \/ n = 3 \/ n = 4 \/ n = 5 \/ n = 6 \/ n = 7
    OBVIOUS
  <2> QED BY ONLY <2>1, k = n + 1
<1>2. /\ 2 ^ 0 = 1
      /\ 2 ^ 1 = 2
      /\ 2 ^ 2 = 4
      /\ 2 ^ 3 = 8
      /\ 2 ^ 4 = 16
      /\ 2 ^ 5 = 32
      /\ 2 ^ 6 = 64
      /\ 2 ^ 7 = 128
      /\ 2 ^ 8 = 256
  OBVIOUS
<1> DEFINE Goal == 2 ^ n \in Nat \ {0} /\ 2 ^ k = 2 * (2 ^ n)
<1>3. n = 0 /\ k = 1 => Goal
  BY ONLY <1>2
<1>4. n = 1 /\ k = 2 => Goal
  BY ONLY <1>2
<1>5. n = 2 /\ k = 3 => Goal
  BY ONLY <1>2
<1>6. n = 3 /\ k = 4 => Goal
  BY ONLY <1>2
<1>7. n = 4 /\ k = 5 => Goal
  BY ONLY <1>2
<1>8. n = 5 /\ k = 6 => Goal
  BY ONLY <1>2
<1>9. n = 6 /\ k = 7 => Goal
  BY ONLY <1>2
<1>10. n = 7 /\ k = 8 => Goal
  BY ONLY <1>2
<1>11. Goal
  <2> HIDE DEF Goal
  <2> QED BY ONLY <1>1, <1>3, <1>4, <1>5, <1>6, <1>7, <1>8, <1>9, <1>10
<1> QED BY ONLY <1>11, k = n + 1

LEMMA Division ==
  ASSUME NEW p \in Nat \ {0}, NEW t \in Nat
  PROVE  t \div p \in Nat /\ t % p \in 0 .. p - 1 /\ t = (t \div p) * p + (t % p)
<1>1. t = p * (t \div p) + (t % p)
  OBVIOUS
<1> QED BY <1>1

LEMMA Divides ==
  ASSUME NEW p \in Powers, NEW t \in Nat
  PROVE  t \div p \in Nat /\ t % p \in 0 .. p - 1 /\ t = (t \div p) * p + (t % p)
<1>1. p \in Nat \ {0}
  BY DEF Powers
<1> QED BY <1>1, Division

(* A number has one quotient and one remainder.                            *)
LEMMA Quotient ==
  ASSUME NEW p \in Nat \ {0}, NEW q \in Int, NEW j \in Int, NEW r \in 0 .. p - 1, NEW s \in 0 .. p - 1,
         q * p + r = j * p + s
  PROVE  q = j /\ r = s
<1>0. \A x, y \in Int : x >= y => x * p >= y * p
  OBVIOUS
<1>1. CASE q >= j + 1
  <2>1. q * p >= (j + 1) * p
    BY <1>0, <1>1
  <2>2. (j + 1) * p = j * p + p
    OBVIOUS
  <2> QED BY <2>1, <2>2
<1>2. CASE j >= q + 1
  <2>1. j * p >= (q + 1) * p
    BY <1>2
  <2>2. (q + 1) * p = q * p + p
    OBVIOUS
  <2> QED BY <2>1, <2>2
<1>3. CASE q = j
  <2>1. PICK y \in Int : y = q * p
    OBVIOUS
  <2>2. y + r = y + s
    BY ONLY <1>3, <2>1, q * p + r = j * p + s
  <2> QED BY ONLY <2>2, <1>3, y \in Int, r \in Int, s \in Int
<1> QED BY <1>1, <1>2, <1>3

LEMMA Small ==
  ASSUME NEW p \in Nat \ {0}, NEW t \in 0 .. p - 1
  PROVE  t % p = t
<1>0. t \in Nat
  OBVIOUS
<1>1. t \div p \in Nat /\ t % p \in 0 .. p - 1 /\ t = (t \div p) * p + (t % p)
  BY <1>0, Division
<1> PICK q \in Int, r \in 0 .. p - 1 : q = t \div p /\ r = t % p
  BY <1>1
<1>2. q * p + r = 0 * p + t
  <2> PICK x \in Int : x = q * p
    OBVIOUS
  <2> QED BY <1>1
<1>3. r = t
  BY <1>2, Quotient
<1> QED BY <1>3
=============================================================================
