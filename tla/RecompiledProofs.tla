-------------------------- MODULE RecompiledProofs --------------------------
(***************************************************************************)
(* What holds of a cartridge's code on its way to execution, whatever the  *)
(* image, the seeds and the limits.                                        *)
(*                                                                         *)
(* Three inductive invariants, each on top of the one before.  RInv says   *)
(* what the variables are, down to every activation being of a function in *)
(* the table, and that the pushed addresses are in one place each.  Walked *)
(* says of every function, closed or in hand, that the instructions        *)
(* discovery decoded form a line from its start to its end whose targets   *)
(* are among the labels.  That the emitter walks the same line is an       *)
(* induction up the address space (Iteration).  Mapped says where that     *)
(* line leads: to addresses that have been reached, and at its end to      *)
(* nowhere, unless no code follows there; and that every activation is at  *)
(* a statement, at such an end, or about to return.  From it each step of  *)
(* execution is the processor's, or strays where Cpu allows it.            *)
(***************************************************************************)
EXTENDS Recompiled, Iteration, FiniteSetTheorems, SequenceTheorems

-----------------------------------------------------------------------------
(* Instructions.                                                           *)

(* The pairs of class and mode that there are.                             *)
Kinds ==
  {<<"NORMAL", "IMP">>, <<"BRANCH", "REL">>, <<"JMP", "ABS">>, <<"CALL", "ABS">>,
   <<"RET", "IMP">>, <<"JMP", "IND">>, <<"JMP", "IAX">>, <<"BREAK", "IMP">>}

Insn(in, a) ==
  /\ in.pc = a /\ in.len \in {1, 2} /\ in.operand \in Addr /\ in.target \in Addr
  /\ <<in.cflow, in.mode>> \in Kinds

LEMMA SpaceRange ==
  /\ Space \in Nat \ {0} /\ 0 \in Addr
  /\ \A k \in Nat : k % Space \in Addr
  /\ \A a \in Addr : a % Space = a
<1>1. \A k \in Nat : k % Space \in Addr
  BY SpaceAssumption, Division DEF Addr
<1>2. \A a \in Addr : a % Space = a
  BY SpaceAssumption, Small DEF Addr
<1> QED BY <1>1, <1>2, SpaceAssumption DEF Addr

LEMMA Decoded ==
  ASSUME NEW mem \in Nat \X Nat, NEW a \in Addr
  PROVE  Insn(m65c02_decode(mem, a), a)
<1> PICK c \in Nat, o \in Nat : c = mem[1] /\ o = mem[2]
  OBVIOUS
<1> PICK i : i = (c % 8) + 1
  OBVIOUS
<1>1. i \in 1 .. 8
  OBVIOUS
<1> PICK oi : oi = m65c02_optab[i]
  OBVIOUS
<1>2. <<oi.cflow, oi.mode>> \in Kinds
  <2>1. i = 1 \/ i = 2 \/ i = 3 \/ i = 4 \/ i = 5 \/ i = 6 \/ i = 7 \/ i = 8
    BY ONLY <1>1
  <2> QED BY ONLY <2>1, oi = m65c02_optab[i] DEF m65c02_optab, Kinds
<1>3. oi.mode \in {"IMP", "REL", "ABS", "IND", "IAX"}
  BY ONLY <1>2 DEF Kinds
<1> PICK in, t : /\ in = m65c02_decode(mem, a)
                 /\ t = CASE oi.mode = "REL" -> (a + 2 + mem[2]) % Space
                          [] oi.mode = "ABS" -> mem[2] % Space
                          [] oi.mode \in {"IMP", "IND", "IAX"} -> 0
  OBVIOUS
<1>4. /\ in.pc = a /\ in.len = m65c02_mode_len(oi.mode) /\ in.cflow = oi.cflow /\ in.mode = oi.mode
      /\ in.operand = (IF oi.mode = "IMP" THEN 0 ELSE o % Space)
      /\ in.target = t
  BY DEF m65c02_decode
<1>5. in.len \in {1, 2}
  BY ONLY <1>4 DEF m65c02_mode_len
<1>6. in.operand \in Addr
  BY ONLY <1>4, SpaceRange, o \in Nat
<1>7. a + 2 + o \in Nat
  BY DEF Addr
<1>8. (a + 2 + o) % Space \in Addr /\ o % Space \in Addr /\ 0 \in Addr
  BY ONLY <1>7, o \in Nat, SpaceRange
<1>9. t \in Addr
  <2>1. oi.mode = "REL" => t = (a + 2 + o) % Space
    OBVIOUS
  <2>2. oi.mode = "ABS" => t = o % Space
    OBVIOUS
  <2>3. oi.mode \in {"IMP", "IND", "IAX"} => t = 0
    OBVIOUS
  <2> QED BY ONLY <1>3, <1>8, <2>1, <2>2, <2>3
<1> QED BY ONLY <1>2, <1>4, <1>5, <1>6, <1>9, in = m65c02_decode(mem, a) DEF Insn

LEMMA CellType ==
  ASSUME NEW im \in Image, NEW a \in Nat
  PROVE  Cell(im, a) \in Nat
<1>1. im.base \in Nat /\ im.rom \in Seq(Nat)
  BY SpaceAssumption DEF Image, Addr
<1>2. CASE in_image(im, a)
  <2>1. (a - im.base) + 1 \in 1 .. Len(im.rom)
    BY <1>1, <1>2 DEF in_image
  <2> QED BY <1>1, <1>2, <2>1 DEF Cell
<1>3. CASE ~in_image(im, a)
  BY <1>3 DEF Cell
<1> QED BY <1>2, <1>3

LEMMA InsnType ==
  ASSUME NEW im \in Image, NEW a \in Addr
  PROVE  Insn(InsnAt(im, a), a)
<1>1. a \in Nat /\ a + 1 \in Nat
  BY DEF Addr
<1>2. Cell(im, a) \in Nat /\ Cell(im, a + 1) \in Nat
  BY <1>1, CellType
<1> QED BY <1>2, Decoded DEF InsnAt

LEMMA PointerType ==
  ASSUME NEW im \in Image, NEW a \in Nat
  PROVE  img_rd16(im, a) \in Addr
BY CellType, SpaceRange DEF img_rd16

-----------------------------------------------------------------------------
(* Pushing: what one push takes from a set of worklists to the next of a   *)
(* run of them, all the pushes of an instruction take from the first to    *)
(* the last; and a set that one push does not leave, none leaves.          *)

LEMMA PushRun ==
  ASSUME NEW S, NEW d, NEW ts \in Seq(Addr), NEW R \in [0 .. Len(ts) -> SUBSET S],
         \A y \in S, a \in Addr : push_func(y, a) \in S,
         d \in S, d \in R[0],
         \A k \in 1 .. Len(ts) : \A y \in R[k - 1] : push_func(y, ts[k]) \in R[k]
  PROVE  push_all(d, ts) \in R[Len(ts)]
<1> DEFINE n == Len(ts)
           G == [p \in (1 .. n) \X S |-> push_func(p[2], ts[p[1]])]
           IsAfter(g) == g = [k \in 0 .. n |-> IF k = 0 THEN d ELSE push_func(g[k - 1], ts[k])]
           after == CHOOSE g : IsAfter(g)
<1>1. n \in Nat /\ \A k \in 1 .. n : ts[k] \in Addr
  OBVIOUS
<1>2. \A k \in 1 .. n, y \in S : G[<<k, y>>] = push_func(y, ts[k]) /\ push_func(y, ts[k]) \in S
  BY <1>1
<1>3. push_all(d, ts) = after[n]
  BY DEF push_all
<1>r. \A k \in 1 .. n : \A y \in R[k - 1] : push_func(y, ts[k]) \in R[k]
  OBVIOUS
<1> HIDE DEF n, G
<1>4. PICK g : Over(g, G, d, n) /\ \A k \in 0 .. n : g[k] \in S
  <2>1. \A k \in 1 .. n, y \in S : G[<<k, y>>] \in S
    BY ONLY <1>2
  <2> QED BY ONLY <1>1, <2>1, d \in S, OverExists
<1>5. IsAfter(g)
  <2>1. ASSUME NEW k \in 0 .. n, k # 0 PROVE G[<<k, g[k - 1]>>] = push_func(g[k - 1], ts[k])
    <3>1. k \in 1 .. n /\ k - 1 \in 0 .. n
      BY <2>1, <1>1
    <3> QED BY ONLY <1>2, <1>4, <3>1
  <2> QED BY ONLY <1>4, <2>1 DEF Over
<1>6. IsAfter(after)
  BY <1>5
<1> HIDE DEF after
<1>7. \A k \in 0 .. n : after[k] = IF k = 0 THEN d ELSE push_func(after[k - 1], ts[k])
  BY <1>6
<1> DEFINE T == {k \in Nat : k <= n => after[k] \in R[k]}
<1>8. 0 \in T
  BY <1>1, <1>7
<1>9. ASSUME NEW k \in Nat, k \in T PROVE k + 1 \in T
  <2> SUFFICES ASSUME k + 1 <= n PROVE after[k + 1] \in R[k + 1]
    OBVIOUS
  <2>1. k + 1 \in 0 .. n /\ k + 1 # 0 /\ (k + 1) - 1 = k /\ k + 1 \in 1 .. n
    BY <1>1
  <2>2. after[k + 1] = push_func(after[k], ts[k + 1])
    BY ONLY <1>7, <2>1
  <2>3. after[k] \in R[k]
    BY <1>1, <1>9
  <2> QED BY ONLY <1>r, <2>1, <2>2, <2>3
<1>10. \A k \in Nat : k \in T
  <2> HIDE DEF T
  <2> QED BY ONLY <1>8, <1>9, Induction
<1>11. after[n] \in R[n]
  BY <1>1, <1>10
<1> QED BY <1>3, <1>11 DEF n

LEMMA PushAll ==
  ASSUME NEW S, NEW d \in S, NEW ts \in Seq(Addr),
         \A y \in S, a \in Addr : push_func(y, a) \in S
  PROVE  push_all(d, ts) \in S
<1> PICK n \in Nat : n = Len(ts)
  OBVIOUS
<1> PICK R : R = [k \in 0 .. n |-> S]
  OBVIOUS
<1>1. R \in [0 .. Len(ts) -> SUBSET S] /\ d \in R[0] /\ R[Len(ts)] = S
  OBVIOUS
<1>2. \A k \in 1 .. n : ts[k] \in Addr /\ k \in 0 .. n /\ k - 1 \in 0 .. n
  OBVIOUS
<1>3. \A k \in 1 .. Len(ts) : \A y \in R[k - 1] : push_func(y, ts[k]) \in R[k]
  BY ONLY <1>2, n = Len(ts), R = [k \in 0 .. n |-> S], \A y \in S, a \in Addr : push_func(y, a) \in S
<1>4. push_all(d, ts) \in R[Len(ts)]
  BY ONLY <1>1, <1>3, d \in S, ts \in Seq(Addr), \A y \in S, a \in Addr : push_func(y, a) \in S, PushRun
<1> QED BY <1>1, <1>4

LEMMA TableType ==
  ASSUME image \in Image, NEW base \in Addr
  PROVE  TableTargets(base) \in Seq(Addr)
<1> DEFINE entry(e) == img_rd16(image, base + e)
           valid(e) == entry(e) # 0 /\ in_image(image, entry(e))
           I == 0 .. TableMax - 1
           V == {e \in I : \A k \in 0 .. e : valid(k)}
<1> PICK n : n = Cardinality(V)
  OBVIOUS
<1>1. n \in Nat
  <2>1. 0 \in Int /\ TableMax - 1 \in Int
    BY LimitAssumption
  <2>2. IsFiniteSet(I)
    BY ONLY <2>1, FS_Interval
  <2>3. V \subseteq I
    OBVIOUS
  <2> HIDE DEF V, I
  <2>4. IsFiniteSet(V)
    BY ONLY <2>2, <2>3, FS_Subset
  <2> QED BY ONLY <2>4, FS_CardinalityType, n = Cardinality(V)
<1>2. TableTargets(base) = [e \in 1 .. n |-> img_rd16(image, base + (e - 1))]
  BY DEF TableTargets
<1>3. ASSUME NEW e \in 1 .. n PROVE img_rd16(image, base + (e - 1)) \in Addr
  <2>1. base + (e - 1) \in Nat
    BY <1>1 DEF Addr
  <2> QED BY <2>1, PointerType
<1> QED BY ONLY <1>1, <1>2, <1>3

LEMMA PushesType ==
  ASSUME image \in Image, NEW in, NEW a, Insn(in, a), NEW past \in Addr
  PROVE  Pushes(in, past) \in Seq(Addr)
<1>1. in.target \in Addr /\ in.operand \in Addr /\ in.operand \in Nat
  BY DEF Insn, Addr
<1>2. <<in.target>> \in Seq(Addr) /\ <<>> \in Seq(Addr)
  BY <1>1
<1>3. <<img_rd16(image, in.operand)>> \in Seq(Addr)
  BY <1>1, PointerType
<1>4. TableTargets(in.operand) \in Seq(Addr)
  BY <1>1, TableType
<1> PICK c, m, t, p, j, b :
      /\ c = in.cflow /\ m = in.mode /\ t = <<in.target>> /\ p = <<img_rd16(image, in.operand)>>
      /\ j = TableTargets(in.operand) /\ b = (in.target > past)
  OBVIOUS
<1>5. <<c, m>> \in Kinds
  BY DEF Insn
<1>6. Pushes(in, past) =
        CASE c = "CALL" -> t
          [] c = "JMP" /\ m = "ABS" -> IF b THEN t ELSE <<>>
          [] m = "IND" -> p
          [] m = "IAX" -> j
          [] c \in {"NORMAL", "BRANCH", "RET", "BREAK"} -> <<>>
  BY DEF Pushes
<1>7. t \in Seq(Addr) /\ p \in Seq(Addr) /\ j \in Seq(Addr)
  BY <1>2, <1>3, <1>4
<1>8. Pushes(in, past) \in {t, p, j, <<>>}
  BY ONLY <1>5, <1>6 DEF Kinds
<1> QED BY ONLY <1>2, <1>7, <1>8

-----------------------------------------------------------------------------
(* Sequences as worklists, tables and stacks.                              *)

LEMMA FrontLast ==
  ASSUME NEW S, NEW w \in Seq(S), w # <<>>
  PROVE  /\ Front(w) \in Seq(S) /\ Last(w) \in S
         /\ ToSet(w) = ToSet(Front(w)) \cup {Last(w)}
         /\ IsInjective(w) => IsInjective(Front(w)) /\ Last(w) \notin ToSet(Front(w))
<1> PICK n \in Nat : n = Len(w)
  OBVIOUS
<1>1. n \in 1 .. n /\ w \in [1 .. n -> S]
  <2>1. w \in [1 .. n -> S]
    OBVIOUS
  <2>2. n # 0
    OBVIOUS
  <2> QED BY ONLY <2>1, <2>2, n \in Nat
<1> PICK v : v = Front(w)
  OBVIOUS
<1>2. v \in Seq(S) /\ Len(v) = n - 1 /\ \A k \in 1 .. n - 1 : v[k] = w[k]
  BY <1>1 DEF Front
<1>3. DOMAIN v = 1 .. n - 1 /\ DOMAIN w = 1 .. n
  BY <1>1, <1>2
<1>4. Last(w) = w[n]
  BY DEF Last
<1>5. \A k \in 1 .. n : k = n \/ k \in 1 .. n - 1
  BY ONLY n \in Nat
<1>6. \A k \in 1 .. n - 1 : k \in 1 .. n /\ k # n
  BY ONLY n \in Nat
<1>7. ToSet(w) = ToSet(v) \cup {w[n]}
  BY ONLY <1>1, <1>2, <1>3, <1>5, <1>6 DEF ToSet
<1>8. IsInjective(w) => IsInjective(v) /\ w[n] \notin ToSet(v)
  BY ONLY <1>1, <1>2, <1>3, <1>6 DEF ToSet, IsInjective
<1> QED BY ONLY <1>1, <1>2, <1>4, <1>7, <1>8, v = Front(w)

LEMMA Appended ==
  ASSUME NEW S, NEW w \in Seq(S), NEW x \in S
  PROVE  /\ Append(w, x) \in Seq(S)
         /\ ToSet(Append(w, x)) = ToSet(w) \cup {x}
         /\ IsInjective(w) /\ x \notin ToSet(w) => IsInjective(Append(w, x))
<1> PICK n \in Nat : n = Len(w)
  OBVIOUS
<1> PICK v : v = Append(w, x)
  OBVIOUS
<1>1. v \in Seq(S) /\ Len(v) = n + 1 /\ v[n + 1] = x /\ \A k \in 1 .. n : v[k] = w[k]
  <2>1. v \in Seq(S) /\ Len(v) = n + 1
    OBVIOUS
  <2>2. v[n + 1] = x
    OBVIOUS
  <2>3. \A k \in 1 .. n : v[k] = w[k]
    OBVIOUS
  <2> QED BY ONLY <2>1, <2>2, <2>3
<1>2. DOMAIN v = 1 .. n + 1 /\ DOMAIN w = 1 .. n
  BY <1>1
<1>3. \A k \in 1 .. n + 1 : k = n + 1 \/ k \in 1 .. n
  OBVIOUS
<1>4. n + 1 \in 1 .. n + 1 /\ \A k \in 1 .. n : k \in 1 .. n + 1 /\ k # n + 1
  OBVIOUS
<1>5. ToSet(v) = ToSet(w) \cup {x}
  BY ONLY <1>1, <1>2, <1>3, <1>4 DEF ToSet
<1>6. IsInjective(w) /\ x \notin ToSet(w) => IsInjective(v)
  BY ONLY <1>1, <1>2, <1>3, <1>4 DEF ToSet, IsInjective
<1> QED BY ONLY <1>1, <1>5, <1>6, v = Append(w, x)

-----------------------------------------------------------------------------
(* Every address pushed is in one place.                                   *)

Functions == [start : Addr, end : Addr, labels : SUBSET Addr]
Begun == [start : Addr, labels : SUBSET Addr]
Worklists == [work : Seq(Addr), seen : SUBSET Addr]

Held == IF fn = None THEN {} ELSE {fn.start}
Table == {funcs[k].start : k \in DOMAIN funcs}

(* A worklist, given the functions that have left it.                      *)
Tidy(d, O) ==
  /\ d \in Worklists
  /\ IsInjective(d.work)
  /\ ToSet(d.work) \cap O = {}
  /\ ToSet(d.work) \cup O \subseteq d.seen
  /\ Len(funcs) < MaxFuncs => d.seen \subseteq ToSet(d.work) \cup O

LEMMA PushTidy ==
  ASSUME NEW O, NEW d, Tidy(d, O), NEW a \in Addr
  PROVE  Tidy(push_func(d, a), O)
<1>1. CASE in_image(image, a) /\ a \notin d.seen /\ Len(d.work) < MaxFuncs /\ Len(funcs) < MaxFuncs
  <2> PICK w, sn : w = d.work /\ sn = d.seen
    OBVIOUS
  <2>1. /\ w \in Seq(Addr) /\ sn \subseteq Addr /\ IsInjective(w) /\ ToSet(w) \cap O = {}
        /\ ToSet(w) \cup O \subseteq sn
        /\ (Len(funcs) < MaxFuncs => sn \subseteq ToSet(w) \cup O)
    BY DEF Tidy, Worklists
  <2>2. push_func(d, a) = [work |-> Append(w, a), seen |-> sn \cup {a}]
    BY <1>1 DEF push_func
  <2>3. /\ Append(w, a) \in Seq(Addr) /\ ToSet(Append(w, a)) = ToSet(w) \cup {a}
        /\ (a \notin ToSet(w) => IsInjective(Append(w, a)))
    BY ONLY <2>1, a \in Addr, Appended
  <2>4. a \notin sn
    BY <1>1
  <2> PICK v, q : v = Append(w, a) /\ q = push_func(d, a)
    OBVIOUS
  <2>5. q.work = v /\ q.seen = sn \cup {a} /\ q \in Worklists
    BY ONLY <2>1, <2>2, <2>3, a \in Addr, v = Append(w, a), q = push_func(d, a) DEF Worklists
  <2>6. Tidy(q, O)
    BY ONLY <2>1, <2>3, <2>4, <2>5, v = Append(w, a) DEF Tidy
  <2> QED BY ONLY <2>6, q = push_func(d, a)
<1>2. CASE ~(in_image(image, a) /\ a \notin d.seen /\ Len(d.work) < MaxFuncs /\ Len(funcs) < MaxFuncs)
  BY <1>2 DEF push_func
<1> QED BY <1>1, <1>2

LEMMA PushesTidy ==
  ASSUME NEW O, NEW d, Tidy(d, O), NEW ts \in Seq(Addr)
  PROVE  Tidy(push_all(d, ts), O)
<1> DEFINE S == {y \in Worklists : Tidy(y, O)}
<1>1. d \in S
  BY DEF Tidy
<1>2. \A y \in S, a \in Addr : push_func(y, a) \in S
  <2> TAKE y \in S, a \in Addr
  <2>1. Tidy(push_func(y, a), O)
    BY PushTidy
  <2> QED BY <2>1 DEF Tidy
<1> HIDE DEF S
<1>3. push_all(d, ts) \in S
  BY ONLY <1>1, <1>2, ts \in Seq(Addr), PushAll
<1> QED BY <1>3 DEF S

-----------------------------------------------------------------------------
(* What is emitted for a function.                                         *)

Following1 == [a \in 0 .. Space |-> a + InsnAt(image, a).len]
Ends(f) == {a \in 0 .. Space : a >= f.end \/ Truncated(image, a)}

LEMMA EmittedUp ==
  ASSUME image \in Image, NEW f \in Functions
  PROVE  Upward(Following1, Ends(f), Space)
<1> SUFFICES ASSUME NEW a \in 0 .. Space, a \notin Ends(f)
             PROVE  Following1[a] \in 0 .. Space /\ Following1[a] > a
  BY DEF Upward
<1>1. f.end \in 0 .. Space - 1 /\ Space \in Nat
  BY SpaceAssumption DEF Functions, Addr
<1>2. ~(a >= f.end)
  BY DEF Ends
<1>3. a \in Addr /\ a + 2 <= Space
  BY <1>1, <1>2 DEF Addr
<1>4. InsnAt(image, a).len \in {1, 2}
  BY <1>3, InsnType DEF Insn
<1>5. Following1[a] = a + InsnAt(image, a).len
  BY DEF Following1
<1> QED BY ONLY <1>1, <1>3, <1>4, <1>5, a \in 0 .. Space

LEMMA EmittedWalk ==
  ASSUME image \in Image, NEW f \in Functions
  PROVE  \E g : Walk(g, Following1, Ends(f), Space) /\ Emitted(f) = g[f.start]
<1> DEFINE IsFrom(g) ==
             g = [a \in 0 .. Space |-> IF a >= f.end \/ Truncated(image, a) THEN {}
                                       ELSE {a} \cup g[a + InsnAt(image, a).len]]
           from == CHOOSE g : IsFrom(g)
<1>1. Emitted(f) = from[f.start]
  BY DEF Emitted
<1>2. ASSUME NEW g PROVE IsFrom(g) <=> Walk(g, Following1, Ends(f), Space)
  <2>1. ASSUME NEW a \in 0 .. Space
        PROVE  /\ a \in Ends(f) <=> a >= f.end \/ Truncated(image, a)
               /\ Following1[a] = a + InsnAt(image, a).len
    BY DEF Ends, Following1
  <2>2. [a \in 0 .. Space |-> IF a >= f.end \/ Truncated(image, a) THEN {}
                              ELSE {a} \cup g[a + InsnAt(image, a).len]]
          = [a \in 0 .. Space |-> IF a \in Ends(f) THEN {} ELSE {a} \cup g[Following1[a]]]
    BY ONLY <2>1
  <2> QED BY ONLY <2>2 DEF Walk
<1>3. \E g : Walk(g, Following1, Ends(f), Space)
  <2>1. Upward(Following1, Ends(f), Space) /\ Space \in Nat
    BY EmittedUp, SpaceAssumption
  <2> QED BY ONLY <2>1, WalkExists
<1> HIDE DEF IsFrom
<1>4. IsFrom(from)
  BY <1>2, <1>3
<1> QED BY <1>1, <1>2, <1>4

LEMMA EmittedIn ==
  ASSUME image \in Image, NEW f \in Functions, NEW a \in Emitted(f)
  PROVE  a \in Addr /\ f.start <= a /\ a < f.end /\ ~Truncated(image, a)
<1>1. PICK g : Walk(g, Following1, Ends(f), Space) /\ Emitted(f) = g[f.start]
  BY EmittedWalk
<1> DEFINE P == {b \in 0 .. Space : \A c \in g[b] : c \in 0 .. Space /\ c >= b /\ c \notin Ends(f)}
<1>2. Upward(Following1, Ends(f), Space) /\ Space \in Nat
  BY EmittedUp, SpaceAssumption
<1>3. ASSUME NEW b \in 0 .. Space, b \notin Ends(f) => Following1[b] \in P PROVE b \in P
  <2>1. g[b] = IF b \in Ends(f) THEN {} ELSE {b} \cup g[Following1[b]]
    BY <1>1 DEF Walk
  <2>2. b \notin Ends(f) => Following1[b] > b /\ Following1[b] \in 0 .. Space
    BY <1>2 DEF Upward
  <2> QED BY <1>2, <1>3, <2>1, <2>2
<1> HIDE DEF P
<1>4. \A b \in 0 .. Space : b \in P
  BY ONLY <1>2, <1>3, WalkInduction
<1>5. f.start \in 0 .. Space /\ f.end \in 0 .. Space - 1
  BY <1>2 DEF Functions, Addr
<1>6. a \in 0 .. Space /\ a >= f.start /\ a \notin Ends(f)
  BY <1>1, <1>4, <1>5 DEF P
<1>7. ~(a >= f.end) /\ ~Truncated(image, a)
  BY <1>6 DEF Ends
<1> QED BY ONLY <1>2, <1>5, <1>6, <1>7 DEF Addr

-----------------------------------------------------------------------------
(* The inductive invariant.                                                *)

(* A frame is of a function in the table.                                  *)
Frames(T) == [f : T, at : 0 .. Space]

Typed ==
  /\ image \in Image /\ seeds \in Seq(Addr)
  /\ funcs \in Seq(Functions) /\ ext \subseteq Addr
  /\ fn \in Begun \cup {None}
  /\ {addr, maxt, end} \subseteq Addr
  /\ frames \in Seq(Frames(Table)) /\ lost \in BOOLEAN

Placed ==
  /\ Tidy(Worklist, Held \cup Table)
  /\ \A j, k \in DOMAIN funcs : funcs[j].start = funcs[k].start => j = k
  /\ Held \cap Table = {}
  /\ fn # None => Len(funcs) < MaxFuncs

RInv == Typed /\ Placed

LEMMA TableRange ==
  ASSUME funcs \in Seq(Functions)
  PROVE  Table \subseteq Addr /\ \A k \in DOMAIN funcs : funcs[k] \in Functions
<1>1. ASSUME NEW k \in DOMAIN funcs PROVE funcs[k] \in Functions
  OBVIOUS
<1>2. \A k \in DOMAIN funcs : funcs[k].start \in Addr
  BY <1>1 DEF Functions
<1> QED BY ONLY <1>1, <1>2 DEF Table

LEMMA InvTypes == RInv => TypeOK
<1> SUFFICES ASSUME RInv PROVE TypeOK
  OBVIOUS
<1>1. work \in Seq(Addr) /\ seen \subseteq Addr
  BY DEF RInv, Placed, Tidy, Worklists, Worklist
<1>2. frames \in Seq([f : Addr, at : 0 .. Space])
  <2>1. Table \subseteq Addr
    BY TableRange DEF RInv, Typed
  <2>2. Frames(Table) \subseteq [f : Addr, at : 0 .. Space]
    BY <2>1 DEF Frames
  <2>3. frames \in Seq(Frames(Table))
    BY DEF RInv, Typed
  <2> QED BY ONLY <2>2, <2>3, SeqMonotonic
<1> QED BY <1>1, <1>2 DEF RInv, Typed, TypeOK, Functions, Begun

(* The sequence of the three places, without repetition.                   *)
LEMMA Joined ==
  ASSUME NEW S, NEW u \in Seq(S), NEW v \in Seq(S)
  PROVE  /\ u \o v \in Seq(S) /\ ToSet(u \o v) = ToSet(u) \cup ToSet(v)
         /\ IsInjective(u) /\ IsInjective(v) /\ ToSet(u) \cap ToSet(v) = {} => IsInjective(u \o v)
<1> PICK n \in Nat : n = Len(u)
  OBVIOUS
<1> PICK m \in Nat : m = Len(v)
  OBVIOUS
<1> PICK w : w = u \o v
  OBVIOUS
<1>1. w \in Seq(S)
  OBVIOUS
<1>2. Len(w) = n + m
  OBVIOUS
<1>3. \A k \in 1 .. n : w[k] = u[k]
  OBVIOUS
<1>4. \A k \in 1 .. m : w[n + k] = v[k]
  OBVIOUS
<1>5. DOMAIN w = 1 .. n + m /\ DOMAIN u = 1 .. n /\ DOMAIN v = 1 .. m
  BY <1>1, <1>2
<1>6. \A k \in 1 .. n + m : k \in 1 .. n \/ \E j \in 1 .. m : k = n + j
  <2> TAKE k \in 1 .. n + m
  <2>1. CASE k <= n
    BY <2>1
  <2>2. CASE ~(k <= n)
    <3>1. k - n \in 1 .. m /\ k = n + (k - n)
      BY <2>2
    <3> QED BY <3>1
  <2> QED BY <2>1, <2>2
<1>7. \A k \in 1 .. n : k \in 1 .. n + m
  OBVIOUS
<1>8. \A j \in 1 .. m : n + j \in 1 .. n + m
  OBVIOUS
<1>9. ToSet(w) = ToSet(u) \cup ToSet(v)
  <2>1. \A x : x \in ToSet(u) => x \in ToSet(w)
    BY ONLY <1>3, <1>5, <1>7 DEF ToSet
  <2>2. \A x : x \in ToSet(v) => x \in ToSet(w)
    BY ONLY <1>4, <1>5, <1>8 DEF ToSet
  <2>3. ASSUME NEW k \in 1 .. n + m PROVE w[k] \in ToSet(u) \cup ToSet(v)
    BY ONLY <1>3, <1>4, <1>5, <1>6, k \in 1 .. n + m DEF ToSet
  <2>4. \A x : x \in ToSet(w) => x \in ToSet(u) \cup ToSet(v)
    BY ONLY <1>5, <2>3 DEF ToSet
  <2> QED BY ONLY <2>1, <2>2, <2>4
<1>10. ASSUME IsInjective(u), IsInjective(v), ToSet(u) \cap ToSet(v) = {} PROVE IsInjective(w)
  <2>1. \A j \in 1 .. n, k \in 1 .. n : u[j] = u[k] => j = k
    BY <1>5, <1>10 DEF IsInjective
  <2>2. \A j \in 1 .. m, k \in 1 .. m : v[j] = v[k] => j = k
    BY <1>5, <1>10 DEF IsInjective
  <2>3. \A j \in 1 .. n, k \in 1 .. m : u[j] # v[k]
    BY <1>5, <1>10 DEF ToSet
  <2>4. ASSUME NEW j \in 1 .. n + m, NEW k \in 1 .. n + m, w[j] = w[k] PROVE j = k
    <3>1. CASE j \in 1 .. n /\ k \in 1 .. n
      BY ONLY <1>3, <2>1, <2>4, <3>1
    <3>2. CASE j \in 1 .. n /\ k \notin 1 .. n
      <4>1. PICK p \in 1 .. m : k = n + p
        BY ONLY <1>6, <3>2, k \in 1 .. n + m
      <4>2. w[k] = v[p] /\ w[j] = u[j]
        BY ONLY <1>3, <1>4, <3>2, <4>1
      <4> QED BY ONLY <2>3, <2>4, <3>2, <4>1, <4>2
    <3>3. CASE j \notin 1 .. n /\ k \in 1 .. n
      <4>1. PICK p \in 1 .. m : j = n + p
        BY ONLY <1>6, <3>3, j \in 1 .. n + m
      <4>2. w[j] = v[p] /\ w[k] = u[k]
        BY ONLY <1>3, <1>4, <3>3, <4>1
      <4> QED BY ONLY <2>3, <2>4, <3>3, <4>1, <4>2
    <3>4. CASE j \notin 1 .. n /\ k \notin 1 .. n
      <4>1. PICK p \in 1 .. m : j = n + p
        BY ONLY <1>6, <3>4, j \in 1 .. n + m
      <4>2. PICK q \in 1 .. m : k = n + q
        BY ONLY <1>6, <3>4, k \in 1 .. n + m
      <4>3. v[p] = v[q]
        BY ONLY <1>4, <2>4, <4>1, <4>2
      <4>4. p = q
        BY ONLY <2>2, <4>3, p \in 1 .. m, q \in 1 .. m
      <4> QED BY ONLY <4>1, <4>2, <4>4
    <3> QED BY <3>1, <3>2, <3>3, <3>4
  <2> QED BY ONLY <1>5, <2>4 DEF IsInjective
<1> QED BY ONLY <1>1, <1>9, <1>10, w = u \o v

LEMMA InvOnce == RInv => EachFunctionOnce
<1> SUFFICES ASSUME RInv PROVE EachFunctionOnce
  OBVIOUS
<1> PICK hand, starts : hand = InHand /\ starts = Starts
  OBVIOUS
<1>0. fn \in Begun \cup {None} /\ funcs \in Seq(Functions)
  BY DEF RInv, Typed
<1>1. /\ work \in Seq(Addr) /\ IsInjective(work) /\ ToSet(work) \cap (Held \cup Table) = {}
      /\ ToSet(work) \cup (Held \cup Table) \subseteq seen
      /\ (Len(funcs) < MaxFuncs => seen \subseteq ToSet(work) \cup (Held \cup Table))
  BY DEF RInv, Placed, Tidy, Worklist, Worklists
<1>2. hand \in Seq(Addr) /\ ToSet(hand) = Held /\ IsInjective(hand)
  <2>1. CASE fn = None
    BY <2>1 DEF InHand, Held, ToSet, IsInjective
  <2>2. CASE fn # None
    <3>1. fn.start \in Addr
      BY <1>0, <2>2 DEF Begun
    <3>2. hand = <<fn.start>>
      BY <2>2 DEF InHand
    <3>3. DOMAIN hand = {1} /\ hand[1] = fn.start
      BY <3>2
    <3>4. ToSet(hand) = {fn.start} /\ IsInjective(hand)
      BY ONLY <3>3 DEF ToSet, IsInjective
    <3> QED BY <2>2, <3>1, <3>2, <3>4 DEF Held
  <2> QED BY <2>1, <2>2
<1>3. starts \in Seq(Addr) /\ ToSet(starts) = Table /\ IsInjective(starts)
  <2> PICK n \in Nat : n = Len(funcs)
    BY <1>0
  <2>1. DOMAIN funcs = 1 .. n /\ starts = [k \in 1 .. n |-> funcs[k].start]
    BY <1>0 DEF Starts
  <2>2. \A k \in 1 .. n : funcs[k].start \in Addr
    BY <1>0, <2>1, TableRange DEF Functions
  <2>3. starts \in Seq(Addr)
    BY ONLY <2>1, <2>2, n \in Nat
  <2>4. \A j, k \in 1 .. n : funcs[j].start = funcs[k].start => j = k
    BY <2>1 DEF RInv, Placed
  <2>5. ToSet(starts) = Table
    BY ONLY <2>1 DEF ToSet, Table
  <2>6. IsInjective(starts)
    BY ONLY <2>1, <2>4 DEF IsInjective
  <2> QED BY <2>3, <2>5, <2>6
<1>4. Held \cap Table = {}
  BY DEF RInv, Placed
<1> PICK some : some = work \o hand
  OBVIOUS
<1>5. some \in Seq(Addr) /\ ToSet(some) = ToSet(work) \cup Held /\ IsInjective(some)
  <2>1. ToSet(work) \cap ToSet(hand) = {}
    BY ONLY <1>1, <1>2
  <2> QED BY ONLY <1>1, <1>2, <2>1, some = work \o hand, Joined
<1> PICK all : all = some \o starts
  OBVIOUS
<1>6. ToSet(all) = (ToSet(work) \cup Held) \cup Table /\ IsInjective(all)
  <2>1. ToSet(some) \cap ToSet(starts) = {}
    BY ONLY <1>1, <1>3, <1>4, <1>5
  <2>2. ToSet(all) = ToSet(some) \cup ToSet(starts) /\ IsInjective(all)
    BY ONLY <1>3, <1>5, <2>1, all = some \o starts, Joined
  <2> QED BY ONLY <2>2, <1>3, <1>5
<1>7. work \o InHand \o Starts = all
  OBVIOUS
<1>8. ToSet(all) \subseteq seen /\ (Len(funcs) < MaxFuncs => ToSet(all) = seen)
  BY ONLY <1>1, <1>6
<1> QED BY ONLY <1>6, <1>7, <1>8 DEF EachFunctionOnce

-----------------------------------------------------------------------------
(* Discovery keeps the invariant.                                          *)

LEMMA InitialInv == RInit => RInv
<1> SUFFICES ASSUME RInit PROVE RInv
  OBVIOUS
<1>0. PICK p \in Program :
        /\ image = p.image /\ seeds = p.seeds /\ funcs = <<>> /\ ext = {}
        /\ fn = None /\ addr = 0 /\ maxt = 0 /\ end = 0
        /\ LET d == push_all([work |-> <<>>, seen |-> {}], seeds)
           IN work = d.work /\ seen = d.seen
  BY DEF RInit, Init
<1> PICK d : d = push_all([work |-> <<>>, seen |-> {}], seeds)
  OBVIOUS
<1>1. /\ image = p.image /\ seeds = p.seeds /\ funcs = <<>> /\ ext = {}
      /\ fn = None /\ addr = 0 /\ maxt = 0 /\ end = 0
      /\ d = push_all([work |-> <<>>, seen |-> {}], seeds)
      /\ work = d.work /\ seen = d.seen /\ frames = <<>> /\ lost = FALSE
  BY <1>0 DEF RInit
<1>2. image \in Image /\ seeds \in Seq(Addr)
  BY <1>1, ProgramAssumption
<1>3. Table = {} /\ Held = {} /\ Len(funcs) = 0
  BY <1>1 DEF Table, Held
<1> PICK e : e = [work |-> <<>>, seen |-> {}]
  OBVIOUS
<1>4. Tidy(e, {})
  <2>1. e.work = <<>> /\ e.seen = {} /\ e \in Worklists
    BY DEF Worklists
  <2>2. IsInjective(<<>>) /\ ToSet(<<>>) = {}
    BY DEF IsInjective, ToSet
  <2> QED BY ONLY <2>1, <2>2 DEF Tidy
<1>5. Tidy(d, {})
  BY <1>1, <1>2, <1>4, PushesTidy
<1>6. Worklist = d
  <2>1. d \in Worklists
    BY <1>5 DEF Tidy
  <2> QED BY <1>1, <2>1 DEF Worklist, Worklists
<1>7. Typed
  <2>1. funcs \in Seq(Functions) /\ frames \in Seq(Frames(Table))
    BY ONLY <1>1
  <2>2. addr \in Addr /\ maxt \in Addr /\ end \in Addr
    BY ONLY <1>1, SpaceRange
  <2> QED BY ONLY <1>1, <1>2, <2>1, <2>2 DEF Typed
<1>8. Placed
  <2>1. Held \cup Table = {}
    BY <1>3
  <2> QED BY <1>1, <1>3, <1>5, <1>6, <2>1 DEF Placed
<1> QED BY <1>7, <1>8 DEF RInv

(* Taking a function from the worklist, or dropping one.                   *)
LEMMA TakeKeeps ==
  ASSUME RInv, discover_one, UNCHANGED <<frames, lost>>
  PROVE  RInv'
<1> PICK x, w : x = Last(work) /\ w = Front(work)
  OBVIOUS
<1>1. /\ work \in Seq(Addr) /\ seen \subseteq Addr /\ IsInjective(work) /\ ToSet(work) \cap (Held \cup Table) = {}
      /\ ToSet(work) \cup (Held \cup Table) \subseteq seen
      /\ (Len(funcs) < MaxFuncs => seen \subseteq ToSet(work) \cup (Held \cup Table))
  BY DEF RInv, Placed, Tidy, Worklist, Worklists
<1>2. fn = None /\ work # <<>> /\ work' = w
  BY DEF discover_one
<1>3. UNCHANGED <<image, seeds, seen, funcs, ext, frames, lost>>
  BY DEF discover_one
<1>4. /\ w \in Seq(Addr) /\ x \in Addr /\ ToSet(work) = ToSet(w) \cup {x}
      /\ IsInjective(w) /\ x \notin ToSet(w)
  BY ONLY <1>1, <1>2, x = Last(work), w = Front(work), FrontLast
<1>5. Table' = Table /\ Len(funcs') = Len(funcs) /\ Held = {}
  BY <1>2, <1>3 DEF Table, Held
<1>6. Worklist' = [work |-> w, seen |-> seen]
  BY <1>2, <1>3 DEF Worklist
<1>7. CASE Len(funcs) >= MaxFuncs
  <2>1. UNCHANGED <<fn, addr, maxt, end>>
    BY <1>7 DEF discover_one, walk
  <2>2. Held' = {}
    BY <1>2, <2>1 DEF Held
  <2>3. ~(Len(funcs) < MaxFuncs)
    <3>1. Len(funcs) \in Nat /\ MaxFuncs \in Nat
      BY LimitAssumption DEF RInv, Typed
    <3> QED BY ONLY <1>7, <3>1
  <2>4. Tidy(Worklist, Held \cup Table)'
    <3>1. Worklist'.work = w /\ Worklist'.seen = seen /\ Worklist' \in Worklists'
      BY ONLY <1>1, <1>4, <1>6 DEF Worklists, Addr
    <3> QED BY ONLY <1>1, <1>3, <1>4, <1>5, <2>2, <2>3, <3>1 DEF Tidy
  <2>5. Typed'
    BY ONLY RInv, <1>3, <1>5, <2>1 DEF RInv, Typed, Frames, Addr, Image, Functions, Begun
  <2>6. Placed'
    BY ONLY RInv, <1>2, <1>3, <2>1, <2>2, <2>4 DEF RInv, Placed
  <2> QED BY <2>5, <2>6 DEF RInv
<1>8. CASE ~(Len(funcs) >= MaxFuncs)
  <2>1. fn' = [start |-> x, labels |-> {}] /\ addr' = x /\ maxt' = x /\ end' = x
    BY <1>8 DEF discover_one
  <2>2. fn' \in Begun /\ fn' # None /\ fn'.start = x
    BY <1>4, <2>1, NoneAssumption DEF Begun
  <2>3. Held' = {x}
    BY <2>2 DEF Held
  <2>4. Len(funcs) < MaxFuncs
    <3>1. Len(funcs) \in Nat /\ MaxFuncs \in Nat
      BY LimitAssumption DEF RInv, Typed
    <3> QED BY ONLY <1>8, <3>1
  <2>5. Tidy(Worklist, Held \cup Table)'
    <3>1. Worklist'.work = w /\ Worklist'.seen = seen /\ Worklist' \in Worklists'
      BY ONLY <1>1, <1>4, <1>6 DEF Worklists, Addr
    <3> QED BY ONLY <1>1, <1>3, <1>4, <1>5, <2>3, <3>1 DEF Tidy
  <2>6. Typed'
    BY ONLY RInv, <1>3, <1>4, <1>5, <2>1, <2>2 DEF RInv, Typed, Frames, Addr, Image, Functions, Begun
  <2>7. Placed'
    <3>1. x \notin Table
      BY ONLY <1>1, <1>4
    <3> QED BY ONLY RInv, <1>3, <1>5, <2>3, <2>4, <2>5, <3>1 DEF RInv, Placed
  <2> QED BY <2>6, <2>7 DEF RInv
<1> QED BY <1>7, <1>8

(* A function is closed: it joins the table.                               *)
LEMMA Closed ==
  ASSUME funcs \in Seq(Functions), fn \in Begun, fn.start \notin Table,
         \A j, k \in DOMAIN funcs : funcs[j].start = funcs[k].start => j = k,
         NEW labels \in SUBSET Addr, NEW e \in Addr, Close(labels, e)
  PROVE  /\ funcs' \in Seq(Functions) /\ Len(funcs') = Len(funcs) + 1
         /\ Table' = Table \cup {fn.start}
         /\ \A j, k \in DOMAIN funcs' : funcs'[j].start = funcs'[k].start => j = k
<1> PICK n \in Nat : n = Len(funcs)
  OBVIOUS
<1> PICK x, g, h : x = fn.start /\ g = [start |-> x, end |-> e, labels |-> labels] /\ h = funcs'
  OBVIOUS
<1>1. g \in Functions /\ g.start = x
  <2>1. x \in Addr
    BY DEF Begun
  <2> QED BY ONLY <2>1, e \in Addr, labels \in SUBSET Addr,
                  g = [start |-> x, end |-> e, labels |-> labels] DEF Functions
<1>2. h = Append(funcs, g)
  BY DEF Close
<1>3. h \in Seq(Functions) /\ Len(h) = n + 1
  BY <1>1, <1>2
<1>4. h[n + 1] = g
  BY <1>1, <1>2
<1>5. \A k \in 1 .. n : h[k] = funcs[k]
  BY <1>1, <1>2
<1>6. DOMAIN h = 1 .. n + 1 /\ DOMAIN funcs = 1 .. n
  BY <1>3
<1>7. \A k \in 1 .. n + 1 : k = n + 1 \/ k \in 1 .. n
  OBVIOUS
<1>8. n + 1 \in 1 .. n + 1 /\ \A k \in 1 .. n : k \in 1 .. n + 1 /\ k # n + 1
  OBVIOUS
<1>9. Table = {funcs[k].start : k \in 1 .. n} /\ Table' = {h[k].start : k \in 1 .. n + 1}
  BY <1>6 DEF Table
<1>10. Table' = Table \cup {x}
  BY ONLY <1>1, <1>4, <1>5, <1>7, <1>8, <1>9
<1>11. \A j, k \in 1 .. n + 1 : h[j].start = h[k].start => j = k
  <2>1. \A k \in 1 .. n : funcs[k].start # x
    BY <1>9
  <2>2. \A j, k \in 1 .. n : funcs[j].start = funcs[k].start => j = k
    BY <1>6
  <2> QED BY ONLY <1>1, <1>4, <1>5, <1>7, <2>1, <2>2
<1> QED BY <1>3, <1>6, <1>10, <1>11

(* The part of the invariant that closing a function keeps, once the       *)
(* worklist is that of the step.                                           *)
LEMMA CloseKeeps ==
  ASSUME RInv, fn # None, NEW labels \in SUBSET Addr, NEW e \in Addr, Close(labels, e),
         UNCHANGED <<image, seeds, frames, lost>>, ext' \subseteq Addr,
         NEW d, Tidy(d, Held \cup Table), work' = d.work, seen' = d.seen
  PROVE  RInv'
<1>1. funcs \in Seq(Functions) /\ fn \in Begun
  BY DEF RInv, Typed
<1>2. /\ \A j, k \in DOMAIN funcs : funcs[j].start = funcs[k].start => j = k
      /\ fn.start \notin Table /\ Held = {fn.start} /\ Len(funcs) < MaxFuncs
  BY DEF RInv, Placed, Held
<1>3. /\ funcs' \in Seq(Functions) /\ Len(funcs') = Len(funcs) + 1
      /\ Table' = Table \cup {fn.start}
      /\ \A j, k \in DOMAIN funcs' : funcs'[j].start = funcs'[k].start => j = k
  BY <1>1, <1>2, Closed
<1>4. fn' = None /\ UNCHANGED <<addr, maxt, end>>
  BY DEF Close
<1>5. Held' = {}
  BY <1>4 DEF Held
<1>6. Held' \cup Table' = Held \cup Table
  BY <1>2, <1>3, <1>5
<1>7. Worklist' = d
  BY DEF Tidy, Worklist, Worklists
<1>8. Tidy(Worklist, Held \cup Table)'
  <2>1. Len(funcs') < MaxFuncs => Len(funcs) < MaxFuncs
    BY <1>2
  <2>2. Worklists' = Worklists
    BY DEF Worklists, Addr
  <2>3. Tidy(d, Held \cup Table)
    OBVIOUS
  <2> QED BY ONLY <1>6, <1>7, <2>1, <2>2, <2>3 DEF Tidy
<1>9. frames' \in Seq(Frames(Table'))
  <2>1. Frames(Table) \subseteq Frames(Table')
    BY <1>3 DEF Frames
  <2>2. frames \in Seq(Frames(Table)) /\ frames' = frames
    BY DEF RInv, Typed
  <2> QED BY ONLY <2>1, <2>2, SeqMonotonic
<1>10. Typed'
  <2>1. /\ image' \in Image /\ seeds' \in Seq(Addr) /\ {addr', maxt', end'} \subseteq Addr
        /\ lost' \in BOOLEAN
    BY <1>4 DEF RInv, Typed
  <2>2. Frames(Table)' = Frames(Table')
    BY DEF Frames
  <2>3. fn' \in Begun \cup {None}
    BY <1>4
  <2> QED BY ONLY <1>3, <1>9, <2>1, <2>2, <2>3, ext' \subseteq Addr
          DEF Typed, Addr, Image, Functions, Begun
<1>11. Placed'
  <2>1. Held' \cap Table' = {} /\ fn' = None
    BY <1>4, <1>5
  <2> QED BY ONLY <1>3, <1>8, <2>1 DEF Placed
<1> QED BY <1>10, <1>11 DEF RInv

LEMMA CutShortKeeps ==
  ASSUME RInv, CutShort, UNCHANGED <<frames, lost>>
  PROVE  RInv'
<1>1. fn # None /\ Close(fn.labels, end) /\ UNCHANGED <<image, seeds, work, seen, ext>>
  BY DEF CutShort
<1>2. fn.labels \in SUBSET Addr /\ end \in Addr /\ ext \subseteq Addr
  BY <1>1 DEF RInv, Typed, Begun
<1> PICK d : d = Worklist
  OBVIOUS
<1>3. Tidy(d, Held \cup Table) /\ work' = d.work /\ seen' = d.seen
  BY <1>1 DEF RInv, Placed, Worklist
<1> QED BY <1>1, <1>2, <1>3, CloseKeeps

(* An instruction is decoded.                                              *)
LEMMA DecodeKeeps ==
  ASSUME RInv, decode_insn, UNCHANGED <<frames, lost>>
  PROVE  RInv'
<1> DEFINE in     == InsnAt(image, addr)
           next   == Following(in)
           past   == IF next > end THEN next ELSE end
           target == in.target
           inside == in_image(image, target)
           label  == inside /\ (in.cflow = "BRANCH" \/ (in.cflow = "JMP" /\ target # 0))
           reach  == label /\ (in.cflow = "BRANCH" \/ target <= past) /\ target > maxt
           far    == IF reach THEN target ELSE maxt
           labels == IF label THEN add_label(fn.labels, target) ELSE fn.labels
           d      == push_all(Worklist, Pushes(in, past))
           closes == in.cflow \in {"JMP", "RET", "BREAK"} /\ next > far
           out    == ~inside /\ (in.cflow = "CALL" \/ (in.cflow = "JMP" /\ target # 0))
<1>1. /\ fn # None /\ work' = d.work /\ seen' = d.seen
      /\ IF out THEN add_ext(target) ELSE UNCHANGED ext
      /\ IF closes THEN Close(labels, past)
         ELSE /\ fn' = [fn EXCEPT !.labels = labels]
              /\ addr' = next /\ maxt' = far /\ end' = past /\ UNCHANGED funcs
      /\ UNCHANGED <<image, seeds, frames, lost>>
  BY DEF decode_insn
<1>2. image \in Image /\ addr \in Addr /\ maxt \in Addr /\ end \in Addr /\ ext \subseteq Addr /\ fn \in Begun
  BY <1>1 DEF RInv, Typed
<1>3. Insn(in, addr) /\ target \in Addr
  <2>1. Insn(in, addr)
    BY <1>2, InsnType
  <2> QED BY <2>1 DEF Insn
<1>4. next \in Addr
  <2>1. in.pc + in.len \in Nat
    BY <1>2, <1>3 DEF Insn, Addr
  <2> QED BY <2>1, SpaceRange DEF Following
<1>5. past \in Addr /\ far \in Addr
  BY <1>2, <1>3, <1>4
<1>6. labels \in SUBSET Addr
  BY <1>2, <1>3 DEF add_label, Begun
<1>7. ext' \subseteq Addr
  BY <1>1, <1>2, <1>3 DEF add_ext
<1>8. Tidy(d, Held \cup Table)
  <2>1. Pushes(in, past) \in Seq(Addr)
    BY <1>2, <1>3, <1>5, PushesType
  <2> PICK ts : ts = Pushes(in, past)
    OBVIOUS
  <2>2. Tidy(Worklist, Held \cup Table)
    BY DEF RInv, Placed
  <2>3. Tidy(push_all(Worklist, ts), Held \cup Table)
    BY ONLY <2>1, <2>2, ts = Pushes(in, past), PushesTidy
  <2> QED BY <2>3
<1>9. CASE closes
  <2>1. Close(labels, past)
    BY <1>1, <1>9
  <2> HIDE DEF labels, past, d, in
  <2>2. work' = d.work /\ seen' = d.seen /\ fn # None /\ UNCHANGED <<image, seeds, frames, lost>>
    BY <1>1
  <2> QED BY ONLY RInv, <2>1, <2>2, <1>5, <1>6, <1>7, <1>8, CloseKeeps
<1>10. CASE ~closes
  <2>1. fn' = [fn EXCEPT !.labels = labels] /\ addr' = next /\ maxt' = far /\ end' = past /\ funcs' = funcs
    BY <1>1, <1>10
  <2>2. work' = d.work /\ seen' = d.seen /\ fn # None /\ UNCHANGED <<image, seeds, frames, lost>>
    BY <1>1
  <2> HIDE DEF labels, past, d, in, next, far
  <2>3. fn' \in Begun /\ fn'.start = fn.start
    BY ONLY <1>2, <1>6, <2>1 DEF Begun
  <2>4. fn' # None
    BY <2>3, NoneAssumption DEF Begun
  <2>5. Held' = Held /\ Table' = Table
    BY <2>1, <2>2, <2>3, <2>4 DEF Held, Table
  <2>6. Worklist' = d
    BY <1>8, <2>2 DEF Tidy, Worklist, Worklists
  <2>7. Tidy(Worklist, Held \cup Table)'
    <3>1. Worklists' = Worklists
      BY DEF Worklists, Addr
    <3> QED BY ONLY <1>8, <2>1, <2>5, <2>6, <3>1 DEF Tidy
  <2>8. Typed'
    <3>1. /\ image \in Image /\ seeds \in Seq(Addr) /\ funcs \in Seq(Functions)
          /\ frames \in Seq(Frames(Table)) /\ lost \in BOOLEAN
      BY DEF RInv, Typed
    <3>2. Frames(Table)' = Frames(Table)
      BY <2>5 DEF Frames
    <3>3. addr' \in Addr /\ maxt' \in Addr /\ end' \in Addr
      BY <1>4, <1>5, <2>1
    <3>4. image' \in Image /\ seeds' \in Seq(Addr) /\ funcs' \in Seq(Functions)
      BY <2>1, <2>2, <3>1
    <3>5. frames' \in Seq(Frames(Table)') /\ lost' \in BOOLEAN
      BY <2>2, <3>1, <3>2
    <3> QED BY ONLY <1>7, <2>3, <3>3, <3>4, <3>5 DEF Typed, Addr, Image, Functions, Begun
  <2>9. Placed'
    <3>1. /\ \A j, k \in DOMAIN funcs : funcs[j].start = funcs[k].start => j = k
          /\ Held \cap Table = {} /\ Len(funcs) < MaxFuncs
      BY <2>2 DEF RInv, Placed
    <3> QED BY ONLY <2>1, <2>5, <2>7, <3>1 DEF Placed
  <2> QED BY <2>8, <2>9 DEF RInv
<1> QED BY <1>9, <1>10

-----------------------------------------------------------------------------
(* Execution keeps the invariant: it only moves in the stack.              *)

Stacks == Seq(Frames(Table))
Positions == 0 .. Space

LEMMA FuncAtType ==
  ASSUME funcs \in Seq(Functions), NEW a \in Table
  PROVE  FuncAt(a) \in Functions
<1>1. \E k \in DOMAIN funcs : funcs[k].start = a
  BY DEF Table
<1>2. \A k \in DOMAIN funcs : funcs[k] \in Functions
  BY TableRange
<1> QED BY <1>1, <1>2 DEF FuncAt

LEMMA CallStacks ==
  ASSUME NEW stack \in Stacks, NEW a, lost \in BOOLEAN, funcs \in Seq(Functions),
         lynx_call_addr(stack, a)
  PROVE  frames' \in Stacks /\ lost' \in BOOLEAN
<1>1. CASE is_func(a)
  <2>1. a \in Table /\ Table \subseteq Addr
    BY <1>1, TableRange DEF is_func, Table
  <2>2. Frame(a) \in Frames(Table)
    BY <2>1, SpaceRange DEF Frame, Frames, Addr
  <2>3. frames' = Append(stack, Frame(a)) /\ lost' = lost
    BY <1>1 DEF lynx_call_addr
  <2> QED BY <2>2, <2>3 DEF Stacks
<1>2. CASE ~is_func(a)
  BY <1>2 DEF lynx_call_addr
<1> QED BY <1>1, <1>2

LEMMA MovedStacks ==
  ASSUME frames \in Stacks, frames # <<>>, NEW at \in Positions
  PROVE  Moved(at) \in Stacks
<1> PICK F : F = Frames(Table)
  OBVIOUS
<1>1. Top \in F
  BY FrontLast DEF Stacks, Top
<1> PICK n \in Nat : n = Len(frames)
  BY DEF Stacks
<1>2. [Top EXCEPT !.at = at] \in F
  BY <1>1 DEF Frames, Positions
<1> PICK fr : fr = [Top EXCEPT !.at = at]
  OBVIOUS
<1>3. n \in 1 .. n /\ frames \in [1 .. n -> F]
  <2>1. n # 0
    BY DEF Stacks
  <2> QED BY <2>1 DEF Stacks
<1> PICK h : h = [frames EXCEPT ![n] = fr]
  OBVIOUS
<1>4. h \in [1 .. n -> F]
  BY ONLY <1>2, <1>3, fr = [Top EXCEPT !.at = at], h = [frames EXCEPT ![n] = fr]
<1>5. Moved(at) = h
  BY DEF Moved, ReplaceAt
<1>6. h \in Seq(F)
  BY ONLY <1>4, n \in Nat
<1> QED BY <1>5, <1>6 DEF Stacks

LEMMA RunTypes ==
  ASSUME RInv, RunCode
  PROVE  frames' \in Stacks /\ lost' \in BOOLEAN
<1>1. /\ image \in Image /\ funcs \in Seq(Functions) /\ frames \in Stacks /\ lost \in BOOLEAN
  BY DEF RInv, Typed, Stacks
<1>2. CASE HostCall
  <2>1. <<>> \in Stacks
    BY DEF Stacks
  <2>2. \E a : lynx_call_addr(<<>>, a)
    BY <1>2 DEF HostCall
  <2> QED BY ONLY <1>1, <2>1, <2>2, CallStacks
<1>3. CASE EndOfFunction
  <2>1. frames # <<>> /\ frames' = Front(frames) /\ lost' = (lost \/ Top.at # Gone)
    BY <1>3 DEF EndOfFunction, Running
  <2>2. Front(frames) \in Stacks
    BY <1>1, <2>1, FrontLast DEF Stacks
  <2> QED BY <1>1, <2>1, <2>2
<1>4. CASE Statement
  <2> DEFINE f == FuncAt(Top.f)
             in == TopInsn
             goes == Transfer(f, in) = "goto"
             jump == IF goes THEN frames' = Moved(in.target) /\ UNCHANGED lost
                     ELSE lynx_call_addr(Moved(Gone), in.target)
  <2>1. frames # <<>> /\ Top.at \in Emitted(f)
    BY <1>4 DEF Statement, AtStatement, Running
  <2>2. Top \in Frames(Table)
    BY <1>1, <2>1, FrontLast DEF Stacks, Top
  <2>3. f \in Functions
    BY <1>1, <2>2, FuncAtType DEF Frames
  <2>4. Top.at \in Addr /\ Top.at < f.end
    BY <1>1, <2>1, <2>3, EmittedIn
  <2>5. Insn(in, Top.at)
    BY <1>1, <2>4, InsnType DEF TopInsn
  <2>6. Top.at + in.len \in Positions /\ in.target \in Positions /\ Gone \in Positions
    <3>1. Space \in Nat /\ f.end \in 0 .. Space - 1 /\ Top.at \in 0 .. Space - 1 /\ in.target \in 0 .. Space - 1
      BY <2>3, <2>4, <2>5, SpaceAssumption DEF Functions, Insn, Addr
    <3>2. in.len \in {1, 2}
      BY <2>5 DEF Insn
    <3> QED BY ONLY <2>4, <3>1, <3>2 DEF Positions, Gone
  <2>7. Moved(Gone) \in Stacks /\ Moved(Top.at + in.len) \in Stacks /\ Moved(in.target) \in Stacks
    BY ONLY <1>1, <2>1, <2>6, MovedStacks
  <2>8. Front(frames) \in Stacks
    BY <1>1, <2>1, FrontLast DEF Stacks
  <2>9. \/ frames' \in {Moved(Top.at + in.len), Moved(in.target), Front(frames)} /\ lost' \in {lost, TRUE}
        \/ \E stack \in {Moved(Gone), Moved(Top.at + in.len)} : \E a : lynx_call_addr(stack, a)
    <3>1. \/ frames' = Moved(Top.at + in.len) /\ lost' = lost
          \/ jump
          \/ lynx_call_addr(Moved(Gone), img_rd16(image, in.operand))
          \/ \E x \in 0 .. MaxX : lynx_call_addr(Moved(Gone), img_rd16(image, in.operand + x))
          \/ lynx_call_addr(Moved(Top.at + in.len), in.target)
          \/ frames' = Front(frames) /\ lost' = lost
          \/ frames' = Front(frames) /\ lost' = TRUE
      BY <1>4 DEF Statement
    <3>2. jump => \/ frames' = Moved(in.target) /\ lost' = lost
                  \/ lynx_call_addr(Moved(Gone), in.target)
      OBVIOUS
    <3> HIDE DEF jump, in
    <3> QED BY ONLY <3>1, <3>2
  <2> HIDE DEF in
  <2>10. CASE frames' \in {Moved(Top.at + in.len), Moved(in.target), Front(frames)} /\ lost' \in {lost, TRUE}
    BY ONLY <1>1, <2>7, <2>8, <2>10
  <2>11. CASE \E stack \in {Moved(Gone), Moved(Top.at + in.len)} : \E a : lynx_call_addr(stack, a)
    <3>1. PICK stack \in {Moved(Gone), Moved(Top.at + in.len)} : \E a : lynx_call_addr(stack, a)
      BY ONLY <2>11
    <3>2. PICK a : lynx_call_addr(stack, a)
      BY ONLY <3>1
    <3>3. stack \in Stacks
      BY ONLY <2>7, stack \in {Moved(Gone), Moved(Top.at + in.len)}
    <3> QED BY ONLY <1>1, <3>2, <3>3, CallStacks
  <2> QED BY ONLY <2>9, <2>10, <2>11
<1> QED BY <1>2, <1>3, <1>4 DEF RunCode

LEMMA RunKeeps ==
  ASSUME RInv, RunCode
  PROVE  RInv'
<1>1. frames' \in Stacks /\ lost' \in BOOLEAN
  BY RunTypes
<1>2. UNCHANGED <<image, seeds, work, seen, funcs, ext, fn, addr, maxt, end>>
  BY DEF RunCode, HostCall, EndOfFunction, Statement, discVars
<1>3. Stacks = Seq(Frames(Table)') /\ Held' = Held /\ Table' = Table /\ Worklist' = Worklist
  BY <1>2 DEF Stacks, Frames, Held, Table, Worklist
<1>4. Typed'
  BY ONLY RInv, <1>1, <1>2, <1>3 DEF RInv, Typed, Addr, Image, Functions, Begun
<1>5. Placed'
  <2>1. Worklists' = Worklists
    BY DEF Worklists, Addr
  <2> QED BY ONLY RInv, <1>2, <1>3, <2>1 DEF RInv, Placed, Tidy
<1> QED BY <1>4, <1>5 DEF RInv

LEMMA StutterKeeps ==
  ASSUME RInv, UNCHANGED vars
  PROVE  RInv'
<1>1. UNCHANGED <<image, seeds, work, seen, funcs, ext, fn, addr, maxt, end, frames, lost>>
  BY DEF vars
<1>2. Held' = Held /\ Table' = Table /\ Worklist' = Worklist /\ Frames(Table)' = Frames(Table)
  BY <1>1 DEF Held, Table, Worklist, Frames
<1>3. Typed'
  BY ONLY RInv, <1>1, <1>2 DEF RInv, Typed, Addr, Image, Functions, Begun
<1>4. Placed'
  <2>1. Worklists' = Worklists
    BY DEF Worklists, Addr
  <2> QED BY ONLY RInv, <1>1, <1>2, <2>1 DEF RInv, Placed, Tidy
<1> QED BY <1>3, <1>4 DEF RInv

LEMMA StepKeeps == RInv /\ [RNext]_vars => RInv'
<1> SUFFICES ASSUME RInv, [RNext]_vars PROVE RInv'
  OBVIOUS
<1>1. CASE DiscoverNext /\ UNCHANGED <<frames, lost>>
  BY <1>1, TakeKeeps, DecodeKeeps, CutShortKeeps DEF DiscoverNext
<1>2. CASE RunCode
  BY <1>2, RunKeeps
<1>3. CASE UNCHANGED vars
  BY <1>3, StutterKeeps
<1> QED BY <1>1, <1>2, <1>3 DEF RNext

LEMMA RInvAlways == RSpec => []RInv
BY InitialInv, StepKeeps, PTL DEF RSpec

(* Types, with the cursor of discovery in the address space whatever the   *)
(* code is, and no activation past the end of its function.                *)
THEOREM RecompiledTypeCorrect == RSpec => []TypeOK
BY RInvAlways, InvTypes, PTL

(* However the worklist grows, no address is a function twice, and none    *)
(* that was pushed is forgotten as long as the table has room.             *)
THEOREM FunctionsEmittedOnce == RSpec => []EachFunctionOnce
BY RInvAlways, InvOnce, PTL

-----------------------------------------------------------------------------
(* Every loop has a tick: where control passes without one it goes up, and *)
(* the highest statement of a loop has to be left.                         *)

LEMMA Highest ==
  ASSUME NEW m \in Nat, NEW S \in SUBSET (0 .. m), S # {}
  PROVE  \E a \in S : \A b \in S : b <= a
<1> DEFINE T == {n \in Nat : \A X \in SUBSET (0 .. n) : X # {} => \E a \in X : \A b \in X : b <= a}
<1>1. 0 \in T
  <2> SUFFICES ASSUME NEW X \in SUBSET (0 .. 0), X # {} PROVE \E a \in X : \A b \in X : b <= a
    OBVIOUS
  <2>1. PICK a \in X : TRUE
    OBVIOUS
  <2>2. a = 0 /\ \A b \in X : b = 0
    OBVIOUS
  <2> QED BY <2>2
<1>2. ASSUME NEW n \in Nat, n \in T PROVE n + 1 \in T
  <2> SUFFICES ASSUME NEW X \in SUBSET (0 .. n + 1), X # {} PROVE \E a \in X : \A b \in X : b <= a
    OBVIOUS
  <2>1. CASE n + 1 \in X
    BY <2>1
  <2>2. CASE n + 1 \notin X
    <3>1. X \in SUBSET (0 .. n)
      BY <2>2
    <3> QED BY <1>2, <3>1
  <2> QED BY <2>1, <2>2
<1> HIDE DEF T
<1>3. \A n \in Nat : n \in T
  BY ONLY <1>1, <1>2, Induction
<1> QED BY <1>3 DEF T

LEMMA UntickedUp ==
  ASSUME image \in Image, NEW f \in Functions, NEW a, NEW b, <<a, b>> \in Unticked(f)
  PROVE  a \in Addr /\ b \in Nat /\ b > a
<1> DEFINE at(x) == InsnAt(image, x)
<1>1. \/ \E x \in Emitted(f) : <<a, b>> = <<x, x + at(x).len>>
      \/ \E x \in Emitted(f) : ~tick_if_back(at(x)) /\ <<a, b>> = <<x, at(x).target>>
  BY DEF Unticked
<1>2. ASSUME NEW x \in Emitted(f)
      PROVE  x \in Addr /\ x \in Nat /\ at(x).pc = x /\ at(x).len \in {1, 2} /\ at(x).target \in Nat
  <2>1. x \in Addr
    BY EmittedIn
  <2>2. Insn(at(x), x)
    BY <2>1, InsnType
  <2> QED BY <2>1, <2>2 DEF Insn, Addr
<1>3. CASE \E x \in Emitted(f) : <<a, b>> = <<x, x + at(x).len>>
  BY <1>2, <1>3
<1>4. CASE \E x \in Emitted(f) : ~tick_if_back(at(x)) /\ <<a, b>> = <<x, at(x).target>>
  BY <1>2, <1>4 DEF tick_if_back
<1> QED BY <1>1, <1>3, <1>4

LEMMA LoopsTick ==
  ASSUME image \in Image, NEW f \in Functions, NEW loop \in SUBSET Emitted(f), loop # {}
  PROVE  \E a \in loop : \A b \in loop : <<a, b>> \notin Unticked(f)
<1>1. loop \in SUBSET (0 .. Space - 1) /\ Space - 1 \in Nat
  BY EmittedIn, SpaceAssumption DEF Addr
<1>2. PICK a \in loop : \A b \in loop : b <= a
  BY ONLY <1>1, loop # {}, Highest
<1>3. ASSUME NEW b \in loop, <<a, b>> \in Unticked(f) PROVE FALSE
  <2>1. b \in Nat /\ a \in Addr /\ b > a
    BY <1>3, UntickedUp
  <2> QED BY <1>2, <2>1 DEF Addr
<1> QED BY <1>3

LEMMA InvTicks == RInv => EveryLoopTicks
<1> SUFFICES ASSUME RInv PROVE EveryLoopTicks
  OBVIOUS
<1>1. image \in Image /\ \A k \in DOMAIN funcs : funcs[k] \in Functions
  BY TableRange DEF RInv, Typed
<1>2. \A k \in DOMAIN funcs : \A loop \in (SUBSET Emitted(funcs[k])) \ {{}} :
        \E a \in loop : \A b \in loop : <<a, b>> \notin Unticked(funcs[k])
  <2> TAKE k \in DOMAIN funcs
  <2> TAKE loop \in (SUBSET Emitted(funcs[k])) \ {{}}
  <2> PICK f : f = funcs[k]
    OBVIOUS
  <2>1. f \in Functions
    BY <1>1
  <2>2. loop \in SUBSET Emitted(f) /\ loop # {}
    OBVIOUS
  <2>3. \E a \in loop : \A b \in loop : <<a, b>> \notin Unticked(f)
    BY ONLY <1>1, <2>1, <2>2, LoopsTick
  <2> QED BY <2>3
<1> QED BY <1>2 DEF EveryLoopTicks

(* The emitted code of a function cannot go round without passing a tick,  *)
(* so the host regains control from a game that spins (emit.c,             *)
(* tick_if_back).                                                          *)
THEOREM EveryLoopAlwaysTicks == RSpec => []EveryLoopTicks
BY RInvAlways, InvTicks, PTL

-----------------------------------------------------------------------------
(* Gotos have labels.  The addresses that discovery decoded of a function, *)
(* before it went round the address space, are where emission walks.       *)

(* D is the line of instructions from s up to e.                           *)
Line(im, D, s, e) ==
  /\ D \subseteq Addr
  /\ s \in D \cup {e}
  /\ \A a \in D : /\ a < e /\ in_image(im, a) /\ ~Truncated(im, a)
                  /\ a + InsnAt(im, a).len \in D \cup {e}

(* An instruction whose target is looked for among the labels.             *)
Targets(im, a) == InsnAt(im, a).cflow \in {"BRANCH", "JMP"} /\ in_image(im, InsnAt(im, a).target)

MarkedAt(im, a, labels) ==
  \/ InsnAt(im, a).target \in labels
  \/ InsnAt(im, a).target = 0 /\ InsnAt(im, a).cflow = "JMP"
  \/ Cardinality(labels) = MaxLabels

Marked(im, D, labels) == \A a \in D : Targets(im, a) => MarkedAt(im, a, labels)

Followed(im, s, e, labels) ==
  /\ labels \in SUBSET Addr /\ Cardinality(labels) <= MaxLabels
  /\ \E D : Line(im, D, s, e) /\ Marked(im, D, labels)

Walked ==
  /\ \A k \in DOMAIN funcs : Followed(image, funcs[k].start, funcs[k].end, funcs[k].labels)
  /\ fn # None => Followed(image, fn.start, end, fn.labels) /\ (addr = end \/ addr < fn.start)

BoundaryEnds(f) == {a \in 0 .. Space : a >= f.end}

LEMMA BoundaryUp ==
  ASSUME image \in Image, NEW f \in Functions
  PROVE  Upward(Following1, BoundaryEnds(f), Space)
<1> SUFFICES ASSUME NEW a \in 0 .. Space, a \notin BoundaryEnds(f)
             PROVE  Following1[a] \in 0 .. Space /\ Following1[a] > a
  BY DEF Upward
<1>1. f.end \in 0 .. Space - 1 /\ Space \in Nat
  BY SpaceAssumption DEF Functions, Addr
<1>2. ~(a >= f.end)
  BY DEF BoundaryEnds
<1>3. a \in Addr /\ a + 2 <= Space
  BY <1>1, <1>2 DEF Addr
<1>4. InsnAt(image, a).len \in {1, 2}
  BY <1>3, InsnType DEF Insn
<1>5. Following1[a] = a + InsnAt(image, a).len
  BY DEF Following1
<1> QED BY ONLY <1>1, <1>3, <1>4, <1>5, a \in 0 .. Space

LEMMA BoundaryWalk ==
  ASSUME image \in Image, NEW f \in Functions
  PROVE  \E g : Walk(g, Following1, BoundaryEnds(f), Space) /\ g_boundary(f) = g[f.start]
<1> DEFINE IsFrom(g) ==
             g = [a \in 0 .. Space |-> IF a >= f.end THEN {} ELSE {a} \cup g[a + InsnAt(image, a).len]]
           from == CHOOSE g : IsFrom(g)
<1>1. g_boundary(f) = from[f.start]
  BY DEF g_boundary
<1>2. ASSUME NEW g PROVE IsFrom(g) <=> Walk(g, Following1, BoundaryEnds(f), Space)
  <2>1. ASSUME NEW a \in 0 .. Space
        PROVE  /\ a \in BoundaryEnds(f) <=> a >= f.end
               /\ Following1[a] = a + InsnAt(image, a).len
    BY DEF BoundaryEnds, Following1
  <2>2. [a \in 0 .. Space |-> IF a >= f.end THEN {} ELSE {a} \cup g[a + InsnAt(image, a).len]]
          = [a \in 0 .. Space |-> IF a \in BoundaryEnds(f) THEN {} ELSE {a} \cup g[Following1[a]]]
    BY ONLY <2>1
  <2> QED BY ONLY <2>2 DEF Walk
<1>3. \E g : Walk(g, Following1, BoundaryEnds(f), Space)
  <2>1. Upward(Following1, BoundaryEnds(f), Space) /\ Space \in Nat
    BY BoundaryUp, SpaceAssumption
  <2> QED BY ONLY <2>1, WalkExists
<1> HIDE DEF IsFrom
<1>4. IsFrom(from)
  BY <1>2, <1>3
<1> QED BY <1>1, <1>2, <1>4

(* The pre-pass and the walk that writes the statements meet the same      *)
(* instructions, all of them on the line that discovery decoded.           *)
LEMMA SameWalk ==
  ASSUME image \in Image, NEW f \in Functions, NEW D, Line(image, D, f.start, f.end)
  PROVE  g_boundary(f) = Emitted(f) /\ Emitted(f) \subseteq D
<1>1. PICK g : Walk(g, Following1, Ends(f), Space) /\ Emitted(f) = g[f.start]
  BY EmittedWalk
<1>2. PICK h : Walk(h, Following1, BoundaryEnds(f), Space) /\ g_boundary(f) = h[f.start]
  BY BoundaryWalk
<1>3. Upward(Following1, BoundaryEnds(f), Space) /\ Space \in Nat
  BY BoundaryUp, SpaceAssumption
<1>4. f.end \in 0 .. Space /\ f.start \in 0 .. Space /\ D \subseteq 0 .. Space
  BY <1>3 DEF Functions, Addr, Line
<1> DEFINE P == {b \in 0 .. Space : b \in D \cup {f.end} => g[b] = h[b] /\ g[b] \subseteq D}
<1>5. ASSUME NEW b \in 0 .. Space, b \notin BoundaryEnds(f) => Following1[b] \in P PROVE b \in P
  <2>1. /\ g[b] = IF b \in Ends(f) THEN {} ELSE {b} \cup g[Following1[b]]
        /\ h[b] = IF b \in BoundaryEnds(f) THEN {} ELSE {b} \cup h[Following1[b]]
    BY <1>1, <1>2 DEF Walk
  <2>2. CASE b \in D
    <3>1. b < f.end /\ ~Truncated(image, b) /\ b + InsnAt(image, b).len \in D \cup {f.end}
      BY <2>2 DEF Line
    <3>2. b \notin Ends(f) /\ b \notin BoundaryEnds(f)
      BY <1>4, <3>1 DEF Ends, BoundaryEnds
    <3>3. Following1[b] \in D \cup {f.end}
      BY <3>1 DEF Following1
    <3>4. g[Following1[b]] = h[Following1[b]] /\ g[Following1[b]] \subseteq D
      BY <1>5, <3>2, <3>3
    <3> QED BY ONLY <2>1, <2>2, <3>2, <3>4, b \in 0 .. Space
  <2>3. CASE b = f.end
    <3>1. b \in Ends(f) /\ b \in BoundaryEnds(f)
      BY <1>4, <2>3 DEF Ends, BoundaryEnds
    <3> QED BY ONLY <2>1, <3>1, b \in 0 .. Space
  <2>4. CASE b \notin D \cup {f.end}
    BY <2>4
  <2> QED BY <2>2, <2>3, <2>4
<1> HIDE DEF P
<1>6. \A b \in 0 .. Space : b \in P
  BY ONLY <1>3, <1>5, WalkInduction
<1>7. f.start \in D \cup {f.end}
  BY DEF Line
<1> QED BY <1>1, <1>2, <1>4, <1>6, <1>7 DEF P

LEMMA FunctionLabels ==
  ASSUME image \in Image, NEW f \in Functions, Followed(image, f.start, f.end, f.labels),
         NEW a \in Emitted(f), Goes(f, InsnAt(image, a))
  PROVE  InsnAt(image, a).target \in Emitted(f) /\ MarkedAt(image, a, f.labels)
<1> PICK in : in = InsnAt(image, a)
  OBVIOUS
<1>1. PICK D : Line(image, D, f.start, f.end) /\ Marked(image, D, f.labels)
  BY DEF Followed
<1>2. g_boundary(f) = Emitted(f) /\ Emitted(f) \subseteq D
  BY <1>1, SameWalk
<1>3. in.cflow \in {"BRANCH", "JMP"} /\ Transfer(f, in) = "goto"
  BY DEF Goes
<1>4. in_func_range(f, in.target)
  <2>1. "tail call" # "goto" /\ "lynx_ext_jmp" # "goto"
    OBVIOUS
  <2> QED BY <1>3, <2>1 DEF Transfer
<1>5. in.target \in Emitted(f) /\ in.target \in D
  BY <1>2, <1>4 DEF in_func_range
<1>6. Targets(image, a)
  BY <1>1, <1>3, <1>5 DEF Targets, Line
<1> QED BY <1>1, <1>2, <1>5, <1>6 DEF Marked

LEMMA InvLabels == RInv /\ Walked => GotosHaveLabels
<1> SUFFICES ASSUME RInv, Walked PROVE GotosHaveLabels
  OBVIOUS
<1>1. image \in Image /\ \A k \in DOMAIN funcs : funcs[k] \in Functions
  BY TableRange DEF RInv, Typed
<1>2. \A k \in DOMAIN funcs : \A a \in Emitted(funcs[k]) :
        Goes(funcs[k], InsnAt(image, a)) =>
          InsnAt(image, a).target \in Emitted(funcs[k]) /\ MarkedAt(image, a, funcs[k].labels)
  <2> TAKE k \in DOMAIN funcs
  <2> PICK f : f = funcs[k]
    OBVIOUS
  <2>1. f \in Functions /\ Followed(image, f.start, f.end, f.labels)
    BY <1>1 DEF Walked
  <2>2. \A a \in Emitted(f) :
          Goes(f, InsnAt(image, a)) =>
            InsnAt(image, a).target \in Emitted(f) /\ MarkedAt(image, a, f.labels)
    BY ONLY <1>1, <2>1, FunctionLabels
  <2> QED BY ONLY <2>2, f = funcs[k]
<1> QED BY <1>2 DEF GotosHaveLabels, MarkedAt

(* Discovery keeps it.                                                     *)
LEMMA Turn ==
  ASSUME NEW x \in Addr
  PROVE  (x + Space) % Space = x
<1>1. Space \in Nat \ {0} /\ x \in 0 .. Space - 1 /\ x + Space \in Nat
  BY SpaceAssumption DEF Addr
<1> PICK t : t = x + Space
  OBVIOUS
<1>2. t \div Space \in Nat /\ t % Space \in 0 .. Space - 1 /\ t = (t \div Space) * Space + (t % Space)
  BY ONLY <1>1, t = x + Space, Division
<1> PICK q \in Int, r \in 0 .. Space - 1 : q = t \div Space /\ r = t % Space
  BY <1>2
<1>3. q * Space + r = 1 * Space + x
  <2> PICK y \in Int : y = q * Space
    BY <1>1
  <2>1. t = y + r
    BY <1>2
  <2> QED BY ONLY <1>1, <2>1, t = x + Space, y = q * Space, r \in 0 .. Space - 1, y \in Int
<1>4. r = x
  BY ONLY <1>1, <1>3, q \in Int, r \in 0 .. Space - 1, 1 \in Int, Quotient
<1> QED BY <1>4

(* The cursor: on the line, or round the address space and behind it.      *)
LEMMA Cursor ==
  ASSUME NEW s \in Addr, NEW a \in Addr, NEW e \in Addr, s <= e, a = e \/ a < s,
         ((a + Space) - s) % Space < MaxWalk,
         NEW len \in {1, 2}, NEW next, next = (a + len) % Space,
         NEW past, past = IF next > e THEN next ELSE e
  PROVE  \/ a = e /\ next = a + len /\ past = next
         \/ next < s /\ past = e
<1>1. /\ Space \in Nat /\ MaxWalk \in Nat /\ MaxWalk + 2 <= Space
      /\ s \in 0 .. Space - 1 /\ a \in 0 .. Space - 1 /\ e \in 0 .. Space - 1
  BY SpaceAssumption, LimitAssumption DEF Addr
<1>2. \A x \in 0 .. Space - 1 : x % Space = x /\ (x + Space) % Space = x
  BY SpaceRange, Turn DEF Addr
<1>3. CASE a = e
  <2>1. a - s < MaxWalk
    <3> PICK x \in 0 .. Space - 1 : x = a - s
      BY ONLY <1>1, <1>3, s <= e
    <3>1. (a + Space) - s = x + Space
      BY ONLY <1>1, x = a - s
    <3>2. x < MaxWalk
      BY ONLY <1>2, <3>1, x \in 0 .. Space - 1, ((a + Space) - s) % Space < MaxWalk
    <3> QED BY ONLY <3>2, x = a - s
  <2>2. CASE a + len < Space
    <3>1. a + len \in 0 .. Space - 1
      BY ONLY <1>1, <2>2, len \in {1, 2}
    <3>2. next = a + len
      BY ONLY <1>2, <3>1, next = (a + len) % Space
    <3> QED BY ONLY <1>1, <1>3, <3>2, len \in {1, 2}, past = IF next > e THEN next ELSE e
  <2>3. CASE ~(a + len < Space)
    <3> PICK y \in 0 .. Space - 1 : y = (a + len) - Space
      BY ONLY <1>1, <2>3, len \in {1, 2}
    <3>1. a + len = y + Space
      BY ONLY <1>1, y = (a + len) - Space, len \in {1, 2}
    <3>2. next = y
      BY ONLY <1>2, <3>1, y \in 0 .. Space - 1, next = (a + len) % Space
    <3>3. next < s
      BY ONLY <1>1, <2>1, <3>1, <3>2, len \in {1, 2}, y \in 0 .. Space - 1
    <3> QED BY ONLY <1>1, <3>2, <3>3, y \in 0 .. Space - 1, s <= e, past = IF next > e THEN next ELSE e
  <2> QED BY <2>2, <2>3
<1>4. CASE a < s
  <2> PICK x \in 0 .. Space - 1 : x = (a + Space) - s
    BY ONLY <1>1, <1>4
  <2>1. x < MaxWalk
    BY ONLY <1>2, x \in 0 .. Space - 1, x = (a + Space) - s, ((a + Space) - s) % Space < MaxWalk
  <2>2. a + len < s
    BY ONLY <1>1, <2>1, x = (a + Space) - s, len \in {1, 2}
  <2>3. a + len \in 0 .. Space - 1
    BY ONLY <1>1, <2>2, len \in {1, 2}
  <2>4. next = a + len
    BY ONLY <1>2, <2>3, next = (a + len) % Space
  <2> QED BY ONLY <1>1, <2>2, <2>4, len \in {1, 2}, s <= e, past = IF next > e THEN next ELSE e
<1> QED BY <1>3, <1>4

(* A label is added, or the labels are full and stay as they are.          *)
Grown(old, new) ==
  /\ new \in SUBSET Addr /\ Cardinality(new) <= MaxLabels
  /\ old \subseteq new
  /\ Cardinality(old) = MaxLabels => new = old

LEMMA LabelAdded ==
  ASSUME NEW labels \in SUBSET Addr, Cardinality(labels) <= MaxLabels, NEW t \in Addr
  PROVE  /\ Grown(labels, add_label(labels, t))
         /\ t \in add_label(labels, t) \/ Cardinality(add_label(labels, t)) = MaxLabels
<1>1. IsFiniteSet(labels)
  <2>1. 0 \in Int /\ Space - 1 \in Int
    BY SpaceAssumption
  <2>2. IsFiniteSet(0 .. Space - 1)
    BY ONLY <2>1, FS_Interval
  <2>3. labels \in SUBSET (0 .. Space - 1)
    BY DEF Addr
  <2> QED BY ONLY <2>2, <2>3, FS_Subset
<1> PICK new : new = labels \cup {t}
  OBVIOUS
<1> PICK c : c = Cardinality(labels)
  OBVIOUS
<1>2. c \in Nat /\ Cardinality(new) = IF t \in labels THEN c ELSE c + 1
  BY ONLY <1>1, new = labels \cup {t}, c = Cardinality(labels), FS_AddElement, FS_CardinalityType
<1>3. MaxLabels \in Nat /\ c <= MaxLabels
  BY LimitAssumption
<1>4. CASE c < MaxLabels
  <2>1. add_label(labels, t) = new
    BY <1>4 DEF add_label
  <2>2. Cardinality(new) <= MaxLabels
    BY ONLY <1>2, <1>3, <1>4
  <2>3. new \in SUBSET Addr /\ labels \subseteq new /\ t \in new /\ c # MaxLabels
    BY <1>3, <1>4
  <2> QED BY <2>1, <2>2, <2>3 DEF Grown
<1>5. CASE ~(c < MaxLabels)
  <2>1. add_label(labels, t) = labels
    BY <1>5 DEF add_label
  <2>2. c = MaxLabels
    BY ONLY <1>2, <1>3, <1>5
  <2> QED BY <2>1, <2>2 DEF Grown
<1> QED BY <1>4, <1>5

LEMMA MarkedGrows ==
  ASSUME NEW im, NEW D, NEW old, NEW new, Marked(im, D, old), Grown(old, new)
  PROVE  Marked(im, D, new)
BY DEF Marked, MarkedAt, Grown

LEMMA LineBegins ==
  ASSUME NEW im, NEW D, NEW s \in Addr, NEW e \in Addr, Line(im, D, s, e)
  PROVE  s <= e
<1>1. s \in D => s < e
  BY DEF Line
<1>2. s \in D \/ s = e
  BY DEF Line
<1> QED BY ONLY <1>1, <1>2, s \in Addr, e \in Addr, SpaceAssumption DEF Addr

(* A function is closed with what was decoded of it.                       *)
LEMMA CloseFollows ==
  ASSUME funcs \in Seq(Functions), Walked, fn \in Begun, UNCHANGED image,
         NEW e \in Addr, NEW labels, Followed(image, fn.start, e, labels), Close(labels, e)
  PROVE  Walked'
<1> PICK n \in Nat : n = Len(funcs)
  OBVIOUS
<1> PICK x, g, h, im : x = fn.start /\ g = [start |-> x, end |-> e, labels |-> labels] /\ h = funcs' /\ im = image
  OBVIOUS
<1>1. x \in Addr /\ labels \in SUBSET Addr
  BY DEF Begun, Followed
<1>2. g \in Functions /\ Followed(im, g.start, g.end, g.labels)
  <2>1. g.start = x /\ g.end = e /\ g.labels = labels
    BY ONLY g = [start |-> x, end |-> e, labels |-> labels]
  <2>2. g \in Functions
    BY ONLY <1>1, e \in Addr, g = [start |-> x, end |-> e, labels |-> labels] DEF Functions
  <2> QED BY <2>1, <2>2
<1>3. h = Append(funcs, g)
  BY DEF Close
<1>4. DOMAIN h = 1 .. n + 1 /\ h[n + 1] = g /\ DOMAIN funcs = 1 .. n
  BY <1>2, <1>3
<1>5. \A k \in 1 .. n : h[k] = funcs[k]
  BY <1>2, <1>3
<1>6. \A k \in 1 .. n + 1 : k = n + 1 \/ k \in 1 .. n
  OBVIOUS
<1>7. \A k \in 1 .. n : Followed(im, funcs[k].start, funcs[k].end, funcs[k].labels)
  BY <1>4 DEF Walked
<1>8. \A k \in DOMAIN h : Followed(im, h[k].start, h[k].end, h[k].labels)
  BY ONLY <1>2, <1>4, <1>5, <1>6, <1>7
<1>9. image' = im /\ fn' = None
  BY DEF Close
<1> QED BY ONLY <1>8, <1>9, h = funcs' DEF Walked

LEMMA CutShortFollows ==
  ASSUME RInv, Walked, CutShort
  PROVE  Walked'
<1>1. fn # None /\ Close(fn.labels, end) /\ UNCHANGED image
  BY DEF CutShort
<1>2. fn \in Begun /\ end \in Addr /\ funcs \in Seq(Functions)
  BY <1>1 DEF RInv, Typed
<1>3. Followed(image, fn.start, end, fn.labels)
  BY <1>1 DEF Walked
<1> QED BY <1>1, <1>2, <1>3, CloseFollows

(* Another instruction joins the line.                                     *)
LEMMA LineGrows ==
  ASSUME NEW im, NEW D, NEW s \in Addr, NEW e \in Addr, Line(im, D, s, e),
         in_image(im, e), ~Truncated(im, e), NEW p \in Addr, p = e + InsnAt(im, e).len, e < p
  PROVE  Line(im, D \cup {e}, s, p)
<1> PICK E : E = D \cup {e}
  OBVIOUS
<1>1. E \subseteq Addr /\ s \in E \cup {p}
  BY DEF Line
<1>2. ASSUME NEW a \in E
      PROVE  a < p /\ in_image(im, a) /\ ~Truncated(im, a) /\ a + InsnAt(im, a).len \in E \cup {p}
  <2>1. CASE a \in D
    <3>1. a < e /\ in_image(im, a) /\ ~Truncated(im, a) /\ a + InsnAt(im, a).len \in E
      BY <2>1 DEF Line
    <3>2. a \in Addr
      BY <1>1
    <3>3. a < p
      BY ONLY <3>1, <3>2, e < p, e \in Addr, p \in Addr, SpaceAssumption DEF Addr
    <3> QED BY <3>1, <3>3
  <2>2. CASE a = e
    BY <2>2
  <2> QED BY <2>1, <2>2
<1> QED BY <1>1, <1>2 DEF Line

LEMMA DecodeFollows ==
  ASSUME RInv, Walked, decode_insn
  PROVE  Walked'
<1> DEFINE in     == InsnAt(image, addr)
           next   == Following(in)
           past   == IF next > end THEN next ELSE end
           target == in.target
           inside == in_image(image, target)
           label  == inside /\ (in.cflow = "BRANCH" \/ (in.cflow = "JMP" /\ target # 0))
           reach  == label /\ (in.cflow = "BRANCH" \/ target <= past) /\ target > maxt
           far    == IF reach THEN target ELSE maxt
           labels == IF label THEN add_label(fn.labels, target) ELSE fn.labels
           closes == in.cflow \in {"JMP", "RET", "BREAK"} /\ next > far
<1>1. /\ fn # None /\ InWalk
      /\ IF closes THEN Close(labels, past)
         ELSE /\ fn' = [fn EXCEPT !.labels = labels]
              /\ addr' = next /\ maxt' = far /\ end' = past /\ UNCHANGED funcs
      /\ UNCHANGED image
  BY DEF decode_insn
<1>2. image \in Image /\ addr \in Addr /\ end \in Addr /\ fn \in Begun /\ funcs \in Seq(Functions)
  BY <1>1 DEF RInv, Typed
<1> PICK s, old : s = fn.start /\ old = fn.labels
  OBVIOUS
<1>3. s \in Addr /\ Followed(image, s, end, old) /\ (addr = end \/ addr < s)
  BY <1>1, <1>2 DEF Walked, Begun
<1>4. PICK D : Line(image, D, s, end) /\ Marked(image, D, old)
  BY <1>3 DEF Followed
<1>5. in_image(image, addr) /\ ~Truncated(image, addr) /\ ((addr + Space) - s) % Space < MaxWalk
  <2>1. (addr + Space) - s = addr + Space - s
    BY ONLY <1>2, <1>3, SpaceAssumption DEF Addr
  <2> QED BY <1>1, <2>1 DEF InWalk
<1>6. Insn(in, addr) /\ in.len \in {1, 2} /\ in.pc = addr /\ target \in Addr
  <2>1. Insn(in, addr)
    BY <1>2, InsnType
  <2> QED BY <2>1 DEF Insn
<1>7. next = (addr + in.len) % Space
  BY <1>6 DEF Following
<1>8. next \in Addr /\ past \in Addr
  <2>1. addr + in.len \in Nat
    BY <1>2, <1>6 DEF Addr
  <2>2. next \in Addr
    BY ONLY <1>7, <2>1, SpaceRange
  <2> QED BY <1>2, <2>2
<1>9. Grown(old, labels)
  <2>1. old \in SUBSET Addr /\ Cardinality(old) <= MaxLabels
    BY <1>3 DEF Followed
  <2>2. CASE label
    BY <1>6, <2>1, <2>2, LabelAdded
  <2>3. CASE ~label
    BY <2>1, <2>3 DEF Grown
  <2> QED BY <2>2, <2>3
<1>10. Targets(image, addr) => MarkedAt(image, addr, labels)
  <2>1. CASE label
    <3>1. target \in labels \/ Cardinality(labels) = MaxLabels
      BY <1>3, <1>6, <2>1, LabelAdded DEF Followed
    <3> QED BY <3>1 DEF MarkedAt
  <2>2. CASE ~label
    BY <2>2 DEF Targets, MarkedAt
  <2> QED BY <2>1, <2>2
<1>11. \/ addr = end /\ next = addr + in.len /\ past = next
       \/ next < s /\ past = end
  <2>1. s <= end
    BY <1>2, <1>3, <1>4, LineBegins
  <2> PICK l, n, p : l = in.len /\ n = next /\ p = past
    OBVIOUS
  <2>2. l \in {1, 2} /\ n = (addr + l) % Space /\ p = IF n > end THEN n ELSE end
    BY <1>6, <1>7
  <2>3. \/ addr = end /\ n = addr + l /\ p = n
        \/ n < s /\ p = end
    BY ONLY <1>2, <1>3, <1>5, <2>1, <2>2, Cursor
  <2> QED BY <2>3
<1> HIDE DEF labels, past, next, far
<1>12. Followed(image, s, past, labels)
  <2>0. Marked(image, D, labels)
    BY <1>4, <1>9, MarkedGrows
  <2>1. CASE addr = end /\ next = addr + in.len /\ past = next
    <3>1. end < past
      <4> PICK l, p, a : l = in.len /\ p = past /\ a = addr
        OBVIOUS
      <4>1. p = a + l /\ a = end /\ a \in Addr /\ l \in {1, 2}
        BY <1>2, <1>6, <2>1
      <4>2. a < p
        BY ONLY <4>1, SpaceAssumption DEF Addr
      <4> QED BY <4>1, <4>2
    <3>2. Line(image, D \cup {end}, s, past)
      BY <1>2, <1>3, <1>4, <1>5, <1>8, <2>1, <3>1, LineGrows
    <3>3. Marked(image, D \cup {end}, labels)
      BY <1>10, <2>0, <2>1 DEF Marked
    <3> QED BY <1>9, <3>2, <3>3 DEF Followed, Grown
  <2>2. CASE next < s /\ past = end
    BY <1>4, <1>9, <2>0, <2>2 DEF Followed, Grown
  <2> QED BY <1>11, <2>1, <2>2
<1>13. next = past \/ next < s
  BY <1>11
<1>14. CASE closes
  <2>1. Close(labels, past) /\ image' = image
    BY <1>1, <1>14
  <2> QED BY ONLY Walked, <1>2, <1>8, <1>12, <2>1, s = fn.start, CloseFollows
<1>15. CASE ~closes
  <2>1. /\ fn' = [fn EXCEPT !.labels = labels] /\ addr' = next /\ end' = past
        /\ funcs' = funcs /\ image' = image
    BY <1>1, <1>15
  <2>2. fn'.start = s /\ fn'.labels = labels
    BY <1>2, <2>1 DEF Begun
  <2>3. Followed(image', fn'.start, end', fn'.labels) /\ (addr' = end' \/ addr' < fn'.start)
    BY ONLY <1>12, <1>13, <2>1, <2>2
  <2>4. \A k \in DOMAIN funcs' : Followed(image', funcs'[k].start, funcs'[k].end, funcs'[k].labels)
    BY ONLY Walked, <2>1 DEF Walked
  <2> QED BY ONLY <2>3, <2>4 DEF Walked
<1> QED BY <1>14, <1>15

LEMMA TakeFollows ==
  ASSUME RInv, Walked, discover_one
  PROVE  Walked'
<1>1. fn = None /\ work # <<>> /\ funcs' = funcs /\ image' = image /\ work \in Seq(Addr)
  BY DEF discover_one, RInv, Placed, Tidy, Worklist, Worklists
<1>2. \A k \in DOMAIN funcs' : Followed(image', funcs'[k].start, funcs'[k].end, funcs'[k].labels)
  BY ONLY Walked, <1>1 DEF Walked
<1>3. CASE Len(funcs) >= MaxFuncs
  <2>1. fn' = None
    BY <1>1, <1>3 DEF discover_one, walk
  <2> QED BY ONLY <1>2, <2>1 DEF Walked
<1>4. CASE ~(Len(funcs) >= MaxFuncs)
  <2> PICK x : x = Last(work)
    OBVIOUS
  <2>1. fn' = [start |-> x, labels |-> {}] /\ addr' = x /\ end' = x
    BY <1>4 DEF discover_one
  <2>2. fn'.start = x /\ fn'.labels = {}
    BY ONLY <2>1
  <2>3. Followed(image, x, x, {})
    <3>1. Cardinality({}) = 0 /\ 0 <= MaxLabels
      BY FS_EmptySet, LimitAssumption
    <3>2. Line(image, {}, x, x) /\ Marked(image, {}, {})
      BY DEF Line, Marked
    <3> QED BY <3>1, <3>2 DEF Followed
  <2> QED BY ONLY <1>1, <1>2, <2>1, <2>2, <2>3 DEF Walked
<1> QED BY <1>3, <1>4

LEMMA WalkedStep == RInv /\ Walked /\ [RNext]_vars => Walked'
<1> SUFFICES ASSUME RInv, Walked, [RNext]_vars PROVE Walked'
  OBVIOUS
<1>1. CASE DiscoverNext
  BY <1>1, TakeFollows, DecodeFollows, CutShortFollows DEF DiscoverNext
<1>2. CASE UNCHANGED <<image, funcs, fn, addr, end>>
  BY ONLY Walked, <1>2 DEF Walked
<1>3. RunCode => UNCHANGED <<image, funcs, fn, addr, end>>
  BY DEF RunCode, HostCall, EndOfFunction, Statement, discVars
<1>4. UNCHANGED vars => UNCHANGED <<image, funcs, fn, addr, end>>
  BY DEF vars
<1> QED BY <1>1, <1>2, <1>3, <1>4 DEF RNext

LEMMA WalkedInit == RInit => Walked
<1> SUFFICES ASSUME RInit PROVE Walked
  OBVIOUS
<1>1. funcs = <<>> /\ fn = None
  BY DEF RInit, Init
<1> QED BY <1>1 DEF Walked

(* Whatever the code is, the gotos that emission writes for a function go  *)
(* to statements it writes, under labels it writes, but for the two cases  *)
(* the property names (emit.c, in_func_range and g_boundary; analyze.c,    *)
(* add_label).                                                             *)
THEOREM GotosAlwaysHaveLabels == RSpec => []GotosHaveLabels
<1>1. RInit => RInv /\ Walked
  BY InitialInv, WalkedInit
<1>2. (RInv /\ Walked) /\ [RNext]_vars => (RInv /\ Walked)'
  BY StepKeeps, WalkedStep
<1> QED BY <1>1, <1>2, InvLabels, PTL DEF RSpec

-----------------------------------------------------------------------------
(* Following the processor.  What discovery leads to is reached: it is a   *)
(* function, outside the image, or the table is full.                      *)

NoCode(im, a) == ~in_image(im, a) \/ Truncated(im, a) \/ a + InsnAt(im, a).len >= Space

(* Control that arrives here may be lost.                                  *)
Dead(im, a) == NoCode(im, a) \/ Len(im.rom) > MaxWalk

InTable(im, base, x) ==
  /\ x < TableMax
  /\ \A e \in 0 .. x : img_rd16(im, base + e) # 0 /\ in_image(im, img_rd16(im, base + e))

(* The addresses to which an instruction leaves its function for good or   *)
(* for a call; a branch is left out, it makes no function of its target.   *)
LeadsTo(im, a, t) ==
  \/ InsnAt(im, a).cflow = "CALL" /\ t = InsnAt(im, a).target
  \/ /\ InsnAt(im, a).cflow = "JMP" /\ InsnAt(im, a).mode = "ABS"
     /\ t = InsnAt(im, a).target /\ t > a + InsnAt(im, a).len
  \/ InsnAt(im, a).mode = "IND" /\ t = img_rd16(im, InsnAt(im, a).operand)
  \/ /\ InsnAt(im, a).mode = "IAX"
     /\ \E x \in Nat : InTable(im, InsnAt(im, a).operand, x) /\ t = img_rd16(im, InsnAt(im, a).operand + x)

Leads(im, a) == {t \in Addr : LeadsTo(im, a, t)}

(* Control does not fall out of its lower end.                             *)
Stops(im, a) ==
  /\ InsnAt(im, a).cflow \in {"JMP", "RET", "BREAK"}
  /\ InsnAt(im, a).mode = "ABS" /\ in_image(im, InsnAt(im, a).target) =>
       InsnAt(im, a).target # a + InsnAt(im, a).len

Busy == Len(work) + (IF fn = None THEN 0 ELSE 1) + Len(funcs) >= MaxFuncs
Reached == {t \in Addr : in_image(image, t) => (t \in seen \/ Busy)}

Charted(im, s, e, K) == \E D : Line(im, D, s, e) /\ \A a \in D : Leads(im, a) \subseteq K

Ended(im, s, e) ==
  \/ Dead(im, e)
  \/ \E D : /\ Line(im, D, s, e) /\ s \in D
           /\ \A a \in D : a + InsnAt(im, a).len = e => Stops(im, a)

(* Where an activation may be.                                             *)
Sits(fr) ==
  \/ fr.at = Gone
  \/ fr.at \in Emitted(FuncAt(fr.f))
  \/ fr.at = FuncAt(fr.f).end /\ Dead(image, fr.at)

Seated == {fr \in Frames(Table) : Sits(fr)}

Mapped ==
  /\ \A t \in seen : in_image(image, t)
  /\ ToSet(seeds) \subseteq Reached
  /\ \A k \in DOMAIN funcs : /\ Charted(image, funcs[k].start, funcs[k].end, Reached)
                             /\ Ended(image, funcs[k].start, funcs[k].end)
  /\ fn # None => /\ Charted(image, fn.start, end, Reached)
                  /\ addr = end \/ (addr < fn.start /\ Dead(image, end))
  /\ frames # <<>> => Discovered
  /\ frames \in Seq(Seated)

(* One worklist comes from another by pushing.                             *)
Ahead(d, y) ==
  /\ y \in Worklists
  /\ d.seen \subseteq y.seen /\ Len(d.work) <= Len(y.work)
  /\ \A t \in y.seen : in_image(image, t)

ReachedBy(y, t) == in_image(image, t) => t \in y.seen \/ Len(y.work) + Len(funcs) >= MaxFuncs

LEMMA PushReaches ==
  ASSUME funcs \in Seq(Functions), NEW d \in Worklists, NEW y, Ahead(d, y), NEW a \in Addr,
         NEW z, z = push_func(y, a)
  PROVE  /\ Ahead(d, z) /\ ReachedBy(z, a)
         /\ \A t \in Addr : ReachedBy(y, t) => ReachedBy(z, t)
<1> PICK n \in Nat, M \in Nat : n = Len(funcs) /\ M = MaxFuncs
  BY LimitAssumption
<1> PICK w, sn : w = y.work /\ sn = y.seen
  OBVIOUS
<1>1. w \in Seq(Addr) /\ sn \subseteq Addr /\ d.work \in Seq(Addr)
  BY DEF Ahead, Worklists
<1> PICK l \in Nat, m \in Nat : l = Len(w) /\ m = Len(d.work)
  BY <1>1
<1>2. d.seen \subseteq sn /\ m <= l /\ \A t \in sn : in_image(image, t)
  BY DEF Ahead
<1>3. CASE in_image(image, a) /\ a \notin sn /\ l < M /\ n < M
  <2>1. z = [work |-> Append(w, a), seen |-> sn \cup {a}]
    BY <1>3 DEF push_func
  <2>2. Append(w, a) \in Seq(Addr) /\ Len(Append(w, a)) = l + 1
    BY <1>1
  <2> PICK v : v = Append(w, a)
    OBVIOUS
  <2>3. z.work = v /\ z.seen = sn \cup {a} /\ z \in Worklists /\ Len(z.work) = l + 1
    BY ONLY <1>1, <2>1, <2>2, v = Append(w, a), a \in Addr DEF Worklists
  <2>4. Ahead(d, z)
    <3>1. Len(d.work) <= Len(z.work)
      BY ONLY <1>2, <2>3, m = Len(d.work), l \in Nat, m \in Nat
    <3> QED BY ONLY <1>2, <1>3, <2>3, <3>1 DEF Ahead
  <2>5. \A t \in Addr : ReachedBy(y, t) => ReachedBy(z, t)
    <3>1. l + n >= M => (l + 1) + n >= M
      BY ONLY l \in Nat, n \in Nat, M \in Nat
    <3> QED BY ONLY <2>3, <3>1, w = y.work, sn = y.seen, l = Len(w), n = Len(funcs), M = MaxFuncs DEF ReachedBy
  <2>6. ReachedBy(z, a)
    BY <2>3 DEF ReachedBy
  <2> QED BY <2>4, <2>5, <2>6
<1>4. CASE ~(in_image(image, a) /\ a \notin sn /\ l < M /\ n < M)
  <2>1. z = y
    BY <1>4 DEF push_func
  <2>2. ReachedBy(y, a)
    <3>1. ~(l < M /\ n < M) => l + n >= M
      BY ONLY l \in Nat, n \in Nat, M \in Nat
    <3> QED BY ONLY <1>4, <3>1, w = y.work, sn = y.seen, l = Len(w), n = Len(funcs), M = MaxFuncs DEF ReachedBy
  <2> QED BY <2>1, <2>2
<1> QED BY <1>3, <1>4

LEMMA AllReached ==
  ASSUME funcs \in Seq(Functions), NEW d \in Worklists, \A t \in d.seen : in_image(image, t),
         NEW ts \in Seq(Addr)
  PROVE  /\ Ahead(d, push_all(d, ts))
         /\ \A k \in 1 .. Len(ts) : ReachedBy(push_all(d, ts), ts[k])
<1> PICK n \in Nat : n = Len(ts)
  OBVIOUS
<1> DEFINE S == {y \in Worklists : Ahead(d, y)}
           Upto(k) == {y \in S : \A j \in 1 .. k : ReachedBy(y, ts[j])}
           R == [k \in 0 .. n |-> Upto(k)]
<1>1. \A k \in 1 .. n : ts[k] \in Addr /\ k \in 0 .. n /\ k - 1 \in 0 .. n
  OBVIOUS
<1>2. d \in S
  <2>1. Len(d.work) \in Nat
    BY DEF Worklists
  <2> QED BY <2>1 DEF Ahead
<1>3. \A y \in S, a \in Addr : push_func(y, a) \in S
  <2> TAKE y \in S, a \in Addr
  <2>1. Ahead(d, push_func(y, a))
    BY PushReaches
  <2> QED BY <2>1 DEF Ahead
<1>4. ASSUME NEW k \in 1 .. n, NEW y \in Upto(k - 1) PROVE push_func(y, ts[k]) \in Upto(k)
  <2> PICK z : z = push_func(y, ts[k])
    OBVIOUS
  <2>1. z \in S
    BY <1>1, <1>3
  <2>2. ReachedBy(z, ts[k]) /\ \A t \in Addr : ReachedBy(y, t) => ReachedBy(z, t)
    BY <1>1, PushReaches
  <2>3. ASSUME NEW j \in 1 .. k PROVE ReachedBy(z, ts[j])
    <3>1. j = k \/ j \in 1 .. k - 1
      OBVIOUS
    <3>2. ts[j] \in Addr
      <4>1. j \in 1 .. n
        OBVIOUS
      <4> QED BY ONLY <4>1, <1>1
    <3> QED BY <2>2, <3>1, <3>2
  <2> QED BY <2>1, <2>3
<1>5. d \in Upto(0)
  BY <1>2
<1>6. \A k \in 0 .. n : R[k] = Upto(k) /\ Upto(k) \in SUBSET S
  OBVIOUS
<1> HIDE DEF S, Upto
<1>7. R \in [0 .. n -> SUBSET S]
  BY ONLY <1>6
<1>8. d \in R[0] /\ \A k \in 1 .. n : \A y \in R[k - 1] : push_func(y, ts[k]) \in R[k]
  BY ONLY <1>1, <1>4, <1>5, <1>6, n \in Nat
<1> HIDE DEF R
<1>9. push_all(d, ts) \in R[n]
  BY ONLY <1>2, <1>3, <1>7, <1>8, n = Len(ts), ts \in Seq(Addr), PushRun
<1>10. push_all(d, ts) \in Upto(n)
  BY ONLY <1>6, <1>9, n \in Nat
<1> QED BY ONLY <1>10, n = Len(ts) DEF Upto, S

(* Every entry of a jump table that control can take is pushed.            *)
LEMMA TableComplete ==
  ASSUME image \in Image, NEW base \in Addr, NEW x \in Nat, InTable(image, base, x)
  PROVE  /\ x + 1 \in 1 .. Len(TableTargets(base))
         /\ TableTargets(base)[x + 1] = img_rd16(image, base + x)
<1> DEFINE entry(e) == img_rd16(image, base + e)
           valid(e) == entry(e) # 0 /\ in_image(image, entry(e))
           I == 0 .. TableMax - 1
           V == {e \in I : \A k \in 0 .. e : valid(k)}
<1> PICK n : n = Cardinality(V)
  OBVIOUS
<1>1. TableMax \in Nat /\ x < TableMax /\ \A k \in 0 .. x : valid(k)
  BY LimitAssumption DEF InTable
<1>2. IsFiniteSet(V)
  <2>1. 0 \in Int /\ TableMax - 1 \in Int
    BY <1>1
  <2>2. IsFiniteSet(I)
    BY ONLY <2>1, FS_Interval
  <2>3. V \subseteq I
    OBVIOUS
  <2> HIDE DEF V, I
  <2> QED BY ONLY <2>2, <2>3, FS_Subset
<1>3. 0 .. x \subseteq V
  <2> SUFFICES ASSUME NEW e \in 0 .. x PROVE e \in V
    OBVIOUS
  <2>1. e \in I /\ \A k \in 0 .. e : k \in 0 .. x
    BY <1>1
  <2> HIDE DEF valid
  <2> QED BY <1>1, <2>1
<1> HIDE DEF V
<1>4. n \in Nat /\ x + 1 <= n
  <2>1. Cardinality(0 .. x) = x + 1
    <3>1. 0 \in Int /\ x \in Int /\ ~(0 > x)
      OBVIOUS
    <3>2. Cardinality(0 .. x) = (x - 0) + 1
      BY ONLY <3>1, FS_Interval
    <3> QED BY <3>2
  <2>2. Cardinality(0 .. x) <= Cardinality(V)
    BY ONLY <1>2, <1>3, FS_Subset
  <2>3. n \in Nat
    BY ONLY <1>2, n = Cardinality(V), FS_CardinalityType
  <2> QED BY ONLY <2>1, <2>2, <2>3, n = Cardinality(V)
<1>5. TableTargets(base) = [e \in 1 .. n |-> img_rd16(image, base + (e - 1))]
  BY DEF TableTargets, V
<1>6. x + 1 \in 1 .. n /\ (x + 1) - 1 = x
  BY <1>4
<1> PICK ts : ts = TableTargets(base)
  OBVIOUS
<1>7. ts[x + 1] = img_rd16(image, base + x)
  BY ONLY <1>5, <1>6, ts = TableTargets(base)
<1>8. Len(ts) = n
  BY ONLY <1>4, <1>5, ts = TableTargets(base)
<1> QED BY <1>6, <1>7, <1>8

LEMMA PushesCover ==
  ASSUME image \in Image, NEW a \in Addr, NEW in, in = InsnAt(image, a),
         NEW past, past = a + in.len, NEW t \in Leads(image, a)
  PROVE  \E k \in 1 .. Len(Pushes(in, past)) : Pushes(in, past)[k] = t
<1>1. LeadsTo(image, a, t) /\ Insn(in, a)
  BY InsnType DEF Leads
<1> PICK o \in Addr : o = in.operand
  BY <1>1 DEF Insn
<1> PICK c, m, g : c = in.cflow /\ m = in.mode /\ g = in.target
  OBVIOUS
<1>2. <<c, m>> \in Kinds
  BY <1>1 DEF Insn
<1> PICK ts : ts = Pushes(in, past)
  OBVIOUS
<1> PICK j, b, q : j = TableTargets(o) /\ b = (g > past) /\ q = img_rd16(image, o)
  OBVIOUS
<1>3. ts = CASE c = "CALL" -> <<g>>
             [] c = "JMP" /\ m = "ABS" -> IF b THEN <<g>> ELSE <<>>
             [] m = "IND" -> <<q>>
             [] m = "IAX" -> j
             [] c \in {"NORMAL", "BRANCH", "RET", "BREAK"} -> <<>>
  BY DEF Pushes
<1>4. \/ c = "CALL" /\ t = g
      \/ c = "JMP" /\ m = "ABS" /\ t = g /\ b
      \/ m = "IND" /\ t = q
      \/ m = "IAX" /\ \E x \in Nat : InTable(image, o, x) /\ t = img_rd16(image, o + x)
  BY <1>1 DEF LeadsTo
<1>5. CASE ts = <<t>>
  <2>1. Len(<<t>>) = 1 /\ <<t>>[1] = t
    OBVIOUS
  <2> QED BY <1>5, <2>1
<1>6. CASE m = "IAX" /\ \E x \in Nat : InTable(image, o, x) /\ t = img_rd16(image, o + x)
  <2>1. PICK x \in Nat : InTable(image, o, x) /\ t = img_rd16(image, o + x)
    BY <1>6
  <2>2. c = "JMP" /\ m = "IAX"
    BY ONLY <1>2, <1>6 DEF Kinds
  <2>3. ts = j
    BY ONLY <1>3, <2>2
  <2>4. x + 1 \in 1 .. Len(j) /\ j[x + 1] = t
    BY <2>1, TableComplete
  <2> QED BY <2>3, <2>4
<1>7. CASE c = "CALL" /\ t = g
  <2>0. c = "CALL" /\ m = "ABS"
    BY ONLY <1>2, <1>7 DEF Kinds
  <2>1. ts = <<g>>
    BY ONLY <1>3, <2>0
  <2> QED BY <1>5, <1>7, <2>1
<1>8. CASE c = "JMP" /\ m = "ABS" /\ t = g /\ b
  <2>1. ts = <<g>>
    BY ONLY <1>3, <1>8
  <2> QED BY <1>5, <1>8, <2>1
<1>9. CASE m = "IND" /\ t = q
  <2>1. c = "JMP" /\ m = "IND"
    BY ONLY <1>2, <1>9 DEF Kinds
  <2>2. ts = <<q>>
    BY ONLY <1>3, <2>1
  <2> QED BY <1>5, <1>9, <2>2
<1> QED BY ONLY <1>4, <1>6, <1>7, <1>8, <1>9

(* Discovery keeps the map; what has been reached stays reached.           *)
LEMMA ChartKept ==
  ASSUME NEW im, NEW s, NEW e, NEW K, Charted(im, s, e, K), NEW L, K \subseteq L
  PROVE  Charted(im, s, e, L)
BY DEF Charted

LEMMA ReachedGrows ==
  ASSUME image' = image, seen \subseteq seen', Busy => Busy'
  PROVE  Reached \subseteq Reached'
BY DEF Reached, Addr

(* What every step of discovery but closing a function keeps.              *)
LEMMA TableMapped ==
  ASSUME Mapped, UNCHANGED <<image, seeds, frames, funcs>>, Reached \subseteq Reached'
  PROVE  /\ ToSet(seeds') \subseteq Reached'
         /\ \A k \in DOMAIN funcs' : /\ Charted(image', funcs'[k].start, funcs'[k].end, Reached')
                                     /\ Ended(image', funcs'[k].start, funcs'[k].end)
<1>1. ToSet(seeds) \subseteq Reached
  BY DEF Mapped
<1> PICK K, L : K = Reached /\ L = Reached'
  OBVIOUS
<1>2. \A k \in DOMAIN funcs : /\ Charted(image, funcs[k].start, funcs[k].end, K)
                              /\ Ended(image, funcs[k].start, funcs[k].end)
  BY DEF Mapped
<1>3. K \subseteq L
  OBVIOUS
<1>4. \A k \in DOMAIN funcs : /\ Charted(image, funcs[k].start, funcs[k].end, L)
                              /\ Ended(image, funcs[k].start, funcs[k].end)
  BY ONLY <1>2, <1>3, ChartKept
<1> QED BY ONLY <1>1, <1>3, <1>4, K = Reached, L = Reached', UNCHANGED <<image, seeds, frames, funcs>>

LEMMA TakeMaps ==
  ASSUME RInv, Mapped, discover_one, UNCHANGED <<frames, lost>>
  PROVE  Mapped'
<1>1. fn = None /\ work # <<>> /\ UNCHANGED <<image, seeds, seen, funcs, frames>> /\ work' = Front(work)
  BY DEF discover_one
<1>2. work \in Seq(Addr) /\ Len(funcs) \in Nat /\ MaxFuncs \in Nat
  BY LimitAssumption DEF RInv, Typed, Placed, Tidy, Worklist, Worklists
<1> PICK l \in Nat, n \in Nat, M \in Nat : l = Len(work) /\ n = Len(funcs) /\ M = MaxFuncs
  BY <1>2
<1>3. Len(work') = l - 1 /\ l - 1 \in Nat
  BY <1>1, <1>2 DEF Front
<1>4. frames = <<>> /\ frames' = <<>>
  BY <1>1 DEF Mapped, Discovered
<1>5. Busy => Busy'
  <2>1. CASE n >= M
    <3>1. Len(work') + 0 + n >= M /\ Len(work') + 1 + n >= M
      BY ONLY <1>3, <2>1, l \in Nat, n \in Nat, M \in Nat
    <3>2. Busy' = (Len(work') + (IF fn' = None THEN 0 ELSE 1) + n >= M)
      BY <1>1 DEF Busy
    <3> QED BY ONLY <3>1, <3>2
  <2>2. CASE ~(n >= M)
    <3>1. fn' = [start |-> Last(work), labels |-> {}]
      BY <2>2 DEF discover_one
    <3>2. fn' # None
      <4>1. Last(work) \in Addr
        BY <1>1, <1>2, FrontLast
      <4> QED BY <3>1, <4>1, NoneAssumption
    <3>3. Busy = (l + 0 + n >= M) /\ Busy' = ((l - 1) + 1 + n >= M)
      BY <1>1, <1>3, <3>2 DEF Busy
    <3> QED BY ONLY <3>3, l \in Nat, n \in Nat, M \in Nat
  <2> QED BY <2>1, <2>2
<1>6. Reached \subseteq Reached'
  BY <1>1, <1>5, ReachedGrows
<1>7. /\ ToSet(seeds') \subseteq Reached'
      /\ \A k \in DOMAIN funcs' : /\ Charted(image', funcs'[k].start, funcs'[k].end, Reached')
                                  /\ Ended(image', funcs'[k].start, funcs'[k].end)
  BY <1>1, <1>6, TableMapped
<1>8. fn' # None => Charted(image', fn'.start, end', Reached') /\ addr' = end'
  <2> SUFFICES ASSUME fn' # None PROVE Charted(image', fn'.start, end', Reached') /\ addr' = end'
    OBVIOUS
  <2> PICK x : x = Last(work)
    OBVIOUS
  <2>1. ~(Len(funcs) >= MaxFuncs)
    BY <1>1 DEF discover_one, walk
  <2>2. fn' = [start |-> x, labels |-> {}] /\ addr' = x /\ end' = x
    BY <2>1 DEF discover_one
  <2>3. fn'.start = x
    BY <2>2
  <2>4. Line(image', {}, x, x)
    BY DEF Line
  <2>5. Charted(image', x, x, Reached')
    BY <2>4 DEF Charted
  <2> QED BY ONLY <2>2, <2>3, <2>5
<1>9. \A t \in seen' : in_image(image', t)
  BY <1>1 DEF Mapped
<1>10. frames' \in Seq(Seated')
  BY <1>4
<1> QED BY ONLY <1>4, <1>7, <1>8, <1>9, <1>10 DEF Mapped

(* A function is closed, with what was decoded of it.                      *)
LEMMA CloseMaps ==
  ASSUME RInv, Mapped, fn # None, NEW labels, NEW e \in Addr, Close(labels, e),
         UNCHANGED <<image, seeds, frames>>, seen \subseteq seen', Len(work) <= Len(work'),
         work' \in Seq(Addr), \A t \in seen' : in_image(image, t),
         Charted(image, fn.start, e, Reached'), Ended(image, fn.start, e)
  PROVE  Mapped'
<1>0. Len(funcs) \in Nat /\ Len(work) \in Nat /\ Len(work') \in Nat /\ MaxFuncs \in Nat
  <2>1. funcs \in Seq(Functions) /\ work \in Seq(Addr)
    BY DEF RInv, Typed, Placed, Tidy, Worklist, Worklists
  <2> QED BY <2>1, LimitAssumption
<1> PICK n \in Nat, l \in Nat, m \in Nat, M \in Nat :
      n = Len(funcs) /\ l = Len(work) /\ m = Len(work') /\ M = MaxFuncs
  BY <1>0
<1> PICK x, g, h, im, K : /\ x = fn.start /\ g = [start |-> x, end |-> e, labels |-> labels]
                          /\ h = funcs' /\ im = image /\ K = Reached'
  OBVIOUS
<1>1. h = Append(funcs, g) /\ fn' = None
  BY DEF Close
<1>2. funcs \in Seq(Functions) /\ frames = <<>> /\ frames' = <<>>
  BY DEF Mapped, Discovered, RInv, Typed
<1>3. DOMAIN h = 1 .. n + 1 /\ h[n + 1] = g /\ DOMAIN funcs = 1 .. n /\ Len(h) = n + 1
  BY ONLY <1>1, <1>2, n = Len(funcs), n \in Nat
<1>4. \A k \in 1 .. n : h[k] = funcs[k]
  BY ONLY <1>1, <1>2, n = Len(funcs), n \in Nat
<1>5. \A k \in 1 .. n + 1 : k = n + 1 \/ k \in 1 .. n
  OBVIOUS
<1>6. Busy => Busy'
  <2>1. (Busy <=> l + 1 + n >= M) /\ (Busy' <=> m + 0 + (n + 1) >= M)
    BY <1>1, <1>3 DEF Busy
  <2>2. l <= m
    OBVIOUS
  <2>3. l + 1 + n >= M => m + 0 + (n + 1) >= M
    BY ONLY <2>2, n \in Nat, l \in Nat, m \in Nat, M \in Nat
  <2> QED BY ONLY <2>1, <2>3
<1>7. Reached \subseteq K
  BY <1>6, ReachedGrows
<1>8. \A k \in 1 .. n : Charted(im, funcs[k].start, funcs[k].end, K) /\ Ended(im, funcs[k].start, funcs[k].end)
  <2> PICK L : L = Reached
    OBVIOUS
  <2>1. \A k \in 1 .. n : Charted(im, funcs[k].start, funcs[k].end, L) /\ Ended(im, funcs[k].start, funcs[k].end)
    BY <1>3 DEF Mapped
  <2>2. L \subseteq K
    BY <1>7
  <2> QED BY ONLY <2>1, <2>2, ChartKept
<1>9. Charted(im, g.start, g.end, K) /\ Ended(im, g.start, g.end)
  <2>1. g.start = x /\ g.end = e
    BY ONLY g = [start |-> x, end |-> e, labels |-> labels]
  <2> QED BY <2>1
<1>10. \A k \in DOMAIN h : Charted(im, h[k].start, h[k].end, K) /\ Ended(im, h[k].start, h[k].end)
  BY ONLY <1>3, <1>4, <1>5, <1>8, <1>9
<1>11. ToSet(seeds') \subseteq K /\ \A t \in seen' : in_image(image', t)
  BY <1>7 DEF Mapped
<1>12. image' = im /\ frames' \in Seq(Seated')
  BY <1>2
<1> QED BY ONLY <1>1, <1>2, <1>10, <1>11, <1>12, h = funcs', K = Reached' DEF Mapped

(* A function too long, of one in the image, is in one that is too long.   *)
LEMMA CutShortMaps ==
  ASSUME RInv, Walked, Mapped, CutShort, UNCHANGED <<frames, lost>>
  PROVE  Mapped'
<1>1. fn # None /\ ~InWalk /\ Close(fn.labels, end) /\ UNCHANGED <<image, seeds, work, seen, ext>>
  BY DEF CutShort
<1>2. /\ image \in Image /\ fn \in Begun /\ end \in Addr /\ addr \in Addr /\ funcs \in Seq(Functions)
      /\ work \in Seq(Addr)
  BY <1>1 DEF RInv, Typed, Placed, Tidy, Worklist, Worklists
<1> PICK s \in Addr : s = fn.start
  BY <1>2 DEF Begun
<1>3. Charted(image, s, end, Reached) /\ (addr = end \/ (addr < s /\ Dead(image, end)))
  BY <1>1 DEF Mapped
<1>4. s <= end
  <2>1. PICK D : Line(image, D, s, end)
    BY <1>3 DEF Charted
  <2> QED BY <1>2, <2>1, LineBegins
<1>5. Dead(image, end)
  <2> SUFFICES ASSUME addr = end, in_image(image, end), ~Truncated(image, end) PROVE Dead(image, end)
    BY <1>3 DEF Dead, NoCode
  <2>1. ~((addr + Space - s) % Space < MaxWalk)
    BY <1>1 DEF InWalk
  <2>2. in_image(image, s)
    <3>1. Held = {s}
      BY <1>1 DEF Held
    <3>2. s \in seen
      BY <3>1 DEF RInv, Placed, Tidy, Worklist
    <3> QED BY <3>2 DEF Mapped
  <2> PICK l \in Nat : l = Len(image.rom)
    BY <1>2 DEF Image
  <2> PICK b : b = image.base
    OBVIOUS
  <2>3. b \in Addr /\ s >= b /\ end - b < l
    BY <1>2, <2>2 DEF Image, in_image
  <2>4. Space \in Nat /\ MaxWalk \in Nat /\ s \in 0 .. Space - 1 /\ end \in 0 .. Space - 1 /\ b \in 0 .. Space - 1
    BY <1>2, <2>3, SpaceAssumption, LimitAssumption DEF Addr
  <2> PICK x \in 0 .. Space - 1 : x = end - s
    BY ONLY <1>4, <2>4
  <2>5. addr + Space - s = x + Space
    BY ONLY <2>4, x = end - s, addr = end
  <2>6. (x + Space) % Space = x
    BY Turn DEF Addr
  <2>7. ~(x < MaxWalk)
    BY ONLY <2>1, <2>5, <2>6
  <2>8. l > MaxWalk
    BY ONLY <2>3, <2>4, <2>7, x = end - s, x \in 0 .. Space - 1, l \in Nat
  <2> QED BY <2>8 DEF Dead
<1>6. Len(work) <= Len(work') /\ work' \in Seq(Addr) /\ seen \subseteq seen' /\ UNCHANGED <<image, seeds, frames>>
  BY <1>1, <1>2
<1>7. \A t \in seen' : in_image(image, t)
  BY <1>1 DEF Mapped
<1>8. Charted(image, fn.start, end, Reached')
  <2>1. Busy => Busy'
    <3> PICK n \in Nat, l \in Nat, M \in Nat : n = Len(funcs) /\ l = Len(work) /\ M = MaxFuncs
      BY <1>2, LimitAssumption
    <3>1. Len(funcs') = n + 1 /\ fn' = None
      BY <1>1, <1>2 DEF Close
    <3>2. Busy = (l + 1 + n >= M) /\ Busy' = (l + 0 + (n + 1) >= M)
      BY <1>1, <3>1 DEF Busy
    <3> QED BY ONLY <3>2, n \in Nat, l \in Nat, M \in Nat
  <2>2. Reached \subseteq Reached'
    BY <1>6, <2>1, ReachedGrows
  <2> QED BY <1>3, <2>2, ChartKept
<1>9. Ended(image, fn.start, end)
  BY <1>5 DEF Ended
<1> PICK labels : labels = fn.labels
  OBVIOUS
<1>10. Close(labels, end)
  BY <1>1
<1> QED BY ONLY RInv, Mapped, <1>1, <1>2, <1>6, <1>7, <1>8, <1>9, <1>10, CloseMaps

(* An instruction that ends the line at p.                                 *)
LEMMA LineEnds ==
  ASSUME NEW im, NEW D, NEW s \in Addr, NEW e \in Addr, Line(im, D, s, e),
         in_image(im, e), ~Truncated(im, e), NEW p \in Addr, p = e + InsnAt(im, e).len, e < p,
         Stops(im, e)
  PROVE  Ended(im, s, p)
<1> PICK E : E = D \cup {e}
  OBVIOUS
<1>1. Line(im, E, s, p)
  BY LineGrows
<1>2. s \in E
  BY DEF Line
<1>3. ASSUME NEW a \in E, a + InsnAt(im, a).len = p PROVE Stops(im, a)
  <2>1. CASE a = e
    BY <2>1
  <2>2. CASE a \in D
    <3>1. p \in D \cup {e}
      BY <1>3, <2>2 DEF Line
    <3>2. p \in D => p < e
      BY DEF Line
    <3> QED BY ONLY <3>1, <3>2, e < p, e \in Addr, p \in Addr, SpaceAssumption DEF Addr
  <2> QED BY <2>1, <2>2
<1> QED BY ONLY <1>1, <1>2, <1>3 DEF Ended

LEMMA DecodeMaps ==
  ASSUME RInv, Walked, Mapped, decode_insn, UNCHANGED <<frames, lost>>
  PROVE  Mapped'
<1> DEFINE in     == InsnAt(image, addr)
           next   == Following(in)
           past   == IF next > end THEN next ELSE end
           target == in.target
           inside == in_image(image, target)
           label  == inside /\ (in.cflow = "BRANCH" \/ (in.cflow = "JMP" /\ target # 0))
           reach  == label /\ (in.cflow = "BRANCH" \/ target <= past) /\ target > maxt
           far    == IF reach THEN target ELSE maxt
           labels == IF label THEN add_label(fn.labels, target) ELSE fn.labels
           d      == push_all(Worklist, Pushes(in, past))
           closes == in.cflow \in {"JMP", "RET", "BREAK"} /\ next > far
<1>1. /\ fn # None /\ InWalk /\ work' = d.work /\ seen' = d.seen
      /\ IF closes THEN Close(labels, past)
         ELSE /\ fn' = [fn EXCEPT !.labels = labels]
              /\ addr' = next /\ maxt' = far /\ end' = past /\ UNCHANGED funcs
      /\ UNCHANGED <<image, seeds, frames>>
  BY DEF decode_insn
<1>2. /\ image \in Image /\ addr \in Addr /\ end \in Addr /\ maxt \in Addr /\ fn \in Begun
      /\ funcs \in Seq(Functions)
  BY <1>1 DEF RInv, Typed
<1> PICK s \in Addr : s = fn.start
  BY <1>2 DEF Begun
<1>3. /\ Charted(image, s, end, Reached) /\ (addr = end \/ (addr < s /\ Dead(image, end)))
      /\ \A t \in seen : in_image(image, t)
  BY <1>1 DEF Mapped
<1>4. PICK D : Line(image, D, s, end) /\ \A a \in D : Leads(image, a) \subseteq Reached
  BY <1>3 DEF Charted
<1>5. in_image(image, addr) /\ ~Truncated(image, addr) /\ ((addr + Space) - s) % Space < MaxWalk
  <2>1. (addr + Space) - s = addr + Space - s
    BY ONLY <1>2, s \in Addr, SpaceAssumption DEF Addr
  <2> QED BY <1>1, <2>1 DEF InWalk
<1>6. Insn(in, addr) /\ in.len \in {1, 2} /\ in.pc = addr /\ target \in Addr
  <2>1. Insn(in, addr)
    BY <1>2, InsnType
  <2> QED BY <2>1 DEF Insn
<1>7. next = (addr + in.len) % Space
  BY <1>6 DEF Following
<1>8. next \in Addr /\ past \in Addr
  <2>1. addr + in.len \in Nat
    BY <1>2, <1>6 DEF Addr
  <2>2. next \in Addr
    BY ONLY <1>7, <2>1, SpaceRange
  <2> QED BY <1>2, <2>2
<1>9. \/ addr = end /\ next = addr + in.len /\ past = next
      \/ next < s /\ past = end
  <2>1. s <= end
    BY <1>2, <1>4, LineBegins
  <2> PICK l, n, p : l = in.len /\ n = next /\ p = past
    OBVIOUS
  <2>2. l \in {1, 2} /\ n = (addr + l) % Space /\ p = IF n > end THEN n ELSE end
    BY <1>6, <1>7
  <2>3. \/ addr = end /\ n = addr + l /\ p = n
        \/ n < s /\ p = end
    BY ONLY <1>2, <1>3, <1>5, <2>1, <2>2, s \in Addr, Cursor
  <2> QED BY <2>3
(* Round the address space there was no code that could follow.            *)
<1>10. next < s /\ past = end => Dead(image, end)
  <2> SUFFICES ASSUME next < s, addr = end PROVE Dead(image, end)
    BY <1>3
  <2>1. s <= end
    BY <1>2, <1>4, LineBegins
  <2> PICK l \in {1, 2} : l = in.len
    BY <1>6
  <2> PICK n : n = next
    OBVIOUS
  <2>2. n = (addr + l) % Space /\ n < s
    BY <1>7
  <2>3. ~(end + l < Space)
    <3> SUFFICES ASSUME end + l < Space PROVE FALSE
      OBVIOUS
    <3>1. /\ Space \in Nat /\ end \in 0 .. Space - 1 /\ s \in 0 .. Space - 1
      BY <1>2, SpaceAssumption DEF Addr
    <3>2. end + l \in Addr
      BY ONLY <3>1, end + l < Space, l \in {1, 2} DEF Addr
    <3>3. n = end + l
      BY ONLY <2>2, <3>2, addr = end, SpaceRange
    <3> QED BY ONLY <2>1, <2>2, <3>1, <3>3, l \in {1, 2}
  <2>4. end + l >= Space
    BY ONLY <1>2, <2>3, l \in {1, 2}, SpaceAssumption DEF Addr
  <2>5. l = InsnAt(image, end).len
    OBVIOUS
  <2> QED BY ONLY <2>4, <2>5 DEF Dead, NoCode
(* The pushes.                                                             *)
<1>11. /\ Ahead(Worklist, d)
       /\ \A k \in 1 .. Len(Pushes(in, past)) : ReachedBy(d, Pushes(in, past)[k])
  <2> PICK ts, w : ts = Pushes(in, past) /\ w = Worklist
    OBVIOUS
  <2>1. ts \in Seq(Addr)
    BY <1>2, <1>6, <1>8, PushesType
  <2>2. w \in Worklists /\ \A t \in w.seen : in_image(image, t)
    BY <1>3 DEF RInv, Placed, Tidy, Worklist
  <2>3. Ahead(w, push_all(w, ts)) /\ \A k \in 1 .. Len(ts) : ReachedBy(push_all(w, ts), ts[k])
    BY ONLY <1>2, <2>1, <2>2, AllReached
  <2> QED BY <2>3
<1>12. /\ work' \in Seq(Addr) /\ seen \subseteq seen' /\ Len(work) <= Len(work')
       /\ \A t \in seen' : in_image(image, t)
  BY <1>1, <1>11 DEF Ahead, Worklist, Worklists
<1>13. work \in Seq(Addr) /\ Len(work) \in Nat /\ Len(work') \in Nat /\ Len(funcs) \in Nat /\ MaxFuncs \in Nat
  <2>1. work \in Seq(Addr)
    BY DEF RInv, Placed, Tidy, Worklist, Worklists
  <2> QED BY <1>2, <1>12, <2>1, LimitAssumption
<1> PICK l \in Nat, m \in Nat, n \in Nat, M \in Nat :
      l = Len(work) /\ m = Len(work') /\ n = Len(funcs) /\ M = MaxFuncs
  BY <1>13
<1>14. Busy' <=> m + 1 + n >= M
  <2>1. CASE closes
    <3>1. Len(funcs') = n + 1 /\ fn' = None
      BY <1>1, <1>2, <2>1 DEF Close
    <3>2. Busy' <=> m + 0 + (n + 1) >= M
      BY ONLY <3>1, m = Len(work'), M = MaxFuncs DEF Busy
    <3> QED BY ONLY <3>2, m \in Nat, n \in Nat, M \in Nat
  <2>2. CASE ~closes
    <3>1. funcs' = funcs /\ fn' = [fn EXCEPT !.labels = labels]
      BY <1>1, <2>2
    <3>2. labels \in SUBSET Addr
      BY <1>2, <1>6 DEF add_label, Begun
    <3> HIDE DEF labels
    <3>3. fn' \in Begun
      BY ONLY <1>2, <3>1, <3>2 DEF Begun
    <3>4. fn' # None
      BY <3>3, NoneAssumption DEF Begun
    <3> QED BY ONLY <3>1, <3>4, m = Len(work'), n = Len(funcs), M = MaxFuncs DEF Busy
  <2> QED BY <2>1, <2>2
<1>15. Busy => Busy'
  <2>1. Busy => l + 1 + n >= M
    BY <1>1 DEF Busy
  <2>2. l <= m
    BY <1>12
  <2>3. l + 1 + n >= M => m + 1 + n >= M
    BY ONLY <2>2, l \in Nat, m \in Nat, n \in Nat, M \in Nat
  <2> QED BY ONLY <1>14, <2>1, <2>3
<1>16. Reached \subseteq Reached'
  BY <1>1, <1>12, <1>15, ReachedGrows
<1>17. \A t \in Addr : ReachedBy(d, t) => t \in Reached'
  <2> TAKE t \in Addr
  <2>1. ReachedBy(d, t) => (in_image(image, t) => (t \in seen' \/ m + n >= M))
    BY <1>1 DEF ReachedBy
  <2>2. m + n >= M => m + 1 + n >= M
    BY ONLY m \in Nat, n \in Nat, M \in Nat
  <2>3. image' = image
    BY <1>1
  <2> QED BY ONLY <1>14, <2>1, <2>2, <2>3, t \in Addr DEF Reached, Addr
<1>18. past = addr + in.len => Leads(image, addr) \subseteq Reached'
  <2> SUFFICES ASSUME past = addr + in.len, NEW t \in Leads(image, addr) PROVE t \in Reached'
    OBVIOUS
  <2> PICK p, i, ts : p = past /\ i = in /\ ts = Pushes(in, past)
    OBVIOUS
  <2>1. i = InsnAt(image, addr) /\ p = addr + i.len /\ ts = Pushes(i, p)
    OBVIOUS
  <2>2. PICK j \in 1 .. Len(ts) : ts[j] = t
    BY ONLY <1>2, <2>1, t \in Leads(image, addr), PushesCover
  <2>3. ReachedBy(d, t)
    BY <1>11, <2>2
  <2>4. t \in Addr
    BY DEF Leads
  <2> QED BY ONLY <1>17, <2>3, <2>4
<1>19. Charted(image, s, past, Reached')
  <2> PICK K, p : K = Reached' /\ p = past
    OBVIOUS
  <2>1. \A a \in D : Leads(image, a) \subseteq K
    BY <1>4, <1>16
  <2>2. CASE addr = end /\ next = addr + in.len /\ past = next
    <3>1. p = end + InsnAt(image, end).len /\ p \in Addr /\ InsnAt(image, end).len \in {1, 2}
      BY <1>6, <1>8, <2>2
    <3>2. end < p
      BY ONLY <1>2, <3>1, SpaceAssumption DEF Addr
    <3>3. Line(image, D \cup {end}, s, p)
      BY <1>2, <1>4, <1>5, <2>2, <3>1, <3>2, LineGrows
    <3>4. Leads(image, end) \subseteq K
      BY <1>18, <2>2
    <3>5. Charted(image, s, p, K)
      BY ONLY <2>1, <3>3, <3>4 DEF Charted
    <3> QED BY <3>5
  <2>3. CASE next < s /\ past = end
    <3>1. Charted(image, s, end, K)
      BY ONLY <1>4, <2>1 DEF Charted
    <3> QED BY <2>3, <3>1
  <2> QED BY <1>9, <2>2, <2>3
<1>20. CASE closes
  <2>1. Close(labels, past) /\ UNCHANGED <<image, seeds, frames>> /\ fn # None
    BY <1>1, <1>20
  <2>2. Ended(image, s, past)
    <3>1. CASE next < s /\ past = end
      BY <1>10, <3>1 DEF Ended
    <3>2. CASE addr = end /\ next = addr + in.len /\ past = next
      <4> PICK p, i : p = past /\ i = in
        OBVIOUS
      <4>1. /\ p = end + i.len /\ p \in Addr /\ i.len \in {1, 2} /\ i = InsnAt(image, end)
            /\ i.cflow \in {"JMP", "RET", "BREAK"} /\ i.target \in Addr
            /\ in_image(image, end) /\ ~Truncated(image, end)
        BY <1>5, <1>6, <1>8, <1>20, <3>2
      <4>2. end < p
        BY ONLY <1>2, <4>1, SpaceAssumption DEF Addr
      <4>3. ASSUME i.mode = "ABS", in_image(image, i.target) PROVE i.target # p
        <5> SUFFICES ASSUME i.target = p PROVE FALSE
          OBVIOUS
        <5>1. i.cflow = "JMP"
          <6> PICK c, o : c = i.cflow /\ o = i.mode
            OBVIOUS
          <6>1. <<c, o>> \in Kinds /\ o = "ABS" /\ c \in {"JMP", "RET", "BREAK"}
            BY <1>6, <4>1, <4>3 DEF Insn
          <6>2. c = "JMP"
            BY ONLY <6>1 DEF Kinds
          <6> QED BY <6>2
        <5>2. p # 0 /\ p <= p
          BY ONLY <1>2, <4>1, <4>2, SpaceAssumption DEF Addr
        <5>3. label
          BY <4>3, <5>1, <5>2
        <5>4. far = IF p > maxt THEN p ELSE maxt
          BY <5>2, <5>3
        <5>5. p > far
          BY <1>20, <3>2
        <5> PICK f : f = far
          OBVIOUS
        <5>6. f = (IF p > maxt THEN p ELSE maxt) /\ p > f
          BY <5>4, <5>5
        <5> QED BY ONLY <1>2, <4>1, <5>6, SpaceAssumption DEF Addr
      <4>4. Stops(image, end)
        BY ONLY <4>1, <4>3 DEF Stops
      <4>5. Ended(image, s, p)
        BY ONLY <1>2, <1>4, <4>1, <4>2, <4>4, s \in Addr, LineEnds
      <4> QED BY <4>5
    <3> QED BY <1>9, <3>1, <3>2
  <2> PICK e, ls : e = past /\ ls = labels
    OBVIOUS
  <2>3. /\ e \in Addr /\ Close(ls, e) /\ Charted(image, fn.start, e, Reached') /\ Ended(image, fn.start, e)
    BY <1>8, <1>19, <2>1, <2>2
  <2> QED BY ONLY RInv, Mapped, <1>12, <2>1, <2>3, CloseMaps
<1>21. CASE ~closes
  <2>1. fn' = [fn EXCEPT !.labels = labels] /\ addr' = next /\ end' = past /\ UNCHANGED <<image, seeds, frames, funcs>>
    BY <1>1, <1>21
  <2>2. fn'.start = s
    BY <1>2, <2>1 DEF Begun
  <2>3. /\ ToSet(seeds') \subseteq Reached'
        /\ \A k \in DOMAIN funcs' : /\ Charted(image', funcs'[k].start, funcs'[k].end, Reached')
                                    /\ Ended(image', funcs'[k].start, funcs'[k].end)
    BY ONLY Mapped, <1>16, <2>1, TableMapped
  <2>4. addr' = end' \/ (addr' < fn'.start /\ Dead(image', end'))
    BY <1>9, <1>10, <2>1, <2>2
  <2>5. Charted(image', fn'.start, end', Reached')
    BY <1>19, <2>1, <2>2
  <2>6. frames' = <<>> /\ \A t \in seen' : in_image(image', t)
    BY <1>1, <1>12 DEF Mapped, Discovered
  <2>7. frames' \in Seq(Seated')
    BY <2>6
  <2> QED BY ONLY <2>3, <2>4, <2>5, <2>6, <2>7 DEF Mapped
<1> QED BY <1>20, <1>21

-----------------------------------------------------------------------------
(* Execution follows the processor.                                        *)

(* The positions of a stack, as they are collected.                        *)
Collects(g, stack) ==
  /\ g \in [0 .. Len(stack) -> Seq(Addr)]
  /\ g[0] = <<>>
  /\ \A k \in 1 .. Len(stack) :
       g[k] = IF stack[k].at = Gone THEN g[k - 1] ELSE Append(g[k - 1], stack[k].at)

LEMMA Position ==
  ASSUME NEW T, NEW fr \in Frames(T), fr.at # Gone
  PROVE  fr.at \in Addr
BY SpaceAssumption DEF Frames, Gone, Addr

LEMMA LiveRun ==
  ASSUME NEW T, NEW stack \in Seq(Frames(T))
  PROVE  \E g : Collects(g, stack) /\ Live(stack) = g[Len(stack)]
<1> PICK n \in Nat : n = Len(stack)
  OBVIOUS
<1> PICK S, z : S = Seq(Addr) /\ z = <<>>
  OBVIOUS
<1> DEFINE next(k, l) == IF stack[k].at = Gone THEN l ELSE Append(l, stack[k].at)
           G == [p \in (1 .. n) \X S |-> next(p[1], p[2])]
           IsUpto(g) == g = [k \in 0 .. n |-> IF k = 0 THEN <<>>
                                              ELSE IF stack[k].at = Gone THEN g[k - 1]
                                              ELSE Append(g[k - 1], stack[k].at)]
           upto == CHOOSE g : IsUpto(g)
<1>1. Live(stack) = upto[n]
  BY DEF Live
<1>2. ASSUME NEW k \in 1 .. n, NEW l \in S PROVE G[<<k, l>>] = next(k, l) /\ next(k, l) \in S
  <2>1. stack[k] \in Frames(T)
    OBVIOUS
  <2>2. stack[k].at # Gone => stack[k].at \in Addr
    BY <2>1, Position
  <2> QED BY <2>2
<1>3. z \in S
  OBVIOUS
<1> HIDE DEF next, G
<1>4. PICK g : Over(g, G, z, n) /\ \A k \in 0 .. n : g[k] \in S
  <2>1. \A k \in 1 .. n, l \in S : G[<<k, l>>] \in S
    BY ONLY <1>2
  <2> QED BY ONLY <1>3, <2>1, n \in Nat, OverExists
<1>5. IsUpto(g)
  <2>1. ASSUME NEW k \in 0 .. n, k # 0 PROVE G[<<k, g[k - 1]>>] = next(k, g[k - 1])
    <3>1. k \in 1 .. n /\ k - 1 \in 0 .. n
      BY <2>1
    <3> QED BY ONLY <1>2, <1>4, <3>1
  <2>2. g = [k \in 0 .. n |-> IF k = 0 THEN z ELSE next(k, g[k - 1])]
    BY ONLY <1>4, <2>1 DEF Over
  <2> QED BY ONLY <2>2, z = <<>> DEF next
<1>6. IsUpto(upto)
  BY <1>5
<1>u. \A h : IsUpto(h) => h = g
  <2> TAKE h
  <2> HAVE IsUpto(h)
  <2>h. h = [k \in 0 .. n |-> IF k = 0 THEN z ELSE next(k, h[k - 1])]
    BY z = <<>> DEF next
  <2>g. g = [k \in 0 .. n |-> IF k = 0 THEN z ELSE next(k, g[k - 1])]
    BY <1>5, z = <<>> DEF next
  <2> HIDE DEF IsUpto
  <2> DEFINE E == {k \in Nat : k <= n => h[k] = g[k]}
  <2>1. 0 \in E
    BY ONLY <2>h, <2>g, n \in Nat
  <2>2. ASSUME NEW k \in Nat, k \in E PROVE k + 1 \in E
    <3> SUFFICES ASSUME k + 1 <= n PROVE h[k + 1] = g[k + 1]
      OBVIOUS
    <3>1. k + 1 \in 0 .. n /\ k + 1 # 0 /\ (k + 1) - 1 = k /\ k <= n
      OBVIOUS
    <3>2. h[k] = g[k]
      BY <2>2, <3>1
    <3> QED BY ONLY <2>h, <2>g, <3>1, <3>2
  <2>3. \A k \in Nat : k \in E
    <3> HIDE DEF E
    <3> QED BY ONLY <2>1, <2>2, Induction
  <2>4. \A k \in 0 .. n : h[k] = g[k]
    BY ONLY <2>3, n \in Nat
  <2>5. h = [k \in 0 .. n |-> h[k]] /\ g = [k \in 0 .. n |-> g[k]]
    BY ONLY <2>h, <2>g
  <2> QED BY ONLY <2>4, <2>5
<1>7. upto = g
  BY <1>6, <1>u
<1>8. Collects(g, stack)
  <2>1. g = [k \in 0 .. n |-> IF k = 0 THEN <<>> ELSE IF stack[k].at = Gone THEN g[k - 1]
                                                      ELSE Append(g[k - 1], stack[k].at)]
    BY <1>5
  <2>2. g \in [0 .. n -> Seq(Addr)]
    BY ONLY <1>4, <2>1, S = Seq(Addr)
  <2>3. 0 \in 0 .. n /\ \A k \in 1 .. n : k \in 0 .. n /\ k # 0
    OBVIOUS
  <2>4. g[0] = <<>> /\ \A k \in 1 .. n : g[k] = IF stack[k].at = Gone THEN g[k - 1]
                                                ELSE Append(g[k - 1], stack[k].at)
    BY ONLY <2>1, <2>3
  <2> QED BY ONLY <2>2, <2>4, n = Len(stack) DEF Collects
<1> HIDE DEF upto
<1> QED BY <1>1, <1>7, <1>8

LEMMA LiveNone == Live(<<>>) = <<>>
<1>1. <<>> \in Seq(Frames(Table)) /\ Len(<<>>) = 0
  OBVIOUS
<1>2. PICK g : Collects(g, <<>>) /\ Live(<<>>) = g[0]
  BY ONLY <1>1, LiveRun
<1> QED BY <1>2 DEF Collects

LEMMA LiveType ==
  ASSUME NEW T, NEW stack \in Seq(Frames(T))
  PROVE  Live(stack) \in Seq(Addr)
<1> PICK n \in Nat : n = Len(stack)
  OBVIOUS
<1>1. PICK g : Collects(g, stack) /\ Live(stack) = g[n]
  BY LiveRun
<1> QED BY <1>1 DEF Collects

(* Another activation on the stack.                                        *)
LEMMA LiveAppend ==
  ASSUME NEW T, NEW stack \in Seq(Frames(T)), NEW fr \in Frames(T)
  PROVE  Live(Append(stack, fr)) = IF fr.at = Gone THEN Live(stack) ELSE Append(Live(stack), fr.at)
<1> PICK n \in Nat : n = Len(stack)
  OBVIOUS
<1> PICK t : t = Append(stack, fr)
  OBVIOUS
<1>1. t \in Seq(Frames(T)) /\ Len(t) = n + 1 /\ t[n + 1] = fr
  OBVIOUS
<1>2. \A k \in 1 .. n : t[k] = stack[k]
  OBVIOUS
<1>3. PICK g : Collects(g, stack) /\ Live(stack) = g[n]
  BY LiveRun
<1>4. PICK h : Collects(h, t) /\ Live(t) = h[n + 1]
  BY <1>1, LiveRun
<1>5. /\ g[0] = <<>> /\ h[0] = <<>>
      /\ \A k \in 1 .. n : g[k] = IF stack[k].at = Gone THEN g[k - 1] ELSE Append(g[k - 1], stack[k].at)
      /\ \A k \in 1 .. n + 1 : h[k] = IF t[k].at = Gone THEN h[k - 1] ELSE Append(h[k - 1], t[k].at)
  BY <1>1, <1>3, <1>4 DEF Collects
<1> DEFINE E == {k \in Nat : k <= n => h[k] = g[k]}
<1>6. 0 \in E
  BY <1>5
<1>7. ASSUME NEW k \in Nat, k \in E PROVE k + 1 \in E
  <2> SUFFICES ASSUME k + 1 <= n PROVE h[k + 1] = g[k + 1]
    OBVIOUS
  <2>1. k + 1 \in 1 .. n /\ k + 1 \in 1 .. n + 1 /\ (k + 1) - 1 = k /\ k <= n
    OBVIOUS
  <2>2. h[k] = g[k] /\ t[k + 1] = stack[k + 1]
    BY <1>2, <1>7, <2>1
  <2> QED BY ONLY <1>5, <2>1, <2>2
<1>8. \A k \in Nat : k \in E
  <2> HIDE DEF E
  <2> QED BY ONLY <1>6, <1>7, Induction
<1>9. h[n] = g[n]
  BY <1>8
<1>10. n + 1 \in 1 .. n + 1 /\ (n + 1) - 1 = n
  OBVIOUS
<1>11. h[n + 1] = IF fr.at = Gone THEN h[n] ELSE Append(h[n], fr.at)
  BY ONLY <1>1, <1>5, <1>10
<1> QED BY <1>3, <1>4, <1>9, <1>11

(* From statement to statement of a function, to its end.                  *)
LEMMA EmittedNext ==
  ASSUME image \in Image, NEW f \in Functions, NEW D, Line(image, D, f.start, f.end)
  PROVE  /\ f.start \in Emitted(f) \cup {f.end}
         /\ \A a \in Emitted(f) : a + InsnAt(image, a).len \in Emitted(f) \cup {f.end}
<1>1. PICK g : Walk(g, Following1, Ends(f), Space) /\ Emitted(f) = g[f.start]
  BY EmittedWalk
<1>2. Upward(Following1, Ends(f), Space) /\ Space \in Nat
  BY EmittedUp, SpaceAssumption
<1>3. f.end \in 0 .. Space /\ f.start \in 0 .. Space /\ D \subseteq 0 .. Space
  BY <1>2 DEF Functions, Addr, Line
<1> DEFINE P == {b \in 0 .. Space : b \in D \cup {f.end} =>
                   /\ b \in g[b] \cup {f.end}
                   /\ \A c \in g[b] : c + InsnAt(image, c).len \in g[b] \cup {f.end}}
<1>4. ASSUME NEW b \in 0 .. Space, b \notin Ends(f) => Following1[b] \in P PROVE b \in P
  <2>1. g[b] = IF b \in Ends(f) THEN {} ELSE {b} \cup g[Following1[b]]
    BY <1>1 DEF Walk
  <2>2. CASE b \in D
    <3>1. b < f.end /\ ~Truncated(image, b) /\ b + InsnAt(image, b).len \in D \cup {f.end}
      BY <2>2 DEF Line
    <3>2. b \notin Ends(f)
      BY <1>3, <3>1 DEF Ends
    <3> PICK c : c = Following1[b]
      OBVIOUS
    <3>3. c = b + InsnAt(image, b).len /\ c \in D \cup {f.end}
      BY <3>1 DEF Following1
    <3>4. c \in g[c] \cup {f.end} /\ \A x \in g[c] : x + InsnAt(image, x).len \in g[c] \cup {f.end}
      BY <1>4, <3>2, <3>3
    <3>5. g[b] = {b} \cup g[c]
      BY <2>1, <3>2
    <3> QED BY ONLY <3>3, <3>4, <3>5, b \in 0 .. Space
  <2>3. CASE b = f.end
    <3>1. b \in Ends(f)
      BY <1>3, <2>3 DEF Ends
    <3> QED BY ONLY <2>1, <2>3, <3>1, b \in 0 .. Space
  <2>4. CASE b \notin D \cup {f.end}
    BY <2>4
  <2> QED BY <2>2, <2>3, <2>4
<1> HIDE DEF P
<1>5. \A b \in 0 .. Space : b \in P
  BY ONLY <1>2, <1>4, WalkInduction
<1>6. f.start \in D \cup {f.end}
  BY DEF Line
<1> QED BY <1>1, <1>3, <1>5, <1>6 DEF P

(* The function of an activation, and where it goes on.                    *)
LEMMA FunctionOf ==
  ASSUME RInv, Mapped, NEW a \in Table, NEW f, f = FuncAt(a)
  PROVE  /\ f \in Functions /\ f.start = a
         /\ Charted(image, a, f.end, Reached) /\ Ended(image, a, f.end)
<1>1. \E k \in DOMAIN funcs : funcs[k].start = a
  BY DEF Table
<1>2. PICK k \in DOMAIN funcs : f = funcs[k] /\ f.start = a
  BY <1>1 DEF FuncAt
<1>3. f \in Functions
  BY <1>2, TableRange DEF RInv, Typed
<1>4. Charted(image, f.start, f.end, Reached) /\ Ended(image, f.start, f.end)
  BY <1>2 DEF Mapped
<1> QED BY <1>2, <1>3, <1>4

LEMMA GoesOn ==
  ASSUME RInv, Mapped, NEW a \in Table, NEW f, f = FuncAt(a), NEW x \in Emitted(f),
         NEW n, n = x + InsnAt(image, x).len
  PROVE  /\ x \in Addr /\ in_image(image, x) /\ ~Truncated(image, x) /\ n \in Addr
         /\ Leads(image, x) \subseteq Reached
         /\ n \in Emitted(f) \/ (n = f.end /\ (Dead(image, f.end) \/ Stops(image, x)))
<1>1. image \in Image
  BY DEF RInv, Typed
<1>2. /\ f \in Functions /\ f.start = a
      /\ Charted(image, a, f.end, Reached) /\ Ended(image, a, f.end)
  BY FunctionOf
<1>3. PICK D : Line(image, D, f.start, f.end) /\ \A b \in D : Leads(image, b) \subseteq Reached
  BY <1>2 DEF Charted
<1>4. Emitted(f) \subseteq D
  BY <1>1, <1>2, <1>3, SameWalk
<1>5. x \in Addr /\ in_image(image, x) /\ ~Truncated(image, x) /\ Leads(image, x) \subseteq Reached
  BY <1>3, <1>4 DEF Line
<1>6. n \in Emitted(f) \cup {f.end}
  BY <1>1, <1>2, <1>3, EmittedNext
<1>7. n \in Addr
  BY <1>2, <1>3, <1>4, <1>6 DEF Functions, Line
<1>8. CASE n = f.end /\ ~Dead(image, f.end)
  <2>1. PICK E : /\ Line(image, E, f.start, f.end)
                 /\ \A b \in E : b + InsnAt(image, b).len = f.end => Stops(image, b)
    BY <1>2, <1>8 DEF Ended
  <2>2. Emitted(f) \subseteq E
    BY <1>1, <1>2, <2>1, SameWalk
  <2>3. Stops(image, x)
    BY <1>8, <2>1, <2>2
  <2> QED BY <1>5, <1>6, <1>7, <2>3
<1> QED BY <1>5, <1>6, <1>7, <1>8

LEMMA Begins ==
  ASSUME RInv, Mapped, NEW a \in Table
  PROVE  Frame(a) \in Seated /\ a \in Addr /\ a # Gone
<1> PICK f : f = FuncAt(a)
  OBVIOUS
<1>1. image \in Image /\ funcs \in Seq(Functions)
  BY DEF RInv, Typed
<1>2. f \in Functions /\ f.start = a /\ Charted(image, a, f.end, Reached) /\ Ended(image, a, f.end)
  BY FunctionOf
<1>3. a \in Addr /\ a \in 0 .. Space /\ a # Gone
  BY <1>2, SpaceAssumption DEF Functions, Addr, Gone
<1>4. a \in Emitted(f) \/ (a = f.end /\ Dead(image, a))
  <2>1. PICK D : Line(image, D, f.start, f.end)
    BY <1>2 DEF Charted
  <2>2. a \in Emitted(f) \cup {f.end}
    BY <1>1, <1>2, <2>1, EmittedNext
  <2>3. CASE a = f.end /\ ~Dead(image, a)
    <3>1. PICK E : Line(image, E, a, f.end) /\ a \in E
      BY <1>2, <2>3 DEF Ended
    <3>2. a < a
      BY <2>3, <3>1 DEF Line
    <3> QED BY ONLY <1>3, <3>2, SpaceAssumption DEF Addr
  <2> QED BY <2>2, <2>3
<1> PICK fr : fr = Frame(a)
  OBVIOUS
<1>5. fr.f = a /\ fr.at = a /\ fr \in Frames(Table)
  BY <1>3 DEF Frame, Frames
<1>6. Sits(fr)
  BY <1>4, <1>5 DEF Sits
<1> QED BY <1>3, <1>5, <1>6 DEF Seated

(* The top activation moves.                                               *)
LEMMA MovedIs ==
  ASSUME NEW T, frames \in Seq(Frames(T)), frames # <<>>, NEW p
  PROVE  Moved(p) = Append(Front(frames), [f |-> Top.f, at |-> p])
<1> PICK n \in Nat : n = Len(frames)
  OBVIOUS
<1> PICK F : F = Frames(T)
  OBVIOUS
<1>1. n \in 1 .. n /\ frames \in [1 .. n -> F]
  <2>1. n # 0
    OBVIOUS
  <2> QED BY <2>1
<1>2. Top \in F /\ Front(frames) \in Seq(F)
  BY FrontLast DEF Top
<1> PICK fr : fr = [f |-> Top.f, at |-> p]
  OBVIOUS
<1>3. [Top EXCEPT !.at = p] = fr
  BY <1>2 DEF Frames
<1> PICK v : v = Front(frames)
  OBVIOUS
<1>4. Len(v) = n - 1 /\ \A k \in 1 .. n - 1 : v[k] = frames[k]
  BY <1>1 DEF Front
<1> PICK h, u : h = [frames EXCEPT ![n] = fr] /\ u = Append(v, fr)
  OBVIOUS
<1>5. Moved(p) = h
  BY <1>3 DEF Moved, ReplaceAt
<1>6. DOMAIN h = 1 .. n /\ h[n] = fr /\ \A k \in 1 .. n : k # n => h[k] = frames[k]
  BY ONLY <1>1, h = [frames EXCEPT ![n] = fr]
<1>7. u = [k \in 1 .. n |-> IF k = n THEN fr ELSE v[k]]
  <2>1. Len(v) + 1 = n
    BY <1>4
  <2>2. v \in Seq(F)
    BY <1>2
  <2> QED BY <2>1, <2>2
<1>8. \A k \in 1 .. n : k = n \/ k \in 1 .. n - 1
  OBVIOUS
<1>9. h = [k \in 1 .. n |-> h[k]]
  BY ONLY <1>1, h = [frames EXCEPT ![n] = fr]
<1>10. h = u
  BY ONLY <1>4, <1>6, <1>7, <1>8, <1>9
<1> QED BY <1>5, <1>10

(* The same instructions.                                                  *)
LEMMA SameInsn ==
  ASSUME NEW im, NEW a
  PROVE  /\ Machine!InsnAt(im, a) = InsnAt(im, a)
         /\ Machine!in_image(im, a) = in_image(im, a)
         /\ Machine!Truncated(im, a) = Truncated(im, a)
         /\ Machine!img_rd16(im, a) = img_rd16(im, a)
BY DEF Machine!InsnAt, InsnAt, Machine!in_image, in_image, Machine!Truncated, Truncated,
       Machine!img_rd16, img_rd16, Machine!Cell, Cell, Machine!m65c02_decode, m65c02_decode,
       Machine!m65c02_optab, m65c02_optab, Machine!m65c02_mode_len, m65c02_mode_len

LEMMA SameCode ==
  ASSUME NEW a
  PROVE  /\ Machine!NoCode(a) <=> NoCode(image, a)
         /\ \A x : Machine!InTable(a, x) <=> InTable(image, a, x)
BY SameInsn DEF Machine!NoCode, NoCode, Machine!InTable, InTable

(* The processor as the stack of activations stands for it.                *)
LEMMA Stands ==
  ASSUME NEW l \in Seq(Addr), NEW p \in Addr, Live(frames) = Append(l, p)
  PROVE  MappedPc = p /\ MappedRets = l
<1> PICK v : v = Append(l, p)
  OBVIOUS
<1> PICK n \in Nat : n = Len(l)
  OBVIOUS
<1>1. v \in Seq(Addr) /\ v # <<>> /\ Len(v) = n + 1 /\ v[n + 1] = p
  OBVIOUS
<1>2. Last(v) = p
  BY <1>1 DEF Last
<1>3. Front(v) = l
  BY <1>1 DEF Front
<1> QED BY <1>1, <1>2, <1>3 DEF MappedPc, MappedRets

(* A call of an address in the dispatch table, or not in it.               *)
LEMMA Called ==
  ASSUME RInv, Mapped, NEW stack \in Seq(Seated), NEW t \in Addr, lynx_call_addr(stack, t)
  PROVE  /\ frames' \in Seq(Seated)
         /\ \/ lost' = lost /\ Live(frames') = Append(Live(stack), t)
            \/ ~is_func(t) /\ lost' = TRUE /\ frames' = stack
<1>1. CASE is_func(t)
  <2>1. t \in Table
    BY <1>1 DEF is_func, Table
  <2>2. Frame(t) \in Seated /\ t # Gone
    BY <2>1, Begins
  <2>3. frames' = Append(stack, Frame(t)) /\ lost' = lost
    BY <1>1 DEF lynx_call_addr
  <2>4. frames' \in Seq(Seated)
    BY <2>2, <2>3
  <2>5. stack \in Seq(Frames(Table)) /\ Frame(t) \in Frames(Table)
    <3>1. Seated \subseteq Frames(Table)
      BY DEF Seated
    <3> QED BY ONLY <2>2, <3>1, stack \in Seq(Seated), SeqMonotonic
  <2>6. Live(Append(stack, Frame(t))) = Append(Live(stack), t)
    <3>1. Frame(t).at = t
      BY DEF Frame
    <3> QED BY ONLY <2>2, <2>5, <3>1, LiveAppend
  <2> QED BY <2>3, <2>4, <2>6
<1>2. CASE ~is_func(t)
  <2>1. frames' = stack /\ lost' = TRUE
    BY <1>2 DEF lynx_call_addr
  <2> QED BY <1>2, <2>1
<1> QED BY <1>1, <1>2

(* With discovery at its end, what is in the image and has been reached    *)
(* can be called.                                                          *)
LEMMA Callable ==
  ASSUME RInv, Mapped, Discovered, NEW t \in Reached, in_image(image, t), ~is_func(t)
  PROVE  Len(funcs) >= MaxFuncs
<1>1. fn = None /\ work = <<>>
  BY DEF Discovered
<1>2. Len(funcs) \in Nat /\ MaxFuncs \in Nat
  BY LimitAssumption DEF RInv, Typed
<1>3. t \in seen \/ Busy
  BY DEF Reached
<1>4. CASE t \in seen
  <2>1. Len(funcs) < MaxFuncs => seen \subseteq ToSet(<<>>) \cup Table
    BY <1>1 DEF RInv, Placed, Tidy, Worklist, Held
  <2>2. ToSet(<<>>) = {}
    BY DEF ToSet
  <2>3. t \notin Table
    BY DEF is_func, Table
  <2>4. ~(Len(funcs) < MaxFuncs)
    BY <1>4, <2>1, <2>2, <2>3
  <2> QED BY <1>2, <2>4
<1>5. CASE Busy
  <2>1. Len(<<>>) + 0 + Len(funcs) >= MaxFuncs
    BY <1>1, <1>5 DEF Busy
  <2> QED BY <1>2, <2>1
<1> QED BY <1>3, <1>4, <1>5

(* The steps of the processor, from the instruction it is at.              *)
Astray(a) ==
  LET in == InsnAt(image, a) IN
  \/ Len(funcs) >= MaxFuncs
  \/ Len(image.rom) > MaxWalk
  \/ NoCode(image, a)
  \/ in.cflow \in {"BREAK", "BRANCH"}
  \/ in.mode = "ABS" /\ NoCode(image, in.target)
  \/ in.mode = "ABS" /\ in.cflow = "JMP" /\ in.target < a + in.len
  \/ in.mode = "IND" /\ ~in_image(image, img_rd16(image, in.operand))
  \/ in.mode = "IAX" /\ \E x \in 0 .. MaxX : ~InTable(image, in.operand, x)

LEMMA Strays ==
  ASSUME UNCHANGED <<image, seeds>>, NEW a \in Addr, MappedPc = a, Astray(a), ~lost, lost'
  PROVE  Machine!Next
<1>1. a # Host
  BY HostAssumption
<1>2. Machine!MayStray
  BY <1>1, SameInsn, SameCode DEF Machine!MayStray, Astray
<1>3. ToSet(seeds)' = ToSet(seeds)
  OBVIOUS
<1> QED BY <1>2, <1>3 DEF Machine!Next, Machine!Stray

(* p and r are the next address and return addresses, by the class of the  *)
(* instruction.                                                            *)
Executes(a, l, p, r) ==
  LET in == InsnAt(image, a) IN
  \/ in.cflow = "NORMAL" /\ p = a + in.len /\ r = l
  \/ in.cflow = "BRANCH" /\ p \in {a + in.len, in.target} /\ r = l
  \/ in.cflow = "CALL" /\ p = in.target /\ r = Append(l, a + in.len)
  \/ in.cflow = "JMP" /\ in.mode = "ABS" /\ p = in.target /\ r = l
  \/ in.mode = "IND" /\ p = img_rd16(image, in.operand) /\ r = l
  \/ in.mode = "IAX" /\ r = l /\ \E x \in 0 .. MaxX : p = img_rd16(image, in.operand + x)

LEMMA Follows ==
  ASSUME UNCHANGED <<image, seeds>>, image \in Image, NEW a \in Addr, NEW l \in Seq(Addr),
         MappedPc = a, MappedRets = l, in_image(image, a), a + InsnAt(image, a).len \in Addr,
         \/ Executes(a, l, MappedPc', MappedRets')
         \/ InsnAt(image, a).cflow = "RET" /\ Machine!Return,
         ~lost, lost' = lost
  PROVE  Machine!Next
<1> PICK in, n : in = InsnAt(image, a) /\ n = a + in.len
  OBVIOUS
<1> PICK c, m : c = in.cflow /\ m = in.mode
  OBVIOUS
<1> PICK p, r : p = MappedPc' /\ r = MappedRets'
  OBVIOUS
<1>1. <<c, m>> \in Kinds
  <2>1. Insn(in, a)
    BY InsnType
  <2> QED BY <2>1 DEF Insn
<1>2. n % Space = n
  BY SpaceRange
<1>3. a # Host
  BY HostAssumption
<1> DEFINE B == Machine!Return
<1>4. \/ c = "NORMAL" /\ p = n /\ r = l
      \/ c = "BRANCH" /\ p \in {n, in.target} /\ r = l
      \/ c = "CALL" /\ p = in.target /\ r = Append(l, n)
      \/ c = "JMP" /\ m = "ABS" /\ p = in.target /\ r = l
      \/ m = "IND" /\ p = img_rd16(image, in.operand) /\ r = l
      \/ m = "IAX" /\ r = l /\ \E x \in 0 .. MaxX : p = img_rd16(image, in.operand + x)
      \/ c = "RET" /\ B
  BY DEF Executes
<1> HIDE DEF B
<1>5. CASE c = "NORMAL" \/ c = "BRANCH" \/ c = "CALL" \/ c = "RET" \/ m = "ABS" \/ m = "IND" \/ m = "IAX"
  <2> PICK j, k, q, t : /\ j = Machine!InsnAt(image, MappedPc) /\ k = (MappedPc + j.len) % Space
                        /\ q = MappedPc /\ t = MappedRets
    OBVIOUS
  <2>a. j = in /\ q = a /\ k = n /\ t = l
    BY <1>2, SameInsn
  <2>b. Machine!in_image(image, q) /\ q # Host
    BY <1>3, <2>a, SameInsn
  <2>c. /\ Machine!img_rd16(image, j.operand) = img_rd16(image, j.operand)
        /\ \A x \in 0 .. MaxX : Machine!img_rd16(image, j.operand + x) = img_rd16(image, j.operand + x)
    BY SameInsn
  <2>d. Machine!interp_step <=>
          /\ q # Host
          /\ Machine!in_image(image, q)
          /\ CASE j.cflow = "NORMAL" -> p = k /\ r = t
               [] j.cflow = "BRANCH" -> p \in {k, j.target} /\ r = t
               [] j.cflow = "CALL"   -> p = j.target /\ r = Append(t, k)
               [] j.cflow = "RET"    -> B
               [] j.cflow = "JMP" /\ j.mode = "ABS" -> p = j.target /\ r = t
               [] j.mode = "IND"     -> p = Machine!img_rd16(image, j.operand) /\ r = t
               [] j.mode = "IAX"     -> /\ \E x \in 0 .. MaxX : p = Machine!img_rd16(image, j.operand + x)
                                        /\ r = t
               [] j.cflow = "BREAK"  -> FALSE
    BY DEF Machine!interp_step, B
  <2>1. Machine!interp_step <=>
          CASE c = "NORMAL" -> p = n /\ r = l
            [] c = "BRANCH" -> p \in {n, in.target} /\ r = l
            [] c = "CALL"   -> p = in.target /\ r = Append(l, n)
            [] c = "RET"    -> B
            [] c = "JMP" /\ m = "ABS" -> p = in.target /\ r = l
            [] m = "IND"    -> p = img_rd16(image, in.operand) /\ r = l
            [] m = "IAX"    -> (\E x \in 0 .. MaxX : p = img_rd16(image, in.operand + x)) /\ r = l
            [] c = "BREAK"  -> FALSE
    BY ONLY <2>a, <2>b, <2>c, <2>d, c = in.cflow /\ m = in.mode
  <2>2. Machine!interp_step
    BY ONLY <1>1, <1>4, <2>1 DEF Kinds
  <2>3. ToSet(seeds)' = ToSet(seeds)
    OBVIOUS
  <2> QED BY <2>2, <2>3 DEF Machine!Next
<1> QED BY ONLY <1>1, <1>4, <1>5 DEF Kinds

(* What a statement starts from.                                           *)
LEMMA AtTop ==
  ASSUME RInv, Mapped, AtStatement
  PROVE  /\ image \in Image /\ Discovered
         /\ Top \in Frames(Table) /\ Top.f \in Table /\ Top.at \in Emitted(FuncAt(Top.f)) /\ Top.at # Gone
         /\ Front(frames) \in Seq(Seated) /\ Front(frames) \in Seq(Frames(Table))
         /\ Live(Front(frames)) \in Seq(Addr)
         /\ Live(frames) = Append(Live(Front(frames)), Top.at)
<1>1. frames # <<>> /\ frames \in Seq(Seated) /\ Seated \subseteq Frames(Table)
  BY DEF AtStatement, Running, Mapped, Seated
<1>2. Top \in Seated /\ Front(frames) \in Seq(Seated)
  BY <1>1, FrontLast DEF Top
<1>3. Top \in Frames(Table) /\ Front(frames) \in Seq(Frames(Table))
  <2>1. Top \in Frames(Table)
    BY <1>1, <1>2
  <2> QED BY ONLY <1>1, <1>2, <2>1, SeqMonotonic
<1>4. Top.at # Gone /\ Top.at \in Emitted(FuncAt(Top.f)) /\ Discovered
  BY <1>1 DEF AtStatement, Mapped
<1>5. frames = Append(Front(frames), Top)
  <2> PICK n \in Nat : n = Len(frames)
    BY <1>1
  <2> PICK S : S = Seated
    OBVIOUS
  <2>1. n # 0 /\ frames \in Seq(S) /\ frames \in [1 .. n -> S]
    BY <1>1
  <2> PICK v : v = Front(frames)
    OBVIOUS
  <2>2. v \in Seq(S) /\ Len(v) = n - 1 /\ \A k \in 1 .. n - 1 : v[k] = frames[k]
    BY <2>1 DEF Front
  <2>3. Top = frames[n]
    BY DEF Top, Last
  <2> QED BY <2>1, <2>2, <2>3
<1>6. Live(frames) = Append(Live(Front(frames)), Top.at)
  BY <1>3, <1>4, <1>5, LiveAppend
<1>7. Live(Front(frames)) \in Seq(Addr)
  BY <1>3, LiveType
<1>8. image \in Image /\ Top.f \in Table
  BY <1>3 DEF RInv, Typed, Frames
<1> QED BY <1>2, <1>3, <1>4, <1>6, <1>7, <1>8

(* The top activation goes to p, of its function or with nothing left to   *)
(* do in it.                                                               *)
LEMMA TopMoves ==
  ASSUME RInv, Mapped, AtStatement, NEW p \in Positions,
         \/ p = Gone
         \/ p \in Emitted(FuncAt(Top.f))
         \/ p = FuncAt(Top.f).end /\ Dead(image, p)
  PROVE  /\ Moved(p) \in Seq(Seated)
         /\ Live(Moved(p)) = IF p = Gone THEN Live(Front(frames)) ELSE Append(Live(Front(frames)), p)
<1>1. /\ Top \in Frames(Table) /\ Top.f \in Table
      /\ Front(frames) \in Seq(Seated) /\ Front(frames) \in Seq(Frames(Table))
  BY AtTop
<1> PICK fr : fr = [f |-> Top.f, at |-> p]
  OBVIOUS
<1>2. fr.f = Top.f /\ fr.at = p /\ fr \in Frames(Table)
  BY <1>1 DEF Frames, Positions
<1>3. fr \in Seated
  <2>1. Sits(fr)
    BY <1>2 DEF Sits
  <2> QED BY <1>2, <2>1 DEF Seated
<1>4. Moved(p) = Append(Front(frames), fr)
  <2>1. frames # <<>> /\ frames \in Seq(Frames(Table))
    BY DEF AtStatement, Running, RInv, Typed
  <2> QED BY ONLY <2>1, fr = [f |-> Top.f, at |-> p], MovedIs
<1>5. Append(Front(frames), fr) \in Seq(Seated)
  BY <1>1, <1>3
<1>6. Live(Append(Front(frames), fr)) = IF fr.at = Gone THEN Live(Front(frames)) ELSE Append(Live(Front(frames)), fr.at)
  BY ONLY <1>1, <1>2, LiveAppend
<1> QED BY ONLY <1>2, <1>4, <1>5, <1>6

(* Every statement takes the processor's step, or strays where it may.     *)
LEMMA StatementFollows ==
  ASSUME RInv, Mapped, Statement
  PROVE  frames' \in Seq(Seated) /\ Machine!Next
<1> PICK a, in, f, l : a = Top.at /\ in = InsnAt(image, a) /\ f = FuncAt(Top.f) /\ l = Live(Front(frames))
  OBVIOUS
<1> PICK n, t : n = a + in.len /\ t = in.target
  OBVIOUS
<1> DEFINE goto == Transfer(f, in) = "goto"
           ptr(o) == img_rd16(image, o)
<1>1. AtStatement /\ ~lost /\ UNCHANGED <<image, seeds>>
  BY DEF Statement, discVars
<1>2. /\ image \in Image /\ Discovered /\ Top.f \in Table /\ a \in Emitted(f) /\ a # Gone
      /\ Front(frames) \in Seq(Seated) /\ l \in Seq(Addr) /\ Live(frames) = Append(l, a)
  BY <1>1, AtTop
<1>3. /\ a \in Addr /\ in_image(image, a) /\ ~Truncated(image, a) /\ n \in Addr
      /\ Leads(image, a) \subseteq Reached
      /\ n \in Emitted(f) \/ (n = f.end /\ (Dead(image, f.end) \/ Stops(image, a)))
  BY <1>2, GoesOn
<1>4. Insn(in, a) /\ <<in.cflow, in.mode>> \in Kinds /\ t \in Addr /\ in.operand \in Addr /\ in.operand \in Nat
  <2>1. Insn(in, a)
    BY <1>2, <1>3, InsnType
  <2> QED BY <2>1 DEF Insn, Addr
<1>5. MappedPc = a /\ MappedRets = l
  BY <1>2, <1>3, Stands
<1>6. \A p \in Addr : p \in Positions /\ p # Gone
  BY SpaceAssumption DEF Addr, Positions, Gone
<1>7. f \in Functions
  BY <1>2, FunctionOf
<1>8. Moved(Gone) \in Seq(Seated) /\ Live(Moved(Gone)) = l
  <2>1. Gone \in Positions
    BY SpaceAssumption DEF Positions, Gone
  <2> QED BY <1>1, <2>1, TopMoves
(* From here on an arrival at the next address or a target.                *)
<1>9. ASSUME NEW p \in Addr, Live(frames') = Append(l, p), lost' = lost, Executes(a, l, p, l)
      PROVE  Machine!Next
  <2>1. MappedPc' = p /\ MappedRets' = l
    <3>1. Live(frames') # <<>>
      BY ONLY <1>2, <1>9, p \in Addr
    <3>2. Last(Append(l, p)) = p /\ Front(Append(l, p)) = l
      BY ONLY <1>2, p \in Addr DEF Last, Front
    <3> QED BY <1>9, <3>1, <3>2 DEF MappedPc, MappedRets
  <2> QED BY <1>1, <1>2, <1>3, <1>5, <1>9, <2>1, Follows
<1>10. ASSUME Astray(a), lost' PROVE Machine!Next
  BY <1>1, <1>3, <1>5, <1>10, Strays
<1>11. in.cflow \in {"NORMAL", "BRANCH", "CALL"} =>
         Moved(n) \in Seq(Seated) /\ Live(Moved(n)) = Append(l, n)
  <2> SUFFICES ASSUME in.cflow \in {"NORMAL", "BRANCH", "CALL"}
               PROVE  Moved(n) \in Seq(Seated) /\ Live(Moved(n)) = Append(l, n)
    OBVIOUS
  <2>1. ~Stops(image, a)
    BY DEF Stops
  <2> QED BY <1>1, <1>3, <1>6, <2>1, TopMoves
(* An address in the image that was reached is a function, or strays.      *)
<1>12. ASSUME NEW p \in Addr, p \in Leads(image, a), in_image(image, p), ~is_func(p) PROVE Astray(a)
  BY <1>2, <1>3, <1>12, Callable DEF Astray
<1>13. CASE in.cflow \in {"NORMAL", "BRANCH"} /\ frames' = Moved(n) /\ lost' = lost
  <2>1. Executes(a, l, n, l)
    BY <1>13 DEF Executes
  <2> QED BY <1>3, <1>9, <1>11, <1>13, <2>1
<1>14. CASE (in.cflow = "BRANCH" \/ (in.cflow = "JMP" /\ in.mode = "ABS")) /\ goto /\ frames' = Moved(t) /\ lost' = lost
  <2>1. Executes(a, l, t, l)
    BY <1>14 DEF Executes
  <2>2. t \in Emitted(f)
    <3>1. in_func_range(f, t)
      <4>1. "tail call" # "goto" /\ "lynx_ext_jmp" # "goto"
        OBVIOUS
      <4> QED BY <1>14, <4>1 DEF Transfer
    <3>2. Charted(image, Top.f, f.end, Reached) /\ f.start = Top.f
      BY <1>2, FunctionOf
    <3>3. PICK D : Line(image, D, f.start, f.end)
      BY <3>2 DEF Charted
    <3> QED BY <1>2, <1>7, <3>1, <3>3, SameWalk DEF in_func_range
  <2>3. Moved(t) \in Seq(Seated) /\ Live(Moved(t)) = Append(l, t)
    BY <1>1, <1>4, <1>6, <2>2, TopMoves
  <2> QED BY <1>4, <1>9, <1>14, <2>1, <2>3
<1>15. CASE (in.cflow = "BRANCH" \/ (in.cflow = "JMP" /\ in.mode = "ABS")) /\ ~goto /\ lynx_call_addr(Moved(Gone), t)
  <2>1. /\ frames' \in Seq(Seated)
        /\ \/ lost' = lost /\ Live(frames') = Append(l, t)
           \/ ~is_func(t) /\ lost' = TRUE
    BY <1>4, <1>8, <1>15, Called
  <2>2. CASE lost' = lost /\ Live(frames') = Append(l, t)
    <3>1. Executes(a, l, t, l)
      BY <1>15 DEF Executes
    <3> QED BY <1>4, <1>9, <2>1, <2>2, <3>1
  <2>3. CASE ~is_func(t) /\ lost' = TRUE
    <3>1. Astray(a)
      <4>1. CASE in.cflow = "BRANCH" \/ ~in_image(image, t) \/ t < n
        <5>1. in.cflow = "JMP" /\ in.mode = "ABS" => (~in_image(image, t) => NoCode(image, t))
          BY DEF NoCode
        <5> QED BY <1>15, <4>1, <5>1 DEF Astray
      <4>2. CASE in.cflow = "JMP" /\ in.mode = "ABS" /\ in_image(image, t) /\ t > n
        <5>1. t \in Leads(image, a)
          BY <1>4, <4>2 DEF Leads, LeadsTo
        <5> QED BY <1>4, <1>12, <2>3, <4>2, <5>1
      <4>3. CASE in.cflow = "JMP" /\ in.mode = "ABS" /\ in_image(image, t) /\ t = n
        <5>1. ~Stops(image, a)
          BY <4>3 DEF Stops
        <5>2. n \notin Emitted(f)
          <6> SUFFICES ASSUME n \in Emitted(f) PROVE FALSE
            OBVIOUS
          <6>1. n >= f.start /\ n < f.end
            <7>1. n \in Addr /\ f.start <= n /\ n < f.end
              BY <1>2, <1>7, EmittedIn
            <7>2. f.start \in Addr
              BY <1>7 DEF Functions
            <7> QED BY ONLY <7>1, <7>2, SpaceAssumption DEF Addr
          <6>2. n \in g_boundary(f)
            <7>1. Charted(image, Top.f, f.end, Reached) /\ f.start = Top.f
              BY <1>2, FunctionOf
            <7>2. PICK D : Line(image, D, f.start, f.end)
              BY <7>1 DEF Charted
            <7> QED BY <1>2, <1>7, <7>2, SameWalk
          <6>3. in_func_range(f, t)
            BY <4>3, <6>1, <6>2 DEF in_func_range
          <6> QED BY <1>15, <6>3 DEF Transfer
        <5>3. Dead(image, t)
          BY <1>3, <4>3, <5>1, <5>2
        <5> QED BY <4>3, <5>3 DEF Dead, Astray
      <4>4. t < n \/ t = n \/ t > n
        BY ONLY <1>3, <1>4, SpaceAssumption DEF Addr
      <4> QED BY <1>15, <4>1, <4>2, <4>3, <4>4
    <3> QED BY <1>10, <2>1, <2>3, <3>1
  <2> QED BY <2>1, <2>2, <2>3
<1>16. CASE in.mode = "IND" /\ lynx_call_addr(Moved(Gone), ptr(in.operand))
  <2> PICK p \in Addr : p = ptr(in.operand)
    BY <1>2, <1>4, PointerType
  <2>1. /\ frames' \in Seq(Seated)
        /\ \/ lost' = lost /\ Live(frames') = Append(l, p)
           \/ ~is_func(p) /\ lost' = TRUE
    BY <1>8, <1>16, Called
  <2>2. CASE lost' = lost /\ Live(frames') = Append(l, p)
    <3>1. Executes(a, l, p, l)
      BY <1>16 DEF Executes
    <3> QED BY <1>9, <2>1, <2>2, <3>1
  <2>3. CASE ~is_func(p) /\ lost' = TRUE
    <3>1. p \in Leads(image, a)
      BY <1>16 DEF Leads, LeadsTo
    <3>2. ~in_image(image, p) => Astray(a)
      BY <1>16 DEF Astray
    <3> QED BY <1>10, <1>12, <2>1, <2>3, <3>1, <3>2
  <2> QED BY <2>1, <2>2, <2>3
<1>17. CASE in.mode = "IAX" /\ \E x \in 0 .. MaxX : lynx_call_addr(Moved(Gone), ptr(in.operand + x))
  <2>1. PICK x \in 0 .. MaxX : lynx_call_addr(Moved(Gone), ptr(in.operand + x))
    BY <1>17
  <2>2. x \in Nat /\ in.operand + x \in Nat
    BY <1>4
  <2> PICK p \in Addr : p = ptr(in.operand + x)
    BY <1>2, <2>2, PointerType
  <2>3. /\ frames' \in Seq(Seated)
        /\ \/ lost' = lost /\ Live(frames') = Append(l, p)
           \/ ~is_func(p) /\ lost' = TRUE
    BY <1>8, <2>1, Called
  <2>4. CASE lost' = lost /\ Live(frames') = Append(l, p)
    <3>1. Executes(a, l, p, l)
      BY <1>17 DEF Executes
    <3> QED BY <1>9, <2>3, <2>4, <3>1
  <2>5. CASE ~is_func(p) /\ lost' = TRUE
    <3>1. CASE ~InTable(image, in.operand, x)
      <4>1. Astray(a)
        BY <1>17, <3>1 DEF Astray
      <4> QED BY <1>10, <2>3, <2>5, <4>1
    <3>2. CASE InTable(image, in.operand, x)
      <4>1. p \in Leads(image, a)
        BY <1>17, <2>2, <3>2 DEF Leads, LeadsTo
      <4>2. in_image(image, p)
        <5>1. x \in 0 .. x
          BY <2>2
        <5> QED BY <3>2, <5>1 DEF InTable
      <4> QED BY <1>10, <1>12, <2>3, <2>5, <4>1, <4>2
    <3> QED BY <3>1, <3>2
  <2> QED BY <2>3, <2>4, <2>5
<1>18. CASE in.cflow = "CALL" /\ lynx_call_addr(Moved(n), t)
  <2>0. Moved(n) \in Seq(Seated) /\ Live(Moved(n)) = Append(l, n) /\ Append(l, n) \in Seq(Addr)
    BY <1>2, <1>3, <1>11, <1>18
  <2>1. /\ frames' \in Seq(Seated)
        /\ \/ lost' = lost /\ Live(frames') = Append(Append(l, n), t)
           \/ ~is_func(t) /\ lost' = TRUE
    BY <1>4, <1>18, <2>0, Called
  <2>2. CASE lost' = lost /\ Live(frames') = Append(Append(l, n), t)
    <3> PICK r \in Seq(Addr) : r = Append(l, n)
      BY <2>0
    <3>1. MappedPc' = t /\ MappedRets' = r
      <4>1. Append(r, t) # <<>> /\ Last(Append(r, t)) = t /\ Front(Append(r, t)) = r
        BY ONLY <1>4, r \in Seq(Addr) DEF Last, Front
      <4> QED BY <2>2, <4>1 DEF MappedPc, MappedRets
    <3>2. Executes(a, l, t, r)
      BY <1>18 DEF Executes
    <3>3. Machine!Next
      BY <1>1, <1>2, <1>3, <1>5, <2>2, <3>1, <3>2, Follows
    <3> QED BY <2>1, <3>3
  <2>3. CASE ~is_func(t) /\ lost' = TRUE
    <3>1. t \in Leads(image, a)
      BY <1>4, <1>18 DEF Leads, LeadsTo
    <3>2. in.mode = "ABS"
      <4> PICK c, m : c = in.cflow /\ m = in.mode
        OBVIOUS
      <4>1. <<c, m>> \in Kinds /\ c = "CALL"
        BY <1>4, <1>18
      <4>2. m = "ABS"
        BY ONLY <4>1 DEF Kinds
      <4> QED BY <4>2
    <3>3. ~in_image(image, t) => Astray(a)
      BY <3>2 DEF Astray, NoCode
    <3> QED BY <1>4, <1>10, <1>12, <2>1, <2>3, <3>1, <3>3
  <2> QED BY <2>1, <2>2, <2>3
<1>19. CASE in.cflow = "RET" /\ frames' = Front(frames) /\ lost' = lost
  <2>1. Machine!Return
    <3>1. Live(frames') = l
      BY <1>19
    <3>2. CASE l = <<>>
      <4>1. MappedPc' = Host /\ MappedRets' = <<>>
        BY <3>1, <3>2 DEF MappedPc, MappedRets
      <4> QED BY <1>5, <3>2, <4>1 DEF Machine!Return
    <3>3. CASE l # <<>>
      <4>1. MappedPc' = Last(l) /\ MappedRets' = Front(l)
        BY <3>1, <3>3 DEF MappedPc, MappedRets
      <4> QED BY <1>5, <3>3, <4>1 DEF Machine!Return, Last, Front
    <3> QED BY <3>2, <3>3
  <2>2. Machine!Next
    BY <1>1, <1>2, <1>3, <1>5, <1>19, <2>1, Follows
  <2> QED BY <1>2, <1>19, <2>2
<1>20. CASE in.cflow = "BREAK" /\ frames' = Front(frames) /\ lost' = TRUE
  <2>1. Astray(a)
    BY <1>20 DEF Astray
  <2> QED BY <1>2, <1>10, <1>20, <2>1
<1>21. \/ in.cflow \in {"NORMAL", "BRANCH"} /\ frames' = Moved(n) /\ lost' = lost
       \/ /\ in.cflow = "BRANCH" \/ (in.cflow = "JMP" /\ in.mode = "ABS")
          /\ IF goto THEN frames' = Moved(t) /\ lost' = lost ELSE lynx_call_addr(Moved(Gone), t)
       \/ in.mode = "IND" /\ lynx_call_addr(Moved(Gone), ptr(in.operand))
       \/ in.mode = "IAX" /\ \E x \in 0 .. MaxX : lynx_call_addr(Moved(Gone), ptr(in.operand + x))
       \/ in.cflow = "CALL" /\ lynx_call_addr(Moved(n), t)
       \/ in.cflow = "RET" /\ frames' = Front(frames) /\ lost' = lost
       \/ in.cflow = "BREAK" /\ frames' = Front(frames) /\ lost' = TRUE
  <2>1. in = TopInsn
    BY DEF TopInsn
  <2> QED BY <2>1 DEF Statement
<1> HIDE DEF goto, ptr
<1> QED BY ONLY <1>13, <1>14, <1>15, <1>16, <1>17, <1>18, <1>19, <1>20, <1>21

(* A function that ends, or returns after a tail call.                     *)
LEMMA EndFollows ==
  ASSUME RInv, Mapped, EndOfFunction
  PROVE  frames' \in Seq(Seated) /\ Machine!Next
<1>1. /\ frames # <<>> /\ ~AtStatement /\ frames' = Front(frames) /\ UNCHANGED <<image, seeds>>
      /\ lost' = (lost \/ Top.at # Gone)
  BY DEF EndOfFunction, Running, discVars
<1>2. frames \in Seq(Seated) /\ Seated \subseteq Frames(Table) /\ lost \in BOOLEAN
  BY DEF Mapped, Seated, RInv, Typed
<1>3. Top \in Seated /\ Front(frames) \in Seq(Seated)
  BY <1>1, <1>2, FrontLast DEF Top
<1>4. Front(frames) \in Seq(Frames(Table)) /\ Top \in Frames(Table) /\ frames \in Seq(Frames(Table))
  <2>1. Top \in Frames(Table)
    BY <1>2, <1>3
  <2> QED BY ONLY <1>2, <1>3, <2>1, SeqMonotonic
<1>5. frames = Append(Front(frames), Top)
  <2>1. Moved(Top.at) = Append(Front(frames), [f |-> Top.f, at |-> Top.at])
    BY ONLY <1>1, <1>4, MovedIs
  <2>2. [f |-> Top.f, at |-> Top.at] = Top
    BY <1>4 DEF Frames
  <2>3. Moved(Top.at) = frames
    <3> PICK n \in Nat : n = Len(frames)
      BY <1>2
    <3>1. [Top EXCEPT !.at = Top.at] = Top
      BY <1>4 DEF Frames
    <3> PICK fr : fr = Top
      OBVIOUS
    <3>2. fr = frames[n]
      BY DEF Top, Last
    <3>3. [frames EXCEPT ![n] = fr] = frames
      BY ONLY <1>2, <3>2, n = Len(frames)
    <3> QED BY <3>1, <3>3 DEF Moved, ReplaceAt
  <2> QED BY <2>1, <2>2, <2>3
<1> PICK l, fr : l = Live(Front(frames)) /\ fr = Top
  OBVIOUS
<1>6. Live(frames) = IF fr.at = Gone THEN l ELSE Append(l, fr.at)
  <2>1. Live(Append(Front(frames), fr)) = IF fr.at = Gone THEN Live(Front(frames)) ELSE Append(Live(Front(frames)), fr.at)
    BY ONLY <1>4, fr = Top, LiveAppend
  <2> QED BY <1>5, <2>1
<1>7. l \in Seq(Addr)
  BY <1>4, LiveType
<1>8. ToSet(seeds)' = ToSet(seeds)
  BY <1>1
<1>9. CASE fr.at = Gone
  <2>1. Live(frames') = Live(frames) /\ lost' = lost
    BY <1>1, <1>2, <1>6, <1>9
  <2>2. MappedPc' = MappedPc /\ MappedRets' = MappedRets
    BY <2>1 DEF MappedPc, MappedRets
  <2> QED BY <1>1, <1>3, <1>8, <2>1, <2>2 DEF Machine!Next
<1>10. CASE fr.at # Gone
  <2>1. fr.at \in Addr /\ Live(frames) = Append(l, fr.at) /\ lost'
    <3>1. fr \in Frames(Table)
      BY <1>4
    <3> QED BY <1>1, <1>6, <1>10, <3>1, Position
  <2>2. MappedPc = fr.at
    BY <1>7, <2>1, Stands
  <2>3. Dead(image, fr.at)
    <3>1. Sits(fr) /\ fr.at \notin Emitted(FuncAt(fr.f))
      BY <1>1, <1>3, <1>10 DEF Seated, AtStatement, Running
    <3> QED BY <1>10, <3>1 DEF Sits
  <2>4. CASE ~lost
    <3>1. Astray(fr.at)
      BY <2>3 DEF Dead, Astray
    <3> PICK p : p = fr.at
      OBVIOUS
    <3>2. p \in Addr /\ MappedPc = p /\ Astray(p)
      BY <2>1, <2>2, <3>1
    <3>3. Machine!Next
      BY ONLY <1>1, <2>1, <2>4, <3>2, Strays
    <3> QED BY <1>1, <1>3, <3>3
  <2>5. CASE lost
    BY <1>1, <1>3, <1>8, <2>1, <2>5 DEF Machine!Next, Machine!Lost
  <2> QED BY <2>4, <2>5
<1> QED BY <1>9, <1>10

LEMMA HostFollows ==
  ASSUME RInv, Mapped, HostCall
  PROVE  frames' \in Seq(Seated) /\ Machine!Next
<1>1. Discovered /\ frames = <<>> /\ ~lost /\ UNCHANGED <<image, seeds>>
  BY DEF HostCall, discVars
<1>2. PICK a \in ToSet(seeds) : lynx_call_addr(<<>>, a)
  BY DEF HostCall
<1>3. a \in Reached /\ a \in Addr /\ <<>> \in Seq(Seated) /\ Live(<<>>) = <<>>
  BY LiveNone DEF Mapped, Reached
<1>4. /\ frames' \in Seq(Seated)
      /\ \/ lost' = lost /\ Live(frames') = Append(<<>>, a)
         \/ ~is_func(a) /\ lost' = TRUE
  BY <1>2, <1>3, Called
<1>5. MappedPc = Host /\ MappedRets = <<>>
  BY <1>1, <1>3 DEF MappedPc, MappedRets
<1>6. ToSet(seeds)' = ToSet(seeds)
  BY <1>1
<1>7. CASE lost' = lost /\ Live(frames') = Append(<<>>, a)
  <2>1. MappedPc' = a /\ MappedRets' = <<>>
    <3>1. Append(<<>>, a) # <<>> /\ Last(Append(<<>>, a)) = a /\ Front(Append(<<>>, a)) = <<>>
      BY <1>3 DEF Last, Front
    <3> QED BY <1>7, <3>1 DEF MappedPc, MappedRets
  <2>2. Machine!Call
    BY <1>5, <1>6, <2>1 DEF Machine!Call
  <2>3. Machine!Next
    BY <1>1, <1>6, <1>7, <2>2 DEF Machine!Next
  <2> QED BY <1>4, <2>3
<1>8. CASE ~is_func(a) /\ lost' = TRUE
  <2>1. Len(funcs) >= MaxFuncs \/ ~in_image(image, a)
    BY <1>1, <1>3, <1>8, Callable
  <2>2. Machine!MayStray
    BY <1>5, <2>1, SameInsn DEF Machine!MayStray
  <2>3. Machine!Next
    BY <1>1, <1>6, <1>8, <2>2 DEF Machine!Next, Machine!Stray
  <2> QED BY <1>4, <2>3
<1> QED BY <1>4, <1>7, <1>8

LEMMA StillFollows ==
  ASSUME UNCHANGED <<image, seeds, frames, lost>>
  PROVE  Machine!Next
<1>1. ToSet(seeds)' = ToSet(seeds) /\ MappedPc' = MappedPc /\ MappedRets' = MappedRets
  BY DEF MappedPc, MappedRets
<1> QED BY <1>1 DEF Machine!Next

LEMMA Steps ==
  ASSUME RInv, Walked, Mapped, [RNext]_vars
  PROVE  Mapped' /\ Machine!Next
<1>1. CASE DiscoverNext /\ UNCHANGED <<frames, lost>>
  <2>1. Mapped'
    BY <1>1, TakeMaps, DecodeMaps, CutShortMaps DEF DiscoverNext
  <2>2. UNCHANGED <<image, seeds>>
    BY <1>1 DEF DiscoverNext, discover_one, decode_insn, CutShort
  <2> QED BY <1>1, <2>1, <2>2, StillFollows
<1>2. CASE RunCode
  <2>1. frames' \in Seq(Seated) /\ Machine!Next
    BY <1>2, StatementFollows, EndFollows, HostFollows DEF RunCode
  <2>2. UNCHANGED <<image, seeds, work, seen, funcs, ext, fn, addr, maxt, end>>
    BY <1>2 DEF RunCode, HostCall, EndOfFunction, Statement, discVars
  <2>3. Discovered
    BY <1>2 DEF RunCode, HostCall, EndOfFunction, Statement, AtStatement, Running, Mapped
  <2>4. Reached' = Reached /\ Discovered' = Discovered
    BY <2>2 DEF Reached, Busy, Discovered
  <2>5. Seated' = Seated
    <3>1. Table' = Table
      BY <2>2 DEF Table
    <3> QED BY <2>2, <3>1 DEF Seated, Frames, Sits, FuncAt, Emitted
  <2>6. Mapped'
    BY ONLY Mapped, <2>1, <2>2, <2>3, <2>4, <2>5 DEF Mapped
  <2> QED BY <2>1, <2>6
<1>3. CASE UNCHANGED vars
  <2>1. UNCHANGED <<image, seeds, work, seen, funcs, ext, fn, addr, maxt, end, frames, lost>>
    BY <1>3 DEF vars
  <2>2. Reached' = Reached /\ Discovered' = Discovered
    BY <2>1 DEF Reached, Busy, Discovered
  <2>3. Seated' = Seated
    <3>1. Table' = Table
      BY <2>1 DEF Table
    <3> QED BY <2>1, <3>1 DEF Seated, Frames, Sits, FuncAt, Emitted
  <2>4. Mapped'
    BY ONLY Mapped, <2>1, <2>2, <2>3 DEF Mapped
  <2> QED BY <2>1, <2>4, StillFollows
<1> QED BY <1>1, <1>2, <1>3 DEF RNext

LEMMA MappedInit == RInit => Mapped /\ Machine!Init
<1> SUFFICES ASSUME RInit PROVE Mapped /\ Machine!Init
  OBVIOUS
<1>1. funcs = <<>> /\ fn = None /\ frames = <<>> /\ lost = FALSE /\ seeds \in Seq(Addr)
  <2>1. RInv
    BY InitialInv
  <2> QED BY <2>1 DEF RInit, Init, RInv, Typed
<1> PICK d, e : e = [work |-> <<>>, seen |-> {}] /\ d = push_all(e, seeds)
  OBVIOUS
<1>2. work = d.work /\ seen = d.seen
  BY DEF RInit, Init
<1>3. e \in Worklists /\ \A t \in e.seen : in_image(image, t)
  BY DEF Worklists
<1>4. Ahead(e, d) /\ \A k \in 1 .. Len(seeds) : ReachedBy(d, seeds[k])
  <2>1. funcs \in Seq(Functions)
    BY ONLY <1>1
  <2> QED BY ONLY <1>1, <1>3, <2>1, d = push_all(e, seeds), AllReached
<1>5. \A t \in seen : in_image(image, t)
  BY <1>2, <1>4 DEF Ahead
<1>6. ToSet(seeds) \subseteq Reached
  <2> SUFFICES ASSUME NEW k \in 1 .. Len(seeds) PROVE seeds[k] \in Reached
    BY <1>1 DEF ToSet
  <2>1. Len(d.work) \in Nat /\ MaxFuncs \in Nat
    BY <1>4, LimitAssumption DEF Ahead, Worklists
  <2>2. Len(funcs) = 0 /\ seeds[k] \in Addr
    BY <1>1
  <2> PICK m \in Nat, M \in Nat : m = Len(d.work) /\ M = MaxFuncs
    BY <2>1
  <2>3. Busy <=> m + 0 + 0 >= M
    BY <1>1, <1>2, <2>2 DEF Busy
  <2>4. in_image(image, seeds[k]) => (seeds[k] \in seen \/ m + 0 >= M)
    BY <1>2, <1>4, <2>2 DEF ReachedBy
  <2> QED BY <2>2, <2>3, <2>4 DEF Reached
<1>7. Mapped
  <2>1. frames \in Seq(Seated)
    BY <1>1
  <2> QED BY <1>1, <1>5, <1>6, <2>1 DEF Mapped
<1>8. Machine!Init
  <2>1. MappedPc = Host /\ MappedRets = <<>>
    BY <1>1, LiveNone DEF MappedPc, MappedRets
  <2> QED BY <1>1, <2>1 DEF Machine!Init
<1> QED BY <1>7, <1>8

(* The recompiled program implements the processor, whatever the image and *)
(* its seeds: each statement, call and return of the generated C is the    *)
(* processor's step from the same address with the same return addresses,  *)
(* or strays at an instruction where Cpu allows it (emit.c, recomp_rt.c    *)
(* against interp.c).                                                      *)
THEOREM RecompiledFollowsTheCpu == RSpec => FollowsTheCpu
<1> DEFINE I == RInv /\ Walked /\ Mapped
<1>1. RInit => I /\ Machine!Init
  BY InitialInv, WalkedInit, MappedInit
<1>2. I /\ [RNext]_vars => I' /\ [Machine!Next]_(Machine!cpuVars)
  <2> SUFFICES ASSUME I, [RNext]_vars PROVE I' /\ Machine!Next
    OBVIOUS
  <2> QED BY StepKeeps, WalkedStep, Steps
<1> HIDE DEF I
<1> QED BY <1>1, <1>2, PTL DEF RSpec, FollowsTheCpu, Machine!Spec

=============================================================================
