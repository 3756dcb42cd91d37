----------------------------- MODULE ExecProofs -----------------------------
(***************************************************************************)
(* For every stack page, nesting and number of save slots, and a host that *)
(* saves and loads at flips of the main program: the variables of Exec     *)
(* keep their ranges, the two stacks agree, and interrupts are invisible   *)
(* to the code they interrupt.                                             *)
(*                                                                         *)
(* StacksAgree is not inductive by itself: that a push does not overwrite  *)
(* a frame needs the frames to lie in order, and that the page does not    *)
(* wrap needs a bound on how deep they reach, which in turn needs the mask *)
(* to be set where the game allows no more nesting.  A load needs every    *)
(* saved stack to be the empty one.                                        *)
(***************************************************************************)
EXTENDS Exec, TLAPS

Depth(k) == (k - 1) * (3 + MaxPushed)

\* Where activation k's own bytes start, without the page's wrap.
Base(k) == IF k = 1 THEN calls[k].s ELSE calls[k].s - 3

Framed(k) ==
  /\ stack[Base(k) + 3] = Zero
  /\ stack[Base(k) + 2] = Zero
  /\ stack[Base(k) + 1] = lynx_p_pack(calls[k].i, calls[k].d)

Levels == 1 .. Len(calls)

InPlace ==
  /\ calls[1].s = StackSize - 1
  /\ \A k \in Levels : k > 1 =>
       Framed(k) /\ calls[k].s = Base(k - 1) - calls[k - 1].pushed
  /\ s = Base(Len(calls)) - Top.pushed

\* Each frame lies below the ones before it, none below its share of the page.
Stacked ==
  /\ \A k \in Levels : StackSize - 1 - Depth(k) <= Base(k) /\ s <= Base(k)
  /\ \A m \in Levels : \A k \in Levels : k < m => calls[m].s <= Base(k)

SavedEmpty ==
  \A n \in Slot : saved[n] # NoSave =>
    saved[n].s = StackSize - 1 /\ (~saved[n].i => 1 <= MaxNest)

IInv ==
  /\ TypeOK
  /\ InPlace
  /\ Stacked
  /\ ~i => Len(calls) <= MaxNest
  /\ SavedEmpty

-----------------------------------------------------------------------------
\* No level of the nesting that the game allows reaches the end of the page.
LEMMA DepthFits ==
  ASSUME NEW k \in 1 .. MaxNest + 1
  PROVE  /\ Depth(k) \in Nat
         /\ Depth(k + 1) = Depth(k) + 3 + MaxPushed
         /\ Depth(k) + MaxPushed < StackSize
<1>1. PICK c \in Nat : c = 3 + MaxPushed
  BY StackAssumption
<1>2. Depth(k) = (k - 1) * c /\ Depth(k + 1) = k * c
  BY <1>1 DEF Depth
<1>3. (k - 1) * c \in Nat /\ k * c = (k - 1) * c + c
  BY <1>1, StackAssumption
<1>4. (k - 1) * c <= MaxNest * c
  BY <1>1, StackAssumption
<1>5. MaxNest * c = 3 * MaxNest + MaxPushed * MaxNest
  BY <1>1, StackAssumption
<1>6. MaxPushed * (MaxNest + 1) = MaxPushed * MaxNest + MaxPushed
  BY StackAssumption
<1>7. MaxPushed * MaxNest \in Nat
  BY StackAssumption
<1>. QED BY <1>1, <1>2, <1>3, <1>4, <1>5, <1>6, <1>7, StackAssumption

\* Inside the page the stack pointer does not wrap.
LEMMA NoWrap ==
  ASSUME NEW a \in Page
  PROVE  a % StackSize = a
BY StackAssumption DEF Page

\* What the invariant says of the running activation.
LEMMA Running ==
  ASSUME IInv
  PROVE  /\ Len(calls) \in Nat /\ Len(calls) \in 1 .. MaxNest + 1
         /\ calls \in Seq(Activations)
         /\ Top \in Activations /\ Top = calls[Len(calls)]
         /\ \A k \in Levels : calls[k] \in Activations /\ Base(k) \in Int /\ Base(k) >= s
         /\ s \in 0 .. StackSize - 1
         /\ StackSize \in Nat /\ MaxPushed \in Nat /\ MaxNest \in Nat
         /\ StackSize - 1 - Depth(Len(calls)) <= Base(Len(calls))
<1>1. Len(calls) \in Levels /\ \A k \in Levels : calls[k] \in Activations
  BY DEF IInv, TypeOK, Levels
<1>2. \A k \in Levels : Base(k) \in Int
  BY <1>1, StackAssumption DEF Base, Activations, Page
<1>. QED BY <1>1, <1>2, StackAssumption DEF IInv, TypeOK, Stacked, Top, Levels, Page

LEMMA InitialInv == MainOnly /\ Init => IInv
<1>. SUFFICES ASSUME MainOnly, Init PROVE IInv
  OBVIOUS
<1>1. calls = <<Activation(StackSize - 1, TRUE, FALSE)>> /\ s = StackSize - 1
      /\ Activation(StackSize - 1, TRUE, FALSE) \in Activations
  BY StackAssumption DEF Init, Activation, Activations, Page
<1>2. Len(calls) = 1 /\ calls[1].s = StackSize - 1 /\ calls[1].pushed = 0 /\ Levels = {1}
      /\ calls \in Seq(Activations)
  BY <1>1 DEF Activation, Levels
<1>3. TypeOK
  <2>1. stack \in [Page -> Content]
    BY DEF Init, Content
  <2>2. s \in Page /\ Len(calls) \in 1 .. MaxNest + 1
    BY <1>1, <1>2, StackAssumption DEF Page
  <2>. QED BY <1>2, <2>1, <2>2 DEF TypeOK, Init
<1>4. Depth(1) = 0
  BY StackAssumption DEF Depth
<1>5. Top = calls[1] /\ Base(Len(calls)) = StackSize - 1 /\ Base(1) = StackSize - 1
  BY <1>2 DEF Top, Base
<1>6. InPlace
  <2>1. \A k \in Levels : ~(k > 1)
    BY <1>2
  <2>a. Top.pushed = 0
    BY <1>2, <1>5
  <2>2. s = Base(Len(calls)) - Top.pushed
    BY <2>a, <1>1, <1>5, StackAssumption
  <2>. QED BY <1>2, <2>1, <2>2 DEF InPlace
<1>7. Stacked
  BY <1>1, <1>2, <1>4, <1>5, StackAssumption DEF Stacked
<1>. QED BY <1>3, <1>6, <1>7 DEF IInv, SavedEmpty, Init

\* A delivery: the new frame lies below everything that is on the stack.
LEMMA DeliverInv ==
  ASSUME IInv, lynx_irq_deliver, ~i, lynx_irq_latch' \subseteq Source, UNCHANGED saved
  PROVE  IInv'
<1>. DEFINE top == Activation(s, i, d)
<1>. PICK n \in Nat : n = Len(calls)
  BY Running
<1>1. n \in Nat /\ n >= 1 /\ n <= MaxNest /\ n + 1 \in 1 .. MaxNest + 1
  BY Running DEF IInv
<1>2. /\ Depth(n) \in Nat /\ Depth(n + 1) = Depth(n) + 3 + MaxPushed
      /\ Depth(n + 1) + MaxPushed < StackSize
  BY <1>1, DepthFits, Running, StackAssumption
<1>3. s - 3 >= StackSize - 1 - Depth(n + 1) /\ s - 3 >= 0 /\ s \in Int /\ s <= StackSize - 1
  <2>1. s = Base(n) - Top.pushed /\ Base(n) >= StackSize - 1 - Depth(n) /\ Top.pushed <= MaxPushed
        /\ Top.pushed \in Nat /\ Base(n) \in Int
    BY Running, <1>1 DEF IInv, InPlace, Activations, Levels
  <2>2. PICK e \in Nat : e = Depth(n)
    BY <1>2
  <2>3. s \in 0 .. StackSize - 1 /\ MaxPushed \in Nat /\ StackSize \in Nat
    BY Running
  <2>4. s >= StackSize - 1 - e - MaxPushed
    <3>. PICK b \in Int, p \in Nat : b = Base(n) /\ p = Top.pushed
      BY <2>1
    <3>1. s = b - p /\ b >= StackSize - 1 - e /\ p <= MaxPushed
      BY <2>1, <2>2
    <3>. QED BY <3>1, <2>3
  <2>5. Depth(n + 1) = e + 3 + MaxPushed /\ e + 3 + MaxPushed + MaxPushed < StackSize
    BY <2>2, <1>2
  <2>. QED BY <2>3, <2>4, <2>5
<1>4. Below(s, 1) = s - 1 /\ Below(s, 2) = s - 2 /\ Below(s, 3) = s - 3
  BY <1>3, NoWrap, StackAssumption DEF Below, Page
<1>5. /\ stack' = [stack EXCEPT ![s] = Zero, ![s - 1] = Zero, ![s - 2] = lynx_p_pack(i, d)]
      /\ s' = s - 3 /\ i' = TRUE /\ d' = FALSE /\ calls' = Append(calls, top)
  BY <1>4 DEF lynx_irq_deliver
<1>6. top \in Activations /\ top.s = s /\ top.i = i /\ top.d = d /\ top.pushed = 0
  BY Running, StackAssumption DEF IInv, TypeOK, Activation, Activations
<1>7. /\ Len(calls') = n + 1 /\ calls' \in Seq(Activations) /\ calls'[n + 1] = top
      /\ \A k \in 1 .. n : calls'[k] = calls[k]
  BY <1>5, <1>6, Running
<1>8. /\ Base(n + 1)' = s - 3
      /\ \A k \in 1 .. n : Base(k)' = Base(k)
  BY <1>1, <1>6, <1>7 DEF Base
<1>9. lynx_p_pack(i, d) \in Content /\ Zero \in Content
  BY DEF lynx_p_pack, Content, Zero
<1>10. /\ stack' \in [Page -> Content]
       /\ \A a \in Page : a > s => stack'[a] = stack[a]
       /\ stack'[s] = Zero /\ stack'[s - 1] = Zero /\ stack'[s - 2] = lynx_p_pack(i, d)
  BY <1>3, <1>5, <1>9, StackAssumption DEF IInv, TypeOK, Page
<1>11. TypeOK'
  <2>1. s' \in Page
    BY <1>3, <1>5, StackAssumption DEF Page
  <2>. QED BY <1>1, <1>5, <1>7, <1>10, <2>1 DEF IInv, TypeOK, Page
<1>12. \A k \in 1 .. n : Base(k) \in Int /\ Base(k) >= s /\ calls[k].s \in Page
  BY Running DEF Levels, Activations
<1>13. ASSUME NEW k \in Levels', k > 1
       PROVE  Framed(k)' /\ calls'[k].s = Base(k - 1)' - calls'[k - 1].pushed
  <2>1. CASE k = n + 1
    <3>1. Framed(k)'
      BY <2>1, <1>3, <1>6, <1>7, <1>8, <1>10 DEF Framed
    <3>2. s = Base(n) - calls[n].pushed
      BY Running DEF IInv, InPlace
    <3>. QED BY <2>1, <3>1, <3>2, <1>1, <1>6, <1>7, <1>8
  <2>2. CASE k \in 1 .. n
    <3>1. Framed(k) /\ calls[k].s = Base(k - 1) - calls[k - 1].pushed
      BY <2>2, <1>13 DEF IInv, InPlace, Levels
    <3>2. Base(k) = calls[k].s - 3 /\ Base(k) + 3 \in Page /\ Base(k) + 2 \in Page /\ Base(k) + 1 \in Page
      <4>1. Base(k) = calls[k].s - 3 /\ Base(k) \in Int /\ Base(k) >= s /\ calls[k].s \in Page
        BY <2>2, <1>12, <1>13 DEF Base
      <4>2. PICK b \in Int, c \in Page : b = Base(k) /\ c = calls[k].s
        BY <4>1
      <4>3. b = c - 3 /\ b >= s /\ s \in Int /\ s >= 3 /\ StackSize \in Nat
        BY <4>1, <4>2, <1>3, StackAssumption
      <4>4. b + 3 \in Page /\ b + 2 \in Page /\ b + 1 \in Page
        BY <4>3 DEF Page
      <4>. QED BY <4>1, <4>2, <4>4
    <3>3. Framed(k)'
      BY <2>2, <3>1, <3>2, <1>3, <1>7, <1>8, <1>10, <1>12 DEF Framed
    <3>4. k - 1 \in 1 .. n
      BY <2>2, <1>13
    <3>. QED BY <2>2, <3>1, <3>3, <3>4, <1>7, <1>8
  <2>. QED BY <2>1, <2>2, <1>1, <1>7 DEF Levels
<1>14. InPlace'
  <2>1. calls'[1].s = StackSize - 1
    BY <1>1, <1>7 DEF IInv, InPlace
  <2>2. Top' = top
    BY <1>7 DEF Top
  <2>3. s' = Base(Len(calls))' - Top'.pushed
    BY <2>2, <1>3, <1>5, <1>6, <1>7, <1>8
  <2>. QED BY <2>1, <2>3, <1>13 DEF InPlace
<1>15. Stacked'
  <2>1. \A k \in Levels' : StackSize - 1 - Depth(k) <= Base(k)' /\ s' <= Base(k)'
    BY <1>1, <1>3, <1>5, <1>7, <1>8, <1>12 DEF IInv, Stacked, Levels
  <2>2. \A m \in Levels', k \in Levels' : k < m => calls'[m].s <= Base(k)'
    BY <1>1, <1>3, <1>6, <1>7, <1>8, <1>12 DEF IInv, Stacked, Levels
  <2>. QED BY <2>1, <2>2 DEF Stacked, Depth
<1>. QED BY <1>5, <1>11, <1>14, <1>15 DEF IInv, SavedEmpty

\* A frame survives what writes no byte above its activation's base.
LEMMA FrameKept ==
  ASSUME IInv, NEW k \in Levels, k > 1,
         calls'[k].s = calls[k].s, calls'[k].i = calls[k].i, calls'[k].d = calls[k].d,
         \A a \in Page : a > Base(k) => stack'[a] = stack[a]
  PROVE  Framed(k)' /\ Base(k)' = Base(k)
<1>1. Framed(k) /\ Base(k) = calls[k].s - 3 /\ Base(k)' = Base(k)
  BY DEF IInv, InPlace, Base
<1>2. calls[k].s \in Page /\ Base(k) >= s /\ s \in Page /\ StackSize \in Nat
  BY Running DEF Activations, Page
<1>3. Base(k) + 3 \in Page /\ Base(k) + 2 \in Page /\ Base(k) + 1 \in Page /\ Base(k) \in Int
  BY <1>1, <1>2 DEF Page
<1>4. /\ stack'[Base(k) + 3] = stack[Base(k) + 3]
      /\ stack'[Base(k) + 2] = stack[Base(k) + 2]
      /\ stack'[Base(k) + 1] = stack[Base(k) + 1]
  BY <1>3
<1>. QED BY <1>1, <1>4 DEF Framed

\* There is room for what the running activation may still push.
LEMMA RoomLeft ==
  ASSUME IInv
  PROVE  s >= MaxPushed - Top.pushed
<1>. PICK n \in 1 .. MaxNest + 1 : n = Len(calls)
  BY Running
<1>1. Depth(n) \in Nat /\ Depth(n) + MaxPushed < StackSize
  BY DepthFits
<1>2. PICK b \in Int, p \in Nat : b = Base(n) /\ p = Top.pushed
  BY Running DEF Levels, Activations
<1>3. PICK e \in Nat : e = Depth(n)
  BY <1>1
<1>4. s = b - p /\ b >= StackSize - 1 - e
  BY <1>2, <1>3, Running DEF IInv, InPlace
<1>5. StackSize \in Nat /\ MaxPushed \in Nat /\ e + MaxPushed < StackSize
  BY <1>1, <1>3, StackAssumption
<1>6. s >= MaxPushed - p
  BY <1>4, <1>5
<1>. QED BY <1>2, <1>6

\* Pulled bytes are forgotten, and no others.
LEMMA Forgotten ==
  ASSUME IInv, NEW m \in 1 .. 3, s + m \in Page, Forget(m)
  PROVE  stack' \in [Page -> Content] /\ \A a \in Page : a > s + m => stack'[a] = stack[a]
<1>1. s \in Page /\ StackSize \in Nat
  BY Running DEF Page
<1>2. \A k \in 1 .. m : (s + k) % StackSize = s + k
  <2>. SUFFICES ASSUME NEW k \in 1 .. m PROVE (s + k) % StackSize = s + k
    OBVIOUS
  <2>1. s + k \in Page
    BY <1>1 DEF Page
  <2>. QED BY <2>1, NoWrap
<1>3. GameByte \in Content /\ stack \in [Page -> Content]
  BY DEF Content, IInv, TypeOK
<1>. QED BY <1>1, <1>2, <1>3 DEF Forget, Page

\* Flags that have been packed are unpacked as they were.
LEMMA PackedFlags ==
  ASSUME NEW m \in BOOLEAN, NEW x \in BOOLEAN
  PROVE  /\ lynx_p_pack(m, x) # GameByte
         /\ "I" \in lynx_p_pack(m, x) <=> m
         /\ "D" \in lynx_p_pack(m, x) <=> x
BY DEF lynx_p_pack, GameByte

\* What a return leaves of the C stack.
LEMMA Returned ==
  ASSUME NEW S, NEW t \in Seq(S), NEW n \in Nat, n = Len(t), n > 1
  PROVE  /\ SubSeq(t, 1, n - 1) \in Seq(S) /\ Len(SubSeq(t, 1, n - 1)) = n - 1
         /\ \A k \in 1 .. n - 1 : SubSeq(t, 1, n - 1)[k] = t[k]
OBVIOUS

\* A return leaves the stack, and the flags, as the delivery found them.
LEMMA ReturnInv ==
  ASSUME IInv, lynx_rti
  PROVE  IInv' /\ s' = Top.s /\ i' = Top.i /\ d' = Top.d
<1>. PICK n \in Nat : n = Len(calls)
  BY Running
<1>1. n > 1 /\ n <= MaxNest + 1 /\ n \in Levels /\ n - 1 \in Levels /\ MaxNest \in Nat
  BY Running DEF lynx_rti, Levels
<1>2. /\ Top = calls[n] /\ Top \in Activations /\ Top.pushed = 0 /\ Framed(n)
      /\ Base(n) = s /\ Top.s = s + 3 /\ s \in Page /\ s + 3 \in Page /\ StackSize \in Nat
  <2>1. Top = calls[n] /\ Top \in Activations /\ Top.pushed = 0 /\ Framed(n)
    BY <1>1, Running DEF lynx_rti, IInv, InPlace
  <2>2. Base(n) = s /\ Base(n) = calls[n].s - 3 /\ calls[n].s \in Page /\ s \in 0 .. StackSize - 1
        /\ StackSize \in Nat
    <3>1. s = Base(n) - Top.pushed /\ Base(n) \in Int /\ s \in 0 .. StackSize - 1 /\ StackSize \in Nat
      BY <1>1, Running DEF IInv, InPlace
    <3>2. Base(n) = calls[n].s - 3 /\ calls[n].s \in Page
      BY <1>1, <2>1 DEF Base, Activations
    <3>. QED BY <2>1, <3>1, <3>2
  <2>. QED BY <2>1, <2>2 DEF Page
<1>3. s + 1 \in Page /\ (s + 1) % StackSize = s + 1 /\ (s + 3) % StackSize = s + 3
  <2>1. s + 1 \in Page
    BY <1>2 DEF Page
  <2>. QED BY <2>1, <1>2, NoWrap
<1>4. s' = Top.s
  BY <1>2, <1>3 DEF lynx_rti
<1>5. i' = Top.i /\ d' = Top.d
  <2>1. stack[(s + 1) % StackSize] = lynx_p_pack(Top.i, Top.d)
    BY <1>2, <1>3 DEF Framed
  <2>2. lynx_p_unpack(lynx_p_pack(Top.i, Top.d))
    BY <2>1 DEF lynx_rti
  <2>3. Top.i \in BOOLEAN /\ Top.d \in BOOLEAN
    BY <1>2 DEF Activations
  <2>4. /\ lynx_p_pack(Top.i, Top.d) # GameByte
        /\ "I" \in lynx_p_pack(Top.i, Top.d) <=> Top.i
        /\ "D" \in lynx_p_pack(Top.i, Top.d) <=> Top.d
    BY <2>3, PackedFlags
  <2>. QED BY <2>2, <2>3, <2>4 DEF lynx_p_unpack
<1>6. /\ Len(calls') = n - 1 /\ calls' \in Seq(Activations)
      /\ \A k \in 1 .. n - 1 : calls'[k] = calls[k]
  <2>1. calls \in Seq(Activations) /\ calls' = SubSeq(calls, 1, n - 1)
    BY Running DEF lynx_rti
  <2>. QED BY <2>1, <1>1, Returned
<1>7. /\ stack' \in [Page -> Content]
      /\ \A a \in Page : a > s + 3 => stack'[a] = stack[a]
  BY <1>2, Forgotten DEF lynx_rti
<1>8. ASSUME NEW k \in 1 .. n - 1
      PROVE  /\ k \in Levels /\ k < n /\ Base(k)' = Base(k) /\ Base(k) \in Int
             /\ calls[k] \in Activations /\ s + 3 <= Base(k)
  <2>1. k \in Levels /\ k < n
    BY <1>1 DEF Levels
  <2>. QED BY <2>1, <1>1, <1>2, <1>6, Running DEF Base, IInv, Stacked
<1>9. TypeOK'
  <2>1. lynx_irq_latch' \subseteq Source /\ saved' \in [Slot -> SavedMachine \cup {NoSave}]
    BY DEF lynx_rti, IInv, TypeOK
  <2>2. s' \in Page /\ i' \in BOOLEAN /\ d' \in BOOLEAN
    BY <1>2, <1>4, <1>5 DEF Activations
  <2>3. Len(calls') \in 1 .. MaxNest + 1
    BY <1>1, <1>6
  <2>. QED BY <2>1, <2>2, <2>3, <1>6, <1>7 DEF TypeOK
<1>10. InPlace'
  <2>1. calls'[1].s = StackSize - 1
    BY <1>1, <1>6 DEF IInv, InPlace
  <2>2. ASSUME NEW k \in Levels', k > 1
        PROVE  Framed(k)' /\ calls'[k].s = Base(k - 1)' - calls'[k - 1].pushed
    <3>1. k \in 1 .. n - 1 /\ k - 1 \in 1 .. n - 1
      BY <2>2, <1>1, <1>6 DEF Levels
    <3>2. \A a \in Page : a > Base(k) => stack'[a] = stack[a]
      <4>1. s + 3 <= Base(k) /\ Base(k) \in Int /\ s \in Int
        BY <3>1, <1>2, <1>8 DEF Page
      <4>2. \A a \in Page : a > Base(k) => a > s + 3
        BY <4>1 DEF Page
      <4>. QED BY <4>2, <1>7
    <3>3. Framed(k)'
      BY <3>1, <3>2, <2>2, <1>6, <1>8, FrameKept
    <3>4. calls[k].s = Base(k - 1) - calls[k - 1].pushed
      BY <3>1, <2>2, <1>8 DEF IInv, InPlace
    <3>. QED BY <3>1, <3>3, <3>4, <1>6, <1>8
  <2>3. s' = Base(Len(calls))' - Top'.pushed
    <3>1. calls[n].s = Base(n - 1) - calls[n - 1].pushed
      BY <1>1 DEF IInv, InPlace
    <3>2. n - 1 \in 1 .. n - 1 /\ Top' = calls'[n - 1]
      BY <1>1, <1>6 DEF Top
    <3>3. Top' = calls[n - 1] /\ Base(Len(calls))' = Base(n - 1)
      BY <3>2, <1>6, <1>1 DEF Base
    <3>. QED BY <3>1, <3>3, <1>2, <1>4
  <2>. QED BY <2>1, <2>2, <2>3 DEF InPlace
<1>11. Stacked'
  <2>1. Levels' = 1 .. n - 1
    BY <1>6 DEF Levels
  <2>2. \A k \in 1 .. n - 1 : StackSize - 1 - Depth(k) <= Base(k)' /\ s' <= Base(k)'
    BY <1>2, <1>4, <1>8 DEF IInv, Stacked
  <2>3. \A m \in 1 .. n - 1 : \A k \in 1 .. n - 1 : k < m => calls'[m].s <= Base(k)'
    BY <1>6, <1>8 DEF IInv, Stacked
  <2>. QED BY <2>1, <2>2, <2>3 DEF Stacked, Depth
<1>. QED BY <1>1, <1>4, <1>5, <1>6, <1>9, <1>10, <1>11 DEF IInv, SavedEmpty, lynx_rti

\* The running activation has another number of bytes on the stack.
LEMMA BytesInv ==
  ASSUME IInv, NEW p \in 0 .. MaxPushed,
         calls' = [calls EXCEPT ![Len(calls)].pushed = p],
         s' = Base(Len(calls)) - p, s' \in Page,
         stack' \in [Page -> Content],
         \A a \in Page : a > Base(Len(calls)) => stack'[a] = stack[a],
         UNCHANGED <<lynx_irq_latch, i, d, saved>>
  PROVE  IInv'
<1>. PICK n \in Nat : n = Len(calls)
  BY Running
<1>1. n >= 1 /\ n \in Levels /\ Levels = 1 .. n /\ calls \in Seq(Activations)
  BY Running DEF Levels
<1>2. [calls[n] EXCEPT !.pushed = p] \in Activations
  BY <1>1, Running DEF Activations
<1>3. /\ Len(calls') = n /\ Levels' = Levels /\ calls' \in Seq(Activations)
      /\ calls'[n] = [calls[n] EXCEPT !.pushed = p]
      /\ \A k \in Levels : k # n => calls'[k] = calls[k]
  BY <1>1, <1>2 DEF Levels
<1>4. ASSUME NEW k \in Levels
      PROVE  /\ calls'[k].s = calls[k].s /\ calls'[k].i = calls[k].i /\ calls'[k].d = calls[k].d
             /\ Base(k)' = Base(k)
  <2>1. calls'[k].s = calls[k].s /\ calls'[k].i = calls[k].i /\ calls'[k].d = calls[k].d
    <3>1. CASE k = n
      <4>1. calls[n] \in Activations /\ calls'[n] = [calls[n] EXCEPT !.pushed = p]
        BY <1>1, <1>3, Running
      <4>. QED BY <3>1, <4>1 DEF Activations
    <3>2. CASE k # n
      BY <3>2, <1>3
    <3>. QED BY <3>1, <3>2
  <2>. QED BY <2>1 DEF Base
<1>5. calls'[n].pushed = p
  BY <1>1, <1>3, Running DEF Activations
<1>6. ASSUME NEW k \in Levels
      PROVE  Base(k) \in Int /\ Base(n) \in Int /\ Base(n) <= Base(k)
  <2>1. Base(k) \in Int /\ Base(n) \in Int
    BY <1>1, Running
  <2>2. CASE k = n
    BY <2>1, <2>2
  <2>3. CASE k < n
    <3>1. n > 1 /\ calls[n].s <= Base(k) /\ calls[n].s \in Page
      BY <1>1, <2>3, Running DEF IInv, Stacked, Activations, Levels
    <3>2. Base(n) = calls[n].s - 3
      BY <3>1 DEF Base
    <3>. QED BY <2>1, <3>1, <3>2, Running DEF Page
  <2>. QED BY <2>2, <2>3, <1>1
<1>7. TypeOK'
  BY <1>3, Running DEF IInv, TypeOK
<1>8. InPlace'
  <2>1. calls'[1].s = StackSize - 1
    BY <1>1, <1>4 DEF IInv, InPlace
  <2>2. ASSUME NEW k \in Levels', k > 1
        PROVE  Framed(k)' /\ calls'[k].s = Base(k - 1)' - calls'[k - 1].pushed
    <3>1. k \in Levels /\ k - 1 \in Levels /\ k - 1 # n
      BY <2>2, <1>1, <1>3
    <3>2. \A a \in Page : a > Base(k) => stack'[a] = stack[a]
      BY <3>1, <1>6, Running DEF Page
    <3>3. Framed(k)'
      BY <3>1, <3>2, <2>2, <1>4, FrameKept
    <3>. QED BY <3>1, <3>3, <2>2, <1>3, <1>4 DEF IInv, InPlace
  <2>3. Top' = calls'[n] /\ Base(Len(calls))' = Base(n)
    BY <1>1, <1>3, <1>4 DEF Top, Base
  <2>. QED BY <2>1, <2>2, <2>3, <1>5 DEF InPlace
<1>9. Stacked'
  <2>1. \A k \in Levels : StackSize - 1 - Depth(k) <= Base(k)' /\ s' <= Base(k)'
    <3>. SUFFICES ASSUME NEW k \in Levels
                  PROVE  StackSize - 1 - Depth(k) <= Base(k)' /\ s' <= Base(k)'
      OBVIOUS
    <3>1. Base(n) - p <= Base(k)
      BY <1>6, Running
    <3>. QED BY <3>1, <1>4 DEF IInv, Stacked
  <2>2. \A m \in Levels : \A k \in Levels : k < m => calls'[m].s <= Base(k)'
    BY <1>4 DEF IInv, Stacked
  <2>. QED BY <2>1, <2>2, <1>3 DEF Stacked, Depth
<1>. QED BY <1>3, <1>7, <1>8, <1>9 DEF IInv, SavedEmpty

LEMMA PushInv == ASSUME IInv, Push PROVE IInv'
<1>0. Len(calls) \in Nat /\ Base(Len(calls)) \in Int /\ Top.pushed \in 0 .. MaxPushed
  <2>1. Len(calls) \in Levels /\ Top \in Activations
    BY Running DEF Levels
  <2>. QED BY <2>1, Running DEF Activations
<1>. PICK n \in Nat, b \in Int, p \in 0 .. MaxPushed :
       n = Len(calls) /\ b = Base(n) /\ p = Top.pushed
  BY <1>0
<1>1. s = b - p /\ p < MaxPushed /\ s >= MaxPushed - p /\ s <= b
  BY RoomLeft, Running DEF IInv, InPlace, Push, Levels
<1>2. s \in Page /\ s >= 1 /\ MaxPushed \in Nat /\ StackSize \in Nat /\ s - 1 \in Page
  <2>1. MaxPushed \in Nat /\ StackSize \in Nat /\ s \in 0 .. StackSize - 1
    BY Running
  <2>2. s >= 1
    BY <2>1, <1>1
  <2>. QED BY <2>1, <2>2 DEF Page
<1>3. Below(s, 1) = s - 1
  BY <1>2, NoWrap DEF Below
<1>4. calls' = [calls EXCEPT ![n].pushed = p + 1] /\ p + 1 \in 0 .. MaxPushed
  <2>1. calls' = [calls EXCEPT ![n].pushed = calls[n].pushed + 1] /\ calls[n].pushed = p
    BY DEF Push, Top
  <2>2. p < MaxPushed /\ MaxPushed \in Nat
    BY <1>1, <1>2
  <2>3. p + 1 \in 0 .. MaxPushed
    BY ONLY p \in 0 .. MaxPushed, <2>2
  <2>. QED BY <2>1, <2>3
<1>5. s' = b - (p + 1) /\ s' \in Page
  BY <1>1, <1>2, <1>3 DEF Push
<1>6. stack' \in [Page -> Content] /\ \A a \in Page : a > b => stack'[a] = stack[a]
  <2>1. GameByte \in Content /\ stack \in [Page -> Content] /\ stack' = [stack EXCEPT ![s] = GameByte]
    BY DEF Content, IInv, TypeOK, Push
  <2>2. stack' \in [Page -> Content]
    BY <2>1
  <2>3. \A a \in Page : a > b => a # s
    BY <1>1, <1>2 DEF Page
  <2>4. \A a \in Page : a # s => stack'[a] = stack[a]
    BY <2>1
  <2>. QED BY <2>2, <2>3, <2>4
<1>. QED BY <1>4, <1>5, <1>6, BytesInv DEF Push

LEMMA PullInv == ASSUME IInv, Pull PROVE IInv'
<1>0. Len(calls) \in Nat /\ Base(Len(calls)) \in Int /\ Top.pushed \in 0 .. MaxPushed
  <2>1. Len(calls) \in Levels /\ Top \in Activations
    BY Running DEF Levels
  <2>. QED BY <2>1, Running DEF Activations
<1>. PICK n \in Nat, b \in Int, p \in 0 .. MaxPushed :
       n = Len(calls) /\ b = Base(n) /\ p = Top.pushed
  BY <1>0
<1>1. s = b - p /\ p > 0 /\ s \in 0 .. StackSize - 1 /\ StackSize \in Nat /\ MaxPushed \in Nat
  BY Running DEF IInv, InPlace, Pull
<1>2. b <= StackSize - 1
  <2>1. calls[n] \in Activations /\ b = Base(n)
    BY Running DEF Levels
  <2>. QED BY <2>1, <1>1 DEF Base, Activations, Page
<1>3. s + 1 \in Page /\ s + 1 <= b
  BY <1>1, <1>2 DEF Page
<1>4. calls' = [calls EXCEPT ![n].pushed = p - 1] /\ p - 1 \in 0 .. MaxPushed
  <2>1. calls' = [calls EXCEPT ![n].pushed = calls[n].pushed - 1] /\ calls[n].pushed = p
    BY DEF Pull, Top
  <2>2. p - 1 \in 0 .. MaxPushed
    BY <1>1
  <2>. QED BY <2>1, <2>2
<1>5. s' = b - (p - 1) /\ s' \in Page
  BY <1>1, <1>3, NoWrap DEF Pull
<1>6. stack' \in [Page -> Content] /\ \A a \in Page : a > s + 1 => stack'[a] = stack[a]
  BY <1>3, Forgotten DEF Pull
<1>7. \A a \in Page : a > b => stack'[a] = stack[a]
  BY <1>1, <1>3, <1>6 DEF Page
<1>. QED BY <1>4, <1>5, <1>6, <1>7, BytesInv DEF Pull

\* A load brings back a stack that is empty, to a program whose stack is.
LEMMA LoadInv == ASSUME IInv, MainOnly, NEW n \in Slot, state_load(n) PROVE IInv'
<1>1. /\ Len(calls) = 1 /\ Top = calls[1] /\ Top.pushed = 0 /\ Levels = {1}
      /\ saved[n] \in SavedMachine /\ saved[n].s = StackSize - 1
      /\ (~saved[n].i => 1 <= MaxNest)
  <2>1. Len(calls) = 1 /\ Top.pushed = 0 /\ saved[n] # NoSave
    BY DEF state_load, SavePoint
  <2>2. Top = calls[1] /\ Levels = {1}
    BY <2>1 DEF Top, Levels
  <2>3. saved[n] \in SavedMachine
    BY <2>1 DEF IInv, TypeOK
  <2>4. saved[n].s = StackSize - 1 /\ (~saved[n].i => 1 <= MaxNest)
    BY <2>1 DEF IInv, SavedEmpty
  <2>. QED BY <2>1, <2>2, <2>3, <2>4
<1>2. calls' = calls /\ saved' = saved /\ s' = StackSize - 1 /\ Levels' = {1} /\ Top' = calls[1]
  BY <1>1 DEF state_load, Levels, Top
<1>3. calls[1].s = StackSize - 1 /\ Base(1)' = StackSize - 1 /\ Base(Len(calls))' = StackSize - 1
  BY <1>1, <1>2 DEF IInv, InPlace, Base
<1>4. TypeOK'
  BY <1>1, <1>2 DEF state_load, SavedMachine, IInv, TypeOK
<1>5. s' = Base(Len(calls))' - Top'.pushed
  <2>1. Top'.pushed = 0
    BY <1>1, <1>2
  <2>. QED BY <2>1, <1>2, <1>3, StackAssumption
<1>6. \A k \in Levels' : ~(k > 1)
  BY <1>2
<1>7. InPlace'
  BY <1>2, <1>3, <1>5, <1>6 DEF InPlace
<1>8. Depth(1) = 0
  BY StackAssumption DEF Depth
<1>9. Stacked'
  <2>1. \A k \in Levels' : StackSize - 1 - Depth(k) <= Base(k)' /\ s' <= Base(k)'
    BY <1>2, <1>3, <1>8, StackAssumption
  <2>2. \A m \in Levels' : \A k \in Levels' : ~(k < m)
    BY <1>2
  <2>. QED BY <2>1, <2>2 DEF Stacked, Depth
<1>. QED BY <1>1, <1>2, <1>4, <1>7, <1>9 DEF state_load, IInv, SavedEmpty

LEMMA SaveInv == ASSUME IInv, MainOnly, NEW n \in Slot, state_save(n) PROVE IInv'
<1>. DEFINE r == [latch |-> lynx_irq_latch, s |-> s, i |-> i, d |-> d, stack |-> stack]
<1>1. r \in SavedMachine /\ saved' = [saved EXCEPT ![n] = r] /\ saved \in [Slot -> SavedMachine \cup {NoSave}]
  BY DEF state_save, SavedMachine, IInv, TypeOK
<1>2. Len(calls) = 1 /\ Top.pushed = 0 /\ s = StackSize - 1
  <2>1. Len(calls) = 1 /\ Top.pushed = 0
    BY DEF state_save, SavePoint
  <2>2. s = Base(1) - Top.pushed /\ Base(1) = StackSize - 1
    BY <2>1 DEF IInv, InPlace, Base
  <2>. QED BY <2>1, <2>2, StackAssumption
<1>3. ~i => 1 <= MaxNest
  BY <1>2 DEF IInv
<1>4. SavedEmpty'
  <2>. SUFFICES ASSUME NEW m \in Slot, saved'[m] # NoSave
                PROVE  saved'[m].s = StackSize - 1 /\ (~saved'[m].i => 1 <= MaxNest)
    BY DEF SavedEmpty
  <2>1. CASE m = n
    BY <2>1, <1>1, <1>2, <1>3
  <2>2. CASE m # n
    BY <2>2, <1>1 DEF IInv, SavedEmpty
  <2>. QED BY <2>1, <2>2
<1>5. saved' \in [Slot -> SavedMachine \cup {NoSave}]
  BY <1>1
<1>6. UNCHANGED <<lynx_irq_latch, s, i, d, stack, calls>>
  BY DEF state_save
<1>7. TypeOK'
  BY <1>5, <1>6 DEF IInv, TypeOK
<1>. QED BY <1>4, <1>6, <1>7 DEF IInv, InPlace, Stacked, Framed, Base, Top, Levels

\* What touches neither stack.
LEMMA ElsewhereInv ==
  ASSUME IInv, lynx_irq_latch' \subseteq Source, i' \in BOOLEAN, d' \in BOOLEAN,
         ~i' => Len(calls) <= MaxNest, UNCHANGED <<s, stack, calls, saved>>
  PROVE  IInv'
BY DEF IInv, TypeOK, InPlace, Stacked, Framed, Base, Top, Levels, SavedEmpty

LEMMA NextInv == MainOnly /\ IInv /\ [Next]_vars => IInv'
<1>. SUFFICES ASSUME MainOnly, IInv, [Next]_vars PROVE IInv'
  OBVIOUS
<1>0. lynx_irq_latch \subseteq Source /\ i \in BOOLEAN /\ d \in BOOLEAN /\ (~i => Len(calls) <= MaxNest)
  BY DEF IInv, TypeOK
<1>1. CASE lynx_tick
  <2>1. lynx_irq_latch' \subseteq Source /\ UNCHANGED saved
    BY <1>0, <1>1 DEF lynx_tick
  <2>2. CASE lynx_irq_deliver /\ ~i
    BY <2>1, <2>2, DeliverInv
  <2>3. CASE UNCHANGED <<s, i, d, stack, calls>>
    BY <2>1, <2>3, <1>0, ElsewhereInv
  <2>. QED BY <2>2, <2>3, <1>1 DEF lynx_tick
<1>2. CASE lynx_rti
  BY <1>2, ReturnInv
<1>3. ASSUME NEW b \in BOOLEAN, SetMask(b) PROVE IInv'
  BY <1>0, <1>3, Running, ElsewhereInv DEF SetMask
<1>4. ASSUME NEW b \in BOOLEAN, SetDecimal(b) PROVE IInv'
  BY <1>0, <1>4, ElsewhereInv DEF SetDecimal
<1>5. CASE Push
  BY <1>5, PushInv
<1>6. CASE Pull
  BY <1>6, PullInv
<1>7. ASSUME NEW mask \in SUBSET Source, Acknowledge(mask) PROVE IInv'
  BY <1>0, <1>7, ElsewhereInv DEF Acknowledge
<1>8. ASSUME NEW n \in Slot, state_save(n) PROVE IInv'
  BY <1>8, SaveInv
<1>9. ASSUME NEW n \in Slot, state_load(n) PROVE IInv'
  BY <1>9, LoadInv
<1>10. CASE UNCHANGED vars
  BY <1>0, <1>10, ElsewhereInv DEF vars
<1>. QED BY <1>1, <1>2, <1>3, <1>4, <1>5, <1>6, <1>7, <1>8, <1>9, <1>10 DEF Next, Runtime, Game, FrameHook

\* The places without wraps are the places.
LEMMA InvAgrees == IInv => StacksAgree
<1>. SUFFICES ASSUME IInv PROVE StacksAgree
  OBVIOUS
<1>1. \A a \in Page, m \in 0 .. 3 : a - m \in Page => Below(a, m) = a - m
  BY NoWrap DEF Below
<1>2. ASSUME NEW k \in Levels
      PROVE  /\ Bottom(k) = Base(k) /\ Base(k) \in Page
             /\ calls[k].pushed \in 0 .. MaxPushed /\ calls[k].s \in Page
  <2>1. calls[k].s \in Page /\ calls[k].pushed \in 0 .. MaxPushed
    BY Running DEF Activations
  <2>2. Base(k) \in Page
    <3>1. PICK b \in Int, c \in 0 .. StackSize - 1 : b = Base(k) /\ c = calls[k].s
      BY <2>1, Running DEF Page
    <3>2. b >= s /\ s \in 0 .. StackSize - 1 /\ StackSize \in Nat /\ (b = c \/ b = c - 3)
      BY <3>1, Running DEF Base
    <3>3. b \in Page
      BY <3>2 DEF Page
    <3>. QED BY <3>1, <3>3
  <2>. QED BY <1>1, <2>1, <2>2 DEF Bottom, Base
<1>3. ASSUME NEW k \in 2 .. Len(calls)
      PROVE  FrameOf(k) /\ calls[k].s = Below(Bottom(k - 1), calls[k - 1].pushed)
  <2>1. k \in Levels /\ k - 1 \in Levels /\ k > 1
    BY <1>3, Running DEF Levels
  <2>2. Framed(k) /\ calls[k].s = Base(k - 1) - calls[k - 1].pushed /\ Base(k) = calls[k].s - 3
    BY <2>1 DEF IInv, InPlace, Base
  <2>3. Base(k) + 3 = calls[k].s /\ Base(k) + 2 = calls[k].s - 1 /\ Base(k) + 1 = calls[k].s - 2
        /\ calls[k].s - 1 \in Page /\ calls[k].s - 2 \in Page
    <3>. PICK b \in Page, c \in Page : b = Base(k) /\ c = calls[k].s
      BY <2>1, <1>2
    <3>1. b = c - 3 /\ b \in 0 .. StackSize - 1 /\ c \in 0 .. StackSize - 1 /\ StackSize \in Nat
      BY <2>2, Running DEF Page
    <3>2. b + 3 = c /\ b + 2 = c - 1 /\ b + 1 = c - 2 /\ c - 1 \in Page /\ c - 2 \in Page
      BY <3>1 DEF Page
    <3>. QED BY <3>2
  <2>4. FrameOf(k)
    BY <2>1, <2>2, <2>3, <1>1, <1>2 DEF FrameOf, Framed
  <2>5. Below(Base(k - 1), calls[k - 1].pushed) = Base(k - 1) - calls[k - 1].pushed
    BY <2>1, <2>2, <1>2, NoWrap DEF Below
  <2>. QED BY <2>1, <2>2, <2>4, <2>5, <1>2
<1>4. s = Below(Bottom(Len(calls)), Top.pushed)
  <2>1. Len(calls) \in Levels /\ s \in Page /\ s = Base(Len(calls)) - Top.pushed
    BY Running DEF Levels, Page, IInv, InPlace
  <2>. QED BY <2>1, <1>2, NoWrap DEF Below
<1>. QED BY <1>3, <1>4 DEF StacksAgree

-----------------------------------------------------------------------------
LEMMA Invariant == MainOnly => (Spec => []IInv)
<1>. SUFFICES ASSUME MainOnly PROVE Spec => []IInv
  OBVIOUS
<1>1. Init => IInv
  BY InitialInv
<1>2. IInv /\ [Next]_vars => IInv'
  BY NextInv
<1>. QED BY <1>1, <1>2, PTL DEF Spec

\* The registers, the stack page and the C stack keep their ranges; the nesting
\* is never deeper than the game's handlers allow.
THEOREM ExecTypeCorrect == MainOnly => (Spec => []TypeOK)
<1>. SUFFICES ASSUME MainOnly PROVE Spec => []TypeOK
  OBVIOUS
<1>1. Spec => []IInv
  BY Invariant
<1>2. IInv => TypeOK
  BY DEF IInv
<1>. QED BY <1>1, <1>2, PTL

\* Whatever nests, and whatever the game pushes in between, each handler's frame
\* is where the C activation that returns through it expects it, and intact.
THEOREM StacksAlwaysAgree == MainOnly => (Spec => []StacksAgree)
<1>. SUFFICES ASSUME MainOnly PROVE Spec => []StacksAgree
  OBVIOUS
<1>1. Spec => []IInv
  BY Invariant
<1>. QED BY <1>1, InvAgrees, PTL

\* The code that an interrupt came into finds its stack pointer and its flags.
THEOREM HandlersLeaveNoTrace == MainOnly => (Spec => InterruptIsTransparent)
<1>. SUFFICES ASSUME MainOnly PROVE Spec => InterruptIsTransparent
  OBVIOUS
<1>1. Spec => []IInv
  BY Invariant
<1>2. IInv /\ [Next]_vars => [lynx_rti => s' = Top.s /\ i' = Top.i /\ d' = Top.d]_vars
  BY ReturnInv
<1>. QED BY <1>1, <1>2, PTL DEF Spec, InterruptIsTransparent
=============================================================================
