-------------------------------- MODULE Exec --------------------------------
(***************************************************************************)
(* The execution model of recompiled code: src/recomp_exec.c with the      *)
(* dispatch of src/recomp_rt.c and the flags and reset of src/cpu.c.  A    *)
(* game is C functions that never return to the host, so the runtime gets  *)
(* control only where the emitter planted lynx_tick, and delivers an       *)
(* interrupt by calling the handler's C function from there.  Two stacks   *)
(* have to stay in step: the C call stack, and the 6502 stack in RAM that  *)
(* the delivery and the game push on.                                      *)
(*                                                                         *)
(* Abstractions: a recompiled handler is registered at the vector; a timer *)
(* step is any set of sources underflowing (module Timer says which); of   *)
(* the flags only I and D are kept, the two that the delivery changes; the *)
(* game pushes and pulls bytes in pairs and returns from its handler with  *)
(* the stack as it found it, as correct 6502 code does.  Game actions are  *)
(* external: they are any game's, not the code of the repository.          *)
(***************************************************************************)
EXTENDS Integers, Sequences

CONSTANTS
  Source,      (* the interrupt sources, bits of lynx_irq_latch *)
  StackSize,   (* bytes of the 6502 stack page, 256 *)
  MaxNest,     (* bound: how deep the game lets its handlers nest *)
  MaxPushed,   (* bound: how many bytes each activation keeps on the stack *)
  MainOnly,    (* the host saves and loads only at flips of the main program *)
  Slot,        (* names of save states the host can write and load *)
  NoSave       (* what a slot holds before it is first written *)

\* The deepest nesting fits the stack page; on the real page that is 85
\* deliveries, fewer with the handlers' own pushes, and nothing checks it.
ASSUME StackAssumption ==
  /\ MaxNest \in Nat /\ MaxPushed \in Nat /\ StackSize \in Nat
  /\ 3 * MaxNest + MaxPushed * (MaxNest + 1) < StackSize
ASSUME MainOnlyAssumption == MainOnly \in BOOLEAN

VARIABLES
  lynx_irq_latch,
  s,      (* lynx_cpu.s: the next free byte of the stack page, growing down *)
  i,      (* lynx_cpu.i: interrupts are masked *)
  d,      (* lynx_cpu.d: decimal mode *)
  stack,  (* the stack page, lynx_ram from $0100 *)
  calls,  (* the C call stack: the game's main program, then interrupt handlers *)
  saved   (* the save states *)

vars == <<lynx_irq_latch, s, i, d, stack, calls, saved>>

Page == 0 .. StackSize - 1

\* A byte on the stack, by what pulling it into P would set: the flags packed by
\* a delivery, the zero in place of a program counter, or a byte of the game's,
\* which can be anything.
lynx_p_pack(mask, dec) == (IF mask THEN {"I"} ELSE {}) \cup (IF dec THEN {"D"} ELSE {})
Zero == {}
GameByte == {"any"}
Content == (SUBSET {"I", "D"}) \cup {GameByte}

\* An activation of C code: how many bytes it has pushed and not pulled, and,
\* for the properties, the registers when it was called.
Activation(s0, i0, d0) == [pushed |-> 0, s |-> s0, i |-> i0, d |-> d0]
Top == calls[Len(calls)]

\* lynx_cpu_reset, then the host calls the game's reset function.
Init ==
  /\ lynx_irq_latch = {}
  /\ s = StackSize - 1
  /\ i = TRUE
  /\ d = FALSE
  /\ stack = [a \in Page |-> GameByte]
  /\ calls = <<Activation(StackSize - 1, TRUE, FALSE)>>
  /\ saved = [n \in Slot |-> NoSave]

Below(a, n) == (a - n) % StackSize

\* A byte that has been pulled stays in RAM but nobody relies on it any more:
\* it is taken to be anything.
Forget(n) ==
  stack' = [a \in Page |-> IF \E k \in 1 .. n : a = (s + k) % StackSize THEN GameByte ELSE stack[a]]

\* lynx_irq_deliver: push PCH, PCL and P, mask, and call through the vector.
lynx_irq_deliver ==
  /\ stack' = [stack EXCEPT ![s] = Zero, ![Below(s, 1)] = Zero,
                            ![Below(s, 2)] = lynx_p_pack(i, d)]
  /\ s' = Below(s, 3)
  /\ i' = TRUE
  /\ d' = FALSE
  /\ calls' = Append(calls, Activation(s, i, d))

\* Mutants: the mask is not looked at; only an interrupt raised in this very
\* step is delivered.
lynx_tick_unmasked ==
  \E raised \in SUBSET Source :
    /\ lynx_irq_latch' = lynx_irq_latch \cup raised
    /\ IF lynx_irq_latch' # {}
       THEN lynx_irq_deliver
       ELSE UNCHANGED <<s, i, d, stack, calls>>
    /\ UNCHANGED saved

lynx_tick_edge ==
  \E raised \in SUBSET Source :
    /\ lynx_irq_latch' = lynx_irq_latch \cup raised
    /\ IF raised \ lynx_irq_latch # {} /\ ~i
       THEN lynx_irq_deliver
       ELSE UNCHANGED <<s, i, d, stack, calls>>
    /\ UNCHANGED saved

\* lynx_tick: the timers step, and one delivery is made if anything is pending,
\* whether it has just been raised or has waited for the mask to be cleared.
lynx_tick ==
  \E raised \in SUBSET Source :
    /\ lynx_irq_latch' = lynx_irq_latch \cup raised
    /\ IF lynx_irq_latch' # {} /\ ~i
       THEN lynx_irq_deliver
       ELSE UNCHANGED <<s, i, d, stack, calls>>
    /\ UNCHANGED saved

\* A mutant: D is not restored.
lynx_p_unpack_mask(byte) ==
  (IF byte = GameByte THEN i' \in BOOLEAN ELSE i' = ("I" \in byte)) /\ UNCHANGED d

lynx_p_unpack(byte) ==
  IF byte = GameByte
  THEN i' \in BOOLEAN /\ d' \in BOOLEAN
  ELSE i' = ("I" \in byte) /\ d' = ("D" \in byte)

\* A mutant: one byte too few is pulled.
lynx_rti_short ==
  /\ Len(calls) > 1
  /\ Top.pushed = 0
  /\ lynx_p_unpack(stack[(s + 1) % StackSize])
  /\ s' = (s + 2) % StackSize
  /\ Forget(2)
  /\ calls' = SubSeq(calls, 1, Len(calls) - 1)
  /\ UNCHANGED <<lynx_irq_latch, saved>>

\* lynx_rti and the return the emitter places after it.
lynx_rti ==
  /\ Len(calls) > 1
  /\ Top.pushed = 0
  /\ lynx_p_unpack(stack[(s + 1) % StackSize])
  /\ s' = (s + 3) % StackSize
  /\ Forget(3)
  /\ calls' = SubSeq(calls, 1, Len(calls) - 1)
  /\ UNCHANGED <<lynx_irq_latch, saved>>

Runtime == lynx_tick \/ lynx_rti

-----------------------------------------------------------------------------
\* The game: SEI, CLI, SED, CLD, a push and a pull, a write of INTRST.  It lets
\* its handlers nest no deeper than MaxNest.
SetMask(b) ==
  /\ ~b => Len(calls) <= MaxNest
  /\ i' = b
  /\ UNCHANGED <<lynx_irq_latch, s, d, stack, calls, saved>>

SetDecimal(b) == d' = b /\ UNCHANGED <<lynx_irq_latch, s, i, stack, calls, saved>>

Push ==
  /\ Top.pushed < MaxPushed
  /\ stack' = [stack EXCEPT ![s] = GameByte]
  /\ s' = Below(s, 1)
  /\ calls' = [calls EXCEPT ![Len(calls)].pushed = @ + 1]
  /\ UNCHANGED <<lynx_irq_latch, i, d, saved>>

Pull ==
  /\ Top.pushed > 0
  /\ s' = (s + 1) % StackSize
  /\ Forget(1)
  /\ calls' = [calls EXCEPT ![Len(calls)].pushed = @ - 1]
  /\ UNCHANGED <<lynx_irq_latch, i, d, saved>>

Acknowledge(mask) ==
  /\ lynx_irq_latch' = lynx_irq_latch \ mask
  /\ UNCHANGED <<s, i, d, stack, calls, saved>>

\* The host's frame hook runs inside the write that flips the display, which a
\* game can make at any of its points; MainOnly is a host that waits for a flip
\* outside the handlers, with nothing pushed.  The state holds RAM, the CPU and
\* the latch.
SavePoint == MainOnly => Len(calls) = 1 /\ Top.pushed = 0

state_save(n) ==
  /\ SavePoint
  /\ saved' = [saved EXCEPT ![n] =
       [latch |-> lynx_irq_latch, s |-> s, i |-> i, d |-> d, stack |-> stack]]
  /\ UNCHANGED <<lynx_irq_latch, s, i, d, stack, calls>>

state_load(n) ==
  /\ SavePoint
  /\ saved[n] # NoSave
  /\ lynx_irq_latch' = saved[n].latch
  /\ s' = saved[n].s
  /\ i' = saved[n].i
  /\ d' = saved[n].d
  /\ stack' = saved[n].stack
  /\ UNCHANGED <<calls, saved>>

Game ==
  \/ \E b \in BOOLEAN : SetMask(b) \/ SetDecimal(b)
  \/ Push \/ Pull
  \/ \E mask \in SUBSET Source : Acknowledge(mask)

FrameHook == \E n \in Slot : state_save(n) \/ state_load(n)

Next == Runtime \/ Game \/ FrameHook

\* A game spends its waits in loops, whose back-edges tick.
Spec == Init /\ [][Next]_vars /\ WF_vars(lynx_tick)

-----------------------------------------------------------------------------
Activations == [pushed : 0 .. MaxPushed, s : Page, i : BOOLEAN, d : BOOLEAN]

SavedMachine ==
  [latch : SUBSET Source, s : Page, i : BOOLEAN, d : BOOLEAN, stack : [Page -> Content]]

TypeOK ==
  /\ lynx_irq_latch \subseteq Source
  /\ s \in Page
  /\ i \in BOOLEAN
  /\ d \in BOOLEAN
  /\ stack \in [Page -> Content]
  /\ calls \in Seq(Activations) /\ Len(calls) \in 1 .. MaxNest + 1
  /\ saved \in [Slot -> SavedMachine \cup {NoSave}]

\* The two stacks agree: each handler's frame of three bytes lies where the C
\* activation that will return through it expects it, with the flags of the
\* code it interrupted, and the running activation's own bytes are on top.
FrameOf(k) ==
  /\ stack[calls[k].s] = Zero
  /\ stack[Below(calls[k].s, 1)] = Zero
  /\ stack[Below(calls[k].s, 2)] = lynx_p_pack(calls[k].i, calls[k].d)
Bottom(k) == IF k = 1 THEN calls[k].s ELSE Below(calls[k].s, 3)

StacksAgree ==
  /\ \A k \in 2 .. Len(calls) :
       FrameOf(k) /\ calls[k].s = Below(Bottom(k - 1), calls[k - 1].pushed)
  /\ s = Below(Bottom(Len(calls)), Top.pushed)

\* An interrupt is invisible to the code it interrupts: when the handler has
\* returned, the stack pointer and the flags are what they were.
InterruptIsTransparent ==
  [][lynx_rti => s' = Top.s /\ i' = Top.i /\ d' = Top.d]_vars

\* An interrupt that is pending while interrupts are unmasked is delivered, one
\* that came while they were masked included, unless the game acknowledges it
\* or masks them itself first.
PendingIsDelivered == (lynx_irq_latch # {} /\ ~i) ~> (lynx_irq_latch = {} \/ i)

\* FRONTEND.md says that a save state "serializes the full machine": whatever
\* the moment of a load, the loaded 6502 stack is the one the code that goes on
\* from there expects.
LoadRestoresAll == [][\A n \in Slot : state_load(n) => StacksAgree']_vars

=============================================================================
