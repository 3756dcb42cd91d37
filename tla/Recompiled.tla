----------------------------- MODULE Recompiled -----------------------------
(***************************************************************************)
(* A cartridge's code on its way to execution: the function table of       *)
(* Discovery is emitted as C (tools/m65c02recomp/emit.c), registered, and  *)
(* run (src/recomp_rt.c), with the C call stack in place of the 6502's     *)
(* return addresses.  Cpu is what it has to be equivalent to.              *)
(*                                                                         *)
(* Abstractions: registers and data are left out, so either arm of a       *)
(* branch may be taken and X is any table index; code does not modify      *)
(* itself; no fallback is installed for unregistered addresses, which is   *)
(* the default.  Interrupts are the subject of Exec.                       *)
(***************************************************************************)
EXTENDS Discovery

CONSTANTS
  MaxX,      (* bound: X selects an entry 0 .. MaxX of a jump table *)
  MaxFrames, (* bound: C activations *)
  Host       (* where the 6502 is when no recompiled code runs *)

\* The host is not part of the game.
ASSUME HostAssumption == Host \notin Addr

VARIABLES
  frames,  (* the C call stack: the function and the position in it *)
  lost     (* control went where the recompiled program has no code *)

vars == <<image, seeds, work, seen, funcs, ext, fn, addr, maxt, end, frames, lost>>

-----------------------------------------------------------------------------
\* Emission.  The addresses at which a decoding in a line from the start of a
\* function meets an instruction: the pre-pass that fills g_boundary, and the
\* walk that writes the statements, which also stops at a truncated one.
g_boundary(f) ==
  LET from[a \in 0 .. Space] ==
        IF a >= f.end THEN {} ELSE {a} \cup from[a + InsnAt(image, a).len]
  IN from[f.start]

Emitted(f) ==
  LET from[a \in 0 .. Space] ==
        IF a >= f.end \/ Truncated(image, a) THEN {} ELSE {a} \cup from[a + InsnAt(image, a).len]
  IN from[f.start]

\* A mutant: any address of the body is taken for a goto target.
in_func_range_bytes(f, a) == a >= f.start /\ a < f.end

in_func_range(f, a) == a >= f.start /\ a < f.end /\ a \in g_boundary(f)

is_func(a) == \E k \in DOMAIN funcs : funcs[k].start = a

\* A mutant: a jump to itself does not tick.
tick_if_back_later(in) == in.target < in.pc

tick_if_back(in) == in.target <= in.pc

\* How a taken branch or a jump to a known address is written.
Transfer(f, in) ==
  IF in_func_range(f, in.target) THEN "goto"
  ELSE IF is_func(in.target) THEN "tail call" ELSE "lynx_ext_jmp"

\* The statements of a function between which control passes without a tick:
\* from one to the next, and by a goto that plants none.
FallsThrough(in) == in.cflow \in {"NORMAL", "BRANCH", "CALL"}
Goes(f, in) == in.cflow \in {"BRANCH", "JMP"} /\ in.mode \in {"REL", "ABS"} /\ Transfer(f, in) = "goto"

Unticked(f) ==
  LET at(a) == InsnAt(image, a) IN
  {<<a, a + at(a).len>> : a \in {x \in Emitted(f) : FallsThrough(at(x))}} \cup
  {<<a, at(a).target>> : a \in {x \in Emitted(f) : Goes(f, at(x)) /\ ~tick_if_back(at(x))}}

-----------------------------------------------------------------------------
\* Execution.  A frame's position is an address, or Gone when the emitted code
\* goes on with a return after its tail call.
Gone == Space

FuncAt(a) == funcs[CHOOSE k \in DOMAIN funcs : funcs[k].start = a]
Frame(a) == [f |-> a, at |-> a]
Top == Last(frames)
Moved(at) == ReplaceAt(frames, Len(frames), [Top EXCEPT !.at = at])

\* lynx_call_addr: a registered address is called; for any other the address is
\* recorded and nothing is run.
lynx_call_addr(stack, a) ==
  IF is_func(a)
  THEN frames' = Append(stack, Frame(a)) /\ UNCHANGED lost
  ELSE frames' = stack /\ lost' = TRUE

\* The host calls the game through the dispatch table.
HostCall ==
  /\ Discovered
  /\ frames = <<>> /\ ~lost
  /\ \E a \in ToSet(seeds) : lynx_call_addr(<<>>, a)
  /\ UNCHANGED discVars

Running == frames # <<>>
TopInsn == InsnAt(image, Top.at)
AtStatement == Running /\ Top.at # Gone /\ Top.at \in Emitted(FuncAt(Top.f))

\* After the last statement of a function, and after a tail call, it returns.
EndOfFunction ==
  /\ Running
  /\ ~AtStatement
  /\ frames' = Front(frames)
  /\ lost' = (lost \/ Top.at # Gone)
  /\ UNCHANGED discVars

Statement ==
  /\ AtStatement
  /\ Len(frames) < MaxFrames
  /\ ~lost
  /\ LET in == TopInsn
         jump == IF Transfer(FuncAt(Top.f), in) = "goto"
                 THEN frames' = Moved(in.target) /\ UNCHANGED lost
                 ELSE lynx_call_addr(Moved(Gone), in.target)
     IN
     \/ /\ in.cflow \in {"NORMAL", "BRANCH"}
        /\ frames' = Moved(Top.at + in.len)
        /\ UNCHANGED lost
     \/ in.cflow = "BRANCH" /\ jump
     \/ in.cflow = "JMP" /\ in.mode = "ABS" /\ jump
     \/ in.mode = "IND" /\ lynx_call_addr(Moved(Gone), img_rd16(image, in.operand))
     \/ /\ in.mode = "IAX"
        /\ \E x \in 0 .. MaxX : lynx_call_addr(Moved(Gone), img_rd16(image, in.operand + x))
     \/ in.cflow = "CALL" /\ lynx_call_addr(Moved(Top.at + in.len), in.target)
     \/ in.cflow = "RET" /\ frames' = Front(frames) /\ UNCHANGED lost
     \/ in.cflow = "BREAK" /\ frames' = Front(frames) /\ lost' = TRUE
  /\ UNCHANGED discVars

RunCode == HostCall \/ EndOfFunction \/ Statement

RInit == Init /\ frames = <<>> /\ lost = FALSE
RNext == (DiscoverNext /\ UNCHANGED <<frames, lost>>) \/ RunCode

\* Discovery runs to its end before anything is emitted.
RSpec == RInit /\ [][RNext]_vars /\ WF_vars(DiscoverNext /\ UNCHANGED <<frames, lost>>)

-----------------------------------------------------------------------------
TypeOK ==
  /\ work \in Seq(Addr) /\ seen \subseteq Addr
  /\ funcs \in Seq([start : Addr, end : Addr, labels : SUBSET Addr])
  /\ ext \subseteq Addr
  /\ fn \in [start : Addr, labels : SUBSET Addr] \cup {None}
  /\ {addr, maxt, end} \subseteq Addr
  /\ frames \in Seq([f : Addr, at : 0 .. Space])
  /\ lost \in BOOLEAN

\* Every address pushed is in one place, waiting, being decoded or in the table,
\* and no function is emitted twice, which would not compile; with the table
\* full some are dropped.
Starts == [k \in DOMAIN funcs |-> funcs[k].start]
InHand == IF fn = None THEN <<>> ELSE <<fn.start>>
EachFunctionOnce ==
  LET all == work \o InHand \o Starts IN
  /\ IsInjective(all)
  /\ ToSet(all) \subseteq seen
  /\ Len(funcs) < MaxFuncs => ToSet(all) = seen

\* The table is complete and nothing has run yet.
Emitting == Discovered /\ frames = <<>>

\* What makes the generated C compile: a goto goes to an address at which the
\* walk writes a statement and, as it is among the labels, a label.  Two cases
\* escape: a jump to address 0, which discovery takes for an unresolved one, and
\* a function with more targets than MAX_LABELS.
GotosHaveLabels ==
  Emitting =>
    \A k \in DOMAIN funcs : LET f == funcs[k] IN
      \A a \in Emitted(f) : LET in == InsnAt(image, a) IN
        Goes(f, in) =>
          /\ in.target \in Emitted(f)
          /\ \/ in.target \in f.labels
             \/ in.target = 0 /\ in.cflow = "JMP"
             \/ Cardinality(f.labels) = MaxLabels

\* A game that spins inside a function lets time pass: every loop that control
\* can go round in its body has a statement that ticks.
EveryLoopTicks ==
  Emitting =>
    \A k \in DOMAIN funcs :
      LET edges == Unticked(funcs[k]) IN
      \A loop \in (SUBSET Emitted(funcs[k])) \ {{}} :
        \E a \in loop : \A b \in loop : <<a, b>> \notin edges

\* Discovery comes to an end, in an image that fills the address space as well.
DiscoveryEnds == <>Discovered

\* The positions of the activations that do more than return, the outermost
\* first.
Live(stack) ==
  LET upto[k \in 0 .. Len(stack)] ==
        IF k = 0 THEN <<>>
        ELSE IF stack[k].at = Gone THEN upto[k - 1] ELSE Append(upto[k - 1], stack[k].at)
  IN upto[Len(stack)]

\* The processor is at the last of them, and the return addresses are the others.
MappedPc == IF Live(frames) = <<>> THEN Host ELSE Last(Live(frames))
MappedRets == IF Live(frames) = <<>> THEN <<>> ELSE Front(Live(frames))

Machine == INSTANCE Cpu WITH
  entries <- ToSet(seeds), pc <- MappedPc, rets <- MappedRets, astray <- lost,
  full <- Len(funcs) >= MaxFuncs

\* The recompiled program follows the processor step by step, or strays at an
\* instruction at which Cpu says that it may.
FollowsTheCpu == Machine!Spec
=============================================================================
