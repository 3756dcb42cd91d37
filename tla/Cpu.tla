--------------------------------- MODULE Cpu ---------------------------------
(***************************************************************************)
(* What recompiled code has to do: the control flow of the 65SC02, as      *)
(* tools/m65c02recomp/interp.c executes it on the same image, with return  *)
(* addresses on a stack of their own.  Registers are left out, so a        *)
(* conditional branch may go either way and X may be anything.             *)
(*                                                                         *)
(* The recompiler cannot follow every program.  astray is set when control *)
(* has been lost, and MayStray says at which instructions that is the      *)
(* price of static analysis; after any other instruction the recompiled    *)
(* program has to be where the processor would be.                         *)
(***************************************************************************)
EXTENDS Code

CONSTANTS
  MaxX,      (* bound: X selects an entry 0 .. MaxX of a jump table *)
  TableMax,  (* the entries of a jump table that discovery reads, 64 *)
  MaxWalk,   (* the longest function, $1000 *)
  Host       (* where control is when no recompiled code runs *)

VARIABLES
  image,
  entries,   (* the addresses the host calls *)
  pc,
  rets,      (* the return addresses pushed by JSR *)
  astray,
  full       (* the recompiler's function table has no room left *)

cpuVars == <<image, entries, pc, rets, astray, full>>

Init == pc = Host /\ rets = <<>> /\ ~astray

\* The host calls the game.
Call ==
  /\ pc = Host
  /\ pc' \in entries
  /\ UNCHANGED rets

Return ==
  IF rets = <<>>
  THEN pc' = Host /\ UNCHANGED rets
  ELSE pc' = rets[Len(rets)] /\ rets' = SubSeq(rets, 1, Len(rets) - 1)

\* interp_step: the next address by the class of the instruction.
interp_step ==
  LET in   == InsnAt(image, pc)
      next == (pc + in.len) % Space
  IN
  /\ pc # Host
  /\ in_image(image, pc)
  /\ CASE in.cflow = "NORMAL" -> pc' = next /\ UNCHANGED rets
       [] in.cflow = "BRANCH" -> pc' \in {next, in.target} /\ UNCHANGED rets
       [] in.cflow = "CALL"   -> pc' = in.target /\ rets' = Append(rets, next)
       [] in.cflow = "RET"    -> Return
       [] in.cflow = "JMP" /\ in.mode = "ABS" -> pc' = in.target /\ UNCHANGED rets
       [] in.mode = "IND"     -> pc' = img_rd16(image, in.operand) /\ UNCHANGED rets
       [] in.mode = "IAX"     -> /\ \E x \in 0 .. MaxX : pc' = img_rd16(image, in.operand + x)
                                 /\ UNCHANGED rets
       [] in.cflow = "BREAK"  -> FALSE

\* A jump table is followed up to its first entry that is no code address.
InTable(base, x) ==
  /\ x < TableMax
  /\ \A e \in 0 .. x :
       img_rd16(image, base + e) # 0 /\ in_image(image, img_rd16(image, base + e))

\* No instruction that can be translated: outside the image, cut short by its
\* end, or the last one of the address space.
NoCode(a) ==
  ~in_image(image, a) \/ Truncated(image, a) \/ a + InsnAt(image, a).len >= Space

\* Where the recompiled program may lose its way: where there is no code; at a
\* stop; at a branch, or a jump not forward, whose target is not made a function;
\* at a pointer or jump table the image does not hold; anywhere, when the
\* function table is full or the image is longer than a function may be.
MayStray ==
  LET in == InsnAt(image, pc) IN
  \/ full
  \/ Len(image.rom) > MaxWalk
  \/ pc = Host /\ \E a \in entries : ~in_image(image, a)
  \/ /\ pc # Host
     /\ \/ NoCode(pc)
        \/ in.cflow \in {"BREAK", "BRANCH"}
        \/ in.mode = "ABS" /\ NoCode(in.target)
        \/ in.mode = "ABS" /\ in.cflow = "JMP" /\ in.target < pc + in.len
        \/ in.mode = "IND" /\ ~in_image(image, img_rd16(image, in.operand))
        \/ in.mode = "IAX" /\ \E x \in 0 .. MaxX : ~InTable(in.operand, x)

Stray == ~astray /\ MayStray /\ astray'

Lost == astray /\ astray'

Next ==
  /\ UNCHANGED <<image, entries>>
  /\ \/ (Call \/ interp_step) /\ ~astray /\ UNCHANGED astray
     \/ Stray
     \/ Lost
     \/ UNCHANGED <<pc, rets, astray>>

Spec == Init /\ [][Next]_cpuVars
=============================================================================
