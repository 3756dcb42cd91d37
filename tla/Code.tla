-------------------------------- MODULE Code --------------------------------
(***************************************************************************)
(* A code image and its decoder: tools/m65c02recomp/decode.c, shared by    *)
(* discovery, emission and the interpreter.                                *)
(*                                                                         *)
(* Abstractions: of the 256 opcodes one is kept for each pair of control   *)
(* flow class and operand shape that the recompiler tells apart (BRA is    *)
(* the JMP of relative mode, WAI and STP the BRK, RTI the RTS of the       *)
(* table).  A 16-bit operand takes one cell, so instructions are one or    *)
(* two cells long instead of one to three; a cell is an opcode when it is  *)
(* reached as one and an operand otherwise, so data decodes as code and a  *)
(* jump can land inside an instruction.  Every eighth number is the same   *)
(* opcode.  Addresses wrap at Space.                                       *)
(***************************************************************************)
EXTENDS Naturals, Sequences

CONSTANT Space  (* addresses, 65536 *)

ASSUME SpaceAssumption == Space \in Nat \ {0}

Addr == 0 .. Space - 1

m65c02_optab ==
  << [cflow |-> "NORMAL", mode |-> "IMP"],   \* 0: NOP and every other straight-line opcode
     [cflow |-> "BRANCH", mode |-> "REL"],   \* 1: Bxx, BBRn, BBSn
     [cflow |-> "JMP",    mode |-> "ABS"],   \* 2: JMP
     [cflow |-> "CALL",   mode |-> "ABS"],   \* 3: JSR
     [cflow |-> "RET",    mode |-> "IMP"],   \* 4: RTS
     [cflow |-> "JMP",    mode |-> "IND"],   \* 5: JMP (a)
     [cflow |-> "JMP",    mode |-> "IAX"],   \* 6: JMP (a,X)
     [cflow |-> "BREAK",  mode |-> "IMP"] >> \* 7: BRK

Byte == 0 .. 7

m65c02_mode_len(mode) == IF mode = "IMP" THEN 1 ELSE 2

\* One decoded instruction; target is 0 when the mode resolves none.
m65c02_decode(mem, pc) ==
  LET oi == m65c02_optab[(mem[1] % 8) + 1] IN
  [pc      |-> pc,
   len     |-> m65c02_mode_len(oi.mode),
   cflow   |-> oi.cflow,
   mode    |-> oi.mode,
   operand |-> IF oi.mode = "IMP" THEN 0 ELSE mem[2] % Space,
   target  |-> CASE oi.mode = "REL" -> (pc + 2 + mem[2]) % Space
                 [] oi.mode = "ABS" -> mem[2] % Space
                 [] oi.mode \in {"IMP", "IND", "IAX"} -> 0]

\* An image is a sequence of cells mapped at a base address.
Image == [base : Addr, rom : Seq(Nat)]

in_image(image, a) == a >= image.base /\ a - image.base < Len(image.rom)

Cell(image, a) == IF in_image(image, a) THEN image.rom[a - image.base + 1] ELSE 0

\* The instruction at an address of the image, with a missing operand read as
\* zero, and whether the image ends inside it.
InsnAt(image, a) == m65c02_decode(<<Cell(image, a), Cell(image, a + 1)>>, a)
Truncated(image, a) == a - image.base + InsnAt(image, a).len > Len(image.rom)

\* img_rd16: the pointer stored at an address, zero outside the image.
img_rd16(image, a) == Cell(image, a) % Space

=============================================================================
