---------------------------- MODULE MCRecompiled ----------------------------
(***************************************************************************)
(* Images for Recompiled: every sequence of three instructions, mapped in  *)
(* the middle and at the top of an address space of 8; and, as a 64K image *)
(* is, one that fills it, with the interrupt vector as a second seed.      *)
(***************************************************************************)
EXTENDS Recompiled

Short == {<<0>>, <<4>>}
Long(ops, operands) == {<<op, a>> : op \in ops, a \in operands}

At(base, rom) == [image |-> [base |-> base, rom |-> rom], seeds |-> <<base>>]

\* Instructions 1 to 6: straight-line code, returns, branches, jumps, calls and
\* jumps through pointers, to every address in and around the image.
Middle ==
  LET insn == Short \cup Long({1, 2, 3}, {0, 1, 3, 4, 5, 6}) \cup Long({5}, {2, 4})
  IN {At(1, a \o b \o c) : a \in insn, b \in insn, c \in insn}

AtTop ==
  LET insn == Short \cup {<<7>>} \cup Long({1, 2, 3, 6}, {4, 5, 6, 7})
  IN {At(4, rom) : rom \in {r \in {a \o b \o c : a \in insn, b \in insn, c \in insn} : Len(r) = 4}}

\* The whole space: straight-line code and one instruction with an operand.
Full ==
  {[image |-> [base |-> 0, rom |-> [k \in 1 .. 8 |-> IF k = i THEN op ELSE IF k = j THEN a ELSE 0]],
    seeds |-> <<0, s>>] : i \in {2, 5}, j \in {3, 6, 7}, op \in Byte, a \in {0, 2, 4, 6}, s \in {0, 5}}

MCProgram == Middle \cup AtTop \cup Full
=============================================================================
