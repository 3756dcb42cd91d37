--------------------------------- MODULE Alu ---------------------------------
(***************************************************************************)
(* The registers and flags of the 65SC02, computed twice: by the helpers   *)
(* that the emitted C calls (include/lynxrecomp/recomp_rt.h, chosen in     *)
(* tools/m65c02recomp/emit.c) and by the interpreter that is used to boot  *)
(* and to trace the same game (tools/m65c02recomp/interp.c).  One step is  *)
(* one instruction, on both.                                               *)
(*                                                                         *)
(* Abstractions: an instruction has its operand's value with it, whatever  *)
(* the addressing mode; out is the value it writes to memory or the stack, *)
(* or whether a branch is taken, and -1 when there is neither.  Control    *)
(* transfers are the subject of Recompiled.                                *)
(***************************************************************************)
EXTENDS Integers, Sequences, FiniteSets, Bytes

CONSTANTS
  Value,  (* operands and contents of A, bytes *)
  Flags,  (* the sets of flags that may be set at first *)
  TheBit  (* the one of eight that RMB, SMB, BBR and BBS name *)

ASSUME AluAssumption ==
  /\ Value \subseteq 0 .. 255 /\ Value # {} /\ Flags # {}
  /\ TheBit \in 0 .. 7

VARIABLES
  done,   (* the instruction executed, <<>> before it *)
  before, (* the processor before it *)
  helped, (* the processor and out, by the helpers *)
  stepped_cpu (* the same, by the interpreter *)

aluVars == <<done, before, helped, stepped_cpu>>

Bit7(n) == (n \div 128) % 2
Byte8(n) == n % 256
AsBit(b) == IF b THEN 1 ELSE 0
Clear(v, b) == IF BitOf(v, b) = 1 THEN v - (2 ^ b) ELSE v
Set(v, b) == Clear(v, b) + (2 ^ b)

Out(r, v) == [cpu |-> r, out |-> v]
Quiet(r) == Out(r, -1)

-----------------------------------------------------------------------------
\* The helpers of recomp_rt.h.
lynx_set_nz(r, v) == [r EXCEPT !.z = AsBit(v = 0), !.n = Bit7(v)]

\* Carry-in and overflow: the operands' signs agree, or for a difference
\* disagree, and the result's is another.
lynx_adc(r, v) ==
  LET sum  == r.a + v + r.c
      over == AsBit(Bit7(r.a) = Bit7(v) /\ Bit7(sum) # Bit7(r.a))
      lo   == (r.a % 16) + (v % 16) + r.c
      hi   == (r.a \div 16) + (v \div 16) + AsBit(lo > 9)
      low  == IF lo > 9 THEN lo + 6 ELSE lo
      high == IF hi > 9 THEN hi + 6 ELSE hi
      res  == IF r.d = 0 THEN Byte8(sum) ELSE Byte8(high * 16 + (low % 16))
  IN lynx_set_nz([r EXCEPT !.v = over, !.a = res,
                           !.c = AsBit(IF r.d = 0 THEN sum > 255 ELSE high > 15)], res)

\* A mutant: the borrow of the low digit is not taken from the high one.
lynx_sbc_borrowless(r, v) ==
  LET diff == r.a - v - (1 - r.c)
      over == AsBit(Bit7(r.a) # Bit7(v) /\ Bit7(diff) # Bit7(r.a))
      lo   == (r.a % 16) - (v % 16) - (1 - r.c)
      hi   == (r.a \div 16) - (v \div 16)
      low  == IF lo < 0 THEN lo - 6 ELSE lo
      high == IF hi < 0 THEN hi - 6 ELSE hi
      res  == IF r.d = 0 THEN Byte8(diff) ELSE Byte8(high * 16 + (low % 16))
  IN lynx_set_nz([r EXCEPT !.v = over, !.a = res, !.c = AsBit(diff >= 0)], res)

lynx_sbc(r, v) ==
  LET diff == r.a - v - (1 - r.c)
      over == AsBit(Bit7(r.a) # Bit7(v) /\ Bit7(diff) # Bit7(r.a))
      lo   == (r.a % 16) - (v % 16) - (1 - r.c)
      hi   == (r.a \div 16) - (v \div 16) - AsBit(lo < 0)
      low  == IF lo < 0 THEN lo - 6 ELSE lo
      high == IF hi < 0 THEN hi - 6 ELSE hi
      res  == IF r.d = 0 THEN Byte8(diff) ELSE Byte8(high * 16 + (low % 16))
  IN lynx_set_nz([r EXCEPT !.v = over, !.a = res, !.c = AsBit(diff >= 0)], res)

lynx_cmp_reg(r, reg, v) ==
  lynx_set_nz([r EXCEPT !.c = AsBit(reg >= v)], Byte8(reg - v))

\* The helpers that take a value and return one: the registers and the result.
lynx_alu(m, r, v) ==
  LET shift(res, carry) == Out(lynx_set_nz([r EXCEPT !.c = carry], res), res)
      count(res) == Out(lynx_set_nz(r, res), res)
      test(res) == Out([r EXCEPT !.z = AsBit(And(r.a, v) = 0)], res)
  IN CASE m = "INC" -> count(Byte8(v + 1))
       [] m = "DEC" -> count(Byte8(v - 1))
       [] m = "ASL" -> shift(Byte8(v * 2), Bit7(v))
       [] m = "LSR" -> shift(v \div 2, v % 2)
       [] m = "ROL" -> shift(Byte8(v * 2) + r.c, Bit7(v))
       [] m = "ROR" -> shift((v \div 2) + (128 * r.c), v % 2)
       [] m = "TSB" -> test(Or(v, r.a))
       [] m = "TRB" -> test(v - And(v, r.a))

\* cpu.c: the status byte, N V 1 B D I Z C.
lynx_p_pack(r) == r.n * 128 + r.v * 64 + 48 + r.d * 8 + r.i * 4 + r.z * 2 + r.c

lynx_p_unpack(r, p) ==
  [r EXCEPT !.n = Bit7(p), !.v = (p \div 64) % 2, !.d = (p \div 8) % 2,
            !.i = (p \div 4) % 2, !.z = (p \div 2) % 2, !.c = p % 2]

\* The stack pointer has eight bits; what is pulled comes as the operand.
lynx_push(r, v) == Out([r EXCEPT !.s = Byte8(@ - 1)], v)
lynx_pull(r) == [r EXCEPT !.s = Byte8(@ + 1)]

\* The condition a branch is emitted with: a flag, or its negation.
branch_cond(m, r) ==
  CASE m = "BPL" -> 1 - r.n [] m = "BMI" -> r.n [] m = "BVC" -> 1 - r.v [] m = "BVS" -> r.v
    [] m = "BCC" -> 1 - r.c [] m = "BCS" -> r.c [] m = "BNE" -> 1 - r.z [] m = "BEQ" -> r.z

-----------------------------------------------------------------------------
\* The instructions: loads and transfers move a value into a register, the
\* others are grouped by the helper they are emitted as.
Branches == {"BPL", "BMI", "BVC", "BVS", "BCC", "BCS", "BNE", "BEQ"}
Modifies == {"INC", "DEC", "ASL", "LSR", "ROL", "ROR", "TSB", "TRB"}
OnA      == {"INC A", "DEC A", "ASL A", "LSR A", "ROL A", "ROR A"}
FlagOps  == {"CLC", "SEC", "CLI", "SEI", "CLD", "SED", "CLV"}
Others   == {"LDA", "LDX", "LDY", "STA", "STX", "STY", "STZ", "ORA", "AND", "EOR", "ADC", "SBC",
             "CMP", "CPX", "CPY", "BIT", "BIT #", "INX", "INY", "DEX", "DEY",
             "TAX", "TAY", "TXA", "TYA", "TSX", "TXS",
             "PHA", "PHX", "PHY", "PHP", "PLA", "PLX", "PLY", "PLP", "RMB", "SMB", "BBR", "BBS"}
Mnemonic == Branches \cup Modifies \cup OnA \cup FlagOps \cup Others

OfA(m) == CASE m = "INC A" -> "INC" [] m = "DEC A" -> "DEC" [] m = "ASL A" -> "ASL"
            [] m = "LSR A" -> "LSR" [] m = "ROL A" -> "ROL" [] m = "ROR A" -> "ROR"

FlagOp(m, r) ==
  CASE m = "CLC" -> [r EXCEPT !.c = 0] [] m = "SEC" -> [r EXCEPT !.c = 1]
    [] m = "CLI" -> [r EXCEPT !.i = 0] [] m = "SEI" -> [r EXCEPT !.i = 1]
    [] m = "CLD" -> [r EXCEPT !.d = 0] [] m = "SED" -> [r EXCEPT !.d = 1]
    [] m = "CLV" -> [r EXCEPT !.v = 0]

\* emit_insn: the statement an instruction becomes, executed.
emit_insn(m, r, v) ==
  LET loadA(x) == Quiet(lynx_set_nz([r EXCEPT !.a = x], x))
      loadX(x) == Quiet(lynx_set_nz([r EXCEPT !.x = x], x))
      loadY(x) == Quiet(lynx_set_nz([r EXCEPT !.y = x], x))
      pulled   == lynx_pull(r)
  IN
  CASE m \in Branches -> Out(r, branch_cond(m, r))
    [] m \in Modifies -> lynx_alu(m, r, v)
    [] m \in OnA      -> LET res == lynx_alu(OfA(m), r, r.a) IN Quiet([res.cpu EXCEPT !.a = res.out])
    [] m \in FlagOps  -> Quiet(FlagOp(m, r))
    [] m = "LDA" -> loadA(v) [] m = "LDX" -> loadX(v) [] m = "LDY" -> loadY(v)
    [] m = "STA" -> Out(r, r.a) [] m = "STX" -> Out(r, r.x) [] m = "STY" -> Out(r, r.y)
    [] m = "STZ" -> Out(r, 0)
    [] m = "ORA" -> loadA(Or(r.a, v)) [] m = "AND" -> loadA(And(r.a, v)) [] m = "EOR" -> loadA(Xor(r.a, v))
    [] m = "ADC" -> Quiet(lynx_adc(r, v)) [] m = "SBC" -> Quiet(lynx_sbc(r, v))
    [] m = "CMP" -> Quiet(lynx_cmp_reg(r, r.a, v))
    [] m = "CPX" -> Quiet(lynx_cmp_reg(r, r.x, v))
    [] m = "CPY" -> Quiet(lynx_cmp_reg(r, r.y, v))
    [] m = "BIT" -> Quiet([r EXCEPT !.z = AsBit(And(r.a, v) = 0), !.n = Bit7(v), !.v = (v \div 64) % 2])
    [] m = "BIT #" -> Quiet([r EXCEPT !.z = AsBit(And(r.a, v) = 0)])
    [] m = "INX" -> loadX(Byte8(r.x + 1)) [] m = "DEX" -> loadX(Byte8(r.x - 1))
    [] m = "INY" -> loadY(Byte8(r.y + 1)) [] m = "DEY" -> loadY(Byte8(r.y - 1))
    [] m = "TAX" -> loadX(r.a) [] m = "TAY" -> loadY(r.a) [] m = "TSX" -> loadX(r.s)
    [] m = "TXA" -> loadA(r.x) [] m = "TYA" -> loadA(r.y)
    [] m = "TXS" -> Quiet([r EXCEPT !.s = r.x])
    [] m = "PHA" -> lynx_push(r, r.a) [] m = "PHX" -> lynx_push(r, r.x)
    [] m = "PHY" -> lynx_push(r, r.y) [] m = "PHP" -> lynx_push(r, lynx_p_pack(r))
    [] m = "PLA" -> Quiet(lynx_set_nz([pulled EXCEPT !.a = v], v))
    [] m = "PLX" -> Quiet(lynx_set_nz([pulled EXCEPT !.x = v], v))
    [] m = "PLY" -> Quiet(lynx_set_nz([pulled EXCEPT !.y = v], v))
    [] m = "PLP" -> Quiet(lynx_p_unpack(pulled, v))
    [] m = "RMB" -> Out(r, Clear(v, TheBit)) [] m = "SMB" -> Out(r, Set(v, TheBit))
    [] m = "BBR" -> Out(r, AsBit(BitOf(v, TheBit) = 0))
    [] m = "BBS" -> Out(r, AsBit(BitOf(v, TheBit) # 0))

-----------------------------------------------------------------------------
\* The interpreter.
setnz(r, v) == [r EXCEPT !.z = AsBit(v = 0), !.n = Bit7(v)]

\* A mutant: the carry out of a decimal sum is that of the binary one.
op_adc_binary_carry(r, v) ==
  LET binary == r.a + v + r.c
      signed == AsBit(Bit7(r.a) = Bit7(v) /\ Bit7(binary) # Bit7(r.a))
      lo     == (r.a % 16) + (v % 16) + r.c
      adjust == IF lo > 9 THEN 6 ELSE 0
      hi     == (r.a \div 16) + (v \div 16) + (adjust \div 6)
      tens   == IF hi > 9 THEN hi + 6 ELSE hi
      result == IF r.d = 1 THEN ((tens % 16) * 16) + ((lo + adjust) % 16) ELSE Byte8(binary)
  IN setnz([r EXCEPT !.a = result, !.v = signed, !.c = AsBit(binary > 255)], result)

op_adc(r, v) ==
  LET binary == r.a + v + r.c
      signed == AsBit(Bit7(r.a) = Bit7(v) /\ Bit7(binary) # Bit7(r.a))
      lo     == (r.a % 16) + (v % 16) + r.c
      adjust == IF lo > 9 THEN 6 ELSE 0
      hi     == (r.a \div 16) + (v \div 16) + (adjust \div 6)
      tens   == IF hi > 9 THEN hi + 6 ELSE hi
      result == IF r.d = 1 THEN ((tens % 16) * 16) + ((lo + adjust) % 16) ELSE Byte8(binary)
  IN setnz([r EXCEPT !.a = result, !.v = signed,
                     !.c = AsBit(IF r.d = 1 THEN tens > 15 ELSE binary > 255)], result)

op_sbc(r, v) ==
  LET binary == r.a - v - (1 - r.c)
      signed == AsBit(Bit7(r.a) # Bit7(v) /\ Bit7(binary) # Bit7(r.a))
      lo     == (r.a % 16) - (v % 16) - (1 - r.c)
      adjust == IF lo < 0 THEN 6 ELSE 0
      hi     == (r.a \div 16) - (v \div 16) - (adjust \div 6)
      tens   == IF hi < 0 THEN hi - 6 ELSE hi
      result == IF r.d = 1 THEN ((tens % 16) * 16) + ((lo - adjust) % 16) ELSE Byte8(binary)
  IN setnz([r EXCEPT !.a = result, !.v = signed, !.c = AsBit(binary \in 0 .. 255)], result)

cmp_(r, reg, v) == setnz([r EXCEPT !.c = AsBit(reg >= v)], Byte8(reg - v))

\* op_asl, op_lsr, op_rol and op_ror, with the bit that is shifted in.
Shift(m, r, v) ==
  LET left(in)  == Out(setnz([r EXCEPT !.c = Bit7(v)], Byte8(2 * v + in)), Byte8(2 * v + in))
      right(in) == Out(setnz([r EXCEPT !.c = v % 2], 128 * in + (v \div 2)), 128 * in + (v \div 2))
  IN CASE m = "ASL" -> left(0) [] m = "ROL" -> left(r.c) [] m = "LSR" -> right(0) [] m = "ROR" -> right(r.c)

pack_p(r) == r.n * 128 + r.v * 64 + 16 * 3 + r.d * 8 + r.i * 4 + r.z * 2 + r.c
unpack_p(r, p) ==
  LET bit(b) == BitOf(p, b) IN
  [r EXCEPT !.n = bit(7), !.v = bit(6), !.d = bit(3), !.i = bit(2), !.z = bit(1), !.c = bit(0)]

\* What interp_step does to the registers, the stack and memory; a compound
\* assignment is a change of one register, with its flags.
Assign(r, reg, x) == Quiet(setnz([r EXCEPT ![reg] = x], x))
IndexOf(m, ms) == CHOOSE k \in DOMAIN ms : ms[k] = m

interp_op(m, r, v) ==
  LET masked   == [r EXCEPT !.z = AsBit(And(r.a, v) = 0)]
      push(x)  == Out([r EXCEPT !.s = Byte8(r.s + 255)], x)
      popped   == [r EXCEPT !.s = Byte8(r.s + 1)]
      modify(x) == Out(setnz(r, x), x)
      taken(c) == Out(r, AsBit(c))
      flags    == <<"CLC", "SEC", "CLI", "SEI", "CLD", "SED", "CLV">>
      flag     == <<"c", "c", "i", "i", "d", "d", "v">>[IndexOf(m, flags)]
  IN
  CASE m = "LDA" -> Assign(r, "a", v) [] m = "LDX" -> Assign(r, "x", v) [] m = "LDY" -> Assign(r, "y", v)
    [] m = "STA" -> Out(r, r.a) [] m = "STX" -> Out(r, r.x) [] m = "STY" -> Out(r, r.y) [] m = "STZ" -> Out(r, 0)
    [] m = "ORA" -> Assign(r, "a", Or(r.a, v))
    [] m = "AND" -> Assign(r, "a", And(r.a, v))
    [] m = "EOR" -> Assign(r, "a", Xor(r.a, v))
    [] m = "ADC" -> Quiet(op_adc(r, v)) [] m = "SBC" -> Quiet(op_sbc(r, v))
    [] m = "CMP" -> Quiet(cmp_(r, r.a, v)) [] m = "CPX" -> Quiet(cmp_(r, r.x, v))
    [] m = "CPY" -> Quiet(cmp_(r, r.y, v))
    [] m = "BIT #" -> Quiet(masked)
    [] m = "BIT" -> Quiet([masked EXCEPT !.n = Bit7(v), !.v = (v \div 64) % 2])
    [] m = "INC" -> modify(Byte8(v + 1)) [] m = "DEC" -> modify(Byte8(v + 255))
    [] m = "INC A" -> Assign(r, "a", Byte8(r.a + 1)) [] m = "DEC A" -> Assign(r, "a", Byte8(r.a + 255))
    [] m \in {"ASL", "LSR", "ROL", "ROR"} -> Shift(m, r, v)
    [] m \in {"ASL A", "LSR A", "ROL A", "ROR A"} ->
         LET res == Shift(OfA(m), r, r.a) IN Quiet([res.cpu EXCEPT !.a = res.out])
    [] m = "TSB" -> Out(masked, Or(v, r.a)) [] m = "TRB" -> Out(masked, And(v, 255 - r.a))
    [] m = "RMB" -> Out(r, And(v, 255 - (2 ^ TheBit))) [] m = "SMB" -> Out(r, Or(v, 2 ^ TheBit))
    [] m = "BBR" -> taken(And(v, 2 ^ TheBit) = 0) [] m = "BBS" -> taken(And(v, 2 ^ TheBit) # 0)
    [] m = "INX" -> Assign(r, "x", Byte8(r.x + 1)) [] m = "DEX" -> Assign(r, "x", Byte8(r.x + 255))
    [] m = "INY" -> Assign(r, "y", Byte8(r.y + 1)) [] m = "DEY" -> Assign(r, "y", Byte8(r.y + 255))
    [] m = "TAX" -> Assign(r, "x", r.a) [] m = "TAY" -> Assign(r, "y", r.a)
    [] m = "TXA" -> Assign(r, "a", r.x) [] m = "TYA" -> Assign(r, "a", r.y)
    [] m = "TSX" -> Assign(r, "x", r.s) [] m = "TXS" -> Quiet([r EXCEPT !.s = r.x])
    [] m \in FlagOps -> Quiet([r EXCEPT ![flag] = AsBit(m \in {"SEC", "SEI", "SED"})])
    [] m = "PHA" -> push(r.a) [] m = "PHX" -> push(r.x) [] m = "PHY" -> push(r.y)
    [] m = "PHP" -> push(Or(pack_p(r), 16))
    [] m = "PLA" -> Assign(popped, "a", v) [] m = "PLX" -> Assign(popped, "x", v)
    [] m = "PLY" -> Assign(popped, "y", v) [] m = "PLP" -> Quiet(unpack_p(popped, v))
    [] m = "BPL" -> taken(r.n = 0) [] m = "BMI" -> taken(r.n = 1)
    [] m = "BVC" -> taken(r.v = 0) [] m = "BVS" -> taken(r.v = 1)
    [] m = "BCC" -> taken(r.c = 0) [] m = "BCS" -> taken(r.c = 1)
    [] m = "BNE" -> taken(r.z = 0) [] m = "BEQ" -> taken(r.z = 1)

-----------------------------------------------------------------------------
CpuStart ==
  {[a |-> a, x |-> x, y |-> 128, s |-> x,
    n |-> AsBit("n" \in set), v |-> AsBit("v" \in set), d |-> AsBit("d" \in set),
    i |-> AsBit("i" \in set), z |-> AsBit("z" \in set), c |-> AsBit("c" \in set)] :
     a \in Value, x \in {0, 255}, set \in Flags}

AluInit(starts) ==
  /\ done = <<>>
  /\ before \in starts
  /\ helped = Quiet(before) /\ stepped_cpu = Quiet(before)

Execute ==
  /\ done = <<>>
  /\ \E m \in Mnemonic, v \in Value :
       /\ done' = <<m, v>>
       /\ helped' = emit_insn(m, before, v)
       /\ stepped_cpu' = interp_op(m, before, v)
  /\ UNCHANGED before

\* A recompiled game computes what the interpreter computes: every register and
\* flag and every value written are the same after each instruction.
SameProcessor == helped = stepped_cpu

\* Sums and differences are those of the numbers the operands stand for, with
\* the carry in and out: bytes, or pairs of decimal digits in decimal mode; and
\* in binary mode overflow says that the signed result does not fit.
IsDecimal(b) == (b % 16) < 10 /\ b \div 16 < 10
Worth(d, b) == IF d = 1 THEN 10 * (b \div 16) + (b % 16) ELSE b
Signed(b) == IF b > 127 THEN b - 256 ELSE b
ArithmeticIsExact ==
  LET r == before
      now == helped.cpu
      whole == IF r.d = 1 THEN 100 ELSE 256
      exact(m, v) ==
        LET sum == Worth(r.d, r.a) + Worth(r.d, v) + r.c
            diff == Worth(r.d, r.a) - Worth(r.d, v) - (1 - r.c)
        IN IF m = "ADC"
           THEN /\ Worth(r.d, now.a) + whole * now.c = sum
                /\ r.d = 0 => (now.v = 1 <=> Signed(r.a) + Signed(v) + r.c \notin -128 .. 127)
           ELSE /\ Worth(r.d, now.a) - whole * (1 - now.c) = diff
                /\ r.d = 0 => (now.v = 1 <=> Signed(r.a) - Signed(v) - (1 - r.c) \notin -128 .. 127)
  IN done # <<>> /\ done[1] \in {"ADC", "SBC"} /\ (r.d = 1 => IsDecimal(r.a) /\ IsDecimal(done[2])) =>
       exact(done[1], done[2])
=============================================================================
