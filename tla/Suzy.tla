-------------------------------- MODULE Suzy --------------------------------
(***************************************************************************)
(* The sprite engine and the math unit: src/suzy.c, with the read side of  *)
(* the frame buffer in src/video.c.  Writing SPRGO runs the blitter to its *)
(* end; one action here is a sprite, a line, a packet or a pixel of that   *)
(* run, so that the bookkeeping inside it can be looked at.                *)
(*                                                                         *)
(* Abstractions: a sprite control block is a record, with the bytes after  *)
(* its fixed part in order; a frame buffer address is one number.  Scaled  *)
(* down: pens of PenBits bits and bytes of twice that, the 4-bit run       *)
(* lengths, the screen, the memory, the limit of 256 sprites, and math     *)
(* registers of one byte of Radix values each.                             *)
(***************************************************************************)
EXTENDS Integers, Sequences, SequencesExt, FiniteSets, Bytes

CONSTANTS
  PenBits, CountBits, (* 4 in the code *)
  Width, Height,      (* the screen, 160 by 102 *)
  RamSize,            (* addresses, 65536 *)
  MaxSprites,         (* the guard on the chain, 256 *)
  Radix               (* the values of a math register, 256 *)

\* Two pens make a byte, and the screen fits in memory.
ASSUME SuzyAssumption ==
  /\ {PenBits, CountBits} \subseteq 1 .. 4
  /\ {Width, Height, RamSize, MaxSprites, Radix} \subseteq Nat \ {0}
  /\ Width % 2 = 0 /\ Height * (Width \div 2) <= RamSize

VARIABLES
  math,      (* the math registers *)
  video,     (* VIDBAS, HOFF, VOFF and SCBNEXT *)
  busy,
  ram,
  scbs,      (* the sprite control blocks in memory, by address *)
  pc,        (* where lynx_suzy_blit is *)
  scb, sprites, pen, (* the block being drawn, how many came before, the palette *)
  dp, line,  (* the next line's data, the number of this one *)
  br, line_bits, col, (* the bit reader, the bits left of the line, the column *)
  run        (* the pixels left of a packet, and the pen of a packed one *)

blitVars == <<pc, scb, sprites, pen, dp, line, br, line_bits, col, run>>
suzyVars == <<math, video, busy, ram, scbs, blitVars>>

-----------------------------------------------------------------------------
\* Math.  The registers of each 32-bit value, the lowest byte first.
ABCD == <<"D", "C", "B", "A">>
EFGH == <<"H", "G", "F", "E">>
JKLM == <<"M", "L", "K", "J">>
NP   == <<"P", "N">>
MathReg == ToSet(ABCD \o EFGH \o JKLM \o NP)
Digit == 0 .. Radix - 1

\* What a byte counts, by its place.
Weight == <<1, Radix, Radix * Radix, Radix * Radix * Radix>>

get32(m, names) ==
  LET upTo[k \in 0 .. Len(names)] == IF k = 0 THEN 0 ELSE upTo[k - 1] + m[names[k]] * Weight[k]
  IN upTo[Len(names)]

put32(m, names, v) ==
  [r \in DOMAIN m |->
     IF r \in ToSet(names)
     THEN (v \div Weight[CHOOSE k \in DOMAIN names : names[k] = r]) % Radix
     ELSE m[r]]

\* A mutant: the factors' bytes are taken the other way round.
multiply_swapped(m) == put32(m, EFGH, get32(m, <<"A", "B">>) * get32(m, <<"C", "D">>))

multiply(m) == put32(m, EFGH, get32(m, <<"B", "A">>) * get32(m, <<"D", "C">>))

divide(m) ==
  LET np == get32(m, NP) IN
  IF np = 0
  THEN put32(put32(m, ABCD, Radix * Weight[4] - 1), JKLM, 0)
  ELSE put32(put32(m, ABCD, get32(m, EFGH) \div np), JKLM, get32(m, EFGH) % np)

\* lynx_suzy_write to a math register: A and E start the unit.
write_math(r, v) ==
  LET stored == [math EXCEPT ![r] = v] IN
  /\ math' = CASE r = "A" -> multiply(stored)
               [] r = "E" -> divide(stored)
               [] OTHER -> stored
  /\ UNCHANGED <<video, busy, ram, scbs, blitVars>>

-----------------------------------------------------------------------------
\* Bits, bytes and pixels.
Byte == 2 ^ (2 * PenBits)
Pens == 2 ^ PenBits
Bits == 2 * PenBits

bits_get(pos, n) ==
  LET bit(p) == (ram[(p \div Bits) % RamSize] \div (2 ^ (Bits - 1 - (p % Bits)))) % 2
      first[k \in 0 .. n] == IF k = 0 THEN 0 ELSE 2 * first[k - 1] + bit(pos + k - 1)
  IN first[n]

HighNibble(byte) == byte \div Pens
LowNibble(byte) == byte % Pens
Pitch == Width \div 2

OnScreen == (0 .. Width - 1) \X (0 .. Height - 1)
PixelAt(base, x, y) == (base + y * Pitch + x \div 2) % RamSize

\* lynx_video_render: the pens shown from a buffer.
lynx_video_render(mem, base) ==
  [p \in OnScreen |->
     LET byte == mem[PixelAt(base, p[1], p[2])] IN
     IF p[1] % 2 = 1 THEN LowNibble(byte) ELSE HighNibble(byte)]

Transparent(p, type) ==
  /\ type > 1
  /\ \/ p = 0
     \/ type = 3 /\ p = Pens - 1
     \/ type = 5 /\ p \in {Pens - 2, Pens - 1}

\* A mutant: the right edge of the screen is not tested.
Clipped_left(x, y) == x < 0 \/ y \notin 0 .. Height - 1

Clipped(x, y) == <<x, y>> \notin OnScreen

\* The memory after a pixel has been drawn.
blit_pixel(x, y, p, type) ==
  LET a   == PixelAt(video.VIDBAS, x, y)
      cur == ram[a]
      old == IF x % 2 = 1 THEN LowNibble(cur) ELSE HighNibble(cur)
      nw  == IF type = 7 THEN Xor(old, p) ELSE p
  IN IF Transparent(p, type) \/ Clipped(x, y) THEN ram
     ELSE [ram EXCEPT ![a] = IF x % 2 = 1 THEN HighNibble(cur) * Pens + nw
                                          ELSE nw * Pens + LowNibble(cur)]

-----------------------------------------------------------------------------
\* The bytes that are skipped before the palette.
skipped(reload) == reload * 2 * 2

\* A control block at one of n addresses, and the memory and registers that a
\* game leaves the blitter.
IsBlock(s, n) ==
  /\ s.next \in 0 .. n /\ s.data \in 0 .. RamSize - 1
  /\ s.bpp \in 1 .. PenBits /\ s.type \in 0 .. 7 /\ s.reload \in 0 .. 3
  /\ s.skip \in BOOLEAN /\ s.nopal \in BOOLEAN /\ s.literal \in BOOLEAN
  /\ s.hflip \in BOOLEAN /\ s.vflip \in BOOLEAN
  /\ s.hpos \in Int /\ s.vpos \in Int
  /\ s.tail \in Seq(0 .. Byte - 1) /\ Len(s.tail) >= skipped(s.reload) + Pens \div 2

IsPicture(p) ==
  /\ p.ram \in [0 .. RamSize - 1 -> 0 .. Byte - 1]
  /\ DOMAIN p.scbs = 1 .. Len(p.scbs) /\ Len(p.scbs) \in Nat
  /\ \A k \in 1 .. Len(p.scbs) : IsBlock(p.scbs[k], Len(p.scbs))
  /\ p.video \in [VIDBAS : Nat, HOFF : Int, VOFF : Int, SCBNEXT : 0 .. Len(p.scbs)]

-----------------------------------------------------------------------------
\* The blitter.
Blitting == pc # "idle"
This == scbs[scb]

\* Writing SPRGO with bit 0 set; the other registers are stored.
write_SPRGO ==
  /\ ~Blitting
  /\ busy' = TRUE
  /\ pc' = "sprite"
  /\ scb' = video.SCBNEXT
  /\ sprites' = 0
  /\ pen' = [i \in 0 .. Pens - 1 |-> i]
  /\ UNCHANGED <<math, video, ram, scbs, dp, line, br, line_bits, col, run>>

write_video(r, v) ==
  /\ ~Blitting
  /\ video' = [video EXCEPT ![r] = v]
  /\ UNCHANGED <<math, busy, ram, scbs, blitVars>>

load_palette(s) ==
  LET byte(i) == s.tail[skipped(s.reload) + i \div 2 + 1] IN
  [i \in 0 .. Pens - 1 |->
     IF s.nopal \/ i >= (2 ^ s.bpp) THEN pen[i]
     ELSE IF i % 2 = 1 THEN LowNibble(byte(i)) ELSE HighNibble(byte(i))]

ChainLeft == scb # 0 /\ sprites < MaxSprites

SpriteStep ==
  /\ pc = "sprite"
  /\ IF ChainLeft
     THEN /\ sprites' = sprites + 1
          /\ pen' = load_palette(This)
          /\ IF This.skip
             THEN scb' = This.next /\ UNCHANGED <<pc, dp, line>>
             ELSE pc' = "line" /\ dp' = This.data /\ line' = 0 /\ UNCHANGED scb
          /\ UNCHANGED busy
     ELSE /\ pc' = "idle" /\ busy' = FALSE
          /\ UNCHANGED <<scb, sprites, pen, dp, line>>
  /\ UNCHANGED <<math, video, ram, scbs, br, line_bits, col, run>>

\* A mutant: blank lines are not counted.
BlankLine_uncounted == line

BlankLine == line + 1

\* The next line: dp moves on at once, as nothing reads it before the line ends.
LineStep ==
  /\ pc = "line"
  /\ LET offset == ram[dp] IN
     IF line >= 2 * Height \/ offset = 0
     THEN /\ pc' = "sprite" /\ scb' = This.next
          /\ UNCHANGED <<dp, line, br, line_bits, col>>
     ELSE /\ dp' = (dp + offset) % RamSize
          /\ IF offset = 1
             THEN line' = BlankLine /\ UNCHANGED <<pc, br, line_bits, col>>
             ELSE /\ pc' = IF This.literal THEN "literal" ELSE "packet"
                  /\ br' = Bits * (dp + 1)
                  /\ line_bits' = Bits * (offset - 1)
                  /\ col' = 0
                  /\ UNCHANGED line
          /\ UNCHANGED scb
  /\ UNCHANGED <<math, video, busy, ram, scbs, sprites, pen, run>>

EndLine == pc' = "line" /\ line' = line + 1

\* A pen index read from the line, and a pixel drawn at the current column.
Fetch == pen[bits_get(br, This.bpp)]
Consume(n) == br' = br + n /\ line_bits' = line_bits - n

Draw(p) ==
  LET sx == This.hpos - video.HOFF
      sy == This.vpos - video.VOFF
      x  == IF This.hflip THEN sx - col ELSE sx + col
      y  == IF This.vflip THEN sy - line ELSE sy + line
  IN ram' = blit_pixel(x, y, p, This.type) /\ col' = col + 1

\* A line of pixels without packets.
LiteralStep ==
  /\ pc = "literal"
  /\ IF line_bits >= This.bpp
     THEN Draw(Fetch) /\ Consume(This.bpp) /\ UNCHANGED <<pc, line>>
     ELSE EndLine /\ UNCHANGED <<ram, col, br, line_bits>>
  /\ UNCHANGED <<math, video, busy, scbs, scb, sprites, pen, dp, run>>

\* A mutant: a packed run reads its pen without asking what is left of the line.
PenLeft_unasked == TRUE

\* After the header of a packed run: is there a pen to repeat?
PenLeft == line_bits - 1 - CountBits >= This.bpp

\* The header of a packet, and the pen of a packed one.
PacketStep ==
  /\ pc = "packet"
  /\ LET literal == bits_get(br, 1) = 1
         count   == bits_get(br + 1, CountBits)
         header  == 1 + CountBits
         px      == pen[bits_get(br + header, This.bpp)]
     IN
     \/ /\ line_bits <= 0
        /\ EndLine /\ UNCHANGED <<br, line_bits, run>>
     \/ /\ line_bits > 0 /\ literal
        /\ Consume(header)
        /\ run' = [left |-> count + 1, px |-> 0]
        /\ pc' = "literals" /\ UNCHANGED line
     \/ /\ line_bits > 0 /\ ~literal /\ (count = 0 \/ ~PenLeft)
        /\ Consume(header)
        /\ EndLine /\ UNCHANGED run
     \/ /\ line_bits > 0 /\ ~literal /\ count > 0 /\ PenLeft
        /\ Consume(header + This.bpp)
        /\ run' = [left |-> count + 1, px |-> px]
        /\ pc' = "copies" /\ UNCHANGED line
  /\ UNCHANGED <<math, video, busy, ram, scbs, scb, sprites, pen, dp, col>>

\* The pixels of a packet.
RunStep ==
  /\ pc \in {"literals", "copies"}
  /\ \/ /\ run.left = 0 \/ (pc = "literals" /\ line_bits < This.bpp)
        /\ pc' = "packet" /\ UNCHANGED <<ram, col, br, line_bits, run>>
     \/ /\ run.left > 0
        /\ run' = [run EXCEPT !.left = @ - 1]
        /\ \/ pc = "copies" /\ Draw(run.px) /\ UNCHANGED <<br, line_bits>>
           \/ /\ pc = "literals" /\ line_bits >= This.bpp
              /\ Draw(Fetch) /\ Consume(This.bpp)
        /\ UNCHANGED pc
  /\ UNCHANGED <<math, video, busy, scbs, scb, sprites, pen, dp, line>>

Blit == SpriteStep \/ LineStep \/ LiteralStep \/ PacketStep \/ RunStep

lynx_suzy_init ==
  /\ math = [r \in MathReg |-> 0]
  /\ busy = FALSE
  /\ pc = "idle" /\ scb = 0 /\ sprites = 0 /\ pen = [i \in 0 .. Pens - 1 |-> i]
  /\ dp = 0 /\ line = 0 /\ br = 0 /\ line_bits = 0 /\ col = 0
  /\ run = [left |-> 0, px |-> 0]

-----------------------------------------------------------------------------
SuzyTypeOK ==
  /\ math \in [MathReg -> Digit]
  /\ busy = Blitting
  /\ ram \in [0 .. RamSize - 1 -> 0 .. Byte - 1]
  /\ pen \in [0 .. Pens - 1 -> 0 .. Pens - 1]
  /\ Blitting => scb \in DOMAIN scbs \cup {0} /\ sprites \in 0 .. MaxSprites
  /\ line \in 0 .. 2 * Height
  /\ line_bits >= -1 - CountBits
  /\ run.left \in 0 .. 2 ^ CountBits /\ run.px \in 0 .. Pens - 1

\* The math unit computes with the numbers that the two- and four-byte registers
\* stand for, although each of its operations is started by the write to one byte
\* of an operand: the product is exact, and quotient and remainder are those of
\* the division.
MathIsExact ==
  [][LET value(names) == get32(math', names) IN
     \A v \in Digit :
       /\ write_math("A", v) => value(EFGH) = value(<<"B", "A">>) * value(<<"D", "C">>)
       /\ write_math("E", v) /\ value(NP) # 0 =>
            /\ value(ABCD) * value(NP) + value(JKLM) = value(EFGH)
            /\ value(JKLM) < value(NP)]_math

\* A pen is taken from the bits of its own line: what tells a packet's header
\* from a pixel, and the line's end, stays in step with the bit reader, whatever
\* the data says, and also in a line that wraps round the end of memory.
PensComeFromTheLine ==
  [][LET fetched == \/ pc \in {"literal", "literals"} /\ br' # br
                    \/ pc = "packet" /\ pc' = "copies"
     IN fetched => line_bits' >= 0 /\ (br' + line_bits') % (Bits * RamSize) = Bits * dp]_<<br, pc>>

\* Drawing changes one pixel of the screen that is shown from the buffer, the
\* one at the sprite's place, and nothing else in memory: also at the edges of
\* the screen and where the buffer wraps round the end of memory.
PixelsLandOnScreen ==
  [][ram' # ram /\ Blitting =>
       \E p \in OnScreen, v \in 0 .. Pens - 1 :
         /\ p[1] \in {This.hpos - video.HOFF - col, This.hpos - video.HOFF + col}
         /\ p[2] \in {This.vpos - video.VOFF - line, This.vpos - video.VOFF + line}
         /\ lynx_video_render(ram', video.VIDBAS) = [lynx_video_render(ram, video.VIDBAS) EXCEPT ![p] = v]
         /\ \A a \in 0 .. RamSize - 1 :
              ram'[a] # ram[a] => a = PixelAt(video.VIDBAS, p[1], p[2])]_ram

\* A block that loads its palette gets the pens that follow its size words, of
\* which the comments count two, three or four: HV, HVS and HVST.
PaletteIsTheBlocks ==
  [][sprites' > sprites /\ ~This.nopal =>
       LET words == CASE This.reload = 0 -> 0 [] This.reload = 1 -> 2
                      [] This.reload = 2 -> 3 [] This.reload = 3 -> 4
           byte(i) == This.tail[2 * words + i \div 2 + 1]
       IN \A i \in 0 .. (2 ^ This.bpp) - 1 :
            pen'[i] = IF i % 2 = 1 THEN LowNibble(byte(i)) ELSE HighNibble(byte(i))]_<<sprites, pen>>

\* The blitter comes to its end, whatever the chain and the data are: a game
\* waits for it inside the write to SPRGO.
BlitterStops == Blitting ~> ~Blitting
=============================================================================
