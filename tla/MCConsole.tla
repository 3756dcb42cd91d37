------------------------------ MODULE MCConsole ------------------------------
(***************************************************************************)
(* Console for TLC.                                                        *)
(***************************************************************************)
EXTENDS Console

\* How a game uses a sound channel: off, fast with reload, slow and integrating
\* without reload, linked.
MCControl ==
  {[clock |-> 0, count |-> FALSE, reload |-> FALSE, integrate |-> FALSE, feedback7 |-> FALSE],
   [clock |-> 0, count |-> TRUE, reload |-> TRUE, integrate |-> FALSE, feedback7 |-> TRUE],
   [clock |-> 2, count |-> TRUE, reload |-> FALSE, integrate |-> TRUE, feedback7 |-> FALSE],
   [clock |-> 7, count |-> TRUE, reload |-> TRUE, integrate |-> FALSE, feedback7 |-> FALSE]}
MCWrites ==
  {<<"volume", -128>>, <<"feedback", {1, 7}>>, <<"reload", 1>>, <<"count", 1>>, <<"shiftlo", 129>>} \cup {<<"ctl", v>> : v \in MCControl}

MCFlags == {{}, {"c"}, {"d"}, {"c", "d"}, {"n"}, {"v"}, {"z"}, {"i"}}

\* Writes on both sides of each edge of the windows.
MCPoke == {0, 9, 10, 11, 12, 13, 15} \X {0, 7}

MCSuzyReg == [a \in {10, 11} |-> IF a = 10 THEN "P" ELSE "N"]

\* The memory: a sprite's data from address 2 on, a background, and a screen that
\* wraps round the end of memory or lies under the registers.
Put(data) ==
  [a \in 0 .. RamSize - 1 |->
     IF a >= 2 /\ a - 1 <= Len(data) THEN data[a - 1] ELSE IF a \in {0, 15} THEN 6 ELSE 0]

\* A block: the size words, a palette that exchanges pens, filler after it.
SpriteBlock(r) ==
  [data |-> 2, vpos |-> 0, tail |-> [k \in 1 .. 4 * r.reload |-> 5] \o <<9, 2, 5, 5>>] @@ r

Common == [reload |-> 0, skip |-> FALSE, nopal |-> FALSE, next |-> 0, vflip |-> FALSE, hflip |-> FALSE]

Screen(base, hoff) == [VIDBAS |-> base, HOFF |-> hoff, VOFF |-> 0, SCBNEXT |-> 1]

\* One line of eight arbitrary bits.
Lines ==
  {[ram   |-> Put(<<3, a, b, 0>>),
    scbs  |-> <<SpriteBlock([bpp |-> bpp, literal |-> lit, type |-> v.type, hpos |-> v.hpos] @@ v @@ Common)>>,
    video |-> Screen(v.base, v.hoff)] :
     a \in 0 .. 15, b \in 0 .. 15, bpp \in {1, 2}, lit \in BOOLEAN,
     v \in {[type |-> 0, hpos |-> 0, hflip |-> FALSE, base |-> 14, hoff |-> 0],
            [type |-> 3, hpos |-> -1, hflip |-> FALSE, base |-> 9, hoff |-> 0],
            [type |-> 5, hpos |-> 1, hflip |-> FALSE, base |-> 14, hoff |-> -1],
            [type |-> 7, hpos |-> 2, hflip |-> TRUE, base |-> 14, hoff |-> 0]}}

\* Chains: blank lines, lines that wrap round the end of memory, blocks that are skipped, that reuse a
\* palette, that have size words, and that lead back to themselves.
Chains ==
  {[ram   |-> Put(d),
    scbs  |-> <<SpriteBlock([bpp |-> 2, literal |-> FALSE, type |-> 7, hpos |-> 0, reload |-> 1,
                       skip |-> s, next |-> n, vflip |-> f] @@ Common),
                SpriteBlock([bpp |-> 1, literal |-> TRUE, type |-> 4, hpos |-> 2, nopal |-> TRUE,
                       next |-> n - 1] @@ Common)>>,
    video |-> Screen(14, 0)] :
     d \in {<<2, 13, 1, 2, 9, 0>>, <<1, 1, 1, 1, 1, 1>>, <<3, 10, 7, 2, 12, 0>>, <<2, 13, 14, 7, 9, 6>>},
     s \in BOOLEAN, n \in {1, 2}, f \in BOOLEAN}

\* Memory in which no sprite ends.
Endless ==
  {[p EXCEPT !.ram = [a \in 0 .. RamSize - 1 |-> 1]] : p \in Chains}

MCPictures == Lines \cup Chains \cup Endless

\* A block with stretch, or stretch and tilt.
MCStretched ==
  {[ram   |-> Put(<<2, 13, 0>>),
    scbs  |-> <<[SpriteBlock([bpp |-> 1, literal |-> TRUE, type |-> 4, hpos |-> 0, reload |-> r] @@ Common)
                  EXCEPT !.tail = [k \in 1 .. 2 * (r + 1) |-> 5] \o <<9, 2, 5, 5, 5, 5>>]>>,
    video |-> Screen(14, 0)] : r \in {2, 3}}
\* Not every button is bound on every device; codes are numbers.
MCDefaultBind ==
  [b \in Binding |->
     CASE b = <<1, "A", "key">> -> 1 [] b = <<1, "A", "pad">> -> 9 [] OTHER -> Unset]

MCChoice == {<<"scale", 8>>, <<"rotate", 1>>, <<"volume", 996>>}
\* Values out of range, a volume that no rounding leaves alone, and the code of
\* Escape or of no key at all.
MCEdit == {<<"scale", 99>>, <<"rotate", -1>>, <<"mute", 7>>, <<"volume", -5>>}
MCRebound == {<<1, "A", "key">>} \X {41, 700}
=============================================================================
