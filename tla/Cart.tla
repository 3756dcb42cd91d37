-------------------------------- MODULE Cart --------------------------------
(***************************************************************************)
(* The cartridge port as tools/m65c02recomp/lynxrun.c gives it to the      *)
(* program it boots: a block number is shifted in, one bit for each rising *)
(* edge of the strobe, and the bytes of that block are read one after the  *)
(* other.  The loader, in the boot ROM or the game, is not part of the     *)
(* repository: it selects a block, highest bit first, and reads.           *)
(***************************************************************************)
EXTENDS Integers

CONSTANTS
  BlockBits,  (* bits of a block number, 8 *)
  pagesize,   (* bytes in a block *)
  cart_size,  (* bytes in the cartridge *)
  MaxReads    (* bound: reads from one block *)

\* A block number is kept to a byte.
ASSUME CartAssumption ==
  BlockBits \in 1 .. 8 /\ {pagesize, cart_size, MaxReads} \subseteq Nat \ {0}

VARIABLES
  cart_block, cart_pos, iodat, strobe_prev,
  wanted,  (* the block the loader wants *)
  left,    (* the bits it has still to shift in *)
  loader,  (* what it does next *)
  nth,     (* the bytes it has read of the block *)
  got      (* the last of them, or -1 *)

cartVars == <<cart_block, cart_pos, iodat, strobe_prev, wanted, left, loader, nth, got>>

Block == 0 .. (2 ^ BlockBits) - 1

\* The cartridge: what it holds at an address identifies the address.
cart == [a \in 0 .. cart_size - 1 |-> a]
Blank == cart_size

byte_at(a) == IF a < cart_size THEN cart[a] ELSE Blank

\* A read of the cartridge port.
cart_read ==
  /\ got' = byte_at(cart_block * pagesize + cart_pos)
  /\ cart_pos' = cart_pos + 1
  /\ UNCHANGED <<cart_block, iodat, strobe_prev>>

\* A write of IODAT, of which one bit is the cartridge's data line.
write_IODAT(bit) ==
  iodat' = bit /\ UNCHANGED <<cart_block, cart_pos, strobe_prev>>

\* A mutant: the position in the block outlives a selection.
write_SYSCTL1_keeping(strobe) ==
  /\ strobe_prev' = strobe
  /\ IF strobe = 1 /\ strobe_prev = 0
     THEN cart_block' = (2 * cart_block + iodat) % (2 ^ BlockBits)
     ELSE UNCHANGED cart_block
  /\ UNCHANGED <<cart_pos, iodat>>

\* A write of SYSCTL1, of which one bit is the strobe.
write_SYSCTL1(strobe) ==
  /\ strobe_prev' = strobe
  /\ IF strobe = 1 /\ strobe_prev = 0
     THEN cart_block' = (2 * cart_block + iodat) % (2 ^ BlockBits) /\ cart_pos' = 0
     ELSE UNCHANGED <<cart_block, cart_pos>>
  /\ UNCHANGED iodat

\* The loader starts over with another block, also in the middle of a selection.
Want ==
  /\ loader \in {"read", "data"}
  /\ wanted' \in Block
  /\ left' = BlockBits /\ loader' = "data" /\ nth' = 0 /\ got' = -1
  /\ UNCHANGED <<cart_block, cart_pos, iodat, strobe_prev>>

PutBit ==
  /\ loader = "data"
  /\ write_IODAT((wanted \div (2 ^ (left - 1))) % 2)
  /\ loader' = "raise"
  /\ UNCHANGED <<wanted, left, nth, got>>

Raise ==
  /\ loader = "raise"
  /\ write_SYSCTL1(1)
  /\ loader' = "lower"
  /\ UNCHANGED <<wanted, left, nth, got>>

\* The strobe goes low, perhaps by a write that repeats.
Lower ==
  /\ loader = "lower"
  /\ \/ write_SYSCTL1(0) /\ left' = left - 1 /\ loader' = IF left = 1 THEN "read" ELSE "data"
     \/ write_SYSCTL1(1) /\ UNCHANGED <<left, loader>>
  /\ UNCHANGED <<wanted, nth, got>>

Read ==
  /\ loader = "read" /\ left = 0
  /\ nth < MaxReads
  /\ cart_read
  /\ nth' = nth + 1
  /\ UNCHANGED <<wanted, left, loader>>

\* The machine's set-up: the loader has asked for nothing.
CartInit ==
  /\ cart_block = 0 /\ cart_pos = 0 /\ iodat = 0 /\ strobe_prev = 0
  /\ wanted = 0 /\ left = BlockBits /\ loader = "data" /\ nth = 0 /\ got = -1

CartNext == Want \/ PutBit \/ Raise \/ Lower \/ Read

-----------------------------------------------------------------------------
CartTypeOK ==
  /\ cart_block \in Block
  /\ iodat \in {0, 1} /\ strobe_prev \in {0, 1}
  /\ left \in 0 .. BlockBits

\* The loader gets the bytes of the block it asked for, from the first one on,
\* whatever block was selected, half selected or half read before, and also if
\* the strobe is raised twice.
CartReadsBack ==
  nth > 0 => got = byte_at(wanted * pagesize + nth - 1)

=============================================================================
