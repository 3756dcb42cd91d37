-------------------------------- MODULE Bytes --------------------------------
(***************************************************************************)
(* A byte is a number below 256, and bit k of it has the weight 2 ^ k.     *)
(* The operators that C writes &, | and ^, bit by bit.                     *)
(***************************************************************************)
EXTENDS Integers

BitOf(n, k) == (n \div (2 ^ k)) % 2

\* The byte that has these eight bits.
OfBits(b) ==
  b[0] + (2 * b[1]) + (4 * b[2]) + (8 * b[3]) + (16 * b[4]) + (32 * b[5]) + (64 * b[6]) + (128 * b[7])

And(x, y) == OfBits([k \in 0 .. 7 |-> BitOf(x, k) * BitOf(y, k)])
Or(x, y)  == OfBits([k \in 0 .. 7 |-> IF BitOf(x, k) + BitOf(y, k) > 0 THEN 1 ELSE 0])
Xor(x, y) == OfBits([k \in 0 .. 7 |-> (BitOf(x, k) + BitOf(y, k)) % 2])
=============================================================================
