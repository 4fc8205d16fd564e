------------------------------ MODULE Packing ------------------------------
(***************************************************************************)
(* How several small codes share a byte: nibbles, fields of two and six    *)
(* bits, and the two ternary packings of ir.rs.  A byte is in 0..255.      *)
(***************************************************************************)
EXTENDS Integers

\* (byte >> low) & (2^n - 1).
Bits(byte, low, n) == (byte \div 2 ^ low) % 2 ^ n
Nibble(byte, high) == IF high THEN byte \div 16 ELSE byte % 16

(* Ternary packings: bytes in a block of 128, and where a column's code is. *)
TritBytes(trits) == IF trits = "slots2" THEN 32 ELSE 26
TritSite(trits, col) ==
    IF trits = "slots2" THEN <<col \div 4, col % 4>>
    ELSE IF col < 80 THEN <<col % 16, col \div 16>>
    ELSE IF col < 120 THEN <<16 + ((col - 80) % 8), (col - 80) \div 8>>
    ELSE <<24 + ((col - 120) % 2), (col - 120) \div 2>>

\* The dense packing's digit `step`, by repeated v *= 3; code = v >> 8; v &= 0xff.
DenseDigit(byte, step) ==
    LET v[n \in Nat] == IF n = 0 THEN byte ELSE (3 * v[n - 1]) % 256
    IN (3 * v[step]) \div 256

TritCode(trits, byte, step) ==
    IF trits = "slots2" THEN Bits(byte, 2 * step, 2) ELSE DenseDigit(byte, step)
=============================================================================
