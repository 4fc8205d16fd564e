------------------------------ MODULE Modular ------------------------------
(***************************************************************************)
(* The numbers tiles hold.  A float is abstracted by an integer modulo     *)
(* Prime * (Prime - 1): sums and products are exact whatever their order.  *)
(* So two kernels that are equal as real functions agree modulo Prime, and *)
(* two that are not differ for almost every input.  -inf and NaN are kept, *)
(* and a signed byte is the number it is congruent to.                     *)
(***************************************************************************)
EXTENDS Integers

Prime   == 101
Modulus == Prime * (Prime - 1)
NegInf  == -1
NaN     == -2

Number(x) == x % Modulus
Infinite(a, b) == IF NaN \in {a, b} THEN NaN ELSE NegInf

Plus2(a, b) == IF a < 0 \/ b < 0 THEN Infinite(a, b) ELSE (a + b) % Modulus
Minus(a, b) == IF a < 0 \/ b < 0 THEN (IF b < 0 THEN NaN ELSE a) ELSE (a - b) % Modulus
Times(a, b) == IF a < 0 \/ b < 0 THEN NaN ELSE (a * b) % Modulus
Greater(a, b) == IF a < b THEN b ELSE a

Signed(x) == IF x >= Modulus \div 2 THEN x - Modulus ELSE x
Byte(x)   == Signed(x) % 256
=============================================================================
