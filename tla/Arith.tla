------------------------------- MODULE Arith -------------------------------
(***************************************************************************)
(* What is computed with the numbers of Modular: exp(x) = 2^x modulo Prime *)
(* turns sums into products, and a quotient is taken modulo Prime.  The    *)
(* other functions are fixed polynomials.                                  *)
(***************************************************************************)
EXTENDS Modular, Sequences, TLC

\* The sequence s, evaluated once.
Strict(s) == SubSeq(s, 1, Len(s))
\* n values, f(0) .. f(n - 1).
Vector(n, f(_)) == Strict([i \in 1 .. n |-> f(i - 1)])

RECURSIVE PowerMod(_, _)
PowerMod(a, n) ==
    IF n = 0 THEN 1
    ELSE LET h == PowerMod((a * a) % Prime, n \div 2)
         IN IF n % 2 = 1 THEN (a * h) % Prime ELSE h

Over(a, b) ==
    IF a < 0 \/ b < 0 \/ b % Prime = 0 THEN NaN
    ELSE ((a % Prime) * PowerMod(b % Prime, Prime - 2)) % Prime

Expo(x) == IF x = NaN THEN NaN ELSE IF x = NegInf THEN 0 ELSE PowerMod(2, x % (Prime - 1))

\* BinOp::apply and UnOp::apply.
Apply2(f, a, b) ==
    CASE f = "add" -> Plus2(a, b)
      [] f = "sub" -> Minus(a, b)
      [] f = "mul" -> Times(a, b)
      [] f = "div" -> Over(a, b)
      [] f = "max" -> Greater(a, b)

Apply1(f, x) ==
    CASE f = "exp"      -> Expo(x)
      [] f = "sigmoid"  -> IF x < 0 THEN NaN ELSE (x * x + 5 * x + 2) % Modulus
      [] f = "rsqrt"    -> IF x < 0 THEN NaN ELSE (x * x + 3 * x + 7) % Modulus
      [] f = "log"      -> IF x < 0 THEN NaN ELSE (3 * x * (x % 97) + x + 5) % Modulus
      [] f = "softplus" -> IF x < 0 THEN NaN ELSE (x * x + 9 * x + 4) % Modulus

\* round: F16 keeps multiples of `unit`, I8 clamps to a signed byte.
Rounded(dt, unit, x) ==
    IF x < 0 \/ dt = "F32" THEN x
    ELSE IF dt = "F16" THEN x - (x % unit)
    ELSE Number(IF Signed(x) > 127 THEN 127 ELSE IF Signed(x) < -128 THEN -128 ELSE Signed(x))

(* Decoders of packed weights. *)
\* e2m1 in halves, and e4m3 in units of 2^-9.
E2m1(code) ==
    LET mag == << 0, 1, 2, 3, 4, 6, 8, 12 >>[(code % 8) + 1]
    IN Number(IF code \div 8 = 1 THEN -mag ELSE mag)
E4m3(b) ==
    LET e == (b \div 8) % 16
        m == b % 8
        v == IF e = 0 THEN m ELSE (8 + m) * 2 ^ (e - 1)
    IN IF e = 15 /\ m = 7 THEN NaN ELSE Number(IF b \div 128 = 1 THEN -v ELSE v)

\* The sum of a sequence of numbers, half and half.
SumAll(s) ==
    LET RECURSIVE Part(_, _)
        Part(lo, hi) ==
            LET mid == (lo + hi) \div 2
            IN IF lo > hi THEN 0 ELSE IF lo = hi THEN s[lo] ELSE Plus2(Part(lo, mid), Part(mid + 1, hi))
    IN Part(1, Len(s))

\* Equal as real functions would be: modulo Prime.
Agree(a, b) ==
    /\ Len(a) = Len(b)
    /\ \A i \in DOMAIN a : IF a[i] < 0 \/ b[i] < 0 THEN a[i] = b[i] ELSE a[i] % Prime = b[i] % Prime
=============================================================================
