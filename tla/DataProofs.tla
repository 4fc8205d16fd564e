----------------------------- MODULE DataProofs -----------------------------
(***************************************************************************)
(* Induction, and what it gives: a function defined by recursion on the    *)
(* numbers has the values its equation says.  (In an obligation such a     *)
(* function is a CHOOSE, of which nothing is known until one is shown to   *)
(* exist.)                                                                 *)
(***************************************************************************)
EXTENDS Naturals, Sequences, SequenceTheorems, WellFoundedInduction, TLAPS

(* A non-empty set of numbers has a least element.                         *)
LEMMA LeastNumber ==
  ASSUME NEW T \in SUBSET Nat, T /= {}
  PROVE  \E m \in T : \A k \in T : m <= k
<1> DEFINE R == OpToRel(<, Nat)
<1>0. \A x, y \in Nat : x < y <=> <<x, y>> \in R
  BY DEF OpToRel
<1>1. IsWellFoundedOn(R, Nat)
  BY NatLessThanWellFounded
<1> HIDE DEF R
<1>2. PICK m \in T : \A k \in T : ~(<<k, m>> \in R)
  BY <1>1, WFMin
<1>3. \A k \in T : ~(k < m)
  BY <1>0, <1>2
<1> QED BY <1>3

(* What holds of 0, and of n + 1 if of n, holds of every number.           *)
LEMMA Induction ==
  ASSUME NEW T \in SUBSET Nat, 0 \in T, \A n \in T : n + 1 \in T
  PROVE  T = Nat
<1> SUFFICES ASSUME Nat \ T /= {} PROVE FALSE
  OBVIOUS
<1>1. PICK m \in Nat \ T : \A k \in Nat \ T : m <= k
  BY LeastNumber
<1>2. m - 1 \in Nat /\ m - 1 \notin Nat \ T
  BY <1>1
<1> QED BY <1>1, <1>2

(* The beginnings of a recursion, up to n.                                 *)
Begun(S, a, F, n) ==
  { g \in [0..n -> S] : g[0] = a /\ \A k \in 0..(n - 1) : g[k + 1] = F[<<k, g[k]>>] }

(* A recursion can be followed as far as one likes.                        *)
LEMMA BegunExists ==
  ASSUME NEW S, NEW a \in S, NEW F \in [Nat \X S -> S], NEW n \in Nat
  PROVE  Begun(S, a, F, n) /= {}
<1> DEFINE T == { m \in Nat : Begun(S, a, F, m) /= {} }
<1>1. 0 \in T
  <2> DEFINE g == [k \in 0..0 |-> a]
  <2>1. g \in Begun(S, a, F, 0)
    BY DEF Begun
  <2> QED BY <2>1
<1>2. ASSUME NEW m \in T PROVE m + 1 \in T
  <2>1. PICK g \in [0..m -> S] :
          g[0] = a /\ \A k \in 0..(m - 1) : g[k + 1] = F[<<k, g[k]>>]
    BY <1>2 DEF Begun
  <2> DEFINE h == [k \in 0..(m + 1) |-> IF k = m + 1 THEN F[<<m, g[m]>>] ELSE g[k]]
  <2>2. m \in Nat /\ F[<<m, g[m]>>] \in S
    OBVIOUS
  <2>3. h \in [0..(m + 1) -> S]
    <3>1. ASSUME NEW k \in 0..(m + 1) PROVE h[k] \in S
      BY <2>2
    <3> QED BY <3>1
  <2>4. h[0] = a
    BY <2>1, <2>2
  <2>5. ASSUME NEW k \in 0..m PROVE h[k + 1] = F[<<k, h[k]>>]
    <3>1. k \in 0..(m + 1) /\ k /= m + 1 /\ k + 1 \in 0..(m + 1)
      BY <2>2
    <3>2. h[k] = g[k] /\ h[k + 1] = IF k + 1 = m + 1 THEN F[<<m, g[m]>>] ELSE g[k + 1]
      BY <3>1
    <3>3. CASE k = m
      BY <3>2, <3>3
    <3>4. CASE k /= m
      <4>1. k \in 0..(m - 1) /\ k + 1 /= m + 1
        BY <2>2, <3>4
      <4> QED BY <2>1, <3>2, <4>1
    <3> QED BY <3>3, <3>4
  <2> HIDE DEF h
  <2>6. h \in Begun(S, a, F, m + 1)
    BY <2>2, <2>3, <2>4, <2>5 DEF Begun
  <2> QED BY <2>2, <2>6
<1> HIDE DEF T
<1>3. T = Nat
  <2>1. T \in SUBSET Nat
    BY DEF T
  <2> QED BY <1>1, <1>2, <2>1, Induction
<1> QED BY <1>3 DEF T

(* Two beginnings of a recursion agree as far as both go.                  *)
LEMMA BegunAgree ==
  ASSUME NEW S, NEW a \in S, NEW F \in [Nat \X S -> S],
         NEW m \in Nat, NEW n \in Nat,
         NEW g \in Begun(S, a, F, m), NEW h \in Begun(S, a, F, n)
  PROVE  \A k \in Nat : k <= m /\ k <= n => g[k] = h[k]
<1> DEFINE T == { k \in Nat : k <= m /\ k <= n => g[k] = h[k] }
<1>1. 0 \in T
  BY DEF Begun
<1>2. ASSUME NEW k \in T PROVE k + 1 \in T
  <2> SUFFICES ASSUME k + 1 <= m, k + 1 <= n PROVE g[k + 1] = h[k + 1]
    OBVIOUS
  <2>1. k \in 0..(m - 1) /\ k \in 0..(n - 1) /\ g[k] = h[k]
    OBVIOUS
  <2> QED BY <2>1 DEF Begun
<1> HIDE DEF T
<1>3. T = Nat
  <2>1. T \in SUBSET Nat
    BY DEF T
  <2> QED BY <1>1, <1>2, <2>1, Induction
<1> QED BY <1>3 DEF T

(* f starts with a and goes on, value after value, as F says.              *)
Follows(f, S, a, F) ==
  /\ f \in [Nat -> S] /\ f[0] = a
  /\ \A n \in Nat : f[n + 1] = F[<<n, f[n]>>]

(* Recursion on the numbers defines a function.                            *)
LEMMA RecursionExists ==
  ASSUME NEW S, NEW a \in S, NEW F \in [Nat \X S -> S]
  PROVE  \E f : Follows(f, S, a, F)
<1> DEFINE G(n) == CHOOSE g \in Begun(S, a, F, n) : TRUE
           f == [n \in Nat |-> G(n)[n]]
<1>1. ASSUME NEW n \in Nat PROVE G(n) \in Begun(S, a, F, n)
  BY BegunExists
<1>2. f \in [Nat -> S] /\ \A n \in Nat : f[n] = G(n)[n]
  <2>1. ASSUME NEW n \in Nat PROVE G(n)[n] \in S
    <3> HIDE DEF G
    <3> QED BY <1>1 DEF Begun
  <2> HIDE DEF G
  <2> QED BY <2>1
<1> HIDE DEF G, f
<1>3. f[0] = a
  BY <1>1, <1>2 DEF Begun
<1>4. ASSUME NEW m \in Nat, NEW n \in Nat, n <= m PROVE G(m)[n] = G(n)[n]
  <2>1. \A g \in Begun(S, a, F, m), h \in Begun(S, a, F, n) : g[n] = h[n]
    BY <1>4, BegunAgree
  <2> QED BY <1>1, <2>1
<1>5. ASSUME NEW n \in Nat PROVE f[n + 1] = F[<<n, f[n]>>]
  <2>1. G(n + 1)[n] = G(n)[n]
    BY <1>4
  <2>2. G(n + 1)[n + 1] = F[<<n, G(n + 1)[n]>>]
    <3>1. n + 1 \in Nat /\ n \in 0..((n + 1) - 1)
      OBVIOUS
    <3> QED BY <3>1, <1>1 DEF Begun
  <2> QED BY <1>2, <2>1, <2>2
<1> QED BY <1>2, <1>3, <1>5 DEF Follows

(* Sequences one behind another: FlattenSeq of the community modules, which *)
(* its users here take under different names.                              *)
Joined(ss) ==
  IF Len(ss) = 0 THEN ss
  ELSE LET flatten[i \in 1..Len(ss)] == IF i = 1 THEN ss[i] ELSE flatten[i - 1] \o ss[i]
       IN flatten[Len(ss)]

(* It puts them together one by one.                                       *)
LEMMA JoinedFacts ==
  ASSUME NEW A, NEW ss \in Seq(Seq(A))
  PROVE  \E g \in [0..Len(ss) -> Seq(A)] :
           /\ g[0] = <<>> /\ \A i \in 1..Len(ss) : g[i] = g[i - 1] \o ss[i]
           /\ Joined(ss) = g[Len(ss)]
<1> DEFINE n == Len(ss)
           B == Seq(A)
           Z(f) == [i \in 1..n |-> IF i = 1 THEN ss[i] ELSE f[i - 1] \o ss[i]]
           flatten == CHOOSE f : f = Z(f)
           N(i, s) == IF i \in 1..n THEN s \o ss[i] ELSE s
           F == [x \in Nat \X B |-> N(x[1] + 1, x[2])]
<1>0. n \in Nat /\ \A i \in 1..n : ss[i] \in B
  BY LenProperties, ElementOfSeq
<1>1. <<>> \in B /\ Len(<<>>) = 0
  BY EmptySeq
<1>2. \A i \in Nat, s \in B : N(i + 1, s) \in B
  <2> SUFFICES ASSUME NEW i \in Nat, NEW s \in B PROVE N(i + 1, s) \in B
    OBVIOUS
  <2>1. CASE i + 1 \in 1..n
    BY <1>0, <2>1, ConcatProperties
  <2>2. CASE i + 1 \notin 1..n
    BY <2>2
  <2> QED BY <2>1, <2>2
<1>3. Joined(ss) = IF n = 0 THEN ss ELSE flatten[n]
  BY DEF Joined
<1> HIDE DEF n, B
<1>4. PICK g \in [Nat -> B] : g[0] = <<>> /\ \A i \in Nat : g[i + 1] = N(i + 1, g[i])
  <2> HIDE DEF N
  <2>1. F \in [Nat \X B -> B] /\ \A i \in Nat, s \in B : F[<<i, s>>] = N(i + 1, s)
    BY <1>2
  <2> HIDE DEF F
  <2>2. PICK f : Follows(f, B, <<>>, F)
    BY <1>1, <2>1, RecursionExists
  <2>3. f \in [Nat -> B] /\ f[0] = <<>> /\ \A i \in Nat : f[i + 1] = F[<<i, f[i]>>]
    BY <2>2 DEF Follows
  <2>4. \A i \in Nat : f[i] \in B
    BY <2>3
  <2> QED BY <2>1, <2>3, <2>4
<1>5. \A i \in 1..n : i - 1 \in Nat /\ g[i] = g[i - 1] \o ss[i]
  <2> SUFFICES ASSUME NEW i \in 1..n PROVE i - 1 \in Nat /\ g[i] = g[i - 1] \o ss[i]
    OBVIOUS
  <2>1. i - 1 \in Nat /\ (i - 1) + 1 = i
    BY <1>0
  <2>2. g[(i - 1) + 1] = N((i - 1) + 1, g[i - 1])
    BY <1>4, <2>1
  <2> QED BY <2>1, <2>2
<1> HIDE DEF N
<1>6. \E f : f = Z(f)
  <2> DEFINE h == [i \in 1..n |-> g[i]]
  <2>1. ASSUME NEW i \in 1..n PROVE g[i] = IF i = 1 THEN ss[i] ELSE h[i - 1] \o ss[i]
    <3>1. CASE i = 1
      <4>1. g[i] = g[0] \o ss[i]
        <5>1. i - 1 = 0
          BY <3>1
        <5> QED BY <1>5, <5>1
      <4>2. <<>> \o ss[i] = ss[i]
        BY <1>0, ConcatEmptySeq DEF B
      <4> QED BY <1>4, <3>1, <4>1, <4>2
    <3>2. CASE i /= 1
      <4>1. i - 1 \in 1..n
        BY <1>0, <3>2
      <4>2. h[i - 1] = g[i - 1]
        BY <4>1
      <4> QED BY <1>5, <3>2, <4>2
    <3> QED BY <3>1, <3>2
  <2>2. h = Z(h)
    BY <2>1
  <2> QED BY <2>2
<1>7. flatten = Z(flatten)
  <2> HIDE DEF Z
  <2> QED BY <1>6
<1> HIDE DEF flatten
<1>8. \A i \in 1..n : flatten[i] = IF i = 1 THEN ss[i] ELSE flatten[i - 1] \o ss[i]
  <2>1. \A i \in 1..n : Z(flatten)[i] = IF i = 1 THEN ss[i] ELSE flatten[i - 1] \o ss[i]
    OBVIOUS
  <2> HIDE DEF Z
  <2> QED BY <1>7, <2>1
<1> DEFINE T == { k \in Nat : k + 1 \in 1..n => flatten[k + 1] = g[k + 1] }
<1>9. 0 \in T
  <2> SUFFICES ASSUME 0 + 1 \in 1..n PROVE flatten[0 + 1] = g[0 + 1]
    OBVIOUS
  <2>1. 1 \in 1..n /\ flatten[1] = ss[1] /\ g[1] = g[0] \o ss[1]
    <3>1. 1 \in 1..n /\ 1 - 1 = 0
      BY <1>0
    <3>2. g[1] = g[1 - 1] \o ss[1]
      BY <1>5, <3>1
    <3> QED BY <1>8, <3>1, <3>2
  <2>2. <<>> \o ss[1] = ss[1]
    BY <1>0, <2>1, ConcatEmptySeq DEF B
  <2>3. flatten[1] = g[1] /\ 0 + 1 = 1
    BY <1>4, <2>1, <2>2
  <2> QED BY <2>3
<1>10. ASSUME NEW k \in T PROVE k + 1 \in T
  <2> SUFFICES ASSUME (k + 1) + 1 \in 1..n PROVE flatten[(k + 1) + 1] = g[(k + 1) + 1]
    OBVIOUS
  <2> DEFINE i == (k + 1) + 1
  <2>0. k \in Nat /\ i \in 1..n /\ i /= 1 /\ i - 1 = k + 1 /\ k + 1 \in 1..n
    BY <1>0
  <2>1. flatten[k + 1] = g[k + 1]
    BY <2>0
  <2> HIDE DEF i
  <2>2. flatten[i] = flatten[i - 1] \o ss[i] /\ g[i] = g[i - 1] \o ss[i]
    BY <1>5, <1>8, <2>0
  <2>3. flatten[i] = g[i]
    BY <2>0, <2>1, <2>2
  <2> QED BY <2>3 DEF i
<1> HIDE DEF T
<1>11. T = Nat
  <2>1. T \in SUBSET Nat
    BY DEF T
  <2> QED BY <1>9, <1>10, <2>1, Induction
<1>12. Joined(ss) = g[n]
  <2>1. CASE n = 0
    <3>1. ss = <<>>
      BY <2>1, EmptySeq DEF n
    <3> QED BY <1>3, <1>4, <2>1, <3>1
  <2>2. CASE n /= 0
    <3>1. n - 1 \in T /\ (n - 1) + 1 = n /\ n \in 1..n
      BY <1>0, <1>11, <2>2
    <3>2. flatten[n] = g[n]
      BY <3>1 DEF T
    <3> QED BY <1>3, <2>2, <3>2
  <2> QED BY <2>1, <2>2
<1> DEFINE h == [i \in 0..n |-> g[i]]
<1>13. h \in [0..n -> B] /\ h[0] = <<>> /\ Joined(ss) = h[n]
  <2>1. ASSUME NEW i \in 0..n PROVE g[i] \in B
    BY <1>0
  <2>2. 0 \in 0..n /\ n \in 0..n
    BY <1>0
  <2> QED BY <1>4, <1>12, <2>1, <2>2
<1>14. ASSUME NEW i \in 1..n PROVE h[i] = h[i - 1] \o ss[i]
  <2>1. i \in 0..n /\ i - 1 \in 0..n
    BY <1>0
  <2> QED BY <1>5, <2>1
<1> HIDE DEF h
<1> QED BY <1>13, <1>14 DEF n, B

(* Where the i-th sequence is when n of them have been put together to s,  *)
(* and that there is nothing else.                                         *)
Laid(ss, off, n, s) ==
  /\ \A i \in 0..n : off[i] <= off[n]
  /\ \A i \in 1..n : \A m \in 1..Len(ss[i]) :
       off[i - 1] + m \in 1..Len(s) /\ s[off[i - 1] + m] = ss[i][m]
  /\ \A k \in 1..Len(s) : \E i \in 1..n : \E m \in 1..Len(ss[i]) : k = off[i - 1] + m

(* off[i] is where the first i of them end.                                *)
Offsets(ss, off) ==
  /\ off \in [0..Len(ss) -> Nat] /\ off[0] = 0
  /\ \A i \in 1..Len(ss) : off[i] = off[i - 1] + Len(ss[i])
  /\ \A i, j \in 0..Len(ss) : i <= j => off[i] <= off[j]

LEMMA JoinedPlaces ==
  ASSUME NEW A, NEW ss \in Seq(Seq(A))
  PROVE  /\ Joined(ss) \in Seq(A)
         /\ \E off : Offsets(ss, off) /\ Laid(ss, off, Len(ss), Joined(ss))
<1> DEFINE n == Len(ss)
<1>1. PICK g \in [0..n -> Seq(A)] :
        /\ g[0] = <<>> /\ \A i \in 1..n : g[i] = g[i - 1] \o ss[i]
        /\ Joined(ss) = g[n]
  BY JoinedFacts
<1>2. n \in Nat /\ \A i \in 1..n : ss[i] \in Seq(A) /\ Len(ss[i]) \in Nat
  BY LenProperties, ElementOfSeq
<1> HIDE DEF n
<1> DEFINE off == [i \in 0..n |-> Len(g[i])]
<1>3. /\ off \in [0..n -> Nat] /\ off[0] = 0
      /\ \A i \in 0..n : off[i] = Len(g[i]) /\ off[i] \in Nat /\ g[i] \in Seq(A)
  <2>1. \A i \in 0..n : g[i] \in Seq(A) /\ Len(g[i]) \in Nat
    BY <1>1, LenProperties
  <2>2. 0 \in 0..n /\ Len(g[0]) = 0
    BY <1>1, <1>2, EmptySeq
  <2> QED BY <2>1, <2>2
<1> HIDE DEF off
<1>4. ASSUME NEW i \in 1..n
      PROVE  /\ i - 1 \in 0..n /\ i \in 0..n
             /\ off[i] = off[i - 1] + Len(ss[i]) /\ off[i - 1] <= off[i]
             /\ \A k \in 1..off[i] : g[i][k] = IF k <= off[i - 1] THEN g[i - 1][k] ELSE ss[i][k - off[i - 1]]
  <2>1. i - 1 \in 0..n /\ i \in 0..n
    BY <1>2
  <2>2. g[i] = g[i - 1] \o ss[i]
    BY <1>1
  <2>3. /\ Len(g[i]) = Len(g[i - 1]) + Len(ss[i])
        /\ \A k \in 1..(Len(g[i - 1]) + Len(ss[i])) :
             g[i][k] = IF k <= Len(g[i - 1]) THEN g[i - 1][k] ELSE ss[i][k - Len(g[i - 1])]
    <3>1. g[i - 1] \in Seq(A) /\ ss[i] \in Seq(A)
      BY <1>2, <1>3, <2>1
    <3> DEFINE s == g[i - 1]
               t == ss[i]
    <3>2. g[i] = s \o t /\ s \in Seq(A) /\ t \in Seq(A)
      BY <2>2, <3>1
    <3> HIDE DEF s, t
    <3>3. /\ Len(s \o t) = Len(s) + Len(t)
          /\ \A k \in 1..(Len(s) + Len(t)) : (s \o t)[k] = IF k <= Len(s) THEN s[k] ELSE t[k - Len(s)]
      BY <3>2, ConcatProperties
    <3> QED BY <3>2, <3>3 DEF s, t
  <2>4. off[i] = off[i - 1] + Len(ss[i])
    BY <1>3, <2>1, <2>3
  <2>5. off[i - 1] <= off[i]
    <3>1. off[i - 1] \in Nat
      BY <1>3, <2>1
    <3>2. Len(ss[i]) \in Nat
      BY <1>2, LenProperties
    <3> DEFINE a == off[i - 1]
               c == Len(ss[i])
    <3>3. off[i] = a + c
      BY <2>4
    <3> HIDE DEF a, c
    <3>4. a \in Nat /\ c \in Nat
      BY <3>1, <3>2 DEF a, c
    <3>5. a <= off[i]
      BY <3>3, <3>4
    <3> QED BY <3>5 DEF a
  <2>6. \A k \in 1..off[i] : g[i][k] = IF k <= off[i - 1] THEN g[i - 1][k] ELSE ss[i][k - off[i - 1]]
    BY <1>3, <2>1, <2>3
  <2> QED BY <2>1, <2>4, <2>5, <2>6
<1> DEFINE T == { k \in Nat : k <= n => Laid(ss, off, k, g[k]) }
<1>5. 0 \in T
  <2>1. Laid(ss, off, 0, g[0])
    <3>1. Len(g[0]) = 0
      BY <1>2, <1>3
    <3> QED BY <1>3, <3>1 DEF Laid
  <2> QED BY <2>1
<1>6. ASSUME NEW k \in T PROVE k + 1 \in T
  <2> SUFFICES ASSUME k + 1 <= n PROVE Laid(ss, off, k + 1, g[k + 1])
    OBVIOUS
  <2> DEFINE j == k + 1
  <2>1. k \in Nat /\ j \in Nat /\ j = k + 1 /\ j \in 1..n /\ j - 1 = k /\ k \in 0..n /\ j \in 0..n
    BY <1>2
  <2>2. Laid(ss, off, k, g[k])
    BY <2>1
  <2> HIDE DEF j, T
  <2>3. \A x \in 1..off[j] : g[j][x] = IF x <= off[k] THEN g[k][x] ELSE ss[j][x - off[k]]
    BY <1>4, <2>1
  <2>4. /\ off[k] \in Nat /\ off[j] \in Nat /\ off[k] = Len(g[k]) /\ off[j] = Len(g[j])
        /\ Len(ss[j]) \in Nat /\ off[j] = off[k] + Len(ss[j])
    <3>1. off[k] \in Nat /\ off[j] \in Nat /\ off[k] = Len(g[k]) /\ off[j] = Len(g[j])
      BY <1>3, <2>1
    <3>2. Len(ss[j]) \in Nat
      BY <1>2, <2>1
    <3>3. off[j] = off[k] + Len(ss[j])
      BY <1>4, <2>1
    <3> QED BY <3>1, <3>2, <3>3
  <2>5. PICK p \in Nat : p = off[k] /\ p = Len(g[k])
    BY <2>4
  <2>6. PICK q \in Nat : q = off[j] /\ q = Len(g[j])
    BY <2>4
  <2>7. PICK l \in Nat : l = Len(ss[j])
    BY <2>4
  <2>8. q = p + l
    BY <2>4, <2>5, <2>6, <2>7
  <2>9. ASSUME NEW i \in 0..j PROVE off[i] <= off[j]
    <3>1. CASE i = j
      <4>1. q <= q
        OBVIOUS
      <4> QED BY <2>6, <3>1, <4>1
    <3>2. CASE i /= j
      <4>1. i \in 0..k /\ i \in 0..n
        BY <1>2, <2>1, <3>2
      <4>2. off[i] <= off[k]
        BY <2>2, <4>1 DEF Laid
      <4>3. PICK o \in Nat : o = off[i]
        BY <1>3, <4>1
      <4>4. o <= p
        BY <2>5, <4>2, <4>3
      <4>5. o <= q
        BY <2>8, <4>4
      <4> QED BY <2>6, <4>3, <4>5
    <3> QED BY <3>1, <3>2
  <2>10. ASSUME NEW i \in 1..j, NEW m \in 1..Len(ss[i])
         PROVE  off[i - 1] + m \in 1..Len(g[j]) /\ g[j][off[i - 1] + m] = ss[i][m]
    <3>1. CASE i = j
      <4>1. off[i - 1] = p /\ ss[i] = ss[j]
        BY <2>1, <2>5, <3>1
      <4>2. m \in 1..l
        BY <2>7, <4>1
      <4>3. PICK x \in Nat : x = p + m
        BY <4>2
      <4>4. x \in 1..q /\ ~(x <= p) /\ x - p = m
        BY <2>8, <4>2, <4>3
      <4>5. g[j][x] = ss[j][x - p]
        BY <2>3, <2>5, <2>6, <4>4
      <4> QED BY <2>6, <4>1, <4>3, <4>4, <4>5
    <3>2. CASE i /= j
      <4>1. i \in 1..k
        BY <2>1, <3>2
      <4>2. off[i - 1] + m \in 1..Len(g[k]) /\ g[k][off[i - 1] + m] = ss[i][m]
        BY <2>2, <4>1 DEF Laid
      <4>3. PICK x \in 1..p : x = off[i - 1] + m
        BY <2>5, <4>2
      <4>4. x \in 1..q /\ x <= p
        BY <2>8
      <4>5. g[j][x] = g[k][x]
        BY <2>3, <2>5, <2>6, <4>4
      <4> QED BY <2>6, <4>2, <4>3, <4>4, <4>5
    <3> QED BY <3>1, <3>2
  <2>11. ASSUME NEW x \in 1..Len(g[j])
         PROVE  \E i \in 1..j : \E m \in 1..Len(ss[i]) : x = off[i - 1] + m
    <3>1. x \in 1..q
      BY <2>6
    <3>2. CASE x <= p
      <4>1. x \in 1..p
        BY <3>1, <3>2
      <4>2. x \in 1..Len(g[k])
        BY <2>5, <4>1
      <4>3. PICK i \in 1..k : \E m \in 1..Len(ss[i]) : x = off[i - 1] + m
        BY <2>2, <4>2 DEF Laid
      <4>4. i \in 1..j
        BY <2>1
      <4> QED BY <4>3, <4>4
    <3>3. CASE ~(x <= p)
      <4>1. PICK m \in Nat : m = x - p
        BY <3>1, <3>3
      <4>2. m \in 1..l /\ x = p + m
        BY <2>8, <3>1, <3>3, <4>1
      <4>3. m \in 1..Len(ss[j])
        BY <2>7, <4>2
      <4>4. j - 1 = k /\ j \in 1..j
        BY <2>1
      <4>5. off[j - 1] = p
        BY <2>5, <4>4
      <4> QED BY <4>2, <4>3, <4>4, <4>5
    <3> QED BY <3>2, <3>3
  <2>12. Laid(ss, off, j, g[j])
    BY <2>9, <2>10, <2>11 DEF Laid
  <2> QED BY <2>12 DEF j
<1> HIDE DEF T
<1>7. T = Nat
  <2>1. T \in SUBSET Nat
    BY DEF T
  <2> QED BY <1>5, <1>6, <2>1, Induction
<1>8. \A k \in 0..n : Laid(ss, off, k, g[k])
  <2> SUFFICES ASSUME NEW k \in 0..n PROVE Laid(ss, off, k, g[k])
    OBVIOUS
  <2>1. k \in T /\ k <= n
    BY <1>2, <1>7
  <2> QED BY <2>1 DEF T
<1>9. n \in 0..n
  BY <1>2
<1>10. \A i, j \in 0..n : i <= j => off[i] <= off[j]
  <2> SUFFICES ASSUME NEW i \in 0..n, NEW j \in 0..n, i <= j PROVE off[i] <= off[j]
    OBVIOUS
  <2>1. i \in 0..j
    OBVIOUS
  <2> QED BY <1>8, <2>1 DEF Laid
<1>11. Offsets(ss, off)
  BY <1>3, <1>4, <1>10 DEF Offsets, n
<1>12. Laid(ss, off, n, Joined(ss)) /\ Joined(ss) \in Seq(A)
  BY <1>1, <1>3, <1>8, <1>9
<1> QED BY <1>11, <1>12 DEF n

(* Whatever puts them together one by one gives what Joined does.          *)
LEMMA JoinedUnique ==
  ASSUME NEW A, NEW ss \in Seq(Seq(A)), NEW f,
         f[0] = <<>>, \A i \in 1..Len(ss) : f[i] = f[i - 1] \o ss[i]
  PROVE  Joined(ss) = f[Len(ss)]
<1> DEFINE n == Len(ss)
<1>1. PICK g \in [0..n -> Seq(A)] :
        /\ g[0] = <<>> /\ \A i \in 1..n : g[i] = g[i - 1] \o ss[i]
        /\ Joined(ss) = g[n]
  BY JoinedFacts
<1>2. n \in Nat /\ \A i \in 1..n : f[i] = f[i - 1] \o ss[i]
  BY LenProperties
<1> HIDE DEF n
<1> DEFINE T == { k \in Nat : k <= n => f[k] = g[k] }
<1>3. 0 \in T
  BY <1>1
<1>4. ASSUME NEW k \in T PROVE k + 1 \in T
  <2> SUFFICES ASSUME k + 1 <= n PROVE f[k + 1] = g[k + 1]
    OBVIOUS
  <2> DEFINE i == k + 1
  <2>1. i \in 1..n /\ i - 1 = k /\ k <= n
    BY <1>2
  <2>2. f[k] = g[k]
    BY <2>1
  <2> HIDE DEF i
  <2>3. f[i] = f[i - 1] \o ss[i] /\ g[i] = g[i - 1] \o ss[i]
    BY <1>1, <1>2, <2>1
  <2>4. f[i] = g[i]
    BY <2>1, <2>2, <2>3
  <2> QED BY <2>4 DEF i
<1> HIDE DEF T
<1>5. T = Nat
  <2>1. T \in SUBSET Nat
    BY DEF T
  <2> QED BY <1>3, <1>4, <2>1, Induction
<1>6. n \in T /\ n <= n
  BY <1>2, <1>5
<1> QED BY <1>1, <1>6 DEF T, n

(* Of three sequences it does not matter which two are put together first.  *)
LEMMA ThreeInTurn ==
  ASSUME NEW A
  PROVE  \A a, b, c \in Seq(A) : a \o (b \o c) = (a \o b) \o c
BY ConcatAssociative

LEMMA JoinedCat ==
  ASSUME NEW A, NEW ss \in Seq(Seq(A)), NEW tt \in Seq(Seq(A))
  PROVE  Joined(ss \o tt) = Joined(ss) \o Joined(tt)
<1> DEFINE m == Len(ss)
           n == Len(tt)
           r == ss \o tt
<1>1. PICK g \in [0..m -> Seq(A)] :
        /\ g[0] = <<>> /\ \A i \in 1..m : g[i] = g[i - 1] \o ss[i]
        /\ Joined(ss) = g[m]
  BY JoinedFacts
<1>2. PICK h \in [0..n -> Seq(A)] :
        /\ h[0] = <<>> /\ \A i \in 1..n : h[i] = h[i - 1] \o tt[i]
        /\ Joined(tt) = h[n]
  BY JoinedFacts
<1>0. \A a, b, c \in Seq(A) : a \o (b \o c) = (a \o b) \o c
  BY ThreeInTurn
<1>3. m \in Nat /\ n \in Nat /\ \A i \in 1..n : tt[i] \in Seq(A)
  BY LenProperties, ElementOfSeq
<1>4. r \in Seq(Seq(A)) /\ Len(r) = m + n
      /\ \A i \in 1..(m + n) : r[i] = IF i <= m THEN ss[i] ELSE tt[i - m]
  <2> DEFINE B == Seq(A)
  <2>1. ss \in Seq(B) /\ tt \in Seq(B)
    OBVIOUS
  <2> HIDE DEF B
  <2>2. /\ ss \o tt \in Seq(B) /\ Len(ss \o tt) = Len(ss) + Len(tt)
        /\ \A i \in 1..(Len(ss) + Len(tt)) : (ss \o tt)[i] = IF i <= Len(ss) THEN ss[i] ELSE tt[i - Len(ss)]
    BY <2>1, ConcatProperties
  <2> QED BY <2>2 DEF B
<1>5. \A i \in 0..m : g[i] \in Seq(A)
  BY <1>1
<1>6. \A i \in 0..n : h[i] \in Seq(A)
  BY <1>2
<1> HIDE DEF m, n, r
<1> DEFINE f == [i \in 0..(m + n) |-> IF i <= m THEN g[i] ELSE g[m] \o h[i - m]]
<1>7. f[0] = <<>>
  <2>1. 0 \in 0..(m + n) /\ 0 <= m
    BY <1>3
  <2> QED BY <1>1, <2>1
<1>8. \A i \in 0..(m + n) : f[i] = IF i <= m THEN g[i] ELSE g[m] \o h[i - m]
  OBVIOUS
<1> HIDE DEF f
<1>9. ASSUME NEW j \in 0..n PROVE f[m + j] = g[m] \o h[j]
  <2>1. PICK i \in Nat : i = m + j /\ i \in 0..(m + n) /\ i - m = j
    BY <1>3
  <2>2. CASE j = 0
    <3>1. i = m /\ i <= m /\ m \in 0..m
      BY <1>3, <2>1, <2>2
    <3>2. g[m] \o <<>> = g[m]
      BY <1>5, <3>1, ConcatEmptySeq
    <3> QED BY <1>2, <1>8, <2>1, <2>2, <3>1, <3>2
  <2>3. CASE j /= 0
    <3>1. ~(i <= m)
      BY <1>3, <2>1, <2>3
    <3> QED BY <1>8, <2>1, <3>1
  <2> QED BY <2>2, <2>3
<1>10. ASSUME NEW i \in 1..(m + n) PROVE f[i] = f[i - 1] \o r[i]
  <2>1. CASE i <= m
    <3>1. i \in 1..m /\ i \in 0..(m + n) /\ i - 1 \in 0..(m + n) /\ i - 1 <= m
      BY <1>3, <2>1
    <3> QED BY <1>1, <1>4, <1>8, <2>1, <3>1
  <2>2. CASE ~(i <= m)
    <3>1. PICK j \in 1..n : i = m + j
      <4>1. i - m \in 1..n /\ i = m + (i - m)
        BY <1>3, <2>2
      <4> QED BY <4>1
    <3>2. PICK k \in 0..n : k = j - 1
      BY <1>3
    <3>3. i - m = j /\ i - 1 = m + k /\ j \in 0..n
      BY <1>3, <3>1, <3>2
    <3>4. f[i] = g[m] \o h[j] /\ f[i - 1] = g[m] \o h[k]
      BY <1>9, <3>1, <3>3
    <3>5. h[j] = h[k] \o tt[j]
      BY <1>2, <3>2
    <3>6. r[i] = tt[j]
      BY <1>4, <2>2, <3>3
    <3>7. g[m] \in Seq(A) /\ h[k] \in Seq(A) /\ tt[j] \in Seq(A)
      <4>1. m \in 0..m
        BY <1>3
      <4> QED BY <1>3, <1>5, <1>6, <4>1
    <3>8. g[m] \o (h[k] \o tt[j]) = (g[m] \o h[k]) \o tt[j]
      BY <1>0, <3>7
    <3> QED BY <3>4, <3>5, <3>6, <3>8
  <2> QED BY <2>1, <2>2
<1>11. Joined(r) = f[m + n]
  BY <1>4, <1>7, <1>10, JoinedUnique
<1>12. f[m + n] = g[m] \o h[n]
  <2>1. n \in 0..n
    BY <1>3
  <2> QED BY <1>9, <2>1
<1> QED BY <1>1, <1>2, <1>11, <1>12 DEF r

LEMMA JoinedOne ==
  ASSUME NEW A, NEW s \in Seq(A)
  PROVE  Joined(<<s>>) = s
<1> DEFINE ss == <<s>>
           f == [i \in 0..1 |-> IF i = 0 THEN <<>> ELSE s]
<1>1. ss \in Seq(Seq(A)) /\ Len(ss) = 1 /\ ss[1] = s
  OBVIOUS
<1>2. f[0] = <<>> /\ f[1] = s
  OBVIOUS
<1>3. <<>> \o s = s
  BY ConcatEmptySeq
<1> HIDE DEF ss, f
<1>4. \A i \in 1..Len(ss) : f[i] = f[i - 1] \o ss[i]
  <2>1. \A i \in 1..1 : i = 1 /\ i - 1 = 0
    OBVIOUS
  <2> QED BY <1>1, <1>2, <1>3, <2>1
<1>5. Joined(ss) = f[Len(ss)]
  BY <1>1, <1>2, <1>4, JoinedUnique
<1> QED BY <1>1, <1>2, <1>5 DEF ss

(* A sequence cut into single elements.                                    *)
LEMMA JoinedSingles ==
  ASSUME NEW A, NEW s \in Seq(A), NEW ss, ss = [i \in 1..Len(s) |-> <<s[i]>>]
  PROVE  ss \in Seq(Seq(A)) /\ Joined(ss) = s
<1> DEFINE n == Len(s)
           f == [i \in 0..n |-> [k \in 1..i |-> s[k]]]
<1>1. n \in Nat /\ \A i \in 1..n : s[i] \in A
  BY LenProperties, ElementOfSeq
<1>2. \A i \in 1..n : <<s[i]>> \in Seq(A) /\ Len(<<s[i]>>) = 1 /\ <<s[i]>>[1] = s[i]
  BY <1>1
<1>3. ss \in Seq(Seq(A)) /\ Len(ss) = n /\ \A i \in 1..n : ss[i] = <<s[i]>>
  <2> DEFINE B == Seq(A)
             e(i) == <<s[i]>>
  <2>1. \A i \in 1..n : e(i) \in B
    BY <1>2
  <2>2. ss = [i \in 1..n |-> e(i)]
    OBVIOUS
  <2> HIDE DEF B, e, n
  <2>3. ss \in Seq(B) /\ Len(ss) = n /\ \A i \in 1..n : ss[i] = e(i)
    BY <1>1, <2>1, <2>2
  <2> QED BY <2>3 DEF B, e
<1>4. \A i \in 0..n : f[i] \in Seq(A) /\ Len(f[i]) = i /\ \A k \in 1..i : f[i][k] = s[k]
  <2> SUFFICES ASSUME NEW i \in 0..n PROVE f[i] \in Seq(A) /\ Len(f[i]) = i /\ \A k \in 1..i : f[i][k] = s[k]
    OBVIOUS
  <2>1. \A k \in 1..i : s[k] \in A
    BY <1>1
  <2>2. f[i] = [k \in 1..i |-> s[k]]
    OBVIOUS
  <2> QED BY <2>1, <2>2
<1> HIDE DEF f, n
<1>5. ASSUME NEW i \in 1..n PROVE f[i] = f[i - 1] \o ss[i]
  <2>1. PICK j \in 0..n : j = i - 1 /\ i = j + 1 /\ i \in 0..n
    BY <1>1
  <2> DEFINE a == f[j]
             b == <<s[i]>>
             c == a \o b
             d == f[i]
  <2>2. a \in Seq(A) /\ Len(a) = j /\ \A k \in 1..j : a[k] = s[k]
    BY <1>4
  <2>3. b \in Seq(A) /\ Len(b) = 1 /\ b[1] = s[i]
    BY <1>2
  <2>4. d \in Seq(A) /\ Len(d) = i /\ \A k \in 1..i : d[k] = s[k]
    BY <1>4, <2>1
  <2> HIDE DEF a, b, d
  <2>5. c \in Seq(A) /\ Len(c) = j + 1 /\ \A k \in 1..(j + 1) : c[k] = IF k <= j THEN a[k] ELSE b[k - j]
    <3>1. a \in Seq(A) /\ b \in Seq(A)
      BY <2>2, <2>3
    <3>2. /\ a \o b \in Seq(A) /\ Len(a \o b) = Len(a) + Len(b)
          /\ \A k \in 1..(Len(a) + Len(b)) : (a \o b)[k] = IF k <= Len(a) THEN a[k] ELSE b[k - Len(a)]
      BY ONLY <3>1, ConcatProperties
    <3> QED BY <2>2, <2>3, <3>2
  <2> HIDE DEF c
  <2>6. ASSUME NEW k \in 1..i PROVE c[k] = d[k]
    <3>1. CASE k <= j
      <4>1. k \in 1..j /\ k \in 1..(j + 1)
        BY <3>1
      <4> QED BY <2>2, <2>4, <2>5, <3>1, <4>1
    <3>2. CASE ~(k <= j)
      <4>1. k = i /\ k \in 1..(j + 1) /\ k - j = 1
        BY <2>1, <3>2
      <4> QED BY <2>3, <2>4, <2>5, <3>2, <4>1
    <3> QED BY <3>1, <3>2
  <2>7. c = d
    <3>1. Len(c) = i /\ Len(d) = i
      BY <2>1, <2>4, <2>5
    <3> QED BY <2>4, <2>5, <2>6, <3>1, SeqEqual
  <2> QED BY <1>3, <2>1, <2>7 DEF a, b, c, d
<1>6. f[0] = <<>>
  <2>1. 0 \in 0..n
    BY <1>1
  <2>2. f[0] \in Seq(A) /\ Len(f[0]) = 0
    BY <1>4, <2>1
  <2> QED BY <2>2, EmptySeq
<1>7. Joined(ss) = f[n]
  BY <1>3, <1>5, <1>6, JoinedUnique
<1>8. f[n] = s
  <2>1. n \in 0..n
    BY <1>1
  <2>2. f[n] \in Seq(A) /\ Len(f[n]) = Len(s) /\ \A k \in 1..Len(s) : f[n][k] = s[k]
    BY <1>4, <2>1 DEF n
  <2>3. \A k \in 1..Len(f[n]) : f[n][k] = s[k]
    BY <2>2
  <2> QED BY <2>2, <2>3, SeqEqual
<1> QED BY <1>3, <1>7, <1>8
=============================================================================
