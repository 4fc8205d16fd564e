---------------------------- MODULE RepackProofs ----------------------------
(***************************************************************************)
(* Repacking loses nothing: for every list of blocks of a file, what the   *)
(* host reads back from the repacked matrix is the value ggml gives, and   *)
(* the ternary packings are read back to the codes they were made from.    *)
(* Products are only swapped, never regrouped, which is exact for floats   *)
(* as well.                                                                *)
(***************************************************************************)
EXTENDS Repack, DataProofs

Floats == (0 .. Modulus - 1) \union {NegInf, NaN}
\* The blocks of a format of n bytes.
Blocks(n) == Seq([b : [1 .. n -> 0 .. 255], d : Floats, dmin : Floats])

(* Numbers.                                                                *)
LEMMA ModulusIs == Modulus = 10100
BY DEF Modulus, Prime

LEMMA TimesCommutes ==
  ASSUME NEW a \in Int, NEW b \in Int
  PROVE  Times(a, b) = Times(b, a) /\ Times(a, b) \in Floats
<1>1. a * b = b * a /\ a * b \in Int
  OBVIOUS
<1>2. \A n \in Int : n % Modulus \in 0 .. Modulus - 1
  BY ModulusIs
<1> QED BY <1>1, <1>2 DEF Times, Floats

LEMMA MinusNothing ==
  ASSUME NEW x \in Floats
  PROVE  Minus(x, 0) = x
BY ModulusIs DEF Minus, Floats, NegInf, NaN, Infinite

LEMMA SmallNumber ==
  ASSUME NEW x \in 0 .. 255
  PROVE  Number(x) = x
BY ModulusIs DEF Number

LEMMA NumberType ==
  ASSUME NEW x \in Int
  PROVE  Number(x) \in 0 .. Modulus - 1 /\ Number(x) \in Int
BY ModulusIs DEF Number

(* A byte is kept by its signed reading.                                   *)
LEMMA ByteBack ==
  ASSUME NEW b \in 0 .. 255
  PROVE  AsI8(b) \in -128 .. 127 /\ Byte(Number(AsI8(b))) = b
BY ModulusIs DEF AsI8, Byte, Signed, Number

LEMMA FloatsAreIntegers ==
  ASSUME NEW x \in Floats
  PROVE  x \in Int
BY ModulusIs DEF Floats, NegInf, NaN

(* A block of the list, and its parts.                                     *)
HasBytes(k, n) == \A j \in 1 .. n : k.b[j] \in 0 .. 255
LEMMA BlockParts ==
  ASSUME NEW n \in Nat, NEW blocks \in Blocks(n), NEW i \in 1 .. Len(blocks)
  PROVE  /\ blocks[i].d \in Floats /\ blocks[i].dmin \in Floats /\ HasBytes(blocks[i], n)
         /\ Ds(blocks)[i] = blocks[i].d /\ DMins(blocks)[i] = blocks[i].dmin
<1> DEFINE R == [b : [1 .. n -> 0 .. 255], d : Floats, dmin : Floats]
<1>1. blocks \in Seq(R)
  BY DEF Blocks
<1> HIDE DEF R
<1>2. blocks[i] \in R /\ i \in DOMAIN blocks
  BY <1>1, ElementOfSeq, LenProperties
<1> USE DEF R
<1> QED BY <1>2 DEF Ds, DMins, HasBytes

LEMMA ByteOf ==
  ASSUME NEW k, NEW n \in Nat, HasBytes(k, n), NEW j \in 1 .. n
  PROVE  k.b[j] \in 0 .. 255
BY DEF HasBytes

(* The parts a byte is cut into.                                           *)
LEMMA PartsOfByte ==
  ASSUME NEW w \in 0 .. 255
  PROVE  /\ w % 64 \in 0 .. 63 /\ w % 16 \in 0 .. 15 /\ w \div 16 \in 0 .. 15
         /\ \A high \in BOOLEAN : Nibble(w, high) \in 0 .. 15
BY DEF Nibble

(* Value i of blocks of n values each is one of the block it falls in.     *)
LEMMA Within ==
  ASSUME NEW n \in {8, 16, 26, 32, 128, 256}, NEW len \in Nat, NEW i \in 0 .. n * len - 1
  PROVE  /\ (i \div n) + 1 \in 1 .. len /\ i % n \in 0 .. n - 1
         /\ i + 1 \in 1 .. n * len /\ (i + 1) - 1 = i
OBVIOUS

(* Two nibbles of a byte.                                                  *)
LEMMA NibblesOfByte ==
  ASSUME NEW lo \in 0 .. 15, NEW hi \in 0 .. 15
  PROVE  /\ lo + 16 * hi \in 0 .. 255
         /\ Nibble(lo + 16 * hi, FALSE) = lo /\ Nibble(lo + 16 * hi, TRUE) = hi
BY DEF Nibble

(* A pair gives each of its two values back.                               *)
LEMMA PairsRead ==
  ASSUME NEW v \in Seq(0 .. 255), Len(v) % 2 = 0, NEW i \in 0 .. Len(v) - 1
  PROVE  Nibble(Byte(Number(Pairs(v)[(i \div 2) + 1])), i % 2 = 1) = v[i + 1] % 16
<1> DEFINE p == (i \div 2) + 1
           lo == v[2 * p - 1] % 16
           hi == v[2 * p] % 16
<1>0. Len(v) \in Nat
  BY LenProperties
<1>1. p \in 1 .. Len(v) \div 2 /\ 2 * p - 1 \in 1 .. Len(v) /\ 2 * p \in 1 .. Len(v)
  BY <1>0
<1>2. \/ i % 2 = 1 /\ i + 1 = 2 * p
      \/ i % 2 = 0 /\ i + 1 = 2 * p - 1
  OBVIOUS
<1> SUFFICES Nibble(Byte(Number(Pairs(v)[p])), i % 2 = 1) = v[i + 1] % 16
  OBVIOUS
<1> HIDE DEF p
<1>3. lo \in 0 .. 15 /\ hi \in 0 .. 15
  <2>1. v[2 * p - 1] \in 0 .. 255 /\ v[2 * p] \in 0 .. 255
    BY <1>1, ElementOfSeq
  <2>2. \A b \in 0 .. 255 : b % 16 \in 0 .. 15
    OBVIOUS
  <2> QED BY <2>1, <2>2
<1>4. Pairs(v)[p] = AsI8(lo + 16 * hi)
  BY <1>1 DEF Pairs
<1> HIDE DEF lo, hi
<1>5. Byte(Number(Pairs(v)[p])) = lo + 16 * hi
  BY <1>3, <1>4, NibblesOfByte, ByteBack
<1>6. CASE i % 2 = 1 /\ i + 1 = 2 * p
  <2>1. Nibble(lo + 16 * hi, i % 2 = 1) = hi
    BY <1>3, <1>6, NibblesOfByte
  <2> QED BY <1>5, <1>6, <2>1 DEF hi
<1>7. CASE i % 2 = 0 /\ i + 1 = 2 * p - 1
  <2>1. (i % 2 = 1) = FALSE
    BY <1>7
  <2>2. Nibble(lo + 16 * hi, i % 2 = 1) = lo
    BY <1>3, <2>1, NibblesOfByte
  <2> QED BY <1>5, <1>7, <2>2 DEF lo
<1> QED BY <1>2, <1>6, <1>7

(* The two-bit fields of a byte.                                           *)
LEMMA FieldsOfByte ==
  ASSUME NEW w \in 0 .. 255
  PROVE  /\ Bits(w, 0, 2) = w % 4 /\ Bits(w, 2, 2) = (w \div 4) % 4
         /\ Bits(w, 4, 2) = (w \div 16) % 4 /\ Bits(w, 6, 2) = w \div 64
         /\ \A low \in {0, 2, 4, 6} : Bits(w, low, 2) \in 0 .. 3
<1>1. 2 ^ 0 = 1 /\ 2 ^ 2 = 4 /\ 2 ^ 4 = 16 /\ 2 ^ 6 = 64
  OBVIOUS
<1>2. w \div 1 = w /\ (w \div 64) % 4 = w \div 64
  OBVIOUS
<1>3. /\ Bits(w, 0, 2) = w % 4 /\ Bits(w, 2, 2) = (w \div 4) % 4
      /\ Bits(w, 4, 2) = (w \div 16) % 4 /\ Bits(w, 6, 2) = w \div 64
  BY <1>1, <1>2 DEF Bits
<1>4. w % 4 \in 0 .. 3 /\ (w \div 4) % 4 \in 0 .. 3 /\ (w \div 16) % 4 \in 0 .. 3 /\ w \div 64 \in 0 .. 3
  OBVIOUS
<1> QED BY <1>3, <1>4

\* The byte of four such fields.
TwoBits == 0 .. 3
Four(a, b, c, d) == a + 4 * b + 16 * c + 64 * d
LEMMA FourFields ==
  ASSUME NEW a \in TwoBits, NEW b \in TwoBits, NEW c \in TwoBits, NEW d \in TwoBits
  PROVE  /\ Four(a, b, c, d) \in 0 .. 255
         /\ Bits(Four(a, b, c, d), 0, 2) = a /\ Bits(Four(a, b, c, d), 2, 2) = b
         /\ Bits(Four(a, b, c, d), 4, 2) = c /\ Bits(Four(a, b, c, d), 6, 2) = d
<1>1. PICK w \in 0 .. 255 : w = Four(a, b, c, d)
  BY DEF Four, TwoBits
<1>2. w % 4 = a /\ (w \div 4) % 4 = b
  BY <1>1 DEF Four, TwoBits
<1>3. (w \div 16) % 4 = c /\ w \div 64 = d
  BY <1>1 DEF Four, TwoBits
<1> QED BY <1>1, <1>2, <1>3, FieldsOfByte

(* Sequences put together from blocks have the length they say.            *)
LEMMA SeqOf ==
  ASSUME NEW n \in Nat, NEW S, NEW f \in [1 .. n -> S]
  PROVE  f \in Seq(S) /\ Len(f) = n
<1>1. f \in Seq(S)
  BY IsASeq
<1> QED BY <1>1, LenProperties

(* The high plane of Q6_K gives the two bits of each of its four values.   *)
LEMMA QuartersRead ==
  ASSUME NEW v \in Seq(0 .. 63), Len(v) % 4 = 0, NEW i \in 0 .. Len(v) - 1
  PROVE  Bits(Byte(Number(Quarters(v)[(i \div 4) + 1])), 2 * (i % 4), 2) = v[i + 1] \div 16
<1> DEFINE p == (i \div 4) + 1
<1>0. Len(v) \in Nat
  BY LenProperties
<1>1. /\ p \in 1 .. Len(v) \div 4
      /\ 4 * p - 3 \in 1 .. Len(v) /\ 4 * p - 2 \in 1 .. Len(v)
      /\ 4 * p - 1 \in 1 .. Len(v) /\ 4 * p \in 1 .. Len(v)
  BY <1>0
<1>2. \/ i % 4 = 0 /\ 2 * (i % 4) = 0 /\ i + 1 = 4 * p - 3
      \/ i % 4 = 1 /\ 2 * (i % 4) = 2 /\ i + 1 = 4 * p - 2
      \/ i % 4 = 2 /\ 2 * (i % 4) = 4 /\ i + 1 = 4 * p - 1
      \/ i % 4 = 3 /\ 2 * (i % 4) = 6 /\ i + 1 = 4 * p
  OBVIOUS
<1> SUFFICES Bits(Byte(Number(Quarters(v)[p])), 2 * (i % 4), 2) = v[i + 1] \div 16
  OBVIOUS
<1> HIDE DEF p
<1>3. /\ v[4 * p - 3] \in 0 .. 63 /\ v[4 * p - 2] \in 0 .. 63
      /\ v[4 * p - 1] \in 0 .. 63 /\ v[4 * p] \in 0 .. 63
  BY <1>1, ElementOfSeq
<1>4. \A x \in 0 .. 63 : x \div 16 \in TwoBits
  BY DEF TwoBits
<1>5. PICK a \in TwoBits, b \in TwoBits, c \in TwoBits, d \in TwoBits :
        /\ a = v[4 * p - 3] \div 16 /\ b = v[4 * p - 2] \div 16
        /\ c = v[4 * p - 1] \div 16 /\ d = v[4 * p] \div 16
  BY <1>3, <1>4
<1> DEFINE w == Four(a, b, c, d)
<1>6. w \in 0 .. 255
  BY FourFields
<1>7. Bits(w, 0, 2) = a /\ Bits(w, 2, 2) = b /\ Bits(w, 4, 2) = c /\ Bits(w, 6, 2) = d
  BY FourFields
<1>8. Quarters(v)[p] = AsI8(w)
  BY <1>1, <1>5 DEF Four, Quarters
<1> HIDE DEF w
<1>9. Byte(Number(Quarters(v)[p])) = w
  BY <1>6, <1>8, ByteBack
<1>10. Bits(w, 2 * (i % 4), 2) = v[i + 1] \div 16
  BY <1>2, <1>5, <1>7
<1> QED BY <1>9, <1>10

(* Q8_0: bytes and scales are taken over as they are.                      *)
THEOREM Q8Repacked ==
  ASSUME NEW blocks \in Blocks(34), NEW i \in 0 .. 32 * Len(blocks) - 1
  PROVE  SplitDequant(SplitQ8_0(blocks), i) = GgmlQ8_0(blocks[(i \div 32) + 1], i % 32)
<1> DEFINE sp == SplitQ8_0(blocks)
           m == (i \div 32) + 1
           k == blocks[m]
           x == AsI8(k.b[(i % 32) + 3])
<1>0. Len(blocks) \in Nat
  BY LenProperties DEF Blocks
<1>1. /\ m \in 1 .. Len(blocks) /\ i % 32 \in 0 .. 31
      /\ i + 1 \in 1 .. 32 * Len(blocks) /\ (i + 1) - 1 = i
  BY <1>0, Within
<1>2. /\ sp.layout.trits = "" /\ ~sp.layout.six /\ ~sp.layout.packed4 /\ ~sp.layout.min
      /\ sp.layout.super = 0 /\ sp.layout.group = 32 /\ sp.d = Ds(blocks)
  BY DEF SplitQ8_0, Q8_0, QLayout
<1>3. sp.q[i + 1] = x
  BY <1>1 DEF SplitQ8_0, Each
<1>4. m = (i \div 32) + 1
  OBVIOUS
<1> HIDE DEF sp, m
<1>5. k.d \in Floats /\ Ds(blocks)[m] = k.d /\ x \in -128 .. 127
  <2>1. (i % 32) + 3 \in 1 .. 34
    BY <1>1
  <2>2. k.d \in Floats /\ Ds(blocks)[m] = k.d /\ HasBytes(k, 34)
    BY <1>1, BlockParts
  <2>3. k.b[(i % 32) + 3] \in 0 .. 255
    BY <2>1, <2>2, ByteOf
  <2> QED BY <2>2, <2>3, ByteBack
<1> HIDE DEF k, x
<1>6. SplitValue(sp, i) = x
  BY <1>2, <1>3 DEF SplitValue
<1>7. SplitScale(sp, i \div 32) = k.d /\ SplitMin(sp, i \div 32) = 0
  BY <1>2, <1>4, <1>5 DEF SplitScale, SplitMin
<1>8. SplitDequant(sp, i) = Minus(Times(Number(x), k.d), 0)
  BY <1>2, <1>6, <1>7 DEF SplitDequant
<1>9. Number(x) \in Int /\ k.d \in Int
  <2>1. x \in Int
    BY <1>5
  <2> QED BY <1>5, <2>1, NumberType, FloatsAreIntegers
<1>10. Minus(Times(Number(x), k.d), 0) = Times(Number(x), k.d)
  BY <1>9, TimesCommutes, MinusNothing
<1> QED BY <1>8, <1>10 DEF sp, k, m, x, GgmlQ8_0

(* Q4_K.  A scale and a min of six bits, and a value of four.              *)
LEMMA ScaleMinRange ==
  ASSUME NEW k, HasBytes(k, 144), NEW j \in 0 .. 7
  PROVE  ScaleMinOf(k, j)[1] \in 0 .. 63 /\ ScaleMinOf(k, j)[2] \in 0 .. 63
<1> DEFINE sc == [i \in 0 .. 11 |-> k.b[i + 5]]
<1>1. ASSUME NEW i \in 0 .. 11 PROVE sc[i] \in 0 .. 255
  <2>1. i + 5 \in 1 .. 144
    OBVIOUS
  <2> QED BY <2>1, ByteOf
<1>2. ScaleMinOf(k, j) = ScaleMinK4(j, sc)
  BY DEF ScaleMinOf
<1> HIDE DEF sc
<1>3. CASE j < 4
  <2>1. j \in 0 .. 11 /\ j + 4 \in 0 .. 11
    BY <1>3
  <2>2. sc[j] % 64 \in 0 .. 63 /\ sc[j + 4] % 64 \in 0 .. 63
    BY <1>1, <2>1, PartsOfByte
  <2>3. ScaleMinK4(j, sc) = << sc[j] % 64, sc[j + 4] % 64 >>
    BY <1>3 DEF ScaleMinK4
  <2> QED BY <1>2, <2>2, <2>3
<1>4. CASE ~(j < 4)
  <2>1. j \in 0 .. 11 /\ j + 4 \in 0 .. 11 /\ j - 4 \in 0 .. 11
    BY <1>4
  <2>2. PICK a \in 0 .. 15, b \in 0 .. 3 : a = sc[j + 4] % 16 /\ b = Bits(sc[j - 4], 6, 2)
    BY <1>1, <2>1, PartsOfByte, FieldsOfByte
  <2>3. PICK c \in 0 .. 15, d \in 0 .. 3 : c = sc[j + 4] \div 16 /\ d = Bits(sc[j], 6, 2)
    BY <1>1, <2>1, PartsOfByte, FieldsOfByte
  <2>4. ScaleMinK4(j, sc) = << a + 16 * b, c + 16 * d >>
    BY <1>4, <2>2, <2>3 DEF ScaleMinK4
  <2>5. a + 16 * b \in 0 .. 63 /\ c + 16 * d \in 0 .. 63
    OBVIOUS
  <2> QED BY <1>2, <2>4, <2>5
<1> QED BY <1>3, <1>4

LEMMA FourBitsRange ==
  ASSUME NEW k, HasBytes(k, 144), NEW i \in 0 .. 255
  PROVE  FourBits(k, i) \in 0 .. 15
<1> DEFINE at == 16 + 32 * ((i \div 32) \div 2) + (i % 32) + 1
<1>1. at \in 1 .. 144
  OBVIOUS
<1>2. FourBits(k, i) = Nibble(k.b[at], (i \div 32) % 2 = 1)
  BY DEF FourBits
<1> HIDE DEF at
<1>3. k.b[at] \in 0 .. 255
  BY <1>1, ByteOf
<1>4. ((i \div 32) % 2 = 1) \in BOOLEAN
  OBVIOUS
<1> QED BY <1>2, <1>3, <1>4, PartsOfByte

(* The values of all the blocks, one behind another.                       *)
AllFours(blocks) == Each(blocks, 256, FourBits)
LEMMA FourBitsOfAll ==
  ASSUME NEW blocks \in Blocks(144)
  PROVE  /\ AllFours(blocks) \in Seq(0 .. 255) /\ Len(AllFours(blocks)) = 256 * Len(blocks)
         /\ Len(AllFours(blocks)) % 2 = 0
         /\ \A i \in 0 .. 256 * Len(blocks) - 1 :
              /\ AllFours(blocks)[i + 1] = FourBits(blocks[(i \div 256) + 1], i % 256)
              /\ AllFours(blocks)[i + 1] \in 0 .. 15
<1> DEFINE n == 256 * Len(blocks)
           v == AllFours(blocks)
<1>0. Len(blocks) \in Nat
  BY LenProperties DEF Blocks
<1>1. n \in Nat /\ n % 2 = 0
  BY <1>0
<1>2. DOMAIN v = 1 .. n /\ v = [i \in 1 .. n |-> v[i]]
  BY DEF Each, AllFours
<1>3. ASSUME NEW i \in 0 .. n - 1
      PROVE  /\ i + 1 \in 1 .. n
             /\ v[i + 1] = FourBits(blocks[(i \div 256) + 1], i % 256)
             /\ v[i + 1] \in 0 .. 15
  <2>1. /\ (i \div 256) + 1 \in 1 .. Len(blocks) /\ i % 256 \in 0 .. 255
        /\ i + 1 \in 1 .. n /\ (i + 1) - 1 = i
    BY <1>0, Within
  <2>2. v[i + 1] = FourBits(blocks[(i \div 256) + 1], i % 256)
    BY <2>1 DEF Each, AllFours
  <2> DEFINE k == blocks[(i \div 256) + 1]
             r == i % 256
  <2>3. HasBytes(k, 144) /\ r \in 0 .. 255 /\ v[i + 1] = FourBits(k, r)
    BY <2>1, <2>2, BlockParts
  <2> HIDE DEF k, r, v
  <2>4. v[i + 1] \in 0 .. 15
    BY <2>3, FourBitsRange
  <2> QED BY <2>1, <2>2, <2>4
<1>4. ASSUME NEW p \in 1 .. n PROVE v[p] \in 0 .. 255
  <2>1. p - 1 \in 0 .. n - 1 /\ (p - 1) + 1 = p
    BY <1>0
  <2>2. v[(p - 1) + 1] \in 0 .. 15
    BY <1>3, <2>1
  <2> QED BY <2>1, <2>2
<1> HIDE DEF n, v
<1>5. v \in [1 .. n -> 0 .. 255]
  BY <1>2, <1>4
<1>6. v \in Seq(0 .. 255) /\ Len(v) = n
  BY <1>1, <1>5, SeqOf
<1> QED BY <1>1, <1>3, <1>6 DEF n, v

(* Q4_K: a value of four bits, and the scale and the min of its sub-block *)
(* are those of the file.                                                  *)
THEOREM Q4Repacked ==
  ASSUME NEW blocks \in Blocks(144), NEW i \in 0 .. 256 * Len(blocks) - 1
  PROVE  SplitDequant(SplitQ4_K(blocks), i) = GgmlQ4_K(blocks[(i \div 256) + 1], i % 256)
<1> DEFINE sp == SplitQ4_K(blocks)
           m == (i \div 256) + 1
           r == i % 256
           g == i \div 32
           k == blocks[m]
           v == AllFours(blocks)
           x == FourBits(k, r)
           s == ScaleMinOf(k, r \div 32)[1]
           o == ScaleMinOf(k, r \div 32)[2]
<1>0. Len(blocks) \in Nat
  BY LenProperties DEF Blocks
<1>1. m \in 1 .. Len(blocks) /\ r \in 0 .. 255
  BY <1>0, Within
<1>2. /\ g \in 0 .. 8 * Len(blocks) - 1 /\ (g \div 8) + 1 = m /\ g % 8 = r \div 32
      /\ r \div 32 \in 0 .. 7
  BY <1>0
<1>3. /\ sp.layout.trits = "" /\ ~sp.layout.six /\ sp.layout.packed4 /\ sp.layout.min
      /\ sp.layout.group = 32
      /\ sp.q = Pairs(v) /\ sp.d = Ds(blocks) /\ sp.dmin = DMins(blocks)
  BY DEF SplitQ4_K, Q4_K, QLayout, AllFours
<1>4. sp.layout.super = 8
  BY DEF SplitQ4_K, Q4_K, QLayout
<1>5. /\ v \in Seq(0 .. 255) /\ Len(v) = 256 * Len(blocks) /\ Len(v) % 2 = 0
      /\ v[i + 1] = x
  BY FourBitsOfAll
<1>6. sp.sc[g + 1] = s /\ sp.mn[g + 1] = o
  <2>1. g + 1 \in 1 .. 8 * Len(blocks) /\ (g + 1) - 1 = g
    BY <1>0, <1>2
  <2> HIDE DEF m, g
  <2> QED BY <1>2, <2>1 DEF SplitQ4_K, Each
<1>7. GgmlQ4_K(k, r) = Minus(Times(x, Times(k.d, s)), Times(k.dmin, o))
  BY <1>1 DEF GgmlQ4_K, FourBits, Nibble
<1> HIDE DEF sp, m, r, g, v
<1>8. HasBytes(k, 144) /\ k.d \in Floats /\ k.dmin \in Floats /\ Ds(blocks)[m] = k.d /\ DMins(blocks)[m] = k.dmin
  BY <1>1, BlockParts
<1>9. x \in 0 .. 15
  BY <1>1, <1>8, FourBitsRange
<1>10. s \in 0 .. 63 /\ o \in 0 .. 63
  BY <1>2, <1>8, ScaleMinRange
<1> HIDE DEF k, x, s, o
<1>11. SplitValue(sp, i) = x
  <2>1. i \in 0 .. Len(v) - 1
    BY <1>5
  <2>2. Nibble(Byte(Number(Pairs(v)[(i \div 2) + 1])), i % 2 = 1) = x % 16
    BY <1>5, <2>1, PairsRead
  <2>3. x % 16 = x
    BY <1>9
  <2> QED BY <1>3, <2>2, <2>3 DEF SplitValue
<1>12. Number(x) = x /\ Number(s) = s /\ Number(o) = o /\ x \in Int /\ s \in Int /\ o \in Int
  <2>1. x \in 0 .. 255 /\ s \in 0 .. 255 /\ o \in 0 .. 255
    BY <1>10, <1>9
  <2>2. x \in Int /\ s \in Int /\ o \in Int
    BY <2>1
  <2>3. Number(x) = x /\ Number(s) = s /\ Number(o) = o
    BY <2>1, SmallNumber
  <2> QED BY <2>2, <2>3
<1>13. SplitScale(sp, g) = Times(s, k.d) /\ SplitMin(sp, g) = Times(o, k.dmin)
  <2>1. sp.d[(g \div sp.layout.super) + 1] = k.d /\ sp.dmin[(g \div sp.layout.super) + 1] = k.dmin
    BY <1>2, <1>3, <1>8, <1>4
  <2>2. sp.layout.super > 0
    BY <1>4
  <2>3. ~(sp.layout.super = 0)
    BY <2>2
  <2>4. SplitScale(sp, g) = Times(Number(s), k.d)
    BY <1>6, <2>1, <2>3 DEF SplitScale
  <2>5. SplitMin(sp, g) = Times(Number(o), k.dmin)
    BY <1>3, <1>6, <2>1 DEF SplitMin
  <2> QED BY <1>12, <2>4, <2>5
<1>14. Times(s, k.d) = Times(k.d, s) /\ Times(o, k.dmin) = Times(k.dmin, o)
  BY <1>8, <1>12, FloatsAreIntegers, TimesCommutes
<1>15. SplitDequant(sp, i) = Minus(Times(x, Times(s, k.d)), Times(o, k.dmin))
  BY <1>3, <1>11, <1>12, <1>13 DEF SplitDequant, g
<1> QED BY <1>7, <1>14, <1>15 DEF sp, m, r, k

(* Q6_K.  A value is the file's six bits; its scale is the 16th of the      *)
(* block it is in.                                                         *)
LEMMA SixBitsAre ==
  ASSUME NEW k, HasBytes(k, 210), NEW r \in 0 .. 255
  PROVE  /\ SixBits(k, r) \in 0 .. 63 /\ k.b[193 + (r \div 16)] \in 0 .. 255
         /\ GgmlQ6_K(k, r) = Times(Times(k.d, Number(AsI8(k.b[193 + (r \div 16)]))),
                                   Number(SixBits(k, r) - 32))
<1> DEFINE n == r \div 128
           l == r % 32
           part == (r % 128) \div 32
           at == 64 * n + (IF part \in {0, 2} THEN l ELSE l + 32) + 1
           over == 128 + 32 * n + l + 1
           sixth == 192 + 8 * n + (l \div 16) + 2 * part + 1
           ql == k.b[at]
           qh == k.b[over]
           low == IF part < 2 THEN ql % 16 ELSE ql \div 16
           high == (qh \div 4 ^ part) % 4
<1>1. /\ n \in 0 .. 1 /\ l \in 0 .. 31 /\ part \in {0, 1, 2, 3}
      /\ sixth = 193 + (r \div 16) /\ at \in 1 .. 210 /\ over \in 1 .. 210
      /\ 193 + (r \div 16) \in 1 .. 210
  OBVIOUS
<1>2. SixBits(k, r) = Nibble(k.b[64 * n + (IF part % 2 = 1 THEN l + 32 ELSE l) + 1], part >= 2)
                        + 16 * Bits(qh, 2 * part, 2)
  BY DEF SixBits
<1>3. GgmlQ6_K(k, r) = Times(Times(k.d, Number(AsI8(k.b[sixth]))),
                             Number((low + 16 * high) - 32))
  BY DEF GgmlQ6_K
<1> HIDE DEF n, l, part, sixth
<1>4. (part % 2 = 1) = ~(part \in {0, 2}) /\ (part >= 2) = ~(part < 2)
  BY <1>1
<1>5. SixBits(k, r) = Nibble(ql, ~(part < 2)) + 16 * Bits(qh, 2 * part, 2)
  BY <1>2, <1>4
<1> HIDE DEF at, over
<1>6. ql \in 0 .. 255 /\ qh \in 0 .. 255
  <2>1. at \in 1 .. 210 /\ over \in 1 .. 210
    BY <1>1
  <2>2. \A j \in 1 .. 210 : k.b[j] \in 0 .. 255
    BY DEF HasBytes
  <2> QED BY <2>1, <2>2
<1> HIDE DEF ql, qh
<1>7. Nibble(ql, ~(part < 2)) = low /\ low \in 0 .. 15
  BY <1>6, PartsOfByte DEF Nibble
<1>8. Bits(qh, 2 * part, 2) = high /\ high \in 0 .. 3
  <2>1. 4 ^ 0 = 1 /\ 4 ^ 1 = 4 /\ 4 ^ 2 = 16 /\ 4 ^ 3 = 64
    OBVIOUS
  <2>2. qh \div 1 = qh /\ (qh \div 64) % 4 = qh \div 64
    BY <1>6
  <2>3. CASE part = 0
    <3>1. 2 * part = 0 /\ 4 ^ part = 1
      BY <2>1, <2>3
    <3> QED BY <1>6, <2>2, <3>1, FieldsOfByte
  <2>4. CASE part = 1
    <3>1. 2 * part = 2 /\ 4 ^ part = 4
      BY <2>1, <2>4
    <3> QED BY <1>6, <3>1, FieldsOfByte
  <2>5. CASE part = 2
    <3>1. 2 * part = 4 /\ 4 ^ part = 16
      BY <2>1, <2>5
    <3> QED BY <1>6, <3>1, FieldsOfByte
  <2>6. CASE part = 3
    <3>1. 2 * part = 6 /\ 4 ^ part = 64
      BY <2>1, <2>6
    <3> QED BY <1>6, <2>2, <3>1, FieldsOfByte
  <2> QED BY <1>1, <2>3, <2>4, <2>5, <2>6
<1> HIDE DEF low, high
<1> DEFINE w == low + 16 * high
<1>9. SixBits(k, r) = w /\ w \in 0 .. 63
  BY <1>5, <1>7, <1>8
<1>10. k.b[193 + (r \div 16)] \in 0 .. 255
  BY <1>1, ByteOf
<1>11. GgmlQ6_K(k, r) = Times(Times(k.d, Number(AsI8(k.b[sixth]))), Number(w - 32))
  BY <1>3
<1> HIDE DEF w
<1>12. GgmlQ6_K(k, r) = Times(Times(k.d, Number(AsI8(k.b[193 + (r \div 16)]))), Number(SixBits(k, r) - 32))
  <2>1. sixth = 193 + (r \div 16)
    BY <1>1
  <2> QED BY <1>9, <1>11, <2>1, Zenon
<1> QED BY <1>9, <1>10, <1>12

LEMMA SixBitsRange ==
  ASSUME NEW k, HasBytes(k, 210), NEW r \in 0 .. 255
  PROVE  SixBits(k, r) \in 0 .. 63
BY SixBitsAre

AllSixes(blocks) == Each(blocks, 256, SixBits)
LEMMA SixBitsOfAll ==
  ASSUME NEW blocks \in Blocks(210)
  PROVE  /\ AllSixes(blocks) \in Seq(0 .. 63) /\ AllSixes(blocks) \in Seq(0 .. 255)
         /\ Len(AllSixes(blocks)) = 256 * Len(blocks)
         /\ Len(AllSixes(blocks)) % 2 = 0 /\ Len(AllSixes(blocks)) % 4 = 0
         /\ \A i \in 0 .. 256 * Len(blocks) - 1 :
              /\ AllSixes(blocks)[i + 1] = SixBits(blocks[(i \div 256) + 1], i % 256)
              /\ AllSixes(blocks)[i + 1] \in 0 .. 63
<1> DEFINE n == 256 * Len(blocks)
           v == AllSixes(blocks)
<1>0. Len(blocks) \in Nat
  BY LenProperties DEF Blocks
<1>1. n \in Nat /\ n % 2 = 0 /\ n % 4 = 0
  BY <1>0
<1>2. DOMAIN v = 1 .. n /\ v = [i \in 1 .. n |-> v[i]]
  BY DEF Each, AllSixes
<1>3. ASSUME NEW i \in 0 .. n - 1
      PROVE  /\ i + 1 \in 1 .. n
             /\ v[i + 1] = SixBits(blocks[(i \div 256) + 1], i % 256)
             /\ v[i + 1] \in 0 .. 63
  <2>1. /\ (i \div 256) + 1 \in 1 .. Len(blocks) /\ i % 256 \in 0 .. 255
        /\ i + 1 \in 1 .. n /\ (i + 1) - 1 = i
    BY <1>0, Within
  <2>2. v[i + 1] = SixBits(blocks[(i \div 256) + 1], i % 256)
    BY <2>1 DEF Each, AllSixes
  <2> DEFINE k == blocks[(i \div 256) + 1]
             r == i % 256
  <2>3. HasBytes(k, 210) /\ r \in 0 .. 255 /\ v[i + 1] = SixBits(k, r)
    BY <2>1, <2>2, BlockParts
  <2> HIDE DEF k, r, v
  <2>4. v[i + 1] \in 0 .. 63
    <3>1. SixBits(k, r) \in 0 .. 63
      BY <2>3, SixBitsRange
    <3> QED BY <2>3, <3>1
  <2> QED BY <2>1, <2>2, <2>4
<1>4. ASSUME NEW p \in 1 .. n PROVE v[p] \in 0 .. 63 /\ v[p] \in 0 .. 255
  <2>1. p - 1 \in 0 .. n - 1 /\ (p - 1) + 1 = p
    BY <1>0
  <2>2. v[(p - 1) + 1] \in 0 .. 63
    BY <1>3, <2>1
  <2> QED BY <2>1, <2>2
<1> HIDE DEF n, v
<1>5. v \in Seq(0 .. 63) /\ Len(v) = n
  <2>1. v \in [1 .. n -> 0 .. 63]
    BY <1>2, <1>4
  <2> QED BY <1>1, <2>1, SeqOf
<1>6. v \in Seq(0 .. 255)
  <2>1. v \in [1 .. n -> 0 .. 255]
    BY <1>2, <1>4
  <2> QED BY <1>1, <2>1, SeqOf
<1> QED BY <1>1, <1>3, <1>5, <1>6 DEF n, v

(* Six bits are put together again from their two planes.                  *)
LEMMA PlanesRead ==
  ASSUME NEW v \in Seq(0 .. 63), v \in Seq(0 .. 255), Len(v) % 2 = 0, Len(v) % 4 = 0,
         NEW i \in 0 .. Len(v) - 1
  PROVE  (Nibble(Byte(Number(Pairs(v)[(i \div 2) + 1])), i % 2 = 1)
            + 16 * Bits(Byte(Number(Quarters(v)[(i \div 4) + 1])), 2 * (i % 4), 2)) - 32
         = v[i + 1] - 32
<1>1. Nibble(Byte(Number(Pairs(v)[(i \div 2) + 1])), i % 2 = 1) = v[i + 1] % 16
  BY PairsRead
<1>2. Bits(Byte(Number(Quarters(v)[(i \div 4) + 1])), 2 * (i % 4), 2) = v[i + 1] \div 16
  BY QuartersRead
<1>3. v[i + 1] \in 0 .. 63
  <2>1. i + 1 \in 1 .. Len(v)
    BY LenProperties
  <2> QED BY <2>1, ElementOfSeq
<1> DEFINE x == v[i + 1]
           lo == Nibble(Byte(Number(Pairs(v)[(i \div 2) + 1])), i % 2 = 1)
           hi == Bits(Byte(Number(Quarters(v)[(i \div 4) + 1])), 2 * (i % 4), 2)
<1>4. lo = x % 16 /\ hi = x \div 16 /\ x \in 0 .. 63
  BY <1>1, <1>2, <1>3
<1> HIDE DEF x, lo, hi
<1>5. (lo + 16 * hi) - 32 = x - 32
  BY <1>4
<1> QED BY <1>5 DEF x, lo, hi

(* Q6_K: the planes are put together again, and the scale is the one of    *)
(* the sixteen values the value is among.                                  *)
THEOREM Q6Repacked ==
  ASSUME NEW blocks \in Blocks(210), NEW i \in 0 .. 256 * Len(blocks) - 1
  PROVE  SplitDequant(SplitQ6_K(blocks), i) = GgmlQ6_K(blocks[(i \div 256) + 1], i % 256)
<1> DEFINE sp == SplitQ6_K(blocks)
           m == (i \div 256) + 1
           r == i % 256
           g == i \div 16
           k == blocks[m]
           v == AllSixes(blocks)
           x == SixBits(k, r)
           s == AsI8(k.b[193 + (r \div 16)])
<1>0. Len(blocks) \in Nat
  BY LenProperties DEF Blocks
<1>1. m \in 1 .. Len(blocks) /\ r \in 0 .. 255
  BY <1>0, Within
<1>2. /\ g \in 0 .. 16 * Len(blocks) - 1 /\ (g \div 16) + 1 = m /\ g % 16 = r \div 16
      /\ r \div 16 \in 0 .. 15
  BY <1>0
<1>3. /\ sp.layout.trits = "" /\ sp.layout.six /\ ~sp.layout.min /\ sp.layout.group = 16
      /\ sp.q = Pairs(v) /\ sp.qh = Quarters(v) /\ sp.d = Ds(blocks)
  BY DEF SplitQ6_K, Q6_K, QLayout, AllSixes
<1>4. sp.layout.super = 16
  BY DEF SplitQ6_K, Q6_K, QLayout
<1>5. sp.sc[g + 1] = s
  <2>1. g + 1 \in 1 .. 16 * Len(blocks) /\ (g + 1) - 1 = g
    BY <1>0, <1>2
  <2> HIDE DEF m, g
  <2> QED BY <1>2, <2>1 DEF SplitQ6_K, Each
<1>6. /\ v \in Seq(0 .. 63) /\ v \in Seq(0 .. 255) /\ Len(v) = 256 * Len(blocks)
      /\ Len(v) % 2 = 0 /\ Len(v) % 4 = 0 /\ v[i + 1] = x
  <2>1. /\ v \in Seq(0 .. 63) /\ v \in Seq(0 .. 255) /\ Len(v) = 256 * Len(blocks)
        /\ Len(v) % 2 = 0 /\ Len(v) % 4 = 0
        /\ \A j \in 0 .. 256 * Len(blocks) - 1 :
             /\ v[j + 1] = SixBits(blocks[(j \div 256) + 1], j % 256)
             /\ v[j + 1] \in 0 .. 63
    BY SixBitsOfAll
  <2>2. v[i + 1] = x
    BY <2>1, Zenon
  <2> QED BY <2>1, <2>2
<1> HIDE DEF sp, m, r, g, v
<1>7. HasBytes(k, 210) /\ k.d \in Floats /\ Ds(blocks)[m] = k.d
  BY <1>1, BlockParts
<1>8. /\ x \in 0 .. 63 /\ s \in -128 .. 127
      /\ GgmlQ6_K(k, r) = Times(Times(k.d, Number(s)), Number(x - 32))
  BY <1>1, <1>7, SixBitsAre, ByteBack
<1> HIDE DEF k, x, s
<1>9. SplitValue(sp, i) = x - 32
  <2>1. i \in 0 .. Len(v) - 1
    BY <1>6
  <2> QED BY <1>3, <1>6, <2>1, PlanesRead DEF SplitValue
<1>10. Number(s) \in Int /\ Number(x - 32) \in Int /\ k.d \in Int
  <2>1. s \in Int /\ x - 32 \in Int
    BY <1>8
  <2> QED BY <1>7, <2>1, NumberType, FloatsAreIntegers
<1>11. SplitScale(sp, g) = Times(Number(s), k.d) /\ SplitMin(sp, g) = 0
  <2>1. sp.d[(g \div sp.layout.super) + 1] = k.d
    BY <1>2, <1>3, <1>4, <1>7
  <2>2. sp.layout.super > 0
    BY <1>4
  <2>3. ~(sp.layout.super = 0)
    BY <2>2
  <2> QED BY <1>3, <1>5, <2>1, <2>3 DEF SplitScale, SplitMin
<1>12. SplitDequant(sp, i) = Minus(Times(Number(x - 32), Times(Number(s), k.d)), 0)
  BY <1>3, <1>9, <1>11 DEF SplitDequant, g
<1>13. /\ Times(Number(s), k.d) = Times(k.d, Number(s)) /\ Times(k.d, Number(s)) \in Int
       /\ Times(Number(x - 32), Times(k.d, Number(s)))
            = Times(Times(k.d, Number(s)), Number(x - 32))
       /\ Times(Number(x - 32), Times(k.d, Number(s))) \in Floats
  <2>1. Times(Number(s), k.d) = Times(k.d, Number(s)) /\ Times(k.d, Number(s)) \in Int
    BY <1>10, TimesCommutes, FloatsAreIntegers
  <2> QED BY <1>10, <2>1, TimesCommutes
<1> QED BY <1>8, <1>12, <1>13, MinusNothing DEF sp, m, r, k

(* Ternary weights.  The first steps of the dense packing's recurrence.    *)
Leading(b) == (3 * b) \div 256
Thrice(b)  == (3 * b) % 256
LEMMA DigitsByStep ==
  ASSUME NEW byte \in 0 .. 255
  PROVE  /\ DenseDigit(byte, 0) = Leading(byte)
         /\ DenseDigit(byte, 1) = Leading(Thrice(byte))
         /\ DenseDigit(byte, 2) = Leading(Thrice(Thrice(byte)))
         /\ DenseDigit(byte, 3) = Leading(Thrice(Thrice(Thrice(byte))))
         /\ DenseDigit(byte, 4) = Leading(Thrice(Thrice(Thrice(Thrice(byte)))))
<1> DEFINE B == 0 .. 255
           Z(f) == [n \in Nat |-> IF n = 0 THEN byte ELSE (3 * f[n - 1]) % 256]
           v == CHOOSE f : f = Z(f)
           F == [x \in Nat \X B |-> Thrice(x[2])]
<1>1. \A b \in B : Thrice(b) \in B
  BY DEF Thrice
<1>2. PICK g : g \in [Nat -> B] /\ g[0] = byte /\ \A n \in Nat : g[n + 1] = Thrice(g[n])
  <2> HIDE DEF B
  <2>1. F \in [Nat \X B -> B] /\ \A n \in Nat, b \in B : F[<<n, b>>] = Thrice(b)
    BY <1>1
  <2>2. byte \in B
    BY DEF B
  <2> HIDE DEF F
  <2>3. PICK f : Follows(f, B, byte, F)
    BY <2>1, <2>2, RecursionExists
  <2>4. f \in [Nat -> B] /\ f[0] = byte /\ \A n \in Nat : f[n + 1] = F[<<n, f[n]>>]
    BY <2>3 DEF Follows
  <2>5. \A n \in Nat : f[n + 1] = Thrice(f[n])
    BY <2>1, <2>4
  <2> QED BY <2>4, <2>5
<1>3. g = Z(g)
  <2>1. ASSUME NEW n \in Nat PROVE g[n] = IF n = 0 THEN byte ELSE (3 * g[n - 1]) % 256
    <3>1. CASE n = 0
      BY <1>2, <3>1
    <3>2. CASE n # 0
      <4>1. n - 1 \in Nat /\ (n - 1) + 1 = n
        BY <3>2
      <4>2. g[(n - 1) + 1] = Thrice(g[n - 1])
        BY <1>2, <4>1
      <4> QED BY <3>2, <4>1, <4>2 DEF Thrice
    <3> QED BY <3>1, <3>2
  <2> QED BY <1>2, <2>1
<1>4. \A s : DenseDigit(byte, s) = (3 * v[s]) \div 256
  BY DEF DenseDigit
<1>5. v = Z(v)
  <2> HIDE DEF Z
  <2> QED BY <1>3
<1> HIDE DEF v
<1>6. \A n \in Nat : v[n] = IF n = 0 THEN byte ELSE (3 * v[n - 1]) % 256
  BY <1>5
<1>7. v[0] = byte
  BY <1>6
<1>8. v[1] = Thrice(v[0]) /\ v[2] = Thrice(v[1]) /\ v[3] = Thrice(v[2]) /\ v[4] = Thrice(v[3])
  <2>1. v[1] = Thrice(v[0])
    BY <1>6 DEF Thrice
  <2>2. v[2] = Thrice(v[1])
    BY <1>6 DEF Thrice
  <2>3. v[3] = Thrice(v[2])
    BY <1>6 DEF Thrice
  <2>4. v[4] = Thrice(v[3])
    BY <1>6 DEF Thrice
  <2> QED BY <2>1, <2>2, <2>3, <2>4
<1> QED BY <1>4, <1>7, <1>8 DEF Leading

\* Byte b is the number n to the base 3, scaled by 256 / p and rounded up by e / p.
Scaled(p, b, n, e) == p * b = 256 * n + e
\* Its first digit is t, and n is left, scaled.
FirstDigit(p, b, t, n, e) ==
  /\ p \in {81, 27, 9, 3, 1} /\ b \in 0 .. 255 /\ t \in 0 .. 2
  /\ n \in 0 .. p - 1 /\ e \in 0 .. 242 /\ Scaled(3 * p, b, (p * t) + n, e)
  => (3 * b) \div 256 = t /\ Thrice(b) \in 0 .. 255 /\ Scaled(p, Thrice(b), n, e)
LEMMA OneDigit ==
  ASSUME NEW p, NEW b, NEW t, NEW n, NEW e
  PROVE  FirstDigit(p, b, t, n, e)
<1> SUFFICES ASSUME p \in {81, 27, 9, 3, 1}, b \in 0 .. 255, t \in 0 .. 2,
                    n \in 0 .. p - 1, e \in 0 .. 242, Scaled(3 * p, b, (p * t) + n, e)
             PROVE  /\ (3 * b) \div 256 = t /\ Thrice(b) \in 0 .. 255
                    /\ Scaled(p, Thrice(b), n, e)
  BY DEF FirstDigit
<1>1. CASE p = 81
  BY <1>1 DEF Scaled, Thrice
<1>2. CASE p = 27
  BY <1>2 DEF Scaled, Thrice
<1>3. CASE p = 9
  BY <1>3 DEF Scaled, Thrice
<1>4. CASE p = 3
  BY <1>4 DEF Scaled, Thrice
<1>5. CASE p = 1
  BY <1>5 DEF Scaled, Thrice
<1> QED BY <1>1, <1>2, <1>3, <1>4, <1>5

(* Five digits to the base 3, scaled to the range of a byte                *)
(* (docs/ternary.md:76, ceil(256 * v / 243)).                              *)
ToByte(v) == ((256 * v) + 242) \div 243
DenseByte(t) == ToByte(81 * t[0] + 27 * t[1] + 9 * t[2] + 3 * t[3] + t[4])

LEMMA RoundedUp ==
  ASSUME NEW v \in 0 .. 242
  PROVE  ToByte(v) \in 0 .. 255 /\ 243 * ToByte(v) - 256 * v \in 0 .. 242
BY DEF ToByte

(* Stepping through a byte of the dense packing gives its five digits, the *)
(* first the most significant.                                             *)
THEOREM DenseDigits ==
  ASSUME NEW t \in [0 .. 4 -> 0 .. 2]
  PROVE  /\ DenseByte(t) \in 0 .. 255
         /\ \A s \in 0 .. 4 : DenseDigit(DenseByte(t), s) = t[s]
<1> DEFINE n4 == t[4]
           n3 == 3 * t[3] + n4
           n2 == 9 * t[2] + n3
           n1 == 27 * t[1] + n2
           n0 == 81 * t[0] + n1
           b0 == DenseByte(t)
           b1 == Thrice(b0)
           b2 == Thrice(b1)
           b3 == Thrice(b2)
           b4 == Thrice(b3)
           e == 243 * b0 - 256 * n0
<1>1. t[0] \in 0 .. 2 /\ t[1] \in 0 .. 2 /\ t[2] \in 0 .. 2 /\ t[3] \in 0 .. 2 /\ t[4] \in 0 .. 2
  OBVIOUS
<1>2. /\ n4 \in 0 .. 2 /\ n3 \in 0 .. 8 /\ n2 \in 0 .. 26 /\ n1 \in 0 .. 80 /\ n0 \in 0 .. 242
      /\ n3 = 3 * t[3] + n4 /\ n2 = 9 * t[2] + n3 /\ n1 = 27 * t[1] + n2 /\ n0 = 81 * t[0] + n1
  BY <1>1
<1> HIDE DEF b1, b2, b3, b4
<1>3. b0 = ToByte(n0)
  <2>1. 81 * t[0] + 27 * t[1] + 9 * t[2] + 3 * t[3] + t[4] = n0
    BY <1>1
  <2> QED BY <2>1 DEF DenseByte
<1> HIDE DEF n4, n3, n2, n1, n0, b0
<1>4. b0 \in 0 .. 255 /\ e \in 0 .. 242
  <2>1. n0 \in 0 .. 242
    BY <1>2
  <2>2. ToByte(n0) \in 0 .. 255 /\ 243 * ToByte(n0) - 256 * n0 \in 0 .. 242
    BY <2>1, RoundedUp
  <2> QED BY <1>3, <2>2
<1>5. Scaled(243, b0, n0, e)
  BY <1>2, <1>4 DEF Scaled
<1> HIDE DEF e
<1>6. (3 * b0) \div 256 = t[0] /\ b1 \in 0 .. 255 /\ Scaled(81, b1, n1, e)
  <2>1. FirstDigit(81, b0, t[0], n1, e)
    BY OneDigit
  <2>2. Scaled(3 * 81, b0, (81 * t[0]) + n1, e)
    <3>1. 3 * 81 = 243 /\ n0 = (81 * t[0]) + n1
      BY <1>1, <1>2
    <3> QED BY <1>5, <3>1
  <2> QED BY <1>1, <1>2, <1>4, <2>1, <2>2 DEF FirstDigit, b1
<1>7. (3 * b1) \div 256 = t[1] /\ b2 \in 0 .. 255 /\ Scaled(27, b2, n2, e)
  <2>1. FirstDigit(27, b1, t[1], n2, e)
    BY OneDigit
  <2>2. Scaled(3 * 27, b1, (27 * t[1]) + n2, e)
    <3>1. 3 * 27 = 81 /\ n1 = (27 * t[1]) + n2
      BY <1>1, <1>2
    <3> QED BY <1>6, <3>1
  <2> QED BY <1>1, <1>2, <1>4, <1>6, <2>1, <2>2 DEF FirstDigit, b2
<1>8. (3 * b2) \div 256 = t[2] /\ b3 \in 0 .. 255 /\ Scaled(9, b3, n3, e)
  <2>1. FirstDigit(9, b2, t[2], n3, e)
    BY OneDigit
  <2>2. Scaled(3 * 9, b2, (9 * t[2]) + n3, e)
    <3>1. 3 * 9 = 27 /\ n2 = (9 * t[2]) + n3
      BY <1>1, <1>2
    <3> QED BY <1>7, <3>1
  <2> QED BY <1>1, <1>2, <1>4, <1>7, <2>1, <2>2 DEF FirstDigit, b3
<1>9. (3 * b3) \div 256 = t[3] /\ b4 \in 0 .. 255 /\ Scaled(3, b4, n4, e)
  <2>1. FirstDigit(3, b3, t[3], n4, e)
    BY OneDigit
  <2>2. Scaled(3 * 3, b3, (3 * t[3]) + n4, e)
    <3>1. 3 * 3 = 9 /\ n3 = (3 * t[3]) + n4
      BY <1>1, <1>2
    <3> QED BY <1>8, <3>1
  <2> QED BY <1>1, <1>2, <1>4, <1>8, <2>1, <2>2 DEF FirstDigit, b4
<1>10. (3 * b4) \div 256 = t[4]
  <2>1. FirstDigit(1, b4, t[4], 0, e)
    BY OneDigit
  <2>2. Scaled(3 * 1, b4, (1 * t[4]) + 0, e)
    <3>1. 3 * 1 = 3 /\ n4 = (1 * t[4]) + 0
      BY <1>1, <1>2 DEF n4
    <3> QED BY <1>9, <3>1
  <2> QED BY <1>1, <1>4, <1>9, <2>1, <2>2 DEF FirstDigit
<1>11. /\ DenseDigit(b0, 0) = t[0] /\ DenseDigit(b0, 1) = t[1] /\ DenseDigit(b0, 2) = t[2]
       /\ DenseDigit(b0, 3) = t[3] /\ DenseDigit(b0, 4) = t[4]
  BY <1>4, <1>6, <1>7, <1>8, <1>9, <1>10, DigitsByStep DEF Leading, b1, b2, b3, b4
<1> QED BY <1>4, <1>11 DEF b0

(* Where the codes of a block of 128 are.  The column kept at a place:     *)
ColumnAt(trits, byte, step) ==
  IF trits = "slots2" THEN 4 * byte + step
  ELSE IF byte < 16 THEN 16 * step + byte
  ELSE IF byte < 24 THEN 80 + 8 * step + (byte - 16)
  ELSE 120 + 2 * step + (byte - 24)
Packings == {"slots2", "dense"}
Steps(trits) == IF trits = "slots2" THEN 0 .. 3 ELSE 0 .. 4

(* Every column has a place within the block, and no other column has it.  *)
THEOREM TernarySites ==
  ASSUME NEW trits \in Packings, NEW col \in 0 .. 127
  PROVE  /\ TritSite(trits, col)[1] \in 0 .. TritBytes(trits) - 1
         /\ TritSite(trits, col)[2] \in Steps(trits)
         /\ ColumnAt(trits, TritSite(trits, col)[1], TritSite(trits, col)[2]) = col
<1>1. CASE trits = "slots2"
  BY <1>1 DEF TritSite, TritBytes, ColumnAt, Steps
<1>2. CASE trits # "slots2"
  <2>1. CASE col < 80
    BY <1>2, <2>1 DEF TritSite, TritBytes, ColumnAt, Steps
  <2>2. CASE col \in 80 .. 119
    BY <1>2, <2>2 DEF TritSite, TritBytes, ColumnAt, Steps
  <2>3. CASE col \in 120 .. 127
    BY <1>2, <2>3 DEF TritSite, TritBytes, ColumnAt, Steps
  <2> QED BY <2>1, <2>2, <2>3
<1> QED BY <1>1, <1>2

\* The bytes of a block of the codes c of 128 columns.
CodeAt(trits, c, byte, step) ==
  LET col == ColumnAt(trits, byte, step) IN IF col \in 0 .. 127 THEN c[col] ELSE 0
PackedByte(trits, c, byte) ==
  IF trits = "slots2"
  THEN Four(CodeAt(trits, c, byte, 0), CodeAt(trits, c, byte, 1),
            CodeAt(trits, c, byte, 2), CodeAt(trits, c, byte, 3))
  ELSE DenseByte([s \in 0 .. 4 |-> CodeAt(trits, c, byte, s)])

(* Whatever codes were packed, Trits::code reads them back, at every       *)
(* column.                                                                 *)
THEOREM TernaryReadsBack ==
  ASSUME NEW trits \in Packings, NEW c \in [0 .. 127 -> 0 .. 2], NEW col \in 0 .. 127
  PROVE  LET site == TritSite(trits, col)
         IN  TritCode(trits, PackedByte(trits, c, site[1]), site[2]) = c[col]
<1> DEFINE byte == TritSite(trits, col)[1]
           step == TritSite(trits, col)[2]
<1> SUFFICES TritCode(trits, PackedByte(trits, c, byte), step) = c[col]
  OBVIOUS
<1>1. step \in Steps(trits) /\ CodeAt(trits, c, byte, step) = c[col]
  <2>1. step \in Steps(trits) /\ ColumnAt(trits, byte, step) = col
    BY TernarySites
  <2> QED BY <2>1 DEF CodeAt
<1> HIDE DEF byte, step
<1>2. \A s : CodeAt(trits, c, byte, s) \in 0 .. 2
  BY DEF CodeAt
<1>3. CASE trits = "slots2"
  <2>1. PICK x \in TwoBits, y \in TwoBits, z \in TwoBits, u \in TwoBits :
          /\ x = CodeAt(trits, c, byte, 0) /\ y = CodeAt(trits, c, byte, 1)
          /\ z = CodeAt(trits, c, byte, 2) /\ u = CodeAt(trits, c, byte, 3)
    BY <1>2 DEF TwoBits
  <2> DEFINE w == Four(x, y, z, u)
  <2>2. PackedByte(trits, c, byte) = w
    BY <1>3, <2>1 DEF PackedByte
  <2>3. Bits(w, 0, 2) = x /\ Bits(w, 2, 2) = y /\ Bits(w, 4, 2) = z /\ Bits(w, 6, 2) = u
    BY FourFields
  <2> HIDE DEF w
  <2>4. \/ step = 0 /\ 2 * step = 0
        \/ step = 1 /\ 2 * step = 2
        \/ step = 2 /\ 2 * step = 4
        \/ step = 3 /\ 2 * step = 6
    BY <1>1, <1>3 DEF Steps
  <2>5. Bits(w, 2 * step, 2) = c[col]
    BY <1>1, <2>1, <2>3, <2>4
  <2> QED BY <1>3, <2>2, <2>5 DEF TritCode
<1>4. CASE trits # "slots2"
  <2> DEFINE t == [s \in 0 .. 4 |-> CodeAt(trits, c, byte, s)]
  <2>1. t \in [0 .. 4 -> 0 .. 2] /\ PackedByte(trits, c, byte) = DenseByte(t)
    BY <1>2, <1>4 DEF PackedByte
  <2>2. step \in 0 .. 4 /\ t[step] = c[col]
    BY <1>1, <1>4 DEF Steps
  <2> HIDE DEF t
  <2>3. DenseDigit(DenseByte(t), step) = t[step]
    BY <2>1, <2>2, DenseDigits
  <2> QED BY <1>4, <2>1, <2>2, <2>3 DEF TritCode
<1> QED BY <1>3, <1>4

LEMMA CodeRange ==
  ASSUME NEW trits \in Packings, NEW w \in 0 .. 255, NEW step \in Steps(trits)
  PROVE  TritCode(trits, w, step) \in 0 .. 3
<1>1. CASE trits = "slots2"
  <2>1. 2 * step \in {0, 2, 4, 6}
    BY <1>1 DEF Steps
  <2>2. Bits(w, 2 * step, 2) \in 0 .. 3
    BY <2>1, FieldsOfByte
  <2> QED BY <1>1, <2>2 DEF TritCode
<1>2. CASE trits # "slots2"
  <2>1. \A b \in 0 .. 255 : Leading(b) \in 0 .. 3 /\ Thrice(b) \in 0 .. 255
    BY DEF Leading, Thrice
  <2>2. step \in {0, 1, 2, 3, 4}
    BY <1>2 DEF Steps
  <2>3. /\ Thrice(w) \in 0 .. 255 /\ Thrice(Thrice(w)) \in 0 .. 255
        /\ Thrice(Thrice(Thrice(w))) \in 0 .. 255
        /\ Thrice(Thrice(Thrice(Thrice(w)))) \in 0 .. 255
    BY <2>1, Zenon
  <2>4. \A s \in {0, 1, 2, 3, 4} : DenseDigit(w, s) \in 0 .. 3
    <3>1. Leading(w) \in 0 .. 3 /\ Leading(Thrice(w)) \in 0 .. 3
      BY <2>1, <2>3
    <3>2. /\ Leading(Thrice(Thrice(w))) \in 0 .. 3
          /\ Leading(Thrice(Thrice(Thrice(w)))) \in 0 .. 3
          /\ Leading(Thrice(Thrice(Thrice(Thrice(w))))) \in 0 .. 3
      BY <2>1, <2>3
    <3> QED BY <3>1, <3>2, DigitsByStep
  <2> QED BY <1>2, <2>2, <2>4 DEF TritCode
<1> QED BY <1>1, <1>2

\* Byte s of block m of n bytes each.
IsPlace(p, n, len, m, s) ==
  /\ p + 1 \in 1 .. n * len /\ (p + 1) - 1 = p
  /\ (p \div n) + 1 = m /\ p % n = s
LEMMA PlaceOf ==
  ASSUME NEW n \in {26, 32}, NEW len \in Nat, NEW m \in 1 .. len, NEW s \in 0 .. n - 1
  PROVE  IsPlace((m - 1) * n + s, n, len, m, s)
<1>1. CASE n = 26
  BY <1>1 DEF IsPlace
<1>2. CASE n = 32
  BY <1>2 DEF IsPlace
<1> QED BY <1>1, <1>2

(* A ternary matrix is taken over as it is: a weight is the code at its    *)
(* place in its block, less one, times the block's scale.                  *)
FileTernary(trits, k, col) ==
  LET site == TritSite(trits, col)
      code == TritCode(trits, k.b[CodesAt(trits) + site[1] + 1], site[2])
  IN  Times(Number(code - 1), k.d)
THEOREM TernaryRepacked ==
  ASSUME NEW trits \in Packings, NEW blocks \in Blocks(TritBytes(trits) + 2),
         NEW i \in 0 .. 128 * Len(blocks) - 1
  PROVE  SplitDequant(SplitTernary(blocks, trits), i)
           = FileTernary(trits, blocks[(i \div 128) + 1], i % 128)
<1> DEFINE k    == blocks[(i \div 128) + 1]
           site == TritSite(trits, i % 128)
           sp == SplitTernary(blocks, trits)
           m == (i \div 128) + 1
           n == TritBytes(trits)
           at == CodesAt(trits) + site[1] + 1
           w == k.b[at]
           p == (m - 1) * n + site[1]
           x == TritCode(trits, w, site[2]) - 1
<1> SUFFICES SplitDequant(sp, i) = Times(Number(x), k.d)
  BY DEF FileTernary
<1>0. Len(blocks) \in Nat
  BY LenProperties DEF Blocks
<1>1. m \in 1 .. Len(blocks) /\ m - 1 = i \div 128 /\ i % 128 \in 0 .. 127
  BY <1>0, Within
<1>2. n \in {26, 32} /\ CodesAt(trits) \in {0, 2}
  BY DEF TritBytes, CodesAt
<1>3. /\ sp.layout.trits = trits /\ sp.layout.trits # "" /\ ~sp.layout.min
      /\ sp.layout.super = 0 /\ sp.layout.group = 128 /\ sp.d = Ds(blocks)
  BY DEF SplitTernary, TernaryOf, QLayout, Packings
<1>4. site[1] \in 0 .. n - 1
  BY <1>1, TernarySites
<1> HIDE DEF site
<1>5. sp.q[p + 1] = AsI8(w)
  <2>1. /\ p + 1 \in 1 .. n * Len(blocks) /\ (p + 1) - 1 = p
        /\ (p \div n) + 1 = m /\ p % n = site[1]
    <3>1. site[1] \in 0 .. n - 1 /\ n \in {26, 32} /\ m \in 1 .. Len(blocks)
      BY <1>1, <1>2, <1>4
    <3> HIDE DEF m, n
    <3> DEFINE len == Len(blocks)
               s == site[1]
    <3> HIDE DEF len, s
    <3>2. len \in Nat /\ m \in 1 .. len /\ s \in 0 .. n - 1 /\ n \in {26, 32}
      BY <1>0, <3>1 DEF len, s
    <3>3. IsPlace((m - 1) * n + s, n, len, m, s)
      BY <3>2, PlaceOf
    <3> QED BY <3>3 DEF len, s, IsPlace
  <2> HIDE DEF p
  <2> QED BY <2>1 DEF SplitTernary, Each
<1> HIDE DEF sp
<1>6. k.d \in Floats /\ Ds(blocks)[m] = k.d /\ w \in 0 .. 255
  <2> HIDE DEF m, n
  <2>1. n + 2 \in Nat /\ blocks \in Blocks(n + 2) /\ at \in 1 .. n + 2
    BY <1>2, <1>4 DEF n
  <2>2. k = blocks[m]
    BY DEF m
  <2> HIDE DEF k
  <2> HIDE DEF at
  <2>3. k.d \in Floats /\ Ds(blocks)[m] = k.d /\ HasBytes(k, n + 2)
    BY <1>1, <2>1, <2>2, BlockParts
  <2> QED BY <2>1, <2>3, ByteOf
<1> HIDE DEF k
<1>7. SplitValue(sp, i) = x
  <2>1. Byte(Number(sp.q[p + 1])) = w
    BY <1>5, <1>6, ByteBack
  <2>2. SplitValue(sp, i) = TritCode(trits, Byte(Number(sp.q[((i \div 128) * n + site[1]) + 1])),
                                     site[2]) - 1
    BY <1>3 DEF SplitValue, site
  <2> QED BY <1>1, <2>1, <2>2
<1>8. SplitScale(sp, i \div 128) = k.d /\ SplitMin(sp, i \div 128) = 0
  BY <1>3, <1>6 DEF SplitScale, SplitMin
<1>9. SplitDequant(sp, i) = Minus(Times(Number(x), k.d), 0)
  BY <1>3, <1>7, <1>8 DEF SplitDequant
<1>10. Number(x) \in Int /\ k.d \in Int
  <2>1. site[2] \in Steps(trits)
    BY <1>1, TernarySites DEF site
  <2>2. TritCode(trits, w, site[2]) \in 0 .. 3
    BY <1>6, <2>1, CodeRange
  <2>3. x \in Int
    BY <2>2
  <2> QED BY <1>6, <2>3, NumberType, FloatsAreIntegers
<1> QED BY <1>9, <1>10, TimesCommutes, MinusNothing

(* So a weight of a block that packs the codes c is c less one, times the  *)
(* scale: of {0, 1, 2} the codes mean {-1, 0, +1}.                         *)
THEOREM TernaryWeights ==
  ASSUME NEW trits \in Packings, NEW blocks \in Blocks(TritBytes(trits) + 2),
         NEW i \in 0 .. 128 * Len(blocks) - 1, NEW c \in [0 .. 127 -> 0 .. 2],
         \A n \in 0 .. TritBytes(trits) - 1 :
           blocks[(i \div 128) + 1].b[CodesAt(trits) + n + 1] = PackedByte(trits, c, n)
  PROVE  SplitDequant(SplitTernary(blocks, trits), i)
           = Times(Number(c[i % 128] - 1), blocks[(i \div 128) + 1].d)
<1> DEFINE k == blocks[(i \div 128) + 1]
           col == i % 128
           site == TritSite(trits, col)
<1>1. col \in 0 .. 127
  OBVIOUS
<1>2. SplitDequant(SplitTernary(blocks, trits), i) = FileTernary(trits, k, col)
  BY TernaryRepacked, Zenon
<1> HIDE DEF col
<1>3. k.b[CodesAt(trits) + site[1] + 1] = PackedByte(trits, c, site[1])
  BY <1>1, TernarySites
<1>4. TritCode(trits, PackedByte(trits, c, site[1]), site[2]) = c[col]
  BY <1>1, TernaryReadsBack
<1> QED BY <1>2, <1>3, <1>4 DEF col, FileTernary
=============================================================================
