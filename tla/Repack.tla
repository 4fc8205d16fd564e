------------------------------- MODULE Repack -------------------------------
(***************************************************************************)
(* How lex-front/llama.rs repacks the quantised blocks of a model file:    *)
(* split_*, what the host reads from the result (struct Split), and the    *)
(* file's own values, as ggml dequantises them.                            *)
(*                                                                         *)
(* A block of a file is a record: its f16 fields d and dmin as numbers,    *)
(* and b, all its bytes at their offsets in the file.                      *)
(***************************************************************************)
EXTENDS Modular, Packing, Sequences

\* super is 0 for one scale per group; trits is "" but for ternary weights.
QLayout(group, super, flags, trits) ==
    [group |-> group, super |-> super, min |-> "min" \in flags, packed4 |-> "packed4" \in flags,
     six |-> "six" \in flags, fp4 |-> "fp4" \in flags, trits |-> trits]
Q8_0   == QLayout(32, 0, {}, "")
Q6_K   == QLayout(16, 16, {"six"}, "")
Q4_K   == QLayout(32, 8, {"min", "packed4"}, "")
NVFP4  == QLayout(16, 0, {"packed4", "fp4"}, "")
TernaryOf(trits) == QLayout(128, 0, {}, trits)

AsI8(byte) == IF byte > 127 THEN byte - 256 ELSE byte
\* n values from each block, block after block: f(block, 0) .. f(block, n - 1).
Each(blocks, n, f(_, _)) ==
    [i \in 1 .. n * Len(blocks) |-> f(blocks[((i - 1) \div n) + 1], (i - 1) % n)]
\* The fields d of the blocks, and dmin.
Ds(blocks)    == [i \in DOMAIN blocks |-> blocks[i].d]
DMins(blocks) == [i \in DOMAIN blocks |-> blocks[i].dmin]

SplitQ8_0(blocks) ==
    [layout |-> Q8_0, q |-> Each(blocks, 32, LAMBDA k, j : AsI8(k.b[j + 3])), qh |-> <<>>,
     sc |-> <<>>, d |-> Ds(blocks), mn |-> <<>>, dmin |-> <<>>]

\* The byte the codes of a block start at: the scale leads or trails.
CodesAt(trits) == IF trits = "slots2" THEN 2 ELSE 0
SplitTernary(blocks, trits) ==
    [layout |-> TernaryOf(trits),
     q |-> Each(blocks, TritBytes(trits), LAMBDA k, j : AsI8(k.b[CodesAt(trits) + j + 1])),
     qh |-> <<>>, sc |-> <<>>, d |-> Ds(blocks), mn |-> <<>>, dmin |-> <<>>]

\* Bytes of two values v[2i], v[2i + 1] each, the first in the low nibble.
Pairs(v) == [i \in 1 .. Len(v) \div 2 |-> AsI8((v[2 * i - 1] % 16) + 16 * (v[2 * i] % 16))]

\* Bytes of the high two bits of four values each.
Quarters(v) ==
    LET high(i) == v[i] \div 16
    IN [i \in 1 .. Len(v) \div 4 |->
           AsI8(high(4 * i - 3) + 4 * high(4 * i - 2) + 16 * high(4 * i - 1) + 64 * high(4 * i))]

\* Value j of a block, six bits, in column order: four quarters of 32 a half.
SixBits(k, j) ==
    LET half == j \div 128
        quarter == (j % 128) \div 32
        l == j % 32
        ql == k.b[64 * half + (IF quarter % 2 = 1 THEN l + 32 ELSE l) + 1]
        qh == k.b[128 + 32 * half + l + 1]
    IN Nibble(ql, quarter >= 2) + 16 * Bits(qh, 2 * quarter, 2)

SplitQ6_K(blocks) ==
    LET v == Each(blocks, 256, SixBits)
    IN [layout |-> Q6_K, q |-> Pairs(v), qh |-> Quarters(v),
        sc |-> Each(blocks, 16, LAMBDA k, j : AsI8(k.b[193 + j])),
        d |-> Ds(blocks), mn |-> <<>>, dmin |-> <<>>]

\* Scale and min j of the twelve bytes sc[0] .. sc[11].
ScaleMinK4(j, sc) ==
    IF j < 4 THEN << sc[j] % 64, sc[j + 4] % 64 >>
    ELSE << (sc[j + 4] % 16) + 16 * Bits(sc[j - 4], 6, 2), (sc[j + 4] \div 16) + 16 * Bits(sc[j], 6, 2) >>
ScaleMinOf(k, j) == ScaleMinK4(j, [i \in 0 .. 11 |-> k.b[i + 5]])

\* Value i of a block: a run of 32 bytes holds two sub-blocks of 32 values.
FourBits(k, i) ==
    LET j == i \div 32
    IN Nibble(k.b[16 + 32 * (j \div 2) + (i % 32) + 1], j % 2 = 1)

SplitQ4_K(blocks) ==
    [layout |-> Q4_K, q |-> Pairs(Each(blocks, 256, FourBits)), qh |-> <<>>,
     sc |-> Each(blocks, 8, LAMBDA k, j : ScaleMinOf(k, j)[1]), d |-> Ds(blocks),
     mn |-> Each(blocks, 8, LAMBDA k, j : ScaleMinOf(k, j)[2]), dmin |-> DMins(blocks)]

(* Split::dequant, the host's own reading of the repacked matrix. *)
SplitValue(sp, i) ==
    LET lay == sp.layout
        byte(v, k) == Byte(Number(v[k + 1]))
    IN IF lay.trits # "" THEN
            LET site == TritSite(lay.trits, i % lay.group)
            IN TritCode(lay.trits, byte(sp.q, (i \div lay.group) * TritBytes(lay.trits) + site[1]),
                        site[2]) - 1
       ELSE IF lay.six THEN
            (Nibble(byte(sp.q, i \div 2), i % 2 = 1)
               + 16 * Bits(byte(sp.qh, i \div 4), 2 * (i % 4), 2)) - 32
       ELSE IF lay.packed4 THEN Nibble(byte(sp.q, i \div 2), i % 2 = 1)
       ELSE sp.q[i + 1]
SplitScale(sp, g) ==
    IF sp.layout.super = 0 THEN sp.d[g + 1]
    ELSE Times(Number(sp.sc[g + 1]), sp.d[(g \div sp.layout.super) + 1])
SplitMin(sp, g) ==
    IF ~sp.layout.min THEN 0
    ELSE Times(Number(sp.mn[g + 1]), sp.dmin[(g \div sp.layout.super) + 1])
SplitDequant(sp, i) ==
    LET g == i \div sp.layout.group
    IN Minus(Times(Number(SplitValue(sp, i)), SplitScale(sp, g)), SplitMin(sp, g))

(* The formats' own definitions, as ggml dequantises them: value i of a    *)
(* block.                                                                  *)
GgmlQ8_0(k, i) == Times(Number(AsI8(k.b[i + 3])), k.d)
GgmlQ4_K(k, i) ==
    LET j == i \div 32
        byte == k.b[16 + 32 * (j \div 2) + (i % 32) + 1]
        q == IF j % 2 = 0 THEN byte % 16 ELSE byte \div 16
    IN Minus(Times(q, Times(k.d, ScaleMinOf(k, j)[1])), Times(k.dmin, ScaleMinOf(k, j)[2]))
GgmlQ6_K(k, i) ==
    LET n == i \div 128
        l == i % 32
        part == (i % 128) \div 32
        ql == k.b[64 * n + (IF part \in {0, 2} THEN l ELSE l + 32) + 1]
        qh == k.b[128 + 32 * n + l + 1]
        low == IF part < 2 THEN ql % 16 ELSE ql \div 16
        q == (low + 16 * ((qh \div 4 ^ part) % 4)) - 32
        sc == AsI8(k.b[192 + 8 * n + (l \div 16) + 2 * part + 1])
    IN Times(Times(k.d, Number(sc)), Number(q))
=============================================================================
