------------------------------ MODULE Weights ------------------------------
(***************************************************************************)
(* The quantised weights of lex-front/llama.rs: how a matrix is laid out   *)
(* for the kernels, and how a kernel forms the values of a tile from it.   *)
(***************************************************************************)
EXTENDS KernelIR, Arith, Repack

RowBytes(lay, n_in) ==
    IF lay.trits # "" THEN (n_in \div lay.group) * TritBytes(lay.trits)
    ELSE IF lay.packed4 \/ lay.six THEN n_in \div 2 ELSE n_in

\* The parameters after the values: dtype, and columns per entry.
ScaleParams(lay) ==
    LET g == lay.group
        gs == g * lay.super
    IN IF lay.trits # "" THEN << <<"F16", g>> >>
       ELSE IF lay.fp4 THEN << <<"I8", g>> >>
       ELSE IF lay.super = 0 THEN << <<"F16", g>> >>
       ELSE << <<"I8", g>>, <<"F16", gs>> >>
              \o (IF lay.min THEN << <<"I8", g>>, <<"F16", gs>> >> ELSE <<>>)

\* QParams::declare: values, high plane, scales, and the scale of a row.
WeightParams(pre, n_in, n_out, lay) ==
    << Param(pre \o "q", "I8", <<n_out, RowBytes(lay, n_in)>>, FALSE) >>
      \o (IF lay.six THEN << Param(pre \o "qh", "I8", <<n_out, n_in \div 4>>, FALSE) >> ELSE <<>>)
      \o [i \in DOMAIN ScaleParams(lay) |->
             LET p == ScaleParams(lay)[i]
             IN Param(pre \o "s" \o ToString(i), p[1], <<n_out, n_in \div p[2]>>, FALSE)]
      \o (IF lay.fp4 THEN << Param(pre \o "gs", "F32", <<n_out>>, FALSE) >> ELSE <<>>)
WeightCount(lay) == Len(WeightParams("", 1, 1, lay))

\* The [bo, kc] tile of rows `rows` on, chunk c, of the weights whose first
\* parameter is p; it is left in the variable pre \o "w".
WeightTile(pre, p, lay, rows, c, bo, kc) ==
    LET n(name) == pre \o name
        g == lay.group
        scales == IF lay.six THEN p + 2 ELSE p + 1
        load(name, param, dt, width) ==
            Let(n(name), Load(View(param, << rows, Scaled(c, width, 0) >>, <<bo, width>>),
                              Reg(dt, <<bo, width>>)))
        scale(i) == load("s" \o ToString(i), scales + i - 1, ScaleParams(lay)[i][1],
                         kc \div ScaleParams(lay)[i][2])
        q(per) == load("q", p, "I8", kc \div per)
        two(a, b, dst) == Let(n(dst), Dequant(Move(n(a)), Move(n(b)), <<>>, lay.super))
        mins == IF lay.min THEN << Move(n("m")) >> ELSE <<>>
        formed == IF lay.super = 0 THEN <<>>
                  ELSE << scale(1), scale(2), two("s1", "s2", "s") >>
                         \o (IF lay.min THEN << scale(3), scale(4), two("s3", "s4", "m") >> ELSE <<>>)
        s == Move(n(IF lay.super = 0 THEN "s1" ELSE "s"))
        one == IF lay.super = 0 THEN << scale(1) >> ELSE formed
    IN IF lay.trits # ""
       THEN LET nb == (kc \div g) * TritBytes(lay.trits)
            IN << load("q", p, "I8", nb), scale(1),
                  Let(n("w"), DequantTernary(Move(n("q")), s, g, lay.trits)) >>
       ELSE IF lay.fp4
       THEN << q(2), scale(1),
               Let(n("gs"), Load(View(scales + 1, << rows >>, << bo >>), Reg("F32", << bo >>))),
               Let(n("w"), DequantFp4(Move(n("q")), s, Move(n("gs")), g)) >>
       ELSE IF lay.six
       THEN one \o << load("lo", p, "I8", kc \div 2), load("hi", p + 1, "I8", kc \div 4),
                      Let(n("w"), Dequant6(Move(n("lo")), Move(n("hi")), s, g)) >>
       ELSE IF lay.packed4
       THEN one \o << q(2), Let(n("w"), Dequant4(Move(n("q")), s, mins, g, "pairs")) >>
       ELSE one \o << q(1), Let(n("w"), Dequant(Move(n("q")), s, mins, g)) >>

ShapeFits(n_in, n_out, bo, kc, lay) ==
    /\ n_out % bo = 0 /\ n_in % kc = 0
    /\ kc % (lay.group * Max({1, lay.super})) = 0

\* weight_tensors: the parameters' contents, in the order of WeightParams.
Numbers(v) == Strict([i \in DOMAIN v |-> Number(v[i])])
WeightTensors(sp) ==
    << Numbers(sp.q) >>
      \o (IF sp.layout.six THEN << Numbers(sp.qh) >> ELSE <<>>)
      \o (IF sp.layout.super = 0 THEN << sp.d >>
          ELSE << Numbers(sp.sc), sp.d >>
                 \o (IF sp.layout.min THEN << Numbers(sp.mn), sp.dmin >> ELSE <<>>))
=============================================================================
