---------------------------- MODULE LlamaKernels ----------------------------
(***************************************************************************)
(* The layer kernels of lex-front/llama.rs, as programs of the kernel      *)
(* language.  Eps, InverseOf and InverseRoot stand for the float constants *)
(* of a configuration.                                                     *)
(***************************************************************************)
EXTENDS Weights

Eps == 11
InverseOf(n) == Over(1, n)
RootInverse(n) == Number(7 * n + 3)

Origin == Lit(0)
Whole(param, n, d) == View(param, <<Origin, Origin>>, <<n, d>>)
Row(param, n) == Whole(param, 1, n)
F32(n, d) == Reg("F32", <<n, d>>)
\* A kernel stores out narrowed when its type is not F32.
Narrowed(v, out, view) ==
    IF out = "F32" THEN << Do(Store(Move(v), view)) >>
    ELSE << Let(v \o "16", Convert(Move(v), out)), Do(Store(Move(v \o "16"), view)) >>

\* 1 / sqrt(mean(x^2) + eps) of the [1, n] tile x, left in r.
InverseRms(x, n) ==
    << Let("sq", Binary("mul", Borrow(x), Borrow(x))), Let("ss", RowReduce("sum", Move("sq"))),
       Let("ms", Scale(Move("ss"), InverseOf(n))), Let("eps", Fill(Reg("F32", <<1>>), Eps)),
       Let("t", Binary("add", Move("ms"), Move("eps"))), Let("r", Unary("rsqrt", Move("t"))) >>

\* The k-th row an instance owns, from 0; without a grid, the first k rows.
Mine(pid, k) == IF pid = "" THEN Origin ELSE Scaled(pid, k, 0)

\* rmsnorm_rows; pick = 0 normalises every row, one instance each.
RmsNormRows(rows, n, pick, out) ==
    LET src == IF pick > 0 THEN Lit(pick - 1) ELSE Scaled("pid", 1, 0)
        dst == IF pick > 0 THEN Origin ELSE Scaled("pid", 1, 0)
    IN Program("rmsnorm_rows",
               << Param("x", "F32", <<rows, n>>, FALSE), Param("w", "F32", <<1, n>>, FALSE),
                  Param("y", out, <<IF pick > 0 THEN 1 ELSE rows, n>>, TRUE) >>,
               IF pick > 0 THEN 1 ELSE rows, IF pick > 0 THEN "" ELSE "pid", 1, "", <<>>,
               << Let("x", Load(View(1, <<src, Origin>>, <<1, n>>), F32(1, n))) >>
                 \o InverseRms("x", n)
                 \o << Let("xn", Binary("mul", Move("x"), Move("r"))),
                       Let("w", Load(Row(2, n), F32(1, n))),
                       Let("y", Binary("mul", Move("xn"), Move("w"))) >>
                 \o Narrowed("y", out, View(3, <<dst, Origin>>, <<1, n>>)))
\* rmsnorm: one row, without a grid.
RmsNorm(n) == [RmsNormRows(1, n, 1, "F32") EXCEPT !.name = "rmsnorm"]

(* Matrix products with quantised weights. *)
XChunk(px, c, t, kc, dt) ==
    Let("x", Load(View(px, << Origin, Scaled(c, kc, 0) >>, <<t, kc>>), Reg(dt, <<t, kc>>)))

MatMulQ(t, n_in, n_out, bo, kc, lay, residual, dt) ==
    LET nw == WeightCount(lay)
        pr == 2 + nw
        py == IF residual THEN pr + 1 ELSE pr
        rows == Scaled("pid", bo, 0)
        own(p) == View(p, << Origin, rows >>, << t, bo >>)
        body == << XChunk(1, "c", t, kc, dt) >> \o WeightTile("w", 2, lay, rows, "c", bo, kc)
                  \o << Let("part", MatMulNT(Move("x"), Move("ww"))),
                        Let("acc2", Binary("add", Move("acc1"), Move("part"))) >>
    IN Program("matmul_q",
               << Param("x", dt, <<t, n_in>>, FALSE) >> \o WeightParams("w", n_in, n_out, lay)
                 \o (IF residual THEN << Param("r", "F32", <<t, n_out>>, FALSE) >> ELSE <<>>)
                 \o << Param("y", "F32", <<t, n_out>>, TRUE) >>,
               n_out \div bo, "pid", 1, "", <<>>,
               << Let("acc0", Fill(F32(t, bo), 0)),
                  ForRange("c", 0, n_in \div kc, <<"acc0">>, <<"acc1">>, << Tile(F32(t, bo)) >>,
                           Block(body, <<"acc2">>), <<"out">>) >>
                 \o (IF residual
                     THEN << Let("r", Load(own(pr), F32(t, bo))),
                             Let("y", Binary("add", Move("out"), Move("r"))),
                             Do(Store(Move("y"), own(py))) >>
                     ELSE << Do(Store(Move("out"), own(py))) >>))

\* g * x in xg and the scale of the norm in r: the norm folded into a product.
NormedX(px, pg, c, n) ==
    << XChunk(px, c, 1, n, "F32") >> \o InverseRms("x", n)
      \o << Let("g", Load(Row(pg, n), F32(1, n))), Let("xg", Binary("mul", Move("x"), Move("g"))) >>

MatVecQRms(n_in, n_out, bo, lay) ==
    LET rows == Scaled("pid", bo, 0)
        body == NormedX(1, 2, "c", n_in) \o WeightTile("w", 3, lay, rows, "c", bo, n_in)
                  \o << Let("y0", MatMulNT(Move("xg"), Move("ww"))),
                        Let("y", Binary("mul", Move("y0"), Move("r"))),
                        Do(Store(Move("y"), View(3 + WeightCount(lay), << Origin, rows >>, <<1, bo>>))) >>
    IN Program("matvec_q_rms",
               << Param("x", "F32", <<1, n_in>>, FALSE), Param("gn", "F32", <<1, n_in>>, FALSE) >>
                 \o WeightParams("w", n_in, n_out, lay)
                 \o << Param("y", "F32", <<1, n_out>>, TRUE) >>,
               n_out \div bo, "pid", 1, "", <<>>,
               << ForRange("c", 0, 1, <<>>, <<>>, <<>>, Block(body, <<>>), <<>>) >>)

\* A folded norm is for one row.
GluBuilds(t, n_in, n_out, bo, lay, norm) == ShapeFits(n_in, n_out, bo, n_in, lay) /\ (norm => t = 1)

MatMulQGlu(t, n_in, n_out, bo, lay, norm) ==
    LET nw == WeightCount(lay)
        first == IF norm THEN 3 ELSE 2
        rows == Scaled("pid", bo, 0)
        x == IF norm THEN "xg" ELSE "x"
        input == IF norm THEN NormedX(1, 2, "c", n_in) ELSE << XChunk(1, "c", t, n_in, "F32") >>
        scaled == IF norm THEN << Let("gr", Binary("mul", Move("g0"), Borrow("r"))),
                                  Let("ur", Binary("mul", Move("u0"), Move("r"))) >> ELSE <<>>
        gate == IF norm THEN "gr" ELSE "g0"
        up == IF norm THEN "ur" ELSE "u0"
        body == input \o WeightTile("g", first, lay, rows, "c", bo, n_in)
                  \o << Let("g0", MatMulNT(Borrow(x), Move("gw"))) >>
                  \o WeightTile("u", first + nw, lay, rows, "c", bo, n_in)
                  \o << Let("u0", MatMulNT(Move(x), Move("uw"))) >>
                  \o scaled
                  \o << Let("sg", Unary("sigmoid", Borrow(gate))),
                        Let("silu", Binary("mul", Move(gate), Move("sg"))),
                        Let("a", Binary("mul", Move("silu"), Move(up))),
                        Do(Store(Move("a"), View(first + 2 * nw, << Origin, rows >>, <<t, bo>>))) >>
    IN Program("matmul_q_glu",
               << Param("x", "F32", <<t, n_in>>, FALSE) >>
                 \o (IF norm THEN << Param("gn", "F32", <<1, n_in>>, FALSE) >> ELSE <<>>)
                 \o WeightParams("g", n_in, n_out, lay) \o WeightParams("u", n_in, n_out, lay)
                 \o << Param("a", "F32", <<t, n_out>>, TRUE) >>,
               n_out \div bo, "pid", 1, "", <<>>,
               << ForRange("c", 0, 1, <<>>, <<>>, <<>>, Block(body, <<>>), <<>>) >>)

SiluMulBuilds(n, chunk) == chunk > 0 /\ n % chunk = 0

SiluMul(n, chunk, out) ==
    LET v(p) == View(p, << Origin, Scaled("pid", chunk, 0) >>, <<1, chunk>>)
    IN Program("silu_mul",
               << Param("g", "F32", <<1, n>>, FALSE), Param("u", "F32", <<1, n>>, FALSE),
                  Param("y", out, <<1, n>>, TRUE) >>,
               n \div chunk, "pid", 1, "", <<>>,
               << Let("g", Load(v(1), F32(1, chunk))), Let("u", Load(v(2), F32(1, chunk))),
                  Let("sg", Unary("sigmoid", Borrow("g"))),
                  Let("a", Binary("mul", Move("g"), Move("sg"))),
                  Let("y", Binary("mul", Move("a"), Move("u"))) >> \o Narrowed("y", out, v(3)))

(* rope_rows: adjacent pairs are rotated, a token per instance; rope has   *)
(* one token and no grid.                                                  *)
RopeOf(name, tokens, pid, heads, hd, out) ==
    LET block(p) == View(p, << Mine(pid, heads), Origin >>, <<heads, hd>>)
        table(p) == View(p, << Mine(pid, 1), Origin >>, <<1, hd>>)
    IN Program(name,
               << Param("x", "F32", <<tokens * heads, hd>>, FALSE),
                  Param("cos", "F32", <<tokens, hd>>, FALSE),
                  Param("sin", "F32", <<tokens, hd>>, FALSE),
                  Param("y", out, <<tokens * heads, hd>>, TRUE) >>,
               tokens, pid, 1, "", <<>>,
               << Let("x", Load(block(1), F32(heads, hd))), Let("cos", Load(table(2), F32(1, hd))),
                  Let("sin", Load(table(3), F32(1, hd))), Let("sw", SwapPairs(Borrow("x"))),
                  Let("a", Binary("mul", Move("x"), Move("cos"))),
                  Let("z", Binary("mul", Move("sw"), Move("sin"))),
                  Let("y", Binary("add", Move("a"), Move("z"))) >> \o Narrowed("y", out, block(4)))
RopeRows(tokens, heads, hd, out) == RopeOf("rope_rows", tokens, "pid", heads, hd, out)
Rope(heads, hd, out) == RopeOf("rope", 1, "", heads, hd, out)

(* kv_append_rows: row t * heads + h goes to cache row h * cap + pos0 + t; *)
(* kv_append has one position and no grid.                                 *)
KvAppendOf(name, tokens, tok, heads, hd, cap, dt) ==
    LET n(v, h) == v \o ToString(h)
        from(h) == View(1, << Shift(Mine(tok, heads), h), Origin >>, <<1, hd>>)
        to(h) == View(2, << Plus(Shift(Mine(tok, 1), h * cap), "pos0", 1), Origin >>, <<1, hd>>)
        head(h) == << Let(n("row", h), Load(from(h), Reg(dt, <<1, hd>>))) >>
                     \o (IF dt = "F16" THEN << Do(Store(Move(n("row", h)), to(h))) >>
                         ELSE Narrowed(n("row", h), "F16", to(h)))
    IN Program(name,
               << Param("x", dt, <<tokens * heads, hd>>, FALSE),
                  Param("cache", "F16", <<heads * cap, hd>>, TRUE) >>,
               tokens, tok, 1, "", << <<"pos0", cap - tokens>> >>,
               FlattenSeq([h \in 1 .. heads |-> head(h - 1)]))
KvAppendRows(tokens, heads, hd, cap, dt) ==
    KvAppendOf("kv_append_rows", tokens, "tok", heads, hd, cap, dt)
KvAppend(heads, hd, cap, dt) == KvAppendOf("kv_append", 1, "", heads, hd, cap, dt)

(* hadamard_rotate: a sign per column and a Walsh-Hadamard transform of    *)
(* each block; the inverse applies the sign last.                          *)
Rotates(cols, block) == (\E k \in 0 .. 10 : block = 2 ^ k) /\ cols % block = 0
HadamardRotate(rows, cols, block, inverse) ==
    LET stages == CHOOSE k \in 0 .. 10 : 2 ^ k = block
        h(k) == "h" \o ToString(k)
        fly == [k \in 1 .. stages |-> Let(h(k), Butterfly(Move(h(k - 1)), 2 ^ (k - 1)))]
        sign(from, to) == << Let(to, Binary("mul", Move(from), Move("s"))) >>
        norm(to) == << Let(to, Scale(Move(h(stages)), RootInverse(block))) >>
        start(v) == << Let(v, Load(Whole(1, rows, cols), F32(rows, cols))),
                       Let("s", Load(Row(2, cols), F32(1, cols))) >>
    IN Program("rotate",
               << Param("x", "F32", <<rows, cols>>, FALSE), Param("s", "F32", <<1, cols>>, FALSE),
                  Param("y", "F32", <<rows, cols>>, TRUE) >>,
               1, "", 1, "", <<>>,
               (IF inverse THEN start(h(0)) \o fly \o norm("n") \o sign("n", "y")
                ELSE start("x") \o sign("x", h(0)) \o fly \o norm("y"))
                 \o << Do(Store(Move("y"), Whole(3, rows, cols))) >>)
=============================================================================
