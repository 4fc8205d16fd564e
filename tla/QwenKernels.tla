---------------------------- MODULE QwenKernels ----------------------------
(***************************************************************************)
(* The kernels of the gated-delta layers, lex-front/qwen.rs, as programs   *)
(* of the kernel language.                                                 *)
(***************************************************************************)
EXTENDS LlamaKernels

VecView(param, start, n) == View(param, << start >>, << n >>)
Vec(n) == Reg("F32", << n >>)

(* DeltaNet: a layer c is                                                  *)
(*   [v_heads, k_heads, k_dim, v_dim, rows, v_base, v_width].              *)
DeltaBuilds(c, tokens) ==
    /\ c.v_heads > 0 /\ c.k_heads > 0 /\ c.v_heads % c.k_heads = 0
    /\ c.rows > 0 /\ c.v_dim % c.rows = 0
    /\ c.v_base + c.v_heads * c.v_dim <= c.v_width
    /\ tokens > 0

\* a mutant
DeltaFirstOfHead(c) == Scaled("head", c.v_dim, 0)

DeltaFirst(c) == Plus(Scaled("head", c.v_dim, 0), "chunk", c.rows)

\* One token: S = S g, S = S + k (v - S k)^T beta, y = S q.  tok is the loop
\* variable, or "" for token number last, peeled off the loop.
DeltaStep(c, tag, tok, last, from, snap) ==
    LET n(v) == v \o tag
        at(e, stride) == IF tok = "" THEN Shift(e, last * stride) ELSE Plus(e, tok, stride)
        gates == c.v_heads * c.v_dim
        first == DeltaFirst(c)
        row(p) == View(p, << at(Scaled("head", 1, 0), c.v_heads), Origin >>, << 1, c.k_dim >>)
        gate(p) == VecView(p, at(first, gates), c.rows)
        tile == F32(c.rows, c.k_dim)
        key == F32(1, c.k_dim)
    IN << Let(n("g"), Load(gate(5), Vec(c.rows))),
          Let(n("s1"), Binary("mul", Move(from), Move(n("g")))),
          Let(n("k"), Load(row(3), key)),
          Let(n("sk0"), Binary("mul", Borrow(n("s1")), Borrow(n("k")))),
          Let(n("sk"), RowReduce("sum", Move(n("sk0")))),
          Let(n("v"), Load(VecView(4, at(Shift(first, c.v_base), c.v_width), c.rows), Vec(c.rows))),
          Let(n("d0"), Binary("sub", Move(n("v")), Move(n("sk")))),
          Let(n("beta"), Load(gate(6), Vec(c.rows))),
          Let(n("d"), Binary("mul", Move(n("d0")), Move(n("beta")))),
          Let(n("ones"), Fill(tile, 1)),
          Let(n("kb"), Binary("mul", Move(n("ones")), Move(n("k")))),
          Let(n("upd"), Binary("mul", Move(n("kb")), Move(n("d")))),
          Let(n("s2"), Binary("add", Move(n("s1")), Move(n("upd")))),
          Let(n("q"), Load(row(2), key)),
          Let(n("y0"), Binary("mul", Borrow(n("s2")), Move(n("q")))),
          Let(n("y"), RowReduce("sum", Move(n("y0")))),
          Do(Store(Move(n("y")), gate(7))) >>
         \o (IF snap
             THEN << Do(Store(Borrow(n("s2")),
                              View(8, << at(first, gates), Origin >>, << c.rows, c.k_dim >>))) >>
             ELSE <<>>)

\* With snapshots the last token is peeled off the loop and leaves none.
DeltaSteps(c, tokens, snap) ==
    LET gates == c.v_heads * c.v_dim
        tile == F32(c.rows, c.k_dim)
        state == View(1, << DeltaFirst(c), Origin >>, << c.rows, c.k_dim >>)
        looped == IF snap THEN tokens - 1 ELSE tokens
        loop == IF looped = 0 THEN <<>>
                ELSE << ForRange("tok", 0, looped, <<"s0">>, <<"sin">>, << Tile(tile) >>,
                                 Block(DeltaStep(c, "", "tok", 0, "sin", snap), <<"s2">>), <<"sout">>) >>
        left == IF looped = 0 THEN "s0" ELSE "sout"
        peeled == IF snap THEN DeltaStep(c, "p", "", tokens - 1, left, FALSE) ELSE <<>>
    IN Program("delta_step",
               << Param("state", "F32", <<gates, c.k_dim>>, TRUE),
                  Param("q", "F32", <<tokens * c.v_heads, c.k_dim>>, FALSE),
                  Param("k", "F32", <<tokens * c.v_heads, c.k_dim>>, FALSE),
                  Param("v", "F32", <<tokens * c.v_width>>, FALSE),
                  Param("g", "F32", <<tokens * gates>>, FALSE),
                  Param("beta", "F32", <<tokens * gates>>, FALSE),
                  Param("y", "F32", <<tokens * gates>>, TRUE) >>
                 \o (IF snap THEN << Param("snap", "F32", <<tokens * gates, c.k_dim>>, TRUE) >>
                     ELSE <<>>),
               c.v_dim \div c.rows, "chunk", c.v_heads, "head", <<>>,
               << Let("s0", Load(state, tile)) >> \o loop \o peeled
                 \o << Do(Store(Move(IF snap THEN "s2p" ELSE left), state)) >>)

(* The gates of a layer, one value per state row. *)
DeltaGates(tokens, v_heads, v_dim) ==
    LET at == Plus(Scaled("tok", v_heads, 0), "head", 1)
        token(p) == VecView(p, at, 1)
        weight(p) == VecView(p, Scaled("head", 1, 0), 1)
        spread(v, tag, p) ==
            << Let("ones" \o tag, Fill(F32(1, v_dim), 1)),
               Let("out" \o tag, Binary("mul", Move("ones" \o tag), Move(v))),
               Do(Store(Move("out" \o tag), View(p, << at, Origin >>, << 1, v_dim >>))) >>
        body == << Let("a", Load(token(1), Vec(1))), Let("dt", Load(weight(4), Vec(1))),
                   Let("u", Binary("add", Move("a"), Move("dt"))),
                   Let("sp", Unary("softplus", Move("u"))), Let("amp", Load(weight(3), Vec(1))),
                   Let("e", Binary("mul", Move("sp"), Move("amp"))),
                   Let("en", Scale(Move("e"), Number(-1))), Let("g", Unary("exp", Move("en"))),
                   Let("b", Load(token(2), Vec(1))), Let("beta", Unary("sigmoid", Move("b"))) >>
                  \o spread("g", "g", 5) \o spread("beta", "b", 6)
        rows == tokens * v_heads
    IN Program("delta_gates",
               << Param("a", "F32", <<rows>>, FALSE), Param("b", "F32", <<rows>>, FALSE),
                  Param("A", "F32", <<v_heads>>, FALSE), Param("dt_bias", "F32", <<v_heads>>, FALSE),
                  Param("g", "F32", <<rows, v_dim>>, TRUE),
                  Param("beta", "F32", <<rows, v_dim>>, TRUE) >>,
               v_heads, "head", IF tokens = 1 THEN 1 ELSE tokens, IF tokens = 1 THEN "" ELSE "tok", <<>>,
               IF tokens = 1
               THEN << ForRange("tok", 0, 1, <<>>, <<>>, <<>>, Block(body, <<>>), <<>>) >>
               ELSE body)

(* conv_silu_rows: the window slides through the carried state and the     *)
(* batch; snap is what it holds after each token.                          *)
ConvBuilds(channels, kernel, chunk) == kernel >= 2 /\ chunk > 0 /\ channels % chunk = 0

ConvSilu(tokens, channels, kernel, chunk, snap) ==
    LET back == kernel - 1
        slice(p, r) == View(p, << Lit(r), Scaled("col", chunk, 0) >>, << 1, chunk >>)
        \* Position p counted from the batch's first token; before it, the state.
        source(p) == IF p < 0 THEN slice(1, p + back) ELSE slice(2, p)
        n(v, t, i) == v \o ToString(t) \o "_" \o ToString(i)
        tap(t, i) ==
            << Let(n("v", t, i), Load(source(t + i - back), F32(1, chunk))),
               Let(n("w", t, i), Load(slice(3, i), F32(1, chunk))),
               Let(n(IF i = 0 THEN "acc" ELSE "t", t, i),
                   Binary("mul", Move(n("v", t, i)), Move(n("w", t, i)))) >>
              \o (IF i = 0 THEN <<>>
                  ELSE << Let(n("acc", t, i), Binary("add", Move(n("acc", t, i - 1)), Move(n("t", t, i)))) >>)
        \* The window after `done` tokens, stored at rows `first` on of p.
        window(tag, done, p, first) ==
            FlattenSeq([i \in 1 .. back |->
                << Let(n(tag, done, i), Load(source(done + i - 1 - back), F32(1, chunk))),
                   Do(Store(Move(n(tag, done, i)), slice(p, first + i - 1))) >>])
        token(t) ==
            FlattenSeq([i \in 1 .. kernel |-> tap(t, i - 1)])
              \o << Let(n("sg", t, 0), Unary("sigmoid", Borrow(n("acc", t, back)))),
                    Let(n("y", t, 0), Binary("mul", Move(n("acc", t, back)), Move(n("sg", t, 0)))),
                    Do(Store(Move(n("y", t, 0)), slice(4, t))) >>
              \o (IF snap THEN window("sn", t + 1, 5, t * back) ELSE <<>>)
    IN Program("conv_silu",
               << Param("state", "F32", <<back, channels>>, TRUE),
                  Param("x", "F32", <<tokens, channels>>, FALSE),
                  Param("w", "F32", <<kernel, channels>>, FALSE),
                  Param("y", "F32", <<tokens, channels>>, TRUE) >>
                 \o (IF snap THEN << Param("snap", "F32", <<tokens * back, channels>>, TRUE) >>
                     ELSE <<>>),
               channels \div chunk, "col", 1, "", <<>>,
               FlattenSeq([t \in 1 .. tokens |-> token(t - 1)]) \o window("st", tokens, 1, 0))

(* build_qk_rope_rows: normalise each head, rotate its first rot           *)
(* dimensions, half against half, and open the gate beside the queries.    *)
QkRopeBuilds(head_dim, rot) == rot > 0 /\ rot % 2 = 0 /\ rot <= head_dim

QkRope(tokens, heads, head_dim, rot, gate, out) ==
    LET half == rot \div 2
        width == IF gate THEN 2 * head_dim ELSE head_dim
        packed(p, col, n) == View(p, << Scaled("token", 1, 0), Scaled("head", width, col) >>, << 1, n >>)
        shared(p, col, n) == View(p, << Origin, Lit(col) >>, << 1, n >>)
        table(p) == View(p, << Scaled("token", 1, 0), Origin >>, << 1, half >>)
        perHead(p, col, n) ==
            View(p, << Plus(Scaled("token", heads, 0), "head", 1), Lit(col) >>, << 1, n >>)
        normed(v, col, n) ==
            << Let(v \o "0", Load(packed(1, col, n), F32(1, n))),
               Let(v \o "w", Load(shared(2, col, n), F32(1, n))),
               Let(v \o "1", Binary("mul", Move(v \o "0"), Move(v \o "w"))),
               Let(v, Binary("mul", Move(v \o "1"), Borrow("r"))) >>
        tail == rot < head_dim
        \* As InverseRms, over a row that is dropped once squared.
        scale == << Let("x", Load(packed(1, 0, head_dim), F32(1, head_dim))),
                    Head(InverseRms("x", head_dim)), Do(DropOf("x")) >>
                   \o Tail(InverseRms("x", head_dim))
        rotated == << Let("cos", Load(table(3), F32(1, half))), Let("sin", Load(table(4), F32(1, half))),
                      Let("ac", Binary("mul", Borrow("lo"), Borrow("cos"))),
                      Let("bs", Binary("mul", Borrow("hi"), Borrow("sin"))),
                      Let("o1", Binary("sub", Move("ac"), Move("bs"))),
                      Let("bc", Binary("mul", Move("hi"), Move("cos"))),
                      Let("as", Binary("mul", Move("lo"), Move("sin"))),
                      Let("o2", Binary("add", Move("bc"), Move("as"))), Do(DropOf("r")) >>
        gated == << Let("gx", Load(packed(1, head_dim, head_dim), F32(1, head_dim))),
                    Let("gs", Unary("sigmoid", Move("gx"))),
                    Do(Store(Move("gs"), perHead(6, 0, head_dim))) >>
    IN Program("qk_rope",
               << Param("x", "F32", <<tokens, heads * width>>, FALSE),
                  Param("nw", "F32", <<1, head_dim>>, FALSE),
                  Param("cos", "F32", <<tokens, half>>, FALSE),
                  Param("sin", "F32", <<tokens, half>>, FALSE),
                  Param("y", out, <<tokens * heads, head_dim>>, TRUE) >>
                 \o (IF gate THEN << Param("gate", "F32", <<tokens * heads, head_dim>>, TRUE) >>
                     ELSE <<>>),
               heads, "head", tokens, "token", <<>>,
               scale \o normed("lo", 0, half) \o normed("hi", half, half)
                 \o (IF tail THEN normed("tl", rot, head_dim - rot) ELSE <<>>)
                 \o rotated \o Narrowed("o1", out, perHead(5, 0, half))
                 \o Narrowed("o2", out, perHead(5, half, half))
                 \o (IF tail THEN Narrowed("tl", out, perHead(5, rot, head_dim - rot)) ELSE <<>>)
                 \o (IF gate THEN gated ELSE <<>>))

(* build_delta_qk_rows_in: each key head normalised, scaled, and written   *)
(* once per value head it serves: grouped, or tiled as ggml repeats.       *)
DeltaQkBuilds(k_heads, per, k_dim, width, first) == per > 0 /\ first + k_heads * k_dim <= width
QkScale == 13

DeltaQk(tokens, k_heads, per, k_dim, width, first, tiled) ==
    LET row(tok) == View(1, << tok, Scaled("head", k_dim, first) >>, << 1, k_dim >>)
        normed(tok) == << Let("x", Load(row(tok), F32(1, k_dim))) >> \o InverseRms("x", k_dim)
                         \o << Let("xr", Binary("mul", Move("x"), Move("r"))),
                               Let("y", Scale(Move("xr"), QkScale)) >>
        dst(tok, c) ==
            View(2, << IF tiled THEN Plus(PlusExpr(tok, c, k_heads), "head", 1)
                       ELSE PlusExpr(Plus(tok, "head", per), c, 1), Origin >>, << 1, k_dim >>)
        batch == Scaled("tok", k_heads * per, 0)
    IN Program("delta_qk",
               << Param("x", "F32", <<tokens, width>>, FALSE),
                  Param("y", "F32", <<tokens * k_heads * per, k_dim>>, TRUE) >>,
               IF tokens = 1 THEN per ELSE tokens, IF tokens = 1 THEN "copy" ELSE "tok",
               k_heads, "head", <<>>,
               IF tokens = 1
               THEN normed(Origin) \o << Do(Store(Move("y"), dst(Origin, Scaled("copy", 1, 0)))) >>
               ELSE normed(Scaled("tok", 1, 0))
                      \o [c \in 1 .. per |-> Do(Store(IF c = per THEN Move("y") ELSE Borrow("y"),
                                                      dst(batch, Lit(c - 1))))])

(* build_matvec_dense_rows: a row of x, of any dtype, is read as F32; the  *)
(* weights stay as they are.                                               *)
MatVecDenseBuilds(n_out, bo) == bo > 0 /\ n_out % bo = 0

MatVecDense(tokens, n_in, n_out, bo, w, dt) ==
    LET first == IF tokens = 1 THEN Origin ELSE Scaled("tok", 1, 0)
        rows == Scaled("row", bo, 0)
    IN Program("matvec_dense",
               << Param("x", dt, <<tokens, n_in>>, FALSE), Param("w", w, <<n_out, n_in>>, FALSE),
                  Param("y", "F32", <<tokens, n_out>>, TRUE) >>,
               n_out \div bo, "row", tokens, IF tokens = 1 THEN "" ELSE "tok", <<>>,
               << Let("x", Load(View(1, << first, Origin >>, << 1, n_in >>), F32(1, n_in))),
                  Let("w", Load(View(2, << rows, Origin >>, << bo, n_in >>), Reg(w, << bo, n_in >>))),
                  Let("y", MatMulNT(Move("x"), Move("w"))),
                  Do(Store(Move("y"), View(3, << first, rows >>, << 1, bo >>))) >>)

GatedNorm(tokens, v_heads, v_dim, out) ==
    LET rows(p) == View(p, << Plus(Scaled("token", v_heads, 0), "head", 1), Origin >>, << 1, v_dim >>)
        all == <<tokens * v_heads, v_dim>>
    IN Program("gated_norm",
               << Param("y", "F32", all, FALSE), Param("w", "F32", <<1, v_dim>>, FALSE),
                  Param("z", "F32", all, FALSE), Param("o", out, all, TRUE) >>,
               v_heads, "head", tokens, "token", <<>>,
               << Let("y", Load(rows(1), F32(1, v_dim))) >> \o InverseRms("y", v_dim)
                 \o << Let("y1", Binary("mul", Move("y"), Move("r"))),
                       Let("w", Load(Row(2, v_dim), F32(1, v_dim))),
                       Let("y2", Binary("mul", Move("y1"), Move("w"))),
                       Let("z", Load(rows(3), F32(1, v_dim))), Let("sz0", Unary("sigmoid", Borrow("z"))),
                       Let("sz", Binary("mul", Move("z"), Move("sz0"))),
                       Let("o", Binary("mul", Move("y2"), Move("sz"))) >>
                 \o Narrowed("o", out, rows(4)))

MulBuilds(n, chunk) == chunk > 0 /\ n % chunk = 0

MulOf(n, chunk, out) ==
    LET span(p) == View(p, << Origin, Scaled("pid", chunk, 0) >>, << 1, chunk >>)
    IN Program("mul",
               << Param("a", "F32", <<1, n>>, FALSE), Param("b", "F32", <<1, n>>, FALSE),
                  Param("y", out, <<1, n>>, TRUE) >>,
               n \div chunk, "pid", 1, "", <<>>,
               << Let("a", Load(span(1), F32(1, chunk))), Let("b", Load(span(2), F32(1, chunk))),
                  Let("y", Binary("mul", Move("a"), Move("b"))) >> \o Narrowed("y", out, span(3)))

(* copy_block: block `which` of src, in pieces that divide it.  Pieces are *)
(* of up to 4096 values; piece bounds that here.                           *)
Gcd(m, n) == CHOOSE k \in 1 .. m : /\ m % k = 0 /\ n % k = 0
                                  /\ \A l \in k + 1 .. m : m % l # 0 \/ n % l # 0
CopyBlockBuilds(blocks, rows, cols, which) == which < blocks /\ rows > 0 /\ cols > 0

CopyBlock(blocks, rows, cols, which, piece) ==
    LET chunk == Gcd(rows * cols, piece)
        pieces == (rows * cols) \div chunk
        at(p, base) == View(p, << Scaled("pid", 1, base), Origin >>, << 1, chunk >>)
    IN Program("copy_block",
               << Param("src", "F32", <<blocks * pieces, chunk>>, FALSE),
                  Param("dst", "F32", <<pieces, chunk>>, TRUE) >>,
               pieces, "pid", 1, "", <<>>,
               << Let("v", Load(at(1, which * pieces), F32(1, chunk))),
                  Do(Store(Move("v"), at(2, 0))) >>)
=============================================================================
