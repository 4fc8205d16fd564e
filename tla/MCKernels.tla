----------------------------- MODULE MCKernels -----------------------------
(***************************************************************************)
(* Kernels on every kernel the builders make, at the smallest sizes where  *)
(* each loop turns and each tile has rows and columns, with what they are  *)
(* to compute; and on the slips of a few of them, single edits at every    *)
(* statement.                                                              *)
(***************************************************************************)
EXTENDS KernelSpecs, Kernels, LxFiles, LxBuild, Checker, Lowering

MCHopper == [name |-> "small-gpu", simd |-> 32, threads |-> 1024, bytes |-> 227 * 1024, async |-> TRUE, split |-> TRUE]
\* Two simdgroups of two lanes.
MCDialect == [simd |-> 2, atom |-> 2, width |-> 2, shared |-> 48 * 1024]

\* The passes.  Each is a LET, which TLC's coverage does not unfold: unfolded
\* at every call they would not fit its memory.
MCCompiler(file, args) == LET c == CompileFile(file, args) IN c
MCJudge(prog, chip) == LET c == Check(prog, chip) IN c
MCInterpreter(prog, globals, scalars, unit, tys) == LET r == Run(prog, globals, scalars, unit, tys) IN r
MCGenerator(prog, globals, scalars, tys, chip, sched, unit, backwards) ==
    LET r == Lower(prog, globals, scalars, tys, chip, sched, unit, backwards) IN r

(* Values of no pattern; bytes are signed. *)
Noise(seed, n, dt) ==
    Vector(n, LAMBDA i : IF dt = "I8" THEN Number(((i * i * 37 + 11 * i + seed) % 256) - 128)
                         ELSE (i * i * 37 + 101 * i + 5 * seed * i + seed) % Modulus)
InputsOf(prog) ==
    [i \in DOMAIN prog.params |-> Noise(17 * i, Prod(prog.params[i].shape), prog.params[i].dt)]
Buffer(i) == "p" \o ToString(i)

\* One launch; wanted(in) is what it makes of its inputs: <<parameter, values>>.
OneOf(prog, scalars, in, wanted(_)) ==
    [launches |-> << [prog |-> prog, args |-> [i \in DOMAIN prog.params |-> Buffer(i)], scalars |-> scalars,
                      threads |-> 4] >>,
     buffers  |-> [b \in {Buffer(i) : i \in DOMAIN prog.params} |->
                      in[CHOOSE i \in DOMAIN prog.params : Buffer(i) = b]],
     wanted   |-> {<<Buffer(w[1]), w[2]>> : w \in wanted(in)}]
One(prog, scalars, wanted(_)) == OneOf(prog, scalars, InputsOf(prog), wanted)
\* A second launch over buffers of the first, and over one more, of n values.
Chain(first, prog, args, scalars, new, n, wanted) ==
    [launches |-> Append(first.launches, [prog |-> prog, args |-> args, scalars |-> scalars,
                                           threads |-> 4]),
     buffers  |-> IF n = 0 THEN first.buffers ELSE (new :> Noise(3, n, "F32")) @@ first.buffers,
     wanted   |-> wanted]
Before(case, i) == case.buffers[Buffer(i)]

(* Attention. *)
FC == [q_rows |-> 2, d |-> 2, seq |-> 4, bq |-> 1, bk |-> 2, stages |-> 1, dt |-> "F16",
       space |-> "reg", consumers |-> 0, heads |-> 2, cap |-> 0]
FPipe(stages) == [FC EXCEPT !.space = "tg", !.stages = stages, !.seq = 6]
FRoles(seq, heads) == [FC EXCEPT !.space = "tg", !.stages = 2, !.seq = seq, !.consumers = 2, !.heads = heads]
FSplit == [FC EXCEPT !.bq = 2, !.cap = 16, !.bk = 1]
Attention(c, n) == LET p == IF n = c.seq THEN FlashDecode(c) ELSE FlashDynamic(c)
                   IN One(p, IF n = c.seq THEN <<>> ELSE << n, (n + c.bk - 1) \div c.bk >>,
                          LAMBDA in : {<<4, DecodeAttention(c, in[1], in[2], in[3], n)>>})
Causal(c, tokens, tq, pos0) ==
    One(FlashCausal(c, tokens, tq), << pos0, (pos0 + tokens + c.bk - 1) \div c.bk >>,
        LAMBDA in : {<<4, CausalAttention(c, in[1], in[2], in[3], tokens, pos0)>>})
\* Stretches of two blocks, merged over those that hold the first n rows.
Merged(c, tokens, split, n, wanted) ==
    Chain(split, FlashCombine(c, tokens, 2), << "p4", "p5", "p6", "o" >>,
          << (n + 2 * c.bk - 1) \div (2 * c.bk), 1 >>, "o", tokens * c.heads * c.q_rows * c.d, wanted)
Split1(c, n) ==
    LET split == One(FlashSplit(c, 2), << n >>, LAMBDA in : {})
    IN Merged(c, 1, split, n, {<<"o", DecodeAttention(c, Before(split, 1), Before(split, 2), Before(split, 3), n)>>})
Split2(c, pos0) ==
    LET split == One(FlashCausalSplit(c, 2, 2), << pos0 >>, LAMBDA in : {})
    IN Merged(c, 2, split, pos0 + 2,
              {<<"o", CausalAttention(c, Before(split, 1), Before(split, 2), Before(split, 3), 2, pos0)>>})

(* Products with weights: repacked from the blocks of a file, or random.   *)
FileBlock(seed, n) ==
    [d |-> 3 * seed + 1, dmin |-> 5 * seed + 2, b |-> Vector(n, LAMBDA i : (i * i * 29 + 13 * i + 7 * seed) % 256)]
FileBlocks(n, bytes) == Vector(n, LAMBDA i : FileBlock(i + 1, bytes))
\* value(i): the file's own value i of the matrix.
FromFile(sp, t, n_in, n_out, bo, kc, value(_)) ==
    LET prog == MatMulQ(t, n_in, n_out, bo, kc, sp.layout, FALSE, "F32")
        x == Noise(5, t * n_in, "F32")
        w(o) == Vector(n_in, LAMBDA i : value(o * n_in + i))
    IN OneOf(prog, <<>>, << x >> \o WeightTensors(sp) \o << Noise(1, t * n_out, "F32") >>,
             LAMBDA in : {<<Len(prog.params), Projected(x, t, n_in, n_out, w)>>})
Q8File(n)   == LET k == FileBlocks(n, 34) IN
    FromFile(SplitQ8_0(k), 2, 64, n \div 2, 2, 32, LAMBDA i : GgmlQ8_0(k[(i \div 32) + 1], i % 32))
Q4File      == LET k == FileBlocks(2, 144) IN
    FromFile(SplitQ4_K(k), 1, 256, 2, 2, 256, LAMBDA i : GgmlQ4_K(k[(i \div 256) + 1], i % 256))
Q6File      == LET k == FileBlocks(2, 210) IN
    FromFile(SplitQ6_K(k), 1, 256, 2, 2, 256, LAMBDA i : GgmlQ6_K(k[(i \div 256) + 1], i % 256))
TritFile(trits) ==
    LET k == FileBlocks(4, 40)
        sp == SplitTernary(k, trits)
    IN FromFile(sp, 1, 256, 2, 2, 128, LAMBDA i : SplitDequant(sp, i))

Small == QLayout(2, 2, {"min", "packed4"}, "")
\* Row o of weights whose parameters are in[first] on, as the host reads them.
SmallRow(in, first, n_in, o) ==
    LET signed(v) == [i \in DOMAIN v |-> Signed(v[i])]
        sp == [layout |-> Small, q |-> signed(in[first]), qh |-> <<>>, sc |-> signed(in[first + 1]),
               d |-> in[first + 2], mn |-> signed(in[first + 3]), dmin |-> in[first + 4]]
    IN Vector(n_in, LAMBDA i : SplitDequant(sp, o * n_in + i))
Fp4Row(in, n_in, o) ==
    Vector(n_in, LAMBDA i :
        Times(E2m1(Nibble(Byte(in[2][(o * n_in + i) \div 2 + 1]), i % 2 = 1)),
              Times(E4m3(Byte(in[3][(o * n_in + i) \div 16 + 1])), in[4][o + 1])))
Residual == One(MatMulQ(2, 8, 4, 2, 4, Small, TRUE, "F32"), <<>>, LAMBDA in :
    LET y == Projected(in[1], 2, 8, 4, LAMBDA o : SmallRow(in, 2, 8, o))
    IN {<<8, [e \in DOMAIN y |-> Plus2(y[e], in[7][e])]>>})
Fp4 == One(MatMulQ(1, 32, 2, 2, 16, NVFP4, FALSE, "F16"), <<>>, LAMBDA in :
    {<<5, Projected(in[1], 1, 32, 2, LAMBDA o : Fp4Row(in, 32, o))>>})
RmsProduct == One(MatVecQRms(8, 4, 2, Small), <<>>, LAMBDA in :
    {<<8, Projected(Normalised(in[1], in[2]), 1, 8, 4, LAMBDA o : SmallRow(in, 3, 8, o))>>})
Glu(t, norm) == One(MatMulQGlu(t, 8, 4, 2, Small, norm), <<>>, LAMBDA in :
    LET p == IF norm THEN 3 ELSE 2
        x == IF norm THEN Normalised(in[1], in[2]) ELSE in[1]
        g == Projected(x, t, 8, 4, LAMBDA o : SmallRow(in, p, 8, o))
        u == Projected(x, t, 8, 4, LAMBDA o : SmallRow(in, p + 5, 8, o))
    IN {<<p + 10, [e \in DOMAIN g |-> Times(Silu(g[e]), u[e])]>>})
Dense(t, bo, dt) == One(MatVecDense(t, 4, 4, bo, "F16", dt), <<>>, LAMBDA in :
    {<<3, Projected(in[1], t, 4, 4, LAMBDA o : RowOf(in[2], o, 4))>>})

(* The rest of a layer. *)
Norms(pick, out) == One(RmsNormRows(2, 4, pick, out), <<>>, LAMBDA in :
    {<<3, RowsOf(IF pick > 0 THEN 1 ELSE 2, 4, LAMBDA i :
             Normalised(RowOf(in[1], IF pick > 0 THEN pick - 1 ELSE i, 4), in[2]))>>})
Norm == One(RmsNorm(4), <<>>, LAMBDA in : {<<3, Normalised(in[1], in[2])>>})
Roped(prog, tokens) ==
    LET x == Noise(1, tokens * 8, "F32")
        angles(s, t) == RowOf(Noise(s, tokens * 2, "F32"), t, 2)
        table(f(_)) == FlattenSeq([t \in 1 .. tokens |-> f(t - 1)])
    IN OneOf(prog, <<>>, << x, table(LAMBDA t : CosTable(angles(2, t))), table(LAMBDA t : SinTable(angles(3, t))),
                            Noise(4, tokens * 8, "F32") >>,
             LAMBDA in : {<<4, RowsOf(tokens * 2, 4, LAMBDA r :
                                  Rotated(RowOf(x, r, 4), angles(2, r \div 2), angles(3, r \div 2)))>>})
\* Head h's row at position pos0 + t; the rest of the cache stays.
Appended(prog, tokens, pos0) == One(prog, << pos0 >>, LAMBDA in :
    {<<2, RowsOf(8, 2, LAMBDA r :
             LET t == (r % 4) - pos0
             IN IF t \in 0 .. tokens - 1 THEN RowOf(in[1], t * 2 + (r \div 4), 2) ELSE RowOf(in[2], r, 2))>>})
Rotates2(inverse) == One(HadamardRotate(2, 8, 4, inverse), <<>>, LAMBDA in :
    LET signed(row) == [i \in 1 .. 8 |-> Times(row[i], in[2][i])]
    IN {<<3, RowsOf(2, 8, LAMBDA i : IF inverse THEN signed(Hadamard(RowOf(in[1], i, 8), 4))
                                    ELSE Hadamard(signed(RowOf(in[1], i, 8)), 4))>>})
EachOf(prog, f(_, _)) == One(prog, <<>>, LAMBDA in :
    {<<3, [e \in DOMAIN in[1] |-> f(in[1][e], in[2][e])]>>})

(* The gated delta layers. *)
DL == [v_heads |-> 2, k_heads |-> 1, k_dim |-> 2, v_dim |-> 2, rows |-> 1, v_base |-> 1, v_width |-> 5]
Delta(tokens, snap) == One(DeltaSteps(DL, tokens, snap), <<>>, LAMBDA in :
    {<<1, DeltaStateAfter(DL, in, tokens)>>, <<7, DeltaOutputs(DL, in, tokens)>>}
      \cup (IF snap /\ tokens > 1 THEN {<<8, DeltaSnaps(DL, in, tokens)>>} ELSE {}))
\* A batch of three rolled back to the state after the first `kept`.
DeltaBack(kept) ==
    LET batch == Delta(3, TRUE)
        in == [i \in 1 .. 6 |-> Before(batch, i)]
    IN Chain(batch, CopyBlock(3, 4, 2, kept - 1, 4), << "p8", "p1" >>, <<>>, "", 0,
             {<<"p1", DeltaStateAfter(DL, in, kept)>>})
Conv(tokens, snap) == One(ConvSilu(tokens, 4, 3, 2, snap), <<>>, LAMBDA in :
    {<<1, ConvWindow(in, tokens, 4, 3)>>, <<4, ConvOutputs(in, tokens, 4, 3)>>}
      \cup (IF snap THEN {<<5, ConvSnaps(in, tokens, 4, 3)>>} ELSE {}))
ConvBack(kept) ==
    LET batch == Conv(3, TRUE)
    IN Chain(batch, CopyBlock(3, 2, 4, kept - 1, 3), << "p5", "p1" >>, <<>>, "", 0,
             {<<"p1", ConvWindow([i \in 1 .. 3 |-> Before(batch, i)], kept, 4, 3)>>})
Gates(tokens) == One(DeltaGates(tokens, 2, 2), <<>>, LAMBDA in :
    LET g(r) == Expo(Times(Times(Apply1("softplus", Plus2(in[1][r], in[4][((r - 1) % 2) + 1])), in[3][((r - 1) % 2) + 1]),
                           Number(-1)))
        spread(f(_)) == RowsOf(tokens * 2, 2, LAMBDA i : << f(i + 1), f(i + 1) >>)
    IN {<<5, spread(g)>>, <<6, spread(LAMBDA r : Apply1("sigmoid", in[2][r]))>>})
QkRoped(rot, gate, out) == One(QkRope(2, 2, 4, rot, gate, out), <<>>, LAMBDA in :
    LET width == IF gate THEN 8 ELSE 4
        x(r) == SubSeq(in[1], r * width + 1, r * width + 4)
        half == rot \div 2
    IN {<<5, RowsOf(4, 4, LAMBDA r : HalfRotated(Normalised(x(r), in[2]), rot, RowOf(in[3], r \div 2, half),
                                                 RowOf(in[4], r \div 2, half)))>>}
         \cup (IF gate THEN {<<6, RowsOf(4, 4, LAMBDA r :
                                     [i \in 1 .. 4 |-> Apply1("sigmoid", in[1][r * width + 4 + i])])>>} ELSE {}))
\* Two value heads per key head: head c of a group reads the group's key.
Qk(tokens, k_heads, tiled) == One(DeltaQk(tokens, k_heads, 2, 2, 5, 1, tiled), <<>>, LAMBDA in :
    {<<2, RowsOf(tokens * k_heads * 2, 2, LAMBDA r :
             LET i == r % (k_heads * 2)
                 h == IF tiled THEN i % k_heads ELSE i \div 2
                 row == RowOf(RowOf(in[1], r \div (k_heads * 2), 5), 0, 5)
                 key == SubSeq(row, 1 + h * 2 + 1, 1 + h * 2 + 2)
             IN [j \in 1 .. 2 |-> Times(Times(key[j], RmsOf(key)), QkScale)])>>})
Gated == One(GatedNorm(2, 2, 4, "F16"), <<>>, LAMBDA in :
    {<<4, RowsOf(4, 4, LAMBDA r : LET y == Normalised(RowOf(in[1], r, 4), in[2])
                                  IN [i \in 1 .. 4 |-> Times(y[i], Silu(RowOf(in[3], r, 4)[i]))])>>})

(* Kernels in the surface language: the algorithm of a file with schedules *)
(* for this machine and, of the norm, also with those of the file.         *)
Resized(toks, from, to) == [i \in DOMAIN toks |-> IF toks[i] = from THEN to ELSE toks[i]]
ScheduleFor(name, target, keys) == << "schedule", name, "for" >> \o target \o << "{" >> \o keys \o << "}" >>
SmallGpu == << "small", "-", "gpu" >>
\* params: <<dtype, elements>> of each parameter.
Surface(toks, consts, params, wanted(_)) ==
    LET in == [i \in DOMAIN params |-> Noise(17 * i, params[i][2], params[i][1])]
    IN [launches |-> << [toks |-> toks, consts |-> consts, args |-> [i \in DOMAIN params |-> Buffer(i)],
                         scalars |-> <<>>] >>,
        buffers  |-> [b \in {Buffer(i) : i \in DOMAIN params} |->
                         in[CHOOSE i \in DOMAIN params : Buffer(i) = b]],
        wanted   |-> {<<Buffer(w[1]), w[2]>> : w \in wanted(in)}]
LxNorm ==
    Surface(RmsNormLx \o ScheduleFor("rmsnorm", << "apple", "-", "m", "-", "series" >>, << "threads", "256" >>)
                      \o ScheduleFor("rmsnorm", SmallGpu, << "threads", "4" >>),
            [n |-> 4, eps |-> Eps], << <<"F32", 4>>, <<"F32", 4>>, <<"F32", 4>> >>,
            LAMBDA in : {<<3, Normalised(in[1], in[2])>>})
LxSilu ==
    Surface(Resized(SiluMulLx, "16384", "8")
              \o ScheduleFor("silu_mul_16384_f32", SmallGpu, << "threads", "4", ",", "chunk", "4" >>),
            <<>>, << <<"F32", 8>>, <<"F32", 8>>, <<"F32", 8>> >>,
            LAMBDA in : {<<3, [e \in 1 .. 8 |-> Times(Silu(in[1][e]), in[2][e])]>>})
Tiled(threads, bm, bn, bk) == << "threads", threads, "bm", bm, "bn", bn, "bk", bk >>
LxGemm(toks, name, keys, m, n, k) ==
    Surface(toks \o ScheduleFor(name, SmallGpu, keys), [m |-> m, n |-> n, k |-> k],
            << <<"F16", m * k>>, <<"F16", n * k>>, <<"F32", m * n>> >>,
            LAMBDA in : {<<3, Projected(in[1], m, k, n, LAMBDA o : RowOf(in[2], o, k))>>})
LxFp4 ==
    Surface(GemmFp4ResLx \o ScheduleFor("gemm_fp4_res", SmallGpu,
                                << "warps", "1", "2", "pad", "2" >> \o Tiled("4", "2", "4", "16")),
            [m |-> 2, n |-> 4, k |-> 32],
            << <<"F16", 64>>, <<"I8", 64>>, <<"I8", 8>>, <<"F32", 4>>, <<"F32", 8>>, <<"F32", 8>> >>,
            LAMBDA in : LET y == Projected(in[1], 2, 32, 4, LAMBDA o : Fp4Row(in, 32, o))
                        IN {<<6, [e \in DOMAIN y |-> Plus2(y[e], in[5][e])]>>})
\* Sums and products, grouped as they are read.
LxSums ==
    Surface(<< "algo", "sums", "in", "x", ":", "f32", "[", "2", ",", "2", "]",
               "in", "w", ":", "f32", "[", "2", ",", "2", "]", "out", "y", ":", "f32", "[", "2", ",", "2", "]", "{",
               "let", "x", "=", "load", "x", "let", "w", "=", "load", "w",
               "let", "d", "=", "&", "x", "-", "&", "w", "*", "2", "-", "(", "&", "w", "-", "3", ")",
               "let", "q", "=", "&", "w", "/", "5", "/", "7", "*", "(", "2", "-", "4", "-", "6", ")",
               "let", "m", "=", "rowmax", "&", "x", "let", "s", "=", "x", "*", "m",
               "store", "d", "+", "matmul", "w", "s", "-", "q", "->", "y", "}" >>
              \o ScheduleFor("sums", SmallGpu, << "threads", "4" >>),
            <<>>, << <<"F32", 4>>, <<"F32", 4>>, <<"F32", 4>> >>,
            LAMBDA in :
                LET x == in[1]
                    w == in[2]
                    \* Row r of x times its largest.
                    s(e) == Times(x[e], Greater(x[IF e > 2 THEN 3 ELSE 1], x[IF e > 2 THEN 4 ELSE 2]))
                    product(r, c) == Plus2(Times(w[2 * r + 1], s(c)), Times(w[2 * r + 2], s(2 + c)))
                    y(e) == Minus(Plus2(Minus(Minus(x[e], Times(w[e], 2)), Minus(w[e], 3)),
                                        product((e - 1) \div 2, 2 - (e % 2))),
                                  Times(Over(Over(w[e], 5), 7), Number(-8)))
                IN {<<3, [e \in 1 .. 4 |-> y(e)]>>})

Cases == {"lx norm", "lx silu", "lx gemm", "lx gemm mma", "lx fp4", "lx sums", "flash", "flash ring 2", "flash ring 3", "flash roles", "flash dynamic",
          "causal blocks", "causal", "split", "causal split", "q8_0", "q4_k", "q6_k",
          "ternary slots2", "ternary dense", "residual", "nvfp4", "rms product", "glu",
          "rms glu", "dense", "dense batch", "rmsnorm rows", "rmsnorm picked", "rmsnorm",
          "rope rows", "rope", "kv rows", "kv", "rotate", "rotate back", "silu mul",
          "mul", "delta", "delta one", "delta back 1", "delta back 2", "conv",
          "conv back 1", "conv back 3", "gates batch", "gates", "qk rope gated",
          "qk rope", "qk tiled", "qk grouped", "gated norm"}
CaseOf(id) ==
    CASE id = "lx norm"        -> LxNorm
      [] id = "lx silu"        -> LxSilu
      [] id = "lx gemm"        -> LxGemm(GemmLx, "gemm", Tiled("4", "2", "2", "2"), 2, 4, 4)
      [] id = "lx gemm mma"    ->
             LxGemm(GemmMmaLx, "gemm_mma", << "warps", "1", "2" >> \o Tiled("4", "2", "4", "2"), 4, 4, 4)
      [] id = "lx fp4"         -> LxFp4
      [] id = "lx sums"        -> LxSums
      [] id = "flash"          -> Attention(FC, 4)
      [] id = "flash ring 2"   -> Attention(FPipe(2), 6)
      [] id = "flash ring 3"   -> Attention(FPipe(3), 6)
      [] id = "flash roles"    -> Attention(FRoles(6, 2), 6)
      [] id = "flash dynamic"  -> Attention([FC EXCEPT !.cap = 8], 5)
      [] id = "causal blocks"  -> Causal([FSplit EXCEPT !.cap = 8, !.bk = 2], 2, 1, 3)
      [] id = "causal"         -> Causal([FSplit EXCEPT !.cap = 8, !.bk = 2], 2, 2, 3)
      [] id = "split"          -> Split1(FSplit, 5)
      [] id = "causal split"   -> Split2(FSplit, 3)
      [] id = "q8_0"           -> Q8File(4)
      [] id = "q4_k"           -> Q4File
      [] id = "q6_k"           -> Q6File
      [] id = "ternary slots2" -> TritFile("slots2")
      [] id = "ternary dense"  -> TritFile("dense")
      [] id = "residual"       -> Residual
      [] id = "nvfp4"          -> Fp4
      [] id = "rms product"    -> RmsProduct
      [] id = "glu"            -> Glu(2, FALSE)
      [] id = "rms glu"        -> Glu(1, TRUE)
      [] id = "dense"          -> Dense(1, 2, "F32")
      [] id = "dense batch"    -> Dense(2, 2, "F16")
      [] id = "rmsnorm rows"   -> Norms(0, "F32")
      [] id = "rmsnorm picked" -> Norms(2, "F16")
      [] id = "rmsnorm"        -> Norm
      [] id = "rope rows"      -> Roped(RopeRows(2, 2, 4, "F16"), 2)
      [] id = "rope"           -> Roped(Rope(2, 4, "F32"), 1)
      [] id = "kv rows"        -> Appended(KvAppendRows(2, 2, 2, 4, "F32"), 2, 1)
      [] id = "kv"             -> Appended(KvAppend(2, 2, 4, "F16"), 1, 3)
      [] id = "rotate"         -> Rotates2(FALSE)
      [] id = "rotate back"    -> Rotates2(TRUE)
      [] id = "silu mul"       -> EachOf(SiluMul(8, 4, "F16"), LAMBDA g, u : Times(Silu(g), u))
      [] id = "mul"            -> EachOf(MulOf(8, 4, "F16"), Times)
      [] id = "delta"          -> Delta(3, FALSE)
      [] id = "delta one"      -> Delta(1, TRUE)
      [] id = "delta back 1"   -> DeltaBack(1)
      [] id = "delta back 2"   -> DeltaBack(2)
      [] id = "conv"           -> Conv(1, FALSE)
      [] id = "conv back 1"    -> ConvBack(1)
      [] id = "conv back 3"    -> ConvBack(3)
      [] id = "gates batch"    -> Gates(2)
      [] id = "gates"          -> Gates(1)
      [] id = "qk rope gated"  -> QkRoped(2, TRUE, "F16")
      [] id = "qk rope"        -> QkRoped(4, FALSE, "F32")
      [] id = "qk tiled"       -> Qk(1, 2, TRUE)
      [] id = "qk grouped"     -> Qk(2, 2, FALSE)
      [] id = "gated norm"     -> Gated

(* The builders return programs for these arguments, and not an error.     *)
ASSUME CasesBuild ==
    LET causal == [FSplit EXCEPT !.cap = 8, !.bk = 2]
    IN /\ \A c \in {FC, FPipe(2), FPipe(3), FRoles(6, 2)} : Builds(c)
       /\ BuildsDynamic([FC EXCEPT !.cap = 8])
       /\ \A tq \in {1, 2} : BuildsCausal(causal, 2, tq)
       /\ \A tokens \in {1, 2} : BuildsSplit(FSplit, tokens, 2)
       /\ BuildsCombine(FSplit, 2)
       /\ ShapeFits(64, 2, 2, 32, Q8_0) /\ ShapeFits(256, 2, 2, 256, Q4_K) /\ ShapeFits(256, 2, 2, 256, Q6_K)
       /\ \A trits \in {"slots2", "dense"} : ShapeFits(256, 2, 2, 128, TernaryOf(trits))
       /\ ShapeFits(8, 4, 2, 4, Small) /\ ShapeFits(32, 2, 2, 16, NVFP4) /\ ShapeFits(8, 4, 2, 8, Small)
       /\ GluBuilds(2, 8, 4, 2, Small, FALSE) /\ GluBuilds(1, 8, 4, 2, Small, TRUE)
       /\ MatVecDenseBuilds(4, 2) /\ Rotates(8, 4) /\ SiluMulBuilds(8, 4) /\ MulBuilds(8, 4)
       /\ \A tokens \in {1, 3} : DeltaBuilds(DL, tokens)
       /\ ConvBuilds(4, 3, 2)
       /\ \A which \in 0 .. 1 : CopyBlockBuilds(3, 4, 2, which)
       /\ \A which \in {0, 2} : CopyBlockBuilds(3, 2, 4, which)
       /\ \A rot \in {2, 4} : QkRopeBuilds(4, rot)
       /\ DeltaQkBuilds(2, 2, 2, 5, 1)

(* Slips.  One edit of one statement, found at a path: its place in the    *)
(* body, in the body of that statement, and so on; of a region of roles,   *)
(* the role comes between.  A slip is <<path, kind, field>>.               *)
OperandFields == {"a", "b", "c", "q", "sc", "lo", "hi", "gs"}
Bodies(st) ==
    CASE st.s \in {"for", "map"} -> << st.body >>
      [] st.s = "roles"          -> [r \in DOMAIN st.roles |-> st.roles[r].body]
      [] OTHER                   -> <<>>
DefBefore(b, i) == i > 1 /\ b.stmts[i - 1].s = "let" /\ b.stmts[i - 1].dst # ""
SlipsAt(b, i) ==
    LET st == b.stmts[i]
        held(f) == f \in DOMAIN st.op /\ st.op[f].m \in {"move", "borrow"}
    IN (IF i < Len(b.stmts) THEN {<<"swap", "">>} ELSE {}) \cup
       CASE st.s = "let" ->
               {<<"omit", "">>}
                 \cup (IF st.dst = "" THEN {<<"twice", "">>} ELSE {})
                 \cup {<<"mode", f>> : f \in {f \in OperandFields : held(f)}}
                 \cup (IF DefBefore(b, i) THEN {<<"other", f>> : f \in {f \in OperandFields : held(f)}} ELSE {})
                 \cup (IF "view" \in DOMAIN st.op THEN {<<"next row", "">>, <<"next tensor", "">>} ELSE {})
                 \cup (IF st.op.o \in {"load", "alloc"} THEN {<<"wider", "">>, <<"moved in", "">>} ELSE {})
         [] st.s = "for" -> {<<"longer", "">>, <<"shorter", "">>, <<"yields", "">>, <<"raised", "">>}
                              \cup (IF i < Len(b.stmts) /\ Last(b.stmts).s = "let" THEN {<<"sunk", "">>} ELSE {})
         [] OTHER        -> {}
Slip(b, i, slip) ==
    LET st == b.stmts[i]
        with(new) == [b EXCEPT !.stmts[i] = new]
        space(t) == [t EXCEPT !.space = IF @ = "reg" THEN "tg" ELSE "reg"]
    IN CASE slip[1] = "omit"    -> [b EXCEPT !.stmts = SubSeq(@, 1, i - 1) \o SubSeq(@, i + 1, Len(@))]
         [] slip[1] = "twice"   -> [b EXCEPT !.stmts = SubSeq(@, 1, i) \o SubSeq(@, i, Len(@))]
         [] slip[1] = "swap"    -> [b EXCEPT !.stmts[i] = b.stmts[i + 1], !.stmts[i + 1] = st]
         [] slip[1] = "mode"    -> with([st EXCEPT !.op[slip[2]].m = IF @ = "move" THEN "borrow" ELSE "move"])
         [] slip[1] = "other"   -> with([st EXCEPT !.op[slip[2]].v = b.stmts[i - 1].dst])
         [] slip[1] = "next row"    -> with([st EXCEPT !.op.view.off[1].c = @ + 1])
         [] slip[1] = "next tensor" -> with([st EXCEPT !.op.view.param = @ + 1])
         [] slip[1] = "wider"   -> with([st EXCEPT !.op.ty.dt = IF @ = "F16" THEN "F32" ELSE "F16"])
         [] slip[1] = "moved in"    -> with([st EXCEPT !.op.ty = space(@)])
         [] slip[1] = "longer"  -> with([st EXCEPT !.end = @ + 1])
         [] slip[1] = "shorter" -> with([st EXCEPT !.end = @ - 1])
         \* The block's last statement goes into the loop, or the loop's out of it.
         [] slip[1] = "sunk"    -> [b EXCEPT !.stmts = Front(@),
                                             !.stmts[i].body.stmts = Append(@, Last(b.stmts))]
         [] slip[1] = "raised"  -> [b EXCEPT !.stmts = InsertAt(@, i + 1, Last(st.body.stmts)),
                                             !.stmts[i].body.stmts = Front(@)]
         [] slip[1] = "yields"  -> with([st EXCEPT !.body.yields = Reverse(@)])

RECURSIVE SlipsIn(_)
SlipsIn(b) ==
    UNION {{<<<<i>>, k[1], k[2]>> : k \in SlipsAt(b, i)}
             \cup UNION {{<< <<i, n>> \o k[1], k[2], k[3] >> : k \in SlipsIn(Bodies(b.stmts[i])[n])}
                            : n \in DOMAIN Bodies(b.stmts[i])}
             : i \in DOMAIN b.stmts}
RECURSIVE Edited(_, _, _)
Edited(b, path, slip) ==
    LET i == Head(path)
        body(n) == Edited(Bodies(b.stmts[i])[n], SubSeq(path, 3, Len(path)), slip)
    IN IF Len(path) = 1 THEN Slip(b, i, slip)
       ELSE IF b.stmts[i].s = "roles" THEN [b EXCEPT !.stmts[i].roles[path[2]].body = body(path[2])]
       ELSE [b EXCEPT !.stmts[i].body = body(1)]
\* Of a text: a token left out, or put after the next one.
TokenSlips(toks) ==
    {<<i, "left out">> : i \in DOMAIN toks} \cup {<<i, "late">> : i \in 1 .. Len(toks) - 1}
Mistyped(toks, slip) ==
    LET i == slip[1]
    IN IF slip[2] = "left out" THEN SubSeq(toks, 1, i - 1) \o SubSeq(toks, i + 1, Len(toks))
       ELSE [toks EXCEPT ![i] = toks[i + 1], ![i + 1] = toks[i]]
\* A slip is made in the first kernel of a chain.
WithSlip(launches, slip) ==
    IF slip = <<>> THEN launches
    ELSE IF "toks" \in DOMAIN launches[1] THEN [launches EXCEPT ![1].toks = Mistyped(@, slip)]
    ELSE [launches EXCEPT ![1].prog.body = Edited(@, slip[1], <<slip[2], slip[3]>>)]
Slipped == {"flash ring 2", "flash roles", "causal", "causal split", "residual", "delta", "conv",
            "qk rope gated", "rotate", "dense batch"}
Mistypable == {"lx norm", "lx gemm", "lx gemm mma"}

MCTaskOf(j) ==
    LET case == CaseOf(j.id)
    IN [case EXCEPT !.launches = WithSlip(@, j.slip), !.wanted = IF j.unit = 1 THEN @ ELSE {}]
SlipsOf(launch) ==
    IF "toks" \in DOMAIN launch THEN TokenSlips(launch.toks) ELSE SlipsIn(launch.prog.body)
MCJobs ==
    [id : Cases, unit : {1, 2}, backwards : {TRUE}, slip : {<<>>}]
      \cup UNION {[id : {c}, unit : {2}, backwards : {FALSE}, slip : SlipsOf(CaseOf(c).launches[1])]
                     : c \in Slipped \cup Mistypable}
=============================================================================
