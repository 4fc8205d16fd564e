---------------------------- MODULE FlashKernels ----------------------------
(***************************************************************************)
(* The attention kernels of lex-front/flash.rs, as programs of the kernel  *)
(* language.  A configuration c is the record FlashDecode:                 *)
(*   [q_rows, d, seq, bq, bk, stages, dt, space, consumers, heads, cap]    *)
(* Variables are named with a tag that tells apart the places a piece of   *)
(* kernel is built at.                                                     *)
(***************************************************************************)
EXTENDS KernelIR, Arith

NQb(c)    == c.q_rows \div c.bq
NKb(c)    == c.seq \div c.bk
KvRows(c) == IF c.cap = 0 THEN c.seq ELSE c.cap
KvTile(c) == TileTy(c.dt, <<c.bk, c.d>>, c.space)
CombineChunk == 8

\* 1 / sqrt(d), some number.
InverseRoot(d) == Number(7 * d + 3)

MTy(c)   == Reg("F32", <<c.bq>>)
AccTy(c) == Reg("F32", <<c.bq, c.d>>)
Softmax(c) == <<Tile(MTy(c)), Tile(MTy(c)), Tile(AccTy(c))>>
Carried(c, n) == <<ArrayOf(MTy(c), n), ArrayOf(MTy(c), n), ArrayOf(AccTy(c), n)>>
State3(tag) == << "ms" \o tag, "ls" \o tag, "accs" \o tag >>

Rows(param, start, n, d) == View(param, <<start, Lit(0)>>, <<n, d>>)

(* The online softmax: one block of keys against every block of queries.   *)
(* mask is <<>>, or the first column of the block and what limits it; the  *)
(* index of the query block is "qb" \o tag.                                *)
Attend(c, tag, qs, k, v, state, mask) ==
    LET n(name) == name \o tag
        scores ==
            << Let(n("s0"), MatMulNT(Elem(qs, n("qb")), k)),
               Let(n("s1"), Scale(Move(n("s0")), InverseRoot(c.d))) >>
        masked == IF mask = <<>> THEN <<>>
                  ELSE << Let(n("s2"), MaskCols(Move(n("s1")), mask[1], mask[2])) >>
        sc == IF mask = <<>> THEN n("s1") ELSE n("s2")
        update ==
            << Let(n("mb"), RowReduce("max", Borrow(sc))),
               Let(n("mnew"), Binary("max", Borrow(n("m")), Move(n("mb")))),
               Let(n("dm"), Binary("sub", Move(n("m")), Borrow(n("mnew")))),
               Let(n("alpha"), Unary("exp", Move(n("dm")))),
               Let(n("s3"), Binary("sub", Move(sc), Borrow(n("mnew")))),
               Let(n("p"), Unary("exp", Move(n("s3")))),
               Let(n("ps"), RowReduce("sum", Borrow(n("p")))),
               Let(n("l1"), Binary("mul", Move(n("l")), Borrow(n("alpha")))),
               Let(n("l2"), Binary("add", Move(n("l1")), Move(n("ps")))),
               Let(n("pv"), MatMul(Move(n("p")), v)),
               Let(n("acc1"), Binary("mul", Move(n("acc")), Move(n("alpha")))),
               Let(n("acc2"), Binary("add", Move(n("acc1")), Move(n("pv")))) >>
    IN MapEach(n("qb"), state, << n("m"), n("l"), n("acc") >>, Softmax(c),
               Block(scores \o masked \o update, << n("mnew"), n("l2"), n("acc2") >>),
               State3("'" \o tag))

\* What Attend leaves: the state it was called with, primed by its tag.
After(tag) == State3("'" \o tag)

\* Load n blocks of queries from row q0, and start the softmax of each at m0.
SetupFrom(c, tag, pq, q0, n, strides, m0) ==
    LET name(v, i) == v \o tag \o ToString(i)
        each(v, op(_)) == [i \in 1 .. n |-> Let(name(v, i), op(i))]
        packed(v, whole) == << Let(whole, MakeArray([i \in 1 .. n |-> name(v, i)])) >>
        query(i) == Load(Rows(pq, Plus(Shift(q0, (i - 1) * strides[1]), "pid", strides[2]),
                              c.bq, c.d), Reg(c.dt, <<c.bq, c.d>>))
    IN each("q", query) \o packed("q", "qs" \o tag)
         \o each("m", LAMBDA i : Fill(MTy(c), m0)) \o packed("m", "ms" \o tag)
         \o each("l", LAMBDA i : Fill(MTy(c), 0)) \o packed("l", "ls" \o tag)
         \o each("acc", LAMBDA i : Fill(AccTy(c), 0)) \o packed("acc", "accs" \o tag)
Setup(c, tag, pq, q0, n, strides) == SetupFrom(c, tag, pq, q0, n, strides, NegInf)

\* a mutant
FinishKeeping(c, tag, po, q0, qs, state, strides) ==
    LET n(name) == name \o tag
        at == Plus(Plus(q0, n("fq"), strides[1]), "pid", strides[2])
    IN << MapEach(n("fq"), state, << n("fm"), n("fl"), n("facc") >>, Softmax(c),
              Block(<< Let(n("o"), Binary("div", Move(n("facc")), Borrow(n("fl")))),
                       Do(DropOf(n("fm"))),
                       Do(Store(Move(n("o")), Rows(po, at, c.bq, c.d))) >>, <<>>), <<>>),
          Do(DropOf(qs)) >>

\* o = acc / l, and the queries are released.
Finish(c, tag, po, q0, qs, state, strides) ==
    LET n(name) == name \o tag
        at == Plus(Plus(q0, n("fq"), strides[1]), "pid", strides[2])
    IN << MapEach(n("fq"), state, << n("fm"), n("fl"), n("facc") >>, Softmax(c),
              Block(<< Let(n("o"), Binary("div", Move(n("facc")), Move(n("fl")))),
                       Do(DropOf(n("fm"))),
                       Do(Store(Move(n("o")), Rows(po, at, c.bq, c.d))) >>, <<>>), <<>>),
          Do(DropOf(qs)) >>

\* Load a block of keys and one of values at row `at`, attend, drop both.
LoadAttend(c, pk, at, state, mask) ==
    << Let("k", Load(Rows(pk, at, c.bk, c.d), KvTile(c))),
       Let("v", Load(Rows(pk + 1, at, c.bk, c.d), KvTile(c))),
       Attend(c, "", "qs", Borrow("k"), Borrow("v"), state, mask),
       Do(DropOf("k")), Do(DropOf("v")) >>

QkvoParams(c, q, kv) ==
    << Param("q", c.dt, <<q, c.d>>, FALSE), Param("k", c.dt, <<kv, c.d>>, FALSE),
       Param("v", c.dt, <<kv, c.d>>, FALSE), Param("o", "F32", <<q, c.d>>, TRUE) >>

(* build: a fixed length.  The loop is synchronous, pipelined, or split    *)
(* into a producer and consumers.                                          *)
Builds(c) ==
    /\ c.bq > 0 /\ c.bk > 0 /\ c.stages > 0 /\ c.heads > 0
    /\ c.q_rows % c.bq = 0 /\ c.seq % c.bk = 0
    /\ c.space # "tg" => c.stages = 1
    /\ NKb(c) >= c.stages - 1
    /\ KvRows(c) >= c.seq
    /\ c.consumers > 0 => c.space = "tg" /\ NQb(c) % c.consumers = 0

Synchronous(c) ==
    << ForRange("i", 0, NKb(c), State3(""), State3("in"), Carried(c, NQb(c)),
           Block(LoadAttend(c, 2, Plus(Scaled("i", c.bk, 0), "pid", KvRows(c)),
                            State3("in"), <<>>), After("")),
           State3("out")) >>

\* stages buffers per operand rotate: futures oldest first, then the free one.
Pipelined(c) ==
    LET ahead == c.stages - 1
        kv == KvTile(c)
        ix == [j \in 1 .. ahead |-> j]
        at(j) == Plus(Lit((j - 1) * c.bk), "pid", KvRows(c))
        queue(v, tag) == [j \in 1 .. ahead |-> v \o tag \o ToString(j)]
        operand(v, tag) == Append(queue(v, tag), v \o tag \o "free")
        state(tag) == State3(tag) \o operand("k", tag) \o operand("v", tag)
        prologue(v, param) ==
            FlattenSeq([j \in 1 .. ahead |->
                << Let(v \o "buf" \o ToString(j), Alloc(kv)),
                   Let(v \o ToString(j),
                       CopyAsync(Rows(param, at(j), c.bk, c.d), v \o "buf" \o ToString(j))) >>])
              \o << Let(v \o "free", Alloc(kv)) >>
        pipe == [j \in 1 .. ahead |-> Future(kv)] \o << Tile(kv) >>
        next == Plus(Scaled("i", c.bk, ahead * c.bk), "pid", KvRows(c))
        issue(v, param) == Let(v \o "new", CopyAsync(Rows(param, next, c.bk, c.d), v \o "infree"))
        waiting(v) == Append(queue(v, "in"), v \o "new")
        body == << issue("k", 2), issue("v", 3),
                   Let("kcur", Wait(Head(waiting("k")))), Let("vcur", Wait(Head(waiting("v")))),
                   Attend(c, "", "qs", Borrow("kcur"), Borrow("vcur"), State3("in"), <<>>) >>
        yields == After("") \o Append(Tail(waiting("k")), "kcur")
                    \o Append(Tail(waiting("v")), "vcur")
        drain(j) ==
            LET tag == "e" \o ToString(j)
            IN << Let("k" \o tag, Wait(queue("k", "out")[j])),
                  Let("v" \o tag, Wait(queue("v", "out")[j])),
                  Attend(c, tag, "qs", Borrow("k" \o tag), Borrow("v" \o tag),
                         IF j = 1 THEN State3("out") ELSE After("e" \o ToString(j - 1)), <<>>),
                  Do(DropOf("k" \o tag)), Do(DropOf("v" \o tag)) >>
    IN prologue("k", 2) \o prologue("v", 3)
         \o << ForRange("i", 0, NKb(c) - ahead, state(""), state("in"),
                        Carried(c, NQb(c)) \o pipe \o pipe, Block(body, yields), state("out")) >>
         \o FlattenSeq([j \in 1 .. ahead |-> drain(j)])
         \o << Do(DropOf("koutfree")), Do(DropOf("voutfree")) >>

\* Where the softmax state is after the loop.
Final(c) == IF c.space = "tg" /\ c.stages > 1 THEN After("e" \o ToString(c.stages - 1))
            ELSE State3("out")

Specialized(c) ==
    LET per == NQb(c) \div c.consumers
        pipe == PipeTy("pipe", <<KvTile(c), KvTile(c)>>, c.stages, c.consumers)
        at == Plus(Scaled("i", c.bk, 0), "pid", KvRows(c))
        producer ==
            RoleOf(1, <<"pipe">>, <<"ph">>, <<ProducerTy(pipe)>>,
                Block(<< ForRange("i", 0, NKb(c), <<>>, <<>>, <<>>,
                    Block(<< Let("slot", Acquire("ph")),
                             Do(Commit("ph", << Rows(2, at, c.bk, c.d), Rows(3, at, c.bk, c.d) >>,
                                       "slot")) >>, <<>>), <<>>) >>, <<>>), <<>>)
        consumer(k) ==
            LET n(name) == name \o ToString(k)
                q0 == Lit((k - 1) * per * c.bq)
                strides == <<c.bq, c.q_rows>>
                state == State3(n("in"))
                body == << Let(n("kv"), Receive(n("h"))),
                           Attend(c, n(""), n("qs"), Part(n("kv"), 1), Part(n("kv"), 2), state, <<>>),
                           Do(Release(n("h"), n("kv"))) >>
            IN RoleOf(4, <<n("c")>>, <<n("h")>>, <<ConsumerTy(pipe, k)>>,
                Block(Setup(c, n(""), 1, q0, per, strides)
                        \o << ForRange(n("j"), 0, NKb(c), State3(n("")), state, Carried(c, per),
                                       Block(body, After(n(""))), State3(n("out"))) >>
                        \o Finish(c, n(""), 4, q0, n("qs"), State3(n("out")), strides), <<>>), <<>>)
    IN << Specialize(<< PipeDecl(pipe, [k \in 1 .. c.consumers |-> "c" \o ToString(k)]) >>,
                     << producer >> \o [k \in 1 .. c.consumers |-> consumer(k)]) >>

FlashDecode(c) ==
    LET strides == <<c.bq, c.q_rows>>
        body == IF c.consumers > 0 THEN Specialized(c)
                ELSE Setup(c, "", 1, Lit(0), NQb(c), strides)
                       \o (IF c.space # "tg" THEN Synchronous(c) ELSE Pipelined(c))
                       \o Finish(c, "", 4, Lit(0), "qs", Final(c), strides)
    IN Program("flash_decode", QkvoParams(c, c.heads * c.q_rows, c.heads * KvRows(c)),
               c.heads, "pid", 1, "", <<>>, body)

(* build_dynamic: the length is a scalar, and the last block is masked. *)
BuildsDynamic(c) ==
    /\ c.bq > 0 /\ c.bk > 0 /\ c.q_rows % c.bq = 0
    /\ c.consumers = 0 /\ c.heads > 0 /\ KvRows(c) % c.bk = 0

\* The blocks of the cache up to the scalar nkb, masked at what limit says.
DynLoop(c, n, limit) ==
    ForRangeDyn("i", 0, KvRows(c) \div c.bk, "nkb", State3(""), State3("in"), Carried(c, n),
        Block(LoadAttend(c, 2, Plus(Scaled("i", c.bk, 0), "pid", KvRows(c)), State3("in"),
                         << Scaled("i", c.bk, 0), limit >>), After("")),
        State3("out"))

FlashDynamic(c) ==
    LET strides == <<c.bq, c.q_rows>>
        cap == KvRows(c)
    IN Program("flash_decode_dyn", QkvoParams(c, c.heads * c.q_rows, c.heads * cap),
               c.heads, "pid", 1, "", << <<"len", cap>>, <<"nkb", cap \div c.bk>> >>,
               Setup(c, "", 1, Lit(0), NQb(c), strides)
                 \o << DynLoop(c, NQb(c), Scaled("len", 1, 0)) >>
                 \o Finish(c, "", 4, Lit(0), "qs", State3("out"), strides))

(* build_causal_blocks: query block qb is one token's heads, at its own    *)
(* position; tq < tokens puts blocks of tokens on a second grid dimension. *)
BuildsCausal(c, tokens, tq) ==
    /\ c.bq = c.q_rows /\ c.bq > 0 /\ c.bk > 0 /\ c.heads > 0 /\ c.consumers = 0
    /\ KvRows(c) % c.bk = 0 /\ tokens > 0 /\ tokens <= KvRows(c)
    /\ tq > 0 /\ tokens % tq = 0

FlashCausal(c, tokens, tq) ==
    LET cap == KvRows(c)
        hg == c.heads * c.q_rows
        blocked == tq < tokens
        q0 == IF blocked THEN Scaled("blk", tq * hg, 0) ELSE Lit(0)
        t0 == IF blocked THEN Scaled("blk", tq, 0) ELSE Lit(0)
        strides == <<hg, c.q_rows>>
        limit == Plus(Plus(Shift(t0, 1), "pos0", 1), "qb", 1)
    IN Program("flash_causal", QkvoParams(c, tokens * hg, c.heads * cap),
               c.heads, "pid", IF blocked THEN tokens \div tq ELSE 1, IF blocked THEN "blk" ELSE "",
               << <<"pos0", cap - tokens>>, <<"nkb", cap \div c.bk>> >>,
               Setup(c, "", 1, q0, tq, strides) \o << DynLoop(c, tq, limit) >>
                 \o Finish(c, "", 4, q0, "qs", State3("out"), strides))

(* build_split and build_causal_split: an instance per head and stretch of *)
(* bps blocks leaves a partial state.  -1e30 is the smallest number, 0.    *)
Splits(c, bps) == KvRows(c) \div (c.bk * bps)
BuildsSplit(c, tokens, bps) ==
    /\ c.bq = c.q_rows /\ c.consumers = 0 /\ c.heads > 0 /\ bps > 0
    /\ KvRows(c) % (c.bk * bps * CombineChunk) = 0
    /\ tokens > 0 /\ tokens <= KvRows(c)

SplitOf(c, name, tokens, bps, dyn, limit) ==
    LET cap == KvRows(c)
        group == c.q_rows
        hg == c.heads * group
        splits == Splits(c, bps)
        n == tokens * hg
        first == Plus(Scaled("i", c.bk, 0), "split", bps * c.bk)
        row == Plus(Scaled("sq", hg, 0), "pid", group)
        column(param) == View(param, << row, Scaled("split", 1, 0) >>, << group, 1 >>)
        stores == << Do(Store(Move("pm"), column(4))), Do(Store(Move("pl"), column(5))),
                     Do(Store(Move("pa"), View(6, << row, Scaled("split", c.d, 0) >>,
                                               << group, c.d >>))) >>
    IN Program(name,
               SubSeq(QkvoParams(c, n, c.heads * cap), 1, 3)
                 \o << Param("part_m", "F32", <<n, splits>>, TRUE),
                       Param("part_l", "F32", <<n, splits>>, TRUE),
                       Param("part_acc", "F32", <<n, splits * c.d>>, TRUE) >>,
               c.heads, "pid", splits, "split", dyn,
               SetupFrom(c, "", 1, Lit(0), tokens, <<hg, group>>, 0)
                 \o << ForRange("i", 0, bps, State3(""), State3("in"), Carried(c, tokens),
                           Block(LoadAttend(c, 2, Plus(first, "pid", cap), State3("in"),
                                            << first, limit >>), After("")), State3("out")),
                       MapEach("sq", State3("out"), <<"pm", "pl", "pa">>, Softmax(c),
                               Block(stores, <<>>), <<>>),
                       Do(DropOf("qs")) >>)

FlashSplit(c, bps) ==
    SplitOf(c, "flash_split", 1, bps, << <<"len", KvRows(c)>> >>, Scaled("len", 1, 0))
FlashCausalSplit(c, tokens, bps) ==
    SplitOf(c, "flash_causal_split", tokens, bps, << <<"pos0", KvRows(c) - tokens>> >>,
            Plus(Plus(Lit(1), "pos0", 1), "qb", 1))

(* build_combine_rows: an instance per row merges its first nsplit states. *)
BuildsCombine(c, bps) == Splits(c, bps) % CombineChunk = 0

FlashCombine(c, tokens, bps) ==
    LET splits == Splits(c, bps)
        ch == CombineChunk
        hg == tokens * c.heads * c.q_rows
        row(param, first, n) == View(param, << Scaled("pid", 1, 0), first >>, <<1, n>>)
        live == Scaled("nsplit", 1, 0)
        first == Scaled("k", ch, 0)
        acc == Reg("F32", <<1, c.d>>)
        weights ==
            << Let("m0", Load(row(1, Lit(0), splits), Reg("F32", <<1, splits>>))),
               Let("m", MaskCols(Move("m0"), Lit(0), live)),
               Let("mx", RowReduce("max", Borrow("m"))),
               Let("dm", Binary("sub", Move("m"), Borrow("mx"))),
               Let("w", Unary("exp", Move("dm"))),
               Let("ls", Load(row(2, Lit(0), splits), Reg("F32", <<1, splits>>))),
               Let("wl", Binary("mul", Move("w"), Move("ls"))),
               Let("l", RowReduce("sum", Move("wl"))),
               Let("acc0", Fill(acc, 0)) >>
        chunk ==
            << Let("mc0", Load(row(1, first, ch), Reg("F32", <<1, ch>>))),
               Let("mc", MaskCols(Move("mc0"), first, live)),
               Let("dc", Binary("sub", Move("mc"), Borrow("mx"))),
               Let("wc", Unary("exp", Move("dc"))),
               Let("ac", Load(Rows(3, Plus(Scaled("pid", splits, 0), "k", ch), ch, c.d),
                              TileTy("F32", <<ch, c.d>>, "tg"))),
               Let("pv", MatMul(Move("wc"), Borrow("ac"))),
               Do(DropOf("ac")),
               Let("acc2", Binary("add", Move("acc1"), Move("pv"))) >>
    IN Program("flash_combine",
               << Param("part_m", "F32", <<hg, splits>>, FALSE),
                  Param("part_l", "F32", <<hg, splits>>, FALSE),
                  Param("part_acc", "F32", <<hg * splits, c.d>>, FALSE),
                  Param("o", "F32", <<hg, c.d>>, TRUE) >>,
               hg, "pid", 1, "", << <<"nsplit", splits>>, <<"nchunk", splits \div ch>> >>,
               weights
                 \o << ForRangeDyn("k", 0, splits \div ch, "nchunk", <<"acc0">>, <<"acc1">>,
                                   << Tile(acc) >>, Block(chunk, <<"acc2">>), <<"accs">>),
                       Do(DropOf("mx")),
                       Let("out", Binary("div", Move("accs"), Move("l"))),
                       Do(Store(Move("out"), Rows(4, Scaled("pid", 1, 0), 1, c.d))) >>)

(* reference: softmax(q k^T / sqrt d) v of one query row over the first n  *)
(* rows of a head's cache, each a sequence of d numbers.                   *)
Softmaxed(q, ks, vs) ==
    LET d == Len(q)
        score(j) == Times(SumAll([i \in 1 .. d |-> Times(q[i], ks[j][i])]), InverseRoot(d))
        w == Strict([j \in DOMAIN ks |-> Expo(score(j))])
        z == SumAll(w)
    IN Strict([i \in 1 .. d |-> Over(SumAll([j \in DOMAIN ks |-> Times(w[j], vs[j][i])]), z)])
=============================================================================
