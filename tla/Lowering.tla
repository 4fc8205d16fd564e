------------------------------ MODULE Lowering ------------------------------
(***************************************************************************)
(* The lowering of lex-msl/program.rs: how a kernel becomes the code of    *)
(* the threads of a threadgroup.  The text it prints is modelled by what   *)
(* running it does.  The state is a record g:                              *)
(*   locs     where each value lives (Loc)                                 *)
(*   store    contents, by name: register tiles element by element (thread *)
(*            e % threads owns element e), arrays of them, and the static  *)
(*            allocations of the arena                                     *)
(*   ptr      what each threadgroup pointer points to                      *)
(*   dq, views   the dequantisations and the windows read lazily           *)
(*   reads, writes   <<address, thread>> since the last barrier; what one  *)
(*            thread writes no other may touch until the next              *)
(*   staged, xs   scratch taken by the operands of an operation, and them  *)
(*   scratch      the most words of scratch any operation took             *)
(* and prog, env (indices), globals, err, unit as in Interp.  A schedule s *)
(* is [threads, simd, warps, pad, atom, width, shared]: warps the grid a   *)
(* fragment is cut over or <<>>, width the elements of a wide copy or 0,   *)
(* shared the bytes of shared memory a kernel may declare.                 *)
(***************************************************************************)
EXTENDS Interp

\* Loc.
Registers(name, t) == [l |-> "reg", name |-> name, t |-> t]
RegArray(name, t, n) == [l |-> "regarr", name |-> name, t |-> t, n |-> n]
Shared(name, t)    == [l |-> "tg", name |-> name, t |-> t]
Frag(name, t)      == [l |-> "frag", name |-> name, t |-> t]
Lazily(z, t)       == [l |-> "lazy", name |-> "", z |-> z, t |-> t]

Thread(g, e) == e % g.s.threads
Located(g, v, loc) == IF Fine(g) THEN [g EXCEPT !.locs = (v :> loc) @@ @] ELSE g
Stored(g, name, data) == IF Fine(g) THEN [g EXCEPT !.store = (name :> data) @@ @] ELSE g
Logged(g, reads, writes) == [g EXCEPT !.reads = @ \cup reads, !.writes = @ \cup writes]

DeviceName(i) == "device " \o ToString(i)
\* Between two barriers, what a thread writes is its own.
Clash(g) ==
    LET written == {w[1] : w \in g.writes}
    IN \/ Cardinality(written) # Cardinality(g.writes)
       \/ \E r \in g.reads : r[1] \in written /\ r \notin g.writes
\* A barrier settles both memories of the group, but what clashed in device
\* memory alone is told apart.
InGroup(g) ==
    LET device == {DeviceName(i) : i \in DOMAIN g.prog.params}
        ours(log) == {x \in log : x[1][1] \notin device}
    IN [g EXCEPT !.reads = ours(@), !.writes = ours(@)]
Barrier(g) ==
    [Must(g, IF Clash(InGroup(g)) THEN "race" ELSE "device race", Fine(g) => ~Clash(g))
        EXCEPT !.reads = {}, !.writes = {}]

LocOf(g, v) == g.locs[v]
HasLoc(g, v) == Must(g, "unsupported", v \in DOMAIN g.locs)

\* addr: a window that spans every inner dimension is one run of memory.
Address(g, w, e) ==
    LET dims == g.prog.params[w.param].shape
        r == Len(dims)
        stride(d) == Prod(SubSeq(dims, d + 1, r))
        inner(d) == Prod(SubSeq(w.shape, d + 1, r))
        spans == \A d \in 2 .. r : w.shape[d] = dims[d]
        base == Total([d \in 1 .. r |-> Eval(g, w.off[d]) * stride(d)])
    IN IF spans THEN base + e
       ELSE Total([d \in 1 .. r |->
                      (Eval(g, w.off[d]) + ((e \div inner(d)) % w.shape[d])) * stride(d)])
Device(g, w, e) == g.globals[w.param][Address(g, w, e) + 1]
\* Where two threads may meet: a place in a parameter, a tile or scratch.
DeviceAt(g, w, e) == <<DeviceName(w.param), Address(g, w, e)>>
\* Only what the kernel writes can race.
DeviceReads(g, w, n) ==
    IF ~g.prog.params[w.param].writable THEN {}
    ELSE {<< DeviceAt(g, w, e), Thread(g, e) >> : e \in 0 .. n - 1}

(* What element e of an operation reads: <<operand, element>> pairs.       *)
(* A dequantisation reads the bytes of its planes, then its group's terms. *)
Dequants == {"dequant", "dequant4", "fp4", "ternary", "dequant6"}
IsPairs(op) == op.o \in {"fp4", "dequant6"} \/ (op.o = "dequant4" /\ op.mode = "pairs")
ColsOf(op, ts) ==
    IF op.o = "ternary" THEN (ts[1].shape[2] \div TritBytes(op.trits)) * op.group
    ELSE ts[1].shape[2] * (IF IsPairs(op) THEN 2 ELSE 1)
Packed(c, qc, per, e) == (e \div c) * qc + ((e % c) \div per)
TritIndex(op, ts, e) ==
    LET c == ColsOf(op, ts)
        per == TritBytes(op.trits)
    IN (e \div c) * ts[1].shape[2] + ((e % c) \div op.group) * per
         + TritSite(op.trits, (e % c) % op.group)[1]
Planes(op, ts, e) ==
    LET c == ColsOf(op, ts)
    IN IF op.o = "ternary" THEN << <<1, TritIndex(op, ts, e)>> >>
       ELSE IF op.o = "dequant6" THEN << <<1, Packed(c, c \div 2, 2, e)>>, <<2, Packed(c, c \div 4, 4, e)>> >>
       ELSE IF IsPairs(op) THEN << <<1, Packed(c, c \div 2, 2, e)>> >>
       ELSE << <<1, e>> >>
GroupOf(op, ts, e) == Packed(ColsOf(op, ts), ColsOf(op, ts) \div op.group, op.group, e)
ScaleAt(op) == IF op.o = "dequant6" THEN 3 ELSE 2
HasMin(op) == op.o \in {"dequant", "dequant4"} /\ op.mins # <<>>
\* The terms of group `grp` of row `row`.
GroupTerms(op, grp, row) ==
    << <<ScaleAt(op), grp>> >>
      \o (IF HasMin(op) THEN << <<3, grp>> >> ELSE IF op.o = "fp4" THEN << <<3, row>> >> ELSE <<>>)

Gather(op, ts, e) ==
    CASE op.o = "binary" ->
            LET bcast == ts[1].shape # ts[2].shape
                cols == IF bcast THEN ts[1].shape[2] ELSE 1
                col == bcast /\ ts[2].shape = <<1, ts[1].shape[2]>>
            IN << <<1, e>>, <<2, IF col THEN e % cols ELSE e \div cols>> >>
      [] op.o = "swap"      -> << <<1, IF e % 2 = 0 THEN e + 1 ELSE e - 1>> >>
      [] op.o = "butterfly" ->
            << <<1, e>>, <<1, IF (e \div op.stride) % 2 = 0 THEN e + op.stride ELSE e - op.stride>> >>
      [] op.o \in Dequants  ->
            Planes(op, ts, e) \o GroupTerms(op, GroupOf(op, ts, e), e \div ColsOf(op, ts))
      [] OTHER              -> << <<1, e>> >>

Unpacked(op, v, e) ==
    CASE op.o = "dequant"  -> v[1]
      [] op.o = "dequant4" -> Nibble(Byte(v[1]), IF op.mode = "pairs" THEN e % 2 = 1 ELSE op.mode = "high")
      [] op.o = "fp4"      -> E2m1(Nibble(Byte(v[1]), e % 2 = 1))
      [] op.o = "ternary"  -> Number(TritCode(op.trits, Byte(v[1]), TritSite(op.trits, e % op.group)[2]) - 1)
      [] op.o = "dequant6" ->
            Number(Nibble(Byte(v[1]), e % 2 = 1) + 16 * ((Byte(v[2]) \div 4 ^ (e % 4)) % 4) - 32)
\* The value x of a weight meets the terms of its group.
Weighted(op, x, terms) ==
    IF op.o = "fp4" THEN Times(x, Times(E4m3(Byte(terms[1])), terms[2]))
    ELSE IF HasMin(op) THEN Minus(Times(x, terms[1]), terms[2])
    ELSE Times(x, terms[1])

\* Element e from the values it gathered.
Combine(g, op, ts, v, e) ==
    CASE op.o = "binary"    -> Apply2(op.f, v[1], v[2])
      [] op.o = "unary"     -> Apply1(op.f, v[1])
      [] op.o = "scale"     -> Times(v[1], op.x)
      [] op.o = "mask"      ->
            IF Eval(g, op.first) + (e % ts[1].shape[2]) >= Eval(g, op.limit) THEN NegInf ELSE v[1]
      [] op.o = "butterfly" ->
            IF (e \div op.stride) % 2 = 1 THEN Minus(v[2], v[1]) ELSE Plus2(v[1], v[2])
      [] op.o \in Dequants  ->
            LET n == IF op.o = "dequant6" THEN 2 ELSE 1
            IN Weighted(op, Unpacked(op, v, e % ColsOf(op, ts)), SubSeq(v, n + 1, Len(v)))
      [] OTHER              -> v[1]

\* The type of the result; a Lazy or an owned tile of registers.
ResultTy(op, ts) ==
    CASE op.o \in Dequants  -> Reg("F32", <<ts[1].shape[1], ColsOf(op, ts)>>)
      [] op.o = "convert"   -> Reg(op.dt, ts[1].shape)
      [] OTHER              -> Reg(ts[1].dt, ts[1].shape)

(* A lazy tile: a window of a parameter, or an operation on lazy tiles;    *)
(* it is evaluated where it is read.                                       *)
Window0(w) == [o |-> "read", w |-> w]
Node(op, ts, zs) == [o |-> "node", op |-> op, ts |-> ts, zs |-> zs]
RECURSIVE LazyAt(_, _, _, _)
LazyAt(g, z, dt, e) ==
    LET x == IF z.o = "read" THEN Device(g, z.w, e)
             ELSE LET at == Gather(z.op, z.ts, e)
                  IN Combine(g, z.op, z.ts,
                             Strict([n \in DOMAIN at |->
                                 LazyAt(g, z.zs[at[n][1]], z.ts[at[n][1]].dt, at[n][2])]), e)
    IN Rounded(dt, g.unit, x)
Evaluated(g, loc) ==
    Vector(Elems(loc.t), LAMBDA e : LazyAt(g, loc.z, loc.t.dt, e))

\* What a location holds now.
Held(g, loc) ==
    IF loc.l = "lazy" THEN Evaluated(g, loc)
    ELSE g.store[IF loc.l = "tg" THEN g.ptr[loc.name] ELSE loc.name]

(* operands: how each is read.  "own": the thread's own element; "shared": *)
(* any element, of a threadgroup tile or of scratch; "lazy".               *)
OwnOf(t, data)               == [k |-> "own", t |-> t, data |-> data]
SharedOf(t, data, base, off) == [k |-> "shared", t |-> t, data |-> data, base |-> base, off |-> off]
LazyOf(loc)                  == [k |-> "lazy", t |-> loc.t, z |-> loc.z]
AccessAt(g, x, e) == IF x.k = "lazy" THEN LazyAt(g, x.z, x.t.dt, e) ELSE x.data[e + 1]
AddressOf(x, e) == <<x.base, x.off + e>>

Operand1(g, a, own, n) ==
    LET loc == LocOf(g, a.v)
        reg == a.m = "elem" \/ loc.l = "reg"
        data == IF a.m = "elem" THEN g.store[loc.name][IndexAt(g, a.i) + 1] ELSE Held(g, loc)
        tile == a.m # "part" /\ loc.l \in (IF a.m = "elem" THEN {"regarr"} ELSE {"reg", "tg", "lazy"})
        ok == Must(HasLoc(g, a.v), "unsupported", tile)
        x == IF loc.l = "lazy" THEN LazyOf(loc)
             ELSE IF ~reg THEN SharedOf(loc.t, data, g.ptr[loc.name], 0)
             ELSE IF own /\ Elems(loc.t) = n THEN OwnOf(loc.t, data)
             ELSE SharedOf(loc.t, data, "scratch", g.staged)
    IN IF ~Fine(ok) THEN ok
       ELSE [ok EXCEPT !.xs = Append(@, x),
                       !.staged = @ + IF x.k = "shared" /\ reg THEN Elems(loc.t) ELSE 0]
\* Registers read by other threads go through scratch, between barriers.
ReadAll(g, args, own, n) ==
    LET r == Through(LAMBDA a, i : IF Fine(a) THEN Operand1(a, args[i], own[i], n) ELSE a,
                     [g EXCEPT !.xs = <<>>, !.staged = 0], [i \in DOMAIN args |-> i])
        out == UNION {{<< AddressOf(x, e), Thread(g, e) >> : e \in 0 .. Elems(x.t) - 1}
                         : x \in {r.xs[i] : i \in {j \in DOMAIN r.xs :
                                     r.xs[j].k = "shared" /\ r.xs[j].base = "scratch"}}}
    IN IF Fine(r) /\ r.staged > 0
       THEN Barrier(Logged(Barrier([r EXCEPT !.scratch = Max({@, r.staged})]), {}, out)) ELSE r
Types(xs) == [i \in DOMAIN xs |-> xs[i].t]

\* Reads of x's element i by thread t, if x is in memory the threads share.
ReadBy(x, i, t) == IF x.k = "shared" THEN {<< AddressOf(x, i), t >>} ELSE {}

\* owned: each thread computes the elements it owns of an elementwise op.
Computed(g, op) ==
    LET ts == Types(g.xs)
        at(e) == Gather(op, ts, e)
        ty == ResultTy(op, ts)
    IN [data |-> Vector(Elems(ty), LAMBDA e :
                     LET v == Strict([n \in DOMAIN at(e) |-> AccessAt(g, g.xs[at(e)[n][1]], at(e)[n][2])])
                     IN Rounded(ty.dt, g.unit, Combine(g, op, ts, v, e))),
        reads |-> UNION {UNION {ReadBy(g.xs[r[1]], r[2], Thread(g, e)) : r \in ToSet(at(e))}
                            : e \in 0 .. Elems(ty) - 1}]
Owned(g, v, op) ==
    LET c == Computed(g, op)
        ty == ResultTy(op, Types(g.xs))
    IN IF Fine(g) THEN Located(Stored(Logged(g, c.reads, {}), v, c.data), v, Registers(v, ty)) ELSE g

\* Which operands of an operation are read only at the thread's own element.
OwnRead(op, n) ==
    [i \in 1 .. n |-> CASE op.o = "binary" -> TRUE
                        [] op.o \in {"dequant", "dequant4"} -> i = 1 /\ ~IsPairs(op)
                        [] op.o \in {"swap", "butterfly", "fp4", "ternary", "dequant6"} -> FALSE
                        [] OTHER -> TRUE]
TyOf(g, a) == LocOf(g, a.v).t
IsLazy(g, a) == a.m \in {"move", "borrow"} /\ LocOf(g, a.v).l = "lazy"

Elementwise(g, v, op) ==
    LET args == OperandsOf(op)
        known == Through(LAMBDA a, x : HasLoc(a, x.v), g, args)
        ts == [i \in DOMAIN args |-> TyOf(g, args[i])]
        bcast == op.o = "binary" /\ ts[1].shape # ts[2].shape
        stays == /\ op.o \in Dequants \cup {"binary", "convert"}
                 /\ \A i \in DOMAIN args : IsLazy(g, args[i])
                 /\ ~bcast
        z == Node(op, ts, [i \in DOMAIN args |-> LocOf(g, args[i].v).z])
        lazy == Located(g, v, Lazily(z, ResultTy(op, ts)))
        own == IF bcast THEN <<TRUE, FALSE>> ELSE OwnRead(op, Len(args))
    IN IF ~Fine(known) THEN known
       ELSE IF stays THEN (IF op.o \in Dequants THEN [lazy EXCEPT !.dq = (v :> z) @@ @] ELSE lazy)
       ELSE Owned(ReadAll(g, args, own, Elems(ResultTy(op, ts))), v, op)

(* Reductions.  Values held by threads 0 .. n - 1 meet lane by lane within *)
(* a simdgroup; beyond its last lane a shuffle gives the thread its own.   *)
Join(f, a, b) == IF f = "max" THEN Greater(a, b) ELSE Plus2(a, b)
RECURSIVE Shuffled(_, _, _, _)
Shuffled(g, f, s, d) ==
    IF d = 0 THEN s
    ELSE Shuffled(g, f,
                  Strict([i \in DOMAIN s |->
                      LET t == i - 1
                      IN IF t \div g.s.simd = (t + d) \div g.s.simd THEN Join(f, s[i], s[i + d])
                         ELSE Join(f, s[i], s[i])]),
                  d \div 2)
\* The largest power of two within both limits.
LanesWithin(most, cap) == CHOOSE n \in {2 ^ k : k \in 0 .. 10} :
    /\ n <= Max({1, Min({most, cap})})
    /\ 2 * n > Max({1, Min({most, cap})})

\* a mutant
PartialsUnguarded(g, reads, out, back) ==
    LET word(w) == << <<"scratch", g.staged + w[1]>>, w[2] >>
    IN Logged(Barrier(Logged(g, reads, {word(w) : w \in out})), {word(b) : b \in back}, {})

\* One partial result per scratch word: written by `out`, then read back by
\* the threads that own the results.  With nothing staged no barrier has yet
\* let the readers of the last use of scratch finish.
Partials(g, reads, out, back) ==
    LET room == [g EXCEPT !.scratch = Max({@, g.staged + Cardinality(out)})]
        quiet == IF g.staged = 0 THEN Barrier(room) ELSE room
        word(w) == << <<"scratch", g.staged + w[1]>>, w[2] >>
    IN Logged(Barrier(Logged(quiet, reads, {word(w) : w \in out})), {word(b) : b \in back}, {})

RowReduceLow(g, v, op) ==
    LET r == ReadAll(g, <<op.a>>, <<FALSE>>, TyOf(g, op.a).shape[1])
        x == r.xs[1]
        m == x.t.shape[1]
        n == x.t.shape[2]
        lanes == LanesWithin(g.s.threads \div m, n)
        sgs == (lanes + g.s.simd - 1) \div g.s.simd
        start == IF op.f = "max" THEN NegInf ELSE 0
        cells(t) == IF t \div lanes < m
                    THEN {j \in 0 .. n - 1 : j % lanes = t % lanes} ELSE {}
        at(t, j) == (t \div lanes) * n + j
        mine == Vector(g.s.threads, LAMBDA t :
                    FoldSet(LAMBDA j, s : Join(op.f, s, AccessAt(r, x, at(t, j))), start, cells(t)))
        s == Shuffled(g, op.f, mine, Min({lanes, g.s.simd}) \div 2)
        writers == {t \in 0 .. g.s.threads - 1 : t \div lanes < m /\ (t % lanes) % g.s.simd = 0}
        word(t) == (t \div lanes) * sgs + ((t % lanes) \div g.s.simd)
        owner(w) == CHOOSE t \in writers : word(t) = w
        part(e) == FoldSet(LAMBDA q, a : Join(op.f, a, s[owner(e * sgs + q) + 1]), start, 0 .. sgs - 1)
        whole(e) == FoldSet(LAMBDA j, a : Join(op.f, a, AccessAt(r, x, e * n + j)), start, 0 .. n - 1)
        ty == Reg(x.t.dt, <<m>>)
        split == Partials(r,
                     UNION {UNION {ReadBy(x, at(t, j), t) : j \in cells(t)} : t \in 0 .. g.s.threads - 1},
                     {<<word(t), t>> : t \in writers},
                     {<<e * sgs + q, Thread(g, e)>> : e \in 0 .. m - 1, q \in 0 .. sgs - 1})
        alone == Logged(r, UNION {UNION {ReadBy(x, e * n + j, Thread(g, e)) : j \in 0 .. n - 1}
                                     : e \in 0 .. m - 1}, {})
    IN IF ~Fine(r) THEN r
       ELSE Located(Stored(IF lanes >= 2 THEN split ELSE alone, v,
                           Vector(m, LAMBDA e : Rounded(ty.dt, g.unit, IF lanes >= 2 THEN part(e) ELSE whole(e)))),
                    v, Registers(v, ty))

(* A product of a [m, kd] by b, [n, kd] when nt, is shared out as mm says: *)
(* an output has `lanes` threads, and the elements of its sum are dealt to *)
(* them in runs of `vec` consecutive ones.                                 *)
RunLength(kd, lanes, want) ==
    LET fits == {w \in {want, 8, 4, 2} : w <= want /\ kd % (lanes * w) = 0}
    IN IF fits = {} THEN 1 ELSE Max(fits)
Dealt(mm, lane) ==
    {p0 + u : p0 \in {p \in 0 .. mm.kd - 1 : p % (mm.lanes * mm.vec) = lane * mm.vec}, u \in 0 .. mm.vec - 1}

\* a mutant
HoistsAnyRun(z, kd, vec) == vec > 1 /\ ColsOf(z.op, z.ts) = kd

\* A weight whose group's terms are formed once per run, where a run cannot
\* straddle groups.
Hoists(z, kd, vec) ==
    /\ vec > 1 /\ ColsOf(z.op, z.ts) = kd /\ z.op.group % vec = 0
    /\ z.op.o = "dequant6" => vec % 4 = 0

\* A few rows against a weight: each weight is read once for all of them.
Batches(g, op, m, n) ==
    op.o = "matmulnt" /\ IsLazy(g, op.b) /\ m > 1 /\ m <= 16 /\ n < g.s.threads

SharedOut(g, op, a, b) ==
    LET nt == op.o = "matmulnt"
        m == a.t.shape[1]
        kd == a.t.shape[2]
        n == b.t.shape[IF nt THEN 1 ELSE 2]
        batched == Batches(g, op, m, n)
        lanes == IF batched THEN g.s.simd ELSE LanesWithin(g.s.threads \div (m * n), g.s.simd)
        known == nt /\ IsLazy(g, op.b) /\ op.b.v \in DOMAIN g.dq
        packed == known /\ IsPairs(g.dq[op.b.v].op)
        vec == RunLength(kd, lanes, IF packed THEN 16 ELSE 8)
        z == IF known THEN g.dq[op.b.v] ELSE <<>>
    IN [nt |-> nt, m |-> m, kd |-> kd, n |-> n, a |-> a, b |-> b, batched |-> batched, lanes |-> lanes,
        vec |-> vec, z |-> z, hoists |-> known /\ Hoists(z, kd, vec)]

\* The scale, and the min, of the group row j's run from p0 on is in.
RunTerms(g, mm, j, p0) ==
    LET at == GroupTerms(mm.z.op, j * (mm.kd \div mm.z.op.group) + (p0 \div mm.z.op.group), j)
    IN Strict([i \in DOMAIN at |-> LazyAt(g, mm.z.zs[at[i][1]], mm.z.ts[at[i][1]].dt, at[i][2])])
\* Value p of row j, unpacked, with the terms of its run.
RunWeight(g, mm, j, p) ==
    LET at == Planes(mm.z.op, mm.z.ts, j * mm.kd + p)
        packed == Strict([i \in DOMAIN at |-> LazyAt(g, mm.z.zs[at[i][1]], mm.z.ts[at[i][1]].dt, at[i][2])])
    IN Weighted(mm.z.op, Unpacked(mm.z.op, packed, p), RunTerms(g, mm, j, p - (p % mm.vec)))

Place(mm, j, p) == IF mm.nt THEN j * mm.kd + p ELSE p * mm.n + j
Term(g, mm, o, p) ==
    Times(AccessAt(g, mm.a, (o \div mm.n) * mm.kd + p),
          IF mm.hoists THEN RunWeight(g, mm, o % mm.n, p)
          ELSE AccessAt(g, mm.b, Place(mm, o % mm.n, p)))

\* A simdgroup of a batch owns rows of b, and keeps one sum for each of them
\* and each row of a.
BatchedRows(g, mm, t) ==
    LET groups == Max({1, g.s.threads \div g.s.simd})
        own == (mm.n + groups - 1) \div groups
        first == (t \div g.s.simd) * own
    IN {i * mm.n + j : i \in 0 .. mm.m - 1, j \in {j \in first .. first + own - 1 : j < mm.n}}
\* The outputs thread t adds to, and its share of the sum of one of them.
OutsOf(g, mm, t) ==
    IF mm.batched THEN BatchedRows(g, mm, t) ELSE {t \div mm.lanes} \cap (0 .. mm.m * mm.n - 1)
LaneSum(g, mm, t, o) ==
    IF o \notin OutsOf(g, mm, t) THEN 0
    ELSE FoldSet(LAMBDA p, s : Plus2(s, Term(g, mm, o, p)), 0, Dealt(mm, t % mm.lanes))
\* What thread t reads of outputs os at the elements ps of their sums.
TermReads(mm, t, os, ps) ==
    UNION {ReadBy(mm.a, (o \div mm.n) * mm.kd + p, t) \cup ReadBy(mm.b, Place(mm, o % mm.n, p), t)
              : o \in os, p \in ps}

MatMulLow(g, v, op) ==
    LET dims == TyOf(g, op.b).shape
        outs == TyOf(g, op.a).shape[1] * dims[IF op.o = "matmulnt" THEN 1 ELSE 2]
        r == ReadAll(g, <<op.a, op.b>>, <<FALSE, FALSE>>, outs)
        mm == SharedOut(r, op, r.xs[1], r.xs[2])
        threads == 0 .. g.s.threads - 1
        partial(o) == Shuffled(g, "sum", Vector(g.s.threads, LAMBDA t : LaneSum(r, mm, t, o)), mm.lanes \div 2)
        writer(o) == CHOOSE t \in threads : t % mm.lanes = 0 /\ o \in OutsOf(g, mm, t)
        alone(o) == FoldSet(LAMBDA p, s : Plus2(s, Term(r, mm, o, p)), 0, 0 .. mm.kd - 1)
        split == mm.lanes >= 2
        done == IF split
                THEN Partials(r, UNION {TermReads(mm, t, OutsOf(g, mm, t), Dealt(mm, t % mm.lanes)) : t \in threads},
                              {<<o, writer(o)>> : o \in 0 .. outs - 1},
                              {<<o, Thread(g, o)>> : o \in 0 .. outs - 1})
                ELSE Logged(r, UNION {TermReads(mm, Thread(g, o), {o}, 0 .. mm.kd - 1) : o \in 0 .. outs - 1}, {})
    IN IF ~Fine(r) THEN r
       ELSE Located(Stored(done, v, Vector(outs, LAMBDA o :
                        Rounded(op.acc, g.unit, IF split THEN partial(o)[writer(o) + 1] ELSE alone(o)))),
                    v, Registers(v, Reg(op.acc, <<mm.m, mm.n>>)))

(* Threadgroup tiles.  A tile only matrix units read has padded rows.      *)
RowLen(g, v, cols) == cols + (IF v \in g.padded THEN g.s.pad ELSE 0)
Declared(g, v, t) ==
    LET words == IF Len(t.shape) = 2 THEN t.shape[1] * RowLen(g, v, t.shape[2]) ELSE Elems(t)
        old == IF v \in DOMAIN g.store THEN g.store[v] ELSE Vector(words, LAMBDA e : NaN)
    IN Located([Stored(g, v, old) EXCEPT !.ptr = (v :> v) @@ @], v, Shared(v, t))
\* Where element e of a tile sits.
PlaceOf(g, v, t, e) ==
    IF v \in g.padded THEN (e \div t.shape[2]) * RowLen(g, v, t.shape[2]) + (e % t.shape[2]) ELSE e
Filled(g, site, t, v, thread, data) ==
    LET new == Strict([p \in DOMAIN g.store[site] |->
                   IF \E e \in 0 .. Elems(t) - 1 : PlaceOf(g, v, t, e) + 1 = p
                   THEN data[(CHOOSE e \in 0 .. Elems(t) - 1 : PlaceOf(g, v, t, e) + 1 = p) + 1]
                   ELSE g.store[site][p]])
    IN Logged(Stored(g, site, new), {},
              {<< <<site, PlaceOf(g, v, t, e)>>, thread[e + 1] >> : e \in 0 .. Elems(t) - 1})
Every(g, n) == Vector(n, LAMBDA e : Thread(g, e))
\* vector_copy: rows that start on a whole vector are copied in vectors.
CopyThreads(g, w, t) ==
    LET p == g.prog.params[w.param]
        k == g.s.width
        aligned(e) == e.c % k = 0 /\ \A i \in DOMAIN e.terms : e.terms[i][2] % k = 0
        wide == /\ k > 0 /\ Len(t.shape) = 2 /\ Len(p.shape) = 2 /\ p.dt = t.dt
                /\ t.shape[2] % k = 0 /\ p.shape[2] % k = 0 /\ g.s.pad % k = 0 /\ aligned(w.off[2])
    IN Vector(Elems(t), LAMBDA e : Thread(g, IF wide THEN e \div k ELSE e))
FromDevice(g, w, t) == Vector(Elems(t), LAMBDA e : Rounded(t.dt, g.unit, Device(g, w, e)))

LoadLow(g, v, op) ==
    LET t == op.ty
        d == Barrier(Declared(g, v, t))
        read == {<< DeviceAt(g, op.view, e), Thread(g, e) >> : e \in 0 .. Elems(t) - 1}
        copied == Barrier(Filled(Logged(d, DeviceReads(g, op.view, Elems(t)), {}), v, t, v,
                                 CopyThreads(g, op.view, t), FromDevice(g, op.view, t)))
    IN IF t.space = "tg" THEN copied
       ELSE IF ~g.prog.params[op.view.param].writable
            THEN [Located(g, v, Lazily(Window0(op.view), t)) EXCEPT !.views = (v :> op.view) @@ @]
       ELSE Located(Stored(Logged(g, read, {}), v, FromDevice(g, op.view, t)), v, Registers(v, t))

\* The destination was last read as another tile: wait for its readers.
CopyLow(g, v, op) ==
    LET k == HasLoc(g, op.dst)
        loc == LocOf(g, op.dst)
        b == Barrier(Must(k, "unsupported", Fine(k) => loc.l = "tg"))
        t == loc.t
    IN IF ~Fine(b) THEN b
       ELSE Located(Filled(Logged(b, DeviceReads(g, op.view, Elems(t)), {}), b.ptr[loc.name], t, op.dst,
                           Every(g, Elems(t)), FromDevice(g, op.view, t)), v, loc)
WaitLow(g, v, op) ==
    LET b == Barrier(HasLoc(g, op.f)) IN IF Fine(b) THEN Located(b, v, LocOf(g, op.f)) ELSE b

StageLow(g, v, op) ==
    LET from == TyOf(g, op.a)
        t == TileTy(op.dt, from.shape, "tg")
        r == ReadAll(Barrier(Declared(Must(HasLoc(g, op.a.v), "unsupported", Len(from.shape) = 2), v, t)),
                     <<op.a>>, <<FALSE>>, Elems(t))
        reads == UNION {ReadBy(r.xs[1], e, Thread(g, e)) : e \in 0 .. Elems(t) - 1}
    IN IF ~Fine(r) THEN r
       ELSE Barrier(Filled(Logged(r, reads, {}), v, t, v, Every(g, Elems(t)),
                           Vector(Elems(t), LAMBDA e : Rounded(t.dt, g.unit, AccessAt(r, r.xs[1], e)))))

NewLow(g, v, op) ==
    LET data == Vector(Elems(op.ty), LAMBDA e :
                    IF op.o = "alloc" THEN 0 ELSE Rounded(op.ty.dt, g.unit, op.x))
        tg == Declared(g, v, op.ty)
        cut == Must(g, "unsupported",
                    /\ g.s.warps # <<>> /\ Len(op.ty.shape) = 2
                    /\ \A d \in 1 .. 2 : op.ty.shape[d] % (g.s.warps[d] * g.s.atom) = 0)
    IN IF op.ty.space = "tg"
       THEN (IF op.o = "alloc" THEN tg
             ELSE Barrier(Filled(Barrier(tg), v, op.ty, v, Every(g, Elems(op.ty)), data)))
       ELSE IF op.ty.space = "frag"
       THEN Located(Stored(cut, v, data), v, Frag(v, op.ty))
       ELSE Located(Stored(g, v, data), v, Registers(v, op.ty))

(* Matrix units: a warp owns a block of the accumulator, in place.         *)
WarpOf(g, t, e) ==
    LET rows == t.shape[1] \div g.s.warps[1]
        cols == t.shape[2] \div g.s.warps[2]
    IN ((e \div t.shape[2]) \div rows) * g.s.warps[2] + ((e % t.shape[2]) \div cols)
FirstLane(g, warp) == warp * g.s.simd
MmaLow(g, v, op) ==
    LET c == LocOf(g, op.c.v)
        a == LocOf(g, op.a.v)
        b == LocOf(g, op.b.v)
        ok == Must(Must(HasLoc(HasLoc(HasLoc(g, op.c.v), op.a.v), op.b.v),
                        "unsupported", c.l = "frag" /\ a.l = "tg" /\ b.l = "tg"),
                   "unsupported", a.t.shape[2] % g.s.atom = 0)
        k == a.t.shape[2]
        n == c.t.shape[2]
        at(x, loc, i, p) == i * RowLen(g, x, k) + p
        val(loc, x, i, p) == g.store[g.ptr[loc.name]][at(x, loc, i, p) + 1]
        reads(e) == UNION {{<< <<g.ptr[a.name], at(op.a.v, a, e \div n, p)>>, FirstLane(g, WarpOf(g, c.t, e)) >>,
                            << <<g.ptr[b.name], at(op.b.v, b, e % n, p)>>, FirstLane(g, WarpOf(g, c.t, e)) >>}
                              : p \in 0 .. k - 1}
        new == Vector(Elems(c.t), LAMBDA e :
                   FoldSet(LAMBDA p, s : Plus2(s, Times(val(a, op.a.v, e \div n, p), val(b, op.b.v, e % n, p))),
                           g.store[c.name][e + 1], 0 .. k - 1))
    IN IF ~Fine(ok) THEN ok
       ELSE Located(Stored(Logged(ok, UNION {reads(e) : e \in 0 .. Elems(c.t) - 1}, {}), c.name, new), v, c)
FragWindow(g, w) ==
    LET dims == g.prog.params[w.param].shape
    IN Must(g, "unsupported", /\ dims[Len(dims)] % g.s.atom = 0
                              /\ \A d \in DOMAIN w.shape : w.shape[d] % g.s.atom = 0)
AddWindowLow(g, v, op) ==
    LET f == LocOf(g, op.a.v)
        ok == FragWindow(Must(HasLoc(g, op.a.v), "unsupported", f.l = "frag"), op.view)
    IN IF ~Fine(ok) THEN ok
       ELSE Located(Stored(ok, f.name, Vector(Elems(f.t), LAMBDA e :
                        Plus2(g.store[f.name][e + 1], Device(g, op.view, e)))), v, f)

\* A tile in shared memory is stored by every thread, after a barrier; a
\* thread stores its own registers.
StoreLow(g, op) ==
    LET w == op.view
        n == Prod(w.shape)
        loc == LocOf(g, op.a.v)
        frag == loc.l = "frag"
        known == HasLoc(g, op.a.v)
        r == IF frag THEN FragWindow(known, w) ELSE ReadAll(known, <<op.a>>, <<TRUE>>, n)
        x == r.xs[1]
        b == IF ~frag /\ x.k = "shared" THEN Barrier(r) ELSE r
        value(e) == IF frag THEN g.store[loc.name][e + 1] ELSE AccessAt(b, x, e)
        thread(e) == IF frag THEN FirstLane(g, WarpOf(g, loc.t, e)) ELSE Thread(g, e)
        dt == g.prog.params[w.param].dt
        new == Through(LAMBDA a, e : [a EXCEPT ![Address(g, w, e) + 1] = Rounded(dt, g.unit, value(e))],
                       g.globals[w.param], Vector(n, LAMBDA e : e))
        shared == IF frag THEN {} ELSE UNION {ReadBy(x, e, thread(e)) : e \in 0 .. n - 1}
    IN IF ~Fine(known) \/ ~Fine(r) THEN r
       ELSE Logged([b EXCEPT !.globals[w.param] = new], shared,
                   {<< DeviceAt(g, w, e), thread(e) >> : e \in 0 .. n - 1})

ArrayLow(g, v, op) ==
    LET known == Through(HasLoc, g, op.vs)
        ok == Must(known, "unsupported", Fine(known) =>
                       \A i \in DOMAIN op.vs : LocOf(g, op.vs[i]).l \in {"reg", "lazy"})
        t == LocOf(g, op.vs[1]).t
    IN IF ~Fine(ok) THEN ok
       ELSE Located(Stored(g, v, [i \in DOMAIN op.vs |-> Held(g, LocOf(g, op.vs[i]))]),
                    v, RegArray(v, t, Len(op.vs)))

OpLow(g, v, op) ==
    CASE op.o \in {"alloc", "fill"}       -> NewLow(g, v, op)
      [] op.o = "load"                    -> LoadLow(g, v, op)
      [] op.o = "copy"                    -> CopyLow(g, v, op)
      [] op.o = "wait"                    -> WaitLow(g, v, op)
      [] op.o = "stage"                   -> StageLow(g, v, op)
      [] op.o = "store"                   -> StoreLow(g, op)
      [] op.o = "drop"                    -> g
      [] op.o = "mma"                     -> MmaLow(g, v, op)
      [] op.o = "addwindow"               -> AddWindowLow(g, v, op)
      [] op.o \in {"matmul", "matmulnt"}  -> MatMulLow(g, v, op)
      [] op.o = "rowreduce"               -> RowReduceLow(g, v, op)
      [] op.o = "array"                   -> ArrayLow(g, v, op)
      [] op.o \in {"acquire", "commit", "receive", "release"} -> Wrong(g, "unsupported")
      [] OTHER                            -> Elementwise(g, v, op)

(* Statements. *)
\* assign: registers by value, threadgroup tiles by pointer.
Assign(g, dst, src) ==
    IF ~Fine(g) \/ dst = src THEN g
    ELSE IF dst.l = "reg" /\ src.l \in {"reg", "lazy"} THEN Stored(g, dst.name, Held(g, src))
    ELSE IF dst.l = src.l /\ dst.l \in {"regarr", "frag"} THEN Stored(g, dst.name, g.store[src.name])
    ELSE IF dst.l = "tg" /\ src.l = "tg" THEN [g EXCEPT !.ptr[dst.name] = g.ptr[src.name]]
    ELSE Wrong(g, "unsupported")

\* bind_copy: fresh storage for a carry, holding a copy of src.
BindCopy(g, p, src) ==
    LET loc == IF src.l = "lazy" THEN Registers(p, src.t) ELSE [src EXCEPT !.name = p]
        d == Located(g, p, loc)
    IN Assign(IF src.l = "tg" THEN [d EXCEPT !.ptr = (p :> g.ptr[src.name]) @@ @] ELSE d, loc, src)

RECURSIVE StmtLow(_, _)
BlockLow(g, b) == Through(LAMBDA a, s : IF Fine(a) THEN StmtLow(a, s) ELSE a, g, b.stmts)

\* Carries are assigned in parallel: a pointer that is another carry's
\* storage is read into a temporary first.
CarryNext(g, yields, params) ==
    LET dst(i) == LocOf(g, params[i])
        src(i) == LocOf(g, yields[i])
        aliased(i) == \E j \in DOMAIN params : j # i /\ dst(j).name = src(i).name
        tmp(i) == params[i] \o "_next"
        kept == {i \in DOMAIN params : aliased(i)}
        staged == [g EXCEPT !.ptr = [n \in {tmp(i) : i \in kept} |->
                                        LET i == CHOOSE i \in kept : tmp(i) = n IN g.ptr[src(i).name]] @@ @]
        from(i) == IF aliased(i) THEN Shared(tmp(i), src(i).t) ELSE src(i)
        known == Through(HasLoc, g, yields)
        ok == Must(known, "unsupported", Fine(known) => \A i \in kept : dst(i).l = "tg" /\ src(i).l = "tg")
    IN IF ~Fine(ok) THEN ok
       ELSE Through(LAMBDA a, i : Assign(a, dst(i), from(i)), staged, [i \in DOMAIN params |-> i])

ForLow(g, s) ==
    LET known == Through(HasLoc, g, s.init)
        bound == IF Fine(known)
                 THEN Through(LAMBDA a, i : BindCopy(a, s.params[i], LocOf(g, s.init[i])), g,
                              [i \in DOMAIN s.init |-> i])
                 ELSE known
        stop == IF s.dyn = "" THEN s.end ELSE Min({s.end, IndexAt(g, s.dyn)})
        turn(a, i) == LET b == BlockLow(Indexed(a, s.index, i), s.body)
                      IN IF Fine(a) /\ Fine(b) THEN CarryNext(b, s.body.yields, s.params) ELSE b
        done == Through(turn, bound, Vector(Max({0, stop - s.start}), LAMBDA k : s.start + k))
    IN IF Fine(done) THEN Through(LAMBDA a, i : Located(a, s.results[i], LocOf(a, s.params[i])), done,
                                  [i \in DOMAIN s.results |-> i])
       ELSE done

MapLow(g, s) ==
    LET known == Through(HasLoc, g, s.arrays)
        src(i) == LocOf(g, s.arrays[i])
        ok == Must(known, "unsupported",
                   Fine(known) => /\ \A i \in DOMAIN s.arrays : src(i).l = "regarr"
                                  /\ Len(s.results) <= Len(s.arrays))
        n == IF s.arrays = <<>> THEN 0 ELSE src(1).n
        empty == Through(LAMBDA a, i : Stored(a, s.results[i], Vector(n, LAMBDA j : <<>>)), ok,
                         [i \in DOMAIN s.results |-> i])
        point(a, i, j) == Located(Stored(a, s.params[i], a.store[src(i).name][j + 1]),
                                  s.params[i], Registers(s.params[i], src(i).t))
        yield(a, i, j) ==
            LET y == LocOf(a, s.body.yields[i])
                same == Must(HasLoc(a, s.body.yields[i]), "unsupported", y.l = "reg" /\ y.t = src(i).t)
            IN IF Fine(same) THEN [a EXCEPT !.store[s.results[i]][j + 1] = a.store[y.name]] ELSE same
        turn(a, j) ==
            LET b == BlockLow(Through(LAMBDA x, i : point(x, i, j), Indexed(a, s.index, j),
                                      [i \in DOMAIN s.params |-> i]), s.body)
            IN IF ~Fine(a) THEN a
               ELSE Through(LAMBDA x, i : IF Fine(x) THEN yield(x, i, j) ELSE x, b,
                            [i \in DOMAIN s.results |-> i])
        done == Through(turn, empty, Vector(n, LAMBDA j : j))
    IN IF ~Fine(ok) THEN ok
       ELSE Through(LAMBDA a, i : Located(a, s.results[i], RegArray(s.results[i], src(i).t, n)), done,
                    [i \in DOMAIN s.results |-> i])

StmtLow(g, s) ==
    CASE s.s = "let"   -> OpLow(g, s.dst, s.op)
      [] s.s = "for"   -> ForLow(g, s)
      [] s.s = "map"   -> MapLow(g, s)
      [] s.s = "roles" -> Wrong(g, "unsupported")

(* What the whole body tells before any of it is lowered. *)
RECURSIVE OpsIn(_)
OpsIn(b) ==
    FlattenSeq([i \in DOMAIN b.stmts |->
        LET s == b.stmts[i]
        IN CASE s.s = "let" -> << s >> [] s.s = "roles" -> <<>> [] OTHER -> OpsIn(s.body)])
RECURSIVE Carries(_)
Carries(b) ==
    UNION {LET s == b.stmts[i]
           IN CASE s.s = "for" -> ToSet(s.init) \cup ToSet(s.params) \cup ToSet(s.body.yields) \cup Carries(s.body)
                [] s.s = "map" -> ToSet(s.arrays) \cup ToSet(s.body.yields) \cup Carries(s.body)
                [] OTHER       -> {}
              : i \in DOMAIN b.stmts}
UsesMma(b) == \E i \in DOMAIN OpsIn(b) : OpsIn(b)[i].op.o = "mma"
\* mma_only_operands: tiles nothing reads by flat element number.
MmaOnly(b) ==
    LET ops == {x.op : x \in ToSet(OpsIn(b))}
        names(op) == {a.v : a \in ToSet(OperandsOf(op))} \cup (IF op.o = "wait" THEN {op.f} ELSE {})
                       \cup (IF op.o = "drop" THEN {op.v} ELSE {}) \cup (IF op.o = "copy" THEN {op.dst} ELSE {})
                       \cup (IF op.o = "array" THEN ToSet(op.vs) ELSE {})
        mma == {op \in ops : op.o = "mma"}
        other == Carries(b) \cup {op.c.v : op \in mma} \cup UNION {names(op) : op \in ops \ mma}
    IN UNION {{op.a.v, op.b.v} : op \in mma} \ other
\* The arena: one static allocation per tile of shared memory, aligned, for
\* a program whose variables have the types tys.
Aligned(n, to) == to * ((n + to - 1) \div to)
Arena(prog, tys, padded, pad) ==
    LET tile(x) == tys[x.dst].t
        ours(x) == x.op.o \in {"alloc", "fill", "load", "stage"} /\ tile(x).space = "tg"
        extra(x) == IF x.dst \in padded THEN tile(x).shape[1] * pad * SizeOf(tile(x).dt) ELSE 0
        align == IF UsesMma(prog.body) THEN 32 ELSE 16
    IN Through(LAMBDA n, x : Aligned(n, align) + Bytes(tile(x)) + extra(x), 0,
               SelectSeq(OpsIn(prog.body), ours))

\* lower_sched, and its code run, an instance after another, from the last
\* when backwards; err is "" when all is well.
Lower(prog, globals, scalars, tys, target, s, unit, backwards) ==
    LET round(i) == Strict([e \in DOMAIN globals[i] |-> Rounded(prog.params[i].dt, unit, globals[i][e])])
        warps == IF s.warps = <<>> THEN s.threads ELSE s.simd * s.warps[1] * s.warps[2]
        start == [prog |-> prog, s |-> s, err |-> "", env |-> <<>>, locs |-> <<>>, store |-> <<>>,
                  ptr |-> <<>>, dq |-> <<>>, views |-> <<>>, reads |-> {}, writes |-> {}, staged |-> 0, scratch |-> 0,
                  xs |-> <<>>, unit |-> unit, globals |-> Strict([i \in DOMAIN globals |-> round(i)]),
                  padded |-> IF UsesMma(prog.body) /\ s.pad > 0 THEN MmaOnly(prog.body) ELSE {}]
        fits == Must(Must(start, "unsupported", UsesMma(prog.body) => s.threads = warps), "unsupported",
                     s.threads > 0 /\ s.threads % s.simd = 0 /\ s.threads <= target.threads)
        ready == Through(LAMBDA a, i : Indexed(a, prog.dyn[i][1], scalars[i]), fits, [i \in DOMAIN scalars |-> i])
        pid(a, v, i) == IF v = "" THEN a ELSE Indexed(a, v, i)
        instance(a, i) ==
            IF ~Fine(a) THEN a
            ELSE Barrier(BlockLow(pid(pid([a EXCEPT !.locs = <<>>, !.store = <<>>], prog.pid, i % prog.grid),
                                      prog.pid2, i \div prog.grid), prog.body))
        count == prog.grid * prog.grid2
        done == Through(instance, ready,
                        Vector(count, LAMBDA i : IF backwards THEN count - 1 - i ELSE i))
    IN Must(done, "unsupported",
            Arena(prog, tys, start.padded, s.pad) + 4 * done.scratch <= Min({target.bytes, s.shared}))
=============================================================================
