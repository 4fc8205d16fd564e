------------------------------- MODULE Interp -------------------------------
(***************************************************************************)
(* The reference interpreter of lex-front/interp.rs.  Its state is a       *)
(* record it:                                                              *)
(*   env      the live values; a move takes the value out                  *)
(*   globals  the tensors, row-major sequences, one per parameter          *)
(*   err      the first error, "" while there is none                      *)
(*   rings    what was committed to each open pipe, and received by each   *)
(*            consumer: Pipes models how the roles of a region interleave  *)
(*            and wait; here a role runs after those that feed it          *)
(*   unit     the unit an F16 value is rounded to (Arith)                  *)
(* and, for comparison with what the checker promises,                     *)
(*   tys      the type the checker gave each variable                      *)
(*   held, peak   threadgroup bytes pinned outside env, and the most ever  *)
(*   writes   the elements stored: <<parameter, element, instance>>        *)
(***************************************************************************)
EXTENDS KernelIR, Arith

Wrong(it, what) == IF it.err = "" THEN [it EXCEPT !.err = what] ELSE it
Fine(it) == it.err = ""
Must(it, what, cond) == IF Fine(it) /\ ~cond THEN Wrong(it, what) ELSE it

(* Values. *)
TileOf(t, data) == [k |-> "tile", t |-> t, data |-> data, init |-> TRUE]
\* The static type of a value; handles, slots and shares name their pipe only.
TypeOf(v) == CASE v.k \in {"tile", "future"} -> [k |-> v.k, t |-> v.t]
               [] v.k = "array" -> [k |-> "array", t |-> v.t, n |-> Len(v.ts)]
               [] OTHER -> [k |-> v.k]
SameType(v, ty) == \A f \in DOMAIN TypeOf(v) : TypeOf(v)[f] = ty[f]
LiveBytes(env) == FoldSet(LAMBDA v, n : n + TgBytes(TypeOf(env[v])), 0, DOMAIN env)

Bind(it, v, val) ==
    LET env == (v :> val) @@ it.env
    IN IF ~Fine(it) THEN it
       ELSE [Must(it, "type", SameType(val, it.tys[v]))
                EXCEPT !.env = env, !.peak = Max({@, it.held + LiveBytes(env)})]
BindAll(it, vs, vals) ==
    Through(LAMBDA a, i : Bind(a, vs[i], vals[i]), it, [i \in DOMAIN vs |-> i])

\* take: the value leaves the environment; it is in it.val.
Without(it, v) == [it EXCEPT !.env = [x \in DOMAIN @ \ {v} |-> @[x]]]
Take(it, v) ==
    IF ~Fine(it) THEN it
    ELSE IF v \notin DOMAIN it.env THEN Wrong(it, "moved")
    ELSE [Without(it, v) EXCEPT !.val = it.env[v]]
TakeAll(it, vs) ==
    Through(LAMBDA a, v : LET r == Take(a, v)
                          IN IF Fine(r) THEN [r EXCEPT !.got = Append(@, r.val)] ELSE r,
            [it EXCEPT !.got = <<>>], vs)

Defined(it, v) == v \in DOMAIN it.env
IndexAt(it, v) == it.env[v].i
Eval(it, e) == e.c + Total([k \in DOMAIN e.terms |-> e.terms[k][2] * IndexAt(it, e.terms[k][1])])
Known(it, e) == \A k \in DOMAIN e.terms : Defined(it, e.terms[k][1])

(* Windows of global tensors. *)
Inside(it, w) ==
    LET shape == it.prog.params[w.param].shape
    IN \A d \in DOMAIN shape :
        /\ Known(it, w.off[d])
        /\ Eval(it, w.off[d]) >= 0
        /\ Eval(it, w.off[d]) + w.shape[d] <= shape[d]
Offsets(it, w) == Strict([d \in DOMAIN w.off |-> Eval(it, w.off[d])])
Strides(shape) == Strict([d \in DOMAIN shape |-> Prod(SubSeq(shape, d + 1, Len(shape)))])

\* Element offsets, from 0, of a window in row-major order of the window.
ViewElems(shape, off, win) ==
    LET s == Strides(shape)
        w == Strides(win)
    IN Vector(Prod(win), LAMBDA i :
           Total([d \in DOMAIN shape |-> (off[d] + ((i \div w[d]) % win[d])) * s[d]]))

ReadGlobal(it, param, off, ty) ==
    LET at == ViewElems(it.prog.params[param].shape, off, ty.shape)
    IN TileOf(ty, Strict([i \in DOMAIN at |->
                             Rounded(ty.dt, it.unit, it.globals[param][at[i] + 1])]))

(* Operands: moved out, or read in place. *)
Operand(it, a) ==
    LET v == it.env[a.v]
        i == IndexAt(it, a.i)
        log == it.rings[v.pipe]
    IN IF ~Fine(it) THEN it
       ELSE IF ~Defined(it, a.v) THEN Wrong(it, "moved")
       ELSE LET r == CASE a.m \in {"move", "borrow"} ->
                            [Must(it, "type", v.k = "tile") EXCEPT !.val = v]
                       [] a.m = "elem" ->
                            LET e == Must(Must(it, "type", v.k = "array"),
                                          "bounds", i >= 0 /\ i < Len(v.ts))
                            IN IF Fine(e) THEN [e EXCEPT !.val = v.ts[i + 1]] ELSE e
                       [] a.m = "part" ->
                            LET e == Must(it, "type", v.k = "share")
                            IN IF Fine(e) THEN [e EXCEPT !.val = log[v.n][a.n]] ELSE e
                u == Must(r, "uninitialised", r.val.init)
            IN IF Fine(u) /\ a.m = "move" THEN Without(u, a.v) ELSE u
Operands(it, args) ==
    Through(LAMBDA a, x : LET r == Operand(a, x)
                          IN IF Fine(r) THEN [r EXCEPT !.got = Append(@, r.val)] ELSE r,
            [it EXCEPT !.got = <<>>], args)

NoVal == [k |-> "none"]
Returns(it, val) == IF Fine(it) THEN [it EXCEPT !.val = val] ELSE it
\* A fresh register tile of n = Prod(shape) values f(0) ..
Fresh(it, dt, shape, f(_)) ==
    TileOf(Reg(dt, shape), Vector(Prod(shape), LAMBDA i : Rounded(dt, it.unit, f(i))))

SumOf(n, f(_)) == LET s[i \in 0 .. n] == IF i = 0 THEN 0 ELSE Plus2(s[i - 1], f(i - 1)) IN s[n]
MaxOf(n, f(_)) ==
    LET s[i \in 0 .. n] == IF i = 0 THEN NegInf ELSE Greater(s[i - 1], f(i - 1)) IN s[n]

\* Element [i, p] of a, and of b^T or b.
Product(a, b, nt, i, j) ==
    LET k == a.t.shape[2]
        n == IF nt THEN b.t.shape[1] ELSE b.t.shape[2]
    IN SumOf(k, LAMBDA p : Times(a.data[i * k + p + 1],
                                 b.data[(IF nt THEN j * k + p ELSE p * n + j) + 1]))

MatMulValue(it, op, a, b) ==
    LET n == IF op.o = "matmulnt" THEN b.t.shape[1] ELSE b.t.shape[2]
    IN Fresh(it, op.acc, <<a.t.shape[1], n>>, LAMBDA e :
           Product(a, b, op.o = "matmulnt", e \div n, e % n))

MmaValue(it, c, a, b) ==
    LET n == b.t.shape[1]
    IN [Fresh(it, c.t.dt, c.t.shape, LAMBDA e :
            Plus2(c.data[e + 1], Product(a, b, TRUE, e \div n, e % n)))
           EXCEPT !.t = c.t]

\* Where element e of a finds its partner in b.
Partner(a, b, e) ==
    LET two == Len(a.t.shape) = 2
    IN IF two /\ b.t.shape = <<a.t.shape[1]>> THEN e \div a.t.shape[2]
       ELSE IF two /\ b.t.shape = <<1, a.t.shape[2]>> THEN e % a.t.shape[2]
       ELSE e
BinaryValue(it, f, a, b) ==
    Fresh(it, a.t.dt, a.t.shape, LAMBDA e : Apply2(f, a.data[e + 1], b.data[Partner(a, b, e) + 1]))

ButterflyValue(it, a, stride) ==
    LET low(e) == (e \div stride) % 2 = 0
    IN Fresh(it, a.t.dt, a.t.shape, LAMBDA e :
           IF low(e) THEN Plus2(a.data[e + 1], a.data[e + stride + 1])
           ELSE Minus(a.data[e - stride + 1], a.data[e + 1]))

\* Quantised values meet the scale, and the min, of their group.
DequantCols(op, q) ==
    q.t.shape[2] * (IF op.o = "dequant4" /\ op.mode = "pairs" THEN 2 ELSE 1)
DequantValue(it, op, q, sc, mins) ==
    LET c == DequantCols(op, q)
        x(e) == IF op.o = "dequant" THEN q.data[e + 1]
                ELSE IF op.mode = "pairs" THEN Nibble(Byte(q.data[(e \div 2) + 1]), e % 2 = 1)
                ELSE Nibble(Byte(q.data[e + 1]), op.mode = "high")
        g(e) == (e \div c) * (c \div op.group) + ((e % c) \div op.group)
        scaled(e) == Times(x(e), sc.data[g(e) + 1])
    IN Fresh(it, "F32", <<q.t.shape[1], c>>, LAMBDA e :
           IF mins = <<>> THEN scaled(e) ELSE Minus(scaled(e), mins[1].data[g(e) + 1]))

Fp4Value(it, op, q, sc, gs) ==
    LET c == 2 * q.t.shape[2]
        g(e) == (e \div c) * (c \div op.group) + ((e % c) \div op.group)
        code(e) == Nibble(Byte(q.data[(e \div 2) + 1]), e % 2 = 1)
    IN Fresh(it, "F32", <<q.t.shape[1], c>>, LAMBDA e :
           Times(Times(E2m1(code(e)), E4m3(Byte(sc.data[g(e) + 1]))), gs.data[(e \div c) + 1]))

TernaryValue(it, op, q, sc) ==
    LET per == TritBytes(op.trits)
        groups == q.t.shape[2] \div per
        c == groups * op.group
        code(e) ==
            LET site == TritSite(op.trits, (e % c) % op.group)
                at == (e \div c) * groups * per + ((e % c) \div op.group) * per + site[1]
            IN TritCode(op.trits, Byte(q.data[at + 1]), site[2])
    IN Fresh(it, "F32", <<q.t.shape[1], c>>, LAMBDA e :
           Times(Number(code(e) - 1), sc.data[(e \div op.group) + 1]))

Dequant6Value(it, op, lo, hi, sc) ==
    LET c == 2 * lo.t.shape[2]
        l(e) == Nibble(Byte(lo.data[(e \div 2) + 1]), e % 2 = 1)
        h(e) == (Byte(hi.data[(e \div 4) + 1]) \div 4 ^ (e % 4)) % 4
    IN Fresh(it, "F32", <<lo.t.shape[1], c>>, LAMBDA e :
           Times(Number(l(e) + 16 * h(e) - 32), sc.data[(e \div op.group) + 1]))

RowReduceValue(it, f, a) ==
    LET n == a.t.shape[2]
        at(i, p) == a.data[i * n + p + 1]
    IN Fresh(it, a.t.dt, <<a.t.shape[1]>>, LAMBDA i :
           IF f = "max" THEN MaxOf(n, LAMBDA p : at(i, p)) ELSE SumOf(n, LAMBDA p : at(i, p)))

MaskValue(it, op, a) ==
    Fresh(it, a.t.dt, a.t.shape, LAMBDA e :
        IF Eval(it, op.first) + (e % a.t.shape[2]) >= Eval(it, op.limit)
        THEN NegInf ELSE a.data[e + 1])

\* What an operation on tiles computes from its operands x.
Compute(it, op, x) ==
    LET each(f(_)) == Fresh(it, x[1].t.dt, x[1].t.shape, LAMBDA e : f(x[1].data[e + 1]))
    IN CASE op.o = "dup"       -> x[1]
         [] op.o = "stage"     -> [Fresh(it, op.dt, x[1].t.shape, LAMBDA e : x[1].data[e + 1])
                                      EXCEPT !.t.space = "tg"]
         [] op.o = "mma"       -> MmaValue(it, x[1], x[2], x[3])
         [] op.o \in {"matmul", "matmulnt"} -> MatMulValue(it, op, x[1], x[2])
         [] op.o = "binary"    -> BinaryValue(it, op.f, x[1], x[2])
         [] op.o = "unary"     -> each(LAMBDA v : Apply1(op.f, v))
         [] op.o = "scale"     -> each(LAMBDA v : Times(v, op.x))
         [] op.o = "swap"      -> Fresh(it, x[1].t.dt, x[1].t.shape, LAMBDA e :
                                      x[1].data[IF e % 2 = 0 THEN e + 2 ELSE e])
         [] op.o = "butterfly" -> ButterflyValue(it, x[1], op.stride)
         [] op.o \in {"dequant", "dequant4"} ->
                DequantValue(it, op, x[1], x[2], SubSeq(x, 3, Len(x)))
         [] op.o = "fp4"       -> Fp4Value(it, op, x[1], x[2], x[3])
         [] op.o = "ternary"   -> TernaryValue(it, op, x[1], x[2])
         [] op.o = "dequant6"  -> Dequant6Value(it, op, x[1], x[2], x[3])
         [] op.o = "rowreduce" -> RowReduceValue(it, op.f, x[1])
         [] op.o = "mask"      -> MaskValue(it, op, x[1])
         [] op.o = "convert"   -> Fresh(it, op.dt, x[1].t.shape, LAMBDA e : x[1].data[e + 1])

(* Operations that touch memory or the environment itself. *)
LoadRun(it, op) ==
    LET w == Must(it, "bounds", Inside(it, op.view))
    IN Returns(w, ReadGlobal(w, op.view.param, Offsets(w, op.view), op.ty))

\* The offsets are those of the issue, the contents those of the wait.
CopyRun(it, op) ==
    LET w == Take(Must(it, "bounds", Inside(it, op.view)), op.dst)
        d == Must(w, "type", w.val.k = "tile")
    IN Returns(d, [k |-> "future", t |-> d.val.t, param |-> op.view.param,
                   off |-> Offsets(it, op.view)])
WaitRun(it, op) ==
    LET f == Take(it, op.f)
        p == Must(f, "type", f.val.k = "future")
    IN Returns(p, ReadGlobal(p, p.val.param, p.val.off, p.val.t))

StoreRun(it, op) ==
    LET a == Operands(it, <<op.a>>)
        w == Must(a, "bounds", Inside(a, op.view))
        param == op.view.param
        p == w.prog.params[param]
        at == ViewElems(p.shape, Offsets(w, op.view), op.view.shape)
        of(e) == CHOOSE i \in DOMAIN at : at[i] + 1 = e
        elems == {at[i] + 1 : i \in DOMAIN at}
        new == Strict([e \in DOMAIN w.globals[param] |->
                   IF e \in elems THEN Rounded(p.dt, w.unit, w.got[1].data[of(e)])
                   ELSE w.globals[param][e]])
    IN IF Fine(w)
       THEN [w EXCEPT !.globals[param] = new, !.val = NoVal,
                      !.writes = @ \cup {<<param, e, w.instance>> : e \in elems}]
       ELSE w

AddWindowRun(it, op) ==
    LET a == Operands(it, <<op.a>>)
        w == Must(a, "bounds", Inside(a, op.view))
        g == ReadGlobal(w, op.view.param, Offsets(w, op.view), Reg("F32", op.view.shape))
        t == w.got[1]
    IN Returns(w, TileOf(t.t, Strict([i \in DOMAIN t.data |-> Plus2(t.data[i], g.data[i])])))

ArrayRun(it, op) ==
    LET a == TakeAll(it, op.vs)
        t == Must(a, "type", \A i \in DOMAIN a.got : a.got[i].k = "tile")
    IN Returns(t, [k |-> "array", t |-> t.got[1].t, ts |-> t.got])

AcquireRun(it, op) ==
    LET h == it.env[op.h]
        r == Must(Must(it, "moved", Defined(it, op.h)), "type", h.k = "producer")
    IN Returns(r, [k |-> "slot", pipe |-> h.pipe])
CommitRun(it, op) ==
    LET h == it.env[op.h]
        r == Take(Must(Must(it, "moved", Defined(it, op.h)), "type", h.k = "producer"), op.slot)
        s == Must(Must(r, "type", r.val.k = "slot" /\ r.val.pipe = h.pipe),
                  "bounds", \A i \in DOMAIN op.views : Inside(it, op.views[i]))
        part(i) == LET w == op.views[i]
                   IN ReadGlobal(it, w.param, Offsets(it, w),
                                 TileTy(it.prog.params[w.param].dt, w.shape, "tg"))
    IN IF Fine(s)
       THEN [s EXCEPT !.rings[h.pipe] = Append(@, Strict([i \in DOMAIN op.views |-> part(i)])),
                      !.val = NoVal]
       ELSE s
ReceiveRun(it, op) ==
    LET h == it.env[op.h]
        key == <<h.pipe, h.c>>
        r == Must(Must(it, "moved", Defined(it, op.h)), "type", h.k = "consumer")
        w == Must(r, "deadlock", it.received[key] < Len(it.rings[h.pipe]))
    IN IF Fine(w)
       THEN [w EXCEPT !.received[key] = @ + 1,
                      !.val = [k |-> "share", pipe |-> h.pipe, n |-> it.received[key] + 1]]
       ELSE w
ReleaseRun(it, op) ==
    LET h == it.env[op.h]
        s == Take(Must(Must(it, "moved", Defined(it, op.h)), "type", h.k = "consumer"), op.share)
    IN Returns(Must(s, "type", s.val.k = "share" /\ s.val.pipe = h.pipe), NoVal)

OpRun(it, op) ==
    CASE op.o = "alloc"     -> Returns(it, [TileOf(op.ty, Vector(Elems(op.ty), LAMBDA e : 0))
                                              EXCEPT !.init = FALSE])
      [] op.o = "fill"      -> Returns(it, TileOf(op.ty, Vector(Elems(op.ty), LAMBDA e :
                                              Rounded(op.ty.dt, it.unit, op.x))))
      [] op.o = "load"      -> LoadRun(it, op)
      [] op.o = "copy"      -> CopyRun(it, op)
      [] op.o = "wait"      -> WaitRun(it, op)
      [] op.o = "store"     -> StoreRun(it, op)
      [] op.o = "drop"      -> Returns(Take(it, op.v), NoVal)
      [] op.o = "addwindow" -> AddWindowRun(it, op)
      [] op.o = "array"     -> ArrayRun(it, op)
      [] op.o = "acquire"   -> AcquireRun(it, op)
      [] op.o = "commit"    -> CommitRun(it, op)
      [] op.o = "receive"   -> ReceiveRun(it, op)
      [] op.o = "release"   -> ReleaseRun(it, op)
      [] OTHER              -> LET a == Operands(it, OperandsOf(op))
                               IN Returns(a, Compute(a, op, a.got))

(* Statements. *)
RECURSIVE StmtRun(_, _)

\* The statements, then the yields taken out of the environment, in it.got.
BlockRun(it, b) ==
    TakeAll(Through(LAMBDA a, s : IF Fine(a) THEN StmtRun(a, s) ELSE a, it, b.stmts), b.yields)

LetRun(it, s) ==
    LET r == OpRun(it, s.op)
    IN IF Fine(r) /\ s.dst # "" /\ r.val # NoVal THEN Bind(r, s.dst, r.val) ELSE r

Indexed(it, v, i) == [it EXCEPT !.env = (v :> [k |-> "index", i |-> i]) @@ @]

ForRun(it, s) ==
    LET entered == TakeAll(it, s.init)
        stop == IF s.dyn = "" THEN s.end ELSE Min({s.end, IndexAt(it, s.dyn)})
        turn(a, i) == IF Fine(a) THEN BlockRun(BindAll(Indexed(a, s.index, i), s.params, a.got),
                                               s.body)
                      ELSE a
        done == Through(turn, entered,
                        Strict([k \in 1 .. Max({0, stop - s.start}) |-> s.start + k - 1]))
    IN IF Fine(done) THEN BindAll(Without(done, s.index), s.results, done.got) ELSE done

\* The elements still to come and those already yielded pin their storage.
MapRun(it, s) ==
    LET taken == TakeAll(it, s.arrays)
        arrays == taken.got
        n == IF arrays = <<>> THEN 0 ELSE Len(arrays[1].ts)
        ok == Must(taken, "type", \A i \in DOMAIN arrays : /\ arrays[i].k = "array"
                                                         /\ Len(arrays[i].ts) = n)
        size(ts) == Total([j \in DOMAIN ts |-> TgBytes(TypeOf(ts[j]))])
        pinned(outs, i) ==
            Total([a \in DOMAIN arrays |-> size(SubSeq(arrays[a].ts, i + 2, n))])
              + Total([r \in DOMAIN outs |-> size(outs[r])])
        turn(a, i) ==
            IF ~Fine(a.it) THEN a
            ELSE LET b == BlockRun(
                            BindAll([Indexed(a.it, s.index, i) EXCEPT
                                        !.held = it.held + pinned(a.outs, i)],
                                    s.params, [k \in DOMAIN arrays |-> arrays[k].ts[i + 1]]),
                            s.body)
                     t == Must(b, "type", \A r \in DOMAIN b.got : b.got[r].k = "tile")
                 IN [it |-> t,
                     outs |-> IF Fine(t)
                              THEN Strict([r \in DOMAIN a.outs |-> Append(a.outs[r], t.got[r])])
                              ELSE a.outs]
        all == Through(turn, [it |-> ok, outs |-> [r \in DOMAIN s.results |-> <<>>]],
                       [k \in 1 .. n |-> k - 1])
        back == [Without(all.it, s.index) EXCEPT !.held = it.held]
    IN IF Fine(back)
       THEN BindAll(back, s.results,
                    [r \in DOMAIN s.results |->
                        [k |-> "array", t |-> all.outs[r][1].t, ts |-> all.outs[r]]])
       ELSE back

\* Roles that only produce run first; each sees a copy of the environment.
RolesRun(it, s) ==
    LET handles == Through(LAMBDA a, p :
                       BindAll(Bind([a EXCEPT !.rings = (p.ty.id :> <<>>) @@ @,
                                              !.received = [k \in {<<p.ty.id, c>> : c \in 1 .. p.ty.consumers} |-> 0] @@ @],
                                    p.ty.id, [k |-> "producer", pipe |-> p.ty.id]),
                               p.handles,
                               [c \in DOMAIN p.handles |->
                                   [k |-> "consumer", pipe |-> p.ty.id, c |-> c]]),
                       it, s.pipes)
        move(a, r) == LET t == TakeAll(a.it, r.inputs)
                      IN [it |-> t, vals |-> Append(a.vals, t.got)]
        moved == Through(move, [it |-> handles, vals |-> <<>>], s.roles)
        ring == Total([i \in DOMAIN s.pipes |->
                          s.pipes[i].ty.stages * SlotBytes(s.pipes[i].ty)])
        base == it.held + ring + LiveBytes(moved.it.env)
        consumes(i) == \E v \in DOMAIN moved.vals[i] : moved.vals[i][v].k = "consumer"
        roles == [i \in DOMAIN s.roles |-> i]
        order == SelectSeq(roles, LAMBDA i : ~consumes(i)) \o SelectSeq(roles, consumes)
        role(a, i) ==
            LET r == s.roles[i]
                b == BlockRun(BindAll([a.it EXCEPT !.env = moved.it.env, !.peak = base,
                                                   !.held = it.held + ring],
                                      r.params, moved.vals[i]), r.body)
            IN IF ~Fine(a.it) THEN a
               ELSE [it |-> b, outs |-> (i :> b.got) @@ a.outs, extra |-> a.extra + b.peak - base,
                     left |-> a.left \cup {v \in DOMAIN b.env \ DOMAIN moved.it.env :
                                              b.env[v].k \notin {"producer", "consumer"}}]
        ran == Through(role, [it |-> moved.it, outs |-> <<>>, extra |-> 0, left |-> {}], order)
        back == [Must(ran.it, "leak", ran.left = {}) EXCEPT
                    !.env = moved.it.env, !.held = it.held,
                    !.peak = Max({moved.it.peak, base + ran.extra})]
    IN IF ~Fine(moved.it) THEN moved.it
       ELSE IF ~Fine(back) THEN back
       ELSE Through(LAMBDA a, i : BindAll(a, s.roles[i].results, ran.outs[i]), back, roles)

StmtRun(it, s) ==
    CASE s.s = "let"   -> LetRun(it, s)
      [] s.s = "for"   -> ForRun(it, s)
      [] s.s = "map"   -> MapRun(it, s)
      [] s.s = "roles" -> RolesRun(it, s)

\* The instances of a program run one after another; the scalars stay in env.
Run(prog, globals, scalars, unit, tys) ==
    LET round(i) == Strict([e \in DOMAIN globals[i] |->
                               Rounded(prog.params[i].dt, unit, globals[i][e])])
        start == [prog |-> prog, env |-> <<>>,
                  globals |-> Strict([i \in DOMAIN globals |-> round(i)]),
                  err |-> "", rings |-> <<>>, received |-> <<>>, unit |-> unit, tys |-> tys,
                  held |-> 0, peak |-> 0, writes |-> {}, instance |-> 0,
                  val |-> NoVal, got |-> <<>>]
        scalar(a, i) == LET d == prog.dyn[i]
                        IN Must(Indexed(a, d[1], scalars[i]), "scalar", scalars[i] <= d[2])
        ready == IF Len(scalars) # Len(prog.dyn) \/ Len(globals) # Len(prog.params)
                 THEN Wrong(start, "arguments")
                 ELSE Through(scalar, start, [i \in DOMAIN scalars |-> i])
        pid(a, v, i) == IF v = "" THEN a ELSE Indexed(a, v, i)
        instance(a, i) ==
            IF ~Fine(a) THEN a
            ELSE BlockRun(pid(pid([a EXCEPT !.instance = i], prog.pid, i % prog.grid),
                              prog.pid2, i \div prog.grid), prog.body)
    IN Through(instance, ready, [i \in 1 .. prog.grid * prog.grid2 |-> i - 1])
=============================================================================
