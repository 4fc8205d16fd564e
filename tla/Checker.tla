------------------------------ MODULE Checker ------------------------------
(***************************************************************************)
(* The linearity checker of lex-front/check.rs.  Its state is a record c:  *)
(*   slots     what is in scope: type, live, loop depth of the definition  *)
(*   ranges    the range of each index, <<>> for an empty loop             *)
(*   poisoned  values whose definition failed; their uses stay silent      *)
(*   depth, live, peak, mult, traffic, role                                *)
(*             as in the code (live_tg, peak_threadgroup_bytes, in_role)   *)
(*   diags     the kinds reported so far                                   *)
(*   ok        FALSE after the `?` of an early return                      *)
(*   ty, got, rng   the type, operand types or range last computed         *)
(* Every rule maps such a record to the next one.                          *)
(***************************************************************************)
EXTENDS KernelIR

NoTy == [k |-> "none"]

Err(c, kind) == [c EXCEPT !.diags = Append(@, kind), !.ok = FALSE]
Fail(c) == [c EXCEPT !.ok = FALSE]
\* An early return with a diagnostic, unless cond; cond is not looked at after one.
Need(c, kind, cond) == IF c.ok /\ ~cond THEN Err(c, kind) ELSE c
Gives(c, ty) == IF c.ok THEN [c EXCEPT !.ty = ty] ELSE c
NoResult(c) == Gives(c, NoTy)

Bump(c, bytes) == [c EXCEPT !.live = @ + bytes, !.peak = Max({@, c.live + bytes})]

\* a mutant
DefineTiles(c, v, ty) ==
    [Bump(c, IF ty.k = "future" THEN 0 ELSE TgBytes(ty)) EXCEPT
        !.slots = (v :> [ty |-> ty, live |-> TRUE, depth |-> c.depth]) @@ @,
        !.tys = (v :> ty) @@ @]

Define(c, v, ty) ==
    [Bump(c, TgBytes(ty)) EXCEPT
        !.slots = (v :> [ty |-> ty, live |-> TRUE, depth |-> c.depth]) @@ @,
        !.tys = (v :> ty) @@ @]
DefineAll(c, vs, tys) ==
    Through(LAMBDA a, i : Define(a, vs[i], tys[i]), c,
            [i \in 1 .. Min({Len(vs), Len(tys)}) |-> i])

Borrowed(c, v) ==
    IF ~c.ok THEN c
    ELSE IF v \in c.poisoned THEN Fail(c)
    ELSE IF v \notin DOMAIN c.slots THEN Err(c, "Scope")
    ELSE LET s == c.slots[v]
         IN Gives(Need(Need(c, "Type", Linear(s.ty)), "UseAfterMove", s.live), s.ty)

Taken(c, v) ==
    IF c.ok THEN [Bump(c, -TgBytes(c.ty)) EXCEPT !.slots[v].live = FALSE] ELSE c

\* a mutant
ConsumeAnywhere(c, v) == Taken(Borrowed(c, v), v)

Consume(c, v) ==
    Taken(Need(Borrowed(c, v), "ConsumeOuter", c.slots[v].depth >= c.depth), v)

RangeOf(c, v) ==
    IF ~c.ok THEN c
    ELSE IF v \in DOMAIN c.slots THEN
        IF c.slots[v].ty = Index THEN [c EXCEPT !.rng = c.ranges[v]] ELSE Err(c, "Type")
    ELSE IF v \in c.poisoned THEN Fail(c) ELSE Err(c, "Scope")

\* The interval of an affine expression; an index of an empty loop adds nothing.
ExprRange(c, e) ==
    LET term(a, t) ==
            LET r == RangeOf(a.c, t[1])
                x == r.rng[1] * t[2]
                y == r.rng[2] * t[2]
            IN IF ~r.ok \/ r.rng = <<>> THEN [a EXCEPT !.c = r]
               ELSE [c |-> r, lo |-> a.lo + Min({x, y}), hi |-> a.hi + Max({x, y})]
        all == Through(term, [c |-> c, lo |-> e.c, hi |-> e.c], e.terms)
    IN IF all.c.ok THEN [all.c EXCEPT !.rng = <<all.lo, all.hi>>] ELSE all.c

(* Operands: borrows before moves, and no value both in one operation. *)
BorrowArg(c, a) ==
    LET r == Borrowed(c, a.v)
        g == RangeOf(r, a.i)
    IN CASE a.m = "borrow" -> r
         [] a.m = "elem" ->
                Gives(Need(Need(g, "Type", r.ty.k = "array"),
                           "Bounds", g.rng = <<>> \/ (g.rng[1] >= 0 /\ g.rng[2] < r.ty.n)),
                      Tile(r.ty.t))
         [] a.m = "part" ->
                Gives(Need(Need(r, "Type", r.ty.k = "share"),
                           "Shape", a.n \in DOMAIN r.ty.p.elem),
                      Tile(r.ty.p.elem[a.n]))

Args(c, args) ==
    LET clash == \E i, j \in DOMAIN args :
                    i # j /\ args[i].m = "move" /\ args[j].v = args[i].v
        put(a, i) == IF a.ok THEN [a EXCEPT !.got = (i :> a.ty) @@ @] ELSE a
        borrow(a, i) == IF args[i].m = "move" THEN a ELSE put(BorrowArg(a, args[i]), i)
        move(a, i)   == IF args[i].m = "move" THEN put(Consume(a, args[i].v), i) ELSE a
        order == [i \in DOMAIN args |-> i]
        start == Need([c EXCEPT !.got = <<>>], "MovedWhileBorrowed", ~clash)
    IN Through(move, Through(borrow, start, order), order)

IsTile(ty)  == ty.k = "tile"
Plain(ty)   == IsTile(ty) /\ ty.t.space # "frag"
Numeric(ty) == Plain(ty) /\ ty.t.dt # "I8"
NotNarrower(from, to) == SizeOf(to) >= SizeOf(from)

Window(c, w, writing) ==
    LET p == c.prog.params[w.param]
        fits(a, d) == LET r == ExprRange(a, w.off[d])
                      IN Need(r, "Bounds",
                              r.rng[1] >= 0 /\ r.rng[2] + w.shape[d] <= p.shape[d])
        known == Need(c, "Scope", w.param \in DOMAIN c.prog.params)
        ranked == Need(Need(known, "Type", writing => p.writable),
                       "Shape", Len(w.off) = Len(p.shape) /\ Len(w.shape) = Len(p.shape))
    IN IF ranked.ok THEN Through(fits, ranked, [d \in DOMAIN p.shape |-> d]) ELSE ranked
DtOf(c, w) == c.prog.params[w.param].dt

(* The rule of each operation. *)
NewTile(c, op) ==
    Gives(Need(c, "Type", op.ty.space # "global" /\ (op.o = "alloc" => op.ty.space # "frag")),
          Tile(op.ty))

LoadRule(c, op) ==
    Gives(Need(Need(Window(c, op.view, FALSE), "Shape", op.view.shape = op.ty.shape),
               "Narrowing", NotNarrower(DtOf(c, op.view), op.ty.dt)),
          Tile(op.ty))

CopyRule(c, op) ==
    LET d == Consume(Window(c, op.view, FALSE), op.dst)
        t == d.ty.t
    IN Gives(Need(Need(d, "Type", Plain(d.ty) /\ t.space = "tg"),
                  "Shape", op.view.shape = t.shape /\ DtOf(c, op.view) = t.dt),
             Future(t))

WaitRule(c, op) ==
    LET f == Consume(c, op.f) IN Gives(Need(f, "Type", f.ty.k = "future"), Tile(f.ty.t))

Squeeze(shape) == SelectSeq(shape, LAMBDA d : d # 1)

StoreRule(a, op) ==
    LET t == a.got[1].t
        dt == DtOf(a, op.view)
        s == Need(Need(a, "Type", IsTile(a.got[1])),
                  "Shape", Squeeze(t.shape) = Squeeze(op.view.shape))
    IN NoResult(Need(Need(s, "Narrowing", NotNarrower(t.dt, dt)), "Type", t.dt = dt))

DropRule(c, op) ==
    LET d == Consume(c, op.v) IN NoResult(Need(d, "Protocol", d.ty.k \notin {"slot", "share"}))

DupRule(a, op) ==
    Gives(Need(a, "Type", Plain(a.got[1])), a.got[1])

AddWindowRule(a, op) ==
    LET t == a.got[1].t
    IN Gives(Need(Need(a, "Type", /\ IsTile(a.got[1]) /\ t.space = "frag" /\ t.dt = "F32"
                                  /\ DtOf(a, op.view) = "F32"),
                  "Shape", op.view.shape = t.shape),
             a.got[1])

StageRule(a, op) ==
    Gives(Need(a, "Type", Numeric(a.got[1])), Tile(TileTy(op.dt, a.got[1].t.shape, "tg")))

MmaRule(a, op) ==
    LET t(i) == a.got[i].t
        operand(ty) == Plain(ty) /\ ty.t.space = "tg" /\ ty.t.dt = "F16" /\ Len(ty.t.shape) = 2
    IN Gives(Need(Need(a, "Type", /\ IsTile(a.got[1]) /\ t(1).space = "frag" /\ t(1).dt = "F32"
                                  /\ operand(a.got[2]) /\ operand(a.got[3])),
                  "Shape", /\ t(1).shape = <<t(2).shape[1], t(3).shape[1]>>
                           /\ t(2).shape[2] = t(3).shape[2]),
             a.got[1])

MatMulRule(a, op) ==
    LET ta == a.got[1].t
        tb == a.got[2].t
        kb == tb.shape[IF op.o = "matmulnt" THEN 2 ELSE 1]
        n  == tb.shape[IF op.o = "matmulnt" THEN 1 ELSE 2]
        s == Need(Need(a, "Type", Numeric(a.got[1]) /\ Numeric(a.got[2])),
                  "Shape", Len(ta.shape) = 2 /\ Len(tb.shape) = 2 /\ ta.shape[2] = kb)
    IN Gives(Need(s, "Narrowing", NotNarrower(ta.dt, op.acc) /\ NotNarrower(tb.dt, op.acc)),
             Tile(Reg(op.acc, <<ta.shape[1], n>>)))

\* b is of a's shape, one value per row of a, or one row repeated.
RowBroadcast(ta, tb) == Len(ta.shape) = 2 /\ tb.shape = <<ta.shape[1]>>
ColBroadcast(ta, tb) == Len(ta.shape) = 2 /\ tb.shape = <<1, ta.shape[2]>>

BinaryRule(a, op) ==
    LET ta == a.got[1].t
        tb == a.got[2].t
        s == Need(Need(a, "Type", Numeric(a.got[1]) /\ Numeric(a.got[2])),
                  "Shape", ta.shape = tb.shape \/ RowBroadcast(ta, tb) \/ ColBroadcast(ta, tb))
    IN Gives(Need(s, "Type", ta.dt = tb.dt), Tile(Reg(ta.dt, ta.shape)))

\* exp, scale and the unary functions; convert gives its own type.
MapRule(a, op) ==
    Gives(Need(a, "Type", Numeric(a.got[1])),
          Tile(Reg(IF op.o = "convert" THEN op.dt ELSE a.got[1].t.dt, a.got[1].t.shape)))

Last1(shape) == IF shape = <<>> THEN 0 ELSE shape[Len(shape)]
PowerOfTwo(n) == \E k \in 0 .. 10 : n = 2 ^ k

\* swap_pairs, and a butterfly stage, which pairs i with i + stride.
PairRule(a, op) ==
    LET shape == a.got[1].t.shape
        stride == IF op.o = "swap" THEN 1 ELSE op.stride
    IN Gives(Need(Need(a, "Type", Plain(a.got[1])),
                  "Shape", /\ op.o = "swap" => shape # <<>>
                           /\ PowerOfTwo(stride)
                           /\ Last1(shape) % (2 * stride) = 0),
             Tile(Reg(a.got[1].t.dt, shape)))

DequantRule(a, op) ==
    LET tq == a.got[1].t
        ts == a.got[2].t
        mins == op.mins # <<>>
        cols == (IF op.o = "dequant4" /\ op.mode = "pairs" THEN 2 ELSE 1) * tq.shape[2]
        types == /\ Plain(a.got[1]) /\ tq.dt = "I8" /\ Numeric(a.got[2])
                 /\ mins => Numeric(a.got[3])
    IN Gives(Need(Need(a, "Type", types),
                  "Shape", /\ mins => a.got[3].t.shape = ts.shape /\ a.got[3].t.dt = ts.dt
                           /\ Len(tq.shape) = 2 /\ op.group > 0 /\ cols % op.group = 0
                           /\ ts.shape = <<tq.shape[1], cols \div op.group>>),
             Tile(Reg("F32", <<tq.shape[1], cols>>)))

Fp4Rule(a, op) ==
    LET t(i) == a.got[i].t
        r == t(1).shape[1]
        cols == 2 * t(1).shape[2]
    IN Gives(Need(Need(a, "Type", /\ \A i \in 1 .. 3 : Plain(a.got[i])
                                  /\ t(1).dt = "I8" /\ t(2).dt = "I8" /\ t(3).dt = "F32"),
                  "Shape", /\ Len(t(1).shape) = 2 /\ op.group > 0 /\ cols % op.group = 0
                           /\ t(2).shape = <<r, cols \div op.group>> /\ t(3).shape = <<r>>),
             Tile(Reg("F32", <<r, cols>>)))

TernaryRule(a, op) ==
    LET tq == a.got[1].t
        bytes == TritBytes(op.trits)
        groups == tq.shape[2] \div bytes
    IN Gives(Need(Need(a, "Type", Plain(a.got[1]) /\ Plain(a.got[2]) /\ tq.dt = "I8"),
                  "Shape", /\ Len(tq.shape) = 2 /\ op.group = 128 /\ tq.shape[2] % bytes = 0
                           /\ a.got[2].t.shape = <<tq.shape[1], groups>>),
             Tile(Reg("F32", <<tq.shape[1], groups * op.group>>)))

Dequant6Rule(a, op) ==
    LET t(i) == a.got[i].t
        r == t(1).shape[1]
        cols == 2 * t(1).shape[2]
    IN Gives(Need(Need(a, "Type", /\ Plain(a.got[1]) /\ Plain(a.got[2]) /\ Numeric(a.got[3])
                                  /\ t(1).dt = "I8" /\ t(2).dt = "I8"),
                  "Shape", /\ Len(t(1).shape) = 2 /\ op.group > 0
                           /\ cols % 4 = 0 /\ cols % op.group = 0
                           /\ t(2).shape = <<r, cols \div 4>>
                           /\ t(3).shape = <<r, cols \div op.group>>),
             Tile(Reg("F32", <<r, cols>>)))

RowReduceRule(a, op) ==
    LET t == a.got[1].t
    IN Gives(Need(Need(a, "Type", Numeric(a.got[1])), "Shape", Len(t.shape) = 2),
             Tile(Reg(t.dt, <<t.shape[1]>>)))

MaskRule(a, op) ==
    LET t == a.got[1].t
        m == Need(Need(a, "Type", Numeric(a.got[1])), "Shape", Len(t.shape) = 2)
    IN Gives(ExprRange(ExprRange(m, op.first), op.limit), Tile(Reg(t.dt, t.shape)))

ArrayRule(c, op) ==
    LET take(a, v) ==
            LET d == Consume(a, v)
                e == Need(Need(d, "Type", Plain(d.ty)),
                          "Type", a.got = <<>> \/ a.got[1] = d.ty)
            IN IF e.ok THEN [e EXCEPT !.got = <<d.ty>>] ELSE e
        all == Through(take, Need([c EXCEPT !.got = <<>>], "Shape", op.vs # <<>>), op.vs)
    IN Gives(all, ArrayOf(all.got[1].t, Len(op.vs)))

(* Pipes.  Waiting while holding every slot of the ring cannot be answered. *)
HeldTokens(c, pipe, side) ==
    Cardinality({v \in DOMAIN c.slots :
        LET s == c.slots[v]
        IN /\ s.live
           /\ IF side = 0 THEN s.ty.k = "slot" /\ s.ty.p.id = pipe
              ELSE s.ty.k = "share" /\ s.ty.p.id = pipe /\ s.ty.c = side})
MayWait(c, p, side) == Need(c, "Protocol", HeldTokens(c, p.id, side) < p.stages)

Handle(c, h, kind) == LET r == Borrowed(c, h) IN Need(r, "Type", r.ty.k = kind)

CountOf(c, key) == IF key \in DOMAIN c.traffic THEN c.traffic[key] ELSE 0
Counted(c, key) ==
    IF c.ok THEN [c EXCEPT !.traffic = (key :> CountOf(c, key) + c.mult) @@ @] ELSE c

AcquireRule(c, op) ==
    LET h == Handle(c, op.h, "producer") IN Gives(MayWait(h, h.ty.p, 0), SlotTy(h.ty.p))

CommitRule(c, op) ==
    LET h == Handle(c, op.h, "producer")
        p == h.ty.p
        part(a, i) == Need(Window(a, op.views[i], FALSE),
                           "Shape", /\ op.views[i].shape = p.elem[i].shape
                                    /\ DtOf(c, op.views[i]) = p.elem[i].dt)
        n == Need(h, "Shape", Len(op.views) = Len(p.elem))
        v == IF n.ok THEN Through(part, n, [i \in DOMAIN p.elem |-> i]) ELSE n
        s == Consume(v, op.slot)
    IN NoResult(Counted(Need(s, "Type", s.ty.k = "slot" /\ s.ty.p.id = p.id), <<p.id, 0>>))

ReceiveRule(c, op) ==
    LET h == Handle(c, op.h, "consumer")
    IN Gives(Counted(MayWait(h, h.ty.p, h.ty.c), <<h.ty.p.id, h.ty.c>>),
             ShareTy(h.ty.p, h.ty.c))

ReleaseRule(c, op) ==
    LET h == Handle(c, op.h, "consumer")
        s == Consume(h, op.share)
    IN NoResult(Need(s, "Type", s.ty.k = "share" /\ s.ty.p.id = h.ty.p.id /\ s.ty.c = h.ty.c))

\* Operations on operands; a window is looked at before them.
Given(c, op) ==
    Args(IF op.o \in {"store", "addwindow"} THEN Window(c, op.view, op.o = "store") ELSE c,
         OperandsOf(op))
ValueRule(a, op) ==
    CASE op.o = "store"                         -> StoreRule(a, op)
      [] op.o = "dup"                           -> DupRule(a, op)
      [] op.o = "addwindow"                     -> AddWindowRule(a, op)
      [] op.o = "stage"                         -> StageRule(a, op)
      [] op.o = "mma"                           -> MmaRule(a, op)
      [] op.o \in {"matmul", "matmulnt"}        -> MatMulRule(a, op)
      [] op.o = "binary"                        -> BinaryRule(a, op)
      [] op.o \in {"unary", "scale", "convert"} -> MapRule(a, op)
      [] op.o \in {"swap", "butterfly"}         -> PairRule(a, op)
      [] op.o \in {"dequant", "dequant4"}       -> DequantRule(a, op)
      [] op.o = "fp4"                           -> Fp4Rule(a, op)
      [] op.o = "ternary"                       -> TernaryRule(a, op)
      [] op.o = "dequant6"                      -> Dequant6Rule(a, op)
      [] op.o = "rowreduce"                     -> RowReduceRule(a, op)
      [] op.o = "mask"                          -> MaskRule(a, op)

OpRule(c, op) ==
    CASE op.o \in {"alloc", "fill"} -> NewTile(c, op)
      [] op.o = "load"              -> LoadRule(c, op)
      [] op.o = "copy"              -> CopyRule(c, op)
      [] op.o = "wait"              -> WaitRule(c, op)
      [] op.o = "drop"              -> DropRule(c, op)
      [] op.o = "array"             -> ArrayRule(c, op)
      [] op.o = "acquire"           -> AcquireRule(c, op)
      [] op.o = "commit"            -> CommitRule(c, op)
      [] op.o = "receive"           -> ReceiveRule(c, op)
      [] op.o = "release"           -> ReleaseRule(c, op)
      [] OTHER                      -> ValueRule(Given(c, op), op)

(* Statements, blocks and regions. *)
Bound(r, dst) ==
    LET bound == Need(Need(r, "Type", dst # "" => r.ty # NoTy), "Leak", dst = "" => r.ty = NoTy)
    IN IF bound.ok /\ dst # "" THEN Define(bound, dst, r.ty) ELSE bound
LetRule(c, s) == Bound(OpRule(c, s.op), s.dst)

\* Consume values and compare their types with the declared ones.
Enter(c, vs, tys, kind) ==
    Through(LAMBDA a, i : LET d == Consume(a, vs[i]) IN Need(d, kind, d.ty = tys[i]),
            c, [i \in DOMAIN tys |-> i])

\* The end of a scope: what is live in it is leaked, and its storage comes back.
Close(c, outer, handles) ==
    LET gone == DOMAIN c.slots \ DOMAIN outer.slots
        alive == {v \in gone : c.slots[v].live}
        leaked == {v \in alive : /\ Linear(c.slots[v].ty)
                                 /\ handles => c.slots[v].ty.k \notin {"producer", "consumer"}}
        bytes == FoldSet(LAMBDA v, n : n + TgBytes(c.slots[v].ty), 0, alive)
    IN [c EXCEPT !.ok = @ /\ leaked = {},
                 !.diags = IF c.ok THEN @ \o [i \in 1 .. Cardinality(leaked) |-> "Leak"] ELSE @,
                 !.live = @ - bytes,
                 !.slots = [v \in DOMAIN @ \ gone |-> @[v]],
                 !.ranges = [v \in DOMAIN @ \ gone |-> @[v]]]

RECURSIVE BlockRule(_, _), StmtRule(_, _)

\* A loop or role body, one level deeper, with its index and its parameters.
Region(c, index, range, params, tys, body) ==
    LET d == [c EXCEPT !.depth = @ + 1]
        i == IF index = "" THEN d
             ELSE [Define(d, index, Index) EXCEPT !.ranges = (index :> range) @@ @]
        b == BlockRule(DefineAll(i, params, tys), body)
    IN [Close(b, c, TRUE) EXCEPT !.depth = c.depth]

ForRule(c, s) ==
    LET arity == Need(c, "Carry", Len(s.init) = Len(s.params) /\ Len(s.results) = Len(s.params))
        carried == IF arity.ok THEN Enter(arity, s.init, s.tys, "Carry") ELSE arity
        static == Need(carried, "Protocol", s.dyn # "" => ~c.role)
        bound == IF s.dyn = "" THEN static
                 ELSE LET r == RangeOf(static, s.dyn)
                      IN Need(r, "Bounds", r.rng = <<>> \/ r.rng[2] <= s.end)
        range == IF s.start < s.end THEN <<s.start, s.end - 1>> ELSE <<>>
        body == Region([bound EXCEPT !.mult = @ * Max({0, s.end - s.start})],
                       s.index, range, s.params, s.tys, s.body)
        done == Need([body EXCEPT !.mult = c.mult], "Carry", body.got = s.tys)
    IN IF ~bound.ok THEN bound
       ELSE IF done.ok THEN DefineAll(done, s.results, s.tys) ELSE done

MapRuleEach(c, s) ==
    LET take(a, i) ==
            LET d == Consume(a, s.arrays[i])
                e == Need(Need(d, "Type", d.ty.k = "array"),
                          "Shape", a.got = <<>> \/ a.got[1] = d.ty.n)
            IN Need(IF e.ok THEN [e EXCEPT !.got = <<d.ty.n>>] ELSE e,
                    "Type", s.tys[i] = Tile(d.ty.t))
        taken == Through(take, Need([c EXCEPT !.got = <<>>], "Shape",
                                    Len(s.arrays) = Len(s.params)),
                         [i \in DOMAIN s.arrays |-> i])
        n == IF taken.got = <<>> THEN 0 ELSE taken.got[1]
        rest == Total([i \in DOMAIN s.tys |-> TgBytes(s.tys[i]) * Max({0, n - 1})])
        body == Region([Bump(taken, rest) EXCEPT !.mult = @ * n],
                       s.index, IF n > 0 THEN <<0, n - 1>> ELSE <<>>, s.params, s.tys, s.body)
        done == Need(Need([Bump(body, -rest) EXCEPT !.mult = c.mult],
                          "Carry", Len(body.got) = Len(s.results)),
                     "Type", \A i \in DOMAIN body.got : Plain(body.got[i]))
    IN IF ~taken.ok THEN taken
       ELSE IF done.ok
            THEN DefineAll(done, s.results, [i \in DOMAIN done.got |-> ArrayOf(done.got[i].t, n)])
            ELSE done

\* The roles of a region run at once: the ring and every role's own footprint
\* are live together, and every consumer takes what the producer sends.
Roles(c, s) ==
    LET open(a, p) ==
            IF a.ok /\ p.ty.stages > 0 /\ Len(p.handles) = p.ty.consumers
            THEN DefineAll(Define(a, p.ty.id, ProducerTy(p.ty)), p.handles,
                           [k \in DOMAIN p.handles |-> ConsumerTy(p.ty, k)])
            ELSE Need(a, "Shape", FALSE)
        ring == Total([i \in DOMAIN s.pipes |->
                          s.pipes[i].ty.stages * SlotBytes(s.pipes[i].ty)])
        opened == Through(open, Need(c, "Target", c.target.split /\ ~c.role), s.pipes)
        moved == Through(LAMBDA a, r : Enter(a, r.inputs, r.tys, "Type"), opened, s.roles)
        ringed == Bump(moved, ring)
        role(a, r) ==
            LET b == Region([a.c EXCEPT !.peak = ringed.live, !.role = TRUE, !.ok = TRUE],
                            "", <<>>, r.params, r.tys, r.body)
            IN [c |-> [b EXCEPT !.role = FALSE, !.live = ringed.live, !.ok = a.c.ok /\ b.ok],
                extra |-> a.extra + b.peak - ringed.live,
                outs |-> Append(a.outs, b.got)]
        run == Through(role, [c |-> ringed, extra |-> 0, outs |-> <<>>], s.roles)
        joined == Bump([run.c EXCEPT !.peak = Max({ringed.peak, ringed.live + run.extra})], -ring)
        threads == Total([i \in DOMAIN s.roles |-> s.roles[i].warps]) * c.target.simd
        budget == Need(joined, "Budget", threads <= c.target.threads)
        matched == Need(budget, "Protocol",
                        \A i \in DOMAIN s.pipes : \A k \in 1 .. s.pipes[i].ty.consumers :
                            CountOf(budget, <<s.pipes[i].ty.id, k>>)
                                = CountOf(budget, <<s.pipes[i].ty.id, 0>>))
        counted == [matched EXCEPT
                       !.traffic = <<>>,
                       !.pipes = @ \o [i \in DOMAIN s.pipes |->
                                          CountOf(budget, <<s.pipes[i].ty.id, 0>>)]]
        result(a, i) ==
            LET tys == run.outs[i]
            IN LET e == Need(Need(a, "Carry", Len(s.roles[i].results) = Len(tys)),
                             "Protocol", \A j \in DOMAIN tys :
                                 tys[j].k \notin {"slot", "share", "producer", "consumer"})
               IN IF e.ok THEN DefineAll(e, s.roles[i].results, tys) ELSE e
    IN IF ~moved.ok THEN moved
       ELSE IF ~matched.ok THEN matched
       ELSE Through(result, counted, [i \in DOMAIN s.roles |-> i])

StmtRule(c, s) ==
    CASE s.s = "let"   -> LetRule(c, s)
      [] s.s = "for"   -> ForRule(c, s)
      [] s.s = "map"   -> MapRuleEach(c, s)
      [] s.s = "roles" -> Roles(c, s)

\* A statement that fails poisons what it defines and the block goes on.
BlockRule(c, b) ==
    LET step(a, s) ==
            LET r == StmtRule([a EXCEPT !.ok = TRUE], s)
            IN [r EXCEPT !.ok = a.ok /\ r.ok,
                         !.poisoned = IF r.ok THEN @ ELSE @ \cup Defs(s)]
        yield(a, v) ==
            LET r == Consume([a EXCEPT !.ok = TRUE], v)
            IN [r EXCEPT !.ok = a.ok /\ r.ok, !.got = Append(@, r.ty)]
        ran == Through(step, c, b.stmts)
    IN Close(Through(yield, [ran EXCEPT !.got = <<>>], b.yields), c, FALSE)

\* check: what a kernel's report says, or the kinds of its diagnostics.
Check(prog, target) ==
    LET start == [prog |-> prog, target |-> target, slots |-> <<>>, ranges |-> <<>>,
                  poisoned |-> {}, depth |-> 0, live |-> 0, peak |-> 0, mult |-> 1,
                  traffic |-> <<>>, role |-> FALSE, diags |-> <<>>, ok |-> TRUE,
                  ty |-> NoTy, got |-> <<>>, rng |-> <<>>, pipes |-> <<>>, tys |-> <<>>]
        index(a, v, hi) ==
            IF v = "" THEN a ELSE [Define(a, v, Index) EXCEPT !.ranges = (v :> <<0, hi>>) @@ @]
        pids == index(index(Need(start, "Shape", prog.pid # "" => prog.grid > 0),
                            prog.pid, prog.grid - 1), prog.pid2, prog.grid2 - 1)
        scalars == Through(LAMBDA a, d : index(a, d[1], d[2]), pids, prog.dyn)
        done == BlockRule([scalars EXCEPT !.ok = TRUE], prog.body)
        diags == done.diags \o IF done.peak > target.bytes THEN <<"Budget">> ELSE <<>>
    IN [ok |-> diags = <<>>, diags |-> diags, peak |-> done.peak, pipes |-> done.pipes,
        tys |-> done.tys]
=============================================================================
