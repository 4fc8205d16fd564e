------------------------------ MODULE LxBuild ------------------------------
(***************************************************************************)
(* From the parsed algorithm of a .lx file to a kernel, as the second half *)
(* of lex-front/syntax.rs does it.  The state is a record b: err, n (the   *)
(* next fresh name), stmts (the block being built), env (the tiles in      *)
(* scope), and the results of the last step: val, vals, yields, yielded.   *)
(* A context cx is [vals, idx, params, pid, chunk].  A constant of an      *)
(* algorithm is a natural, an epsilon too.                                 *)
(***************************************************************************)
EXTENDS KernelIR, Arith, LxSyntax

Bad(b, err) == [b EXCEPT !.err = IF @ = "" THEN err ELSE @]
Demand(b, ok) == IF b.err # "" \/ ok THEN b ELSE Bad(b, "error")
TileAt(v, shape, dt, space) == [v |-> v, shape |-> shape, dt |-> dt, space |-> space]
NewName(b, name) == name \o "." \o ToString(b.n)
Effect(b, op) == IF b.err # "" THEN b ELSE [b EXCEPT !.stmts = Append(@, Do(op))]
Emit(b, name, op, shape, dt, space) ==
    IF b.err # "" THEN b
    ELSE [b EXCEPT !.n = @ + 1, !.stmts = Append(@, Let(NewName(b, name), op)),
                   !.val = TileAt(NewName(b, name), shape, dt, space)]

(* Offsets: c + sum(coefficient * index), or not. *)
NotAffine == [ok |-> FALSE]
Affinely(x) == [ok |-> TRUE, x |-> x]
Quotient(a, k) == IF k > 0 THEN a \div k ELSE (-a) \div (-k)
Joined(op, l, r) ==
    CASE op = "add"                       -> Affinely(PlusExpr(l, r, 1))
      [] op = "sub"                       -> Affinely(PlusExpr(l, r, -1))
      [] op = "mul" /\ l.terms = <<>>     -> Affinely(PlusExpr(Lit(0), r, l.c))
      [] op = "mul" /\ r.terms = <<>>     -> Affinely(PlusExpr(Lit(0), l, r.c))
      [] op = "div" /\ l.terms = <<>> /\ r.terms = <<>> /\ r.c # 0 /\ Quotient(l.c, r.c) * r.c = l.c ->
             Affinely(Lit(Quotient(l.c, r.c)))
      [] OTHER                            -> NotAffine
RECURSIVE Affine(_, _)
Affine(e, cx) ==
    CASE e.e = "num"  -> Affinely(Lit(e.n))
      [] e.e = "move" -> IF e.n \in DOMAIN cx.idx THEN Affinely(Scaled(cx.idx[e.n], 1, 0))
                         ELSE IF e.n \in DOMAIN cx.vals THEN Affinely(Lit(cx.vals[e.n])) ELSE NotAffine
      [] e.e = "bin"  -> LET l == Affine(e.l, cx)
                             r == Affine(e.r, cx)
                         IN IF l.ok /\ r.ok THEN Joined(e.op, l.x, r.x) ELSE NotAffine
\* A loop bound or an extent; -1 when it is none.
Constant(e, cx) ==
    LET a == Affine(e, cx) IN IF a.ok /\ a.x.terms = <<>> /\ a.x.c >= 0 THEN a.x.c ELSE -1
\* The dimensions of a shape see no index.
Dims(shape, cx) == [i \in DOMAIN shape |-> Constant(shape[i], [cx EXCEPT !.idx = <<>>])]
IsShape(dims) == \A i \in DOMAIN dims : dims[i] >= 0

WindowOk(at, shape, cx) == Len(at) = Len(shape) /\ \A i \in DOMAIN at : Affine(at[i], cx).ok
Window1(p, at, shape, cx) == View(p.id, [i \in DOMAIN at |-> Affine(at[i], cx).x], shape)
\* What an instance sees of a parameter: the whole, or its cut of the last dimension.
Slice(p, cx) ==
    View(p.id, [i \in DOMAIN p.shape |-> IF cx.pid # "" /\ i = Len(p.shape) THEN Scaled(cx.pid, cx.chunk, 0)
                                         ELSE Lit(0)], p.shape)

\* substitute: a bare use of a constant is its value, and numbers are folded.
RECURSIVE Substitute(_, _)
Substitute(e, vals) ==
    LET in(f) == Substitute(e[f], vals)
    IN CASE e.e = "num"      -> NumOf(Number(e.n))
         [] e.e = "move"     -> IF e.n \in DOMAIN vals THEN NumOf(Number(vals[e.n])) ELSE e
         [] e.e \in {"call", "stage"} -> [e EXCEPT !.a = in("a")]
         [] e.e = "fp4"      -> [e EXCEPT !.q = in("q"), !.sc = in("sc"), !.gs = in("gs")]
         [] e.e = "addwindow" -> [e EXCEPT !.acc = in("acc")]
         [] e.e = "mma"      -> [e EXCEPT !.c = in("c"), !.l = in("l"), !.r = in("r")]
         [] e.e = "matmul"   -> [e EXCEPT !.l = in("l"), !.r = in("r")]
         [] e.e = "bin"      -> IF in("l").e = "num" /\ in("r").e = "num"
                                THEN NumOf(Apply2(e.op, in("l").n, in("r").n))
                                ELSE [e EXCEPT !.l = in("l"), !.r = in("r")]
         [] OTHER            -> e

\* &x borrows; anything else moves.
ArgOf(e, x) == IF e.e = "borrow" THEN Borrow(x.v) ELSE Move(x.v)

(* lower, one operator per expression.  The operands come first, in order. *)
RECURSIVE LowerExpr(_, _, _, _)
RECURSIVE LowerAll(_, _, _, _)
LowerAll(b, es, cx, name) ==
    IF es = <<>> THEN [b EXCEPT !.vals = <<>>]
    ELSE LET first == LowerExpr(b, Head(es), cx, name)
             rest == LowerAll(first, Tail(es), cx, name)
         IN IF first.err # "" THEN first ELSE [rest EXCEPT !.vals = <<first.val>> \o @]

Names(b, e) ==
    IF e.n \in DOMAIN b.env THEN [b EXCEPT !.val = b.env[e.n]] ELSE Bad(b, "error")
LowerLoad(b, e, cx) ==
    LET p == cx.params[e.p]
        shape == IF e.e = "load" THEN p.shape ELSE Dims(e.shape, cx)
        ok == Demand(b, e.p \in DOMAIN cx.params /\ IsShape(shape) /\ (e.e = "load" \/ WindowOk(e.at, shape, cx)))
        space == IF e.e = "load" THEN "reg" ELSE e.space
    IN Emit(ok, e.p, Load(IF e.e = "load" THEN Slice(p, cx) ELSE Window1(p, e.at, shape, cx),
                          TileTy(p.dt, shape, space)), shape, p.dt, space)
LowerZeros(b, e, cx, name) ==
    LET shape == Dims(e.shape, cx)
    IN Emit(Demand(b, IsShape(shape)), name, Fill(TileTy(e.dt, shape, e.space), 0), shape, e.dt, e.space)
LowerFp4(b, e, name) ==
    LET q == b.vals[1].shape
        cols == 2 * q[2]
        ok == IF Len(q) < 2 \/ e.group = 0 THEN Bad(b, "panic")
              ELSE Demand(b, b.vals[2].shape = <<q[1], cols \div e.group>> /\ b.vals[3].shape = <<q[1]>>)
    IN Emit(ok, name, DequantFp4(ArgOf(e.q, b.vals[1]), ArgOf(e.sc, b.vals[2]), ArgOf(e.gs, b.vals[3]), e.group),
            <<q[1], cols>>, "F32", "reg")
LowerAddWindow(b, e, cx, name) ==
    LET acc == b.vals[1]
        ok == Demand(b, e.p \in DOMAIN cx.params /\ WindowOk(e.at, acc.shape, cx))
    IN Emit(ok, name, AddWindow(ArgOf(e.acc, acc), Window1(cx.params[e.p], e.at, acc.shape, cx)),
            acc.shape, acc.dt, "frag")
LowerMma(b, e, name) ==
    LET c == b.vals[1]
        l == b.vals[2].shape
        r == b.vals[3].shape
        ok == Demand(b, Len(c.shape) = 2 /\ Len(l) = 2 /\ Len(r) = 2 /\ c.shape = <<l[1], r[1]>> /\ l[2] = r[2])
    IN Emit(ok, name, Mma(ArgOf(e.c, c), ArgOf(e.l, b.vals[2]), ArgOf(e.r, b.vals[3])), c.shape, c.dt, "frag")
\* A one-dimensional operand is indexed out of bounds, here and above.
LowerMatMul(b, e, name) ==
    LET l == b.vals[1].shape
        r == b.vals[2].shape
        flat == Len(l) < 2 \/ Len(r) < 2
        ok == IF flat THEN Bad(b, "panic") ELSE Demand(b, l[2] = r[IF e.nt THEN 2 ELSE 1])
        la == ArgOf(e.l, b.vals[1])
        ra == ArgOf(e.r, b.vals[2])
    IN Emit(ok, name, IF e.nt THEN MatMulNT(la, ra) ELSE MatMul(la, ra), <<l[1], r[IF e.nt THEN 1 ELSE 2]>>,
            "F32", "reg")
LowerCall(b, e, name) ==
    LET x == b.vals[1]
        a == ArgOf(e.a, x)
    IN IF e.f \in {"rowsum", "rowmax"}
       THEN Emit(b, name, RowReduce(IF e.f = "rowsum" THEN "sum" ELSE "max", a), <<x.shape[1]>>, x.dt, "reg")
       ELSE Emit(b, name, Unary(e.f, a), x.shape, x.dt, "reg")

\* A number times a tile scales it; a number on the right otherwise is a
\* tile shaped like what it meets.
Scaling(e) == e.op = "mul" /\ (e.l.e = "num" \/ e.r.e = "num")
LowerScale(b, e, name) ==
    LET num == IF e.r.e = "num" THEN e.r ELSE e.l
        x == b.vals[1]
    IN Emit(b, name, Scale(ArgOf(IF e.r.e = "num" THEN e.l ELSE e.r, x), num.n), x.shape, x.dt, "reg")
LowerBinary(b, e, name) ==
    LET l == b.vals[1]
        filled == Emit(b, "eps", Fill(Reg(l.dt, l.shape), e.r.n), l.shape, l.dt, "reg")
        both == IF e.r.e = "num" THEN filled ELSE b
        r == IF e.r.e = "num" THEN filled.val ELSE b.vals[2]
        meets == \/ l.shape = r.shape
                 \/ Len(l.shape) = 2 /\ r.shape \in {<<l.shape[1]>>, <<1, l.shape[2]>>}
    IN Emit(Demand(both, meets), name, Binary(e.op, ArgOf(e.l, l), ArgOf(e.r, r)), l.shape, l.dt, "reg")

RECURSIVE LowerBlock(_, _, _)
\* The carry enters with the type it has; the body is lowered beside b.
LowerFor(b, e, cx) ==
    LET start == Constant(e.start, cx)
        end == Constant(e.end, cx)
        init == b.env[e.carry[1]]
        ok == Demand(b, /\ start >= 0 /\ end >= 0 /\ Len(e.carry) = 1 /\ e.carry[1] \in DOMAIN b.env)
        index == NewName(b, "i")
        param == NewName([b EXCEPT !.n = @ + 1], "carry")
        inner == LowerBlock([ok EXCEPT !.n = @ + 2, !.stmts = <<>>,
                                       !.env = (e.carry[1] :> [init EXCEPT !.v = param]) @@ @],
                            e.body, [cx EXCEPT !.idx = (e.index :> index) @@ @])
        result == NewName(inner, "out")
        loop == ForRange(index, start, end, <<init.v>>, <<param>>,
                         << Tile(TileTy(init.dt, init.shape, init.space)) >>,
                         Block(inner.stmts, [i \in DOMAIN inner.yields |-> inner.yields[i].v]), <<result>>)
    IN IF ok.err # "" THEN ok
       ELSE IF inner.err # "" \/ ~inner.yielded THEN Bad(b, IF inner.err = "" THEN "error" ELSE inner.err)
       ELSE [b EXCEPT !.n = inner.n + 1, !.stmts = Append(@, loop), !.val = [init EXCEPT !.v = result]]

\* The operands to lower before the operation itself.
LoweredFirst(e) ==
    CASE e.e = "fp4"       -> <<e.q, e.sc, e.gs>>
      [] e.e = "addwindow" -> <<e.acc>>
      [] e.e \in {"stage", "call"} -> <<e.a>>
      [] e.e = "mma"       -> <<e.c, e.l, e.r>>
      [] e.e = "matmul"    -> <<e.l, e.r>>
      [] e.e = "bin"       -> IF e.r.e = "num" THEN <<e.l>> ELSE IF Scaling(e) THEN <<e.r>> ELSE <<e.l, e.r>>
      [] OTHER             -> <<>>
LowerExpr(b, e, cx, name) ==
    LET x == LowerAll(b, LoweredFirst(e), cx, name)
    IN IF x.err # "" THEN x
       ELSE CASE e.e \in {"load", "loadat"} -> LowerLoad(x, e, cx)
              [] e.e = "zeros"     -> LowerZeros(x, e, cx, name)
              [] e.e = "fp4"       -> LowerFp4(x, e, name)
              [] e.e = "addwindow" -> LowerAddWindow(x, e, cx, name)
              [] e.e = "stage"     -> Emit(x, name, Stage(ArgOf(e.a, x.vals[1]), e.dt), x.vals[1].shape, e.dt, "tg")
              [] e.e = "mma"       -> LowerMma(x, e, name)
              [] e.e = "matmul"    -> LowerMatMul(x, e, name)
              [] e.e = "for"       -> LowerFor(x, e, cx)
              [] e.e \in {"move", "borrow"} -> Names(x, e)
              [] e.e = "num"       -> Bad(x, "error")
              [] e.e = "call"      -> LowerCall(x, e, name)
              [] e.e = "bin"       -> IF Scaling(e) THEN LowerScale(x, e, name) ELSE LowerBinary(x, e, name)

\* lower_block: up to a yield, whose values leave the body.
LowerStmt(b, s, cx) ==
    LET as(e, name) == LowerExpr(b, Substitute(e, cx.vals), cx, name)
        let == as(s.x, s.dst)
        tile == as(s.x, "y")
        p == cx.params[s.p]
        known == Demand(tile, s.p \in DOMAIN cx.params)
        ok == IF known.err = "" THEN Demand(known, s.at = <<>> \/ WindowOk(s.at, tile.val.shape, cx)) ELSE known
        out == LowerAll(b, [i \in DOMAIN s.xs |-> Substitute(s.xs[i], cx.vals)], cx, "y")
    IN CASE s.s = "let"   -> IF let.err # "" THEN let ELSE [let EXCEPT !.env = (s.dst :> let.val) @@ @]
         [] s.s = "store" -> Effect(ok, Store(Move(tile.val.v), IF s.at = <<>> THEN Slice(p, cx)
                                                               ELSE Window1(p, s.at, tile.val.shape, cx)))
         [] s.s = "yield" -> [out EXCEPT !.yields = out.vals, !.yielded = TRUE]
         [] s.s = "grid"  -> Bad(b, "error")
LowerBlock(b, stmts, cx) ==
    IF stmts = <<>> \/ b.err # "" THEN [b EXCEPT !.yielded = FALSE]
    ELSE LET one == LowerStmt(b, Head(stmts), cx)
         IN IF Head(stmts).s = "yield" THEN one ELSE LowerBlock(one, Tail(stmts), cx)

\* An axis of the grid names its instances' index; a third is an error, and
\* declaring one twice panics.
WithAxes(b, axes, cx) ==
    LET n(i) == Constant(axes[i][2], cx)
        given(i) == b.grid[i] # <<>>
        pids == [i \in DOMAIN axes |-> "pid" \o ToString(i)]
    IN IF Len(axes) > 2 \/ \E i \in DOMAIN axes : n(i) < 0 THEN Bad(b, "error")
       ELSE IF \E i \in DOMAIN axes : given(i) THEN Bad(b, "panic")
       ELSE [b EXCEPT !.grid = [i \in 1 .. 2 |-> IF i \in DOMAIN axes THEN <<n(i), pids[i]>> ELSE @[i]],
                      !.idx = [x \in {axes[i][1] : i \in DOMAIN axes} |->
                                  pids[CHOOSE i \in DOMAIN axes : axes[i][1] = x]] @@ @]
RECURSIVE LowerTop(_, _, _)
LowerTop(b, stmts, cx) ==
    IF stmts = <<>> \/ b.err # "" THEN b
    ELSE LET here == [cx EXCEPT !.idx = b.idx]
             one == IF Head(stmts).s = "grid" THEN WithAxes(b, Head(stmts).axes, here)
                    ELSE LowerBlock(b, <<Head(stmts)>>, here)
         IN LowerTop(IF Head(stmts).s = "yield" THEN Bad(one, "error") ELSE one, Tail(stmts), cx)

\* build_with: chunk is 0, or how much of the last dimension an instance has.
BuildWith(algo, vals, chunk) ==
    LET cx0 == [vals |-> vals, idx |-> <<>>]
        params == algo.params
        full == [i \in DOMAIN params |-> Dims(params[i].shape, cx0)]
        last(i) == full[i][Len(full[i])]
        whole == /\ ToSet(algo.consts \o algo.tiles) \subseteq DOMAIN vals
                 /\ \A i \in DOMAIN params : IsShape(full[i])
                 /\ chunk > 0 => /\ \A i \in DOMAIN params : last(i) = last(1)
                                 /\ last(1) % chunk = 0
        seen(i) == IF chunk > 0 THEN [full[i] EXCEPT ![Len(full[i])] = chunk] ELSE full[i]
        pid == IF chunk > 0 THEN "pid1" ELSE ""
        \* Of two parameters of a name the later is meant.
        named(x) == CHOOSE i \in DOMAIN params :
                        params[i].name = x /\ \A j \in DOMAIN params : params[j].name = x => j <= i
        cx == [vals |-> vals, idx |-> <<>>, pid |-> pid, chunk |-> chunk,
               params |-> [x \in {params[i].name : i \in DOMAIN params} |->
                              [id |-> named(x), shape |-> seen(named(x)), dt |-> params[named(x)].dt]]]
        start == [err |-> "", n |-> 0, stmts |-> <<>>, env |-> <<>>, idx |-> <<>>, val |-> <<>>, vals |-> <<>>,
                  yields |-> <<>>, yielded |-> FALSE,
                  grid |-> << IF chunk > 0 THEN <<last(1) \div chunk, pid>> ELSE <<>>, <<>> >>]
        b == LowerTop(start, algo.body, cx)
        extent(i) == IF b.grid[i] = <<>> THEN <<1, "">> ELSE b.grid[i]
    IN IF ~whole THEN [err |-> "error"]
       ELSE IF b.err # "" THEN [err |-> b.err]
       ELSE [err |-> "",
             prog |-> Program(algo.name,
                         [i \in DOMAIN params |-> Param(params[i].name, params[i].dt, full[i], params[i].writable)],
                         extent(1)[1], extent(1)[2], extent(2)[1], extent(2)[2], <<>>, b.stmts)]

\* Unit::compile: the algorithm bound to a target's schedule.  An extent of
\* the schedule hides an argument of its name.
Compile(unit, target, args) ==
    LET found == {i \in DOMAIN unit.schedules : unit.schedules[i].target = target}
        keys == unit.schedules[CHOOSE i \in found : TRUE].keys
        extents == [x \in ToSet(unit.algo.tiles) |-> keys[x]]
        chunk == IF "chunk" \in DOMAIN keys THEN keys.chunk ELSE 0
        built == BuildWith(unit.algo, extents @@ args, chunk)
    IN IF found = {} THEN [err |-> "error"]
       ELSE IF built.err # "" THEN built
       ELSE [err |-> "", prog |-> built.prog, keys |-> keys]

\* The text of a file, for a target.
CompileFile(file, args) ==
    LET unit == ParseFile(file.toks)
    IN IF unit.failed THEN [err |-> "syntax"] ELSE Compile(unit, file.target, args)
=============================================================================
