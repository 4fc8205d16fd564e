------------------------------ MODULE KernelIR ------------------------------
(***************************************************************************)
(* The kernel language of lex-front/ir.rs: tiles, index expressions,       *)
(* windows of global tensors, operations and structured statements.  A     *)
(* program is a record; a variable is a string, one definition each.       *)
(***************************************************************************)
EXTENDS Packing, Sequences, FiniteSets, TLC, SequencesExt

DTypes == {"F32", "F16", "I8"}
SizeOf(dt) == CASE dt = "F32" -> 4 [] dt = "F16" -> 2 [] dt = "I8" -> 1

\* FoldLeft of SequencesExt, halving s: a long kernel keeps the nesting of its
\* evaluation logarithmic.  The test of {half} has TLC evaluate it there.
Through(op(_, _), base, s) ==
    LET RECURSIVE Fold(_, _, _)
        Fold(acc, lo, hi) ==
            LET mid == (lo + hi) \div 2
                half == Fold(acc, lo, mid)
            IN IF lo > hi THEN acc
               ELSE IF lo = hi THEN op(acc, s[lo])
               ELSE IF {half} # {} THEN Fold(half, mid + 1, hi) ELSE acc
    IN Fold(base, 1, Len(s))

Prod(s) == Through(LAMBDA n, d : n * d, 1, s)
Total(s) == Through(LAMBDA n, d : n + d, 0, s)

(* Tiles. *)
TileTy(dt, shape, space) == [dt |-> dt, shape |-> shape, space |-> space]
Reg(dt, shape) == TileTy(dt, shape, "reg")
Elems(t) == Prod(t.shape)
Bytes(t) == Elems(t) * SizeOf(t.dt)

(* Pipes, and the types of values. *)
PipeTy(id, elem, stages, consumers) ==
    [id |-> id, elem |-> elem, stages |-> stages, consumers |-> consumers]
SlotBytes(p) == Total([i \in DOMAIN p.elem |-> Bytes(p.elem[i])])

Tile(t)        == [k |-> "tile", t |-> t]
Future(t)      == [k |-> "future", t |-> t]
ArrayOf(t, n)  == [k |-> "array", t |-> t, n |-> n]
Index          == [k |-> "index"]
ProducerTy(p)  == [k |-> "producer", p |-> p]
ConsumerTy(p, c) == [k |-> "consumer", p |-> p, c |-> c]
SlotTy(p)      == [k |-> "slot", p |-> p]
ShareTy(p, c)  == [k |-> "share", p |-> p, c |-> c]

Linear(ty) == ty.k # "index"

\* Threadgroup bytes a live value pins; slots and shares live in the ring.
TgBytes(ty) ==
    IF ty.k \in {"tile", "future"} /\ ty.t.space = "tg" THEN Bytes(ty.t)
    ELSE IF ty.k = "array" /\ ty.t.space = "tg" THEN Bytes(ty.t) * ty.n
    ELSE 0

(* Index expressions: a constant and coefficients of variables. *)
Lit(c)          == [c |-> c, terms |-> <<>>]
Scaled(v, k, c) == [c |-> c, terms |-> << <<v, k>> >>]
Plus(e, v, k)   == [e EXCEPT !.terms = Append(@, <<v, k>>)]
Shift(e, c)     == [e EXCEPT !.c = @ + c]
PlusExpr(e, f, k) ==
    [c |-> e.c + f.c * k,
     terms |-> e.terms \o [i \in DOMAIN f.terms |-> <<f.terms[i][1], f.terms[i][2] * k>>]]

View(param, off, shape) == [param |-> param, off |-> off, shape |-> shape]

(* Operands. *)
Move(v)    == [m |-> "move", v |-> v]
Borrow(v)  == [m |-> "borrow", v |-> v]
Elem(v, i) == [m |-> "elem", v |-> v, i |-> i]
Part(v, n) == [m |-> "part", v |-> v, n |-> n]

(* Statements.  A binding without a result has dst = "". *)
Let(dst, op) == [s |-> "let", dst |-> dst, op |-> op]
Do(op)       == Let("", op)
Block(stmts, yields) == [stmts |-> stmts, yields |-> yields]
\* init, params and results have one entry per carry; tys are the declared
\* types of the parameters.
ForRange(index, start, end, init, params, tys, body, results) ==
    [s |-> "for", index |-> index, start |-> start, end |-> end, dyn |-> "",
     init |-> init, params |-> params, tys |-> tys, body |-> body, results |-> results]
ForRangeDyn(index, start, end, dyn, init, params, tys, body, results) ==
    [ForRange(index, start, end, init, params, tys, body, results) EXCEPT !.dyn = dyn]
MapEach(index, arrays, params, tys, body, results) ==
    [s |-> "map", index |-> index, arrays |-> arrays, params |-> params, tys |-> tys,
     body |-> body, results |-> results]
PipeDecl(ty, handles) == [ty |-> ty, handles |-> handles]
RoleOf(warps, inputs, params, tys, body, results) ==
    [warps |-> warps, inputs |-> inputs, params |-> params, tys |-> tys, body |-> body,
     results |-> results]
Specialize(pipes, roles) == [s |-> "roles", pipes |-> pipes, roles |-> roles]

Param(name, dt, shape, writable) ==
    [name |-> name, dt |-> dt, shape |-> shape, writable |-> writable]

\* A kernel: grid and grid2 are the counts of instances, pid and pid2 their
\* indices ("" when unused), dyn the runtime scalars with their bounds.
Program(name, params, grid, pid, grid2, pid2, dyn, stmts) ==
    [name |-> name, params |-> params, grid |-> grid, pid |-> pid, grid2 |-> grid2,
     pid2 |-> pid2, dyn |-> dyn, body |-> Block(stmts, <<>>)]

(* Operations, as the builders write them. *)
Alloc(ty)            == [o |-> "alloc", ty |-> ty]
Fill(ty, x)          == [o |-> "fill", ty |-> ty, x |-> x]
Load(view, ty)       == [o |-> "load", view |-> view, ty |-> ty]
CopyAsync(view, dst) == [o |-> "copy", view |-> view, dst |-> dst]
Wait(f)              == [o |-> "wait", f |-> f]
Store(a, view)       == [o |-> "store", a |-> a, view |-> view]
DropOf(v)            == [o |-> "drop", v |-> v]
Dup(a)               == [o |-> "dup", a |-> a]
Stage(a, dt)         == [o |-> "stage", a |-> a, dt |-> dt]
Mma(c, a, b)         == [o |-> "mma", c |-> c, a |-> a, b |-> b]
AddWindow(a, view)   == [o |-> "addwindow", a |-> a, view |-> view]
MatMulNT(a, b)       == [o |-> "matmulnt", a |-> a, b |-> b, acc |-> "F32"]
MatMul(a, b)         == [o |-> "matmul", a |-> a, b |-> b, acc |-> "F32"]
Binary(f, a, b)      == [o |-> "binary", f |-> f, a |-> a, b |-> b]
Unary(f, a)          == [o |-> "unary", f |-> f, a |-> a]
Scale(a, x)          == [o |-> "scale", a |-> a, x |-> x]
SwapPairs(a)         == [o |-> "swap", a |-> a]
Butterfly(a, stride) == [o |-> "butterfly", a |-> a, stride |-> stride]
RowReduce(f, a)      == [o |-> "rowreduce", f |-> f, a |-> a]
MaskCols(a, first, limit) == [o |-> "mask", a |-> a, first |-> first, limit |-> limit]
Convert(a, dt)       == [o |-> "convert", a |-> a, dt |-> dt]
MakeArray(vs)        == [o |-> "array", vs |-> vs]
Dequant(q, sc, mins, group) ==
    [o |-> "dequant", q |-> q, sc |-> sc, mins |-> mins, group |-> group]
Dequant4(q, sc, mins, group, mode) ==
    [o |-> "dequant4", q |-> q, sc |-> sc, mins |-> mins, group |-> group, mode |-> mode]
DequantFp4(q, sc, gs, group) == [o |-> "fp4", q |-> q, sc |-> sc, gs |-> gs, group |-> group]
DequantTernary(q, sc, group, trits) ==
    [o |-> "ternary", q |-> q, sc |-> sc, group |-> group, trits |-> trits]
Dequant6(lo, hi, sc, group) == [o |-> "dequant6", lo |-> lo, hi |-> hi, sc |-> sc, group |-> group]
Acquire(h)             == [o |-> "acquire", h |-> h]
Commit(h, views, slot) == [o |-> "commit", h |-> h, views |-> views, slot |-> slot]
Receive(h)             == [o |-> "receive", h |-> h]
Release(h, share)      == [o |-> "release", h |-> h, share |-> share]

(* The operands of an operation, in the order the checker types them. *)
OperandsOf(op) ==
    CASE op.o \in {"store", "dup", "stage", "addwindow", "unary", "scale", "swap", "butterfly",
                   "rowreduce", "mask", "convert"}                      -> <<op.a>>
      [] op.o \in {"matmul", "matmulnt", "binary"}                     -> <<op.a, op.b>>
      [] op.o = "mma"                                                  -> <<op.c, op.a, op.b>>
      [] op.o \in {"dequant", "dequant4"}                              -> <<op.q, op.sc>> \o op.mins
      [] op.o \in {"fp4"}                                              -> <<op.q, op.sc, op.gs>>
      [] op.o = "ternary"                                              -> <<op.q, op.sc>>
      [] op.o = "dequant6"                                             -> <<op.lo, op.hi, op.sc>>
      [] OTHER                                                         -> <<>>

(* Values a statement defines in its block. *)
Defs(s) ==
    CASE s.s = "let"          -> IF s.dst = "" THEN {} ELSE {s.dst}
      [] s.s \in {"for", "map"} -> ToSet(s.results)
      [] s.s = "roles"        -> UNION {ToSet(s.roles[r].results) : r \in DOMAIN s.roles}
=============================================================================
