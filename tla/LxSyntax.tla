------------------------------ MODULE LxSyntax ------------------------------
(***************************************************************************)
(* The parser of lex-front/syntax.rs.  The lexer's tokens are strings:     *)
(* numerals, the punctuation below, names, and "" at the end.  A parser p  *)
(* is a record: its tokens, its place i, the last result v and whether it  *)
(* failed; a parser that failed is at the end, where nothing is eaten.     *)
(***************************************************************************)
EXTENDS Naturals, Sequences, TLC

Punct == {"(", ")", "{", "}", "[", "]", ",", ":", ";", "=", "*", "+", "-", "/", "&", "@", "->", ".."}
\* Numerals up to the largest the kernels use.
LargestNumeral == 1024
Numeral == [s \in {ToString(n) : n \in 0 .. LargestNumeral} |->
               CHOOSE n \in 0 .. LargestNumeral : ToString(n) = s]
Ident(t) == t # "" /\ t \notin Punct /\ t \notin DOMAIN Numeral

Tok(p) == p.toks[p.i]
Advance(p) == [p EXCEPT !.i = IF @ < Len(p.toks) THEN @ + 1 ELSE @]
Reject(p) == [p EXCEPT !.failed = TRUE, !.i = Len(p.toks)]
Got(p, v) == [p EXCEPT !.v = v]
Eats(p, t) == Tok(p) = t
Want(p, t) == IF Eats(p, t) THEN Advance(p) ELSE Reject(p)
Name(p) == IF Ident(Tok(p)) THEN Got(Advance(p), Tok(p)) ELSE Reject(p)
Num(p) == IF Tok(p) \in DOMAIN Numeral THEN Got(Advance(p), Numeral[Tok(p)]) ELSE Reject(p)
OneOfWords(p, values) == IF Tok(p) \in DOMAIN values THEN Got(Advance(p), values[Tok(p)]) ELSE Reject(p)
\* As p, where the token t is there; else p and the value given.
May(p, t, v) == IF Eats(p, t) THEN Advance(p) ELSE Got(p, v)

DTypeWords   == [f32 |-> "F32", f16 |-> "F16", i8 |-> "I8"]
StagingWords == [f16 |-> "F16", f32 |-> "F32"]
SpaceWords   == [reg |-> "reg", shared |-> "tg", frag |-> "frag"]
Calls == {"rowsum", "rowmax", "rsqrt", "sigmoid", "softplus", "exp", "log"}

(* Integer expressions, and what a tile is computed from: both sums of     *)
(* products of atoms.                                                      *)
NumOf(n)        == [e |-> "num", n |-> n]
NameOf(s)       == [e |-> "move", n |-> s]
BorrowOf(s)     == [e |-> "borrow", n |-> s]
Bin(op, l, r)   == [e |-> "bin", op |-> op, l |-> l, r |-> r]
SumOps     == ("+" :> "add") @@ ("-" :> "sub")
ProductOps == ("*" :> "mul") @@ ("/" :> "div")

RECURSIVE Parse(_, _)
RECURSIVE More(_, _, _)
\* kind is "ce" or "expr", each with its products and atoms.
More(kind, p, ops) ==
    IF Tok(p) \notin DOMAIN ops THEN p
    ELSE LET r == Parse(IF ops = SumOps THEN kind \o " product" ELSE kind \o " atom", Advance(p))
         IN More(kind, Got(r, Bin(ops[Tok(p)], p.v, r.v)), ops)
\* One or more of kind, separated by commas; v is their sequence.
RECURSIVE Listed(_, _)
Listed(kind, p) ==
    LET first == Parse(kind, p)
        rest == Listed(kind, Advance(first))
    IN IF Eats(first, ",") THEN Got(rest, <<first.v>> \o rest.v) ELSE Got(first, <<first.v>>)

\* f32[1, n]
TypeOfTile(p) ==
    LET dt == OneOfWords(p, DTypeWords)
        dims == Listed("ce", Want(dt, "["))
    IN Got(Want(dims, "]"), [dt |-> dt.v, shape |-> dims.v])
SpaceOf(p) == IF Eats(p, "@") THEN OneOfWords(Advance(p), SpaceWords) ELSE Got(p, "reg")

LoadOf(p) ==
    LET name == Name(p)
        at == Listed("ce", Advance(name))
        shape == Listed("ce", Want(at, ";"))
        space == SpaceOf(Want(shape, "]"))
    IN IF ~Eats(name, "[") THEN Got(name, [e |-> "load", p |-> name.v])
       ELSE Got(space, [e |-> "loadat", p |-> name.v, at |-> at.v, shape |-> shape.v, space |-> space.v])
ZerosOf(p) ==
    LET ty == TypeOfTile(p)
        space == SpaceOf(ty)
    IN Got(space, [e |-> "zeros", dt |-> ty.v.dt, shape |-> ty.v.shape, space |-> space.v])
\* n atoms one after another, v their sequence.
RECURSIVE AtomsOf(_, _)
AtomsOf(n, p) ==
    LET a == Parse("expr atom", p)
        rest == AtomsOf(n - 1, a)
    IN IF n = 0 THEN Got(p, <<>>) ELSE Got(rest, <<a.v>> \o rest.v)
DequantOf(p) ==
    LET a == AtomsOf(3, p)
        group == Num(a)
    IN Got(group, [e |-> "fp4", q |-> a.v[1], sc |-> a.v[2], gs |-> a.v[3], group |-> group.v])
WindowAdded(p) ==
    LET acc == Parse("expr atom", p)
        name == Name(acc)
        at == Listed("ce", Want(name, "["))
    IN Got(Want(at, "]"), [e |-> "addwindow", acc |-> acc.v, p |-> name.v, at |-> at.v])
Staged(p) ==
    LET dt == OneOfWords(p, StagingWords)
        a == Parse("expr atom", dt)
    IN Got(a, [e |-> "stage", dt |-> dt.v, a |-> a.v])
LoopOf(p) ==
    LET index == Name(p)
        start == Parse("ce", Want(index, "in"))
        end == Parse("ce", Want(start, ".."))
        carry == IF Eats(end, "with") THEN Listed("name", Advance(end)) ELSE Got(end, <<>>)
        body == Parse("block", Want(carry, "{"))
    IN Got(body, [e |-> "for", index |-> index.v, start |-> start.v, end |-> end.v,
                  carry |-> carry.v, body |-> body.v])

\* atom: a keyword starts an operation; any other name is moved.
ExprAtom(p) ==
    LET t == Tok(p)
        next == Advance(p)
        inner == Parse("expr", next)
        borrowed == Name(next)
        two == AtomsOf(2, next)
        three == AtomsOf(3, next)
        called == Parse("expr atom", next)
    IN CASE t = "&"            -> Got(borrowed, BorrowOf(borrowed.v))
         [] t = "("            -> Want(inner, ")")
         [] t = "load"         -> LoadOf(next)
         [] t = "zeros"        -> ZerosOf(next)
         [] t = "mma"          -> Got(three, [e |-> "mma", c |-> three.v[1], l |-> three.v[2], r |-> three.v[3]])
         [] t = "dequant_fp4"  -> DequantOf(next)
         [] t = "add_window"   -> WindowAdded(next)
         [] t = "stage"        -> Staged(next)
         [] t \in {"matmul", "matmul_nt"} ->
                Got(two, [e |-> "matmul", nt |-> t = "matmul_nt", l |-> two.v[1], r |-> two.v[2]])
         [] t = "for"          -> LoopOf(next)
         [] t \in Calls        -> Got(called, [e |-> "call", f |-> t, a |-> called.v])
         [] t \in DOMAIN Numeral -> Got(next, NumOf(Numeral[t]))
         [] t = "" \/ t \in Punct \ {"&", "("} -> Reject(p)
         [] OTHER              -> Got(next, NameOf(t))
CeAtom(p) ==
    IF Eats(p, "(") THEN Want(Parse("ce", Advance(p)), ")")
    ELSE IF Tok(p) \in DOMAIN Numeral THEN Got(Advance(p), NumOf(Numeral[Tok(p)]))
    ELSE LET n == Name(p) IN Got(n, NameOf(n.v))

\* x over k / b: an axis of the grid.
AxisOf(p) ==
    LET n == Name(p)
        extent == Parse("ce", Want(n, "over"))
    IN Got(extent, <<n.v, extent.v>>)

StatementOf(p) ==
    LET next == Advance(p)
        dst == Name(next)
        let == Parse("expr", Want(dst, "="))
        stored == Parse("expr", next)
        to == Name(Want(stored, "->"))
        at == Listed("ce", Advance(to))
        axes == Listed("axis", next)
        yields == Listed("expr", next)
    IN CASE Eats(p, "let")   -> Got(let, [s |-> "let", dst |-> dst.v, x |-> let.v])
         [] Eats(p, "store") ->
                IF Eats(to, "[") THEN Got(Want(at, "]"), [s |-> "store", x |-> stored.v, p |-> to.v, at |-> at.v])
                ELSE Got(to, [s |-> "store", x |-> stored.v, p |-> to.v, at |-> <<>>])
         [] Eats(p, "grid")  -> Got(axes, [s |-> "grid", axes |-> axes.v])
         [] Eats(p, "yield") -> Got(yields, [s |-> "yield", xs |-> yields.v])
         [] OTHER            -> Reject(p)
\* Statements up to the closing brace.
RECURSIVE Statements(_)
Statements(p) ==
    LET s == StatementOf(p)
        rest == Statements(s)
    IN IF Eats(p, "}") THEN Got(Advance(p), <<>>)
       ELSE IF s.failed THEN Got(s, <<>>) ELSE Got(rest, <<s.v>> \o rest.v)

Parse(kind, p) ==
    CASE kind = "ce"           -> More("ce", Parse("ce product", p), SumOps)
      [] kind = "ce product"   -> More("ce", CeAtom(p), ProductOps)
      [] kind = "ce atom"      -> CeAtom(p)
      [] kind = "expr"         -> More("expr", Parse("expr product", p), SumOps)
      [] kind = "expr product" -> More("expr", ExprAtom(p), ProductOps)
      [] kind = "expr atom"    -> ExprAtom(p)
      [] kind = "name"         -> Name(p)
      [] kind = "axis"         -> AxisOf(p)
      [] kind = "block"        -> Statements(p)

(* A file: an algorithm, then its schedules. *)
RECURSIVE ParamsOf(_)
ParamsOf(p) ==
    LET name == Name(Advance(p))
        ty == TypeOfTile(Want(name, ":"))
        rest == ParamsOf(ty)
    IN IF Tok(p) \notin {"in", "out"} THEN Got(p, <<>>)
       ELSE Got(rest, << [name |-> name.v, dt |-> ty.v.dt, shape |-> ty.v.shape, writable |-> Tok(p) = "out"] >>
                        \o rest.v)
\* Names up to the closing parenthesis, before which a comma may stand.
RECURSIVE ConstsOf(_)
ConstsOf(p) ==
    LET name == Name(p)
        rest == ConstsOf(Advance(name))
    IN IF Eats(p, ")") THEN Got(Advance(p), <<>>)
       ELSE IF name.failed THEN Got(name, <<>>)
       ELSE IF Eats(name, ",") THEN Got(rest, <<name.v>> \o rest.v)
       ELSE Got(Want(name, ")"), <<name.v>>)
AlgoOf(p) ==
    LET name == Name(Want(p, "algo"))
        consts == IF Eats(name, "(") THEN ConstsOf(Advance(name)) ELSE Got(name, <<>>)
        params == ParamsOf(consts)
        tiles == IF Eats(params, "tile") THEN Listed("name", Advance(params)) ELSE Got(params, <<>>)
        body == Parse("block", Want(IF params.v = <<>> THEN Reject(params) ELSE tiles, "{"))
    IN Got(body, [name |-> name.v, consts |-> consts.v, params |-> params.v, tiles |-> tiles.v, body |-> body.v])

\* Keys of a schedule, up to its brace; a comma after one means nothing.
RECURSIVE KeysOf(_, _)
KeysOf(p, algo) ==
    LET value == Num(Advance(p))
        second == Num(value)
        end(q) == IF Eats(q, ",") THEN Advance(q) ELSE q
        one == KeysOf(end(value), algo)
        two == KeysOf(end(second), algo)
    IN IF Eats(p, "}") THEN Got(Advance(p), <<>>)
       ELSE IF Eats(p, "warps")
       THEN (IF second.failed THEN Got(second, <<>>)
             ELSE Got(two, [k \in DOMAIN two.v \cup {"warps"} |->
                               IF k \in DOMAIN two.v THEN two.v[k] ELSE <<value.v, second.v>>]))
       ELSE IF Tok(p) \in {"threads", "pad", "chunk"} \cup {algo.tiles[i] : i \in DOMAIN algo.tiles}
       THEN (IF value.failed THEN Got(value, <<>>)
             \* The last of two values of a key is kept, but the first extent is found.
             ELSE Got(one, [k \in DOMAIN one.v \cup {Tok(p)} |->
                               IF k \in DOMAIN one.v THEN one.v[k] ELSE value.v]))
       ELSE Got(Reject(p), <<>>)
\* Target names carry dashes.
RECURSIVE TargetName(_)
TargetName(p) ==
    LET n == Name(p)
        rest == TargetName(Advance(n))
    IN IF Eats(n, "-") THEN Got(rest, n.v \o "-" \o rest.v) ELSE n
RECURSIVE SchedulesOf(_, _, _)
SchedulesOf(p, algo, seen) ==
    LET name == Name(Advance(p))
        target == TargetName(Want(IF name.v = algo.name THEN name ELSE Reject(name), "for"))
        keys == KeysOf(Want(target, "{"), algo)
        whole == /\ "threads" \in DOMAIN keys.v
                 /\ \A i \in DOMAIN algo.tiles : algo.tiles[i] \in DOMAIN keys.v
                 /\ target.v \notin seen
        rest == SchedulesOf(keys, algo, seen \cup {target.v})
    IN IF ~Eats(p, "schedule") THEN Got(p, <<>>)
       ELSE IF keys.failed \/ ~whole THEN Got(Reject(keys), <<>>)
       ELSE Got(rest, << [target |-> target.v, keys |-> keys.v] >> \o rest.v)

\* parse: the algorithm and its schedules, or failed.
ParseFile(toks) ==
    LET algo == AlgoOf([toks |-> Append(toks, ""), i |-> 1, v |-> <<>>, failed |-> FALSE])
        schedules == SchedulesOf(algo, algo.v, {})
    IN IF algo.failed \/ schedules.failed \/ Tok(schedules) # "" THEN [failed |-> TRUE]
       ELSE [failed |-> FALSE, algo |-> algo.v, schedules |-> schedules.v]
=============================================================================
