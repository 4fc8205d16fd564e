-------------------------------- MODULE Plans --------------------------------
(***************************************************************************)
(* The lists of launches the Runner of lex-rt/src/qwen_run.rs hands to its *)
(* device: which buffers each launch reads and writes, in which order.     *)
(* Buffers nothing ever writes (weights, norms) are left out.              *)
(*                                                                         *)
(* A buffer is <<group, number, name>>: the activations of a step ("acts") *)
(* and of a batch ("bacts"), what layer l keeps (<<"layer", l, ..>>, the   *)
(* draft head being layer 0), the saved states (<<"saved", i, ..>>) and    *)
(* the snapshots of every row (<<"rows", i, ..>>) of the i-th linear layer.*)
(***************************************************************************)
EXTENDS Integers, Sequences, SequencesExt, FiniteSets

Of(group, names) == {<<group, 0, n>> : n \in names}
Layer(l, names) == {<<"layer", l, n>> : n \in names}

\* The buffers a step or a batch keeps its activations in, and all that are ever written.
Acts == {"x", "x2", "h", "qkv", "z", "a", "b", "conv", "qe", "ke", "g", "beta", "y", "mixed",
         "q32", "k32", "v32", "q16", "k16", "gate", "attn", "gated", "ffn_g", "ffn_u", "ffn_a",
         "cos", "sin", "logits", "scalars_pos", "scalars_attn", "scalars_len", "scalars_nsplit",
         "part_m", "part_l", "part_acc"}

AllBuffers(layers) ==
  Of("acts", Acts) \cup Of("bacts", Acts)
    \cup Of("mtp_in", {"fused"}) \cup Of("mtp_in_b", {"fused"}) \cup Of("int8", {"xq", "xs"})
    \cup {"layer"} \X (0..Len(layers)) \X {"state", "conv", "kcache", "vcache"}
    \cup {"saved", "rows"} \X (1..Len(layers)) \X {"state", "conv"}

\* A launch. mv is whose table of matvec pipelines it is from, x what such a matvec multiplies.
Kernel(label, ins, outs) ==
  [label |-> label, ins |-> ins, outs |-> outs, known |-> TRUE, mv |-> "", x |-> {}]

\* QBuf::bind: x, the weights, the residual, y.
MatVec(label, a, x, residual, y) ==
  [Kernel(label, x \cup Of(a, residual), Of(a, {y})) EXCEPT !.mv = a, !.x = x]

MV(label, a, x, residual, y) == MatVec(label, a, Of(a, {x}), residual, y)

K(label, a, ins, outs) == Kernel(label, Of(a, ins), Of(a, outs))

\* A gated-delta layer; rows: where its memory after each token is written, if anywhere.
LinearMixer(a, l, rows) == <<
  MV("matvec qkv", a, "h", {}, "qkv"),
  MV("matvec z", a, "h", {}, "z"),
  K("matvec a/b", a, {"h"}, {"a"}),
  K("matvec a/b", a, {"h"}, {"b"}),
  Kernel("conv", Of(a, {"qkv"}) \cup Layer(l, {"conv"}),
                 Of(a, {"conv"}) \cup Layer(l, {"conv"}) \cup {r \in rows : r[3] = "conv"}),
  K("delta q/k", a, {"conv"}, {"qe"}),
  K("delta q/k", a, {"conv"}, {"ke"}),
  K("gates", a, {"a", "b"}, {"g", "beta"}),
  Kernel("delta step", Of(a, {"qe", "ke", "conv", "g", "beta"}) \cup Layer(l, {"state"}),
                       Of(a, {"y"}) \cup Layer(l, {"state"}) \cup {r \in rows : r[3] = "state"}),
  K("gated norm", a, {"y", "z"}, {"mixed"}),
  MV("matvec out_proj", a, "mixed", {"x"}, "x2") >>

\* Attention over the cache in one kernel, or in splits and a combine.
Attention(a, l, split) ==
  LET cache == Layer(l, {"kcache", "vcache"})
      reach == IF a = "acts" THEN "scalars_len" ELSE "scalars_pos"
  IN IF split
     THEN << Kernel("attention", Of(a, {"q16", reach}) \cup cache, Of(a, {"part_m", "part_l", "part_acc"})),
             K("attention", a, {"part_m", "part_l", "part_acc", "scalars_nsplit"}, {"attn"}) >>
     ELSE << Kernel("attention", Of(a, {"q16", "scalars_attn"}) \cup cache, Of(a, {"attn"})) >>

\* A cache is written at the new positions only: the rest of it is kept.
Append1(a, l, from, cache) ==
  Kernel("kv append", Of(a, {from, "scalars_pos"}) \cup Layer(l, {cache}), Layer(l, {cache}))

AttnMixer(a, l, split) == <<
  MV("matvec q", a, "h", {}, "q32"),
  MV("matvec k/v", a, "h", {}, "k32"),
  MV("matvec k/v", a, "h", {}, "v32"),
  K("rope", a, {"q32", "cos", "sin"}, {"q16", "gate"}),
  K("rope", a, {"k32", "cos", "sin"}, {"k16"}),
  Append1(a, l, "k16", "kcache"),
  Append1(a, l, "v32", "vcache") >>
  \o Attention(a, l, split) \o <<
  K("gate mul", a, {"attn", "gate"}, {"gated"}),
  MV("matvec o_proj", a, "gated", {"x"}, "x2") >>

FeedForward(a) == <<
  K("rmsnorm", a, {"x2"}, {"h"}),
  MV("matvec gate/up", a, "h", {}, "ffn_g"),
  MV("matvec gate/up", a, "h", {}, "ffn_u"),
  K("silu_mul", a, {"ffn_g", "ffn_u"}, {"ffn_a"}),
  MV("matvec down", a, "ffn_a", {"x2"}, "x") >>

LmHead(a) == << K("rmsnorm", a, {"x"}, {"h"}), MV("matvec lm head", a, "h", {}, "logits") >>

-----------------------------------------------------------------------------
\* The number of a linear layer among the linear layers, which its snapshots go by.
Nth(layers, l) == Cardinality({m \in 1..l : layers[m] = "linear"})

RowsByLayer(layers, l) == {<<"rows", l, n>> : n \in {"conv", "state"}}    \* a mutant

Rows(layers, l) == {<<"rows", Nth(layers, l), n>> : n \in {"conv", "state"}}

OneLayer(a, layers, l, snap, split) ==
  << K("rmsnorm", a, {"x"}, {"h"}) >>
  \o (IF layers[l] = "linear" THEN LinearMixer(a, l, IF snap THEN Rows(layers, l) ELSE {})
      ELSE AttnMixer(a, l, split))
  \o FeedForward(a)

AllLayers(a, layers, snap, split) ==
  FlattenSeq([l \in 1..Len(layers) |-> OneLayer(a, layers, l, snap, split)])

\* plan: one step.
Plan(layers, split) == AllLayers("acts", layers, FALSE, split) \o LmHead("acts")

LastRowNormed == << Kernel("lm head row", Of("bacts", {"h"}), Of("acts", {"h"})) >>    \* a mutant

\* batch_plan_with: several tokens, and the logits of all of them, of the last -- through the
\* step's own head -- or of none.
LastRow == << Kernel("lm head row", Of("bacts", {"x"}), Of("acts", {"x"})) >>

BatchPlan(layers, snap, split, head) ==
  AllLayers("bacts", layers, snap, split)
  \o CASE head = "all" -> LmHead("bacts")
       [] head = "last" -> LastRow \o LmHead("acts")
       [] head = "skip" -> <<>>

\* mtp_plan and mtp_batch_plan: the draft head, and the draft head over a batch.
MtpPlan ==
  << MatVec("mtp fc", "acts", Of("mtp_in", {"fused"}), {}, "x"), K("rmsnorm", "acts", {"x"}, {"h"}) >>
  \o AttnMixer("acts", 0, FALSE) \o FeedForward("acts") \o LmHead("acts")

MtpBatchPlan(split) ==
  << MatVec("mtp fc", "bacts", Of("mtp_in_b", {"fused"}), {}, "x"), K("rmsnorm", "bacts", {"x"}, {"h"}) >>
  \o AttnMixer("bacts", 0, split) \o FeedForward("bacts")

-----------------------------------------------------------------------------
\* Copies of every linear layer's memory: aside, back, and back from the rows of a batch. The
\* first two go through a pipeline that does not say what it writes.
Kept(place, layers, l, n) == <<place, IF place = "layer" THEN l ELSE Nth(layers, l), n>>

Copies(label, layers, known, from, to) ==
  FlattenSeq([l \in 1..Len(layers) |->
    IF layers[l] = "linear"
    THEN [k \in 1..2 |->
           LET n == <<"state", "conv">>[k]
           IN [Kernel(label, {Kept(from, layers, l, n)}, {Kept(to, layers, l, n)}) EXCEPT !.known = known]]
    ELSE <<>>])

Save(layers) == Copies("save", layers, FALSE, "layer", "saved")

Restore(layers) == Copies("restore", layers, FALSE, "saved", "layer")

RollBackTo(layers) == Copies("roll", layers, TRUE, "rows", "layer")

-----------------------------------------------------------------------------
\* int8_plan: a matvec becomes a quantisation of its input and a matmul over the quantised
\* copy; a matvec right behind one of the same input shares its quantisation.
Quantised == Of("int8", {"xq", "xs"})

SharesFirst(last, x, n) == last.at > 0                           \* a mutant

Shares(last, x, n) == last.x = x /\ last.at = n

Int8Plan(plan, whose) ==
  LET Put(acc, s) ==
        IF s.mv # whose THEN [acc EXCEPT !.out = Append(@, s)]
        ELSE LET fresh == Shares(acc.last, s.x, Len(acc.out))
                 quant == IF fresh THEN <<>> ELSE << Kernel("quant", s.x, Quantised) >>
                 mm == [s EXCEPT !.ins = (@ \ s.x) \cup Quantised]
                 out == acc.out \o quant \o <<mm>>
             IN [out |-> out, last |-> [x |-> s.x, at |-> Len(out)]]
      laid[n \in 0..Len(plan)] ==
        IF n = 0 THEN [out |-> <<>>, last |-> [x |-> {}, at |-> 0]]
        ELSE Put(laid[n - 1], plan[n])
  IN laid[Len(plan)].out
=============================================================================
