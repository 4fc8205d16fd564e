------------------------------- MODULE Passes -------------------------------
(***************************************************************************)
(* The Runner's passes as programs of a device: what the host writes       *)
(* before a list of launches, the list, and what it reads back.  Launch    *)
(* runs a program; the properties here are about what the Runner's own     *)
(* lists then compute.                                                     *)
(***************************************************************************)
EXTENDS Plans, Launch

Here(ins, outs) == [by |-> "host", list |-> << Kernel("host", ins, outs) >>]
There(list) == [by |-> "gpu", list |-> list]

\* dispatch: a list in one go, or each launch timed on its own.
Dispatch(list, sync) == IF sync THEN [i \in 1..Len(list) |-> There(<<list[i]>>)] ELSE <<There(list)>>

Scalars(a) == Of(a, {"cos", "sin", "scalars_pos", "scalars_attn"})

\* step: the token's embedding and where it sits, the plan, the logits.
StepPass(layers, split, int8, sync) ==
  LET plan == Plan(layers, split)
  IN << Here({}, Scalars("acts") \cup Of("acts", {"x", "scalars_len", "scalars_nsplit"})) >>
     \o Dispatch(IF int8 THEN Int8Plan(plan, "acts") ELSE plan, sync)
     \o << Here(Of("acts", {"logits"}), {}) >>

\* forward_with, and every row's hidden state, which verify_drafts and prefill read behind it.
ForwardPass(layers, snap, split, head, int8, sync) ==
  LET plan == BatchPlan(layers, snap, split, head)
  IN << Here({}, Scalars("bacts") \cup Of("bacts", {"x", "scalars_nsplit"})) >>
     \o Dispatch(IF int8 THEN Int8Plan(plan, "bacts") ELSE plan, sync)
     \o << Here(CASE head = "all" -> Of("bacts", {"logits", "x"})
                  [] head = "last" -> Of("acts", {"logits"}) \cup Of("bacts", {"x"})
                  [] head = "skip" -> Of("bacts", {"x"}), {}) >>

\* One draft of draft_with: the head's input and position, its plan, its logits and hidden state.
DraftPass(int8) ==
  << Here({}, Of("mtp_in", {"fused"}) \cup Scalars("acts")),
     There(IF int8 THEN Int8Plan(MtpPlan, "acts") ELSE MtpPlan),
     Here(Of("acts", {"logits", "x"}), {}) >>

\* mtp_warm.
WarmPass(split, int8) ==
  LET plan == MtpBatchPlan(split)
  IN << Here({}, Of("mtp_in_b", {"fused"}) \cup Scalars("bacts") \cup Of("bacts", {"scalars_nsplit"})),
        There(IF int8 THEN Int8Plan(plan, "bacts") ELSE plan) >>

\* save, restore and roll_back_to are a list each.
CopyPass(list) == << There(list) >>

\* reset and resume write every linear layer's memory from the host; checkpoint reads it.
Memory(layers) ==
  {Kept("layer", layers, l, n) : l \in {k \in 1..Len(layers) : layers[k] = "linear"}, n \in {"state", "conv"}}

ResumePass(layers) == << Here({}, Memory(layers)) >>

CheckpointPass(layers) == << Here(Memory(layers), {}) >>

\* A speculative round that rolls a rejected verify back by copy, or by restore and replay; a
\* round with no draft kept replays a step. Only a batch too long for snapshots is replayed, and
\* such a batch has no int8 kernels. A prefill of two chunks, each warming the head, from
\* nothing or from a checkpoint, with another kept behind it.
RolledRound(layers, split, int8) ==
  << DraftPass(int8), DraftPass(int8), ForwardPass(layers, TRUE, split, "all", int8, FALSE),
     CopyPass(RollBackTo(layers)), WarmPass(split, int8) >>

ReplayedRound(layers, split, int8, kept) ==
  << DraftPass(int8), CopyPass(Save(layers)), ForwardPass(layers, FALSE, split, "all", FALSE, FALSE),
     CopyPass(Restore(layers)) >>
  \o (IF kept THEN << ForwardPass(layers, FALSE, split, "skip", int8, FALSE), WarmPass(split, int8) >>
               ELSE << StepPass(layers, split, int8, FALSE) >>)

Prefilled(layers, split, sync) ==
  << ForwardPass(layers, FALSE, split, "skip", FALSE, sync), WarmPass(split, FALSE),
     ForwardPass(layers, FALSE, split, "last", FALSE, sync), WarmPass(split, FALSE) >>

Resumed(layers, split, sync) ==
  << ResumePass(layers) >> \o Prefilled(layers, split, sync) \o << CheckpointPass(layers) >>

\* The steps of a sequence of passes. The launches of one list share a job.
Steps(passes) ==
  FlattenSeq([p \in 1..Len(passes) |->
    FlattenSeq([n \in 1..Len(passes[p]) |->
      LET part == passes[p][n]
      IN [i \in 1..Len(part.list) |->
            [by |-> part.by, pass |-> p, job |-> <<p, n>>, label |-> part.list[i].label,
             ins |-> part.list[i].ins, outs |-> part.list[i].outs,
             known |-> part.list[i].known, x |-> part.list[i].x]]])])

-----------------------------------------------------------------------------
\* The passes of a Runner over these layers, and those that leave a snapshot of every row.
Forwards(layers, snaps) ==
  {ForwardPass(layers, snap, split, head, int8, sync) :
     snap \in snaps, split, int8, sync \in BOOLEAN, head \in {"all", "last", "skip"}}

RunnerPasses(layers) ==
  {StepPass(layers, split, int8, sync) : split, int8, sync \in BOOLEAN}
    \cup Forwards(layers, BOOLEAN)
    \cup {DraftPass(int8) : int8 \in BOOLEAN} \cup {WarmPass(split, int8) : split, int8 \in BOOLEAN}
    \cup {CopyPass(list) : list \in {Save(layers), Restore(layers), RollBackTo(layers)}}
    \cup {ResumePass(layers), CheckpointPass(layers)}

\* What a Runner asks for: any passes in turn, but it rolls back only right behind a batch with
\* snapshots, and restores only what it has saved.
Session(layers, passes) ==
  /\ passes \in Seq(RunnerPasses(layers))
  /\ \A p \in 1..Len(passes) :
       /\ passes[p] = CopyPass(RollBackTo(layers)) => p > 1 /\ passes[p - 1] \in Forwards(layers, {TRUE})
       /\ passes[p] = CopyPass(Restore(layers)) => \E q \in 1..p - 1 : passes[q] = CopyPass(Save(layers))

CONSTANTS Layers,               \* of the model, each "linear" or "attn"
          Sessions              \* sequences of passes

ASSUME SessionsAssumption ==
  /\ Layers \in Seq({"linear", "attn"})
  /\ \A passes \in Sessions : Session(Layers, passes)
  /\ \A prog \in Programs : \E passes \in Sessions : prog.steps = Steps(passes)

-----------------------------------------------------------------------------
\* The activations, shared by every pass, of any size and of the draft head.
Scratch(b) == b[1] \in {"acts", "bacts", "mtp_in", "mtp_in_b", "int8"}

\* No launch computes with what an earlier pass left in an activation buffer: whatever it reads
\* there was written in its own pass, by a launch or by the host.
NothingStale ==
  \A i \in Running : \A b \in steps[i].ins :
    Scratch(b) => saw[i][b] > 0 /\ steps[saw[i][b]].pass = steps[i].pass

\* An int8 matmul multiplies the quantisation of the input it stands for, as that input is
\* then: shared or not, xq and xs come from a quantisation of the same buffer, which nothing
\* has written since.
QuantOfItsInput ==
  \A i \in Running : \A b \in steps[i].ins :
    b \in Quantised /\ saw[i][b] > 0
      => LET q == saw[i][b]
         IN steps[q].ins = steps[i].x /\ \A j \in q..i - 1 : steps[j].outs \cap steps[i].x = {}

\* Rolling back puts into a layer the rows that the same launch wrote which last moved that
\* layer; restoring puts back what was saved from that layer.
PutsBackItsOwn ==
  \A i \in Running : \A b \in steps[i].ins, own \in steps[i].outs :
    /\ steps[i].label = "roll" => InTurn(saw[i][b], i, own)
    /\ steps[i].label = "restore" => saw[i][b] > 0 /\ steps[saw[i][b]].ins = {own}
=============================================================================
