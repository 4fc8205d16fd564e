# Verification of lex-gpu

TLA+ models of lex-gpu from the kernel language up to the chat server, TLC runs that
check them on small instances, and TLAPS proofs of what matters most for every instance.

## The system

lex-gpu compiles kernels written in a small language to Metal and CUDA and runs
language models with them. Its parts, and the state each keeps:

| Part | State | Operations | What is hard |
| --- | --- | --- | --- |
| `lex-rt/qwen_run` Runner | position, recurrent state of 48 layers, KV cache, draft head's cache and position, the hidden state for the next draft, a saved state | prefill, forward, step, speculate_with, speculate_proposed, save/restore, checkpoint/resume, reset | one pass feeds several tokens, some of which are then un-fed; recurrent state cannot be truncated, the caches are never cleared |
| `lex-rt/examples/serve` | prefix cache (tokens last read, a pool of checkpoints), one request at a time | chat, prefill_cached, generate | answering from a history left by another request; hang-ups; full caches; several tokens at once against stop tokens and ceilings |
| `lex-rt/spec` | lookup is pure; DepthController keeps estimates | lookup, pick, record | boundaries |
| `lex-rt/sample` | a random generator | pick, verify, verify_proposal | speculative sampling must not change the distribution |
| `lex-front/interp` | rings of pipe slots, tokens, an abort flag | specialize: one thread per role; acquire, commit, receive, release | real threads, conditions, timeouts, a failing role |
| `lex-front/check` | scopes of linear values, the budget in use, what a role holds of its pipes | check: one walk over a program | rules that must imply that no run goes wrong, for every program |
| `lex-front` flash, llama, qwen | none | programs built per shape and schedule; weight blocks repacked | row and index arithmetic; pipelines of loads; state carried over the tokens of a batch |
| `lex-front/syntax` | the parser's place; names, axes and values bound while building | parse, Unit::compile, print | steps resolved in order; a text that is nearly right |
| `lex-front/interp` (sequential) | memory, values, the bytes in use | run_full: every instance in turn | the reference of everything else |
| `lex-msl/program` | static arena, places of values, what was written since the last barrier | lower_sched | lanes and simdgroups meet in threadgroup memory; every operation is dealt to threads in its own way |
| `lex-metal/device` | buffers written and read since the last barrier | run_launches, write, download | dispatches of a command buffer overlap unless a barrier is put between them |
| `lex-cuda/device` | one stream | run_launches, write, download | launches run while later ones are still handed over, in order |
| the rest of `lex-msl`, `lex-ir` | none | hand-written kernels, the tile IR's interpreter | none that is stateful |
| `lex-rt` chat, tokenizer, json, gguf, tune, dev | a stream cutter; a tuning table | rendering, render_within, parsing | which messages are dropped to fit, and whether the prompt still begins as the last one did; text cut inside a character |

A kernel is a program (`ir.rs`), made by a builder or compiled from a `.lx` text; `check`
accepts or refuses it; an accepted one is interpreted by the tests and lowered to the
text of a Metal or CUDA kernel by the generators. The runner hands lists of launches of
such kernels to a device, and the server calls the runner's methods on one thread.
`PROJECT.json` lists every part with its status and every hazard with its line.

## Modules

`RunnerState` - the Runner's fields and, since every method takes `&mut self`
and one thread drives them, each method as a function from one state to the next.
Numbers are abstracted to what they were computed from:

| Code | Model |
| --- | --- |
| gated-delta state and convolution window of all layers | `delta`, the tokens digested |
| entry *i* of the attention caches | `kv[i]`, the text it was computed after |
| entry *i* of the draft head's cache | `head[i]`, hidden state and token paired, or `Junk` (the head's own guess) |
| `spec_h`, `acts.x` | `specH`, `x`: the text the hidden state was computed after |
| `snap` | `saved`; the per-row snapshots are the rows of the pass being judged |
| logits and sampler | `Target(text)`, the set of tokens that can be drawn |

A pass over caches that disagree (`~Sound`) gives `Junk`, and from `Junk` any
token may be drawn: mistakes show as wrong replies and not as errors. Errors
that the code returns (`the cache is full`, `the head's cache is full`) are
modelled with the state each leaves behind; errors of the device are not.
Every batch size is taken to be compiled at load, as the server and the
benchmarks do: a runner that compiles lazily saves its state once more, the
first time a size is used, before the pass that compiles it.

`Runner` - a client calling these methods in any order their comments allow.
`text` is its own record of what it was told is said; `Prefill` begins a prompt
and `ReadChunk` reads it chunk by chunk, the other methods are one action each.
`Ops` chooses the methods, so one module serves several runs. Guards that the
code does not have are the callers' obligations its comments state: resume only
what the text begins with, do not propose drafts before anything was read.

`Decoding` - what decoding promises, with no speculation at all: a reply grows
by tokens drawn one after another. `Runner` refines it (`OneTokenAtATime`, with
`prompt` the part of the text handed over and `reply` the rest and the pending
token).

`Lookup` - drafts from the context, a pure function.

`Server` - serve.rs over one runner: `Accept` (chat up to the prefill: compare,
resume or reset), `PrefillTurn` and `PrefillRest` (prefill_cached), `Round` and
`Finish` (generate), `HangUp` (a write to the client fails). It reads a whole
segment per step with `Prefilled`; that this is what the chunks amount to is
`ChunksDoNotShow`.

`Trim` - chat.rs's `render_within`: Qwen3.8's template, `pinned`, `turns`, the search
for the cut, `elide` and the loop around it, as functions of a conversation. A message is
a role and a sequence of tokens, so the length of a prompt (tokens, in the code) and of a
message (bytes) are the same count; reasoning, tool calls and tool definitions are part
of these sequences. Its two loops, the search and the passes, are functions of the number
of turns made.

`Chat` - `Server` with what its clients send: `Ask` trims a conversation and hands the
prompt to `Accept`, `Refuse` answers with an error before the cache is touched (or, where
`trim` indexes an empty list, takes the server down: `verdict` is then "panicked" and
nothing more happens). `Budget` is the window less the room chat() keeps for a reply. It
implements `Server`'s specification, and says what the two are worth together: the cut
is placed so that the cache keeps being of use.

`Pipes` - a warp-specialised region as the interpreter runs it. `ring[p]` is `Ring`
(with `data` the number of the commit that filled a slot), `slots` and `shares` the
`Val::Slot`s and `Val::Share`s the roles hold, `asleep` who waits on the condition
variable, `abort` the shared flag. Whatever the code does under one lock is one
step: an attempt that succeeds (`Acquire`, `Receive`), finds the abort (`Abandon`) or
waits (`Sleep`), a deadline (`TimeOut`), a commit, a release, the posting of an
error. Between a role's error and its posting other roles run on, as in the code.
`Broadcast` is what it promises, with no slots or threads: queues that carry every message
to every consumer and hold no more than they have room for, and a region that ends with
everything delivered or with a cause. `Pipes` refines it (`Broadcasts`).
What roles do is not a fixed program: a role picks any operation that the checker's
rules on tokens (`MayWait`) and counts (`Left`) allow, and finishes when they
are met (`Drained`); a role's trip counts are static, so each sequence of picks is a
program the checker accepts. `Disciplined` restricts them to what the repository's
kernels do: each slot committed before the next is acquired, the oldest share
released first. `Patient` says that a deadline is longer than a role's work; without
it a wait may be given up at any time.

`Launch` - a device running lists of launches. `encoded`, `written`, `read` are the
encoding loop's own (`hazard` is `Hazard`, the lists after it `Tracked`); `after[i]`
is how many barriers stand before launch *i*; `saw` and `done` are the device's, which
starts and ends launches on its own: on Metal's concurrent encoder in any order the
barriers leave open and only once committed, on its serial encoder (`LEX_SERIAL`) and
on CUDA's stream one after another, on the stream while the host is still launching.
A buffer's content is the number of the step that wrote it, `Partial` while it is
being written, so that "sees the same data as if run in turn" can be said exactly
(`InTurn`). The tracker knows bindings only by what a pipeline declares (`known`): one
that declares nothing is taken to write all it is given.

`Plans` - the lists qwen_run.rs builds, launch by launch with what each reads and
writes: a step, a batch with its three heads, the draft head alone and over a batch,
the copies of save, restore and roll_back_to, and `int8_plan`, which rewrites a list.
Constant-level: no variables.

`Passes` - the two together: what the host writes before a list and reads behind it in
each method, and properties of the Runner's own lists. `Runner` takes a pass to
compute what its tokens say; these are what it rests on: no launch reads what an
earlier pass left in the shared activation buffers (`NothingStale`), an int8 matmul has
its own input's quantisation (`QuantOfItsInput`), and each layer gets its own memory
back (`PutsBackItsOwn`). `RunnerPasses` are the passes a Runner has - the lists of launches,
and what the host does to the layers' memory in `reset`, `resume` and `checkpoint` - and
`Session` is the sequences of them that are asked about: any, except that rolling back
comes right behind a batch with snapshots and restoring after a save.

The kernel side is modelled as data and functions, and one small state machine over them:

`KernelIR` - programs as ir.rs has them: statements, operations, views with affine
offsets, tiles in registers or threadgroup memory, symbols. A program is a record, as
the code has it, so that one definition of it is built, checked, run and lowered.

`Packing` - how codes share a byte: nibbles, fields of bits, the two ternary packings.

`Modular`, `Arith` - the numbers. TLC has no floats, so F32 is the integers modulo 101 * 100 with
exact sums and products (`Modular`); `exp` is a power of two modulo 101, quotients and roots are
taken modulo 101. That keeps every law the kernels rely on (a sum of exponents is a
product of powers, a rescaled partial sum is the sum) and loses order and magnitude,
which nothing but the maximum of attention depends on - and that only through the law.
Minus infinity and NaN are values of their own: masks, empty stretches and 0/0 come out
as in the code. F16 rounds to multiples of `unit`: with unit 1 nothing is rounded and a
kernel can be held against its function exactly; with unit 2 a value that should have
been rounded, or was rounded twice in another order, shows.

`Checker` - check.rs, all of it: scopes, linear values, borrow and move, loops and their
carries, roles and pipes with their counts, shapes and types of every operation, bounds
of views over the intervals of indices, layouts of weights, the budget. What is left
out is the wording of diagnostics; which there are, and how many, is kept.

`Interp` - the sequential part of interp.rs: `Run` gives the memory, what is left
unconsumed, the largest number of bytes held, and every error by name. Roles are run in
an order their pipes allow; that the order does not matter is `Pipes`' business.

`Lowering` - lowering of program.rs as far as results and races go. The text it prints is
not modelled; what the text does is: each operation is done by the threads the code
deals it to, in their order, on shared memory, and reads and writes since the last
barrier are recorded per thread, so that two threads that meet are a `race`. Barriers,
the one scratch area, static places of tiles, saves of carried pointers, fragments
(`mma`), packing of quantised weights and the schedule keys are in it.

`FlashKernels`, `LlamaKernels`, `QwenKernels` - the builders of flash.rs, llama.rs and
qwen.rs, each a function from its configuration to a program. `Repack` - the blocks of
GGUF files, their repacking (the `split_*` of llama.rs), and both formulas for a value:
the host's from the repacked matrix and the file format's own. `Weights` - the tensors a
kernel takes of it, and NVFP4. `KernelSpecs` - what each kernel is to compute, as a definition over whole
rows that knows nothing of tiles: attention with one maximum, a product as a sum, the
delta rule token by token.

`LxSyntax`, `LxBuild`, `LxFiles` - the `.lx` language from the token on: the parser as a
state of place and failure, `Unit::compile` (schedules, axes, steps, values) to the same
programs, and the repository's files as sequences of tokens.

`Kernels` - the state machine. Compiler, checker, interpreter and generator are CONSTANT
operators of it, which `MCKernels` gives `LxBuild`'s, `Checker`'s, `Interp`'s and
`Lowering`'s functions. A job is a chain of launches over shared buffers; each is
built, checked, interpreted on one copy of the memory and run as lowered on another.
A job may carry a *slip*: one edit of the program or text, at any place - a statement
left out, doubled, swapped with the next, moved into a loop or out of it, a borrow for
a move, another operand, another row or tensor, another type or space, a bound off by
one, yields reversed; a token left out or late. The properties about slips
(`AcceptedNeverGoesWrong`, `BudgetCovers`, `NoRace`, `LoweredAgrees`) speak about every
program the checker accepts, and slips are the programs near those people write.
What makes a builder return an error is an operator beside it (`DeltaBuilds`,
`MatVecDenseBuilds`, `ShapeFits`, ...); `CasesBuild`, which TLC evaluates before the run,
assumes that the arguments of every case pass.

`Rounds` - `Runner` with a history variable, `fresh`: was the text read in one prefill.
It states what holds of the draft head only then, and what the chunks of a prefill
amount to.

`MCRunner`, `MCRounds`, `MCServer`, `MCPipes`, `MCPasses`, `MCKernels` - the instances for TLC.

`DataProofs` (induction over numbers, sequences put one behind another), `StateProofs`
(lemmas about the functions of `RunnerState`), `RunnerProofs`, `ServerProofs`, `ChatProofs`,
`LaunchProofs`, `PipesProofs` and `RepackProofs` (the theorems).

Definitions commented *a mutant* are what a plausible slip in the code would make
of the definition after them; each property is violated by one.

## Runs

| Run | Question | Answer |
| --- | --- | --- |
| `api` | Does any order of calls keep the state on the text, and the reply what one-token decoding would give? SpecMax is 2, so drafts of depth 2 are replayed from the save. | yes |
| `rounds` | Do rounds of all kinds leave the head's cache in step and the next draft's source right? Both undo paths, proposals and resets; does chunking show? | yes |
| `headless` | Is a rejected draft undone on a checkpoint without a draft head? | no: `speculate_proposed` does not check |
| `server` | Is each request answered on its own history, from the best checkpoint that is still good, and does every step get on? Does a trimmed conversation keep its task and the turn being answered, and its place in the cache while it grows, and is nothing refused that could be answered? | yes |
| `server_head` | Is the head's cache one short of the model's in the server? | no: each turn's last pair is skipped |
| `server_window` | Does a request for the whole window get as much as fits? | no: a round past the end is an error |
| `server_ceiling` | Is `max_tokens` a ceiling? | no: up to MaxDepth tokens more |
| `pipes` | Do disciplined roles read what was sent, wake up, and come to the end? One pipe, three slots, two consumers, five transfers: the ring wraps. | yes |
| `pipes_faults` | Two pipes in opposite directions, any accepted use, failing and slow roles: does every consumer see every commit as the queues of `Broadcast` would have it, is the region always joined, is the root cause reported? | yes |
| `pipes_deadlock` | Do the checker's rules rule out deadlock on a pipe? | no: producer and consumer may between them hold the whole ring |
| `passes` | Do the Runner's lists, overlapped as far as the barriers allow, compute what they would in turn, from nothing stale, with each layer's own memory rolled back? Are the barriers needed? | yes |
| `kernels` | Does every kernel the repository makes compile, pass its checker, compute its function, and do the same when lowered, with no two threads meeting? Does no program near it that is accepted go wrong, hold more than it was charged, or race? | yes |

The five answers "no" are recorded under `findings`, with the comment each
disagrees with. `server_ceiling` is also the reason `TypeOK` of `Server` does not bound
`out` by `want`.

**Bounds.** Two tokens, of which after a text of two either can be drawn and
otherwise one: drafts are then right and wrong, and rounds keep none, some and
all. Caches of 4 and 5 positions let a prompt of two chunks, a full round and a
round that does not fit happen in one behaviour. `MaxBacks` bounds how often a
client leaves or shortens its text: what a text leaves in the caches shows in the
next one. The server's window is 21
tokens, of which 16 may be the prompt; a message is up to 13 words. The conversations
share prefixes of different lengths, hold up to four turn boundaries against a pool of
`Keep = 3`, and one leaves no more room than is kept for a reply, so that rounds run into
the end. Others are over the budget: by a token, then within the same step of a quarter
of the budget, then past it, so that the cut has to stay and then to move; with results
of tools on both sides of a cut; with a result larger than the window, elided; with a task
that leaves no room for anything, refused; and with nothing that may be dropped.
`Follows` says which are sent after which, so that three requests in a row are every
order of the short ones and the growth of a long one. `MaxRequests = 3` is one request to
leave something, one to divert the cache, one to resume from it. A message is elided from
four tokens on, where the code has 257 bytes. Lookup lengths are 2..3 where the
code has 4..8, so that matches occur in texts this short. `passes` has a linear, an
attention and another linear layer: layers hand over to each other, and the second
linear layer is not the second layer. It runs each kind of pass with whole and split
attention: rounds undone by copy and by replay, a prefill of two chunks, from
nothing and between a resume and a checkpoint, a step, on both of Metal's encoders, in one list or launch by launch (`LEX_SYNC`), and on the stream with
int8 plans where the code has int8 kernels. A pass has no branches, so one of each and
the order they come in is all there is; longer models repeat the same layers. Deadlock is not checked:
a client may stop calling, and the bounds stop it; a job of `kernels` ends.

`kernels` has 52 cases: each builder at the smallest sizes where every loop turns at least
twice and every tile has rows and columns, sequences that end inside a block and at its
edge, empty stretches, one and several tokens, one and several heads per key, batches
rolled back after each of their tokens, weights of every file format, and six `.lx`
kernels. Each is run with unit 1 and unit 2. Every slip is made of ten kernels, chosen to
have loads ahead, roles, masks, carries, quantised weights, snapshots and views of
computed rows, and every token slip of three texts: about two thousand programs, of which
the checker refuses most. The lowered code runs on simdgroups of 2 lanes, two
of them, instances in either order; fragments are 2 by 2. A target of 227 KB and 1024
threads is never full with kernels so small: what the budget is worth is `BudgetCovers`.
`gemm_fp4.lx` is `gemm_fp4_res.lx` without the residual and is not run again.

**Fairness.** `Pipes` assumes weak fairness of each role's thread and of the join:
threads are scheduled, and a wait with a deadline wakes when it passes. No fairness
is put on failing, and none on being woken early. `Completes` and `Joins` rest on it;
the mutant of `Joins` is a wait without a deadline.

`Runner` and `Server` assume none: their properties are safety properties. That the
server gets on is stated as `EveryStepAdvances`: each of its own steps reads more
of the prompt, says more, or ends the request. Both measures are bounded (`at` by
the prompt; a round that says nothing ends the request), so a request cannot go on
for ever while the server's thread runs.

## Proofs

The theorems hold for every value of the constants. Six modules have them, over two
of lemmas that they share; what is assumed of the constants is named in each part. A
loop of the code is a recursive function of the number of its turns, of which nothing is
known until it has been shown to exist: `RecursionExists` of `DataProofs` does that, from
the least element of a set of numbers.

**The runner** (`RunnerProofs`, over `StateProofs`). Assumed are `SizeAssumption` and
`ClientAssumption` only: sizes are positive and ordered as the constants of
`qwen_run.rs` are, prompts and proposals are not empty.

* `TypeCorrect`: `Spec => []TypeOK`. The substance is that no method takes a
  position past the caches, for any sizes: batches are refused in time, a draft
  stops at the head's cap, a round's cut leaves room for its pairs, a replay fits
  because it is shorter than the batch it replaces, and a prefill whose pairs do
  not fit (possible after `restore`) stops at the cap.
* `TextKept`: `Spec => []Coherent`, if drafts are proposed only to checkpoints
  with a draft head - the side condition is `headless`'s counterexample.
* `Speculates`: `Spec => OneTokenAtATime`, and `DraftsStartHere`:
  `Spec => []DraftsFromHere`, under the same condition.
* `HeadStaysBehind`: `[]HeadBehind`, and `RoundsWarm`: `RoundWarmsHead` (given a head),
  for clients that do not call `save` and `restore`, which leave the head's position
  ahead of the text.
* `ChunksMakeOnePass`: `Spec => []ChunksDoNotShow`, for any size of batch.
* `HeadIsKept`: `RoundsSpec => []HeadStaysInStep`, for clients that call neither `save`
  and `restore` nor `step`, which leaves the head a row behind.

The argument is in terms of `Holds(r, t)`: position, recurrent state and the KV
prefix of runner `r` are those of text `t`. Lemmas state what each function of
`RunnerState` does to it: a pass appends (`FedHolds`), a restored or copied-back
state is a prefix whose KV entries are still there because a pass writes only
beyond the position it started from (`ShortenHolds`, `RestoredHolds`,
`UndoneFacts`), drafting and warming leave it alone (`SameTextHolds`). Each
decoding method is then shown to keep it, whatever it returns (`Keeps`). The invariant
is inductive together with `TypeOK`; no other strengthening is needed, because
`Resume` and `Restore` compare what they put back with the text.

Once the runner is known to hold the text, every row of a pass is known: `Draws` says
of each method's result that the tokens said are allowed one after another and that the
state left for the next draft is the model's after all of them. So each step of
`Runner` hands over a text (`HandsOver`: `Decoding`'s `Ask`), adds to the reply
(`SaysMore`: its `Say`) or shows the client nothing, and that is the refinement. The
draft head needs `BehindInv`, which adds to `HeadBehind` that a kept checkpoint's head
was behind too and that a client whose call failed has nothing pending: it closes the
one case where a round drafts nothing, a full head, which behind a full model is an
error.

`ChunksMakeOnePass` is an induction over the chunks: after each, the runner is what one
pass over the tokens read so far leaves, with the head warmed for all of them, since the
first token of the chunk to come is there to pair the last row with. `HeadIsKept` needs to
know of a prompt still being read that the head is level with the model (`Reading`), where
it is one short once the prompt is read (`InStep`): `HeadInv`. A round keeps `InStep`
whatever was accepted, as the drafts kept are paired anew from the model's own rows, over
the guesses they were drafted with.

**The server** (`ServerProofs`, over the same). Assumed are `SizeAssumption` and
`ServerAssumption`: the window fits the cache, the pool keeps at least two points,
speculation is on only with a draft head, every prompt leaves room for a reply and none
is another cut where a turn opens (what `render_within` and the template see to).

* `TypeCorrect`, `Answers`, `CacheVouches`, `RepliesFromModel`: `[]TypeOK`,
  `[]AnswersItsHistory`, `[]PointsResumable`, `[]ReplyFromModel`.
* `FarthestResumed`, `EndsKept`, `StepsAdvance`: `ResumesFarthest`, `PoolKeepsEnds`,
  `EveryStepAdvances`.

So every property of the `server` run is a theorem. `IInv` says that the runner holds
what was read of the prompt and then the reply - or, once a request is over, whatever
was said after it (`HoldsRead`): a client that hangs up, a failed round and a token that
stopped the turn in the middle of one all leave such a text. Every point kept lies in
what was read, with the state after its prefix (`PointIn`), so the KV entries below it
are the runner's own, and `ShortenHolds` makes resuming it sound. That a point was taken
where some prompt opened a turn is remembered, because a prompt that ended there could
not resume at it: `ResumesFarthest` is false without that part of `ServerAssumption`.
Between requests `tokens` is the last prompt (`Driven`), so comparing with it is
comparing with what the points vouch for. The pool needs that `evict_index` always finds
a point (`EvictFacts`) and that removing one leaves the others as they were
(`PushedFacts`). A round is `RoundFacts`: the runner's `Keeps` and `Draws` for whichever
way it drafts, with `LookupType` for what the context proposes.

**Conversations** (`ChatProofs`, over `ServerProofs` and `DataProofs`). Assumed are
`TrimAssumption` (the note takes at most half of what it may be put into; in the code fewer
than 50 bytes of 257; the budget is positive) and `ChatAssumption`, which types the
conversations and the template's texts and says what `Server`'s prompts are: the accepted
conversations, trimmed and rendered. `ServerAssumption` of these prompts is evaluated by TLC for the
conversations of the run.

* `ChatIsServer`: `ChatSpec => Spec`, so that every theorem about the server holds of it
  with its conversations; `ChatAnswers` is the most important of them, `[]AnswersItsHistory`.
* `WhatMattersIsSent`: `ChatSpec => []SendsWhatMatters`.
* `RefusalsAreHopeless`: `ChatSpec => RefusesOnlyTheHopeless`.
* `KeepsPlace`: `ChatSpec => KeepsItsPlace`.
* `ElidingShortens`: an elided message is shorter than it was, so the last loop of `trim`
  ends, for any message and note.

That the prompt being read was made of the conversation asked is an invariant at once
(`Asked`); the rest is about `render_within` as a function. The search ends between two
turns, whatever it finds there (`CutFacts`), so what is kept is the task and the
conversation from the start of a turn. `Form` - a message, or a beginning of it, the note
and an end - is not kept by eliding a second time unless more is known: `Pared` says that
the beginning is twice the end, or one more, as `elide` makes it; then the cuts of the
next pass fall outside the note, and eliding again pares the same message further
(`MiddledAgain`, `ThirdsAgain`). For the refusals the passes must be shown to come to
rest: each changes nothing or shortens the prompt (`PassFacts`), so after as many as the
prompt has tokens what is left fits or has nothing long enough to elide
(`ShortenedFacts`). Then it is no shorter than the same turns clipped (`NoLessThanBare`);
and the turn the search chose is one no later turn can better: either its cut was
enough, and then the prompt would have fitted (`RoundedUp`, `CutRemoves`), or it is the
last. Prompts are compared block by block (`Lighter`): a turn's block depends on its
neighbours' roles alone, which clipping and eliding leave.

`KeepsPlace` compares two cuts, of a conversation and of what it grows to. What a cut at
a turn removes does not depend on what stands behind the turn, since a prompt is the sum
of its messages' blocks (`GoneFacts`, `GrownGone`), and it only grows with later turns
(`RemovesGone`), so the binary search finds the first turn that makes up for the steps
(`CutIsFirst`). With the same steps that is the same turn, what is left fits without
eliding (`CutWhole`), and the new prompt begins with the old one up to the reply, whose
open turn is the one the assistant's message goes into (`GrownBegins`, `SamePlace`). The
invariant is `Placed`: `ids` is the prompt of the conversation last asked, and the last
point kept is where the reading is, at the end where the reply's turn opens; from there
`PointsResumable` and the way `Cache::chat` takes up a prompt do the rest (`TakenUp`).

**The device** (`LaunchProofs`, over `DataProofs`). `ProgramsAssumption` is assumed, which only types the
lists: launches may read and write anything, declare or not, and be any number.

* `Serial`: `Spec => []SeesSerial`. However the device overlaps what no barrier
  separates, a launch reads, for as long as it runs, what running the steps in turn
  would have given it.
* `HostSerial`: `Spec => []HostSeesSerial`. So does the host, whenever it has control.
* `NoIdleBarrier`: `Spec => []BarrierNeeded`. No barrier is placed for nothing.
* `LaunchTypes`: `Spec => []TypeOK`.

None of these is inductive. `Inv` adds: the tracker's two lists are exactly what the
launches since the last barrier write and read (`Tracks`); hence launches that conflict
have a barrier between them (`Ordered`); what has started had everything complete that
holds it (`Waited`); so of two launches sharing a written buffer the later never
starts before the earlier ends (`Apart`), and a buffer holds what the lists before left
in it or what the latest of its writers that have started left or is leaving there
(`Contents`). `Found` puts the last two together: once its earlier writers are done and
before a later one has begun, a buffer holds what it holds in turn. That the tracker's
lists contain nothing else is what `NoIdleBarrier` needs, and their completeness what the
others do. The proofs take a kernel's declared writes at their word.

What the Runner's own lists compute is proved of every session of its passes over any
sequence of linear and attention layers (`SessionsAssumption`), split or not, int8 or not,
one launch at a time or all at once, on any encoder:

* `PassesStandAlone`: `Spec => []NothingStale`.
* `SharesItsQuant`: `Spec => []QuantOfItsInput`.
* `CopiesGoHome`: `Spec => []PutsBackItsOwn`.

The assumption asks of a session what the code's callers do: `roll_back_to` is private and
called only in `verify_drafts`, right behind the batch, when that batch left snapshots;
`restore` there follows the `save` before the batch, and examples/verify.rs saves before
it restores.

All three are about lists, not about the device: `Serial` says that a launch sees what
running the steps in turn would have given it, so it is enough to look at the last writer
before it (`RunsAt`). A pass's list is put together from layers and a layer from blocks, and
of each piece it is shown what it needs and what it leaves (`Feeds`, which adds up along a
concatenation, `FeedsCat`); by induction over the layers a pass then needs nothing it has
not written itself. `int8_plan` is followed launch by launch: what stands in its output
after *n* launches of the plan feeds itself as the plan does, and whatever reads `xq` and
`xs` has, before it, a quantisation of the input it stands for with neither touched since
(`QuantBefore`) - for a launch that shares, that is the one of its predecessor, and nothing
but a matmul that leaves that input alone can be between them. For the copies the pass before a
roll back is one with snapshots, in which a launch writes a layer's memory just when it
writes that layer's rows (`Twin`), and every linear layer has one (`Snapped`); so the last
writer of the rows is the last writer of the memory. What `Steps` makes of a sequence of
passes is told apart again by `Told`, which finds each step's pass and its place there.

**Pipes** (`PipesProofs`). `PipeAssumption` types the constants; pipes,
slots, consumers and transfers are any number, and roles may fail or be late.

* `RingTypes`, `SharesAlwaysStand`, `NoneLost`, `RootAlwaysFound`: `[]TypeOK`,
  `[]SharesStand`, `[]NoLostWakeup` and `[]RootCause`, whether or not roles are
  `Disciplined`.
* `RingsBroadcast`: `Spec => Broadcasts`, the refinement, with no condition on the roles.
* `NeverStuck`: `[]NoDeadlock` for one pipe, disciplined roles, and a role for each end
  (`Simple`).
* `EndsWell`: under `Simple`, with roles that do not fail and a deadline no work reaches, no
  role ever meets an error, and at the join every transfer was made. It is the safety half
  of `Completes`; that the join comes is the other.

`IInv` says of each pipe (`Steady`) that the ring's counters count what its ends did
(`Counted`), that a slot's log of releases is the set of consumers that have had its
content and given it back (`Freed`, `Logged`), and that every share stands (`Stand`).
A slot is taken again only when all consumers are in that set; so a commit that some
consumer has not received yet, or still holds, is in its slot. Of the roles it says that
whoever sleeps waits for something that is not there (`Sleepers`, which needs every
commit, release and error to wake all), and that an abort has a first cause (`Blamed`,
`Reported`). For deadlock slots are taken in turn (`Lined`) and a consumer's shares are
an unbroken run of the commits ending at its last receive (`Polite`). If everybody
sleeps the producer waits for the slot of its next commit; then some consumer has not
given back the commit that was there a whole ring ago, so it is not waiting to receive
unless it has received all there is, which puts more commits in the ring than it has
slots. With two pipes, or a producer that holds slots back, roles may wait on each
other: `pipes_deadlock` is that. `EndsWell` follows: a deadline passes only if nobody can
move, and a borrow finds a race only where a share does not stand.

The refinement sees of a ring how long its log is, how many commits each consumer has
received, and what the slots of its shares hold now. A commit adds one message and must not
change what anybody sees: its slot is in nobody's share, since all its consumers had freed
it. It must find fewer messages wanted than there are slots, and does: whatever is wanted
lies in a slot, each in another, and none of them in the one committed (`FewerThanSlots`).
A receive shows the message after the last one taken, a release hides just the one given
back, because two shares of a consumer are of different commits (`Exact`, beside `IInv`),
and the join ends the region with every count met (`Spent`: who is over stays drained) or
with the error of a role. Everything else - acquiring, waiting, waking, failing, being
called off - is a stutter.

**Weights** (`RepackProofs`, over `DataProofs`). Nothing is assumed but what a block is:
the bytes its format has, each in 0..255, and scales that are numbers of `Modular`, -inf and
NaN among them. The theorems are about functions, so they have no invariant and no run names
them as properties; in `kernels` the same functions give each weight job its matrix and its
expected product, on files of a few blocks.

* `Q8Repacked`, `Q4Repacked`, `Q6Repacked`: for every list of blocks and every index, what
  `Split::dequant` reads from the repacked matrix is the value ggml's loop gives
  (`dequantize_row_*`, as llama.rs's tests transcribe it). A value is found again wherever the
  block put it: bytes are kept by their signed reading (`ByteBack`), the nibbles of a pair and
  the fields of a high plane come apart as they were put together (`PairsRead`, `QuartersRead`,
  `PlanesRead`), Q6_K's quarters come out in column order with the scale of their sixteen
  (`SixBitsAre`), and Q4_K's six-bit scales and mins survive being stored as bytes
  (`ScaleMinRange`).
* `TernarySites`: a column's place is within its block, and no other column has it.
* `DenseDigits`: a byte that is five ternary digits, scaled and rounded up as docs/ternary.md:76
  says, gives its digits by the tripling of `Trits::code`: after each, what is left is what
  remains of the number, scaled, off by the one rounding it began with (`OneDigit`).
* `TernaryReadsBack`, `TernaryWeights`: so whatever codes were packed are read back, and a
  weight is its code less one times the scale of its block.

Products are only swapped, never regrouped, and nothing is added to but zero; both are exact
for floats as well, so the equations do not rest on numbers being modular.

**Only model-checked**: liveness (`Completes`, `Joins`), and the programs of the kernel side,
which are walked by RECURSIVE operators, which the prover does not take.

## Not modelled

* Text: the printer (print.rs) and the lexer, the wording and the places of
  diagnostics, constants of `.lx` files that are not integers, what MSL and CUDA text
  spells and how the two differ, HTTP, JSON, MiMo's chat template, the parsing of replies,
  the cutting of a stream inside a character.
* Of the generators: pipes in `lower_sched` (lowered by role, with threads of their own),
  loads merged into wide ones, the scale of an NVFP4 run deferred to its end, launch
  shapes of a whole list, and the hand-written kernels, which have no program to be held
  against.
* Of the interpreter: a role that panics (the join reports it only if nobody timed out
  first), spurious wakeups. Rounding of floats beyond what `Arith` keeps.
* Of the runner and the server: errors of the device and of a compilation, and so a
  prefill of the server that fails part way; the ablation of call sites by label (`skip`), a
  measurement that computes something else on purpose; the sampler's probabilities; tuning;
  `DepthController`, whose estimates are floating point - `Server` takes every depth it
  may pick.
* That a kernel of `Passes` reads and writes what it declares: a declaration is taken at
  its word there; `ComputesItsFunction` shows that a kernel that is one launch writes
  nothing else.
* The parts `PROJECT.json` lists as not modelled.

Two more things came up while `Trim` was written. A conversation over the budget that
has nothing behind its task - a first user message longer than the window, say - leaves
`starts` empty, and `starts[lo]` (chat.rs:891) panics; the server has one thread, so it
is gone. The model says "panicked", and `RefusesOnlyTheHopeless` that this is the only
way there. And the price of the grid is not always "up to `step` tokens of history
dropped that would have fit" (chat.rs:874): the turn across the grid line goes as a whole.

One more came up in the server. `prefill_cached` (serve.rs:757-759) pushes points of the
new prompt as it goes, and `cache.tokens` is set only when it has returned (serve.rs:500).
Should a prefill fail part way, the points past the resumed one are of a text that
`cache.tokens` does not hold, and a later prompt that shares the old text that far would
resume one of them. In the server every prompt fits and the batch sizes are compiled at
load, so only an error of the device or of a compilation could do it; `Server` models
neither, and `PointsResumable` says nothing of the state after one.

Three disagreements of the code with its own comments were found by reading and are
recorded as hazards, since no kernel of the repository meets them: a tile loaded in a
loop and yielded has one static place and is overwritten by the next load (program.rs,
against lines 3-4 and 11-13); overlapping stores by different threads to one writable
parameter are accepted by the checker; and `map_each` is charged for less
than it holds (check.rs:19-20).

## Plan

1. Done: `RunnerState`, `Runner`, `Lookup`, `Server`, `Pipes`, `Launch`, `Plans`,
   `Passes`, `Trim`, `Chat`, the kernel side from `KernelIR` to `Kernels`, and the theorems above.
2. `Depth`: the controller with exact small fractions; a reference definition for
   `Lookup` (the most recent match of the longest suffix; what it returns moves the speed
   and never the text); of chat.rs the stream cutter and MiMo's template.
   `llama.rs`: its step and batch as two more programs of `Passes`, and its cache as a
   second, simpler client of what `RunnerState` says about caches.
3. Liveness of `Server` under weak fairness of its one thread; today `EveryStepAdvances`
   and the bounds on what it measures stand for it.
