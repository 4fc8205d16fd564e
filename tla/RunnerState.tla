---------------------------- MODULE RunnerState ----------------------------
(***************************************************************************)
(* The state a Runner keeps on the device and what each of its methods     *)
(* does to it (lex-rt/src/qwen_run.rs).  The methods take &mut self and    *)
(* one thread drives them, so each is a function from one state to the     *)
(* next; modules Runner and Server make actions of them.                   *)
(*                                                                         *)
(* Numbers are abstracted to what they were computed from.  A recurrent    *)
(* state (gated-delta memory and convolution window together) is the       *)
(* sequence of tokens it has digested; a hidden state, and an attention    *)
(* cache entry, is the text it was computed after; a draft-head entry is a *)
(* hidden state with the token paired with it.                             *)
(***************************************************************************)
EXTENDS Naturals, Sequences

CONSTANTS Token,        \* the vocabulary
          Target(_),    \* the sampler's nucleus for the logits after a text
          Cap,          \* positions in the caches
          SpecMax,      \* largest batch that keeps per-token snapshots
          MaxBatch,     \* largest batch of the batched matvec
          GemmSizes,    \* prefill chunk sizes of the GEMM, {} without one
          PrefillMax,   \* largest batch with the GEMM
          HasMtp        \* does the checkpoint carry a draft head?

ASSUME SizeAssumption ==
  /\ Cap \in Nat \ {0} /\ SpecMax \in Nat \ {0, 1}
  /\ MaxBatch \in Nat \ {0} /\ SpecMax <= MaxBatch
  /\ PrefillMax \in Nat /\ MaxBatch <= PrefillMax
  /\ GemmSizes \subseteq 1..PrefillMax
  /\ HasMtp \in BOOLEAN

(* The deepest a proposed round verifies.                                  *)
MaxDepth == SpecMax - 1

(* What a buffer holds that is no state of this text: zeros, the head's    *)
(* own guess, or numbers from a pass over mismatched caches.               *)
Junk == <<>>

(* spec_h is an Option; nothing real is ever Junk, so None shares it.      *)
None == <<>>

Min2(a, b) == IF a <= b THEN a ELSE b

(* The fields of Runner (and of its Snapshot) that a method changes:       *)
(*   pos, delta, kv    the position, the recurrent state, the KV cache     *)
(*   mtpPos, head      the draft head's position and its cache             *)
(*   specH             the hidden state handed to the next draft, or None  *)
(*   x                 the single-row residual stream, acts.x              *)
(*   saved             what save() put aside                               *)
RunnerType ==
  [pos : 0..Cap, delta : Seq(Token), kv : [1..Cap -> Seq(Token)],
   mtpPos : 0..Cap, head : [1..Cap -> Seq(Token)],
   specH : Seq(Token), x : Seq(Token),
   saved : [pos : 0..Cap, delta : Seq(Token)]]

(* A freshly loaded runner: every buffer zeroed.                           *)
Loaded ==
  [pos |-> 0, delta |-> <<>>, kv |-> [i \in 1..Cap |-> Junk],
   mtpPos |-> 0, head |-> [i \in 1..Cap |-> Junk],
   specH |-> None, x |-> Junk, saved |-> [pos |-> 0, delta |-> <<>>]]

(* The attention layers read their cache straight through to pos, and the  *)
(* recurrent layers their state: a pass is over one text only if they      *)
(* agree on it.                                                            *)
Sound(r) ==
  /\ r.pos = Len(r.delta)
  /\ \A i \in 1..r.pos : r.kv[i] = SubSeq(r.delta, 1, i)

(* What row j of a pass over toks is computed after.                       *)
Row(r, toks, j) == IF Sound(r) THEN r.delta \o SubSeq(toks, 1, j) ELSE Junk

(* What the sampler can draw from a row's logits.                          *)
Allowed(row) == IF row = Junk THEN Token ELSE Target(row)

----------------------------------------------------------------------------
(* One pass over the weights. *)

(* A batch the caches and the kernels can take; otherwise an Err, before   *)
(* anything is written.                                                    *)
Most == IF GemmSizes = {} THEN MaxBatch ELSE PrefillMax
FitsOneOver(r, n) == n \in 1..Most /\ r.pos + n <= Cap + 1    \* a mutant
Fits(r, n) == n \in 1..Most /\ r.pos + n <= Cap

(* forward_with: every token's KV entry, and the recurrent state after the *)
(* last one.  The attention cache is overwritten position by position.     *)
Fed(r, toks) ==
  [r EXCEPT !.pos = @ + Len(toks),
            !.delta = Row(r, toks, Len(toks)),
            !.kv = [i \in 1..Cap |->
                      IF i \in (r.pos + 1)..(r.pos + Len(toks))
                      THEN Row(r, toks, i - r.pos) ELSE r.kv[i]]]

(* forward: only for the logits of the last row alone does that row pass   *)
(* through the single-row buffers.                                         *)
Forwarded(r, toks, all) ==
  [Fed(r, toks) EXCEPT !.x = IF all THEN @ ELSE Row(r, toks, Len(toks))]

(* step: one token, through the single-row buffers.                        *)
Stepped(r, tok) ==
  [Fed(r, <<tok>>) EXCEPT !.specH = None, !.x = Row(r, <<tok>>, 1)]

(* step refused: "the cache is full", after spec_h was cleared.            *)
StepRefused(r) == [r EXCEPT !.specH = None]

(* How many of left prompt tokens the next chunk takes.                    *)
Chunk(left) ==
  IF \E g \in GemmSizes : g <= left
  THEN CHOOSE g \in GemmSizes :
         g <= left /\ \A f \in GemmSizes : f <= left => f <= g
  ELSE Min2(left, MaxBatch)

----------------------------------------------------------------------------
(* The draft head. *)

(* The entry for a hidden state and the token after it.                    *)
Pair(h, tok) == IF h = Junk THEN Junk ELSE Append(h, tok)

(* mtp_warm: the head's cache over rows hs and the token after each.  (It  *)
(* goes in chunks, one after the other; where they break does not show.)   *)
Warmed(r, hs, toks) ==
  [r EXCEPT !.mtpPos = @ + Len(toks),
            !.head = [i \in 1..Cap |->
                        IF i \in (r.mtpPos + 1)..(r.mtpPos + Len(toks))
                        THEN Pair(hs[i - r.mtpPos], toks[i - r.mtpPos])
                        ELSE r.head[i]]]

(* The hidden state a draft or a proposed round starts from.               *)
Source(r) == IF r.specH /= None THEN r.specH ELSE r.x

(* How many tokens draft_with drafts at a depth: it stops at the cap.      *)
Drafts(r, depth) == IF HasMtp THEN Min2(depth, Cap - r.mtpPos) ELSE 0

(* draft_with after n drafts: the first pair has the model's hidden state, *)
(* the others the head's own guess, and acts.x is left holding the last.   *)
Drafted(r, last, n) ==
  [r EXCEPT !.mtpPos = @ + n, !.specH = None, !.x = IF n > 0 THEN Junk ELSE @,
            !.head = [i \in 1..Cap |->
                        IF i = r.mtpPos + 1 /\ n > 0 THEN Pair(Source(r), last)
                        ELSE IF i \in (r.mtpPos + 2)..(r.mtpPos + n) THEN Junk
                        ELSE r.head[i]]]

----------------------------------------------------------------------------
(* Undoing. Only a runner with a draft head has a Snapshot. *)

Saved(r) ==
  IF HasMtp THEN [r EXCEPT !.saved = [pos |-> r.pos, delta |-> r.delta]] ELSE r

Restored(r) ==
  IF HasMtp THEN [r EXCEPT !.pos = r.saved.pos, !.delta = r.saved.delta] ELSE r

(* Does a pass over t tokens keep a snapshot per row?  (The batch sizes    *)
(* are compiled at load, as the server and the benchmarks have it.)        *)
Snapped(t) == HasMtp /\ t <= SpecMax

(* The verify's pass: a batch too large for snapshots saves the state      *)
(* first, to replay from.                                                  *)
Readied(r, t) == IF Snapped(t) THEN r ELSE Saved(r)
Ran(r, fed) == Fed(Readied(r, Len(fed)), fed)

(* roll_back_to: the per-row snapshot after draft kept is copied back.     *)
RolledBack(r, ran, fed, kept) ==
  [ran EXCEPT !.pos = (@ - Len(fed)) + kept + 1, !.delta = Row(r, fed, kept + 1)]

(* r ran fed and became ran; fed up to draft kept is to stand.  Without    *)
(* per-row snapshots the saved state is restored and the accepted prefix   *)
(* fed again.                                                              *)
UndoneOneShort(r, ran, fed, kept) ==                          \* a mutant
  IF kept + 1 = Len(fed) THEN ran
  ELSE IF kept > 0 THEN Fed(Restored(ran), SubSeq(fed, 1, kept))
  ELSE Stepped(Restored(ran), fed[1])

Undone(r, ran, fed, kept) ==
  IF kept + 1 = Len(fed) THEN ran
  ELSE IF Snapped(Len(fed)) THEN RolledBack(r, ran, fed, kept)
  ELSE IF kept > 0 THEN Fed(Restored(ran), SubSeq(fed, 1, kept + 1))
  ELSE Stepped(Restored(ran), fed[1])

(* Can the replay of Undone be fed?                                        *)
ReplayFits(ran, fed, kept) ==
  \/ kept + 1 = Len(fed)
  \/ Snapped(Len(fed))
  \/ Restored(ran).pos + kept + 1 <= Cap

----------------------------------------------------------------------------
(* A speculative round: verify_drafts on fed = last and the drafts. *)

(* What the judging may conclude: how many drafts are kept -- the longest  *)
(* prefix the model agrees with -- and the token said next: in a rejected  *)
(* draft's place another one, and after the last row a free one.           *)
VerdictsUnchecked(r, fed) ==                                  \* a mutant
  { v \in (0..(Len(fed) - 1)) \X Token : v[2] \in Allowed(Row(r, fed, v[1] + 1)) }

Verdicts(r, fed) ==
  { v \in (0..(Len(fed) - 1)) \X Token :
      /\ \A i \in 1..v[1] : fed[i + 1] \in Allowed(Row(r, fed, i))
      /\ v[2] \in Allowed(Row(r, fed, v[1] + 1))
      /\ v[1] + 1 < Len(fed) => v[2] /= fed[v[1] + 2] }

(* The state after a round that keeps the first kept drafts.  unheaded is  *)
(* <<h>>, the hidden state before last, when the drafts did not come from  *)
(* the head: then the pair of last is missing too, and the head's cache is *)
(* cut back one position further and rewritten from there.                 *)
VerifiedUncut(r, fed, kept, unheaded) ==                      \* a mutant
  LET back == Undone(r, Ran(r, fed), fed, kept)
      hs   == unheaded \o [j \in 1..kept |-> Row(r, fed, j)]
      toks == SubSeq(fed, 2 - Len(unheaded), kept + 1)
  IN  [Warmed(back, hs, toks) EXCEPT !.specH = Row(r, fed, kept + 1)]

VerifiedLastRow(r, fed, kept, unheaded) ==                    \* a mutant
  [Undone(r, Ran(r, fed), fed, kept) EXCEPT !.specH = Row(r, fed, Len(fed))]

Verified(r, fed, kept, unheaded) ==
  LET back == Undone(r, Ran(r, fed), fed, kept)
      cut  == [back EXCEPT !.mtpPos = back.pos - (kept + 1 + Len(unheaded))]
      hs   == unheaded \o [j \in 1..kept |-> Row(r, fed, j)]
      toks == SubSeq(fed, 2 - Len(unheaded), kept + 1)
      warm == IF HasMtp THEN Warmed(cut, hs, toks) ELSE back
  IN  [warm EXCEPT !.specH = Row(r, fed, kept + 1)]

----------------------------------------------------------------------------
(* What a call of a decoding method may return: an Err, or the tokens now  *)
(* said and the one to feed next, and the runner it leaves.                *)

Err(r) == [ok |-> FALSE, rt |-> r, said |-> <<>>, next |-> <<>>]

Drawn(row) == { n \in Token : n \in Allowed(row) }

StepResults(r, tok) ==
  IF r.pos < Cap
  THEN { [ok |-> TRUE, rt |-> Stepped(r, tok), said |-> <<tok>>, next |-> <<n>>] :
           n \in Drawn(Row(r, <<tok>>, 1)) }
  ELSE { Err(StepRefused(r)) }

(* verify_drafts.  A replay that does not fit fails after the restore.     *)
VerifyResults(r, fed, unheaded) ==
  IF ~Fits(r, Len(fed)) THEN { Err(Readied(r, Len(fed))) }
  ELSE { IF ReplayFits(Ran(r, fed), fed, v[1])
         THEN [ok |-> TRUE, rt |-> Verified(r, fed, v[1], unheaded),
               said |-> SubSeq(fed, 1, v[1] + 1), next |-> <<v[2]>>]
         ELSE Err(Restored(Ran(r, fed))) : v \in Verdicts(r, fed) }

(* speculate_with: the head's drafts, whatever they are; with no head, or  *)
(* no room in its cache, one step.                                         *)
SpeculateResults(r, last, depth) ==
  LET n == Drafts(r, depth)
      d == IF HasMtp THEN Drafted(r, last, n) ELSE r
  IN  IF n = 0 THEN StepResults(d, last)
      ELSE UNION { VerifyResults(d, <<last>> \o drafts, <<>>) :
                     drafts \in [1..n -> Token] }

(* speculate_proposed: at most MaxDepth of the drafts, which are not none. *)
ProposedResults(r, last, drafts) ==
  VerifyResults([r EXCEPT !.specH = None],
                <<last>> \o SubSeq(drafts, 1, Min2(Len(drafts), MaxDepth)),
                <<Source(r)>>)

----------------------------------------------------------------------------
(* Prefill, and going back. *)

(* One chunk of a prefill with todo still to read: every row but the       *)
(* prompt's last is paired with the token after it for the head, and the   *)
(* prompt's last row is handed to the first draft.                         *)
WarmsOneShort(todo) == Chunk(Len(todo)) - 1                   \* a mutant
Warms(todo) == IF HasMtp THEN Min2(Chunk(Len(todo)), Len(todo) - 1) ELSE 0

(* The chunk fed and the first m of its rows warmed.                       *)
ChunkWarmed(r, todo, m) ==
  LET part == SubSeq(todo, 1, Chunk(Len(todo)))
  IN  Warmed(Fed(r, part), [j \in 1..m |-> Row(r, part, j)],
             SubSeq(todo, 2, m + 1))

PrefillChunk(r, todo) ==
  LET warm == ChunkWarmed(r, todo, Warms(todo))
  IN  IF Chunk(Len(todo)) = Len(todo)
      THEN [warm EXCEPT !.specH = Row(r, todo, Len(todo)),
                        !.x = Row(r, todo, Len(todo))]
      ELSE warm

(* What a prefill of toks amounts to, however it was cut into chunks.      *)
Prefilled(r, toks) ==
  LET n    == Len(toks)
      hs   == [j \in 1..(n - 1) |-> Row(r, toks, j)]
      warm == IF HasMtp THEN Warmed(Fed(r, toks), hs, SubSeq(toks, 2, n))
              ELSE Fed(r, toks)
  IN  [warm EXCEPT !.specH = Row(r, toks, n), !.x = Row(r, toks, n)]

(* prefill's loop: chunk after chunk, until nothing is left to read.       *)
NextChunk(s) ==
  IF s.left = <<>> THEN s
  ELSE [rt |-> PrefillChunk(s.rt, s.left),
        left |-> SubSeq(s.left, Chunk(Len(s.left)) + 1, Len(s.left))]

ReadAll(r, toks) ==
  LET read[k \in Nat] ==
        IF k = 0 THEN [rt |-> r, left |-> toks] ELSE NextChunk(read[k - 1])
  IN  read[Len(toks)].rt

(* reset: the positions and the recurrent state; spec_h is left as it is,  *)
(* and the caches are simply overwritten as positions are refilled.        *)
ClearedKeepsHead(r) == [r EXCEPT !.pos = 0, !.delta = <<>>]   \* a mutant
Cleared(r) == [r EXCEPT !.pos = 0, !.mtpPos = 0, !.delta = <<>>]

CheckpointType == [pos : 0..Cap, mtpPos : 0..Cap, delta : Seq(Token)]

Checkpoint(r) == [pos |-> r.pos, mtpPos |-> r.mtpPos, delta |-> r.delta]

(* resume: the positions and the recurrent state; the caches are read in   *)
(* place.                                                                  *)
Resumed(r, c) ==
  [r EXCEPT !.pos = c.pos, !.mtpPos = c.mtpPos, !.delta = c.delta,
            !.specH = None]
=============================================================================
