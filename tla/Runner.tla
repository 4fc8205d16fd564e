------------------------------- MODULE Runner -------------------------------
(***************************************************************************)
(* The Runner of lex-rt/src/qwen_run.rs under a client that calls its      *)
(* methods in any order the methods' comments allow: prompts are           *)
(* prefilled, tokens decoded one at a time or in speculative rounds, texts *)
(* abandoned, checkpoints taken and resumed.  Ops selects the methods a    *)
(* client uses.                                                            *)
(***************************************************************************)
EXTENDS RunnerState

CONSTANTS Ops,          \* the methods this client calls
          Prompts,      \* the prompts it prefills
          Proposals,    \* the drafts it proposes from outside the model
          Drafting      \* the depths it speculates at

ASSUME ClientAssumption ==
  /\ Prompts \subseteq Seq(Token) \ {<<>>}
  /\ Proposals \subseteq Seq(Token) \ {<<>>}
  /\ Drafting \subseteq Nat \ {0}

VARIABLES rt,           \* the runner
          text,         \* the client's own record of what it has been told is said
          base,         \* how much of text was handed over, not drawn
          next,         \* <<the token to feed next>>, or <<>>
          todo,         \* what a prefill still has to read
          held,         \* <<a checkpoint the client keeps>>, or <<>>
          failed        \* the last call was an Err: the client gives up the text

client == <<text, base, next, todo, held, failed>>
vars == <<rt, text, base, next, todo, held, failed>>

TypeOK ==
  /\ rt \in RunnerType
  /\ text \in Seq(Token)
  /\ base \in 0..Len(text)
  /\ next \in Seq(Token) /\ Len(next) <= 1
  /\ todo \in Seq(Token)
  /\ held \in Seq(CheckpointType) /\ Len(held) <= 1
  /\ failed \in BOOLEAN

Init ==
  /\ rt = Loaded
  /\ text = <<>> /\ base = 0 /\ next = <<>> /\ todo = <<>>
  /\ held = <<>> /\ failed = FALSE

Ready == todo = <<>> /\ ~failed

(* A call returned an Err.                                                 *)
Fail == /\ failed' = TRUE /\ next' = <<>> /\ todo' = <<>>
        /\ base' = Len(text)
        /\ UNCHANGED <<text, held>>

----------------------------------------------------------------------------
(* prefill(p): begun here, and read chunk by chunk. *)
Prefill(p) ==
  /\ "prefill" \in Ops /\ Ready
  /\ todo' = p /\ next' = <<>> /\ base' = Len(text)
  /\ UNCHANGED <<rt, text, held, failed>>

ReadChunk ==
  LET t == Chunk(Len(todo))
  IN  /\ todo /= <<>>
      /\ Fits(rt, t) /\ rt.mtpPos + Warms(todo) <= Cap
      /\ rt' = PrefillChunk(rt, todo)
      /\ text' = text \o SubSeq(todo, 1, t)
      /\ base' = Len(text')
      /\ todo' = SubSeq(todo, t + 1, Len(todo))
      /\ IF todo' = <<>>
         THEN \E n \in Drawn(Row(rt, todo, t)) : next' = <<n>>
         ELSE next' = <<>>
      /\ UNCHANGED <<held, failed>>

(* A chunk that does not fit: the ones before it have been fed.            *)
RefuseChunk ==
  /\ todo /= <<>>
  /\ ~Fits(rt, Chunk(Len(todo)))
  /\ rt' = rt
  /\ Fail

(* A chunk whose pairs the head's cache has no room for: it has been fed,  *)
(* and as many of its rows warmed as went before the Err.  (Only a client  *)
(* of restore(), which leaves the head's position, meets it.)              *)
RefuseWarm ==
  LET t == Chunk(Len(todo))
  IN  /\ todo /= <<>>
      /\ Fits(rt, t) /\ rt.mtpPos + Warms(todo) > Cap
      /\ \E m \in 0..(Cap - rt.mtpPos) : rt' = ChunkWarmed(rt, todo, m)
      /\ text' = text \o SubSeq(todo, 1, t)
      /\ base' = Len(text')
      /\ todo' = <<>> /\ next' = <<>> /\ failed' = TRUE
      /\ UNCHANGED held

(* forward(toks, all): a batch fed outside the decode loop; spec_h is left.*)
Forward(toks, all) ==
  /\ "forward" \in Ops /\ Ready
  /\ Fits(rt, Len(toks))
  /\ rt' = Forwarded(rt, toks, all)
  /\ text' = text \o toks
  /\ base' = Len(text')
  /\ next' = <<>>
  /\ UNCHANGED <<todo, held, failed>>

----------------------------------------------------------------------------
(* Decoding: the client feeds the pending token and takes what it is told. *)
Take(o) ==
  /\ rt' = o.rt
  /\ IF o.ok
     THEN /\ text' = text \o o.said /\ next' = o.next
          /\ UNCHANGED <<base, todo, held, failed>>
     ELSE Fail

DecodeStep ==
  /\ "step" \in Ops /\ Ready /\ next /= <<>>
  /\ \E o \in StepResults(rt, next[1]) : Take(o)

SpeculateWith(depth) ==
  /\ "speculate" \in Ops /\ Ready /\ next /= <<>>
  /\ \E o \in SpeculateResults(rt, next[1], depth) : Take(o)

(* There is a hidden state before next only once something has been read:  *)
(* the head's new position, two before the token said next, is unsigned.   *)
SpeculateProposed(drafts) ==
  /\ "propose" \in Ops /\ Ready /\ next /= <<>>
  /\ rt.pos > 0
  /\ \E o \in ProposedResults(rt, next[1], drafts) : Take(o)

(* step(tok) on a token of a prompt, as the tests feed theirs.             *)
FeedStep(tok) ==
  /\ "step" \in Ops /\ Ready
  /\ \E o \in StepResults(rt, tok) :
       /\ rt' = o.rt
       /\ IF o.ok
          THEN /\ text' = Append(text, tok) /\ base' = Len(text')
               /\ next' = o.next
               /\ UNCHANGED <<todo, held, failed>>
          ELSE Fail

----------------------------------------------------------------------------
(* Leaving a text and coming back to one. *)

Reset ==
  /\ "reset" \in Ops /\ todo = <<>>
  /\ rt' = Cleared(rt)
  /\ text' = <<>> /\ base' = 0 /\ next' = <<>> /\ failed' = FALSE
  /\ UNCHANGED <<todo, held>>

TakeCheckpoint ==
  /\ "checkpoint" \in Ops /\ Ready
  /\ held' = <<Checkpoint(rt)>>
  /\ UNCHANGED <<rt, text, base, next, todo, failed>>

(* The caller has established that the tokens up to c.pos are the ones     *)
(* that produced it: they begin the text the runner was last driven with.  *)
Resume ==
  /\ "checkpoint" \in Ops /\ todo = <<>> /\ held /= <<>>
  /\ held[1].pos <= Len(text)
  /\ SubSeq(text, 1, held[1].pos) = held[1].delta
  /\ rt' = Resumed(rt, held[1])
  /\ text' = held[1].delta /\ base' = Len(text')
  /\ next' = <<>> /\ failed' = FALSE
  /\ UNCHANGED <<todo, held>>

(* save() and restore(), as the benchmarks use them: back to the same text.*)
Save ==
  /\ "save" \in Ops /\ Ready
  /\ rt' = Saved(rt)
  /\ UNCHANGED client

Restore ==
  /\ "save" \in Ops /\ todo = <<>> /\ HasMtp
  /\ rt.saved.pos <= Len(text)
  /\ SubSeq(text, 1, rt.saved.pos) = rt.saved.delta
  /\ rt' = Restored(rt)
  /\ text' = rt.saved.delta /\ base' = Len(text')
  /\ next' = <<>> /\ failed' = FALSE
  /\ UNCHANGED <<todo, held>>

----------------------------------------------------------------------------
Next ==
  \/ \E p \in Prompts : Prefill(p)
  \/ \E p \in Prompts, all \in BOOLEAN : Forward(p, all)
  \/ ReadChunk \/ RefuseChunk \/ RefuseWarm
  \/ DecodeStep
  \/ \E tok \in Token : FeedStep(tok)
  \/ \E d \in Drafting : SpeculateWith(d)
  \/ \E p \in Proposals : SpeculateProposed(p)
  \/ Reset \/ TakeCheckpoint \/ Resume \/ Save \/ Restore

Spec == Init /\ [][Next]_vars

----------------------------------------------------------------------------
(* Properties *)

(* Whatever was drafted, kept, undone, replayed or resumed, the recurrent  *)
(* state has digested exactly the text the client was told is said, and    *)
(* the attention cache up to the position is of the same text.  Get it     *)
(* wrong and nothing errors: the model answers from a history it never saw *)
(* (verify_drafts, roll_back_to, restore and resume).                      *)
Coherent == Sound(rt) /\ rt.delta = text

(* A round leaves no token in the recurrent state that was not said: the   *)
(* drafts the model turned down are undone, by a copy or by a replay       *)
(* (verify_drafts), also for drafts proposed to a model without a head.    *)
NothingUnsaid == next /= <<>> => rt.delta = text

(* A draft starts from the model's own state after the whole text, never   *)
(* from what an earlier step or the head itself left in a buffer (spec_h   *)
(* and acts.x in draft_with and speculate_proposed).                       *)
DraftsFromHere == next /= <<>> => Source(rt) = text

(* The head's cache is one short of the model's and every entry pairs the  *)
(* model's own hidden state with the token that followed: no holes, no     *)
(* guesses, nothing of an earlier text.                                    *)
HeadInStep ==
  HasMtp /\ next /= <<>> =>
    /\ rt.mtpPos + 1 = rt.pos
    /\ \A i \in 1..rt.mtpPos : rt.head[i] = SubSeq(text, 1, i + 1)

(* The head never runs ahead of the text, so warming it never finds its    *)
(* cache full while the model's has room.                                  *)
HeadBehind == todo /= <<>> \/ next /= <<>> => rt.mtpPos <= rt.pos

Round == \/ \E d \in Drafting : SpeculateWith(d)
         \/ \E p \in Proposals : SpeculateProposed(p)

(* Every speculative round leaves the head one short of the model and the  *)
(* drafts it kept paired from the model's hidden states, however far the   *)
(* head had drafted and from wherever it started (verify_drafts' last      *)
(* part); a round on proposed drafts writes the pair of its first token    *)
(* too.                                                                    *)
RoundWarmsHead ==
  [][Round /\ ~failed' =>
       /\ rt'.mtpPos + 1 = rt'.pos
       /\ \A i \in (rt.pos + 1)..rt'.mtpPos :
            rt'.head[i] = SubSeq(text', 1, i + 1)]_vars

(* Speculation changes how fast tokens arrive, never which: the reply, the *)
(* pending token included, grows by tokens drawn one after another.        *)
Abstract == INSTANCE Decoding
              WITH prompt <- SubSeq(text, 1, base),
                   reply  <- SubSeq(text, base + 1, Len(text)) \o next
OneTokenAtATime == Abstract!Spec
=============================================================================
