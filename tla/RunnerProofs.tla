---------------------------- MODULE RunnerProofs ----------------------------
(***************************************************************************)
(* Theorems about Runner: its type invariant; that the runner's state is   *)
(* of the text its client was told is said; that the reply is drawn one    *)
(* token after another (the refinement of Decoding); and where drafts      *)
(* start from and the draft head stands.  What each method does is in      *)
(* StateProofs; the proofs here go through Runner's actions one by one.    *)
(***************************************************************************)
EXTENDS Rounds, StateProofs

(* Coherent says that the runner holds the client's text.                  *)
LEMMA CoherentHolds == TypeOK => (Coherent <=> Holds(rt, text))
BY DEF TypeOK, Coherent, Sound, Holds

(* A client that takes a well-formed result stays well formed.             *)
LEMMA TakeType ==
  ASSUME TypeOK, NEW o, Good(o), Take(o)
  PROVE  TypeOK'
<1>1. CASE o.ok
  <2>1. text \o o.said \in Seq(Token) /\ Len(text \o o.said) = Len(text) + Len(o.said)
        /\ Len(text) \in Nat /\ Len(o.said) \in Nat
    BY ConcatProperties, LenProperties DEF TypeOK, Good
  <2>2. base \in 0..Len(text \o o.said)
    BY <2>1 DEF TypeOK
  <2> QED BY <1>1, <2>1, <2>2 DEF TypeOK, Good, Take
<1>2. CASE ~o.ok
  BY <1>2, LenProperties, EmptySeq DEF TypeOK, Good, Take, Fail
<1> QED BY <1>1, <1>2

(* A client that takes a result the runner keeps has the runner's text.    *)
LEMMA TakeHolds ==
  ASSUME NEW o, Keeps(o, text), Take(o)
  PROVE  Holds(rt', text')
BY DEF Keeps, Take, Fail

(* Every call, for every vocabulary, model, cache size and batch limit,    *)
(* leaves the positions within the caches and the client's record well     *)
(* formed.  In particular no pass and no warming of the head writes past   *)
(* its cache (TypeOK).                                                     *)
THEOREM TypeCorrect == Spec => []TypeOK
<1>1. ASSUME Init PROVE TypeOK
  <2>1. Loaded \in RunnerType
    <3>1. 0 \in 0..Cap /\ <<>> \in Seq(Token)
      BY SizeAssumption
    <3> QED BY <3>1 DEF Loaded, RunnerType, Junk, None
  <2>2. failed \in BOOLEAN
    BY <1>1, Zenon DEF Init
  <2>3. base \in 0..Len(text)
    BY <1>1 DEF Init
  <2> QED BY <1>1, <2>1, <2>2, <2>3 DEF Init, TypeOK
<1>2. TypeOK /\ [Next]_vars => TypeOK'
  <2> SUFFICES ASSUME TypeOK, [Next]_vars PROVE TypeOK'
    OBVIOUS
  <2>0. /\ rt \in RunnerType /\ text \in Seq(Token) /\ Len(text) \in Nat
        /\ todo \in Seq(Token) /\ Len(text) \in 0..Len(text)
        /\ <<>> \in Seq(Token) /\ Len(<<>>) = 0
    BY LenProperties, EmptySeq DEF TypeOK
  <2>1. ASSUME NEW p \in Prompts, Prefill(p) PROVE TypeOK'
    BY <2>0, <2>1, ClientAssumption DEF TypeOK, Prefill
  <2>2. ASSUME NEW p \in Prompts, NEW all \in BOOLEAN, Forward(p, all) PROVE TypeOK'
    <3>1. p \in Seq(Token) /\ rt.pos + Len(p) <= Cap
      BY <2>2, ClientAssumption DEF Forward, Fits
    <3>2. rt' \in RunnerType
      BY <3>1, <2>0, <2>2, ForwardedType DEF Forward
    <3>3. text' \in Seq(Token) /\ base' \in 0..Len(text')
      BY <3>1, <2>0, <2>2, ConcatProperties, LenProperties DEF Forward
    <3> QED BY <2>0, <2>2, <3>2, <3>3 DEF TypeOK, Forward
  <2>3. CASE ReadChunk
    <3>1. rt' \in RunnerType
      BY <2>0, <2>3, PrefillChunkFacts DEF ReadChunk
    <3>2. Len(todo) \in Nat /\ Chunk(Len(todo)) \in 1..Len(todo)
      BY <2>0, <2>3, EmptySeq, LenProperties, ChunkFacts DEF ReadChunk
    <3>3. SubSeq(todo, 1, Chunk(Len(todo))) \in Seq(Token)
      BY <2>0, <3>2, PrefixType
    <3>4. text' \in Seq(Token) /\ base' \in 0..Len(text')
      BY <3>3, <2>0, <2>3, ConcatProperties, LenProperties DEF ReadChunk
    <3>5. todo' \in Seq(Token)
      <4>1. Chunk(Len(todo)) + 1 \in Nat /\ Chunk(Len(todo)) + 1 > 0
            /\ Len(todo) <= Len(todo)
        BY <3>2
      <4>2. SubSeq(todo, Chunk(Len(todo)) + 1, Len(todo)) \in Seq(Token)
        BY <4>1, <2>0, <3>2, SubSeqType
      <4> QED BY <4>2, <2>3 DEF ReadChunk
    <3>6. next' \in Seq(Token) /\ Len(next') <= 1
      <4>1. next' = <<>> \/ \E n \in Token : next' = <<n>>
        BY <2>3 DEF ReadChunk, Drawn
      <4>2. ASSUME NEW n \in Token PROVE <<n>> \in Seq(Token) /\ Len(<<n>>) <= 1
        OBVIOUS
      <4>3. <<>> \in Seq(Token) /\ Len(<<>>) <= 1
        BY <2>0
      <4> QED BY <4>1, <4>2, <4>3, Zenon
    <3> QED BY <2>0, <2>3, <3>1, <3>4, <3>5, <3>6 DEF TypeOK, ReadChunk
  <2>4. CASE RefuseChunk
    BY <2>0, <2>4 DEF TypeOK, RefuseChunk, Fail
  <2>5. CASE RefuseWarm
    <3>1. Len(todo) \in Nat /\ Chunk(Len(todo)) \in 1..Len(todo)
      BY <2>0, <2>5, EmptySeq, LenProperties, ChunkFacts DEF RefuseWarm
    <3>2. rt' \in RunnerType
      <4>1. PICK m \in 0..(Cap - rt.mtpPos) : rt' = ChunkWarmed(rt, todo, m)
        BY <2>5 DEF RefuseWarm
      <4>2. /\ m \in Nat /\ rt.mtpPos + m <= Cap
            /\ m <= Chunk(Len(todo)) /\ m <= Len(todo) - 1
        BY <2>0, <2>5, WarmBound DEF RefuseWarm
      <4> QED BY <4>1, <4>2, <2>0, <2>5, ChunkWarmedFacts DEF RefuseWarm
    <3>3. SubSeq(todo, 1, Chunk(Len(todo))) \in Seq(Token)
      BY <2>0, <3>1, PrefixType
    <3>4. text' \in Seq(Token) /\ base' \in 0..Len(text')
      BY <3>3, <2>0, <2>5, ConcatProperties, LenProperties DEF RefuseWarm
    <3> QED BY <2>0, <2>5, <3>2, <3>4 DEF TypeOK, RefuseWarm
  <2>6. CASE DecodeStep
    <3>1. PICK o \in StepResults(rt, next[1]) : Take(o)
      BY <2>6 DEF DecodeStep
    <3>2. next[1] \in Token
      BY <2>6 DEF TypeOK, DecodeStep
    <3>3. Good(o)
      BY <3>1, <3>2, <2>0, StepFacts
    <3> QED BY <3>1, <3>3, TakeType
  <2>7. ASSUME NEW tok \in Token, FeedStep(tok) PROVE TypeOK'
    <3>1. PICK o \in StepResults(rt, tok) :
            /\ rt' = o.rt
            /\ IF o.ok
               THEN /\ text' = Append(text, tok) /\ base' = Len(text')
                    /\ next' = o.next /\ UNCHANGED <<todo, held, failed>>
               ELSE Fail
      BY <2>7 DEF FeedStep
    <3>2. Good(o)
      BY <3>1, <2>0, StepFacts
    <3>3. CASE o.ok
      <4>1. text' \in Seq(Token) /\ Len(text') \in 0..Len(text')
        BY <3>1, <3>3, <2>0, AppendProperties, LenProperties
      <4> QED BY <3>1, <3>2, <3>3, <4>1 DEF TypeOK, Good
    <3>4. CASE ~o.ok
      BY <3>1, <3>2, <3>4, <2>0 DEF TypeOK, Good, Fail
    <3> QED BY <3>3, <3>4
  <2>8. ASSUME NEW d \in Drafting, SpeculateWith(d) PROVE TypeOK'
    <3>1. PICK o \in SpeculateResults(rt, next[1], d) : Take(o)
      BY <2>8 DEF SpeculateWith
    <3>2. next[1] \in Token /\ d \in Nat
      BY <2>8, ClientAssumption DEF TypeOK, SpeculateWith
    <3>3. Good(o)
      BY <3>1, <3>2, <2>0, SpeculateFacts
    <3> QED BY <3>1, <3>3, TakeType
  <2>9. ASSUME NEW p \in Proposals, SpeculateProposed(p) PROVE TypeOK'
    <3>1. PICK o \in ProposedResults(rt, next[1], p) : Take(o)
      BY <2>9 DEF SpeculateProposed
    <3>2. next[1] \in Token /\ p \in Seq(Token) /\ rt.pos > 0
      BY <2>9, ClientAssumption DEF TypeOK, SpeculateProposed
    <3>3. Good(o)
      BY <3>1, <3>2, <2>0, ProposedFacts
    <3> QED BY <3>1, <3>3, TakeType
  <2>10. CASE Reset
    <3>1. rt' \in RunnerType /\ 0 \in 0..0
      BY <2>0, <2>10, ForgottenHolds DEF Reset
    <3>2. base' \in 0..Len(text')
      BY <2>0, <2>10, <3>1 DEF Reset
    <3>9. failed' \in BOOLEAN
      BY <2>10, Zenon DEF Reset
    <3> QED BY <2>0, <2>10, <3>1, <3>2, <3>9 DEF TypeOK, Reset
  <2>11. CASE TakeCheckpoint
    BY <2>0, <2>11, ForgottenHolds DEF TypeOK, TakeCheckpoint
  <2>12. CASE Resume
    <3>1. held[1] \in CheckpointType
      BY <2>12 DEF TypeOK, Resume
    <3>2. held[1].delta \in Seq(Token)
      BY <3>1 DEF CheckpointType
    <3>3. rt' \in RunnerType
      BY <2>0, <2>12, <3>1, ForgottenHolds DEF Resume
    <3>4. text' \in Seq(Token) /\ base' \in 0..Len(text')
      <4>1. text' = held[1].delta /\ base' = Len(text')
        BY <2>12 DEF Resume
      <4>2. Len(held[1].delta) \in 0..Len(held[1].delta)
        BY <3>2, LenProperties
      <4> QED BY <4>1, <4>2, <3>2
    <3>9. failed' \in BOOLEAN
      BY <2>12, Zenon DEF Resume
    <3> QED BY <2>0, <2>12, <3>3, <3>4, <3>9 DEF TypeOK, Resume
  <2>13. CASE Save
    BY <2>0, <2>13, SavedType DEF TypeOK, Save, client
  <2>14. CASE Restore
    <3>1. rt.saved.delta \in Seq(Token)
      BY <2>0 DEF RunnerType
    <3>2. rt' \in RunnerType
      BY <2>0, <2>14, SavedType DEF Restore
    <3>3. text' \in Seq(Token) /\ base' \in 0..Len(text')
      <4>1. text' = rt.saved.delta /\ base' = Len(text')
        BY <2>14 DEF Restore
      <4>2. Len(rt.saved.delta) \in 0..Len(rt.saved.delta)
        BY <3>1, LenProperties
      <4> QED BY <4>1, <4>2, <3>1
    <3>9. failed' \in BOOLEAN
      BY <2>14, Zenon DEF Restore
    <3> QED BY <2>0, <2>14, <3>2, <3>3, <3>9 DEF TypeOK, Restore
  <2>15. CASE UNCHANGED vars
    BY <2>15 DEF TypeOK, vars
  <2> QED BY <2>1, <2>2, <2>3, <2>4, <2>5, <2>6, <2>7, <2>8, <2>9, <2>10, <2>11,
             <2>12, <2>13, <2>14, <2>15 DEF Next
<1> QED BY <1>1, <1>2, PTL DEF Spec

(* The runner never answers from a history it did not see: on a checkpoint *)
(* with a draft head, or for a client that proposes no drafts of its own,  *)
(* the recurrent state and the KV cache are of exactly the text the client *)
(* was told is said, whatever was drafted, rejected, replayed, saved,      *)
(* resumed or refused (Coherent).                                          *)
THEOREM TextKept ==
  ASSUME "propose" \in Ops => HasMtp
  PROVE  Spec => []Coherent
<1> DEFINE Inv == TypeOK /\ Coherent
<1>1. Init => Coherent
  BY EmptySeq DEF Init, Coherent, Sound, Loaded
<1>2. TypeOK /\ TypeOK' /\ Coherent /\ [Next]_vars => Coherent'
  <2> SUFFICES ASSUME TypeOK, TypeOK', Holds(rt, text), [Next]_vars
               PROVE  Holds(rt', text')
    <3>1. TypeOK' => (Coherent' <=> Holds(rt', text'))
      BY DEF TypeOK, Coherent, Sound, Holds
    <3> QED BY <3>1, CoherentHolds
  <2>0. /\ rt \in RunnerType /\ text \in Seq(Token) /\ todo \in Seq(Token)
    BY DEF TypeOK
  <2>1. ASSUME NEW p \in Prompts, Prefill(p) PROVE Holds(rt', text')
    BY <2>1 DEF Prefill
  <2>2. ASSUME NEW p \in Prompts, NEW all \in BOOLEAN, Forward(p, all)
        PROVE  Holds(rt', text')
    <3>1. p \in Seq(Token) /\ rt.pos + Len(p) <= Cap
      BY <2>2, ClientAssumption DEF Forward, Fits
    <3>2. rt' = Forwarded(rt, p, all) /\ text' = text \o p
      BY <2>2 DEF Forward
    <3>3. Holds(Fed(rt, p), text \o p)
      BY <3>1, <2>0, FedHolds
    <3> QED BY <3>1, <3>2, <3>3, <2>0, ForwardedType, SameTextHolds
  <2>3. CASE ReadChunk
    BY <2>0, <2>3, PrefillChunkFacts DEF ReadChunk
  <2>4. CASE RefuseChunk
    BY <2>4 DEF RefuseChunk, Fail
  <2>5. CASE RefuseWarm
    <3>1. PICK m \in 0..(Cap - rt.mtpPos) : rt' = ChunkWarmed(rt, todo, m)
      BY <2>5 DEF RefuseWarm
    <3>2. /\ m \in Nat /\ rt.mtpPos + m <= Cap
          /\ m <= Chunk(Len(todo)) /\ m <= Len(todo) - 1
      BY <2>0, <2>5, WarmBound DEF RefuseWarm
    <3> QED BY <3>1, <3>2, <2>0, <2>5, ChunkWarmedFacts DEF RefuseWarm
  <2>6. CASE DecodeStep
    <3>1. PICK o \in StepResults(rt, next[1]) : Take(o)
      BY <2>6 DEF DecodeStep
    <3>2. next[1] \in Token
      BY <2>6 DEF TypeOK, DecodeStep
    <3> QED BY <3>1, <3>2, <2>0, StepFacts, TakeHolds
  <2>7. ASSUME NEW tok \in Token, FeedStep(tok) PROVE Holds(rt', text')
    <3>1. PICK o \in StepResults(rt, tok) :
            /\ rt' = o.rt
            /\ IF o.ok THEN text' = Append(text, tok) ELSE Fail
      BY <2>7 DEF FeedStep
    <3>2. Keeps(o, text) /\ (o.ok => o.said = <<tok>>)
      BY <3>1, <2>0, StepFacts
    <3>3. Append(text, tok) = text \o <<tok>>
      BY <2>0, AppendIsConcat
    <3> QED BY <3>1, <3>2, <3>3 DEF Keeps, Fail
  <2>8. ASSUME NEW d \in Drafting, SpeculateWith(d) PROVE Holds(rt', text')
    <3>1. PICK o \in SpeculateResults(rt, next[1], d) : Take(o)
      BY <2>8 DEF SpeculateWith
    <3>2. next[1] \in Token /\ d \in Nat
      BY <2>8, ClientAssumption DEF TypeOK, SpeculateWith
    <3> QED BY <3>1, <3>2, <2>0, SpeculateFacts, TakeHolds
  <2>9. ASSUME NEW p \in Proposals, SpeculateProposed(p) PROVE Holds(rt', text')
    <3>1. PICK o \in ProposedResults(rt, next[1], p) : Take(o)
      BY <2>9 DEF SpeculateProposed
    <3>2. next[1] \in Token /\ p \in Seq(Token) /\ rt.pos > 0 /\ HasMtp
      BY <2>9, ClientAssumption DEF TypeOK, SpeculateProposed
    <3> QED BY <3>1, <3>2, <2>0, ProposedFacts, TakeHolds
  <2>10. CASE Reset
    BY <2>0, <2>10, ForgottenHolds DEF Reset
  <2>11. CASE TakeCheckpoint
    BY <2>11 DEF TakeCheckpoint
  <2>12. CASE Resume
    <3> DEFINE n == held[1].pos
    <3>1. held[1] \in CheckpointType
      BY <2>12 DEF TypeOK, Resume
    <3>2. n \in 0..Len(text) /\ SubSeq(text, 1, n) = held[1].delta
      BY <3>1, <2>12, <2>0, LenProperties DEF CheckpointType, Resume
    <3>3. rt'.pos = n /\ rt'.delta = SubSeq(text, 1, n) /\ rt'.kv = rt.kv
      BY <3>1, <3>2, <2>0, <2>12 DEF Resume, Resumed, RunnerType
    <3> HIDE DEF n
    <3>4. Holds(rt', SubSeq(text, 1, n))
      BY <3>2, <3>3, <2>0, ShortenHolds
    <3> QED BY <3>2, <3>4, <2>12 DEF Resume
  <2>13. CASE Save
    BY <2>0, <2>13, SavedType, SameTextHolds DEF Save, client
  <2>14. CASE Restore
    <3> DEFINE n == rt.saved.pos
    <3>1. n \in 0..Len(text) /\ SubSeq(text, 1, n) = rt.saved.delta
      BY <2>14, <2>0, LenProperties DEF Restore, RunnerType
    <3>2. rt'.pos = n /\ rt'.delta = SubSeq(text, 1, n) /\ rt'.kv = rt.kv
      BY <3>1, <2>0, <2>14 DEF Restore, Restored, RunnerType
    <3> HIDE DEF n
    <3>3. Holds(rt', SubSeq(text, 1, n))
      BY <3>1, <3>2, <2>0, ShortenHolds
    <3> QED BY <3>1, <3>3, <2>14 DEF Restore
  <2>15. CASE UNCHANGED vars
    BY <2>15 DEF vars
  <2> QED BY <2>1, <2>2, <2>3, <2>4, <2>5, <2>6, <2>7, <2>8, <2>9, <2>10, <2>11,
             <2>12, <2>13, <2>14, <2>15 DEF Next
<1> QED BY <1>1, <1>2, TypeCorrect, PTL DEF Spec

----------------------------------------------------------------------------
(* The reply so far is drawn from the model.                               *)
ReplyDrawn ==
  Abstract!FromModel(SubSeq(text, 1, base), SubSeq(text, base + 1, Len(text)) \o next)

(* What a step does to what the client sees: a text is handed over, the    *)
(* reply grows by what a call said, or nothing changes.                    *)
HandsOver == /\ base' = Len(text')
             /\ next' = <<>> \/ \E n \in Token : next' = <<n>> /\ n \in Target(text')
SaysMore  == \E o : /\ Good(o) /\ o.ok /\ Draws(o, text, next[1]) /\ next /= <<>>
                   /\ text' = text \o o.said /\ next' = o.next /\ base' = base
SeesNoChange == UNCHANGED <<text, base, next>>

(* A client that takes a result either hears more or gives up, and the     *)
(* next draft starts from the state after what it heard.                   *)
LEMMA TakeKinds ==
  ASSUME TypeOK, next /= <<>>, NEW o, Good(o), Draws(o, text, next[1]), Take(o)
  PROVE  (HandsOver \/ SaysMore) /\ DraftsFromHere'
<1>1. CASE o.ok
  <2>1. SaysMore
    BY <1>1 DEF SaysMore, Take
  <2>2. rt' = o.rt /\ text' = text \o o.said
    BY <1>1 DEF Take
  <2>3. Source(rt') = text'
    BY <1>1, <2>2 DEF Draws
  <2> QED BY <2>1, <2>3 DEF DraftsFromHere, Source
<1>2. CASE ~o.ok
  <2>1. next' = <<>> /\ base' = Len(text) /\ text' = text
    BY <1>2 DEF Take, Fail
  <2> QED BY <2>1 DEF HandsOver, DraftsFromHere
<1> QED BY <1>1, <1>2

(* Every step is of one of the three kinds, and leaves the next draft a    *)
(* state to start from, if drafts are proposed only where there is a head. *)
LEMMA StepKinds ==
  ASSUME "propose" \in Ops => HasMtp, TypeOK, Coherent, DraftsFromHere, [Next]_vars
  PROVE  (HandsOver \/ SaysMore \/ SeesNoChange) /\ DraftsFromHere'
<1> DEFINE Goal == (HandsOver \/ SaysMore \/ SeesNoChange) /\ DraftsFromHere'
<1>0. /\ rt \in RunnerType /\ text \in Seq(Token) /\ todo \in Seq(Token)
      /\ Holds(rt, text)
  BY CoherentHolds DEF TypeOK
<1>1. ASSUME next' = <<>>, base' = Len(text') PROVE Goal
  BY <1>1 DEF HandsOver, DraftsFromHere
<1>2. ASSUME Fail PROVE Goal
  BY <1>2, <1>1 DEF Fail
<1>3. ASSUME NEW p \in Prompts, Prefill(p) PROVE Goal
  BY <1>1, <1>3 DEF Prefill
<1>4. ASSUME NEW p \in Prompts, NEW all \in BOOLEAN, Forward(p, all) PROVE Goal
  BY <1>1, <1>4 DEF Forward
<1>5. ASSUME ReadChunk PROVE Goal
  <2>1. CASE todo' /= <<>>
    BY <1>1, <1>5, <2>1 DEF ReadChunk
  <2>2. CASE todo' = <<>>
    <3>1. Len(todo) \in Nat /\ Chunk(Len(todo)) \in 1..Len(todo)
      BY <1>0, <1>5, EmptySeq, LenProperties, ChunkFacts DEF ReadChunk
    <3>2. Chunk(Len(todo)) = Len(todo)
      <4> DEFINE c == Chunk(Len(todo))
      <4>1. c \in 0..Len(todo) /\ SubSeq(todo, c + 1, Len(todo)) = <<>>
        BY <3>1, <1>5, <2>2 DEF ReadChunk
      <4> HIDE DEF c
      <4>2. Len(SubSeq(todo, c + 1, Len(todo))) = Len(todo) - c
        BY <1>0, <4>1, SuffixElements
      <4>3. Len(<<>>) = 0
        OBVIOUS
      <4>4. Len(todo) - c = 0
        BY <4>1, <4>2, <4>3, Zenon
      <4>5. c = Len(todo)
        BY <3>1, <4>1, <4>4
      <4> QED BY <4>5 DEF c
    <3>3. Row(rt, todo, Len(todo)) = text \o todo
      BY <1>0, RowHolds, SubSeqFull
    <3>4. text' = text \o todo /\ base' = Len(text')
      BY <1>0, <1>5, <3>2, SubSeqFull DEF ReadChunk
    <3>5. text \o todo \in Seq(Token) /\ text \o todo /= <<>>
      BY <1>0, <3>1, NotEmpty
    <3>6. PICK n \in Drawn(text \o todo) : next' = <<n>>
      BY <1>5, <2>2, <3>2, <3>3 DEF ReadChunk
    <3>7. n \in Token /\ n \in Target(text')
      BY <3>4, <3>5 DEF Drawn, Allowed, Junk
    <3>8. HandsOver
      BY <3>4, <3>6, <3>7 DEF HandsOver
    <3>9. rt'.specH = text \o todo
      <4> DEFINE warm == ChunkWarmed(rt, todo, Warms(todo))
                 h == Row(rt, todo, Len(todo))
      <4>1. warm \in RunnerType
        BY <1>0, <1>5, WarmsFacts, ChunkWarmedFacts DEF ReadChunk
      <4>2. rt' = [warm EXCEPT !.specH = h, !.x = h]
        BY <1>5, <3>2 DEF ReadChunk, PrefillChunk
      <4> HIDE DEF warm, h
      <4>3. rt'.specH = h
        BY <4>1, <4>2 DEF RunnerType
      <4> QED BY <4>3, <3>3 DEF h
    <3>10. Source(rt') = text'
      BY <3>4, <3>5, <3>9 DEF Source, None
    <3> QED BY <3>8, <3>10 DEF DraftsFromHere, Source
  <2> QED BY <2>1, <2>2
<1>6. ASSUME RefuseChunk PROVE Goal
  BY <1>2, <1>6 DEF RefuseChunk
<1>7. ASSUME RefuseWarm PROVE Goal
  BY <1>1, <1>7 DEF RefuseWarm
<1>8. ASSUME DecodeStep PROVE Goal
  <2>1. PICK o \in StepResults(rt, next[1]) : Take(o)
    BY <1>8 DEF DecodeStep
  <2>2. next[1] \in Token /\ next /= <<>>
    BY <1>8 DEF TypeOK, DecodeStep
  <2>3. Good(o) /\ Draws(o, text, next[1])
    BY <1>0, <2>1, <2>2, StepFacts, StepDraws
  <2> QED BY <2>1, <2>2, <2>3, TakeKinds
<1>9. ASSUME NEW tok \in Token, FeedStep(tok) PROVE Goal
  <2>1. PICK o \in StepResults(rt, tok) :
          /\ rt' = o.rt
          /\ IF o.ok THEN /\ text' = Append(text, tok) /\ base' = Len(text')
                          /\ next' = o.next
                     ELSE Fail
    BY <1>9 DEF FeedStep
  <2>2. CASE o.ok
    <3>1. Draws(o, text, tok) /\ o.said = <<tok>>
      BY <1>0, <2>1, <2>2, StepFacts, StepDraws
    <3>2. text' = text \o o.said
      BY <1>0, <2>1, <2>2, <3>1, AppendIsConcat
    <3>3. /\ \E n \in Token : next' = <<n>> /\ n \in Target(text')
          /\ Source(rt') = text'
      BY <2>1, <2>2, <3>1, <3>2 DEF Draws
    <3> QED BY <2>1, <2>2, <3>3 DEF HandsOver, DraftsFromHere, Source
  <2>3. CASE ~o.ok
    BY <1>2, <2>1, <2>3
  <2> QED BY <2>2, <2>3
<1>10. ASSUME NEW d \in Drafting, SpeculateWith(d) PROVE Goal
  <2>1. PICK o \in SpeculateResults(rt, next[1], d) : Take(o)
    BY <1>10 DEF SpeculateWith
  <2>2. next[1] \in Token /\ next /= <<>> /\ d \in Nat /\ d > 0
    BY <1>10, ClientAssumption DEF TypeOK, SpeculateWith
  <2>3. Good(o)
    BY <1>0, <2>1, <2>2, SpeculateFacts
  <2>4. Draws(o, text, next[1])
    BY <1>0, <2>1, <2>2, SpeculateDraws
  <2> QED BY <2>1, <2>2, <2>3, <2>4, TakeKinds
<1>11. ASSUME NEW p \in Proposals, SpeculateProposed(p) PROVE Goal
  <2>1. PICK o \in ProposedResults(rt, next[1], p) : Take(o)
    BY <1>11 DEF SpeculateProposed
  <2>2. next[1] \in Token /\ next /= <<>> /\ p \in Seq(Token) /\ rt.pos > 0 /\ HasMtp
    BY <1>11, ClientAssumption DEF TypeOK, SpeculateProposed
  <2>3. Good(o)
    BY <1>0, <2>1, <2>2, ProposedFacts
  <2>4. Draws(o, text, next[1])
    BY <1>0, <2>1, <2>2, ProposedDraws
  <2> QED BY <2>1, <2>2, <2>3, <2>4, TakeKinds
<1>12. ASSUME Reset PROVE Goal
  <2>1. next' = <<>> /\ base' = Len(text')
    BY <1>12, EmptySeq DEF Reset
  <2> QED BY <1>1, <2>1
<1>13. ASSUME TakeCheckpoint PROVE Goal
  BY <1>13 DEF TakeCheckpoint, SeesNoChange, DraftsFromHere, Source
<1>14. ASSUME Resume PROVE Goal
  BY <1>1, <1>14 DEF Resume
<1>15. ASSUME Save PROVE Goal
  <2>1. rt'.specH = rt.specH /\ rt'.x = rt.x
    BY <1>0, <1>15 DEF Save, Saved, RunnerType
  <2> QED BY <2>1, <1>15 DEF Save, client, SeesNoChange, DraftsFromHere, Source
<1>16. ASSUME Restore PROVE Goal
  BY <1>1, <1>16 DEF Restore
<1>17. ASSUME UNCHANGED vars PROVE Goal
  BY <1>17 DEF vars, SeesNoChange, DraftsFromHere, Source
<1> HIDE DEF Goal
<1>18. Goal
  BY <1>3, <1>4, <1>5, <1>6, <1>7, <1>8, <1>9, <1>10, <1>11, <1>12, <1>13, <1>14,
     <1>15, <1>16, <1>17 DEF Next
<1> QED BY <1>18 DEF Goal

(* What the abstract specification calls a reply from the model            *)
(* (Decoding!FromModel).                                                   *)
LEMMA FromModelIsDrawn ==
  ASSUME NEW p, NEW r
  PROVE  Abstract!FromModel(p, r) <=> DrawnAfter(p, r)
BY DEF Abstract!FromModel, DrawnAfter

(* A step of any of the three kinds is a step of the abstract decoding, or *)
(* a stutter, and the reply stays drawn from the model.                    *)
LEMMA KindsRefine ==
  ASSUME TypeOK, TypeOK', ReplyDrawn, HandsOver \/ SaysMore \/ SeesNoChange
  PROVE  /\ ReplyDrawn'
         /\ Abstract!Next \/ UNCHANGED <<SubSeq(text, 1, base),
                                         SubSeq(text, base + 1, Len(text)) \o next>>
<1>0. /\ text \in Seq(Token) /\ text' \in Seq(Token) /\ base \in 0..Len(text)
  BY DEF TypeOK
<1>1. CASE HandsOver
  <2>1. /\ SubSeq(text', 1, Len(text')) \in Seq(Token)
        /\ Len(SubSeq(text', Len(text') + 1, Len(text')) \o next') <= 1
        /\ Abstract!FromModel(SubSeq(text', 1, Len(text')),
                              SubSeq(text', Len(text') + 1, Len(text')) \o next')
    BY <1>0, <1>1, FreshReply, FromModelIsDrawn DEF HandsOver
  <2>2. base' = Len(text')
    BY <1>1 DEF HandsOver
  <2> QED BY <2>1, <2>2 DEF ReplyDrawn, Abstract!Next, Abstract!Ask
<1>2. CASE SaysMore
  <2>1. PICK o : /\ Good(o) /\ o.ok /\ Draws(o, text, next[1]) /\ next /= <<>>
                 /\ text' = text \o o.said /\ next' = o.next /\ base' = base
    BY <1>2 DEF SaysMore
  <2>2. next[1] \in Token /\ next = <<next[1]>>
    <3>1. next \in Seq(Token) /\ Len(next) = 1
      <4>1. next \in Seq(Token) /\ Len(next) <= 1 /\ Len(next) \in Nat
        BY LenProperties DEF TypeOK
      <4>2. Len(next) /= 0
        BY <2>1, <4>1, EmptySeq
      <4>3. \A m \in Nat : m <= 1 /\ m /= 0 => m = 1
        OBVIOUS
      <4> QED BY <4>1, <4>2, <4>3, Zenon
    <3>2. SubSeq(next, 1, 1) = next
      BY <3>1, SubSeqFull
    <3> QED BY <3>1, <3>2, PrefixOne
  <2> DEFINE p  == SubSeq(text, 1, base)
             r  == SubSeq(text, base + 1, Len(text)) \o <<next[1]>>
             w  == text \o o.said
             r2 == SubSeq(w, base + 1, Len(w)) \o o.next
  <2>3. Abstract!FromModel(p, r)
    BY <2>2 DEF ReplyDrawn
  <2>4. /\ SubSeq(w, 1, base) = p /\ r /= <<>> /\ Len(r2) > Len(r)
        /\ SubSeq(r2, 1, Len(r)) = r /\ Abstract!FromModel(p, r2)
    <3>1. DrawnAfter(p, r)
      BY <2>3, FromModelIsDrawn
    <3>2. /\ SubSeq(w, 1, base) = p /\ r /= <<>> /\ Len(r2) > Len(r)
          /\ SubSeq(r2, 1, Len(r)) = r /\ DrawnAfter(p, r2)
      BY <1>0, <2>1, <2>2, <3>1, SaidReply
    <3> HIDE DEF p, r, w, r2
    <3> QED BY <3>2, FromModelIsDrawn
  <2>5. /\ SubSeq(text', 1, base') = p
        /\ SubSeq(text', base' + 1, Len(text')) \o next' = r2
        /\ SubSeq(text, base + 1, Len(text)) \o next = r
    BY <2>1, <2>2, <2>4
  <2> HIDE DEF r, w, r2
  <2> QED BY <2>4, <2>5 DEF ReplyDrawn, Abstract!Next, Abstract!Say, p
<1>3. CASE SeesNoChange
  BY <1>3 DEF SeesNoChange, ReplyDrawn
<1> QED BY <1>1, <1>2, <1>3

(* A draft never starts from a hidden state an earlier step, another text  *)
(* or the head's own guess left behind (DraftsFromHere): on a checkpoint   *)
(* with a draft head, or for a client that proposes no drafts of its own.  *)
THEOREM DraftsStartHere ==
  ASSUME "propose" \in Ops => HasMtp
  PROVE  Spec => []DraftsFromHere
<1>1. Init => DraftsFromHere
  BY DEF Init, DraftsFromHere
<1>2. TypeOK /\ Coherent /\ DraftsFromHere /\ [Next]_vars => DraftsFromHere'
  BY StepKinds
<1> QED BY <1>1, <1>2, TypeCorrect, TextKept, PTL DEF Spec

(* The runner implements Decoding: whatever is drafted, accepted, undone,  *)
(* replayed or resumed, the reply grows by tokens the model allows one     *)
(* after another, and what was said stands (OneTokenAtATime).              *)
THEOREM Speculates ==
  ASSUME "propose" \in Ops => HasMtp
  PROVE  Spec => OneTokenAtATime
<1> DEFINE p == SubSeq(text, 1, base)
           r == SubSeq(text, base + 1, Len(text)) \o next
<1>1. Init => Abstract!Init /\ ReplyDrawn
  <2> SUFFICES ASSUME Init PROVE Abstract!Init /\ ReplyDrawn
    OBVIOUS
  <2>1. text = <<>> /\ base = 0 /\ next = <<>> /\ Len(<<>>) = 0
    BY DEF Init
  <2>2. SubSeq(<<>>, 1, 0) = <<>> /\ <<>> \o <<>> = <<>>
    OBVIOUS
  <2>3. p = <<>> /\ r = <<>>
    BY <2>1, <2>2
  <2>4. Abstract!FromModel(<<>>, <<>>)
    BY <2>1 DEF Abstract!FromModel
  <2> QED BY <2>3, <2>4 DEF Abstract!Init, ReplyDrawn
<1>2. TypeOK /\ TypeOK' /\ Coherent /\ DraftsFromHere /\ ReplyDrawn /\ [Next]_vars
        => ReplyDrawn' /\ [Abstract!Next]_<<p, r>>
  BY StepKinds, KindsRefine
<1> QED BY <1>1, <1>2, TypeCorrect, TextKept, DraftsStartHere, PTL
        DEF Spec, OneTokenAtATime, Abstract!Spec

----------------------------------------------------------------------------
(* The draft head's position. *)

(* Unless a call failed, the head is not ahead of the model, nor was it    *)
(* when the checkpoint was taken; a client whose call failed has nothing   *)
(* pending.                                                                *)
BehindInv ==
  /\ ~failed => rt.mtpPos <= rt.pos
  /\ \A i \in 1..Len(held) : held[i].mtpPos <= held[i].pos
  /\ failed => next = <<>> /\ todo = <<>>

(* A client that takes a result keeps the head behind if the result does.  *)
LEMMA TakeBehind ==
  ASSUME TypeOK, BehindInv, ~failed, NEW o, Take(o), o.ok => o.rt.mtpPos <= o.rt.pos
  PROVE  BehindInv'
BY DEF BehindInv, Take, Fail

(* No step lets the head run ahead, for a client of all methods but save() *)
(* and restore(), which leave the head's position where it is.             *)
LEMMA BehindStep ==
  ASSUME "propose" \in Ops => HasMtp, "save" \notin Ops,
         TypeOK, Coherent, BehindInv, [Next]_vars
  PROVE  BehindInv'
<1>0. /\ rt \in RunnerType /\ text \in Seq(Token) /\ todo \in Seq(Token)
      /\ Holds(rt, text) /\ rt.pos \in Nat /\ rt.mtpPos \in Nat
  BY CoherentHolds, SizeAssumption DEF TypeOK, RunnerType
<1>1. ASSUME NEW p \in Prompts, Prefill(p) PROVE BehindInv'
  BY <1>1 DEF BehindInv, Prefill, Ready
<1>2. ASSUME NEW p \in Prompts, NEW all \in BOOLEAN, Forward(p, all) PROVE BehindInv'
  <2>1. rt'.pos = rt.pos + Len(p) /\ rt'.mtpPos = rt.mtpPos
    BY <1>0, <1>2 DEF Forward, Forwarded, Fed, RunnerType
  <2>2. Len(p) \in Nat
    BY ClientAssumption, LenProperties
  <2>3. rt.mtpPos <= rt.pos
    BY <1>2 DEF BehindInv, Forward, Ready
  <2>4. rt'.mtpPos <= rt'.pos
    BY <1>0, <2>1, <2>2, <2>3
  <2> QED BY <1>2, <2>4 DEF BehindInv, Forward, Ready
<1>3. ASSUME ReadChunk PROVE BehindInv'
  <2>1. ~failed
    BY <1>3 DEF BehindInv, ReadChunk
  <2>2. rt'.mtpPos <= rt'.pos
    BY <1>0, <1>3, <2>1, ChunkBehind DEF BehindInv, ReadChunk
  <2> QED BY <1>3, <2>1, <2>2 DEF BehindInv, ReadChunk
<1>4. ASSUME RefuseChunk PROVE BehindInv'
  BY <1>4 DEF BehindInv, RefuseChunk, Fail
<1>5. ASSUME RefuseWarm PROVE BehindInv'
  BY <1>5 DEF BehindInv, RefuseWarm
<1>6. ASSUME DecodeStep PROVE BehindInv'
  <2>1. PICK o \in StepResults(rt, next[1]) : Take(o)
    BY <1>6 DEF DecodeStep
  <2>2. next[1] \in Token /\ ~failed
    BY <1>6 DEF TypeOK, DecodeStep, Ready
  <2>3. o.ok => o.rt.pos = rt.pos + 1 /\ o.rt.mtpPos = rt.mtpPos
    BY <1>0, <2>1, <2>2, StepDraws
  <2>4. o.ok => o.rt.mtpPos <= o.rt.pos
    BY <1>0, <2>2, <2>3 DEF BehindInv
  <2> QED BY <2>1, <2>2, <2>4, TakeBehind
<1>7. ASSUME NEW tok \in Token, FeedStep(tok) PROVE BehindInv'
  <2>1. PICK o \in StepResults(rt, tok) :
          /\ rt' = o.rt
          /\ IF o.ok THEN UNCHANGED <<todo, held, failed>> ELSE Fail
    BY <1>7 DEF FeedStep
  <2>2. o.ok => o.rt.pos = rt.pos + 1 /\ o.rt.mtpPos = rt.mtpPos
    BY <1>0, <2>1, StepDraws
  <2>3. o.ok => rt'.mtpPos <= rt'.pos
    BY <1>0, <1>7, <2>1, <2>2 DEF BehindInv, FeedStep, Ready
  <2> QED BY <1>7, <2>1, <2>3 DEF BehindInv, FeedStep, Ready, Fail
<1>8. ASSUME NEW d \in Drafting, SpeculateWith(d) PROVE BehindInv'
  <2>1. PICK o \in SpeculateResults(rt, next[1], d) : Take(o)
    BY <1>8 DEF SpeculateWith
  <2>2. next[1] \in Token /\ ~failed /\ d \in Nat /\ d > 0 /\ rt.mtpPos <= rt.pos
    BY <1>8, ClientAssumption DEF TypeOK, SpeculateWith, Ready, BehindInv
  <2>3. Good(o)
    BY <1>0, <2>1, <2>2, SpeculateFacts
  <2>4. /\ o.ok /\ HasMtp => Warm(o.rt, rt.pos, text \o o.said)
        /\ o.ok /\ ~HasMtp => o.rt.pos = rt.pos + 1 /\ o.rt.mtpPos = rt.mtpPos
    BY <1>0, <2>1, <2>2, SpeculateDraws
  <2>5. o.ok => o.rt.mtpPos <= o.rt.pos
    BY <1>0, <2>2, <2>3, <2>4, WarmBehind DEF Good
  <2> QED BY <2>1, <2>2, <2>5, TakeBehind
<1>9. ASSUME NEW p \in Proposals, SpeculateProposed(p) PROVE BehindInv'
  <2>1. PICK o \in ProposedResults(rt, next[1], p) : Take(o)
    BY <1>9 DEF SpeculateProposed
  <2>2. next[1] \in Token /\ ~failed /\ p \in Seq(Token) /\ rt.pos > 0 /\ HasMtp
    BY <1>9, ClientAssumption DEF TypeOK, SpeculateProposed, Ready
  <2>3. Good(o) /\ (o.ok => Warm(o.rt, rt.pos, text \o o.said))
    BY <1>0, <2>1, <2>2, ProposedFacts, ProposedDraws
  <2>4. o.ok => o.rt.mtpPos <= o.rt.pos
    BY <2>3, WarmBehind DEF Good
  <2> QED BY <2>1, <2>2, <2>4, TakeBehind
<1>10. ASSUME Reset PROVE BehindInv'
  <2>1. rt'.mtpPos = 0 /\ rt'.pos = 0
    BY <1>0, <1>10 DEF Reset, Cleared, RunnerType
  <2> QED BY <1>10, <2>1 DEF BehindInv, Reset
<1>11. ASSUME TakeCheckpoint PROVE BehindInv'
  <2>1. rt.mtpPos <= rt.pos /\ held' = <<Checkpoint(rt)>>
    BY <1>11 DEF BehindInv, TakeCheckpoint, Ready
  <2>2. Checkpoint(rt).mtpPos = rt.mtpPos /\ Checkpoint(rt).pos = rt.pos
    BY DEF Checkpoint
  <2>3. \A i \in 1..Len(held') : held'[i].mtpPos <= held'[i].pos
    BY <2>1, <2>2
  <2> QED BY <1>11, <2>3 DEF BehindInv, TakeCheckpoint, Ready
<1>12. ASSUME Resume PROVE BehindInv'
  <2>1. rt'.pos = held[1].pos /\ rt'.mtpPos = held[1].mtpPos
    BY <1>0, <1>12 DEF Resume, Resumed, RunnerType
  <2>2. 1 \in 1..Len(held)
    BY <1>12, EmptySeq, LenProperties DEF TypeOK, Resume
  <2> QED BY <1>12, <2>1, <2>2 DEF BehindInv, Resume
<1>13. ASSUME Save \/ Restore PROVE BehindInv'
  BY <1>13 DEF Save, Restore
<1>14. ASSUME UNCHANGED vars PROVE BehindInv'
  BY <1>14 DEF vars, BehindInv
<1> QED BY <1>1, <1>2, <1>3, <1>4, <1>5, <1>6, <1>7, <1>8, <1>9, <1>10, <1>11,
           <1>12, <1>13, <1>14 DEF Next

(* For a client of all methods but save() and restore(), the head is never *)
(* ahead of the model while there is anything to read or to decode: the    *)
(* head's cache is never full while the model's has room (HeadBehind).     *)
THEOREM HeadStaysBehind ==
  ASSUME "propose" \in Ops => HasMtp, "save" \notin Ops
  PROVE  Spec => [](BehindInv /\ HeadBehind)
<1>1. Init => BehindInv
  BY SizeAssumption DEF Init, BehindInv, Loaded
<1>2. TypeOK /\ Coherent /\ BehindInv /\ [Next]_vars => BehindInv'
  BY BehindStep
<1>3. BehindInv => HeadBehind
  BY DEF BehindInv, HeadBehind
<1> QED BY <1>1, <1>2, <1>3, TypeCorrect, TextKept, PTL DEF Spec

(* Every round of a client of all methods but save() and restore(), on a   *)
(* checkpoint with a draft head, leaves the head one short of the model    *)
(* and the drafts it kept paired from the model's states, however deep it  *)
(* drafted and however much was undone (RoundWarmsHead).                   *)
THEOREM RoundsWarm ==
  ASSUME HasMtp, "save" \notin Ops
  PROVE  Spec => RoundWarmsHead
<1> DEFINE Warms2 == Round /\ ~failed' =>
             /\ rt'.mtpPos + 1 = rt'.pos
             /\ \A i \in (rt.pos + 1)..rt'.mtpPos :
                  rt'.head[i] = SubSeq(text', 1, i + 1)
<1>1. TypeOK /\ Coherent /\ BehindInv /\ [Next]_vars => [Warms2]_vars
  <2> SUFFICES ASSUME TypeOK, Coherent, BehindInv, Round, ~failed'
               PROVE  Warm(rt', rt.pos, text')
    BY DEF Warm
  <2>0. rt \in RunnerType /\ text \in Seq(Token) /\ Holds(rt, text)
    BY CoherentHolds DEF TypeOK
  <2>1. ASSUME NEW o, Take(o), o.ok => Warm(o.rt, rt.pos, text \o o.said)
        PROVE  Warm(rt', rt.pos, text')
    <3>1. o.ok
      BY <2>1 DEF Take, Fail
    <3> QED BY <2>1, <3>1 DEF Take
  <2>2. ASSUME NEW d \in Drafting, SpeculateWith(d) PROVE Warm(rt', rt.pos, text')
    <3>1. PICK o \in SpeculateResults(rt, next[1], d) : Take(o)
      BY <2>2 DEF SpeculateWith
    <3>2. next[1] \in Token /\ d \in Nat /\ d > 0 /\ rt.mtpPos <= rt.pos
      BY <2>2, ClientAssumption DEF TypeOK, SpeculateWith, Ready, BehindInv
    <3>3. o.ok => Warm(o.rt, rt.pos, text \o o.said)
      BY <2>0, <3>1, <3>2, SpeculateDraws
    <3> QED BY <2>1, <3>1, <3>3
  <2>3. ASSUME NEW p \in Proposals, SpeculateProposed(p) PROVE Warm(rt', rt.pos, text')
    <3>1. PICK o \in ProposedResults(rt, next[1], p) : Take(o)
      BY <2>3 DEF SpeculateProposed
    <3>2. next[1] \in Token /\ p \in Seq(Token) /\ rt.pos > 0
      BY <2>3, ClientAssumption DEF TypeOK, SpeculateProposed
    <3>3. o.ok => Warm(o.rt, rt.pos, text \o o.said)
      BY <2>0, <3>1, <3>2, ProposedDraws
    <3> QED BY <2>1, <3>1, <3>3
  <2> QED BY <2>2, <2>3 DEF Round
<1> QED BY <1>1, TypeCorrect, TextKept, HeadStaysBehind, PTL DEF Spec, RoundWarmsHead

----------------------------------------------------------------------------
(* Prefill's chunks, and the draft head of a text read in one prefill. *)

(* However a prompt falls into chunks, reading it leaves the runner as one *)
(* pass over the whole would (ChunksDoNotShow): for a runner in any state  *)
(* a client can bring it to, and any chunk sizes.                          *)
THEOREM ChunksMakeOnePass == Spec => []ChunksDoNotShow
<1>1. TypeOK => ChunksDoNotShow
  <2> SUFFICES ASSUME TypeOK, NEW p \in Prompts,
                      rt.pos + Len(p) <= Cap, rt.mtpPos + Len(p) <= Cap
               PROVE  ReadAll(rt, p) = Prefilled(rt, p)
    BY DEF ChunksDoNotShow
  <2>1. rt \in RunnerType /\ Readable(rt, p)
    BY ClientAssumption DEF TypeOK, Readable
  <2> QED BY <2>1, ReadAllPrefills
<1> QED BY <1>1, TypeCorrect, PTL

(* What HeadStaysInStep needs to be inductive: where the head stands while *)
(* the prompt is being read.                                               *)
HeadInv ==
  HasMtp /\ fresh =>
    /\ next /= <<>> => InStep(rt, text)
    /\ todo /= <<>> => Reading(rt, text \o todo)

(* Nothing pending, nothing to read: nothing to keep in step.              *)
LEMMA NothingPending == next' = <<>> /\ todo' = <<>> => HeadInv'
BY DEF HeadInv

(* A client that takes a result keeps the head in step if the result does. *)
LEMMA TakeInStep ==
  ASSUME HeadInv, todo = <<>>, next /= <<>>, NEW o, Take(o),
         fresh' = IF todo = <<>> /\ todo' /= <<>> THEN text = <<>> ELSE fresh,
         o.ok /\ HasMtp /\ InStep(rt, text) => InStep(o.rt, text \o o.said)
  PROVE  HeadInv'
<1>1. CASE o.ok
  BY <1>1 DEF HeadInv, Take
<1>2. CASE ~o.ok
  BY <1>2, NothingPending DEF Take, Fail
<1> QED BY <1>1, <1>2

(* A chunk read.                                                           *)
LEMMA ReadStep ==
  ASSUME TypeOK, Coherent, HeadInv, HasMtp, fresh, ReadChunk
  PROVE  /\ next' /= <<>> => InStep(rt', text')
         /\ todo' /= <<>> => Reading(rt', text' \o todo')
<1>0. rt \in RunnerType /\ text \in Seq(Token) /\ todo \in Seq(Token) /\ Holds(rt, text)
  BY CoherentHolds DEF TypeOK
<1>1. PICK c \in Nat, L \in Nat : c = Chunk(Len(todo)) /\ L = Len(todo) /\ c \in 1..L
  <2>1. Len(todo) \in Nat /\ Len(todo) > 0
    BY <1>0, EmptySeq, LenProperties DEF ReadChunk
  <2>2. Chunk(Len(todo)) \in 1..Len(todo)
    BY <2>1, ChunkFacts
  <2> QED BY <2>1, <2>2
<1>2. /\ todo /= <<>> /\ Fits(rt, Chunk(Len(todo))) /\ rt.mtpPos + Warms(todo) <= Cap
      /\ rt' = PrefillChunk(rt, todo)
  BY DEF ReadChunk
<1>3. Reading(rt, text \o todo)
  BY <1>2 DEF HeadInv
<1>4. /\ Chunk(Len(todo)) /= Len(todo) => Reading(rt', text \o todo)
      /\ Chunk(Len(todo)) = Len(todo) => InStep(rt', text \o todo)
  BY <1>0, <1>2, <1>3, ChunkInStep
<1>5. PICK part \in Seq(Token), left \in Seq(Token) :
        /\ part = SubSeq(todo, 1, c) /\ left = SubSeq(todo, c + 1, L)
        /\ part \o left = todo /\ Len(left) = L - c
  <2>1. c \in 0..Len(todo) /\ c <= Len(todo)
    BY <1>1
  <2>2. SubSeq(todo, 1, c) \in Seq(Token)
    BY <1>0, <2>1, PrefixType
  <2>3. /\ SubSeq(todo, c + 1, Len(todo)) \in Seq(Token)
        /\ Len(SubSeq(todo, c + 1, Len(todo))) = Len(todo) - c
    BY <1>0, <2>1, SuffixElements
  <2>4. SubSeq(todo, 1, c) \o SubSeq(todo, c + 1, Len(todo)) = todo
    BY <1>0, <2>1, Split
  <2> QED BY <1>1, <2>2, <2>3, <2>4
<1>6. text' = text \o part /\ todo' = left
  BY <1>1, <1>5 DEF ReadChunk
<1>7. text' \o todo' = text \o todo
  <2>1. (text \o part) \o left = text \o (part \o left)
    BY <1>0, ConcatAssociative
  <2> QED BY <2>1, <1>5, <1>6
<1>8. todo' = <<>> <=> c = L
  <2>1. left = <<>> <=> Len(left) = 0
    BY EmptySeq
  <2>2. Len(left) = L - c
    BY <1>5
  <2>3. L - c = 0 <=> c = L
    BY <1>1
  <2> QED BY <2>1, <2>2, <2>3, <1>6
<1>9. ASSUME todo' /= <<>> PROVE next' = <<>> /\ Reading(rt', text' \o todo')
  <2>1. next' = <<>>
    BY <1>9 DEF ReadChunk
  <2>2. Reading(rt', text \o todo)
    BY <1>1, <1>4, <1>8, <1>9
  <2> QED BY <2>1, <2>2, <1>7
<1>10. ASSUME todo' = <<>> PROVE InStep(rt', text')
  <2>1. InStep(rt', text \o todo)
    BY <1>1, <1>4, <1>8, <1>10
  <2>2. text' \in Seq(Token)
    BY <1>0, <1>6, ConcatProperties
  <2>3. text' \o <<>> = text'
    BY <2>2, ConcatEmptySeq
  <2> QED BY <2>1, <2>3, <1>7, <1>10
<1> QED BY <1>9, <1>10

(* No step takes the head of such a text out of step.                      *)
LEMMA HeadStep ==
  ASSUME "step" \notin Ops, "save" \notin Ops, HasMtp,
         TypeOK, Coherent, DraftsFromHere, BehindInv, HeadInv, [RoundsNext]_roundsVars
  PROVE  HeadInv'
<1>0. rt \in RunnerType /\ text \in Seq(Token) /\ todo \in Seq(Token) /\ Holds(rt, text)
  BY CoherentHolds DEF TypeOK
<1>1. CASE UNCHANGED roundsVars
  BY <1>1 DEF roundsVars, vars, HeadInv
<1> SUFFICES ASSUME RoundsNext PROVE HeadInv'
  BY <1>1
<1>2. /\ Next
      /\ fresh' = IF todo = <<>> /\ todo' /= <<>> THEN text = <<>> ELSE fresh
  BY DEF RoundsNext
<1>3. ASSUME NEW p \in Prompts, Prefill(p) PROVE HeadInv'
  <2> SUFFICES ASSUME text = <<>> PROVE Reading(rt', text' \o todo')
    BY <1>2, <1>3 DEF HeadInv, Prefill, Ready
  <2>1. rt.pos = 0
    BY <1>0, EmptySeq DEF Holds
  <2>2. rt.mtpPos <= rt.pos /\ rt.mtpPos \in Nat
    BY <1>0, <1>3, SizeAssumption DEF BehindInv, Prefill, Ready, RunnerType
  <2>3. rt' = rt /\ rt.mtpPos = 0
    BY <1>3, <2>1, <2>2 DEF Prefill
  <2> QED BY <2>1, <2>3 DEF Reading, Paired
<1>4. ASSUME NEW p \in Prompts, NEW all \in BOOLEAN, Forward(p, all) PROVE HeadInv'
  BY <1>4, NothingPending DEF Forward, Ready
<1>5. ASSUME ReadChunk PROVE HeadInv'
  <2>1. fresh' = fresh
    BY <1>2, <1>5 DEF ReadChunk
  <2> QED BY <1>5, <2>1, ReadStep DEF HeadInv
<1>6. ASSUME RefuseChunk \/ RefuseWarm PROVE HeadInv'
  BY <1>6, NothingPending DEF RefuseChunk, RefuseWarm, Fail
<1>7. ASSUME NEW d \in Drafting, SpeculateWith(d) PROVE HeadInv'
  <2>1. PICK o \in SpeculateResults(rt, next[1], d) : Take(o)
    BY <1>7 DEF SpeculateWith
  <2>2. /\ next[1] \in Token /\ next /= <<>> /\ todo = <<>> /\ d \in Nat /\ d > 0
        /\ Source(rt) = text
    BY <1>7, ClientAssumption DEF TypeOK, SpeculateWith, Ready, DraftsFromHere
  <2>3. o.ok /\ InStep(rt, text) => InStep(o.rt, text \o o.said)
    BY <1>0, <2>1, <2>2, SpeculateInStep
  <2> QED BY <1>2, <2>1, <2>2, <2>3, TakeInStep
<1>8. ASSUME NEW p \in Proposals, SpeculateProposed(p) PROVE HeadInv'
  <2>1. PICK o \in ProposedResults(rt, next[1], p) : Take(o)
    BY <1>8 DEF SpeculateProposed
  <2>2. /\ next[1] \in Token /\ next /= <<>> /\ todo = <<>> /\ p \in Seq(Token)
        /\ Source(rt) = text
    BY <1>8, ClientAssumption DEF TypeOK, SpeculateProposed, Ready, DraftsFromHere
  <2>3. o.ok /\ InStep(rt, text) => InStep(o.rt, text \o o.said)
    BY <1>0, <2>1, <2>2, ProposedInStep
  <2> QED BY <1>2, <2>1, <2>2, <2>3, TakeInStep
<1>9. ASSUME Reset \/ Resume PROVE HeadInv'
  BY <1>9, NothingPending DEF Reset, Resume
<1>10. ASSUME TakeCheckpoint PROVE HeadInv'
  <2>1. fresh' = fresh
    BY <1>2, <1>10 DEF TakeCheckpoint, Ready
  <2> QED BY <1>10, <2>1 DEF TakeCheckpoint, HeadInv
<1> QED BY <1>2, <1>3, <1>4, <1>5, <1>6, <1>7, <1>8, <1>9, <1>10
        DEF Next, DecodeStep, FeedStep, Save, Restore

(* A text read in one prefill leaves the draft head in step with the model *)
(* -- one short of it, every entry paired from the model's own state --    *)
(* and speculative rounds, on the head's drafts and on proposed ones, of   *)
(* any depth and however much of them is undone, keep it so                *)
(* (HeadStaysInStep).  Clients that step() past the head or go back with   *)
(* restore() do leave holes in its cache, and are not this theorem's.      *)
THEOREM HeadIsKept ==
  ASSUME "step" \notin Ops, "save" \notin Ops
  PROVE  RoundsSpec => []HeadStaysInStep
<1>1. CASE HasMtp
  <2>1. RoundsInit => HeadInv
    BY DEF RoundsInit, Init, HeadInv
  <2>2. TypeOK /\ Coherent /\ DraftsFromHere /\ BehindInv /\ HeadInv
          /\ [RoundsNext]_roundsVars => HeadInv'
    BY <1>1, HeadStep
  <2>3. HeadInv => HeadStaysInStep
    BY DEF HeadInv, HeadStaysInStep, HeadInStep, InStep, Paired
  <2>4. (RoundsInit => Init) /\ ([RoundsNext]_roundsVars => [Next]_vars)
    BY DEF RoundsInit, RoundsNext, roundsVars
  <2>5. RoundsSpec => Spec
    BY <2>4, PTL DEF RoundsSpec, Spec
  <2>6. Spec => []DraftsFromHere
    BY <1>1, DraftsStartHere
  <2>7. Spec => [](BehindInv /\ HeadBehind)
    BY <1>1, HeadStaysBehind
  <2>8. Spec => []Coherent
    BY <1>1, TextKept
  <2> QED BY <2>1, <2>2, <2>3, <2>5, <2>6, <2>7, <2>8, TypeCorrect, PTL DEF RoundsSpec
<1>2. CASE ~HasMtp
  <2>1. HeadStaysInStep
    BY <1>2 DEF HeadStaysInStep, HeadInStep
  <2> QED BY <2>1, PTL
<1> QED BY <1>1, <1>2
=============================================================================
