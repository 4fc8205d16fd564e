---------------------------- MODULE StateProofs ----------------------------
(***************************************************************************)
(* What the functions of RunnerState do to the text a runner holds, and    *)
(* that they keep it well formed, in the order they build on one another:  *)
(* feeding, the draft head, undoing, the decoding calls, prefill.  The     *)
(* proofs about Runner and about Server both stand on these lemmas.        *)
(***************************************************************************)
EXTENDS RunnerState, DataProofs

(* The runner r holds the text t: it is at its end, has digested it, and   *)
(* its KV cache is of it.  This, of a runner and its client's text, is the *)
(* inductive invariant.                                                    *)
Holds(r, t) ==
  /\ r.pos = Len(t) /\ r.delta = t
  /\ \A i \in 1..Len(t) : r.kv[i] = SubSeq(t, 1, i)

(* Three texts in a row.                                                   *)
LEMMA ThreeTexts ==
  ASSUME NEW a \in Seq(Token), NEW b \in Seq(Token), NEW c \in Seq(Token)
  PROVE  (a \o b) \o c = a \o (b \o c)
BY ConcatAssociative

(* A prefix of a text is a text, of the length asked for.                  *)
LEMMA PrefixType ==
  ASSUME NEW s \in Seq(Token), NEW n \in Nat, n <= Len(s)
  PROVE  SubSeq(s, 1, n) \in Seq(Token) /\ Len(SubSeq(s, 1, n)) = n
<1>1. \A i \in 1..n : s[i] \in Token
  BY LenProperties, ElementOfSeq
<1> QED
  BY <1>1, SubSeqProperties

(* A row of a pass is computed after some text, or after none (Row).       *)
LEMMA RowType ==
  ASSUME NEW r \in RunnerType, NEW toks \in Seq(Token),
         NEW j \in Nat, j <= Len(toks)
  PROVE  Row(r, toks, j) \in Seq(Token)
<1>1. SubSeq(toks, 1, j) \in Seq(Token)
  BY PrefixType
<1>2. r.delta \in Seq(Token)
  BY DEF RunnerType
<1>3. Junk \in Seq(Token)
  BY EmptySeq DEF Junk
<1> QED
  BY <1>1, <1>2, <1>3, ConcatProperties DEF Row

(* A batch that fits leaves a well-formed runner (forward_with).           *)
LEMMA FedType ==
  ASSUME NEW r \in RunnerType, NEW toks \in Seq(Token), r.pos + Len(toks) <= Cap
  PROVE  Fed(r, toks) \in RunnerType
<1> DEFINE n == Len(toks)
<1>0. n \in Nat /\ Cap \in Nat /\ r.pos \in 0..Cap
  BY SizeAssumption, LenProperties DEF RunnerType
<1>1. r.pos + n \in 0..Cap
  BY <1>0
<1>2. Row(r, toks, n) \in Seq(Token)
  BY <1>0, RowType
<1> DEFINE kv == [i \in 1..Cap |-> IF i \in (r.pos + 1)..(r.pos + n)
                                   THEN Row(r, toks, i - r.pos) ELSE r.kv[i]]
<1>3. kv \in [1..Cap -> Seq(Token)]
  <2>1. ASSUME NEW i \in 1..Cap PROVE kv[i] \in Seq(Token)
    <3>1. CASE i \in (r.pos + 1)..(r.pos + n)
      <4>1. i - r.pos \in Nat /\ i - r.pos <= n
        BY <3>1, <1>0
      <4>2. Row(r, toks, i - r.pos) \in Seq(Token)
        BY <4>1, RowType
      <4> QED BY <4>2, <3>1
    <3>2. CASE i \notin (r.pos + 1)..(r.pos + n)
      BY <3>2 DEF RunnerType
    <3> QED BY <3>1, <3>2
  <2> QED BY <2>1
<1>4. Fed(r, toks) = [r EXCEPT !.pos = r.pos + n, !.delta = Row(r, toks, n), !.kv = kv]
  BY DEF Fed
<1> HIDE DEF kv, n
<1> QED
  BY <1>1, <1>2, <1>3, <1>4 DEF RunnerType

(* On a runner that holds a text, the rows of a pass are computed after it *)
(* and what was fed.                                                       *)
LEMMA RowHolds ==
  ASSUME NEW r, NEW t \in Seq(Token), Holds(r, t),
         NEW toks, NEW j
  PROVE  Row(r, toks, j) = t \o SubSeq(toks, 1, j)
BY DEF Row, Sound, Holds

(* A prefix of two texts in a row ends in the one or in the other.         *)
LEMMA PrefixOfConcat ==
  ASSUME NEW s \in Seq(Token), NEW t \in Seq(Token),
         NEW i \in 1..(Len(s) + Len(t))
  PROVE  SubSeq(s \o t, 1, i) =
           IF i <= Len(s) THEN SubSeq(s, 1, i) ELSE s \o SubSeq(t, 1, i - Len(s))
<1>0. /\ Len(s) \in Nat /\ Len(t) \in Nat
      /\ s \o t \in Seq(Token) /\ Len(s \o t) = Len(s) + Len(t)
  BY LenProperties, ConcatProperties
<1>1. CASE i <= Len(s)
  <2>1. 1 \in 1..Len(s) /\ i \in 1..Len(s)
    BY <1>0, <1>1
  <2> QED BY <2>1, <1>1, SubSeqOfConcat1
<1>2. CASE i > Len(s)
  <2> DEFINE j == i - Len(s)
             u == SubSeq(t, 1, j)
  <2>1. j \in 1..Len(t)
    BY <1>0, <1>2
  <2>2. u \in Seq(Token) /\ Len(u) = j
    BY <2>1, <1>0, PrefixType
  <2>3. s \o u \in Seq(Token) /\ Len(s \o u) = i
    BY <2>2, <1>0, ConcatProperties
  <2>4. SubSeq(s \o t, 1, i) \in Seq(Token) /\ Len(SubSeq(s \o t, 1, i)) = i
    BY <1>0, PrefixType
  <2>5. ASSUME NEW k \in 1..i PROVE SubSeq(s \o t, 1, i)[k] = (s \o u)[k]
    <3>1. SubSeq(s \o t, 1, i)[k] = (s \o t)[k]
      <4>1. \A m \in 1..i : (s \o t)[m] \in Token
        BY <1>0, ElementOfSeq
      <4>2. \A m \in 1..(i - 1 + 1) : SubSeq(s \o t, 1, i)[m] = (s \o t)[1 + m - 1]
        BY <4>1, SubSeqProperties
      <4> QED BY <4>2
    <3>2. (s \o t)[k] = IF k <= Len(s) THEN s[k] ELSE t[k - Len(s)]
      BY <1>0, ConcatProperties
    <3>3. (s \o u)[k] = IF k <= Len(s) THEN s[k] ELSE u[k - Len(s)]
      <4>1. k \in 1..(Len(s) + Len(u))
        BY <1>0, <2>2
      <4> QED BY <4>1, <2>2, ConcatProperties
    <3>4. ASSUME k > Len(s) PROVE u[k - Len(s)] = t[k - Len(s)]
      <4>1. \A m \in 1..j : t[m] \in Token
        BY <2>1, <1>0, ElementOfSeq
      <4>2. \A m \in 1..(j - 1 + 1) : u[m] = t[1 + m - 1]
        BY <4>1, <2>1, <1>0, SubSeqProperties
      <4>3. k - Len(s) \in 1..j
        BY <3>4, <1>0
      <4> QED BY <4>2, <4>3, <1>0
    <3> QED BY <3>1, <3>2, <3>3, <3>4, <1>0
  <2> HIDE DEF j, u
  <2>6. SubSeq(s \o t, 1, i) = s \o u
    BY <2>3, <2>4, <2>5, SeqEqual
  <2> QED BY <2>6, <1>2, <1>0 DEF u, j
<1> QED BY <1>0, <1>1, <1>2

(* Feeding appends: a runner that holds t holds t and the batch            *)
(* (forward_with).                                                         *)
LEMMA FedHolds ==
  ASSUME NEW r \in RunnerType, NEW t \in Seq(Token), Holds(r, t),
         NEW toks \in Seq(Token), r.pos + Len(toks) <= Cap
  PROVE  Holds(Fed(r, toks), t \o toks)
<1> DEFINE n == Len(toks)
<1>0. n \in Nat /\ Len(t) \in Nat /\ Cap \in Nat /\ r.pos = Len(t)
  BY SizeAssumption, LenProperties DEF Holds
<1>1. t \o toks \in Seq(Token) /\ Len(t \o toks) = Len(t) + n
  BY ConcatProperties
<1>2. Fed(r, toks).pos = r.pos + n
  BY DEF Fed, RunnerType
<1>3. Fed(r, toks).delta = t \o toks
  <2>1. Row(r, toks, n) = t \o toks
    BY RowHolds, SubSeqFull
  <2> QED BY <2>1 DEF Fed, RunnerType
<1>4. ASSUME NEW i \in 1..(Len(t) + n)
      PROVE  Fed(r, toks).kv[i] = SubSeq(t \o toks, 1, i)
  <2>1. i \in 1..Cap
    BY <1>0
  <2>2. Fed(r, toks).kv[i] = IF i \in (r.pos + 1)..(r.pos + n)
                             THEN Row(r, toks, i - r.pos) ELSE r.kv[i]
    BY <2>1 DEF Fed, RunnerType
  <2>3. CASE i <= Len(t)
    BY <2>2, <2>3, <1>0, PrefixOfConcat DEF Holds
  <2>4. CASE i > Len(t)
    <3>1. SubSeq(t \o toks, 1, i) = t \o SubSeq(toks, 1, i - Len(t))
      BY <2>4, <1>0, PrefixOfConcat
    <3>2. Row(r, toks, i - r.pos) = t \o SubSeq(toks, 1, i - r.pos)
      BY DEF Row, Sound, Holds
    <3>3. i \in (r.pos + 1)..(r.pos + n)
      BY <2>4, <1>0
    <3> QED BY <3>1, <3>2, <3>3, <2>2, <1>0
  <2> QED BY <2>3, <2>4, <1>0
<1> QED BY <1>0, <1>1, <1>2, <1>3, <1>4 DEF Holds

----------------------------------------------------------------------------
(* Two runners that differ at most in the draft head's state.              *)
SameText(r, s) == s.pos = r.pos /\ s.delta = r.delta /\ s.kv = r.kv

(* What a runner holds is settled by the position, the recurrent state and *)
(* the KV cache.                                                           *)
LEMMA SameTextHolds ==
  ASSUME NEW r, NEW s, NEW t, SameText(r, s), Holds(r, t)
  PROVE  Holds(s, t)
BY DEF SameText, Holds

(* A draft-head entry is a text or nothing (Pair).                         *)
LEMMA PairType ==
  ASSUME NEW h \in Seq(Token), NEW tok \in Token
  PROVE  Pair(h, tok) \in Seq(Token)
BY AppendProperties, EmptySeq DEF Pair, Junk

(* Warming the draft head leaves the text alone (mtp_warm).                *)
LEMMA WarmedType ==
  ASSUME NEW r \in RunnerType, NEW toks \in Seq(Token), NEW hs,
         \A j \in 1..Len(toks) : hs[j] \in Seq(Token),
         r.mtpPos + Len(toks) <= Cap
  PROVE  Warmed(r, hs, toks) \in RunnerType /\ SameText(r, Warmed(r, hs, toks))
<1> DEFINE n == Len(toks)
           head == [i \in 1..Cap |->
                      IF i \in (r.mtpPos + 1)..(r.mtpPos + n)
                      THEN Pair(hs[i - r.mtpPos], toks[i - r.mtpPos])
                      ELSE r.head[i]]
<1>0. n \in Nat /\ Cap \in Nat /\ r.mtpPos \in 0..Cap
  BY SizeAssumption, LenProperties DEF RunnerType
<1>1. head \in [1..Cap -> Seq(Token)]
  <2>1. ASSUME NEW i \in 1..Cap PROVE head[i] \in Seq(Token)
    <3>1. CASE i \in (r.mtpPos + 1)..(r.mtpPos + n)
      <4>1. i - r.mtpPos \in 1..n
        BY <3>1, <1>0
      <4>2. toks[i - r.mtpPos] \in Token /\ hs[i - r.mtpPos] \in Seq(Token)
        BY <4>1, ElementOfSeq
      <4>3. Pair(hs[i - r.mtpPos], toks[i - r.mtpPos]) \in Seq(Token)
        BY <4>2, PairType
      <4> QED BY <4>3, <3>1
    <3>2. CASE i \notin (r.mtpPos + 1)..(r.mtpPos + n)
      BY <3>2 DEF RunnerType
    <3> QED BY <3>1, <3>2
  <2> QED BY <2>1
<1>2. Warmed(r, hs, toks) = [r EXCEPT !.mtpPos = r.mtpPos + n, !.head = head]
  BY DEF Warmed
<1>3. r.mtpPos + n \in 0..Cap
  BY <1>0
<1> HIDE DEF n, head
<1> QED BY <1>1, <1>2, <1>3 DEF RunnerType, SameText

(* What a draft starts from is a text or nothing (Source).                 *)
LEMMA SourceType ==
  ASSUME NEW r \in RunnerType
  PROVE  Source(r) \in Seq(Token)
BY DEF Source, RunnerType

(* Drafting leaves the text alone (draft_with).                            *)
LEMMA DraftedType ==
  ASSUME NEW r \in RunnerType, NEW last \in Token, NEW n \in Nat,
         r.mtpPos + n <= Cap
  PROVE  Drafted(r, last, n) \in RunnerType /\ SameText(r, Drafted(r, last, n))
<1> DEFINE x == IF n > 0 THEN Junk ELSE r.x
           head == [i \in 1..Cap |->
                      IF i = r.mtpPos + 1 /\ n > 0 THEN Pair(Source(r), last)
                      ELSE IF i \in (r.mtpPos + 2)..(r.mtpPos + n) THEN Junk
                      ELSE r.head[i]]
<1>0. Cap \in Nat /\ r.mtpPos \in 0..Cap /\ Junk \in Seq(Token) /\ None \in Seq(Token)
  BY SizeAssumption, EmptySeq DEF RunnerType, Junk, None
<1>1. Pair(Source(r), last) \in Seq(Token)
  BY SourceType, PairType
<1>2. head \in [1..Cap -> Seq(Token)]
  BY <1>0, <1>1 DEF RunnerType
<1>3. x \in Seq(Token)
  BY <1>0 DEF RunnerType
<1>4. r.mtpPos + n \in 0..Cap
  BY <1>0
<1>5. Drafted(r, last, n) = [r EXCEPT !.mtpPos = r.mtpPos + n, !.specH = None,
                                      !.x = x, !.head = head]
  BY DEF Drafted
<1> HIDE DEF x, head
<1> QED BY <1>0, <1>2, <1>3, <1>4, <1>5 DEF RunnerType, SameText

(* A batch is fed whichever rows' logits are wanted (forward).             *)
LEMMA ForwardedType ==
  ASSUME NEW r \in RunnerType, NEW toks \in Seq(Token), NEW all,
         r.pos + Len(toks) <= Cap
  PROVE  /\ Forwarded(r, toks, all) \in RunnerType
         /\ SameText(Fed(r, toks), Forwarded(r, toks, all))
<1>1. Fed(r, toks) \in RunnerType
  BY FedType
<1>2. Row(r, toks, Len(toks)) \in Seq(Token)
  BY LenProperties, RowType
<1> QED BY <1>1, <1>2 DEF Forwarded, RunnerType, SameText

(* A step is a batch of one, as far as the text goes (step).               *)
LEMMA SteppedType ==
  ASSUME NEW r \in RunnerType, NEW tok \in Token, r.pos < Cap
  PROVE  Stepped(r, tok) \in RunnerType /\ SameText(Fed(r, <<tok>>), Stepped(r, tok))
<1>1. <<tok>> \in Seq(Token) /\ Len(<<tok>>) = 1
  OBVIOUS
<1>2. r.pos + Len(<<tok>>) <= Cap
  BY <1>1, SizeAssumption DEF RunnerType
<1>3. Fed(r, <<tok>>) \in RunnerType
  BY <1>1, <1>2, FedType
<1>4. Row(r, <<tok>>, 1) \in Seq(Token)
  <2>1. 1 \in Nat /\ 1 <= Len(<<tok>>)
    BY <1>1
  <2> QED BY <1>1, <2>1, RowType
<1>5. None \in Seq(Token)
  BY EmptySeq DEF None
<1> QED BY <1>3, <1>4, <1>5 DEF Stepped, RunnerType, SameText

(* Saving leaves the text alone; restoring leaves a well-formed runner     *)
(* (save, restore).                                                        *)
LEMMA SavedType ==
  ASSUME NEW r \in RunnerType
  PROVE  /\ Saved(r) \in RunnerType /\ SameText(r, Saved(r))
         /\ Restored(r) \in RunnerType
BY DEF Saved, Restored, RunnerType, SameText

----------------------------------------------------------------------------
(* A prefix of a prefix is a prefix.                                       *)
LEMMA PrefixOfPrefix ==
  ASSUME NEW s \in Seq(Token), NEW n \in 0..Len(s), NEW i \in 1..n
  PROVE  SubSeq(SubSeq(s, 1, n), 1, i) = SubSeq(s, 1, i)
<1>0. Len(s) \in Nat
  BY LenProperties
<1>1. 1 \in 1..Len(s) /\ n \in 1..Len(s) /\ 1 \in 1..(n - 1 + 1) /\ i \in 1..(n - 1 + 1)
  BY <1>0
<1>2. SubSeq(SubSeq(s, 1, n), 1, i) = SubSeq(s, 1 + 1 - 1, 1 + i - 1)
  BY <1>1, SubSeqOfSubSeq
<1>3. 1 + 1 - 1 = 1 /\ 1 + i - 1 = i
  OBVIOUS
<1> QED BY <1>2, <1>3

(* Setting a runner back to an earlier position and the recurrent state of *)
(* that prefix is enough: the KV cache below it is still of the prefix     *)
(* (roll_back_to, restore, resume).                                        *)
LEMMA ShortenHolds ==
  ASSUME NEW r, NEW t \in Seq(Token), Holds(r, t),
         NEW n \in 0..Len(t), NEW s,
         s.pos = n, s.delta = SubSeq(t, 1, n),
         \A i \in 1..n : s.kv[i] = r.kv[i]
  PROVE  Holds(s, SubSeq(t, 1, n))
<1>0. Len(t) \in Nat
  BY LenProperties
<1>1. Len(SubSeq(t, 1, n)) = n
  BY <1>0, PrefixType
<1>2. ASSUME NEW i \in 1..n PROVE s.kv[i] = SubSeq(SubSeq(t, 1, n), 1, i)
  <2>1. r.kv[i] = SubSeq(t, 1, i)
    BY <1>0 DEF Holds
  <2> QED BY <2>1, PrefixOfPrefix
<1> QED BY <1>1, <1>2 DEF Holds

(* A prefix that reaches into the second of two texts has all of the       *)
(* first.                                                                  *)
LEMMA ConcatPrefix ==
  ASSUME NEW s \in Seq(Token), NEW t \in Seq(Token), NEW k \in 0..Len(t)
  PROVE  SubSeq(s \o t, 1, Len(s) + k) = s \o SubSeq(t, 1, k)
<1>0. Len(s) \in Nat /\ Len(t) \in Nat
  BY LenProperties
<1>1. CASE k > 0
  <2>1. Len(s) + k \in 1..(Len(s) + Len(t))
    BY <1>0, <1>1
  <2>2. SubSeq(s \o t, 1, Len(s) + k) = s \o SubSeq(t, 1, Len(s) + k - Len(s))
    BY <2>1, <1>1, <1>0, PrefixOfConcat
  <2> QED BY <2>2, <1>0
<1>2. CASE k = 0
  <2>1. SubSeq(t, 1, 0) = <<>>
    BY SubSeqEmpty
  <2>2. s \o <<>> = s
    BY ConcatEmptySeq
  <2>3. SubSeq(s \o t, 1, Len(s)) = s
    <3>1. CASE Len(s) = 0
      <4>1. s = <<>>
        BY <3>1, EmptySeq
      <4>2. SubSeq(s \o t, 1, 0) = <<>>
        BY SubSeqEmpty
      <4> QED BY <4>1, <4>2, <3>1
    <3>2. CASE Len(s) > 0
      <4>1. Len(s) \in 1..(Len(s) + Len(t))
        BY <1>0, <3>2
      <4> QED BY <4>1, <1>0, PrefixOfConcat, SubSeqFull
    <3> QED BY <3>1, <3>2, <1>0
  <2> QED BY <1>2, <1>0, <2>1, <2>2, <2>3
<1> QED BY <1>1, <1>2

(* The verifying pass feeds the whole batch, and has put the state aside   *)
(* first where no per-row snapshots are kept (verify_drafts).              *)
LEMMA RanFacts ==
  ASSUME NEW r \in RunnerType, NEW fed \in Seq(Token), r.pos + Len(fed) <= Cap
  PROVE  /\ Ran(r, fed) \in RunnerType
         /\ Ran(r, fed).pos = r.pos + Len(fed)
         /\ Ran(r, fed).mtpPos = r.mtpPos
         /\ HasMtp /\ ~Snapped(Len(fed)) =>
              Ran(r, fed).saved = [pos |-> r.pos, delta |-> r.delta]
         /\ \A t \in Seq(Token) : Holds(r, t) => Holds(Ran(r, fed), t \o fed)
<1> DEFINE s == Readied(r, Len(fed))
<1>1. s \in RunnerType /\ SameText(r, s) /\ s.mtpPos = r.mtpPos
  BY SavedType DEF SameText, Saved, RunnerType, Readied
<1>2. Ran(r, fed) = Fed(s, fed)
  BY DEF Ran
<1>3. s.pos + Len(fed) <= Cap
  BY <1>1 DEF SameText
<1>4. HasMtp /\ ~Snapped(Len(fed)) => s.saved = [pos |-> r.pos, delta |-> r.delta]
  BY DEF Readied, Saved, RunnerType
<1> HIDE DEF s
<1>5. Fed(s, fed) \in RunnerType
  BY <1>1, <1>3, FedType
<1>6. /\ Fed(s, fed).pos = s.pos + Len(fed)
      /\ Fed(s, fed).mtpPos = s.mtpPos
      /\ Fed(s, fed).saved = s.saved
  BY <1>1 DEF Fed, RunnerType
<1>7. ASSUME NEW t \in Seq(Token), Holds(r, t) PROVE Holds(Fed(s, fed), t \o fed)
  <2>1. Holds(s, t)
    BY <1>1, <1>7, SameTextHolds
  <2> QED BY <2>1, <1>1, <1>3, FedHolds
<1> QED BY <1>1, <1>2, <1>4, <1>5, <1>6, <1>7 DEF SameText

(* The prefix of length one is the first token.                            *)
LEMMA PrefixOne ==
  ASSUME NEW s \in Seq(Token), Len(s) >= 1
  PROVE  SubSeq(s, 1, 1) = <<s[1]>> /\ s[1] \in Token
<1>1. s[1] \in Token
  <2>1. Len(s) \in Nat
    BY LenProperties
  <2>2. 1 \in 1..Len(s)
    BY <2>1
  <2> QED BY <2>2, ElementOfSeq
<1>2. \A m \in 1..1 : s[m] \in Token
  BY <1>1
<1>3. /\ SubSeq(s, 1, 1) \in Seq(Token) /\ Len(SubSeq(s, 1, 1)) = 1
      /\ \A m \in 1..(1 - 1 + 1) : SubSeq(s, 1, 1)[m] = s[1 + m - 1]
  BY <1>2, SubSeqProperties
<1>4. SubSeq(s, 1, 1)[1] = s[1]
  BY <1>3
<1>5. <<s[1]>> \in Seq(Token) /\ Len(<<s[1]>>) = 1 /\ <<s[1]>>[1] = s[1]
  BY <1>1
<1>6. \A i \in 1..Len(SubSeq(s, 1, 1)) : SubSeq(s, 1, 1)[i] = <<s[1]>>[i]
  BY <1>3, <1>4, <1>5
<1>7. Len(SubSeq(s, 1, 1)) = Len(<<s[1]>>)
  BY <1>3, <1>5
<1>8. SubSeq(s, 1, 1) \in Seq(Token) /\ <<s[1]>> \in Seq(Token)
  BY <1>3, <1>5
<1>9. SubSeq(s, 1, 1) = <<s[1]>>
  <2> HIDE <1>3, <1>5
  <2> QED BY <1>6, <1>7, <1>8, SeqEqual
<1> QED BY <1>1, <1>9

(* Back to the saved state: what the caches hold up to it is still there.  *)
LEMMA RestoredHolds ==
  ASSUME NEW r \in RunnerType, NEW fed \in Seq(Token), r.pos + Len(fed) <= Cap,
         HasMtp, ~Snapped(Len(fed))
  PROVE  /\ Restored(Ran(r, fed)).pos = r.pos
         /\ \A t \in Seq(Token) : Holds(r, t) => Holds(Restored(Ran(r, fed)), t)
<1> DEFINE b == Restored(Ran(r, fed))
<1>1. b.pos = r.pos /\ b.delta = r.delta /\ b.kv = Ran(r, fed).kv
  <2>1. /\ Ran(r, fed) \in RunnerType
        /\ Ran(r, fed).saved = [pos |-> r.pos, delta |-> r.delta]
    BY RanFacts
  <2> QED BY <2>1 DEF Restored, RunnerType
<1>2. ASSUME NEW t \in Seq(Token), Holds(r, t) PROVE Holds(b, t)
  <2>1. Holds(Ran(r, fed), t \o fed)
    BY <1>2, RanFacts
  <2>2. /\ t \o fed \in Seq(Token) /\ Len(t \o fed) = Len(t) + Len(fed)
        /\ Len(t) \in Nat /\ Len(fed) \in Nat /\ Len(t) \in 0..Len(t \o fed)
    BY ConcatProperties, LenProperties
  <2>3. SubSeq(t \o fed, 1, Len(t)) = t
    <3>1. 0 \in 0..Len(fed) /\ SubSeq(fed, 1, 0) = <<>> /\ Len(t) + 0 = Len(t)
      BY <2>2, SubSeqEmpty
    <3>2. SubSeq(t \o fed, 1, Len(t) + 0) = t \o SubSeq(fed, 1, 0)
      BY <3>1, ConcatPrefix
    <3> QED BY <3>1, <3>2, ConcatEmptySeq
  <2>4. b.pos = Len(t) /\ b.delta = SubSeq(t \o fed, 1, Len(t))
    BY <1>1, <1>2, <2>3 DEF Holds
  <2>5. Holds(b, SubSeq(t \o fed, 1, Len(t)))
    <3> HIDE DEF b
    <3> QED BY <2>1, <2>2, <2>4, <1>1, ShortenHolds
  <2> QED BY <2>3, <2>5
<1> QED BY <1>1, <1>2

(* Undoing leaves the runner as if only the kept part had been fed.        *)
LEMMA UndoneFacts ==
  ASSUME NEW r \in RunnerType, NEW fed \in Seq(Token), r.pos + Len(fed) <= Cap,
         NEW kept \in 0..(Len(fed) - 1), ReplayFits(Ran(r, fed), fed, kept)
  PROVE  /\ Undone(r, Ran(r, fed), fed, kept) \in RunnerType
         /\ HasMtp => Undone(r, Ran(r, fed), fed, kept).pos = r.pos + kept + 1
         /\ \A t \in Seq(Token) : HasMtp /\ Holds(r, t) =>
              Holds(Undone(r, Ran(r, fed), fed, kept), t \o SubSeq(fed, 1, kept + 1))
<1> DEFINE ran == Ran(r, fed)
           u == Undone(r, Ran(r, fed), fed, kept)
           part == SubSeq(fed, 1, kept + 1)
<1>0. /\ Len(fed) \in Nat /\ kept \in Nat /\ kept + 1 <= Len(fed)
      /\ r.pos \in Nat /\ Cap \in Nat /\ r.mtpPos \in Nat
  BY LenProperties, SizeAssumption DEF RunnerType
<1>1. /\ ran \in RunnerType /\ ran.pos = r.pos + Len(fed) /\ ran.mtpPos = r.mtpPos
      /\ \A t \in Seq(Token) : Holds(r, t) => Holds(ran, t \o fed)
  BY RanFacts
<1>2. part \in Seq(Token) /\ Len(part) = kept + 1
  BY <1>0, PrefixType
<1>3. CASE kept + 1 = Len(fed)
  <2>1. u = ran
    BY <1>3 DEF Undone
  <2>2. part = fed
    BY <1>3, SubSeqFull
  <2>3. u.pos = r.pos + kept + 1
    BY <2>1, <1>1, <1>3, <1>0
  <2>4. \A t \in Seq(Token) : Holds(r, t) => Holds(u, t \o part)
    BY <2>1, <2>2, <1>1
  <2>5. u \in RunnerType
    BY <2>1, <1>1
  <2> HIDE DEF u, part
  <2> QED BY <2>3, <2>4, <2>5 DEF u, part
<1>4. CASE kept + 1 /= Len(fed) /\ Snapped(Len(fed))
  <2> DEFINE d == Row(r, fed, kept + 1)
  <2>1. d \in Seq(Token)
    BY <1>0, RowType
  <2>2. u = [ran EXCEPT !.pos = (ran.pos - Len(fed)) + kept + 1, !.delta = d]
    BY <1>4 DEF Undone, RolledBack
  <2>3. (ran.pos - Len(fed)) + kept + 1 = r.pos + kept + 1
    BY <1>1, <1>0
  <2>4. r.pos + kept + 1 \in 0..Cap
    BY <1>0
  <2> HIDE DEF d, ran, u
  <2>5. u \in RunnerType /\ u.pos = r.pos + kept + 1 /\ u.delta = d /\ u.kv = ran.kv
    BY <2>1, <2>2, <2>3, <2>4, <1>1 DEF RunnerType
  <2>6. ASSUME NEW t \in Seq(Token), Holds(r, t) PROVE Holds(u, t \o part)
    <3>1. Holds(ran, t \o fed)
      BY <1>1, <2>6
    <3>2. /\ t \o fed \in Seq(Token) /\ Len(t \o fed) = Len(t) + Len(fed)
          /\ Len(t) \in Nat
      BY ConcatProperties, LenProperties
    <3>3. Len(t) + (kept + 1) \in 0..Len(t \o fed)
      BY <3>2, <1>0
    <3>4. kept + 1 \in 0..Len(fed)
      BY <1>0
    <3>5. SubSeq(t \o fed, 1, Len(t) + (kept + 1)) = t \o part
      BY <3>4, ConcatPrefix
    <3>6. d = t \o part
      BY <2>6 DEF d, Row, Sound, Holds
    <3>7. u.pos = Len(t) + (kept + 1)
      BY <2>5, <2>6, <1>0, <3>2 DEF Holds
    <3>8. u.delta = SubSeq(t \o fed, 1, Len(t) + (kept + 1))
      BY <2>5, <3>5, <3>6
    <3>9. Holds(u, SubSeq(t \o fed, 1, Len(t) + (kept + 1)))
      BY <3>1, <3>2, <3>3, <3>7, <3>8, <2>5, ShortenHolds
    <3> QED BY <3>9, <3>5
  <2> QED BY <2>5, <2>6 DEF u
<1>5. CASE kept + 1 /= Len(fed) /\ ~Snapped(Len(fed))
  <2> DEFINE b == Restored(Ran(r, fed))
  <2>1. b \in RunnerType
    BY <1>1, SavedType
  <2>2. b.pos + (kept + 1) <= Cap
    <3>1. Restored(Ran(r, fed)).pos + kept + 1 <= Cap
      BY <1>5 DEF ReplayFits
    <3>2. b.pos \in Nat
      BY <2>1, <1>0 DEF RunnerType
    <3> QED BY <3>1, <3>2, <1>0
  <2>3. b.pos \in Nat /\ (HasMtp => b.pos = r.pos)
    <3>1. b.pos \in Nat
      <4> HIDE DEF b
      <4> QED BY <2>1, <1>0 DEF RunnerType
    <3>2. HasMtp => b.pos = r.pos
      BY <1>5, RestoredHolds
    <3> QED BY <3>1, <3>2
  <2>4. ASSUME NEW t \in Seq(Token), HasMtp, Holds(r, t) PROVE Holds(b, t)
    BY <2>4, <1>5, RestoredHolds
  <2>5. CASE kept > 0
    <3>1. u = Fed(b, part)
      BY <1>5, <2>5 DEF Undone
    <3>2. b.pos + Len(part) <= Cap
      BY <2>2, <1>2
    <3> HIDE DEF b, part, u
    <3>3. Fed(b, part) \in RunnerType
      BY <2>1, <1>2, <3>2, FedType
    <3>4. Fed(b, part).pos = b.pos + Len(part)
      BY <2>1 DEF Fed, RunnerType
    <3>5. HasMtp => u.pos = r.pos + kept + 1
      <4>1. Len(part) = kept + 1 /\ kept \in Nat /\ r.pos \in Nat
        BY <1>2, <1>0
      <4>2. u.pos = b.pos + (kept + 1)
        BY <3>1, <3>4, <4>1
      <4> QED BY <4>1, <4>2, <2>3
    <3>6. ASSUME NEW t \in Seq(Token), HasMtp, Holds(r, t)
          PROVE  Holds(Fed(b, part), t \o part)
      BY <3>6, <2>4, <2>1, <1>2, <3>2, FedHolds
    <3> QED BY <3>1, <3>3, <3>5, <3>6 DEF u, part
  <2>6. CASE kept = 0
    <3>1. u = Stepped(b, fed[1])
      BY <1>5, <2>6 DEF Undone
    <3>2. fed[1] \in Token
      <4>1. 1 \in 1..Len(fed)
        BY <1>0
      <4> QED BY <4>1, ElementOfSeq
    <3>3. part = <<fed[1]>>
      <4>1. SubSeq(fed, 1, 1) = <<fed[1]>>
        BY <1>0, PrefixOne
      <4> QED BY <4>1, <2>6
    <3>4. b.pos < Cap /\ b.pos + Len(<<fed[1]>>) <= Cap
      BY <2>2, <2>3, <2>6, <1>0
    <3> HIDE DEF b, part, u
    <3>5. Stepped(b, fed[1]) \in RunnerType
          /\ SameText(Fed(b, <<fed[1]>>), Stepped(b, fed[1]))
      BY <2>1, <3>2, <3>4, SteppedType
    <3>6. Fed(b, <<fed[1]>>).pos = b.pos + 1
      BY <2>1 DEF Fed, RunnerType
    <3>7. HasMtp => u.pos = r.pos + kept + 1
      BY <3>1, <3>5, <3>6, <2>3, <2>6, <1>0 DEF SameText
    <3>8. ASSUME NEW t \in Seq(Token), HasMtp, Holds(r, t)
          PROVE  Holds(u, t \o part)
      <4>1. Holds(b, t)
        BY <3>8, <2>4
      <4>2. <<fed[1]>> \in Seq(Token)
        BY <3>2
      <4>3. Holds(Fed(b, <<fed[1]>>), t \o <<fed[1]>>)
        BY <4>1, <4>2, <2>1, <3>4, FedHolds
      <4> QED BY <4>3, <3>1, <3>3, <3>5, SameTextHolds
    <3> QED BY <3>1, <3>5, <3>7, <3>8 DEF u, part
  <2> QED BY <2>5, <2>6, <1>0
<1> QED BY <1>3, <1>4, <1>5

(* A round on a runner that can undo leaves the text and the kept part.    *)
LEMMA VerifiedFacts ==
  ASSUME NEW r \in RunnerType, NEW fed \in Seq(Token), r.pos + Len(fed) <= Cap,
         NEW kept \in 0..(Len(fed) - 1), ReplayFits(Ran(r, fed), fed, kept),
         NEW unheaded \in Seq(Seq(Token)), Len(unheaded) <= 1, Len(unheaded) <= r.pos
  PROVE  /\ Verified(r, fed, kept, unheaded) \in RunnerType
         /\ \A t \in Seq(Token) : HasMtp /\ Holds(r, t) =>
              Holds(Verified(r, fed, kept, unheaded), t \o SubSeq(fed, 1, kept + 1))
<1> DEFINE back == Undone(r, Ran(r, fed), fed, kept)
           cut  == [back EXCEPT !.mtpPos = back.pos - (kept + 1 + Len(unheaded))]
           rows == [j \in 1..kept |-> Row(r, fed, j)]
           hs   == unheaded \o rows
           toks == SubSeq(fed, 2 - Len(unheaded), kept + 1)
           warm == IF HasMtp THEN Warmed(cut, hs, toks) ELSE back
           h    == Row(r, fed, kept + 1)
           l    == Len(unheaded)
<1>0. /\ Len(fed) \in Nat /\ kept \in Nat /\ kept + 1 <= Len(fed)
      /\ r.pos \in Nat /\ Cap \in Nat /\ l \in Nat
  BY LenProperties, SizeAssumption DEF RunnerType
<1>1. Verified(r, fed, kept, unheaded) = [warm EXCEPT !.specH = h]
  BY DEF Verified
<1>2. /\ back \in RunnerType /\ (HasMtp => back.pos = r.pos + kept + 1)
      /\ \A t \in Seq(Token) : HasMtp /\ Holds(r, t) =>
           Holds(back, t \o SubSeq(fed, 1, kept + 1))
  BY UndoneFacts
<1>3. h \in Seq(Token)
  BY <1>0, RowType
<1>4. toks \in Seq(Token) /\ Len(toks) = kept + l
  <2>1. \A i \in (2 - l)..(kept + 1) : i \in 1..Len(fed)
    BY <1>0
  <2>2. \A i \in (2 - l)..(kept + 1) : fed[i] \in Token
    BY <2>1, ElementOfSeq
  <2>3. 2 - l \in Int /\ kept + 1 \in Int
    BY <1>0
  <2>4. /\ toks \in Seq(Token)
        /\ Len(toks) = IF 2 - l <= kept + 1 THEN (kept + 1) - (2 - l) + 1 ELSE 0
    BY <2>2, <2>3, SubSeqProperties
  <2> HIDE DEF toks
  <2> QED BY <2>4, <1>0
<1>5. \A j \in 1..Len(toks) : hs[j] \in Seq(Token)
  <2>1. \A j \in 1..kept : Row(r, fed, j) \in Seq(Token)
    BY <1>0, RowType
  <2>2. rows \in [1..kept -> Seq(Token)]
    BY <2>1
  <2>3. rows \in Seq(Seq(Token)) /\ Len(rows) = kept
    <3> HIDE DEF rows
    <3> QED BY <2>2, <1>0
  <2> HIDE DEF rows
  <2>4. hs \in Seq(Seq(Token)) /\ Len(hs) = l + kept
    BY <2>3, ConcatProperties
  <2>5. Len(toks) = Len(hs)
    BY <2>4, <1>4, <1>0
  <2> HIDE DEF hs, toks
  <2> QED BY <2>4, <2>5, ElementOfSeq
<1>6. ASSUME HasMtp
      PROVE  /\ cut \in RunnerType /\ SameText(back, cut)
             /\ cut.mtpPos + Len(toks) <= Cap
  <2>1. back.pos - (kept + 1 + l) = r.pos - l
    BY <1>6, <1>2, <1>0
  <2>2. r.pos - l \in 0..Cap /\ (r.pos - l) + (kept + l) <= Cap
    BY <1>0
  <2> HIDE DEF back, toks
  <2>3. cut \in RunnerType /\ SameText(back, cut) /\ cut.mtpPos = r.pos - l
    BY <2>1, <2>2, <1>2 DEF RunnerType, SameText
  <2> QED BY <2>2, <2>3, <1>4
<1>7. warm \in RunnerType /\ SameText(back, warm)
  <2>1. CASE HasMtp
    <3> HIDE DEF cut, hs, toks, back
    <3>1. Warmed(cut, hs, toks) \in RunnerType /\ SameText(cut, Warmed(cut, hs, toks))
      BY <1>4, <1>5, <1>6, <2>1, WarmedType
    <3> QED BY <3>1, <1>6, <2>1 DEF SameText
  <2>2. CASE ~HasMtp
    <3> HIDE DEF back
    <3> QED BY <2>2, <1>2 DEF SameText
  <2> QED BY <2>1, <2>2
<1> HIDE DEF warm, back, h
<1>8. [warm EXCEPT !.specH = h] \in RunnerType /\ SameText(back, [warm EXCEPT !.specH = h])
  BY <1>3, <1>7 DEF RunnerType, SameText
<1>9. ASSUME NEW t \in Seq(Token), HasMtp, Holds(r, t)
      PROVE  Holds([warm EXCEPT !.specH = h], t \o SubSeq(fed, 1, kept + 1))
  BY <1>8, <1>9, <1>2, SameTextHolds
<1> QED BY <1>1, <1>8, <1>9

----------------------------------------------------------------------------
(* What a client is told, and the runner it is told it of.                 *)
Good(o) == /\ o.rt \in RunnerType /\ o.ok \in BOOLEAN
           /\ o.said \in Seq(Token)
           /\ o.next \in Seq(Token) /\ Len(o.next) <= 1

(* A runner that held t, after the call that gave o.                       *)
Keeps(o, t) == Holds(o.rt, IF o.ok THEN t \o o.said ELSE t)

(* An Err that leaves the runner alone keeps its text.                     *)
LEMMA ErrFacts ==
  ASSUME NEW r \in RunnerType
  PROVE  Good(Err(r)) /\ \A t : Holds(r, t) => Keeps(Err(r), t)
BY EmptySeq DEF Good, Keeps, Err

(* One decode step says the token it was given and the runner holds it, or *)
(* errs and holds what it held (step).                                     *)
LEMMA StepFacts ==
  ASSUME NEW r \in RunnerType, NEW tok \in Token, NEW o \in StepResults(r, tok)
  PROVE  /\ Good(o) /\ (o.ok => o.said = <<tok>>)
         /\ \A t \in Seq(Token) : Holds(r, t) => Keeps(o, t)
<1>0. Cap \in Nat /\ r.pos \in Nat
  BY SizeAssumption DEF RunnerType
<1>1. CASE r.pos < Cap
  <2>1. PICK n \in Token :
          o = [ok |-> TRUE, rt |-> Stepped(r, tok), said |-> <<tok>>, next |-> <<n>>]
    BY <1>1 DEF StepResults, Drawn
  <2>2. Stepped(r, tok) \in RunnerType /\ SameText(Fed(r, <<tok>>), Stepped(r, tok))
    BY <1>1, SteppedType
  <2>3. <<tok>> \in Seq(Token) /\ <<n>> \in Seq(Token) /\ Len(<<tok>>) = 1 /\ Len(<<n>>) = 1
    OBVIOUS
  <2>4. r.pos + Len(<<tok>>) <= Cap
    BY <2>3, <1>1, <1>0
  <2>5. ASSUME NEW t \in Seq(Token), Holds(r, t)
        PROVE  Holds(Stepped(r, tok), t \o <<tok>>)
    <3>1. Holds(Fed(r, <<tok>>), t \o <<tok>>)
      BY <2>3, <2>4, <2>5, FedHolds
    <3> QED BY <3>1, <2>2, SameTextHolds
  <2> QED BY <2>1, <2>2, <2>3, <2>5 DEF Good, Keeps
<1>2. CASE ~(r.pos < Cap)
  <2>1. o = Err(StepRefused(r))
    BY <1>2 DEF StepResults
  <2>2. StepRefused(r) \in RunnerType /\ SameText(r, StepRefused(r))
    BY EmptySeq DEF StepRefused, RunnerType, SameText, None
  <2>3. \A t \in Seq(Token) : Holds(r, t) => Holds(StepRefused(r), t)
    BY <2>2, SameTextHolds
  <2>4. ~o.ok
    BY <2>1 DEF Err
  <2> QED BY <2>1, <2>2, <2>3, <2>4, ErrFacts
<1> QED BY <1>1, <1>2

(* Whatever is drafted and however many drafts the model agrees with, a    *)
(* round of verify_drafts on a checkpoint with a draft head leaves the     *)
(* runner holding what it reports as said; an Err leaves it where it was.  *)
LEMMA VerifyFacts ==
  ASSUME NEW r \in RunnerType, NEW fed \in Seq(Token),
         NEW unheaded \in Seq(Seq(Token)), Len(unheaded) <= 1, Len(unheaded) <= r.pos,
         NEW o \in VerifyResults(r, fed, unheaded)
  PROVE  /\ Good(o)
         /\ \A t \in Seq(Token) : HasMtp /\ Holds(r, t) => Keeps(o, t)
<1>1. CASE ~Fits(r, Len(fed))
  <2>1. o = Err(Readied(r, Len(fed)))
    BY <1>1 DEF VerifyResults
  <2>2. Readied(r, Len(fed)) \in RunnerType /\ SameText(r, Readied(r, Len(fed)))
    BY SavedType DEF Readied, SameText
  <2> QED BY <2>1, <2>2, ErrFacts, SameTextHolds
<1>2. CASE Fits(r, Len(fed))
  <2>0. r.pos + Len(fed) <= Cap /\ Len(fed) \in Nat
    BY <1>2, LenProperties DEF Fits
  <2>1. PICK v \in Verdicts(r, fed) :
          o = IF ReplayFits(Ran(r, fed), fed, v[1])
              THEN [ok |-> TRUE, rt |-> Verified(r, fed, v[1], unheaded),
                    said |-> SubSeq(fed, 1, v[1] + 1), next |-> <<v[2]>>]
              ELSE Err(Restored(Ran(r, fed)))
    BY <1>2 DEF VerifyResults
  <2>2. v[1] \in 0..(Len(fed) - 1) /\ v[2] \in Token
    BY DEF Verdicts
  <2>3. CASE ReplayFits(Ran(r, fed), fed, v[1])
    <3>1. o = [ok |-> TRUE, rt |-> Verified(r, fed, v[1], unheaded),
               said |-> SubSeq(fed, 1, v[1] + 1), next |-> <<v[2]>>]
      BY <2>1, <2>3
    <3>2. /\ Verified(r, fed, v[1], unheaded) \in RunnerType
          /\ \A t \in Seq(Token) : HasMtp /\ Holds(r, t) =>
               Holds(Verified(r, fed, v[1], unheaded), t \o SubSeq(fed, 1, v[1] + 1))
      <4> DEFINE k == v[1]
      <4>1. k \in 0..(Len(fed) - 1) /\ ReplayFits(Ran(r, fed), fed, k)
        BY <2>2, <2>3
      <4> HIDE DEF k
      <4>2. /\ Verified(r, fed, k, unheaded) \in RunnerType
            /\ \A t \in Seq(Token) : HasMtp /\ Holds(r, t) =>
                 Holds(Verified(r, fed, k, unheaded), t \o SubSeq(fed, 1, k + 1))
        BY <4>1, <2>0, VerifiedFacts
      <4> QED BY <4>2 DEF k
    <3>3. SubSeq(fed, 1, v[1] + 1) \in Seq(Token)
      <4>1. v[1] + 1 \in Nat /\ v[1] + 1 <= Len(fed)
        BY <2>2, <2>0
      <4> QED BY <4>1, PrefixType
    <3>4. <<v[2]>> \in Seq(Token) /\ Len(<<v[2]>>) = 1
      BY <2>2
    <3> QED BY <3>1, <3>2, <3>3, <3>4 DEF Good, Keeps
  <2>4. CASE ~ReplayFits(Ran(r, fed), fed, v[1])
    <3>1. o = Err(Restored(Ran(r, fed))) /\ ~Snapped(Len(fed))
      BY <2>1, <2>4 DEF ReplayFits
    <3>2. Restored(Ran(r, fed)) \in RunnerType
      BY <2>0, RanFacts, SavedType
    <3>3. \A t \in Seq(Token) :
            HasMtp /\ Holds(r, t) => Holds(Restored(Ran(r, fed)), t)
      BY <3>1, <2>0, RestoredHolds
    <3> QED BY <3>1, <3>2, <3>3, ErrFacts
  <2> QED BY <2>3, <2>4
<1> QED BY <1>1, <1>2

(* So does a round on the draft head's own drafts, which needs no          *)
(* assumption: without a head it is one step (speculate_with).             *)
LEMMA SpeculateFacts ==
  ASSUME NEW r \in RunnerType, NEW last \in Token, NEW depth \in Nat,
         NEW o \in SpeculateResults(r, last, depth)
  PROVE  /\ Good(o)
         /\ \A t \in Seq(Token) : Holds(r, t) => Keeps(o, t)
<1> DEFINE n == Drafts(r, depth)
           d == IF HasMtp THEN Drafted(r, last, n) ELSE r
<1>0. n \in Nat /\ (HasMtp => r.mtpPos + n <= Cap) /\ (~HasMtp => n = 0)
  BY SizeAssumption DEF Drafts, Min2, RunnerType
<1>1. d \in RunnerType /\ SameText(r, d)
  <2>1. CASE HasMtp
    BY <2>1, <1>0, DraftedType
  <2>2. CASE ~HasMtp
    BY <2>2 DEF SameText
  <2> QED BY <2>1, <2>2
<1>2. o \in IF n = 0 THEN StepResults(d, last)
           ELSE UNION { VerifyResults(d, <<last>> \o drafts, <<>>) :
                          drafts \in [1..n -> Token] }
  BY DEF SpeculateResults
<1> HIDE DEF n, d
<1>3. \A t : Holds(r, t) => Holds(d, t)
  BY <1>1, SameTextHolds
<1>4. CASE n = 0
  <2>1. o \in StepResults(d, last)
    BY <1>2, <1>4
  <2> QED BY <2>1, <1>1, <1>3, StepFacts
<1>5. CASE n /= 0
  <2>1. PICK drafts \in [1..n -> Token] : o \in VerifyResults(d, <<last>> \o drafts, <<>>)
    BY <1>2, <1>5
  <2>2. drafts \in Seq(Token) /\ <<last>> \in Seq(Token)
    BY <1>0
  <2>3. <<last>> \o drafts \in Seq(Token)
    BY <2>2, ConcatProperties
  <2>4. <<>> \in Seq(Seq(Token)) /\ Len(<<>>) = 0
    OBVIOUS
  <2>5. Len(<<>>) <= 1 /\ Len(<<>>) <= d.pos
    BY <2>4, <1>1, SizeAssumption DEF RunnerType
  <2>6. Good(o) /\ \A t \in Seq(Token) : HasMtp /\ Holds(d, t) => Keeps(o, t)
    BY <2>1, <2>3, <2>4, <2>5, <1>1, VerifyFacts
  <2> QED BY <2>6, <1>3, <1>5, <1>0
<1> QED BY <1>4, <1>5

(* So does a round on drafts from elsewhere, given a head                  *)
(* (speculate_proposed).                                                   *)
LEMMA ProposedFacts ==
  ASSUME NEW r \in RunnerType, NEW last \in Token, NEW drafts \in Seq(Token),
         r.pos > 0, NEW o \in ProposedResults(r, last, drafts)
  PROVE  /\ Good(o)
         /\ \A t \in Seq(Token) : HasMtp /\ Holds(r, t) => Keeps(o, t)
<1> DEFINE c == [r EXCEPT !.specH = None]
           k == Min2(Len(drafts), MaxDepth)
           fed == <<last>> \o SubSeq(drafts, 1, k)
<1>1. c \in RunnerType /\ SameText(r, c)
  BY EmptySeq DEF RunnerType, SameText, None
<1>2. fed \in Seq(Token)
  <2>1. k \in Nat /\ k <= Len(drafts)
    BY LenProperties, SizeAssumption DEF Min2, MaxDepth
  <2>2. SubSeq(drafts, 1, k) \in Seq(Token) /\ <<last>> \in Seq(Token)
    BY <2>1, PrefixType
  <2> QED BY <2>2, ConcatProperties
<1>3. <<Source(r)>> \in Seq(Seq(Token)) /\ Len(<<Source(r)>>) = 1
  BY SourceType
<1>4. Len(<<Source(r)>>) <= 1 /\ Len(<<Source(r)>>) <= c.pos
  BY <1>1, <1>3 DEF SameText, RunnerType
<1>5. o \in VerifyResults(c, fed, <<Source(r)>>)
  BY DEF ProposedResults
<1> HIDE DEF c, k, fed
<1>6. Good(o) /\ \A t \in Seq(Token) : HasMtp /\ Holds(c, t) => Keeps(o, t)
  BY <1>1, <1>2, <1>3, <1>4, <1>5, VerifyFacts
<1> QED BY <1>6, <1>1, SameTextHolds

----------------------------------------------------------------------------
(* Prefill. *)

(* A non-empty set of numbers up to N has a greatest element.              *)
LEMMA GreatestExists ==
  ASSUME NEW N \in Nat, NEW S \in SUBSET (0..N), S /= {}
  PROVE  \E x \in S : \A y \in S : y <= x
<1> DEFINE T == { N - x : x \in S }
<1>1. \A x \in S : x \in 0..N /\ N - x \in Nat
  <2>1. ASSUME NEW x \in 0..N PROVE N - x \in Nat
    OBVIOUS
  <2> QED BY <2>1
<1>2. T \in SUBSET Nat /\ T /= {}
  BY <1>1
<1>3. PICK m \in T : \A k \in T : m <= k
  <2> HIDE DEF T
  <2> QED BY <1>2, LeastNumber
<1>4. PICK x \in S : m = N - x
  BY <1>3
<1>5. ASSUME NEW y \in S PROVE y <= x
  <2>1. N - y \in T /\ N - x <= N - y
    BY <1>3, <1>4
  <2>2. x \in 0..N /\ y \in 0..N
    BY <1>1
  <2> QED BY <2>1, <2>2
<1> QED BY <1>5

(* A prefill chunk is never empty and never longer than what is left to    *)
(* read (chunk).                                                           *)
LEMMA ChunkFacts ==
  ASSUME NEW left \in Nat, left > 0
  PROVE  Chunk(left) \in 1..left
<1> DEFINE S == { g \in GemmSizes : g <= left }
<1>0. ASSUME NEW g \in GemmSizes PROVE g \in Nat /\ g >= 1
  <2>1. g \in 1..PrefillMax /\ PrefillMax \in Nat
    BY SizeAssumption
  <2> QED BY <2>1
<1>1. CASE \E g \in GemmSizes : g <= left
  <2>1. S \in SUBSET (0..left) /\ S /= {}
    BY <1>0, <1>1
  <2>2. \E x \in S : \A y \in S : y <= x
    <3> HIDE DEF S
    <3> QED BY <2>1, GreatestExists
  <2>3. \E g \in GemmSizes : g <= left /\ \A f \in GemmSizes : f <= left => f <= g
    BY <2>2
  <2>4. Chunk(left) \in GemmSizes /\ Chunk(left) <= left
    BY <2>3, <1>1 DEF Chunk
  <2> QED BY <2>4, <1>0
<1>2. CASE ~(\E g \in GemmSizes : g <= left)
  BY <1>2, SizeAssumption DEF Chunk, Min2
<1> QED BY <1>1, <1>2

(* A part of a text is a text, of the length its bounds say.               *)
LEMMA SubSeqType ==
  ASSUME NEW s \in Seq(Token), NEW m \in Nat, m > 0, NEW n \in Nat, n <= Len(s)
  PROVE  /\ SubSeq(s, m, n) \in Seq(Token)
         /\ Len(SubSeq(s, m, n)) = IF m <= n THEN n - m + 1 ELSE 0
<1>1. \A i \in m..n : i \in 1..Len(s)
  BY LenProperties
<1>2. \A i \in m..n : s[i] \in Token
  BY <1>1, ElementOfSeq
<1> QED BY <1>2, SubSeqProperties

(* A chunk fed and m of its rows warmed, whether or not the prefill ends.  *)
LEMMA ChunkWarmedFacts ==
  ASSUME NEW r \in RunnerType, NEW unread \in Seq(Token), unread /= <<>>,
         Fits(r, Chunk(Len(unread))),
         NEW m \in Nat, m <= Chunk(Len(unread)), m <= Len(unread) - 1, r.mtpPos + m <= Cap
  PROVE  /\ ChunkWarmed(r, unread, m) \in RunnerType
         /\ \A t \in Seq(Token) : Holds(r, t) =>
              Holds(ChunkWarmed(r, unread, m), t \o SubSeq(unread, 1, Chunk(Len(unread))))
<1> DEFINE c == Chunk(Len(unread))
           part == SubSeq(unread, 1, c)
           toks == SubSeq(unread, 2, m + 1)
           hs == [j \in 1..m |-> Row(r, part, j)]
<1>0. Len(unread) \in Nat /\ Len(unread) > 0 /\ c \in 1..Len(unread)
  BY EmptySeq, LenProperties, ChunkFacts
<1> HIDE DEF c
<1>1. part \in Seq(Token) /\ Len(part) = c
  BY <1>0, PrefixType
<1>2. r.pos + Len(part) <= Cap
  BY <1>1 DEF Fits, c
<1>3. toks \in Seq(Token) /\ Len(toks) = m
  <2>1. m + 1 \in Nat /\ m + 1 <= Len(unread) /\ 2 \in Nat /\ 2 > 0
    BY <1>0
  <2>2. toks \in Seq(Token) /\ Len(toks) = IF 2 <= m + 1 THEN (m + 1) - 2 + 1 ELSE 0
    BY <2>1, SubSeqType
  <2> QED BY <2>2
<1>4. \A j \in 1..Len(toks) : hs[j] \in Seq(Token)
  <2>1. \A j \in 1..m : Row(r, part, j) \in Seq(Token)
    <3>1. \A j \in 1..m : j \in Nat /\ j <= Len(part)
      BY <1>0, <1>1 DEF c
    <3> HIDE DEF part
    <3> QED BY <3>1, <1>1, RowType
  <2> QED BY <2>1, <1>3
<1> HIDE DEF part, toks, hs
<1>5. Fed(r, part) \in RunnerType /\ Fed(r, part).mtpPos = r.mtpPos
  BY <1>1, <1>2, FedType DEF Fed, RunnerType
<1>6. Fed(r, part).mtpPos + Len(toks) <= Cap
  BY <1>3, <1>5
<1>7. /\ Warmed(Fed(r, part), hs, toks) \in RunnerType
      /\ SameText(Fed(r, part), Warmed(Fed(r, part), hs, toks))
  BY <1>3, <1>4, <1>5, <1>6, WarmedType
<1>8. ChunkWarmed(r, unread, m) = Warmed(Fed(r, part), hs, toks)
  BY DEF ChunkWarmed, c, part, hs, toks
<1>9. ASSUME NEW t \in Seq(Token), Holds(r, t)
      PROVE  Holds(Warmed(Fed(r, part), hs, toks), t \o part)
  <2>1. Holds(Fed(r, part), t \o part)
    BY <1>1, <1>2, <1>9, FedHolds
  <2> QED BY <2>1, <1>7, SameTextHolds
<1> QED BY <1>7, <1>8, <1>9 DEF c, part

(* A chunk warms the head on no more rows than it has, and never on the    *)
(* prompt's last, whose next token is not known (prefill).                 *)
LEMMA WarmsFacts ==
  ASSUME NEW unread \in Seq(Token), unread /= <<>>
  PROVE  /\ Warms(unread) \in Nat /\ Warms(unread) <= Chunk(Len(unread))
         /\ Warms(unread) <= Len(unread) - 1
<1>1. Len(unread) \in Nat /\ Len(unread) > 0
  BY EmptySeq, LenProperties
<1>2. Chunk(Len(unread)) \in 1..Len(unread)
  BY <1>1, ChunkFacts
<1> QED BY <1>1, <1>2 DEF Warms, Min2

(* The rows warmed before the head's cache is found full are rows of the   *)
(* chunk (mtp_warm).                                                       *)
LEMMA WarmBound ==
  ASSUME NEW r \in RunnerType, NEW unread \in Seq(Token), unread /= <<>>,
         r.mtpPos + Warms(unread) > Cap, NEW m \in 0..(Cap - r.mtpPos)
  PROVE  /\ m \in Nat /\ r.mtpPos + m <= Cap
         /\ m <= Chunk(Len(unread)) /\ m <= Len(unread) - 1
<1>1. Cap \in Nat /\ r.mtpPos \in 0..Cap /\ Len(unread) \in Nat /\ Len(unread) > 0
  BY SizeAssumption, EmptySeq, LenProperties DEF RunnerType
<1>2. Chunk(Len(unread)) \in 1..Len(unread)
  BY <1>1, ChunkFacts
<1>3. /\ Warms(unread) \in Nat /\ Warms(unread) <= Chunk(Len(unread))
      /\ Warms(unread) <= Len(unread) - 1
  BY WarmsFacts
<1> QED BY <1>1, <1>2, <1>3

(* A chunk of a prefill appends its tokens to what the runner holds        *)
(* (prefill).                                                              *)
LEMMA PrefillChunkFacts ==
  ASSUME NEW r \in RunnerType, NEW unread \in Seq(Token), unread /= <<>>,
         Fits(r, Chunk(Len(unread))), r.mtpPos + Warms(unread) <= Cap
  PROVE  /\ PrefillChunk(r, unread) \in RunnerType
         /\ \A t \in Seq(Token) : Holds(r, t) =>
              Holds(PrefillChunk(r, unread), t \o SubSeq(unread, 1, Chunk(Len(unread))))
<1> DEFINE warm == ChunkWarmed(r, unread, Warms(unread))
           h == Row(r, unread, Len(unread))
<1>1. /\ warm \in RunnerType
      /\ \A t \in Seq(Token) : Holds(r, t) =>
           Holds(warm, t \o SubSeq(unread, 1, Chunk(Len(unread))))
  BY WarmsFacts, ChunkWarmedFacts
<1>2. h \in Seq(Token)
  <2>1. Len(unread) \in Nat
    BY LenProperties
  <2> QED BY <2>1, RowType
<1>3. PrefillChunk(r, unread) \in {warm, [warm EXCEPT !.specH = h, !.x = h]}
  BY DEF PrefillChunk
<1> HIDE DEF warm, h
<1>4. /\ [warm EXCEPT !.specH = h, !.x = h] \in RunnerType
      /\ SameText(warm, [warm EXCEPT !.specH = h, !.x = h])
  BY <1>1, <1>2 DEF RunnerType, SameText
<1>5. ASSUME NEW t \in Seq(Token), Holds(r, t)
      PROVE  Holds([warm EXCEPT !.specH = h, !.x = h],
                   t \o SubSeq(unread, 1, Chunk(Len(unread))))
  BY <1>5, <1>1, <1>4, SameTextHolds
<1> QED BY <1>1, <1>3, <1>4, <1>5

(* A reset runner holds the empty text; a checkpoint, and a runner resumed *)
(* from one, are well formed (reset, checkpoint, resume).                  *)
LEMMA ForgottenHolds ==
  ASSUME NEW r \in RunnerType
  PROVE  /\ Cleared(r) \in RunnerType /\ Holds(Cleared(r), <<>>)
         /\ Checkpoint(r) \in CheckpointType
         /\ \A c \in CheckpointType : Resumed(r, c) \in RunnerType
<1>1. 0 \in 0..Cap /\ <<>> \in Seq(Token) /\ Len(<<>>) = 0 /\ None \in Seq(Token)
  BY SizeAssumption DEF None
<1>2. Cleared(r) \in RunnerType
  BY <1>1 DEF Cleared, RunnerType
<1>3. Holds(Cleared(r), <<>>)
  BY <1>1 DEF Cleared, RunnerType, Holds
<1>4. Checkpoint(r) \in CheckpointType
  BY DEF Checkpoint, RunnerType, CheckpointType
<1>5. ASSUME NEW c \in CheckpointType PROVE Resumed(r, c) \in RunnerType
  BY <1>1 DEF Resumed, RunnerType, CheckpointType
<1> QED BY <1>2, <1>3, <1>4, <1>5

(***************************************************************************)
(* What a decoding call says and where it leaves the draft head, given     *)
(* what the runner holds: every row of a pass is then known, so what is    *)
(* judged on it, handed to the next draft and written to the head's cache  *)
(* is too.                                                                 *)
(***************************************************************************)

(* What a call that said something from the text t and the token tok says: *)
(* tok first, then tokens the model allows one after another, and the      *)
(* state for the next draft is the model's after all of it.                *)
Draws(o, t, tok) ==
  o.ok => /\ Len(o.said) >= 1 /\ o.said[1] = tok
          /\ \A i \in 2..Len(o.said) : o.said[i] \in Target(t \o SubSeq(o.said, 1, i - 1))
          /\ \E n \in Token : o.next = <<n>> /\ n \in Target(t \o o.said)
          /\ Source(o.rt) = t \o o.said

(* A text with something after it is not the empty one.                    *)
LEMMA NotEmpty ==
  ASSUME NEW s \in Seq(Token), NEW t \in Seq(Token), Len(t) >= 1
  PROVE  s \o t \in Seq(Token) /\ s \o t /= <<>>
<1>1. s \o t \in Seq(Token) /\ Len(s \o t) = Len(s) + Len(t)
  BY ConcatProperties
<1>2. Len(s) \in Nat /\ Len(t) \in Nat /\ Len(<<>>) = 0
  BY LenProperties
<1> QED BY <1>1, <1>2

(* A step draws from the model after the text and the token it fed, and    *)
(* leaves that state in the single-row buffer (step).                      *)
LEMMA StepDraws ==
  ASSUME NEW r \in RunnerType, NEW t \in Seq(Token), Holds(r, t),
         NEW tok \in Token, NEW o \in StepResults(r, tok)
  PROVE  /\ Draws(o, t, tok)
         /\ o.ok => o.rt.pos = r.pos + 1 /\ o.rt.mtpPos = r.mtpPos /\ r.pos < Cap
<1>1. CASE r.pos < Cap
  <2>1. PICK n \in Drawn(Row(r, <<tok>>, 1)) :
          o = [ok |-> TRUE, rt |-> Stepped(r, tok), said |-> <<tok>>, next |-> <<n>>]
    BY <1>1 DEF StepResults
  <2>2. <<tok>> \in Seq(Token) /\ Len(<<tok>>) = 1 /\ <<tok>>[1] = tok
    OBVIOUS
  <2>3. Row(r, <<tok>>, 1) = t \o <<tok>>
    BY <2>2, RowHolds, SubSeqFull
  <2>4. t \o <<tok>> \in Seq(Token) /\ t \o <<tok>> /= <<>>
    BY <2>2, NotEmpty
  <2>5. n \in Token /\ n \in Target(t \o <<tok>>)
    BY <2>3, <2>4 DEF Drawn, Allowed, Junk
  <2>6. Stepped(r, tok).specH = None /\ Stepped(r, tok).x = t \o <<tok>>
    BY <2>3 DEF Stepped, Fed, RunnerType
  <2>7. Stepped(r, tok).pos = r.pos + 1 /\ Stepped(r, tok).mtpPos = r.mtpPos
    BY <2>2 DEF Stepped, Fed, RunnerType
  <2>8. Source(o.rt) = t \o <<tok>>
    BY <2>1, <2>6 DEF Source
  <2>9. o.said = <<tok>> /\ o.next = <<n>> /\ o.ok /\ o.rt = Stepped(r, tok)
    BY <2>1
  <2>10. \A i \in 2..Len(o.said) : FALSE
    BY <2>2, <2>9
  <2> QED BY <2>2, <2>5, <2>7, <2>8, <2>9, <2>10, <1>1 DEF Draws
<1>2. CASE ~(r.pos < Cap)
  <2>1. ~o.ok
    BY <1>2 DEF StepResults, Err
  <2> QED BY <2>1 DEF Draws
<1> QED BY <1>1, <1>2

----------------------------------------------------------------------------
(* Where a round leaves the draft head: one short of the model, and the    *)
(* entries from the round's start paired from the model's own states.      *)
Warm(s, p, w) ==
  /\ s.mtpPos + 1 = s.pos
  /\ \A i \in (p + 1)..s.mtpPos : s.head[i] = SubSeq(w, 1, i + 1)

(* The tokens of a prefix are those of the text.                           *)
LEMMA PrefixElements ==
  ASSUME NEW s \in Seq(Token), NEW n \in Nat, n <= Len(s)
  PROVE  \A i \in 1..n : SubSeq(s, 1, n)[i] = s[i]
<1>1. \A i \in 1..n : s[i] \in Token
  <2>1. \A i \in 1..n : i \in 1..Len(s)
    BY LenProperties
  <2> QED BY <2>1, ElementOfSeq
<1>2. \A i \in 1..(n - 1 + 1) : SubSeq(s, 1, n)[i] = s[1 + i - 1]
  BY <1>1, SubSeqProperties
<1>3. \A i \in 1..n : i \in 1..(n - 1 + 1) /\ 1 + i - 1 = i
  OBVIOUS
<1> QED BY <1>2, <1>3

(* One more token of a text makes the next longer prefix of it.            *)
LEMMA PrefixStep ==
  ASSUME NEW s \in Seq(Token), NEW j \in Nat, j + 1 <= Len(s)
  PROVE  Append(SubSeq(s, 1, j), s[j + 1]) = SubSeq(s, 1, j + 1)
<1> DEFINE a == SubSeq(s, 1, j)
           b == SubSeq(s, 1, j + 1)
<1>0. Len(s) \in Nat /\ j + 1 \in Nat /\ j <= Len(s)
  BY LenProperties
<1>1. /\ a \in Seq(Token) /\ Len(a) = j
      /\ b \in Seq(Token) /\ Len(b) = j + 1
  BY <1>0, PrefixType
<1>2. \A i \in 1..j + 1 : s[i] \in Token
  <2>1. \A i \in 1..j + 1 : i \in 1..Len(s)
    BY <1>0
  <2> QED BY <2>1, ElementOfSeq
<1>3. \A i \in 1..j : a[i] = s[i]
  BY <1>0, PrefixElements
<1>4. \A i \in 1..j + 1 : b[i] = s[i]
  BY <1>0, PrefixElements
<1>5. s[j + 1] \in Token
  BY <1>2
<1> HIDE DEF a, b
<1>6. /\ Append(a, s[j + 1]) \in Seq(Token) /\ Len(Append(a, s[j + 1])) = j + 1
      /\ \A i \in 1..j : Append(a, s[j + 1])[i] = a[i]
      /\ Append(a, s[j + 1])[j + 1] = s[j + 1]
  BY <1>1, <1>5, AppendProperties
<1>7. \A i \in 1..Len(b) : Append(a, s[j + 1])[i] = b[i]
  BY <1>1, <1>3, <1>4, <1>6
<1> QED BY <1>1, <1>6, <1>7, SeqEqual DEF a, b

(* A token appended to the second of two texts in a row.                   *)
LEMMA AppendToConcat ==
  ASSUME NEW s \in Seq(Token), NEW t \in Seq(Token), NEW e \in Token
  PROVE  Append(s \o t, e) = s \o Append(t, e)
<1>1. <<e>> \in Seq(Token) /\ s \o t \in Seq(Token)
  BY ConcatProperties
<1>2. Append(s \o t, e) = (s \o t) \o <<e>> /\ Append(t, e) = t \o <<e>>
  BY <1>1, AppendIsConcat
<1> DEFINE u == <<e>>
<1>3. u \in Seq(Token)
  BY <1>1
<1> HIDE DEF u
<1>4. (s \o t) \o u = s \o (t \o u)
  BY <1>3, ConcatAssociative
<1> QED BY <1>2, <1>4 DEF u

(* A round on a runner that holds t hands the model's state after what is  *)
(* said to the next draft, and warms the head (verify_drafts' last part).  *)
LEMMA VerifiedWarms ==
  ASSUME NEW r \in RunnerType, NEW t \in Seq(Token), Holds(r, t), HasMtp,
         NEW fed \in Seq(Token), r.pos + Len(fed) <= Cap,
         NEW kept \in 0..(Len(fed) - 1), ReplayFits(Ran(r, fed), fed, kept),
         NEW unheaded \in Seq(Seq(Token)), Len(unheaded) <= 1, Len(unheaded) <= r.pos
  PROVE  /\ Verified(r, fed, kept, unheaded).specH = t \o SubSeq(fed, 1, kept + 1)
         /\ Warm(Verified(r, fed, kept, unheaded), r.pos, t \o SubSeq(fed, 1, kept + 1))
<1> DEFINE back == Undone(r, Ran(r, fed), fed, kept)
           cut  == [back EXCEPT !.mtpPos = back.pos - (kept + 1 + Len(unheaded))]
           rows == [j \in 1..kept |-> Row(r, fed, j)]
           hs   == unheaded \o rows
           toks == SubSeq(fed, 2 - Len(unheaded), kept + 1)
           part == SubSeq(fed, 1, kept + 1)
           l    == Len(unheaded)
           v    == Verified(r, fed, kept, unheaded)
<1>0. /\ Len(fed) \in Nat /\ kept \in Nat /\ kept + 1 <= Len(fed)
      /\ r.pos \in Nat /\ Cap \in Nat /\ l \in Nat /\ l <= 1 /\ l <= r.pos
      /\ r.pos + kept + 1 <= Cap /\ r.pos = Len(t) /\ Len(t) \in Nat
  BY LenProperties, SizeAssumption DEF RunnerType, Holds
<1>1. v = [Warmed(cut, hs, toks) EXCEPT !.specH = Row(r, fed, kept + 1)]
  BY DEF Verified
<1>2. back \in RunnerType /\ back.pos = r.pos + kept + 1
  BY UndoneFacts
<1>3. part \in Seq(Token) /\ Len(part) = kept + 1
  BY <1>0, PrefixType
<1>4. Row(r, fed, kept + 1) = t \o part
  BY DEF Row, Sound, Holds
<1>5. rows \in Seq(Seq(Token)) /\ Len(rows) = kept
  <2>1. \A j \in 1..kept : Row(r, fed, j) \in Seq(Token)
    BY <1>0, RowType
  <2>2. rows \in [1..kept -> Seq(Token)]
    BY <2>1
  <2> HIDE DEF rows
  <2> QED BY <2>2, <1>0
<1>6. ASSUME NEW j \in 1..kept PROVE hs[l + j] = t \o SubSeq(fed, 1, j)
  <2>1. Row(r, fed, j) = t \o SubSeq(fed, 1, j)
    BY DEF Row, Sound, Holds
  <2>2. rows[j] = t \o SubSeq(fed, 1, j)
    BY <2>1
  <2> HIDE DEF rows
  <2>3. l + j \in 1..(Len(unheaded) + Len(rows)) /\ ~(l + j <= Len(unheaded))
        /\ l + j - Len(unheaded) = j
    BY <1>0, <1>5
  <2>4. (unheaded \o rows)[l + j] =
          IF l + j <= Len(unheaded) THEN unheaded[l + j] ELSE rows[l + j - Len(unheaded)]
    BY <2>3, <1>5, ConcatProperties
  <2> QED BY <2>2, <2>3, <2>4
<1>7. /\ toks \in Seq(Token) /\ Len(toks) = kept + l
      /\ \A j \in 1..kept : toks[l + j] = fed[j + 1]
  <2>1. \A i \in (2 - l)..(kept + 1) : i \in 1..Len(fed)
    BY <1>0
  <2>2. \A i \in (2 - l)..(kept + 1) : fed[i] \in Token
    BY <2>1, ElementOfSeq
  <2>3. 2 - l \in Int /\ kept + 1 \in Int
    BY <1>0
  <2>4. /\ toks \in Seq(Token)
        /\ Len(toks) = IF 2 - l <= kept + 1 THEN (kept + 1) - (2 - l) + 1 ELSE 0
        /\ \A i \in 1..((kept + 1) - (2 - l) + 1) : toks[i] = fed[(2 - l) + i - 1]
    BY <2>2, <2>3, SubSeqProperties
  <2>5. \A j \in 1..kept : /\ l + j \in 1..((kept + 1) - (2 - l) + 1)
                           /\ (2 - l) + (l + j) - 1 = j + 1
    BY <1>0
  <2>6. \A j \in 1..kept : toks[l + j] = fed[j + 1]
    <3> HIDE DEF toks, l
    <3> QED BY <2>4, <2>5
  <2>7. Len(toks) = kept + l
    <3> HIDE DEF toks, l
    <3>1. l \in Nat /\ l <= 1 /\ kept \in Nat
      BY <1>0
    <3>2. 2 - l <= kept + 1 \/ (l = 0 /\ kept = 0)
      BY ONLY <3>1
    <3>3. Len(toks) = IF 2 - l <= kept + 1 THEN (kept + 1) - (2 - l) + 1 ELSE 0
      BY <2>4
    <3> QED BY ONLY <3>1, <3>2, <3>3
  <2> QED BY <2>4, <2>6, <2>7
<1> HIDE DEF rows, hs, toks, part, back, l
<1>8. cut \in RunnerType /\ cut.mtpPos = r.pos - l /\ cut.pos = r.pos + kept + 1
  <2>1. back.pos - (kept + 1 + l) = r.pos - l /\ r.pos - l \in 0..Cap
    BY <1>2, <1>0
  <2>2. back.pos - (kept + 1 + Len(unheaded)) = r.pos - l
    BY <2>1 DEF l
  <2> QED BY <2>1, <2>2, <1>2 DEF RunnerType
<1> HIDE DEF cut
<1>9. /\ v.mtpPos = r.pos + kept /\ v.pos = r.pos + kept + 1
      /\ v.specH = t \o part
  <2>1. v.mtpPos = cut.mtpPos + Len(toks) /\ v.pos = cut.pos
        /\ v.specH = Row(r, fed, kept + 1)
    BY <1>1, <1>8 DEF Warmed, RunnerType
  <2> QED BY <2>1, <1>4, <1>7, <1>8, <1>0
<1>10. ASSUME NEW i \in (r.pos + 1)..(r.pos + kept)
       PROVE  v.head[i] = SubSeq(t \o part, 1, i + 1)
  <2> DEFINE j == i - r.pos
  <2>1. /\ i \in 1..Cap /\ j \in 1..kept /\ i - cut.mtpPos = l + j
        /\ i \in (cut.mtpPos + 1)..(cut.mtpPos + Len(toks))
    BY <1>0, <1>7, <1>8
  <2>2. v.head[i] = Pair(hs[i - cut.mtpPos], toks[i - cut.mtpPos])
    BY <1>1, <1>8, <2>1 DEF Warmed, RunnerType
  <2>3. v.head[i] = Pair(t \o SubSeq(fed, 1, j), fed[j + 1])
    BY <2>1, <2>2, <1>6, <1>7
  <2>4. j \in Nat /\ j >= 1 /\ j + 1 <= Len(fed) /\ j + 1 \in Nat
    BY <2>1, <1>0
  <2> HIDE DEF j
  <2>5. SubSeq(fed, 1, j) \in Seq(Token) /\ Len(SubSeq(fed, 1, j)) = j
    BY <2>4, PrefixType, <1>0
  <2>6. t \o SubSeq(fed, 1, j) /= Junk
    BY <2>4, <2>5, NotEmpty DEF Junk
  <2>7. fed[j + 1] \in Token
    <3>1. j + 1 \in 1..Len(fed)
      BY <2>4, <1>0
    <3> QED BY <3>1, ElementOfSeq
  <2>8. Append(t \o SubSeq(fed, 1, j), fed[j + 1]) = t \o SubSeq(fed, 1, j + 1)
    <3>1. Append(t \o SubSeq(fed, 1, j), fed[j + 1])
            = t \o Append(SubSeq(fed, 1, j), fed[j + 1])
      BY <2>5, <2>7, AppendToConcat
    <3>5. Append(SubSeq(fed, 1, j), fed[j + 1]) = SubSeq(fed, 1, j + 1)
      BY <2>4, PrefixStep
    <3> QED BY <3>1, <3>5
  <2>9. SubSeq(t \o part, 1, i + 1) = t \o SubSeq(fed, 1, j + 1)
    <3>1. j + 1 \in 0..Len(part) /\ i + 1 = Len(t) + (j + 1)
      BY <2>1, <2>4, <1>3, <1>0 DEF j
    <3>2. SubSeq(t \o part, 1, Len(t) + (j + 1)) = t \o SubSeq(part, 1, j + 1)
      BY <3>1, <1>3, ConcatPrefix
    <3>3. SubSeq(part, 1, j + 1) = SubSeq(fed, 1, j + 1)
      <4>1. kept + 1 \in 0..Len(fed) /\ j + 1 \in 1..(kept + 1)
        BY <3>1, <2>4, <1>3, <1>0
      <4> QED BY <4>1, PrefixOfPrefix DEF part
    <3> QED BY <3>1, <3>2, <3>3
  <2> QED BY <2>3, <2>6, <2>8, <2>9 DEF Pair
<1> HIDE DEF v
<1>11. v.mtpPos + 1 = v.pos
  BY <1>9, <1>0
<1> QED BY <1>9, <1>10, <1>11 DEF Warm, v, part

(* A round says the token it was given and the drafts the model agreed     *)
(* with, each judged on the model's row before it (verify_drafts).         *)
LEMMA VerifyDraws ==
  ASSUME NEW r \in RunnerType, NEW t \in Seq(Token), Holds(r, t), HasMtp,
         NEW fed \in Seq(Token), Len(fed) >= 1,
         NEW unheaded \in Seq(Seq(Token)), Len(unheaded) <= 1, Len(unheaded) <= r.pos,
         NEW o \in VerifyResults(r, fed, unheaded)
  PROVE  /\ Draws(o, t, fed[1])
         /\ o.ok => Warm(o.rt, r.pos, t \o o.said)
<1> SUFFICES ASSUME o.ok
             PROVE  Draws(o, t, fed[1]) /\ Warm(o.rt, r.pos, t \o o.said)
  BY DEF Draws
<1>1. Fits(r, Len(fed))
  BY DEF VerifyResults, Err
<1>2. r.pos + Len(fed) <= Cap /\ Len(fed) \in Nat
  BY <1>1, LenProperties DEF Fits
<1>3. PICK v \in Verdicts(r, fed) :
        /\ ReplayFits(Ran(r, fed), fed, v[1])
        /\ o = [ok |-> TRUE, rt |-> Verified(r, fed, v[1], unheaded),
                said |-> SubSeq(fed, 1, v[1] + 1), next |-> <<v[2]>>]
  BY <1>1 DEF VerifyResults, Err
<1> DEFINE k == v[1]
           n == v[2]
           part == SubSeq(fed, 1, k + 1)
<1>4. /\ k \in 0..(Len(fed) - 1) /\ n \in Token
      /\ \A i \in 1..k : fed[i + 1] \in Allowed(Row(r, fed, i))
      /\ n \in Allowed(Row(r, fed, k + 1))
  BY DEF Verdicts
<1>5. /\ ReplayFits(Ran(r, fed), fed, k)
      /\ o.rt = Verified(r, fed, k, unheaded) /\ o.said = part /\ o.next = <<n>>
  BY <1>3
<1>6. ASSUME NEW i \in 1..Len(fed)
      PROVE  Allowed(Row(r, fed, i)) = Target(t \o SubSeq(fed, 1, i))
  <2>1. Row(r, fed, i) = t \o SubSeq(fed, 1, i)
    BY DEF Row, Sound, Holds
  <2>2. SubSeq(fed, 1, i) \in Seq(Token) /\ Len(SubSeq(fed, 1, i)) = i
    BY <1>2, PrefixType
  <2>3. t \o SubSeq(fed, 1, i) /= Junk
    BY <2>2, NotEmpty DEF Junk
  <2> QED BY <2>1, <2>3 DEF Allowed
<1> HIDE DEF k, n, part
<1>7. k + 1 \in Nat /\ k + 1 <= Len(fed) /\ k + 1 \in 1..Len(fed)
  BY <1>2, <1>4
<1>8. part \in Seq(Token) /\ Len(part) = k + 1
  BY <1>7, PrefixType DEF part
<1>9. \A i \in 1..k + 1 : part[i] = fed[i]
  BY <1>7, PrefixElements DEF part
<1>10. ASSUME NEW i \in 2..k + 1
       PROVE  part[i] \in Target(t \o SubSeq(part, 1, i - 1))
  <2>1. /\ i \in 1..k + 1 /\ i - 1 \in 1..k /\ i - 1 \in 1..Len(fed)
        /\ i - 1 + 1 = i /\ i - 1 \in 1..(k + 1) /\ k + 1 \in 0..Len(fed)
    BY <1>4, <1>7, <1>2
  <2>2. fed[i - 1 + 1] \in Allowed(Row(r, fed, i - 1))
    BY <1>4, <2>1
  <2>3. SubSeq(part, 1, i - 1) = SubSeq(fed, 1, i - 1)
    BY <2>1, PrefixOfPrefix DEF part
  <2> QED BY <2>1, <2>2, <2>3, <1>6, <1>9
<1>11. n \in Target(t \o part)
  BY <1>4, <1>6, <1>7 DEF part
<1>12. /\ o.rt.specH = t \o part /\ Warm(o.rt, r.pos, t \o part)
  BY <1>2, <1>4, <1>5, VerifiedWarms DEF part
<1>13. Source(o.rt) = t \o part
  <2>1. t \o part /= None
    BY <1>7, <1>8, NotEmpty DEF None
  <2> QED BY <2>1, <1>12 DEF Source
<1>14. Len(part) >= 1 /\ part[1] = fed[1]
  BY <1>4, <1>7, <1>8, <1>9
<1> QED BY <1>4, <1>5, <1>8, <1>10, <1>11, <1>12, <1>13, <1>14 DEF Draws

(* The first of two texts in a row, when it is not empty, begins it.       *)
LEMMA FirstOfConcat ==
  ASSUME NEW tok \in Token, NEW t \in Seq(Token)
  PROVE  /\ <<tok>> \o t \in Seq(Token) /\ Len(<<tok>> \o t) >= 1
         /\ (<<tok>> \o t)[1] = tok
<1> DEFINE s == <<tok>>
<1>1. s \in Seq(Token) /\ Len(s) = 1 /\ s[1] = tok
  OBVIOUS
<1> HIDE DEF s
<1>2. /\ s \o t \in Seq(Token) /\ Len(s \o t) = Len(s) + Len(t)
      /\ \A i \in 1..Len(s) + Len(t) :
           (s \o t)[i] = IF i <= Len(s) THEN s[i] ELSE t[i - Len(s)]
  BY <1>1, ConcatProperties
<1>3. Len(t) \in Nat
  BY LenProperties
<1>4. 1 \in 1..Len(s) + Len(t) /\ 1 <= Len(s)
  BY <1>1, <1>3
<1>5. (s \o t)[1] = s[1]
  BY <1>2, <1>4
<1> QED BY <1>1, <1>2, <1>3, <1>5 DEF s

(* A round on the head's drafts says what the model would have said.  It   *)
(* warms the head, or, without one, is one step (speculate_with).          *)
LEMMA SpeculateDraws ==
  ASSUME NEW r \in RunnerType, NEW t \in Seq(Token), Holds(r, t),
         NEW last \in Token, NEW depth \in Nat, depth > 0,
         NEW o \in SpeculateResults(r, last, depth)
  PROVE  /\ Draws(o, t, last)
         /\ o.ok /\ HasMtp /\ r.mtpPos <= r.pos => Warm(o.rt, r.pos, t \o o.said)
         /\ o.ok /\ ~HasMtp => o.rt.pos = r.pos + 1 /\ o.rt.mtpPos = r.mtpPos
<1> DEFINE n == Drafts(r, depth)
           d == IF HasMtp THEN Drafted(r, last, n) ELSE r
<1>0. /\ n \in Nat /\ (HasMtp => r.mtpPos + n <= Cap) /\ (~HasMtp => n = 0)
      /\ (HasMtp /\ n = 0 => r.mtpPos = Cap)
  BY SizeAssumption DEF Drafts, Min2, RunnerType
<1>1. d \in RunnerType /\ SameText(r, d) /\ (n = 0 => d.mtpPos = r.mtpPos)
  <2>1. CASE HasMtp
    <3>1. Drafted(r, last, n) \in RunnerType /\ SameText(r, Drafted(r, last, n))
      BY <2>1, <1>0, DraftedType
    <3>2. n = 0 => Drafted(r, last, n).mtpPos = r.mtpPos
      BY <1>0 DEF Drafted, RunnerType
    <3> QED BY <3>1, <3>2, <2>1
  <2>2. CASE ~HasMtp
    BY <2>2 DEF SameText
  <2> QED BY <2>1, <2>2
<1>2. o \in IF n = 0 THEN StepResults(d, last)
           ELSE UNION { VerifyResults(d, <<last>> \o drafts, <<>>) :
                          drafts \in [1..n -> Token] }
  BY DEF SpeculateResults
<1> HIDE DEF n, d
<1>3. Holds(d, t) /\ d.pos = r.pos
  BY <1>1, SameTextHolds DEF SameText
<1>4. CASE n = 0
  <2>1. /\ Draws(o, t, last)
        /\ o.ok => o.rt.pos = d.pos + 1 /\ o.rt.mtpPos = d.mtpPos /\ d.pos < Cap
    BY <1>1, <1>2, <1>3, <1>4, StepDraws
  <2>2. r.pos \in Nat /\ Cap \in Nat
    BY SizeAssumption DEF RunnerType
  <2> QED BY <2>1, <2>2, <1>0, <1>1, <1>3, <1>4
<1>5. CASE n /= 0
  <2>1. PICK drafts \in [1..n -> Token] : o \in VerifyResults(d, <<last>> \o drafts, <<>>)
    BY <1>2, <1>5
  <2>2. drafts \in Seq(Token)
    BY <1>0
  <2> DEFINE fed == <<last>> \o drafts
  <2>3. fed \in Seq(Token) /\ Len(fed) >= 1 /\ fed[1] = last
    BY <2>2, FirstOfConcat
  <2>4. <<>> \in Seq(Seq(Token)) /\ Len(<<>>) <= 1 /\ Len(<<>>) <= d.pos
    BY <1>1, SizeAssumption DEF RunnerType
  <2>5. o \in VerifyResults(d, fed, <<>>)
    BY <2>1
  <2> HIDE DEF fed
  <2>6. Draws(o, t, fed[1]) /\ (o.ok => Warm(o.rt, d.pos, t \o o.said))
    BY <2>3, <2>4, <2>5, <1>0, <1>1, <1>3, <1>5, VerifyDraws
  <2> QED BY <2>3, <2>6, <1>0, <1>3, <1>5
<1> QED BY <1>4, <1>5

(* So does a round on proposed drafts, given a head (speculate_proposed).  *)
LEMMA ProposedDraws ==
  ASSUME NEW r \in RunnerType, NEW t \in Seq(Token), Holds(r, t), HasMtp,
         NEW last \in Token, NEW drafts \in Seq(Token),
         r.pos > 0, NEW o \in ProposedResults(r, last, drafts)
  PROVE  /\ Draws(o, t, last)
         /\ o.ok => Warm(o.rt, r.pos, t \o o.said)
<1> DEFINE c == [r EXCEPT !.specH = None]
           k == Min2(Len(drafts), MaxDepth)
           tail == SubSeq(drafts, 1, k)
           fed == <<last>> \o tail
<1>1. c \in RunnerType /\ SameText(r, c)
  BY EmptySeq DEF RunnerType, SameText, None
<1>2. tail \in Seq(Token)
  <2>1. k \in Nat /\ k <= Len(drafts)
    BY LenProperties, SizeAssumption DEF Min2, MaxDepth
  <2> QED BY <2>1, PrefixType
<1>3. fed \in Seq(Token) /\ Len(fed) >= 1 /\ fed[1] = last
  <2> HIDE DEF tail
  <2> QED BY <1>2, FirstOfConcat
<1>4. <<Source(r)>> \in Seq(Seq(Token)) /\ Len(<<Source(r)>>) = 1
  BY SourceType
<1>5. Len(<<Source(r)>>) <= 1 /\ Len(<<Source(r)>>) <= c.pos
  BY <1>1, <1>4 DEF SameText, RunnerType
<1>6. o \in VerifyResults(c, fed, <<Source(r)>>)
  BY DEF ProposedResults
<1> HIDE DEF c, k, fed, tail
<1>7. Holds(c, t) /\ c.pos = r.pos
  BY <1>1, SameTextHolds DEF SameText
<1>8. Draws(o, t, fed[1]) /\ (o.ok => Warm(o.rt, c.pos, t \o o.said))
  BY <1>1, <1>3, <1>4, <1>5, <1>6, <1>7, VerifyDraws
<1> QED BY <1>3, <1>7, <1>8

----------------------------------------------------------------------------
(* The reply, drawn one token at a time. *)

(* r was drawn from the model one token after another, after p.            *)
DrawnAfter(p, r) ==
  \A i \in 1..Len(r) : r[i] \in Target(p \o SubSeq(r, 1, i - 1))

(* A text drawn from the model stays one when tokens are added that the    *)
(* model allows one after another; the last token is said again as the     *)
(* first of them (Take).                                                   *)
LEMMA ReplyGrows ==
  ASSUME NEW p \in Seq(Token), NEW q \in Seq(Token), NEW u \in Seq(Token),
         Len(u) >= 1, DrawnAfter(p, q \o <<u[1]>>),
         \A k \in 2..Len(u) : u[k] \in Target((p \o q) \o SubSeq(u, 1, k - 1))
  PROVE  /\ DrawnAfter(p, q \o u)
         /\ SubSeq(q \o u, 1, Len(q \o <<u[1]>>)) = q \o <<u[1]>>
<1> DEFINE w == q \o u
           a == q \o <<u[1]>>
           m == Len(q)
<1>0. /\ m \in Nat /\ Len(u) \in Nat /\ w \in Seq(Token) /\ Len(w) = m + Len(u)
      /\ SubSeq(u, 1, 1) = <<u[1]>> /\ <<u[1]>> \in Seq(Token) /\ Len(<<u[1]>>) = 1
  BY LenProperties, ConcatProperties, PrefixOne
<1>1. a \in Seq(Token) /\ Len(a) = m + 1
  <2> DEFINE one == <<u[1]>>
  <2>1. one \in Seq(Token) /\ Len(one) = 1
    BY <1>0
  <2> HIDE DEF one
  <2>2. q \o one \in Seq(Token) /\ Len(q \o one) = m + 1
    BY <2>1, ConcatProperties
  <2> QED BY <2>2 DEF one
<1>2. SubSeq(w, 1, m + 1) = a
  <2>1. 1 \in 0..Len(u)
    BY <1>0
  <2>2. SubSeq(q \o u, 1, Len(q) + 1) = q \o SubSeq(u, 1, 1)
    BY <2>1, ConcatPrefix
  <2> QED BY <2>2, <1>0
<1>3. ASSUME NEW i \in 1..Len(w) PROVE w[i] \in Target(p \o SubSeq(w, 1, i - 1))
  <2>1. CASE i <= m + 1
    <3>1. w[i] = a[i]
      <4>1. m + 1 \in Nat /\ m + 1 <= Len(w) /\ i \in 1..(m + 1)
        BY <1>0, <2>1
      <4> HIDE DEF w, a, m
      <4> QED BY <4>1, <1>0, <1>2, PrefixElements
    <3>2. SubSeq(w, 1, i - 1) = SubSeq(a, 1, i - 1)
      <4>0. i = 1 \/ i > 1
        BY <1>0
      <4>1. CASE i = 1
        <5>1. SubSeq(w, 1, 0) = <<>> /\ SubSeq(a, 1, 0) = <<>> /\ i - 1 = 0
          <6> HIDE DEF w, a
          <6> QED BY <4>1, SubSeqEmpty
        <5> QED BY <5>1
      <4>2. CASE i > 1
        <5>1. m + 1 \in 0..Len(w) /\ i - 1 \in 1..(m + 1)
          BY <1>0, <2>1, <4>2
        <5> HIDE DEF w, a, m
        <5> QED BY <5>1, <1>0, <1>2, PrefixOfPrefix
      <4> HIDE DEF w, a
      <4> QED BY <4>0, <4>1, <4>2
    <3>3. a[i] \in Target(p \o SubSeq(a, 1, i - 1))
      <4>1. i \in 1..Len(a)
        BY <1>0, <1>1, <2>1
      <4> QED BY <4>1 DEF DrawnAfter
    <3> QED BY <3>1, <3>2, <3>3
  <2>2. CASE i > m + 1
    <3> DEFINE k == i - m
    <3>1. k \in 2..Len(u) /\ k - 1 \in 0..Len(u) /\ i - 1 = m + (k - 1)
          /\ k - 1 \in Nat /\ k - 1 <= Len(u) /\ i \in 1..(Len(q) + Len(u))
      BY <1>0, <2>2
    <3>2. w[i] = u[k]
      BY <3>1, <2>2, <1>0, ConcatProperties
    <3>3. SubSeq(w, 1, i - 1) = q \o SubSeq(u, 1, k - 1)
      <4> HIDE DEF k
      <4>1. SubSeq(q \o u, 1, Len(q) + (k - 1)) = q \o SubSeq(u, 1, k - 1)
        BY <3>1, ConcatPrefix
      <4> QED BY <4>1, <3>1
    <3> HIDE DEF k
    <3>4. p \o (q \o SubSeq(u, 1, k - 1)) = (p \o q) \o SubSeq(u, 1, k - 1)
      <4> DEFINE b == SubSeq(u, 1, k - 1)
      <4>1. b \in Seq(Token)
        BY <3>1, PrefixType
      <4> HIDE DEF b
      <4>2. (p \o q) \o b = p \o (q \o b)
        BY <4>1, ThreeTexts
      <4> QED BY <4>2 DEF b
    <3>5. u[k] \in Target((p \o q) \o SubSeq(u, 1, k - 1))
      BY <3>1
    <3> QED BY <3>2, <3>3, <3>4, <3>5
  <2> QED BY <2>1, <2>2, <1>0
<1> QED BY <1>1, <1>2, <1>3 DEF DrawnAfter

(* What is left of a text after its first tokens.                          *)
LEMMA SuffixElements ==
  ASSUME NEW s \in Seq(Token), NEW n \in 0..Len(s)
  PROVE  /\ SubSeq(s, n + 1, Len(s)) \in Seq(Token)
         /\ Len(SubSeq(s, n + 1, Len(s))) = Len(s) - n
         /\ \A i \in 1..(Len(s) - n) : SubSeq(s, n + 1, Len(s))[i] = s[n + i]
<1> DEFINE q == SubSeq(s, n + 1, Len(s))
<1>0. Len(s) \in Nat /\ n \in Nat /\ n <= Len(s) /\ n + 1 \in Int /\ Len(s) \in Int
  BY LenProperties
<1>1. \A i \in (n + 1)..Len(s) : s[i] \in Token
  <2>1. \A i \in (n + 1)..Len(s) : i \in 1..Len(s)
    BY <1>0
  <2> QED BY <2>1, ElementOfSeq
<1>2. /\ q \in Seq(Token)
      /\ Len(q) = IF n + 1 <= Len(s) THEN Len(s) - (n + 1) + 1 ELSE 0
      /\ \A i \in 1..(Len(s) - (n + 1) + 1) : q[i] = s[(n + 1) + i - 1]
  BY <1>0, <1>1, SubSeqProperties
<1> HIDE DEF q
<1>3. Len(q) = Len(s) - n
  BY <1>0, <1>2
<1>4. \A i \in 1..(Len(s) - n) : /\ i \in 1..(Len(s) - (n + 1) + 1)
                                 /\ (n + 1) + i - 1 = n + i
  BY <1>0
<1> QED BY <1>2, <1>3, <1>4 DEF q

(* A text is its beginning and what is left of it.                         *)
LEMMA Split ==
  ASSUME NEW s \in Seq(Token), NEW n \in 0..Len(s)
  PROVE  SubSeq(s, 1, n) \o SubSeq(s, n + 1, Len(s)) = s
<1> DEFINE p == SubSeq(s, 1, n)
           q == SubSeq(s, n + 1, Len(s))
<1>0. Len(s) \in Nat /\ n \in Nat /\ n <= Len(s)
  BY LenProperties
<1>1. p \in Seq(Token) /\ Len(p) = n /\ \A i \in 1..n : p[i] = s[i]
  BY <1>0, PrefixType, PrefixElements
<1>2. /\ q \in Seq(Token) /\ Len(q) = Len(s) - n
      /\ \A i \in 1..(Len(s) - n) : q[i] = s[n + i]
  BY SuffixElements
<1> HIDE DEF p, q
<1>3. /\ p \o q \in Seq(Token) /\ Len(p \o q) = Len(s)
      /\ \A i \in 1..Len(s) : (p \o q)[i] = IF i <= n THEN p[i] ELSE q[i - n]
  <2>1. Len(p) + Len(q) = Len(s)
    BY <1>0, <1>1, <1>2
  <2> QED BY <1>1, <1>2, <2>1, ConcatProperties
<1>4. ASSUME NEW i \in 1..Len(s) PROVE (p \o q)[i] = s[i]
  <2>1. CASE i <= n
    BY <1>1, <1>3, <2>1
  <2>2. CASE ~(i <= n)
    <3>1. i - n \in 1..(Len(s) - n) /\ n + (i - n) = i
      BY <1>0, <2>2
    <3> QED BY <1>0, <1>2, <1>3, <2>2, <3>1
  <2> QED BY <2>1, <2>2
<1>5. p \o q = s
  BY <1>3, <1>4, SeqEqual
<1> QED BY <1>5 DEF p, q

(* What is left of a text grows with it.                                   *)
LEMMA SuffixGrows ==
  ASSUME NEW s \in Seq(Token), NEW t \in Seq(Token), NEW n \in 0..Len(s)
  PROVE  SubSeq(s \o t, n + 1, Len(s \o t)) = SubSeq(s, n + 1, Len(s)) \o t
<1> DEFINE w == s \o t
           q == SubSeq(s, n + 1, Len(s))
           z == SubSeq(w, n + 1, Len(w))
<1>0. /\ Len(s) \in Nat /\ Len(t) \in Nat /\ n \in Nat /\ n <= Len(s)
      /\ w \in Seq(Token) /\ Len(w) = Len(s) + Len(t)
      /\ \A i \in 1..Len(s) + Len(t) : w[i] = IF i <= Len(s) THEN s[i] ELSE t[i - Len(s)]
  BY LenProperties, ConcatProperties
<1> HIDE DEF w
<1>1. /\ q \in Seq(Token) /\ Len(q) = Len(s) - n
      /\ \A i \in 1..(Len(s) - n) : q[i] = s[n + i]
  BY SuffixElements
<1>2. /\ z \in Seq(Token) /\ Len(z) = Len(w) - n
      /\ \A i \in 1..(Len(w) - n) : z[i] = w[n + i]
  <2>1. n \in 0..Len(w)
    BY <1>0
  <2> QED BY <1>0, <2>1, SuffixElements
<1> HIDE DEF q, z
<1>3. /\ q \o t \in Seq(Token) /\ Len(q \o t) = Len(w) - n
      /\ \A i \in 1..(Len(w) - n) :
           (q \o t)[i] = IF i <= Len(s) - n THEN q[i] ELSE t[i - (Len(s) - n)]
  <2>1. Len(q) + Len(t) = Len(w) - n
    BY <1>0, <1>1
  <2> QED BY <1>1, <2>1, ConcatProperties
<1>4. ASSUME NEW i \in 1..(Len(w) - n) PROVE z[i] = (q \o t)[i]
  <2>1. n + i \in 1..Len(s) + Len(t) /\ (n + i) - Len(s) = i - (Len(s) - n)
    BY <1>0
  <2>2. CASE i <= Len(s) - n
    <3>1. i \in 1..(Len(s) - n) /\ n + i <= Len(s)
      BY <1>0, <2>2
    <3> QED BY <1>0, <1>1, <1>2, <1>3, <2>1, <2>2, <3>1
  <2>3. CASE ~(i <= Len(s) - n)
    <3>1. ~(n + i <= Len(s))
      BY <1>0, <2>3
    <3> QED BY <1>0, <1>2, <1>3, <2>1, <2>3, <3>1
  <2> QED BY <2>2, <2>3
<1>5. z = q \o t
  BY <1>2, <1>3, <1>4, SeqEqual
<1> QED BY <1>5 DEF w, q, z

(* A call that hands over a text leaves at most one token drawn, and from  *)
(* the model (Abstract!Ask).                                               *)
LEMMA FreshReply ==
  ASSUME NEW s \in Seq(Token), NEW nx,
         nx = <<>> \/ \E n \in Token : nx = <<n>> /\ n \in Target(s)
  PROVE  /\ SubSeq(s, 1, Len(s)) \in Seq(Token)
         /\ Len(SubSeq(s, Len(s) + 1, Len(s)) \o nx) <= 1
         /\ DrawnAfter(SubSeq(s, 1, Len(s)),
                               SubSeq(s, Len(s) + 1, Len(s)) \o nx)
<1>1. SubSeq(s, 1, Len(s)) = s
  BY SubSeqFull
<1>2. SubSeq(s, Len(s) + 1, Len(s)) = <<>>
  <2>1. Len(s) \in Int /\ Len(s) + 1 \in Int /\ Len(s) < Len(s) + 1
    BY LenProperties
  <2> QED BY <2>1, SubSeqEmpty
<1>3. nx \in Seq(Token) /\ Len(nx) <= 1
  <2>1. ASSUME NEW n \in Token PROVE <<n>> \in Seq(Token) /\ Len(<<n>>) <= 1
    OBVIOUS
  <2>2. <<>> \in Seq(Token) /\ Len(<<>>) <= 1
    OBVIOUS
  <2> QED BY <2>1, <2>2
<1>4. <<>> \o nx = nx
  BY <1>3, ConcatEmptySeq
<1>5. ASSUME NEW i \in 1..Len(nx) PROVE nx[i] \in Target(s \o SubSeq(nx, 1, i - 1))
  <2>1. i = 1 /\ i - 1 = 0
    BY <1>3
  <2>2. SubSeq(nx, 1, 0) = <<>> /\ s \o <<>> = s
    BY SubSeqEmpty, ConcatEmptySeq
  <2>3. nx[1] \in Target(s)
    BY <2>1
  <2> QED BY <2>1, <2>2, <2>3
<1>6. DrawnAfter(s, nx)
  BY <1>5 DEF DrawnAfter
<1> QED BY <1>1, <1>2, <1>3, <1>4, <1>6

(* A call that says tokens grows the reply by what the model allows        *)
(* (Abstract!Say).                                                         *)
LEMMA SaidReply ==
  ASSUME NEW s \in Seq(Token), NEW b \in 0..Len(s), NEW tok \in Token,
         NEW o, Good(o), o.ok, Draws(o, s, tok),
         DrawnAfter(SubSeq(s, 1, b), SubSeq(s, b + 1, Len(s)) \o <<tok>>)
  PROVE  LET p  == SubSeq(s, 1, b)
             r  == SubSeq(s, b + 1, Len(s)) \o <<tok>>
             w  == s \o o.said
             r2 == SubSeq(w, b + 1, Len(w)) \o o.next
         IN  /\ SubSeq(w, 1, b) = p /\ r /= <<>> /\ Len(r2) > Len(r)
             /\ SubSeq(r2, 1, Len(r)) = r /\ DrawnAfter(p, r2)
<1> DEFINE p == SubSeq(s, 1, b)
           q == SubSeq(s, b + 1, Len(s))
           one == <<tok>>
           w == s \o o.said
           said == o.said
<1>0. /\ Len(s) \in Nat /\ b \in Nat /\ b <= Len(s)
      /\ said \in Seq(Token) /\ Len(said) \in Nat /\ Len(said) >= 1 /\ said[1] = tok
  BY LenProperties DEF Good, Draws
<1>1. PICK n \in Token : o.next = <<n>> /\ n \in Target(w)
  BY DEF Draws
<1> DEFINE end == <<n>>
           u == said \o end
<1>2. /\ end \in Seq(Token) /\ Len(end) = 1 /\ end[1] = n
      /\ one \in Seq(Token) /\ Len(one) = 1
  OBVIOUS
<1> HIDE DEF end, one
<1>3. /\ u \in Seq(Token) /\ Len(u) = Len(said) + 1
      /\ \A i \in 1..Len(said) : u[i] = said[i]
      /\ u[Len(said) + 1] = n
  <2>1. /\ u \in Seq(Token) /\ Len(u) = Len(said) + Len(end)
        /\ \A i \in 1..Len(said) + Len(end) :
             u[i] = IF i <= Len(said) THEN said[i] ELSE end[i - Len(said)]
    <3> HIDE DEF said
    <3> QED BY <1>0, <1>2, ConcatProperties
  <2> HIDE DEF u, said
  <2> QED BY <2>1, <1>0, <1>2
<1>4. /\ p \in Seq(Token) /\ Len(p) = b
      /\ q \in Seq(Token) /\ Len(q) = Len(s) - b /\ p \o q = s
  BY <1>0, PrefixType, SuffixElements, Split
<1>5. SubSeq(w, 1, b) = p
  <2>1. CASE b = 0
    <3>1. SubSeq(w, 1, 0) = <<>> /\ SubSeq(s, 1, 0) = <<>>
      <4> HIDE DEF w
      <4> QED BY SubSeqEmpty
    <3> QED BY <2>1, <3>1
  <2>2. CASE b /= 0
    <3>1. b \in 1..(Len(s) + Len(said))
      BY <1>0, <2>2
    <3> HIDE DEF said
    <3>2. SubSeq(s \o said, 1, b) =
            IF b <= Len(s) THEN SubSeq(s, 1, b) ELSE s \o SubSeq(said, 1, b - Len(s))
      BY <3>1, <1>0, PrefixOfConcat
    <3> QED BY <3>2, <1>0 DEF said
  <2> QED BY <2>1, <2>2
<1>6. SubSeq(w, b + 1, Len(w)) \o end = q \o u
  <2>1. SubSeq(w, b + 1, Len(w)) = q \o said
    BY <1>0, SuffixGrows
  <2> HIDE DEF q, said
  <2>2. q \in Seq(Token) /\ said \in Seq(Token) /\ end \in Seq(Token)
    BY <1>0, <1>2, <1>4
  <2>3. (q \o said) \o end = q \o (said \o end)
    BY <2>2, ConcatAssociative
  <2> QED BY <2>1, <2>3
<1>7. ASSUME NEW k \in 2..Len(u) PROVE u[k] \in Target((p \o q) \o SubSeq(u, 1, k - 1))
  <2>1. k - 1 \in 1..(Len(said) + Len(end)) /\ k - 1 <= Len(said) /\ k \in Nat
    BY <1>0, <1>2, <1>3
  <2>2. SubSeq(u, 1, k - 1) = SubSeq(said, 1, k - 1)
    <3> HIDE DEF said
    <3>1. SubSeq(said \o end, 1, k - 1) =
            IF k - 1 <= Len(said) THEN SubSeq(said, 1, k - 1)
            ELSE said \o SubSeq(end, 1, k - 1 - Len(said))
      BY <2>1, <1>0, <1>2, PrefixOfConcat
    <3> QED BY <3>1, <2>1
  <2>3. CASE k <= Len(said)
    <3>1. k \in 2..Len(said) /\ k \in 1..Len(said)
      BY <1>0, <2>1, <2>3
    <3>2. said[k] \in Target(s \o SubSeq(said, 1, k - 1))
      BY <3>1 DEF Draws
    <3> QED BY <1>3, <1>4, <2>2, <3>1, <3>2
  <2>4. CASE ~(k <= Len(said))
    <3>1. k = Len(said) + 1 /\ k - 1 = Len(said)
      BY <1>0, <1>3, <2>1, <2>4
    <3>2. SubSeq(said, 1, Len(said)) = said
      BY <1>0, SubSeqFull
    <3> QED BY <1>1, <1>3, <1>4, <2>2, <3>1, <3>2
  <2> QED BY <2>3, <2>4
<1>8. u[1] = tok /\ Len(u) >= 1
  BY <1>0, <1>3
<1>9. /\ DrawnAfter(p, q \o u)
      /\ SubSeq(q \o u, 1, Len(q \o one)) = q \o one
  <2> HIDE DEF p, q, u
  <2>1. DrawnAfter(p, q \o <<u[1]>>)
    BY <1>8 DEF p, q
  <2> QED BY <1>3, <1>4, <1>7, <1>8, <2>1, ReplyGrows DEF one
<1>10. /\ q \o one /= <<>> /\ Len(q \o u) > Len(q \o one)
  <2> HIDE DEF q, u, said
  <2>1. Len(q \o one) = Len(q) + 1
    BY <1>2, <1>4, ConcatProperties
  <2>2. Len(q \o u) = Len(q) + Len(u)
    BY <1>3, <1>4, ConcatProperties
  <2>3. Len(q) \in Nat /\ Len(u) \in Nat /\ Len(u) > 1
    BY <1>0, <1>3, <1>4, LenProperties
  <2>4. q \o one /= <<>>
    <3>1. Len(<<>>) = 0
      OBVIOUS
    <3> QED BY <2>1, <2>3, <3>1
  <2> QED BY <2>1, <2>2, <2>3, <2>4
<1>11. SubSeq(w, b + 1, Len(w)) \o o.next = q \o u
  BY <1>1, <1>6 DEF end
<1> QED BY <1>5, <1>9, <1>10, <1>11 DEF one

----------------------------------------------------------------------------
(* How far the draft head is. *)

(* A chunk warms no more rows than it feeds.                               *)
LEMMA ChunkBehind ==
  ASSUME NEW r \in RunnerType, NEW unread \in Seq(Token), unread /= <<>>,
         Fits(r, Chunk(Len(unread))), r.mtpPos + Warms(unread) <= Cap,
         r.mtpPos <= r.pos
  PROVE  PrefillChunk(r, unread).mtpPos <= PrefillChunk(r, unread).pos
<1> DEFINE c == Chunk(Len(unread))
           m == Warms(unread)
           part == SubSeq(unread, 1, c)
           toks == SubSeq(unread, 2, m + 1)
           warm == ChunkWarmed(r, unread, m)
           h == Row(r, unread, Len(unread))
<1>0. /\ Len(unread) \in Nat /\ Len(unread) > 0 /\ c \in 1..Len(unread)
      /\ m \in Nat /\ m <= c /\ m <= Len(unread) - 1
      /\ r.mtpPos \in Nat /\ r.pos \in Nat
  BY EmptySeq, LenProperties, ChunkFacts, WarmsFacts, SizeAssumption DEF RunnerType
<1>1. warm \in RunnerType
  BY WarmsFacts, ChunkWarmedFacts
<1> HIDE DEF c, m
<1>2. Len(part) = c
  BY <1>0, PrefixType
<1>3. Len(toks) = m
  <2>1. m + 1 \in Nat /\ m + 1 <= Len(unread) /\ 2 \in Nat /\ 2 > 0
    BY <1>0
  <2>2. Len(toks) = IF 2 <= m + 1 THEN (m + 1) - 2 + 1 ELSE 0
    BY <2>1, SubSeqType
  <2> QED BY <2>2, <1>0
<1>4. warm.pos = r.pos + c /\ warm.mtpPos = r.mtpPos + m
  <2> HIDE DEF toks, part
  <2>1. warm = Warmed(Fed(r, part), [j \in 1..m |-> Row(r, part, j)], toks)
    BY DEF ChunkWarmed, c, part, toks
  <2>2. Fed(r, part).pos = r.pos + c /\ Fed(r, part).mtpPos = r.mtpPos
    BY <1>2 DEF Fed, RunnerType
  <2>3. /\ warm.pos = Fed(r, part).pos
        /\ warm.mtpPos = Fed(r, part).mtpPos + m
    <3>1. Fed(r, part) = [r EXCEPT !.pos = Fed(r, part).pos, !.delta = Fed(r, part).delta,
                                   !.kv = Fed(r, part).kv]
      BY DEF Fed, RunnerType
    <3> HIDE DEF warm
    <3> QED BY <2>1, <1>3, <3>1 DEF Warmed, RunnerType
  <2> QED BY <2>2, <2>3
<1>5. PrefillChunk(r, unread) \in {warm, [warm EXCEPT !.specH = h, !.x = h]}
  BY DEF PrefillChunk, m
<1> HIDE DEF warm, h
<1>6. /\ [warm EXCEPT !.specH = h, !.x = h].pos = warm.pos
      /\ [warm EXCEPT !.specH = h, !.x = h].mtpPos = warm.mtpPos
  BY <1>1 DEF RunnerType
<1>7. warm.mtpPos <= warm.pos
  BY <1>0, <1>4
<1> QED BY <1>5, <1>6, <1>7

(* Whatever warmed is one short of the model, so behind it.                *)
LEMMA WarmBehind ==
  ASSUME NEW s \in RunnerType, NEW p, NEW w, Warm(s, p, w)
  PROVE  s.mtpPos <= s.pos
BY SizeAssumption DEF Warm, RunnerType

----------------------------------------------------------------------------
(* A prefill, chunk by chunk. *)

(* A row of a part of a batch is the same row of the batch.                *)
LEMMA RowOfPart ==
  ASSUME NEW r, NEW toks \in Seq(Token), NEW c \in 0..Len(toks), NEW j \in 1..c
  PROVE  Row(r, SubSeq(toks, 1, c), j) = Row(r, toks, j)
BY PrefixOfPrefix DEF Row

(* What a chunk does to each field of the runner (prefill).                *)
LEMMA ChunkEffect ==
  ASSUME NEW r \in RunnerType, NEW unread \in Seq(Token), unread /= <<>>,
         Fits(r, Chunk(Len(unread))), r.mtpPos + Warms(unread) <= Cap,
         NEW c, c = Chunk(Len(unread)), NEW m, m = Warms(unread),
         NEW s, s = PrefillChunk(r, unread)
  PROVE  /\ s \in RunnerType
         /\ s.pos = r.pos + c /\ s.mtpPos = r.mtpPos + m
         /\ s.delta = Row(r, unread, c) /\ s.saved = r.saved
         /\ \A i \in 1..Cap : s.kv[i] =
              IF i \in (r.pos + 1)..(r.pos + c) THEN Row(r, unread, i - r.pos) ELSE r.kv[i]
         /\ \A i \in 1..Cap : s.head[i] =
              IF i \in (r.mtpPos + 1)..(r.mtpPos + m)
              THEN Pair(Row(r, unread, i - r.mtpPos), unread[i - r.mtpPos + 1])
              ELSE r.head[i]
         /\ c = Len(unread) => s.specH = Row(r, unread, c) /\ s.x = Row(r, unread, c)
         /\ c /= Len(unread) => s.specH = r.specH /\ s.x = r.x
<1> DEFINE part == SubSeq(unread, 1, c)
           toks == SubSeq(unread, 2, m + 1)
           hs   == [j \in 1..m |-> Row(r, part, j)]
           fed  == Fed(r, part)
           warm == ChunkWarmed(r, unread, m)
<1>0. /\ Len(unread) \in Nat /\ Len(unread) > 0 /\ c \in 1..Len(unread)
      /\ m \in Nat /\ m <= c /\ m <= Len(unread) - 1
      /\ r.mtpPos \in Nat /\ r.pos \in Nat /\ Cap \in Nat
  BY EmptySeq, LenProperties, ChunkFacts, WarmsFacts, SizeAssumption DEF RunnerType
<1>1. s \in RunnerType /\ warm \in RunnerType
  BY PrefillChunkFacts, WarmsFacts, ChunkWarmedFacts
<1>2. part \in Seq(Token) /\ Len(part) = c
  BY <1>0, PrefixType
<1>3. /\ Len(toks) = m
      /\ \A j \in 1..m : toks[j] = unread[j + 1]
  <2>1. \A i \in 2..(m + 1) : i \in 1..Len(unread)
    BY <1>0
  <2>2. \A i \in 2..(m + 1) : unread[i] \in Token
    BY <2>1, ElementOfSeq
  <2>3. 2 \in Int /\ m + 1 \in Int
    BY <1>0
  <2>4. /\ Len(toks) = IF 2 <= m + 1 THEN (m + 1) - 2 + 1 ELSE 0
        /\ \A i \in 1..((m + 1) - 2 + 1) : toks[i] = unread[2 + i - 1]
    BY <2>2, <2>3, SubSeqProperties
  <2>5. \A j \in 1..m : j \in 1..((m + 1) - 2 + 1) /\ 2 + j - 1 = j + 1
    BY <1>0
  <2> HIDE DEF toks
  <2>6. Len(toks) = m
    BY <2>4, <1>0
  <2> QED BY <2>4, <2>5, <2>6
<1>4. \A j \in 1..c : Row(r, part, j) = Row(r, unread, j)
  BY <1>0, RowOfPart
<1>5. /\ fed.pos = r.pos + c /\ fed.mtpPos = r.mtpPos /\ fed.head = r.head
      /\ fed.delta = Row(r, unread, c) /\ fed.saved = r.saved
      /\ fed.specH = r.specH /\ fed.x = r.x
      /\ fed.kv = [i \in 1..Cap |-> IF i \in (r.pos + 1)..(r.pos + c)
                                     THEN Row(r, part, i - r.pos) ELSE r.kv[i]]
  <2>1. Row(r, part, c) = Row(r, unread, c)
    BY <1>0, <1>4
  <2> HIDE DEF part
  <2> QED BY <1>2, <2>1 DEF Fed, RunnerType
<1>6. \A i \in 1..Cap : fed.kv[i] =
        IF i \in (r.pos + 1)..(r.pos + c) THEN Row(r, unread, i - r.pos) ELSE r.kv[i]
  <2>1. ASSUME NEW i \in 1..Cap, i \in (r.pos + 1)..(r.pos + c)
        PROVE  Row(r, part, i - r.pos) = Row(r, unread, i - r.pos)
    <3>1. i - r.pos \in 1..c
      BY <1>0, <2>1
    <3> QED BY <3>1, <1>4
  <2> HIDE DEF fed, part
  <2> QED BY <2>1, <1>5
<1>7. warm = Warmed(fed, hs, toks)
  BY DEF ChunkWarmed
<1> HIDE DEF toks, fed, warm
<1>8. /\ warm.pos = fed.pos /\ warm.mtpPos = r.mtpPos + m /\ warm.delta = fed.delta
      /\ warm.kv = fed.kv /\ warm.saved = fed.saved /\ warm.specH = fed.specH
      /\ warm.x = fed.x
      /\ warm.head = [i \in 1..Cap |->
           IF i \in (r.mtpPos + 1)..(r.mtpPos + m)
           THEN Pair(hs[i - r.mtpPos], toks[i - r.mtpPos]) ELSE r.head[i]]
  <2>1. fed \in RunnerType
    <3>1. r.pos + Len(part) <= Cap
      BY <1>2 DEF Fits
    <3> HIDE DEF part
    <3> QED BY <1>2, <3>1, FedType DEF fed
  <2> HIDE DEF hs
  <2> QED BY <2>1, <1>3, <1>5, <1>7 DEF Warmed, RunnerType
<1>9. \A i \in 1..Cap : warm.head[i] =
        IF i \in (r.mtpPos + 1)..(r.mtpPos + m)
        THEN Pair(Row(r, unread, i - r.mtpPos), unread[i - r.mtpPos + 1])
        ELSE r.head[i]
  <2>1. ASSUME NEW i \in 1..Cap, i \in (r.mtpPos + 1)..(r.mtpPos + m)
        PROVE  /\ hs[i - r.mtpPos] = Row(r, unread, i - r.mtpPos)
               /\ toks[i - r.mtpPos] = unread[i - r.mtpPos + 1]
    <3>1. i - r.mtpPos \in 1..m /\ i - r.mtpPos \in 1..c
      BY <1>0, <2>1
    <3> HIDE DEF part
    <3> QED BY <3>1, <1>3, <1>4
  <2> HIDE DEF hs
  <2> QED BY <2>1, <1>8
<1> DEFINE h == Row(r, unread, Len(unread))
<1> HIDE DEF hs, part
<1>10. s = IF c = Len(unread) THEN [warm EXCEPT !.specH = h, !.x = h] ELSE warm
  BY DEF PrefillChunk, warm
<1> HIDE DEF h
<1>11. CASE c = Len(unread)
  <2>1. /\ s.pos = warm.pos /\ s.mtpPos = warm.mtpPos /\ s.delta = warm.delta
        /\ s.kv = warm.kv /\ s.head = warm.head /\ s.saved = warm.saved
        /\ s.specH = h /\ s.x = h
    BY <1>1, <1>10, <1>11 DEF RunnerType
  <2> QED BY <2>1, <1>1, <1>5, <1>6, <1>8, <1>9, <1>11 DEF h
<1>12. CASE c /= Len(unread)
  <2>1. s = warm
    BY <1>10, <1>12
  <2> QED BY <2>1, <1>1, <1>5, <1>6, <1>8, <1>9, <1>12
<1> QED BY <1>11, <1>12

(* s has r's attention cache, and behind it that of n tokens fed.          *)
CacheOf(r, toks, n, s) ==
  \A i \in 1..Cap : s.kv[i] =
    IF i \in (r.pos + 1)..(r.pos + n) THEN Row(r, toks, i - r.pos) ELSE r.kv[i]

(* s has r's draft head's cache, and behind it that of n rows.             *)
HeadOf(r, toks, n, s) ==
  \A i \in 1..Cap : s.head[i] =
    IF i \in (r.mtpPos + 1)..(r.mtpPos + n)
    THEN Pair(Row(r, toks, i - r.mtpPos), toks[i - r.mtpPos + 1]) ELSE r.head[i]

(* What a prefill of a whole text amounts to, field by field (prefill).    *)
LEMMA PrefilledEffect ==
  ASSUME NEW r \in RunnerType, NEW toks \in Seq(Token), toks /= <<>>,
         r.pos + Len(toks) <= Cap, r.mtpPos + Len(toks) <= Cap,
         NEW n, n = Len(toks), NEW m, m = IF HasMtp THEN n - 1 ELSE 0,
         NEW s, s = Prefilled(r, toks)
  PROVE  /\ s \in RunnerType
         /\ s.pos = r.pos + n /\ s.mtpPos = r.mtpPos + m
         /\ s.delta = Row(r, toks, n) /\ s.saved = r.saved
         /\ s.specH = Row(r, toks, n) /\ s.x = Row(r, toks, n)
         /\ CacheOf(r, toks, n, s) /\ HeadOf(r, toks, m, s)
<1> DEFINE hs   == [j \in 1..(n - 1) |-> Row(r, toks, j)]
           tail == SubSeq(toks, 2, n)
           fed  == Fed(r, toks)
           warm == IF HasMtp THEN Warmed(fed, hs, tail) ELSE fed
           h    == Row(r, toks, n)
<1>0. /\ n \in Nat /\ n >= 1 /\ m \in Nat /\ (HasMtp => m = n - 1) /\ (~HasMtp => m = 0)
      /\ r.mtpPos \in Nat /\ r.pos \in Nat /\ Cap \in Nat
      /\ r.pos + n <= Cap /\ r.mtpPos + m <= Cap
  <2>1. n \in Nat /\ n /= 0
    BY EmptySeq, LenProperties
  <2>2. r.mtpPos \in Nat /\ r.pos \in Nat /\ Cap \in Nat
    BY SizeAssumption DEF RunnerType
  <2> QED BY <2>1, <2>2
<1>1. fed \in RunnerType /\ h \in Seq(Token)
  BY <1>0, FedType, RowType
<1>2. /\ tail \in Seq(Token) /\ Len(tail) = n - 1
      /\ \A j \in 1..(n - 1) : tail[j] = toks[j + 1]
  <2>1. \A i \in 2..n : i \in 1..Len(toks)
    BY <1>0
  <2>2. \A i \in 2..n : toks[i] \in Token
    BY <2>1, ElementOfSeq
  <2>3. 2 \in Int /\ n \in Int
    BY <1>0
  <2>4. /\ tail \in Seq(Token) /\ Len(tail) = IF 2 <= n THEN n - 2 + 1 ELSE 0
        /\ \A i \in 1..(n - 2 + 1) : tail[i] = toks[2 + i - 1]
    BY <2>2, <2>3, SubSeqProperties
  <2>5. \A j \in 1..(n - 1) : j \in 1..(n - 2 + 1) /\ 2 + j - 1 = j + 1
    BY <1>0
  <2> HIDE DEF tail
  <2>6. Len(tail) = n - 1
    BY <2>4, <1>0
  <2> QED BY <2>4, <2>5, <2>6
<1>3. \A j \in 1..Len(tail) : hs[j] = Row(r, toks, j) /\ hs[j] \in Seq(Token)
  <2> SUFFICES ASSUME NEW j \in 1..Len(tail)
               PROVE  hs[j] = Row(r, toks, j) /\ hs[j] \in Seq(Token)
    OBVIOUS
  <2>1. j \in 1..(n - 1) /\ j \in Nat /\ j <= n
    BY <1>0, <1>2
  <2>2. Row(r, toks, j) \in Seq(Token)
    BY <2>1, RowType
  <2> QED BY <2>1, <2>2
<1>4. /\ fed.pos = r.pos + n /\ fed.mtpPos = r.mtpPos /\ fed.head = r.head
      /\ fed.delta = Row(r, toks, n) /\ fed.saved = r.saved
      /\ \A i \in 1..Cap : fed.kv[i] =
           IF i \in (r.pos + 1)..(r.pos + n) THEN Row(r, toks, i - r.pos) ELSE r.kv[i]
  BY DEF Fed, RunnerType
<1> HIDE DEF fed, hs, tail, h
<1>5. /\ warm \in RunnerType /\ warm.mtpPos = r.mtpPos + m
      /\ warm.pos = fed.pos /\ warm.delta = fed.delta /\ warm.kv = fed.kv
      /\ warm.saved = fed.saved
      /\ \A i \in 1..Cap : warm.head[i] =
           IF i \in (r.mtpPos + 1)..(r.mtpPos + m)
           THEN Pair(Row(r, toks, i - r.mtpPos), toks[i - r.mtpPos + 1])
           ELSE r.head[i]
  <2>1. CASE HasMtp
    <3> DEFINE w == Warmed(fed, hs, tail)
    <3>1. w \in RunnerType
      <4>1. fed.mtpPos + Len(tail) <= Cap
        BY <1>0, <1>2, <1>4, <2>1
      <4> QED BY <4>1, <1>1, <1>2, <1>3, WarmedType
    <3>2. /\ w.mtpPos = r.mtpPos + (n - 1)
          /\ w.pos = fed.pos /\ w.delta = fed.delta /\ w.kv = fed.kv
          /\ w.saved = fed.saved
          /\ w.head = [i \in 1..Cap |->
               IF i \in (r.mtpPos + 1)..(r.mtpPos + (n - 1))
               THEN Pair(hs[i - r.mtpPos], tail[i - r.mtpPos]) ELSE r.head[i]]
      BY <1>1, <1>2, <1>4 DEF Warmed, RunnerType
    <3>3. ASSUME NEW i \in 1..Cap, i \in (r.mtpPos + 1)..(r.mtpPos + m)
          PROVE  /\ hs[i - r.mtpPos] = Row(r, toks, i - r.mtpPos)
                 /\ tail[i - r.mtpPos] = toks[i - r.mtpPos + 1]
      <4>1. i - r.mtpPos \in 1..Len(tail) /\ i - r.mtpPos \in 1..(n - 1)
        BY <1>0, <1>2, <2>1, <3>3
      <4> QED BY <4>1, <1>2, <1>3
    <3>4. warm = w /\ m = n - 1
      BY <2>1, <1>0
    <3> HIDE DEF w, warm
    <3> QED BY <3>1, <3>2, <3>3, <3>4
  <2>2. CASE ~HasMtp
    <3>1. warm = fed /\ m = 0
      BY <2>2, <1>0
    <3>2. \A i \in 1..Cap : i \notin (r.mtpPos + 1)..(r.mtpPos + m)
      BY <3>1, <1>0
    <3> HIDE DEF warm
    <3> QED BY <3>1, <3>2, <1>0, <1>1, <1>4
  <2> QED BY <2>1, <2>2
<1>6. s = [warm EXCEPT !.specH = h, !.x = h]
  BY DEF Prefilled, fed, hs, tail, h
<1> HIDE DEF warm
<1>7. /\ s \in RunnerType /\ s.specH = h /\ s.x = h
      /\ s.pos = warm.pos /\ s.mtpPos = warm.mtpPos /\ s.delta = warm.delta
      /\ s.kv = warm.kv /\ s.head = warm.head /\ s.saved = warm.saved
  BY <1>1, <1>5, <1>6 DEF RunnerType
<1> QED BY <1>4, <1>5, <1>7 DEF h, CacheOf, HeadOf

(* Once part of a batch is fed, the rows of the rest are the batch's.      *)
LEMMA RowsGoOn ==
  ASSUME NEW r \in RunnerType, NEW toks \in Seq(Token), NEW c \in 1..Len(toks),
         r.pos + Len(toks) <= Cap,
         NEW s \in RunnerType, s.pos = r.pos + c, s.delta = Row(r, toks, c),
         CacheOf(r, toks, c, s)
  PROVE  \A j \in 1..(Len(toks) - c) :
           Row(s, SubSeq(toks, c + 1, Len(toks)), j) = Row(r, toks, c + j)
<1> DEFINE t == r.delta
           head == SubSeq(toks, 1, c)
           rest == SubSeq(toks, c + 1, Len(toks))
<1>0. /\ Len(toks) \in Nat /\ c \in Nat /\ c >= 1 /\ c <= Len(toks)
      /\ r.pos \in Nat /\ Cap \in Nat /\ t \in Seq(Token) /\ Len(t) \in Nat
  BY LenProperties, SizeAssumption DEF RunnerType
<1>1. CASE Sound(r)
  <2>1. r.pos = Len(t) /\ \A i \in 1..r.pos : r.kv[i] = SubSeq(t, 1, i)
    BY <1>1 DEF Sound
  <2>2. \A j \in Nat : Row(r, toks, j) = t \o SubSeq(toks, 1, j)
    BY <1>1 DEF Row
  <2>3. head \in Seq(Token) /\ Len(head) = c
    BY <1>0, PrefixType
  <2>4. /\ rest \in Seq(Token) /\ Len(rest) = Len(toks) - c /\ head \o rest = toks
    <3>1. c \in 0..Len(toks)
      BY <1>0
    <3>2. rest \in Seq(Token) /\ Len(rest) = Len(toks) - c
      BY <3>1, SuffixElements
    <3>3. head \o rest = toks
      BY <3>1, Split
    <3> QED BY <3>2, <3>3
  <2> HIDE DEF rest
  <2>5. s.delta = t \o head /\ Len(t \o head) = r.pos + c /\ t \o head \in Seq(Token)
    <3>1. s.delta = t \o head
      BY <2>2, <1>0
    <3> HIDE DEF head
    <3>2. t \in Seq(Token) /\ head \in Seq(Token)
      BY <1>0, <2>3
    <3>3. t \o head \in Seq(Token) /\ Len(t \o head) = Len(t) + Len(head)
      <4> HIDE DEF t
      <4> QED BY <3>2, ConcatProperties
    <3> QED BY <3>1, <3>3, <2>1, <2>3
  <2>6. ASSUME NEW i \in 1..s.pos PROVE s.kv[i] = SubSeq(s.delta, 1, i)
    <3>1. i \in 1..Cap /\ i \in 1..(Len(t) + Len(head)) /\ i \in 1..(r.pos + c)
      BY <1>0, <2>1, <2>3
    <3>2. SubSeq(t \o head, 1, i)
            = IF i <= Len(t) THEN SubSeq(t, 1, i) ELSE t \o SubSeq(head, 1, i - Len(t))
      BY <3>1, <2>3, <1>0, PrefixOfConcat
    <3>3. CASE i <= r.pos
      <4>1. i \notin (r.pos + 1)..(r.pos + c) /\ i \in 1..r.pos
        BY <3>3, <1>0
      <4>2. s.kv[i] = r.kv[i]
        BY <4>1, <3>1 DEF CacheOf
      <4> QED BY <4>1, <4>2, <3>2, <3>3, <2>1, <2>5
    <3>4. CASE ~(i <= r.pos)
      <4>1. /\ i \in (r.pos + 1)..(r.pos + c) /\ i - r.pos \in 1..c
            /\ i - r.pos \in Nat /\ c \in 0..Len(toks)
        BY <3>1, <3>4, <1>0
      <4>2. s.kv[i] = t \o SubSeq(toks, 1, i - r.pos)
        <5>1. s.kv[i] = Row(r, toks, i - r.pos)
          BY <4>1, <3>1 DEF CacheOf
        <5> QED BY <5>1, <4>1, <2>2
      <4>3. SubSeq(head, 1, i - r.pos) = SubSeq(toks, 1, i - r.pos)
        BY <4>1, PrefixOfPrefix
      <4> HIDE DEF head
      <4> QED BY <4>2, <4>3, <3>2, <3>4, <2>1, <2>5
    <3> QED BY <3>3, <3>4
  <2>7. Sound(s)
    BY <2>5, <2>6 DEF Sound
  <2>8. ASSUME NEW j \in 1..(Len(toks) - c)
        PROVE  Row(s, rest, j) = Row(r, toks, c + j)
    <3>1. j \in 0..Len(rest) /\ c + j \in Nat /\ j \in Nat /\ j <= Len(rest)
      BY <1>0, <2>4
    <3>2. SubSeq(toks, 1, c + j) = head \o SubSeq(rest, 1, j)
      <4>1. SubSeq(head \o rest, 1, Len(head) + j) = head \o SubSeq(rest, 1, j)
        BY <3>1, <2>3, <2>4, ConcatPrefix
      <4> QED BY <4>1, <2>3, <2>4
    <3>3. Row(s, rest, j) = (t \o head) \o SubSeq(rest, 1, j)
      BY <2>5, <2>7 DEF Row
    <3>4. SubSeq(rest, 1, j) \in Seq(Token)
      BY <3>1, <2>4, PrefixType
    <3>5. (t \o head) \o SubSeq(rest, 1, j) = t \o (head \o SubSeq(rest, 1, j))
      <4> DEFINE q == SubSeq(rest, 1, j)
      <4>1. q \in Seq(Token) /\ t \in Seq(Token) /\ head \in Seq(Token)
        BY <1>0, <2>3, <3>4
      <4> HIDE DEF q, t, head
      <4>2. (t \o head) \o q = t \o (head \o q)
        BY <4>1, ThreeTexts
      <4> QED BY <4>2 DEF q
    <3> HIDE DEF head
    <3> QED BY <3>1, <3>2, <3>3, <3>5, <2>2
  <2> QED BY <2>8 DEF rest
<1>2. CASE ~Sound(r)
  <2>1. s.delta = <<>> /\ s.pos > 0
    BY <1>2, <1>0 DEF Row, Junk
  <2>2. ~Sound(s)
    BY <2>1, EmptySeq DEF Sound
  <2> QED BY <1>2, <2>2 DEF Row
<1> QED BY <1>1, <1>2

(* A chunk always is a batch that can be fed.                              *)
LEMMA ChunkFits ==
  ASSUME NEW left \in Nat, left > 0
  PROVE  Chunk(left) \in 1..Most
<1>1. Chunk(left) \in 1..left
  BY ChunkFacts
<1>2. CASE \E g \in GemmSizes : g <= left
  <2> DEFINE S == { g \in GemmSizes : g <= left }
  <2>1. \A g \in GemmSizes : g \in 1..PrefillMax /\ g \in Nat
    BY SizeAssumption
  <2>2. S \in SUBSET (0..left) /\ S /= {}
    BY <1>2, <2>1
  <2>3. \E x \in S : \A y \in S : y <= x
    <3> HIDE DEF S
    <3> QED BY <2>2, GreatestExists
  <2>4. \E g \in GemmSizes : g <= left /\ \A f \in GemmSizes : f <= left => f <= g
    BY <2>3
  <2>5. Chunk(left) \in GemmSizes
    BY <1>2, <2>4 DEF Chunk
  <2> QED BY <1>1, <1>2, <2>1, <2>5 DEF Most
<1>3. CASE ~(\E g \in GemmSizes : g <= left)
  <2>1. Chunk(left) = Min2(left, MaxBatch)
    BY <1>3 DEF Chunk
  <2> QED BY <1>1, <2>1, SizeAssumption DEF Most, Min2
<1> QED BY <1>2, <1>3

(* Runners whose fields agree are the same.                                *)
LEMMA SameRunner ==
  ASSUME NEW r \in RunnerType, NEW s \in RunnerType,
         r.pos = s.pos, r.delta = s.delta, r.mtpPos = s.mtpPos, r.specH = s.specH,
         r.x = s.x, r.saved = s.saved,
         \A i \in 1..Cap : r.kv[i] = s.kv[i], \A i \in 1..Cap : r.head[i] = s.head[i]
  PROVE  r = s
<1>1. /\ r.kv \in [1..Cap -> Seq(Token)] /\ s.kv \in [1..Cap -> Seq(Token)]
      /\ r.head \in [1..Cap -> Seq(Token)] /\ s.head \in [1..Cap -> Seq(Token)]
  BY DEF RunnerType
<1>2. r.kv = s.kv
  <2>1. r.kv = [i \in 1..Cap |-> r.kv[i]] /\ s.kv = [i \in 1..Cap |-> s.kv[i]]
    BY <1>1
  <2>2. [i \in 1..Cap |-> r.kv[i]] = [i \in 1..Cap |-> s.kv[i]]
    OBVIOUS
  <2> QED BY <2>1, <2>2, Zenon
<1>3. r.head = s.head
  <2>1. r.head = [i \in 1..Cap |-> r.head[i]] /\ s.head = [i \in 1..Cap |-> s.head[i]]
    BY <1>1
  <2>2. [i \in 1..Cap |-> r.head[i]] = [i \in 1..Cap |-> s.head[i]]
    OBVIOUS
  <2> QED BY <2>1, <2>2, Zenon
<1>4. /\ r = [pos |-> r.pos, delta |-> r.delta, kv |-> r.kv, mtpPos |-> r.mtpPos,
              head |-> r.head, specH |-> r.specH, x |-> r.x, saved |-> r.saved]
      /\ s = [pos |-> s.pos, delta |-> s.delta, kv |-> s.kv, mtpPos |-> s.mtpPos,
              head |-> s.head, specH |-> s.specH, x |-> s.x, saved |-> s.saved]
  BY DEF RunnerType
<1> QED BY <1>2, <1>3, <1>4

(* n tokens of toks were read from r, and s is where that led.             *)
ReadSoFar(r, toks, n, s) ==
  /\ s \in RunnerType
  /\ s.pos = r.pos + n /\ s.mtpPos = r.mtpPos + (IF HasMtp THEN n ELSE 0)
  /\ s.saved = r.saved /\ s.specH = r.specH /\ s.x = r.x
  /\ \A i \in 1..Cap : s.kv[i] =
       IF i \in (r.pos + 1)..(r.pos + n) THEN Row(r, toks, i - r.pos) ELSE r.kv[i]
  /\ \A i \in 1..Cap : s.head[i] =
       IF HasMtp /\ i \in (r.mtpPos + 1)..(r.mtpPos + n)
       THEN Pair(Row(r, toks, i - r.mtpPos), toks[i - r.mtpPos + 1]) ELSE r.head[i]
  /\ \A j \in 1..(Len(toks) - n) :
       Row(s, SubSeq(toks, n + 1, Len(toks)), j) = Row(r, toks, n + j)

(* There, with rest still to be read, the chunk of c tokens leads to q.    *)
ChunkThere(r, toks, n, s, rest, c, q) ==
  /\ n < Len(toks) /\ r.pos + Len(toks) <= Cap /\ r.mtpPos + Len(toks) <= Cap
  /\ ReadSoFar(r, toks, n, s) /\ rest = SubSeq(toks, n + 1, Len(toks))
  /\ c = Chunk(Len(rest)) /\ q = PrefillChunk(s, rest)

(* Another chunk leads further, or, when it is the last, to what one pass  *)
(* over the whole would have left (prefill's loop).                        *)
LEMMA ReadOneChunk ==
  ASSUME NEW r \in RunnerType, NEW toks \in Seq(Token), NEW n \in Nat, NEW s,
         NEW rest, NEW c \in Nat, NEW q, ChunkThere(r, toks, n, s, rest, c, q)
  PROVE  /\ rest \in Seq(Token) /\ c \in 1..(Len(toks) - n)
         /\ SubSeq(rest, c + 1, Len(rest)) = SubSeq(toks, n + c + 1, Len(toks))
         /\ n + c < Len(toks) => ReadSoFar(r, toks, n + c, q)
         /\ n + c = Len(toks) => q = Prefilled(r, toks)
<1>0. /\ n < Len(toks) /\ r.pos + Len(toks) <= Cap /\ r.mtpPos + Len(toks) <= Cap
      /\ ReadSoFar(r, toks, n, s) /\ rest = SubSeq(toks, n + 1, Len(toks))
      /\ c = Chunk(Len(rest)) /\ q = PrefillChunk(s, rest)
  BY DEF ChunkThere
<1>1. PICK L \in Nat, P \in Nat, M \in Nat, C \in Nat :
        /\ L = Len(toks) /\ P = r.pos /\ M = r.mtpPos /\ C = Cap
        /\ n < L /\ P + L <= C /\ M + L <= C /\ n \in 0..Len(toks) /\ toks /= <<>>
  BY <1>0, LenProperties, EmptySeq, SizeAssumption DEF RunnerType
<1>2. /\ rest \in Seq(Token) /\ Len(rest) = L - n /\ rest /= <<>>
      /\ \A i \in 1..(L - n) : rest[i] = toks[n + i]
  <2>1. /\ rest \in Seq(Token) /\ Len(rest) = L - n
        /\ \A i \in 1..(L - n) : rest[i] = toks[n + i]
    BY <1>0, <1>1, SuffixElements
  <2>2. L - n /= 0
    BY <1>1
  <2>3. rest /= <<>>
    BY <2>1, <2>2, EmptySeq
  <2> QED BY <2>1, <2>3
<1>3. c \in 1..(L - n) /\ c \in 1..Most
  BY <1>0, <1>1, <1>2, ChunkFacts, ChunkFits
<1>4. PICK S \in Nat, T \in Nat, m \in Nat :
        /\ S = s.pos /\ T = s.mtpPos /\ m = Warms(rest) /\ S = P + n
        /\ HasMtp => /\ T = M + n
                     /\ n + c < L => m = c
                     /\ n + c = L => m = c - 1
        /\ ~HasMtp => T = M /\ m = 0
  <2>1. s.pos = P + n /\ s.mtpPos = M + (IF HasMtp THEN n ELSE 0)
    BY <1>0, <1>1 DEF ReadSoFar
  <2>2. Warms(rest) = IF HasMtp THEN (IF n + c < L THEN c ELSE c - 1) ELSE 0
    BY <1>0, <1>1, <1>2, <1>3 DEF Warms, Min2
  <2>3. CASE HasMtp
    <3>1. s.mtpPos = M + n /\ Warms(rest) = IF n + c < L THEN c ELSE c - 1
      BY <2>1, <2>2, <2>3
    <3>2. /\ P + n \in Nat /\ M + n \in Nat /\ c \in Nat /\ c - 1 \in Nat
          /\ ~(n + c < L /\ n + c = L)
      BY <1>3
    <3>3. Warms(rest) \in Nat
      BY <3>1, <3>2
    <3>4. (n + c < L => Warms(rest) = c) /\ (n + c = L => Warms(rest) = c - 1)
      BY <3>1, <3>2
    <3> QED BY <2>1, <2>3, <3>1, <3>2, <3>3, <3>4
  <2>4. CASE ~HasMtp
    <3>1. s.mtpPos = M /\ Warms(rest) = 0
      BY <2>1, <2>2, <2>4
    <3> QED BY <2>1, <2>4, <3>1
  <2> QED BY <2>3, <2>4
<1>5. s \in RunnerType /\ \A j \in 1..(L - n) : Row(s, rest, j) = Row(r, toks, n + j)
  BY <1>0, <1>1 DEF ReadSoFar
<1>6. Fits(s, Chunk(Len(rest))) /\ s.mtpPos + Warms(rest) <= Cap
  <2>1. S + c <= C
    BY <1>1, <1>3, <1>4
  <2>2. T + m <= C
    <3>1. CASE HasMtp
      <4>1. T = M + n /\ (n + c < L => m = c) /\ (n + c = L => m = c - 1)
        BY <3>1, <1>4
      <4>2. n + c < L \/ n + c = L
        BY <1>3
      <4>3. m <= c
        BY <4>1, <4>2
      <4> QED BY <4>1, <4>3, <1>1, <1>3
    <3>2. CASE ~HasMtp
      <4>1. T = M /\ m = 0
        BY <3>2, <1>4
      <4> QED BY <4>1, <1>1
    <3> QED BY <3>1, <3>2
  <2> QED BY <2>1, <2>2, <1>0, <1>1, <1>3, <1>4 DEF Fits
<1>7. /\ q \in RunnerType /\ q.pos = S + c /\ q.mtpPos = T + m
      /\ q.delta = Row(s, rest, c) /\ q.saved = s.saved
      /\ \A i \in 1..Cap : q.kv[i] =
           IF i \in (S + 1)..(S + c) THEN Row(s, rest, i - S) ELSE s.kv[i]
      /\ \A i \in 1..Cap : q.head[i] =
           IF i \in (T + 1)..(T + m)
           THEN Pair(Row(s, rest, i - T), rest[i - T + 1]) ELSE s.head[i]
      /\ c = Len(rest) => q.specH = Row(s, rest, c) /\ q.x = Row(s, rest, c)
      /\ c /= Len(rest) => q.specH = s.specH /\ q.x = s.x
  <2>1. /\ q \in RunnerType
        /\ q.pos = s.pos + c /\ q.mtpPos = s.mtpPos + Warms(rest)
        /\ q.delta = Row(s, rest, c) /\ q.saved = s.saved
        /\ \A i \in 1..Cap : q.kv[i] =
             IF i \in (s.pos + 1)..(s.pos + c) THEN Row(s, rest, i - s.pos) ELSE s.kv[i]
        /\ \A i \in 1..Cap : q.head[i] =
             IF i \in (s.mtpPos + 1)..(s.mtpPos + Warms(rest))
             THEN Pair(Row(s, rest, i - s.mtpPos), rest[i - s.mtpPos + 1]) ELSE s.head[i]
        /\ c = Len(rest) => q.specH = Row(s, rest, c) /\ q.x = Row(s, rest, c)
        /\ c /= Len(rest) => q.specH = s.specH /\ q.x = s.x
    <3>1. s \in RunnerType /\ rest \in Seq(Token) /\ rest /= <<>>
      BY <1>2, <1>5
    <3>2. s.mtpPos + Warms(rest) <= Cap /\ Fits(s, Chunk(Len(rest)))
      BY <1>6
    <3>3. Warms(rest) = Warms(rest) /\ c = Chunk(Len(rest)) /\ q = PrefillChunk(s, rest)
      BY <1>0
    <3> QED BY <3>1, <3>2, <3>3, ChunkEffect
  <2> QED BY <2>1, <1>4
<1>8. SubSeq(rest, c + 1, Len(rest)) = SubSeq(toks, n + c + 1, L)
  <2>1. CASE c = L - n
    <3>1. /\ c + 1 \in Int /\ L - n \in Int /\ L - n < c + 1
          /\ n + c + 1 \in Int /\ L \in Int /\ L < n + c + 1
      BY <2>1
    <3>2. SubSeq(rest, c + 1, L - n) = <<>> /\ SubSeq(toks, n + c + 1, L) = <<>>
      BY <3>1, SubSeqEmpty
    <3> QED BY <3>2, <1>2
  <2>2. CASE c /= L - n
    <3>1. /\ n + 1 \in 1..L /\ L \in 1..L
          /\ c + 1 \in 1..(L - (n + 1) + 1) /\ L - n \in 1..(L - (n + 1) + 1)
          /\ (n + 1) + (c + 1) - 1 = n + c + 1 /\ (n + 1) + (L - n) - 1 = L
      BY <2>2, <1>1, <1>3
    <3>2. n + 1 \in 1..Len(toks) /\ L \in 1..Len(toks) /\ toks \in Seq(Token)
      BY <3>1, <1>1
    <3>3. SubSeq(SubSeq(toks, n + 1, L), c + 1, L - n)
            = SubSeq(toks, (n + 1) + (c + 1) - 1, (n + 1) + (L - n) - 1)
      BY <3>1, <3>2, SubSeqOfSubSeq
    <3> QED BY <3>1, <3>3, <1>1, <1>2
  <2> QED BY <2>1, <2>2
<1>9. \A i \in 1..Cap : q.kv[i] =
        IF i \in (P + 1)..(P + (n + c)) THEN Row(r, toks, i - P) ELSE r.kv[i]
  <2> SUFFICES ASSUME NEW i \in 1..Cap
               PROVE  q.kv[i] = IF i \in (P + 1)..(P + (n + c))
                                THEN Row(r, toks, i - P) ELSE r.kv[i]
    OBVIOUS
  <2>1. s.kv[i] = IF i \in (P + 1)..(P + n) THEN Row(r, toks, i - P) ELSE r.kv[i]
    BY <1>0, <1>1 DEF ReadSoFar
  <2>2. i \in Nat
    BY <1>1
  <2>3. CASE i \in (S + 1)..(S + c)
    <3>1. /\ i - S \in 1..(L - n) /\ n + (i - S) = i - P
          /\ i \in (P + 1)..(P + (n + c))
      BY <2>2, <2>3, <1>3, <1>4
    <3> QED BY <2>3, <3>1, <1>5, <1>7
  <2>4. CASE i \notin (S + 1)..(S + c)
    <3>1. i \in (P + 1)..(P + (n + c)) <=> i \in (P + 1)..(P + n)
      BY <2>2, <2>4, <1>4
    <3> QED BY <2>1, <2>4, <3>1, <1>7
  <2> QED BY <2>3, <2>4
<1>10. \A i \in 1..Cap : q.head[i] =
         IF HasMtp /\ i \in (M + 1)..(M + (n + m))
         THEN Pair(Row(r, toks, i - M), toks[i - M + 1]) ELSE r.head[i]
  <2> SUFFICES ASSUME NEW i \in 1..Cap
               PROVE  q.head[i] = IF HasMtp /\ i \in (M + 1)..(M + (n + m))
                                  THEN Pair(Row(r, toks, i - M), toks[i - M + 1])
                                  ELSE r.head[i]
    OBVIOUS
  <2>1. s.head[i] = IF HasMtp /\ i \in (M + 1)..(M + n)
                    THEN Pair(Row(r, toks, i - M), toks[i - M + 1]) ELSE r.head[i]
    BY <1>0, <1>1 DEF ReadSoFar
  <2>2. i \in Nat
    BY <1>1
  <2>3. CASE i \in (T + 1)..(T + m)
    <3>1. HasMtp /\ T = M + n /\ m <= c /\ m + n < L
      <4>1. m /= 0
        BY <2>2, <2>3
      <4>2. HasMtp
        BY <4>1, <1>4
      <4>3. T = M + n /\ (n + c < L => m = c) /\ (n + c = L => m = c - 1)
        BY <4>2, <1>4
      <4>4. n + c < L \/ n + c = L
        BY <1>3
      <4>5. m <= c /\ m + n < L
        <5>1. CASE n + c < L
          BY <4>3, <5>1
        <5>2. CASE n + c = L
          <6>1. m = c - 1
            BY <4>3, <5>2
          <6> QED BY <5>2, <6>1
        <5> QED BY <4>4, <5>1, <5>2
      <4> QED BY <4>2, <4>3, <4>5
    <3>2. /\ i - T \in 1..(L - n) /\ i - T + 1 \in 1..(L - n)
          /\ n + (i - T) = i - M /\ n + (i - T + 1) = i - M + 1
          /\ i \in (M + 1)..(M + (n + m))
      <4>1. PICK j \in Nat : j = i - T /\ j >= 1 /\ j <= m
        BY <2>2, <2>3
      <4>2. j \in 1..(L - n) /\ j + 1 \in 1..(L - n)
        BY <4>1, <3>1
      <4>3. i = M + n + j
        BY <2>2, <4>1, <3>1
      <4>4. n + j = i - M /\ n + (j + 1) = i - M + 1 /\ i \in (M + 1)..(M + (n + m))
        BY <4>1, <4>3
      <4> QED BY <4>1, <4>2, <4>4
    <3>3. Row(s, rest, i - T) = Row(r, toks, i - M) /\ rest[i - T + 1] = toks[i - M + 1]
      <4>1. Row(s, rest, i - T) = Row(r, toks, n + (i - T))
        BY <3>2, <1>5
      <4>2. rest[i - T + 1] = toks[n + (i - T + 1)]
        BY <3>2, <1>2
      <4> QED BY <3>2, <4>1, <4>2
    <3> QED BY <2>3, <3>1, <3>2, <3>3, <1>7
  <2>4. CASE i \notin (T + 1)..(T + m)
    <3>1. ASSUME HasMtp PROVE i \in (M + 1)..(M + (n + m)) <=> i \in (M + 1)..(M + n)
      <4>1. T = M + n
        BY <3>1, <1>4
      <4>2. i < M + n + 1 \/ i > M + n + m
        BY <4>1, <2>2, <2>4
      <4> QED BY <4>2, <2>2
    <3> QED BY <2>1, <2>4, <3>1, <1>7
  <2> QED BY <2>3, <2>4
<1>11. ASSUME n + c < L PROVE ReadSoFar(r, toks, n + c, q)
  <2>1. c /= Len(rest) /\ (HasMtp => m = c)
    BY <1>2, <1>4, <1>11
  <2>2. \A j \in 1..(L - (n + c)) :
          Row(q, SubSeq(toks, n + c + 1, L), j) = Row(r, toks, n + c + j)
    <3>1. /\ s.pos + Len(rest) <= Cap /\ c \in 1..Len(rest) /\ q.pos = s.pos + c
          /\ \A i \in 1..Cap : q.kv[i] =
               IF i \in (s.pos + 1)..(s.pos + c) THEN Row(s, rest, i - s.pos) ELSE s.kv[i]
      <4>1. S + (L - n) <= C
        BY <1>1, <1>4
      <4> QED BY <4>1, <1>1, <1>2, <1>3, <1>4, <1>7
    <3>2. \A j \in 1..(Len(rest) - c) :
            Row(q, SubSeq(rest, c + 1, Len(rest)), j) = Row(s, rest, c + j)
      <4>1. rest \in Seq(Token) /\ s \in RunnerType /\ q \in RunnerType
        BY <1>2, <1>5, <1>7
      <4>2. q.delta = Row(s, rest, c)
        BY <1>7
      <4>3. c \in 1..Len(rest) /\ s.pos + Len(rest) <= Cap /\ q.pos = s.pos + c
        BY <3>1
      <4>4. CacheOf(s, rest, c, q)
        BY <3>1 DEF CacheOf
      <4> QED BY <4>1, <4>2, <4>3, <4>4, RowsGoOn
    <3>3. ASSUME NEW j \in 1..(L - (n + c))
          PROVE  Row(q, SubSeq(toks, n + c + 1, L), j) = Row(r, toks, n + c + j)
      <4>1. j \in 1..((L - n) - c) /\ c + j \in 1..(L - n) /\ n + (c + j) = n + c + j
        OBVIOUS
      <4>2. Row(q, SubSeq(rest, c + 1, Len(rest)), j) = Row(s, rest, c + j)
        BY <4>1, <3>2, <1>2
      <4>3. Row(s, rest, c + j) = Row(r, toks, n + (c + j))
        BY <4>1, <1>5
      <4> QED BY <4>1, <4>2, <4>3, <1>8
    <3> QED BY <3>3
  <2>3. q.pos = P + (n + c) /\ q.mtpPos = M + (IF HasMtp THEN n + c ELSE 0)
    <3>1. CASE HasMtp
      <4>1. T + m = M + (n + c) /\ S + c = P + (n + c)
        BY <3>1, <2>1, <1>4
      <4> QED BY <3>1, <4>1, <1>7
    <3>2. CASE ~HasMtp
      <4>1. T + m = M + 0 /\ S + c = P + (n + c)
        BY <3>2, <1>4
      <4> QED BY <3>2, <4>1, <1>7
    <3> QED BY <3>1, <3>2
  <2>4. q.saved = r.saved /\ q.specH = r.specH /\ q.x = r.x
    BY <2>1, <1>0, <1>7 DEF ReadSoFar
  <2>5. \A i \in 1..Cap : q.head[i] =
          IF HasMtp /\ i \in (M + 1)..(M + (n + c))
          THEN Pair(Row(r, toks, i - M), toks[i - M + 1]) ELSE r.head[i]
    BY <2>1, <1>10
  <2> QED BY <2>2, <2>3, <2>4, <2>5, <1>1, <1>7, <1>9 DEF ReadSoFar
<1>12. ASSUME n + c = L PROVE q = Prefilled(r, toks)
  <2>1. PICK k \in Nat : k = IF HasMtp THEN L - 1 ELSE 0
    <3>1. L - 1 \in Nat /\ 0 \in Nat
      BY <1>1
    <3> QED BY <3>1
  <2>2. /\ c = Len(rest) /\ S + c = P + L /\ T + m = M + k /\ (HasMtp => n + m = k)
        /\ (~HasMtp => k = 0)
    <3>1. CASE HasMtp
      <4>1. m = c - 1 /\ T = M + n /\ k = L - 1 /\ S = P + n
        BY <2>1, <3>1, <1>4, <1>12
      <4>2. c = L - n
        BY <1>12
      <4>3. S + c = P + L /\ T + m = M + k /\ n + m = k
        BY <4>1, <4>2
      <4> QED BY <3>1, <4>2, <4>3, <1>2
    <3>2. CASE ~HasMtp
      <4>1. m = 0 /\ T = M /\ k = 0 /\ S = P + n
        BY <2>1, <3>2, <1>4
      <4>2. c = L - n /\ S + c = P + L /\ T + m = M + k
        BY <4>1, <1>12
      <4> QED BY <3>2, <4>1, <4>2, <1>2
    <3> QED BY <3>1, <3>2
  <2>3. PICK p : p = Prefilled(r, toks)
    OBVIOUS
  <2>4. /\ p \in RunnerType
        /\ p.pos = P + L /\ p.mtpPos = M + k
        /\ p.delta = Row(r, toks, L) /\ p.saved = r.saved
        /\ p.specH = Row(r, toks, L) /\ p.x = Row(r, toks, L)
        /\ \A i \in 1..Cap : p.kv[i] =
             IF i \in (P + 1)..(P + L) THEN Row(r, toks, i - P) ELSE r.kv[i]
        /\ \A i \in 1..Cap : p.head[i] =
             IF i \in (M + 1)..(M + k)
             THEN Pair(Row(r, toks, i - M), toks[i - M + 1]) ELSE r.head[i]
    <3>1. /\ k = IF HasMtp THEN Len(toks) - 1 ELSE 0
          /\ toks /= <<>> /\ p = Prefilled(r, toks)
      BY <1>1, <2>1, <2>3
    <3>2. /\ p \in RunnerType
          /\ p.pos = r.pos + Len(toks) /\ p.mtpPos = r.mtpPos + k
          /\ p.delta = Row(r, toks, Len(toks)) /\ p.saved = r.saved
          /\ p.specH = Row(r, toks, Len(toks)) /\ p.x = Row(r, toks, Len(toks))
          /\ CacheOf(r, toks, Len(toks), p) /\ HeadOf(r, toks, k, p)
      BY <3>1, <1>0, PrefilledEffect
    <3>3. L = Len(toks) /\ P = r.pos /\ M = r.mtpPos
      BY <1>1
    <3> QED BY <3>2, <3>3 DEF CacheOf, HeadOf
  <2>5. Row(s, rest, c) = Row(r, toks, L)
    BY <1>3, <1>5, <1>12
  <2>6. q.pos = p.pos /\ q.mtpPos = p.mtpPos
    BY <2>2, <2>4, <1>7
  <2>7. q.delta = p.delta /\ q.saved = p.saved /\ q.specH = p.specH /\ q.x = p.x
    BY <2>2, <2>4, <2>5, <1>0, <1>7 DEF ReadSoFar
  <2>8. \A i \in 1..Cap : q.kv[i] = p.kv[i]
    BY <2>4, <1>9, <1>12
  <2>9. \A i \in 1..Cap : q.head[i] = p.head[i]
    <3>1. CASE HasMtp
      BY <2>2, <2>4, <3>1, <1>10
    <3>2. CASE ~HasMtp
      <4>1. \A i \in 1..Cap : i \notin (M + 1)..(M + k)
        BY <2>2, <3>2
      <4> QED BY <2>4, <3>2, <4>1, <1>10
    <3> QED BY <3>1, <3>2
  <2>10. q \in RunnerType /\ p \in RunnerType
    BY <2>4, <1>7
  <2> QED BY <2>3, <2>6, <2>7, <2>8, <2>9, <2>10, SameRunner
<1> QED BY <1>1, <1>2, <1>3, <1>8, <1>11, <1>12

(* Where the reading of toks from r can stand: done, or some way in.       *)
ReadTo(r, toks) ==
  { q \in [rt : RunnerType, left : Seq(Token)] :
      \/ q.left = <<>> /\ q.rt = Prefilled(r, toks)
      \/ \E n \in Nat : /\ n < Len(toks)
                        /\ q.left = SubSeq(toks, n + 1, Len(toks))
                        /\ ReadSoFar(r, toks, n, q.rt) }

(* A text that is not empty and that both caches have room for.            *)
Readable(r, toks) ==
  /\ toks \in Seq(Token) /\ toks /= <<>>
  /\ r.pos + Len(toks) <= Cap /\ r.mtpPos + Len(toks) <= Cap

(* It begins there.                                                        *)
LEMMA ReadingBegins ==
  ASSUME NEW r \in RunnerType, NEW toks, Readable(r, toks)
  PROVE  [rt |-> r, left |-> toks] \in ReadTo(r, toks)
<1>1. toks \in Seq(Token) /\ Len(toks) \in Nat /\ Len(toks) > 0
  <2>1. toks \in Seq(Token) /\ toks /= <<>>
    BY DEF Readable
  <2> QED BY <2>1, EmptySeq, LenProperties
<1>2. SubSeq(toks, 0 + 1, Len(toks)) = toks
  <2>1. SubSeq(toks, 1, Len(toks)) = toks
    BY <1>1, SubSeqFull
  <2> QED BY <2>1
<1>3. ReadSoFar(r, toks, 0, r)
  <2>1. r.pos = r.pos + 0 /\ r.mtpPos = r.mtpPos + (IF HasMtp THEN 0 ELSE 0)
    BY DEF RunnerType
  <2>2. \A i \in 1..Cap : i \notin (r.pos + 1)..(r.pos + 0)
                       /\ i \notin (r.mtpPos + 1)..(r.mtpPos + 0)
    BY DEF RunnerType
  <2>3. \A j \in 1..(Len(toks) - 0) :
          Row(r, SubSeq(toks, 0 + 1, Len(toks)), j) = Row(r, toks, 0 + j)
    <3>1. \A j \in 1..(Len(toks) - 0) : 0 + j = j
      BY <1>1
    <3> QED BY <1>2, <3>1
  <2> QED BY <2>1, <2>2, <2>3 DEF ReadSoFar
<1>4. [rt |-> r, left |-> toks].left = toks /\ [rt |-> r, left |-> toks].rt = r
  OBVIOUS
<1> QED BY <1>1, <1>2, <1>3, <1>4 DEF ReadTo

(* Each chunk leads on, and leaves less to read.                           *)
LEMMA ReadingGoesOn ==
  ASSUME NEW r \in RunnerType, NEW toks, Readable(r, toks), NEW q \in ReadTo(r, toks)
  PROVE  /\ NextChunk(q) \in ReadTo(r, toks)
         /\ q.left = <<>> => NextChunk(q) = q
         /\ q.left /= <<>> => \/ NextChunk(q).left = <<>>
                              \/ Len(NextChunk(q).left) < Len(q.left)
<1>0. q.rt \in RunnerType /\ q.left \in Seq(Token)
  BY DEF ReadTo
<1>1. CASE q.left = <<>>
  BY <1>1 DEF NextChunk
<1>2. CASE q.left /= <<>>
  <2>1. PICK n \in Nat : /\ n < Len(toks) /\ q.left = SubSeq(toks, n + 1, Len(toks))
                         /\ ReadSoFar(r, toks, n, q.rt)
    BY <1>2 DEF ReadTo
  <2>c. PICK c \in Nat : c = Chunk(Len(q.left))
    <3>1. Len(q.left) \in Nat /\ Len(q.left) > 0
      BY <1>0, <1>2, EmptySeq, LenProperties
    <3>2. Chunk(Len(q.left)) \in Nat
      BY <3>1, ChunkFacts
    <3> QED BY <3>2
  <2>2. PICK p, rest :
          /\ rest = q.left /\ c = Chunk(Len(rest)) /\ p = PrefillChunk(q.rt, rest)
    BY <2>c
  <2>3. toks \in Seq(Token) /\ ChunkThere(r, toks, n, q.rt, rest, c, p)
    BY <2>1, <2>2 DEF Readable, ChunkThere
  <2>4. /\ rest \in Seq(Token) /\ c \in 1..(Len(toks) - n)
        /\ SubSeq(rest, c + 1, Len(rest)) = SubSeq(toks, n + c + 1, Len(toks))
        /\ n + c < Len(toks) => ReadSoFar(r, toks, n + c, p)
        /\ n + c = Len(toks) => p = Prefilled(r, toks)
    BY <2>3, ReadOneChunk
  <2>5. PICK o : o = NextChunk(q)
    OBVIOUS
  <2>6. o = [rt |-> p, left |-> SubSeq(rest, c + 1, Len(rest))]
    BY <1>2, <2>2, <2>5 DEF NextChunk
  <2>7. o.rt = p /\ o.left = SubSeq(toks, n + c + 1, Len(toks))
    BY <2>4, <2>6
  <2>8. /\ Len(toks) \in Nat /\ n \in 0..Len(toks) /\ c >= 1
        /\ n + c \in 0..Len(toks) /\ n + c \in Nat
    BY <2>1, <2>3, <2>4, LenProperties
  <2>9. /\ o.left \in Seq(Token) /\ Len(o.left) = Len(toks) - (n + c)
        /\ Len(q.left) = Len(toks) - n
    <3>1. /\ SubSeq(toks, (n + c) + 1, Len(toks)) \in Seq(Token)
          /\ Len(SubSeq(toks, (n + c) + 1, Len(toks))) = Len(toks) - (n + c)
      BY <2>3, <2>8, SuffixElements
    <3>2. Len(SubSeq(toks, n + 1, Len(toks))) = Len(toks) - n
      BY <2>3, <2>8, SuffixElements
    <3> QED BY <2>1, <2>7, <3>1, <3>2
  <2>10. o \in [rt : RunnerType, left : Seq(Token)]
    <3>1. p \in RunnerType
      <4>1. CASE n + c < Len(toks)
        BY <2>4, <4>1 DEF ReadSoFar
      <4>2. CASE n + c = Len(toks)
        <5>1. p = Prefilled(r, toks)
          BY <2>4, <4>2
        <5>2. /\ Len(toks) = Len(toks)
              /\ (IF HasMtp THEN Len(toks) - 1 ELSE 0) = IF HasMtp THEN Len(toks) - 1 ELSE 0
          OBVIOUS
        <5> QED BY <5>1, <5>2, PrefilledEffect DEF Readable
      <4> QED BY <2>8, <4>1, <4>2
    <3> QED BY <2>4, <2>6, <2>7, <2>9, <3>1
  <2>11. o \in ReadTo(r, toks)
    <3>1. CASE n + c < Len(toks)
      BY <2>4, <2>7, <2>8, <2>10, <3>1 DEF ReadTo
    <3>2. CASE n + c = Len(toks)
      <4>1. Len(o.left) = 0
        BY <2>8, <2>9, <3>2
      <4>2. o.left = <<>>
        BY <2>9, <4>1, EmptySeq
      <4> QED BY <2>4, <2>7, <2>10, <3>2, <4>2 DEF ReadTo
    <3> QED BY <2>8, <3>1, <3>2
  <2>12. Len(o.left) < Len(q.left)
    BY <2>8, <2>9
  <2> QED BY <1>2, <2>5, <2>11, <2>12
<1> QED BY <1>1, <1>2

(* However the chunks fall, reading a text is one pass over it (prefill).  *)
LEMMA ReadAllPrefills ==
  ASSUME NEW r \in RunnerType, NEW toks, Readable(r, toks)
  PROVE  ReadAll(r, toks) = Prefilled(r, toks)
<1> DEFINE a     == [rt |-> r, left |-> toks]
           S     == ReadTo(r, toks)
           Z(f)  == [k \in Nat |-> IF k = 0 THEN a ELSE NextChunk(f[k - 1])]
           read  == CHOOSE f : f = Z(f)
           F     == [x \in Nat \X S |-> NextChunk(x[2])]
<1>1. ReadAll(r, toks) = read[Len(toks)].rt
  BY DEF ReadAll
<1>2. a \in S
  BY ReadingBegins
<1>3. F \in [Nat \X S -> S] /\ \A n \in Nat, x \in S : F[<<n, x>>] = NextChunk(x)
  <2>1. \A x \in S : NextChunk(x) \in S
    BY ReadingGoesOn
  <2> HIDE DEF S
  <2> QED BY <2>1
<1> HIDE DEF F, S, a
<1>4. PICK g \in [Nat -> S] : g[0] = a /\ \A n \in Nat : g[n + 1] = F[<<n, g[n]>>]
  <2>1. F \in [Nat \X S -> S]
    BY <1>3
  <2> HIDE DEF Z, read
  <2>2. PICK f : Follows(f, S, a, F)
    BY <1>2, <2>1, RecursionExists
  <2> QED BY <2>2 DEF Follows
<1>5. g = Z(g)
  <2>1. g = [k \in Nat |-> g[k]]
    OBVIOUS
  <2>2. ASSUME NEW k \in Nat
        PROVE  g[k] = IF k = 0 THEN a ELSE NextChunk(g[k - 1])
    <3>1. CASE k = 0
      BY <1>4, <3>1
    <3>2. CASE k /= 0
      <4>1. k - 1 \in Nat /\ (k - 1) + 1 = k
        BY <3>2
      <4>2. g[(k - 1) + 1] = F[<<k - 1, g[k - 1]>>]
        BY <4>1, <1>4
      <4>3. g[k - 1] \in S
        BY <4>1
      <4> QED BY <3>2, <4>1, <4>2, <4>3, <1>3
    <3> QED BY <3>1, <3>2
  <2>3. Z(g) = [k \in Nat |-> g[k]]
    BY <2>2
  <2> QED BY <2>1, <2>3
<1>6. read = Z(read)
  <2> HIDE DEF Z
  <2> QED BY <1>5
<1> HIDE DEF read
<1>7. read[0] = a /\ \A n \in Nat : read[n + 1] = NextChunk(read[n])
  <2>1. \A k \in Nat : Z(read)[k] = IF k = 0 THEN a ELSE NextChunk(read[k - 1])
    OBVIOUS
  <2> HIDE DEF Z
  <2>2. \A n \in Nat : n + 1 \in Nat /\ n + 1 /= 0 /\ (n + 1) - 1 = n
    OBVIOUS
  <2>3. \A k \in Nat : read[k] = IF k = 0 THEN a ELSE NextChunk(read[k - 1])
    BY <1>6, <2>1
  <2>4. read[0] = a
    BY <2>3
  <2> QED BY <2>2, <2>3, <2>4
<1> DEFINE T == { k \in Nat : /\ read[k] \in S
                              /\ \/ read[k].left = <<>>
                                 \/ Len(read[k].left) + k <= Len(toks) }
<1>8. 0 \in T
  <2>1. a.left = toks /\ Len(toks) \in Nat
    BY LenProperties DEF a, Readable
  <2> QED BY <1>2, <1>7, <2>1
<1>9. ASSUME NEW k \in T PROVE k + 1 \in T
  <2>0. k \in Nat
    OBVIOUS
  <2>s. PICK s \in S : s = read[k]
    OBVIOUS
  <2>1. PICK t : s = read[k] /\ t = NextChunk(s) /\ read[k + 1] = t
    BY <1>7, <2>s
  <2>2. /\ t \in S /\ (s.left = <<>> => t = s)
        /\ s.left /= <<>> => t.left = <<>> \/ Len(t.left) < Len(s.left)
    BY <2>1, ReadingGoesOn DEF S
  <2>3. s.left \in Seq(Token) /\ t.left \in Seq(Token) /\ toks \in Seq(Token)
    BY <2>2 DEF S, ReadTo, Readable
  <2>4. Len(s.left) \in Nat /\ Len(t.left) \in Nat /\ Len(toks) \in Nat
    BY <2>3, LenProperties
  <2>5. s.left = <<>> \/ Len(s.left) + k <= Len(toks)
    BY <2>1
  <2>6. t.left = <<>> \/ Len(t.left) + (k + 1) <= Len(toks)
    <3>1. CASE s.left = <<>>
      BY <2>2, <3>1
    <3>2. CASE t.left /= <<>> /\ s.left /= <<>>
      <4>1. Len(t.left) < Len(s.left) /\ Len(s.left) + k <= Len(toks)
        BY <2>2, <2>5, <3>2
      <4> HIDE DEF T
      <4>2. \A x, y, z, j \in Nat : x < y /\ y + j <= z => x + (j + 1) <= z
        OBVIOUS
      <4> QED BY <2>0, <2>4, <4>1, <4>2
    <3> QED BY <3>1, <3>2
  <2> QED BY <2>1, <2>2, <2>6
<1> HIDE DEF T
<1>10. T = Nat
  <2>1. T \in SUBSET Nat
    BY DEF T
  <2> QED BY <1>8, <1>9, <2>1, Induction
<1>11. PICK L \in Nat, s \in S : /\ L = Len(toks) /\ s = read[L]
                                 /\ s.left = <<>> \/ Len(s.left) + L <= L
  <2>1. Len(toks) \in Nat
    BY LenProperties DEF Readable
  <2> QED BY <1>10, <2>1 DEF T
<1>12. s.left = <<>>
  <2>1. s.left \in Seq(Token)
    BY DEF S, ReadTo
  <2>2. Len(s.left) \in Nat
    BY <2>1, LenProperties
  <2>3. s.left = <<>> \/ Len(s.left) = 0
    BY <1>11, <2>2
  <2> QED BY <2>1, <2>3, EmptySeq
<1>13. s.rt = Prefilled(r, toks)
  <2> SUFFICES ASSUME NEW n \in Nat, n < Len(toks), s.left = SubSeq(toks, n + 1, Len(toks))
               PROVE  FALSE
    BY DEF S, ReadTo
  <2>1. toks \in Seq(Token) /\ n \in 0..Len(toks) /\ Len(toks) \in Nat
    BY LenProperties DEF Readable
  <2>2. Len(s.left) = Len(toks) - n
    BY <2>1, SuffixElements
  <2>3. Len(s.left) = 0
    BY <1>12, EmptySeq
  <2> QED BY <2>1, <2>2, <2>3
<1> QED BY <1>1, <1>11, <1>13
----------------------------------------------------------------------------
(* The draft head's cache, entry by entry. *)

(* The first n entries pair the model's states along w with their tokens.  *)
Paired(r, w, n) == \A i \in 1..n : r.head[i] = SubSeq(w, 1, i + 1)

(* Feeding and undoing leave the head's cache alone (verify_drafts).       *)
LEMMA UndoneHead ==
  ASSUME NEW r \in RunnerType, NEW fed \in Seq(Token), r.pos + Len(fed) <= Cap,
         NEW kept
  PROVE  /\ Ran(r, fed).head = r.head
         /\ Undone(r, Ran(r, fed), fed, kept).head = r.head
<1>1. PICK a \in RunnerType : a = Ran(r, fed)
  BY RanFacts
<1>2. a.head = r.head
  <2>1. Readied(r, Len(fed)) \in RunnerType /\ Readied(r, Len(fed)).head = r.head
    BY SavedType DEF Readied, Saved, RunnerType
  <2>2. PICK b \in RunnerType : b = Readied(r, Len(fed)) /\ b.head = r.head
    BY <2>1
  <2>3. Fed(b, fed).head = b.head
    BY DEF Fed, RunnerType
  <2> QED BY <1>1, <2>2, <2>3 DEF Ran
<1>3. PICK b \in RunnerType : b = Restored(a) /\ b.head = r.head
  BY <1>2, SavedType DEF Restored, RunnerType
<1>4. RolledBack(r, a, fed, kept).head = r.head
  BY <1>2 DEF RolledBack, RunnerType
<1>5. \A part : Fed(b, part).head = r.head
  BY <1>3 DEF Fed, RunnerType
<1>6. \A tok : Stepped(b, tok).head = r.head
  BY <1>3 DEF Stepped, Fed, RunnerType
<1>7. Undone(r, a, fed, kept) \in {a, RolledBack(r, a, fed, kept),
        Fed(b, SubSeq(fed, 1, kept + 1)), Stepped(b, fed[1])}
  BY <1>3 DEF Undone
<1> QED BY <1>1, <1>2, <1>4, <1>5, <1>6, <1>7

(* A round rewrites the head's cache from its own start on, and, when the  *)
(* drafts came from elsewhere, the entry of its first token                *)
(* (verify_drafts' last part).                                             *)
LEMMA VerifiedHead ==
  ASSUME NEW r \in RunnerType, HasMtp,
         NEW fed \in Seq(Token), r.pos + Len(fed) <= Cap,
         NEW kept \in 0..(Len(fed) - 1), ReplayFits(Ran(r, fed), fed, kept),
         NEW unheaded \in Seq(Seq(Token)), NEW l, l = Len(unheaded), l <= 1, l <= r.pos,
         NEW v, v = Verified(r, fed, kept, unheaded)
  PROVE  /\ \A i \in 1..(r.pos - l) : v.head[i] = r.head[i]
         /\ l = 1 => v.head[r.pos] = Pair(unheaded[1], fed[1])
<1> DEFINE back == Undone(r, Ran(r, fed), fed, kept)
           cut  == [back EXCEPT !.mtpPos = back.pos - (kept + 1 + Len(unheaded))]
           rows == [j \in 1..kept |-> Row(r, fed, j)]
           hs   == unheaded \o rows
           toks == SubSeq(fed, 2 - Len(unheaded), kept + 1)
           warm == Warmed(cut, hs, toks)
<1>0. /\ Len(fed) \in Nat /\ kept \in Nat /\ kept + 1 <= Len(fed) /\ l \in Nat
      /\ r.pos \in Nat /\ Cap \in Nat /\ r.pos <= Cap
  BY LenProperties, SizeAssumption DEF RunnerType
<1>1. /\ back \in RunnerType /\ back.pos = r.pos + kept + 1 /\ back.head = r.head
  BY UndoneFacts, UndoneHead
<1>2. /\ Len(toks) = kept + l
      /\ l = 1 => toks[1] = fed[1]
  <2>1. \A i \in (2 - l)..(kept + 1) : i \in 1..Len(fed)
    BY <1>0
  <2>2. \A i \in (2 - l)..(kept + 1) : fed[i] \in Token
    BY <2>1, ElementOfSeq
  <2>3. 2 - l \in Int /\ kept + 1 \in Int /\ toks = SubSeq(fed, 2 - l, kept + 1)
    BY <1>0
  <2> HIDE DEF toks
  <2>4. /\ Len(toks) = IF 2 - l <= kept + 1 THEN (kept + 1) - (2 - l) + 1 ELSE 0
        /\ \A i \in 1..((kept + 1) - (2 - l) + 1) : toks[i] = fed[(2 - l) + i - 1]
    BY <2>2, <2>3, SubSeqProperties
  <2>5. l = 1 => 1 \in 1..((kept + 1) - (2 - l) + 1) /\ (2 - l) + 1 - 1 = 1
    BY <1>0
  <2>6. Len(toks) = kept + l
    <3>1. /\ (kept + 1) - (2 - l) + 1 = kept + l
          /\ ~(2 - l <= kept + 1) => kept + l = 0
      BY <1>0
    <3> QED BY <2>4, <3>1
  <2>7. ASSUME l = 1 PROVE toks[1] = fed[1]
    <3>1. /\ \A i \in 1..((kept + 1) - (2 - 1) + 1) : toks[i] = fed[(2 - 1) + i - 1]
          /\ 1 \in 1..((kept + 1) - (2 - 1) + 1)
      BY <2>4, <2>5, <2>7
    <3>2. toks[1] = fed[(2 - 1) + 1 - 1]
      BY <3>1, Zenon
    <3>3. (2 - 1) + 1 - 1 = 1
      OBVIOUS
    <3> QED BY <3>2, <3>3
  <2> QED BY <2>6, <2>7
<1>3. l = 1 => hs[1] = unheaded[1]
  <2>1. \A j \in 1..kept : Row(r, fed, j) \in Seq(Token)
    BY <1>0, RowType
  <2>2. rows \in [1..kept -> Seq(Token)]
    BY <2>1
  <2> HIDE DEF rows
  <2>3. rows \in Seq(Seq(Token)) /\ Len(rows) \in Nat
    BY <2>2, <1>0, LenProperties
  <2>4. \A i \in 1..(Len(unheaded) + Len(rows)) : (unheaded \o rows)[i] =
          IF i <= Len(unheaded) THEN unheaded[i] ELSE rows[i - Len(unheaded)]
    BY <2>3, ConcatProperties
  <2>5. l = 1 => 1 \in 1..(Len(unheaded) + Len(rows)) /\ 1 <= Len(unheaded)
    BY <2>3
  <2> QED BY <2>4, <2>5
<1>4. v = [warm EXCEPT !.specH = Row(r, fed, kept + 1)]
  BY DEF Verified
<1> HIDE DEF back, hs, toks
<1>5. /\ cut.mtpPos = r.pos - l /\ cut.head = r.head /\ cut \in RunnerType
  <2>1. back.pos - (kept + 1 + l) = r.pos - l /\ r.pos - l \in 0..Cap
    BY <1>0, <1>1
  <2> QED BY <2>1, <1>1 DEF RunnerType
<1> HIDE DEF cut
<1>6. \A i \in 1..Cap : v.head[i] =
        IF i \in ((r.pos - l) + 1)..((r.pos - l) + (kept + l))
        THEN Pair(hs[i - (r.pos - l)], toks[i - (r.pos - l)]) ELSE r.head[i]
  BY <1>2, <1>4, <1>5 DEF Warmed, RunnerType
<1> HIDE DEF warm
<1>7. ASSUME NEW i \in 1..(r.pos - l) PROVE v.head[i] = r.head[i]
  <2>1. i \in 1..Cap /\ i \notin ((r.pos - l) + 1)..((r.pos - l) + (kept + l))
    BY <1>0
  <2> QED BY <2>1, <1>6
<1>8. ASSUME l = 1 PROVE v.head[r.pos] = Pair(unheaded[1], fed[1])
  <2>1. /\ r.pos \in 1..Cap /\ r.pos - (r.pos - l) = 1
        /\ r.pos \in ((r.pos - l) + 1)..((r.pos - l) + (kept + l))
    BY <1>0, <1>8
  <2>2. v.head[r.pos] = Pair(hs[1], toks[1])
    BY <2>1, <1>6
  <2> QED BY <2>2, <1>2, <1>3, <1>8
<1> QED BY <1>7, <1>8

(* s has r's head entries below the round's start, and the first one when  *)
(* it was missing.                                                         *)
RewritesFrom(r, s, fed, unheaded) ==
  /\ \A i \in 1..(r.pos - Len(unheaded)) : s.head[i] = r.head[i]
  /\ Len(unheaded) = 1 => s.head[r.pos] = Pair(unheaded[1], fed[1])

(* The same of what a round returns.                                       *)
LEMMA VerifyHead ==
  ASSUME NEW r \in RunnerType, HasMtp, NEW fed \in Seq(Token),
         NEW unheaded \in Seq(Seq(Token)), Len(unheaded) <= 1, Len(unheaded) <= r.pos,
         NEW o \in VerifyResults(r, fed, unheaded), o.ok
  PROVE  RewritesFrom(r, o.rt, fed, unheaded)
<1>1. Fits(r, Len(fed))
  BY DEF VerifyResults, Err
<1>2. r.pos + Len(fed) <= Cap /\ Len(fed) \in Nat
  BY <1>1, LenProperties DEF Fits
<1>3. PICK w \in Verdicts(r, fed) :
        /\ ReplayFits(Ran(r, fed), fed, w[1])
        /\ o.rt = Verified(r, fed, w[1], unheaded)
  BY <1>1 DEF VerifyResults, Err
<1>4. PICK kept \in 0..(Len(fed) - 1) : kept = w[1]
  BY DEF Verdicts
<1>5. PICK v : v = Verified(r, fed, kept, unheaded)
  OBVIOUS
<1>6. /\ ReplayFits(Ran(r, fed), fed, kept) /\ o.rt = v
  BY <1>3, <1>4, <1>5
<1>7. /\ \A i \in 1..(r.pos - Len(unheaded)) : v.head[i] = r.head[i]
      /\ Len(unheaded) = 1 => v.head[r.pos] = Pair(unheaded[1], fed[1])
  BY <1>2, <1>5, <1>6, VerifiedHead
<1> QED BY <1>6, <1>7 DEF RewritesFrom

(* The entry of a token said after t is the text up to that token.         *)
LEMMA PairOfLast ==
  ASSUME NEW t \in Seq(Token), NEW said \in Seq(Token), Len(t) >= 1, Len(said) >= 1
  PROVE  Pair(t, said[1]) = SubSeq(t \o said, 1, Len(t) + 1)
<1>1. Len(t) \in Nat /\ Len(said) \in Nat /\ t /= Junk
  BY LenProperties, EmptySeq DEF Junk
<1>2. SubSeq(said, 1, 1) = <<said[1]>> /\ said[1] \in Token
  BY PrefixOne
<1>3. SubSeq(t \o said, 1, Len(t) + 1) = t \o <<said[1]>>
  <2>1. 1 \in 0..Len(said)
    BY <1>1
  <2>2. SubSeq(t \o said, 1, Len(t) + 1) = t \o SubSeq(said, 1, 1)
    BY <2>1, ConcatPrefix
  <2> QED BY <2>2, <1>2
<1>4. Append(t, said[1]) = t \o <<said[1]>>
  BY <1>2, AppendIsConcat
<1> QED BY <1>1, <1>3, <1>4 DEF Pair

(* What was paired along a text is paired along any longer one.            *)
LEMMA PairedLonger ==
  ASSUME NEW r, NEW t \in Seq(Token), NEW u \in Seq(Token), NEW n \in Nat,
         n < Len(t) \/ n = 0, Paired(r, t, n)
  PROVE  Paired(r, t \o u, n)
<1>1. Len(t) \in Nat /\ Len(u) \in Nat
  BY LenProperties
<1>2. ASSUME NEW i \in 1..n PROVE SubSeq(t \o u, 1, i + 1) = SubSeq(t, 1, i + 1)
  <2>1. i + 1 \in 1..(Len(t) + Len(u)) /\ i + 1 <= Len(t)
    BY <1>1
  <2> QED BY <2>1, PrefixOfConcat
<1> QED BY <1>2 DEF Paired

(* A head one short of the model, and paired that far.                     *)
InStep(r, t) == r.mtpPos + 1 = r.pos /\ Paired(r, t, r.mtpPos)

(* Where such a head stands.                                               *)
LEMMA InStepAt ==
  ASSUME NEW r \in RunnerType, NEW t, InStep(r, t)
  PROVE  /\ r.pos \in Nat /\ r.mtpPos \in Nat /\ Cap \in Nat /\ r.pos <= Cap
         /\ r.mtpPos + 1 = r.pos /\ r.mtpPos = r.pos - 1 /\ r.pos >= 1
         /\ r.mtpPos <= r.pos /\ r.mtpPos < Cap
<1>1. r.pos \in 0..Cap /\ r.mtpPos \in 0..Cap /\ Cap \in Nat
  BY SizeAssumption DEF RunnerType
<1>2. r.mtpPos + 1 = r.pos
  BY DEF InStep
<1> QED BY <1>1, <1>2

(* A round whose first entry is there or was written, and that warmed the  *)
(* head from its start on, leaves it in step.                              *)
LEMMA RoundInStep ==
  ASSUME NEW r \in RunnerType, NEW t \in Seq(Token), Holds(r, t), InStep(r, t),
         NEW s \in RunnerType, NEW said \in Seq(Token), Len(said) >= 1,
         \A i \in 1..r.mtpPos : s.head[i] = r.head[i],
         s.head[r.pos] = Pair(t, said[1]), Warm(s, r.pos, t \o said)
  PROVE  InStep(s, t \o said)
<1>1. PICK P \in Nat, M \in Nat, S \in Nat :
        /\ P = r.pos /\ M = r.mtpPos /\ S = s.mtpPos /\ P = Len(t) /\ M + 1 = P
        /\ s.mtpPos + 1 = s.pos
  <2>1. r.pos = Len(t) /\ s.mtpPos + 1 = s.pos
    BY DEF Holds, Warm
  <2>2. s.mtpPos \in Nat
    BY SizeAssumption DEF RunnerType
  <2> QED BY <2>1, <2>2, InStepAt
<1>2. Paired(r, t \o said, M)
  <2>1. M < Len(t) /\ Paired(r, t, M)
    BY <1>1 DEF InStep
  <2> QED BY <2>1, PairedLonger
<1>3. ASSUME NEW i \in 1..S PROVE s.head[i] = SubSeq(t \o said, 1, i + 1)
  <2>1. i \in 1..M \/ i = P \/ i \in (P + 1)..S
    BY <1>1
  <2>2. CASE i \in 1..M
    BY <2>2, <1>1, <1>2 DEF Paired
  <2>3. CASE i = P
    <3>1. Len(t) >= 1
      BY <1>1
    <3>2. Pair(t, said[1]) = SubSeq(t \o said, 1, Len(t) + 1)
      BY <3>1, PairOfLast
    <3> QED BY <2>3, <3>2, <1>1
  <2>4. CASE i \in (P + 1)..S
    BY <2>4, <1>1 DEF Warm
  <2> QED BY <2>1, <2>2, <2>3, <2>4
<1> QED BY <1>1, <1>3 DEF InStep, Paired

(* The head's own first draft writes the entry of the token it starts      *)
(* from, which the verify leaves in place (draft_with, verify_drafts).     *)
LEMMA SpeculateInStep ==
  ASSUME NEW r \in RunnerType, NEW t \in Seq(Token), Holds(r, t), HasMtp,
         InStep(r, t), Source(r) = t,
         NEW last \in Token, NEW depth \in Nat, depth > 0,
         NEW o \in SpeculateResults(r, last, depth), o.ok
  PROVE  InStep(o.rt, t \o o.said)
<1>1. PICK n \in Nat : n = Drafts(r, depth) /\ n > 0 /\ r.mtpPos + n <= Cap
  <2>1. Drafts(r, depth) = IF depth <= Cap - r.mtpPos THEN depth ELSE Cap - r.mtpPos
    BY DEF Drafts, Min2
  <2> QED BY <2>1, InStepAt
<1>2. PICK d \in RunnerType :
        /\ d = Drafted(r, last, n) /\ SameText(r, d)
        /\ \A i \in 1..r.mtpPos : d.head[i] = r.head[i]
        /\ d.head[r.pos] = Pair(t, last)
  <2>1. Drafted(r, last, n) \in RunnerType /\ SameText(r, Drafted(r, last, n))
    BY <1>1, DraftedType
  <2>2. \A i \in 1..Cap : Drafted(r, last, n).head[i] =
          IF i = r.mtpPos + 1 /\ n > 0 THEN Pair(Source(r), last)
          ELSE IF i \in (r.mtpPos + 2)..(r.mtpPos + n) THEN Junk ELSE r.head[i]
    BY DEF Drafted, RunnerType
  <2>3. /\ r.pos \in 1..Cap /\ r.pos = r.mtpPos + 1
        /\ \A i \in 1..r.mtpPos : /\ i \in 1..Cap /\ i /= r.mtpPos + 1
                                  /\ i \notin (r.mtpPos + 2)..(r.mtpPos + n)
    BY <1>1, InStepAt
  <2> QED BY <2>1, <2>2, <2>3, <1>1
<1>3. PICK drafts \in [1..n -> Token] : o \in VerifyResults(d, <<last>> \o drafts, <<>>)
  BY <1>1, <1>2 DEF SpeculateResults
<1>4. PICK fed \in Seq(Token) : fed = <<last>> \o drafts
  <2>1. drafts \in Seq(Token)
    BY <1>1
  <2> QED BY <2>1, FirstOfConcat
<1>5. \A i \in 1..d.pos : o.rt.head[i] = d.head[i]
  <2>1. d.pos \in Nat
    BY SizeAssumption DEF RunnerType
  <2>2. PICK u \in Seq(Seq(Token)) : u = <<>> /\ Len(u) = 0
    BY EmptySeq
  <2>3. o \in VerifyResults(d, fed, u) /\ Len(u) <= 1 /\ Len(u) <= d.pos
    BY <1>3, <1>4, <2>1, <2>2
  <2>4. RewritesFrom(d, o.rt, fed, u)
    BY <2>3, VerifyHead
  <2>5. d.pos - Len(u) = d.pos
    BY <2>1, <2>2
  <2> QED BY <2>4, <2>5 DEF RewritesFrom
<1>6. Good(o) /\ Draws(o, t, last) /\ Warm(o.rt, r.pos, t \o o.said)
  <2>1. r.mtpPos <= r.pos
    <3>1. r.pos \in Nat /\ r.mtpPos = r.pos - 1
      BY InStepAt
    <3> QED BY <3>1
  <2> QED BY <2>1, SpeculateFacts, SpeculateDraws
<1>7. PICK s \in RunnerType, said \in Seq(Token) :
        s = o.rt /\ said = o.said /\ Len(said) >= 1 /\ said[1] = last
  BY <1>6 DEF Good, Draws
<1>8. /\ \A i \in 1..r.mtpPos : s.head[i] = r.head[i]
      /\ s.head[r.pos] = Pair(t, said[1])
  <2>1. d.pos = r.pos /\ r.pos \in 1..r.pos /\ \A i \in 1..r.mtpPos : i \in 1..r.pos
    <3>1. d.pos = r.pos
      BY <1>2 DEF SameText
    <3> QED BY <3>1, InStepAt
  <2> QED BY <2>1, <1>2, <1>5, <1>7
<1> QED BY <1>6, <1>7, <1>8, RoundInStep

(* A round on proposed drafts writes that entry itself, from the state the *)
(* draft would have started from (speculate_proposed, verify_drafts).      *)
LEMMA ProposedInStep ==
  ASSUME NEW r \in RunnerType, NEW t \in Seq(Token), Holds(r, t), HasMtp,
         InStep(r, t), Source(r) = t, NEW last \in Token, NEW drafts \in Seq(Token),
         NEW o \in ProposedResults(r, last, drafts), o.ok
  PROVE  InStep(o.rt, t \o o.said)
<1>0. r.pos > 0 /\ r.mtpPos = r.pos - 1 /\ r.pos \in Nat
  BY InStepAt
<1>1. PICK c \in RunnerType :
        c = [r EXCEPT !.specH = None] /\ c.head = r.head /\ c.pos = r.pos
  <2> DEFINE d == [r EXCEPT !.specH = None]
  <2>1. d \in RunnerType /\ d.head = r.head /\ d.pos = r.pos
    BY EmptySeq DEF RunnerType, None
  <2> QED BY <2>1
<1>2. PICK tail : tail = SubSeq(drafts, 1, Min2(Len(drafts), MaxDepth))
  OBVIOUS
<1>3. PICK fed \in Seq(Token) : fed = <<last>> \o tail /\ fed[1] = last
  <2>1. PICK k \in Nat : k = Min2(Len(drafts), MaxDepth) /\ k <= Len(drafts)
    BY LenProperties, SizeAssumption DEF Min2, MaxDepth
  <2>2. tail \in Seq(Token)
    BY <1>2, <2>1, PrefixType
  <2> QED BY <2>2, FirstOfConcat
<1>4. PICK u \in Seq(Seq(Token)) : u = <<Source(r)>> /\ Len(u) = 1 /\ u[1] = t
  <2>1. <<Source(r)>> \in Seq(Seq(Token)) /\ Len(<<Source(r)>>) = 1 /\ <<Source(r)>>[1] = t
    BY SourceType
  <2> QED BY <2>1
<1>5. /\ \A i \in 1..(c.pos - 1) : o.rt.head[i] = c.head[i]
      /\ o.rt.head[c.pos] = Pair(t, last)
  <2>1. o \in VerifyResults(c, fed, u)
    BY <1>1, <1>2, <1>3, <1>4 DEF ProposedResults
  <2>2. Len(u) <= 1 /\ Len(u) <= c.pos
    BY <1>0, <1>1, <1>4
  <2>3. RewritesFrom(c, o.rt, fed, u)
    BY <2>1, <2>2, VerifyHead
  <2> QED BY <2>3, <1>3, <1>4 DEF RewritesFrom
<1>6. Good(o) /\ Draws(o, t, last) /\ Warm(o.rt, r.pos, t \o o.said)
  BY <1>0, ProposedFacts, ProposedDraws
<1>7. PICK s \in RunnerType, said \in Seq(Token) :
        s = o.rt /\ said = o.said /\ Len(said) >= 1 /\ said[1] = last
  BY <1>6 DEF Good, Draws
<1>8. /\ \A i \in 1..r.mtpPos : s.head[i] = r.head[i]
      /\ s.head[r.pos] = Pair(t, said[1])
  BY <1>0, <1>1, <1>5, <1>7
<1> QED BY <1>6, <1>7, <1>8, RoundInStep

(* The entry that pairs a row of a chunk read after t with the next token. *)
LEMMA PairOfRow ==
  ASSUME NEW t \in Seq(Token), NEW unread \in Seq(Token),
         NEW j \in Nat, j >= 1, j + 1 <= Len(unread)
  PROVE  Pair(t \o SubSeq(unread, 1, j), unread[j + 1])
           = SubSeq(t \o unread, 1, Len(t) + (j + 1))
<1>0. Len(t) \in Nat /\ Len(unread) \in Nat /\ j <= Len(unread)
      /\ j + 1 \in 0..Len(unread) /\ j + 1 \in 1..Len(unread)
  BY LenProperties
<1>1. PICK part \in Seq(Token) : part = SubSeq(unread, 1, j) /\ Len(part) = j
  BY <1>0, PrefixType
<1>2. PICK e \in Token : e = unread[j + 1]
  BY <1>0, ElementOfSeq
<1>3. t \o part \in Seq(Token) /\ t \o part /= Junk
  <2>1. t \o part \in Seq(Token) /\ Len(t \o part) = Len(t) + Len(part)
    BY ConcatProperties
  <2>2. Len(t) + Len(part) /= 0
    BY <1>0, <1>1
  <2> QED BY <2>1, <2>2, EmptySeq DEF Junk
<1>4. Append(part, e) = SubSeq(unread, 1, j + 1)
  BY <1>1, <1>2, PrefixStep
<1>5. Pair(t \o part, e) = t \o SubSeq(unread, 1, j + 1)
  <2>1. Append(t \o part, e) = t \o Append(part, e)
    BY AppendToConcat
  <2>2. Pair(t \o part, e) = Append(t \o part, e)
    BY <1>3 DEF Pair
  <2> QED BY <2>1, <2>2, <1>4
<1>6. SubSeq(t \o unread, 1, Len(t) + (j + 1)) = t \o SubSeq(unread, 1, j + 1)
  BY <1>0, ConcatPrefix
<1> QED BY <1>1, <1>2, <1>5, <1>6

(* A head that is as far as the model, and paired that far along w: so it  *)
(* stands between two chunks of a prefill.                                 *)
Reading(r, w) == r.mtpPos = r.pos /\ Paired(r, w, r.pos)

(* A chunk leaves the head so, and the last one leaves it in step          *)
(* (prefill, mtp_warm).                                                    *)
LEMMA ChunkInStep ==
  ASSUME NEW r \in RunnerType, NEW t \in Seq(Token), Holds(r, t), HasMtp,
         NEW unread \in Seq(Token), unread /= <<>>, Reading(r, t \o unread),
         Fits(r, Chunk(Len(unread))), r.mtpPos + Warms(unread) <= Cap,
         NEW s, s = PrefillChunk(r, unread)
  PROVE  /\ Chunk(Len(unread)) /= Len(unread) => Reading(s, t \o unread)
         /\ Chunk(Len(unread)) = Len(unread) => InStep(s, t \o unread)
<1>1. PICK c \in Nat, m \in Nat, P \in Nat, L \in Nat :
        /\ c = Chunk(Len(unread)) /\ m = Warms(unread) /\ P = r.pos /\ L = Len(unread)
        /\ c \in 1..L /\ P = Len(t) /\ r.mtpPos = P /\ P + c <= Cap
  <2>1. Len(unread) \in Nat /\ Len(unread) > 0 /\ r.pos \in Nat
    BY EmptySeq, LenProperties, SizeAssumption DEF RunnerType
  <2>2. Chunk(Len(unread)) \in 1..Len(unread)
    BY <2>1, ChunkFacts
  <2>3. r.pos = Len(t) /\ r.mtpPos = r.pos /\ r.pos + Chunk(Len(unread)) <= Cap
    BY DEF Holds, Reading, Fits
  <2> QED BY <2>1, <2>2, <2>3, WarmsFacts
<1>2. m = IF c = L THEN c - 1 ELSE c
  BY <1>1 DEF Warms, Min2
<1>3. /\ s.pos = P + c /\ s.mtpPos = P + m
      /\ \A i \in 1..Cap : s.head[i] =
           IF i \in (P + 1)..(P + m)
           THEN Pair(Row(r, unread, i - P), unread[i - P + 1]) ELSE r.head[i]
  <2>1. /\ s \in RunnerType
        /\ s.pos = r.pos + c /\ s.mtpPos = r.mtpPos + Warms(unread)
        /\ s.delta = Row(r, unread, c) /\ s.saved = r.saved
        /\ \A i \in 1..Cap : s.kv[i] =
             IF i \in (r.pos + 1)..(r.pos + c) THEN Row(r, unread, i - r.pos) ELSE r.kv[i]
        /\ \A i \in 1..Cap : s.head[i] =
             IF i \in (r.mtpPos + 1)..(r.mtpPos + Warms(unread))
             THEN Pair(Row(r, unread, i - r.mtpPos), unread[i - r.mtpPos + 1])
             ELSE r.head[i]
        /\ c = Len(unread) => s.specH = Row(r, unread, c) /\ s.x = Row(r, unread, c)
        /\ c /= Len(unread) => s.specH = r.specH /\ s.x = r.x
    <3>1. Warms(unread) = Warms(unread) /\ c = Chunk(Len(unread))
      BY <1>1
    <3> QED BY <3>1, ChunkEffect
  <2> QED BY <2>1, <1>1
<1>4. Paired(s, t \o unread, P + m)
  <2> SUFFICES ASSUME NEW i \in 1..(P + m)
               PROVE  s.head[i] = SubSeq(t \o unread, 1, i + 1)
    BY DEF Paired
  <2>0. i \in 1..Cap /\ i \in Nat
    <3>1. m <= c /\ Cap \in Nat
      BY <1>1, <1>2, SizeAssumption
    <3> QED BY <3>1, <1>1
  <2>1. CASE i <= P
    <3>1. i \notin (P + 1)..(P + m) /\ i \in 1..P
      BY <2>0, <2>1
    <3>2. s.head[i] = r.head[i]
      BY <2>0, <3>1, <1>3
    <3> QED BY <3>1, <3>2, <1>1 DEF Reading, Paired
  <2>2. CASE ~(i <= P)
    <3>1. PICK j \in Nat : /\ j = i - P /\ j >= 1 /\ j + 1 <= L /\ P + (j + 1) = i + 1
                           /\ i \in (P + 1)..(P + m)
      <4>1. m + 1 <= L \/ m = c
        BY <1>1, <1>2
      <4>2. m + 1 <= L
        BY <1>1, <1>2
      <4> QED BY <2>0, <2>2, <4>2
    <3>2. s.head[i] = Pair(Row(r, unread, j), unread[j + 1])
      BY <2>0, <3>1, <1>3
    <3>3. Row(r, unread, j) = t \o SubSeq(unread, 1, j)
      BY DEF Row, Sound, Holds
    <3>4. j + 1 <= Len(unread)
      BY <1>1, <3>1
    <3>5. Pair(t \o SubSeq(unread, 1, j), unread[j + 1])
            = SubSeq(t \o unread, 1, Len(t) + (j + 1))
      BY <3>1, <3>4, PairOfRow
    <3> QED BY <3>1, <3>2, <3>3, <3>5, <1>1
  <2> QED BY <2>1, <2>2
<1>5. ASSUME c /= L PROVE Reading(s, t \o unread)
  <2>1. P + m = P + c
    BY <1>2, <1>5
  <2> QED BY <2>1, <1>3, <1>4 DEF Reading
<1>6. ASSUME c = L PROVE InStep(s, t \o unread)
  <2>1. (P + m) + 1 = P + c
    BY <1>1, <1>2, <1>6
  <2> QED BY <2>1, <1>3, <1>4 DEF InStep
<1> QED BY <1>1, <1>5, <1>6
=============================================================================
