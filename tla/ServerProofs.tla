---------------------------- MODULE ServerProofs ----------------------------
(***************************************************************************)
(* Proofs about Server: a request is answered on the history it sent, from *)
(* what the model allows after it, and the prefix cache vouches for no     *)
(* more than it holds -- for every vocabulary, every set of prompts,       *)
(* ceilings and depths, every cache size and every number of checkpoints   *)
(* kept.                                                                   *)
(***************************************************************************)
EXTENDS Server, StateProofs

----------------------------------------------------------------------------
(* Numbers and indices. *)

(* The greatest of a bounded, non-empty set of numbers (Largest).          *)
LEMMA LargestFacts ==
  ASSUME NEW N \in Nat, NEW S \in SUBSET (0..N), S /= {}
  PROVE  Largest(S) \in S /\ \A y \in S : y <= Largest(S)
<1>1. \E x \in S : \A y \in S : y <= x
  BY GreatestExists
<1> QED BY <1>1 DEF Largest

(* Such a set has a least element, too.                                    *)
LEMMA LeastExists ==
  ASSUME NEW N \in Nat, NEW S \in SUBSET (0..N), S /= {}
  PROVE  \E x \in S : \A y \in S : x <= y
<1> DEFINE T == { N - x : x \in S }
<1>0. \A x \in S : x \in 0..N
  OBVIOUS
<1>1. T \in SUBSET (0..N) /\ T /= {}
  <2>1. \A x \in S : N - x \in 0..N
    BY <1>0
  <2>2. PICK x \in S : TRUE
    OBVIOUS
  <2>3. N - x \in T
    OBVIOUS
  <2> QED BY <2>1, <2>3
<1>2. PICK m \in T : \A k \in T : k <= m
  <2> HIDE DEF T
  <2> QED BY <1>1, GreatestExists
<1>3. PICK x \in S : m = N - x
  BY <1>2
<1>4. ASSUME NEW y \in S PROVE x <= y
  <2>1. N - y <= N - x
    BY <1>2, <1>3
  <2> QED BY <2>1, <1>0
<1> QED BY <1>4

(* What the context proposes is a text (lookup).                           *)
LEMMA LookupType ==
  ASSUME NEW context \in Seq(Token), NEW nMax \in Nat, NEW nMin \in Nat, NEW k \in Nat
  PROVE  LookupDrafts(context, nMax, nMin, k) \in Seq(Token)
<1> DEFINE matched == Matched(context, nMax, nMin)
           n    == Largest(matched)
           occ  == Occurrences(context, n)
           from == Largest(occ) + n
           end  == IF from + k <= Len(context) THEN from + k ELSE Len(context)
<1>0. Len(context) \in Nat
  BY LenProperties
<1>1. CASE matched = {}
  BY <1>1, EmptySeq DEF LookupDrafts
<1>2. CASE matched /= {}
  <2>1. n \in matched
    <3>1. matched \in SUBSET (0..nMax)
      BY DEF Matched
    <3> HIDE DEF matched
    <3> QED BY <3>1, <1>2, LargestFacts
  <2>2. n \in Nat /\ n >= 1 /\ n < Len(context) /\ occ /= {}
    <3>1. n \in Matched(context, nMax, nMin)
      BY <2>1
    <3> HIDE DEF n
    <3> QED BY <3>1 DEF Matched
  <2> HIDE DEF n
  <2>3. Largest(occ) \in occ
    <3>1. occ \in SUBSET (0..Len(context))
      BY <1>0, <2>2 DEF Occurrences
    <3> HIDE DEF occ
    <3> QED BY <1>0, <2>2, <3>1, LargestFacts
  <2>4. Largest(occ) \in 0..(Len(context) - n - 1)
    BY <2>3 DEF Occurrences
  <2> HIDE DEF occ
  <2>5. /\ from + 1 \in Nat /\ from + 1 > 0
        /\ end \in Nat /\ end <= Len(context)
    BY <1>0, <2>2, <2>4
  <2>6. SubSeq(context, from + 1, end) \in Seq(Token)
    <3> HIDE DEF from, end
    <3> QED BY <2>5, SubSeqType
  <2> QED BY <2>6, <1>2 DEF LookupDrafts, n, occ
<1> QED BY <1>1, <1>2

----------------------------------------------------------------------------
(* The pool of checkpoints. *)

(* The distance between two positions, moved up by the ceiling, is counted. *)
LEMMA WidthFacts ==
  ASSUME NEW c \in Nat, NEW a \in 0..c, NEW b \in 0..c
  PROVE  c + (a - b) \in 0..(2 * c) /\ a - b \in Int
OBVIOUS

(* There is always a point to evict: among the interior ones a first that  *)
(* closes the smallest gap (evict_index).                                  *)
LEMMA EvictFacts ==
  ASSUME NEW s \in Seq(CheckpointType), Len(s) > 2
  PROVE  EvictIndex(s) \in 2..(Len(s) - 1)
<1> DEFINE I == 2..(Len(s) - 1)
           Wide(i) == Cap + Gap(s, i)
           W == { Wide(i) : i \in I }
<1>0. Len(s) \in Nat /\ Cap \in Nat
  BY LenProperties, SizeAssumption
<1>1. \A i \in I : Wide(i) \in 0..(2 * Cap) /\ Gap(s, i) \in Int
  <2> SUFFICES ASSUME NEW i \in I PROVE Wide(i) \in 0..(2 * Cap) /\ Gap(s, i) \in Int
    OBVIOUS
  <2>1. i + 1 \in 1..Len(s) /\ i - 1 \in 1..Len(s)
    BY <1>0
  <2>2. s[i + 1] \in CheckpointType /\ s[i - 1] \in CheckpointType
    BY <2>1, ElementOfSeq
  <2> DEFINE after == s[i + 1].pos
             before == s[i - 1].pos
  <2>3. after \in 0..Cap /\ before \in 0..Cap
    BY <2>2 DEF CheckpointType
  <2>4. Cap + (after - before) \in 0..(2 * Cap) /\ after - before \in Int
    <3> HIDE DEF after, before
    <3> QED BY <2>3, <1>0, WidthFacts
  <2>5. Gap(s, i) = after - before
    BY DEF Gap
  <2> QED BY <2>4, <2>5
<1>2. PICK w \in W : \A v \in W : w <= v
  <2>1. 2 \in I
    BY <1>0
  <2>2. W \in SUBSET (0..(2 * Cap)) /\ W /= {}
    <3>1. Wide(2) \in W
      BY <2>1
    <3> QED BY <1>1, <3>1
  <2>3. 2 * Cap \in Nat
    BY <1>0
  <2> HIDE DEF W
  <2> QED BY <2>2, <2>3, LeastExists
<1> DEFINE F == { i \in I : Wide(i) = w }
<1>3. PICK f \in F : \A j \in F : f <= j
  <2>1. F \in SUBSET (0..Len(s)) /\ F /= {}
    BY <1>0, <1>2
  <2> HIDE DEF F
  <2> QED BY <2>1, <1>0, LeastExists
<1>4. f \in I /\ \A j \in I : Gap(s, f) <= Gap(s, j) /\ (Gap(s, f) = Gap(s, j) => f <= j)
  <2>1. f \in I /\ Wide(f) = w
    BY <1>3
  <2>2. ASSUME NEW j \in I PROVE Gap(s, f) <= Gap(s, j)
    <3>1. Wide(f) <= Wide(j)
      BY <1>2, <2>1
    <3> QED BY <3>1, <1>0, <1>1, <2>1
  <2>3. ASSUME NEW j \in I, Gap(s, f) = Gap(s, j) PROVE f <= j
    <3>1. Wide(j) = w
      BY <2>1, <2>3
    <3> QED BY <3>1, <1>3
  <2> QED BY <2>1, <2>2, <2>3
<1> QED BY <1>4 DEF EvictIndex

(* Taking one out leaves the others in order (Vec::remove).                *)
LEMMA RemoveFacts ==
  ASSUME NEW S, NEW s \in Seq(S), NEW e \in 1..Len(s)
  PROVE  /\ Remove(s, e) \in Seq(S) /\ Len(Remove(s, e)) = Len(s) - 1
         /\ \A i \in 1..(Len(s) - 1) : Remove(s, e)[i] = s[IF i < e THEN i ELSE i + 1]
<1> DEFINE a == SubSeq(s, 1, e - 1)
           b == SubSeq(s, e + 1, Len(s))
<1>0. Len(s) \in Nat /\ e \in Nat /\ e - 1 \in Nat /\ e <= Len(s)
  BY LenProperties
<1>1. /\ a \in Seq(S) /\ Len(a) = e - 1
      /\ \A i \in 1..(e - 1) : a[i] = s[i]
  <2>1. \A i \in 1..(e - 1) : s[i] \in S
    <3>1. \A i \in 1..(e - 1) : i \in 1..Len(s)
      BY <1>0
    <3> QED BY <3>1, ElementOfSeq
  <2>2. /\ a \in Seq(S) /\ Len(a) = IF 1 <= e - 1 THEN (e - 1) - 1 + 1 ELSE 0
        /\ \A i \in 1..((e - 1) - 1 + 1) : a[i] = s[1 + i - 1]
    BY <2>1, <1>0, SubSeqProperties
  <2> HIDE DEF a
  <2>3. \A i \in 1..(e - 1) : i \in 1..((e - 1) - 1 + 1) /\ 1 + i - 1 = i
    BY <1>0
  <2> QED BY <2>2, <2>3, <1>0
<1>2. /\ b \in Seq(S) /\ Len(b) = Len(s) - e
      /\ \A i \in 1..(Len(s) - e) : b[i] = s[e + i]
  <2>1. \A i \in (e + 1)..Len(s) : s[i] \in S
    <3>1. \A i \in (e + 1)..Len(s) : i \in 1..Len(s)
      BY <1>0
    <3> QED BY <3>1, ElementOfSeq
  <2>2. /\ b \in Seq(S) /\ Len(b) = IF e + 1 <= Len(s) THEN Len(s) - (e + 1) + 1 ELSE 0
        /\ \A i \in 1..(Len(s) - (e + 1) + 1) : b[i] = s[(e + 1) + i - 1]
    BY <2>1, <1>0, SubSeqProperties
  <2> HIDE DEF b
  <2>3. \A i \in 1..(Len(s) - e) : i \in 1..(Len(s) - (e + 1) + 1) /\ (e + 1) + i - 1 = e + i
    BY <1>0
  <2> QED BY <2>2, <2>3, <1>0
<1> HIDE DEF a, b
<1>3. /\ a \o b \in Seq(S) /\ Len(a \o b) = Len(s) - 1
      /\ \A i \in 1..(Len(s) - 1) : (a \o b)[i] = IF i <= e - 1 THEN a[i] ELSE b[i - (e - 1)]
  <2>1. Len(a) + Len(b) = Len(s) - 1 /\ Len(a) = e - 1
    BY <1>0, <1>1, <1>2
  <2>2. /\ a \o b \in Seq(S) /\ Len(a \o b) = Len(a) + Len(b)
        /\ \A i \in 1..Len(a) + Len(b) :
             (a \o b)[i] = IF i <= Len(a) THEN a[i] ELSE b[i - Len(a)]
    BY <1>1, <1>2, ConcatProperties
  <2> QED BY <2>1, <2>2
<1>4. ASSUME NEW i \in 1..(Len(s) - 1)
      PROVE  (a \o b)[i] = s[IF i < e THEN i ELSE i + 1]
  <2>1. CASE i < e
    <3>1. i \in 1..(e - 1) /\ i <= e - 1
      BY <2>1, <1>0
    <3> QED BY <3>1, <2>1, <1>1, <1>3
  <2>2. CASE ~(i < e)
    <3>1. i - (e - 1) \in 1..(Len(s) - e) /\ ~(i <= e - 1) /\ e + (i - (e - 1)) = i + 1
      BY <2>2, <1>0
    <3> QED BY <3>1, <2>2, <1>2, <1>3
  <2> QED BY <2>1, <2>2
<1> QED BY <1>3, <1>4 DEF Remove, a, b

(* Taking a point keeps the pool in order and bounded: the new one is      *)
(* last, the oldest stays first, and all others are ones it had (push).    *)
LEMMA PushedFacts ==
  ASSUME NEW s \in Seq(CheckpointType), Len(s) <= Keep, NEW c \in CheckpointType
  PROVE  /\ Pushed(s, c) \in Seq(CheckpointType)
         /\ Len(Pushed(s, c)) \in 1..Keep
         /\ Pushed(s, c)[Len(Pushed(s, c))] = c
         /\ s /= <<>> => Pushed(s, c)[1] = s[1]
         /\ \E e \in Nat :
              \A i \in 1..Len(Pushed(s, c)) :
                LET k == IF i < e THEN i ELSE i + 1
                IN  k \in 1..(Len(s) + 1)
                    /\ Pushed(s, c)[i] = IF k <= Len(s) THEN s[k] ELSE c
<1> DEFINE all == Append(s, c)
<1>0. Len(s) \in Nat /\ Keep \in Nat /\ Keep >= 2
  BY LenProperties, ServerAssumption
<1>1. /\ all \in Seq(CheckpointType) /\ Len(all) = Len(s) + 1
      /\ \A i \in 1..Len(s) : all[i] = s[i]
      /\ all[Len(s) + 1] = c
  BY AppendProperties
<1>2. Pushed(s, c) = IF Len(all) <= Keep THEN all
                     ELSE Remove(all, IF Len(all) > 2 THEN EvictIndex(all) ELSE 1)
  BY DEF Pushed
<1> HIDE DEF all
<1>3. \A k \in 1..(Len(s) + 1) : all[k] = IF k <= Len(s) THEN s[k] ELSE c
  <2>1. \A k \in 1..(Len(s) + 1) : k \in 1..Len(s) \/ (k = Len(s) + 1 /\ ~(k <= Len(s)))
    BY <1>0
  <2>2. \A k \in 1..Len(s) : k <= Len(s)
    BY <1>0
  <2> QED BY <1>1, <2>1, <2>2
<1>4. s /= <<>> => Len(s) >= 1
  BY EmptySeq, <1>0
<1>5. CASE Len(all) <= Keep
  <2>1. Pushed(s, c) = all
    BY <1>2, <1>5
  <2>2. \A i \in 1..Len(all) : i < Len(s) + 2 /\ i \in 1..(Len(s) + 1)
    BY <1>0, <1>1
  <2>3. Len(s) + 2 \in Nat /\ Len(all) \in 1..Keep
    BY <1>0, <1>1, <1>5
  <2>4. s /= <<>> => all[1] = s[1]
    <3>1. s /= <<>> => 1 \in 1..Len(s)
      BY <1>4, <1>0
    <3> QED BY <3>1, <1>1
  <2>5. \A i \in 1..Len(all) :
          LET k == IF i < Len(s) + 2 THEN i ELSE i + 1
          IN  k \in 1..(Len(s) + 1) /\ all[i] = IF k <= Len(s) THEN s[k] ELSE c
    BY <2>2, <1>3
  <2> QED BY <2>1, <2>3, <2>4, <2>5, <1>1
<1>6. CASE ~(Len(all) <= Keep)
  <2>1. Len(all) > 2 /\ Len(all) = Keep + 1
    BY <1>0, <1>1, <1>6
  <2> DEFINE e == EvictIndex(all)
             q == Remove(all, e)
  <2>2. e \in 2..(Len(all) - 1)
    BY <1>1, <2>1, EvictFacts
  <2>3. Pushed(s, c) = q
    BY <1>2, <1>6, <2>1
  <2> HIDE DEF e
  <2>4. e \in 1..Len(all) /\ e \in Nat
    BY <1>0, <2>1, <2>2
  <2>5. /\ q \in Seq(CheckpointType) /\ Len(q) = Len(all) - 1
        /\ \A i \in 1..(Len(all) - 1) : q[i] = all[IF i < e THEN i ELSE i + 1]
    BY <1>1, <2>4, RemoveFacts
  <2> HIDE DEF q
  <2>6. Len(q) \in 1..Keep /\ Len(q) = Len(s)
    BY <2>1, <2>5, <1>0, <1>1
  <2>7. q[Len(q)] = c
    <3>1. Len(q) \in 1..(Len(all) - 1) /\ ~(Len(q) < e) /\ Len(q) + 1 = Len(s) + 1
      BY <2>2, <2>5, <2>6, <1>1
    <3> QED BY <3>1, <2>5, <1>1
  <2>8. s /= <<>> => q[1] = s[1]
    <3>1. 1 \in 1..(Len(all) - 1) /\ 1 < e /\ 1 \in 1..Len(s)
      BY <2>2, <2>6, <1>1, <1>0
    <3> QED BY <3>1, <2>5, <1>1
  <2>9. ASSUME NEW i \in 1..Len(q)
        PROVE  LET k == IF i < e THEN i ELSE i + 1
               IN  k \in 1..(Len(s) + 1) /\ q[i] = IF k <= Len(s) THEN s[k] ELSE c
    <3> DEFINE k == IF i < e THEN i ELSE i + 1
    <3>1. k \in 1..(Len(s) + 1) /\ i \in 1..(Len(all) - 1)
      BY <2>5, <2>6, <1>0, <1>1
    <3>2. q[i] = all[k]
      BY <3>1, <2>5
    <3> HIDE DEF k
    <3>3. k \in 1..(Len(s) + 1) /\ q[i] = IF k <= Len(s) THEN s[k] ELSE c
      BY <3>1, <3>2, <1>3
    <3> QED BY <3>3 DEF k
  <2> QED BY <2>3, <2>4, <2>5, <2>6, <2>7, <2>8, <2>9
<1> QED BY <1>5, <1>6

(* The shared prefix is one of both texts, and the longest (Cache::shared).*)
LEMMA SharedFacts ==
  ASSUME tokens \in Seq(Token), NEW p \in Seq(Token)
  PROVE  /\ Shared(p) \in 0..Len(p) /\ Shared(p) <= Len(tokens)
         /\ SubSeq(p, 1, Shared(p)) = SubSeq(tokens, 1, Shared(p))
         /\ \A n \in 0..Len(p) :
              n <= Len(tokens) /\ SubSeq(p, 1, n) = SubSeq(tokens, 1, n) => n <= Shared(p)
<1> DEFINE S == { n \in 0..Len(p) :
                    n <= Len(tokens) /\ SubSeq(p, 1, n) = SubSeq(tokens, 1, n) }
<1>0. Len(p) \in Nat /\ Len(tokens) \in Nat
  BY LenProperties
<1>1. 0 \in S
  <2>1. SubSeq(p, 1, 0) = <<>> /\ SubSeq(tokens, 1, 0) = <<>>
    BY SubSeqEmpty
  <2> QED BY <2>1, <1>0
<1>2. S \in SUBSET (0..Len(p))
  OBVIOUS
<1>3. Largest(S) \in S /\ \A y \in S : y <= Largest(S)
  <2> HIDE DEF S
  <2> QED BY <1>0, <1>1, <1>2, LargestFacts
<1>4. Shared(p) \in S /\ \A y \in S : y <= Shared(p)
  BY <1>3 DEF Shared
<1> QED BY <1>4

(* The point resumed is the last inside the shared prefix (chat).          *)
LEMMA ResumableFacts ==
  ASSUME points \in Seq(CheckpointType), NEW p
  PROVE  /\ Resumable(p) \in 0..Len(points)
         /\ Resumable(p) > 0 => points[Resumable(p)].pos <= Shared(p)
         /\ \A i \in 1..Len(points) : points[i].pos <= Shared(p) => i <= Resumable(p)
<1> DEFINE S == {0} \union { i \in 1..Len(points) : points[i].pos <= Shared(p) }
<1>0. Len(points) \in Nat
  BY LenProperties
<1>1. S \in SUBSET (0..Len(points)) /\ 0 \in S
  BY <1>0
<1>2. Largest(S) \in S /\ \A y \in S : y <= Largest(S)
  <2> HIDE DEF S
  <2> QED BY <1>0, <1>1, LargestFacts
<1>3. Resumable(p) \in S /\ \A y \in S : y <= Resumable(p)
  BY <1>2 DEF Resumable
<1> HIDE DEF S
<1>4. \A i \in 1..Len(points) : points[i].pos <= Shared(p) => i \in S
  BY DEF S
<1>5. Resumable(p) > 0 => points[Resumable(p)].pos <= Shared(p)
  BY <1>3 DEF S
<1> QED BY <1>1, <1>3, <1>4, <1>5

----------------------------------------------------------------------------
(* Reading a prompt. *)

(* A part of a prefill appends to what the runner holds, and leaves the    *)
(* draft head no further than the text (prefill).                          *)
LEMMA PrefilledFacts ==
  ASSUME NEW r \in RunnerType, NEW t \in Seq(Token), Holds(r, t),
         r.mtpPos <= r.pos,
         NEW toks \in Seq(Token), Len(toks) >= 1, r.pos + Len(toks) <= Cap
  PROVE  /\ Prefilled(r, toks) \in RunnerType
         /\ Holds(Prefilled(r, toks), t \o toks)
         /\ Prefilled(r, toks).mtpPos <= Prefilled(r, toks).pos
<1> DEFINE n    == Len(toks)
           hs   == [j \in 1..(n - 1) |-> Row(r, toks, j)]
           tail == SubSeq(toks, 2, n)
           fed  == Fed(r, toks)
           warm == IF HasMtp THEN Warmed(fed, hs, tail) ELSE fed
           h    == Row(r, toks, n)
<1>0. /\ n \in Nat /\ r.pos \in Nat /\ r.mtpPos \in Nat /\ Cap \in Nat
      /\ r.pos + n <= Cap /\ n >= 1
  BY LenProperties, SizeAssumption DEF RunnerType
<1>1. /\ fed \in RunnerType /\ Holds(fed, t \o toks)
      /\ fed.pos = r.pos + n /\ fed.mtpPos = r.mtpPos
  BY FedType, FedHolds DEF Fed, RunnerType
<1>2. tail \in Seq(Token) /\ Len(tail) = n - 1
  <2>1. /\ tail \in Seq(Token)
        /\ Len(tail) = IF 2 <= n THEN n - 2 + 1 ELSE 0
    BY <1>0, SubSeqType
  <2>2. \A k \in Nat : k >= 1 => k = 1 \/ 2 <= k
    OBVIOUS
  <2> HIDE DEF tail, n
  <2>3. CASE n = 1
    BY <2>1, <2>3
  <2>4. CASE 2 <= n
    BY <2>1, <2>4, <1>0
  <2> QED BY <2>2, <2>3, <2>4, <1>0
<1>3. h \in Seq(Token)
  BY <1>0, RowType
<1>4. \A j \in 1..Len(tail) : hs[j] \in Seq(Token)
  <2> SUFFICES ASSUME NEW j \in 1..Len(tail) PROVE hs[j] \in Seq(Token)
    OBVIOUS
  <2>1. j \in 1..(n - 1) /\ j \in Nat /\ j <= n
    BY <1>0, <1>2
  <2>2. Row(r, toks, j) \in Seq(Token)
    BY <2>1, RowType
  <2> QED BY <2>1, <2>2
<1> HIDE DEF fed, hs, tail, h
<1>5. /\ warm \in RunnerType /\ SameText(fed, warm)
      /\ warm.mtpPos <= r.mtpPos + (n - 1)
  <2>1. CASE HasMtp
    <3>1. fed.mtpPos + Len(tail) <= Cap
      BY <1>0, <1>1, <1>2
    <3>2. Warmed(fed, hs, tail) \in RunnerType /\ SameText(fed, Warmed(fed, hs, tail))
      BY <3>1, <1>1, <1>2, <1>4, WarmedType
    <3>3. Warmed(fed, hs, tail).mtpPos = r.mtpPos + (n - 1)
      BY <1>1, <1>2 DEF Warmed, RunnerType
    <3>4. warm = Warmed(fed, hs, tail)
      BY <2>1
    <3> HIDE DEF warm
    <3> QED BY <3>2, <3>3, <3>4, <1>0
  <2>2. CASE ~HasMtp
    BY <2>2, <1>0, <1>1 DEF SameText
  <2> QED BY <2>1, <2>2
<1>6. Prefilled(r, toks) = [warm EXCEPT !.specH = h, !.x = h]
  BY DEF Prefilled, fed, hs, tail, h
<1> HIDE DEF warm
<1> DEFINE done == [warm EXCEPT !.specH = h, !.x = h]
<1>7. /\ done \in RunnerType /\ SameText(warm, done) /\ done.mtpPos = warm.mtpPos
      /\ done.pos = warm.pos
  BY <1>3, <1>5 DEF RunnerType, SameText
<1>8. Holds(done, t \o toks)
  <2> HIDE DEF done
  <2> QED BY <1>1, <1>5, <1>7, SameTextHolds
<1>9. done.mtpPos <= done.pos
  <2>1. warm.pos = r.pos + n /\ warm.mtpPos \in Nat
    BY <1>1, <1>5 DEF SameText, RunnerType
  <2> HIDE DEF done
  <2> QED BY <2>1, <1>0, <1>5, <1>7
<1> QED BY <1>6, <1>7, <1>8, <1>9

----------------------------------------------------------------------------
(* Saying a reply. *)

(* Of what a round said the server says a prefix, all of it unless a token *)
(* stops, and nothing that does (generate's take_while).                   *)
LEMMA UpToStopFacts ==
  ASSUME NEW s \in Seq(Token)
  PROVE  \E m \in 0..Len(s) :
           /\ UpToStop(s) = SubSeq(s, 1, m)
           /\ \A i \in 1..m : s[i] \notin Stop
           /\ m = Len(s) \/ s[m + 1] \in Stop
<1> DEFINE stops == { i \in 1..Len(s) : s[i] \in Stop }
           f == CHOOSE i \in stops : \A j \in stops : i <= j
<1>0. Len(s) \in Nat
  BY LenProperties
<1>1. CASE stops = {}
  <2>1. UpToStop(s) = SubSeq(s, 1, Len(s))
    BY <1>1, SubSeqFull DEF UpToStop
  <2>2. \A i \in 1..Len(s) : s[i] \notin Stop
    BY <1>1
  <2>3. Len(s) \in 0..Len(s)
    BY <1>0
  <2> QED BY <2>1, <2>2, <2>3
<1>2. CASE stops /= {}
  <2>1. \E i \in stops : \A j \in stops : i <= j
    <3>1. stops \in SUBSET (0..Len(s))
      OBVIOUS
    <3> HIDE DEF stops
    <3> QED BY <3>1, <1>0, <1>2, LeastExists
  <2>2. f \in stops /\ \A j \in stops : f <= j
    <3> HIDE DEF stops
    <3> QED BY <2>1
  <2>3. UpToStop(s) = SubSeq(s, 1, f - 1)
    BY <1>2 DEF UpToStop
  <2> HIDE DEF f
  <2>4. f \in 1..Len(s) /\ s[f] \in Stop
    BY <2>2
  <2>5. f - 1 \in 0..Len(s) /\ (f - 1) + 1 = f
    BY <1>0, <2>4
  <2>6. ASSUME NEW i \in 1..(f - 1) PROVE s[i] \notin Stop
    <3>1. i \in 1..Len(s) /\ ~(f <= i)
      BY <1>0, <2>4
    <3> QED BY <3>1, <2>2
  <2>7. s[(f - 1) + 1] \in Stop
    BY <2>4, <2>5
  <2> QED BY <2>3, <2>5, <2>6, <2>7
<1> QED BY <1>1, <1>2

(* A call that errs has said nothing.                                      *)
LEMMA VerifyErrs ==
  ASSUME NEW r, NEW fed, NEW unheaded, NEW o \in VerifyResults(r, fed, unheaded), ~o.ok
  PROVE  o.said = <<>>
BY DEF VerifyResults, Err

LEMMA StepErrs ==
  ASSUME NEW r, NEW tok, NEW o \in StepResults(r, tok), ~o.ok
  PROVE  o.said = <<>>
BY DEF StepResults, Err

(* A round of the decode loop, whichever way it is drafted, says what the  *)
(* model could have said one token at a time, and the runner holds what it *)
(* said, or errs and holds what it held (generate's loop).                 *)
LEMMA RoundFacts ==
  ASSUME rt \in RunnerType, ids \in Seq(Token), out \in Seq(Token), next \in Seq(Token),
         NEW t \in Seq(Token), Holds(rt, t), Len(t) >= 1, next /= <<>>,
         NEW o \in RoundResults
  PROVE  /\ Good(o) /\ Keeps(o, t) /\ Draws(o, t, next[1])
         /\ ~o.ok => o.said = <<>>
<1>0. next[1] \in Token
  <2>1. Len(next) \in Nat \ {0}
    BY EmptySeq
  <2>2. 1 \in 1..Len(next)
    BY <2>1
  <2> QED BY <2>2, ElementOfSeq
<1>1. CASE Depths = {0}
  <2>1. o \in StepResults(rt, next[1])
    BY <1>1 DEF RoundResults
  <2> QED BY <2>1, <1>0, StepFacts, StepDraws, StepErrs
<1>2. CASE Depths /= {0}
  <2>0. HasMtp /\ Depths \subseteq 1..MaxDepth
    BY <1>2, ServerAssumption
  <2>1. CASE Proposed /= <<>>
    <3>1. o \in ProposedResults(rt, next[1], Proposed)
      BY <1>2, <2>1 DEF RoundResults
    <3>2. Proposed \in Seq(Token)
      <4>1. (ids \o out) \o next \in Seq(Token)
        BY ConcatProperties
      <4>2. LookupMax \in Nat /\ LookupMin \in Nat /\ MaxDepth \in Nat
        BY ServerAssumption, SizeAssumption DEF MaxDepth
      <4> QED BY <4>1, <4>2, LookupType DEF Proposed
    <3>3. rt.pos > 0
      BY LenProperties DEF Holds
    <3>4. ~o.ok => o.said = <<>>
      BY <3>1, VerifyErrs DEF ProposedResults
    <3> HIDE DEF Proposed
    <3> QED BY <3>1, <3>2, <3>3, <3>4, <1>0, <2>0, ProposedFacts, ProposedDraws
  <2>2. CASE Proposed = <<>>
    <3>1. PICK d \in Depths : o \in SpeculateResults(rt, next[1], d)
      BY <1>2, <2>2 DEF RoundResults
    <3>2. d \in Nat /\ d > 0
      BY <2>0
    <3>3. ~o.ok => o.said = <<>>
      BY <3>1, VerifyErrs, StepErrs DEF SpeculateResults
    <3> QED BY <3>1, <3>2, <3>3, <1>0, SpeculateFacts, SpeculateDraws
  <2> QED BY <2>1, <2>2
<1> QED BY <1>1, <1>2

----------------------------------------------------------------------------
(* The inductive invariant. *)

(* The prompt q opens a turn after its first n tokens.                     *)
Opens(q, n) == n \in 1..(Len(q) - 1) /\ q[n + 1] = Turn

(* The point c is one of the first n tokens of p, and was taken where some *)
(* prompt opened a turn.                                                   *)
PointIn(c, p, n) ==
  /\ c.mtpPos <= c.pos
  /\ c.pos \in 1..n /\ c.delta = SubSeq(p, 1, c.pos)
  /\ \E q \in Prompts : Opens(q, c.pos) /\ c.delta = SubSeq(q, 1, c.pos)

PointsStand == \A i \in 1..Len(points) : PointIn(points[i], ids, at)

Ordered(s) == \A i, j \in 1..Len(s) : i < j => s[i].pos < s[j].pos

(* What the phases have in common with the request.                        *)
Driven ==
  /\ phase /= "idle" => ids \in Prompts
  /\ phase = "prefill" => /\ at < Len(ids) /\ out = <<>> /\ next = <<>>
                          /\ rt.mtpPos <= rt.pos
  /\ phase /= "prefill" => at = Len(ids) /\ tokens = ids
  /\ phase = "decode" => next /= <<>>

(* The runner holds what was read of the prompt and a text after it: the   *)
(* reply, and when the request is over, that or what was said after a stop.*)
HoldsRead ==
  \E w \in Seq(Token) : /\ Holds(rt, SubSeq(ids, 1, at) \o w)
                        /\ phase /= "idle" => w = out

IInv == TypeOK /\ Driven /\ PointsStand /\ Ordered(points) /\ HoldsRead

(* What the assumptions say of a prompt and of the window.                 *)
LEMMA PromptFacts ==
  ASSUME NEW p \in Prompts
  PROVE  /\ p \in Seq(Token) /\ Len(p) \in Nat /\ Len(p) >= 1
         /\ Len(p) <= MaxSeq - 1 /\ MaxSeq \in Nat /\ Cap \in Nat /\ MaxSeq <= Cap
BY ServerAssumption, SizeAssumption

(* Two adjacent parts of a text make one.                                  *)
LEMMA ReadOn ==
  ASSUME NEW s \in Seq(Token), NEW m \in 0..Len(s), NEW n \in m..Len(s)
  PROVE  SubSeq(s, 1, m) \o SubSeq(s, m + 1, n) = SubSeq(s, 1, n)
<1>1. Len(s) \in Nat
  BY LenProperties
<1>2. 1 \in 1..Len(s) + 1 /\ m \in (1 - 1)..Len(s)
  BY <1>1
<1> QED BY <1>2, ConcatAdjacentSubSeq

(* What was read of a prompt begins what the runner holds.                 *)
LEMMA ReadBegins ==
  ASSUME NEW s \in Seq(Token), NEW m \in 0..Len(s), NEW w \in Seq(Token), NEW n \in 0..m
  PROVE  SubSeq(SubSeq(s, 1, m) \o w, 1, n) = SubSeq(s, 1, n)
<1> DEFINE a == SubSeq(s, 1, m)
<1>0. Len(s) \in Nat /\ m \in Nat /\ m <= Len(s)
  BY LenProperties
<1>1. a \in Seq(Token) /\ Len(a) = m
  BY <1>0, PrefixType
<1>2. CASE n = 0
  BY <1>2, SubSeqEmpty
<1>3. CASE n /= 0
  <2>1. n \in 1..Len(a) /\ 1 \in 1..Len(a) /\ n \in 1..m
    BY <1>0, <1>1, <1>3
  <2>2. SubSeq(a, 1, n) = SubSeq(s, 1, n)
    BY <2>1, PrefixOfPrefix
  <2> HIDE DEF a
  <2>3. SubSeq(a \o w, 1, n) = SubSeq(a, 1, n)
    BY <1>1, <2>1, SubSeqOfConcat1
  <2> QED BY <2>2, <2>3 DEF a
<1> QED BY <1>2, <1>3

(* Resuming a point inside what was read: the runner holds its prefix.     *)
LEMMA ResumedHolds ==
  ASSUME TypeOK, HoldsRead, NEW c \in CheckpointType, PointIn(c, ids, at)
  PROVE  /\ Resumed(rt, c) \in RunnerType /\ Holds(Resumed(rt, c), c.delta)
         /\ Resumed(rt, c).mtpPos <= Resumed(rt, c).pos
<1>0. /\ rt \in RunnerType /\ ids \in Seq(Token) /\ at \in 0..Len(ids)
      /\ Len(ids) \in Nat
  BY LenProperties DEF TypeOK
<1>1. /\ Resumed(rt, c) \in RunnerType /\ Resumed(rt, c).pos = c.pos
      /\ Resumed(rt, c).delta = c.delta /\ Resumed(rt, c).kv = rt.kv
      /\ Resumed(rt, c).mtpPos = c.mtpPos
  BY <1>0, ForgottenHolds DEF Resumed, RunnerType
<1>2. PICK w \in Seq(Token) : Holds(rt, SubSeq(ids, 1, at) \o w)
  BY DEF HoldsRead
<1> DEFINE t == SubSeq(ids, 1, at) \o w
<1>3. t \in Seq(Token) /\ Len(t) = at + Len(w) /\ Len(w) \in Nat
  <2>1. SubSeq(ids, 1, at) \in Seq(Token) /\ Len(SubSeq(ids, 1, at)) = at
    BY <1>0, PrefixType
  <2> QED BY <2>1, ConcatProperties, LenProperties
<1>4. c.pos \in 1..at /\ c.delta = SubSeq(ids, 1, c.pos) /\ c.mtpPos <= c.pos
  BY DEF PointIn
<1>5. SubSeq(t, 1, c.pos) = c.delta
  <2>1. c.pos \in 0..at
    BY <1>4
  <2> QED BY <2>1, <1>0, <1>4, ReadBegins
<1>6. c.pos \in 0..Len(t)
  <2> HIDE DEF t
  <2> QED BY <1>0, <1>3, <1>4
<1>7. Holds(rt, t)
  BY <1>2
<1> HIDE DEF t
<1>8. Holds(Resumed(rt, c), SubSeq(t, 1, c.pos))
  BY <1>1, <1>3, <1>5, <1>6, <1>7, ShortenHolds
<1> QED BY <1>1, <1>4, <1>5, <1>8

(* A point stands in any prompt that begins with its prefix.               *)
LEMMA PointMoves ==
  ASSUME NEW c, NEW p, NEW n, NEW q \in Seq(Token), NEW m \in 0..Len(q), PointIn(c, p, n),
         SubSeq(p, 1, c.pos) = SubSeq(q, 1, c.pos), c.pos <= m
  PROVE  PointIn(c, q, m)
<1>1. Len(q) \in Nat
  BY LenProperties
<1>2. c.pos \in 1..n /\ c.delta = SubSeq(p, 1, c.pos)
  BY DEF PointIn
<1>3. c.pos \in 1..m
  BY <1>1, <1>2
<1> QED BY <1>2, <1>3 DEF PointIn

LEMMA InitInv == Init => IInv
<1> SUFFICES ASSUME Init PROVE IInv
  OBVIOUS
<1>0. /\ <<>> \in Seq(Token) /\ <<>> \in Seq(CheckpointType) /\ Len(<<>>) = 0
      /\ MaxSeq \in Nat /\ Keep \in Nat /\ Cap \in Nat
  BY ServerAssumption, SizeAssumption
<1>1. rt \in RunnerType
  BY <1>0 DEF Init, Loaded, RunnerType, None, Junk
<1>2. TypeOK
  BY <1>0, <1>1 DEF Init, TypeOK
<1>3. Driven
  BY <1>0 DEF Init, Driven
<1>4. PointsStand /\ Ordered(points)
  BY <1>0 DEF Init, PointsStand, Ordered
<1>5. HoldsRead
  <2>1. SubSeq(ids, 1, at) \o <<>> = <<>>
    BY SubSeqEmpty, ConcatEmptySeq, <1>0 DEF Init
  <2>2. Holds(rt, <<>>)
    BY <1>0 DEF Init, Loaded, Holds
  <2> QED BY <1>0, <2>1, <2>2 DEF HoldsRead, Init
<1> QED BY <1>2, <1>3, <1>4, <1>5 DEF IInv

(* A request that resumes: its prompt begins with all that the points kept *)
(* vouch for, and the runner holds the prefix of the last (chat).          *)
LEMMA AcceptInv ==
  ASSUME IInv, NEW p \in Prompts, NEW asked \in Ceilings, Accept(p, asked)
  PROVE  IInv'
<1> DEFINE i == Resumable(p)
           c == points[i]
<1>0. /\ p \in Seq(Token) /\ Len(p) \in Nat /\ Len(p) >= 1 /\ Len(p) <= MaxSeq - 1
      /\ MaxSeq \in Nat
  BY PromptFacts
<1>1. /\ TypeOK /\ Driven /\ PointsStand /\ Ordered(points) /\ HoldsRead
      /\ tokens \in Seq(Token) /\ points \in Seq(CheckpointType) /\ rt \in RunnerType
      /\ Len(points) \in Nat /\ Len(points) <= Keep /\ Keep \in Nat
  BY LenProperties, ServerAssumption DEF IInv, TypeOK
<1>2. /\ phase = "idle" /\ phase' = "prefill" /\ ids' = p /\ out' = <<>> /\ next' = <<>>
      /\ outcome' = "none" /\ want' \in 0..MaxSeq
  <2>1. want' = Min2(asked, MaxSeq - Len(p)) /\ asked \in Nat
    BY ServerAssumption DEF Accept
  <2>2. want' \in 0..MaxSeq
    BY <2>1, <1>0 DEF Min2
  <2> QED BY <2>2 DEF Accept
<1>3. at = Len(ids) /\ tokens = ids /\ ids \in Seq(Token) /\ Len(ids) \in Nat
  BY <1>1, <1>2, LenProperties DEF Driven, TypeOK
<1>4. CASE i > 0 /\ points[i].pos \in 1..(Len(p) - 1)
  <2>1. /\ rt' = Resumed(rt, c) /\ points' = TruncatedTo(i) /\ at' = c.pos
        /\ UNCHANGED tokens
    BY <1>4 DEF Accept
  <2>2. i \in 1..Len(points) /\ c.pos <= Shared(p)
    <3>1. i \in 0..Len(points) /\ (i > 0 => points[i].pos <= Shared(p))
      BY <1>1, ResumableFacts
    <3> HIDE DEF i
    <3> QED BY <3>1, <1>1, <1>4
  <2>3. c \in CheckpointType /\ PointIn(c, ids, at)
    <3> HIDE DEF i
    <3>1. c \in CheckpointType
      BY <2>2, <1>1, ElementOfSeq
    <3> QED BY <3>1, <2>2, <1>1 DEF PointsStand
  <2>4. c.pos \in 1..(Len(p) - 1) /\ c.pos \in Nat /\ c.pos <= Len(ids)
    BY <1>3, <1>4, <2>3 DEF PointIn
  <2> HIDE DEF i
  <2>5. \A j \in 1..c.pos : SubSeq(p, 1, j) = SubSeq(ids, 1, j)
    <3>1. /\ Shared(p) \in 0..Len(p) /\ Shared(p) <= Len(ids)
          /\ SubSeq(p, 1, Shared(p)) = SubSeq(ids, 1, Shared(p))
      BY <1>0, <1>1, <1>3, SharedFacts
    <3>2. Shared(p) \in 0..Len(ids)
      BY <3>1, <1>3
    <3> SUFFICES ASSUME NEW j \in 1..c.pos PROVE SubSeq(p, 1, j) = SubSeq(ids, 1, j)
      OBVIOUS
    <3>3. j \in 1..Shared(p)
      BY <3>1, <2>2, <2>4
    <3>4. SubSeq(SubSeq(p, 1, Shared(p)), 1, j) = SubSeq(p, 1, j)
      BY <3>1, <3>3, <1>0, PrefixOfPrefix
    <3>5. SubSeq(SubSeq(ids, 1, Shared(p)), 1, j) = SubSeq(ids, 1, j)
      BY <3>2, <3>3, <1>3, PrefixOfPrefix
    <3> QED BY <3>1, <3>4, <3>5
  <2>6. c.delta = SubSeq(p, 1, c.pos)
    <3>1. c.pos \in 1..c.pos
      BY <2>4
    <3> QED BY <3>1, <2>3, <2>5 DEF PointIn
  <2>7. rt' \in RunnerType /\ Holds(rt', SubSeq(p, 1, c.pos)) /\ rt'.mtpPos <= rt'.pos
    BY <1>1, <2>1, <2>3, <2>6, ResumedHolds
  <2>8. /\ points' \in Seq(CheckpointType) /\ Len(points') = i
        /\ \A j \in 1..i : points'[j] = points[j]
    <3>1. \A j \in 1..i : points[j] \in CheckpointType
      <4>1. \A j \in 1..i : j \in 1..Len(points)
        BY <2>2
      <4> QED BY <4>1, <1>1, ElementOfSeq
    <3>2. i \in Int /\ i >= 1
      BY <2>2
    <3>3. /\ points' \in Seq(CheckpointType)
          /\ Len(points') = IF 1 <= i THEN i - 1 + 1 ELSE 0
          /\ \A j \in 1..(i - 1 + 1) : points'[j] = points[1 + j - 1]
      BY <2>1, <3>1, <3>2, SubSeqProperties DEF TruncatedTo
    <3>4. \A j \in 1..i : j \in 1..(i - 1 + 1) /\ 1 + j - 1 = j
      BY <3>2
    <3> QED BY <3>2, <3>3, <3>4
  <2>9. PointsStand'
    <3> SUFFICES ASSUME NEW j \in 1..i PROVE PointIn(points[j], p, c.pos)
      BY <1>2, <2>1, <2>8 DEF PointsStand
    <3>1. j \in 1..Len(points) /\ (j = i \/ j < i)
      BY <2>2
    <3>2. PointIn(points[j], ids, at)
      BY <3>1, <1>1 DEF PointsStand
    <3>3. points[j].pos \in 1..c.pos
      <4>1. points[j].pos \in 1..at
        BY <3>2 DEF PointIn
      <4>2. j < i => points[j].pos < c.pos
        BY <3>1, <2>2, <1>1 DEF Ordered
      <4> QED BY <4>1, <4>2, <3>1, <2>4, <1>3
    <3>4. SubSeq(ids, 1, points[j].pos) = SubSeq(p, 1, points[j].pos)
      BY <3>3, <2>5
    <3>5. c.pos \in 0..Len(p) /\ points[j].pos <= c.pos
      BY <3>3, <2>4, <1>0
    <3> DEFINE d == points[j]
               m == c.pos
    <3>6. /\ PointIn(d, ids, at) /\ SubSeq(ids, 1, d.pos) = SubSeq(p, 1, d.pos)
          /\ m \in 0..Len(p) /\ d.pos <= m
      BY <3>2, <3>4, <3>5
    <3> HIDE DEF d, m
    <3>7. PointIn(d, p, m)
      BY <3>6, <1>0, PointMoves
    <3> QED BY <3>7 DEF d, m
  <2>10. Ordered(points')
    <3>1. \A j \in 1..i : j \in 1..Len(points)
      BY <2>2
    <3> QED BY <3>1, <2>8, <1>1 DEF Ordered
  <2>11. HoldsRead'
    <3>1. SubSeq(p, 1, c.pos) \o <<>> = SubSeq(p, 1, c.pos)
      <4>1. SubSeq(p, 1, c.pos) \in Seq(Token)
        BY <2>4, <1>0, PrefixType
      <4> QED BY <4>1, ConcatEmptySeq
    <3>2. Holds(rt', SubSeq(ids', 1, at') \o <<>>)
      BY <3>1, <2>1, <2>7, <1>2
    <3>3. <<>> \in Seq(Token)
      OBVIOUS
    <3> QED BY <3>2, <3>3, <1>2 DEF HoldsRead
  <2>12. TypeOK'
    <3>1. at' \in 0..Len(ids') /\ Len(points') <= Keep
      BY <2>1, <2>2, <2>4, <2>8, <1>0, <1>1, <1>2
    <3>2. <<>> \in Seq(Token) /\ Len(<<>>) <= 1
      OBVIOUS
    <3> QED BY <3>1, <3>2, <2>1, <2>7, <2>8, <1>0, <1>1, <1>2 DEF TypeOK
  <2>13. Driven'
    <3>1. at' < Len(ids')
      BY <2>1, <2>4, <1>0, <1>2
    <3> QED BY <3>1, <2>7, <1>2 DEF Driven
  <2> QED BY <2>9, <2>10, <2>11, <2>12, <2>13 DEF IInv
<1>5. CASE ~(i > 0 /\ points[i].pos \in 1..(Len(p) - 1))
  <2>1. rt' = Cleared(rt) /\ points' = <<>> /\ tokens' = <<>> /\ at' = 0
    BY <1>5 DEF Accept
  <2>2. rt' \in RunnerType /\ Holds(rt', <<>>) /\ rt'.mtpPos <= rt'.pos
    <3>1. Cleared(rt).mtpPos = 0 /\ Cleared(rt).pos = 0
      BY <1>1 DEF Cleared, RunnerType
    <3> QED BY <3>1, <2>1, <1>1, ForgottenHolds
  <2>3. <<>> \in Seq(Token) /\ Len(<<>>) = 0 /\ <<>> \in Seq(CheckpointType)
    OBVIOUS
  <2>4. PointsStand' /\ Ordered(points')
    BY <2>1, <2>3 DEF PointsStand, Ordered
  <2>5. HoldsRead'
    <3>1. SubSeq(p, 1, 0) \o <<>> = <<>>
      BY SubSeqEmpty, ConcatEmptySeq, <2>3
    <3> QED BY <3>1, <2>1, <2>2, <2>3, <1>2 DEF HoldsRead
  <2>6. TypeOK'
    BY <2>1, <2>2, <2>3, <1>0, <1>1, <1>2 DEF TypeOK
  <2>7. Driven'
    BY <2>1, <2>2, <1>0, <1>2 DEF Driven
  <2> QED BY <2>4, <2>5, <2>6, <2>7 DEF IInv
<1> QED BY <1>4, <1>5

(* A part of the prompt read: the prompt's own tokens, after those before. *)
LEMMA ReadHolds ==
  ASSUME IInv, phase = "prefill", NEW b \in (at + 1)..Len(ids)
  PROVE  LET r == Prefilled(rt, SubSeq(ids, at + 1, b))
         IN  /\ r \in RunnerType /\ Holds(r, SubSeq(ids, 1, b)) /\ r.mtpPos <= r.pos
             /\ Holds(rt, SubSeq(ids, 1, at))
<1> DEFINE toks == SubSeq(ids, at + 1, b)
           t    == SubSeq(ids, 1, at)
<1>0. /\ ids \in Seq(Token) /\ Len(ids) \in Nat /\ at \in 0..Len(ids) /\ at \in Nat
      /\ rt \in RunnerType /\ Len(ids) <= Cap /\ Cap \in Nat
  <2>1. ids \in Prompts
    BY DEF IInv, Driven
  <2>2. /\ ids \in Seq(Token) /\ Len(ids) \in Nat /\ Len(ids) <= MaxSeq - 1
        /\ MaxSeq \in Nat /\ Cap \in Nat /\ MaxSeq <= Cap
    BY <2>1, PromptFacts
  <2> QED BY <2>2 DEF IInv, TypeOK
<1>1. t \in Seq(Token) /\ Len(t) = at
  BY <1>0, PrefixType
<1>2. Holds(rt, t)
  <2>1. PICK w \in Seq(Token) : Holds(rt, t \o w) /\ w = out
    BY DEF IInv, HoldsRead
  <2>2. w = <<>>
    BY <2>1 DEF IInv, Driven
  <2>3. t \o <<>> = t
    <3> HIDE DEF t
    <3> QED BY <1>1, ConcatEmptySeq
  <2> QED BY <2>1, <2>2, <2>3
<1>3. toks \in Seq(Token) /\ Len(toks) = b - at /\ b - at >= 1
  <2>1. at + 1 \in Nat /\ at + 1 > 0 /\ b \in Nat /\ b <= Len(ids) /\ at + 1 <= b
    BY <1>0
  <2>2. toks \in Seq(Token) /\ Len(toks) = IF at + 1 <= b THEN b - (at + 1) + 1 ELSE 0
    BY <2>1, <1>0, SubSeqType
  <2> HIDE DEF toks
  <2> QED BY <2>1, <2>2, <1>0
<1>4. t \o toks = SubSeq(ids, 1, b)
  <2>1. b \in at..Len(ids)
    BY <1>0
  <2> QED BY <2>1, <1>0, ReadOn
<1>5. rt.pos + Len(toks) <= Cap
  <2>1. rt.pos = at /\ b <= Len(ids)
    BY <1>0, <1>1, <1>2 DEF Holds
  <2> HIDE DEF toks
  <2> QED BY <2>1, <1>0, <1>3
<1>6. rt.mtpPos <= rt.pos
  BY DEF IInv, Driven
<1> HIDE DEF toks, t
<1>7. /\ Prefilled(rt, toks) \in RunnerType /\ Holds(Prefilled(rt, toks), t \o toks)
      /\ Prefilled(rt, toks).mtpPos <= Prefilled(rt, toks).pos
  BY <1>0, <1>1, <1>2, <1>3, <1>5, <1>6, PrefilledFacts
<1> QED BY <1>2, <1>4, <1>7 DEF toks, t

(* Up to the next turn: where the prefill stops a turn opens.              *)
LEMMA NextBound ==
  ASSUME IInv, Bounds /= {}
  PROVE  LET b == CHOOSE x \in Bounds : \A c \in Bounds : x <= c
         IN  b \in (at + 1)..(Len(ids) - 1) /\ Opens(ids, b)
<1>0. Len(ids) \in Nat /\ at \in Nat
  BY LenProperties DEF IInv, TypeOK
<1>1. \E x \in Bounds : \A c \in Bounds : x <= c
  <2>1. Bounds \in SUBSET (0..Len(ids))
    BY <1>0 DEF Bounds
  <2> QED BY <2>1, <1>0, LeastExists
<1> DEFINE b == CHOOSE x \in Bounds : \A c \in Bounds : x <= c
<1>2. b \in Bounds
  BY <1>1
<1> HIDE DEF b
<1>3. b \in (at + 1)..(Len(ids) - 1) /\ ids[b + 1] = Turn
  BY <1>2 DEF Bounds
<1>4. b \in 1..(Len(ids) - 1)
  BY <1>0, <1>3
<1> QED BY <1>3, <1>4 DEF Opens, b

(* A point is taken at it, of what has been read (prefill_cached).         *)
LEMMA PrefillTurnInv ==
  ASSUME IInv, PrefillTurn
  PROVE  IInv'
<1> DEFINE c == Checkpoint(rt')
<1>1. /\ phase = "prefill" /\ rt' = Prefilled(rt, SubSeq(ids, at + 1, at'))
      /\ points' = Pushed(points, c)
      /\ UNCHANGED <<tokens, phase, ids, want, out, next, outcome>>
  BY DEF PrefillTurn
<1>2. at' \in (at + 1)..(Len(ids) - 1) /\ Opens(ids, at')
  BY NextBound DEF PrefillTurn
<1>3. /\ ids \in Seq(Token) /\ Len(ids) \in Nat /\ at \in 0..Len(ids) /\ at \in Nat
      /\ at' \in Nat /\ at < at' /\ at' < Len(ids) /\ at' <= Len(ids) /\ ids \in Prompts
      /\ points \in Seq(CheckpointType) /\ Len(points) <= Keep /\ Len(points) \in Nat
      /\ Keep \in Nat
  <2>1. /\ ids \in Seq(Token) /\ Len(ids) \in Nat /\ at \in 0..Len(ids) /\ ids \in Prompts
        /\ points \in Seq(CheckpointType) /\ Len(points) <= Keep /\ Len(points) \in Nat
    BY <1>1, LenProperties DEF IInv, TypeOK, Driven
  <2>2. at \in Nat /\ at' \in Nat /\ at < at' /\ at' < Len(ids) /\ at' <= Len(ids)
    BY <1>2, <2>1
  <2> QED BY <2>1, <2>2, ServerAssumption
<1>4. rt' \in RunnerType /\ Holds(rt', SubSeq(ids, 1, at')) /\ rt'.mtpPos <= rt'.pos
  <2>1. at' \in (at + 1)..Len(ids)
    BY <1>2, <1>3
  <2> QED BY <2>1, <1>1, ReadHolds
<1>5. c \in CheckpointType
  BY <1>4, ForgottenHolds
<1>6. c.pos = at' /\ c.delta = SubSeq(ids, 1, at') /\ c.mtpPos <= c.pos
  <2>1. Len(SubSeq(ids, 1, at')) = at'
    BY <1>3, PrefixType
  <2> QED BY <2>1, <1>4 DEF Checkpoint, Holds
<1>7. PointIn(c, ids, at')
  <2>1. at' \in 1..at'
    BY <1>3
  <2> HIDE DEF c
  <2> QED BY <2>1, <1>2, <1>3, <1>6 DEF PointIn
<1> HIDE DEF c
<1> DEFINE q == Pushed(points, c)
<1>8. /\ q \in Seq(CheckpointType) /\ Len(q) \in 1..Keep /\ Len(q) \in Nat
      /\ \E e \in Nat :
           \A i \in 1..Len(q) :
             LET k == IF i < e THEN i ELSE i + 1
             IN  k \in 1..(Len(points) + 1)
                 /\ q[i] = IF k <= Len(points) THEN points[k] ELSE c
  <2>1. /\ q \in Seq(CheckpointType) /\ Len(q) \in 1..Keep
        /\ \E e \in Nat :
             \A i \in 1..Len(q) :
               LET k == IF i < e THEN i ELSE i + 1
               IN  k \in 1..(Len(points) + 1)
                   /\ q[i] = IF k <= Len(points) THEN points[k] ELSE c
    BY <1>3, <1>5, PushedFacts
  <2> HIDE DEF q
  <2>2. Len(q) \in Nat
    BY <2>1, LenProperties
  <2> QED BY <2>1, <2>2
<1>9. PICK e \in Nat :
        \A i \in 1..Len(q) :
          LET k == IF i < e THEN i ELSE i + 1
          IN  k \in 1..(Len(points) + 1)
              /\ q[i] = IF k <= Len(points) THEN points[k] ELSE c
  BY <1>8
<1>q. points' = q
  BY <1>1
<1> HIDE DEF q
<1>10. ASSUME NEW k \in 1..Len(points)
       PROVE  PointIn(points[k], ids, at') /\ points[k].pos < c.pos
  <2>1. PointIn(points[k], ids, at)
    BY DEF IInv, PointsStand
  <2>2. points[k].pos \in 1..at
    BY <2>1 DEF PointIn
  <2>3. points[k].pos <= at' /\ points[k].pos < c.pos /\ at' \in 0..Len(ids)
    BY <2>2, <1>3, <1>6
  <2> DEFINE d == points[k]
  <2>4. PointIn(d, ids, at) /\ d.pos <= at'
    BY <2>1, <2>3
  <2> HIDE DEF d
  <2>5. PointIn(d, ids, at')
    BY <2>3, <2>4, <1>3, PointMoves
  <2> QED BY <2>3, <2>5 DEF d
<1>11. ASSUME NEW i \in 1..Len(q) PROVE PointIn(q[i], ids, at')
  <2> DEFINE k == IF i < e THEN i ELSE i + 1
  <2>1. k \in 1..(Len(points) + 1) /\ q[i] = IF k <= Len(points) THEN points[k] ELSE c
    BY <1>9
  <2> HIDE DEF k
  <2>2. k <= Len(points) => k \in 1..Len(points)
    BY <2>1, <1>3
  <2> QED BY <2>1, <2>2, <1>7, <1>10
<1>12. ASSUME NEW i \in 1..Len(q), NEW j \in 1..Len(q), i < j
       PROVE  q[i].pos < q[j].pos
  <2> DEFINE k == IF i < e THEN i ELSE i + 1
             l == IF j < e THEN j ELSE j + 1
  <2>1. k \in 1..(Len(points) + 1) /\ q[i] = IF k <= Len(points) THEN points[k] ELSE c
    BY <1>9
  <2>2. l \in 1..(Len(points) + 1) /\ q[j] = IF l <= Len(points) THEN points[l] ELSE c
    BY <1>9
  <2>3. k < l
    BY <1>8, <1>12
  <2> HIDE DEF k, l
  <2>4. k \in 1..Len(points)
    BY <2>1, <2>2, <2>3, <1>3
  <2>5. CASE l <= Len(points)
    <3>1. l \in 1..Len(points)
      BY <2>2, <2>5, <1>3
    <3>2. points[k].pos < points[l].pos
      BY <2>3, <2>4, <3>1 DEF IInv, Ordered
    <3> QED BY <3>2, <2>1, <2>2, <2>4, <2>5
  <2>6. CASE ~(l <= Len(points))
    BY <2>1, <2>2, <2>4, <2>6, <1>10
  <2> QED BY <2>5, <2>6
<1>13. TypeOK'
  <2>1. at' \in 0..Len(ids) /\ Len(q) <= Keep
    BY <1>3, <1>8
  <2> QED BY <2>1, <1>q, <1>1, <1>4, <1>8 DEF IInv, TypeOK
<1>14. Driven'
  <2>1. out' = <<>> /\ next' = <<>> /\ ids' = ids /\ phase' = "prefill"
    BY <1>1 DEF IInv, Driven
  <2> QED BY <2>1, <1>3, <1>4 DEF Driven
<1>15. PointsStand' /\ Ordered(points')
  BY <1>q, <1>1, <1>11, <1>12 DEF PointsStand, Ordered
<1>16. HoldsRead'
  <2>1. out' = <<>> /\ ids' = ids /\ <<>> \in Seq(Token)
    BY <1>1 DEF IInv, Driven
  <2>2. SubSeq(ids, 1, at') \o <<>> = SubSeq(ids, 1, at')
    <3>1. SubSeq(ids, 1, at') \in Seq(Token)
      BY <1>3, PrefixType
    <3> QED BY <3>1, ConcatEmptySeq
  <2> QED BY <2>1, <2>2, <1>4 DEF HoldsRead
<1> QED BY <1>13, <1>14, <1>15, <1>16 DEF IInv

(* The rest of the prompt: the runner holds all of it.                     *)
LEMMA PrefillRestInv ==
  ASSUME IInv, PrefillRest
  PROVE  /\ IInv'
         /\ out = <<>> /\ ids \in Seq(Token)
         /\ \E n \in Token : next' = <<n>> /\ n \in Target(ids)
<1> DEFINE rest == SubSeq(ids, at + 1, Len(ids))
<1>1. /\ phase = "prefill" /\ rt' = Prefilled(rt, rest)
      /\ at' = Len(ids) /\ tokens' = ids /\ phase' = "decode"
      /\ UNCHANGED <<points, ids, want, out, outcome>>
  BY DEF PrefillRest
<1>2. PICK n \in Drawn(Row(rt, rest, Len(rest))) : next' = <<n>>
  BY DEF PrefillRest
<1>3. /\ ids \in Seq(Token) /\ Len(ids) \in Nat /\ at \in 0..Len(ids) /\ at \in Nat
      /\ at < Len(ids) /\ ids \in Prompts /\ out = <<>>
  BY <1>1, LenProperties DEF IInv, TypeOK, Driven
<1>4. /\ rt' \in RunnerType /\ Holds(rt', SubSeq(ids, 1, Len(ids)))
      /\ Holds(rt, SubSeq(ids, 1, at))
  <2>1. Len(ids) \in (at + 1)..Len(ids)
    BY <1>3
  <2> QED BY <2>1, <1>1, ReadHolds
<1>5. SubSeq(ids, 1, Len(ids)) = ids /\ ids \o <<>> = ids
  BY <1>3, SubSeqFull, ConcatEmptySeq
<1>6. n \in Token /\ n \in Target(ids)
  <2>1. SubSeq(ids, 1, at) \in Seq(Token)
    BY <1>3, PrefixType
  <2>2. rest \in Seq(Token) /\ SubSeq(rest, 1, Len(rest)) = rest
    <3>1. rest \in Seq(Token)
      BY <1>3, SuffixElements
    <3> HIDE DEF rest
    <3> QED BY <3>1, SubSeqFull
  <2>3. Row(rt, rest, Len(rest)) = SubSeq(ids, 1, at) \o rest
    <3>1. Row(rt, rest, Len(rest)) = SubSeq(ids, 1, at) \o SubSeq(rest, 1, Len(rest))
      <4> HIDE DEF rest
      <4> QED BY <2>1, <1>4, RowHolds
    <3> HIDE DEF rest
    <3> QED BY <3>1, <2>2
  <2>4. SubSeq(ids, 1, at) \o rest = ids
    BY <1>3, Split
  <2>5. ids /= <<>>
    BY <1>3
  <2> HIDE DEF rest
  <2> QED BY <1>2, <2>3, <2>4, <2>5 DEF Drawn, Allowed, Junk
<1>7. <<n>> \in Seq(Token) /\ Len(<<n>>) = 1 /\ <<n>> /= <<>>
  BY <1>6
<1>8. TypeOK'
  <2>1. at' \in 0..Len(ids)
    BY <1>1, <1>3
  <2>2. next' \in Seq(Token) /\ Len(next') <= 1
    BY <1>2, <1>7
  <2> QED BY <2>1, <2>2, <1>1, <1>4 DEF IInv, TypeOK
<1>9. Driven'
  BY <1>1, <1>2, <1>3, <1>7 DEF Driven
<1>10. PointsStand'
  <2> SUFFICES ASSUME NEW k \in 1..Len(points) PROVE PointIn(points[k], ids, Len(ids))
    BY <1>1 DEF PointsStand
  <2> DEFINE d == points[k]
             m == Len(ids)
  <2>1. PointIn(d, ids, at)
    BY DEF IInv, PointsStand
  <2>2. d.pos <= m /\ m \in 0..Len(ids)
    BY <2>1, <1>3 DEF PointIn
  <2> HIDE DEF d, m
  <2>3. PointIn(d, ids, m)
    BY <2>1, <2>2, <1>3, PointMoves
  <2> QED BY <2>3 DEF d, m
<1>11. Ordered(points')
  BY <1>1 DEF IInv
<1>12. HoldsRead'
  <2>1. out' = <<>> /\ ids' = ids /\ <<>> \in Seq(Token)
    BY <1>1, <1>3
  <2> QED BY <2>1, <1>1, <1>4, <1>5 DEF HoldsRead
<1>13. IInv'
  BY <1>8, <1>9, <1>10, <1>11, <1>12 DEF IInv
<1> QED BY <1>2, <1>3, <1>6, <1>13

----------------------------------------------------------------------------
(* The decode loop. *)

(* A text of at most one token that is not empty is that token.            *)
LEMMA Single ==
  ASSUME NEW s \in Seq(Token), Len(s) <= 1, s /= <<>>
  PROVE  s = <<s[1]>> /\ s[1] \in Token /\ Len(s) = 1
<1>1. Len(s) \in Nat \ {0}
  BY EmptySeq
<1>2. Len(s) = 1 /\ Len(s) >= 1
  BY <1>1
<1>3. SubSeq(s, 1, 1) = s
  BY <1>2, SubSeqFull
<1> QED BY <1>2, <1>3, PrefixOne

(* The prompt and the reply, as what the runner holds.                     *)
LEMMA DecodeHolds ==
  ASSUME IInv, phase = "decode"
  PROVE  /\ ids \in Seq(Token) /\ out \in Seq(Token) /\ next \in Seq(Token)
         /\ rt \in RunnerType /\ at = Len(ids) /\ SubSeq(ids, 1, at) = ids
         /\ Holds(rt, ids \o out) /\ ids \o out \in Seq(Token) /\ Len(ids \o out) >= 1
         /\ next = <<next[1]>> /\ next[1] \in Token
<1>1. /\ ids \in Seq(Token) /\ out \in Seq(Token) /\ next \in Seq(Token)
      /\ Len(next) <= 1 /\ next /= <<>> /\ rt \in RunnerType /\ at = Len(ids)
      /\ ids \in Prompts
  BY DEF IInv, TypeOK, Driven
<1>2. SubSeq(ids, 1, at) = ids
  BY <1>1, SubSeqFull
<1>3. Holds(rt, ids \o out)
  BY <1>2 DEF IInv, HoldsRead
<1>4. ids \o out \in Seq(Token) /\ Len(ids \o out) >= 1
  <2>1. /\ ids \o out \in Seq(Token) /\ Len(ids \o out) = Len(ids) + Len(out)
        /\ Len(out) \in Nat
    BY <1>1, ConcatProperties, LenProperties
  <2>2. Len(ids) \in Nat /\ Len(ids) >= 1
    BY <1>1, PromptFacts
  <2> QED BY <2>1, <2>2
<1> QED BY <1>1, <1>2, <1>3, <1>4, Single

(* A round keeps the runner with the request, or ends it (generate).       *)
LEMMA RoundInv ==
  ASSUME IInv, Round
  PROVE  /\ IInv'
         /\ phase' = "idle" \/ Len(out') > Len(out)
<1>1. /\ phase = "decode" /\ UNCHANGED <<tokens, points, ids, at, want>>
  BY DEF Round, request
<1>2. /\ ids \in Seq(Token) /\ out \in Seq(Token) /\ next \in Seq(Token)
      /\ rt \in RunnerType /\ at = Len(ids) /\ SubSeq(ids, 1, at) = ids
      /\ Holds(rt, ids \o out) /\ ids \o out \in Seq(Token) /\ Len(ids \o out) >= 1
      /\ next /= <<>>
  <2>1. next /= <<>>
    BY <1>1 DEF IInv, Driven
  <2> QED BY <2>1, <1>1, DecodeHolds
<1>3. PICK o \in RoundResults :
        /\ rt' = o.rt /\ next' = o.next
        /\ out' = out \o UpToStop(o.said)
        /\ IF ~o.ok THEN End("error")
           ELSE IF UpToStop(o.said) /= o.said THEN End("stop")
           ELSE UNCHANGED <<phase, outcome>>
  BY DEF Round
<1> DEFINE t == ids \o out
           said == o.said
           told == UpToStop(said)
<1>4. /\ Good(o) /\ Keeps(o, t) /\ Draws(o, t, next[1])
      /\ ~o.ok => said = <<>>
  <2> HIDE DEF said
  <2> QED BY <1>2, RoundFacts DEF said
<1>5. /\ o.rt \in RunnerType /\ said \in Seq(Token) /\ Len(said) \in Nat
      /\ o.next \in Seq(Token) /\ Len(o.next) <= 1 /\ o.ok \in BOOLEAN
  BY <1>4, LenProperties DEF Good
<1>6. told \in Seq(Token)
  <2>1. PICK m \in 0..Len(said) : told = SubSeq(said, 1, m)
    <3> HIDE DEF said
    <3> QED BY <1>5, UpToStopFacts
  <2> QED BY <2>1, <1>5, PrefixType
<1>7. t \o said = ids \o (out \o said) /\ out \o said \in Seq(Token)
  <2> HIDE DEF said
  <2>1. (ids \o out) \o said = ids \o (out \o said)
    BY <1>2, <1>5, ThreeTexts
  <2>2. out \o said \in Seq(Token)
    BY <1>2, <1>5, ConcatProperties
  <2> QED BY <2>1, <2>2
<1>8. out' \in Seq(Token)
  <2> HIDE DEF told
  <2> QED BY <1>2, <1>3, <1>6, ConcatProperties DEF told
<1>9. phase' \in {"idle", "decode"} /\ outcome' \in {"none", "stop", "length", "error", "hangup"}
  <2>1. outcome \in {"none", "stop", "length", "error", "hangup"}
    BY DEF IInv, TypeOK
  <2> QED BY <2>1, <1>1, <1>3 DEF End
<1>10. phase' /= "idle" => o.ok /\ told = said
  BY <1>3 DEF End
<1>11. TypeOK'
  BY <1>1, <1>3, <1>5, <1>8, <1>9 DEF IInv, TypeOK
<1>12. Driven'
  <2>1. o.ok => o.next /= <<>>
    <3>1. ASSUME NEW n \in Token PROVE <<n>> /= <<>>
      OBVIOUS
    <3>2. o.ok => \E n \in Token : o.next = <<n>>
      BY <1>4 DEF Draws
    <3> QED BY <3>1, <3>2
  <2> QED BY <2>1, <1>1, <1>3, <1>9, <1>10 DEF IInv, Driven
<1>13. PointsStand' /\ Ordered(points')
  BY <1>1 DEF IInv, PointsStand, Ordered
<1>14. HoldsRead'
  <2>1. CASE o.ok
    <3>1. Holds(rt', ids \o (out \o said))
      BY <2>1, <1>3, <1>4, <1>7 DEF Keeps
    <3>2. phase' /= "idle" => out \o said = out'
      BY <1>3, <1>10
    <3> HIDE DEF said
    <3> QED BY <3>1, <3>2, <1>1, <1>2, <1>7 DEF HoldsRead
  <2>2. CASE ~o.ok
    <3>1. Holds(rt', ids \o out) /\ phase' = "idle"
      BY <2>2, <1>3, <1>4 DEF Keeps, End
    <3> QED BY <3>1, <1>1, <1>2 DEF HoldsRead
  <2> QED BY <2>1, <2>2
<1>15. phase' = "idle" \/ Len(out') > Len(out)
  <2> SUFFICES ASSUME phase' /= "idle" PROVE Len(out') > Len(out)
    OBVIOUS
  <2>1. Len(said) >= 1 /\ out' = out \o said
    BY <1>3, <1>4, <1>10 DEF Draws
  <2>2. Len(out \o said) = Len(out) + Len(said)
    <3> HIDE DEF said
    <3> QED BY <1>2, <1>5, ConcatProperties
  <2>3. Len(out) \in Nat
    BY <1>2, LenProperties
  <2> QED BY <2>1, <2>2, <2>3, <1>5
<1> QED BY <1>11, <1>12, <1>13, <1>14, <1>15 DEF IInv

(* A request that ends leaves the runner where it is (Finish, HangUp).     *)
LEMMA EndInv ==
  ASSUME IInv, phase = "decode", phase' = "idle",
         outcome' \in {"none", "stop", "length", "error", "hangup"},
         UNCHANGED <<rt, tokens, points, ids, at, want, out, next>>
  PROVE  IInv'
<1>1. TypeOK'
  BY DEF IInv, TypeOK
<1>2. Driven'
  BY DEF IInv, Driven
<1>3. PointsStand' /\ Ordered(points')
  BY DEF IInv, PointsStand, Ordered
<1>4. HoldsRead'
  BY DEF IInv, HoldsRead
<1> QED BY <1>1, <1>2, <1>3, <1>4 DEF IInv

(* Every step keeps the invariant.                                         *)
LEMMA StepInv ==
  ASSUME IInv, [Next]_vars
  PROVE  IInv'
<1>1. CASE \E p \in Prompts, asked \in Ceilings : Accept(p, asked)
  BY <1>1, AcceptInv
<1>2. CASE PrefillTurn
  BY <1>2, PrefillTurnInv
<1>3. CASE PrefillRest
  BY <1>3, PrefillRestInv
<1>4. CASE Round
  BY <1>4, RoundInv
<1>5. CASE Finish
  BY <1>5, EndInv DEF Finish, End, request
<1>6. CASE HangUp
  BY <1>6, EndInv DEF HangUp, End, request
<1>7. CASE UNCHANGED vars
  BY <1>7 DEF IInv, TypeOK, Driven, PointsStand, Ordered, HoldsRead, vars
<1> QED BY <1>1, <1>2, <1>3, <1>4, <1>5, <1>6, <1>7 DEF Next, Work

(* The invariant holds of every reachable state.                           *)
LEMMA Invariant == Spec => []IInv
<1>1. Init => IInv
  BY InitInv
<1>2. IInv /\ [Next]_vars => IInv'
  BY StepInv
<1> QED BY <1>1, <1>2, PTL DEF Spec

----------------------------------------------------------------------------
(* What the server promises. *)

(* Every reachable state is well formed: no request reads past the cache,  *)
(* and the pool never holds more than it may (Cache::push, render_within). *)
THEOREM TypeCorrect == Spec => []TypeOK
<1>1. IInv => TypeOK
  BY DEF IInv
<1> QED BY <1>1, Invariant, PTL

(* A request is answered on the history it sent, whatever earlier requests *)
(* left behind (AnswersItsHistory): chat, prefill_cached, generate.        *)
THEOREM Answers == Spec => []AnswersItsHistory
<1>1. IInv => AnswersItsHistory
  <2> SUFFICES ASSUME IInv, phase /= "idle"
               PROVE  Sound(rt) /\ rt.delta = SubSeq(ids, 1, at) \o out
    BY DEF AnswersItsHistory
  <2>1. Holds(rt, SubSeq(ids, 1, at) \o out)
    BY DEF IInv, HoldsRead
  <2> DEFINE t == SubSeq(ids, 1, at) \o out
  <2>2. Holds(rt, t)
    BY <2>1
  <2> HIDE DEF t
  <2>3. Sound(rt) /\ rt.delta = t
    BY <2>2 DEF Holds, Sound
  <2> QED BY <2>3 DEF t
<1> QED BY <1>1, Invariant, PTL

(* What the prefix cache vouches for is there: the states it kept are      *)
(* those after their own prefixes, in order, and the KV entries below them *)
(* are still of that text, whatever was read or said since                 *)
(* (PointsResumable): Cache, resume().                                     *)
THEOREM CacheVouches == Spec => []PointsResumable
<1>1. IInv => PointsResumable
  <2> SUFFICES ASSUME IInv PROVE PointsResumable
    OBVIOUS
  <2>1. phase /= "prefill" /\ points /= <<>> => tokens = ids
    BY DEF IInv, Driven
  <2>2. ASSUME NEW i \in 1..Len(points)
        PROVE  /\ points[i].pos \in 1..at
               /\ points[i].delta = SubSeq(ids, 1, points[i].pos)
               /\ \A j \in 1..points[i].pos : rt.kv[j] = SubSeq(ids, 1, j)
               /\ i > 1 => points[i - 1].pos < points[i].pos
    <3>0. /\ ids \in Seq(Token) /\ Len(ids) \in Nat /\ at \in 0..Len(ids)
          /\ Len(points) \in Nat
      BY LenProperties DEF IInv, TypeOK
    <3>1. points[i].pos \in 1..at /\ points[i].delta = SubSeq(ids, 1, points[i].pos)
      BY DEF IInv, PointsStand, PointIn
    <3>2. PICK w \in Seq(Token) : Holds(rt, SubSeq(ids, 1, at) \o w)
      BY DEF IInv, HoldsRead
    <3> DEFINE t == SubSeq(ids, 1, at) \o w
    <3>3. Len(t) >= at /\ Len(t) \in Nat
      <4>1. SubSeq(ids, 1, at) \in Seq(Token) /\ Len(SubSeq(ids, 1, at)) = at
        BY <3>0, PrefixType
      <4>2. Len(t) = at + Len(w) /\ Len(w) \in Nat
        BY <4>1, ConcatProperties, LenProperties
      <4> HIDE DEF t
      <4> QED BY <4>2, <3>0
    <3>4. ASSUME NEW j \in 1..points[i].pos PROVE rt.kv[j] = SubSeq(ids, 1, j)
      <4>1. j \in 0..at /\ j \in 1..Len(t)
        <5> HIDE DEF t
        <5> QED BY <3>0, <3>1, <3>3
      <4>2. rt.kv[j] = SubSeq(t, 1, j)
        BY <3>2, <4>1 DEF Holds
      <4>3. SubSeq(t, 1, j) = SubSeq(ids, 1, j)
        BY <3>0, <4>1, ReadBegins
      <4> QED BY <4>2, <4>3
    <3>5. i > 1 => points[i - 1].pos < points[i].pos
      <4>1. i > 1 => i - 1 \in 1..Len(points) /\ i - 1 < i
        BY <3>0
      <4> QED BY <4>1 DEF IInv, Ordered
    <3> QED BY <3>1, <3>4, <3>5
  <2> QED BY <2>1, <2>2 DEF PointsResumable
<1> QED BY <1>1, Invariant, PTL

(* No step of the server's spins: it reads, says or ends the request       *)
(* (EveryStepAdvances), so no client waits for ever behind another's draft *)
(* rounds (prefill_cached, generate).                                      *)
THEOREM StepsAdvance == Spec => EveryStepAdvances
<1> DEFINE Advances == Work => \/ phase' = "idle"
                               \/ phase = "prefill" /\ at' > at
                               \/ phase = "decode" /\ Len(out') > Len(out)
<1>1. IInv /\ [Next]_vars => [Advances]_vars
  <2> SUFFICES ASSUME IInv, Work PROVE Advances
    OBVIOUS
  <2>0. at \in 0..Len(ids) /\ Len(ids) \in Nat
    BY LenProperties DEF IInv, TypeOK
  <2>1. CASE PrefillTurn
    <3>1. at' \in (at + 1)..(Len(ids) - 1) /\ phase = "prefill"
      BY <2>1, NextBound DEF PrefillTurn
    <3> QED BY <3>1, <2>0
  <2>2. CASE PrefillRest
    <3>1. phase = "prefill" /\ at' = Len(ids) /\ at < Len(ids)
      BY <2>2 DEF PrefillRest, IInv, Driven
    <3> QED BY <3>1, <2>0
  <2>3. CASE Round
    <3>1. phase = "decode"
      BY <2>3 DEF Round
    <3> QED BY <3>1, <2>3, RoundInv
  <2>4. CASE Finish
    BY <2>4 DEF Finish, End
  <2> QED BY <2>1, <2>2, <2>3, <2>4 DEF Work
<1> QED BY <1>1, Invariant, PTL DEF Spec, EveryStepAdvances

(* A point taken is the last of the pool, and where the reading is; the    *)
(* oldest stays (Cache::push).                                             *)
LEMMA TurnPushed ==
  ASSUME IInv, IInv', PrefillTurn
  PROVE  /\ Len(points') \in Nat /\ Len(points') >= 1
         /\ points'[Len(points')].pos = at'
         /\ points /= <<>> => points'[1] = points[1]
<1> DEFINE c == Checkpoint(rt')
<1>0. points \in Seq(CheckpointType) /\ Len(points) <= Keep
  BY DEF IInv, TypeOK
<1>1. points' = Pushed(points, c)
  BY DEF PrefillTurn
<1>2. c \in CheckpointType /\ c.pos = rt'.pos
  <2>1. rt' \in RunnerType
    BY DEF IInv, TypeOK
  <2> QED BY <2>1, ForgottenHolds DEF Checkpoint
<1>3. c.pos = at'
  <2>1. at' \in (at + 1)..(Len(ids) - 1) /\ phase = "prefill"
        /\ rt' = Prefilled(rt, SubSeq(ids, at + 1, at'))
    BY NextBound DEF PrefillTurn
  <2>2. ids \in Seq(Token) /\ Len(ids) \in Nat /\ at \in Nat
    BY LenProperties DEF IInv, TypeOK
  <2>3. at' \in (at + 1)..Len(ids) /\ at' \in Nat /\ at' <= Len(ids)
    BY <2>1, <2>2
  <2>4. Holds(rt', SubSeq(ids, 1, at'))
    BY <2>1, <2>3, ReadHolds
  <2>5. Len(SubSeq(ids, 1, at')) = at'
    BY <2>2, <2>3, PrefixType
  <2> QED BY <1>2, <2>4, <2>5 DEF Holds
<1> HIDE DEF c
<1>4. /\ Len(Pushed(points, c)) \in 1..Keep
      /\ Pushed(points, c)[Len(Pushed(points, c))] = c
      /\ points /= <<>> => Pushed(points, c)[1] = points[1]
  BY <1>0, <1>2, PushedFacts
<1>5. Len(points') \in Nat /\ Len(points') >= 1
  <2>1. Keep \in Nat
    BY ServerAssumption
  <2> QED BY <1>1, <1>4, <2>1
<1> QED BY <1>1, <1>3, <1>4, <1>5

(* The points up to the one resumed (points.truncate).                     *)
LEMMA TruncatedFacts ==
  ASSUME points \in Seq(CheckpointType), NEW i \in 1..Len(points)
  PROVE  /\ Len(TruncatedTo(i)) = i
         /\ \A j \in 1..i : TruncatedTo(i)[j] = points[j]
<1>1. Len(points) \in Nat /\ i \in Nat
  BY LenProperties
<1>2. \A j \in 1..i : points[j] \in CheckpointType
  <2>1. \A j \in 1..i : j \in 1..Len(points)
    BY <1>1
  <2> QED BY <2>1, ElementOfSeq
<1> DEFINE t == SubSeq(points, 1, i)
<1>3. /\ Len(t) = IF 1 <= i THEN i - 1 + 1 ELSE 0
      /\ \A j \in 1..(i - 1 + 1) : t[j] = points[1 + j - 1]
  BY <1>1, <1>2, SubSeqProperties
<1> HIDE DEF t
<1>4. 1 <= i /\ i - 1 + 1 = i /\ \A j \in 1..i : 1 + j - 1 = j
  BY <1>1
<1>5. Len(t) = i /\ \A j \in 1..i : t[j] = points[j]
  BY <1>3, <1>4
<1> QED BY <1>5 DEF TruncatedTo, t

(* The pool keeps its oldest point while it keeps any, and the one just    *)
(* taken (PoolKeepsEnds): evict_index, push.                               *)
THEOREM EndsKept == Spec => PoolKeepsEnds
<1> DEFINE Kept == /\ points /= <<>> /\ points' /= <<>> => points'[1] = points[1]
                   /\ PrefillTurn => points'[Len(points')].pos = at'
<1>1. IInv /\ IInv' /\ [Next]_vars => [Kept]_vars
  <2> SUFFICES ASSUME IInv, IInv', Next PROVE Kept
    OBVIOUS
  <2>0. points \in Seq(CheckpointType) /\ Len(points) <= Keep /\ Len(points) \in Nat
    BY LenProperties DEF IInv, TypeOK
  <2>1. ASSUME NEW p \in Prompts, NEW asked \in Ceilings, Accept(p, asked)
        PROVE  Kept
    <3> DEFINE i == Resumable(p)
    <3>1. ~PrefillTurn
      BY <2>1 DEF Accept, PrefillTurn
    <3>2. CASE i > 0 /\ points[i].pos \in 1..(Len(p) - 1)
      <4>1. points' = TruncatedTo(i)
        BY <2>1, <3>2 DEF Accept
      <4>2. i \in 1..Len(points)
        <5>1. i \in 0..Len(points)
          BY <2>0, ResumableFacts
        <5> HIDE DEF i
        <5> QED BY <5>1, <3>2, <2>0
      <4> HIDE DEF i
      <4>3. 1 \in 1..i
        BY <2>0, <4>2
      <4> QED BY <2>0, <3>1, <4>1, <4>2, <4>3, TruncatedFacts
    <3>3. CASE ~(i > 0 /\ points[i].pos \in 1..(Len(p) - 1))
      <4>1. points' = <<>>
        BY <2>1, <3>3 DEF Accept
      <4> QED BY <4>1, <3>1
    <3> QED BY <3>2, <3>3
  <2>2. CASE PrefillTurn
    BY <2>2, TurnPushed
  <2>3. CASE PrefillRest
    <3>1. points' = points /\ ~PrefillTurn
      BY <2>3 DEF PrefillRest, PrefillTurn
    <3> QED BY <3>1
  <2>4. CASE Round \/ Finish \/ HangUp
    <3>1. points' = points /\ ~PrefillTurn
      BY <2>4 DEF Round, Finish, HangUp, PrefillTurn
    <3> QED BY <3>1
  <2> QED BY <2>1, <2>2, <2>3, <2>4 DEF Next, Work
<1> QED BY <1>1, Invariant, PTL DEF Spec, PoolKeepsEnds

(* No token a usable point vouches for is read again (ResumesFarthest): a  *)
(* prompt that begins with a point's prefix resumes there or further in,   *)
(* since no prompt ends where a turn of another opens (Cache::shared,      *)
(* chat).                                                                  *)
THEOREM FarthestResumed == Spec => ResumesFarthest
<1> DEFINE Farthest ==
      \A p \in Prompts, asked \in Ceilings :
        Accept(p, asked) =>
          \A i \in 1..Len(points) :
            points[i].pos <= Len(p) /\ points[i].delta = SubSeq(p, 1, points[i].pos)
              => at' >= points[i].pos
<1>1. IInv => Farthest
  <2> SUFFICES ASSUME IInv, NEW p \in Prompts, NEW asked \in Ceilings, Accept(p, asked),
                      NEW i \in 1..Len(points), points[i].pos <= Len(p),
                      points[i].delta = SubSeq(p, 1, points[i].pos)
               PROVE  at' >= points[i].pos
    OBVIOUS
  <2> DEFINE k == Resumable(p)
             c == points[k]
  <2>0. /\ points \in Seq(CheckpointType) /\ Len(points) \in Nat /\ ids \in Seq(Token)
        /\ Len(ids) \in Nat /\ at = Len(ids) /\ tokens = ids /\ tokens \in Seq(Token)
        /\ p \in Seq(Token) /\ Len(p) \in Nat
    <3>1. phase = "idle"
      BY DEF Accept
    <3> QED BY <3>1, LenProperties, PromptFacts DEF IInv, TypeOK, Driven
  <2>1. PointIn(points[i], ids, at)
    BY DEF IInv, PointsStand
  <2>2. points[i].pos \in 1..Len(ids) /\ SubSeq(p, 1, points[i].pos) = SubSeq(ids, 1, points[i].pos)
    BY <2>0, <2>1 DEF PointIn
  <2>3. points[i].pos <= Shared(p)
    <3>1. points[i].pos \in 0..Len(p) /\ points[i].pos <= Len(ids)
      BY <2>0, <2>2
    <3> QED BY <3>1, <2>0, <2>2, SharedFacts
  <2>4. i <= k /\ k \in 1..Len(points) /\ c.pos <= Shared(p)
    <3>1. /\ k \in 0..Len(points) /\ (k > 0 => c.pos <= Shared(p))
          /\ i <= k
      BY <2>0, <2>3, ResumableFacts
    <3> HIDE DEF k
    <3> QED BY <3>1, <2>0
  <2> HIDE DEF k
  <2>5. PointIn(c, ids, at)
    BY <2>4 DEF IInv, PointsStand
  <2>6. points[i].pos <= c.pos
    <3>1. i = k \/ i < k
      BY <2>4
    <3>2. i < k => points[i].pos < c.pos
      BY <2>4 DEF IInv, Ordered
    <3>3. points[i].pos \in Nat
      BY <2>2
    <3> QED BY <3>1, <3>2, <3>3, <2>5 DEF PointIn
  <2>7. /\ Shared(p) \in 0..Len(p) /\ Shared(p) <= Len(ids)
        /\ SubSeq(p, 1, Shared(p)) = SubSeq(ids, 1, Shared(p))
    BY <2>0, SharedFacts
  <2>8. c.pos \in 1..Len(p) /\ c.pos \in 1..Shared(p)
    <3>1. c.pos \in 1..at
      BY <2>5 DEF PointIn
    <3> QED BY <3>1, <2>0, <2>4, <2>7
  <2>9. c.delta = SubSeq(p, 1, c.pos)
    <3>1. SubSeq(SubSeq(p, 1, Shared(p)), 1, c.pos) = SubSeq(p, 1, c.pos)
      BY <2>0, <2>7, <2>8, PrefixOfPrefix
    <3>2. SubSeq(SubSeq(ids, 1, Shared(p)), 1, c.pos) = SubSeq(ids, 1, c.pos)
      <4>1. Shared(p) \in 0..Len(ids)
        BY <2>0, <2>7
      <4> QED BY <4>1, <2>0, <2>8, PrefixOfPrefix
    <3>3. c.delta = SubSeq(ids, 1, c.pos)
      BY <2>5 DEF PointIn
    <3> QED BY <3>1, <3>2, <3>3, <2>7
  <2>10. c.pos /= Len(p)
    <3> SUFFICES ASSUME c.pos = Len(p) PROVE FALSE
      OBVIOUS
    <3>1. c.delta = p
      BY <2>0, <2>9, SubSeqFull
    <3>2. PICK q \in Prompts : Opens(q, c.pos) /\ c.delta = SubSeq(q, 1, c.pos)
      BY <2>5 DEF PointIn
    <3>3. c.pos \in 1..(Len(q) - 1) /\ q[c.pos + 1] = Turn /\ p = SubSeq(q, 1, c.pos)
      BY <3>1, <3>2 DEF Opens
    <3> HIDE DEF c
    <3> QED BY <3>3, ServerAssumption
  <2>11. c.pos \in 1..(Len(p) - 1) /\ k > 0
    BY <2>0, <2>4, <2>8, <2>10
  <2>12. at' = c.pos
    BY <2>11 DEF Accept, k
  <2>13. points[i].pos \in Nat /\ c.pos \in Nat
    BY <2>2, <2>8
  <2> QED BY <2>6, <2>12, <2>13
<1>2. IInv => [Farthest]_vars
  BY <1>1
<1> QED BY <1>2, Invariant, PTL DEF Spec, ResumesFarthest

----------------------------------------------------------------------------
(* The reply. *)

(* The beginning of a reply from the model is one.                         *)
LEMMA DrawnPrefix ==
  ASSUME NEW p, NEW r \in Seq(Token), NEW n \in 0..Len(r), DrawnAfter(p, r)
  PROVE  DrawnAfter(p, SubSeq(r, 1, n))
<1> DEFINE a == SubSeq(r, 1, n)
<1>0. Len(r) \in Nat /\ n \in Nat /\ n <= Len(r)
  BY LenProperties
<1>1. a \in Seq(Token) /\ Len(a) = n /\ \A i \in 1..n : a[i] = r[i]
  BY <1>0, PrefixType, PrefixElements
<1>2. ASSUME NEW i \in 1..n PROVE a[i] \in Target(p \o SubSeq(a, 1, i - 1))
  <2>1. r[i] \in Target(p \o SubSeq(r, 1, i - 1))
    <3>1. i \in 1..Len(r)
      BY <1>0
    <3> QED BY <3>1 DEF DrawnAfter
  <2>2. SubSeq(a, 1, i - 1) = SubSeq(r, 1, i - 1)
    <3>1. CASE i = 1
      BY <3>1, SubSeqEmpty
    <3>2. CASE i /= 1
      <4>1. i - 1 \in 1..n /\ n \in 0..Len(r)
        BY <3>2, <1>0
      <4> QED BY <4>1, PrefixOfPrefix
    <3> QED BY <3>1, <3>2
  <2> QED BY <2>1, <2>2, <1>1
<1> HIDE DEF a
<1>3. DrawnAfter(p, a)
  BY <1>1, <1>2 DEF DrawnAfter
<1> QED BY <1>3 DEF a

(* A round's tokens, the one to feed next included, carry the reply on.    *)
LEMMA ReplyGoesOn ==
  ASSUME NEW p \in Seq(Token), NEW q \in Seq(Token), NEW tok \in Token,
         NEW o, Good(o), o.ok, Draws(o, p \o q, tok),
         DrawnAfter(p, q \o <<tok>>)
  PROVE  DrawnAfter(p, (q \o o.said) \o o.next)
<1> DEFINE s == p \o q
           b == Len(p)
           said == o.said
           w == s \o said
<1>0. /\ b \in Nat /\ Len(q) \in Nat /\ s \in Seq(Token) /\ Len(s) = b + Len(q)
      /\ said \in Seq(Token) /\ b \in 0..Len(p)
  BY LenProperties, ConcatProperties DEF Good
<1>1. b \in 0..Len(s)
  <2> HIDE DEF s, b
  <2> QED BY <1>0
<1>2. SubSeq(s, 1, b) = p
  <2>1. 0 \in 0..Len(q) /\ b + 0 = b
    BY <1>0
  <2>2. SubSeq(p \o q, 1, Len(p) + 0) = p \o SubSeq(q, 1, 0)
    BY <2>1, ConcatPrefix
  <2>3. SubSeq(q, 1, 0) = <<>> /\ p \o <<>> = p
    BY SubSeqEmpty, ConcatEmptySeq
  <2> QED BY <2>1, <2>2, <2>3
<1>3. SubSeq(s, b + 1, Len(s)) = q
  <2>1. SubSeq(p \o q, b + 1, Len(p \o q)) = SubSeq(p, b + 1, Len(p)) \o q
    BY <1>0, SuffixGrows
  <2>2. SubSeq(p, b + 1, Len(p)) = <<>>
    BY <1>0, SubSeqEmpty
  <2>3. <<>> \o q = q
    BY ConcatEmptySeq
  <2> QED BY <2>1, <2>2, <2>3
<1> HIDE DEF s, b, said
<1>4. SubSeq(w, b + 1, Len(w)) = q \o said
  BY <1>0, <1>1, <1>3, SuffixGrows
<1>5. Draws(o, s, tok) /\ DrawnAfter(SubSeq(s, 1, b), SubSeq(s, b + 1, Len(s)) \o <<tok>>)
  BY <1>2, <1>3 DEF s
<1>6. DrawnAfter(SubSeq(s, 1, b),
                 SubSeq(s \o o.said, b + 1, Len(s \o o.said)) \o o.next)
  BY <1>0, <1>1, <1>5, SaidReply
<1> QED BY <1>2, <1>4, <1>6 DEF said

(* The reply, as it is drawn, and the tokens of it that were said.         *)
Reply == IF phase = "decode" THEN out \o next ELSE out
NoStop(s) == \A i \in 1..Len(s) : s[i] \notin Stop

LEMMA ReplyIs == ReplyFromModel <=> DrawnAfter(ids, Reply) /\ NoStop(out)
BY DEF ReplyFromModel, Reply, DrawnAfter, NoStop

LEMMA ReplyIsNext == ReplyFromModel' <=> DrawnAfter(ids', Reply') /\ NoStop(out')
BY DEF ReplyFromModel, Reply, DrawnAfter, NoStop

(* What was said of a reply is drawn like it.                              *)
LEMMA SaidIsDrawn ==
  ASSUME NEW p, NEW s \in Seq(Token), NEW x \in Seq(Token), DrawnAfter(p, s \o x),
         NEW m \in 0..Len(s)
  PROVE  DrawnAfter(p, SubSeq(s, 1, m))
<1>0. /\ s \o x \in Seq(Token) /\ Len(s \o x) = Len(s) + Len(x)
      /\ Len(s) \in Nat /\ Len(x) \in Nat
  BY ConcatProperties, LenProperties
<1>1. SubSeq(s \o x, 1, m) = SubSeq(s, 1, m)
  <2>1. CASE m = 0
    BY <2>1, SubSeqEmpty
  <2>2. CASE m /= 0
    <3>1. m \in 1..Len(s) /\ 1 \in 1..Len(s)
      BY <2>2, <1>0
    <3> QED BY <3>1, SubSeqOfConcat1
  <2> QED BY <2>1, <2>2
<1>2. m \in 0..Len(s \o x)
  BY <1>0
<1> DEFINE r == s \o x
<1>3. r \in Seq(Token) /\ m \in 0..Len(r) /\ DrawnAfter(p, r)
  BY <1>0, <1>2
<1> HIDE DEF r
<1>4. DrawnAfter(p, SubSeq(r, 1, m))
  BY <1>3, DrawnPrefix
<1> QED BY <1>1, <1>4 DEF r

(* The request ends before the pending token is said (Finish, HangUp).     *)
LEMMA EndReply ==
  ASSUME IInv, ReplyFromModel, phase = "decode", phase' = "idle", UNCHANGED <<ids, out>>
  PROVE  ReplyFromModel'
<1>1. out \in Seq(Token) /\ next \in Seq(Token) /\ Len(out) \in Nat
  BY LenProperties DEF IInv, TypeOK
<1>2. DrawnAfter(ids, out \o next) /\ NoStop(out)
  BY ReplyIs DEF Reply
<1>3. DrawnAfter(ids, out)
  <2>1. Len(out) \in 0..Len(out) /\ SubSeq(out, 1, Len(out)) = out
    BY <1>1, SubSeqFull
  <2>2. DrawnAfter(ids, SubSeq(out, 1, Len(out)))
    BY <1>1, <1>2, <2>1, SaidIsDrawn
  <2> QED BY <2>1, <2>2
<1>4. Reply' = out' /\ out' = out /\ ids' = ids
  BY DEF Reply
<1>5. DrawnAfter(ids', Reply') /\ NoStop(out')
  BY <1>2, <1>3, <1>4
<1> QED BY <1>5, ReplyIsNext

(* A round carries the reply on, up to the first token that stops.         *)
LEMMA RoundReply ==
  ASSUME IInv, ReplyFromModel, Round
  PROVE  ReplyFromModel'
<1>1. phase = "decode" /\ ids' = ids
  BY DEF Round, request
<1>2. /\ ids \in Seq(Token) /\ out \in Seq(Token) /\ next \in Seq(Token)
      /\ rt \in RunnerType /\ Holds(rt, ids \o out) /\ ids \o out \in Seq(Token)
      /\ Len(ids \o out) >= 1 /\ next = <<next[1]>> /\ next[1] \in Token /\ next /= <<>>
      /\ Len(out) \in Nat
  <2>1. next /= <<>>
    BY <1>1 DEF IInv, Driven
  <2> QED BY <2>1, <1>1, DecodeHolds, LenProperties
<1>3. DrawnAfter(ids, out \o next) /\ NoStop(out)
  BY <1>1, ReplyIs DEF Reply
<1>4. PICK o \in RoundResults :
        /\ next' = o.next /\ out' = out \o UpToStop(o.said)
        /\ IF ~o.ok THEN End("error")
           ELSE IF UpToStop(o.said) /= o.said THEN End("stop")
           ELSE UNCHANGED <<phase, outcome>>
  BY DEF Round
<1> DEFINE said == o.said
<1>5. /\ Good(o) /\ Draws(o, ids \o out, next[1])
      /\ ~o.ok => said = <<>>
  <2> HIDE DEF said
  <2> QED BY <1>2, RoundFacts DEF said
<1>6. said \in Seq(Token) /\ Len(said) \in Nat /\ o.next \in Seq(Token)
  BY <1>5, LenProperties DEF Good
<1>7. PICK m \in 0..Len(said) : /\ UpToStop(said) = SubSeq(said, 1, m)
                                /\ \A i \in 1..m : said[i] \notin Stop
  <2> HIDE DEF said
  <2> QED BY <1>6, UpToStopFacts
<1> DEFINE part == SubSeq(said, 1, m)
<1>8. /\ part \in Seq(Token) /\ Len(part) = m /\ \A i \in 1..m : part[i] = said[i]
      /\ out' = out \o part
  <2>1. m \in Nat /\ m <= Len(said)
    BY <1>6
  <2> HIDE DEF said
  <2> QED BY <2>1, <1>4, <1>6, <1>7, PrefixType, PrefixElements DEF said
<1>9. NoStop(out')
  <2> HIDE DEF part, said
  <2>1. /\ Len(out \o part) = Len(out) + m
        /\ \A i \in 1..Len(out) + m :
             (out \o part)[i] = IF i <= Len(out) THEN out[i] ELSE part[i - Len(out)]
    BY <1>2, <1>8, ConcatProperties
  <2> SUFFICES ASSUME NEW i \in 1..Len(out) + m PROVE (out \o part)[i] \notin Stop
    BY <2>1, <1>8 DEF NoStop
  <2>2. CASE i <= Len(out)
    <3>1. i \in 1..Len(out)
      BY <2>2, <1>2, <1>6
    <3> QED BY <3>1, <2>1, <2>2, <1>3 DEF NoStop
  <2>3. CASE ~(i <= Len(out))
    <3>1. i - Len(out) \in 1..m
      BY <2>3, <1>2, <1>6
    <3> QED BY <3>1, <2>1, <2>3, <1>7, <1>8
  <2> QED BY <2>2, <2>3
<1>10. o.ok => DrawnAfter(ids, (out \o said) \o o.next)
  <2>1. DrawnAfter(ids, out \o <<next[1]>>)
    BY <1>2, <1>3
  <2> QED BY <2>1, <1>2, <1>5, ReplyGoesOn
<1>11. CASE phase' /= "idle"
  <2>1. o.ok /\ UpToStop(said) = said /\ phase' = "decode"
    BY <1>1, <1>4, <1>11 DEF End
  <2>2. Reply' = (out \o said) \o o.next
    BY <2>1, <1>4 DEF Reply
  <2>3. DrawnAfter(ids', Reply')
    BY <2>1, <2>2, <1>1, <1>10
  <2> QED BY <2>3, <1>9, ReplyIsNext
<1>12. CASE phase' = "idle"
  <2>1. Reply' = out \o part
    BY <1>8, <1>12 DEF Reply
  <2>2. CASE o.ok
    <3>1. out \o said \in Seq(Token) /\ Len(out \o said) = Len(out) + Len(said)
      <4> HIDE DEF said
      <4> QED BY <1>2, <1>6, ConcatProperties
    <3>2. Len(out) + m \in 0..Len(out \o said)
      <4> HIDE DEF said
      <4> QED BY <3>1, <1>2, <1>6
    <3>3. SubSeq(out \o said, 1, Len(out) + m) = out \o part
      <4> HIDE DEF said
      <4> QED BY <1>2, <1>6, ConcatPrefix
    <3> DEFINE s == out \o said
               k == Len(out) + m
    <3>4. s \in Seq(Token) /\ k \in 0..Len(s) /\ DrawnAfter(ids, s \o o.next)
      BY <2>2, <3>1, <3>2, <1>10
    <3> HIDE DEF s, k
    <3>5. DrawnAfter(ids, SubSeq(s, 1, k))
      BY <3>4, <1>6, SaidIsDrawn
    <3>6. DrawnAfter(ids', Reply')
      BY <3>3, <3>5, <2>1, <1>1 DEF s, k
    <3> QED BY <3>6, <1>9, ReplyIsNext
  <2>3. CASE ~o.ok
    <3>1. m = 0 /\ part = <<>>
      <4>1. said = <<>>
        BY <2>3, <1>5
      <4>2. m = 0
        BY <4>1
      <4> QED BY <4>2, SubSeqEmpty
    <3>2. Reply' = out
      <4>1. out \o <<>> = out
        BY <1>2, ConcatEmptySeq
      <4> QED BY <4>1, <3>1, <2>1
    <3>3. DrawnAfter(ids, out)
      <4>1. Len(out) \in 0..Len(out) /\ SubSeq(out, 1, Len(out)) = out
        BY <1>2, SubSeqFull
      <4>2. DrawnAfter(ids, SubSeq(out, 1, Len(out)))
        BY <4>1, <1>2, <1>3, SaidIsDrawn
      <4> QED BY <4>1, <4>2
    <3>4. DrawnAfter(ids', Reply')
      BY <3>2, <3>3, <1>1
    <3> QED BY <3>4, <1>9, ReplyIsNext
  <2> QED BY <2>2, <2>3
<1> QED BY <1>11, <1>12

(* Every token of a reply is one the model could have said next, and none  *)
(* of them ends the turn (ReplyFromModel), however it was drafted, judged  *)
(* and undone: generate over verify_drafts.                                *)
THEOREM RepliesFromModel == Spec => []ReplyFromModel
<1>1. Init => ReplyFromModel
  <2> SUFFICES ASSUME Init PROVE ReplyFromModel
    OBVIOUS
  <2>1. Reply = <<>> /\ out = <<>> /\ Len(<<>>) = 0
    BY DEF Init, Reply
  <2>2. DrawnAfter(ids, Reply) /\ NoStop(out)
    BY <2>1 DEF DrawnAfter, NoStop
  <2> QED BY <2>2, ReplyIs
<1>2. IInv /\ ReplyFromModel /\ [Next]_vars => ReplyFromModel'
  <2> SUFFICES ASSUME IInv, ReplyFromModel, [Next]_vars PROVE ReplyFromModel'
    OBVIOUS
  <2>1. ASSUME NEW p \in Prompts, NEW asked \in Ceilings, Accept(p, asked)
        PROVE  ReplyFromModel'
    <3>1. Reply' = <<>> /\ out' = <<>> /\ Len(<<>>) = 0
      BY <2>1 DEF Accept, Reply
    <3>2. DrawnAfter(ids', Reply') /\ NoStop(out')
      BY <3>1 DEF DrawnAfter, NoStop
    <3> QED BY <3>2, ReplyIsNext
  <2>2. CASE PrefillTurn
    <3>1. Reply' = Reply /\ out' = out /\ ids' = ids
      BY <2>2 DEF PrefillTurn, Reply
    <3> QED BY <3>1, ReplyIs, ReplyIsNext
  <2>3. CASE PrefillRest
    <3>1. /\ out = <<>> /\ ids \in Seq(Token)
          /\ \E n \in Token : next' = <<n>> /\ n \in Target(ids)
      BY <2>3, PrefillRestInv
    <3>2. PICK n \in Token : next' = <<n>> /\ n \in Target(ids)
      BY <3>1
    <3>3. /\ phase' = "decode" /\ out' = <<>> /\ ids' = ids
      BY <2>3, <3>1 DEF PrefillRest
    <3>4. Reply' = <<n>>
      <4>1. <<n>> \in Seq(Token)
        OBVIOUS
      <4>2. <<>> \o <<n>> = <<n>>
        BY <4>1, ConcatEmptySeq
      <4> QED BY <4>2, <3>2, <3>3 DEF Reply
    <3>5. DrawnAfter(ids, <<n>>)
      <4>1. Len(<<n>>) = 1 /\ <<n>>[1] = n
        OBVIOUS
      <4>2. SubSeq(<<n>>, 1, 1 - 1) = <<>> /\ ids \o <<>> = ids
        BY <3>1, SubSeqEmpty, ConcatEmptySeq
      <4>3. \A i \in 1..1 : i = 1
        OBVIOUS
      <4> QED BY <4>1, <4>2, <4>3, <3>2 DEF DrawnAfter
    <3>6. NoStop(<<>>)
      BY EmptySeq DEF NoStop
    <3> QED BY <3>3, <3>4, <3>5, <3>6, ReplyIsNext
  <2>4. CASE Round
    BY <2>4, RoundReply
  <2>5. CASE Finish \/ HangUp
    <3>1. phase = "decode" /\ phase' = "idle" /\ UNCHANGED <<ids, out>>
      BY <2>5 DEF Finish, HangUp, End, request
    <3> QED BY <3>1, EndReply
  <2>6. CASE UNCHANGED vars
    <3>1. Reply' = Reply /\ out' = out /\ ids' = ids
      BY <2>6 DEF vars, Reply
    <3> QED BY <3>1, ReplyIs, ReplyIsNext
  <2> QED BY <2>1, <2>2, <2>3, <2>4, <2>5, <2>6 DEF Next, Work
<1> QED BY <1>1, <1>2, Invariant, PTL DEF Spec
=============================================================================
