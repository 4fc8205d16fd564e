----------------------------- MODULE ChatProofs -----------------------------
(* What is proved of the server holds of it with its conversations.        *)
EXTENDS Chat, ServerProofs

(* A conversation that is accepted is one of the prompts the server takes. *)
LEMMA AskedIsAccepted ==
  ASSUME NEW c \in Conversations, NEW asked \in Ceilings, Ask(c, asked)
  PROVE  \E p \in Prompts : Accept(p, asked)
<1> DEFINE p == Render(Trims[c].msgs)
<1>1. Trimmed(c).verdict = "accepted" /\ p = Render(Trimmed(c).msgs)
  BY DEF Ask, Trims
<1>2. p \in Prompts
  <2> HIDE DEF p
  <2> QED BY <1>1, ChatAssumption
<1> QED BY <1>2 DEF Ask

(* However conversations grow, are cut, refused or take the server down,   *)
(* what the cache and the runner see is the server's own behaviour: a      *)
(* refusal touches nothing (chat, trim).                                   *)
THEOREM ChatIsServer == ChatSpec => Spec
<1>1. ChatInit => Init
  BY DEF ChatInit
<1>2. [ChatNext]_chatVars => [Next]_vars
  <2> SUFFICES ASSUME [ChatNext]_chatVars PROVE [Next]_vars
    OBVIOUS
  <2>1. CASE \E c \in Conversations, asked \in Ceilings : Ask(c, asked)
    BY <2>1, AskedIsAccepted DEF Next
  <2>2. CASE \E c \in Conversations : Refuse(c)
    BY <2>2 DEF Refuse
  <2>3. CASE (Work \/ HangUp) /\ UNCHANGED <<conv, verdict>>
    BY <2>3 DEF Next
  <2>4. CASE UNCHANGED chatVars
    BY <2>4 DEF chatVars
  <2> QED BY <2>1, <2>2, <2>3, <2>4 DEF ChatNext
<1> QED BY <1>1, <1>2, PTL DEF ChatSpec, Spec

(* Each request is answered on the conversation it sent, as it was cut.    *)
THEOREM ChatAnswers == ChatSpec => []AnswersItsHistory
BY ChatIsServer, Answers, PTL

----------------------------------------------------------------------------
(* Head and tail together are less than half of what was there.            *)
LEMMA Thirds ==
  ASSUME NEW n \in Nat, NEW k \in Nat, k + k <= n - 1
  PROVE  LET half == n \div 2
             head == (half * 2) \div 3
             tail == half \div 3
         IN  /\ head \in 0..n /\ tail \in 0..n
             /\ head + k + tail < n
<1> DEFINE half == n \div 2
<1>1. half \in Nat /\ 2 * half <= n
  OBVIOUS
<1> HIDE DEF half
<1> DEFINE head == (half * 2) \div 3
           tail == half \div 3
<1>2. head \in Nat /\ tail \in Nat /\ 3 * head <= 2 * half /\ 3 * tail <= half
  BY <1>1
<1> HIDE DEF head, tail
<1>3. head + tail <= half
  BY <1>1, <1>2
<1>4. head \in 0..n /\ tail \in 0..n /\ head + k + tail < n
  BY <1>1, <1>2, <1>3
<1> QED BY <1>4 DEF head, tail, half

(* Every message the loop picks gets shorter, so that the loop ends: the   *)
(* note never makes up for what is cut (elide, trim).                      *)
THEOREM ElidingShortens ==
  ASSUME NEW S, NEW m \in [role : Roles, content : Seq(S)],
         Note \in Seq(S), Len(m.content) > ElideOver
  PROVE  /\ Elided(m) \in [role : Roles, content : Seq(S)]
         /\ Len(Elided(m).content) < Len(m.content)
<1> DEFINE s == m.content
           n == Len(s)
           half == n \div 2
           head == (half * 2) \div 3
           tail == half \div 3
           first == SubSeq(s, 1, head)
           last == SubSeq(s, n - tail + 1, n)
<1>1. s \in Seq(S) /\ n \in Nat /\ Len(Note) \in Nat
  OBVIOUS
<1>2. Len(Note) + Len(Note) <= n - 1
  BY <1>1, TrimAssumption
<1>3. /\ head \in 0..n /\ tail \in 0..n /\ head + Len(Note) + tail < n
  <2> HIDE DEF n
  <2> QED BY <1>1, <1>2, Thirds
<1> HIDE DEF half, head, tail
<1>4. first \in Seq(S) /\ Len(first) = head
  <2> HIDE DEF s
  <2> QED BY <1>1, <1>3
<1>5. last \in Seq(S) /\ Len(last) = tail
  <2> HIDE DEF s
  <2> QED BY <1>1, <1>3
<1> HIDE DEF first, last
<1>6. /\ (first \o Note) \o last \in Seq(S)
      /\ Len((first \o Note) \o last) = head + Len(Note) + tail
  <2>0. head \in Nat /\ tail \in Nat
    BY <1>1, <1>3
  <2>1. first \o Note \in Seq(S) /\ Len(first \o Note) = head + Len(Note)
    BY <1>4, ConcatProperties
  <2> DEFINE front == first \o Note
  <2> HIDE DEF front
  <2>2. front \in Seq(S) /\ Len(front) = head + Len(Note)
    BY <2>1 DEF front
  <2>3. front \o last \in Seq(S) /\ Len(front \o last) = Len(front) + Len(last)
    BY <2>2, <1>5, ConcatProperties
  <2> QED BY <2>2, <2>3, <1>5 DEF front
<1>7. Elided(m) = [m EXCEPT !.content = (first \o Note) \o last]
  BY DEF Elided, first, last, head, tail, half
<1>8. /\ Elided(m).content = (first \o Note) \o last
      /\ Elided(m) \in [role : Roles, content : Seq(S)]
  <2> DEFINE new == (first \o Note) \o last
  <2>1. new \in Seq(S)
    BY <1>6
  <2>2. Elided(m) = [m EXCEPT !.content = new]
    BY <1>7
  <2> HIDE DEF new
  <2>3. Elided(m).content = new /\ Elided(m) \in [role : Roles, content : Seq(S)]
    BY <2>1, <2>2
  <2> QED BY <2>3 DEF new
<1> QED BY <1>3, <1>6, <1>8
----------------------------------------------------------------------------
(* What a conversation may lose. *)

(* A message, and a conversation.                                          *)
Messages == [role : Roles, content : Seq(Token)]
Talks == Seq(Messages) \ {<<>>}

LEMMA TalkFacts ==
  ASSUME NEW c \in Talks
  PROVE  /\ c \in Seq(Messages) /\ Len(c) \in Nat /\ Len(c) >= 1
         /\ \A i \in 1..Len(c) : c[i] \in Messages
<1>1. c \in Seq(Messages) /\ c /= <<>>
  BY DEF Talks
<1>2. Len(c) \in Nat /\ Len(c) /= 0
  BY <1>1, EmptySeq, LenProperties
<1>3. \A i \in 1..Len(c) : c[i] \in Messages
  BY <1>1, ElementOfSeq
<1> QED BY <1>1, <1>2, <1>3

(* What is pinned is the task (trim).                                      *)
LEMMA PinnedFacts ==
  ASSUME NEW c \in Talks
  PROVE  /\ Pinned(c) \in 0..Len(c)
         /\ Task(c) = SubSeq(c, 1, Pinned(c)) /\ Len(Task(c)) = Pinned(c)
<1>0. /\ c \in Seq(Messages) /\ Len(c) \in Nat /\ Len(c) >= 1
      /\ \A i \in 1..Len(c) : c[i] \in Messages
  BY TalkFacts
<1>1. ASSUME NEW k \in 0..Len(c)
      PROVE  SubSeq(c, 1, k) \in Seq(Messages) /\ Len(SubSeq(c, 1, k)) = k
  <2>1. k \in Int /\ \A i \in 1..k : c[i] \in Messages
    BY <1>0
  <2>2. /\ SubSeq(c, 1, k) \in Seq(Messages)
        /\ Len(SubSeq(c, 1, k)) = IF 1 <= k THEN k - 1 + 1 ELSE 0
    BY <2>1, SubSeqProperties
  <2> QED BY <1>0, <2>2
<1>2. ASSUME NEW k \in 1..Len(c)
      PROVE  SubSeq(c, k, k) = <<c[k]>> /\ <<c[k]>> \in Seq(Messages)
  <2>1. SubSeq(c, k, k) = <<c[k]>> \o SubSeq(c, k + 1, k)
    <3>1. k \in k..Len(c)
      BY <1>0
    <3> QED BY <1>0, <3>1, SubSeqRecursiveFirst
  <2>2. SubSeq(c, k + 1, k) = <<>>
    <3>1. k \in Int /\ k + 1 \in Int /\ k < k + 1
      BY <1>0
    <3> QED BY <3>1, SubSeqEmpty
  <2>3. <<c[k]>> \in Seq(Messages)
    BY <1>0
  <2>4. <<c[k]>> \o <<>> = <<c[k]>>
    BY <2>3, ConcatEmptySeq
  <2> QED BY <2>1, <2>2, <2>3, <2>4
<1>3. SubSeq(c, 1, 0) = <<>>
  BY SubSeqEmpty
<1>4. /\ <<>> \o <<>> = <<>>
      /\ <<c[1]>> \o <<>> = <<c[1]>> /\ <<>> \o <<c[1]>> = <<c[1]>>
  <2>1. 1 \in 1..Len(c) /\ <<>> \in Seq(Messages)
    BY <1>0, EmptySeq
  <2> QED BY <1>2, <2>1, ConcatEmptySeq
<1> DEFINE p == Pinned(c)
<1>5. p \in 0..Len(c) /\ Task(c) = SubSeq(c, 1, p)
  <2>1. CASE c[1].role = "system" /\ 2 <= Len(c) /\ c[2].role = "user"
    <3>1. Pinned(c) = 2
      BY <1>0, <2>1 DEF Pinned
    <3>2. Task(c) = <<c[1]>> \o <<c[2]>>
      BY <2>1 DEF Task
    <3>3. SubSeq(c, 1, 2) = <<c[1]>> \o SubSeq(c, 2, 2)
      <4>1. 1 \in 1..Len(c) /\ 2 \in 1..Len(c)
        BY <1>0, <2>1
      <4>2. SubSeq(c, 1, 2) = <<c[1]>> \o SubSeq(c, 1 + 1, 2)
        BY <1>0, <4>1, SubSeqRecursiveFirst
      <4> QED BY <4>2
    <3>4. 2 \in 1..Len(c)
      BY <1>0, <2>1
    <3> QED BY <1>2, <3>1, <3>2, <3>3, <3>4
  <2>2. CASE c[1].role = "system" /\ ~(2 <= Len(c) /\ c[2].role = "user")
    <3>1. Pinned(c) = 1
      BY <1>0, <2>2 DEF Pinned
    <3>2. Task(c) = <<c[1]>> \o <<>>
      BY <2>2 DEF Task
    <3>3. 1 \in 1..Len(c)
      BY <1>0
    <3> QED BY <1>2, <1>4, <3>1, <3>2, <3>3
  <2>3. CASE c[1].role /= "system" /\ c[1].role = "user"
    <3>1. Pinned(c) = 1
      BY <1>0, <2>3 DEF Pinned
    <3>2. Task(c) = <<>> \o <<c[1]>>
      BY <1>0, <2>3 DEF Task
    <3>3. 1 \in 1..Len(c)
      BY <1>0
    <3> QED BY <1>2, <1>4, <3>1, <3>2, <3>3
  <2>4. CASE c[1].role /= "system" /\ c[1].role /= "user"
    <3>1. Pinned(c) = 0
      BY <1>0, <2>4 DEF Pinned
    <3>2. Task(c) = <<>> \o <<>>
      BY <1>0, <2>4 DEF Task
    <3> QED BY <1>0, <1>3, <1>4, <3>1, <3>2
  <2> QED BY <2>1, <2>2, <2>3, <2>4
<1> HIDE DEF p
<1>6. Len(Task(c)) = p
  BY <1>1, <1>5
<1> QED BY <1>5, <1>6 DEF p

(* Behind the s-th message nothing is missing.                             *)
LEMMA FromFacts ==
  ASSUME NEW c \in Talks, NEW s \in Turns(c)
  PROVE  /\ s \in (Pinned(c) + 1)..Len(c)
         /\ From(c, s) \in Talks
         /\ Len(From(c, s)) = Pinned(c) + (Len(c) - s + 1)
         /\ \A i \in 1..Pinned(c) : From(c, s)[i] = c[i]
         /\ \A i \in (Pinned(c) + 1)..Len(From(c, s)) :
              From(c, s)[i] = c[s + i - Pinned(c) - 1]
<1> DEFINE p == Pinned(c)
           n == Len(c)
           rest == SubSeq(c, s, n)
<1>1. c \in Seq(Messages) /\ n \in Nat /\ \A i \in 1..n : c[i] \in Messages
  BY TalkFacts
<1>2. p \in 0..n /\ Task(c) = SubSeq(c, 1, p) /\ Len(Task(c)) = p
  BY PinnedFacts
<1> HIDE DEF p
<1>3. s \in (p + 1)..n /\ s \in Nat /\ s <= n /\ p + 1 <= s
  BY <1>1, <1>2 DEF Turns
<1> HIDE DEF n
<1>4. /\ rest \in Seq(Messages) /\ Len(rest) = n - s + 1
      /\ \A i \in 1..(n - s + 1) : rest[i] = c[s + i - 1]
  <2>1. \A i \in s..n : c[i] \in Messages
    BY <1>1, <1>2, <1>3
  <2> QED BY <1>1, <1>3, <2>1, SubSeqProperties
<1>5. /\ Task(c) \in Seq(Messages)
      /\ \A i \in 1..p : Task(c)[i] = c[i]
  <2>1. \A i \in 1..p : c[i] \in Messages
    BY <1>1, <1>2
  <2>2. p \in Int
    BY <1>1, <1>2
  <2>3. /\ SubSeq(c, 1, p) \in Seq(Messages)
        /\ \A i \in 1..(p - 1 + 1) : SubSeq(c, 1, p)[i] = c[1 + i - 1]
    BY <2>1, <2>2, SubSeqProperties
  <2>4. \A i \in 1..p : i \in 1..(p - 1 + 1) /\ 1 + i - 1 = i
    BY <2>2
  <2> QED BY <1>2, <2>3, <2>4
<1> DEFINE task == Task(c)
<1> HIDE DEF rest, task
<1>6. /\ task \o rest \in Seq(Messages)
      /\ Len(task \o rest) = p + (n - s + 1)
      /\ \A i \in 1..(p + (n - s + 1)) :
           (task \o rest)[i] = IF i <= p THEN task[i] ELSE rest[i - p]
  <2>1. task \in Seq(Messages) /\ Len(task) = p
    BY <1>2, <1>5 DEF task
  <2>2. /\ task \o rest \in Seq(Messages)
        /\ Len(task \o rest) = Len(task) + Len(rest)
        /\ \A i \in 1..(Len(task) + Len(rest)) :
             (task \o rest)[i] = IF i <= Len(task) THEN task[i] ELSE rest[i - Len(task)]
    BY <1>4, <2>1, ConcatProperties
  <2> QED BY <1>4, <2>1, <2>2
<1>7. From(c, s) = task \o rest
  BY DEF From, rest, task, n
<1> DEFINE all == task \o rest
<1> HIDE DEF all
<1>8. /\ all \in Seq(Messages) /\ Len(all) = p + (n - s + 1)
      /\ \A i \in 1..(p + (n - s + 1)) : all[i] = IF i <= p THEN task[i] ELSE rest[i - p]
  BY <1>6 DEF all
<1>9. all \in Talks
  <2>1. Len(all) /= 0
    BY <1>1, <1>2, <1>3, <1>8 DEF n
  <2>2. all /= <<>>
    BY <2>1, EmptySeq
  <2> QED BY <1>8, <2>2 DEF Talks
<1>10. \A i \in 1..p : all[i] = c[i]
  <2> SUFFICES ASSUME NEW i \in 1..p PROVE all[i] = c[i]
    OBVIOUS
  <2>1. i \in 1..(p + (n - s + 1)) /\ i <= p
    BY <1>1, <1>2, <1>3 DEF n
  <2> QED BY <1>5, <1>8, <2>1 DEF task
<1>11. \A i \in (p + 1)..(p + (n - s + 1)) : all[i] = c[s + i - p - 1]
  <2> SUFFICES ASSUME NEW i \in (p + 1)..(p + (n - s + 1)) PROVE all[i] = c[s + i - p - 1]
    OBVIOUS
  <2>1. /\ i \in 1..(p + (n - s + 1)) /\ ~(i <= p)
        /\ i - p \in 1..(n - s + 1) /\ s + (i - p) - 1 = s + i - p - 1
    BY <1>1, <1>2, <1>3 DEF n
  <2> QED BY <1>4, <1>8, <2>1
<1>12. From(c, s) = all
  BY <1>7 DEF all
<1> QED BY <1>3, <1>8, <1>9, <1>10, <1>11, <1>12 DEF p, n
(* The turns up to the i-th message, in their order.                       *)
Listed(q, c, i) ==
  /\ \A s \in Turns(c) : s <= i => \E d \in 1..Len(q) : q[d] = s
  /\ \A d \in 1..Len(q) : q[d] <= i
  /\ \A d, e \in 1..Len(q) : d <= e => q[d] <= q[e]

LEMMA ListedNext ==
  ASSUME NEW c \in Talks, NEW i \in Nat, NEW q \in Seq(Turns(c)), Listed(q, c, i)
  PROVE  /\ i + 1 \notin Turns(c) => Listed(q, c, i + 1)
         /\ i + 1 \in Turns(c) => Listed(Append(q, i + 1), c, i + 1)
<1>1. Turns(c) \subseteq Nat
  BY PinnedFacts, TalkFacts DEF Turns
<1>2. /\ \A s \in Turns(c) : s <= i => \E d \in 1..Len(q) : q[d] = s
      /\ \A d \in 1..Len(q) : q[d] <= i
      /\ \A d, e \in 1..Len(q) : d <= e => q[d] <= q[e]
  BY DEF Listed
<1>3. PICK n \in Nat : n = Len(q) /\ \A d \in 1..n : q[d] \in Turns(c) /\ q[d] \in Nat
  BY <1>1, LenProperties, ElementOfSeq
<1>4. \A s \in Nat : s <= i + 1 => s <= i \/ s = i + 1
  OBVIOUS
<1>5. \A s \in Nat : s <= i => s <= i + 1
  OBVIOUS
<1>6. ASSUME i + 1 \notin Turns(c) PROVE Listed(q, c, i + 1)
  <2>1. \A s \in Turns(c) : s <= i + 1 => s <= i
    BY <1>1, <1>4, <1>6
  <2>2. \A d \in 1..Len(q) : q[d] <= i + 1
    BY <1>2, <1>3, <1>5
  <2> QED BY <1>2, <2>1, <2>2 DEF Listed
<1>7. ASSUME i + 1 \in Turns(c) PROVE Listed(Append(q, i + 1), c, i + 1)
  <2> DEFINE u == Append(q, i + 1)
  <2>1. /\ Len(u) = n + 1 /\ u[n + 1] = i + 1
        /\ \A d \in 1..n : u[d] = q[d]
    BY <1>3, <1>7, AppendProperties
  <2> HIDE DEF u
  <2>2. \A d \in 1..(n + 1) : d \in 1..n \/ d = n + 1
    BY <1>3
  <2>3. 1..n \subseteq 1..(n + 1) /\ n + 1 \in 1..(n + 1)
    BY <1>3
  <2>4. ASSUME NEW s \in Turns(c), s <= i + 1 PROVE \E d \in 1..(n + 1) : u[d] = s
    <3>1. CASE s <= i
      <4>1. PICK d \in 1..n : q[d] = s
        BY <1>2, <1>3, <3>1
      <4> QED BY <2>1, <2>3, <4>1
    <3>2. CASE s = i + 1
      BY <2>1, <2>3, <3>2
    <3> QED BY <1>1, <1>4, <2>4, <3>1, <3>2
  <2>5. ASSUME NEW d \in 1..(n + 1) PROVE u[d] <= i + 1
    <3>1. CASE d \in 1..n
      BY <1>2, <1>3, <1>5, <2>1, <3>1
    <3>2. CASE d = n + 1
      BY <2>1, <3>2
    <3> QED BY <2>2, <3>1, <3>2
  <2>6. ASSUME NEW d \in 1..(n + 1), NEW e \in 1..(n + 1), d <= e PROVE u[d] <= u[e]
    <3>1. CASE e = n + 1
      BY <2>1, <2>5, <3>1
    <3>2. CASE e \in 1..n
      <4>1. d \in 1..n
        BY <1>3, <2>6, <3>2
      <4> QED BY <1>2, <1>3, <2>1, <2>6, <3>2, <4>1
    <3> QED BY <2>2, <3>1, <3>2
  <2>7. Listed(u, c, i + 1)
    BY <2>1, <2>4, <2>5, <2>6 DEF Listed
  <2> QED BY <2>7 DEF u
<1> QED BY <1>6, <1>7

(* Turns to drop are found where there are any, all of them in order, and  *)
(* the last one is the conversation's last (turns).                        *)
LEMMA StartsFacts ==
  ASSUME NEW c \in Talks
  PROVE  /\ Starts(c) \in Seq(Turns(c))
         /\ \A s \in Turns(c) : Starts(c) /= <<>> /\ s <= Starts(c)[Len(Starts(c))]
         /\ Listed(Starts(c), c, Len(c))
<1> DEFINE n == Len(c)
           p == Pinned(c)
           N(i, s) == IF i <= p THEN <<>>
                      ELSE IF c[i].role = "tool" THEN s ELSE Append(s, i)
           Z(f) == [i \in 0..n |-> IF i <= p THEN <<>>
                                   ELSE IF c[i].role = "tool" THEN f[i - 1]
                                   ELSE Append(f[i - 1], i)]
           seen == CHOOSE f : f = Z(f)
           F == [x \in Nat \X Seq(Nat) |-> N(x[1] + 1, x[2])]
<1>1. Starts(c) = seen[n]
  BY DEF Starts
<1>2. n \in Nat /\ p \in 0..n
  BY TalkFacts, PinnedFacts
<1>3. \A s \in Turns(c) : s \in (p + 1)..n /\ c[s].role /= "tool"
  BY PinnedFacts DEF Turns
<1>4. \A s \in (p + 1)..n : c[s].role /= "tool" => s \in Turns(c)
  BY PinnedFacts DEF Turns
<1> HIDE DEF n, p
<1>5. PICK g \in [Nat -> Seq(Nat)] :
        g[0] = <<>> /\ \A i \in Nat : g[i + 1] = N(i + 1, g[i])
  <2>1. \A i \in Nat, s \in Seq(Nat) : N(i + 1, s) \in Seq(Nat)
    <3> SUFFICES ASSUME NEW i \in Nat, NEW s \in Seq(Nat) PROVE N(i + 1, s) \in Seq(Nat)
      OBVIOUS
    <3>1. i + 1 \in Nat
      OBVIOUS
    <3>2. Append(s, i + 1) \in Seq(Nat) /\ <<>> \in Seq(Nat)
      BY <3>1, AppendProperties, EmptySeq
    <3> QED BY <3>2
  <2> HIDE DEF N
  <2>2. F \in [Nat \X Seq(Nat) -> Seq(Nat)]
        /\ \A i \in Nat, s \in Seq(Nat) : F[<<i, s>>] = N(i + 1, s)
    BY <2>1
  <2>3. <<>> \in Seq(Nat)
    BY EmptySeq
  <2> HIDE DEF F
  <2>4. PICK f : Follows(f, Seq(Nat), <<>>, F)
    BY <2>2, <2>3, RecursionExists
  <2>5. /\ f \in [Nat -> Seq(Nat)] /\ f[0] = <<>>
        /\ \A i \in Nat : f[i + 1] = F[<<i, f[i]>>]
    BY <2>4 DEF Follows
  <2>6. \A i \in Nat : f[i] \in Seq(Nat)
    BY <2>5
  <2> QED BY <2>2, <2>5, <2>6
<1>6. \E f : f = Z(f)
  <2> DEFINE h == [i \in 0..n |-> g[i]]
  <2>1. ASSUME NEW i \in 0..n
        PROVE  g[i] = IF i <= p THEN <<>>
                      ELSE IF c[i].role = "tool" THEN h[i - 1] ELSE Append(h[i - 1], i)
    <3>1. CASE i = 0
      BY <1>2, <1>5, <3>1
    <3>2. CASE i /= 0
      <4>1. i - 1 \in Nat /\ (i - 1) + 1 = i /\ i - 1 \in 0..n
        BY <1>2, <3>2
      <4>2. g[(i - 1) + 1] = N((i - 1) + 1, g[i - 1])
        BY <1>5, <4>1
      <4>3. h[i - 1] = g[i - 1]
        BY <4>1
      <4> QED BY <4>1, <4>2, <4>3
    <3> QED BY <3>1, <3>2
  <2>2. h = Z(h)
    BY <2>1
  <2> QED BY <2>2
<1>7. seen = Z(seen)
  <2> HIDE DEF Z
  <2> QED BY <1>6
<1> HIDE DEF seen
<1>8. \A i \in 0..n : seen[i] = IF i <= p THEN <<>>
                                ELSE IF c[i].role = "tool" THEN seen[i - 1]
                                ELSE Append(seen[i - 1], i)
  <2>1. \A i \in 0..n : Z(seen)[i] = IF i <= p THEN <<>>
                                ELSE IF c[i].role = "tool" THEN seen[i - 1]
                                ELSE Append(seen[i - 1], i)
    OBVIOUS
  <2> HIDE DEF Z
  <2> QED BY <1>7, <2>1
<1> DEFINE Right(i) ==
             /\ seen[i] \in Seq(Turns(c)) /\ Listed(seen[i], c, i)
             /\ \A s \in Turns(c) :
                  s <= i => seen[i] /= <<>> /\ s <= seen[i][Len(seen[i])]
           T == { i \in Nat : i <= n => Right(i) }
<1>9. 0 \in T
  <2>1. seen[0] = <<>>
    BY <1>2, <1>8
  <2>2. \A s \in Turns(c) : ~(s <= 0)
    BY <1>2, <1>3
  <2>3. <<>> \in Seq(Turns(c)) /\ Len(<<>>) = 0
    BY EmptySeq
  <2>4. Listed(<<>>, c, 0)
    BY <2>2, <2>3 DEF Listed
  <2> QED BY <2>1, <2>2, <2>3, <2>4
<1>10. ASSUME NEW i \in T PROVE i + 1 \in T
  <2> SUFFICES ASSUME i + 1 <= n PROVE Right(i + 1)
    BY DEF T
  <2>0. i \in Nat /\ i <= n /\ i + 1 \in 0..n /\ (i + 1) - 1 = i
    BY <1>2
  <2>1. Right(i)
    BY <2>0
  <2>2. seen[i + 1] = IF i + 1 <= p THEN <<>>
                      ELSE IF c[i + 1].role = "tool" THEN seen[i]
                      ELSE Append(seen[i], i + 1)
    BY <1>8, <2>0
  <2>3. CASE i + 1 <= p
    <3>1. seen[i + 1] = <<>>
      BY <2>2, <2>3
    <3>2. \A s \in Turns(c) : ~(s <= i + 1)
      BY <1>2, <1>3, <2>0, <2>3
    <3>3. <<>> \in Seq(Turns(c)) /\ Len(<<>>) = 0
      BY EmptySeq
    <3>4. Listed(<<>>, c, i + 1)
      BY <3>2, <3>3 DEF Listed
    <3> QED BY <3>1, <3>2, <3>3, <3>4
  <2>4. CASE ~(i + 1 <= p) /\ c[i + 1].role = "tool"
    <3>1. seen[i + 1] = seen[i]
      BY <2>2, <2>4
    <3>2. \A s \in Turns(c) : s <= i + 1 => s <= i
      <4> SUFFICES ASSUME NEW s \in Turns(c), s <= i + 1 PROVE s <= i
        OBVIOUS
      <4>1. s /= i + 1 /\ s \in (p + 1)..n
        BY <1>3, <2>4
      <4> QED BY <1>2, <2>0, <4>1
    <3>3. i + 1 \notin Turns(c)
      BY <1>3, <2>4
    <3>4. Listed(seen[i], c, i + 1)
      BY <2>0, <2>1, <3>3, ListedNext
    <3> QED BY <2>1, <3>1, <3>2, <3>4
  <2>5. CASE ~(i + 1 <= p) /\ c[i + 1].role /= "tool"
    <3>1. seen[i + 1] = Append(seen[i], i + 1)
      BY <2>2, <2>5
    <3>2. i + 1 \in Turns(c)
      <4>1. i + 1 \in (p + 1)..n
        BY <1>2, <2>0, <2>5
      <4> QED BY <1>4, <2>5, <4>1
    <3>3. /\ Append(seen[i], i + 1) \in Seq(Turns(c)) /\ Append(seen[i], i + 1) /= <<>>
          /\ Len(Append(seen[i], i + 1)) = Len(seen[i]) + 1
          /\ Append(seen[i], i + 1)[Len(seen[i]) + 1] = i + 1
      BY <2>1, <3>2, AppendProperties
    <3>4. Listed(Append(seen[i], i + 1), c, i + 1)
      BY <2>0, <2>1, <3>2, ListedNext
    <3> QED BY <3>1, <3>3, <3>4
  <2> QED BY <2>3, <2>4, <2>5
<1> HIDE DEF Right, T
<1>11. T = Nat
  <2>1. T \in SUBSET Nat
    BY DEF T
  <2> QED BY <1>9, <1>10, <2>1, Induction
<1>12. Right(n)
  <2>1. n \in T /\ n <= n
    BY <1>2, <1>11
  <2> QED BY <2>1 DEF T
<1>13. \A s \in Turns(c) : s <= n
  BY <1>2, <1>3
<1> QED BY <1>1, <1>12, <1>13 DEF Right, n

(* Once the cut at a turn removes what is needed, so do those behind it.   *)
Climbs(c) ==
  \A d, e \in 1..Len(Starts(c)) :
    d <= e /\ Removes(c, d) >= Need(c) => Removes(c, e) >= Need(c)

(* The search ends at a turn whose cut removes what is needed, or at the   *)
(* last one (trim's two indices, lo and hi); and then at the first.        *)
LEMMA CutFacts ==
  ASSUME NEW c \in Talks, Starts(c) /= <<>>
  PROVE  /\ Cut(c) \in 1..Len(Starts(c))
         /\ Cut(c) = Len(Starts(c)) \/ Removes(c, Cut(c)) >= Need(c)
         /\ Climbs(c) =>
              \A d \in 1..Len(Starts(c)) : d < Cut(c) => ~(Removes(c, d) >= Need(c))
<1> DEFINE n == Len(Starts(c))
           Enough(d) == Removes(c, d) >= Need(c)
           NoneBelow(k) == Climbs(c) => \A d \in 1..n : d < k => ~Enough(d)
           a == [lo |-> 1, hi |-> n]
           S == { s \in [lo : 1..n, hi : 1..n] :
                    s.lo <= s.hi /\ (s.hi = n \/ Enough(s.hi)) /\ NoneBelow(s.lo) }
           Z(f) == [k \in Nat |-> IF k = 0 THEN a ELSE Halved(c, f[k - 1])]
           search == CHOOSE f : f = Z(f)
           F == [x \in Nat \X S |-> Halved(c, x[2])]
<1>1. Cut(c) = search[n].lo
  BY DEF Cut
<1>2. n \in Nat /\ n >= 1
  <2>1. Starts(c) \in Seq(Turns(c))
    BY StartsFacts
  <2> QED BY <2>1, EmptySeq, LenProperties
<1>u. ASSUME Climbs(c), NEW d \in 1..n, NEW e \in 1..n, d <= e, Enough(d)
      PROVE  Enough(e)
  BY <1>u DEF Climbs
<1> HIDE DEF n
<1>3. a \in S
  BY <1>2
<1>4. ASSUME NEW s \in S
      PROVE  /\ Halved(c, s) \in S
             /\ s.lo = s.hi => Halved(c, s) = s
             /\ s.lo /= s.hi => Halved(c, s).hi - Halved(c, s).lo < s.hi - s.lo
  <2> DEFINE mid == s.lo + (s.hi - s.lo) \div 2
  <2>1. /\ s \in [lo : 1..n, hi : 1..n] /\ s.lo <= s.hi
        /\ (s.hi = n \/ Enough(s.hi)) /\ NoneBelow(s.lo)
    OBVIOUS
  <2>2. CASE s.lo = s.hi
    <3>1. Halved(c, s) = s
      BY <2>2 DEF Halved
    <3> QED BY <2>2, <3>1
  <2>3. CASE s.lo /= s.hi
    <3> HIDE DEF Enough, S, NoneBelow
    <3>1. s.lo \in 1..n /\ s.hi \in 1..n /\ s.lo < s.hi
      BY <1>2, <2>1, <2>3
    <3>2. PICK l \in Nat, h \in Nat, q \in Nat :
            /\ l = s.lo /\ h = s.hi /\ q = (s.hi - s.lo) \div 2 /\ 2 * q <= h - l
            /\ 1 <= l /\ l < h /\ h <= n
      BY <1>2, <3>1
    <3>6. mid = l + q
      BY <3>2
    <3> HIDE DEF mid
    <3>7. l <= mid /\ mid < h /\ mid \in Nat
      <4>1. \A x, y, z \in Nat : 2 * z <= y - x /\ x < y =>
                                   x <= x + z /\ x + z < y /\ x + z \in Nat
        OBVIOUS
      <4>2. 2 * q <= h - l /\ l < h
        BY <3>2
      <4> QED BY <3>6, <4>1, <4>2
    <3>3. mid \in 1..n /\ mid + 1 \in 1..n
      BY <1>2, <3>2, <3>7
    <3>8. s.lo = l /\ s.hi = h
      BY <3>2
    <3>4. CASE Enough(mid)
      <4>1. Halved(c, s) = [s EXCEPT !.hi = mid]
        BY <2>3, <3>4 DEF Halved, Enough, mid
      <4>2. /\ [s EXCEPT !.hi = mid] \in [lo : 1..n, hi : 1..n]
            /\ [s EXCEPT !.hi = mid].lo = s.lo /\ [s EXCEPT !.hi = mid].hi = mid
        BY <2>1, <3>3
      <4>3. PICK t \in [lo : 1..n, hi : 1..n] : t = Halved(c, s) /\ t.lo = s.lo /\ t.hi = mid
        BY <4>1, <4>2
      <4>4. t.lo <= t.hi /\ t.hi - t.lo < s.hi - s.lo
        BY <3>7, <3>8, <4>3
      <4>5. Enough(t.hi) /\ NoneBelow(t.lo)
        BY <2>1, <3>4, <4>3
      <4>6. t \in S
        BY <4>3, <4>4, <4>5 DEF S
      <4> QED BY <2>3, <4>3, <4>4, <4>6
    <3>5. CASE ~Enough(mid)
      <4>1. Halved(c, s) = [s EXCEPT !.lo = mid + 1]
        BY <2>3, <3>5 DEF Halved, Enough, mid
      <4>2. /\ [s EXCEPT !.lo = mid + 1] \in [lo : 1..n, hi : 1..n]
            /\ [s EXCEPT !.lo = mid + 1].lo = mid + 1 /\ [s EXCEPT !.lo = mid + 1].hi = s.hi
        BY <2>1, <3>3
      <4>3. PICK t \in [lo : 1..n, hi : 1..n] : t = Halved(c, s) /\ t.lo = mid + 1 /\ t.hi = s.hi
        BY <4>1, <4>2
      <4>4. t.lo <= t.hi /\ t.hi - t.lo < s.hi - s.lo
        BY <3>7, <3>8, <4>3
      <4>5. t.hi = n \/ Enough(t.hi)
        BY <2>1, <4>3
      <4>7. NoneBelow(mid + 1)
        <5> SUFFICES ASSUME Climbs(c), NEW d \in 1..n, d < mid + 1, Enough(d) PROVE FALSE
          BY DEF NoneBelow
        <5>1. d <= mid
          BY <1>2, <3>7
        <5> QED BY <1>u, <3>3, <3>5, <5>1
      <4>6. t \in S
        BY <4>3, <4>4, <4>5, <4>7 DEF S
      <4> QED BY <2>3, <4>3, <4>4, <4>6
    <3> QED BY <3>4, <3>5
  <2> QED BY <2>2, <2>3
<1>5. \A s \in S : s.lo \in 1..n /\ s.hi \in 1..n /\ s.lo <= s.hi
                   /\ (s.hi = n \/ Enough(s.hi)) /\ NoneBelow(s.lo)
  OBVIOUS
<1> HIDE DEF S, a, NoneBelow
<1>6. PICK g \in [Nat -> S] : g[0] = a /\ \A k \in Nat : g[k + 1] = Halved(c, g[k])
  <2>1. F \in [Nat \X S -> S] /\ \A k \in Nat, s \in S : F[<<k, s>>] = Halved(c, s)
    BY <1>4
  <2> HIDE DEF F
  <2>2. PICK f : Follows(f, S, a, F)
    BY <1>3, <2>1, RecursionExists
  <2>3. f \in [Nat -> S] /\ f[0] = a /\ \A k \in Nat : f[k + 1] = F[<<k, f[k]>>]
    BY <2>2 DEF Follows
  <2>4. \A k \in Nat : f[k] \in S
    BY <2>3
  <2> QED BY <2>1, <2>3, <2>4
<1>7. g = Z(g)
  <2>1. g = [k \in Nat |-> g[k]]
    OBVIOUS
  <2>2. ASSUME NEW k \in Nat
        PROVE  g[k] = IF k = 0 THEN a ELSE Halved(c, g[k - 1])
    <3>1. CASE k = 0
      BY <1>6, <3>1
    <3>2. CASE k /= 0
      <4>1. k - 1 \in Nat /\ (k - 1) + 1 = k
        BY <3>2
      <4>2. g[(k - 1) + 1] = Halved(c, g[k - 1])
        BY <4>1, <1>6
      <4> QED BY <3>2, <4>1, <4>2
    <3> QED BY <3>1, <3>2
  <2>3. Z(g) = [k \in Nat |-> g[k]]
    BY <2>2
  <2> QED BY <2>1, <2>3
<1>8. search = Z(search)
  <2> HIDE DEF Z
  <2> QED BY <1>7
<1> HIDE DEF search
<1>9. search[0] = a /\ \A k \in Nat : search[k + 1] = Halved(c, search[k])
  <2>1. \A k \in Nat : Z(search)[k] = IF k = 0 THEN a ELSE Halved(c, search[k - 1])
    OBVIOUS
  <2> HIDE DEF Z
  <2>2. \A k \in Nat : k + 1 \in Nat /\ k + 1 /= 0 /\ (k + 1) - 1 = k
    OBVIOUS
  <2>3. \A k \in Nat : search[k] = IF k = 0 THEN a ELSE Halved(c, search[k - 1])
    BY <1>8, <2>1
  <2>4. search[0] = a
    BY <2>3
  <2> QED BY <2>2, <2>3, <2>4
<1> DEFINE T == { k \in Nat : /\ search[k] \in S
                              /\ \/ search[k].lo = search[k].hi
                                 \/ (search[k].hi - search[k].lo) + k <= n - 1 }
<1>10. 0 \in T
  <2>1. a.lo = 1 /\ a.hi = n
    BY DEF a
  <2> QED BY <1>2, <1>3, <1>9, <2>1
<1>11. ASSUME NEW k \in T PROVE k + 1 \in T
  <2>0. PICK s \in S : s = search[k]
    OBVIOUS
  <2>1. PICK t : s = search[k] /\ t = Halved(c, s) /\ t = search[k + 1]
    BY <1>9, <2>0
  <2>2. /\ t \in S /\ (s.lo = s.hi => t = s)
        /\ s.lo /= s.hi => t.hi - t.lo < s.hi - s.lo
    BY <1>4, <2>1
  <2>3. s.lo = s.hi \/ (s.hi - s.lo) + k <= n - 1
    BY <2>1
  <2>4. PICK sl \in Int, sh \in Int, tl \in Int, th \in Int :
          sl = s.lo /\ sh = s.hi /\ tl = t.lo /\ th = t.hi
    BY <1>5, <2>2
  <2>5. t.lo = t.hi \/ (t.hi - t.lo) + (k + 1) <= n - 1
    <3>1. CASE s.lo = s.hi
      BY <2>2, <3>1
    <3>2. CASE s.lo /= s.hi
      <4>1. th - tl < sh - sl /\ (sh - sl) + k <= n - 1
        BY <2>2, <2>3, <2>4, <3>2
      <4>2. k \in Nat
        OBVIOUS
      <4> HIDE DEF T
      <4>3. (th - tl) + (k + 1) <= n - 1
        BY <1>2, <4>1, <4>2
      <4> QED BY <2>4, <4>3
    <3> QED BY <3>1, <3>2
  <2> QED BY <2>1, <2>2, <2>5
<1> HIDE DEF T
<1>12. T = Nat
  <2>1. T \in SUBSET Nat
    BY DEF T
  <2> QED BY <1>10, <1>11, <2>1, Induction
<1>13. PICK s \in S : s = search[n] /\ (s.lo = s.hi \/ (s.hi - s.lo) + n <= n - 1)
  BY <1>2, <1>12 DEF T
<1>14. s.lo = s.hi /\ s.lo \in 1..n /\ (s.hi = n \/ Enough(s.hi)) /\ NoneBelow(s.lo)
  <2>1. /\ s.lo \in 1..n /\ s.hi \in 1..n /\ s.lo <= s.hi
        /\ (s.hi = n \/ Enough(s.hi)) /\ NoneBelow(s.lo)
    BY <1>5
  <2>2. PICK l \in Nat, h \in Nat : l = s.lo /\ h = s.hi
    BY <1>2, <2>1
  <2>3. l = h
    BY <1>2, <1>13, <2>1, <2>2
  <2> QED BY <2>1, <2>2, <2>3
<1>15. Cut(c) \in 1..n /\ (Cut(c) = n \/ Enough(Cut(c))) /\ NoneBelow(Cut(c))
  BY <1>1, <1>13, <1>14
<1> QED BY <1>15 DEF n, NoneBelow

----------------------------------------------------------------------------
(* What is elided, once or again. *)

(* s without what is between its first h and its last t.                   *)
Middled(s, h, t) == SubSeq(s, 1, h) \o Note \o SubSeq(s, Len(s) - t + 1, Len(s))

Parts(u, s, h, t) ==
  /\ u \in Seq(Token) /\ Len(u) = h + Len(Note) + t
  /\ \A i \in 1..(h + Len(Note) + t) :
       u[i] = IF i <= h THEN s[i]
              ELSE IF i <= h + Len(Note) THEN Note[i - h]
              ELSE s[Len(s) - t + (i - h - Len(Note))]

LEMMA MiddledFacts ==
  ASSUME NEW s \in Seq(Token), NEW h \in Nat, NEW t \in Nat, h + t <= Len(s)
  PROVE  Parts(Middled(s, h, t), s, h, t)
<1> DEFINE first == SubSeq(s, 1, h)
           last == SubSeq(s, Len(s) - t + 1, Len(s))
           u == first \o Note
<1>1. PICK n \in Nat, k \in Nat :
        n = Len(s) /\ k = Len(Note) /\ h <= n /\ t <= n /\ Note \in Seq(Token)
  <2>1. Note \in Seq(Token) /\ Len(s) \in Nat /\ Len(Note) \in Nat
    BY ChatAssumption, LenProperties
  <2> QED BY <2>1
<1>2. \A i \in 1..n : s[i] \in Token
  BY <1>1, ElementOfSeq
<1>3. /\ first \in Seq(Token) /\ Len(first) = h
      /\ \A i \in 1..h : first[i] = s[i]
  <2>1. \A i \in 1..h : s[i] \in Token
    BY <1>1, <1>2
  <2>2. /\ SubSeq(s, 1, h) \in Seq(Token)
        /\ Len(SubSeq(s, 1, h)) = IF 1 <= h THEN h - 1 + 1 ELSE 0
        /\ \A i \in 1..(h - 1 + 1) : SubSeq(s, 1, h)[i] = s[1 + i - 1]
    BY <2>1, SubSeqProperties
  <2>3. \A i \in 1..h : i \in 1..(h - 1 + 1) /\ 1 + i - 1 = i
    OBVIOUS
  <2>4. (IF 1 <= h THEN h - 1 + 1 ELSE 0) = h
    OBVIOUS
  <2> QED BY <2>2, <2>3, <2>4
<1>4. /\ last \in Seq(Token) /\ Len(last) = t
      /\ \A i \in 1..t : last[i] = s[n - t + i]
  <2>0. n - t + 1 \in Int /\ n \in Int
    OBVIOUS
  <2>1. \A i \in (n - t + 1)..n : s[i] \in Token
    BY <1>1, <1>2
  <2>2. /\ SubSeq(s, n - t + 1, n) \in Seq(Token)
        /\ Len(SubSeq(s, n - t + 1, n)) =
             IF n - t + 1 <= n THEN n - (n - t + 1) + 1 ELSE 0
        /\ \A i \in 1..(n - (n - t + 1) + 1) :
             SubSeq(s, n - t + 1, n)[i] = s[(n - t + 1) + i - 1]
    <3>1. PICK a \in Int : a = n - t + 1
      BY <2>0
    <3>2. n \in Int /\ \A i \in a..n : s[i] \in Token
      BY <2>0, <2>1, <3>1
    <3>3. /\ SubSeq(s, a, n) \in Seq(Token)
          /\ Len(SubSeq(s, a, n)) = IF a <= n THEN n - a + 1 ELSE 0
          /\ \A i \in 1..(n - a + 1) : SubSeq(s, a, n)[i] = s[a + i - 1]
      BY ONLY <3>2, a \in Int, SubSeqProperties
    <3> QED BY <3>1, <3>3
  <2>3. \A i \in 1..t : i \in 1..(n - (n - t + 1) + 1) /\ (n - t + 1) + i - 1 = n - t + i
    OBVIOUS
  <2>4. (IF n - t + 1 <= n THEN n - (n - t + 1) + 1 ELSE 0) = t
    OBVIOUS
  <2>5. last = SubSeq(s, n - t + 1, n)
    BY <1>1
  <2> HIDE DEF last
  <2> QED BY <2>2, <2>3, <2>4, <2>5
<1> HIDE DEF first, last
<1>5. /\ u \in Seq(Token) /\ Len(u) = h + k
      /\ \A i \in 1..(h + k) : u[i] = IF i <= h THEN first[i] ELSE Note[i - h]
  BY <1>1, <1>3, ConcatProperties
<1>6. Middled(s, h, t) = u \o last
  BY DEF Middled, first, last
<1> HIDE DEF u
<1>7. /\ u \o last \in Seq(Token) /\ Len(u \o last) = (h + k) + t
      /\ \A i \in 1..((h + k) + t) :
           (u \o last)[i] = IF i <= h + k THEN u[i] ELSE last[i - (h + k)]
  <2>1. /\ u \o last \in Seq(Token) /\ Len(u \o last) = Len(u) + Len(last)
        /\ \A i \in 1..(Len(u) + Len(last)) :
             (u \o last)[i] = IF i <= Len(u) THEN u[i] ELSE last[i - Len(u)]
    BY <1>4, <1>5, ConcatProperties
  <2> QED BY <1>4, <1>5, <2>1
<1> DEFINE w == u \o last
<1> HIDE DEF w
<1>8. ASSUME NEW i \in 1..(h + k + t)
      PROVE  w[i] = IF i <= h THEN s[i]
                    ELSE IF i <= h + k THEN Note[i - h]
                    ELSE s[n - t + (i - h - k)]
  <2>1. w[i] = IF i <= h + k THEN u[i] ELSE last[i - (h + k)]
    BY <1>7 DEF w
  <2>2. CASE i <= h
    <3>1. i \in 1..(h + k) /\ i <= h + k /\ i \in 1..h
      BY <2>2
    <3> QED BY <1>3, <1>5, <2>1, <2>2, <3>1
  <2>3. CASE ~(i <= h) /\ i <= h + k
    <3>1. i \in 1..(h + k)
      BY <2>3
    <3> QED BY <1>5, <2>1, <2>3, <3>1
  <2>4. CASE ~(i <= h + k)
    <3>1. ~(i <= h) /\ i - (h + k) \in 1..t /\ i - h - k = i - (h + k)
      BY <2>4
    <3> QED BY <1>4, <2>1, <2>4, <3>1
  <2> QED BY <2>2, <2>3, <2>4
<1>9. w \in Seq(Token) /\ Len(w) = h + k + t /\ Middled(s, h, t) = w
  BY <1>6, <1>7 DEF w
<1> QED BY <1>1, <1>8, <1>9 DEF Parts

(* Eliding what has been elided is eliding more of the original.           *)
LEMMA MiddledAgain ==
  ASSUME NEW s \in Seq(Token), NEW h \in Nat, NEW t \in Nat, h + t <= Len(s),
         NEW g \in Nat, NEW e \in Nat, g <= h, e <= t
  PROVE  Middled(Middled(s, h, t), g, e) = Middled(s, g, e)
<1>0. PICK n \in Nat, k \in Nat : n = Len(s) /\ k = Len(Note)
  <2>1. Note \in Seq(Token) /\ Len(s) \in Nat /\ Len(Note) \in Nat
    BY ChatAssumption, LenProperties
  <2> QED BY <2>1
<1>1. PICK u : n = Len(s) /\ k = Len(Note) /\ u = Middled(s, h, t)
  BY <1>0
<1>2. /\ u \in Seq(Token) /\ Len(u) = h + k + t
      /\ \A i \in 1..(h + k + t) :
           u[i] = IF i <= h THEN s[i]
                  ELSE IF i <= h + k THEN Note[i - h]
                  ELSE s[n - t + (i - h - k)]
  <2>1. Parts(u, s, h, t)
    BY <1>1, MiddledFacts
  <2> QED BY <1>1, <2>1 DEF Parts
<1>3. g + e <= n /\ g + e <= h + k + t
  BY <1>1
<1>4. PICK a \in Seq(Token) :
        /\ a = Middled(u, g, e) /\ Len(a) = g + k + e
        /\ \A i \in 1..(g + k + e) :
             a[i] = IF i <= g THEN u[i]
                    ELSE IF i <= g + k THEN Note[i - g]
                    ELSE u[(h + k + t) - e + (i - g - k)]
  <2>1. g + e <= Len(u)
    BY <1>2, <1>3
  <2>2. Parts(Middled(u, g, e), u, g, e)
    BY <1>2, <2>1, MiddledFacts
  <2> QED BY <1>1, <1>2, <2>2 DEF Parts
<1>5. PICK b \in Seq(Token) :
        /\ b = Middled(s, g, e) /\ Len(b) = g + k + e
        /\ \A i \in 1..(g + k + e) :
             b[i] = IF i <= g THEN s[i]
                    ELSE IF i <= g + k THEN Note[i - g]
                    ELSE s[n - e + (i - g - k)]
  <2>1. Parts(Middled(s, g, e), s, g, e)
    BY <1>1, <1>3, MiddledFacts
  <2> QED BY <1>1, <2>1 DEF Parts
<1>6. ASSUME NEW i \in 1..(g + k + e) PROVE a[i] = b[i]
  <2>1. CASE i <= g
    <3>1. i <= h /\ i \in 1..(h + k + t)
      BY <2>1
    <3> QED BY <1>2, <1>4, <1>5, <2>1, <3>1
  <2>2. CASE ~(i <= g) /\ i <= g + k
    BY <1>4, <1>5, <2>2
  <2>3. CASE ~(i <= g + k)
    <3> DEFINE j == (h + k + t) - e + (i - g - k)
    <3>1. /\ j \in 1..(h + k + t) /\ ~(j <= h) /\ ~(j <= h + k)
          /\ n - t + (j - h - k) = n - e + (i - g - k)
      BY <2>3
    <3>2. a[i] = u[j] /\ b[i] = s[n - e + (i - g - k)]
      <4>1. ~(i <= g)
        BY <2>3
      <4> QED BY <1>4, <1>5, <2>3, <4>1
    <3> HIDE DEF j
    <3>3. u[j] = s[n - t + (j - h - k)]
      BY <1>2, <3>1
    <3> QED BY <3>1, <3>2, <3>3
  <2> QED BY <2>1, <2>2, <2>3
<1>7. a = b
  <2>1. Len(a) = Len(b) /\ \A i \in 1..Len(a) : a[i] = b[i]
    BY <1>4, <1>5, <1>6
  <2> QED BY <2>1, SeqEqual
<1> QED BY <1>1, <1>4, <1>5, <1>7

(* The head is twice the tail, so that neither grows when they and a note  *)
(* no longer than both are divided anew.                                   *)
LEMMA ThirdsAgain ==
  ASSUME NEW n \in Nat
  PROVE  LET half == n \div 2
             head == (half * 2) \div 3
             tail == half \div 3
         IN  /\ head \in Nat /\ tail \in Nat
             /\ tail + tail <= head /\ head <= tail + tail + 1
             /\ \A h, t, k \in Nat :
                  /\ n = h + k + t /\ k + k <= n - 1
                  /\ t + t <= h /\ h <= t + t + 1
                  => head <= h /\ tail <= t
<1> DEFINE half == n \div 2
<1>1. half \in Nat /\ 2 * half <= n /\ n <= 2 * half + 1
  OBVIOUS
<1> HIDE DEF half
<1> DEFINE head == (half * 2) \div 3
           tail == half \div 3
<1>2. /\ head \in Nat /\ tail \in Nat
      /\ 3 * head <= 2 * half /\ 2 * half <= 3 * head + 2
      /\ 3 * tail <= half /\ half <= 3 * tail + 2
  BY <1>1
<1> HIDE DEF head, tail
<1>3. tail + tail <= head /\ head <= tail + tail + 1
  BY <1>1, <1>2
<1>4. ASSUME NEW h \in Nat, NEW t \in Nat, NEW k \in Nat,
             n = h + k + t, k + k <= n - 1, t + t <= h, h <= t + t + 1
      PROVE  head <= h /\ tail <= t
  <2>1. half + 1 <= h + t
    BY <1>1, <1>4
  <2> QED BY <1>1, <1>2, <1>4, <2>1
<1> QED BY <1>2, <1>3, <1>4 DEF head, tail, half

(* n is m, or what eliding m, and again, has left of it.                   *)
ParedTo(n, m, h, t) ==
  /\ t + t <= h /\ h <= t + t + 1 /\ h + Len(Note) + t < Len(m.content)
  /\ n.role = m.role /\ n.content = Middled(m.content, h, t)
Pared(n, m) == n = m \/ \E h, t \in Nat : ParedTo(n, m, h, t)

(* That is a form of m (elide).                                            *)
LEMMA ParedForm ==
  ASSUME NEW m \in Messages, NEW n \in Messages, Pared(n, m)
  PROVE  Form(n, m)
<1> SUFFICES ASSUME NEW h \in Nat, NEW t \in Nat, ParedTo(n, m, h, t) PROVE Form(n, m)
  BY DEF Pared, Form
<1> DEFINE s == m.content
<1>1. s \in Seq(Token) /\ Len(s) \in Nat /\ Note \in Seq(Token) /\ Len(Note) \in Nat
  BY ChatAssumption, LenProperties DEF Messages
<1>2. h + Len(Note) + t < Len(s) /\ n.role = m.role /\ n.content = Middled(s, h, t)
  BY DEF ParedTo
<1> HIDE DEF s
<1>3. h + t <= Len(s) /\ h \in 0..Len(s) /\ Len(s) - t + 1 \in 1..(Len(s) + 1)
  BY <1>1, <1>2
<1>4. Len(n.content) < Len(s)
  <2>1. Parts(Middled(s, h, t), s, h, t)
    BY <1>1, <1>3, MiddledFacts
  <2> QED BY <1>2, <2>1 DEF Parts
<1>5. n.content = SubSeq(s, 1, h) \o Note \o SubSeq(s, Len(s) - t + 1, Len(s))
  BY <1>2 DEF Middled
<1> QED BY <1>2, <1>3, <1>4, <1>5 DEF Form, s

(* The loop may come back to a message: it pares it further, and it always *)
(* gets shorter, so that the loop ends (elide, trim).                      *)
LEMMA ElidedPares ==
  ASSUME NEW m \in Messages, NEW n \in Messages, Pared(n, m), Len(n.content) > ElideOver
  PROVE  /\ Elided(n) \in Messages /\ Pared(Elided(n), m)
         /\ Elided(n).role = n.role /\ Len(Elided(n).content) < Len(n.content)
<1> DEFINE s == n.content
           half == Len(s) \div 2
           head == (half * 2) \div 3
           tail == half \div 3
           short == Middled(s, head, tail)
<1>1. s \in Seq(Token) /\ Note \in Seq(Token) /\ m.content \in Seq(Token)
  BY ChatAssumption DEF Messages
<1>2. PICK l \in Nat, k \in Nat : l = Len(s) /\ k = Len(Note) /\ k + k <= l - 1
  <2>1. Len(s) \in Nat /\ Len(Note) \in Nat
    BY <1>1, LenProperties
  <2>2. Len(s) > ElideOver
    OBVIOUS
  <2> HIDE DEF s
  <2> QED BY <2>1, <2>2, TrimAssumption
<1>3. Elided(n) = [n EXCEPT !.content = short]
  BY DEF Elided, Middled
<1>4. /\ head \in Nat /\ tail \in Nat /\ head + k + tail < l
      /\ tail + tail <= head /\ head <= tail + tail + 1
      /\ \A h, t \in Nat :
           l = h + k + t /\ t + t <= h /\ h <= t + t + 1 => head <= h /\ tail <= t
  <2> HIDE DEF s
  <2>1. /\ head \in 0..l /\ tail \in 0..l /\ head + k + tail < l
    BY <1>2, Thirds
  <2>2. /\ head \in Nat /\ tail \in Nat
        /\ tail + tail <= head /\ head <= tail + tail + 1
        /\ \A h, t, j \in Nat :
             /\ l = h + j + t /\ j + j <= l - 1
             /\ t + t <= h /\ h <= t + t + 1
             => head <= h /\ tail <= t
    BY <1>2, ThirdsAgain
  <2> HIDE DEF half, head, tail
  <2> QED BY <1>2, <2>1, <2>2
<1> HIDE DEF half, head, tail, short
<1>5. short \in Seq(Token) /\ Len(short) < l
  <2>1. head + tail <= Len(s)
    BY <1>2, <1>4
  <2>2. Parts(short, s, head, tail)
    <3> HIDE DEF s
    <3> QED BY <1>1, <1>4, <2>1, MiddledFacts DEF short
  <2> QED BY <1>2, <1>4, <2>2 DEF Parts
<1>6. /\ Elided(n) \in Messages
      /\ Elided(n).role = n.role /\ Elided(n).content = short
  <2> HIDE DEF s
  <2> QED BY <1>3, <1>5 DEF Messages
<1>7. ParedTo(Elided(n), m, head, tail)
  <2>1. CASE n = m
    BY <1>2, <1>4, <1>6, <2>1 DEF ParedTo, short
  <2>2. CASE \E h, t \in Nat : ParedTo(n, m, h, t)
    <3>1. PICK h \in Nat, t \in Nat : ParedTo(n, m, h, t)
      BY <2>2
    <3>2. /\ t + t <= h /\ h <= t + t + 1 /\ h + k + t < Len(m.content)
          /\ n.role = m.role /\ s = Middled(m.content, h, t)
      BY <1>2, <3>1 DEF ParedTo
    <3>3. PICK o \in Nat : o = Len(m.content) /\ h + k + t < o /\ h + t <= o
      <4>1. Len(m.content) \in Nat
        BY <1>1, LenProperties
      <4> QED BY <3>2, <4>1
    <3>4. l = h + k + t
      <4>1. Parts(Middled(m.content, h, t), m.content, h, t)
        BY <1>1, <3>3, MiddledFacts
      <4> QED BY <1>2, <3>2, <4>1 DEF Parts
    <3>5. head <= h /\ tail <= t
      BY <1>4, <3>2, <3>4
    <3>6. short = Middled(m.content, head, tail)
      <4>1. Middled(Middled(m.content, h, t), head, tail) = Middled(m.content, head, tail)
        BY <1>1, <1>4, <3>3, <3>5, MiddledAgain
      <4> QED BY <3>2, <4>1 DEF short
    <3>7. head + k + tail < Len(m.content)
      BY <1>4, <3>3, <3>4
    <3> QED BY <1>2, <1>4, <1>6, <3>2, <3>6, <3>7 DEF ParedTo
  <2> QED BY <2>1, <2>2 DEF Pared
<1> QED BY <1>2, <1>4, <1>5, <1>6, <1>7 DEF Pared

(* There is a longest message to pick where any may be (trim's scan).      *)
LEMMA BiggestFacts ==
  ASSUME NEW c \in Talks, NEW p \in Nat, p < Len(c)
  PROVE  /\ Biggest(c, p) \in (p + 1)..Len(c)
         /\ \A j \in (p + 1)..Len(c) :
              Len(c[j].content) <= Len(c[Biggest(c, p)].content)
<1> DEFINE n == Len(c)
           L(i) == Len(c[i].content)
           Best(i, m) == \A j \in (p + 1)..m : L(j) <= L(i) /\ (L(j) = L(i) => j <= i)
           T == { m \in Nat : p + 1 <= m /\ m <= n => \E i \in (p + 1)..m : Best(i, m) }
<1>1. n \in Nat /\ \A i \in 1..n : L(i) \in Nat
  <2>1. n \in Nat /\ \A i \in 1..n : c[i].content \in Seq(Token)
    BY TalkFacts DEF Messages
  <2> QED BY <2>1, LenProperties
<1> HIDE DEF n, L
<1>2. 0 \in T
  OBVIOUS
<1>3. ASSUME NEW m \in T PROVE m + 1 \in T
  <2> SUFFICES ASSUME p + 1 <= m + 1, m + 1 <= n
               PROVE  \E i \in (p + 1)..(m + 1) : Best(i, m + 1)
    OBVIOUS
  <2>0. m \in Nat /\ m + 1 \in (p + 1)..(m + 1) /\ \A j \in (p + 1)..(m + 1) : L(j) \in Nat
    BY <1>1
  <2>1. CASE p + 1 = m + 1
    <3>1. \A j \in (p + 1)..(m + 1) : j = m + 1
      BY <2>1
    <3>2. Best(m + 1, m + 1)
      BY <2>0, <3>1
    <3> QED BY <2>0, <3>2
  <2>2. CASE p + 1 <= m
    <3>1. PICK i \in (p + 1)..m : Best(i, m)
      BY <1>1, <2>0, <2>2
    <3>2. i \in (p + 1)..(m + 1) /\ i < m + 1
      BY <2>0
    <3>3. \A j \in (p + 1)..(m + 1) : j = m + 1 \/ j \in (p + 1)..m
      BY <2>0
    <3>4. CASE L(m + 1) < L(i)
      <4>1. Best(i, m + 1)
        BY <2>0, <3>1, <3>2, <3>3, <3>4
      <4> QED BY <3>2, <4>1
    <3>5. CASE ~(L(m + 1) < L(i))
      <4>1. Best(m + 1, m + 1)
        <5> SUFFICES ASSUME NEW j \in (p + 1)..(m + 1)
                     PROVE  L(j) <= L(m + 1) /\ (L(j) = L(m + 1) => j <= m + 1)
          OBVIOUS
        <5>1. CASE j = m + 1
          BY <2>0, <5>1
        <5>2. CASE j \in (p + 1)..m
          <6>1. L(j) <= L(i)
            BY <3>1, <5>2
          <6> QED BY <2>0, <3>2, <3>5, <6>1
        <5> QED BY <3>3, <5>1, <5>2
      <4> QED BY <2>0, <4>1
    <3> QED BY <3>2, <3>4, <3>5, <2>0
  <2> QED BY <2>0, <2>1, <2>2
<1>4. T = Nat
  <2>1. T \in SUBSET Nat
    OBVIOUS
  <2> HIDE DEF T
  <2> QED BY <1>2, <1>3, <2>1, Induction
<1>5. \E i \in (p + 1)..n : Best(i, n)
  <2>1. p + 1 <= n /\ n <= n
    BY <1>1 DEF n
  <2>2. n \in T
    <3> HIDE DEF T
    <3> QED BY <1>1, <1>4
  <2> QED BY <2>1, <2>2
<1>6. Biggest(c, p) = CHOOSE i \in (p + 1)..n : Best(i, n)
  BY DEF Biggest, n, L
<1>7. Biggest(c, p) \in (p + 1)..n /\ Best(Biggest(c, p), n)
  BY <1>5, <1>6
<1> QED BY <1>7 DEF n, L

----------------------------------------------------------------------------
(* How long a prompt is. *)

(* The parts of a text, put together one by one.                           *)
LEMMA FlattenFacts ==
  ASSUME NEW ss \in Seq(Seq(Token))
  PROVE  \E g \in [0..Len(ss) -> Seq(Token)] :
           /\ g[0] = <<>> /\ \A i \in 1..Len(ss) : g[i] = g[i - 1] \o ss[i]
           /\ Ext!FlattenSeq(ss) = g[Len(ss)]
<1>1. Ext!FlattenSeq(ss) = Joined(ss)
  BY DEF Ext!FlattenSeq, Joined
<1> QED BY <1>1, JoinedFacts

LEMMA BlockFacts ==
  ASSUME NEW c \in Talks, NEW i \in 1..Len(c)
  PROVE  Block(c, i) \in Seq(Token)
<1>1. ImStart \in Token /\ ImEnd \in Token /\ Think \in Token
  BY ChatAssumption, ServerAssumption
<1>2. c[i].content \in Seq(Token) /\ c[i].role \in Roles
  BY TalkFacts DEF Messages
<1> DEFINE s == c[i].content
           x == <<ImStart>>
           y == <<ImEnd>>
           z == <<ImStart, Think>>
           o == IF i > 1 /\ ~IsTool(c, i - 1) THEN x ELSE <<>>
           e == IF IsTool(c, i + 1) THEN <<>> ELSE y
<1>3. /\ x \in Seq(Token) /\ y \in Seq(Token) /\ z \in Seq(Token) /\ <<>> \in Seq(Token)
  BY <1>1, EmptySeq
<1>4. o \in Seq(Token) /\ e \in Seq(Token)
  <2> HIDE DEF x, y
  <2> QED BY <1>3
<1>5. CASE c[i].role = "system"
  <2>1. Block(c, i) = <<>>
    BY <1>5 DEF Block
  <2> QED BY <1>3, <2>1
<1>6. CASE c[i].role = "user"
  <2>1. Block(c, i) = (x \o s) \o y
    BY <1>6 DEF Block
  <2> HIDE DEF x, y, s
  <2>2. x \o s \in Seq(Token)
    BY <1>2, <1>3, ConcatProperties DEF s
  <2> QED BY <1>3, <2>1, <2>2, ConcatProperties
<1>7. CASE c[i].role = "assistant"
  <2>1. Block(c, i) = (z \o s) \o y
    BY <1>7 DEF Block
  <2> HIDE DEF z, y, s
  <2>2. z \o s \in Seq(Token)
    BY <1>2, <1>3, ConcatProperties DEF s
  <2> QED BY <1>3, <2>1, <2>2, ConcatProperties
<1>8. CASE c[i].role = "tool"
  <2>1. Block(c, i) = (o \o s) \o e
    BY <1>8 DEF Block
  <2> HIDE DEF o, e, s
  <2>2. o \o s \in Seq(Token)
    BY <1>2, <1>4, ConcatProperties DEF s
  <2> QED BY <1>4, <2>1, <2>2, ConcatProperties
<1> QED BY <1>2, <1>5, <1>6, <1>7, <1>8 DEF Roles

LEMMA LeadFacts ==
  ASSUME NEW c \in Talks
  PROVE  Lead(c) \in Seq(Token)
<1>1. ImStart \in Token /\ ImEnd \in Token /\ Instructions \in Seq(Token)
  BY ChatAssumption, ServerAssumption
<1> DEFINE b == IF c[1].role = "system" THEN c[1].content ELSE <<>>
           said == Instructions \o b
           x == <<ImStart>>
           y == <<ImEnd>>
<1>2. b \in Seq(Token) /\ x \in Seq(Token) /\ y \in Seq(Token) /\ <<>> \in Seq(Token)
  <2>1. 1 \in 1..Len(c)
    BY TalkFacts
  <2>2. c[1].content \in Seq(Token)
    BY <2>1, TalkFacts DEF Messages
  <2>3. x \in Seq(Token) /\ y \in Seq(Token) /\ <<>> \in Seq(Token)
    BY <1>1, EmptySeq
  <2> HIDE DEF x, y
  <2> QED BY <2>2, <2>3
<1>3. Lead(c) = IF said = <<>> THEN <<>> ELSE (x \o said) \o y
  BY DEF Lead
<1> HIDE DEF b, x, y
<1>4. said \in Seq(Token)
  BY <1>1, <1>2, ConcatProperties
<1> HIDE DEF said
<1>5. x \o said \in Seq(Token)
  BY <1>2, <1>4, ConcatProperties
<1>6. (x \o said) \o y \in Seq(Token)
  BY <1>2, <1>5, ConcatProperties
<1> QED BY <1>2, <1>3, <1>6

(* What a prompt says up to each message, the lead first.                  *)
Spells(t, c) ==
  /\ t \in [0..Len(c) -> Seq(Token)] /\ t[0] = Lead(c)
  /\ \A i \in 1..Len(c) : t[i] = t[i - 1] \o Block(c, i)

LEMMA RenderFacts ==
  ASSUME NEW c \in Talks
  PROVE  /\ Opened \in Seq(Token) /\ Len(Opened) = 2
         /\ \E t : Spells(t, c) /\ Render(c) = t[Len(c)] \o Opened
<1> DEFINE n == Len(c)
           ss == [i \in 1..n |-> Block(c, i)]
           a == Lead(c)
           b == Ext!FlattenSeq(ss)
<1>1. n \in Nat
  BY TalkFacts
<1>2. ss \in Seq(Seq(Token)) /\ Len(ss) = n /\ \A i \in 1..n : ss[i] = Block(c, i)
  <2>1. \A i \in 1..n : Block(c, i) \in Seq(Token)
    BY BlockFacts
  <2> HIDE DEF n
  <2>2. ss \in Seq(Seq(Token)) /\ Len(ss) = n
    BY <1>1, <2>1, IsASeq
  <2> QED BY <2>2
<1>3. Render(c) = (a \o b) \o Opened
  BY DEF Render, ss, n
<1> HIDE DEF n, ss
<1>4. PICK g \in [0..n -> Seq(Token)] :
        /\ g[0] = <<>> /\ \A i \in 1..n : g[i] = g[i - 1] \o ss[i]
        /\ b = g[n]
  BY <1>2, FlattenFacts
<1> HIDE DEF b
<1>5. a \in Seq(Token) /\ Opened \in Seq(Token) /\ Len(Opened) = 2
  <2>1. ImStart \in Token /\ Think \in Token
    BY ChatAssumption, ServerAssumption
  <2>2. Opened \in Seq(Token) /\ Len(Opened) = 2
    BY <2>1 DEF Opened
  <2> QED BY <2>2, LeadFacts
<1> HIDE DEF a
<1> DEFINE t == [i \in 0..n |-> a \o g[i]]
<1>6. t \in [0..n -> Seq(Token)]
  <2>1. ASSUME NEW i \in 0..n PROVE a \o g[i] \in Seq(Token)
    <3>1. g[i] \in Seq(Token)
      BY <1>4
    <3> QED BY <1>5, <3>1, ConcatProperties
  <2> QED BY <2>1
<1>7. t[0] = a /\ t[n] = a \o b
  <2>1. 0 \in 0..n /\ n \in 0..n
    BY <1>1
  <2>2. a \o <<>> = a
    BY <1>5, ConcatEmptySeq
  <2> QED BY <1>4, <2>1, <2>2
<1>8. ASSUME NEW i \in 1..n PROVE t[i] = t[i - 1] \o Block(c, i)
  <2>1. i \in 0..n /\ i - 1 \in 0..n
    BY <1>1
  <2>2. g[i - 1] \in Seq(Token) /\ ss[i] \in Seq(Token)
    <3>1. ss[i] \in Seq(Token)
      BY <1>2, ElementOfSeq
    <3> QED BY <1>4, <2>1, <3>1
  <2>5. PICK x \in Seq(Token), y \in Seq(Token) : x = g[i - 1] /\ y = ss[i]
    BY <2>2
  <2>3. a \o (x \o y) = (a \o x) \o y
    BY <1>5, ConcatAssociative
  <2>4. t[i] = a \o g[i] /\ t[i - 1] = a \o g[i - 1]
    BY <2>1
  <2> HIDE DEF t
  <2> QED BY <1>2, <1>4, <2>3, <2>4, <2>5
<1> HIDE DEF t
<1>9. Spells(t, c)
  BY <1>6, <1>7, <1>8 DEF Spells, n, a
<1>10. Render(c) = t[Len(c)] \o Opened
  BY <1>3, <1>7 DEF n
<1> QED BY <1>5, <1>9, <1>10

(* What a conversation's first messages take, the lead included.           *)
Weighs(w, c) ==
  /\ w \in [0..Len(c) -> Nat] /\ w[0] = Len(Lead(c))
  /\ \A i \in 1..Len(c) : w[i] = w[i - 1] + Len(Block(c, i))

LEMMA SizeFacts ==
  ASSUME NEW c \in Talks
  PROVE  /\ Render(c) \in Seq(Token) /\ Size(c) \in Nat
         /\ \E w : Weighs(w, c) /\ Size(c) = w[Len(c)] + 2
<1> DEFINE n == Len(c)
<1>1. n \in Nat /\ Opened \in Seq(Token) /\ Len(Opened) = 2
  BY TalkFacts, RenderFacts
<1>2. PICK t : Spells(t, c) /\ Render(c) = t[n] \o Opened
  BY RenderFacts
<1>3. /\ t \in [0..n -> Seq(Token)] /\ t[0] = Lead(c)
      /\ \A i \in 1..n : t[i] = t[i - 1] \o Block(c, i) /\ Block(c, i) \in Seq(Token)
  BY <1>2, BlockFacts DEF Spells
<1> HIDE DEF n
<1> DEFINE w == [i \in 0..n |-> Len(t[i])]
<1>4. \A i \in 0..n : t[i] \in Seq(Token) /\ Len(t[i]) \in Nat
  BY <1>3, LenProperties
<1>5. w \in [0..n -> Nat] /\ w[0] = Len(Lead(c))
  BY <1>1, <1>3, <1>4
<1>6. ASSUME NEW i \in 1..n PROVE w[i] = w[i - 1] + Len(Block(c, i))
  <2>1. i \in 0..n /\ i - 1 \in 0..n
    BY <1>1
  <2>2. t[i - 1] \in Seq(Token)
    BY <1>4, <2>1
  <2>3. Len(t[i - 1] \o Block(c, i)) = Len(t[i - 1]) + Len(Block(c, i))
    BY <1>3, <2>2, ConcatProperties
  <2> QED BY <1>3, <2>1, <2>3
<1>7. /\ Render(c) \in Seq(Token) /\ Size(c) = w[n] + 2 /\ Size(c) \in Nat
  <2>1. n \in 0..n
    BY <1>1
  <2>2. t[n] \in Seq(Token) /\ Len(t[n]) \in Nat
    BY <1>4, <2>1
  <2>3. t[n] \o Opened \in Seq(Token) /\ Len(t[n] \o Opened) = Len(t[n]) + Len(Opened)
    BY <1>1, <2>2, ConcatProperties
  <2> QED BY <1>1, <1>2, <2>1, <2>2, <2>3 DEF Size
<1> HIDE DEF w
<1>8. Weighs(w, c)
  BY <1>5, <1>6 DEF Weighs, n
<1> QED BY <1>7, <1>8 DEF n

(* There is one way to count.                                              *)
LEMMA WeighedSize ==
  ASSUME NEW c \in Talks, NEW v, Weighs(v, c)
  PROVE  Size(c) = v[Len(c)] + 2
<1>1. PICK w : Weighs(w, c) /\ Size(c) = w[Len(c)] + 2
  BY SizeFacts
<1>2. /\ Len(c) \in Nat /\ v[0] = w[0]
      /\ \A i \in 1..Len(c) : /\ v[i] = v[i - 1] + Len(Block(c, i))
                              /\ w[i] = w[i - 1] + Len(Block(c, i))
  BY <1>1, TalkFacts DEF Weighs
<1> DEFINE T == { i \in Nat : i <= Len(c) => v[i] = w[i] }
<1>3. 0 \in T
  BY <1>2
<1>4. ASSUME NEW i \in T PROVE i + 1 \in T
  <2> SUFFICES ASSUME i + 1 <= Len(c) PROVE v[i + 1] = w[i + 1]
    OBVIOUS
  <2>1. i + 1 \in 1..Len(c) /\ (i + 1) - 1 = i /\ i <= Len(c)
    BY <1>2
  <2>2. v[i] = w[i]
    BY <2>1
  <2> HIDE DEF T
  <2> QED BY <1>2, <2>1, <2>2
<1>5. T = Nat
  <2>1. T \in SUBSET Nat
    OBVIOUS
  <2> HIDE DEF T
  <2> QED BY <1>3, <1>4, <2>1, Induction
<1>6. v[Len(c)] = w[Len(c)]
  <2>1. Len(c) \in T /\ Len(c) <= Len(c)
    BY <1>2, <1>5
  <2> QED BY <2>1
<1> QED BY <1>1, <1>6

(* What the template puts around a message that it shows.                  *)
Around(c, i) ==
  IF c[i].role = "user" THEN 2
  ELSE IF c[i].role = "assistant" THEN 3
  ELSE (IF i > 1 /\ ~IsTool(c, i - 1) THEN 1 ELSE 0)
         + (IF IsTool(c, i + 1) THEN 0 ELSE 1)

LEMMA BlockLength ==
  ASSUME NEW c \in Talks, NEW i \in 1..Len(c)
  PROVE  /\ Around(c, i) \in Nat /\ Len(c[i].content) \in Nat
         /\ Len(Block(c, i)) = IF c[i].role = "system" THEN 0
                               ELSE Len(c[i].content) + Around(c, i)
<1>1. ImStart \in Token /\ ImEnd \in Token /\ Think \in Token
  BY ChatAssumption, ServerAssumption
<1> DEFINE s == c[i].content
           x == <<ImStart>>
           y == <<ImEnd>>
           z == <<ImStart, Think>>
           o == IF i > 1 /\ ~IsTool(c, i - 1) THEN x ELSE <<>>
           e == IF IsTool(c, i + 1) THEN <<>> ELSE y
<1>2. s \in Seq(Token) /\ Len(s) \in Nat /\ c[i].role \in Roles
  <2>1. c[i].content \in Seq(Token) /\ c[i].role \in Roles
    BY TalkFacts DEF Messages
  <2> QED BY <2>1, LenProperties
<1>3. /\ x \in Seq(Token) /\ y \in Seq(Token) /\ z \in Seq(Token) /\ <<>> \in Seq(Token)
      /\ Len(x) = 1 /\ Len(y) = 1 /\ Len(z) = 2 /\ Len(<<>>) = 0
  BY <1>1, EmptySeq
<1>4. /\ o \in Seq(Token) /\ Len(o) = IF i > 1 /\ ~IsTool(c, i - 1) THEN 1 ELSE 0
      /\ e \in Seq(Token) /\ Len(e) = IF IsTool(c, i + 1) THEN 0 ELSE 1
  <2> HIDE DEF x, y
  <2>1. o \in Seq(Token) /\ Len(o) = IF i > 1 /\ ~IsTool(c, i - 1) THEN 1 ELSE 0
    <3>1. CASE i > 1 /\ ~IsTool(c, i - 1)
      <4>1. o = x
        BY <3>1
      <4> QED BY <1>3, <3>1, <4>1
    <3>2. CASE ~(i > 1 /\ ~IsTool(c, i - 1))
      <4>1. o = <<>>
        BY <3>2
      <4> QED BY <1>3, <3>2, <4>1
    <3> QED BY <3>1, <3>2
  <2>2. e \in Seq(Token) /\ Len(e) = IF IsTool(c, i + 1) THEN 0 ELSE 1
    <3>1. CASE IsTool(c, i + 1)
      <4>1. e = <<>>
        BY <3>1
      <4> QED BY <1>3, <3>1, <4>1
    <3>2. CASE ~IsTool(c, i + 1)
      <4>1. e = y
        BY <3>2
      <4> QED BY <1>3, <3>2, <4>1
    <3> QED BY <3>1, <3>2
  <2> QED BY <2>1, <2>2
<1>5. ASSUME NEW u \in Seq(Token), NEW v \in Seq(Token)
      PROVE  Len((u \o s) \o v) = (Len(u) + Len(s)) + Len(v)
  <2> DEFINE f == u \o s
  <2> HIDE DEF s
  <2>1. f \in Seq(Token) /\ Len(f) = Len(u) + Len(s)
    BY <1>2, ConcatProperties
  <2> HIDE DEF f
  <2>2. Len(f \o v) = Len(f) + Len(v)
    BY <2>1, ConcatProperties
  <2>3. Len(f) + Len(v) = (Len(u) + Len(s)) + Len(v)
    BY <2>1
  <2> QED BY <2>2, <2>3 DEF f
<1>6. CASE c[i].role = "system"
  <2>1. Block(c, i) = <<>>
    BY <1>6 DEF Block
  <2>2. Around(c, i) \in Nat
    BY <1>6 DEF Around
  <2> QED BY <1>2, <1>3, <1>6, <2>1, <2>2
<1>7. CASE c[i].role = "user"
  <2>1. Block(c, i) = (x \o s) \o y
    BY <1>7 DEF Block
  <2>2. Around(c, i) = 2
    BY <1>7 DEF Around
  <2> HIDE DEF x, y
  <2>3. Len(Block(c, i)) = (Len(x) + Len(s)) + Len(y)
    BY <1>3, <1>5, <2>1
  <2>4. Len(Block(c, i)) = Len(s) + 2
    <3> HIDE DEF s
    <3> QED BY <1>2, <1>3, <2>3
  <2> QED BY <1>2, <1>7, <2>2, <2>4
<1>8. CASE c[i].role = "assistant"
  <2>1. Block(c, i) = (z \o s) \o y
    BY <1>8 DEF Block
  <2>2. Around(c, i) = 3
    BY <1>8 DEF Around
  <2> HIDE DEF y, z
  <2>3. Len(Block(c, i)) = (Len(z) + Len(s)) + Len(y)
    BY <1>3, <1>5, <2>1
  <2>4. Len(Block(c, i)) = Len(s) + 3
    <3> HIDE DEF s
    <3> QED BY <1>2, <1>3, <2>3
  <2> QED BY <1>2, <1>8, <2>2, <2>4
<1>9. CASE c[i].role = "tool"
  <2>1. Block(c, i) = (o \o s) \o e
    BY <1>9 DEF Block
  <2>2. Around(c, i) = Len(o) + Len(e) /\ Len(o) \in Nat /\ Len(e) \in Nat
    <3>1. Around(c, i) = (IF i > 1 /\ ~IsTool(c, i - 1) THEN 1 ELSE 0)
                           + (IF IsTool(c, i + 1) THEN 0 ELSE 1)
      BY <1>9 DEF Around
    <3> HIDE DEF o, e
    <3> QED BY <1>4, <3>1
  <2> HIDE DEF o, e
  <2>3. Len(Block(c, i)) = (Len(o) + Len(s)) + Len(e)
    BY <1>4, <1>5, <2>1
  <2>4. Len(Block(c, i)) = Len(s) + (Len(o) + Len(e))
    <3> HIDE DEF s
    <3> QED BY <1>2, <2>2, <2>3
  <2> QED BY <1>2, <1>9, <2>2, <2>4
<1> QED BY <1>2, <1>6, <1>7, <1>8, <1>9 DEF Roles

(* x says what y does, with no more words.                                 *)
Lighter(x, y) ==
  /\ x \in Talks /\ y \in Talks /\ Len(x) = Len(y)
  /\ \A i \in 1..Len(y) : /\ x[i].role = y[i].role
                          /\ Len(x[i].content) <= Len(y[i].content)
  /\ y[1].role = "system" => x[1] = y[1]

(* Then it takes no more, and less where a message it shows is shorter.    *)
LEMMA LighterFacts ==
  ASSUME NEW x, NEW y, Lighter(x, y)
  PROVE  /\ Size(x) <= Size(y)
         /\ \A k \in 1..Len(y) :
              y[k].role /= "system" /\ Len(x[k].content) < Len(y[k].content)
                => Size(x) < Size(y)
<1> DEFINE n == Len(y)
<1>1. /\ x \in Talks /\ y \in Talks /\ Len(x) = n /\ n \in Nat /\ n >= 1
      /\ \A i \in 1..n : /\ x[i].role = y[i].role
                         /\ Len(x[i].content) <= Len(y[i].content)
      /\ y[1].role = "system" => x[1] = y[1]
  BY TalkFacts DEF Lighter
<1> HIDE DEF n
<1>2. Lead(x) = Lead(y)
  <2>1. x[1].role = y[1].role
    BY <1>1
  <2>2. CASE y[1].role = "system"
    BY <1>1, <2>2 DEF Lead
  <2>3. CASE y[1].role /= "system"
    BY <2>1, <2>3 DEF Lead
  <2> QED BY <2>2, <2>3
<1>3. PICK v : Weighs(v, x) /\ Size(x) = v[n] + 2 /\ Size(x) \in Nat
  BY <1>1, SizeFacts
<1>4. PICK w : Weighs(w, y) /\ Size(y) = w[n] + 2 /\ Size(y) \in Nat
  BY <1>1, SizeFacts DEF n
<1>5. /\ v \in [0..n -> Nat] /\ w \in [0..n -> Nat] /\ v[0] = w[0]
      /\ \A i \in 1..n : /\ v[i] = v[i - 1] + Len(Block(x, i))
                         /\ w[i] = w[i - 1] + Len(Block(y, i))
  BY <1>1, <1>2, <1>3, <1>4 DEF Weighs, n
<1>6. ASSUME NEW i \in 1..n
      PROVE  /\ Len(Block(x, i)) \in Nat /\ Len(Block(y, i)) \in Nat
             /\ Len(Block(x, i)) <= Len(Block(y, i))
             /\ y[i].role /= "system" /\ Len(x[i].content) < Len(y[i].content)
                  => Len(Block(x, i)) < Len(Block(y, i))
  <2>1. /\ Around(x, i) \in Nat /\ Len(x[i].content) \in Nat
        /\ Len(Block(x, i)) = IF x[i].role = "system" THEN 0
                              ELSE Len(x[i].content) + Around(x, i)
    BY <1>1, BlockLength
  <2>2. /\ Around(y, i) \in Nat /\ Len(y[i].content) \in Nat
        /\ Len(Block(y, i)) = IF y[i].role = "system" THEN 0
                              ELSE Len(y[i].content) + Around(y, i)
    BY <1>1, BlockLength DEF n
  <2>3. Around(x, i) = Around(y, i)
    <3>1. \A j \in 1..n : x[j].role = "tool" <=> y[j].role = "tool"
      BY <1>1
    <3>2. /\ IsTool(x, i - 1) <=> IsTool(y, i - 1)
          /\ IsTool(x, i + 1) <=> IsTool(y, i + 1)
      BY <1>1, <3>1 DEF IsTool, n
    <3>3. x[i].role = y[i].role
      BY <1>1
    <3> QED BY <3>2, <3>3 DEF Around
  <2>4. x[i].role = y[i].role /\ Len(x[i].content) <= Len(y[i].content)
    BY <1>1
  <2> QED BY <2>1, <2>2, <2>3, <2>4
<1> DEFINE Less(k) == y[k].role /= "system" /\ Len(x[k].content) < Len(y[k].content)
           T == { i \in Nat : i <= n =>
                    /\ v[i] <= w[i]
                    /\ \A k \in 1..i : Less(k) => v[i] < w[i] }
<1> HIDE DEF Less
<1>7. 0 \in T
  <2>1. v[0] <= w[0]
    BY <1>1, <1>5
  <2> QED BY <2>1
<1>8. ASSUME NEW i \in T PROVE i + 1 \in T
  <2> SUFFICES ASSUME i + 1 <= n
               PROVE  /\ v[i + 1] <= w[i + 1]
                      /\ \A k \in 1..(i + 1) : Less(k) => v[i + 1] < w[i + 1]
    OBVIOUS
  <2>0. i \in Nat /\ i + 1 \in 1..n /\ (i + 1) - 1 = i /\ i \in 0..n
    BY <1>1
  <2>1. v[i] <= w[i] /\ \A k \in 1..i : Less(k) => v[i] < w[i]
    BY <2>0
  <2>2. PICK a \in Nat, b \in Nat :
          a = Len(Block(x, i + 1)) /\ b = Len(Block(y, i + 1)) /\ a <= b
          /\ (Less(i + 1) => a < b)
    BY <1>6, <2>0 DEF Less
  <2>3. v[i + 1] = v[i] + a /\ w[i + 1] = w[i] + b
    <3>1. /\ v[i + 1] = v[(i + 1) - 1] + Len(Block(x, i + 1))
          /\ w[i + 1] = w[(i + 1) - 1] + Len(Block(y, i + 1))
      BY <1>5, <2>0
    <3> QED BY <2>0, <2>2, <3>1
  <2>4. PICK d \in Nat, e \in Nat : d = v[i] /\ e = w[i]
    BY <1>5, <2>0
  <2>5. v[i + 1] <= w[i + 1]
    BY <2>1, <2>2, <2>3, <2>4
  <2>6. ASSUME NEW k \in 1..(i + 1), Less(k) PROVE v[i + 1] < w[i + 1]
    <3>1. CASE k = i + 1
      BY <2>1, <2>2, <2>3, <2>4, <2>6, <3>1
    <3>2. CASE k \in 1..i
      <4>1. d < e
        BY <2>1, <2>4, <2>6, <3>2
      <4> QED BY <2>2, <2>3, <2>4, <4>1
    <3> QED BY <2>0, <3>1, <3>2
  <2> QED BY <2>5, <2>6
<1> HIDE DEF T
<1>9. T = Nat
  <2>1. T \in SUBSET Nat
    BY DEF T
  <2> QED BY <1>7, <1>8, <2>1, Induction
<1>10. v[n] <= w[n] /\ \A k \in 1..n : Less(k) => v[n] < w[n]
  BY <1>1, <1>9 DEF T
<1>11. v[n] \in Nat /\ w[n] \in Nat
  BY <1>1, <1>5
<1>12. Size(x) <= Size(y)
  BY <1>3, <1>4, <1>10, <1>11
<1>13. ASSUME NEW k \in 1..n, Less(k) PROVE Size(x) < Size(y)
  <2>1. v[n] < w[n]
    BY <1>10, <1>13
  <2> QED BY <1>3, <1>4, <1>11, <2>1
<1> QED BY <1>12, <1>13 DEF n, Less

----------------------------------------------------------------------------
(* What the passes leave. *)

(* The conversation, with nothing lost behind its first p messages but the *)
(* middle of some.                                                         *)
Keeping(kept, p) ==
  { x \in Talks : /\ Len(x) = Len(kept)
                  /\ \A i \in 1..Len(kept) : IF i <= p THEN x[i] = kept[i]
                                             ELSE Pared(x[i], kept[i]) }

(* A system message comes first and is pinned, if there is one.            *)
Plain(kept, p) ==
  /\ kept[1].role = "system" => p >= 1
  /\ \A i \in 2..Len(kept) : kept[i].role /= "system"

(* It fits, or no message that may be elided is long enough.               *)
Done(x, p) ==
  Size(x) <= Budget \/ \A j \in (p + 1)..Len(x) : Len(x[j].content) <= ElideOver

(* A pass shortens the prompt, until there is nothing more to do (trim).   *)
LEMMA PassFacts ==
  ASSUME NEW kept \in Talks, NEW p \in Nat, p < Len(kept), NEW x \in Keeping(kept, p)
  PROVE  /\ Pass(x, p) \in Keeping(kept, p)
         /\ Done(x, p) => Pass(x, p) = x
         /\ Plain(kept, p) => Done(x, p) \/ Size(Pass(x, p)) < Size(x)
<1> DEFINE n == Len(kept)
           i == Biggest(x, p)
           y == [x EXCEPT ![i] = Elided(x[i])]
<1>1. /\ x \in Talks /\ Len(x) = n /\ n \in Nat
      /\ \A j \in 1..n : IF j <= p THEN x[j] = kept[j] ELSE Pared(x[j], kept[j])
  BY TalkFacts DEF Keeping
<1>2. \A j \in 1..n : x[j] \in Messages /\ kept[j] \in Messages
  BY <1>1, TalkFacts
<1> HIDE DEF n
<1>3. p < n /\ i \in (p + 1)..n /\ i \in 1..n
      /\ \A j \in (p + 1)..n : Len(x[j].content) <= Len(x[i].content)
  <2>1. p < n
    BY DEF n
  <2>2. /\ i \in (p + 1)..Len(x)
        /\ \A j \in (p + 1)..Len(x) : Len(x[j].content) <= Len(x[i].content)
    BY <1>1, <2>1, BiggestFacts
  <2> HIDE DEF i
  <2> QED BY <1>1, <2>1, <2>2
<1>4. Size(x) \in Nat /\ Budget \in Nat /\ ElideOver \in Nat
  BY <1>1, SizeFacts, TrimAssumption
<1>5. \A j \in 1..n : Len(x[j].content) \in Nat
  BY <1>2, LenProperties DEF Messages
<1>6. Pass(x, p) = IF Size(x) > Budget /\ Len(x[i].content) > ElideOver THEN y ELSE x
  BY DEF Pass
<1> HIDE DEF i
<1>7. CASE ~(Size(x) > Budget /\ Len(x[i].content) > ElideOver)
  <2>1. Pass(x, p) = x
    BY <1>6, <1>7
  <2>2. Done(x, p)
    <3>1. CASE ~(Size(x) > Budget)
      BY <1>4, <3>1 DEF Done
    <3>2. CASE ~(Len(x[i].content) > ElideOver)
      <4> SUFFICES ASSUME NEW j \in (p + 1)..n PROVE Len(x[j].content) <= ElideOver
        BY <1>1 DEF Done
      <4>1. j \in 1..n /\ Len(x[j].content) <= Len(x[i].content)
        BY <1>1, <1>3
      <4>2. PICK a \in Nat, b \in Nat : a = Len(x[j].content) /\ b = Len(x[i].content)
        BY <1>3, <1>5, <4>1
      <4> QED BY <1>4, <3>2, <4>1, <4>2
    <3> QED BY <1>7, <3>1, <3>2
  <2> QED BY <2>1, <2>2
<1>8. CASE Size(x) > Budget /\ Len(x[i].content) > ElideOver
  <2>1. Pass(x, p) = y
    BY <1>6, <1>8
  <2>2. ~Done(x, p)
    BY <1>1, <1>3, <1>4, <1>5, <1>8 DEF Done
  <2>3. Pared(x[i], kept[i])
    <3>1. ~(i <= p)
      BY <1>1, <1>3
    <3> QED BY <1>1, <1>3, <3>1
  <2> DEFINE e == Elided(x[i])
  <2>4. /\ e \in Messages /\ Pared(e, kept[i])
        /\ e.role = x[i].role /\ Len(e.content) < Len(x[i].content)
    BY <1>2, <1>3, <1>8, <2>3, ElidedPares
  <2> HIDE DEF e
  <2>5. /\ y \in Seq(Messages) /\ Len(y) = n
        /\ \A j \in 1..n : y[j] = IF j = i THEN e ELSE x[j]
    <3>1. x \in Seq(Messages) /\ i \in 1..Len(x)
      BY <1>1, <1>3, TalkFacts
    <3>2. /\ [x EXCEPT ![i] = e] \in Seq(Messages)
          /\ Len([x EXCEPT ![i] = e]) = Len(x)
          /\ \A j \in 1..Len(x) : [x EXCEPT ![i] = e][j] = IF j = i THEN e ELSE x[j]
      BY <2>4, <3>1, ExceptSeq
    <3> QED BY <1>1, <3>2 DEF e
  <2> HIDE DEF y
  <2>6. y \in Talks
    <3>1. Len(y) /= 0
      BY <1>1, <1>3, <2>5
    <3>2. y /= <<>>
      BY <3>1, EmptySeq
    <3> QED BY <2>5, <3>2 DEF Talks
  <2>7. y \in Keeping(kept, p)
    <3>1. ASSUME NEW j \in 1..n
          PROVE  IF j <= p THEN y[j] = kept[j] ELSE Pared(y[j], kept[j])
      <4>1. CASE j = i
        <5>1. ~(j <= p) /\ y[j] = e
          BY <1>1, <1>3, <2>5, <4>1
        <5> QED BY <2>4, <4>1, <5>1
      <4>2. CASE j /= i
        <5>1. y[j] = x[j]
          BY <2>5, <4>2
        <5> QED BY <1>1, <5>1
      <4> QED BY <4>1, <4>2
    <3> QED BY <2>5, <2>6, <3>1 DEF Keeping, n
  <2>8. ASSUME Plain(kept, p) PROVE Size(y) < Size(x)
    <3>1. \A j \in 1..n : x[j].role = kept[j].role
      BY <1>1 DEF Pared, ParedTo
    <3>2. kept[1].role = "system" => i /= 1
      BY <1>1, <1>3, <2>8 DEF Plain
    <3>3. x[i].role /= "system"
      <4>1. CASE i = 1
        BY <1>3, <3>1, <3>2, <4>1
      <4>2. CASE i \in 2..n
        <5>1. kept[i].role /= "system"
          BY <2>8, <4>2 DEF Plain, n
        <5> QED BY <1>3, <3>1, <5>1
      <4> QED BY <1>1, <1>3, <4>1, <4>2
    <3>4. Lighter(y, x)
      <4>1. \A j \in 1..n : /\ y[j].role = x[j].role
                            /\ Len(y[j].content) <= Len(x[j].content)
        <5> SUFFICES ASSUME NEW j \in 1..n
                     PROVE  /\ y[j].role = x[j].role
                            /\ Len(y[j].content) <= Len(x[j].content)
          OBVIOUS
        <5>1. CASE j = i
          <6>1. Len(e.content) \in Nat /\ Len(x[i].content) \in Nat
            <7>1. e.content \in Seq(Token)
              BY <2>4 DEF Messages
            <7> QED BY <1>3, <1>5, <7>1, LenProperties
          <6>2. y[j] = e /\ j = i
            BY <2>5, <5>1
          <6> QED BY <2>4, <6>1, <6>2
        <5>2. CASE j /= i
          BY <1>5, <2>5, <5>2
        <5> QED BY <5>1, <5>2
      <4>2. x[1].role = "system" => y[1] = x[1]
        <5>1. 1 \in 1..n
          BY <1>1, <1>3
        <5>2. kept[1].role /= "system" \/ i /= 1
          BY <3>2
        <5> QED BY <2>5, <3>1, <5>1, <5>2
      <4> QED BY <1>1, <2>5, <2>6, <4>1, <4>2 DEF Lighter
    <3>5. Len(y[i].content) < Len(x[i].content)
      BY <1>3, <2>4, <2>5
    <3> QED BY <1>1, <1>3, <3>3, <3>4, <3>5, LighterFacts
  <2> QED BY <2>1, <2>2, <2>7, <2>8
<1> QED BY <1>7, <1>8

(* The loop's end: what matters is kept, and it fits or cannot be made to; *)
(* what fits is left as it is.                                             *)
LEMMA ShortenedFacts ==
  ASSUME NEW kept \in Talks, NEW p \in Nat, p < Len(kept)
  PROVE  /\ Shortened(kept, p) \in Keeping(kept, p)
         /\ Size(kept) <= Budget => Shortened(kept, p) = kept
         /\ Plain(kept, p) => /\ Done(Shortened(kept, p), p)
                              /\ Size(Shortened(kept, p)) <= Size(kept)
<1> DEFINE S == Keeping(kept, p)
           Z(f) == [k \in Nat |-> IF k = 0 THEN kept ELSE Pass(f[k - 1], p)]
           pass == CHOOSE f : f = Z(f)
           F == [x \in Nat \X S |-> Pass(x[2], p)]
           m == Size(kept)
<1>1. Shortened(kept, p) = pass[m]
  BY DEF Shortened
<1>2. kept \in S /\ m \in Nat
  <2>1. \A i \in 1..Len(kept) : IF i <= p THEN kept[i] = kept[i] ELSE Pared(kept[i], kept[i])
    BY DEF Pared
  <2> QED BY <2>1, SizeFacts DEF Keeping
<1> HIDE DEF m
<1>f. Size(kept) <= Budget => Pass(kept, p) = kept
  BY <1>2, PassFacts DEF Done
<1>3. \A x \in S : Pass(x, p) \in S
  BY PassFacts
<1>4. \A x \in S : Size(x) \in Nat
  <2>1. \A x \in S : x \in Talks
    BY DEF Keeping
  <2> QED BY <2>1, SizeFacts
<1>5. ASSUME Plain(kept, p), NEW x \in S
      PROVE  (Done(x, p) /\ Pass(x, p) = x) \/ Size(Pass(x, p)) < Size(x)
  BY <1>5, PassFacts
<1> HIDE DEF S
<1>6. PICK g \in [Nat -> S] : g[0] = kept /\ \A k \in Nat : g[k + 1] = Pass(g[k], p)
  <2>1. F \in [Nat \X S -> S] /\ \A k \in Nat, s \in S : F[<<k, s>>] = Pass(s, p)
    BY <1>3
  <2> HIDE DEF F
  <2>2. PICK f : Follows(f, S, kept, F)
    BY <1>2, <2>1, RecursionExists
  <2>3. f \in [Nat -> S] /\ f[0] = kept /\ \A k \in Nat : f[k + 1] = F[<<k, f[k]>>]
    BY <2>2 DEF Follows
  <2>4. \A k \in Nat : f[k] \in S
    BY <2>3
  <2> QED BY <2>1, <2>3, <2>4
<1>7. g = Z(g)
  <2>1. g = [k \in Nat |-> g[k]]
    OBVIOUS
  <2>2. ASSUME NEW k \in Nat
        PROVE  g[k] = IF k = 0 THEN kept ELSE Pass(g[k - 1], p)
    <3>1. CASE k = 0
      BY <1>6, <3>1
    <3>2. CASE k /= 0
      <4>1. k - 1 \in Nat /\ (k - 1) + 1 = k
        BY <3>2
      <4>2. g[(k - 1) + 1] = Pass(g[k - 1], p)
        BY <4>1, <1>6
      <4> QED BY <3>2, <4>1, <4>2
    <3> QED BY <3>1, <3>2
  <2>3. Z(g) = [k \in Nat |-> g[k]]
    BY <2>2
  <2> QED BY <2>1, <2>3
<1>8. pass = Z(pass)
  <2> HIDE DEF Z
  <2> QED BY <1>7
<1> HIDE DEF pass
<1>9. pass[0] = kept /\ \A k \in Nat : pass[k + 1] = Pass(pass[k], p)
  <2>1. \A k \in Nat : Z(pass)[k] = IF k = 0 THEN kept ELSE Pass(pass[k - 1], p)
    OBVIOUS
  <2> HIDE DEF Z
  <2>2. \A k \in Nat : k + 1 \in Nat /\ k + 1 /= 0 /\ (k + 1) - 1 = k
    OBVIOUS
  <2>3. \A k \in Nat : pass[k] = IF k = 0 THEN kept ELSE Pass(pass[k - 1], p)
    BY <1>8, <2>1
  <2>4. pass[0] = kept
    BY <2>3
  <2> QED BY <2>2, <2>3, <2>4
<1> DEFINE Shrinks(x, k) ==
             /\ Size(x) <= m
             /\ (Done(x, p) /\ Pass(x, p) = x) \/ Size(x) + k <= m
           T == { k \in Nat : /\ pass[k] \in S
                              /\ Size(kept) <= Budget => pass[k] = kept
                              /\ Plain(kept, p) => Shrinks(pass[k], k) }
<1>10. 0 \in T
  <2>1. Size(kept) <= m /\ Size(kept) + 0 <= m
    BY <1>2 DEF m
  <2> QED BY <1>2, <1>9, <2>1
<1>11. ASSUME NEW k \in T PROVE k + 1 \in T
  <2>0. k \in Nat /\ pass[k] \in S
    OBVIOUS
  <2>1. PICK x \in S, y \in S : x = pass[k] /\ y = Pass(x, p) /\ y = pass[k + 1]
    BY <1>3, <1>9, <2>0
  <2>2. ASSUME Plain(kept, p) PROVE Shrinks(y, k + 1)
    <3>1. Shrinks(x, k)
      BY <2>1, <2>2
    <3>2. PICK a \in Nat, b \in Nat : a = Size(x) /\ b = Size(y)
      BY <1>4
    <3>3. CASE Done(x, p) /\ Pass(x, p) = x
      <4>1. y = x
        BY <2>1, <3>3
      <4> QED BY <3>1, <3>3, <4>1
    <3>4. CASE ~(Done(x, p) /\ Pass(x, p) = x)
      <4>1. b < a
        BY <1>5, <2>1, <2>2, <3>2, <3>4
      <4>2. a <= m /\ a + k <= m
        BY <3>1, <3>2, <3>4
      <4> HIDE DEF T
      <4>3. b <= m /\ b + (k + 1) <= m
        BY <1>2, <2>0, <4>1, <4>2
      <4> QED BY <3>2, <4>3
    <3> QED BY <3>3, <3>4
  <2>3. Size(kept) <= Budget => pass[k + 1] = kept
    <3>1. Size(kept) <= Budget => pass[k] = kept
      OBVIOUS
    <3> HIDE DEF T
    <3> QED BY <1>9, <1>f, <2>0, <3>1
  <2> HIDE DEF Shrinks
  <2> QED BY <2>0, <2>1, <2>2, <2>3
<1> HIDE DEF T
<1>12. T = Nat
  <2>1. T \in SUBSET Nat
    BY DEF T
  <2> QED BY <1>10, <1>11, <2>1, Induction
<1>13. PICK x \in S : /\ x = pass[m]
                      /\ Size(kept) <= Budget => x = kept
                      /\ Plain(kept, p) => Shrinks(x, m)
  <2> HIDE DEF Shrinks
  <2> QED BY <1>2, <1>12 DEF T
<1>14. ASSUME Plain(kept, p) PROVE Done(x, p) /\ Size(x) <= m
  <2>1. Shrinks(x, m)
    BY <1>13, <1>14
  <2>2. PICK a \in Nat : a = Size(x)
    BY <1>4
  <2>3. CASE Size(x) + m <= m
    <3>1. a <= Budget
      BY <1>2, <2>2, <2>3, TrimAssumption
    <3> QED BY <2>1, <2>2, <3>1 DEF Done
  <2> QED BY <2>1, <2>3
<1> QED BY <1>1, <1>13, <1>14 DEF S, m

----------------------------------------------------------------------------
(* What the cut keeps, where there is a turn to cut at.                    *)
LEMMA KeptFacts ==
  ASSUME NEW c \in Talks, Starts(c) /= <<>>
  PROVE  /\ Starts(c)[Cut(c)] \in Turns(c)
         /\ KeptFrom(c, Cut(c)) = From(c, Starts(c)[Cut(c)])
         /\ KeptFrom(c, Cut(c)) \in Talks
         /\ Pinned(c) \in Nat /\ Pinned(c) < Len(KeptFrom(c, Cut(c)))
<1>1. Cut(c) \in 1..Len(Starts(c)) /\ Starts(c) \in Seq(Turns(c))
  BY CutFacts, StartsFacts
<1>2. PICK s \in Turns(c) : s = Starts(c)[Cut(c)]
  BY <1>1, ElementOfSeq
<1>3. KeptFrom(c, Cut(c)) = From(c, s)
  BY <1>2, PinnedFacts DEF KeptFrom, From
<1>4. /\ From(c, s) \in Talks /\ s \in (Pinned(c) + 1)..Len(c)
      /\ Len(From(c, s)) = Pinned(c) + (Len(c) - s + 1)
  BY FromFacts
<1>5. Pinned(c) \in 0..Len(c) /\ Len(c) \in Nat
  BY PinnedFacts, TalkFacts
<1>6. Pinned(c) \in Nat /\ Pinned(c) < Len(From(c, s))
  BY <1>4, <1>5
<1> QED BY <1>2, <1>3, <1>4, <1>6

(* What is sent of a conversation has what matters.                        *)
Matters(sent, c) ==
  /\ Size(sent) <= Budget
  /\ \/ sent = c
     \/ /\ Size(c) > Budget
        /\ \E s \in Turns(c) :
             LET kept == From(c, s)
             IN  /\ Len(sent) = Len(kept)
                 /\ \A i \in 1..Len(sent) :
                      IF i <= Len(Task(c)) THEN sent[i] = kept[i]
                      ELSE Form(sent[i], kept[i])

LEMMA TrimmedMatters ==
  ASSUME NEW c \in Talks, Trimmed(c).verdict = "accepted"
  PROVE  Trimmed(c).msgs \in Talks /\ Matters(Trimmed(c).msgs, c)
<1> DEFINE kept == KeptFrom(c, Cut(c))
           short == Shortened(kept, Pinned(c))
<1>1. Trimmed(c) = IF Malformed(c) THEN Answer("refused", <<>>)
                   ELSE IF Size(c) <= Budget THEN Answer("accepted", c)
                   ELSE IF Starts(c) = <<>> THEN Answer("panicked", <<>>)
                   ELSE IF Size(short) <= Budget THEN Answer("accepted", short)
                   ELSE Answer("refused", <<>>)
  BY DEF Trimmed
<1> HIDE DEF short
<1>2. \A how, msgs : Answer(how, msgs).verdict = how /\ Answer(how, msgs).msgs = msgs
  BY DEF Answer
<1>3. CASE Size(c) <= Budget
  <2>1. Trimmed(c) = Answer("accepted", c)
    BY <1>1, <1>2, <1>3
  <2> QED BY <1>2, <1>3, <2>1 DEF Matters
<1>4. CASE ~(Size(c) <= Budget)
  <2>1. /\ Trimmed(c) = Answer("accepted", short)
        /\ Starts(c) /= <<>> /\ Size(short) <= Budget
    BY <1>1, <1>2, <1>4
  <2>2. PICK s \in Turns(c) :
          /\ s = Starts(c)[Cut(c)] /\ kept = From(c, s) /\ kept \in Talks
          /\ Pinned(c) \in Nat /\ Pinned(c) < Len(kept)
    BY <2>1, KeptFacts
  <2> HIDE DEF kept
  <2>3. short \in Keeping(kept, Pinned(c))
    BY <2>2, ShortenedFacts DEF short
  <2>4. /\ short \in Talks /\ Len(short) = Len(kept)
        /\ \A i \in 1..Len(kept) : IF i <= Pinned(c) THEN short[i] = kept[i]
                                   ELSE Pared(short[i], kept[i])
    BY <2>3 DEF Keeping
  <2>5. \A i \in 1..Len(kept) : short[i] \in Messages /\ kept[i] \in Messages
    BY <2>2, <2>4, TalkFacts
  <2>6. \A i \in 1..Len(short) : IF i <= Len(Task(c)) THEN short[i] = kept[i]
                                 ELSE Form(short[i], kept[i])
    BY <2>4, <2>5, PinnedFacts, ParedForm
  <2>7. Size(c) > Budget
    BY <1>4, SizeFacts, TrimAssumption
  <2> QED BY <1>2, <2>1, <2>2, <2>4, <2>6, <2>7 DEF Matters
<1> QED BY <1>3, <1>4

(* The prompt being read is what was made of the conversation last asked.  *)
Asked ==
  phase = "prefill" =>
    /\ conv \in Conversations /\ Trims[conv].verdict = "accepted"
    /\ ids = Render(Trims[conv].msgs)

LEMMA AskedMatters == Asked => SendsWhatMatters
<1> SUFFICES ASSUME Asked, phase = "prefill" PROVE SendsWhatMatters
  BY DEF SendsWhatMatters
<1> DEFINE sent == Trims[conv].msgs
<1>1. conv \in Conversations /\ Trims[conv].verdict = "accepted" /\ ids = Render(sent)
  BY DEF Asked
<1>2. conv \in Talks /\ Trims[conv] = Trimmed(conv)
  BY <1>1, ChatAssumption DEF Talks, Messages, Trims
<1>3. Matters(sent, conv)
  BY <1>1, <1>2, TrimmedMatters
<1> HIDE DEF sent
<1>4. Len(ids) = Size(sent)
  BY <1>1 DEF Size
<1> QED BY <1>1, <1>3, <1>4 DEF SendsWhatMatters, Matters, sent

(* Whatever a conversation has grown to, what is read for it is short      *)
(* enough and has all an agent cannot do without (trim, pinned, turns,     *)
(* elide): from the prompt of each request being that of its conversation. *)
THEOREM WhatMattersIsSent == ChatSpec => []SendsWhatMatters
<1>1. ChatInit => Asked
  BY DEF ChatInit, Init, Asked
<1>2. Asked /\ [ChatNext]_chatVars => Asked'
  <2> SUFFICES ASSUME Asked, [ChatNext]_chatVars PROVE Asked'
    OBVIOUS
  <2>1. CASE \E c \in Conversations, asked \in Ceilings : Ask(c, asked)
    <3>1. PICK c \in Conversations, asked \in Ceilings : Ask(c, asked)
      BY <2>1
    <3> QED BY <3>1 DEF Ask, Accept, Asked
  <2>2. CASE \E c \in Conversations : Refuse(c)
    BY <2>2 DEF Refuse, Asked, vars
  <2>3. CASE (Work \/ HangUp) /\ UNCHANGED <<conv, verdict>>
    <3>1. CASE PrefillTurn
      BY <2>3, <3>1 DEF PrefillTurn, Asked
    <3>2. CASE PrefillRest
      BY <3>2 DEF PrefillRest, Asked
    <3>3. CASE Round
      <4>1. phase = "decode"
        BY <3>3 DEF Round
      <4>2. phase' \in {"decode", "idle"}
        BY <3>3 DEF Round, End
      <4> QED BY <4>2 DEF Asked
    <3>4. CASE Finish
      BY <3>4 DEF Finish, End, Asked
    <3>5. CASE HangUp
      BY <3>5 DEF HangUp, End, Asked
    <3> QED BY <2>3, <3>1, <3>2, <3>3, <3>4, <3>5 DEF Work
  <2>4. CASE UNCHANGED chatVars
    BY <2>4 DEF chatVars, vars, Asked
  <2> QED BY <2>1, <2>2, <2>3, <2>4 DEF ChatNext
<1> QED BY <1>1, <1>2, AskedMatters, PTL DEF ChatSpec

----------------------------------------------------------------------------
(* The least that could be sent: the task and the turns from s on, with no *)
(* message longer than what is left as it is.                              *)
Bare(c, s) ==
  Task(c) \o [i \in 1..(Len(c) - s + 1) |-> Clipped(c[s + i - 1])]

LEMMA ClippedFacts ==
  ASSUME NEW m \in Messages
  PROVE  /\ Clipped(m) \in Messages /\ Clipped(m).role = m.role
         /\ Len(m.content) \in Nat
         /\ Len(Clipped(m).content) = Min2(Len(m.content), ElideOver)
<1> DEFINE s == m.content
           k == Min2(Len(s), ElideOver)
           t == SubSeq(s, 1, k)
<1>1. s \in Seq(Token) /\ Len(s) \in Nat /\ ElideOver \in Nat
  BY LenProperties, TrimAssumption DEF Messages
<1> HIDE DEF s
<1>2. k \in 0..Len(s)
  BY <1>1 DEF Min2
<1> HIDE DEF k
<1>3. t \in Seq(Token) /\ Len(t) = k
  BY <1>1, <1>2
<1>4. Clipped(m) = [m EXCEPT !.content = t]
  BY DEF Clipped, t, k, s
<1> HIDE DEF t
<1>5. Clipped(m) \in Messages /\ Clipped(m).role = m.role /\ Clipped(m).content = t
  BY <1>3, <1>4 DEF Messages
<1> QED BY <1>1, <1>3, <1>5 DEF k, s

LEMMA BareFacts ==
  ASSUME NEW c \in Talks, NEW s \in Turns(c)
  PROVE  /\ Bare(c, s) \in Talks
         /\ Len(Bare(c, s)) = Pinned(c) + (Len(c) - s + 1)
         /\ \A i \in 1..Pinned(c) : Bare(c, s)[i] = c[i]
         /\ \A i \in (Pinned(c) + 1)..Len(Bare(c, s)) :
              Bare(c, s)[i] = Clipped(c[s + i - Pinned(c) - 1])
<1> DEFINE n == Len(c)
           task == Task(c)
           rest == [i \in 1..(n - s + 1) |-> Clipped(c[s + i - 1])]
<1>1. /\ c \in Seq(Messages) /\ n \in Nat /\ \A i \in 1..n : c[i] \in Messages
  BY TalkFacts
<1>2. PICK p \in Nat : /\ p = Pinned(c) /\ p <= n /\ s \in (p + 1)..n
                       /\ task = SubSeq(c, 1, p) /\ Len(task) = p
  BY <1>1, PinnedFacts, FromFacts
<1> HIDE DEF n
<1>3. s \in Nat /\ p + 1 <= s /\ s <= n /\ n - s + 1 \in Nat
  BY <1>1, <1>2
<1>4. /\ rest \in Seq(Messages) /\ Len(rest) = n - s + 1
      /\ \A i \in 1..(n - s + 1) : rest[i] = Clipped(c[s + i - 1])
  <2>1. \A i \in 1..(n - s + 1) : Clipped(c[s + i - 1]) \in Messages
    <3> SUFFICES ASSUME NEW i \in 1..(n - s + 1) PROVE Clipped(c[s + i - 1]) \in Messages
      OBVIOUS
    <3>1. s + i - 1 \in 1..n
      BY <1>1, <1>3
    <3> QED BY <1>1, <3>1, ClippedFacts
  <2>2. PICK l \in Nat : l = n - s + 1
    BY <1>3
  <2>3. [i \in 1..l |-> Clipped(c[s + i - 1])] \in Seq(Messages)
    BY <2>1, <2>2, IsASeq
  <2>4. Len([i \in 1..l |-> Clipped(c[s + i - 1])]) = l
    BY <2>2
  <2> QED BY <2>2, <2>3, <2>4
<1>5. task \in Seq(Messages) /\ \A i \in 1..p : task[i] = c[i]
  <2>1. \A i \in 1..p : c[i] \in Messages
    BY <1>1, <1>2
  <2>2. p \in Int
    OBVIOUS
  <2>3. /\ SubSeq(c, 1, p) \in Seq(Messages)
        /\ \A i \in 1..(p - 1 + 1) : SubSeq(c, 1, p)[i] = c[1 + i - 1]
    BY <2>1, <2>2, SubSeqProperties
  <2>4. \A i \in 1..p : i \in 1..(p - 1 + 1) /\ 1 + i - 1 = i
    OBVIOUS
  <2> HIDE DEF task
  <2> QED BY <1>2, <2>3, <2>4
<1>6. Bare(c, s) = task \o rest
  BY DEF Bare, n
<1> HIDE DEF task, rest
<1> DEFINE all == task \o rest
<1>7. /\ all \in Seq(Messages) /\ Len(all) = p + (n - s + 1)
      /\ \A i \in 1..(p + (n - s + 1)) : all[i] = IF i <= p THEN task[i] ELSE rest[i - p]
  <2>1. Len(task) = p
    BY <1>2
  <2>2. /\ task \o rest \in Seq(Messages)
        /\ Len(task \o rest) = Len(task) + Len(rest)
        /\ \A i \in 1..(Len(task) + Len(rest)) :
             (task \o rest)[i] = IF i <= Len(task) THEN task[i] ELSE rest[i - Len(task)]
    BY <1>4, <1>5, ConcatProperties
  <2> QED BY <1>4, <2>1, <2>2
<1>8. Bare(c, s) = all
  BY <1>6
<1> HIDE DEF all
<1>9. all \in Talks
  <2>1. Len(all) /= 0
    BY <1>1, <1>3, <1>7
  <2>2. all /= <<>>
    BY <2>1, EmptySeq
  <2> QED BY <1>7, <2>2 DEF Talks
<1>10. \A i \in 1..p : all[i] = c[i]
  <2> SUFFICES ASSUME NEW i \in 1..p PROVE all[i] = c[i]
    OBVIOUS
  <2>1. i \in 1..(p + (n - s + 1)) /\ i <= p
    BY <1>3
  <2> QED BY <1>5, <1>7, <2>1
<1>11. \A i \in (p + 1)..(p + (n - s + 1)) : all[i] = Clipped(c[s + i - p - 1])
  <2> SUFFICES ASSUME NEW i \in (p + 1)..(p + (n - s + 1))
               PROVE  all[i] = Clipped(c[s + i - p - 1])
    OBVIOUS
  <2>1. /\ i \in 1..(p + (n - s + 1)) /\ ~(i <= p)
        /\ i - p \in 1..(n - s + 1) /\ s + (i - p) - 1 = s + i - p - 1
    BY <1>3
  <2> QED BY <1>4, <1>7, <2>1
<1> QED BY <1>2, <1>7, <1>8, <1>9, <1>10, <1>11 DEF n

(* The task is not a tool's, and only a first message is the system's.     *)
LEMMA TaskRoles ==
  ASSUME NEW c \in Talks
  PROVE  /\ \A i \in 1..Pinned(c) : c[i].role \in {"system", "user"}
         /\ c[1].role = "system" => Pinned(c) >= 1
<1> DEFINE s == IF c[1].role = "system" THEN 1 ELSE 0
<1>1. Pinned(c) = IF s < Len(c) /\ c[s + 1].role = "user" THEN s + 1 ELSE s
  BY DEF Pinned
<1>2. CASE c[1].role = "system"
  <2>1. s = 1
    BY <1>2
  <2>2. Pinned(c) \in {1, 2} /\ (Pinned(c) = 2 => c[2].role = "user")
    BY <1>1, <2>1
  <2> QED BY <1>2, <2>2
<1>3. CASE c[1].role /= "system"
  <2>1. s = 0
    BY <1>3
  <2>2. Pinned(c) \in {0, 1} /\ (Pinned(c) = 1 => c[1].role = "user")
    BY <1>1, <2>1
  <2> QED BY <1>3, <2>2
<1> QED BY <1>2, <1>3

(* No system message is behind the task.                                   *)
LEMMA BehindTask ==
  ASSUME NEW c \in Talks, ~Malformed(c), NEW i \in (Pinned(c) + 1)..Len(c)
  PROVE  c[i] \in Messages /\ c[i].role /= "system"
<1>1. Len(c) \in Nat /\ Pinned(c) \in 0..Len(c)
  BY TalkFacts, PinnedFacts
<1>2. i \in 1..Len(c)
  BY <1>1
<1>3. CASE i = 1
  <2>1. ~(Pinned(c) >= 1)
    BY <1>1, <1>3
  <2>2. c[1].role /= "system"
    BY <2>1, TaskRoles
  <2> QED BY <1>2, <1>3, <2>2, TalkFacts
<1>4. CASE i /= 1
  <2>1. i \in 2..Len(c)
    BY <1>2, <1>4
  <2> QED BY <1>2, <2>1, TalkFacts DEF Malformed
<1> QED BY <1>3, <1>4

(* Prompts grow with their messages.                                       *)
LEMMA WeighsGrows ==
  ASSUME NEW c \in Talks, NEW w, Weighs(w, c), NEW i \in 0..Len(c)
  PROVE  \A d \in Nat : i + d <= Len(c) => w[i] <= w[i + d]
<1>1. /\ Len(c) \in Nat /\ w \in [0..Len(c) -> Nat]
      /\ \A j \in 1..Len(c) : w[j] = w[j - 1] + Len(Block(c, j)) /\ Len(Block(c, j)) \in Nat
  <2>1. \A j \in 1..Len(c) : Len(Block(c, j)) \in Nat
    <3>1. \A j \in 1..Len(c) : Block(c, j) \in Seq(Token)
      BY BlockFacts
    <3> QED BY <3>1, LenProperties
  <2> QED BY <2>1, TalkFacts DEF Weighs
<1> DEFINE T == { d \in Nat : i + d <= Len(c) => w[i] <= w[i + d] }
<1>2. 0 \in T
  <2>1. w[i] \in Nat /\ i + 0 = i
    BY <1>1
  <2> QED BY <2>1
<1>3. ASSUME NEW d \in T PROVE d + 1 \in T
  <2> SUFFICES ASSUME i + (d + 1) <= Len(c) PROVE w[i] <= w[i + (d + 1)]
    OBVIOUS
  <2>1. /\ d \in Nat /\ i + d <= Len(c) /\ i + d \in 0..Len(c)
        /\ i + (d + 1) \in 1..Len(c) /\ (i + (d + 1)) - 1 = i + d
    BY <1>1
  <2>2. w[i] <= w[i + d]
    BY <2>1
  <2>3. PICK a \in Nat, b \in Nat, e \in Nat :
          a = w[i] /\ b = w[i + d] /\ e = Len(Block(c, i + (d + 1)))
    BY <1>1, <2>1
  <2>4. w[i + (d + 1)] = w[(i + (d + 1)) - 1] + Len(Block(c, i + (d + 1)))
    BY <1>1, <2>1
  <2>5. w[i + (d + 1)] = b + e
    BY <2>1, <2>3, <2>4
  <2> QED BY <2>2, <2>3, <2>5
<1>4. T = Nat
  <2>1. T \in SUBSET Nat
    OBVIOUS
  <2> HIDE DEF T
  <2> QED BY <1>2, <1>3, <2>1, Induction
<1> QED BY <1>4

(* x is y without d messages behind the first p, up to the start of a turn. *)
Dropped(x, y, p, d) ==
  /\ x \in Talks /\ y \in Talks /\ p \in Nat /\ d \in Nat
  /\ p < Len(x) /\ Len(y) = Len(x) + d
  /\ \A i \in 1..p : x[i] = y[i] /\ x[i].role \in {"system", "user"}
  /\ \A i \in (p + 1)..Len(x) : x[i] = y[i + d] /\ x[i].role /= "system"
  /\ x[p + 1].role /= "tool"
  /\ y[1].role = "system" => p >= 1

(* Then it is shorter by what these take.                                  *)
LEMMA DroppedFacts ==
  ASSUME NEW x, NEW y, NEW p, NEW d, Dropped(x, y, p, d), NEW w, Weighs(w, y)
  PROVE  /\ p \in 0..Len(y) /\ p + d \in 0..Len(y)
         /\ w[p] \in Nat /\ w[p + d] \in Nat
         /\ Size(x) + w[p + d] = Size(y) + w[p]
<1>0. PICK l \in Nat :
        /\ l = Len(x) /\ x \in Talks /\ y \in Talks /\ p \in Nat /\ d \in Nat
        /\ p < l /\ Len(y) = l + d
  BY TalkFacts DEF Dropped
<1>1. /\ \A i \in 1..p : x[i] = y[i] /\ x[i].role \in {"system", "user"}
      /\ \A i \in (p + 1)..l : x[i] = y[i + d] /\ x[i].role /= "system"
      /\ x[p + 1].role /= "tool"
      /\ y[1].role = "system" => p >= 1
  BY <1>0 DEF Dropped
<1>2. Lead(x) = Lead(y)
  <2>1. CASE p >= 1
    <3>1. x[1] = y[1]
      BY <1>0, <1>1, <2>1
    <3> QED BY <3>1 DEF Lead
  <2>2. CASE ~(p >= 1)
    <3>1. 1 \in (p + 1)..l
      BY <1>0, <2>2
    <3>2. x[1].role /= "system" /\ y[1].role /= "system"
      BY <1>1, <2>2, <3>1
    <3> QED BY <3>2 DEF Lead
  <2> QED BY <2>1, <2>2
<1>3. ASSUME NEW i \in 1..p PROVE Len(Block(x, i)) = Len(Block(y, i))
  <2>1. i \in 1..Len(x) /\ i \in 1..Len(y)
    BY <1>0
  <2>2. x[i] = y[i] /\ x[i].role \in {"system", "user"}
    BY <1>1
  <2>3. Around(x, i) = Around(y, i) \/ x[i].role = "system"
    BY <2>2 DEF Around
  <2>4. Len(Block(x, i)) = IF x[i].role = "system" THEN 0
                           ELSE Len(x[i].content) + Around(x, i)
    BY <1>0, <2>1, BlockLength
  <2>5. Len(Block(y, i)) = IF y[i].role = "system" THEN 0
                           ELSE Len(y[i].content) + Around(y, i)
    BY <1>0, <2>1, BlockLength
  <2> QED BY <2>2, <2>3, <2>4, <2>5
<1>4. ASSUME NEW i \in (p + 1)..l PROVE Len(Block(x, i)) = Len(Block(y, i + d))
  <2>1. i \in Nat /\ i \in 1..l /\ i + d \in 1..(l + d)
    BY <1>0
  <2>2. x[i] = y[i + d] /\ x[i].role /= "system"
    BY <1>1
  <2>3. Around(x, i) = Around(y, i + d)
    <3>1. IsTool(x, i + 1) <=> IsTool(y, (i + d) + 1)
      <4>1. CASE i + 1 \in 1..l
        <5>1. i + 1 \in (p + 1)..l /\ (i + 1) + d = (i + d) + 1 /\ (i + d) + 1 \in 1..(l + d)
          BY <1>0, <4>1
        <5>2. x[i + 1] = y[(i + 1) + d]
          BY <1>1, <5>1
        <5> QED BY <1>0, <4>1, <5>1, <5>2 DEF IsTool
      <4>2. CASE i + 1 \notin 1..l
        <5>1. (i + d) + 1 \notin 1..(l + d)
          BY <1>0, <4>2
        <5> QED BY <1>0, <4>2, <5>1 DEF IsTool
      <4> QED BY <4>1, <4>2
    <3>2. CASE x[i].role = "tool"
      <4>1. i /= p + 1
        BY <1>1, <3>2
      <4>2. /\ i - 1 \in (p + 1)..l /\ i - 1 \in 1..l
            /\ (i - 1) + d = (i + d) - 1 /\ (i + d) - 1 \in 1..(l + d)
            /\ i > 1 /\ i + d > 1
        BY <1>0, <4>1
      <4>3. x[i - 1] = y[(i - 1) + d]
        BY <1>1, <4>2
      <4>4. IsTool(x, i - 1) <=> IsTool(y, (i + d) - 1)
        BY <1>0, <4>2, <4>3 DEF IsTool
      <4> QED BY <2>2, <3>1, <4>2, <4>4 DEF Around
    <3>3. CASE x[i].role = "user" \/ x[i].role = "assistant"
      BY <2>2, <3>3 DEF Around
    <3>4. x[i].role \in Roles
      <4>1. x[i] \in Messages
        BY <1>0, <2>1, TalkFacts
      <4> QED BY <4>1 DEF Messages
    <3> QED BY <2>2, <3>2, <3>3, <3>4 DEF Roles
  <2>4. Len(Block(x, i)) = IF x[i].role = "system" THEN 0
                           ELSE Len(x[i].content) + Around(x, i)
    BY <1>0, <2>1, BlockLength
  <2>5. Len(Block(y, i + d)) = IF y[i + d].role = "system" THEN 0
                               ELSE Len(y[i + d].content) + Around(y, i + d)
    BY <1>0, <2>1, BlockLength
  <2> QED BY <2>2, <2>3, <2>4, <2>5
<1>5. PICK v : Weighs(v, x) /\ Size(x) = v[l] + 2
  BY <1>0, SizeFacts
<1>6. Size(y) = w[l + d] + 2
  BY <1>0, WeighedSize
<1>7. /\ v \in [0..l -> Nat] /\ w \in [0..(l + d) -> Nat] /\ v[0] = w[0]
      /\ \A i \in 1..l : v[i] = v[i - 1] + Len(Block(x, i))
      /\ \A i \in 1..(l + d) : w[i] = w[i - 1] + Len(Block(y, i))
  BY <1>0, <1>2, <1>5 DEF Weighs
<1> DEFINE S == { i \in Nat : i <= p => v[i] = w[i] }
<1>8. S = Nat
  <2>1. 0 \in S
    BY <1>7
  <2>2. ASSUME NEW i \in S PROVE i + 1 \in S
    <3> SUFFICES ASSUME i + 1 <= p PROVE v[i + 1] = w[i + 1]
      OBVIOUS
    <3>1. /\ i + 1 \in 1..p /\ i + 1 \in 1..l /\ i + 1 \in 1..(l + d)
          /\ (i + 1) - 1 = i /\ i <= p
      BY <1>0
    <3>2. v[i] = w[i] /\ Len(Block(x, i + 1)) = Len(Block(y, i + 1))
      BY <1>3, <3>1
    <3> HIDE DEF S
    <3>3. /\ v[i + 1] = v[(i + 1) - 1] + Len(Block(x, i + 1))
          /\ w[i + 1] = w[(i + 1) - 1] + Len(Block(y, i + 1))
      BY <1>7, <3>1
    <3> QED BY <3>1, <3>2, <3>3
  <2>3. S \in SUBSET Nat
    OBVIOUS
  <2> HIDE DEF S
  <2> QED BY <2>1, <2>2, <2>3, Induction
<1>9. v[p] = w[p] /\ p \in 0..(l + d) /\ p + d \in 0..(l + d)
  <2>1. p \in S /\ p <= p
    BY <1>0, <1>8
  <2>2. v[p] = w[p]
    BY <2>1
  <2> QED BY <1>0, <2>2
<1> HIDE DEF S
<1>10. PICK a \in Nat, b \in Nat : a = w[p] /\ b = w[p + d]
  BY <1>7, <1>9
<1> DEFINE T == { j \in Nat : p + j <= l => v[p + j] + b = w[(p + j) + d] + a }
<1>11. T = Nat
  <2>1. 0 \in T
    <3>1. v[p] + b = w[p + d] + a /\ p + 0 = p
      BY <1>0, <1>9, <1>10
    <3> QED BY <3>1
  <2>2. ASSUME NEW j \in T PROVE j + 1 \in T
    <3> SUFFICES ASSUME p + (j + 1) <= l
                 PROVE  v[p + (j + 1)] + b = w[(p + (j + 1)) + d] + a
      OBVIOUS
    <3> DEFINE i == p + (j + 1)
    <3>1. /\ j \in Nat /\ i \in (p + 1)..l /\ i \in 1..l /\ i + d \in 1..(l + d)
          /\ i - 1 = p + j /\ (i + d) - 1 = (p + j) + d /\ p + j <= l
          /\ p + j \in 0..l /\ (p + j) + d \in 0..(l + d)
      <4>1. j \in Nat /\ p + (j + 1) <= l
        OBVIOUS
      <4> HIDE DEF T
      <4> QED BY <1>0, <4>1
    <3>2. v[p + j] + b = w[(p + j) + d] + a
      BY <3>1
    <3> HIDE DEF i, T
    <3>3. Len(Block(x, i)) = Len(Block(y, i + d))
      BY <1>4, <3>1
    <3>4. PICK e \in Nat : e = Len(Block(x, i))
      <4>1. Block(x, i) \in Seq(Token)
        BY <1>0, <3>1, BlockFacts
      <4> QED BY <4>1, LenProperties
    <3>5. PICK f \in Nat, g \in Nat : f = v[p + j] /\ g = w[(p + j) + d]
      BY <1>7, <3>1
    <3>6. v[i] = f + e /\ w[i + d] = g + e
      <4>1. v[i] = v[i - 1] + Len(Block(x, i))
        BY <1>7, <3>1
      <4>2. w[i + d] = w[(i + d) - 1] + Len(Block(y, i + d))
        BY <1>7, <3>1
      <4> QED BY <3>1, <3>3, <3>4, <3>5, <4>1, <4>2
    <3>7. f + b = g + a
      BY <3>2, <3>5
    <3>8. (f + e) + b = (g + e) + a
      <4>1. (f + e) + b = (f + b) + e
        BY <1>10, <3>4, <3>5
      <4>2. (g + e) + a = (g + a) + e
        BY <1>10, <3>4, <3>5
      <4> QED BY <3>7, <4>1, <4>2
    <3> QED BY <3>6, <3>8 DEF i
  <2>3. T \in SUBSET Nat
    OBVIOUS
  <2> HIDE DEF T
  <2> QED BY <2>1, <2>2, <2>3, Induction
<1>12. v[l] + b = w[l + d] + a
  <2>1. PICK j \in Nat : p + j = l /\ p + j <= l
    <3>1. l - p \in Nat /\ p + (l - p) = l
      BY <1>0
    <3> QED BY <3>1
  <2>2. j \in T
    BY <1>11
  <2> HIDE DEF T
  <2>3. v[p + j] + b = w[(p + j) + d] + a
    BY <2>1, <2>2 DEF T
  <2> QED BY <2>1, <2>3
<1> HIDE DEF T
<1>13. v[l] \in Nat /\ w[l + d] \in Nat
  <2>1. l \in 0..l /\ l + d \in 0..(l + d)
    BY <1>0
  <2> QED BY <1>7, <2>1
<1>14. Size(x) + b = Size(y) + a
  BY <1>5, <1>6, <1>10, <1>12, <1>13
<1> QED BY <1>0, <1>9, <1>10, <1>14

LEMMA DroppedShrinks ==
  ASSUME NEW x, NEW y, NEW p, NEW d, Dropped(x, y, p, d)
  PROVE  Size(x) <= Size(y)
<1>1. x \in Talks /\ y \in Talks /\ p \in Nat /\ d \in Nat
  BY DEF Dropped
<1>2. PICK w : Weighs(w, y)
  BY <1>1, SizeFacts
<1>3. /\ p \in 0..Len(y) /\ p + d \in 0..Len(y)
      /\ w[p] \in Nat /\ w[p + d] \in Nat
      /\ Size(x) + w[p + d] = Size(y) + w[p]
  BY <1>2, DroppedFacts
<1>4. w[p] <= w[p + d]
  <2>1. \A q \in Nat : p + q <= Len(y) => w[p] <= w[p + q]
    BY <1>1, <1>2, <1>3, WeighsGrows
  <2>2. p + d <= Len(y)
    BY <1>3
  <2> QED BY <1>1, <2>1, <2>2
<1>5. Size(x) \in Nat /\ Size(y) \in Nat
  BY <1>1, SizeFacts
<1> QED BY <1>3, <1>4, <1>5

(* The later the turn it starts from, the less it takes.                   *)
LEMMA BareShrinks ==
  ASSUME NEW c \in Talks, ~Malformed(c),
         NEW s \in Turns(c), NEW e \in Turns(c), s <= e
  PROVE  Size(Bare(c, e)) <= Size(Bare(c, s))
<1> DEFINE x == Bare(c, e)
           y == Bare(c, s)
<1>1. PICK n \in Nat, p \in Nat, d \in Nat, m \in Nat :
        /\ n = Len(c) /\ p = Pinned(c) /\ d = e - s /\ m = n - e
        /\ p + 1 <= s /\ s <= e /\ e <= n /\ s \in Nat /\ e \in Nat
  <2>1. Len(c) \in Nat /\ Pinned(c) \in 0..Len(c)
    BY TalkFacts, PinnedFacts
  <2>2. s \in (Pinned(c) + 1)..Len(c) /\ e \in (Pinned(c) + 1)..Len(c)
    BY FromFacts
  <2> QED BY <2>1, <2>2
<1> DEFINE l == p + (m + 1)
<1>2. /\ x \in Talks /\ y \in Talks /\ Len(x) = l /\ Len(y) = l + d
      /\ \A i \in 1..p : x[i] = c[i] /\ y[i] = c[i]
      /\ \A i \in (p + 1)..l : x[i] = Clipped(c[e + i - p - 1])
      /\ \A i \in (p + 1)..(l + d) : y[i] = Clipped(c[s + i - p - 1])
  <2>1. n - e + 1 = m + 1 /\ p + (n - s + 1) = l + d
    BY <1>1
  <2> HIDE DEF x, y, l
  <2>2. /\ x \in Talks /\ Len(x) = l
        /\ \A i \in 1..p : x[i] = c[i]
        /\ \A i \in (p + 1)..l : x[i] = Clipped(c[e + i - p - 1])
    BY <1>1, <2>1, BareFacts DEF x, l
  <2>3. /\ y \in Talks /\ Len(y) = l + d
        /\ \A i \in 1..p : y[i] = c[i]
        /\ \A i \in (p + 1)..(l + d) : y[i] = Clipped(c[s + i - p - 1])
    BY <1>1, <2>1, BareFacts DEF y
  <2> QED BY <2>2, <2>3
<1> HIDE DEF x, y
<1>3. ASSUME NEW i \in (p + 1)..l
      PROVE  x[i] = y[i + d] /\ x[i].role /= "system"
  <2>1. /\ i + d \in (p + 1)..(l + d) /\ e + i - p - 1 \in (p + 1)..n
        /\ s + (i + d) - p - 1 = e + i - p - 1
    BY <1>1
  <2> HIDE DEF l
  <2>2. x[i] = Clipped(c[e + i - p - 1]) /\ y[i + d] = Clipped(c[s + (i + d) - p - 1])
    BY <1>2, <2>1
  <2>3. PICK j \in (p + 1)..n : j = e + i - p - 1
    BY <2>1
  <2>4. c[j] \in Messages /\ c[j].role /= "system"
    BY <1>1, BehindTask
  <2>5. Clipped(c[j]).role = c[j].role
    BY <2>4, ClippedFacts
  <2> QED BY <2>1, <2>2, <2>3, <2>4, <2>5
<1>4. ASSUME NEW i \in 1..p PROVE x[i] = y[i] /\ x[i].role \in {"system", "user"}
  <2>1. x[i] = c[i] /\ y[i] = c[i]
    BY <1>2
  <2>2. c[i].role \in {"system", "user"}
    BY <1>1, TaskRoles
  <2> QED BY <2>1, <2>2
<1>5. x[p + 1].role /= "tool"
  <2>1. p + 1 \in (p + 1)..l /\ e + (p + 1) - p - 1 = e /\ e \in 1..n
    BY <1>1
  <2> HIDE DEF l
  <2>2. x[p + 1] = Clipped(c[e])
    BY <1>2, <2>1
  <2>3. c[e] \in Messages /\ c[e].role /= "tool"
    BY <1>1, <2>1, TalkFacts DEF Turns
  <2> QED BY <2>2, <2>3, ClippedFacts
<1>6. y[1].role = "system" => p >= 1
  <2>1. CASE p = 0
    <3>1. 1 \in (p + 1)..(l + d) /\ s + 1 - p - 1 = s /\ s \in (p + 1)..n
      BY <1>1, <2>1
    <3> HIDE DEF l
    <3>2. y[1] = Clipped(c[s])
      BY <1>2, <3>1
    <3>3. c[s] \in Messages /\ c[s].role /= "system"
      BY <1>1, <3>1, BehindTask
    <3> QED BY <3>2, <3>3, ClippedFacts
  <2>2. CASE p /= 0
    BY <1>1, <2>2
  <2> QED BY <2>1, <2>2
<1>7. Dropped(x, y, p, d)
  <2>1. p < l
    BY <1>1
  <2> HIDE DEF l
  <2> QED BY <1>1, <1>2, <1>3, <1>4, <1>5, <1>6, <2>1 DEF Dropped
<1> QED BY <1>7, DroppedShrinks DEF x, y

(* Rounding up to a multiple.                                              *)
LEMMA RoundedUp ==
  ASSUME NEW a \in Nat, NEW s \in Nat, s >= 1
  PROVE  ((a + s - 1) \div s) * s >= a /\ ((a + s - 1) \div s) * s \in Nat
OBVIOUS

(* What is kept is short enough where the search found a turn.             *)
LEMMA CutRemoves ==
  ASSUME NEW c \in Talks, ~(Size(c) <= Budget), Starts(c) /= <<>>
  PROVE  \/ Cut(c) = Len(Starts(c))
         \/ Size(KeptFrom(c, Cut(c))) <= Budget
<1>1. Cut(c) = Len(Starts(c)) \/ Removes(c, Cut(c)) >= Need(c)
  BY CutFacts
<1>2. PICK n \in Nat, k \in Nat, b \in Nat, s \in Nat :
        /\ n = Size(c) /\ k = Size(KeptFrom(c, Cut(c))) /\ b = Budget /\ s = Step
        /\ s >= 1 /\ n > b
  <2>1. Size(c) \in Nat /\ Size(KeptFrom(c, Cut(c))) \in Nat
    BY KeptFacts, SizeFacts
  <2>2. Budget \in Nat /\ Step \in Nat /\ Step >= 1
    BY TrimAssumption DEF Step
  <2> QED BY <2>1, <2>2
<1>3. Need(c) = (((n - b) + s - 1) \div s) * s
  BY <1>2 DEF Need
<1>4. Need(c) >= n - b /\ Need(c) \in Nat
  <2>1. n - b \in Nat
    BY <1>2
  <2> QED BY <1>2, <1>3, <2>1, RoundedUp
<1>5. Removes(c, Cut(c)) = n - k
  BY <1>2 DEF Removes
<1>6. ASSUME n - k >= Need(c) PROVE k <= b
  BY <1>4, <1>6
<1> QED BY <1>1, <1>2, <1>5, <1>6

(* What cannot be shortened further takes more than the least there is.    *)
LEMMA NoLessThanBare ==
  ASSUME NEW c \in Talks, ~Malformed(c), NEW s \in Turns(c),
         NEW x \in Keeping(From(c, s), Pinned(c)),
         \A j \in (Pinned(c) + 1)..Len(x) : Len(x[j].content) <= ElideOver
  PROVE  Size(x) <= Size(Bare(c, s))
<1> DEFINE kept == From(c, s)
           y == Bare(c, s)
<1>1. PICK n \in Nat, p \in Nat :
        n = Len(c) /\ p = Pinned(c) /\ s \in (p + 1)..n
  <2>1. Len(c) \in Nat /\ Pinned(c) \in 0..Len(c)
    BY TalkFacts, PinnedFacts
  <2>2. s \in (Pinned(c) + 1)..Len(c)
    BY FromFacts
  <2> QED BY <2>1, <2>2
<1> DEFINE l == p + (n - s + 1)
<1>2. /\ kept \in Talks /\ Len(kept) = l
      /\ \A i \in 1..p : kept[i] = c[i]
      /\ \A i \in (p + 1)..l : kept[i] = c[s + i - p - 1]
  BY <1>1, FromFacts
<1>3. /\ y \in Talks /\ Len(y) = l
      /\ \A i \in 1..p : y[i] = c[i]
      /\ \A i \in (p + 1)..l : y[i] = Clipped(c[s + i - p - 1])
  BY <1>1, BareFacts
<1> HIDE DEF kept, y
<1>4. /\ x \in Talks /\ Len(x) = l
      /\ \A i \in 1..l : IF i <= p THEN x[i] = kept[i] ELSE Pared(x[i], kept[i])
  <2>1. x \in Keeping(kept, p)
    BY <1>1 DEF kept
  <2> HIDE DEF l
  <2> QED BY <1>2, <2>1 DEF Keeping
<1>5. \A i \in 1..l : x[i] \in Messages /\ kept[i] \in Messages
  <2> HIDE DEF l
  <2> QED BY <1>2, <1>4, TalkFacts
<1>6. ASSUME NEW i \in 1..l
      PROVE  x[i].role = y[i].role /\ Len(x[i].content) <= Len(y[i].content)
  <2>1. CASE i <= p
    <3>1. x[i] = y[i]
      BY <1>2, <1>3, <1>4, <2>1
    <3>2. Len(x[i].content) \in Nat
      <4>1. x[i].content \in Seq(Token)
        BY <1>5 DEF Messages
      <4> QED BY <4>1, LenProperties
    <3> QED BY <3>1, <3>2
  <2>2. CASE ~(i <= p)
    <3>1. i \in (p + 1)..l
      BY <1>1, <2>2
    <3> HIDE DEF l
    <3>2. y[i] = Clipped(kept[i])
      BY <1>2, <1>3, <3>1
    <3>3. Form(x[i], kept[i])
      BY <1>4, <1>5, <2>2, ParedForm
    <3>4. /\ y[i].role = kept[i].role /\ Len(kept[i].content) \in Nat
          /\ Len(y[i].content) = Min2(Len(kept[i].content), ElideOver)
      BY <1>5, <3>2, ClippedFacts
    <3>5. x[i].role = kept[i].role
      BY <3>3 DEF Form
    <3>6. PICK a \in Nat, b \in Nat :
            a = Len(x[i].content) /\ b = Len(kept[i].content) /\ a <= b
      <4>1. x[i].content \in Seq(Token)
        BY <1>5 DEF Messages
      <4>2. Len(x[i].content) \in Nat
        BY <4>1, LenProperties
      <4>3. x[i] = kept[i] \/ Len(x[i].content) < Len(kept[i].content)
        BY <3>3 DEF Form
      <4> QED BY <3>4, <4>2, <4>3
    <3>7. a <= ElideOver
      <4>1. i \in (Pinned(c) + 1)..Len(x)
        BY <1>1, <1>4, <3>1
      <4> QED BY <3>6, <4>1
    <3> QED BY <3>4, <3>5, <3>6, <3>7 DEF Min2
  <2> QED BY <2>1, <2>2
<1>7. y[1].role = "system" => x[1] = y[1]
  <2> SUFFICES ASSUME y[1].role = "system" PROVE x[1] = y[1]
    OBVIOUS
  <2>1. CASE p >= 1
    <3>1. 1 \in 1..p /\ 1 \in 1..l /\ 1 <= p
      BY <1>1, <2>1
    <3> HIDE DEF l
    <3> QED BY <1>2, <1>3, <1>4, <3>1
  <2>2. CASE p = 0
    <3>1. 1 \in (p + 1)..l /\ s + 1 - p - 1 = s /\ s \in 1..n /\ n = Len(c)
      BY <1>1, <2>2
    <3> HIDE DEF l
    <3>2. y[1] = Clipped(c[s]) /\ c[s] \in Messages
      BY <1>3, <3>1, TalkFacts
    <3>3. c[s].role = "system"
      BY <3>2, ClippedFacts
    <3>4. s = 1
      <4>1. s \in 2..Len(c) => c[s].role /= "system"
        BY DEF Malformed
      <4> QED BY <3>1, <3>3, <4>1
    <3>5. c[1].role = "system" => Pinned(c) >= 1
      BY TaskRoles
    <3> QED BY <1>1, <2>2, <3>3, <3>4, <3>5
  <2> QED BY <1>1, <2>1, <2>2
<1>8. Lighter(x, y)
  <2> HIDE DEF l
  <2> QED BY <1>3, <1>4, <1>6, <1>7 DEF Lighter
<1> QED BY <1>8, LighterFacts DEF y

LEMMA RefusedIsHopeless ==
  ASSUME NEW c \in Talks, ~Malformed(c), Trimmed(c).verdict /= "accepted"
  PROVE  /\ Size(c) > Budget
         /\ Trimmed(c).verdict = "panicked" => Turns(c) = {}
         /\ \A s \in Turns(c) : Size(Bare(c, s)) > Budget
<1> DEFINE kept == KeptFrom(c, Cut(c))
           p == Pinned(c)
           short == Shortened(kept, p)
<1>1. Trimmed(c) = IF Malformed(c) THEN Answer("refused", <<>>)
                   ELSE IF Size(c) <= Budget THEN Answer("accepted", c)
                   ELSE IF Starts(c) = <<>> THEN Answer("panicked", <<>>)
                   ELSE IF Size(short) <= Budget THEN Answer("accepted", short)
                   ELSE Answer("refused", <<>>)
  BY DEF Trimmed
<1> HIDE DEF short
<1>2. \A how, msgs : Answer(how, msgs).verdict = how
  BY DEF Answer
<1>3. Size(c) \in Nat /\ Budget \in Nat
  BY SizeFacts, TrimAssumption
<1>4. ~(Size(c) <= Budget) /\ Size(c) > Budget
  BY <1>1, <1>2, <1>3
<1>5. CASE Starts(c) = <<>>
  BY <1>4, <1>5, StartsFacts
<1>6. CASE Starts(c) /= <<>>
  <2>1. Trimmed(c).verdict = "refused" /\ ~(Size(short) <= Budget)
    BY <1>1, <1>2, <1>4, <1>6
  <2>2. PICK e \in Turns(c) :
          /\ e = Starts(c)[Cut(c)] /\ kept = From(c, e) /\ kept \in Talks
          /\ p \in Nat /\ p < Len(kept)
    BY <1>6, KeptFacts
  <2>3. Plain(kept, p)
    <3>1. PICK n \in Nat, l \in Nat :
            /\ n = Len(c) /\ l = Len(kept) /\ l = p + (n - e + 1)
            /\ e \in (p + 1)..n
            /\ \A i \in 1..p : kept[i] = c[i]
            /\ \A i \in (p + 1)..l : kept[i] = c[e + i - p - 1]
      <4>1. Len(c) \in Nat /\ Len(kept) \in Nat
        BY <2>2, TalkFacts
      <4> HIDE DEF kept
      <4>2. /\ Len(kept) = p + (Len(c) - e + 1) /\ e \in (p + 1)..Len(c)
            /\ \A i \in 1..p : kept[i] = c[i]
            /\ \A i \in (p + 1)..Len(kept) : kept[i] = c[e + i - p - 1]
        BY <2>2, FromFacts
      <4> QED BY <4>1, <4>2
    <3> HIDE DEF kept
    <3>2. c[1].role = "system" => p >= 1
      BY TaskRoles
    <3>3. \A i \in 2..n : c[i].role /= "system"
      BY <3>1 DEF Malformed
    <3> HIDE DEF p
    <3>4. kept[1].role = "system" => p >= 1
      <4> SUFFICES ASSUME p = 0 PROVE kept[1].role /= "system"
        BY <2>2
      <4>1. 1 \in (p + 1)..l /\ e + 1 - p - 1 = e /\ e \in 1..n
        BY <3>1
      <4>2. kept[1] = c[e]
        BY <3>1, <4>1
      <4>3. e = 1 \/ e \in 2..n
        BY <4>1
      <4> QED BY <3>2, <3>3, <4>2, <4>3
    <3>5. ASSUME NEW i \in 2..l PROVE kept[i].role /= "system"
      <4>1. CASE i \in 1..p
        <5>1. i \in 2..n
          BY <2>2, <3>1, <4>1
        <5> QED BY <3>1, <3>3, <4>1, <5>1
      <4>2. CASE i \in (p + 1)..l
        <5>1. e + i - p - 1 \in 2..n
          BY <2>2, <3>1, <4>2
        <5> QED BY <3>1, <3>3, <4>2, <5>1
      <4> QED BY <2>2, <4>1, <4>2
    <3> QED BY <3>1, <3>4, <3>5 DEF Plain
  <2> HIDE DEF kept, p
  <2>4. /\ short \in Keeping(kept, p) /\ Done(short, p) /\ Size(short) <= Size(kept)
    BY <2>2, <2>3, ShortenedFacts DEF short
  <2>5. Size(short) \in Nat /\ Size(kept) \in Nat
    <3>1. short \in Talks
      BY <2>4 DEF Keeping
    <3> QED BY <2>2, <3>1, SizeFacts
  <2>6. \A j \in (p + 1)..Len(short) : Len(short[j].content) <= ElideOver
    BY <2>1, <2>4 DEF Done
  <2>7. Size(short) <= Size(Bare(c, e))
    BY <2>2, <2>4, <2>6, NoLessThanBare DEF p
  <2>8. \A s \in Turns(c) : s <= e
    <3>1. Cut(c) = Len(Starts(c))
      <4>1. Cut(c) = Len(Starts(c)) \/ Size(kept) <= Budget
        BY <1>4, <1>6, CutRemoves DEF kept
      <4>2. ~(Size(kept) <= Budget)
        BY <1>3, <2>1, <2>4, <2>5
      <4> QED BY <4>1, <4>2
    <3> QED BY <2>2, <3>1, StartsFacts
  <2>9. ASSUME NEW s \in Turns(c) PROVE Size(Bare(c, s)) > Budget
    <3>1. s <= e
      BY <2>8
    <3>2. Size(Bare(c, e)) <= Size(Bare(c, s))
      BY <3>1, BareShrinks
    <3>3. Size(Bare(c, e)) \in Nat /\ Size(Bare(c, s)) \in Nat
      BY BareFacts, SizeFacts
    <3> QED BY <1>3, <2>1, <2>5, <2>7, <3>2, <3>3
  <2> QED BY <1>2, <1>4, <2>1, <2>9
<1> QED BY <1>5, <1>6

(* A refusal is never the trim's own doing: the task and the last turn     *)
(* alone, clipped as far as the loop would, do not fit either, and only a  *)
(* conversation without any turn takes the server down (trim's search and  *)
(* last loop, starts[lo]): the search gives up nothing short of the last   *)
(* turn, and the passes nothing longer than what is left as it is.         *)
THEOREM RefusalsAreHopeless == ChatSpec => RefusesOnlyTheHopeless
<1>1. ASSUME NEW c \in Conversations, Refuse(c), ~Malformed(c)
      PROVE  /\ Size(c) > Budget
             /\ verdict' = "panicked" => Turns(c) = {}
             /\ \A s \in Turns(c) :
                  Size(Task(c) \o [i \in 1..(Len(c) - s + 1) |->
                                     Clipped(c[s + i - 1])]) > Budget
  <2>1. /\ Trimmed(c).verdict /= "accepted" /\ verdict' = Trimmed(c).verdict
    BY <1>1 DEF Refuse, Trims
  <2>2. c \in Talks
    BY ChatAssumption DEF Talks, Messages
  <2>3. /\ Size(c) > Budget
        /\ Trimmed(c).verdict = "panicked" => Turns(c) = {}
        /\ \A s \in Turns(c) : Size(Bare(c, s)) > Budget
    BY <1>1, <2>1, <2>2, RefusedIsHopeless
  <2> QED BY <2>1, <2>3 DEF Bare
<1>2. [\A c \in Conversations :
         Refuse(c) /\ ~Malformed(c) =>
           /\ Size(c) > Budget
           /\ verdict' = "panicked" => Turns(c) = {}
           /\ \A s \in Turns(c) :
                Size(Task(c) \o [i \in 1..(Len(c) - s + 1) |->
                                   Clipped(c[s + i - 1])]) > Budget]_chatVars
  BY <1>1
<1> QED BY <1>2, PTL DEF RefusesOnlyTheHopeless

----------------------------------------------------------------------------
(* Where the cut is. *)

(* What is kept behind a turn is the conversation without what is between. *)
LEMMA FromDropped ==
  ASSUME NEW c \in Talks, ~Malformed(c), NEW s \in Turns(c)
  PROVE  /\ s - 1 - Pinned(c) \in Nat
         /\ Dropped(From(c, s), c, Pinned(c), s - 1 - Pinned(c))
<1> DEFINE x == From(c, s)
<1>1. PICK n \in Nat, p \in Nat, d \in Nat :
        /\ n = Len(c) /\ p = Pinned(c) /\ d = s - 1 - p /\ p + 1 <= s /\ s <= n /\ s \in Nat
  <2>1. Len(c) \in Nat /\ Pinned(c) \in 0..Len(c)
    BY TalkFacts, PinnedFacts
  <2>2. s \in (Pinned(c) + 1)..Len(c)
    BY FromFacts
  <2> QED BY <2>1, <2>2
<1> DEFINE l == p + (n - s + 1)
<1>2. /\ x \in Talks /\ Len(x) = l
      /\ \A i \in 1..p : x[i] = c[i]
      /\ \A i \in (p + 1)..l : x[i] = c[s + i - p - 1]
  BY <1>1, FromFacts
<1> HIDE DEF x
<1>3. ASSUME NEW i \in (p + 1)..l PROVE x[i] = c[i + d] /\ x[i].role /= "system"
  <2>1. i + d = s + i - p - 1 /\ i + d \in (p + 1)..n
    <3>1. i \in Nat /\ p + 1 <= i /\ i <= p + (n - s + 1)
      BY <1>1
    <3>2. d = s - 1 - p /\ p + 1 <= s /\ s <= n /\ n \in Nat /\ s \in Nat
      BY <1>1
    <3> HIDE DEF l
    <3>3. i + d = s + i - p - 1
      BY <3>1, <3>2
    <3>4. i + d <= n /\ p + 1 <= i + d
      BY <3>1, <3>2
    <3> QED BY <3>1, <3>3, <3>4
  <2> HIDE DEF l
  <2>2. x[i] = c[i + d]
    BY <1>2, <2>1
  <2>3. c[i + d].role /= "system"
    BY <1>1, <2>1, BehindTask
  <2> QED BY <2>2, <2>3
<1>4. ASSUME NEW i \in 1..p PROVE x[i] = c[i] /\ x[i].role \in {"system", "user"}
  <2>1. c[i].role \in {"system", "user"}
    BY <1>1, TaskRoles
  <2> QED BY <1>2, <2>1
<1>5. x[p + 1].role /= "tool"
  <2>1. p + 1 \in (p + 1)..l /\ s + (p + 1) - p - 1 = s
    BY <1>1
  <2> HIDE DEF l
  <2>2. x[p + 1] = c[s]
    BY <1>2, <2>1
  <2> QED BY <2>2 DEF Turns
<1>6. c[1].role = "system" => p >= 1
  BY <1>1, TaskRoles
<1>7. Dropped(x, c, p, d)
  <2>1. p < l /\ n = l + d
    BY <1>1
  <2> HIDE DEF l
  <2> QED BY <1>1, <1>2, <1>3, <1>4, <1>5, <1>6, <2>1 DEF Dropped
<1> QED BY <1>1, <1>7 DEF x

(* What cutting at a turn removes.                                         *)
Gone(c, s) == Size(c) - Size(From(c, s))

LEMMA GoneFacts ==
  ASSUME NEW c \in Talks, ~Malformed(c), NEW w, Weighs(w, c), NEW s \in Turns(c)
  PROVE  /\ Pinned(c) \in 0..Len(c) /\ s - 1 \in 0..Len(c)
         /\ w[Pinned(c)] \in Nat /\ w[s - 1] \in Nat
         /\ Gone(c, s) = w[s - 1] - w[Pinned(c)]
<1>1. PICK p \in Nat, d \in Nat, x \in Talks :
        /\ p = Pinned(c) /\ d = s - 1 - p /\ x = From(c, s) /\ Dropped(x, c, p, d)
  <2>1. Pinned(c) \in Nat /\ From(c, s) \in Talks
    BY PinnedFacts, TalkFacts, FromFacts
  <2> QED BY <2>1, FromDropped
<1>2. /\ p \in 0..Len(c) /\ p + d \in 0..Len(c)
      /\ w[p] \in Nat /\ w[p + d] \in Nat
      /\ Size(x) + w[p + d] = Size(c) + w[p]
  BY <1>1, DroppedFacts
<1>3. s \in Nat /\ p + d = s - 1
  <2>1. s \in (Pinned(c) + 1)..Len(c)
    BY FromFacts
  <2> QED BY <1>1, <2>1
<1>4. PICK a \in Nat, b \in Nat, e \in Nat, f \in Nat :
        a = Size(x) /\ b = Size(c) /\ e = w[p] /\ f = w[p + d]
  BY <1>2, SizeFacts
<1>5. a + f = b + e
  BY <1>2, <1>4
<1>6. b - a = f - e
  BY <1>5
<1>7. Gone(c, s) = b - a
  BY <1>1, <1>4 DEF Gone
<1> QED BY <1>1, <1>2, <1>3, <1>4, <1>6, <1>7

(* The later the turn, the more is gone.                                   *)
LEMMA GoneGrows ==
  ASSUME NEW c \in Talks, ~Malformed(c),
         NEW s \in Turns(c), NEW e \in Turns(c), s <= e
  PROVE  Gone(c, s) \in Int /\ Gone(c, e) \in Int /\ Gone(c, s) <= Gone(c, e)
<1>1. PICK w : Weighs(w, c)
  BY SizeFacts
<1>2. /\ s - 1 \in 0..Len(c) /\ e - 1 \in 0..Len(c) /\ w[Pinned(c)] \in Nat
      /\ w[s - 1] \in Nat /\ w[e - 1] \in Nat
      /\ Gone(c, s) = w[s - 1] - w[Pinned(c)]
      /\ Gone(c, e) = w[e - 1] - w[Pinned(c)]
  BY <1>1, GoneFacts
<1>3. PICK d \in Nat : (s - 1) + d = e - 1 /\ (s - 1) + d <= Len(c)
  <2>1. s \in (Pinned(c) + 1)..Len(c) /\ e \in (Pinned(c) + 1)..Len(c)
    BY FromFacts
  <2>2. Len(c) \in Nat /\ Pinned(c) \in 0..Len(c)
    BY TalkFacts, PinnedFacts
  <2>3. e - s \in Nat /\ (s - 1) + (e - s) = e - 1 /\ e - 1 <= Len(c)
    BY <2>1, <2>2
  <2> QED BY <2>3
<1>4. w[s - 1] <= w[e - 1]
  <2>1. \A q \in Nat : (s - 1) + q <= Len(c) => w[s - 1] <= w[(s - 1) + q]
    BY <1>1, <1>2, WeighsGrows
  <2> QED BY <1>3, <2>1
<1>5. PICK a \in Nat, b \in Nat, f \in Nat :
        a = w[s - 1] /\ b = w[e - 1] /\ f = w[Pinned(c)] /\ a <= b
  BY <1>2, <1>4
<1> QED BY <1>2, <1>5

(* A turn's cut removes what is between the task and the turn.             *)
LEMMA RemovesGone ==
  ASSUME NEW c \in Talks, NEW d \in 1..Len(Starts(c))
  PROVE  Starts(c)[d] \in Turns(c) /\ Removes(c, d) = Gone(c, Starts(c)[d])
<1>1. Starts(c) \in Seq(Turns(c))
  BY StartsFacts
<1>2. PICK s \in Turns(c) : s = Starts(c)[d]
  BY <1>1, ElementOfSeq
<1>3. KeptFrom(c, d) = From(c, s)
  BY <1>2, PinnedFacts DEF KeptFrom, From
<1> QED BY <1>2, <1>3 DEF Removes, Gone

(* So the search finds the first turn whose cut removes what is needed     *)
(* wherever one does (trim's binary search).                               *)
LEMMA CutIsFirst ==
  ASSUME NEW c \in Talks, ~Malformed(c), NEW s \in Turns(c), Gone(c, s) >= Need(c),
         Need(c) \in Int
  PROVE  /\ Starts(c) /= <<>> /\ Starts(c)[Cut(c)] \in Turns(c)
         /\ Gone(c, Starts(c)[Cut(c)]) >= Need(c)
         /\ Starts(c)[Cut(c)] <= s
<1> DEFINE q == Starts(c)
           n == Len(q)
<1>1. /\ q \in Seq(Turns(c)) /\ n \in Nat /\ q /= <<>> /\ s <= Len(c)
      /\ \A t \in Turns(c) : t <= Len(c) => \E d \in 1..n : q[d] = t
      /\ \A d, e \in 1..n : d <= e => q[d] <= q[e]
  <2>1. q \in Seq(Turns(c)) /\ Listed(q, c, Len(c)) /\ q /= <<>>
    BY StartsFacts
  <2>2. s \in (Pinned(c) + 1)..Len(c)
    BY FromFacts
  <2>3. Len(c) \in Nat /\ Pinned(c) \in 0..Len(c)
    BY TalkFacts, PinnedFacts
  <2>4. s <= Len(c)
    BY <2>2, <2>3
  <2> HIDE DEF q
  <2> QED BY <2>1, <2>4, LenProperties DEF Listed
<1>2. \A d \in 1..n : q[d] \in Turns(c) /\ Removes(c, d) = Gone(c, q[d])
  BY RemovesGone
<1> HIDE DEF q
<1>3. Climbs(c)
  <2>1. ASSUME NEW d \in 1..n, NEW e \in 1..n, d <= e, Removes(c, d) >= Need(c)
        PROVE  Removes(c, e) >= Need(c)
    <3>1. q[d] <= q[e]
      BY <1>1, <2>1
    <3>2. /\ Gone(c, q[d]) \in Int /\ Gone(c, q[e]) \in Int
          /\ Gone(c, q[d]) <= Gone(c, q[e])
      BY <1>2, <3>1, GoneGrows
    <3> QED BY <1>2, <2>1, <3>2
  <2> QED BY <2>1 DEF Climbs, q, n
<1>4. /\ Cut(c) \in 1..n
      /\ \A d \in 1..n : d < Cut(c) => ~(Removes(c, d) >= Need(c))
      /\ Cut(c) = n \/ Removes(c, Cut(c)) >= Need(c)
  BY <1>1, <1>3, CutFacts DEF q, n
<1>5. PICK d \in 1..n : q[d] = s
  BY <1>1
<1>6. Removes(c, d) >= Need(c)
  BY <1>2, <1>5
<1>7. Cut(c) <= d /\ d <= n
  <2>1. ~(d < Cut(c))
    BY <1>4, <1>6
  <2> QED BY <1>1, <1>4, <2>1
<1>8. Removes(c, Cut(c)) >= Need(c)
  <2>1. Climbs(c) => (d <= Cut(c) => Removes(c, Cut(c)) >= Need(c))
    BY <1>4, <1>6 DEF Climbs, q, n
  <2>2. CASE Cut(c) = n
    BY <1>3, <1>7, <2>1, <2>2
  <2> QED BY <1>4, <2>2
<1>9. q[Cut(c)] <= s
  BY <1>1, <1>4, <1>5, <1>7
<1> QED BY <1>1, <1>2, <1>4, <1>8, <1>9 DEF q

----------------------------------------------------------------------------
(* A conversation that goes on. *)

(* c is m with more behind it, from what the assistant said on.            *)
Grown(c, m) ==
  /\ c \in Talks /\ m \in Talks /\ Len(m) <= Len(c)
  /\ \A i \in 1..Len(m) : c[i] = m[i]
  /\ Len(m) < Len(c) => c[Len(m) + 1].role = "assistant"

(* Its task is the same, and so is what is shown of each message.          *)
LEMMA GrownBlocks ==
  ASSUME NEW c, NEW m, Grown(c, m)
  PROVE  /\ Pinned(c) = Pinned(m) /\ Lead(c) = Lead(m)
         /\ \A i \in 1..Len(m) : Block(c, i) = Block(m, i)
<1>1. PICK k \in Nat, l \in Nat :
        /\ k = Len(m) /\ l = Len(c) /\ k >= 1 /\ k <= l
        /\ \A i \in 1..k : c[i] = m[i]
        /\ k < l => c[k + 1].role = "assistant"
  <2>1. /\ c \in Talks /\ m \in Talks /\ Len(m) <= Len(c)
        /\ \A i \in 1..Len(m) : c[i] = m[i]
        /\ Len(m) < Len(c) => c[Len(m) + 1].role = "assistant"
    BY DEF Grown
  <2>2. Len(m) \in Nat /\ Len(c) \in Nat /\ Len(m) >= 1
    BY <2>1, TalkFacts
  <2> QED BY <2>1, <2>2
<1>2. c[1] = m[1]
  BY <1>1
<1> DEFINE s == IF m[1].role = "system" THEN 1 ELSE 0
<1>3. (s < l /\ c[s + 1].role = "user") <=> (s < k /\ m[s + 1].role = "user")
  <2>1. CASE s < k
    <3>1. s + 1 \in 1..k /\ s < l
      BY <1>1, <2>1
    <3> HIDE DEF s
    <3> QED BY <1>1, <2>1, <3>1
  <2>2. CASE ~(s < k)
    <3>1. s = k
      BY <1>1, <2>2
    <3> HIDE DEF s
    <3> QED BY <1>1, <2>2, <3>1
  <2> QED BY <2>1, <2>2
<1>4. Pinned(c) = Pinned(m)
  <2>1. /\ Pinned(c) = IF s < l /\ c[s + 1].role = "user" THEN s + 1 ELSE s
        /\ Pinned(m) = IF s < k /\ m[s + 1].role = "user" THEN s + 1 ELSE s
    BY <1>1, <1>2 DEF Pinned
  <2> HIDE DEF s
  <2> QED BY <1>3, <2>1
<1>5. Lead(c) = Lead(m)
  BY <1>2 DEF Lead
<1>6. ASSUME NEW i \in 0..(k + 1) PROVE IsTool(c, i) <=> IsTool(m, i)
  <2>1. CASE i \in 1..k
    <3>1. i \in 1..l
      BY <1>1, <2>1
    <3> QED BY <1>1, <2>1, <3>1 DEF IsTool
  <2>2. CASE i = 0
    BY <2>2 DEF IsTool
  <2>3. CASE i = k + 1
    <3>1. ~IsTool(m, i)
      BY <1>1, <2>3 DEF IsTool
    <3>2. CASE k < l
      BY <1>1, <2>3, <3>1, <3>2 DEF IsTool
    <3>3. CASE ~(k < l)
      <4>1. i \notin 1..l
        BY <1>1, <2>3, <3>3
      <4> QED BY <1>1, <3>1, <4>1 DEF IsTool
    <3> QED BY <3>2, <3>3
  <2> QED BY <1>1, <2>1, <2>2, <2>3
<1>7. ASSUME NEW i \in 1..k PROVE Block(c, i) = Block(m, i)
  <2>1. i - 1 \in 0..(k + 1) /\ i + 1 \in 0..(k + 1)
    BY <1>1
  <2>2. (IsTool(c, i - 1) <=> IsTool(m, i - 1)) /\ (IsTool(c, i + 1) <=> IsTool(m, i + 1))
    BY <1>6, <2>1
  <2>3. c[i] = m[i]
    BY <1>1
  <2> QED BY <2>2, <2>3 DEF Block
<1> QED BY <1>1, <1>4, <1>5, <1>7

(* The turns of the one are those of the other as far as it went.          *)
LEMMA GrownTurns ==
  ASSUME NEW c, NEW m, Grown(c, m)
  PROVE  /\ Turns(m) \subseteq Turns(c)
         /\ \A s \in Turns(c) : s <= Len(m) => s \in Turns(m)
<1>1. PICK k \in Nat, l \in Nat, p \in Nat :
        /\ k = Len(m) /\ l = Len(c) /\ k <= l /\ p = Pinned(m) /\ p = Pinned(c)
        /\ \A i \in 1..k : c[i] = m[i]
  <2>1. /\ c \in Talks /\ m \in Talks /\ Len(m) <= Len(c)
        /\ \A i \in 1..Len(m) : c[i] = m[i]
    BY DEF Grown
  <2>2. Len(m) \in Nat /\ Len(c) \in Nat /\ Pinned(m) \in Nat /\ Pinned(c) = Pinned(m)
    BY <2>1, TalkFacts, PinnedFacts, GrownBlocks
  <2> QED BY <2>1, <2>2
<1>2. Len(Task(c)) = p /\ Len(Task(m)) = p
  BY <1>1, PinnedFacts DEF Grown
<1>3. /\ Turns(m) = { s \in (p + 1)..k : m[s].role /= "tool" }
      /\ Turns(c) = { s \in (p + 1)..l : c[s].role /= "tool" }
  BY <1>1, <1>2 DEF Turns
<1>4. \A s \in (p + 1)..k : s \in (p + 1)..l /\ c[s] = m[s]
  BY <1>1
<1>5. \A s \in (p + 1)..l : s <= k => s \in (p + 1)..k
  BY <1>1
<1> QED BY <1>1, <1>3, <1>4, <1>5

(* There is one way to say it.                                             *)
LEMMA SpelledRender ==
  ASSUME NEW c \in Talks, NEW u, Spells(u, c)
  PROVE  Render(c) = u[Len(c)] \o Opened
<1>1. PICK t : Spells(t, c) /\ Render(c) = t[Len(c)] \o Opened
  BY RenderFacts
<1>2. /\ Len(c) \in Nat /\ u[0] = t[0]
      /\ \A i \in 1..Len(c) : /\ u[i] = u[i - 1] \o Block(c, i)
                              /\ t[i] = t[i - 1] \o Block(c, i)
  BY <1>1, TalkFacts DEF Spells
<1> DEFINE T == { i \in Nat : i <= Len(c) => u[i] = t[i] }
<1>3. 0 \in T
  BY <1>2
<1>4. ASSUME NEW i \in T PROVE i + 1 \in T
  <2> SUFFICES ASSUME i + 1 <= Len(c) PROVE u[i + 1] = t[i + 1]
    OBVIOUS
  <2>1. i + 1 \in 1..Len(c) /\ (i + 1) - 1 = i /\ i <= Len(c)
    BY <1>2
  <2>2. u[i] = t[i]
    BY <2>1
  <2> HIDE DEF T
  <2> QED BY <1>2, <2>1, <2>2
<1>5. T = Nat
  <2>1. T \in SUBSET Nat
    OBVIOUS
  <2> HIDE DEF T
  <2> QED BY <1>3, <1>4, <2>1, Induction
<1>6. u[Len(c)] = t[Len(c)]
  <2>1. Len(c) \in T /\ Len(c) <= Len(c)
    BY <1>2, <1>5
  <2> QED BY <2>1
<1> QED BY <1>1, <1>6

(* b goes on where a ends.                                                 *)
Begins(a, b) == \E r \in Seq(Token) : b = a \o r

LEMMA BeginsFacts ==
  ASSUME NEW a \in Seq(Token)
  PROVE  /\ Begins(a, a)
         /\ \A r \in Seq(Token) : a \o r \in Seq(Token) /\ Begins(a, a \o r)
         /\ \A b, d : Begins(a, b) /\ Begins(b, d) => Begins(a, d)
<1>1. Begins(a, a)
  <2>1. a \o <<>> = a /\ <<>> \in Seq(Token)
    BY ConcatEmptySeq, EmptySeq
  <2> QED BY <2>1 DEF Begins
<1>2. \A r \in Seq(Token) : a \o r \in Seq(Token) /\ Begins(a, a \o r)
  BY ConcatProperties DEF Begins
<1>3. ASSUME NEW b, NEW d, Begins(a, b), Begins(b, d) PROVE Begins(a, d)
  <2>1. PICK r \in Seq(Token) : b = a \o r
    BY <1>3 DEF Begins
  <2>2. PICK q \in Seq(Token) : d = b \o q
    BY <1>3 DEF Begins
  <2>3. (a \o r) \o q = a \o (r \o q) /\ r \o q \in Seq(Token)
    BY ConcatAssociative, ConcatProperties
  <2> QED BY <2>1, <2>2, <2>3 DEF Begins
<1> QED BY <1>1, <1>2, <1>3

(* Its prompt goes on where the other ends: the reply's turn, left open,   *)
(* is the one the assistant's message is put into (render_qwen).           *)
LEMMA GrownBegins ==
  ASSUME NEW c, NEW m, Grown(c, m)
  PROVE  Begins(Render(m), Render(c))
<1>1. PICK k \in Nat, l \in Nat :
        /\ c \in Talks /\ m \in Talks /\ k = Len(m) /\ l = Len(c) /\ k <= l
        /\ k < l => c[k + 1].role = "assistant"
  BY TalkFacts DEF Grown
<1>2. PICK t : Spells(t, c) /\ Render(c) = t[l] \o Opened
  BY <1>1, RenderFacts
<1>3. /\ t \in [0..l -> Seq(Token)] /\ t[0] = Lead(c)
      /\ \A i \in 1..l : t[i] = t[i - 1] \o Block(c, i) /\ Block(c, i) \in Seq(Token)
  BY <1>1, <1>2, BlockFacts DEF Spells
<1> DEFINE u == [i \in 0..k |-> t[i]]
<1>4. Spells(u, m) /\ u[k] = t[k]
  <2>1. /\ Lead(c) = Lead(m) /\ \A i \in 1..k : Block(c, i) = Block(m, i)
    BY <1>1, GrownBlocks
  <2>2. u \in [0..k -> Seq(Token)]
    <3>1. \A i \in 0..k : i \in 0..l
      BY <1>1
    <3> QED BY <1>3, <3>1
  <2>3. u[0] = Lead(m) /\ u[k] = t[k]
    <3>1. 0 \in 0..k /\ k \in 0..k
      BY <1>1
    <3> QED BY <1>3, <2>1, <3>1
  <2>4. ASSUME NEW i \in 1..k PROVE u[i] = u[i - 1] \o Block(m, i)
    <3>1. i \in 1..l /\ i \in 0..k /\ i - 1 \in 0..k
      BY <1>1
    <3> QED BY <1>3, <2>1, <3>1
  <2> HIDE DEF u
  <2> QED BY <1>1, <2>2, <2>3, <2>4 DEF Spells
<1> HIDE DEF u
<1>5. Render(m) = t[k] \o Opened
  BY <1>1, <1>4, SpelledRender
<1>6. Opened \in Seq(Token)
  BY <1>1, RenderFacts
<1>7. CASE k = l
  <2>1. Render(m) = Render(c) /\ Render(m) \in Seq(Token)
    BY <1>1, <1>2, <1>5, <1>7, SizeFacts
  <2> QED BY <2>1, BeginsFacts
<1>8. CASE k < l
  <2>1. c[k + 1].role = "assistant" /\ k + 1 \in 1..l /\ k \in 0..l
    BY <1>1, <1>8
  <2> DEFINE b == Block(c, k + 1)
  <2>2. PICK y \in Seq(Token) : b = Opened \o y
    <3> DEFINE z == c[k + 1].content
               e == <<ImEnd>>
    <3>1. z \in Seq(Token) /\ e \in Seq(Token)
      <4>1. c[k + 1] \in Messages
        BY <1>1, <2>1, TalkFacts
      <4>2. ImEnd \in Token
        BY ChatAssumption, ServerAssumption
      <4> QED BY <4>1, <4>2 DEF Messages
    <3>2. b = (Opened \o z) \o e
      BY <2>1 DEF Block, Opened
    <3> HIDE DEF z, e, b
    <3>3. (Opened \o z) \o e = Opened \o (z \o e) /\ z \o e \in Seq(Token)
      BY <1>6, <3>1, ConcatAssociative, ConcatProperties
    <3> QED BY <3>2, <3>3
  <2>3. t[k + 1] = t[k] \o b /\ t[k] \in Seq(Token) /\ t[k + 1] \in Seq(Token)
    <3>1. (k + 1) - 1 = k /\ k + 1 \in 0..l
      BY <2>1
    <3> QED BY <1>3, <2>1, <3>1
  <2>4. Begins(Render(m), t[k + 1]) /\ Render(m) \in Seq(Token)
    <3>1. PICK x \in Seq(Token) : x = t[k]
      BY <2>3
    <3>2. x \o (Opened \o y) = (x \o Opened) \o y
      BY <1>6, <2>2, ConcatAssociative
    <3>3. t[k + 1] = Render(m) \o y
      BY <1>5, <2>2, <2>3, <3>1, <3>2
    <3>4. Render(m) \in Seq(Token)
      BY <1>1, SizeFacts
    <3> QED BY <2>2, <3>3, <3>4 DEF Begins
  <2> DEFINE T == { d \in Nat : (k + 1) + d <= l => Begins(Render(m), t[(k + 1) + d]) }
  <2>5. 0 \in T
    <3>1. (k + 1) + 0 = k + 1
      OBVIOUS
    <3> QED BY <2>4, <3>1
  <2>6. ASSUME NEW d \in T PROVE d + 1 \in T
    <3> SUFFICES ASSUME (k + 1) + (d + 1) <= l
                 PROVE  Begins(Render(m), t[(k + 1) + (d + 1)])
      OBVIOUS
    <3> DEFINE i == (k + 1) + (d + 1)
    <3>1. /\ d \in Nat /\ i \in 1..l /\ i - 1 = (k + 1) + d
          /\ (k + 1) + d <= l /\ (k + 1) + d \in 0..l
      BY <1>1
    <3>2. Begins(Render(m), t[(k + 1) + d])
      BY <3>1
    <3> HIDE DEF i, T
    <3>3. PICK x \in Seq(Token), q \in Seq(Token) :
            x = t[(k + 1) + d] /\ q = Block(c, i) /\ t[i] = x \o q
      BY <1>3, <3>1
    <3>4. Begins(x, x \o q)
      BY BeginsFacts
    <3>5. Begins(Render(m), t[i])
      BY <2>4, <3>2, <3>3, <3>4, BeginsFacts
    <3> QED BY <3>5 DEF i
  <2>7. T = Nat
    <3>1. T \in SUBSET Nat
      OBVIOUS
    <3> HIDE DEF T
    <3> QED BY <2>5, <2>6, <3>1, Induction
  <2>8. Begins(Render(m), t[l])
    <3>1. l - (k + 1) \in Nat /\ (k + 1) + (l - (k + 1)) = l
      BY <1>1, <1>8
    <3>2. PICK d \in Nat : (k + 1) + d = l /\ (k + 1) + d <= l
      BY <3>1
    <3>3. d \in T
      BY <2>7
    <3> QED BY <3>2, <3>3
  <2> HIDE DEF T
  <2>9. Begins(t[l], Render(c))
    <3>1. t[l] \in Seq(Token)
      BY <1>1, <1>3
    <3> QED BY <1>2, <1>6, <3>1, BeginsFacts
  <2> QED BY <2>4, <2>8, <2>9, BeginsFacts
<1> QED BY <1>1, <1>7, <1>8

(* What is kept of it from a turn on goes on, too.                         *)
LEMMA GrownFrom ==
  ASSUME NEW c, NEW m, Grown(c, m), NEW s \in Turns(m)
  PROVE  Grown(From(c, s), From(m, s))
<1> DEFINE x == From(c, s)
           y == From(m, s)
<1>1. PICK k \in Nat, l \in Nat, p \in Nat :
        /\ c \in Talks /\ m \in Talks /\ k = Len(m) /\ l = Len(c) /\ k <= l
        /\ p = Pinned(m) /\ p = Pinned(c)
        /\ \A i \in 1..k : c[i] = m[i]
        /\ k < l => c[k + 1].role = "assistant"
  <2>1. /\ c \in Talks /\ m \in Talks /\ Len(m) <= Len(c)
        /\ \A i \in 1..Len(m) : c[i] = m[i]
        /\ Len(m) < Len(c) => c[Len(m) + 1].role = "assistant"
    BY DEF Grown
  <2>2. Len(m) \in Nat /\ Len(c) \in Nat /\ Pinned(m) \in Nat /\ Pinned(c) = Pinned(m)
    BY <2>1, TalkFacts, PinnedFacts, GrownBlocks
  <2> QED BY <2>1, <2>2
<1>2. s \in Turns(c) /\ s \in Nat /\ p + 1 <= s /\ s <= k
  <2>1. s \in Turns(c)
    BY GrownTurns
  <2>2. s \in (p + 1)..k
    BY <1>1, FromFacts
  <2> QED BY <1>1, <2>1, <2>2
<1> DEFINE g == p + (l - s + 1)
           h == p + (k - s + 1)
<1>3. /\ x \in Talks /\ Len(x) = g
      /\ \A i \in 1..p : x[i] = c[i]
      /\ \A i \in (p + 1)..g : x[i] = c[s + i - p - 1]
  <2>1. /\ x \in Talks /\ Len(x) = Pinned(c) + (Len(c) - s + 1)
        /\ \A i \in 1..Pinned(c) : x[i] = c[i]
        /\ \A i \in (Pinned(c) + 1)..Len(x) : x[i] = c[s + i - Pinned(c) - 1]
    BY <1>1, <1>2, FromFacts
  <2> HIDE DEF x
  <2> QED BY <1>1, <2>1
<1>4. /\ y \in Talks /\ Len(y) = h
      /\ \A i \in 1..p : y[i] = m[i]
      /\ \A i \in (p + 1)..h : y[i] = m[s + i - p - 1]
  <2>1. /\ y \in Talks /\ Len(y) = Pinned(m) + (Len(m) - s + 1)
        /\ \A i \in 1..Pinned(m) : y[i] = m[i]
        /\ \A i \in (Pinned(m) + 1)..Len(y) : y[i] = m[s + i - Pinned(m) - 1]
    BY <1>1, FromFacts
  <2> HIDE DEF y
  <2> QED BY <1>1, <2>1
<1> HIDE DEF x, y
<1>5. g \in Nat /\ h \in Nat /\ h <= g /\ p < h /\ (h < g <=> k < l)
  BY <1>1, <1>2
<1>6. ASSUME NEW i \in 1..h PROVE x[i] = y[i]
  <2>1. CASE i <= p
    <3>1. i \in 1..p /\ i \in 1..k
      BY <1>1, <1>2, <2>1
    <3> HIDE DEF g, h
    <3> QED BY <1>1, <1>3, <1>4, <3>1
  <2>2. CASE ~(i <= p)
    <3>1. i \in (p + 1)..h /\ i \in (p + 1)..g
      BY <1>5, <2>2
    <3>2. s + i - p - 1 \in 1..k
      BY <1>1, <1>2, <3>1
    <3> HIDE DEF g, h
    <3> QED BY <1>1, <1>3, <1>4, <3>1, <3>2
  <2> QED BY <2>1, <2>2
<1>7. ASSUME h < g PROVE x[h + 1].role = "assistant"
  <2>1. k < l /\ h + 1 \in (p + 1)..g
    BY <1>5, <1>7
  <2>2. s + (h + 1) - p - 1 = k + 1
    <3>1. PICK e \in Nat : e = k - s /\ k = s + e
      BY <1>1, <1>2
    <3>2. h = p + (e + 1)
      BY <3>1
    <3>0. s \in Nat
      BY <1>2
    <3>3. s + ((p + (e + 1)) + 1) - p - 1 = (s + e) + 1
      BY <3>0
    <3> HIDE DEF h
    <3> QED BY <3>1, <3>2, <3>3
  <2> HIDE DEF g, h
  <2>3. x[h + 1] = c[k + 1]
    BY <1>3, <2>1, <2>2
  <2> QED BY <1>1, <2>1, <2>3
<1> HIDE DEF g, h
<1> QED BY <1>3, <1>4, <1>5, <1>6, <1>7 DEF Grown, x, y

(* Cutting at a turn of the one removes what it does of the other.         *)
LEMMA GrownGone ==
  ASSUME NEW c, NEW m, Grown(c, m), ~Malformed(c), ~Malformed(m), NEW s \in Turns(m)
  PROVE  Gone(c, s) = Gone(m, s)
<1>1. PICK k \in Nat, l \in Nat :
        /\ c \in Talks /\ m \in Talks /\ k = Len(m) /\ l = Len(c) /\ k <= l
  BY TalkFacts DEF Grown
<1>2. /\ Pinned(c) = Pinned(m) /\ Lead(c) = Lead(m) /\ s \in Turns(c)
      /\ \A i \in 1..k : Block(c, i) = Block(m, i)
  BY <1>1, GrownBlocks, GrownTurns
<1>3. PICK w : Weighs(w, c)
  BY <1>1, SizeFacts
<1> DEFINE v == [i \in 0..k |-> w[i]]
<1>4. Weighs(v, m)
  <2>1. /\ w \in [0..l -> Nat] /\ w[0] = Len(Lead(c))
        /\ \A i \in 1..l : w[i] = w[i - 1] + Len(Block(c, i))
    BY <1>1, <1>3 DEF Weighs
  <2>2. \A i \in 0..k : i \in 0..l
    BY <1>1
  <2>3. v \in [0..k -> Nat] /\ v[0] = Len(Lead(m))
    <3>1. 0 \in 0..k
      OBVIOUS
    <3> QED BY <1>2, <2>1, <2>2, <3>1
  <2>4. ASSUME NEW i \in 1..k PROVE v[i] = v[i - 1] + Len(Block(m, i))
    <3>1. i \in 1..l /\ i \in 0..k /\ i - 1 \in 0..k
      BY <1>1
    <3> QED BY <1>2, <2>1, <3>1
  <2> HIDE DEF v
  <2> QED BY <1>1, <2>3, <2>4 DEF Weighs
<1>5. Gone(c, s) = w[s - 1] - w[Pinned(m)]
  BY <1>1, <1>2, <1>3, GoneFacts
<1>6. /\ Gone(m, s) = v[s - 1] - v[Pinned(m)]
      /\ s - 1 \in 0..k /\ Pinned(m) \in 0..k
  <2> HIDE DEF v
  <2> QED BY <1>1, <1>4, GoneFacts
<1> QED BY <1>5, <1>6

(* How much is to go is a number of steps.                                 *)
LEMMA StepsFacts ==
  ASSUME NEW c \in Talks
  PROVE  /\ Steps(c) = 0 <=> Size(c) <= Budget
         /\ ~(Size(c) <= Budget) => /\ Need(c) = Steps(c) * Step /\ Need(c) \in Nat
                                    /\ Steps(c) > 0 /\ Need(c) >= Size(c) - Budget
<1>1. PICK n \in Nat, b \in Nat, t \in Nat :
        n = Size(c) /\ b = Budget /\ t = Step /\ t >= 1
  <2>1. Step \in Nat /\ Step >= 1
    BY TrimAssumption DEF Step
  <2> QED BY <2>1, SizeFacts, TrimAssumption
<1>2. CASE n <= b
  BY <1>1, <1>2 DEF Steps
<1>3. CASE ~(n <= b)
  <2>1. PICK a \in Nat : a = n - b /\ a >= 1
    <3>1. n - b \in Nat /\ n - b >= 1
      BY <1>3
    <3> QED BY <3>1
  <2> DEFINE q == (a + t - 1) \div t
  <2>2. Need(c) = q * t /\ Steps(c) = q
    BY <1>1, <1>3, <2>1 DEF Need, Steps
  <2>3. q * t >= a /\ q * t \in Nat
    BY <1>1, RoundedUp
  <2>4. q \in Nat
    BY <1>1
  <2> HIDE DEF q
  <2>5. q > 0
    <3>1. CASE q = 0
      <4>1. q * t = 0
        BY <3>1
      <4> QED BY <2>1, <2>3, <4>1
    <3> QED BY <2>4, <3>1
  <2> QED BY <1>1, <1>3, <2>1, <2>2, <2>3, <2>4, <2>5
<1> QED BY <1>1, <1>2, <1>3

(* What is sent where a turn's cut removes what is needed: the task and    *)
(* what is behind the first such turn, whole (trim).                       *)
LEMMA CutWhole ==
  ASSUME NEW c \in Talks, ~Malformed(c), ~(Size(c) <= Budget),
         NEW s \in Turns(c), Gone(c, s) >= Need(c)
  PROVE  \E e \in Turns(c) :
           /\ e <= s /\ Gone(c, e) >= Need(c) /\ Trimmed(c).msgs = From(c, e)
           /\ \A d \in Turns(c) : Gone(c, d) >= Need(c) => e <= d
<1> DEFINE kept == KeptFrom(c, Cut(c))
           short == Shortened(kept, Pinned(c))
<1>1. Trimmed(c) = IF Malformed(c) THEN Answer("refused", <<>>)
                   ELSE IF Size(c) <= Budget THEN Answer("accepted", c)
                   ELSE IF Starts(c) = <<>> THEN Answer("panicked", <<>>)
                   ELSE IF Size(short) <= Budget THEN Answer("accepted", short)
                   ELSE Answer("refused", <<>>)
  BY DEF Trimmed
<1> HIDE DEF short
<1>2. /\ Need(c) \in Nat /\ Need(c) \in Int /\ Need(c) >= Size(c) - Budget
  BY StepsFacts
<1>3. /\ Starts(c) /= <<>>
      /\ \A d \in Turns(c) : Gone(c, d) >= Need(c) => Starts(c)[Cut(c)] <= d
  BY <1>2, CutIsFirst
<1>4. PICK e \in Turns(c) :
        /\ e = Starts(c)[Cut(c)] /\ Gone(c, e) >= Need(c) /\ kept = From(c, e)
        /\ kept \in Talks /\ Pinned(c) \in Nat /\ Pinned(c) < Len(kept)
  BY <1>2, <1>3, CutIsFirst, KeptFacts
<1> HIDE DEF kept
<1>5. Size(kept) <= Budget
  <2>1. PICK n \in Nat, k \in Nat, b \in Nat, a \in Nat :
          n = Size(c) /\ k = Size(kept) /\ b = Budget /\ a = Need(c)
    BY <1>2, <1>4, SizeFacts, TrimAssumption
  <2>2. n - k >= a /\ a >= n - b
    BY <1>2, <1>4, <2>1 DEF Gone
  <2>3. k <= b
    BY <2>1, <2>2
  <2> QED BY <2>1, <2>3
<1>6. short = kept
  BY <1>4, <1>5, ShortenedFacts DEF short
<1>7. Trimmed(c).msgs = From(c, e)
  BY <1>1, <1>3, <1>4, <1>5, <1>6 DEF Answer
<1> QED BY <1>3, <1>4, <1>7

(* So the cut stays where it was while the overflow is in the same step,   *)
(* and the prompt goes on where the last one ended.                        *)
LEMMA SamePlace ==
  ASSUME NEW c, NEW m, Grown(c, m), Steps(c) = Steps(m), CutSuffices(m),
         Trimmed(c).verdict = "accepted", Trimmed(m).verdict = "accepted"
  PROVE  Begins(Render(Trimmed(m).msgs), Render(Trimmed(c).msgs))
<1>1. c \in Talks /\ m \in Talks
  BY DEF Grown
<1>2. ~Malformed(c) /\ ~Malformed(m)
  BY DEF Trimmed, Answer
<1>3. CASE Size(m) <= Budget
  <2>1. Size(c) <= Budget
    BY <1>1, <1>3, StepsFacts
  <2>2. Trimmed(c).msgs = c /\ Trimmed(m).msgs = m
    BY <1>2, <1>3, <2>1 DEF Trimmed, Answer
  <2> QED BY <2>2, GrownBegins
<1>4. CASE ~(Size(m) <= Budget)
  <2>1. ~(Size(c) <= Budget)
    BY <1>1, <1>4, StepsFacts
  <2>2. Need(c) = Need(m) /\ Need(m) = Steps(m) * Step /\ Steps(m) > 0
    BY <1>1, <1>4, <2>1, StepsFacts
  <2>3. PICK s \in Turns(m) : Gone(m, s) >= Need(m)
    <3>1. PICK s \in Turns(m) : Size(m) - Size(From(m, s)) >= Steps(m) * Step
      BY <2>2 DEF CutSuffices
    <3> QED BY <2>2, <3>1 DEF Gone
  <2>4. PICK e \in Turns(m) :
          /\ Gone(m, e) >= Need(m) /\ Trimmed(m).msgs = From(m, e)
          /\ \A d \in Turns(m) : Gone(m, d) >= Need(m) => e <= d
    BY <1>1, <1>2, <1>4, <2>3, CutWhole
  <2>5. e \in Turns(c) /\ Gone(c, e) >= Need(c)
    BY <1>2, <2>2, <2>4, GrownTurns, GrownGone
  <2>6. PICK f \in Turns(c) :
          /\ f <= e /\ Gone(c, f) >= Need(c) /\ Trimmed(c).msgs = From(c, f)
    BY <1>1, <1>2, <2>1, <2>5, CutWhole
  <2>7. f \in Nat /\ e \in Nat /\ e <= Len(m) /\ Len(m) \in Nat
    <3>1. e \in (Pinned(m) + 1)..Len(m) /\ f \in (Pinned(c) + 1)..Len(c)
      BY <1>1, FromFacts
    <3>2. Len(m) \in Nat /\ Pinned(m) \in Nat /\ Pinned(c) \in Nat
      BY <1>1, TalkFacts, PinnedFacts
    <3> QED BY <3>1, <3>2
  <2>8. f \in Turns(m)
    <3>1. f <= Len(m)
      BY <2>6, <2>7
    <3> QED BY <3>1, GrownTurns
  <2>9. Gone(m, f) >= Need(m)
    BY <1>2, <2>2, <2>6, <2>8, GrownGone
  <2>10. e = f
    <3>1. e <= f
      BY <2>4, <2>8, <2>9
    <3> QED BY <2>6, <2>7, <3>1
  <2>11. Grown(From(c, e), From(m, e))
    BY GrownFrom
  <2> QED BY <2>4, <2>6, <2>10, <2>11, GrownBegins
<1> QED BY <1>3, <1>4

----------------------------------------------------------------------------
(* Where a prompt is read from. *)

(* A prompt ends in the reply's turn.                                      *)
LEMMA RenderEnds ==
  ASSUME NEW c \in Talks
  PROVE  /\ Render(c) \in Seq(Token) /\ Len(Render(c)) \in Nat /\ Len(Render(c)) >= 2
         /\ Render(c)[Len(Render(c)) - 1] = ImStart
<1>1. PICK x \in Seq(Token) : Render(c) = x \o Opened
  <2>1. PICK t : Spells(t, c) /\ Render(c) = t[Len(c)] \o Opened
    BY RenderFacts
  <2>2. t[Len(c)] \in Seq(Token)
    BY <2>1, TalkFacts DEF Spells
  <2> QED BY <2>1, <2>2
<1>2. Opened \in Seq(Token) /\ Len(Opened) = 2 /\ Opened[1] = ImStart
  BY RenderFacts DEF Opened
<1>3. /\ x \o Opened \in Seq(Token) /\ Len(x \o Opened) = Len(x) + Len(Opened)
      /\ \A i \in 1..(Len(x) + Len(Opened)) :
           (x \o Opened)[i] = IF i <= Len(x) THEN x[i] ELSE Opened[i - Len(x)]
  BY <1>2, ConcatProperties
<1>4. PICK n \in Nat : n = Len(x)
  BY LenProperties
<1>5. n + 1 \in 1..(n + 2) /\ ~(n + 1 <= n) /\ (n + 1) - n = 1 /\ (n + 2) - 1 = n + 1
  OBVIOUS
<1>6. (x \o Opened)[n + 1] = ImStart
  BY <1>2, <1>3, <1>4, <1>5
<1> QED BY <1>1, <1>2, <1>3, <1>4, <1>5, <1>6

(* The pool's last point is n tokens in, or further.                       *)
Reached(n) == points /= <<>> /\ points[Len(points)].pos >= n

(* What is or was read is the prompt of the conversation last asked: the   *)
(* last point is where the reading is, and in the end where the reply's    *)
(* turn begins.                                                            *)
Placed ==
  /\ conv /= <<>> =>
       /\ conv \in Conversations /\ Trims[conv].verdict = "accepted"
       /\ ids = Render(Trims[conv].msgs)
       /\ phase /= "prefill" => Len(ids) <= 2 \/ Reached(Len(ids) - 2)
  /\ phase = "prefill" => at = 0 \/ Reached(at)

(* The prompt's end is a boundary that the reading stops at.               *)
LEMMA RestPlaced ==
  ASSUME IInv, Placed, PrefillRest, conv /= <<>>
  PROVE  Len(ids) <= 2 \/ Reached(Len(ids) - 2)
<1>1. PICK n \in Nat, k \in Nat :
        n = Len(ids) /\ k = at /\ Bounds = {} /\ (k = 0 \/ Reached(k))
  <2>1. phase = "prefill" /\ Bounds = {}
    BY DEF PrefillRest
  <2>2. Len(ids) \in Nat /\ at \in 0..Len(ids)
    BY LenProperties DEF IInv, TypeOK
  <2>3. at \in Nat
    BY <2>2
  <2> QED BY <2>1, <2>2, <2>3 DEF Placed
<1>2. ids[n - 1] = Turn
  <2>1. conv \in Conversations /\ Trims[conv].verdict = "accepted" /\ ids = Render(Trims[conv].msgs)
    BY DEF Placed
  <2>2. conv \in Talks /\ Trims[conv] = Trimmed(conv)
    BY <2>1, ChatAssumption DEF Talks, Messages, Trims
  <2>3. Trims[conv].msgs \in Talks
    BY <2>1, <2>2, TrimmedMatters
  <2> QED BY <1>1, <2>1, <2>3, RenderEnds, ChatAssumption
<1>3. ASSUME n > 2 PROVE k >= n - 2
  <2>1. CASE k + 1 <= n - 2
    <3>1. n - 2 \in (k + 1)..(n - 1) /\ (n - 2) + 1 = n - 1
      BY <1>3, <2>1
    <3>2. n - 2 \in Bounds
      BY <1>1, <1>2, <3>1 DEF Bounds
    <3> QED BY <1>1, <3>2
  <2>2. CASE ~(k + 1 <= n - 2)
    BY <2>2
  <2> QED BY <2>1, <2>2
<1>4. ASSUME n > 2 PROVE Reached(n - 2)
  <2>1. k >= n - 2 /\ k /= 0
    BY <1>3, <1>4
  <2>2. Reached(k)
    BY <1>1, <2>1
  <2>3. PICK a \in Nat : a = points[Len(points)].pos
    <3>1. points \in Seq(CheckpointType) /\ points /= <<>>
      BY <2>2 DEF IInv, TypeOK, Reached
    <3>2. Len(points) \in 1..Len(points)
      BY <3>1, EmptySeq, LenProperties
    <3>3. points[Len(points)] \in CheckpointType
      BY <3>1, <3>2, ElementOfSeq
    <3>4. points[Len(points)].pos \in 0..Cap /\ Cap \in Nat
      BY <3>3, SizeAssumption DEF CheckpointType
    <3> QED BY <3>4
  <2>4. a >= k
    BY <2>2, <2>3 DEF Reached
  <2>5. a >= n - 2
    BY <2>1, <2>4
  <2> QED BY <2>2, <2>3, <2>5 DEF Reached
<1> QED BY <1>1, <1>4

LEMMA PlacedStep ==
  ASSUME IInv, IInv', Placed, [ChatNext]_chatVars
  PROVE  Placed'
<1>1. ASSUME NEW c \in Conversations, NEW asked \in Ceilings, Ask(c, asked)
      PROVE  Placed'
  <2> DEFINE p == Render(Trims[c].msgs)
             i == Resumable(p)
  <2>1. /\ conv' = c /\ Trims[c].verdict = "accepted" /\ ids' = p /\ phase' = "prefill"
        /\ Accept(p, asked)
    BY <1>1 DEF Ask, Accept
  <2> HIDE DEF p
  <2>2. CASE i > 0 /\ points[i].pos \in 1..(Len(p) - 1)
    <3>1. points' = TruncatedTo(i) /\ at' = points[i].pos
      BY <2>1, <2>2 DEF Accept
    <3>2. points \in Seq(CheckpointType) /\ i \in 1..Len(points)
      <4>1. points \in Seq(CheckpointType) /\ Len(points) \in Nat
        BY LenProperties DEF IInv, TypeOK
      <4>2. i \in 0..Len(points)
        BY <4>1, ResumableFacts
      <4> HIDE DEF i
      <4> QED BY <2>2, <4>1, <4>2
    <3> HIDE DEF i
    <3>3. Len(points') = i /\ points'[i] = points[i] /\ i /= 0
      <4>1. i \in 1..i
        BY <3>2
      <4> QED BY <3>1, <3>2, <4>1, TruncatedFacts
    <3>4. points' /= <<>>
      BY <3>3, EmptySeq
    <3>5. points[i].pos >= points[i].pos
      BY <2>2
    <3>6. Reached(at)'
      BY <3>1, <3>3, <3>4, <3>5 DEF Reached
    <3> QED BY <2>1, <3>6 DEF Placed, p
  <2>3. CASE ~(i > 0 /\ points[i].pos \in 1..(Len(p) - 1))
    <3>1. at' = 0
      BY <2>1, <2>3 DEF Accept
    <3> QED BY <2>1, <3>1 DEF Placed, p
  <2> QED BY <2>2, <2>3
<1>2. ASSUME NEW c \in Conversations, Refuse(c) PROVE Placed'
  BY <1>2 DEF Refuse, Placed, Reached, vars
<1>3. ASSUME Work \/ HangUp, UNCHANGED <<conv, verdict>> PROVE Placed'
  <2>1. CASE PrefillTurn
    <3>1. /\ Len(points') \in Nat /\ Len(points') >= 1
          /\ points'[Len(points')].pos = at'
      BY <2>1, TurnPushed
    <3>2. points' /= <<>>
      BY <3>1, EmptySeq
    <3>3. at' >= at'
      <4>1. at' \in 0..Len(ids') /\ Len(ids') \in Nat
        BY LenProperties DEF IInv, TypeOK
      <4> QED BY <4>1
    <3>4. Reached(at)'
      BY <3>1, <3>2, <3>3 DEF Reached
    <3>5. phase = "prefill" /\ phase' = phase /\ ids' = ids
      BY <2>1 DEF PrefillTurn
    <3> QED BY <1>3, <3>4, <3>5 DEF Placed
  <2>2. CASE PrefillRest
    <3>1. phase' = "decode" /\ ids' = ids /\ points' = points
      BY <2>2 DEF PrefillRest
    <3>2. conv /= <<>> => Len(ids) <= 2 \/ Reached(Len(ids) - 2)
      BY <2>2, RestPlaced
    <3> QED BY <1>3, <3>1, <3>2 DEF Placed, Reached
  <2>3. CASE Round \/ Finish \/ HangUp
    <3>1. /\ phase = "decode" /\ phase' \in {"decode", "idle"}
          /\ ids' = ids /\ points' = points
      <4>1. CASE Round
        BY <4>1 DEF Round, End, request
      <4>2. CASE Finish
        BY <4>2 DEF Finish, End, request
      <4>3. CASE HangUp
        BY <4>3 DEF HangUp, End, request
      <4> QED BY <2>3, <4>1, <4>2, <4>3
    <3> QED BY <1>3, <3>1 DEF Placed, Reached
  <2> QED BY <1>3, <2>1, <2>2, <2>3 DEF Work
<1>4. CASE UNCHANGED chatVars
  BY <1>4 DEF chatVars, vars, Placed, Reached
<1> QED BY <1>1, <1>2, <1>3, <1>4 DEF ChatNext

(* c goes on from m, without another step of overflow.                     *)
GoesOn(c, m) ==
  /\ Len(c) >= Len(m) /\ SubSeq(c, 1, Len(m)) = m
  /\ c /= m => c[Len(m) + 1].role = "assistant"
  /\ Steps(c) = Steps(m) /\ CutSuffices(m)

(* The points that p could resume at are all behind where it does.         *)
AsFar(p) ==
  \A i \in 1..Len(points) :
    points[i].pos <= Len(p) /\ points[i].delta = SubSeq(p, 1, points[i].pos)
      => at' >= points[i].pos

(* What is asked next begins with what was read, so the last point is one  *)
(* of its own.                                                             *)
LEMMA TakenUp ==
  ASSUME TypeOK, TypeOK', PointsResumable, Placed, phase = "idle", conv /= <<>>,
         NEW c \in Conversations, Trims[c].verdict = "accepted", GoesOn(c, conv),
         AsFar(Render(Trims[c].msgs))
  PROVE  at' >= Len(ids) - Len(Opened)
<1> DEFINE p == Render(Trims[c].msgs)
<1>1. /\ conv \in Conversations /\ Trims[conv].verdict = "accepted"
      /\ ids = Render(Trims[conv].msgs) /\ (Len(ids) <= 2 \/ Reached(Len(ids) - 2))
  BY DEF Placed
<1>2. /\ c \in Talks /\ conv \in Talks
      /\ Trims[c] = Trimmed(c) /\ Trims[conv] = Trimmed(conv)
  BY <1>1, ChatAssumption DEF Talks, Messages, Trims
<1>3. Grown(c, conv)
  <2>1. /\ c \in Seq(Messages) /\ Len(c) \in Nat /\ Len(conv) \in Nat
        /\ Len(conv) <= Len(c) /\ SubSeq(c, 1, Len(conv)) = conv
        /\ c /= conv => c[Len(conv) + 1].role = "assistant"
    BY <1>2, TalkFacts DEF GoesOn
  <2>2. ASSUME NEW i \in 1..Len(conv) PROVE c[i] = conv[i]
    <3>1. \A j \in 1..Len(conv) : c[j] \in Messages
      <4>1. \A j \in 1..Len(conv) : j \in 1..Len(c)
        BY <2>1
      <4> QED BY <1>2, <4>1, TalkFacts
    <3>2. \A j \in 1..(Len(conv) - 1 + 1) : SubSeq(c, 1, Len(conv))[j] = c[1 + j - 1]
      BY <2>1, <3>1, SubSeqProperties
    <3>3. i \in 1..(Len(conv) - 1 + 1) /\ 1 + i - 1 = i
      BY <2>1
    <3> QED BY <2>1, <3>2, <3>3
  <2>3. Len(conv) < Len(c) => c /= conv
    BY <2>1
  <2> QED BY <1>2, <2>1, <2>2, <2>3 DEF Grown
<1>4. Begins(ids, p)
  BY <1>1, <1>2, <1>3, SamePlace DEF GoesOn
<1>5. p \in Seq(Token) /\ Len(Opened) = 2
  BY <1>2, TrimmedMatters, RenderEnds, RenderFacts
<1>6. \A i \in 1..Len(points) :
        points[i].pos <= Len(p) /\ points[i].delta = SubSeq(p, 1, points[i].pos)
          => at' >= points[i].pos
  BY DEF AsFar
<1> HIDE DEF p
<1>7. PICK r \in Seq(Token) : p = ids \o r
  BY <1>4 DEF Begins
<1>8. ids \in Seq(Token) /\ Len(ids) \in Nat /\ at \in 0..Len(ids) /\ at' \in Nat
  <2>1. at' \in 0..Len(ids')  /\ Len(ids') \in Nat
    BY LenProperties DEF TypeOK
  <2>2. at' \in Nat
    BY <2>1
  <2> QED BY <2>2, LenProperties DEF TypeOK
<1>9. CASE Len(ids) <= 2
  BY <1>5, <1>8, <1>9
<1>10. CASE Reached(Len(ids) - 2)
  <2>1. points \in Seq(CheckpointType) /\ points /= <<>> /\ points[Len(points)].pos >= Len(ids) - 2
    BY <1>10 DEF TypeOK, Reached
  <2>2. Len(points) \in 1..Len(points)
    BY <2>1, EmptySeq, LenProperties
  <2>3. PICK k \in Nat :
          /\ k = points[Len(points)].pos /\ k <= Len(ids)
          /\ points[Len(points)].delta = SubSeq(ids, 1, k)
    <3>1. /\ points[Len(points)].pos \in 1..at
          /\ points[Len(points)].delta = SubSeq(ids, 1, points[Len(points)].pos)
      BY <2>2 DEF PointsResumable
    <3>2. points[Len(points)].pos \in Nat /\ points[Len(points)].pos <= Len(ids)
      BY <1>8, <3>1
    <3> QED BY <3>1, <3>2
  <2>4. Len(p) = Len(ids) + Len(r) /\ Len(r) \in Nat
    BY <1>7, <1>8, ConcatProperties, LenProperties
  <2>5. SubSeq(p, 1, k) = SubSeq(ids, 1, k) /\ k <= Len(p)
    BY <1>7, <1>8, <2>3, <2>4, PrefixOfConcat
  <2>6. at' >= k
    BY <1>6, <2>2, <2>3, <2>5
  <2>7. k >= Len(ids) - 2
    BY <2>1, <2>3
  <2> QED BY <1>5, <1>8, <2>3, <2>6, <2>7
<1> QED BY <1>1, <1>9, <1>10

(* A conversation that goes on is read from where its last turn ended,     *)
(* until it has overflown by another step, however the messages to drop    *)
(* might be chosen anew each time (trim's step, Cache::push, chat): what   *)
(* has grown is cut at the same turn, its prompt begins with the last one, *)
(* and that one's reading stopped where the reply's turn opens.            *)
THEOREM KeepsPlace == ChatSpec => KeepsItsPlace
<1> DEFINE InPlace ==
      \A c \in Conversations, asked \in Ceilings :
        /\ conv /= <<>> /\ Ask(c, asked)
        /\ Len(c) >= Len(conv) /\ SubSeq(c, 1, Len(conv)) = conv
        /\ c /= conv => c[Len(conv) + 1].role = "assistant"
        /\ Steps(c) = Steps(conv) /\ CutSuffices(conv)
        => at' >= Len(ids) - Len(Opened)
           Farthest ==
      \A p \in Prompts, asked \in Ceilings :
        Accept(p, asked) =>
          \A i \in 1..Len(points) :
            points[i].pos <= Len(p) /\ points[i].delta = SubSeq(p, 1, points[i].pos)
              => at' >= points[i].pos
<1>1. ChatInit => Placed
  BY DEF ChatInit, Init, Placed
<1>2. IInv /\ IInv' /\ Placed /\ [ChatNext]_chatVars => Placed'
  BY PlacedStep
<1>3. TypeOK /\ TypeOK' /\ PointsResumable /\ Placed /\ [Farthest]_vars => [InPlace]_chatVars
  <2> SUFFICES ASSUME TypeOK, TypeOK', PointsResumable, Placed, [Farthest]_vars,
                      NEW c \in Conversations, NEW asked \in Ceilings,
                      conv /= <<>>, Ask(c, asked), GoesOn(c, conv)
               PROVE  at' >= Len(ids) - Len(Opened)
    BY DEF GoesOn
  <2> DEFINE p == Render(Trims[c].msgs)
  <2>1. /\ Trims[c].verdict = "accepted" /\ Accept(p, asked)
        /\ phase = "idle" /\ phase' = "prefill"
    BY DEF Ask, Accept
  <2>2. p \in Prompts
    <3>1. Trimmed(c).verdict = "accepted" /\ p = Render(Trimmed(c).msgs)
      BY <2>1 DEF Trims
    <3> HIDE DEF p
    <3> QED BY <3>1, ChatAssumption
  <2>3. Farthest
    <3>1. vars' /= vars
      BY <2>1 DEF vars
    <3> QED BY <3>1
  <2> HIDE DEF p
  <2>4. AsFar(p)
    BY <2>1, <2>2, <2>3 DEF AsFar
  <2> HIDE DEF Farthest
  <2> QED BY <2>1, <2>4, TakenUp DEF p
<1>4. ChatSpec => []IInv
  BY ChatIsServer, Invariant, PTL
<1>5. ChatSpec => []TypeOK /\ []PointsResumable /\ [][Farthest]_vars
  BY ChatIsServer, TypeCorrect, CacheVouches, FarthestResumed, PTL DEF ResumesFarthest
<1> HIDE DEF InPlace, Farthest
<1>6. ChatSpec => [][InPlace]_chatVars
  BY <1>1, <1>2, <1>3, <1>4, <1>5, PTL DEF ChatSpec
<1> QED BY <1>6 DEF KeepsItsPlace, InPlace

=============================================================================
