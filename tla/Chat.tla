-------------------------------- MODULE Chat --------------------------------
(***************************************************************************)
(* The chat server with the conversations its clients hold: what they send *)
(* is trimmed to the window (Trim) and answered from the prefix cache      *)
(* (Server), as chat() in lex-rt/examples/serve.rs does one after the      *)
(* other.  Whether the cache is of use depends on where the trim cuts.     *)
(***************************************************************************)
EXTENDS Server, Trim

CONSTANT Conversations  \* what clients send: each grown from another, or new

ASSUME ChatAssumption ==
  /\ ImStart = Turn /\ ImEnd \in Stop /\ Think \in Token
  /\ Instructions \in Seq(Token) /\ Note \in Seq(Token)
  /\ Conversations \subseteq Seq([role : Roles, content : Seq(Token)]) \ {<<>>}
  /\ Budget = MaxSeq - Min2(MaxSeq \div 4, 1024)
  /\ Prompts = { Render(Trimmed(c).msgs) :
                   c \in { d \in Conversations : Trimmed(d).verdict = "accepted" } }

(* The answer to each.                                                     *)
Trims == [c \in Conversations |-> Trimmed(c)]

VARIABLES conv,         \* the conversation last answered, <<>> before
          verdict       \* what became of the last one sent

chatVars == <<vars, conv, verdict>>

ChatInit == Init /\ conv = <<>> /\ verdict = "none"

(* A conversation is sent and its prompt goes on to the cache ...          *)
Ask(c, asked) ==
  /\ Trims[c].verdict = "accepted" /\ verdict /= "panicked"
  /\ Accept(Render(Trims[c].msgs), asked)
  /\ conv' = c /\ verdict' = "accepted"

(* ... or it is refused, with nothing touched, or takes the server down.   *)
Refuse(c) ==
  /\ phase = "idle" /\ verdict /= "panicked"
  /\ Trims[c].verdict /= "accepted"
  /\ verdict' = Trims[c].verdict
  /\ UNCHANGED <<vars, conv>>

ChatNext ==
  \/ \E c \in Conversations, asked \in Ceilings : Ask(c, asked)
  \/ \E c \in Conversations : Refuse(c)
  \/ (Work \/ HangUp) /\ UNCHANGED <<conv, verdict>>

ChatSpec == ChatInit /\ [][ChatNext]_chatVars

----------------------------------------------------------------------------
(* Properties *)

(* The messages an agent cannot do without: the system message, and the    *)
(* user's first if nothing but that is before it.                          *)
Task(c) ==
  (IF c[1].role = "system" THEN <<c[1]>> ELSE <<>>)
    \o (LET n == IF c[1].role = "system" THEN 2 ELSE 1
        IN  IF n <= Len(c) /\ c[n].role = "user" THEN <<c[n]>> ELSE <<>>)

(* The conversation from its s-th message on, behind the task.             *)
From(c, s) == Task(c) \o SubSeq(c, s, Len(c))
Turns(c) == { s \in (Len(Task(c)) + 1)..Len(c) : c[s].role /= "tool" }

(* n is m, or m without its middle.                                        *)
Form(n, m) ==
  \/ n = m
  \/ /\ n.role = m.role /\ Len(n.content) < Len(m.content)
     /\ \E h \in 0..Len(m.content), t \in 1..(Len(m.content) + 1) :
          n.content = SubSeq(m.content, 1, h) \o Note
                        \o SubSeq(m.content, t, Len(m.content))

(* What an agent needs to go on is in the prompt, however much was dropped *)
(* and cut: the system message and the task as they were sent, then the    *)
(* conversation's end from the start of a turn, so that no result is       *)
(* without its call and the turn being answered is there, with nothing     *)
(* lost but the middle of a message.  A conversation that fits is left     *)
(* alone (trim, pinned, turns, elide).                                     *)
SendsWhatMatters ==
  phase = "prefill" =>
    LET sent == Trims[conv].msgs
    IN  /\ ids = Render(sent) /\ Len(ids) <= Budget
        /\ \/ sent = conv
           \/ /\ Size(conv) > Budget
              /\ \E s \in Turns(conv) :
                   LET kept == From(conv, s)
                   IN  /\ Len(sent) = Len(kept)
                       /\ \A i \in 1..Len(sent) :
                            IF i <= Len(Task(conv)) THEN sent[i] = kept[i]
                            ELSE Form(sent[i], kept[i])

(* Steps by which a conversation overflows, and whether cutting at a turn  *)
(* makes up for them.                                                      *)
Steps(c) ==
  IF Size(c) <= Budget THEN 0 ELSE (Size(c) - Budget + Step - 1) \div Step
CutSuffices(c) ==
  Steps(c) > 0 => \E s \in Turns(c) : Size(c) - Size(From(c, s)) >= Steps(c) * Step

(* A conversation that goes on keeps its place in the cache: asked again,  *)
(* or with the reply and more behind it, it is read from where its own     *)
(* last turn ended, until it has overflown by another step -- though each  *)
(* time other messages might be the fewest to drop ("so the cut only moves *)
(* when the overflow crosses the next multiple of `step`", trim).          *)
KeepsItsPlace ==
  [][\A c \in Conversations, asked \in Ceilings :
       /\ conv /= <<>> /\ Ask(c, asked)
       /\ Len(c) >= Len(conv) /\ SubSeq(c, 1, Len(conv)) = conv
       /\ c /= conv => c[Len(conv) + 1].role = "assistant"
       /\ Steps(c) = Steps(conv) /\ CutSuffices(conv)
       => at' >= Len(ids) - Len(Opened)]_chatVars

(* Nothing is refused that could be answered: with the task and the turn   *)
(* being answered alone, and no message of it longer than what is left as  *)
(* it is, the prompt would still be too long; and the server goes down     *)
(* only where there is no turn to drop (trim's last loop, starts[lo]).     *)
Clipped(m) ==
  [m EXCEPT !.content = SubSeq(@, 1, Min2(Len(@), ElideOver))]

RefusesOnlyTheHopeless ==
  [][\A c \in Conversations :
       Refuse(c) /\ ~Malformed(c) =>
         /\ Size(c) > Budget
         /\ verdict' = "panicked" => Turns(c) = {}
         /\ \A s \in Turns(c) :
              Size(Task(c) \o [i \in 1..(Len(c) - s + 1) |->
                                 Clipped(c[s + i - 1])]) > Budget]_chatVars
=============================================================================
