-------------------------------- MODULE Trim --------------------------------
(***************************************************************************)
(* A conversation as a prompt within a budget: render_within in            *)
(* lex-rt/src/chat.rs.  The oldest turns are dropped, whole and in steps;  *)
(* where that is not enough the largest message loses its middle.          *)
(*                                                                         *)
(* A message is its role and its content, a sequence of tokens: the code   *)
(* measures a prompt in tokens and a message in bytes, which are the same  *)
(* here.  A conversation is a non-empty sequence of messages.              *)
(***************************************************************************)
EXTENDS Naturals, Sequences
Ext == INSTANCE SequencesExt

CONSTANTS ImStart, ImEnd,  \* the tokens <|im_start|> and <|im_end|>
          Think,           \* opens what the assistant says
          Instructions,    \* the template's own words to the model
          Note,            \* "... characters elided ..."
          ElideOver,       \* 256: a message no longer is left as it is
          Budget           \* the tokens a prompt may have

(* A note takes no more than half of what it is put into, so that eliding  *)
(* shortens; step is positive by itself.                                   *)
ASSUME TrimAssumption ==
  /\ ElideOver \in Nat /\ Len(Note) + Len(Note) <= ElideOver
  /\ Budget \in Nat \ {0}

Roles == {"system", "user", "assistant", "tool"}

----------------------------------------------------------------------------
(* render_qwen *)

(* The block of the instructions and a leading system message.             *)
Lead(msgs) ==
  LET said == Instructions \o
                (IF msgs[1].role = "system" THEN msgs[1].content ELSE <<>>)
  IN  IF said = <<>> THEN <<>> ELSE <<ImStart>> \o said \o <<ImEnd>>

IsTool(msgs, i) == i \in 1..Len(msgs) /\ msgs[i].role = "tool"

(* A message's text; results of tools that follow each other share a turn, *)
(* and one at the very beginning has no turn to be in.                     *)
Block(msgs, i) ==
  LET m == msgs[i]
  IN  CASE m.role = "system"    -> <<>>
        [] m.role = "user"      -> <<ImStart>> \o m.content \o <<ImEnd>>
        [] m.role = "assistant" -> <<ImStart, Think>> \o m.content \o <<ImEnd>>
        [] m.role = "tool"      ->
             (IF i > 1 /\ ~IsTool(msgs, i - 1) THEN <<ImStart>> ELSE <<>>)
               \o m.content
               \o (IF IsTool(msgs, i + 1) THEN <<>> ELSE <<ImEnd>>)

(* The reply's turn is left open.                                          *)
Opened == <<ImStart, Think>>

Render(msgs) ==
  Lead(msgs) \o Ext!FlattenSeq([i \in 1..Len(msgs) |-> Block(msgs, i)]) \o Opened

Size(msgs) == Len(Render(msgs))

(* The template's own refusal.                                             *)
Malformed(msgs) == \E i \in 2..Len(msgs) : msgs[i].role = "system"

----------------------------------------------------------------------------
(* What may be dropped. *)

(* How many messages at the front are never dropped: a system message, and *)
(* the first user message behind it, which is the task.                    *)
PinnedSystem(msgs) == IF msgs[1].role = "system" THEN 1 ELSE 0       \* a mutant
Pinned(msgs) ==
  LET s == IF msgs[1].role = "system" THEN 1 ELSE 0
  IN  IF s < Len(msgs) /\ msgs[s + 1].role = "user" THEN s + 1 ELSE s

(* Where the turns start that may be dropped: results of tools stay with   *)
(* the call they answer.                                                   *)
Starts(msgs) ==
  LET seen[i \in 0..Len(msgs)] ==
        IF i <= Pinned(msgs) THEN <<>>
        ELSE IF msgs[i].role = "tool" THEN seen[i - 1] ELSE Append(seen[i - 1], i)
  IN  seen[Len(msgs)]

(* keep_from: what is pinned, and the turns from the d-th on.              *)
KeptFrom(msgs, d) ==
  SubSeq(msgs, 1, Pinned(msgs)) \o SubSeq(msgs, Starts(msgs)[d], Len(msgs))

(* How much has to go: the overflow, up to a multiple of step.             *)
Step == IF Budget \div 4 > 1 THEN Budget \div 4 ELSE 1
NeedFewest(msgs) == Size(msgs) - Budget                              \* a mutant
Need(msgs) == ((Size(msgs) - Budget + Step - 1) \div Step) * Step

Removes(msgs, d) == Size(msgs) - Size(KeptFrom(msgs, d))

(* The first turn whose cut removes what is needed is looked for between   *)
(* two turns, and one look halves what is between them.                    *)
Halved(msgs, s) ==
  LET mid == s.lo + (s.hi - s.lo) \div 2
  IN  IF s.lo = s.hi THEN s
      ELSE IF Removes(msgs, mid) >= Need(msgs) THEN [s EXCEPT !.hi = mid]
      ELSE [s EXCEPT !.lo = mid + 1]

(* It is the last where none does.                                         *)
Cut(msgs) ==
  LET n == Len(Starts(msgs))
      search[k \in Nat] ==
        IF k = 0 THEN [lo |-> 1, hi |-> n] ELSE Halved(msgs, search[k - 1])
  IN  search[n].lo

----------------------------------------------------------------------------
(* Where dropping is not enough. *)

(* elide: a third and a sixth of it stay, its head and its tail.           *)
Elided(m) ==
  LET half == Len(m.content) \div 2
      head == (half * 2) \div 3
      tail == half \div 3
  IN  [m EXCEPT !.content =
         SubSeq(@, 1, head) \o Note \o SubSeq(@, Len(@) - tail + 1, Len(@))]

(* The longest message that is not pinned, the last of them.               *)
Biggest(msgs, pinned) ==
  CHOOSE i \in (pinned + 1)..Len(msgs) :
    \A j \in (pinned + 1)..Len(msgs) :
      /\ Len(msgs[j].content) <= Len(msgs[i].content)
      /\ Len(msgs[j].content) = Len(msgs[i].content) => j <= i

Answer(how, msgs) == [verdict |-> how, msgs |-> msgs]

(* A pass of the loop over what is kept.                                   *)
Pass(msgs, pinned) ==
  LET i == Biggest(msgs, pinned)
  IN  IF Size(msgs) > Budget /\ Len(msgs[i].content) > ElideOver
      THEN [msgs EXCEPT ![i] = Elided(@)]
      ELSE msgs

(* The passes, until it fits or nothing in it is long enough to elide;     *)
(* each before that shortens it.                                           *)
NeverElided(kept, pinned) == kept                                    \* a mutant
Shortened(kept, pinned) ==
  LET pass[k \in Nat] == IF k = 0 THEN kept ELSE Pass(pass[k - 1], pinned)
  IN  pass[Size(kept)]

(* trim.  Without a turn to cut at, starts[lo] is out of bounds.           *)
Trimmed(msgs) ==
  LET short == Shortened(KeptFrom(msgs, Cut(msgs)), Pinned(msgs))
  IN  IF Malformed(msgs) THEN Answer("refused", <<>>)
      ELSE IF Size(msgs) <= Budget THEN Answer("accepted", msgs)
      ELSE IF Starts(msgs) = <<>> THEN Answer("panicked", <<>>)
      ELSE IF Size(short) <= Budget THEN Answer("accepted", short)
      ELSE Answer("refused", <<>>)
=============================================================================
