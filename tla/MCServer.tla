------------------------------ MODULE MCServer ------------------------------
(* A small instance of Chat for TLC. *)
EXTENDS Chat, TLC

CONSTANTS tokTurn, tokOpen, tokWord, tokStop, tokNote
                \* a turn opens, the reply's header, a word, a stop, a note

MCToken == {tokTurn, tokOpen, tokWord, tokStop, tokNote}
MCStop == {tokStop}
MCNote == <<tokNote>>
MCInstructions == <<>>

(* After the header a word or a stop; after one word either; then a word,  *)
(* so that a reply can run into its ceiling.                               *)
MCTarget(c) ==
  LET last == c[Len(c)]
  IN  IF last = tokOpen THEN {tokWord, tokStop}
      ELSE IF last = tokWord /\ c[Len(c) - 1] = tokOpen THEN {tokWord, tokStop}
      ELSE {tokWord}

Message(role, n) == [role |-> role, content |-> [i \in 1..n |-> tokWord]]
User(n) == Message("user", n)
Says(n) == Message("assistant", n)
Result(n) == Message("tool", n)

(* Conversations that fit: a question; it with another turn; both answered *)
(* and asked on; another conversation.  One leaves no more room than is    *)
(* kept for a reply.                                                       *)
Full == <<User(1), User(9)>>
Short == { <<User(1)>>,
           <<User(1), User(1)>>,
           <<User(1), Says(1), User(1)>>,
           <<User(1), User(1), User(1), User(1)>>,
           <<Says(0)>> }

(* One that is over the window by a token, grows within a step, and past   *)
(* it.                                                                     *)
Long == <<User(1), Says(0), User(1), Says(0), User(1)>>
Longer == Append(Long, Says(0))
Longest == Append(Longer, User(1))

(* A call with two results, dropped with them; a result larger than the    *)
(* window; a task that leaves no room; and one that is itself too long.    *)
Called == <<User(1), Says(1), Result(1), Result(1), Says(0), User(0)>>
Large == <<User(1), Says(1), Result(10)>>
Filling == <<Message("system", 2), User(5), Says(1)>>
TooLong == <<User(13)>>

Sent ==
  Short \union {Full, Long, Longer, Longest, Called, Large, Filling, TooLong}
Given ==
  { Render(Trimmed(c).msgs) : c \in { d \in Sent : Trimmed(d).verdict = "accepted" } }

(* TLC keeps the value of a definition, not that of a constant's.          *)
MCConversations == Sent
MCPrompts == Given

(* Who is asked after whom: any of the short ones in any order, a long one *)
(* as it grows, is asked again, or is left.                                *)
Question == <<User(1)>>
Follows ==
  ((Short \union {<<>>}) \X Short)
    \union ({<<>>, Question} \X {Full, Long, Called, Large, Filling, TooLong})
    \union {<<Long, Long>>, <<Long, Longer>>, <<Longer, Longest>>,
            <<Full, Question>>, <<Long, Filling>>, <<Long, Question>>, <<Large, Large>>,
            <<Called, Long>>}

(* The requests served: what one leaves behind shows in the next two.      *)
CONSTANT MaxRequests
VARIABLE served

MCInit == ChatInit /\ served = 0
MCNext ==
  /\ ChatNext
  /\ phase = "idle" /\ phase' = "prefill" => <<conv, conv'>> \in Follows
  /\ served' = IF phase = "idle" THEN served + 1 ELSE served
  /\ served' <= MaxRequests
MCSpec == MCInit /\ [][MCNext]_<<chatVars, served>>
=============================================================================
