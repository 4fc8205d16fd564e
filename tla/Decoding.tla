------------------------------ MODULE Decoding ------------------------------
(***************************************************************************)
(* What decoding promises, with no speculation, no caches and no rollback: *)
(* given a text, the reply is drawn one token at a time, every token from  *)
(* what the model allows after the text and the reply so far.  The runner  *)
(* (module Runner) says several tokens in one pass and undoes some of what *)
(* it fed; it refines this.                                                *)
(***************************************************************************)
EXTENDS Naturals, Sequences

CONSTANTS Token,        \* the vocabulary
          Target(_)     \* the tokens the sampler can draw after a text

VARIABLES prompt,       \* the text the client handed over
          reply         \* the tokens drawn since, the one not yet fed last

(***************************************************************************)
(* A reply is drawn from the model: each token is one the sampler could    *)
(* have drawn after the prompt and the reply before it.                    *)
(***************************************************************************)
FromModel(p, r) ==
  \A i \in 1..Len(r) : r[i] \in Target(p \o SubSeq(r, 1, i - 1))

Init == prompt = <<>> /\ reply = <<>>

(* The client hands over another text: it grows, starts over, or goes back *)
(* to an earlier point.  The first reply token may be drawn at once.       *)
Ask == /\ prompt' \in Seq(Token)
       /\ Len(reply') <= 1
       /\ FromModel(prompt', reply')

(* The reply grows: what was said stands, and what is added is drawn.      *)
Say == /\ reply /= <<>>
       /\ prompt' = prompt
       /\ Len(reply') > Len(reply)
       /\ SubSeq(reply', 1, Len(reply)) = reply
       /\ FromModel(prompt', reply')

Next == Ask \/ Say

Spec == Init /\ [][Next]_<<prompt, reply>>
=============================================================================
