------------------------------ MODULE MCRunner ------------------------------
(* Small instances of Runner for TLC. *)
EXTENDS Runner, TLC

CONSTANTS tokA, tokB          \* two tokens
MCToken == {tokA, tokB}

(* After two tokens the sampler can draw either; otherwise only the text's *)
(* first, so that drafts are both right and wrong.                         *)
MCTarget(c) == IF Len(c) = 2 THEN MCToken ELSE {c[1]}

MCPrompts == {<<tokA>>, <<tokB, tokA, tokB>>}
MCProposals == {<<tokA, tokB>>}
MCOnePrompt == {<<tokB, tokA>>}
(* How often the client leaves a text or goes back in it: a caller may do  *)
(* so for ever, and what is left in the caches from one text to the next   *)
(* shows after once or twice.                                              *)
CONSTANT MaxBacks
VARIABLE backs

CountsBacks ==
  /\ backs' = IF Len(text') < Len(text) THEN backs + 1 ELSE backs
  /\ backs' <= MaxBacks

MCInit == Init /\ backs = 0
MCNext == Next /\ CountsBacks
MCSpec == MCInit /\ [][MCNext]_<<vars, backs>>
=============================================================================
