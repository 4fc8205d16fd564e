------------------------------- MODULE Rounds -------------------------------
(***************************************************************************)
(* Runner with a history variable, the way the text was read, for what     *)
(* holds of the draft head of a text read in one prefill (mtp_warm and     *)
(* verify_drafts in lex-rt/src/qwen_run.rs); and prefill's chunks.         *)
(***************************************************************************)
EXTENDS Runner

VARIABLE fresh          \* was the text read in one prefill, from nothing?

roundsVars == <<vars, fresh>>

RoundsInit == Init /\ fresh = TRUE

RoundsNext ==
  /\ Next
  /\ fresh' = IF todo = <<>> /\ todo' /= <<>> THEN text = <<>> ELSE fresh

RoundsSpec == RoundsInit /\ [][RoundsNext]_roundsVars

----------------------------------------------------------------------------
(* Properties *)

(* A text read in one prefill leaves the head's cache in step, and every   *)
(* round keeps it so: one short of the model's, each entry the model's own *)
(* hidden state with the token that followed (prefill, mtp_warm,           *)
(* verify_drafts).                                                         *)
HeadStaysInStep == fresh => HeadInStep

(* How a prompt is cut into chunks does not show: read chunk by chunk, it  *)
(* leaves the runner -- every position, cache entry and hidden state -- as *)
(* one pass over the whole prompt would (prefill's loop, chunk).           *)
ChunksDoNotShow ==
  Ready => \A p \in Prompts :
    rt.pos + Len(p) <= Cap /\ rt.mtpPos + Len(p) <= Cap =>
      ReadAll(rt, p) = Prefilled(rt, p)
=============================================================================
