------------------------------- MODULE Server -------------------------------
(***************************************************************************)
(* The chat server of lex-rt/examples/serve.rs over one Runner: a prefix   *)
(* cache of checkpoints at turn boundaries, prefill that stops at each of  *)
(* them, and the decode loop with drafts from the context or the head.     *)
(* One thread answers one request at a time; a client may hang up while    *)
(* its reply streams.                                                      *)
(***************************************************************************)
EXTENDS RunnerState, Lookup

CONSTANTS Turn,         \* the token <|im_start|>
          Stop,         \* the tokens that end a turn
          Keep,         \* checkpoints kept
          MaxSeq,       \* the context window
          Depths,       \* the depths Depth::pick gives: 0 alone, or none
          LookupMax, LookupMin, \* suffix lengths looked up
          Prompts,      \* the rendered, tokenised prompts clients send
          Ceilings      \* the max_tokens they ask for

ASSUME ServerAssumption ==
  /\ Turn \in Token /\ Stop \subseteq Token
  /\ Keep \in Nat \ {0, 1}
  /\ MaxSeq \in 1..Cap
  /\ IF HasMtp THEN Depths = {0} \/ Depths \subseteq 1..MaxDepth
     ELSE Depths = {0}
  /\ LookupMax \in Nat /\ LookupMin \in Nat
  /\ Ceilings \subseteq Nat
  \* render_within leaves room for a reply, and a rendered prompt ends in
  \* an open turn: none is another one cut at a turn boundary.
  /\ \A p \in Prompts :
       /\ p \in Seq(Token) /\ Len(p) \in 1..(MaxSeq - 1)
       /\ p[1] = Turn
       /\ \A q \in Prompts : \A n \in 1..(Len(q) - 1) :
            q[n + 1] = Turn => p /= SubSeq(q, 1, n)

VARIABLES rt,           \* the runner
          tokens,       \* Cache.tokens: the prompt it was last driven with
          points,       \* Cache.points: checkpoints inside it
          phase,        \* "idle", "prefill" or "decode"
          ids,          \* the request's prompt
          at,           \* how much of it has been read
          want,         \* the ceiling on the reply
          out,          \* the reply so far
          next,         \* <<the token to feed next>>, or <<>>
          outcome       \* how the last request ended

request == <<ids, at, want>>
vars == <<rt, tokens, points, phase, ids, at, want, out, next, outcome>>

TypeOK ==
  /\ rt \in RunnerType
  /\ tokens \in Seq(Token) /\ ids \in Seq(Token) /\ out \in Seq(Token)
  /\ points \in Seq(CheckpointType) /\ Len(points) <= Keep
  /\ phase \in {"idle", "prefill", "decode"}
  /\ at \in 0..Len(ids) /\ want \in 0..MaxSeq
  /\ next \in Seq(Token) /\ Len(next) <= 1
  /\ outcome \in {"none", "stop", "length", "error", "hangup"}

Init ==
  /\ rt = Loaded
  /\ tokens = <<>> /\ points = <<>>
  /\ phase = "idle" /\ ids = <<>> /\ at = 0 /\ want = 0
  /\ out = <<>> /\ next = <<>> /\ outcome = "none"

----------------------------------------------------------------------------
(* The prefix cache. *)

(* How many leading tokens of p the runner has already read.               *)
Shared(p) ==
  Largest({ n \in 0..Len(p) :
              n <= Len(tokens) /\ SubSeq(p, 1, n) = SubSeq(tokens, 1, n) })

(* The last point in the shared prefix, 0 for none.                        *)
ResumableUnshared(p) ==                                       \* a mutant
  Largest({0} \union { i \in 1..Len(points) : points[i].pos <= Len(p) })

ResumableFirst(p) ==                                          \* a mutant
  IF points /= <<>> /\ points[1].pos <= Shared(p) THEN 1 ELSE 0

Resumable(p) ==
  Largest({0} \union { i \in 1..Len(points) : points[i].pos <= Shared(p) })

(* evict_index: the interior point whose removal widens the smallest gap,  *)
(* the first of them; never the newest or the oldest.                      *)
Gap(s, i) == s[i + 1].pos - s[i - 1].pos
EvictIndex(s) ==
  CHOOSE i \in 2..(Len(s) - 1) :
    \A j \in 2..(Len(s) - 1) :
      Gap(s, i) <= Gap(s, j) /\ (Gap(s, i) = Gap(s, j) => i <= j)

Remove(s, i) == SubSeq(s, 1, i - 1) \o SubSeq(s, i + 1, Len(s))

(* Cache::push                                                             *)
PushedUnbounded(s, c) == Append(s, c)                         \* a mutant
PushedOldestOut(s, c) ==                                      \* a mutant
  LET all == Append(s, c) IN IF Len(all) <= Keep THEN all ELSE Tail(all)

Pushed(s, c) ==
  LET all == Append(s, c)
  IN  IF Len(all) <= Keep THEN all
      ELSE Remove(all, IF Len(all) > 2 THEN EvictIndex(all) ELSE 1)

----------------------------------------------------------------------------
(* points.truncate: those past the one resumed are of another text.        *)
UntruncatedTo(i) == points                                    \* a mutant
TruncatedTo(i) == SubSeq(points, 1, i)

(* A request: its prompt resumes as far in as the runner has read it --    *)
(* never at its very end, whose logits are needed -- or starts over.       *)
Accept(p, asked) ==
  /\ phase = "idle"
  /\ phase' = "prefill"
  /\ ids' = p /\ want' = Min2(asked, MaxSeq - Len(p))
  /\ out' = <<>> /\ next' = <<>> /\ outcome' = "none"
  /\ LET i == Resumable(p)
     IN  IF i > 0 /\ points[i].pos \in 1..(Len(p) - 1)
         THEN /\ rt' = Resumed(rt, points[i])
              /\ points' = TruncatedTo(i)
              /\ at' = points[i].pos
              /\ UNCHANGED tokens
         ELSE /\ rt' = Cleared(rt)
              /\ points' = <<>> /\ tokens' = <<>> /\ at' = 0

(* The turns the prompt still has to open after what has been read.        *)
BoundsFromHere == { b \in at..(Len(ids) - 1) : ids[b + 1] = Turn }  \* a mutant
Bounds == { b \in (at + 1)..(Len(ids) - 1) : ids[b + 1] = Turn }

(* prefill_cached, up to the next turn boundary: a point is kept there.    *)
PrefillTurn ==
  /\ phase = "prefill" /\ Bounds /= {}
  /\ at' = CHOOSE b \in Bounds : \A c \in Bounds : b <= c
  /\ rt' = Prefilled(rt, SubSeq(ids, at + 1, at'))
  /\ points' = Pushed(points, Checkpoint(rt'))
  /\ UNCHANGED <<tokens, phase, ids, want, out, next, outcome>>

(* ... and the rest of it, whose logits give the first token.              *)
PrefillRest ==
  /\ phase = "prefill" /\ Bounds = {}
  /\ LET rest == SubSeq(ids, at + 1, Len(ids))
     IN  /\ rt' = Prefilled(rt, rest)
         /\ \E n \in Drawn(Row(rt, rest, Len(rest))) : next' = <<n>>
  /\ at' = Len(ids)
  /\ tokens' = ids
  /\ phase' = "decode"
  /\ UNCHANGED <<points, ids, want, out, outcome>>

----------------------------------------------------------------------------
(* generate *)

End(how) == phase' = "idle" /\ outcome' = how

More == Len(out) < want /\ next[1] \notin Stop

(* What the context proposes for the next round.                           *)
Proposed == LookupDrafts(ids \o out \o next, LookupMax, LookupMin, MaxDepth)

(* The results a round can have: one step where speculation is off, else   *)
(* the context's drafts when there are any and the head's otherwise.       *)
RoundResults ==
  IF Depths = {0} THEN StepResults(rt, next[1])
  ELSE IF Proposed /= <<>> THEN ProposedResults(rt, next[1], Proposed)
  ELSE UNION { SpeculateResults(rt, next[1], d) : d \in Depths }

(* Tokens up to the first that stops.                                      *)
ThroughStop(s) ==                                             \* a mutant
  LET stops == { i \in 1..Len(s) : s[i] \in Stop }
  IN  IF stops = {} THEN s
      ELSE SubSeq(s, 1, CHOOSE i \in stops : \A j \in stops : i <= j)

UpToStop(s) ==
  LET stops == { i \in 1..Len(s) : s[i] \in Stop }
  IN  IF stops = {} THEN s
      ELSE SubSeq(s, 1, (CHOOSE i \in stops : \A j \in stops : i <= j) - 1)

(* One pass of the loop, and its end on an Err or at a stop token.         *)
Round ==
  /\ phase = "decode" /\ More
  /\ \E o \in RoundResults :
       /\ rt' = o.rt /\ next' = o.next
       /\ out' = out \o UpToStop(o.said)
       /\ IF ~o.ok THEN End("error")
          ELSE IF UpToStop(o.said) /= o.said THEN End("stop")
          ELSE UNCHANGED <<phase, outcome>>
  /\ UNCHANGED <<tokens, points, request>>

(* The loop ends: the ceiling first, then the stop tokens.                 *)
Finish ==
  /\ phase = "decode" /\ ~More
  /\ End(IF Len(out) < want THEN "stop" ELSE "length")
  /\ UNCHANGED <<rt, tokens, points, request, out, next>>

(* The client is gone: writing the head of a stream, or what a round said, *)
(* fails, and the request with it.                                         *)
HangUp ==
  /\ phase = "decode"
  /\ End("hangup")
  /\ UNCHANGED <<rt, tokens, points, request, out, next>>

(* The server's own work on a request.                                     *)
Work == PrefillTurn \/ PrefillRest \/ Round \/ Finish

Next ==
  \/ \E p \in Prompts, asked \in Ceilings : Accept(p, asked)
  \/ Work \/ HangUp

Spec == Init /\ [][Next]_vars
----------------------------------------------------------------------------
(* Properties *)

(* A request is answered on the history it sent: whatever was resumed,     *)
(* re-read or left behind by an earlier request, its errors or its client  *)
(* hanging up, the runner holds the request's own prompt and reply and     *)
(* nothing else (chat, prefill_cached, generate).                          *)
AnswersItsHistory ==
  phase /= "idle" => Sound(rt) /\ rt.delta = SubSeq(ids, 1, at) \o out

(* Every token of the reply is one the model could have said after the     *)
(* prompt and the reply before it, and none of them ends the turn.         *)
ReplyFromModel ==
  LET reply == IF phase = "decode" THEN out \o next ELSE out
  IN  /\ \A i \in 1..Len(reply) :
           reply[i] \in Target(ids \o SubSeq(reply, 1, i - 1))
      /\ \A i \in 1..Len(out) : out[i] \notin Stop

(* resume() reads the KV cache in place and takes the caller's word for    *)
(* the prefix.  What the cache vouches for is there: between requests,     *)
(* tokens are what was last read, every point inside them holds the state  *)
(* after its own prefix, and the KV entries below it still are of that     *)
(* text, however far replies and other prompts wrote past it.              *)
PointsResumable ==
  /\ phase /= "prefill" /\ points /= <<>> => tokens = ids
  /\ \A i \in 1..Len(points) :
       LET c == points[i]
       IN  /\ c.pos \in 1..at
           /\ c.delta = SubSeq(ids, 1, c.pos)
           /\ \A j \in 1..c.pos : rt.kv[j] = SubSeq(ids, 1, j)
           /\ i > 1 => points[i - 1].pos < c.pos

(* A prompt resumes as far in as a point allows: no token before a usable  *)
(* point is read again (chat's rposition, Cache::shared).                  *)
ResumesFarthest ==
  [][\A p \in Prompts, asked \in Ceilings :
       Accept(p, asked) =>
         \A i \in 1..Len(points) :
           points[i].pos <= Len(p) /\ points[i].delta = SubSeq(p, 1, points[i].pos)
             => at' >= points[i].pos]_vars

(* The pool keeps its ends: the oldest point, the only fallback of a       *)
(* prompt that diverges early, until the server starts over, and the one   *)
(* just taken, which the next turn most likely wants (evict_index, push).  *)
PoolKeepsEnds ==
  [][/\ points /= <<>> /\ points' /= <<>> => points'[1] = points[1]
     /\ PrefillTurn => points'[Len(points')].pos = at']_vars

(* No step of the server's spins: each reads more of the prompt, says more *)
(* or ends the request, whatever is drafted and rejected.  Both what is    *)
(* read and what is said are bounded, so the next client is never kept     *)
(* waiting for ever (prefill_cached's bounds, generate's loop).            *)
EveryStepAdvances ==
  [][Work => \/ phase' = "idle"
             \/ phase = "prefill" /\ at' > at
             \/ phase = "decode" /\ Len(out') > Len(out)]_vars

(* max_tokens is a ceiling on the reply.                                   *)
ReplyWithinCeiling == Len(out) <= want

(* The head's cache ends one short of the model's: the pair for the next   *)
(* token is written by the next draft (verify_drafts, prefill).            *)
HeadOneShort == phase = "decode" => rt.mtpPos + 1 = rt.pos

(* Asking for the whole window means as much as fits: a reply that fills   *)
(* it ends with "length", like one that reaches any other ceiling.         *)
FillsTheWindow == outcome /= "error"
=============================================================================
