------------------------------- MODULE Lookup -------------------------------
(* Drafting from the context: lookup in lex-rt/src/spec.rs.                *)
EXTENDS Naturals, Sequences

(* The offsets, earlier than the suffix itself, where the last n tokens of *)
(* the context occur.                                                      *)
Occurrences(context, n) ==
  { s \in 0..(Len(context) - n - 1) :
      SubSeq(context, s + 1, s + n) =
        SubSeq(context, Len(context) - n + 1, Len(context)) }

(* The lengths from nMin to nMax of suffixes that occur earlier.           *)
Matched(context, nMax, nMin) ==
  { n \in nMin..nMax :
      n >= 1 /\ n < Len(context) /\ Occurrences(context, n) /= {} }

Largest(S) == CHOOSE x \in S : \A y \in S : y <= x

(* At most k of the tokens that followed the most recent earlier           *)
(* occurrence of the longest suffix that has one.                          *)
LookupDrafts(context, nMax, nMin, k) ==
  LET matched == Matched(context, nMax, nMin)
      n    == Largest(matched)
      from == Largest(Occurrences(context, n)) + n
      end  == IF from + k <= Len(context) THEN from + k ELSE Len(context)
  IN  IF matched = {} THEN <<>> ELSE SubSeq(context, from + 1, end)
=============================================================================
