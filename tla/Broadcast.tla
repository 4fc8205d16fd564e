------------------------------ MODULE Broadcast ------------------------------
(***************************************************************************)
(* What the pipes of a region promise, with no slots, threads, locks or    *)
(* waits: a pipe carries the messages 1, 2, 3 ... to each of its           *)
(* consumers, which take them in that order and look at those they have    *)
(* not given back; a message is sent only while fewer than the pipe's      *)
(* capacity are still wanted; and the region ends once, with every message *)
(* given back or with one of the causes it may report.  The interpreter    *)
(* (module Pipes) refines it.                                              *)
(***************************************************************************)
EXTENDS Naturals, FiniteSets

CONSTANTS Pipe,
          Consumers,    \* consumers of a pipe
          Capacity,     \* messages a pipe can hold
          Messages,     \* messages to be sent through it
          Cause,        \* what may be reported of a region that went wrong
          Success       \* what is reported of one that did not

VARIABLES sent,         \* messages sent through a pipe
          taken,        \* messages taken by each of its consumers
          view,         \* the messages a consumer sees now
          over,         \* has the region ended?
          verdict       \* and how?

Listener(p) == 1..Consumers[p]

Init ==
  /\ sent = [p \in Pipe |-> 0]
  /\ taken = [p \in Pipe |-> [k \in Listener(p) |-> 0]]
  /\ view = [p \in Pipe |-> [k \in Listener(p) |-> {}]]
  /\ over = FALSE /\ verdict = Success

(* The messages somebody has not taken yet or still looks at.              *)
Wanted(p) ==
  { m \in 1..sent[p] : \E k \in Listener(p) : m > taken[p][k] \/ m \in view[p][k] }

Send(p) ==
  /\ ~over /\ sent[p] < Messages[p]
  /\ Cardinality(Wanted(p)) < Capacity[p]
  /\ sent' = [sent EXCEPT ![p] = @ + 1]
  /\ UNCHANGED <<taken, view, over, verdict>>

Take(p, k) ==
  /\ ~over /\ taken[p][k] < sent[p]
  /\ taken' = [taken EXCEPT ![p][k] = @ + 1]
  /\ view' = [view EXCEPT ![p][k] = @ \union {taken[p][k] + 1}]
  /\ UNCHANGED <<sent, over, verdict>>

GiveBack(p, k, m) ==
  /\ ~over /\ m \in view[p][k]
  /\ view' = [view EXCEPT ![p][k] = @ \ {m}]
  /\ UNCHANGED <<sent, taken, over, verdict>>

Delivered ==
  \A p \in Pipe : \A k \in Listener(p) : taken[p][k] = Messages[p] /\ view[p][k] = {}

End ==
  /\ ~over /\ over' = TRUE
  /\ (verdict' = Success /\ Delivered) \/ verdict' \in Cause
  /\ UNCHANGED <<sent, taken, view>>

Next ==
  \/ End
  \/ \E p \in Pipe :
       \/ Send(p)
       \/ \E k \in Listener(p) : Take(p, k) \/ \E m \in view[p][k] : GiveBack(p, k, m)

Spec == Init /\ [][Next]_<<sent, taken, view, over, verdict>>
=============================================================================
