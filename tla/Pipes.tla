-------------------------------- MODULE Pipes --------------------------------
(***************************************************************************)
(* A warp-specialised region as the reference interpreter runs it          *)
(* (lex-front/src/interp.rs): every role on a thread of its own, pipes as  *)
(* rings of slots under one lock and one condition variable, a shared      *)
(* abort flag, waits that give up at a deadline, and the join.             *)
(*                                                                         *)
(* The roles' programs are any the checker accepts (lex-front/src/         *)
(* check.rs): a role picks its next operation on the pipes it has ends of, *)
(* as the rules on tokens and counts allow, and every sequence of picks is *)
(* a straight-line program.                                                *)
(***************************************************************************)
EXTENDS Naturals, Sequences, FiniteSets

CONSTANTS Pipe, Role,
          Stages,       \* slots of a pipe
          Consumers,    \* consumer handles of a pipe
          Producer,     \* the role a pipe's producer handle is moved into
          Consumer,     \* the role its k-th consumer handle is moved into
          Transfers,    \* slots a program sends through a pipe
          MayFail,      \* roles whose own work can end in an error
          Patient,      \* is the deadline longer than any work of a role?
          Disciplined   \* one slot at a time, oldest share first

Ends(p) == 1..Consumers[p]
Slot(p) == 0..(Stages[p] - 1)

ASSUME PipeAssumption ==
  /\ Stages \in [Pipe -> Nat \ {0}] /\ Consumers \in [Pipe -> Nat]
  /\ Producer \in [Pipe -> Role]
  /\ \A p \in Pipe : Consumer[p] \in [Ends(p) -> Role]
  /\ Transfers \in [Pipe -> Nat]
  /\ MayFail \subseteq Role /\ Patient \in BOOLEAN /\ Disciplined \in BOOLEAN

VARIABLES ring,         \* SyncState.rings
          slots,        \* the slots each producer holds
          shares,       \* the shares each consumer holds
          doing,        \* the wait a role is in, or Idle
          asleep,       \* roles waiting on the condition variable
          status,       \* how a role stands
          posted,       \* roles that have handed in their error
          abort,        \* SyncState.abort: whose error, or Nobody's
          joined,       \* has the region joined its roles?
          outcome       \* and whose error does it report?

tokens == <<ring, slots, shares>>
region == <<joined, outcome>>
vars == <<tokens, doing, asleep, status, posted, abort, region>>

Idle == <<>>
Nobody == <<>>
Errors == {"failed", "deadlock", "aborted"}
Reasons == {Nobody} \union (Role \X Errors)

(* What an end can wait for.                                               *)
Acquires(p) == <<"acquire", p, 0>>
Receives(p, k) == <<"receive", p, k>>
Waits == { Acquires(p) : p \in Pipe }
           \union UNION { { Receives(p, k) : k \in Ends(p) } : p \in Pipe }
Owner(w) == IF w[1] = "acquire" THEN Producer[w[2]] ELSE Consumer[w[2]][w[3]]

(* A share remembers its slot and the slot's generation when it was        *)
(* received; nth, which the code does not keep, is the receive's number.   *)
ShareType(p) == [slot : Slot(p), generation : Nat, nth : Nat]

RingType(p) ==
  [data : [Slot(p) -> Nat], generation : [Slot(p) -> Nat],
   released : [Slot(p) -> 0..Consumers[p]], acquired : 0..Transfers[p],
   log : Seq(Slot(p)), received : [Ends(p) -> 0..Transfers[p]]]

TypeOK ==
  /\ DOMAIN ring = Pipe /\ \A p \in Pipe : ring[p] \in RingType(p)
  /\ DOMAIN slots = Pipe /\ \A p \in Pipe : slots[p] \subseteq Slot(p)
  /\ DOMAIN shares = Pipe
  /\ \A p \in Pipe :
       /\ DOMAIN shares[p] = Ends(p)
       /\ \A k \in Ends(p) : \A s \in shares[p][k] : s \in ShareType(p)
  /\ doing \in [Role -> {Idle} \union Waits]
  /\ asleep \subseteq Role /\ posted \subseteq Role
  /\ status \in [Role -> {"running", "done"} \union Errors]
  /\ abort \in Reasons /\ joined \in BOOLEAN /\ outcome \in Reasons

(* data[s] is which commit filled slot s, 0 for none; a slot starts out    *)
(* with every release it needs.                                            *)
Init ==
  /\ ring = [p \in Pipe |->
       [data |-> [s \in Slot(p) |-> 0], generation |-> [s \in Slot(p) |-> 0],
        released |-> [s \in Slot(p) |-> Consumers[p]], acquired |-> 0,
        log |-> <<>>, received |-> [k \in Ends(p) |-> 0]]]
  /\ slots = [p \in Pipe |-> {}]
  /\ shares = [p \in Pipe |-> [k \in Ends(p) |-> {}]]
  /\ doing = [r \in Role |-> Idle] /\ asleep = {}
  /\ status = [r \in Role |-> "running"] /\ posted = {}
  /\ abort = Nobody /\ joined = FALSE /\ outcome = Nobody

----------------------------------------------------------------------------
(* What the checker lets a role do next. *)

(* may_wait: never while holding as many tokens of the pipe as it has      *)
(* stages.                                                                 *)
MayWaitOnAll(w) ==                                            \* a mutant
  LET p == w[2]
      n == Cardinality(IF w[1] = "acquire" THEN slots[p] ELSE shares[p][w[3]])
  IN  /\ n <= Stages[p]
      /\ Disciplined /\ w[1] = "acquire" => n = 0

MayWait(w) ==
  LET p == w[2]
      n == Cardinality(IF w[1] = "acquire" THEN slots[p] ELSE shares[p][w[3]])
  IN  /\ n < Stages[p]
      /\ Disciplined /\ w[1] = "acquire" => n = 0

(* The counts: every end takes part in each of the pipe's transfers.       *)
Left(w) ==
  Transfers[w[2]] - (IF w[1] = "acquire" THEN ring[w[2]].acquired
                     ELSE ring[w[2]].received[w[3]])

(* The wait a role is in or may enter next.                                *)
NextWaits(r) ==
  IF doing[r] /= Idle THEN {doing[r]}
  ELSE { w \in Waits : Owner(w) = r /\ Left(w) > 0 /\ MayWait(w) }

----------------------------------------------------------------------------
(* wait_until, whose every check is made under the lock. *)

Runs(r) == status[r] = "running" /\ r \notin asleep
Free(r) == Runs(r) /\ doing[r] = Idle

ReadyOnOne(w) ==                                              \* a mutant
  LET rg == ring[w[2]]
  IN  IF w[1] = "acquire"
      THEN rg.released[rg.acquired % Stages[w[2]]] > 0
      ELSE Len(rg.log) > rg.received[w[3]]

Ready(w) ==
  LET rg == ring[w[2]]
  IN  IF w[1] = "acquire"
      THEN rg.released[rg.acquired % Stages[w[2]]] = Consumers[w[2]]
      ELSE Len(rg.log) > rg.received[w[3]]

(* The wait of a thread that runs is over.                                 *)
Waited(w) ==
  LET r == Owner(w)
  IN  /\ Runs(r) /\ w \in NextWaits(r)
      /\ abort = Nobody /\ Ready(w)
      /\ doing' = [doing EXCEPT ![r] = Idle]

Sleep(r) ==
  /\ Runs(r) /\ abort = Nobody
  /\ \E w \in NextWaits(r) :
       ~Ready(w) /\ doing' = [doing EXCEPT ![r] = w]
  /\ asleep' = asleep \union {r}
  /\ UNCHANGED <<tokens, status, posted, abort, region>>

(* Another role failed.                                                    *)
Abandon(r) ==
  /\ Runs(r) /\ abort /= Nobody
  /\ NextWaits(r) /= {}
  /\ status' = [status EXCEPT ![r] = "aborted"]
  /\ UNCHANGED <<tokens, doing, asleep, posted, abort, region>>

(* Nobody can move but by a deadline.                                      *)
Stalled ==
  \A r \in Role : \/ r \in asleep \/ status[r] = "done"
                  \/ status[r] \in Errors /\ r \in posted

Unbounded == FALSE                                            \* a mutant
DeadlinePassed == Patient => Stalled

(* The deadline passes; the abort is set under the same lock.              *)
TimeOut(r) ==
  /\ r \in asleep /\ abort = Nobody /\ ~Ready(doing[r])
  /\ DeadlinePassed
  /\ status' = [status EXCEPT ![r] = "deadlock"]
  /\ abort' = <<r, "deadlock">>
  /\ asleep' = {}
  /\ UNCHANGED <<tokens, doing, posted, region>>

----------------------------------------------------------------------------
(* The operations on pipes. *)

TakenAsIs(rg, s) == [rg EXCEPT !.acquired = @ + 1]            \* a mutant
Taken(rg, s) == [rg EXCEPT !.released[s] = 0, !.acquired = @ + 1]

Acquire(p) ==
  LET s == ring[p].acquired % Stages[p]
  IN  /\ Waited(Acquires(p))
      /\ ring' = [ring EXCEPT ![p] = Taken(@, s)]
      /\ slots' = [slots EXCEPT ![p] = @ \union {s}]
      /\ UNCHANGED <<shares, asleep, status, posted, abort, region>>

Filled(rg, s) ==
  [rg EXCEPT !.data[s] = Len(rg.log) + 1, !.generation[s] = @ + 1,
             !.log = Append(@, s)]

Commit(p, s) ==
  /\ Free(Producer[p]) /\ s \in slots[p]
  /\ ring' = [ring EXCEPT ![p] = Filled(@, s)]
  /\ slots' = [slots EXCEPT ![p] = @ \ {s}]
  /\ asleep' = {}
  /\ UNCHANGED <<shares, doing, status, posted, abort, region>>

(* The share of a consumer's next receive: the slot of the n-th commit.    *)
NextShareNewest(p, k) ==                                      \* a mutant
  LET rg == ring[p]
      s  == rg.log[Len(rg.log)]
  IN  [slot |-> s, generation |-> rg.generation[s], nth |-> rg.received[k] + 1]

NextShare(p, k) ==
  LET rg == ring[p]
      s  == rg.log[rg.received[k] + 1]
  IN  [slot |-> s, generation |-> rg.generation[s], nth |-> rg.received[k] + 1]

Receive(p, k) ==
  /\ Waited(Receives(p, k))
  /\ shares' = [shares EXCEPT ![p][k] = @ \union {NextShare(p, k)}]
  /\ ring' = [ring EXCEPT ![p].received[k] = @ + 1]
  /\ UNCHANGED <<slots, asleep, status, posted, abort, region>>

(* Everyone waiting is woken: a slot may have become empty.                *)
NotifyNobody == asleep                                        \* a mutant
NotifyAll == {}

Release(p, k, s) ==
  /\ Free(Consumer[p][k]) /\ s \in shares[p][k]
  /\ Disciplined => \A u \in shares[p][k] : s.nth <= u.nth
  /\ ring' = [ring EXCEPT ![p].released[s.slot] = @ + 1]
  /\ shares' = [shares EXCEPT ![p][k] = @ \ {s}]
  /\ asleep' = NotifyAll
  /\ UNCHANGED <<slots, doing, status, posted, abort, region>>

----------------------------------------------------------------------------
(* How a role ends, and the region. *)

(* A slot was refilled while a role still shared it.                       *)
Raced(r) ==
  \E p \in Pipe : \E k \in Ends(p) :
    /\ Consumer[p][k] = r
    /\ \E s \in shares[p][k] : ring[p].generation[s.slot] /= s.generation

(* The role's own work ends in an error, or a borrow of a part finds the   *)
(* race.                                                                   *)
Fail(r) ==
  /\ Free(r)
  /\ r \in MayFail \/ Raced(r)
  /\ status' = [status EXCEPT ![r] = "failed"]
  /\ UNCHANGED <<tokens, doing, asleep, posted, abort, region>>

(* abort: the first error stands, and everyone is woken to see it.         *)
BlameLast(r) == <<r, status[r]>>                              \* a mutant
Blame(r) == IF abort = Nobody THEN <<r, status[r]>> ELSE abort

Post(r) ==
  /\ status[r] \in Errors /\ r \notin posted
  /\ posted' = posted \union {r}
  /\ abort' = Blame(r)
  /\ asleep' = {}
  /\ UNCHANGED <<tokens, doing, status, region>>

(* The role's program is over: its tokens are used up and its counts met.  *)
Drained(r) ==
  /\ \A w \in Waits : Owner(w) = r => Left(w) = 0
  /\ \A p \in Pipe :
       /\ Producer[p] = r => slots[p] = {}
       /\ \A k \in Ends(p) : Consumer[p][k] = r => shares[p][k] = {}

Finish(r) ==
  /\ Free(r) /\ Drained(r)
  /\ status' = [status EXCEPT ![r] = "done"]
  /\ UNCHANGED <<tokens, doing, asleep, posted, abort, region>>

Join ==
  /\ ~joined
  /\ \A r \in Role : status[r] = "done" \/ r \in posted
  /\ joined' = TRUE
  /\ outcome' = IF posted = {} THEN Nobody ELSE abort
  /\ UNCHANGED <<tokens, doing, asleep, status, posted, abort>>

----------------------------------------------------------------------------
Work(r) ==
  \/ \E p \in Pipe :
       \/ Producer[p] = r /\ (Acquire(p) \/ \E s \in Slot(p) : Commit(p, s))
       \/ \E k \in Ends(p) :
            /\ Consumer[p][k] = r
            /\ \/ Receive(p, k)
               \/ \E s \in shares[p][k] : Release(p, k, s)
  \/ Sleep(r) \/ Abandon(r) \/ TimeOut(r) \/ Post(r) \/ Finish(r)

Next == Join \/ \E r \in Role : Work(r) \/ Fail(r)

(* Every thread is scheduled, a wait ends at its deadline, and the region  *)
(* joins its threads.                                                      *)
Fairness == WF_vars(Join) /\ \A r \in Role : WF_vars(Work(r))

Spec == Init /\ [][Next]_vars /\ Fairness

----------------------------------------------------------------------------
(* Properties *)

(* A share reads what it was received for: while it is held its slot is    *)
(* not refilled, and the n-th receive of every consumer sees the n-th      *)
(* commit, in whatever order slots are committed and shares released       *)
(* (Ring, and the race check of a borrowed part).                          *)
SharesStand ==
  \A p \in Pipe : \A k \in Ends(p) : \A s \in shares[p][k] :
    /\ ring[p].generation[s.slot] = s.generation
    /\ ring[p].data[s.slot] = s.nth

(* Whoever sleeps has something to wait for: no commit, release or abort   *)
(* goes unnoticed, though all pipes share one condition variable           *)
(* (wait_until, notify_all).                                               *)
NoLostWakeup ==
  \A r \in asleep : doing[r] /= Idle /\ ~Ready(doing[r]) /\ abort = Nobody

(* What the checker accepts cannot deadlock: some role can move, or all    *)
(* are over ("together that rules out deadlock on the pipe", check.rs).    *)
NoDeadlock == asleep /= {} => ~Stalled

(* A region without a failing role comes to its join with every transfer   *)
(* made.                                                                   *)
Completes == <>(joined /\ outcome = Nobody)

(* Whatever fails, stalls or is called off, every role ends and the region *)
(* is joined: nobody waits for ever (wait_until's deadline and abort).     *)
Joins == <>joined

(* The error reported is the root cause: the first a role met by itself,   *)
(* never that of a role that was aborted by it (abort, specialize).        *)
RootCause ==
  joined /\ posted /= {} =>
    /\ outcome /= Nobody
    /\ outcome[2] = status[outcome[1]] /\ outcome[2] /= "aborted"

(* Rings, threads and errors change nothing of what a pipe is for: every   *)
(* consumer sees every commit, once, in the order of the commits, and sees *)
(* it unchanged until it gives it back, no more commits are under way than *)
(* the ring has slots, and a region that reports no error has made every   *)
(* transfer (specialize, Ring).                                            *)
Queue == INSTANCE Broadcast
           WITH Capacity <- Stages, Messages <- Transfers,
                Cause    <- Role \X {"failed", "deadlock"}, Success <- Nobody,
                sent     <- [p \in Pipe |-> Len(ring[p].log)],
                taken    <- [p \in Pipe |-> ring[p].received],
                view     <- [p \in Pipe |-> [k \in Ends(p) |->
                               { ring[p].data[s.slot] : s \in shares[p][k] }]],
                over     <- joined, verdict <- outcome
Broadcasts == Queue!Spec
=============================================================================
