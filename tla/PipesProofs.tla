----------------------------- MODULE PipesProofs -----------------------------
(***************************************************************************)
(* For any number of pipes, slots, consumers and roles, whatever fails and *)
(* however tokens are held: a share reads what it was received for, no     *)
(* wake-up is lost, and the error reported is a root cause.  And the       *)
(* argument of the pipe checker (lex-front/src/check.rs): on a pipe whose  *)
(* producer fills one slot at a time and whose consumers release the       *)
(* oldest share first, roles cannot wait for each other for ever.          *)
(***************************************************************************)
EXTENDS Pipes, FiniteSetTheorems, TLAPS

\* Who is in a wait, and is it worth waiting for?
Waiting ==
  \A r \in Role : doing[r] /= Idle => Owner(doing[r]) = r /\ Left(doing[r]) > 0

\* Who sleeps has something to wait for, and is not over.
Sleepers ==
  \A r \in asleep :
    status[r] = "running" /\ doing[r] /= Idle /\ ~Ready(doing[r]) /\ abort = Nobody

\* The consumers that have had what slot s holds, and given it back.
Freed(p, rg, sh, s) ==
  { k \in Ends(p) : rg.received[k] >= rg.data[s] /\ \A u \in sh[k] : u.slot /= s }

Shares(p) == [Ends(p) -> SUBSET ShareType(p)]

\* A pipe, with the slots its producer and the shares its consumers hold.
Counted(p, rg, held, sh) ==
  \A s \in Slot(p) :
    /\ s \in held => rg.released[s] = 0 /\ Freed(p, rg, sh, s) = Ends(p)
    /\ s \notin held => rg.released[s] = Cardinality(Freed(p, rg, sh, s))

Logged(p, rg) ==
  /\ \A s \in Slot(p) :
       rg.data[s] <= Len(rg.log) /\ (rg.data[s] > 0 => rg.log[rg.data[s]] = s)
  /\ \A k \in Ends(p) :
       /\ rg.received[k] <= Len(rg.log)
       /\ \A n \in 1..Len(rg.log) : n > rg.received[k] => rg.data[rg.log[n]] = n

Stand(p, rg, sh) ==
  \A k \in Ends(p) : \A u \in sh[k] :
    /\ rg.generation[u.slot] = u.generation /\ rg.data[u.slot] = u.nth
    /\ u.nth <= rg.received[k]

Steady(p, rg, held, sh) ==
  /\ rg \in RingType(p) /\ held \subseteq Slot(p) /\ sh \in Shares(p)
  /\ Counted(p, rg, held, sh) /\ Logged(p, rg) /\ Stand(p, rg, sh)

AllSteady ==
  /\ DOMAIN ring = Pipe /\ DOMAIN slots = Pipe /\ DOMAIN shares = Pipe
  /\ \A p \in Pipe : Steady(p, ring[p], slots[p], shares[p])

\* Whose error stands, and how it is reported.
Blamed ==
  /\ abort /= Nobody => /\ abort[1] \in Role /\ abort[2] = status[abort[1]]
                        /\ abort[2] \in {"failed", "deadlock"}
  /\ posted /= {} => abort /= Nobody
  /\ \A r \in posted : status[r] \in Errors
  /\ \A r \in Role : status[r] \in {"deadlock", "aborted"} => abort /= Nobody

Reported ==
  joined => /\ \A r \in Role : status[r] = "done" \/ r \in posted
            /\ posted /= {} => outcome = abort

Control ==
  /\ doing \in [Role -> {Idle} \union Waits]
  /\ asleep \subseteq Role /\ posted \subseteq Role
  /\ status \in [Role -> {"running", "done"} \union Errors]
  /\ abort \in Reasons /\ joined \in BOOLEAN /\ outcome \in Reasons

IInv == AllSteady /\ Control /\ Waiting /\ Sleepers /\ Blamed /\ Reported

-----------------------------------------------------------------------------
(* What a pipe holds, and the waits on it. *)

LEMMA Sizes ==
  ASSUME NEW p \in Pipe
  PROVE  /\ Stages[p] \in Nat /\ Stages[p] > 0 /\ Consumers[p] \in Nat
         /\ Transfers[p] \in Nat /\ Producer[p] \in Role
         /\ \A k \in Ends(p) : Consumer[p][k] \in Role
BY PipeAssumption

LEMMA EndsCount ==
  ASSUME NEW p \in Pipe
  PROVE  IsFiniteSet(Ends(p)) /\ Cardinality(Ends(p)) = Consumers[p]
<1>1. /\ 1 \in Int /\ Consumers[p] \in Nat /\ Consumers[p] \in Int
      /\ (IF 1 > Consumers[p] THEN 0 ELSE Consumers[p] - 1 + 1) = Consumers[p]
  BY Sizes
<1>2. IsFiniteSet(1..Consumers[p]) /\ Cardinality(1..Consumers[p]) = Consumers[p]
  BY <1>1, FS_Interval, Zenon
<1>. QED
  BY <1>2 DEF Ends

\* A wait is at the producer's end or at a consumer's.
LEMMA WaitCases ==
  ASSUME NEW w \in Waits
  PROVE  /\ w /= Idle
         /\ w[2] \in Pipe
         /\ \/ w = Acquires(w[2]) /\ w[1] = "acquire" /\ w[3] = 0
            \/ w[3] \in Ends(w[2]) /\ w = Receives(w[2], w[3]) /\ w[1] = "receive"
BY DEF Waits, Acquires, Receives, Idle

\* What a wait waits for and whose it is.
LEMMA AtAcquire ==
  ASSUME NEW p
  PROVE  LET w == Acquires(p) IN
         /\ Owner(w) = Producer[p]
         /\ Left(w) = Transfers[p] - ring[p].acquired
         /\ Ready(w) <=> ring[p].released[ring[p].acquired % Stages[p]] = Consumers[p]
BY DEF Acquires, Owner, Left, Ready

LEMMA AtReceive ==
  ASSUME NEW p, NEW k
  PROVE  LET w == Receives(p, k) IN
         /\ Owner(w) = Consumer[p][k]
         /\ Left(w) = Transfers[p] - ring[p].received[k]
         /\ Ready(w) <=> Len(ring[p].log) > ring[p].received[k]
BY DEF Receives, Owner, Left, Ready

-----------------------------------------------------------------------------
(* Each operation on a pipe keeps it steady. *)

LEMMA FreedCount ==
  ASSUME NEW p \in Pipe, NEW rg, NEW sh, NEW s
  PROVE  /\ Freed(p, rg, sh, s) \subseteq Ends(p) /\ IsFiniteSet(Freed(p, rg, sh, s))
         /\ Cardinality(Freed(p, rg, sh, s)) \in 0..Consumers[p]
         /\ Cardinality(Freed(p, rg, sh, s)) = Consumers[p] => Freed(p, rg, sh, s) = Ends(p)
<1>1. Freed(p, rg, sh, s) \in SUBSET Ends(p)
  BY DEF Freed
<1>2. /\ IsFiniteSet(Freed(p, rg, sh, s))
      /\ Cardinality(Freed(p, rg, sh, s)) <= Cardinality(Ends(p))
      /\ Cardinality(Ends(p)) = Cardinality(Freed(p, rg, sh, s)) => Ends(p) = Freed(p, rg, sh, s)
  BY <1>1, EndsCount, FS_Subset, Zenon
<1>3. Cardinality(Freed(p, rg, sh, s)) \in Nat
  BY <1>2, FS_CardinalityType, Zenon
<1>. QED
  BY <1>1, <1>2, <1>3, EndsCount, Sizes

LEMMA RingFields ==
  ASSUME NEW p, NEW rg \in RingType(p)
  PROVE  /\ rg.data \in [Slot(p) -> Nat] /\ rg.generation \in [Slot(p) -> Nat]
         /\ rg.released \in [Slot(p) -> 0..Consumers[p]] /\ rg.acquired \in 0..Transfers[p]
         /\ rg.log \in Seq(Slot(p)) /\ rg.received \in [Ends(p) -> 0..Transfers[p]]
BY DEF RingType

\* The slot a producer acquires next is one it does not hold, or has no consumers.
LEMMA AcquireKeeps ==
  ASSUME NEW p \in Pipe, NEW rg, NEW held, NEW sh, Steady(p, rg, held, sh),
         NEW s \in Slot(p), rg.acquired < Transfers[p], rg.released[s] = Consumers[p]
  PROVE  Steady(p, Taken(rg, s), held \union {s}, sh)
<1> DEFINE new == Taken(rg, s)
<1>1. /\ new \in RingType(p)
      /\ new.data = rg.data /\ new.generation = rg.generation
      /\ new.log = rg.log /\ new.received = rg.received
      /\ new.released = [rg.released EXCEPT ![s] = 0]
      /\ rg.released \in [Slot(p) -> 0..Consumers[p]]
  <2>1. rg \in RingType(p)
    BY DEF Steady
  <2>2. new = [rg EXCEPT !.released = [rg.released EXCEPT ![s] = 0], !.acquired = rg.acquired + 1]
    BY <2>1 DEF Taken, RingType
  <2>3. /\ [rg.released EXCEPT ![s] = 0] \in [Slot(p) -> 0..Consumers[p]]
        /\ rg.acquired + 1 \in 0..Transfers[p]
    BY <2>1, RingFields, Sizes
  <2>. HIDE DEF new
  <2>. QED
    BY <2>1, <2>2, <2>3, RingFields DEF RingType
<1>2. \A t : Freed(p, new, sh, t) = Freed(p, rg, sh, t)
  BY <1>1 DEF Freed
<1>3. Freed(p, rg, sh, s) = Ends(p)
  BY FreedCount DEF Steady, Counted
<1>4. Counted(p, new, held \union {s}, sh)
  BY <1>1, <1>2, <1>3 DEF Steady, Counted
<1>5. Logged(p, new) /\ Stand(p, new, sh)
  BY <1>1 DEF Steady, Logged, Stand
<1>. HIDE DEF new
<1>. QED
  BY <1>1, <1>4, <1>5 DEF Steady, new

\* A slot is filled when every consumer has had what was in it before and given it back.
LEMMA CommitKeeps ==
  ASSUME NEW p \in Pipe, NEW rg, NEW held, NEW sh, Steady(p, rg, held, sh), NEW s \in held
  PROVE  Steady(p, Filled(rg, s), held \ {s}, sh)
<1> DEFINE new == Filled(rg, s)
           n == Len(rg.log) + 1
<1>0. /\ s \in Slot(p) /\ rg.released[s] = 0 /\ Freed(p, rg, sh, s) = Ends(p)
      /\ \A k \in Ends(p) : rg.received[k] >= rg.data[s] /\ \A u \in sh[k] : u.slot /= s
  BY DEF Steady, Counted, Freed
<1>1. /\ rg.log \in Seq(Slot(p)) /\ n \in Nat \ {0}
      /\ rg.data \in [Slot(p) -> Nat] /\ rg.generation \in [Slot(p) -> Nat]
      /\ rg.received \in [Ends(p) -> 0..Transfers[p]]
      /\ sh \in [Ends(p) -> SUBSET ShareType(p)]
  BY DEF Steady, RingType, Shares
<1>2. /\ new \in RingType(p)
      /\ new.data = [rg.data EXCEPT ![s] = n]
      /\ new.generation = [rg.generation EXCEPT ![s] = @ + 1]
      /\ new.log = Append(rg.log, s) /\ new.received = rg.received
      /\ new.released = rg.released
  <2>1. rg \in RingType(p)
    BY DEF Steady
  <2>2. new = [rg EXCEPT !.data = [rg.data EXCEPT ![s] = n],
                         !.generation = [rg.generation EXCEPT ![s] = @ + 1],
                         !.log = Append(rg.log, s)]
    BY <2>1 DEF Filled, RingType
  <2>3. /\ [rg.data EXCEPT ![s] = n] \in [Slot(p) -> Nat]
        /\ [rg.generation EXCEPT ![s] = @ + 1] \in [Slot(p) -> Nat]
        /\ Append(rg.log, s) \in Seq(Slot(p))
    BY <1>0, <1>1
  <2>. HIDE DEF new, n
  <2>. QED
    BY <2>1, <2>2, <2>3, RingFields DEF RingType
<1>3. /\ Len(new.log) = n /\ new.log[n] = s
      /\ \A m \in 1..n - 1 : new.log[m] = rg.log[m] /\ rg.log[m] \in Slot(p)
  BY <1>1, <1>2
<1>4. \A k \in Ends(p) : rg.received[k] \in Nat /\ rg.received[k] <= n - 1
  BY <1>1, Sizes DEF Steady, Logged
<1>5. Freed(p, new, sh, s) = {}
  BY <1>0, <1>1, <1>2, <1>4 DEF Freed
<1>6. \A t \in Slot(p) \ {s} : Freed(p, new, sh, t) = Freed(p, rg, sh, t)
  BY <1>1, <1>2 DEF Freed
<1>7. Counted(p, new, held \ {s}, sh)
  <2>1. Cardinality(Freed(p, new, sh, s)) = 0
    BY <1>5, FS_EmptySet
  <2>. QED
    BY <1>0, <1>2, <1>6, <2>1 DEF Steady, Counted
<1>8. Logged(p, new)
  <2>1. ASSUME NEW t \in Slot(p)
        PROVE  new.data[t] <= n /\ (new.data[t] > 0 => new.log[new.data[t]] = t)
    <3>1. CASE t = s
      BY <3>1, <1>1, <1>2, <1>3
    <3>2. CASE t /= s
      <4>1. new.data[t] = rg.data[t] /\ rg.data[t] \in Nat /\ rg.data[t] <= n - 1
        BY <3>2, <1>1, <1>2 DEF Steady, Logged
      <4>2. rg.data[t] > 0 => rg.log[rg.data[t]] = t
        BY DEF Steady, Logged
      <4>. QED
        BY <4>1, <4>2, <1>1, <1>3
    <3>. QED
      BY <3>1, <3>2
  <2>2. ASSUME NEW k \in Ends(p), NEW m \in 1..n, m > rg.received[k]
        PROVE  new.data[new.log[m]] = m
    <3>1. CASE m = n
      BY <3>1, <1>0, <1>1, <1>2, <1>3
    <3>2. CASE m < n
      <4>1. /\ m \in 1..Len(rg.log) /\ new.log[m] = rg.log[m]
            /\ rg.data[rg.log[m]] = m /\ rg.log[m] \in Slot(p)
        BY <3>2, <1>1, <1>3, <2>2 DEF Steady, Logged
      <4>2. rg.log[m] /= s
        BY <4>1, <1>0, <1>4, <2>2
      <4>. QED
        BY <4>1, <4>2, <1>1, <1>2
    <3>. QED
      BY <3>1, <3>2, <1>1
  <2>3. \A k \in Ends(p) : new.received[k] <= n
    BY <1>1, <1>2, <1>4
  <2>. QED
    BY <2>1, <2>2, <2>3, <1>2, <1>3 DEF Logged
<1>9. Stand(p, new, sh)
  BY <1>0, <1>1, <1>2 DEF Steady, Stand, ShareType
<1>. HIDE DEF new
<1>. QED
  BY <1>2, <1>7, <1>8, <1>9 DEF Steady, new

\* What a consumer receives next is still in its slot: a commit into that slot would have had
\* to wait for this consumer.
LEMMA ReceiveKeeps ==
  ASSUME NEW p \in Pipe, NEW rg, NEW held, NEW sh, Steady(p, rg, held, sh), NEW k \in Ends(p),
         Len(rg.log) > rg.received[k], rg.received[k] < Transfers[p],
         NEW u, u = [slot |-> rg.log[rg.received[k] + 1],
                     generation |-> rg.generation[rg.log[rg.received[k] + 1]],
                     nth |-> rg.received[k] + 1]
  PROVE  Steady(p, [rg EXCEPT !.received[k] = @ + 1], held, [sh EXCEPT ![k] = @ \union {u}])
<1> DEFINE new == [rg EXCEPT !.received[k] = @ + 1]
           have == [sh EXCEPT ![k] = @ \union {u}]
           i == rg.received[k] + 1
           s == rg.log[i]
<1>1. /\ rg \in RingType(p) /\ rg.log \in Seq(Slot(p)) /\ rg.data \in [Slot(p) -> Nat]
      /\ rg.generation \in [Slot(p) -> Nat] /\ rg.received \in [Ends(p) -> 0..Transfers[p]]
      /\ sh \in [Ends(p) -> SUBSET ShareType(p)]
      /\ i \in 1..Len(rg.log) /\ i <= Transfers[p] /\ i \in Nat
  <2>1. rg \in RingType(p) /\ sh \in [Ends(p) -> SUBSET ShareType(p)]
    BY DEF Steady, Shares
  <2>2. /\ rg.log \in Seq(Slot(p)) /\ rg.data \in [Slot(p) -> Nat]
        /\ rg.generation \in [Slot(p) -> Nat] /\ rg.received \in [Ends(p) -> 0..Transfers[p]]
    BY <2>1, RingFields
  <2>3. rg.received[k] \in Nat /\ Transfers[p] \in Nat /\ Len(rg.log) \in Nat
    BY <2>2, Sizes
  <2>4. i \in 1..Len(rg.log) /\ i <= Transfers[p] /\ i \in Nat
    BY <2>3
  <2>. QED
    BY <2>1, <2>2, <2>4
<1>2. s \in Slot(p) /\ rg.data[s] = i
  BY <1>1 DEF Steady, Logged
<1>3. u \in ShareType(p) /\ u.slot = s /\ u.generation = rg.generation[s] /\ u.nth = i
  BY <1>1, <1>2 DEF ShareType
<1>4. /\ new \in RingType(p)
      /\ new.received = [rg.received EXCEPT ![k] = i]
      /\ new.data = rg.data /\ new.generation = rg.generation
      /\ new.log = rg.log /\ new.released = rg.released
  <2>1. new = [rg EXCEPT !.received = [rg.received EXCEPT ![k] = i]]
    BY <1>1 DEF RingType
  <2>2. [rg.received EXCEPT ![k] = i] \in [Ends(p) -> 0..Transfers[p]]
    BY <1>1, Sizes
  <2>. HIDE DEF new, i
  <2>. QED
    BY <2>1, <2>2, <1>1, RingFields DEF RingType
<1>5. have \in Shares(p) /\ have = [sh EXCEPT ![k] = sh[k] \union {u}]
  BY <1>1, <1>3 DEF Shares
<1>6. \A t \in Slot(p) : Freed(p, new, have, t) = Freed(p, rg, sh, t)
  <2>1. ASSUME NEW t \in Slot(p), NEW j \in Ends(p)
        PROVE  j \in Freed(p, new, have, t) <=> j \in Freed(p, rg, sh, t)
    <3>1. CASE j /= k
      BY <3>1, <1>1, <1>4, <1>5 DEF Freed
    <3>2. CASE j = k /\ t = s
      <4>1. ~(rg.received[k] >= rg.data[s])
        BY <1>1, <1>2
      <4>2. u \in have[k] /\ u.slot = s
        BY <1>1, <1>3, <1>5
      <4>. QED
        BY <3>2, <4>1, <4>2 DEF Freed
    <3>3. CASE j = k /\ t /= s
      <4>1. rg.data[t] \in Nat /\ rg.data[t] /= i
        BY <3>3, <1>1 DEF Steady, Logged
      <4>2. i >= rg.data[t] <=> rg.received[k] >= rg.data[t]
        BY <4>1, <1>1
      <4>3. (\A v \in have[k] : v.slot /= t) <=> (\A v \in sh[k] : v.slot /= t)
        BY <3>3, <1>1, <1>3, <1>5
      <4>4. new.received[k] = i /\ new.data = rg.data
        BY <1>1, <1>4
      <4>. QED
        BY <3>3, <4>2, <4>3, <4>4 DEF Freed
    <3>. QED
      BY <3>1, <3>2, <3>3
  <2>. QED
    BY <2>1 DEF Freed
<1>7. Counted(p, new, held, have)
  BY <1>4, <1>6 DEF Steady, Counted
<1>8. Logged(p, new)
  BY <1>1, <1>4 DEF Steady, Logged
<1>9. Stand(p, new, have)
  <2>1. ASSUME NEW j \in Ends(p), NEW v \in have[j]
        PROVE  /\ rg.generation[v.slot] = v.generation /\ rg.data[v.slot] = v.nth
               /\ v.nth <= new.received[j]
    <3>1. CASE v \in sh[j]
      <4>1. /\ rg.generation[v.slot] = v.generation /\ rg.data[v.slot] = v.nth
            /\ v.nth <= rg.received[j] /\ v.nth \in Nat
        BY <3>1, <1>1 DEF Steady, Stand, ShareType
      <4>2. rg.received[j] \in Nat /\ new.received[j] \in Nat /\ rg.received[j] <= new.received[j]
        BY <1>1, <1>4, Sizes
      <4>. QED
        BY <4>1, <4>2
    <3>2. CASE j = k /\ v = u
      BY <3>2, <1>1, <1>2, <1>3, <1>4
    <3>. QED
      BY <3>1, <3>2, <1>1, <1>5
  <2>. QED
    BY <2>1, <1>4 DEF Stand
<1>. HIDE DEF new, have
<1>. QED
  BY <1>4, <1>5, <1>7, <1>8, <1>9 DEF Steady, new, have

\* A share is the only one its consumer has of its slot: giving it back frees the slot of it.
LEMMA ReleaseKeeps ==
  ASSUME NEW p \in Pipe, NEW rg, NEW held, NEW sh, Steady(p, rg, held, sh), NEW k \in Ends(p),
         NEW u \in sh[k]
  PROVE  Steady(p, [rg EXCEPT !.released[u.slot] = @ + 1], held, [sh EXCEPT ![k] = @ \ {u}])
<1> DEFINE new == [rg EXCEPT !.released[u.slot] = @ + 1]
           have == [sh EXCEPT ![k] = @ \ {u}]
           s == u.slot
<1>1. /\ rg \in RingType(p) /\ rg.data \in [Slot(p) -> Nat]
      /\ rg.received \in [Ends(p) -> 0..Transfers[p]]
      /\ rg.released \in [Slot(p) -> 0..Consumers[p]]
      /\ sh \in [Ends(p) -> SUBSET ShareType(p)]
      /\ u \in ShareType(p) /\ s \in Slot(p)
  BY RingFields DEF Steady, Shares, ShareType
<1>2. rg.data[s] = u.nth /\ u.nth <= rg.received[k] /\ rg.received[k] >= rg.data[s]
  BY <1>1, Sizes DEF Steady, Stand, ShareType
<1>3. \A v \in sh[k] : v.slot = s => v = u
  BY <1>1 DEF Steady, Stand, ShareType
<1>4. k \notin Freed(p, rg, sh, s)
  BY DEF Freed
<1>5. have \in Shares(p) /\ have = [sh EXCEPT ![k] = sh[k] \ {u}]
  BY <1>1 DEF Shares
<1>6. Freed(p, rg, have, s) = Freed(p, rg, sh, s) \union {k}
  BY <1>1, <1>2, <1>3, <1>5 DEF Freed
<1>7. \A t \in Slot(p) \ {s} : Freed(p, rg, have, t) = Freed(p, rg, sh, t)
  BY <1>1, <1>5 DEF Freed
<1>8. /\ s \notin held /\ rg.released[s] = Cardinality(Freed(p, rg, sh, s))
      /\ Cardinality(Freed(p, rg, have, s)) = rg.released[s] + 1
  <2>1. s \notin held
    BY <1>1, <1>4 DEF Steady, Counted
  <2>2. rg.released[s] = Cardinality(Freed(p, rg, sh, s))
    BY <1>1, <2>1 DEF Steady, Counted
  <2>3. Cardinality(Freed(p, rg, sh, s) \union {k}) = Cardinality(Freed(p, rg, sh, s)) + 1
    BY <1>4, FreedCount, FS_AddElement, Zenon
  <2>. QED
    BY <2>1, <2>2, <2>3, <1>6
<1>9. /\ new \in RingType(p)
      /\ new.released = [rg.released EXCEPT ![s] = @ + 1]
      /\ new.data = rg.data /\ new.generation = rg.generation
      /\ new.log = rg.log /\ new.received = rg.received
  <2>1. new = [rg EXCEPT !.released = [rg.released EXCEPT ![s] = @ + 1]]
    BY <1>1 DEF RingType
  <2>2. rg.released[s] + 1 \in 0..Consumers[p]
    BY <1>8, FreedCount
  <2>3. [rg.released EXCEPT ![s] = @ + 1] \in [Slot(p) -> 0..Consumers[p]]
    BY <1>1, <2>2
  <2>. HIDE DEF new, s
  <2>. QED
    BY <2>1, <2>3, <1>1, RingFields DEF RingType
<1>10. \A t : Freed(p, new, have, t) = Freed(p, rg, have, t)
  BY <1>9 DEF Freed
<1>11. Counted(p, new, held, have)
  <2>1. new.released[s] = Cardinality(Freed(p, new, have, s))
    BY <1>1, <1>8, <1>9, <1>10
  <2>2. ASSUME NEW t \in Slot(p) \ {s}
        PROVE  new.released[t] = rg.released[t] /\ Freed(p, new, have, t) = Freed(p, rg, sh, t)
    BY <1>1, <1>7, <1>9, <1>10
  <2>. HIDE DEF new, have, s
  <2>. QED
    BY <2>1, <2>2, <1>8 DEF Steady, Counted
<1>12. Logged(p, new) /\ Stand(p, new, have)
  BY <1>1, <1>5, <1>9 DEF Steady, Logged, Stand
<1>. HIDE DEF new, have
<1>. QED
  BY <1>5, <1>9, <1>11, <1>12 DEF Steady, new, have

-----------------------------------------------------------------------------
(* The state the region starts in. *)

LEMMA InitHolds == Init => IInv
<1>. SUFFICES ASSUME Init PROVE IInv
  OBVIOUS
<1>1. ASSUME NEW p \in Pipe
      PROVE  Steady(p, ring[p], slots[p], shares[p])
  <2>1. /\ ring[p] = [data |-> [s \in Slot(p) |-> 0], generation |-> [s \in Slot(p) |-> 0],
                      released |-> [s \in Slot(p) |-> Consumers[p]], acquired |-> 0,
                      log |-> <<>>, received |-> [k \in Ends(p) |-> 0]]
        /\ slots[p] = {} /\ shares[p] = [k \in Ends(p) |-> {}]
    BY DEF Init
  <2>2. ring[p] \in RingType(p) /\ shares[p] \in Shares(p)
    BY <2>1, Sizes DEF RingType, Shares
  <2>3. ASSUME NEW s \in Slot(p)
        PROVE  Freed(p, ring[p], shares[p], s) = Ends(p)
    BY <2>1 DEF Freed
  <2>4. Counted(p, ring[p], slots[p], shares[p])
    <3>1. \A s \in Slot(p) : ring[p].released[s] = Consumers[p] /\ s \notin slots[p]
      BY <2>1
    <3>. QED
      BY <2>3, <3>1, EndsCount DEF Counted
  <2>5. Logged(p, ring[p]) /\ Stand(p, ring[p], shares[p])
    BY <2>1 DEF Logged, Stand
  <2>. QED
    BY <2>1, <2>2, <2>4, <2>5 DEF Steady
<1>2. AllSteady
  BY <1>1 DEF Init, AllSteady
<1>3. Control
  BY DEF Init, Control, Reasons, Nobody
<1>4. Waiting /\ Sleepers /\ Blamed /\ Reported
  BY DEF Init, Waiting, Sleepers, Blamed, Reported
<1>. QED
  BY <1>2, <1>3, <1>4 DEF IInv

-----------------------------------------------------------------------------
(* What a step leaves as it is. *)

LEMMA OnePipe ==
  ASSUME AllSteady, NEW p \in Pipe, Steady(p, ring'[p], slots'[p], shares'[p]),
         DOMAIN ring' = Pipe, DOMAIN slots' = Pipe, DOMAIN shares' = Pipe,
         \A q \in Pipe \ {p} :
           ring'[q] = ring[q] /\ slots'[q] = slots[q] /\ shares'[q] = shares[q]
  PROVE  AllSteady'
<1>1. \A q \in Pipe : Steady(q, ring'[q], slots'[q], shares'[q])
  BY DEF AllSteady
<1>. QED
  BY <1>1 DEF AllSteady

LEMMA SamePipes ==
  ASSUME AllSteady, UNCHANGED tokens
  PROVE  AllSteady'
<1>1. ring' = ring /\ slots' = slots /\ shares' = shares
  BY DEF tokens
<1>2. /\ DOMAIN ring' = Pipe /\ DOMAIN slots' = Pipe /\ DOMAIN shares' = Pipe
      /\ \A q \in Pipe : Steady(q, ring'[q], slots'[q], shares'[q])
  BY <1>1 DEF AllSteady
<1>. QED
  BY <1>2 DEF AllSteady

\* A wait's owner and its count do not depend on other ends.
LEMMA KeepsWaiting ==
  ASSUME IInv, NEW p \in Pipe, NEW r \in Role, r \notin asleep, doing' = [doing EXCEPT ![r] = Idle],
         \A q \in Pipe \ {p} : ring'[q] = ring[q],
         Producer[p] = r \/ ring'[p].acquired = ring[p].acquired,
         \A k \in Ends(p) : Consumer[p][k] = r \/ ring'[p].received[k] = ring[p].received[k]
  PROVE  Waiting'
<1>. SUFFICES ASSUME NEW t \in Role, doing'[t] /= Idle
     PROVE  Owner(doing'[t]) = t /\ Left(doing[t])' > 0
  BY DEF Waiting
<1>1. t /= r /\ doing'[t] = doing[t] /\ doing[t] \in Waits /\ Owner(doing[t]) = t /\ Left(doing[t]) > 0
  BY DEF IInv, Control, Waiting
<1>. DEFINE w == doing[t]
<1>2. Left(w)' = Left(w)
  <2>1. CASE w[1] = "acquire"
    <3>1. w[2] \in Pipe /\ Producer[w[2]] = t
      BY <1>1, <2>1, WaitCases DEF Owner
    <3>2. ring'[w[2]].acquired = ring[w[2]].acquired
      BY <1>1, <3>1
    <3>. QED
      BY <1>1, <2>1, <3>2 DEF Left
  <2>2. CASE w[1] /= "acquire"
    <3>1. w[2] \in Pipe /\ w[3] \in Ends(w[2]) /\ Consumer[w[2]][w[3]] = t
      BY <1>1, <2>2, WaitCases DEF Owner
    <3>2. ring'[w[2]].received[w[3]] = ring[w[2]].received[w[3]]
      BY <1>1, <3>1
    <3>. QED
      BY <1>1, <2>2, <3>2 DEF Left
  <2>. QED
    BY <2>1, <2>2
<1>. QED
  BY <1>1, <1>2

\* A role that acquires or receives gives no one else what it waits for.
LEMMA KeepsSleepers ==
  ASSUME IInv, NEW p \in Pipe, NEW r \in Role, r \notin asleep, doing' = [doing EXCEPT ![r] = Idle],
         UNCHANGED <<asleep, status, abort>>,
         \A q \in Pipe \ {p} : ring'[q] = ring[q],
         ring'[p].log = ring[p].log,
         \/ Producer[p] = r
         \/ ring'[p].acquired = ring[p].acquired /\ ring'[p].released = ring[p].released,
         \A k \in Ends(p) : Consumer[p][k] = r \/ ring'[p].received[k] = ring[p].received[k]
  PROVE  Sleepers'
<1>. SUFFICES ASSUME NEW t \in asleep
     PROVE  status[t] = "running" /\ doing'[t] /= Idle /\ ~Ready(doing[t])' /\ abort = Nobody
  BY DEF Sleepers
<1>1. /\ t \in Role /\ t /= r /\ doing'[t] = doing[t] /\ doing[t] \in Waits /\ Owner(doing[t]) = t
      /\ status[t] = "running" /\ doing[t] /= Idle /\ ~Ready(doing[t]) /\ abort = Nobody
  BY DEF IInv, Control, Waiting, Sleepers
<1>. DEFINE w == doing[t]
<1>2. Ready(w)' <=> Ready(w)
  <2>1. CASE w[1] = "acquire"
    <3>1. w[2] \in Pipe /\ Producer[w[2]] = t
      BY <1>1, <2>1, WaitCases DEF Owner
    <3>2. ring'[w[2]].acquired = ring[w[2]].acquired /\ ring'[w[2]].released = ring[w[2]].released
      BY <1>1, <3>1
    <3>. QED
      BY <1>1, <2>1, <3>2 DEF Ready
  <2>2. CASE w[1] /= "acquire"
    <3>1. w[2] \in Pipe /\ w[3] \in Ends(w[2]) /\ Consumer[w[2]][w[3]] = t
      BY <1>1, <2>2, WaitCases DEF Owner
    <3>2. /\ ring'[w[2]].received[w[3]] = ring[w[2]].received[w[3]]
          /\ ring'[w[2]].log = ring[w[2]].log
      BY <1>1, <3>1
    <3>. QED
      BY <1>1, <2>2, <3>2 DEF Ready
  <2>. QED
    BY <2>1, <2>2
<1>. QED
  BY <1>1, <1>2

LEMMA NotJoined ==
  ASSUME IInv, NEW r \in Role, status[r] = "running"
  PROVE  ~joined /\ r \notin posted
BY DEF IInv, Blamed, Reported, Errors

LEMMA SameBlame ==
  ASSUME IInv, UNCHANGED <<status, posted, abort, region>>
  PROVE  Blamed' /\ Reported'
BY DEF IInv, Blamed, Reported, region

LEMMA WaitIsOver ==
  ASSUME IInv, NEW w \in Waits, Owner(w) \in Role, Waited(w)
  PROVE  /\ Left(w) > 0 /\ Ready(w) /\ Owner(w) \notin asleep
         /\ doing' = [doing EXCEPT ![Owner(w)] = Idle]
<1>1. w \in NextWaits(Owner(w))
  BY DEF Waited
<1>2. Left(w) > 0
  BY <1>1 DEF NextWaits, IInv, Waiting
<1>. QED
  BY <1>2 DEF Waited, Runs

-----------------------------------------------------------------------------
(* The operations on pipes. *)

LEMMA AcquireStep ==
  ASSUME IInv, NEW p \in Pipe, Acquire(p)
  PROVE  IInv'
<1>. DEFINE w == Acquires(p)
            s == ring[p].acquired % Stages[p]
            rg == Taken(ring[p], s)
<1>1. w \in Waits /\ Owner(w) = Producer[p] /\ Producer[p] \in Role
  BY AtAcquire, Sizes DEF Waits
<1>2. /\ Left(w) > 0 /\ Ready(w) /\ Producer[p] \notin asleep
      /\ doing' = [doing EXCEPT ![Producer[p]] = Idle]
  BY <1>1, WaitIsOver DEF Acquire
<1>3. Steady(p, ring[p], slots[p], shares[p]) /\ ring[p] \in RingType(p)
  BY DEF IInv, AllSteady, Steady
<1>4. ring[p].acquired \in Nat /\ s \in Slot(p)
  BY <1>3, RingFields, Sizes DEF Slot
<1>5. ring[p].acquired < Transfers[p] /\ ring[p].released[s] = Consumers[p]
  BY <1>2, <1>4, AtAcquire, Sizes
<1>6. Steady(p, rg, slots[p] \union {s}, shares[p])
  BY <1>3, <1>4, <1>5, AcquireKeeps
<1>7. /\ DOMAIN ring' = Pipe /\ DOMAIN slots' = Pipe /\ DOMAIN shares' = Pipe
      /\ ring'[p] = rg /\ slots'[p] = slots[p] \union {s} /\ shares'[p] = shares[p]
      /\ \A q \in Pipe \ {p} :
           ring'[q] = ring[q] /\ slots'[q] = slots[q] /\ shares'[q] = shares[q]
      /\ UNCHANGED <<asleep, status, posted, abort, region>>
  BY <1>1 DEF Acquire, IInv, AllSteady
<1>8. AllSteady'
  <2>. HIDE DEF rg, s
  <2>. QED
    BY <1>6, <1>7, OnePipe DEF IInv
<1>9. rg.log = ring[p].log /\ rg.received = ring[p].received
  BY <1>3 DEF Taken, RingType
<1>10. Waiting' /\ Sleepers'
  <2>. HIDE DEF rg, s
  <2>. QED
    BY <1>1, <1>2, <1>7, <1>9, KeepsWaiting, KeepsSleepers
<1>11. Control'
  BY <1>1, <1>2, <1>7 DEF IInv, Control, region
<1>. QED
  BY <1>7, <1>8, <1>10, <1>11, SameBlame DEF IInv

LEMMA ReceiveStep ==
  ASSUME IInv, NEW p \in Pipe, NEW k \in Ends(p), Receive(p, k)
  PROVE  IInv'
<1>. DEFINE w == Receives(p, k)
            rg == [ring[p] EXCEPT !.received[k] = @ + 1]
            sh == [shares[p] EXCEPT ![k] = @ \union {NextShare(p, k)}]
<1>1. w \in Waits /\ Owner(w) = Consumer[p][k] /\ Consumer[p][k] \in Role
  BY AtReceive, Sizes DEF Waits
<1>2. /\ Left(w) > 0 /\ Ready(w) /\ Consumer[p][k] \notin asleep
      /\ doing' = [doing EXCEPT ![Consumer[p][k]] = Idle]
  BY <1>1, WaitIsOver DEF Receive
<1>3. Steady(p, ring[p], slots[p], shares[p]) /\ ring[p] \in RingType(p)
  BY DEF IInv, AllSteady, Steady
<1>4. ring[p].received \in [Ends(p) -> 0..Transfers[p]]
  BY <1>3, RingFields
<1>5. ring[p].received[k] < Transfers[p] /\ Len(ring[p].log) > ring[p].received[k]
  BY <1>2, <1>4, AtReceive, Sizes
<1>6. Steady(p, rg, slots[p], sh)
  BY <1>3, <1>5, ReceiveKeeps DEF NextShare
<1>7. /\ DOMAIN ring' = Pipe /\ DOMAIN slots' = Pipe /\ DOMAIN shares' = Pipe
      /\ ring'[p] = rg /\ slots'[p] = slots[p] /\ shares'[p] = sh
      /\ \A q \in Pipe \ {p} :
           ring'[q] = ring[q] /\ slots'[q] = slots[q] /\ shares'[q] = shares[q]
      /\ UNCHANGED <<asleep, status, posted, abort, region>>
  BY DEF Receive, IInv, AllSteady
<1>8. AllSteady'
  <2>. HIDE DEF rg, sh
  <2>. QED
    BY <1>6, <1>7, OnePipe DEF IInv
<1>9. /\ rg.log = ring[p].log /\ rg.acquired = ring[p].acquired
      /\ rg.released = ring[p].released
  BY <1>3 DEF RingType
<1>10. \A j \in Ends(p) : j = k \/ rg.received[j] = ring[p].received[j]
  BY <1>3, <1>4 DEF RingType
<1>11. Waiting' /\ Sleepers'
  <2>. HIDE DEF rg, sh
  <2>. QED
    BY <1>1, <1>2, <1>7, <1>9, <1>10, KeepsWaiting, KeepsSleepers
<1>12. Control'
  BY <1>1, <1>2, <1>7 DEF IInv, Control, region
<1>. QED
  BY <1>7, <1>8, <1>11, <1>12, SameBlame DEF IInv

\* Neither a commit nor a release changes what an end has left to wait for.
LEMMA SameWaiting ==
  ASSUME IInv, doing' = doing,
         \A q \in Pipe : ring'[q].acquired = ring[q].acquired /\ ring'[q].received = ring[q].received
  PROVE  Waiting'
<1>. SUFFICES ASSUME NEW t \in Role, doing[t] /= Idle
     PROVE  Owner(doing[t]) = t /\ Left(doing[t])' > 0
  BY DEF Waiting
<1>1. doing[t] \in Waits /\ doing[t][2] \in Pipe /\ Owner(doing[t]) = t /\ Left(doing[t]) > 0
  BY WaitCases DEF IInv, Control, Waiting
<1>. QED
  BY <1>1 DEF Left

LEMMA CommitStep ==
  ASSUME IInv, NEW p \in Pipe, NEW s \in Slot(p), Commit(p, s)
  PROVE  IInv'
<1>. DEFINE rg == Filled(ring[p], s)
<1>1. Steady(p, ring[p], slots[p], shares[p]) /\ ring[p] \in RingType(p) /\ s \in slots[p]
  BY DEF IInv, AllSteady, Steady, Commit
<1>2. Steady(p, rg, slots[p] \ {s}, shares[p])
  BY <1>1, CommitKeeps
<1>3. /\ DOMAIN ring' = Pipe /\ DOMAIN slots' = Pipe /\ DOMAIN shares' = Pipe
      /\ ring'[p] = rg /\ slots'[p] = slots[p] \ {s} /\ shares'[p] = shares[p]
      /\ \A q \in Pipe \ {p} :
           ring'[q] = ring[q] /\ slots'[q] = slots[q] /\ shares'[q] = shares[q]
      /\ asleep' = {} /\ UNCHANGED <<doing, status, posted, abort, region>>
  BY DEF Commit, IInv, AllSteady
<1>4. rg.acquired = ring[p].acquired /\ rg.received = ring[p].received
  BY <1>1 DEF Filled, RingType
<1>. HIDE DEF rg
<1>5. AllSteady'
  BY <1>2, <1>3, OnePipe DEF IInv
<1>6. Waiting'
  BY <1>3, <1>4, SameWaiting
<1>7. Control' /\ Sleepers'
  BY <1>3 DEF IInv, Control, Sleepers, region
<1>. QED
  BY <1>3, <1>5, <1>6, <1>7, SameBlame DEF IInv

LEMMA ReleaseStep ==
  ASSUME IInv, NEW p \in Pipe, NEW k \in Ends(p), NEW u \in shares[p][k], Release(p, k, u)
  PROVE  IInv'
<1>. DEFINE rg == [ring[p] EXCEPT !.released[u.slot] = @ + 1]
            sh == [shares[p] EXCEPT ![k] = @ \ {u}]
<1>1. Steady(p, ring[p], slots[p], shares[p]) /\ ring[p] \in RingType(p)
  BY DEF IInv, AllSteady, Steady
<1>2. Steady(p, rg, slots[p], sh)
  BY <1>1, ReleaseKeeps
<1>3. /\ DOMAIN ring' = Pipe /\ DOMAIN slots' = Pipe /\ DOMAIN shares' = Pipe
      /\ ring'[p] = rg /\ slots'[p] = slots[p] /\ shares'[p] = sh
      /\ \A q \in Pipe \ {p} :
           ring'[q] = ring[q] /\ slots'[q] = slots[q] /\ shares'[q] = shares[q]
      /\ asleep' = {} /\ UNCHANGED <<doing, status, posted, abort, region>>
  BY DEF Release, NotifyAll, IInv, AllSteady
<1>4. rg.acquired = ring[p].acquired /\ rg.received = ring[p].received
  BY <1>1 DEF RingType
<1>. HIDE DEF rg, sh
<1>5. AllSteady'
  BY <1>2, <1>3, OnePipe DEF IInv
<1>6. Waiting'
  BY <1>3, <1>4, SameWaiting
<1>7. Control' /\ Sleepers'
  BY <1>3 DEF IInv, Control, Sleepers, region
<1>. QED
  BY <1>3, <1>5, <1>6, <1>7, SameBlame DEF IInv

-----------------------------------------------------------------------------
(* Waiting, failing, ending. *)

LEMMA SleepStep ==
  ASSUME IInv, NEW r \in Role, Sleep(r)
  PROVE  IInv'
<1>1. PICK w \in NextWaits(r) : ~Ready(w) /\ doing' = [doing EXCEPT ![r] = w]
  BY DEF Sleep
<1>2. /\ status[r] = "running" /\ abort = Nobody /\ asleep' = asleep \union {r}
      /\ ring' = ring /\ UNCHANGED <<tokens, status, posted, abort, region>>
  BY DEF Sleep, Runs, tokens
<1>3. w \in Waits /\ w /= Idle /\ Owner(w) = r /\ Left(w) > 0
  BY WaitCases DEF NextWaits, IInv, Control, Waiting
<1>4. doing \in [Role -> {Idle} \union Waits] /\ doing' \in [Role -> {Idle} \union Waits]
  BY <1>1, <1>3 DEF IInv, Control
<1>5. Waiting'
  <2>. SUFFICES ASSUME NEW t \in Role, doing'[t] /= Idle
       PROVE  Owner(doing'[t]) = t /\ Left(doing[t])' > 0
    BY DEF Waiting
  <2>1. Left(doing[t])' = Left(doing'[t])
    BY <1>2 DEF Left
  <2>2. CASE t = r
    BY <2>1, <2>2, <1>1, <1>3, <1>4
  <2>3. CASE t /= r
    BY <2>1, <2>3, <1>1, <1>4 DEF IInv, Waiting
  <2>. QED
    BY <2>2, <2>3
<1>6. Sleepers'
  <2>. SUFFICES ASSUME NEW t \in asleep \union {r}
       PROVE  status[t] = "running" /\ doing'[t] /= Idle /\ ~Ready(doing[t])' /\ abort = Nobody
    BY <1>2 DEF Sleepers
  <2>1. Ready(doing[t])' <=> Ready(doing'[t])
    BY <1>2 DEF Ready
  <2>2. CASE t = r
    BY <2>1, <2>2, <1>1, <1>2, <1>3, <1>4
  <2>3. CASE t /= r
    BY <2>1, <2>3, <1>1, <1>2, <1>4 DEF IInv, Control, Sleepers
  <2>. QED
    BY <2>2, <2>3
<1>7. Control'
  BY <1>2, <1>4 DEF IInv, Control, region
<1>. QED
  BY <1>2, <1>5, <1>6, <1>7, SamePipes, SameBlame DEF IInv

\* A step that leaves the pipes and the waits alone.
LEMMA SameTokens ==
  ASSUME IInv, UNCHANGED <<tokens, doing>>
  PROVE  /\ AllSteady' /\ Waiting'
         /\ asleep' \subseteq asleep /\ abort' = abort
              /\ (\A t \in asleep' : status'[t] = status[t]) => Sleepers'
<1>1. ring' = ring /\ doing' = doing
  BY DEF tokens
<1>2. AllSteady'
  BY SamePipes DEF IInv
<1>3. Waiting'
  BY <1>1, SameWaiting
<1>4. \A t : Ready(doing[t])' <=> Ready(doing[t])
  BY <1>1 DEF Ready
<1>5. ASSUME asleep' \subseteq asleep, abort' = abort, \A t \in asleep' : status'[t] = status[t]
      PROVE  Sleepers'
  BY <1>1, <1>4, <1>5 DEF IInv, Sleepers
<1>. QED
  BY <1>2, <1>3, <1>5

\* A role that runs comes to an end, of its own or because another failed.
LEMMA EndStep ==
  ASSUME IInv, NEW r \in Role, Abandon(r) \/ Fail(r) \/ Finish(r)
  PROVE  IInv'
<1>1. PICK e \in {"aborted", "failed", "done"} :
        /\ status' = [status EXCEPT ![r] = e]
        /\ e = "aborted" => abort /= Nobody
  BY DEF Abandon, Fail, Finish
<1>2. /\ status[r] = "running" /\ r \notin asleep
      /\ UNCHANGED <<tokens, doing, asleep, posted, abort, region>>
  BY DEF Abandon, Fail, Finish, Free, Runs
<1>3. status \in [Role -> {"running", "done"} \union Errors] /\ status'[r] = e
      /\ \A t \in Role \ {r} : status'[t] = status[t]
  BY <1>1 DEF IInv, Control
<1>4. AllSteady' /\ Waiting' /\ Sleepers'
  BY <1>2, <1>3, SameTokens DEF IInv, Control
<1>5. Control'
  BY <1>1, <1>2, <1>3 DEF IInv, Control, Errors, region
<1>6. Blamed'
  <2>1. abort /= Nobody => abort[1] /= r
    BY <1>2 DEF IInv, Blamed
  <2>. QED
    BY <1>1, <1>2, <1>3, <2>1 DEF IInv, Blamed, Errors, Control
<1>7. Reported'
  BY <1>2, NotJoined DEF Reported, region
<1>. QED
  BY <1>4, <1>5, <1>6, <1>7 DEF IInv

LEMMA TimeOutStep ==
  ASSUME IInv, NEW r \in Role, TimeOut(r)
  PROVE  IInv'
<1>1. /\ r \in asleep /\ abort = Nobody /\ status[r] = "running"
      /\ status' = [status EXCEPT ![r] = "deadlock"] /\ abort' = <<r, "deadlock">> /\ asleep' = {}
      /\ UNCHANGED <<tokens, doing, posted, region>>
  BY DEF TimeOut, IInv, Sleepers
<1>2. status \in [Role -> {"running", "done"} \union Errors] /\ status'[r] = "deadlock"
      /\ posted = {} /\ abort' /= Nobody /\ abort'[1] = r /\ abort'[2] = "deadlock"
  BY <1>1 DEF IInv, Control, Blamed, Nobody
<1>3. AllSteady' /\ Waiting' /\ Sleepers'
  BY <1>1, SameTokens DEF Sleepers
<1>4. Control'
  BY <1>1, <1>2 DEF IInv, Control, Errors, Reasons, region
<1>5. Blamed'
  BY <1>1, <1>2 DEF Blamed
<1>6. Reported'
  BY <1>1, NotJoined DEF Reported, region
<1>. QED
  BY <1>3, <1>4, <1>5, <1>6 DEF IInv

\* The first error stands.  An error that is not first may be that of a role called off.
LEMMA PostStep ==
  ASSUME IInv, NEW r \in Role, Post(r)
  PROVE  IInv'
<1>1. /\ status[r] \in Errors /\ r \notin posted /\ posted' = posted \union {r}
      /\ abort' = Blame(r) /\ asleep' = {} /\ UNCHANGED <<tokens, doing, status, region>>
  BY DEF Post
<1>2. CASE abort = Nobody
  <2>1. status[r] = "failed" /\ abort' = <<r, status[r]>> /\ abort' /= Nobody
    BY <1>1, <1>2 DEF IInv, Blamed, Errors, Blame, Nobody
  <2>. QED
    <3>1. abort'[1] = r /\ abort'[2] = "failed"
      BY <2>1
    <3>2. Blamed'
      BY <1>1, <2>1, <3>1 DEF IInv, Blamed
    <3>3. AllSteady' /\ Waiting' /\ Sleepers'
      BY <1>1, SameTokens DEF Sleepers
    <3>4. Control'
      BY <1>1, <2>1 DEF IInv, Control, Errors, Reasons, region
    <3>5. Reported'
      BY <1>1 DEF IInv, Reported, region, Errors
    <3>. QED
      BY <3>2, <3>3, <3>4, <3>5 DEF IInv
<1>3. CASE abort /= Nobody
  <2>1. abort' = abort
    BY <1>1, <1>3 DEF Blame
  <2>2. Blamed'
    BY <1>1, <1>3, <2>1 DEF IInv, Blamed
  <2>3. AllSteady' /\ Waiting' /\ Sleepers'
    BY <1>1, SameTokens DEF Sleepers
  <2>4. Control'
    BY <1>1, <2>1 DEF IInv, Control, region
  <2>5. Reported'
    BY <1>1 DEF IInv, Reported, region, Errors
  <2>. QED
    BY <2>2, <2>3, <2>4, <2>5 DEF IInv
<1>. QED
  BY <1>2, <1>3

LEMMA JoinStep ==
  ASSUME IInv, Join
  PROVE  IInv'
<1>1. /\ \A r \in Role : status[r] = "done" \/ r \in posted
      /\ joined' = TRUE /\ outcome' = (IF posted = {} THEN Nobody ELSE abort)
      /\ UNCHANGED <<tokens, doing, asleep, status, posted, abort>>
  BY DEF Join
<1>2. AllSteady' /\ Waiting' /\ Sleepers'
  BY <1>1, SameTokens
<1>3. Control'
  BY <1>1 DEF IInv, Control, Reasons
<1>4. Blamed' /\ Reported'
  BY <1>1 DEF IInv, Blamed, Reported
<1>. QED
  BY <1>2, <1>3, <1>4 DEF IInv

LEMMA Stutter ==
  ASSUME IInv, UNCHANGED vars
  PROVE  IInv'
<1>1. UNCHANGED <<tokens, doing, asleep, status, posted, abort, region>>
  BY DEF vars
<1>2. AllSteady' /\ Waiting' /\ Sleepers'
  BY <1>1, SameTokens
<1>3. Control'
  BY <1>1 DEF IInv, Control, region
<1>. QED
  BY <1>1, <1>2, <1>3, SameBlame DEF IInv

LEMMA Inductive == IInv /\ [Next]_vars => IInv'
<1>. SUFFICES ASSUME IInv, Next \/ UNCHANGED vars PROVE IInv'
  OBVIOUS
<1>1. CASE UNCHANGED vars
  BY <1>1, Stutter
<1>2. CASE Join
  BY <1>2, JoinStep
<1>3. ASSUME NEW r \in Role, Work(r) \/ Fail(r)
      PROVE  IInv'
  <2>1. ASSUME NEW p \in Pipe, Acquire(p) \/ \E s \in Slot(p) : Commit(p, s)
        PROVE  IInv'
    BY <2>1, AcquireStep, CommitStep
  <2>2. ASSUME NEW p \in Pipe, NEW k \in Ends(p),
               Receive(p, k) \/ \E u \in shares[p][k] : Release(p, k, u)
        PROVE  IInv'
    BY <2>2, ReceiveStep, ReleaseStep
  <2>3. CASE Sleep(r) \/ TimeOut(r) \/ Post(r)
    BY <2>3, SleepStep, TimeOutStep, PostStep
  <2>4. CASE Abandon(r) \/ Fail(r) \/ Finish(r)
    BY <2>4, EndStep
  <2>. QED
    BY <1>3, <2>1, <2>2, <2>3, <2>4 DEF Work
<1>. QED
  BY <1>1, <1>2, <1>3 DEF Next

-----------------------------------------------------------------------------
(* The theorems. *)

LEMMA Invariant == Spec => []IInv
<1>1. Init => IInv
  BY InitHolds
<1>2. IInv /\ [Next]_vars => IInv'
  BY Inductive
<1>. QED
  BY <1>1, <1>2, PTL DEF Spec

\* Every ring, token and role is as it should be; in particular no pipe is acquired or received
\* from more often than its program sends, and no slot is released by more than its consumers
\* (interp.rs, Ring).
THEOREM RingTypes == Spec => []TypeOK
<1>1. IInv => TypeOK
  BY DEF IInv, AllSteady, Steady, Shares, Control, TypeOK
<1>. QED
  BY <1>1, Invariant, PTL

\* While a share is held its slot is not refilled, and every consumer's n-th receive sees the
\* n-th commit, for any number of pipes, slots and consumers and in whatever order slots are
\* committed and shares released (interp.rs, Ring and the race check of a borrowed part).
THEOREM SharesAlwaysStand == Spec => []SharesStand
<1>1. IInv => SharesStand
  BY DEF IInv, AllSteady, Steady, Stand, SharesStand
<1>. QED
  BY <1>1, Invariant, PTL

\* Whoever sleeps still has something to wait for: no commit, release or abort goes unnoticed
\* (interp.rs, wait_until and notify_all).
THEOREM NoneLost == Spec => []NoLostWakeup
<1>1. IInv => NoLostWakeup
  BY DEF IInv, Sleepers, NoLostWakeup
<1>. QED
  BY <1>1, Invariant, PTL

\* A region that fails reports the error of a role that failed by itself or waited too long,
\* never of one called off (interp.rs, abort and specialize).
THEOREM RootAlwaysFound == Spec => []RootCause
<1>1. IInv => RootCause
  BY DEF IInv, Blamed, Reported, RootCause
<1>. QED
  BY <1>1, Invariant, PTL

-----------------------------------------------------------------------------
(* Deadlock. *)

\* One pipe, and a role for each of its ends.
Simple ==
  /\ Disciplined
  /\ \A p, q \in Pipe : p = q
  /\ \A p \in Pipe : \A k \in Ends(p) :
       /\ Consumer[p][k] /= Producer[p]
       /\ \A j \in Ends(p) : Consumer[p][j] = Consumer[p][k] => j = k

\* Slots are filled in turn, one at a time, and a consumer has an unbroken run of shares up to
\* the one it received last.
Lined(p, rg, held, sh) ==
  /\ \/ held = {} /\ rg.acquired = Len(rg.log)
     \/ held = {Len(rg.log) % Stages[p]} /\ rg.acquired = Len(rg.log) + 1
  /\ \A n \in 1..Len(rg.log) : rg.log[n] = (n - 1) % Stages[p]
  /\ \A k \in Ends(p) :
       /\ IsFiniteSet(sh[k])
       /\ \A u \in sh[k] :
            /\ u.nth >= 1
            /\ \A n \in u.nth..rg.received[k] : \E v \in sh[k] : v.nth = n

AllLined == \A p \in Pipe : Lined(p, ring[p], slots[p], shares[p])

\* Who waits was allowed to, and still is.
Polite == \A r \in Role : doing[r] /= Idle => MayWait(doing[r])

\* Who is over has used up its tokens and met its counts, for good.
Spent == \A r \in Role : status[r] = "done" => Drained(r)

LInv == IInv /\ AllLined /\ Polite

-----------------------------------------------------------------------------
\* Two numbers with the same remainder are apart by the divisor at least.
LEMMA Apart ==
  ASSUME NEW a \in Nat, NEW b \in Nat, NEW n \in Nat \ {0}, a < b, a % n = b % n
  PROVE  b - a >= n
<1>. DEFINE q1 == a \div n
            q2 == b \div n
<1>1. q1 \in Int /\ q2 \in Int /\ a = n * q1 + (a % n) /\ b = n * q2 + (b % n)
  OBVIOUS
<1>2. a % n \in Int /\ b % n \in Int
  OBVIOUS
<1>3. n * q2 > n * q1
  BY <1>1, <1>2
<1>. HIDE DEF q1, q2
<1>4. q2 > q1
  <2>1. \A i, j \in Int : i <= j => n * i <= n * j
    OBVIOUS
  <2>. QED
    BY <1>1, <1>3, <2>1
<1>5. n * q2 >= n * q1 + n
  <2>1. \A i, j \in Int : i <= j => n * i <= n * j
    OBVIOUS
  <2>2. n * (q1 + 1) = n * q1 + n
    BY <1>1
  <2>. QED
    BY <1>1, <1>4, <2>1, <2>2
<1>. QED
  BY <1>1, <1>2, <1>5

-----------------------------------------------------------------------------
(* Each operation keeps its pipe in line. *)

LEMMA AcquireLines ==
  ASSUME NEW p \in Pipe, NEW rg \in RingType(p), NEW sh, Lined(p, rg, {}, sh)
  PROVE  Lined(p, Taken(rg, rg.acquired % Stages[p]), {rg.acquired % Stages[p]}, sh)
<1> DEFINE new == Taken(rg, rg.acquired % Stages[p])
<1>1. new.log = rg.log /\ new.received = rg.received /\ new.acquired = rg.acquired + 1
  BY DEF Taken, RingType
<1>2. rg.acquired = Len(rg.log)
  BY DEF Lined
<1>. HIDE DEF new
<1>3. Lined(p, new, {rg.acquired % Stages[p]}, sh)
  BY <1>1, <1>2 DEF Lined
<1>. QED
  BY <1>3 DEF new

LEMMA CommitLines ==
  ASSUME NEW p \in Pipe, NEW rg \in RingType(p), NEW held, NEW sh, Lined(p, rg, held, sh), NEW s \in held
  PROVE  Lined(p, Filled(rg, s), held \ {s}, sh)
<1> DEFINE new == Filled(rg, s)
<1>1. /\ held = {s} /\ s = Len(rg.log) % Stages[p] /\ rg.acquired = Len(rg.log) + 1
      /\ rg.log \in Seq(Slot(p))
  BY RingFields DEF Lined
<1>2. /\ new.log = Append(rg.log, s) /\ new.received = rg.received /\ new.acquired = rg.acquired
  BY DEF Filled, RingType
<1>3. Len(new.log) = Len(rg.log) + 1 /\ new.acquired = Len(new.log)
  BY <1>1, <1>2
<1>4. ASSUME NEW n \in 1..Len(new.log)
      PROVE  new.log[n] = (n - 1) % Stages[p]
  <2>1. CASE n = Len(rg.log) + 1
    BY <2>1, <1>1, <1>2
  <2>2. CASE n \in 1..Len(rg.log)
    BY <2>2, <1>1, <1>2 DEF Lined
  <2>. QED
    BY <2>1, <2>2, <1>1, <1>3
<1>. HIDE DEF new
<1>5. Lined(p, new, held \ {s}, sh)
  BY <1>1, <1>2, <1>3, <1>4 DEF Lined
<1>. QED
  BY <1>5 DEF new

LEMMA ReceiveLines ==
  ASSUME NEW p \in Pipe, NEW rg \in RingType(p), NEW held, NEW sh \in Shares(p), NEW k \in Ends(p),
         Lined(p, rg, held, sh), NEW u, u.nth = rg.received[k] + 1
  PROVE  Lined(p, [rg EXCEPT !.received[k] = @ + 1], held, [sh EXCEPT ![k] = @ \union {u}])
<1> DEFINE new == [rg EXCEPT !.received[k] = @ + 1]
           have == [sh EXCEPT ![k] = @ \union {u}]
<1>1. rg.received \in [Ends(p) -> Nat] /\ Transfers[p] \in Nat
  BY RingFields, Sizes
<1>2. /\ new.log = rg.log /\ new.acquired = rg.acquired
      /\ new.received = [rg.received EXCEPT ![k] = rg.received[k] + 1]
  BY <1>1 DEF RingType
<1>3. have[k] = sh[k] \union {u} /\ \A j \in Ends(p) \ {k} : have[j] = sh[j]
  BY DEF Shares
<1>4. ASSUME NEW j \in Ends(p)
      PROVE  /\ IsFiniteSet(have[j])
             /\ \A v \in have[j] :
                  /\ v.nth >= 1
                  /\ \A n \in v.nth..new.received[j] : \E x \in have[j] : x.nth = n
  <2>1. CASE j /= k
    BY <2>1, <1>1, <1>2, <1>3 DEF Lined
  <2>2. CASE j = k
    <3>1. IsFiniteSet(have[k])
      <4>1. IsFiniteSet(sh[k] \union {u})
        BY FS_AddElement DEF Lined
      <4>. QED
        BY <4>1, <1>3
    <3>2. ASSUME NEW v \in have[k]
          PROVE  v.nth >= 1 /\ \A n \in v.nth..new.received[k] : \E x \in have[k] : x.nth = n
      <4>1. new.received[k] = rg.received[k] + 1 /\ rg.received[k] \in Nat
        BY <1>1, <1>2
      <4>2. CASE v = u
        <5>1. u \in have[k] /\ u.nth = new.received[k] /\ u.nth >= 1 /\ u.nth \in Nat
          BY <1>3, <4>1
        <5>. QED
          BY <4>2, <5>1
      <4>3. CASE v \in sh[k]
        <5>1. /\ v.nth >= 1 /\ v.nth \in Nat
              /\ \A n \in v.nth..rg.received[k] : \E x \in sh[k] : x.nth = n
          BY <4>3 DEF Lined, Shares, ShareType
        <5>2. ASSUME NEW n \in v.nth..new.received[k]
              PROVE  \E x \in have[k] : x.nth = n
          <6>1. CASE n = new.received[k]
            BY <6>1, <1>3, <4>1
          <6>2. CASE n \in v.nth..rg.received[k]
            BY <6>2, <5>1, <1>3
          <6>. QED
            BY <6>1, <6>2, <4>1, <5>1
        <5>. QED
          BY <5>1, <5>2
      <4>. QED
        BY <4>2, <4>3, <1>3
    <3>. QED
      BY <2>2, <3>1, <3>2
  <2>. QED
    BY <2>1, <2>2
<1>. HIDE DEF new, have
<1>5. Lined(p, new, held, have)
  BY <1>2, <1>4 DEF Lined
<1>. QED
  BY <1>5 DEF new, have

\* Two shares of one receive are one share: the oldest of a run leaves a run.
LEMMA ReleaseLines ==
  ASSUME NEW p \in Pipe, NEW rg, NEW held, NEW sh, Steady(p, rg, held, sh), NEW k \in Ends(p),
         Lined(p, rg, held, sh), NEW u \in sh[k], \A v \in sh[k] : u.nth <= v.nth
  PROVE  Lined(p, [rg EXCEPT !.released[u.slot] = @ + 1], held, [sh EXCEPT ![k] = @ \ {u}])
<1> DEFINE new == [rg EXCEPT !.released[u.slot] = @ + 1]
           have == [sh EXCEPT ![k] = @ \ {u}]
<1>1. rg \in RingType(p) /\ sh \in [Ends(p) -> SUBSET ShareType(p)]
  BY DEF Steady, Shares
<1>2. new.log = rg.log /\ new.acquired = rg.acquired /\ new.received = rg.received
  BY <1>1 DEF RingType
<1>3. have[k] = sh[k] \ {u} /\ \A j \in Ends(p) \ {k} : have[j] = sh[j]
  BY <1>1
<1>4. ASSUME NEW v \in sh[k], v.nth = u.nth
      PROVE  v = u
  <2>1. /\ v \in ShareType(p) /\ u \in ShareType(p) /\ v.nth >= 1 /\ u.nth >= 1
        /\ rg.data[v.slot] = v.nth /\ rg.data[u.slot] = u.nth
        /\ rg.generation[v.slot] = v.generation /\ rg.generation[u.slot] = u.generation
    BY <1>1 DEF Steady, Stand, Lined
  <2>2. v.slot = rg.log[rg.data[v.slot]] /\ u.slot = rg.log[rg.data[u.slot]]
    BY <2>1 DEF Steady, Logged, ShareType
  <2>. QED
    BY <1>4, <2>1, <2>2 DEF ShareType
<1>5. ASSUME NEW v \in have[k], NEW n \in v.nth..rg.received[k]
      PROVE  \E x \in have[k] : x.nth = n
  <2>1. v \in sh[k] /\ v /= u /\ v.nth \in Nat /\ u.nth \in Nat /\ u.nth <= v.nth /\ v.nth /= u.nth
    BY <1>1, <1>3, <1>4 DEF ShareType
  <2>2. PICK x \in sh[k] : x.nth = n
    BY <2>1 DEF Lined
  <2>3. x /= u
    BY <2>1, <2>2
  <2>. QED
    BY <1>3, <2>2, <2>3
<1>6. IsFiniteSet(have[k])
  <2>1. IsFiniteSet(sh[k] \ {u})
    BY FS_RemoveElement DEF Lined
  <2>. QED
    BY <2>1, <1>3
<1>. HIDE DEF new, have
<1>7. ASSUME NEW j \in Ends(p)
      PROVE  /\ IsFiniteSet(have[j])
             /\ \A v \in have[j] :
                  v.nth >= 1 /\ \A n \in v.nth..rg.received[j] : \E x \in have[j] : x.nth = n
  <2>1. CASE j = k
    <3>1. \A v \in have[k] : v.nth >= 1
      BY <1>3 DEF Lined
    <3>. QED
      BY <2>1, <3>1, <1>5, <1>6
  <2>2. CASE j /= k
    BY <2>2, <1>3 DEF Lined
  <2>. QED
    BY <2>1, <2>2
<1>8. Lined(p, new, held, have)
  BY <1>2, <1>7 DEF Lined
<1>. QED
  BY <1>8 DEF new, have

-----------------------------------------------------------------------------
(* So does every step of the region. *)

\* What may be waited for at an end changes by what its own role does.
LEMMA KeepsPolite ==
  ASSUME LInv, NEW p \in Pipe, NEW r \in Role, doing'[r] = Idle,
         \A t \in Role \ {r} : doing'[t] = doing[t],
         \A q \in Pipe \ {p} : slots'[q] = slots[q] /\ shares'[q] = shares[q],
         Producer[p] = r \/ slots'[p] = slots[p],
         \A k \in Ends(p) : Consumer[p][k] = r \/ shares'[p][k] = shares[p][k]
  PROVE  Polite'
<1>. SUFFICES ASSUME NEW t \in Role, doing'[t] /= Idle
     PROVE  MayWait(doing[t])'
  BY DEF Polite
<1>1. t /= r /\ doing'[t] = doing[t] /\ doing[t] \in Waits /\ Owner(doing[t]) = t /\ MayWait(doing[t])
  BY DEF LInv, IInv, Control, Waiting, Polite
<1>. DEFINE w == doing[t]
<1>2. CASE w[1] = "acquire"
  <2>1. w[2] \in Pipe /\ slots'[w[2]] = slots[w[2]]
    BY <1>1, <1>2, WaitCases DEF Owner
  <2>. QED
    BY <1>1, <1>2, <2>1 DEF MayWait
<1>3. CASE w[1] /= "acquire"
  <2>1. w[2] \in Pipe /\ w[3] \in Ends(w[2]) /\ shares'[w[2]][w[3]] = shares[w[2]][w[3]]
    BY <1>1, <1>3, WaitCases DEF Owner
  <2>. QED
    BY <1>1, <1>3, <2>1 DEF MayWait
<1>. QED
  BY <1>2, <1>3

LEMMA OnePipeLined ==
  ASSUME AllLined, NEW p \in Pipe, Lined(p, ring'[p], slots'[p], shares'[p]),
         \A q \in Pipe \ {p} :
           ring'[q] = ring[q] /\ slots'[q] = slots[q] /\ shares'[q] = shares[q]
  PROVE  AllLined'
<1>1. \A q \in Pipe : Lined(q, ring'[q], slots'[q], shares'[q])
  BY DEF AllLined
<1>. QED
  BY <1>1 DEF AllLined

LEMMA AcquireInLine ==
  ASSUME LInv, Simple, NEW p \in Pipe, Acquire(p)
  PROVE  AllLined' /\ Polite'
<1>. DEFINE w == Acquires(p)
            s == ring[p].acquired % Stages[p]
<1>1. /\ ring[p] \in RingType(p) /\ Lined(p, ring[p], slots[p], shares[p])
      /\ Producer[p] \in Role /\ DOMAIN ring = Pipe /\ DOMAIN slots = Pipe
  BY Sizes DEF LInv, IInv, AllSteady, Steady, AllLined
<1>2. /\ ring'[p] = Taken(ring[p], s) /\ slots'[p] = slots[p] \union {s} /\ shares' = shares
      /\ \A q \in Pipe \ {p} : ring'[q] = ring[q] /\ slots'[q] = slots[q]
      /\ doing' = [doing EXCEPT ![Producer[p]] = Idle]
  BY <1>1, AtAcquire DEF Acquire, Waited
<1>3. slots[p] = {}
  <2>1. w \in NextWaits(Producer[p])
    BY AtAcquire DEF Acquire, Waited
  <2>2. MayWait(w)
    BY <1>1, <2>1 DEF NextWaits, LInv, Polite
  <2>3. Cardinality(slots[p]) = 0
    BY <2>2 DEF MayWait, Simple, Acquires
  <2>4. slots[p] = {} \/ \E x : slots[p] = {x}
    BY <1>1 DEF Lined
  <2>5. \A x : Cardinality({x}) = 1
    BY FS_Singleton, Zenon
  <2>6. ASSUME NEW x, slots[p] = {x}
        PROVE  FALSE
    <3>1. Cardinality(slots[p]) = 1
      BY <2>5, <2>6, Zenon
    <3>. QED
      BY <2>3, <3>1
  <2>. QED
    BY <2>4, <2>6
<1>4. AllLined'
  <2>1. Lined(p, ring'[p], slots'[p], shares'[p])
    BY <1>1, <1>2, <1>3, AcquireLines
  <2>. QED
    BY <1>2, <2>1, OnePipeLined DEF LInv
<1>5. Polite'
  BY <1>1, <1>2, KeepsPolite DEF LInv, IInv, Control
<1>. QED
  BY <1>4, <1>5

LEMMA CommitInLine ==
  ASSUME LInv, NEW p \in Pipe, NEW s \in Slot(p), Commit(p, s)
  PROVE  AllLined' /\ Polite'
<1>1. /\ ring[p] \in RingType(p) /\ Lined(p, ring[p], slots[p], shares[p]) /\ s \in slots[p]
      /\ Producer[p] \in Role /\ DOMAIN ring = Pipe /\ DOMAIN slots = Pipe
  BY Sizes DEF LInv, IInv, AllSteady, Steady, AllLined, Commit
<1>2. /\ ring'[p] = Filled(ring[p], s) /\ slots'[p] = slots[p] \ {s} /\ shares' = shares
      /\ \A q \in Pipe \ {p} : ring'[q] = ring[q] /\ slots'[q] = slots[q]
      /\ doing' = doing /\ doing[Producer[p]] = Idle
  BY <1>1 DEF Commit, Free
<1>3. Lined(p, ring'[p], slots'[p], shares'[p])
  BY <1>1, <1>2, CommitLines
<1>4. AllLined'
  BY <1>2, <1>3, OnePipeLined DEF LInv
<1>5. Polite'
  BY <1>1, <1>2, KeepsPolite
<1>. QED
  BY <1>4, <1>5

LEMMA ReceiveInLine ==
  ASSUME LInv, NEW p \in Pipe, NEW k \in Ends(p), Receive(p, k)
  PROVE  AllLined' /\ Polite'
<1>. DEFINE rg == [ring[p] EXCEPT !.received[k] = @ + 1]
            sh == [shares[p] EXCEPT ![k] = @ \union {NextShare(p, k)}]
<1>1. /\ ring[p] \in RingType(p) /\ shares[p] \in Shares(p) /\ Lined(p, ring[p], slots[p], shares[p])
      /\ Consumer[p][k] \in Role /\ DOMAIN ring = Pipe /\ DOMAIN shares = Pipe
  BY Sizes DEF LInv, IInv, AllSteady, Steady, AllLined
<1>2. /\ ring'[p] = rg /\ shares'[p] = sh /\ slots' = slots
      /\ \A q \in Pipe \ {p} : ring'[q] = ring[q] /\ shares'[q] = shares[q]
      /\ doing' = [doing EXCEPT ![Consumer[p][k]] = Idle]
  BY <1>1, AtReceive DEF Receive, Waited
<1>3. Lined(p, ring'[p], slots'[p], shares'[p])
  <2>1. NextShare(p, k).nth = ring[p].received[k] + 1
    BY DEF NextShare
  <2>2. Lined(p, rg, slots[p], sh)
    BY <1>1, <2>1, ReceiveLines
  <2>. QED
    BY <1>2, <2>2
<1>4. AllLined'
  BY <1>2, <1>3, OnePipeLined DEF LInv
<1>5. Polite'
  <2>1. \A j \in Ends(p) : j = k \/ shares'[p][j] = shares[p][j]
    BY <1>1, <1>2 DEF Shares
  <2>2. doing'[Consumer[p][k]] = Idle /\ \A t \in Role \ {Consumer[p][k]} : doing'[t] = doing[t]
    BY <1>1, <1>2 DEF LInv, IInv, Control
  <2>. QED
    <3>1. /\ slots'[p] = slots[p]
          /\ \A q \in Pipe \ {p} : slots'[q] = slots[q] /\ shares'[q] = shares[q]
          /\ \A j \in Ends(p) : Consumer[p][j] = Consumer[p][k] \/ shares'[p][j] = shares[p][j]
      BY <1>2, <2>1
    <3>. HIDE DEF sh, rg
    <3>. QED
      BY <1>1, <2>2, <3>1, KeepsPolite
<1>. QED
  BY <1>4, <1>5

LEMMA ReleaseInLine ==
  ASSUME LInv, Simple, NEW p \in Pipe, NEW k \in Ends(p), NEW u \in shares[p][k], Release(p, k, u)
  PROVE  AllLined' /\ Polite'
<1>. DEFINE rg == [ring[p] EXCEPT !.released[u.slot] = @ + 1]
            sh == [shares[p] EXCEPT ![k] = @ \ {u}]
<1>1. /\ Steady(p, ring[p], slots[p], shares[p]) /\ shares[p] \in Shares(p)
      /\ Lined(p, ring[p], slots[p], shares[p])
      /\ Consumer[p][k] \in Role /\ DOMAIN ring = Pipe /\ DOMAIN shares = Pipe
  BY Sizes DEF LInv, IInv, AllSteady, Steady, AllLined
<1>2. /\ ring'[p] = rg /\ shares'[p] = sh /\ slots' = slots
      /\ \A q \in Pipe \ {p} : ring'[q] = ring[q] /\ shares'[q] = shares[q]
      /\ doing' = doing /\ doing[Consumer[p][k]] = Idle
      /\ \A v \in shares[p][k] : u.nth <= v.nth
  BY <1>1 DEF Release, Free, Simple
<1>3. Lined(p, ring'[p], slots'[p], shares'[p])
  BY <1>1, <1>2, ReleaseLines
<1>4. AllLined'
  BY <1>2, <1>3, OnePipeLined DEF LInv
<1>5. Polite'
  <2>1. \A j \in Ends(p) : j = k \/ shares'[p][j] = shares[p][j]
    BY <1>1, <1>2 DEF Shares
  <2>2. /\ slots'[p] = slots[p]
        /\ \A q \in Pipe \ {p} : slots'[q] = slots[q] /\ shares'[q] = shares[q]
        /\ \A j \in Ends(p) : Consumer[p][j] = Consumer[p][k] \/ shares'[p][j] = shares[p][j]
    BY <1>2, <2>1
  <2>3. doing'[Consumer[p][k]] = Idle /\ \A t \in Role \ {Consumer[p][k]} : doing'[t] = doing[t]
    BY <1>2
  <2>. HIDE DEF sh, rg
  <2>. QED
    BY <1>1, <2>2, <2>3, KeepsPolite
<1>. QED
  BY <1>4, <1>5

LEMMA SleepInLine ==
  ASSUME LInv, NEW r \in Role, Sleep(r)
  PROVE  AllLined' /\ Polite'
<1>1. PICK w \in NextWaits(r) : doing' = [doing EXCEPT ![r] = w]
  BY DEF Sleep
<1>2. UNCHANGED tokens /\ slots' = slots /\ shares' = shares /\ ring' = ring
  BY DEF Sleep, tokens
<1>3. MayWait(w)
  BY DEF NextWaits, LInv, Polite
<1>4. AllLined'
  BY <1>2 DEF LInv, AllLined
<1>5. ASSUME NEW t \in Role, doing'[t] /= Idle
      PROVE  MayWait(doing[t])'
  <2>1. MayWait(doing'[t])
    BY <1>1, <1>3, <1>5 DEF LInv, Polite, IInv, Control
  <2>. QED
    BY <2>1, <1>2 DEF MayWait
<1>. QED
  BY <1>4, <1>5 DEF Polite

LEMMA SameLine ==
  ASSUME LInv, UNCHANGED <<tokens, doing>>
  PROVE  AllLined' /\ Polite'
BY DEF LInv, AllLined, Polite, MayWait, tokens

LEMMA StartsInLine == Init => AllLined /\ Polite
<1>. SUFFICES ASSUME Init PROVE AllLined /\ Polite
  OBVIOUS
<1>1. ASSUME NEW p \in Pipe
      PROVE  Lined(p, ring[p], slots[p], shares[p])
  <2>1. /\ ring[p].log = <<>> /\ ring[p].acquired = 0 /\ slots[p] = {}
        /\ \A k \in Ends(p) : shares[p][k] = {}
    BY DEF Init
  <2>2. IsFiniteSet({}) /\ Len(ring[p].log) = 0
    BY <2>1, FS_EmptySet
  <2>3. ring[p].acquired = Len(ring[p].log) /\ 1..Len(ring[p].log) = {}
    BY <2>1, <2>2
  <2>. QED
    BY <2>1, <2>2, <2>3, Zenon DEF Lined
<1>. QED
  BY <1>1 DEF Init, AllLined, Polite

LEMMA StaysInLine == Simple /\ LInv /\ [Next]_vars => AllLined' /\ Polite'
<1>. SUFFICES ASSUME Simple, LInv, Next \/ UNCHANGED vars PROVE AllLined' /\ Polite'
  OBVIOUS
<1>1. CASE UNCHANGED vars \/ Join
  BY <1>1, SameLine DEF vars, Join
<1>2. ASSUME NEW r \in Role, Work(r) \/ Fail(r)
      PROVE  AllLined' /\ Polite'
  <2>1. ASSUME NEW p \in Pipe, Acquire(p) \/ \E s \in Slot(p) : Commit(p, s)
        PROVE  AllLined' /\ Polite'
    BY <2>1, AcquireInLine, CommitInLine
  <2>2. ASSUME NEW p \in Pipe, NEW k \in Ends(p),
               Receive(p, k) \/ \E u \in shares[p][k] : Release(p, k, u)
        PROVE  AllLined' /\ Polite'
    BY <2>2, ReceiveInLine, ReleaseInLine
  <2>3. CASE Sleep(r)
    BY <2>3, SleepInLine
  <2>4. CASE Abandon(r) \/ TimeOut(r) \/ Post(r) \/ Fail(r) \/ Finish(r)
    <3>1. UNCHANGED <<tokens, doing>>
      BY <2>4 DEF Abandon, TimeOut, Post, Fail, Finish
    <3>. QED
      BY <3>1, SameLine
  <2>. QED
    BY <1>2, <2>1, <2>2, <2>3, <2>4 DEF Work
<1>. QED
  BY <1>1, <1>2 DEF Next

-----------------------------------------------------------------------------
(* Who is over stays so. *)

LEMMA DrainedIs ==
  ASSUME NEW r
  PROVE  Drained(r) <=>
           \A p \in Pipe :
             /\ Producer[p] = r => Transfers[p] - ring[p].acquired = 0 /\ slots[p] = {}
             /\ \A k \in Ends(p) :
                  Consumer[p][k] = r => Transfers[p] - ring[p].received[k] = 0 /\ shares[p][k] = {}
<1>1. (\A w \in Waits : Owner(w) = r => Left(w) = 0) <=>
        \A p \in Pipe :
          /\ Producer[p] = r => Transfers[p] - ring[p].acquired = 0
          /\ \A k \in Ends(p) : Consumer[p][k] = r => Transfers[p] - ring[p].received[k] = 0
  <2>1. \A p \in Pipe : Acquires(p) \in Waits /\ \A k \in Ends(p) : Receives(p, k) \in Waits
    BY DEF Waits
  <2>2. ASSUME NEW w \in Waits
        PROVE  \E p \in Pipe : w = Acquires(p) \/ \E k \in Ends(p) : w = Receives(p, k)
    BY DEF Waits
  <2>. QED
    BY <2>1, <2>2, AtAcquire, AtReceive
<1>. QED
  BY <1>1 DEF Drained

LEMMA KeepsSpent ==
  ASSUME IInv, Spent, NEW p \in Pipe, NEW r \in Role, status[r] = "running", status' = status,
         \A q \in Pipe \ {p} : ring'[q] = ring[q] /\ slots'[q] = slots[q] /\ shares'[q] = shares[q],
         Producer[p] = r \/ (ring'[p].acquired = ring[p].acquired /\ slots'[p] = slots[p]),
         \A k \in Ends(p) :
           \/ Consumer[p][k] = r
           \/ ring'[p].received[k] = ring[p].received[k] /\ shares'[p][k] = shares[p][k]
  PROVE  Spent'
<1>. SUFFICES ASSUME NEW t \in Role, status[t] = "done"
     PROVE  Drained(t)'
  BY DEF Spent
<1>1. t /= r /\ Drained(t)
  BY DEF Spent
<1>2. ASSUME NEW w \in Waits, Owner(w) = t
      PROVE  Left(w)' = 0
  <2>1. Left(w) = 0
    BY <1>1, <1>2 DEF Drained
  <2>2. CASE w[1] = "acquire"
    <3>1. w[2] \in Pipe /\ Producer[w[2]] = t
      BY <1>2, <2>2, WaitCases DEF Owner
    <3>2. ring'[w[2]].acquired = ring[w[2]].acquired
      BY <1>1, <3>1
    <3>. QED
      BY <2>1, <2>2, <3>2 DEF Left
  <2>3. CASE w[1] /= "acquire"
    <3>1. w[2] \in Pipe /\ w[3] \in Ends(w[2]) /\ Consumer[w[2]][w[3]] = t
      BY <1>2, <2>3, WaitCases DEF Owner
    <3>2. ring'[w[2]].received[w[3]] = ring[w[2]].received[w[3]]
      BY <1>1, <3>1
    <3>. QED
      BY <2>1, <2>3, <3>2 DEF Left
  <2>. QED
    BY <2>2, <2>3
<1>3. ASSUME NEW q \in Pipe
      PROVE  /\ Producer[q] = t => slots'[q] = {}
             /\ \A k \in Ends(q) : Consumer[q][k] = t => shares'[q][k] = {}
  BY <1>1 DEF Drained
<1>. QED
  BY <1>2, <1>3 DEF Drained

LEMMA SameSpent ==
  ASSUME Spent, UNCHANGED tokens, NEW r \in Role,
         \A t \in Role : status'[t] = "done" => status[t] = "done" \/ (t = r /\ Drained(r))
  PROVE  Spent'
<1>. SUFFICES ASSUME NEW t \in Role, status'[t] = "done"
     PROVE  Drained(t)'
  BY DEF Spent
<1>1. Drained(t)
  BY DEF Spent
<1>. QED
  BY <1>1 DEF Drained, Left, tokens

LEMMA StaysSpent == IInv /\ Spent /\ [Next]_vars => Spent'
<1>. SUFFICES ASSUME IInv, Spent, Next \/ UNCHANGED vars PROVE Spent'
  OBVIOUS
<1>1. DOMAIN ring = Pipe /\ DOMAIN slots = Pipe /\ DOMAIN shares = Pipe
      /\ \A p \in Pipe : shares[p] \in Shares(p) /\ ring[p] \in RingType(p)
  BY DEF IInv, AllSteady, Steady
<1>2. CASE UNCHANGED vars \/ Join
  BY <1>2 DEF vars, Join, Spent, Drained, Left, tokens
<1>3. ASSUME NEW r \in Role, Work(r) \/ Fail(r)
      PROVE  Spent'
  <2>1. ASSUME NEW p \in Pipe, Producer[p] = r, Acquire(p) \/ \E s \in Slot(p) : Commit(p, s)
        PROVE  Spent'
    <3>1. /\ status[r] = "running" /\ status' = status /\ shares' = shares
          /\ \A q \in Pipe \ {p} : ring'[q] = ring[q] /\ slots'[q] = slots[q]
      BY <1>1, <2>1, AtAcquire DEF Acquire, Commit, Waited, Free, Runs
    <3>2. ring'[p].received = ring[p].received
      <4>1. ASSUME NEW s
            PROVE  Taken(ring[p], s).received = ring[p].received /\ Filled(ring[p], s).received = ring[p].received
        BY <1>1 DEF Taken, Filled, RingType
      <4>2. \E s : ring'[p] = Taken(ring[p], s) \/ ring'[p] = Filled(ring[p], s)
        BY <1>1, <2>1 DEF Acquire, Commit
      <4>. QED
        BY <4>1, <4>2
    <3>3. \A q \in Pipe \ {p} : ring'[q] = ring[q] /\ slots'[q] = slots[q] /\ shares'[q] = shares[q]
      BY <3>1
    <3>4. \A k \in Ends(p) :
            \/ Consumer[p][k] = r
            \/ ring'[p].received[k] = ring[p].received[k] /\ shares'[p][k] = shares[p][k]
      BY <3>1, <3>2
    <3>5. Producer[p] = r \/ (ring'[p].acquired = ring[p].acquired /\ slots'[p] = slots[p])
      BY <2>1
    <3>6. status[r] = "running" /\ status' = status
      BY <3>1
    <3>. QED
      BY <3>3, <3>4, <3>5, <3>6, KeepsSpent, Zenon
  <2>2. ASSUME NEW p \in Pipe, NEW k \in Ends(p), Consumer[p][k] = r,
               Receive(p, k) \/ \E u \in shares[p][k] : Release(p, k, u)
        PROVE  Spent'
    <3>1. /\ status[r] = "running" /\ status' = status /\ slots' = slots
          /\ \A q \in Pipe \ {p} : ring'[q] = ring[q] /\ shares'[q] = shares[q]
      BY <1>1, <2>2, AtReceive DEF Receive, Release, Waited, Free, Runs
    <3>2. ring'[p].acquired = ring[p].acquired
      BY <1>1, <2>2 DEF Receive, Release, RingType
    <3>3. ASSUME NEW j \in Ends(p), j /= k
          PROVE  ring'[p].received[j] = ring[p].received[j] /\ shares'[p][j] = shares[p][j]
      <4>1. CASE Receive(p, k)
        <5>1. /\ ring'[p] = [ring[p] EXCEPT !.received[k] = @ + 1]
              /\ shares'[p] = [shares[p] EXCEPT ![k] = @ \union {NextShare(p, k)}]
          BY <1>1, <4>1 DEF Receive
        <5>2. ring[p].received \in [Ends(p) -> 0..Transfers[p]] /\ ring[p] \in RingType(p)
          BY <1>1, RingFields
        <5>. QED
          BY <1>1, <3>3, <5>1, <5>2 DEF RingType, Shares
      <4>2. CASE \E u \in shares[p][k] : Release(p, k, u)
        <5>1. PICK u \in shares[p][k] : Release(p, k, u)
          BY <4>2
        <5>2. /\ ring'[p] = [ring[p] EXCEPT !.released[u.slot] = @ + 1]
              /\ shares'[p] = [shares[p] EXCEPT ![k] = @ \ {u}]
          BY <1>1, <5>1 DEF Release
        <5>. QED
          BY <1>1, <3>3, <5>2 DEF RingType, Shares
      <4>. QED
        BY <2>2, <4>1, <4>2
    <3>4. /\ \A q \in Pipe \ {p} : ring'[q] = ring[q] /\ slots'[q] = slots[q] /\ shares'[q] = shares[q]
          /\ slots'[p] = slots[p]
      BY <3>1
    <3>5. \A j \in Ends(p) :
            \/ Consumer[p][j] = r
            \/ ring'[p].received[j] = ring[p].received[j] /\ shares'[p][j] = shares[p][j]
      BY <2>2, <3>3
    <3>. QED
      BY <3>1, <3>2, <3>4, <3>5, KeepsSpent, Zenon
  <2>3. CASE Sleep(r) \/ Post(r)
    <3>1. status' = status /\ UNCHANGED tokens
      BY <2>3 DEF Sleep, Post
    <3>. QED
      BY <3>1, SameSpent
  <2>4. CASE Abandon(r) \/ TimeOut(r) \/ Fail(r) \/ Finish(r)
    <3>1. status \in [Role -> {"running", "done"} \union Errors]
      BY DEF IInv, Control
    <3>2. PICK e : status' = [status EXCEPT ![r] = e] /\ (e = "done" => Drained(r))
      BY <2>4 DEF Abandon, TimeOut, Fail, Finish
    <3>3. UNCHANGED tokens
      BY <2>4 DEF Abandon, TimeOut, Fail, Finish
    <3>4. \A t \in Role : status'[t] = IF t = r THEN e ELSE status[t]
      BY <3>1, <3>2
    <3>5. \A t \in Role : status'[t] = "done" => status[t] = "done" \/ (t = r /\ Drained(r))
      BY <3>2, <3>4
    <3>. QED
      BY <3>3, <3>5, SameSpent, Zenon
  <2>. QED
    BY <1>3, <2>1, <2>2, <2>3, <2>4 DEF Work
<1>. QED
  BY <1>2, <1>3 DEF Next

-----------------------------------------------------------------------------
(* Nobody waits for ever. *)

\* An unbroken run of shares is as many shares as it is long.
LEMMA RunOfShares ==
  ASSUME NEW S, IsFiniteSet(S), NEW a \in Nat, NEW b \in Nat, a <= b,
         \A n \in a..b : \E v \in S : v.nth = n
  PROVE  Cardinality(S) >= b - a + 1
<1>. DEFINE f == [n \in a..b |-> CHOOSE v \in S : v.nth = n]
<1>1. f \in [a..b -> S] /\ \A n \in a..b : f[n].nth = n
  OBVIOUS
<1>2. f \in Injection(a..b, S)
  BY <1>1 DEF Injection, IsInjective
<1>3. Cardinality(a..b) <= Cardinality(S)
  BY <1>2, FS_Injection
<1>4. Cardinality(a..b) = b - a + 1
  BY FS_Interval
<1>. QED
  BY <1>3, <1>4, FS_CardinalityType

\* A consumer that sleeps is in the one wait of its end, and has received all there is.
LEMMA ConsumerAsleep ==
  ASSUME LInv, Simple, NEW p \in Pipe, NEW r \in Role, NEW k \in Ends(p), Consumer[p][k] = r, r \in asleep
  PROVE  doing[r] = Receives(p, k) /\ ring[p].received[k] >= Len(ring[p].log)
                                  /\ Cardinality(shares[p][k]) < Stages[p]
<1>1. doing[r] \in Waits /\ Owner(doing[r]) = r /\ ~Ready(doing[r]) /\ MayWait(doing[r])
  BY DEF LInv, IInv, Control, Waiting, Sleepers, Polite
<1>2. doing[r] = Receives(p, k)
  <2>1. doing[r][2] = p
    BY <1>1, WaitCases DEF Simple
  <2>2. doing[r] /= Acquires(p)
    BY <1>1, AtAcquire DEF Simple
  <2>3. doing[r][3] \in Ends(p) /\ doing[r] = Receives(p, doing[r][3])
    BY <1>1, <2>1, <2>2, WaitCases
  <2>4. Consumer[p][doing[r][3]] = r
    BY <1>1, <2>3, AtReceive
  <2>. QED
    BY <2>3, <2>4 DEF Simple
<1>3. ~(Len(ring[p].log) > ring[p].received[k])
  BY <1>1, <1>2, AtReceive
<1>4. /\ ring[p].log \in Seq(Slot(p)) /\ ring[p].received[k] \in Nat
  BY RingFields, Sizes DEF LInv, IInv, AllSteady, Steady
<1>5. Cardinality(shares[p][k]) < Stages[p]
  BY <1>1, <1>2 DEF MayWait, Receives
<1>. QED
  BY <1>2, <1>3, <1>4, <1>5

\* A producer that sleeps is in the one wait of its end, and has committed all it acquired.
LEMMA ProducerAsleep ==
  ASSUME LInv, Simple, NEW p \in Pipe, Producer[p] \in asleep
  PROVE  /\ slots[p] = {} /\ ring[p].acquired = Len(ring[p].log)
         /\ ring[p].released[ring[p].acquired % Stages[p]] /= Consumers[p]
<1>. DEFINE r == Producer[p]
<1>1. doing[r] \in Waits /\ Owner(doing[r]) = r /\ ~Ready(doing[r]) /\ MayWait(doing[r])
  BY DEF LInv, IInv, Control, Waiting, Sleepers, Polite
<1>2. doing[r] = Acquires(p)
  <2>1. doing[r][2] = p
    BY <1>1, WaitCases DEF Simple
  <2>2. \A k \in Ends(p) : doing[r] /= Receives(p, k)
    BY <1>1, AtReceive DEF Simple
  <2>. QED
    BY <1>1, <2>1, <2>2, WaitCases
<1>3. Cardinality(slots[p]) = 0
  BY <1>1, <1>2 DEF MayWait, Simple, Acquires
<1>4. Lined(p, ring[p], slots[p], shares[p])
  BY DEF LInv, AllLined
<1>5. ASSUME NEW x, slots[p] = {x}
      PROVE  FALSE
  <2>1. Cardinality(slots[p]) = 1
    BY <1>5, FS_Singleton, Zenon
  <2>. QED
    BY <1>3, <2>1
<1>6. slots[p] = {} /\ ring[p].acquired = Len(ring[p].log)
  BY <1>4, <1>5 DEF Lined
<1>. QED
  BY <1>1, <1>2, <1>6, AtAcquire

\* Somebody holds up a producer that sleeps, and can move.
LEMMA ProducerHasHope ==
  ASSUME LInv, Spent, Simple, NEW p \in Pipe, Producer[p] \in asleep,
         \A r \in Role : r \in asleep \/ status[r] = "done"
  PROVE  FALSE
<1>. DEFINE rg == ring[p]
            s == rg.acquired % Stages[p]
<1>1. slots[p] = {} /\ rg.acquired = Len(rg.log) /\ rg.released[s] /= Consumers[p]
  BY ProducerAsleep
<1>2. /\ Steady(p, rg, slots[p], shares[p]) /\ Lined(p, rg, slots[p], shares[p])
      /\ rg \in RingType(p) /\ shares[p] \in [Ends(p) -> SUBSET ShareType(p)]
  BY DEF LInv, IInv, AllSteady, Steady, AllLined, Shares
<1>3. /\ rg.log \in Seq(Slot(p)) /\ rg.data \in [Slot(p) -> Nat] /\ rg.acquired \in Nat
      /\ rg.received \in [Ends(p) -> Nat] /\ s \in Slot(p) /\ Stages[p] \in Nat \ {0}
  BY <1>2, RingFields, Sizes DEF Slot
<1>4. PICK k \in Ends(p) : k \notin Freed(p, rg, shares[p], s)
  <2>1. Freed(p, rg, shares[p], s) /= Ends(p)
    <3>1. rg.released[s] = Cardinality(Freed(p, rg, shares[p], s))
      BY <1>1, <1>2, <1>3 DEF Steady, Counted
    <3>. QED
      BY <1>1, <3>1, EndsCount
  <2>. QED
    BY <2>1 DEF Freed
<1>5. rg.data[s] <= Len(rg.log) /\ rg.received[k] <= Len(rg.log)
  BY <1>2, <1>3 DEF Steady, Logged
<1>6. CASE Consumer[p][k] \in asleep
  <2>1. rg.received[k] >= Len(rg.log) /\ Cardinality(shares[p][k]) < Stages[p]
    BY <1>6, Sizes, ConsumerAsleep
  <2>2. PICK u \in shares[p][k] : u.slot = s
    BY <1>3, <1>4, <1>5, <2>1 DEF Freed
  <2>3. /\ u.nth \in Nat /\ u.nth >= 1 /\ rg.data[s] = u.nth /\ IsFiniteSet(shares[p][k])
        /\ \A n \in u.nth..rg.received[k] : \E v \in shares[p][k] : v.nth = n
    BY <1>2, <2>2 DEF Steady, Stand, Lined, ShareType
  <2>4. rg.log[u.nth] = s
    BY <1>2, <1>3, <2>3 DEF Steady, Logged
  <2>5. (u.nth - 1) % Stages[p] = s
    BY <1>2, <1>3, <1>5, <2>3, <2>4 DEF Lined
  <2>6. rg.acquired - (u.nth - 1) >= Stages[p]
    <3>1. u.nth - 1 \in Nat /\ u.nth - 1 < rg.acquired
      BY <1>1, <1>3, <1>5, <2>3
    <3>. HIDE DEF rg
    <3>. QED
      BY <1>3, <2>5, <3>1, Apart
  <2>7. Cardinality(shares[p][k]) >= rg.received[k] - u.nth + 1
    <3>1. u.nth <= rg.received[k] /\ rg.received[k] \in Nat
      BY <1>1, <1>3, <1>5, <2>1, <2>3
    <3>. HIDE DEF rg
    <3>. QED
      BY <2>3, <3>1, RunOfShares
  <2>8. Cardinality(shares[p][k]) \in Nat
    BY <2>3, FS_CardinalityType
  <2>. QED
    BY <1>1, <1>3, <2>1, <2>3, <2>6, <2>7, <2>8
<1>7. CASE status[Consumer[p][k]] = "done"
  <2>1. Transfers[p] - rg.received[k] = 0 /\ shares[p][k] = {}
    BY <1>7, Sizes, DrainedIs DEF Spent
  <2>2. rg.received[k] < rg.data[s]
    BY <1>3, <1>4, <2>1 DEF Freed
  <2>3. rg.acquired <= Transfers[p]
    BY <1>2, RingFields, Sizes
  <2>. QED
    BY <1>1, <1>3, <1>5, <2>1, <2>2, <2>3, Sizes
<1>. QED
  BY <1>6, <1>7, Sizes

LEMMA SomebodyMoves == LInv /\ Spent /\ Simple => NoDeadlock
<1>. SUFFICES ASSUME LInv, Spent, Simple, NEW r \in asleep, Stalled PROVE FALSE
  BY DEF NoDeadlock
<1>1. /\ r \in Role /\ abort = Nobody /\ posted = {}
      /\ doing[r] \in Waits /\ Owner(doing[r]) = r /\ Left(doing[r]) > 0
  BY DEF LInv, IInv, Control, Waiting, Sleepers, Blamed
<1>2. \A t \in Role : t \in asleep \/ status[t] = "done"
  BY <1>1 DEF Stalled
<1>. DEFINE p == doing[r][2]
            k == doing[r][3]
<1>3. p \in Pipe
  BY <1>1, WaitCases
<1>4. CASE r = Producer[p]
  BY <1>2, <1>3, <1>4, ProducerHasHope
<1>5. CASE r /= Producer[p]
  <2>1. k \in Ends(p) /\ doing[r] = Receives(p, k)
    BY <1>1, <1>5, WaitCases, AtAcquire
  <2>2. Consumer[p][k] = r /\ Transfers[p] - ring[p].received[k] > 0
    BY <1>1, <2>1, AtReceive
  <2>3. ring[p].received[k] >= Len(ring[p].log)
    BY <1>3, <2>1, <2>2, Sizes, ConsumerAsleep
  <2>4. status[Producer[p]] = "done"
    BY <1>2, <1>3, Sizes, ProducerHasHope
  <2>5. Transfers[p] - ring[p].acquired = 0 /\ slots[p] = {}
    BY <1>3, <2>4, Sizes, DrainedIs DEF Spent
  <2>6. ring[p].acquired = Len(ring[p].log)
    <3>1. Lined(p, ring[p], slots[p], shares[p])
      BY <1>3 DEF LInv, AllLined
    <3>2. \A x : slots[p] /= {x}
      BY <2>5
    <3>. QED
      BY <3>1, <3>2, Zenon DEF Lined
  <2>7. /\ ring[p].received[k] \in Nat /\ ring[p].acquired \in Nat /\ Transfers[p] \in Nat
    BY <1>3, <2>1, RingFields, Sizes DEF LInv, IInv, AllSteady, Steady
  <2>. QED
    BY <2>2, <2>3, <2>5, <2>6, <2>7
<1>. QED
  BY <1>4, <1>5

\* A pipe used as the repository's kernels use theirs cannot deadlock, for any number of slots, of
\* consumers and of transfers, whoever fails: some role can move, or all are over ("together that
\* rules out deadlock on the pipe", check.rs, which without Simple it does not).
THEOREM NeverStuck ==
  ASSUME Simple
  PROVE  Spec => []NoDeadlock
<1>. DEFINE Inv == LInv /\ Spent
<1>1. Init => Inv
  <2>1. Init => Spent
    BY DEF Init, Spent
  <2>. QED
    BY <2>1, InitHolds, StartsInLine DEF LInv
<1>2. Inv /\ [Next]_vars => Inv'
  BY Inductive, StaysInLine, StaysSpent DEF LInv
<1>3. Inv => NoDeadlock
  BY SomebodyMoves
<1>. QED
  BY <1>1, <1>2, <1>3, PTL DEF Spec

-----------------------------------------------------------------------------
(* A region in which nothing goes wrong. *)

\* Nobody has met an error, or been told of one.
Calm ==
  /\ abort = Nobody /\ posted = {} /\ outcome = Nobody
  /\ \A r \in Role : status[r] \in {"running", "done"}

\* Every transfer was made, and every token given back.
AllMade ==
  \A p \in Pipe :
    /\ Len(ring[p].log) = Transfers[p] /\ slots[p] = {}
    /\ \A k \in Ends(p) : ring[p].received[k] = Transfers[p] /\ shares[p][k] = {}

\* With no role that fails and a deadline no work reaches, nobody meets an error: a wait would
\* time out only if everyone waited, and a borrow would find a race only if a share were overwritten.
LEMMA StaysCalm ==
  ASSUME MayFail = {}, Patient, IInv, NoDeadlock, Calm, [Next]_vars
  PROVE  Calm'
<1>1. CASE UNCHANGED vars
  BY <1>1 DEF Calm, vars, region
<1>2. CASE Join
  BY <1>2 DEF Calm, Join
<1>3. ASSUME NEW r \in Role, Work(r) \/ Fail(r)
      PROVE  Calm'
  <2>1. ASSUME NEW p \in Pipe, Acquire(p) \/ \E s \in Slot(p) : Commit(p, s)
        PROVE  Calm'
    BY <2>1 DEF Calm, Acquire, Commit, region
  <2>2. ASSUME NEW p \in Pipe, NEW k \in Ends(p),
               Receive(p, k) \/ \E u \in shares[p][k] : Release(p, k, u)
        PROVE  Calm'
    BY <2>2 DEF Calm, Receive, Release, region
  <2>3. CASE Sleep(r)
    BY <2>3 DEF Calm, Sleep, region
  <2>4. ~Abandon(r) /\ ~Post(r)
    BY DEF Calm, Abandon, Post, Errors
  <2>5. ~TimeOut(r)
    BY DEF NoDeadlock, TimeOut, DeadlinePassed
  <2>6. ~Fail(r)
    BY DEF Fail, Raced, IInv, AllSteady, Steady, Stand
  <2>7. CASE Finish(r)
    BY <2>7 DEF Calm, Finish, region, IInv, Control
  <2>. QED
    BY <1>3, <2>1, <2>2, <2>3, <2>4, <2>5, <2>6, <2>7 DEF Work
<1>. QED
  BY <1>1, <1>2, <1>3 DEF Next

\* When every role is over and none in error, every transfer was made.
LEMMA DoneIsMade ==
  ASSUME LInv, Spent, \A r \in Role : status[r] = "done"
  PROVE  AllMade
<1>. SUFFICES ASSUME NEW p \in Pipe
     PROVE  /\ Len(ring[p].log) = Transfers[p] /\ slots[p] = {}
            /\ \A k \in Ends(p) : ring[p].received[k] = Transfers[p] /\ shares[p][k] = {}
  BY DEF AllMade
<1>1. /\ ring[p].acquired \in 0..Transfers[p] /\ Transfers[p] \in Nat
      /\ ring[p].received \in [Ends(p) -> 0..Transfers[p]]
  BY RingFields, Sizes DEF LInv, IInv, AllSteady, Steady
<1>2. Transfers[p] - ring[p].acquired = 0 /\ slots[p] = {}
  BY Sizes, DrainedIs DEF Spent
<1>3. \A k \in Ends(p) : Transfers[p] - ring[p].received[k] = 0 /\ shares[p][k] = {}
  BY Sizes, DrainedIs DEF Spent
<1>4. ring[p].acquired = Len(ring[p].log)
  BY <1>2, Zenon DEF LInv, AllLined, Lined
<1>. QED
  BY <1>1, <1>2, <1>3, <1>4

\* What Completes says of a region that has ended, for every number of slots, consumers and
\* transfers: of roles that do not fail, used as the repository's kernels use theirs, none is
\* called off, blamed or timed out, and at the join every transfer was made and every token given
\* back (specialize, wait_until; "a deadlock is a compile error", check.rs).
THEOREM EndsWell ==
  ASSUME Simple, MayFail = {}, Patient
  PROVE  Spec => [](Calm /\ (joined => AllMade))
<1>. DEFINE Inv == LInv /\ Spent /\ Calm
<1>1. Init => Inv
  <2>1. Init => Spent /\ Calm
    BY DEF Init, Spent, Calm
  <2>. QED
    BY <2>1, InitHolds, StartsInLine DEF LInv
<1>2. Inv /\ [Next]_vars => Inv'
  BY Inductive, StaysInLine, StaysSpent, StaysCalm, SomebodyMoves DEF LInv
<1>3. Inv => Calm /\ (joined => AllMade)
  <2>1. ASSUME Inv, joined PROVE \A r \in Role : status[r] = "done"
    BY <2>1 DEF LInv, IInv, Reported, Calm
  <2>. QED
    BY <2>1, DoneIsMade
<1>. QED
  BY <1>1, <1>2, <1>3, PTL DEF Spec

-----------------------------------------------------------------------------
(* The refinement of Broadcast. *)

\* What Broadcast calls sent, taken and seen.
Sent == [p \in Pipe |-> Len(ring[p].log)]
Got  == [p \in Pipe |-> ring[p].received]
Seen == [p \in Pipe |-> [k \in Ends(p) |-> { ring[p].data[s.slot] : s \in shares[p][k] }]]

\* The commits that shares show, of slots filled with data.
Shown(data, held) == { data[s.slot] : s \in held }

LEMMA SeenIsShown ==
  /\ Seen = [p \in Pipe |-> [k \in Ends(p) |-> Shown(ring[p].data, shares[p][k])]]
  /\ Seen' = [p \in Pipe |-> [k \in Ends(p) |-> Shown(ring'[p].data, shares'[p][k])]]
BY DEF Seen, Shown

\* Broadcast counts sets as FiniteSets does.
LEMMA SameCount == \A S : Queue!Cardinality(S) = Cardinality(S)
BY DEF Queue!Cardinality, Cardinality, Queue!IsFiniteSet, IsFiniteSet

\* A producer holds no more slots than it acquired and has not committed, and a share is of some
\* commit: what the refinement needs beside IInv.
Exact(p, rg, held, sh) ==
  /\ IsFiniteSet(held) /\ Len(rg.log) + Cardinality(held) <= rg.acquired
  /\ \A k \in Ends(p) : \A u \in sh[k] : u.nth >= 1

AllExact == \A p \in Pipe : Exact(p, ring[p], slots[p], shares[p])

LEMMA OnePipeExact ==
  ASSUME AllExact, NEW p \in Pipe, Exact(p, ring'[p], slots'[p], shares'[p]),
         \A q \in Pipe \ {p} :
           ring'[q] = ring[q] /\ slots'[q] = slots[q] /\ shares'[q] = shares[q]
  PROVE  AllExact'
<1>1. \A q \in Pipe : Exact(q, ring'[q], slots'[q], shares'[q])
  BY DEF AllExact
<1>. QED
  BY <1>1 DEF AllExact

LEMMA StartsExact == Init => AllExact
<1>. SUFFICES ASSUME Init, NEW p \in Pipe PROVE Exact(p, ring[p], slots[p], shares[p])
  BY DEF AllExact
<1>1. /\ ring[p].log = <<>> /\ ring[p].acquired = 0 /\ slots[p] = {}
      /\ \A k \in Ends(p) : shares[p][k] = {}
  BY DEF Init
<1>2. IsFiniteSet({}) /\ Cardinality({}) = 0 /\ Len(<<>>) = 0
  BY FS_EmptySet
<1>. QED
  BY <1>1, <1>2 DEF Exact

\* What an operation does to its pipe, for all four of them.
LEMMA AcquireEffect ==
  ASSUME IInv, NEW p \in Pipe, Acquire(p)
  PROVE  LET s == ring[p].acquired % Stages[p] IN
         /\ ring[p].acquired < Transfers[p] /\ ring[p].released[s] = Consumers[p] /\ s \in Slot(p)
         /\ ring'[p].log = ring[p].log /\ ring'[p].data = ring[p].data
         /\ ring'[p].received = ring[p].received /\ ring'[p].acquired = ring[p].acquired + 1
         /\ slots'[p] = slots[p] \union {s} /\ shares' = shares /\ UNCHANGED region
         /\ \A q \in Pipe \ {p} : ring'[q] = ring[q] /\ slots'[q] = slots[q]
<1>. DEFINE w == Acquires(p)
            s == ring[p].acquired % Stages[p]
<1>1. w \in Waits /\ Owner(w) \in Role
  BY AtAcquire, Sizes DEF Waits
<1>2. Left(w) > 0 /\ Ready(w)
  BY <1>1, WaitIsOver DEF Acquire
<1>3. ring[p] \in RingType(p) /\ DOMAIN ring = Pipe /\ DOMAIN slots = Pipe
  BY DEF IInv, AllSteady, Steady
<1>4. ring[p].acquired \in Nat /\ s \in Slot(p)
  BY <1>3, RingFields, Sizes DEF Slot
<1>5. ring[p].acquired < Transfers[p] /\ ring[p].released[s] = Consumers[p]
  BY <1>2, <1>4, AtAcquire, Sizes
<1>6. ring'[p] = Taken(ring[p], s) /\ slots'[p] = slots[p] \union {s} /\ shares' = shares
      /\ UNCHANGED region /\ \A q \in Pipe \ {p} : ring'[q] = ring[q] /\ slots'[q] = slots[q]
  BY <1>3 DEF Acquire
<1>7. LET rg == Taken(ring[p], s) IN
      /\ rg.log = ring[p].log /\ rg.data = ring[p].data
      /\ rg.received = ring[p].received /\ rg.acquired = ring[p].acquired + 1
  BY <1>3 DEF Taken, RingType
<1>. QED
  BY <1>4, <1>5, <1>6, <1>7

LEMMA CommitEffect ==
  ASSUME IInv, NEW p \in Pipe, NEW s \in Slot(p), Commit(p, s)
  PROVE  /\ s \in slots[p] /\ ~joined
         /\ ring'[p].log = Append(ring[p].log, s)
         /\ ring'[p].data = [ring[p].data EXCEPT ![s] = Len(ring[p].log) + 1]
         /\ ring'[p].received = ring[p].received /\ ring'[p].acquired = ring[p].acquired
         /\ slots'[p] = slots[p] \ {s} /\ shares' = shares /\ UNCHANGED region
         /\ \A q \in Pipe \ {p} : ring'[q] = ring[q] /\ slots'[q] = slots[q]
<1>1. ring[p] \in RingType(p) /\ DOMAIN ring = Pipe /\ DOMAIN slots = Pipe
  BY DEF IInv, AllSteady, Steady
<1>2. ring'[p] = Filled(ring[p], s) /\ slots'[p] = slots[p] \ {s} /\ shares' = shares
      /\ UNCHANGED region /\ \A q \in Pipe \ {p} : ring'[q] = ring[q] /\ slots'[q] = slots[q]
  BY <1>1 DEF Commit
<1>3. LET rg == Filled(ring[p], s) IN
      /\ rg.log = Append(ring[p].log, s)
      /\ rg.data = [ring[p].data EXCEPT ![s] = Len(ring[p].log) + 1]
      /\ rg.received = ring[p].received /\ rg.acquired = ring[p].acquired
  BY <1>1 DEF Filled, RingType
<1>4. s \in slots[p] /\ ~joined
  BY Sizes, NotJoined DEF Commit, Free, Runs
<1>. QED
  BY <1>2, <1>3, <1>4

LEMMA ReceiveEffect ==
  ASSUME IInv, NEW p \in Pipe, NEW k \in Ends(p), Receive(p, k)
  PROVE  LET s == ring[p].log[ring[p].received[k] + 1]
             u == [slot |-> s, generation |-> ring[p].generation[s],
                   nth |-> ring[p].received[k] + 1]
         IN
         /\ ring[p].received[k] < Len(ring[p].log) /\ ~joined
         /\ ring'[p].log = ring[p].log /\ ring'[p].data = ring[p].data
         /\ ring'[p].received = [ring[p].received EXCEPT ![k] = @ + 1]
         /\ ring'[p].acquired = ring[p].acquired
         /\ shares'[p] = [shares[p] EXCEPT ![k] = @ \union {u}]
         /\ slots' = slots /\ UNCHANGED region
         /\ \A q \in Pipe \ {p} : ring'[q] = ring[q] /\ shares'[q] = shares[q]
<1>. DEFINE w == Receives(p, k)
<1>1. w \in Waits /\ Owner(w) = Consumer[p][k] /\ Consumer[p][k] \in Role
  BY AtReceive, Sizes DEF Waits
<1>2. Left(w) > 0 /\ Ready(w)
  BY <1>1, WaitIsOver DEF Receive
<1>3. ~joined
  BY <1>1, NotJoined DEF Receive, Waited, Runs
<1>4. ring[p] \in RingType(p) /\ DOMAIN ring = Pipe /\ DOMAIN shares = Pipe
  BY DEF IInv, AllSteady, Steady
<1>5. ring[p].received \in [Ends(p) -> 0..Transfers[p]] /\ ring[p].log \in Seq(Slot(p))
  BY <1>4, RingFields
<1>6. ring[p].received[k] < Len(ring[p].log)
  BY <1>2, <1>5, AtReceive, Sizes
<1>7. /\ ring'[p] = [ring[p] EXCEPT !.received[k] = @ + 1]
      /\ shares'[p] = [shares[p] EXCEPT ![k] = @ \union {NextShare(p, k)}]
      /\ slots' = slots /\ UNCHANGED region
      /\ \A q \in Pipe \ {p} : ring'[q] = ring[q] /\ shares'[q] = shares[q]
  BY <1>4 DEF Receive
<1>8. LET rg == [ring[p] EXCEPT !.received[k] = @ + 1] IN
      /\ rg.log = ring[p].log /\ rg.data = ring[p].data /\ rg.acquired = ring[p].acquired
      /\ rg.received = [ring[p].received EXCEPT ![k] = @ + 1]
  BY <1>4 DEF RingType
<1>. QED
  BY <1>3, <1>6, <1>7, <1>8 DEF NextShare

LEMMA ReleaseEffect ==
  ASSUME IInv, NEW p \in Pipe, NEW k \in Ends(p), NEW u \in shares[p][k], Release(p, k, u)
  PROVE  /\ ~joined
         /\ ring'[p].log = ring[p].log /\ ring'[p].data = ring[p].data
         /\ ring'[p].received = ring[p].received /\ ring'[p].acquired = ring[p].acquired
         /\ shares'[p] = [shares[p] EXCEPT ![k] = @ \ {u}]
         /\ slots' = slots /\ UNCHANGED region
         /\ \A q \in Pipe \ {p} : ring'[q] = ring[q] /\ shares'[q] = shares[q]
<1>1. ring[p] \in RingType(p) /\ DOMAIN ring = Pipe /\ DOMAIN shares = Pipe
  BY DEF IInv, AllSteady, Steady
<1>2. /\ ring'[p] = [ring[p] EXCEPT !.released[u.slot] = @ + 1]
      /\ shares'[p] = [shares[p] EXCEPT ![k] = @ \ {u}]
      /\ slots' = slots /\ UNCHANGED region
      /\ \A q \in Pipe \ {p} : ring'[q] = ring[q] /\ shares'[q] = shares[q]
  BY <1>1 DEF Release
<1>3. LET rg == [ring[p] EXCEPT !.released[u.slot] = @ + 1] IN
      /\ rg.log = ring[p].log /\ rg.data = ring[p].data /\ rg.acquired = ring[p].acquired
      /\ rg.received = ring[p].received
  BY <1>1 DEF RingType
<1>4. ~joined
  BY Sizes, NotJoined DEF Release, Free, Runs
<1>. QED
  BY <1>2, <1>3, <1>4

LEMMA StaysExact == IInv /\ AllExact /\ [Next]_vars => AllExact'
<1>. SUFFICES ASSUME IInv, AllExact, Next \/ UNCHANGED vars PROVE AllExact'
  OBVIOUS
<1>1. CASE UNCHANGED vars \/ Join
  BY <1>1 DEF vars, Join, AllExact, tokens
<1>2. ASSUME NEW r \in Role, Work(r) \/ Fail(r)
      PROVE  AllExact'
  <2>1. ASSUME NEW p \in Pipe, Acquire(p) PROVE AllExact'
    <3>. DEFINE s == ring[p].acquired % Stages[p]
    <3>1. /\ ring'[p].log = ring[p].log /\ ring'[p].acquired = ring[p].acquired + 1
          /\ slots'[p] = slots[p] \union {s} /\ shares' = shares
          /\ \A q \in Pipe \ {p} : ring'[q] = ring[q] /\ slots'[q] = slots[q]
      BY <2>1, AcquireEffect
    <3>2. /\ IsFiniteSet(slots[p]) /\ Len(ring[p].log) + Cardinality(slots[p]) <= ring[p].acquired
          /\ ring[p].log \in Seq(Slot(p)) /\ ring[p].acquired \in Nat
      BY RingFields, Sizes DEF AllExact, Exact, IInv, AllSteady, Steady
    <3>3. /\ IsFiniteSet(slots'[p]) /\ Cardinality(slots[p]) \in Nat
          /\ Cardinality(slots'[p]) <= Cardinality(slots[p]) + 1
      <4>1. /\ IsFiniteSet(slots[p] \union {s}) /\ Cardinality(slots[p]) \in Nat
            /\ Cardinality(slots[p] \union {s}) =
                 IF s \in slots[p] THEN Cardinality(slots[p]) ELSE Cardinality(slots[p]) + 1
        BY <3>2, FS_AddElement, FS_CardinalityType, Zenon
      <4>. QED
        BY <3>1, <4>1
    <3>4. Len(ring[p].log) \in Nat /\ Cardinality(slots'[p]) \in Nat
      BY <3>2, <3>3, FS_CardinalityType
    <3>5. Exact(p, ring'[p], slots'[p], shares'[p])
      BY <3>1, <3>2, <3>3, <3>4 DEF Exact, AllExact
    <3>. QED
      BY <3>1, <3>5, OnePipeExact
  <2>2. ASSUME NEW p \in Pipe, NEW s \in Slot(p), Commit(p, s) PROVE AllExact'
    <3>1. /\ ring'[p].log = Append(ring[p].log, s) /\ ring'[p].acquired = ring[p].acquired
          /\ s \in slots[p] /\ slots'[p] = slots[p] \ {s} /\ shares' = shares
          /\ \A q \in Pipe \ {p} : ring'[q] = ring[q] /\ slots'[q] = slots[q]
      BY <2>2, CommitEffect
    <3>2. /\ IsFiniteSet(slots[p]) /\ Len(ring[p].log) + Cardinality(slots[p]) <= ring[p].acquired
          /\ ring[p].log \in Seq(Slot(p)) /\ ring[p].acquired \in Nat
      BY RingFields, Sizes DEF AllExact, Exact, IInv, AllSteady, Steady
    <3>3. /\ IsFiniteSet(slots'[p]) /\ Cardinality(slots'[p]) = Cardinality(slots[p]) - 1
          /\ Cardinality(slots[p]) \in Nat
      <4>1. /\ IsFiniteSet(slots[p] \ {s})
            /\ Cardinality(slots[p] \ {s}) =
                 IF s \in slots[p] THEN Cardinality(slots[p]) - 1 ELSE Cardinality(slots[p])
        BY <3>2, FS_RemoveElement, Zenon
      <4>2. Cardinality(slots[p]) \in Nat
        BY <3>2, FS_CardinalityType, Zenon
      <4>. QED
        BY <3>1, <4>1, <4>2
    <3>4. Len(ring'[p].log) = Len(ring[p].log) + 1 /\ Len(ring[p].log) \in Nat
      BY <3>1, <3>2
    <3>5. Exact(p, ring'[p], slots'[p], shares'[p])
      BY <3>1, <3>2, <3>3, <3>4 DEF Exact, AllExact
    <3>. QED
      BY <3>1, <3>5, OnePipeExact
  <2>3. ASSUME NEW p \in Pipe, NEW k \in Ends(p),
               Receive(p, k) \/ \E u \in shares[p][k] : Release(p, k, u)
        PROVE  AllExact'
    <3>1. /\ ring'[p].log = ring[p].log /\ ring'[p].acquired = ring[p].acquired /\ slots' = slots
          /\ \A q \in Pipe \ {p} : ring'[q] = ring[q] /\ shares'[q] = shares[q]
      BY <2>3, ReceiveEffect, ReleaseEffect
    <3>2. shares[p] \in Shares(p) /\ ring[p].received \in [Ends(p) -> 0..Transfers[p]]
      BY RingFields DEF IInv, AllSteady, Steady
    <3>3. \A j \in Ends(p) : \A u \in shares'[p][j] : u \in shares[p][j] \/ u.nth = ring[p].received[k] + 1
      <4>1. CASE Receive(p, k)
        <5>. DEFINE s == ring[p].log[ring[p].received[k] + 1]
                    v == [slot |-> s, generation |-> ring[p].generation[s],
                          nth |-> ring[p].received[k] + 1]
        <5>1. shares'[p] = [shares[p] EXCEPT ![k] = @ \union {v}]
          BY <4>1, ReceiveEffect
        <5>2. v.nth = ring[p].received[k] + 1
          OBVIOUS
        <5>. HIDE DEF v
        <5>. QED
          BY <3>2, <5>1, <5>2 DEF Shares
      <4>2. ASSUME NEW v \in shares[p][k], Release(p, k, v)
            PROVE  \A j \in Ends(p) : \A u \in shares'[p][j] : u \in shares[p][j]
        <5>1. shares'[p] = [shares[p] EXCEPT ![k] = @ \ {v}]
          BY <4>2, ReleaseEffect
        <5>. QED
          BY <3>2, <5>1 DEF Shares
      <4>. QED
        BY <2>3, <4>1, <4>2
    <3>4. \A j \in Ends(p) : \A u \in shares'[p][j] : u.nth >= 1
      BY <3>2, <3>3, Sizes DEF AllExact, Exact
    <3>5. Exact(p, ring'[p], slots'[p], shares'[p])
      BY <3>1, <3>4 DEF Exact, AllExact
    <3>. QED
      BY <3>1, <3>5, OnePipeExact
  <2>4. CASE Sleep(r) \/ Abandon(r) \/ TimeOut(r) \/ Post(r) \/ Fail(r) \/ Finish(r)
    BY <2>4 DEF Sleep, Abandon, TimeOut, Post, Fail, Finish, tokens, AllExact
  <2>. QED
    BY <1>2, <2>1, <2>2, <2>3, <2>4 DEF Work
<1>. QED
  BY <1>1, <1>2 DEF Next

\* A commit is a message sent: the slots of messages still wanted are others than the slot that
\* was committed, so there are fewer of them than slots.
LEMMA FewerThanSlots ==
  ASSUME IInv, AllExact, NEW p \in Pipe, NEW s \in slots[p]
  PROVE  LET W == { m \in 1..Len(ring[p].log) : \E k \in Ends(p) :
                      \/ m > ring[p].received[k]
                      \/ m \in { ring[p].data[u.slot] : u \in shares[p][k] } }
         IN  Cardinality(W) < Stages[p]
<1>. DEFINE rg == ring[p]
            sh == shares[p]
            W == { m \in 1..Len(rg.log) : \E k \in Ends(p) :
                     \/ m > rg.received[k]
                     \/ m \in { rg.data[u.slot] : u \in sh[k] } }
            rest == Slot(p) \ {s}
            f == [t \in rest |-> rg.data[t]]
<1>1. /\ Steady(p, rg, slots[p], sh) /\ rg \in RingType(p) /\ s \in Slot(p)
      /\ \A k \in Ends(p) : rg.received[k] >= rg.data[s] /\ \A u \in sh[k] : u.slot /= s
  <2>1. Steady(p, rg, slots[p], sh)
    BY DEF IInv, AllSteady
  <2>2. s \in Slot(p) /\ Freed(p, rg, sh, s) = Ends(p)
    BY <2>1 DEF Steady, Counted
  <2>. QED
    BY <2>1, <2>2 DEF Steady, Freed
<1>2. /\ rg.data \in [Slot(p) -> Nat] /\ rg.log \in Seq(Slot(p)) /\ Len(rg.log) \in Nat
      /\ rg.received \in [Ends(p) -> 0..Transfers[p]] /\ sh \in Shares(p)
  BY <1>1, RingFields DEF Steady
<1>3. ASSUME NEW m \in W PROVE \E t \in rest : f[t] = m
  <2>1. PICK k \in Ends(p) : m > rg.received[k] \/ \E u \in sh[k] : m = rg.data[u.slot]
    OBVIOUS
  <2>2. CASE m > rg.received[k]
    <3>1. rg.log[m] \in Slot(p) /\ rg.data[rg.log[m]] = m
      BY <1>1, <1>2, <2>2 DEF Steady, Logged
    <3>2. rg.log[m] /= s
      BY <1>1, <1>2, <2>2, <3>1, Sizes
    <3>. QED
      BY <3>1, <3>2
  <2>3. CASE \E u \in sh[k] : m = rg.data[u.slot]
    <3>1. PICK u \in sh[k] : m = rg.data[u.slot]
      BY <2>3
    <3>2. u.slot \in rest
      BY <1>1, <1>2 DEF Shares, ShareType
    <3>. QED
      BY <3>1, <3>2
  <2>. QED
    BY <2>1, <2>2, <2>3
<1>4. IsFiniteSet(Slot(p)) /\ Cardinality(Slot(p)) = Stages[p]
  <2>1. 0 \in Int /\ Stages[p] - 1 \in Int /\ Stages[p] \in Nat /\ Stages[p] > 0
        /\ (IF 0 > Stages[p] - 1 THEN 0 ELSE Stages[p] - 1 - 0 + 1) = Stages[p]
    BY Sizes
  <2>2. IsFiniteSet(0..(Stages[p] - 1)) /\ Cardinality(0..(Stages[p] - 1)) = Stages[p]
    BY <2>1, FS_Interval, Zenon
  <2>. QED
    BY <2>2 DEF Slot
<1>5. IsFiniteSet(rest) /\ Cardinality(rest) = Stages[p] - 1
  BY <1>1, <1>4, FS_RemoveElement, Zenon
<1>6. IsFiniteSet({ f[t] : t \in rest }) /\ Cardinality({ f[t] : t \in rest }) <= Cardinality(rest)
  <2>1. f \in [rest -> Nat]
    BY <1>2
  <2>2. f \in Surjection(rest, { f[t] : t \in rest })
    <3>1. f \in [rest -> { f[t] : t \in rest }]
      BY <2>1
    <3>. QED
      BY <3>1 DEF Surjection
  <2>. HIDE DEF f, rest
  <2>. QED
    BY <1>5, <2>2, FS_Surjection, Zenon
<1>7. W \subseteq { f[t] : t \in rest }
  BY <1>3
<1>8. Cardinality(W) <= Cardinality({ f[t] : t \in rest })
  <2>. HIDE DEF W, f, rest
  <2>. QED
    BY <1>6, <1>7, FS_Subset, Zenon
<1>9. /\ Cardinality(rest) \in Nat /\ Cardinality(W) \in Nat
      /\ Cardinality({ f[t] : t \in rest }) \in Nat
  <2>. HIDE DEF W, f, rest
  <2>. QED
    BY <1>5, <1>6, <1>7, FS_Subset, FS_CardinalityType, Zenon
<1>10. Cardinality(W) < Stages[p]
  <2>. HIDE DEF W, f, rest
  <2>. QED
    BY <1>5, <1>6, <1>8, <1>9, Sizes
<1>. QED
  BY <1>10

LEMMA SendRefines ==
  ASSUME IInv, AllExact, NEW p \in Pipe, NEW s \in Slot(p), Commit(p, s)
  PROVE  Queue!Send(p)
<1>1. /\ s \in slots[p] /\ ~joined
      /\ ring'[p].log = Append(ring[p].log, s)
      /\ ring'[p].data = [ring[p].data EXCEPT ![s] = Len(ring[p].log) + 1]
      /\ ring'[p].received = ring[p].received /\ ring'[p].acquired = ring[p].acquired
      /\ slots'[p] = slots[p] \ {s} /\ shares' = shares /\ UNCHANGED region
      /\ \A q \in Pipe \ {p} : ring'[q] = ring[q] /\ slots'[q] = slots[q]
  BY CommitEffect
<1>2. /\ Steady(p, ring[p], slots[p], shares[p]) /\ ring[p].log \in Seq(Slot(p))
      /\ ring[p].data \in [Slot(p) -> Nat] /\ ring[p].acquired \in 0..Transfers[p]
      /\ shares[p] \in Shares(p)
  BY RingFields DEF IInv, AllSteady, Steady
<1>3. Sent[p] = Len(ring[p].log) /\ Got[p] = ring[p].received
      /\ \A k \in Ends(p) : Seen[p][k] = { ring[p].data[u.slot] : u \in shares[p][k] }
  BY DEF Sent, Got, Seen
<1>4. ~joined /\ Sent[p] < Transfers[p]
  <2>1. /\ IsFiniteSet(slots[p]) /\ Len(ring[p].log) + Cardinality(slots[p]) <= ring[p].acquired
    BY DEF AllExact, Exact
  <2>2. Cardinality(slots[p]) \in Nat /\ Cardinality(slots[p]) /= 0
    BY <1>1, <2>1, FS_CardinalityType, FS_EmptySet
  <2>. QED
    BY <1>1, <1>2, <1>3, <2>1, <2>2, Sizes
<1>5. Cardinality({ m \in 1..Sent[p] : \E k \in Ends(p) : m > Got[p][k] \/ m \in Seen[p][k] })
        < Stages[p]
  <2>1. { m \in 1..Sent[p] : \E k \in Ends(p) : m > Got[p][k] \/ m \in Seen[p][k] }
          = { m \in 1..Len(ring[p].log) : \E k \in Ends(p) :
                \/ m > ring[p].received[k]
                \/ m \in { ring[p].data[u.slot] : u \in shares[p][k] } }
    BY <1>3
  <2>. QED
    BY <1>1, <2>1, FewerThanSlots
<1>6. Sent' = [Sent EXCEPT ![p] = @ + 1]
  <2>1. Len(Append(ring[p].log, s)) = Len(ring[p].log) + 1
    BY <1>2
  <2>. QED
    BY <1>1, <2>1 DEF Sent
<1>7. Got' = Got
  BY <1>1 DEF Got
<1>8. Seen' = Seen
  <2>1. ASSUME NEW k \in Ends(p), NEW u \in shares[p][k] PROVE ring'[p].data[u.slot] = ring[p].data[u.slot]
    <3>1. u.slot \in Slot(p) /\ u.slot /= s
      <4>1. Freed(p, ring[p], shares[p], s) = Ends(p)
        BY <1>1, <1>2 DEF Steady, Counted
      <4>2. u.slot \in Slot(p)
        BY <1>2 DEF Shares, ShareType
      <4>. QED
        BY <4>1, <4>2 DEF Freed
    <3>. QED
      BY <1>1, <1>2, <3>1
  <2>2. \A k \in Ends(p) : Shown(ring'[p].data, shares[p][k]) = Shown(ring[p].data, shares[p][k])
    BY <2>1 DEF Shown
  <2>3. \A q \in Pipe : \A k \in Ends(q) :
          Shown(ring'[q].data, shares'[q][k]) = Shown(ring[q].data, shares[q][k])
    BY <1>1, <2>2
  <2>. QED
    BY <2>3, SeenIsShown
<1>9. UNCHANGED <<joined, outcome>>
  BY <1>1 DEF region
<1>10. Queue!Wanted(p) = { m \in 1..Sent[p] : \E k \in Ends(p) : m > Got[p][k] \/ m \in Seen[p][k] }
  BY DEF Queue!Wanted, Queue!Listener, Sent, Got, Seen, Ends
<1>11. Cardinality(Queue!Wanted(p)) < Stages[p]
  BY <1>5, <1>10
<1>12. Queue!Cardinality(Queue!Wanted(p)) < Stages[p]
  BY <1>11, SameCount
<1>. QED
  BY <1>12, <1>4, <1>6, <1>7, <1>8, <1>9 DEF Queue!Send, Sent, Got, Seen

LEMMA TakeRefines ==
  ASSUME IInv, NEW p \in Pipe, NEW k \in Ends(p), Receive(p, k)
  PROVE  Queue!Take(p, k)
<1>. DEFINE i == ring[p].received[k] + 1
            s == ring[p].log[i]
            u == [slot |-> s, generation |-> ring[p].generation[s], nth |-> i]
<1>1. /\ ring[p].received[k] < Len(ring[p].log) /\ ~joined
      /\ ring'[p].log = ring[p].log /\ ring'[p].data = ring[p].data
      /\ ring'[p].received = [ring[p].received EXCEPT ![k] = @ + 1]
      /\ shares'[p] = [shares[p] EXCEPT ![k] = @ \union {u}]
      /\ slots' = slots /\ UNCHANGED region
      /\ \A q \in Pipe \ {p} : ring'[q] = ring[q] /\ shares'[q] = shares[q]
  BY ReceiveEffect
<1>2. /\ Steady(p, ring[p], slots[p], shares[p]) /\ ring[p].log \in Seq(Slot(p))
      /\ ring[p].received \in [Ends(p) -> 0..Transfers[p]] /\ shares[p] \in Shares(p)
  BY RingFields DEF IInv, AllSteady, Steady
<1>3. ring[p].data[s] = i /\ u.slot = s
  <2>1. i \in 1..Len(ring[p].log) /\ i > ring[p].received[k]
    BY <1>1, <1>2, Sizes
  <2>. QED
    BY <1>2, <2>1 DEF Steady, Logged
<1>. HIDE DEF u, s
<1>4. Got[p][k] < Sent[p] /\ Sent' = Sent
  BY <1>1 DEF Sent, Got
<1>5. Got' = [Got EXCEPT ![p][k] = @ + 1]
  BY <1>1 DEF Got
<1>6. Seen' = [Seen EXCEPT ![p][k] = @ \union {Got[p][k] + 1}]
  <2>1. Shown(ring[p].data, shares[p][k] \union {u}) = Shown(ring[p].data, shares[p][k]) \union {i}
    BY <1>3 DEF Shown
  <2>2. shares'[p][k] = shares[p][k] \union {u} /\ \A j \in Ends(p) : j /= k => shares'[p][j] = shares[p][j]
    BY <1>1, <1>2 DEF Shares
  <2>3. Got[p][k] + 1 = i
    BY DEF Got
  <2>4. \A q \in Pipe : \A j \in Ends(q) :
          Shown(ring'[q].data, shares'[q][j])
            = IF q = p /\ j = k THEN Shown(ring[p].data, shares[p][k]) \union {i}
              ELSE Shown(ring[q].data, shares[q][j])
    BY <1>1, <2>1, <2>2
  <2>. QED
    BY <2>3, <2>4, SeenIsShown
<1>. QED
  BY <1>1, <1>4, <1>5, <1>6 DEF Queue!Take, Queue!Listener, Sent, Got, Seen, Ends, region

\* Two shares of a consumer are of different commits, so what is released is no longer seen.
LEMMA GiveBackRefines ==
  ASSUME IInv, AllExact, NEW p \in Pipe, NEW k \in Ends(p), NEW u \in shares[p][k], Release(p, k, u)
  PROVE  \E m \in Seen[p][k] : Queue!GiveBack(p, k, m)
<1>0. PICK m : m = ring[p].data[u.slot]
  OBVIOUS
<1>1. /\ ~joined
      /\ ring'[p].log = ring[p].log /\ ring'[p].data = ring[p].data
      /\ ring'[p].received = ring[p].received
      /\ shares'[p] = [shares[p] EXCEPT ![k] = @ \ {u}]
      /\ slots' = slots /\ UNCHANGED region
      /\ \A q \in Pipe \ {p} : ring'[q] = ring[q] /\ shares'[q] = shares[q]
  BY ReleaseEffect
<1>2. /\ Steady(p, ring[p], slots[p], shares[p]) /\ shares[p] \in Shares(p)
      /\ Exact(p, ring[p], slots[p], shares[p])
  BY DEF IInv, AllSteady, Steady, AllExact
<1>3. ASSUME NEW v \in shares[p][k], ring[p].data[v.slot] = m
      PROVE  v = u
  <2>1. /\ u \in ShareType(p) /\ v \in ShareType(p) /\ u.nth >= 1
        /\ u.nth = m /\ v.nth = m
        /\ u.generation = ring[p].generation[u.slot] /\ v.generation = ring[p].generation[v.slot]
    BY <1>0, <1>2, <1>3 DEF Steady, Stand, Exact, Shares
  <2>2. m > 0 /\ u.slot \in Slot(p) /\ v.slot \in Slot(p)
    BY <2>1 DEF ShareType
  <2>3. ring[p].log[m] = u.slot /\ ring[p].log[m] = v.slot
    BY <1>0, <1>2, <1>3, <2>2 DEF Steady, Logged
  <2>4. /\ u = [slot |-> u.slot, generation |-> u.generation, nth |-> u.nth]
        /\ v = [slot |-> v.slot, generation |-> v.generation, nth |-> v.nth]
    BY <2>1 DEF ShareType
  <2>5. u.slot = v.slot /\ u.generation = v.generation /\ u.nth = v.nth
    BY <2>1, <2>3
  <2>. QED
    BY <2>4, <2>5
<1>4. m \in Seen[p][k]
  BY <1>0 DEF Seen
<1>5. Sent' = Sent /\ Got' = Got
  BY <1>1 DEF Sent, Got
<1>6. Seen' = [Seen EXCEPT ![p][k] = @ \ {m}]
  <2>1. Shown(ring[p].data, shares[p][k] \ {u}) = Shown(ring[p].data, shares[p][k]) \ {m}
    BY <1>0, <1>3 DEF Shown
  <2>2. shares'[p][k] = shares[p][k] \ {u} /\ \A j \in Ends(p) : j /= k => shares'[p][j] = shares[p][j]
    BY <1>1, <1>2 DEF Shares
  <2>3. \A q \in Pipe : \A j \in Ends(q) :
          Shown(ring'[q].data, shares'[q][j])
            = IF q = p /\ j = k THEN Shown(ring[p].data, shares[p][k]) \ {m}
              ELSE Shown(ring[q].data, shares[q][j])
    BY <1>1, <2>1, <2>2
  <2>. QED
    BY <2>3, SeenIsShown
<1>7. Queue!GiveBack(p, k, m)
  BY <1>1, <1>4, <1>5, <1>6 DEF Queue!GiveBack, Sent, Got, Seen, region
<1>. QED
  BY <1>4, <1>7

\* The join ends the region: without an error every role has met its counts, and an error that is
\* reported is a role's own.
LEMMA EndRefines ==
  ASSUME IInv, Spent, Join
  PROVE  Queue!End
<1>1. /\ ~joined /\ \A r \in Role : status[r] = "done" \/ r \in posted
      /\ joined' = TRUE /\ outcome' = (IF posted = {} THEN Nobody ELSE abort)
      /\ UNCHANGED <<ring, slots, shares>>
  BY DEF Join, tokens
<1>2. CASE posted = {}
  <2>1. ASSUME NEW p \in Pipe, NEW k \in Ends(p)
        PROVE  Got[p][k] = Transfers[p] /\ Seen[p][k] = {}
    <3>1. Consumer[p][k] \in Role /\ Transfers[p] \in Nat
      BY Sizes
    <3>2. Transfers[p] - ring[p].received[k] = 0 /\ shares[p][k] = {}
      BY <1>1, <1>2, <3>1, DrainedIs DEF Spent
    <3>3. ring[p].received[k] \in Nat
      <4>1. ring[p].received \in [Ends(p) -> 0..Transfers[p]]
        BY RingFields DEF IInv, AllSteady, Steady
      <4>. QED
        BY <3>1, <4>1
    <3>. QED
      BY <3>1, <3>2, <3>3 DEF Got, Seen
  <2>2. Queue!Delivered
    BY <2>1 DEF Queue!Delivered, Queue!Listener, Got, Seen, Ends
  <2>. QED
    BY <1>1, <1>2, <2>2 DEF Queue!End
<1>3. CASE posted /= {}
  <2>1. abort /= Nobody /\ abort \in Reasons /\ abort[2] \in {"failed", "deadlock"}
    BY <1>3 DEF IInv, Blamed, Control
  <2>2. abort \in Role \X {"failed", "deadlock"}
    BY <2>1 DEF Reasons
  <2>. QED
    BY <1>1, <1>3, <2>2 DEF Queue!End
<1>. QED
  BY <1>2, <1>3

\* What Broadcast sees is the rings' logs, data and counts, the shares and the end.
LEMMA Unseen ==
  ASSUME UNCHANGED <<shares, region>>, DOMAIN ring = Pipe,
         \A p \in Pipe : /\ ring'[p].log = ring[p].log /\ ring'[p].data = ring[p].data
                         /\ ring'[p].received = ring[p].received
  PROVE  UNCHANGED <<Sent, Got, Seen, joined, outcome>>
<1>1. Sent' = Sent /\ Got' = Got
  BY DEF Sent, Got
<1>2. Seen' = Seen
  BY SeenIsShown
<1>. QED
  BY <1>1, <1>2 DEF region

LEMMA StepRefines ==
  IInv /\ AllExact /\ Spent /\ [Next]_vars
    => Queue!Next \/ UNCHANGED <<Sent, Got, Seen, joined, outcome>>
<1>. SUFFICES ASSUME IInv, AllExact, Spent, Next \/ UNCHANGED vars
     PROVE  Queue!Next \/ UNCHANGED <<Sent, Got, Seen, joined, outcome>>
  OBVIOUS
<1>0. DOMAIN ring = Pipe
  BY DEF IInv, AllSteady
<1>1. CASE UNCHANGED vars
  BY <1>0, <1>1, Unseen DEF vars, tokens
<1>2. CASE Join
  BY <1>2, EndRefines DEF Queue!Next
<1>3. ASSUME NEW r \in Role, Work(r) \/ Fail(r)
      PROVE  Queue!Next \/ UNCHANGED <<Sent, Got, Seen, joined, outcome>>
  <2>1. ASSUME NEW p \in Pipe, Acquire(p)
        PROVE  UNCHANGED <<Sent, Got, Seen, joined, outcome>>
    <3>1. /\ ring'[p].log = ring[p].log /\ ring'[p].data = ring[p].data
          /\ ring'[p].received = ring[p].received
          /\ shares' = shares /\ UNCHANGED region
          /\ \A q \in Pipe \ {p} : ring'[q] = ring[q]
      BY <2>1, AcquireEffect
    <3>. QED
      BY <1>0, <3>1, Unseen
  <2>2. ASSUME NEW p \in Pipe, NEW s \in Slot(p), Commit(p, s)
        PROVE  Queue!Next
    BY <2>2, SendRefines DEF Queue!Next
  <2>3. ASSUME NEW p \in Pipe, NEW k \in Ends(p), Receive(p, k)
        PROVE  Queue!Next
    BY <2>3, TakeRefines DEF Queue!Next, Queue!Listener, Ends
  <2>4. ASSUME NEW p \in Pipe, NEW k \in Ends(p), NEW u \in shares[p][k], Release(p, k, u)
        PROVE  Queue!Next
    <3>1. k \in Queue!Listener(p) /\ \E m \in Seen[p][k] : Queue!GiveBack(p, k, m)
      BY <2>4, GiveBackRefines DEF Queue!Listener, Ends
    <3>. QED
      BY <3>1, Zenon DEF Queue!Next, Seen
  <2>5. CASE Sleep(r) \/ Abandon(r) \/ TimeOut(r) \/ Post(r) \/ Fail(r) \/ Finish(r)
    <3>1. UNCHANGED <<tokens, region>>
      BY <2>5 DEF Sleep, Abandon, TimeOut, Post, Fail, Finish
    <3>. QED
      BY <1>0, <3>1, Unseen DEF tokens
  <2>. QED
    BY <1>3, <2>1, <2>2, <2>3, <2>4, <2>5 DEF Work
<1>. QED
  BY <1>1, <1>2, <1>3 DEF Next

\* The interpreter implements Broadcast, for any pipes, roles, slots, consumers and counts, with
\* roles that hold tokens as they like, fail, wait too long and are called off: every consumer
\* sees every commit once, in order and unchanged until it gives it back, no more commits are
\* under way than there are slots, and a region that reports no error has made every transfer
\* (interp.rs: Ring, specialize).
THEOREM RingsBroadcast == Spec => Broadcasts
<1>1. Init => Queue!Init
  <2>. SUFFICES ASSUME Init PROVE Queue!Init
    OBVIOUS
  <2>1. \A p \in Pipe : /\ Len(ring[p].log) = 0 /\ ring[p].received = [k \in Ends(p) |-> 0]
                        /\ \A k \in Ends(p) : Shown(ring[p].data, shares[p][k]) = {}
    BY DEF Init, Shown
  <2>2. /\ Sent = [p \in Pipe |-> 0] /\ Got = [p \in Pipe |-> [k \in Ends(p) |-> 0]]
        /\ Seen = [p \in Pipe |-> [k \in Ends(p) |-> {}]]
    BY <2>1, SeenIsShown DEF Sent, Got
  <2>. QED
    BY <2>2 DEF Init, Queue!Init, Queue!Listener, Sent, Got, Seen, Ends
<1>2. Init => AllExact /\ Spent
  BY StartsExact DEF Init, Spent
<1>3. IInv /\ AllExact /\ Spent /\ [Next]_vars
        => AllExact' /\ Spent' /\ [Queue!Next]_<<Sent, Got, Seen, joined, outcome>>
  BY StaysExact, StaysSpent, StepRefines
<1>. QED
  BY <1>1, <1>2, <1>3, Invariant, PTL DEF Spec, Broadcasts, Queue!Spec, Sent, Got, Seen
=============================================================================
