---------------------------- MODULE LaunchProofs ----------------------------
(***************************************************************************)
(* For every list of launches and every set of buffers: what is running    *)
(* sees the serial order, the host sees it whenever it has control, and no *)
(* barrier is placed for nothing.  For every model and every sequence of   *)
(* passes a Runner asks for, what its launches then compute with: nothing  *)
(* stale, the quantisation of their own inputs, their own layers' memory.  *)
(***************************************************************************)
EXTENDS Passes, DataProofs, FiniteSetTheorems, TLAPS

List == base + 1..encoded
Started == Running \cup done

Listed == \E p \in Programs : encoder = p.encoder /\ steps = p.steps

\* While the host has control nothing is going on.
Quiet == phase = "host" => encoded = base /\ Running = {} /\ done = {}

\* The tracker's lists hold exactly what the launches since the last barrier write and read.
Tracks ==
  phase # "host" =>
    /\ \A j \in List : after[j] <= barriers
    /\ encoded > base => after[encoded] = barriers
    /\ encoder = "concurrent" =>
         /\ \A j \in List : after[j] = barriers =>
              Writes(steps[j]) \subseteq written /\ Reads(steps[j]) \subseteq read
         /\ \A b \in written : \E j \in List : after[j] = barriers /\ b \in Writes(steps[j])
         /\ \A b \in read : \E j \in List : after[j] = barriers /\ b \in Reads(steps[j])

\* Launches that conflict have a barrier between them.
Ordered ==
  encoder = "concurrent" =>
    \A i, j \in List : i < j /\ Conflict(steps[i], steps[j]) => after[i] < after[j]

\* What has started had everything complete that holds it.
Waited == \A j \in Started : \A i \in List : HeldBy(i, j) => i \in done

\* A buffer is as the lists before left it, or as the latest of its writers that have started
\* left it or is leaving it.
Content(b) ==
  \/ /\ \A k \in Started : b \notin steps[k].outs
     /\ InTurn(mem[b], base + 1, b)
  \/ \E i \in Started :
       /\ b \in steps[i].outs
       /\ \A k \in Started : b \in steps[k].outs => k <= i
       /\ mem[b] = IF i \in Running THEN Partial(i) ELSE i

Contents == \A b \in Buffers : Content(b)

Inv ==
  /\ TypeOK /\ Listed /\ Quiet
  /\ Tracks /\ Ordered /\ Waited
  /\ Contents /\ SeesSerial
  /\ BarrierNeeded

-----------------------------------------------------------------------------
LEMMA Program ==
  ASSUME Listed
  PROVE  /\ encoder \in {"concurrent", "serial", "stream"}
         /\ N \in Nat
         /\ \A i \in 1..N : steps[i].ins \subseteq Buffers /\ steps[i].outs \subseteq Buffers
BY ProgramsAssumption DEF Listed, N

LEMMA Places ==
  ASSUME TypeOK, Listed
  PROVE  /\ base \in Nat /\ encoded \in Nat /\ base <= encoded /\ encoded <= N
         /\ Started \subseteq List /\ List \subseteq 1..N
<1>1. N \in Nat
  BY Program
<1>2. base \in Nat /\ encoded \in Nat /\ base <= encoded /\ encoded <= N
  BY <1>1 DEF TypeOK
<1>3. Started \subseteq List
  BY DEF TypeOK, Started, List
<1>4. List \subseteq 1..N
  BY <1>1, <1>2 DEF List
<1>. QED
  BY <1>2, <1>3, <1>4

\* Nothing writes a buffer between two points: it holds the same in turn at both.
LEMMA Later ==
  ASSUME NEW v, NEW b, NEW m \in Nat \ {0}, NEW n \in Nat, m <= n,
         InTurn(v, m, b), \A k \in m..n - 1 : b \notin steps[k].outs
  PROVE  InTurn(v, n, b)
BY DEF InTurn

\* Two launches of a list that share a buffer one of them writes are never both on their way.
LEMMA Apart ==
  ASSUME TypeOK, Listed, Ordered, NEW i \in List, NEW j \in List, i < j, NEW b,
         \/ b \in steps[i].outs /\ b \in Bound(steps[j])
         \/ b \in Bound(steps[i]) /\ b \in steps[j].outs
  PROVE  HeldBy(i, j)
<1>1. encoder = "concurrent" => Conflict(steps[i], steps[j])
  BY DEF Conflict, Writes, Reads, Bound
<1>. QED
  BY <1>1 DEF Ordered, HeldBy

\* Once every launch of the list that writes b before n has been run, and none behind, b holds
\* what it holds in turn at n.
LEMMA Found ==
  ASSUME TypeOK, Listed, NEW b \in Buffers, Content(b),
         NEW n \in base + 1..encoded + 1,
         \A k \in List : k < n /\ b \in steps[k].outs => k \in done,
         \A k \in Started : b \in steps[k].outs => k < n
  PROVE  InTurn(mem[b], n, b)
<1>. base \in Nat /\ encoded \in Nat /\ base <= encoded /\ n \in Nat /\ Started \subseteq List
  BY Places
<1>1. CASE (\A k \in Started : b \notin steps[k].outs) /\ InTurn(mem[b], base + 1, b)
  <2>1. \A k \in base + 1..n - 1 : b \notin steps[k].outs
    BY <1>1 DEF Started, List
  <2>. QED
    BY <1>1, <2>1, Later
<1>2. CASE \E i \in Started :
             /\ b \in steps[i].outs
             /\ \A k \in Started : b \in steps[k].outs => k <= i
             /\ mem[b] = IF i \in Running THEN Partial(i) ELSE i
  <2>1. PICK i \in Started :
             /\ b \in steps[i].outs
             /\ \A k \in Started : b \in steps[k].outs => k <= i
             /\ mem[b] = IF i \in Running THEN Partial(i) ELSE i
    BY <1>2
  <2>2. i \in List /\ i < n /\ i \in done
    BY <2>1
  <2>3. i \notin Running
    BY <2>2 DEF TypeOK
  <2>4. mem[b] = i
    BY <2>1, <2>3
  <2>5. \A k \in i + 1..n - 1 : b \notin steps[k].outs
    BY <2>1, <2>2 DEF Started, List
  <2>. QED
    BY <2>1, <2>2, <2>4, <2>5 DEF InTurn, List
<1>. QED
  BY <1>1, <1>2 DEF Content

-----------------------------------------------------------------------------
\* The lists and the memory of a program step by step: each action keeps Inv.

LEMMA InitInv == Init => Inv
<1>. SUFFICES ASSUME Init PROVE Inv
  OBVIOUS
<1>1. Listed
  BY DEF Init, Listed
<1>2. N \in Nat /\ base = 0 /\ encoded = 0
  BY <1>1, Program DEF Init
<1>3. Running = {} /\ done = {} /\ Started = {}
  BY DEF Init, Running, Started
<1>4. TypeOK
  BY <1>2, <1>3 DEF Init, TypeOK
<1>5. Quiet /\ Tracks /\ BarrierNeeded
  BY <1>2, <1>3 DEF Init, Quiet, Tracks, BarrierNeeded
<1>6. Ordered /\ Waited
  BY <1>2, <1>3 DEF Ordered, Waited, List
<1>7. Contents
  <2>. SUFFICES ASSUME NEW b \in Buffers PROVE Content(b)
    BY DEF Contents
  <2>1. mem[b] = 0
    BY DEF Init
  <2>2. InTurn(0, 1, b)
    BY DEF InTurn
  <2>. QED
    BY <1>2, <1>3, <2>1, <2>2 DEF Content
<1>8. SeesSerial
  BY <1>3 DEF SeesSerial
<1>. QED
  BY <1>1, <1>4, <1>5, <1>6, <1>7, <1>8 DEF Inv

LEMMA HostAccessInv == Inv /\ HostAccess => Inv'
<1>. SUFFICES ASSUME Inv, HostAccess PROVE Inv'
  OBVIOUS
<1>. USE DEF Inv
<1>1. Listed' /\ N' = N /\ N \in Nat
  BY Program DEF HostAccess, Listed, N
<1>2. base \in Nat /\ base < N /\ base' = base + 1 /\ encoded' = base + 1 /\ phase' = "host"
  BY Places, <1>1 DEF HostAccess
<1>3. Running = {} /\ done = {} /\ saw' = saw /\ done' = done
  BY DEF HostAccess, Quiet
<1>4. Running' = {} /\ Started' = {} /\ Started = {}
  BY <1>3 DEF Running, Started
<1>5. mem' \in [Buffers -> Int]
  BY <1>2 DEF HostAccess, TypeOK
<1>6. TypeOK'
  BY <1>1, <1>2, <1>3, <1>4, <1>5 DEF HostAccess, TypeOK
<1>7. Quiet' /\ Tracks' /\ BarrierNeeded'
  BY <1>2, <1>3, <1>4 DEF Quiet, Tracks, BarrierNeeded
<1>8. Ordered'
  <2>1. List' = {}
    BY <1>2 DEF List
  <2>. QED
    BY <2>1 DEF Ordered
<1>9. Waited' /\ SeesSerial'
  BY <1>4 DEF Waited, SeesSerial
<1>10. Contents'
  <2>. SUFFICES ASSUME NEW b \in Buffers PROVE Content(b)'
    BY DEF Contents
  <2>1. InTurn(mem[b], base + 1, b)
    BY <1>4 DEF Contents, Content
  <2>2. steps' = steps
    BY DEF HostAccess
  <2>3. CASE b \in steps[base + 1].outs
    BY <2>2, <2>3, <1>2, <1>4 DEF HostAccess, Content, InTurn
  <2>4. CASE b \notin steps[base + 1].outs
    <3>1. mem'[b] = mem[b]
      BY <2>4 DEF HostAccess
    <3>2. InTurn(mem[b], base + 2, b)
      BY <2>1, <2>4, <1>2, Later
    <3>. QED
      BY <3>1, <3>2, <2>2, <1>2, <1>4 DEF Content, InTurn
  <2>. QED
    BY <2>3, <2>4
<1>. QED
  BY <1>1, <1>6, <1>7, <1>8, <1>9, <1>10

LEMMA OpenInv == Inv /\ Open => Inv'
<1>. SUFFICES ASSUME Inv, Open PROVE Inv'
  OBVIOUS
<1>. USE DEF Inv
<1>1. /\ UNCHANGED <<encoder, steps, base, encoded, after, saw, done, mem>>
      /\ phase' = "encoding" /\ barriers' = 0 /\ written' = {} /\ read' = {}
  BY DEF Open
<1>2. Listed' /\ N' = N /\ Running' = Running /\ Started' = Started /\ List' = List
  BY <1>1 DEF Listed, N, Running, Started, List
<1>3. encoded = base /\ List = {} /\ base \in Nat
  BY Places DEF Open, Quiet, List
<1>4. TypeOK'
  BY <1>1, <1>2 DEF TypeOK
<1>5. Quiet' /\ Tracks' /\ BarrierNeeded'
  BY <1>1, <1>2, <1>3 DEF Quiet, Tracks, BarrierNeeded
<1>6. Ordered' /\ Waited'
  BY <1>2, <1>3 DEF Ordered, Waited
<1>7. Contents' /\ SeesSerial'
  BY <1>1, <1>2 DEF Contents, Content, SeesSerial, InTurn, Partial
<1>. QED
  BY <1>2, <1>4, <1>5, <1>6, <1>7

LEMMA CommitInv == Inv /\ Commit => Inv'
<1>. SUFFICES ASSUME Inv, Commit PROVE Inv'
  OBVIOUS
<1>. USE DEF Inv
<1>1. /\ UNCHANGED <<encoder, steps, base, encoded, written, read, barriers, after, saw, done, mem>>
      /\ phase = "encoding" /\ phase' = "waiting"
  BY DEF Commit
<1>2. Listed' /\ N' = N /\ Running' = Running /\ Started' = Started /\ List' = List
  BY <1>1 DEF Listed, N, Running, Started, List
<1>3. TypeOK'
  BY <1>1, <1>2 DEF TypeOK
<1>4. Quiet' /\ BarrierNeeded'
  BY <1>1 DEF Quiet, BarrierNeeded
<1>5. Tracks' /\ Ordered' /\ Waited'
  BY <1>1, <1>2 DEF Tracks, Ordered, Waited, Conflict, Writes, Reads, Bound, HeldBy
<1>6. Contents' /\ SeesSerial'
  BY <1>1, <1>2 DEF Contents, Content, SeesSerial, InTurn, Partial
<1>. QED
  BY <1>2, <1>3, <1>4, <1>5, <1>6

LEMMA ReturnInv == Inv /\ Return => Inv'
<1>. SUFFICES ASSUME Inv, Return PROVE Inv'
  OBVIOUS
<1>. USE DEF Inv
<1>1. /\ UNCHANGED <<encoder, steps, encoded, written, read, barriers, after, saw, mem>>
      /\ phase' = "host" /\ base' = encoded /\ done' = {} /\ done = List
  BY DEF Return, List
<1>2. Listed' /\ N' = N /\ N \in Nat /\ Running' = Running
  BY <1>1, Program DEF Listed, N, Running
<1>3. base \in Nat /\ encoded \in Nat /\ base <= encoded /\ encoded <= N
  BY Places
<1>4. Running = {} /\ Started' = {}
  BY <1>1, <1>2 DEF TypeOK, List, Started
<1>5. TypeOK'
  BY <1>1, <1>2, <1>3, <1>4 DEF TypeOK
<1>6. Quiet' /\ Tracks' /\ BarrierNeeded'
  BY <1>1, <1>2, <1>4 DEF Quiet, Tracks, BarrierNeeded
<1>7. Ordered'
  <2>1. List' = {}
    BY <1>1, <1>3 DEF List
  <2>. QED
    BY <2>1 DEF Ordered
<1>8. Waited' /\ SeesSerial'
  BY <1>2, <1>4 DEF Waited, SeesSerial
<1>9. Contents'
  <2>. SUFFICES ASSUME NEW b \in Buffers PROVE Content(b)'
    BY DEF Contents
  <2>1. InTurn(mem[b], encoded + 1, b)
    <3>1. \A k \in Started : k < encoded + 1
      BY <1>1, <1>3, <1>4 DEF Started, List
    <3>2. encoded + 1 \in base + 1..encoded + 1
      BY <1>3
    <3>. QED
      BY <1>1, <3>1, <3>2, Found DEF Contents
  <2>. QED
    BY <2>1, <1>1, <1>4 DEF Content, InTurn
<1>. QED
  BY <1>2, <1>5, <1>6, <1>7, <1>8, <1>9

\* One turn of the loop: what conflicts with a launch since the last barrier is in the
\* tracker's lists, so it gets a barrier in between; and only then.
LEMMA EncodeInv == Inv /\ Encode => Inv'
<1>. SUFFICES ASSUME Inv, Encode PROVE Inv'
  OBVIOUS
<1>. USE DEF Inv
<1>. DEFINE s == steps[encoded + 1]
            fenced == encoder = "concurrent" /\ Hazard(s)
<1>1. /\ UNCHANGED <<encoder, steps, phase, base, saw, done, mem>>
      /\ phase = "encoding" /\ encoded < N /\ encoded' = encoded + 1
      /\ after' = [after EXCEPT ![encoded + 1] = barriers']
  BY DEF Encode, More
<1>2. barriers' = IF fenced THEN barriers + 1 ELSE barriers
  BY DEF Encode
<1>3. Listed' /\ N' = N /\ N \in Nat /\ Running' = Running /\ Started' = Started
  BY <1>1, Program DEF Listed, N, Running, Started
<1>4. /\ base \in Nat /\ encoded \in Nat /\ base <= encoded /\ barriers \in Nat /\ barriers' \in Nat
      /\ encoded + 1 \in 1..N
  BY <1>1, <1>2, <1>3, Places DEF TypeOK
<1>5. List' = List \cup {encoded + 1} /\ encoded + 1 \notin List
  BY <1>1, <1>4 DEF List
<1>6. /\ after'[encoded + 1] = barriers'
      /\ \A j \in List : after'[j] = after[j] /\ after[j] \in Nat /\ after[j] <= barriers
  BY <1>1, <1>3, <1>4, <1>5, Places DEF TypeOK, Tracks
<1>7. \A t : Writes(t)' = Writes(t) /\ Reads(t)' = Reads(t) /\ Bound(t)' = Bound(t)
  BY DEF Writes, Reads, Bound
<1>8. s.ins \subseteq Buffers /\ s.outs \subseteq Buffers
  BY <1>4, Program
<1>9. Writes(s) \subseteq Buffers /\ Reads(s) \subseteq Buffers
  BY <1>8 DEF Writes, Reads, Bound
<1>10. encoder = "concurrent" =>
         /\ written' = IF fenced THEN Writes(s) ELSE written \cup Writes(s)
         /\ read' = IF fenced THEN Reads(s) ELSE read \cup Reads(s)
  BY DEF Encode, Tracked
<1>11. encoder # "concurrent" => written' = written /\ read' = read
  BY DEF Encode
<1>12. TypeOK'
  <2>1. written' \subseteq Buffers /\ read' \subseteq Buffers
    BY <1>9, <1>10, <1>11 DEF TypeOK
  <2>2. after' \in [1..N -> Nat]
    BY <1>1, <1>4 DEF TypeOK
  <2>3. Running \subseteq base + 1..encoded + 1 /\ done \subseteq (base + 1..encoded + 1) \ Running
    BY <1>4 DEF TypeOK
  <2>. QED
    BY <1>1, <1>3, <1>4, <2>1, <2>2, <2>3 DEF TypeOK
<1>13. Quiet'
  BY <1>1 DEF Quiet
<1>14. Tracks'
  <2>1. \A j \in List' : after'[j] <= barriers'
    BY <1>2, <1>4, <1>5, <1>6
  <2>2. after'[encoded'] = barriers'
    BY <1>1, <1>6
  <2>3. ASSUME encoder = "concurrent"
        PROVE  /\ \A j \in List' : after'[j] = barriers' =>
                    Writes(steps[j]) \subseteq written' /\ Reads(steps[j]) \subseteq read'
               /\ \A b \in written' : \E j \in List' : after'[j] = barriers' /\ b \in Writes(steps[j])
               /\ \A b \in read' : \E j \in List' : after'[j] = barriers' /\ b \in Reads(steps[j])
    <3>1. CASE fenced
      <4>1. written' = Writes(s) /\ read' = Reads(s)
        BY <2>3, <1>10, <3>1
      <4>2. \A j \in List' : after'[j] = barriers' => j = encoded + 1
        BY <1>2, <1>4, <1>5, <1>6, <3>1
      <4>. QED
        BY <4>1, <4>2, <1>5, <1>6
    <3>2. CASE ~fenced
      <4>1. written' = written \cup Writes(s) /\ read' = read \cup Reads(s) /\ barriers' = barriers
        BY <2>3, <1>2, <1>10, <3>2
      <4>2. /\ \A j \in List : after[j] = barriers =>
                 Writes(steps[j]) \subseteq written /\ Reads(steps[j]) \subseteq read
            /\ \A b \in written : \E j \in List : after[j] = barriers /\ b \in Writes(steps[j])
            /\ \A b \in read : \E j \in List : after[j] = barriers /\ b \in Reads(steps[j])
        BY <2>3, <1>1 DEF Tracks
      <4>. HIDE DEF s, fenced
      <4>3. s = steps[encoded + 1]
        BY DEF s
      <4>4. \A j \in List' : after'[j] = barriers' =>
                 Writes(steps[j]) \subseteq written' /\ Reads(steps[j]) \subseteq read'
        BY <4>1, <4>2, <4>3, <1>5, <1>6
      <4>5. \A b \in written' : \E j \in List' : after'[j] = barriers' /\ b \in Writes(steps[j])
        BY <4>1, <4>2, <4>3, <1>5, <1>6
      <4>6. \A b \in read' : \E j \in List' : after'[j] = barriers' /\ b \in Reads(steps[j])
        BY <4>1, <4>2, <4>3, <1>5, <1>6
      <4>. QED
        BY <4>4, <4>5, <4>6
    <3>. QED
      BY <3>1, <3>2
  <2>. QED
    BY <2>1, <2>2, <2>3, <1>1, <1>7 DEF Tracks
<1>15. Ordered'
  <2>. SUFFICES ASSUME encoder = "concurrent",
                       NEW i \in List', NEW j \in List', i < j, Conflict(steps[i], steps[j])
                PROVE  after'[i] < after'[j]
    BY <1>1, <1>7 DEF Ordered, Conflict
  <2>1. CASE j \in List
    <3>1. i \in List
      BY <2>1, <1>4, <1>5 DEF List
    <3>. QED
      BY <2>1, <3>1, <1>6 DEF Ordered
  <2>2. CASE j = encoded + 1
    <3>1. i \in List
      BY <2>2, <1>5
    <3>2. CASE after[i] < barriers
      BY <2>2, <3>1, <3>2, <1>2, <1>4, <1>6
    <3>3. CASE after[i] = barriers
      <4>1. Writes(steps[i]) \subseteq written /\ Reads(steps[i]) \subseteq read
        BY <3>1, <3>3, <1>1 DEF Tracks
      <4>2. Hazard(s)
        BY <4>1, <2>2 DEF Conflict, Hazard
      <4>. QED
        BY <4>2, <2>2, <3>1, <1>2, <1>4, <1>6
    <3>. QED
      BY <3>1, <3>2, <3>3, <1>4, <1>6
  <2>. QED
    BY <2>1, <2>2, <1>5
<1>16. Waited'
  <2>. SUFFICES ASSUME NEW j \in Started, NEW i \in List', HeldBy(i, j)' PROVE i \in done
    BY <1>1, <1>3 DEF Waited
  <2>1. j \in List /\ i < j
    BY Places DEF HeldBy
  <2>2. i \in List
    BY <2>1, <1>4, <1>5 DEF List
  <2>3. HeldBy(i, j)
    BY <1>1, <1>6, <2>1, <2>2 DEF HeldBy
  <2>. QED
    BY <2>2, <2>3 DEF Waited
<1>17. Contents' /\ SeesSerial'
  BY <1>1, <1>3 DEF Contents, Content, SeesSerial, InTurn, Partial
<1>18. BarrierNeeded'
  <2>. SUFFICES ASSUME encoded + 1 > base + 1, after'[encoded + 1] > after'[encoded]
                PROVE  \E j \in List : after'[j] = after'[encoded] /\ Conflict(steps[j], s)
    BY <1>1, <1>4, <1>7 DEF BarrierNeeded, List, Conflict
  <2>1. encoded \in List
    BY <1>4 DEF List
  <2>2. after[encoded] = barriers /\ after'[encoded] = barriers
    BY <2>1, <1>1, <1>4, <1>6 DEF Tracks
  <2>3. encoder = "concurrent" /\ Hazard(s)
    BY <2>2, <1>2, <1>4, <1>6
  <2>4. CASE \E b \in written : b \in Bound(s)
    <3>1. PICK b \in written : b \in Bound(s)
      BY <2>4
    <3>2. PICK j \in List : after[j] = barriers /\ b \in Writes(steps[j])
      BY <2>3, <1>1, <3>1 DEF Tracks
    <3>. QED
      BY <3>1, <3>2, <2>2, <1>6 DEF Conflict
  <2>5. CASE \E b \in read : b \in Writes(s)
    <3>1. PICK b \in read : b \in Writes(s)
      BY <2>5
    <3>2. PICK j \in List : after[j] = barriers /\ b \in Reads(steps[j])
      BY <2>3, <1>1, <3>1 DEF Tracks
    <3>. QED
      BY <3>1, <3>2, <2>2, <1>6 DEF Conflict
  <2>. QED
    BY <2>3, <2>4, <2>5 DEF Hazard
<1>. QED
  BY <1>3, <1>12, <1>13, <1>14, <1>15, <1>16, <1>17, <1>18

\* What is to be shown of the launches that run after a step.
LEMMA SeesNext ==
  ASSUME steps' = steps,
         \A i \in Running' : \A b \in steps[i].ins :
           InTurn(saw'[i][b], i, b) /\ (b \notin steps[i].outs => mem'[b] = saw'[i][b])
  PROVE  SeesSerial'
BY DEF SeesSerial, InTurn

\* A launch starts: of those it shares a written buffer with, the earlier are complete and the
\* later not yet begun, so it finds its buffers as in turn and spoils none that is being read.
LEMMA BeginInv == ASSUME Inv, NEW j \in List, Begin(j) PROVE Inv'
<1>. USE DEF Inv
<1>1. /\ UNCHANGED <<encoder, steps, phase, base, encoded, written, read, barriers, after, done>>
      /\ j \notin Started
      /\ \A i \in List : HeldBy(i, j) => i \in done
      /\ saw' = [k \in Running \cup {j} |->
                   IF k = j THEN [b \in steps[j].ins |-> mem[b]] ELSE saw[k]]
      /\ mem' = [b \in Buffers |-> IF b \in steps[j].outs THEN Partial(j) ELSE mem[b]]
  BY DEF Begin, host, List, Started
<1>2. Listed' /\ N' = N /\ N \in Nat /\ List' = List
  BY <1>1, Program DEF Listed, N, List
<1>3. Running' = Running \cup {j} /\ Started' = Started \cup {j}
  BY <1>1 DEF Running, Started
<1>4. /\ base \in Nat /\ encoded \in Nat /\ base <= encoded /\ encoded <= N
      /\ Started \subseteq List /\ List \subseteq 1..N /\ j \in 1..N
  BY Places
<1>5. \A i, k \in List : HeldBy(i, k)' <=> HeldBy(i, k)
  BY <1>1 DEF HeldBy
<1>6. ASSUME NEW k \in Started, NEW b,
             \/ b \in steps[j].outs /\ b \in Bound(steps[k])
             \/ b \in Bound(steps[j]) /\ b \in steps[k].outs
      PROVE  k < j /\ k \in done
  <2>1. k \in List /\ k \in Nat /\ j \in Nat /\ k # j
    BY <1>1, <1>4
  <2>2. CASE k < j
    BY <1>1, <1>6, <2>1, <2>2, Apart
  <2>3. CASE j < k
    <3>1. HeldBy(j, k)
      BY <1>6, <2>1, <2>3, Apart
    <3>2. j \in done
      BY <3>1 DEF Waited
    <3>. QED
      BY <3>2, <1>1 DEF Started
  <2>. QED
    BY <2>1, <2>2, <2>3
<1>7. ASSUME NEW b \in Bound(steps[j]) PROVE InTurn(mem[b], j, b)
  <2>1. b \in Buffers
    BY <1>4, Program DEF Bound
  <2>2. \A k \in List : k < j /\ b \in steps[k].outs => k \in done
    <3>. SUFFICES ASSUME NEW k \in List, k < j, b \in steps[k].outs PROVE k \in done
      OBVIOUS
    <3>1. HeldBy(k, j)
      BY Apart
    <3>. QED
      BY <3>1, <1>1
  <2>3. \A k \in Started : b \in steps[k].outs => k < j
    BY <1>6
  <2>4. j \in base + 1..encoded + 1
    BY <1>4 DEF List
  <2>. QED
    BY <2>1, <2>2, <2>3, <2>4, Found DEF Contents
<1>8. TypeOK'
  <2>1. mem' \in [Buffers -> Int]
    BY <1>1, <1>4 DEF TypeOK, Partial
  <2>2. Running' \subseteq base + 1..encoded /\ done \subseteq (base + 1..encoded) \ Running'
    BY <1>1, <1>3 DEF TypeOK, List, Started
  <2>. QED
    BY <1>1, <1>2, <2>1, <2>2 DEF TypeOK
<1>9. Quiet'
  <2>1. phase # "host"
    BY <1>4 DEF Quiet, List
  <2>. QED
    BY <2>1, <1>1 DEF Quiet
<1>10. Tracks' /\ Ordered' /\ BarrierNeeded'
  BY <1>1, <1>2 DEF Tracks, Ordered, BarrierNeeded, Conflict, Writes, Reads, Bound
<1>11. Waited'
  <2>. SUFFICES ASSUME NEW k \in Started \cup {j}, NEW i \in List, HeldBy(i, k) PROVE i \in done
    BY <1>1, <1>2, <1>3, <1>4, <1>5 DEF Waited
  <2>. QED
    BY <1>1 DEF Waited
<1>12. Contents'
  <2>. SUFFICES ASSUME NEW b \in Buffers PROVE Content(b)'
    BY DEF Contents
  <2>1. CASE b \in steps[j].outs
    <3>1. mem'[b] = Partial(j)
      BY <1>1, <2>1
    <3>2. \A k \in Started : b \in steps[k].outs => k <= j
      BY <1>4, <1>6, <2>1 DEF Bound
    <3>3. /\ j \in Started' /\ j \in Running' /\ b \in steps'[j].outs /\ steps' = steps
          /\ \A k \in Started' : b \in steps[k].outs => k <= j
          /\ mem'[b] = Partial(j)'
      BY <1>1, <1>3, <1>4, <2>1, <3>1, <3>2 DEF Partial
    <3>. QED
      BY <3>3 DEF Content
  <2>2. CASE b \notin steps[j].outs
    <3>1. mem'[b] = mem[b]
      BY <1>1, <2>2
    <3>2. \A k : k \in Started' /\ b \in steps[k].outs <=> k \in Started /\ b \in steps[k].outs
      BY <1>3, <2>2
    <3>3. \A k \in Started : k \in Running' <=> k \in Running
      BY <1>1, <1>3
    <3>4. CASE (\A k \in Started : b \notin steps[k].outs) /\ InTurn(mem[b], base + 1, b)
      BY <1>1, <3>1, <3>2, <3>4 DEF Content, InTurn
    <3>5. CASE \E i \in Started :
                 /\ b \in steps[i].outs
                 /\ \A k \in Started : b \in steps[k].outs => k <= i
                 /\ mem[b] = IF i \in Running THEN Partial(i) ELSE i
      <4>1. PICK i \in Started :
                 /\ b \in steps[i].outs
                 /\ \A k \in Started : b \in steps[k].outs => k <= i
                 /\ mem[b] = IF i \in Running THEN Partial(i) ELSE i
        BY <3>5
      <4>2. /\ i \in Started' /\ b \in steps'[i].outs
            /\ \A k \in Started' : b \in steps'[k].outs => k <= i
            /\ mem'[b] = IF i \in Running' THEN Partial(i)' ELSE i
        BY <1>1, <3>1, <3>2, <3>3, <4>1 DEF Partial
      <4>. QED
        BY <4>2 DEF Content
    <3>. QED
      BY <3>4, <3>5 DEF Contents, Content
  <2>. QED
    BY <2>1, <2>2
<1>13. SeesSerial'
  <2>. SUFFICES ASSUME NEW i \in Running', NEW b \in steps[i].ins
                PROVE  /\ InTurn(saw'[i][b], i, b)
                       /\ b \notin steps[i].outs => mem'[b] = saw'[i][b]
    BY <1>1, SeesNext
  <2>1. b \in Buffers
    BY <1>3, <1>4, Program DEF Started
  <2>2. CASE i = j
    <3>1. saw'[i][b] = mem[b]
      BY <1>1, <2>2
    <3>2. b \notin steps[i].outs => mem'[b] = mem[b]
      BY <1>1, <2>1, <2>2
    <3>3. InTurn(mem[b], j, b)
      BY <1>7, <2>2 DEF Bound
    <3>. QED
      BY <3>1, <3>2, <3>3, <2>2
  <2>3. CASE i # j
    <3>1. i \in Running /\ saw'[i] = saw[i]
      BY <1>1, <1>3, <2>3
    <3>2. InTurn(saw[i][b], i, b) /\ (b \notin steps[i].outs => mem[b] = saw[i][b])
      BY <3>1 DEF SeesSerial
    <3>3. b \notin steps[j].outs
      <4>. SUFFICES ASSUME b \in steps[j].outs PROVE FALSE
        OBVIOUS
      <4>1. i \in done
        BY <1>6, <3>1 DEF Started, Bound
      <4>. QED
        BY <4>1, <3>1 DEF TypeOK
    <3>. QED
      BY <1>1, <2>1, <3>1, <3>2, <3>3
  <2>. QED
    BY <2>2, <2>3
<1>. QED
  BY <1>2, <1>8, <1>9, <1>10, <1>11, <1>12, <1>13

\* A launch ends: what it wrote is whole, for no other writer of it was on its way.
LEMMA EndInv == ASSUME Inv, NEW j \in List, End(j) PROVE Inv'
<1>. USE DEF Inv
<1>1. /\ UNCHANGED <<encoder, steps, phase, base, encoded, written, read, barriers, after>>
      /\ j \in Running
      /\ saw' = [k \in Running \ {j} |-> saw[k]]
      /\ done' = done \cup {j}
      /\ mem' = [b \in Buffers |-> IF b \notin steps[j].outs THEN mem[b]
                                   ELSE IF mem[b] = Partial(j) THEN j ELSE Torn]
  BY DEF End, host
<1>2. Listed' /\ N' = N /\ N \in Nat /\ List' = List
  BY <1>1, Program DEF Listed, N, List
<1>3. Running' = Running \ {j} /\ Started' = Started /\ j \in Started
  BY <1>1 DEF Running, Started
<1>4. /\ base \in Nat /\ encoded \in Nat /\ base <= encoded /\ encoded <= N
      /\ Started \subseteq List /\ List \subseteq 1..N /\ j \in 1..N
  BY Places
<1>5. \A i, k \in List : HeldBy(i, k)' <=> HeldBy(i, k)
  BY <1>1 DEF HeldBy
<1>6. j \notin done
  BY <1>1 DEF TypeOK
<1>7. ASSUME NEW k \in Started, k # j, NEW b,
             \/ b \in steps[j].outs /\ b \in Bound(steps[k])
             \/ b \in Bound(steps[j]) /\ b \in steps[k].outs
      PROVE  k < j /\ k \in done
  <2>1. k \in List /\ k \in Nat /\ j \in Nat
    BY <1>4
  <2>2. CASE k < j
    <3>1. HeldBy(k, j)
      BY <1>7, <2>1, <2>2, Apart
    <3>. QED
      BY <3>1, <2>1, <2>2, <1>3 DEF Waited
  <2>3. CASE j < k
    <3>1. HeldBy(j, k)
      BY <1>7, <2>1, <2>3, Apart
    <3>. QED
      BY <3>1, <1>6 DEF Waited
  <2>. QED
    BY <1>7, <2>1, <2>2, <2>3
<1>8. TypeOK'
  <2>1. mem' \in [Buffers -> Int]
    BY <1>1, <1>2, <1>4 DEF TypeOK, Torn
  <2>2. Running' \subseteq base + 1..encoded /\ done' \subseteq (base + 1..encoded) \ Running'
    BY <1>1, <1>3 DEF TypeOK, List
  <2>. QED
    BY <1>1, <1>2, <2>1, <2>2 DEF TypeOK
<1>9. Quiet'
  BY <1>1 DEF Quiet
<1>10. Tracks' /\ Ordered' /\ BarrierNeeded'
  BY <1>1, <1>2 DEF Tracks, Ordered, BarrierNeeded, Conflict, Writes, Reads, Bound
<1>11. Waited'
  BY <1>1, <1>2, <1>3, <1>4, <1>5 DEF Waited
<1>12. Contents'
  <2>. SUFFICES ASSUME NEW b \in Buffers PROVE Content(b)'
    BY DEF Contents
  <2>1. CASE (\A k \in Started : b \notin steps[k].outs) /\ InTurn(mem[b], base + 1, b)
    <3>1. mem'[b] = mem[b]
      BY <1>1, <1>3, <2>1
    <3>. QED
      BY <1>1, <1>3, <2>1, <3>1 DEF Content, InTurn
  <2>2. CASE \E i \in Started :
               /\ b \in steps[i].outs
               /\ \A k \in Started : b \in steps[k].outs => k <= i
               /\ mem[b] = IF i \in Running THEN Partial(i) ELSE i
    <3>1. PICK i \in Started :
               /\ b \in steps[i].outs
               /\ \A k \in Started : b \in steps[k].outs => k <= i
               /\ mem[b] = IF i \in Running THEN Partial(i) ELSE i
      BY <2>2
    <3>2. mem'[b] = IF i \in Running' THEN Partial(i) ELSE i
      <4>1. CASE b \in steps[j].outs
        <5>1. j <= i
          BY <1>3, <3>1, <4>1
        <5>2. i = j
          <6>. SUFFICES ASSUME i # j PROVE FALSE
            OBVIOUS
          <6>1. i < j
            BY <1>7, <3>1, <4>1 DEF Bound
          <6>. QED
            BY <6>1, <5>1, <1>4
        <5>3. mem[b] = Partial(j)
          BY <1>1, <3>1, <5>2
        <5>. QED
          BY <1>1, <1>3, <4>1, <5>2, <5>3
      <4>2. CASE b \notin steps[j].outs
        BY <1>1, <1>3, <3>1, <4>2
      <4>. QED
        BY <4>1, <4>2
    <3>3. /\ i \in Started' /\ b \in steps'[i].outs
          /\ \A k \in Started' : b \in steps'[k].outs => k <= i
          /\ mem'[b] = IF i \in Running' THEN Partial(i)' ELSE i
      BY <1>1, <1>3, <3>1, <3>2 DEF Partial
    <3>. QED
      BY <3>3 DEF Content
  <2>. QED
    BY <2>1, <2>2 DEF Contents, Content
<1>13. SeesSerial'
  <2>. SUFFICES ASSUME NEW i \in Running \ {j}, NEW b \in steps[i].ins
                PROVE  /\ InTurn(saw'[i][b], i, b)
                       /\ b \notin steps[i].outs => mem'[b] = saw'[i][b]
    BY <1>1, <1>3 DEF SeesSerial, InTurn
  <2>1. b \in Buffers
    BY <1>4, Program DEF Started
  <2>2. saw'[i] = saw[i]
    BY <1>1
  <2>3. InTurn(saw[i][b], i, b) /\ (b \notin steps[i].outs => mem[b] = saw[i][b])
    BY DEF SeesSerial
  <2>4. b \notin steps[j].outs
    <3>. SUFFICES ASSUME b \in steps[j].outs PROVE FALSE
      OBVIOUS
    <3>1. i \in done
      BY <1>7 DEF Started, Bound
    <3>. QED
      BY <3>1 DEF TypeOK
  <2>. QED
    BY <1>1, <2>1, <2>2, <2>3, <2>4
<1>. QED
  BY <1>2, <1>8, <1>9, <1>10, <1>11, <1>12, <1>13

-----------------------------------------------------------------------------
LEMMA Invariance == Spec => []Inv
<1>1. Inv /\ [Next]_vars => Inv'
  <2>. SUFFICES ASSUME Inv, [Next]_vars PROVE Inv'
    OBVIOUS
  <2>1. CASE HostAccess
    BY <2>1, HostAccessInv
  <2>2. CASE Open
    BY <2>2, OpenInv
  <2>3. CASE Encode
    BY <2>3, EncodeInv
  <2>4. CASE Commit
    BY <2>4, CommitInv
  <2>5. CASE Return
    BY <2>5, ReturnInv
  <2>6. CASE \E i \in base + 1..encoded : Begin(i) \/ End(i)
    BY <2>6, BeginInv, EndInv DEF List
  <2>7. CASE UNCHANGED vars
    BY <2>7 DEF vars, Inv, TypeOK, Listed, Quiet, Tracks, Ordered, Waited, Contents, Content,
                SeesSerial, BarrierNeeded, List, Started, Running, N, Partial, InTurn, HeldBy,
                Conflict, Writes, Reads, Bound
  <2>. QED
    BY <2>1, <2>2, <2>3, <2>4, <2>5, <2>6, <2>7 DEF Next, Finished
<1>. QED
  BY InitInv, <1>1, PTL DEF Spec

\* Every variable keeps its type: the launches that run and those complete are of the list the
\* host waits for, and none is both.
THEOREM LaunchTypes == Spec => []TypeOK
BY Invariance, PTL DEF Inv

\* Whatever the launches and however the device interleaves those no barrier separates, each
\* reads what running them one after another would have given it, for as long as it runs.
THEOREM Serial == Spec => []SeesSerial
BY Invariance, PTL DEF Inv

\* Whenever the host has control, memory is as running the steps in turn would have left it.
THEOREM HostSerial == Spec => []HostSeesSerial
<1>1. Inv => HostSeesSerial
  <2>. SUFFICES ASSUME Inv, phase = "host", NEW b \in Buffers
                PROVE  Running = {} /\ InTurn(mem[b], base + 1, b)
    BY DEF HostSeesSerial, Inv, Quiet
  <2>1. Running = {} /\ Started = {}
    BY DEF Inv, Quiet, Started
  <2>. QED
    BY <2>1 DEF Inv, Contents, Content
<1>. QED
  BY <1>1, Invariance, PTL

\* The tracker never places a barrier before a launch that conflicts with nothing since the
\* barrier before.
THEOREM NoIdleBarrier == Spec => []BarrierNeeded
BY Invariance, PTL DEF Inv

-----------------------------------------------------------------------------
\* The lists of the Runner. What a launch is, and what it never does.

Groups == {"acts", "bacts", "mtp_in", "mtp_in_b", "int8", "layer", "saved", "rows"}

Names == Acts \cup {"fused", "xq", "xs", "state", "kcache", "vcache"}

Bufs == Groups \X Nat \X Names

Labels ==
  {"host", "matvec qkv", "matvec z", "matvec a/b", "conv", "delta q/k", "gates", "delta step",
   "gated norm", "matvec out_proj", "attention", "kv append", "matvec q", "matvec k/v", "rope",
   "gate mul", "matvec o_proj", "rmsnorm", "matvec gate/up", "silu_mul", "matvec down",
   "matvec lm head", "lm head row", "mtp fc", "quant", "save", "restore", "roll"}

PlanLabels == Labels \ {"quant", "save", "restore", "roll"}

AnyLaunch ==
  [label : Labels, ins : SUBSET Bufs, outs : SUBSET Bufs, known : BOOLEAN,
   mv : {"", "acts", "bacts"}, x : SUBSET Bufs]

\* It copies no layer's memory, and has nothing to do with quantised copies.
Plain(k) ==
  /\ k.label \notin {"roll", "restore"} /\ \A b \in k.outs : b[1] # "saved"
  /\ k.ins \cap Quantised = {} /\ k.outs \cap Quantised = {}
  /\ k.x \subseteq k.ins
  /\ k.mv # "" => k.x # {} /\ k.x \cap k.outs = {}

\* It leaves the memory of every linear layer and its snapshots as they were.
Calm(k) ==
  \A b \in k.outs : b[1] # "rows" /\ (b[1] = "layer" => b[3] \notin {"state", "conv"})

PlainOnes == {k \in AnyLaunch : Plain(k)}
CalmOnes == {k \in PlainOnes : Calm(k)}

LEMMA OfFacts ==
  ASSUME NEW a \in Groups, NEW names \in SUBSET Names
  PROVE  /\ Of(a, names) \in SUBSET Bufs
         /\ \A b : b \in Of(a, names) <=> \E n \in names : b = <<a, 0, n>>
         /\ \A b \in Of(a, names) : b[1] = a
<1>1. \A b : b \in Of(a, names) <=> \E n \in names : b = <<a, 0, n>>
  BY DEF Of
<1>2. \A n \in names : <<a, 0, n>> \in Bufs /\ <<a, 0, n>>[1] = a
  BY DEF Bufs
<1>. QED
  BY <1>1, <1>2

LEMMA LayerFacts ==
  ASSUME NEW l \in Nat, NEW names \in SUBSET Names
  PROVE  /\ Layer(l, names) \in SUBSET Bufs
         /\ \A b : b \in Layer(l, names) <=> \E n \in names : b = <<"layer", l, n>>
         /\ \A b \in Layer(l, names) : b[1] = "layer" /\ b[3] \in names
<1>1. \A b : b \in Layer(l, names) <=> \E n \in names : b = <<"layer", l, n>>
  BY DEF Layer
<1>2. "layer" \in Groups
  BY DEF Groups
<1>3. \A n \in names : <<"layer", l, n>> \in Bufs /\ <<"layer", l, n>>[1] = "layer" /\ <<"layer", l, n>>[3] = n
  BY <1>2 DEF Bufs
<1>. QED
  BY <1>1, <1>3

LEMMA QuantisedFacts ==
  Quantised \in SUBSET Bufs /\ Quantised # {} /\ \A b \in Quantised : b[1] = "int8"
<1>1. Quantised = Of("int8", {"xq", "xs"})
  BY DEF Quantised
<1>2. "int8" \in Groups /\ {"xq", "xs"} \in SUBSET Names /\ "xq" \in {"xq", "xs"}
  BY DEF Groups, Names
<1>3. <<"int8", 0, "xq">> \in Of("int8", {"xq", "xs"})
  BY <1>2, OfFacts
<1>. QED
  BY <1>1, <1>2, <1>3, OfFacts

LEMMA KernelFacts ==
  ASSUME NEW label \in Labels, NEW ins \in SUBSET Bufs, NEW outs \in SUBSET Bufs,
         NEW k, k = Kernel(label, ins, outs)
  PROVE  /\ k \in AnyLaunch
         /\ k.label = label /\ k.ins = ins /\ k.outs = outs /\ k.mv = "" /\ k.x = {}
BY DEF Kernel, AnyLaunch

\* A launch over buffers of one group and of a layer.
LEMMA PlainKernel ==
  ASSUME NEW label \in PlanLabels, NEW ins \in SUBSET Bufs, NEW outs \in SUBSET Bufs,
         NEW k, k = Kernel(label, ins, outs),
         \A b \in ins \cup outs : b[1] \notin {"int8", "saved"}
  PROVE  k \in PlainOnes /\ k.label = label /\ k.ins = ins /\ k.outs = outs
<1>1. ins \cap Quantised = {} /\ outs \cap Quantised = {} /\ \A b \in outs : b[1] # "saved"
  BY QuantisedFacts
<1>2. label \in Labels /\ label \notin {"roll", "restore"}
  BY DEF PlanLabels
<1>3. /\ k \in AnyLaunch
      /\ k.label = label /\ k.ins = ins /\ k.outs = outs /\ k.mv = "" /\ k.x = {}
  BY <1>2 DEF Kernel, AnyLaunch
<1>4. Plain(k)
  BY <1>1, <1>2, <1>3 DEF Plain
<1>. QED
  BY <1>3, <1>4 DEF PlainOnes

\* A matvec of something other than its own result.
Multiplies(k, label, a, x, residual, y) ==
  /\ k = MatVec(label, a, x, residual, y)
  /\ label \in PlanLabels /\ a \in {"acts", "bacts"} /\ residual \in SUBSET Names /\ y \in Names
  /\ x \in SUBSET Bufs /\ x # {} /\ <<a, 0, y>> \notin x /\ \A b \in x : b[1] \notin {"int8", "saved"}

LEMMA MatVecFacts ==
  ASSUME NEW k, NEW label, NEW a, NEW x, NEW residual, NEW y, Multiplies(k, label, a, x, residual, y)
  PROVE  /\ k \in CalmOnes
         /\ k.ins = x \cup Of(a, residual) /\ k.outs = Of(a, {y}) /\ k.x = x /\ k.mv = a
<1>. DEFINE ins == x \cup Of(a, residual)
            outs == Of(a, {y})
            old == Kernel(label, ins, outs)
<1>. /\ label \in PlanLabels /\ a \in {"acts", "bacts"} /\ residual \in SUBSET Names /\ y \in Names
     /\ x \in SUBSET Bufs /\ x # {} /\ <<a, 0, y>> \notin x /\ \A b \in x : b[1] \notin {"int8", "saved"}
  BY DEF Multiplies
<1>1. a \in Groups /\ a \notin {"int8", "saved", "layer", "rows"}
  BY DEF Groups
<1>2. /\ ins \in SUBSET Bufs /\ outs \in SUBSET Bufs
      /\ \A b \in ins \cup outs : b[1] \notin {"int8", "saved"}
      /\ \A b \in outs : b[1] = a
      /\ x \cap outs = {}
  <2>1. Of(a, residual) \in SUBSET Bufs /\ \A b \in Of(a, residual) : b[1] = a
    BY <1>1, OfFacts
  <2>2. outs \in SUBSET Bufs /\ \A b \in outs : b[1] = a /\ b = <<a, 0, y>>
    <3>1. {y} \in SUBSET Names
      OBVIOUS
    <3>. QED
      BY <1>1, <3>1, OfFacts
  <2>. HIDE DEF outs
  <2>. QED
    BY <1>1, <2>1, <2>2
<1>3. k = [old EXCEPT !.mv = a, !.x = x]
  BY DEF Multiplies, MatVec
<1>. HIDE DEF ins, outs
<1>4. /\ old \in PlainOnes /\ old \in AnyLaunch /\ Plain(old)
      /\ old.label = label /\ old.ins = ins /\ old.outs = outs
  <2>1. old \in PlainOnes /\ old.label = label /\ old.ins = ins /\ old.outs = outs
    BY <1>2, PlainKernel
  <2>. QED
    BY <2>1 DEF PlainOnes
<1>. HIDE DEF old
<1>5. /\ k \in AnyLaunch
      /\ k.label = label /\ k.ins = ins /\ k.outs = outs /\ k.x = x /\ k.mv = a
  BY <1>3, <1>4 DEF AnyLaunch
<1>6. x \subseteq ins
  BY DEF ins
<1>7. Plain(k)
  BY <1>2, <1>4, <1>5, <1>6 DEF Plain
<1>8. Calm(k)
  BY <1>1, <1>2, <1>5 DEF Calm
<1>. QED
  BY <1>5, <1>7, <1>8 DEF ins, outs, PlainOnes, CalmOnes

LEMMA MVFacts ==
  ASSUME NEW label \in PlanLabels, NEW a \in {"acts", "bacts"},
         NEW x \in Names, NEW residual \in SUBSET Names, NEW y \in Names, x # y,
         NEW k, k = MV(label, a, x, residual, y)
  PROVE  k \in CalmOnes /\ k.ins = Of(a, {x} \cup residual) /\ k.outs = Of(a, {y})
<1>1. a \in Groups /\ a \notin {"int8", "saved"} /\ {x} \in SUBSET Names /\ x \in {x}
  BY DEF Groups
<1>2. /\ Of(a, {x}) \in SUBSET Bufs /\ Of(a, {x}) # {} /\ \A b \in Of(a, {x}) : b[1] = a
      /\ <<a, 0, y>> \notin Of(a, {x})
  <2>1. /\ Of(a, {x}) \in SUBSET Bufs /\ \A b \in Of(a, {x}) : b[1] = a
        /\ \A b : b \in Of(a, {x}) <=> \E n \in {x} : b = <<a, 0, n>>
    BY <1>1, OfFacts
  <2>2. <<a, 0, x>> \in Of(a, {x})
    BY <1>1, <2>1
  <2>3. <<a, 0, y>> # <<a, 0, x>>
    OBVIOUS
  <2>4. <<a, 0, y>> \notin Of(a, {x})
    BY <2>1, <2>3
  <2>. QED
    BY <2>1, <2>2, <2>4
<1>3. Of(a, {x}) \cup Of(a, residual) = Of(a, {x} \cup residual)
  BY DEF Of
<1>4. k = MatVec(label, a, Of(a, {x}), residual, y)
  BY DEF MV
<1>. DEFINE s == Of(a, {x})
<1>5. s \in SUBSET Bufs /\ s # {} /\ (\A b \in s : b[1] \notin {"int8", "saved"}) /\ <<a, 0, y>> \notin s
  BY <1>1, <1>2
<1>. HIDE DEF s
<1>6. k \in CalmOnes /\ k.ins = s \cup Of(a, residual) /\ k.outs = Of(a, {y})
  <2>1. k = MatVec(label, a, s, residual, y)
    BY <1>4 DEF s
  <2>2. Multiplies(k, label, a, s, residual, y)
    BY <1>5, <2>1 DEF Multiplies
  <2>. QED
    BY <2>2, MatVecFacts
<1>. QED
  BY <1>3, <1>6 DEF s

LEMMA KFacts ==
  ASSUME NEW label \in PlanLabels, NEW a \in {"acts", "bacts"},
         NEW ins \in SUBSET Names, NEW outs \in SUBSET Names,
         NEW k, k = K(label, a, ins, outs)
  PROVE  k \in CalmOnes /\ k.ins = Of(a, ins) /\ k.outs = Of(a, outs)
<1>1. a \in Groups /\ a \notin {"int8", "saved", "layer", "rows"}
  BY DEF Groups
<1>2. /\ Of(a, ins) \in SUBSET Bufs /\ Of(a, outs) \in SUBSET Bufs
      /\ \A b \in Of(a, ins) \cup Of(a, outs) : b[1] = a
  BY <1>1, OfFacts
<1>. DEFINE s == Of(a, ins)
            t == Of(a, outs)
<1>3. k = Kernel(label, s, t)
  BY DEF K
<1>4. s \in SUBSET Bufs /\ t \in SUBSET Bufs /\ \A b \in s \cup t : b[1] \notin {"int8", "saved", "rows", "layer"}
  BY <1>1, <1>2
<1>. HIDE DEF s, t
<1>5. k \in PlainOnes /\ k.ins = s /\ k.outs = t
  BY <1>3, <1>4, PlainKernel
<1>6. Calm(k)
  BY <1>4, <1>5 DEF Calm
<1>. QED
  BY <1>5, <1>6 DEF CalmOnes, s, t

-----------------------------------------------------------------------------
\* Every activation a list reads is one of A, or written by a launch before.
Feeds(s, A) ==
  \A i \in 1..Len(s) : \A b \in s[i].ins : Scratch(b) => b \in A \/ \E j \in 1..i - 1 : b \in s[j].outs

Outs(s) == UNION {s[i].outs : i \in 1..Len(s)}

LEMMA OutsFacts ==
  ASSUME NEW s, NEW i \in 1..Len(s)
  PROVE  s[i].outs \subseteq Outs(s)
BY DEF Outs

LEMMA CatFacts ==
  ASSUME NEW S, NEW s \in Seq(S), NEW t \in Seq(S)
  PROVE  /\ s \o t \in Seq(S) /\ Len(s) \in Nat /\ Len(t) \in Nat /\ Len(s \o t) = Len(s) + Len(t)
         /\ \A i \in 1..Len(s) : i \in 1..Len(s \o t) /\ (s \o t)[i] = s[i]
         /\ \A i \in 1..Len(t) : Len(s) + i \in 1..Len(s \o t) /\ (s \o t)[Len(s) + i] = t[i]
         /\ \A k \in 1..Len(s \o t) : k \in 1..Len(s) \/ \E i \in 1..Len(t) : k = Len(s) + i
<1>1. s \o t \in Seq(S) /\ Len(s) \in Nat /\ Len(t) \in Nat /\ Len(s \o t) = Len(s) + Len(t)
  BY ConcatProperties, LenProperties
<1>2. \A i \in 1..(Len(s) + Len(t)) : (s \o t)[i] = IF i <= Len(s) THEN s[i] ELSE t[i - Len(s)]
  BY ConcatProperties
<1>. DEFINE r == s \o t
<1>3. PICK m \in Nat, n \in Nat : m = Len(s) /\ n = Len(t)
  BY <1>1
<1>4. Len(r) = m + n /\ \A i \in 1..(m + n) : r[i] = IF i <= m THEN s[i] ELSE t[i - m]
  BY <1>1, <1>2, <1>3
<1>. HIDE DEF r
<1>5. \A i \in 1..m : i \in 1..Len(r) /\ r[i] = s[i]
  <2>. SUFFICES ASSUME NEW i \in 1..m PROVE i \in 1..Len(r) /\ r[i] = s[i]
    OBVIOUS
  <2>1. i \in 1..(m + n) /\ i <= m
    OBVIOUS
  <2>. QED
    BY <1>4, <2>1
<1>6. \A i \in 1..n : m + i \in 1..Len(r) /\ r[m + i] = t[i]
  <2>. SUFFICES ASSUME NEW i \in 1..n PROVE m + i \in 1..Len(r) /\ r[m + i] = t[i]
    OBVIOUS
  <2>1. PICK k \in Nat : k = m + i
    OBVIOUS
  <2>2. k \in 1..(m + n) /\ ~(k <= m) /\ k - m = i
    BY <2>1
  <2>. QED
    BY <1>4, <2>1, <2>2
<1>7. \A k \in 1..Len(r) : k \in 1..m \/ \E i \in 1..n : k = m + i
  <2>. SUFFICES ASSUME NEW k \in 1..(m + n), k \notin 1..m PROVE \E i \in 1..n : k = m + i
    BY <1>4
  <2>1. PICK i \in 1..n : i = k - m
    OBVIOUS
  <2>2. k = m + i
    BY <2>1
  <2>. QED
    BY <2>2
<1>. QED
  BY <1>1, <1>3, <1>5, <1>6, <1>7 DEF r

LEMMA OutsCat ==
  ASSUME NEW S, NEW s \in Seq(S), NEW t \in Seq(S)
  PROVE  Outs(s \o t) = Outs(s) \cup Outs(t)
<1>. DEFINE r == s \o t
<1>1. /\ \A i \in 1..Len(s) : i \in 1..Len(r) /\ r[i] = s[i]
      /\ \A i \in 1..Len(t) : Len(s) + i \in 1..Len(r) /\ r[Len(s) + i] = t[i]
      /\ \A k \in 1..Len(r) : k \in 1..Len(s) \/ \E i \in 1..Len(t) : k = Len(s) + i
  BY CatFacts
<1>. HIDE DEF r
<1>2. ASSUME NEW b \in Outs(r) PROVE b \in Outs(s) \cup Outs(t)
  <2>1. PICK k \in 1..Len(r) : b \in r[k].outs
    BY DEF Outs
  <2>2. CASE k \in 1..Len(s)
    <3>1. b \in s[k].outs
      BY <1>1, <2>1, <2>2
    <3>. QED
      BY <2>2, <3>1, OutsFacts
  <2>3. CASE k \notin 1..Len(s)
    <3>1. PICK i \in 1..Len(t) : k = Len(s) + i
      BY <1>1, <2>3
    <3>2. b \in t[i].outs
      BY <1>1, <2>1, <3>1
    <3>. QED
      BY <3>2, OutsFacts
  <2>. QED
    BY <2>2, <2>3
<1>3. ASSUME NEW b \in Outs(s) PROVE b \in Outs(r)
  <2>1. PICK k \in 1..Len(s) : b \in s[k].outs
    BY DEF Outs
  <2>. QED
    BY <1>1, <2>1, OutsFacts
<1>4. ASSUME NEW b \in Outs(t) PROVE b \in Outs(r)
  <2>1. PICK k \in 1..Len(t) : b \in t[k].outs
    BY DEF Outs
  <2>. QED
    BY <1>1, <2>1, OutsFacts
<1>. QED
  BY <1>2, <1>3, <1>4 DEF r

\* A list behind another may read what that one wrote.
LEMMA FeedsCat ==
  ASSUME NEW S, NEW s \in Seq(S), NEW t \in Seq(S), NEW A, Feeds(s, A), Feeds(t, A \cup Outs(s))
  PROVE  Feeds(s \o t, A)
<1>. DEFINE r == s \o t
<1>1. /\ Len(s) \in Nat
      /\ \A i \in 1..Len(s) : i \in 1..Len(r) /\ r[i] = s[i]
      /\ \A i \in 1..Len(t) : Len(s) + i \in 1..Len(r) /\ r[Len(s) + i] = t[i]
      /\ \A k \in 1..Len(r) : k \in 1..Len(s) \/ \E i \in 1..Len(t) : k = Len(s) + i
  BY CatFacts
<1>. HIDE DEF r
<1>. SUFFICES ASSUME NEW k \in 1..Len(r), NEW b \in r[k].ins, Scratch(b), b \notin A
              PROVE  \E j \in 1..k - 1 : b \in r[j].outs
  BY DEF Feeds, r
<1>. PICK m \in Nat : m = Len(s)
  BY <1>1
<1>2. CASE k \in 1..m
  <2>1. k \in 1..Len(s) /\ b \in s[k].ins
    BY <1>1, <1>2
  <2>2. PICK j \in 1..k - 1 : b \in s[j].outs
    BY <2>1 DEF Feeds
  <2>3. j \in 1..m
    BY <1>2
  <2>4. r[j] = s[j]
    BY <1>1, <2>3
  <2>. QED
    BY <2>2, <2>4
<1>3. CASE k \notin 1..m
  <2>1. PICK i \in 1..Len(t) : k = m + i
    BY <1>1, <1>3
  <2>2. b \in t[i].ins
    BY <1>1, <2>1
  <2>3. CASE b \in Outs(s)
    <3>1. PICK j \in 1..Len(s) : b \in s[j].outs
      BY <2>3 DEF Outs
    <3>2. j \in 1..m
      OBVIOUS
    <3>3. j \in 1..k - 1
      BY <2>1, <3>2
    <3>4. r[j] = s[j]
      BY <1>1
    <3>. QED
      BY <3>1, <3>3, <3>4
  <2>4. CASE b \notin Outs(s)
    <3>1. PICK j \in 1..i - 1 : b \in t[j].outs
      BY <2>2, <2>4 DEF Feeds
    <3>2. j \in 1..Len(t) /\ m + j \in 1..k - 1
      BY <2>1
    <3>3. r[m + j] = t[j]
      BY <1>1, <3>2
    <3>. QED
      BY <3>1, <3>2, <3>3
  <2>. QED
    BY <2>3, <2>4
<1>. QED
  BY <1>2, <1>3

LEMMA FeedsMore ==
  ASSUME NEW s, NEW A, NEW B, Feeds(s, A), A \subseteq B
  PROVE  Feeds(s, B)
BY DEF Feeds

\* Lists that need nothing of each other, one behind another.
LEMMA FeedsJoined ==
  ASSUME NEW S, NEW ss \in Seq(Seq(S)), NEW A, \A i \in 1..Len(ss) : Feeds(ss[i], A)
  PROVE  /\ Joined(ss) \in Seq(S) /\ Feeds(Joined(ss), A)
         /\ \A i \in 1..Len(ss) : Outs(ss[i]) \subseteq Outs(Joined(ss))
<1>. DEFINE r == Joined(ss)
<1>1. r \in Seq(S)
  BY JoinedPlaces
<1>2. PICK off : Offsets(ss, off) /\ Laid(ss, off, Len(ss), r)
  BY JoinedPlaces
<1>. HIDE DEF r
<1>3. Feeds(r, A)
  <2>. SUFFICES ASSUME NEW k \in 1..Len(r), NEW b \in r[k].ins, Scratch(b), b \notin A
                PROVE  \E j \in 1..k - 1 : b \in r[j].outs
    BY DEF Feeds
  <2>1. PICK i \in 1..Len(ss) : \E m \in 1..Len(ss[i]) : k = off[i - 1] + m
    BY <1>2 DEF Laid
  <2>2. PICK m \in 1..Len(ss[i]) : k = off[i - 1] + m
    BY <2>1
  <2>3. r[k] = ss[i][m]
    BY <1>2, <2>2 DEF Laid
  <2>4. PICK j \in 1..m - 1 : b \in ss[i][j].outs
    BY <2>3 DEF Feeds
  <2>5. PICK o \in Nat : o = off[i - 1]
    <3>1. i - 1 \in 0..Len(ss)
      <4>1. Len(ss) \in Nat
        BY LenProperties
      <4>. QED
        BY <4>1
    <3>. QED
      BY <1>2, <3>1 DEF Offsets
  <2>6. j \in 1..Len(ss[i]) /\ o + j \in 1..k - 1
    <3>1. ss[i] \in Seq(S)
      BY ElementOfSeq
    <3>2. PICK l \in Nat : l = Len(ss[i])
      BY <3>1, LenProperties
    <3>3. m \in 1..l /\ k = o + m
      BY <2>2, <2>5, <3>2
    <3>4. j \in 1..l /\ o + j \in 1..k - 1
      BY ONLY <3>3, o \in Nat, l \in Nat, j \in 1..m - 1
    <3>. QED
      BY <3>2, <3>4
  <2>7. r[o + j] = ss[i][j]
    BY <1>2, <2>5, <2>6 DEF Laid
  <2>. QED
    BY <2>4, <2>6, <2>7
<1>4. ASSUME NEW i \in 1..Len(ss), NEW b \in Outs(ss[i]) PROVE b \in Outs(r)
  <2>1. PICK m \in 1..Len(ss[i]) : b \in ss[i][m].outs
    BY DEF Outs
  <2>2. off[i - 1] + m \in 1..Len(r) /\ r[off[i - 1] + m] = ss[i][m]
    BY <1>2 DEF Laid
  <2>. QED
    BY <2>1, <2>2, OutsFacts
<1>. QED
  BY <1>1, <1>3, <1>4 DEF r

-----------------------------------------------------------------------------
\* What a launch of group a needs of the activations and leaves in them, and what the first n
\* launches of a list do.
Takes(k, S, a, R, W) ==
  /\ k \in S
  /\ \A b \in k.ins : Scratch(b) => b \in Of(a, R)
  /\ Of(a, W) \subseteq k.outs

Fed(s, n, a, given, live) ==
  /\ \A i \in 1..n : \A b \in s[i].ins :
       Scratch(b) => b \in Of(a, given) \/ \E j \in 1..i - 1 : b \in s[j].outs
  /\ \A b \in Of(a, live) : b \in Of(a, given) \/ \E j \in 1..n : b \in s[j].outs

\* A list that needs the activations given, and behind which those live are there.
Grows(s, S, a, given, live) ==
  s \in Seq(S) /\ Feeds(s, Of(a, given)) /\ Of(a, live) \subseteq Of(a, given) \cup Outs(s)

LEMMA KTakes ==
  ASSUME NEW label \in PlanLabels, NEW a \in {"acts", "bacts"},
         NEW R \in SUBSET Names, NEW W \in SUBSET Names
  PROVE  Takes(K(label, a, R, W), CalmOnes, a, R, W)
<1>. DEFINE k == K(label, a, R, W)
<1>1. k \in CalmOnes /\ k.ins = Of(a, R) /\ k.outs = Of(a, W)
  BY KFacts
<1>. HIDE DEF k
<1>2. Takes(k, CalmOnes, a, R, W)
  BY <1>1 DEF Takes
<1>. QED
  BY <1>2 DEF k

LEMMA MVTakes ==
  ASSUME NEW label \in PlanLabels, NEW a \in {"acts", "bacts"},
         NEW x \in Names, NEW residual \in SUBSET Names, NEW y \in Names, x # y
  PROVE  Takes(MV(label, a, x, residual, y), CalmOnes, a, {x} \cup residual, {y})
<1>. DEFINE k == MV(label, a, x, residual, y)
<1>1. k \in CalmOnes /\ k.ins = Of(a, {x} \cup residual) /\ k.outs = Of(a, {y})
  BY MVFacts
<1>. HIDE DEF k
<1>2. Takes(k, CalmOnes, a, {x} \cup residual, {y})
  BY <1>1 DEF Takes
<1>. QED
  BY <1>2 DEF k

LEMMA OfMonotone ==
  ASSUME NEW a, NEW R, NEW live, R \subseteq live
  PROVE  Of(a, R) \subseteq Of(a, live)
BY DEF Of

LEMMA OfCup ==
  ASSUME NEW a, NEW R, NEW live
  PROVE  Of(a, R \cup live) = Of(a, R) \cup Of(a, live)
BY DEF Of

LEMMA FedStart ==
  ASSUME NEW s, NEW a, NEW given
  PROVE  Fed(s, 0, a, given, given)
BY DEF Fed

\* One launch more: what it reads is there, and what it writes is then.
Onward(s, m, n, S, a, given, live, R, W, next) ==
  /\ m \in Nat /\ n = m + 1
  /\ Fed(s, m, a, given, live) /\ Takes(s[n], S, a, R, W) /\ R \subseteq live /\ next \subseteq live \cup W

LEMMA FedStep ==
  ASSUME NEW s, NEW m, NEW n, NEW S, NEW a, NEW given, NEW live, NEW R, NEW W, NEW next,
         Onward(s, m, n, S, a, given, live, R, W, next)
  PROVE  Fed(s, n, a, given, next)
<1>. /\ m \in Nat /\ n \in Nat /\ n = m + 1
     /\ Fed(s, m, a, given, live) /\ Takes(s[n], S, a, R, W) /\ R \subseteq live /\ next \subseteq live \cup W
  BY DEF Onward
<1>1. ASSUME NEW i \in 1..n, NEW b \in s[i].ins, Scratch(b)
      PROVE  b \in Of(a, given) \/ \E j \in 1..i - 1 : b \in s[j].outs
  <2>1. CASE i = n
    <3>1. b \in Of(a, live)
      BY <1>1, <2>1, OfMonotone DEF Takes
    <3>2. b \in Of(a, given) \/ \E j \in 1..m : b \in s[j].outs
      BY <3>1 DEF Fed
    <3>3. i - 1 = m
      BY <2>1
    <3>. QED
      BY <3>2, <3>3
  <2>2. CASE i # n
    <3>1. i \in 1..m
      BY <2>2
    <3>. QED
      BY <1>1, <3>1 DEF Fed
  <2>. QED
    BY <2>1, <2>2
<1>2. ASSUME NEW b \in Of(a, next)
      PROVE  b \in Of(a, given) \/ \E j \in 1..n : b \in s[j].outs
  <2>1. b \in Of(a, live) \/ b \in Of(a, W)
    <3>1. Of(a, next) \subseteq Of(a, live \cup W)
      BY OfMonotone
    <3>. QED
      BY <3>1, OfCup
  <2>2. CASE b \in Of(a, live)
    <3>1. b \in Of(a, given) \/ \E j \in 1..m : b \in s[j].outs
      BY <2>2 DEF Fed
    <3>2. \A j \in 1..m : j \in 1..n
      OBVIOUS
    <3>. QED
      BY <3>1, <3>2
  <2>3. CASE b \in Of(a, W)
    <3>1. b \in s[n].outs /\ n \in 1..n
      BY <2>3 DEF Takes
    <3>. QED
      BY <3>1
  <2>. QED
    BY <2>1, <2>2, <2>3
<1>. QED
  BY <1>1, <1>2 DEF Fed

LEMMA FedGrows ==
  ASSUME NEW S, NEW s \in Seq(S), NEW a, NEW given, NEW live, Fed(s, Len(s), a, given, live)
  PROVE  Grows(s, S, a, given, live)
<1>1. Feeds(s, Of(a, given))
  BY DEF Fed, Feeds
<1>2. Of(a, live) \subseteq Of(a, given) \cup Outs(s)
  BY DEF Fed, Outs
<1>. QED
  BY <1>1, <1>2 DEF Grows

LEMMA GrowsCat ==
  ASSUME NEW S, NEW a, NEW s, NEW t, NEW given, NEW live, NEW next,
         Grows(s, S, a, given, live), Grows(t, S, a, live, next)
  PROVE  Grows(s \o t, S, a, given, next)
<1>1. s \in Seq(S) /\ t \in Seq(S)
  BY DEF Grows
<1>2. s \o t \in Seq(S) /\ Outs(s \o t) = Outs(s) \cup Outs(t)
  BY <1>1, CatFacts, OutsCat
<1>3. Feeds(t, Of(a, given) \cup Outs(s))
  BY FeedsMore DEF Grows
<1>4. Feeds(s \o t, Of(a, given))
  BY <1>1, <1>3, FeedsCat DEF Grows
<1>5. Of(a, next) \subseteq Of(a, given) \cup Outs(s \o t)
  BY <1>2 DEF Grows
<1>. QED
  BY <1>2, <1>4, <1>5 DEF Grows

\* More may be given than is needed, and stays; less may be asked for.
LEMMA GrowsMore ==
  ASSUME NEW S, NEW T, S \subseteq T, NEW a, NEW s, NEW given, NEW live, NEW more, NEW next,
         Grows(s, S, a, given, live), given \subseteq more, next \subseteq live \cup more
  PROVE  Grows(s, T, a, more, next)
<1>1. Of(a, given) \subseteq Of(a, more)
  BY OfMonotone
<1>2. Of(a, next) \subseteq Of(a, live) \cup Of(a, more)
  <2>1. Of(a, next) \subseteq Of(a, live \cup more)
    BY OfMonotone
  <2>. QED
    BY <2>1, OfCup
<1>3. Feeds(s, Of(a, more))
  BY <1>1, FeedsMore DEF Grows
<1>4. s \in Seq(T)
  <2>1. s \in Seq(S)
    BY DEF Grows
  <2>. QED
    BY <2>1
<1>. QED
  BY <1>1, <1>2, <1>3, <1>4 DEF Grows

-----------------------------------------------------------------------------
\* The lists a layer is made of: what each needs, and what it leaves.
LEMMA TakesMore ==
  ASSUME NEW k, NEW a, NEW R, NEW W, Takes(k, CalmOnes, a, R, W)
  PROVE  Takes(k, PlainOnes, a, R, W)
BY DEF Takes, CalmOnes

LEMMA NormGrows ==
  ASSUME NEW a \in {"acts", "bacts"}
  PROVE  Grows(<<K("rmsnorm", a, {"x"}, {"h"})>>, CalmOnes, a, {"x"}, {"x", "h"})
<1>. DEFINE s == <<K("rmsnorm", a, {"x"}, {"h"})>>
            k1 == K("rmsnorm", a, {"x"}, {"h"})
<1>1. {"h", "x"} \subseteq Names /\ {"rmsnorm"} \subseteq PlanLabels
  BY DEF Names, Acts, PlanLabels, Labels
<1>2. s = <<k1>>
  OBVIOUS
<1>. HIDE DEF s
<1>3. Takes(k1, CalmOnes, a, {"x"}, {"h"})
  BY <1>1, KTakes
<1>. HIDE DEF k1
<1>4. s \in Seq(CalmOnes) /\ Len(s) = 1 /\ s[1] = k1
  <2>1. k1 \in CalmOnes
    BY <1>3 DEF Takes
  <2>. QED
    BY <1>2, <2>1
<1>5. Fed(s, 0, a, {"x"}, {"x"})
  BY FedStart
<1>6. Fed(s, 1, a, {"x"}, {"x", "h"})
  <2>1. Onward(s, 0, 1, CalmOnes, a, {"x"}, {"x"}, {"x"}, {"h"}, {"x", "h"})
    BY <1>4, <1>3, <1>5 DEF Onward
  <2>. QED
    BY <2>1, FedStep
<1>7. Grows(s, CalmOnes, a, {"x"}, {"x", "h"})
  BY <1>4, <1>6, FedGrows
<1>. QED
  BY <1>7 DEF s

LEMMA FeedForwardGrows ==
  ASSUME NEW a \in {"acts", "bacts"}
  PROVE  Grows(FeedForward(a), CalmOnes, a, {"x2"}, {"x"})
<1>. DEFINE s == FeedForward(a)
            k1 == K("rmsnorm", a, {"x2"}, {"h"})
            k2 == MV("matvec gate/up", a, "h", {}, "ffn_g")
            k3 == MV("matvec gate/up", a, "h", {}, "ffn_u")
            k4 == K("silu_mul", a, {"ffn_g", "ffn_u"}, {"ffn_a"})
            k5 == MV("matvec down", a, "ffn_a", {"x2"}, "x")
<1>1. {"ffn_a", "ffn_g", "ffn_u", "h", "x", "x2"} \subseteq Names /\ {"matvec down", "matvec gate/up", "rmsnorm", "silu_mul"} \subseteq PlanLabels
  BY DEF Names, Acts, PlanLabels, Labels
<1>2. s = <<k1, k2, k3, k4, k5>>
  BY DEF FeedForward
<1>. HIDE DEF s
<1>3. Takes(k1, CalmOnes, a, {"x2"}, {"h"})
  BY <1>1, KTakes
<1>4. Takes(k2, CalmOnes, a, {"h"}, {"ffn_g"})
  <2>1. Takes(k2, CalmOnes, a, {"h"} \cup {}, {"ffn_g"})
    BY <1>1, MVTakes
  <2>2. {"h"} \cup {} = {"h"}
    OBVIOUS
  <2>. HIDE DEF k2
  <2>. QED
    BY <2>1, <2>2
<1>5. Takes(k3, CalmOnes, a, {"h"}, {"ffn_u"})
  <2>1. Takes(k3, CalmOnes, a, {"h"} \cup {}, {"ffn_u"})
    BY <1>1, MVTakes
  <2>2. {"h"} \cup {} = {"h"}
    OBVIOUS
  <2>. HIDE DEF k3
  <2>. QED
    BY <2>1, <2>2
<1>6. Takes(k4, CalmOnes, a, {"ffn_g", "ffn_u"}, {"ffn_a"})
  BY <1>1, KTakes
<1>7. Takes(k5, CalmOnes, a, {"ffn_a", "x2"}, {"x"})
  <2>1. Takes(k5, CalmOnes, a, {"ffn_a"} \cup {"x2"}, {"x"})
    BY <1>1, MVTakes
  <2>2. {"ffn_a"} \cup {"x2"} = {"ffn_a", "x2"}
    OBVIOUS
  <2>. HIDE DEF k5
  <2>. QED
    BY <2>1, <2>2
<1>. HIDE DEF k1, k2, k3, k4, k5
<1>8. s \in Seq(CalmOnes) /\ Len(s) = 5 /\ s[1] = k1 /\ s[2] = k2 /\ s[3] = k3 /\ s[4] = k4 /\ s[5] = k5
  <2>1. k1 \in CalmOnes /\ k2 \in CalmOnes /\ k3 \in CalmOnes /\ k4 \in CalmOnes /\ k5 \in CalmOnes
    BY <1>3, <1>4, <1>5, <1>6, <1>7 DEF Takes
  <2>. QED
    BY <1>2, <2>1
<1>9. Fed(s, 0, a, {"x2"}, {"x2"})
  BY FedStart
<1>10. Fed(s, 1, a, {"x2"}, {"x2", "h"})
  <2>1. Onward(s, 0, 1, CalmOnes, a, {"x2"}, {"x2"}, {"x2"}, {"h"}, {"x2", "h"})
    BY <1>8, <1>3, <1>9 DEF Onward
  <2>. QED
    BY <2>1, FedStep
<1>11. Fed(s, 2, a, {"x2"}, {"x2", "h", "ffn_g"})
  <2>1. Onward(s, 1, 2, CalmOnes, a, {"x2"}, {"x2", "h"}, {"h"}, {"ffn_g"}, {"x2", "h", "ffn_g"})
    BY <1>8, <1>4, <1>10 DEF Onward
  <2>. QED
    BY <2>1, FedStep
<1>12. Fed(s, 3, a, {"x2"}, {"x2", "ffn_g", "ffn_u"})
  <2>1. Onward(s, 2, 3, CalmOnes, a, {"x2"}, {"x2", "h", "ffn_g"}, {"h"}, {"ffn_u"}, {"x2", "ffn_g", "ffn_u"})
    BY <1>8, <1>5, <1>11 DEF Onward
  <2>. QED
    BY <2>1, FedStep
<1>13. Fed(s, 4, a, {"x2"}, {"x2", "ffn_a"})
  <2>1. Onward(s, 3, 4, CalmOnes, a, {"x2"}, {"x2", "ffn_g", "ffn_u"}, {"ffn_g", "ffn_u"}, {"ffn_a"}, {"x2", "ffn_a"})
    BY <1>8, <1>6, <1>12 DEF Onward
  <2>. QED
    BY <2>1, FedStep
<1>14. Fed(s, 5, a, {"x2"}, {"x"})
  <2>1. Onward(s, 4, 5, CalmOnes, a, {"x2"}, {"x2", "ffn_a"}, {"ffn_a", "x2"}, {"x"}, {"x"})
    BY <1>8, <1>7, <1>13 DEF Onward
  <2>. QED
    BY <2>1, FedStep
<1>15. Grows(s, CalmOnes, a, {"x2"}, {"x"})
  BY <1>8, <1>14, FedGrows
<1>. QED
  BY <1>15 DEF s

LEMMA HeadGrows ==
  ASSUME NEW a \in {"acts", "bacts"}
  PROVE  Grows(LmHead(a), CalmOnes, a, {"x"}, {"x", "logits"})
<1>. DEFINE s == LmHead(a)
            k1 == K("rmsnorm", a, {"x"}, {"h"})
            k2 == MV("matvec lm head", a, "h", {}, "logits")
<1>1. {"h", "logits", "x"} \subseteq Names /\ {"matvec lm head", "rmsnorm"} \subseteq PlanLabels
  BY DEF Names, Acts, PlanLabels, Labels
<1>2. s = <<k1, k2>>
  BY DEF LmHead
<1>. HIDE DEF s
<1>3. Takes(k1, CalmOnes, a, {"x"}, {"h"})
  BY <1>1, KTakes
<1>4. Takes(k2, CalmOnes, a, {"h"}, {"logits"})
  <2>1. Takes(k2, CalmOnes, a, {"h"} \cup {}, {"logits"})
    BY <1>1, MVTakes
  <2>2. {"h"} \cup {} = {"h"}
    OBVIOUS
  <2>. HIDE DEF k2
  <2>. QED
    BY <2>1, <2>2
<1>. HIDE DEF k1, k2
<1>5. s \in Seq(CalmOnes) /\ Len(s) = 2 /\ s[1] = k1 /\ s[2] = k2
  <2>1. k1 \in CalmOnes /\ k2 \in CalmOnes
    BY <1>3, <1>4 DEF Takes
  <2>. QED
    BY <1>2, <2>1
<1>6. Fed(s, 0, a, {"x"}, {"x"})
  BY FedStart
<1>7. Fed(s, 1, a, {"x"}, {"x", "h"})
  <2>1. Onward(s, 0, 1, CalmOnes, a, {"x"}, {"x"}, {"x"}, {"h"}, {"x", "h"})
    BY <1>5, <1>3, <1>6 DEF Onward
  <2>. QED
    BY <2>1, FedStep
<1>8. Fed(s, 2, a, {"x"}, {"x", "logits"})
  <2>1. Onward(s, 1, 2, CalmOnes, a, {"x"}, {"x", "h"}, {"h"}, {"logits"}, {"x", "logits"})
    BY <1>5, <1>4, <1>7 DEF Onward
  <2>. QED
    BY <2>1, FedStep
<1>9. Grows(s, CalmOnes, a, {"x"}, {"x", "logits"})
  BY <1>5, <1>8, FedGrows
<1>. QED
  BY <1>9 DEF s

LEMMA TailGrows ==
  ASSUME NEW a \in {"acts", "bacts"}
  PROVE  Grows(<<K("gate mul", a, {"attn", "gate"}, {"gated"}), MV("matvec o_proj", a, "gated", {"x"}, "x2")>>, CalmOnes, a, {"attn", "gate", "x"}, {"x2"})
<1>. DEFINE s == <<K("gate mul", a, {"attn", "gate"}, {"gated"}), MV("matvec o_proj", a, "gated", {"x"}, "x2")>>
            k1 == K("gate mul", a, {"attn", "gate"}, {"gated"})
            k2 == MV("matvec o_proj", a, "gated", {"x"}, "x2")
<1>1. {"attn", "gate", "gated", "x", "x2"} \subseteq Names /\ {"gate mul", "matvec o_proj"} \subseteq PlanLabels
  BY DEF Names, Acts, PlanLabels, Labels
<1>2. s = <<k1, k2>>
  OBVIOUS
<1>. HIDE DEF s
<1>3. Takes(k1, CalmOnes, a, {"attn", "gate"}, {"gated"})
  BY <1>1, KTakes
<1>4. Takes(k2, CalmOnes, a, {"gated", "x"}, {"x2"})
  <2>1. Takes(k2, CalmOnes, a, {"gated"} \cup {"x"}, {"x2"})
    BY <1>1, MVTakes
  <2>2. {"gated"} \cup {"x"} = {"gated", "x"}
    OBVIOUS
  <2>. HIDE DEF k2
  <2>. QED
    BY <2>1, <2>2
<1>. HIDE DEF k1, k2
<1>5. s \in Seq(CalmOnes) /\ Len(s) = 2 /\ s[1] = k1 /\ s[2] = k2
  <2>1. k1 \in CalmOnes /\ k2 \in CalmOnes
    BY <1>3, <1>4 DEF Takes
  <2>. QED
    BY <1>2, <2>1
<1>6. Fed(s, 0, a, {"attn", "gate", "x"}, {"attn", "gate", "x"})
  BY FedStart
<1>7. Fed(s, 1, a, {"attn", "gate", "x"}, {"x", "gated"})
  <2>1. Onward(s, 0, 1, CalmOnes, a, {"attn", "gate", "x"}, {"attn", "gate", "x"}, {"attn", "gate"}, {"gated"}, {"x", "gated"})
    BY <1>5, <1>3, <1>6 DEF Onward
  <2>. QED
    BY <2>1, FedStep
<1>8. Fed(s, 2, a, {"attn", "gate", "x"}, {"x2"})
  <2>1. Onward(s, 1, 2, CalmOnes, a, {"attn", "gate", "x"}, {"x", "gated"}, {"gated", "x"}, {"x2"}, {"x2"})
    BY <1>5, <1>4, <1>7 DEF Onward
  <2>. QED
    BY <2>1, FedStep
<1>9. Grows(s, CalmOnes, a, {"attn", "gate", "x"}, {"x2"})
  BY <1>5, <1>8, FedGrows
<1>. QED
  BY <1>9 DEF s

-----------------------------------------------------------------------------
\* Launches that also read or write what a layer keeps.
LEMMA LayerTakes ==
  ASSUME NEW label \in PlanLabels, NEW a \in {"acts", "bacts"},
         NEW R \in SUBSET Names, NEW W \in SUBSET Names, NEW ins \in SUBSET Bufs, NEW outs \in SUBSET Bufs,
         \A b \in ins : b \in Of(a, R) \/ b[1] = "layer",
         \A b \in outs : b \in Of(a, W) \/ b[1] \in {"layer", "rows"},
         Of(a, W) \subseteq outs
  PROVE  LET k == Kernel(label, ins, outs)
         IN /\ Takes(k, PlainOnes, a, R, W) /\ k.label = label /\ k.outs = outs
            /\ (\A b \in outs : b \in Of(a, W) \/ (b[1] = "layer" /\ b[3] \in {"kcache", "vcache"}))
                 => Takes(k, CalmOnes, a, R, W)
<1>. DEFINE k == Kernel(label, ins, outs)
<1>1. a \in Groups /\ a \notin {"int8", "saved", "layer", "rows"}
  BY DEF Groups
<1>2. (\A b \in Of(a, R) : b[1] = a) /\ (\A b \in Of(a, W) : b[1] = a)
  BY <1>1, OfFacts
<1>3. \A b \in ins \cup outs : b[1] \notin {"int8", "saved"}
  BY <1>1, <1>2
<1>4. k \in PlainOnes /\ k.label = label /\ k.ins = ins /\ k.outs = outs
  BY <1>3, PlainKernel
<1>. HIDE DEF k
<1>5. Takes(k, PlainOnes, a, R, W)
  BY <1>4 DEF Takes, Scratch
<1>6. ASSUME \A b \in outs : b \in Of(a, W) \/ (b[1] = "layer" /\ b[3] \in {"kcache", "vcache"})
      PROVE  Takes(k, CalmOnes, a, R, W)
  <2>1. Calm(k)
    BY <1>1, <1>2, <1>4, <1>6 DEF Calm
  <2>. QED
    BY <1>4, <1>5, <2>1 DEF Takes, CalmOnes
<1>. QED
  BY <1>4, <1>5, <1>6 DEF k

LEMMA CacheTakes ==
  ASSUME NEW label \in PlanLabels, NEW a \in {"acts", "bacts"}, NEW l \in Nat,
         NEW R \in SUBSET Names, NEW W \in SUBSET Names, NEW D \in SUBSET {"kcache", "vcache"}
  PROVE  /\ Takes(Kernel(label, Of(a, R) \cup Layer(l, D), Of(a, W)), CalmOnes, a, R, W)
         /\ Takes(Kernel(label, Of(a, R) \cup Layer(l, D), Layer(l, D)), CalmOnes, a, R, {})
<1>1. a \in Groups /\ D \in SUBSET Names
  BY DEF Groups, Names
<1>. DEFINE ins == Of(a, R) \cup Layer(l, D)
            w == Of(a, W)
            d == Layer(l, D)
<1>2. /\ ins \in SUBSET Bufs /\ \A b \in ins : b \in Of(a, R) \/ b[1] = "layer"
  BY <1>1, OfFacts, LayerFacts
<1>3. w \in SUBSET Bufs /\ w = Of(a, W)
  BY <1>1, OfFacts
<1>4. d \in SUBSET Bufs /\ \A b \in d : b[1] = "layer" /\ b[3] \in {"kcache", "vcache"}
  BY <1>1, LayerFacts
<1>5. {} \in SUBSET Names /\ Of(a, {}) = {}
  BY DEF Of
<1>. HIDE DEF ins, w, d
<1>6. Takes(Kernel(label, ins, w), CalmOnes, a, R, W)
  <2>1. \A b \in w : b \in Of(a, W) \/ b[1] \in {"layer", "rows"}
    BY <1>3
  <2>2. ASSUME NEW b \in w PROVE b \in Of(a, W) \/ (b[1] = "layer" /\ b[3] \in {"kcache", "vcache"})
    <3>1. b \in Of(a, W)
      BY <1>3
    <3>. QED
      BY <3>1
  <2>3. Of(a, W) \subseteq w
    BY <1>3
  <2>. QED
    BY <1>2, <1>3, <2>1, <2>2, <2>3, LayerTakes
<1>7. Takes(Kernel(label, ins, d), CalmOnes, a, R, {})
  <2>1. \A b \in d : b \in Of(a, {}) \/ b[1] \in {"layer", "rows"}
    BY <1>4
  <2>2. Of(a, {}) \subseteq d /\ \A b \in d : b \in Of(a, {}) \/ (b[1] = "layer" /\ b[3] \in {"kcache", "vcache"})
    BY <1>4, <1>5
  <2>. QED
    BY <1>2, <1>4, <1>5, <2>1, <2>2, LayerTakes
<1>. QED
  BY <1>6, <1>7 DEF ins, w, d

\* The launches that move a linear layer's memory.
LEMMA MemoryTakes ==
  ASSUME NEW label \in PlanLabels, NEW a \in {"acts", "bacts"}, NEW l \in Nat,
         NEW R \in SUBSET Names, NEW W \in SUBSET Names, NEW n \in {"conv", "state"},
         NEW rows \in SUBSET Bufs, \A r \in rows : r[1] = "rows"
  PROVE  Takes(Kernel(label, Of(a, R) \cup Layer(l, {n}),
                      Of(a, W) \cup Layer(l, {n}) \cup {r \in rows : r[3] = n}), PlainOnes, a, R, W)
<1>1. a \in Groups /\ {n} \in SUBSET Names
  BY DEF Groups, Names, Acts
<1>. DEFINE ins == Of(a, R) \cup Layer(l, {n})
            outs == Of(a, W) \cup Layer(l, {n}) \cup {r \in rows : r[3] = n}
<1>2. /\ ins \in SUBSET Bufs /\ \A b \in ins : b \in Of(a, R) \/ b[1] = "layer"
  BY <1>1, OfFacts, LayerFacts
<1>3. /\ outs \in SUBSET Bufs /\ Of(a, W) \subseteq outs
      /\ \A b \in outs : b \in Of(a, W) \/ b[1] \in {"layer", "rows"}
  <2>1. Of(a, W) \in SUBSET Bufs
    BY <1>1, OfFacts
  <2>2. Layer(l, {n}) \in SUBSET Bufs /\ \A b \in Layer(l, {n}) : b[1] = "layer"
    BY <1>1, LayerFacts
  <2>. QED
    BY <2>1, <2>2
<1>. HIDE DEF ins, outs
<1>4. \A b \in ins : b \in Of(a, R) \/ b[1] = "layer"
  BY <1>2
<1>5. \A b \in outs : b \in Of(a, W) \/ b[1] \in {"layer", "rows"}
  BY <1>3
<1>6. Takes(Kernel(label, ins, outs), PlainOnes, a, R, W)
  BY <1>2, <1>3, <1>4, <1>5, LayerTakes
<1>. QED
  BY <1>6 DEF ins, outs

\* An attention layer's launches before it attends.
Projected(a, l) == <<
  MV("matvec q", a, "h", {}, "q32"),
  MV("matvec k/v", a, "h", {}, "k32"),
  MV("matvec k/v", a, "h", {}, "v32"),
  K("rope", a, {"q32", "cos", "sin"}, {"q16", "gate"}),
  K("rope", a, {"k32", "cos", "sin"}, {"k16"}),
  Append1(a, l, "k16", "kcache"),
  Append1(a, l, "v32", "vcache") >>

LEMMA ProjectedGrows ==
  ASSUME NEW a \in {"acts", "bacts"}, NEW l \in Nat
  PROVE  Grows(Projected(a, l), CalmOnes, a, {"h", "cos", "sin", "scalars_pos"}, {"q16", "gate"})
<1>. DEFINE s == Projected(a, l)
            k1 == MV("matvec q", a, "h", {}, "q32")
            k2 == MV("matvec k/v", a, "h", {}, "k32")
            k3 == MV("matvec k/v", a, "h", {}, "v32")
            k4 == K("rope", a, {"q32", "cos", "sin"}, {"q16", "gate"})
            k5 == K("rope", a, {"k32", "cos", "sin"}, {"k16"})
            k6 == Append1(a, l, "k16", "kcache")
            k7 == Append1(a, l, "v32", "vcache")
<1>1. {"cos", "gate", "h", "k16", "k32", "q16", "q32", "scalars_pos", "sin", "v32"} \subseteq Names /\ {"kv append", "matvec k/v", "matvec q", "rope"} \subseteq PlanLabels
  BY DEF Names, Acts, PlanLabels, Labels
<1>2. s = <<k1, k2, k3, k4, k5, k6, k7>>
  BY DEF Projected
<1>. HIDE DEF s
<1>3. Takes(k1, CalmOnes, a, {"h"}, {"q32"})
  <2>1. Takes(k1, CalmOnes, a, {"h"} \cup {}, {"q32"})
    BY <1>1, MVTakes
  <2>2. {"h"} \cup {} = {"h"}
    OBVIOUS
  <2>. HIDE DEF k1
  <2>. QED
    BY <2>1, <2>2
<1>4. Takes(k2, CalmOnes, a, {"h"}, {"k32"})
  <2>1. Takes(k2, CalmOnes, a, {"h"} \cup {}, {"k32"})
    BY <1>1, MVTakes
  <2>2. {"h"} \cup {} = {"h"}
    OBVIOUS
  <2>. HIDE DEF k2
  <2>. QED
    BY <2>1, <2>2
<1>5. Takes(k3, CalmOnes, a, {"h"}, {"v32"})
  <2>1. Takes(k3, CalmOnes, a, {"h"} \cup {}, {"v32"})
    BY <1>1, MVTakes
  <2>2. {"h"} \cup {} = {"h"}
    OBVIOUS
  <2>. HIDE DEF k3
  <2>. QED
    BY <2>1, <2>2
<1>6. Takes(k4, CalmOnes, a, {"q32", "cos", "sin"}, {"q16", "gate"})
  BY <1>1, KTakes
<1>7. Takes(k5, CalmOnes, a, {"k32", "cos", "sin"}, {"k16"})
  BY <1>1, KTakes
<1>8. Takes(k6, CalmOnes, a, {"k16", "scalars_pos"}, {})
  <2>1. {"k16", "scalars_pos"} \in SUBSET Names /\ {} \in SUBSET Names /\ {"kcache"} \in SUBSET {"kcache", "vcache"}
    BY <1>1
  <2>. QED
    BY <1>1, <2>1, CacheTakes DEF Append1
<1>9. Takes(k7, CalmOnes, a, {"v32", "scalars_pos"}, {})
  <2>1. {"v32", "scalars_pos"} \in SUBSET Names /\ {} \in SUBSET Names /\ {"vcache"} \in SUBSET {"kcache", "vcache"}
    BY <1>1
  <2>. QED
    BY <1>1, <2>1, CacheTakes DEF Append1
<1>. HIDE DEF k1, k2, k3, k4, k5, k6, k7
<1>10. s \in Seq(CalmOnes) /\ Len(s) = 7 /\ s[1] = k1 /\ s[2] = k2 /\ s[3] = k3 /\ s[4] = k4 /\ s[5] = k5 /\ s[6] = k6 /\ s[7] = k7
  <2>1. k1 \in CalmOnes /\ k2 \in CalmOnes /\ k3 \in CalmOnes /\ k4 \in CalmOnes /\ k5 \in CalmOnes /\ k6 \in CalmOnes /\ k7 \in CalmOnes
    BY <1>3, <1>4, <1>5, <1>6, <1>7, <1>8, <1>9 DEF Takes
  <2>. QED
    BY <1>2, <2>1
<1>11. Fed(s, 0, a, {"h", "cos", "sin", "scalars_pos"}, {"h", "cos", "sin", "scalars_pos"})
  BY FedStart
<1>12. Fed(s, 1, a, {"h", "cos", "sin", "scalars_pos"}, {"h", "cos", "sin", "scalars_pos", "q32"})
  <2>1. Onward(s, 0, 1, CalmOnes, a, {"h", "cos", "sin", "scalars_pos"}, {"h", "cos", "sin", "scalars_pos"}, {"h"}, {"q32"}, {"h", "cos", "sin", "scalars_pos", "q32"})
    BY <1>10, <1>3, <1>11 DEF Onward
  <2>. QED
    BY <2>1, FedStep
<1>13. Fed(s, 2, a, {"h", "cos", "sin", "scalars_pos"}, {"h", "cos", "sin", "scalars_pos", "q32", "k32"})
  <2>1. Onward(s, 1, 2, CalmOnes, a, {"h", "cos", "sin", "scalars_pos"}, {"h", "cos", "sin", "scalars_pos", "q32"}, {"h"}, {"k32"}, {"h", "cos", "sin", "scalars_pos", "q32", "k32"})
    BY <1>10, <1>4, <1>12 DEF Onward
  <2>. QED
    BY <2>1, FedStep
<1>14. Fed(s, 3, a, {"h", "cos", "sin", "scalars_pos"}, {"cos", "sin", "scalars_pos", "q32", "k32", "v32"})
  <2>1. Onward(s, 2, 3, CalmOnes, a, {"h", "cos", "sin", "scalars_pos"}, {"h", "cos", "sin", "scalars_pos", "q32", "k32"}, {"h"}, {"v32"}, {"cos", "sin", "scalars_pos", "q32", "k32", "v32"})
    BY <1>10, <1>5, <1>13 DEF Onward
  <2>. QED
    BY <2>1, FedStep
<1>15. Fed(s, 4, a, {"h", "cos", "sin", "scalars_pos"}, {"cos", "sin", "scalars_pos", "k32", "v32", "q16", "gate"})
  <2>1. Onward(s, 3, 4, CalmOnes, a, {"h", "cos", "sin", "scalars_pos"}, {"cos", "sin", "scalars_pos", "q32", "k32", "v32"}, {"q32", "cos", "sin"}, {"q16", "gate"}, {"cos", "sin", "scalars_pos", "k32", "v32", "q16", "gate"})
    BY <1>10, <1>6, <1>14 DEF Onward
  <2>. QED
    BY <2>1, FedStep
<1>16. Fed(s, 5, a, {"h", "cos", "sin", "scalars_pos"}, {"scalars_pos", "v32", "q16", "gate", "k16"})
  <2>1. Onward(s, 4, 5, CalmOnes, a, {"h", "cos", "sin", "scalars_pos"}, {"cos", "sin", "scalars_pos", "k32", "v32", "q16", "gate"}, {"k32", "cos", "sin"}, {"k16"}, {"scalars_pos", "v32", "q16", "gate", "k16"})
    BY <1>10, <1>7, <1>15 DEF Onward
  <2>. QED
    BY <2>1, FedStep
<1>17. Fed(s, 6, a, {"h", "cos", "sin", "scalars_pos"}, {"scalars_pos", "v32", "q16", "gate"})
  <2>1. Onward(s, 5, 6, CalmOnes, a, {"h", "cos", "sin", "scalars_pos"}, {"scalars_pos", "v32", "q16", "gate", "k16"}, {"k16", "scalars_pos"}, {}, {"scalars_pos", "v32", "q16", "gate"})
    BY <1>10, <1>8, <1>16 DEF Onward
  <2>. QED
    BY <2>1, FedStep
<1>18. Fed(s, 7, a, {"h", "cos", "sin", "scalars_pos"}, {"q16", "gate"})
  <2>1. Onward(s, 6, 7, CalmOnes, a, {"h", "cos", "sin", "scalars_pos"}, {"scalars_pos", "v32", "q16", "gate"}, {"v32", "scalars_pos"}, {}, {"q16", "gate"})
    BY <1>10, <1>9, <1>17 DEF Onward
  <2>. QED
    BY <2>1, FedStep
<1>19. Grows(s, CalmOnes, a, {"h", "cos", "sin", "scalars_pos"}, {"q16", "gate"})
  BY <1>10, <1>18, FedGrows
<1>. QED
  BY <1>19 DEF s

LEMMA OneKernelGrows ==
  ASSUME NEW a \in {"acts", "bacts"}, NEW l \in Nat
  PROVE  Grows(<<Kernel("attention", Of(a, {"q16", "scalars_attn"}) \cup Layer(l, {"kcache", "vcache"}), Of(a, {"attn"}))>>, CalmOnes, a, {"q16", "scalars_attn"}, {"attn"})
<1>. DEFINE s == <<Kernel("attention", Of(a, {"q16", "scalars_attn"}) \cup Layer(l, {"kcache", "vcache"}), Of(a, {"attn"}))>>
            k1 == Kernel("attention", Of(a, {"q16", "scalars_attn"}) \cup Layer(l, {"kcache", "vcache"}), Of(a, {"attn"}))
<1>1. {"attn", "q16", "scalars_attn"} \subseteq Names /\ {"attention"} \subseteq PlanLabels
  BY DEF Names, Acts, PlanLabels, Labels
<1>2. s = <<k1>>
  OBVIOUS
<1>. HIDE DEF s
<1>3. Takes(k1, CalmOnes, a, {"q16", "scalars_attn"}, {"attn"})
  <2>1. {"q16", "scalars_attn"} \in SUBSET Names /\ {"attn"} \in SUBSET Names /\ {"kcache", "vcache"} \in SUBSET {"kcache", "vcache"}
    BY <1>1
  <2>. QED
    BY <1>1, <2>1, CacheTakes
<1>. HIDE DEF k1
<1>4. s \in Seq(CalmOnes) /\ Len(s) = 1 /\ s[1] = k1
  <2>1. k1 \in CalmOnes
    BY <1>3 DEF Takes
  <2>. QED
    BY <1>2, <2>1
<1>5. Fed(s, 0, a, {"q16", "scalars_attn"}, {"q16", "scalars_attn"})
  BY FedStart
<1>6. Fed(s, 1, a, {"q16", "scalars_attn"}, {"attn"})
  <2>1. Onward(s, 0, 1, CalmOnes, a, {"q16", "scalars_attn"}, {"q16", "scalars_attn"}, {"q16", "scalars_attn"}, {"attn"}, {"attn"})
    BY <1>4, <1>3, <1>5 DEF Onward
  <2>. QED
    BY <2>1, FedStep
<1>7. Grows(s, CalmOnes, a, {"q16", "scalars_attn"}, {"attn"})
  BY <1>4, <1>6, FedGrows
<1>. QED
  BY <1>7 DEF s

LEMMA StepSplitGrows ==
  ASSUME NEW a \in {"acts", "bacts"}, NEW l \in Nat
  PROVE  Grows(<<Kernel("attention", Of(a, {"q16", "scalars_len"}) \cup Layer(l, {"kcache", "vcache"}), Of(a, {"part_m", "part_l", "part_acc"})),
                 K("attention", a, {"part_m", "part_l", "part_acc", "scalars_nsplit"}, {"attn"})>>, CalmOnes, a, {"q16", "scalars_len", "scalars_nsplit"}, {"attn"})
<1>. DEFINE s == <<Kernel("attention", Of(a, {"q16", "scalars_len"}) \cup Layer(l, {"kcache", "vcache"}), Of(a, {"part_m", "part_l", "part_acc"})),
                 K("attention", a, {"part_m", "part_l", "part_acc", "scalars_nsplit"}, {"attn"})>>
            k1 == Kernel("attention", Of(a, {"q16", "scalars_len"}) \cup Layer(l, {"kcache", "vcache"}), Of(a, {"part_m", "part_l", "part_acc"}))
            k2 == K("attention", a, {"part_m", "part_l", "part_acc", "scalars_nsplit"}, {"attn"})
<1>1. {"attn", "part_acc", "part_l", "part_m", "q16", "scalars_len", "scalars_nsplit"} \subseteq Names /\ {"attention"} \subseteq PlanLabels
  BY DEF Names, Acts, PlanLabels, Labels
<1>2. s = <<k1, k2>>
  OBVIOUS
<1>. HIDE DEF s
<1>3. Takes(k1, CalmOnes, a, {"q16", "scalars_len"}, {"part_m", "part_l", "part_acc"})
  <2>1. {"q16", "scalars_len"} \in SUBSET Names /\ {"part_m", "part_l", "part_acc"} \in SUBSET Names /\ {"kcache", "vcache"} \in SUBSET {"kcache", "vcache"}
    BY <1>1
  <2>. QED
    BY <1>1, <2>1, CacheTakes
<1>4. Takes(k2, CalmOnes, a, {"part_m", "part_l", "part_acc", "scalars_nsplit"}, {"attn"})
  BY <1>1, KTakes
<1>. HIDE DEF k1, k2
<1>5. s \in Seq(CalmOnes) /\ Len(s) = 2 /\ s[1] = k1 /\ s[2] = k2
  <2>1. k1 \in CalmOnes /\ k2 \in CalmOnes
    BY <1>3, <1>4 DEF Takes
  <2>. QED
    BY <1>2, <2>1
<1>6. Fed(s, 0, a, {"q16", "scalars_len", "scalars_nsplit"}, {"q16", "scalars_len", "scalars_nsplit"})
  BY FedStart
<1>7. Fed(s, 1, a, {"q16", "scalars_len", "scalars_nsplit"}, {"scalars_nsplit", "part_m", "part_l", "part_acc"})
  <2>1. Onward(s, 0, 1, CalmOnes, a, {"q16", "scalars_len", "scalars_nsplit"}, {"q16", "scalars_len", "scalars_nsplit"}, {"q16", "scalars_len"}, {"part_m", "part_l", "part_acc"}, {"scalars_nsplit", "part_m", "part_l", "part_acc"})
    BY <1>5, <1>3, <1>6 DEF Onward
  <2>. QED
    BY <2>1, FedStep
<1>8. Fed(s, 2, a, {"q16", "scalars_len", "scalars_nsplit"}, {"attn"})
  <2>1. Onward(s, 1, 2, CalmOnes, a, {"q16", "scalars_len", "scalars_nsplit"}, {"scalars_nsplit", "part_m", "part_l", "part_acc"}, {"part_m", "part_l", "part_acc", "scalars_nsplit"}, {"attn"}, {"attn"})
    BY <1>5, <1>4, <1>7 DEF Onward
  <2>. QED
    BY <2>1, FedStep
<1>9. Grows(s, CalmOnes, a, {"q16", "scalars_len", "scalars_nsplit"}, {"attn"})
  BY <1>5, <1>8, FedGrows
<1>. QED
  BY <1>9 DEF s


LEMMA BatchSplitGrows ==
  ASSUME NEW a \in {"acts", "bacts"}, NEW l \in Nat
  PROVE  Grows(<<Kernel("attention", Of(a, {"q16", "scalars_pos"}) \cup Layer(l, {"kcache", "vcache"}), Of(a, {"part_m", "part_l", "part_acc"})),
                 K("attention", a, {"part_m", "part_l", "part_acc", "scalars_nsplit"}, {"attn"})>>, CalmOnes, a, {"q16", "scalars_pos", "scalars_nsplit"}, {"attn"})
<1>. DEFINE s == <<Kernel("attention", Of(a, {"q16", "scalars_pos"}) \cup Layer(l, {"kcache", "vcache"}), Of(a, {"part_m", "part_l", "part_acc"})),
                 K("attention", a, {"part_m", "part_l", "part_acc", "scalars_nsplit"}, {"attn"})>>
            k1 == Kernel("attention", Of(a, {"q16", "scalars_pos"}) \cup Layer(l, {"kcache", "vcache"}), Of(a, {"part_m", "part_l", "part_acc"}))
            k2 == K("attention", a, {"part_m", "part_l", "part_acc", "scalars_nsplit"}, {"attn"})
<1>1. {"attn", "part_acc", "part_l", "part_m", "q16", "scalars_nsplit", "scalars_pos"} \subseteq Names /\ {"attention"} \subseteq PlanLabels
  BY DEF Names, Acts, PlanLabels, Labels
<1>2. s = <<k1, k2>>
  OBVIOUS
<1>. HIDE DEF s
<1>3. Takes(k1, CalmOnes, a, {"q16", "scalars_pos"}, {"part_m", "part_l", "part_acc"})
  <2>1. {"q16", "scalars_pos"} \in SUBSET Names /\ {"part_m", "part_l", "part_acc"} \in SUBSET Names /\ {"kcache", "vcache"} \in SUBSET {"kcache", "vcache"}
    BY <1>1
  <2>. QED
    BY <1>1, <2>1, CacheTakes
<1>4. Takes(k2, CalmOnes, a, {"part_m", "part_l", "part_acc", "scalars_nsplit"}, {"attn"})
  BY <1>1, KTakes
<1>. HIDE DEF k1, k2
<1>5. s \in Seq(CalmOnes) /\ Len(s) = 2 /\ s[1] = k1 /\ s[2] = k2
  <2>1. k1 \in CalmOnes /\ k2 \in CalmOnes
    BY <1>3, <1>4 DEF Takes
  <2>. QED
    BY <1>2, <2>1
<1>6. Fed(s, 0, a, {"q16", "scalars_pos", "scalars_nsplit"}, {"q16", "scalars_pos", "scalars_nsplit"})
  BY FedStart
<1>7. Fed(s, 1, a, {"q16", "scalars_pos", "scalars_nsplit"}, {"scalars_nsplit", "part_m", "part_l", "part_acc"})
  <2>1. Onward(s, 0, 1, CalmOnes, a, {"q16", "scalars_pos", "scalars_nsplit"}, {"q16", "scalars_pos", "scalars_nsplit"}, {"q16", "scalars_pos"}, {"part_m", "part_l", "part_acc"}, {"scalars_nsplit", "part_m", "part_l", "part_acc"})
    BY <1>5, <1>3, <1>6 DEF Onward
  <2>. QED
    BY <2>1, FedStep
<1>8. Fed(s, 2, a, {"q16", "scalars_pos", "scalars_nsplit"}, {"attn"})
  <2>1. Onward(s, 1, 2, CalmOnes, a, {"q16", "scalars_pos", "scalars_nsplit"}, {"scalars_nsplit", "part_m", "part_l", "part_acc"}, {"part_m", "part_l", "part_acc", "scalars_nsplit"}, {"attn"}, {"attn"})
    BY <1>5, <1>4, <1>7 DEF Onward
  <2>. QED
    BY <2>1, FedStep
<1>9. Grows(s, CalmOnes, a, {"q16", "scalars_pos", "scalars_nsplit"}, {"attn"})
  BY <1>5, <1>8, FedGrows
<1>. QED
  BY <1>9 DEF s


LEMMA LinearGrows ==
  ASSUME NEW a \in {"acts", "bacts"}, NEW l \in Nat,
         NEW rows \in SUBSET Bufs, \A r \in rows : r[1] = "rows"
  PROVE  Grows(LinearMixer(a, l, rows), PlainOnes, a, {"x", "h"}, {"x2"})
<1>. DEFINE s == LinearMixer(a, l, rows)
            k1 == MV("matvec qkv", a, "h", {}, "qkv")
            k2 == MV("matvec z", a, "h", {}, "z")
            k3 == K("matvec a/b", a, {"h"}, {"a"})
            k4 == K("matvec a/b", a, {"h"}, {"b"})
            k5 == Kernel("conv", Of(a, {"qkv"}) \cup Layer(l, {"conv"}),
                      Of(a, {"conv"}) \cup Layer(l, {"conv"}) \cup {r \in rows : r[3] = "conv"})
            k6 == K("delta q/k", a, {"conv"}, {"qe"})
            k7 == K("delta q/k", a, {"conv"}, {"ke"})
            k8 == K("gates", a, {"a", "b"}, {"g", "beta"})
            k9 == Kernel("delta step", Of(a, {"qe", "ke", "conv", "g", "beta"}) \cup Layer(l, {"state"}),
                      Of(a, {"y"}) \cup Layer(l, {"state"}) \cup {r \in rows : r[3] = "state"})
            k10 == K("gated norm", a, {"y", "z"}, {"mixed"})
            k11 == MV("matvec out_proj", a, "mixed", {"x"}, "x2")
<1>1. {"a", "b", "beta", "conv", "g", "h", "ke", "mixed", "qe", "qkv", "x", "x2", "y", "z"} \subseteq Names /\ {"conv", "delta q/k", "delta step", "gated norm", "gates", "matvec a/b", "matvec out_proj", "matvec qkv", "matvec z"} \subseteq PlanLabels
  BY DEF Names, Acts, PlanLabels, Labels
<1>2. s = <<k1, k2, k3, k4, k5, k6, k7, k8, k9, k10, k11>>
  BY DEF LinearMixer
<1>. HIDE DEF s
<1>3. Takes(k1, PlainOnes, a, {"h"}, {"qkv"})
  <2>1. Takes(k1, CalmOnes, a, {"h"} \cup {}, {"qkv"})
    BY <1>1, MVTakes
  <2>2. {"h"} \cup {} = {"h"}
    OBVIOUS
  <2>. HIDE DEF k1
  <2>. QED
    BY <2>1, <2>2, TakesMore
<1>4. Takes(k2, PlainOnes, a, {"h"}, {"z"})
  <2>1. Takes(k2, CalmOnes, a, {"h"} \cup {}, {"z"})
    BY <1>1, MVTakes
  <2>2. {"h"} \cup {} = {"h"}
    OBVIOUS
  <2>. HIDE DEF k2
  <2>. QED
    BY <2>1, <2>2, TakesMore
<1>5. Takes(k3, PlainOnes, a, {"h"}, {"a"})
  <2>1. Takes(k3, CalmOnes, a, {"h"}, {"a"})
    BY <1>1, KTakes
  <2>. HIDE DEF k3
  <2>. QED
    BY <2>1, TakesMore
<1>6. Takes(k4, PlainOnes, a, {"h"}, {"b"})
  <2>1. Takes(k4, CalmOnes, a, {"h"}, {"b"})
    BY <1>1, KTakes
  <2>. HIDE DEF k4
  <2>. QED
    BY <2>1, TakesMore
<1>7. Takes(k5, PlainOnes, a, {"qkv"}, {"conv"})
  <2>1. {"qkv"} \in SUBSET Names /\ {"conv"} \in SUBSET Names /\ "conv" \in {"conv", "state"}
    BY <1>1
  <2>. QED
    BY <1>1, <2>1, MemoryTakes
<1>8. Takes(k6, PlainOnes, a, {"conv"}, {"qe"})
  <2>1. Takes(k6, CalmOnes, a, {"conv"}, {"qe"})
    BY <1>1, KTakes
  <2>. HIDE DEF k6
  <2>. QED
    BY <2>1, TakesMore
<1>9. Takes(k7, PlainOnes, a, {"conv"}, {"ke"})
  <2>1. Takes(k7, CalmOnes, a, {"conv"}, {"ke"})
    BY <1>1, KTakes
  <2>. HIDE DEF k7
  <2>. QED
    BY <2>1, TakesMore
<1>10. Takes(k8, PlainOnes, a, {"a", "b"}, {"g", "beta"})
  <2>1. Takes(k8, CalmOnes, a, {"a", "b"}, {"g", "beta"})
    BY <1>1, KTakes
  <2>. HIDE DEF k8
  <2>. QED
    BY <2>1, TakesMore
<1>11. Takes(k9, PlainOnes, a, {"qe", "ke", "conv", "g", "beta"}, {"y"})
  <2>1. {"qe", "ke", "conv", "g", "beta"} \in SUBSET Names /\ {"y"} \in SUBSET Names /\ "state" \in {"conv", "state"}
    BY <1>1
  <2>. QED
    BY <1>1, <2>1, MemoryTakes
<1>12. Takes(k10, PlainOnes, a, {"y", "z"}, {"mixed"})
  <2>1. Takes(k10, CalmOnes, a, {"y", "z"}, {"mixed"})
    BY <1>1, KTakes
  <2>. HIDE DEF k10
  <2>. QED
    BY <2>1, TakesMore
<1>13. Takes(k11, PlainOnes, a, {"mixed", "x"}, {"x2"})
  <2>1. Takes(k11, CalmOnes, a, {"mixed"} \cup {"x"}, {"x2"})
    BY <1>1, MVTakes
  <2>2. {"mixed"} \cup {"x"} = {"mixed", "x"}
    OBVIOUS
  <2>. HIDE DEF k11
  <2>. QED
    BY <2>1, <2>2, TakesMore
<1>. HIDE DEF k1, k2, k3, k4, k5, k6, k7, k8, k9, k10, k11
<1>14. s \in Seq(PlainOnes) /\ Len(s) = 11 /\ s[1] = k1 /\ s[2] = k2 /\ s[3] = k3 /\ s[4] = k4 /\ s[5] = k5 /\ s[6] = k6 /\ s[7] = k7 /\ s[8] = k8 /\ s[9] = k9 /\ s[10] = k10 /\ s[11] = k11
  <2>1. k1 \in PlainOnes /\ k2 \in PlainOnes /\ k3 \in PlainOnes /\ k4 \in PlainOnes /\ k5 \in PlainOnes /\ k6 \in PlainOnes /\ k7 \in PlainOnes /\ k8 \in PlainOnes /\ k9 \in PlainOnes /\ k10 \in PlainOnes /\ k11 \in PlainOnes
    BY <1>3, <1>4, <1>5, <1>6, <1>7, <1>8, <1>9, <1>10, <1>11, <1>12, <1>13 DEF Takes
  <2>. QED
    BY <1>2, <2>1
<1>15. Fed(s, 0, a, {"x", "h"}, {"x", "h"})
  BY FedStart
<1>16. Fed(s, 1, a, {"x", "h"}, {"x", "h", "qkv"})
  <2>1. Onward(s, 0, 1, PlainOnes, a, {"x", "h"}, {"x", "h"}, {"h"}, {"qkv"}, {"x", "h", "qkv"})
    BY <1>14, <1>3, <1>15 DEF Onward
  <2>. QED
    BY <2>1, FedStep
<1>17. Fed(s, 2, a, {"x", "h"}, {"x", "h", "qkv", "z"})
  <2>1. Onward(s, 1, 2, PlainOnes, a, {"x", "h"}, {"x", "h", "qkv"}, {"h"}, {"z"}, {"x", "h", "qkv", "z"})
    BY <1>14, <1>4, <1>16 DEF Onward
  <2>. QED
    BY <2>1, FedStep
<1>18. Fed(s, 3, a, {"x", "h"}, {"x", "h", "qkv", "z", "a"})
  <2>1. Onward(s, 2, 3, PlainOnes, a, {"x", "h"}, {"x", "h", "qkv", "z"}, {"h"}, {"a"}, {"x", "h", "qkv", "z", "a"})
    BY <1>14, <1>5, <1>17 DEF Onward
  <2>. QED
    BY <2>1, FedStep
<1>19. Fed(s, 4, a, {"x", "h"}, {"x", "qkv", "z", "a", "b"})
  <2>1. Onward(s, 3, 4, PlainOnes, a, {"x", "h"}, {"x", "h", "qkv", "z", "a"}, {"h"}, {"b"}, {"x", "qkv", "z", "a", "b"})
    BY <1>14, <1>6, <1>18 DEF Onward
  <2>. QED
    BY <2>1, FedStep
<1>20. Fed(s, 5, a, {"x", "h"}, {"x", "z", "a", "b", "conv"})
  <2>1. Onward(s, 4, 5, PlainOnes, a, {"x", "h"}, {"x", "qkv", "z", "a", "b"}, {"qkv"}, {"conv"}, {"x", "z", "a", "b", "conv"})
    BY <1>14, <1>7, <1>19 DEF Onward
  <2>. QED
    BY <2>1, FedStep
<1>21. Fed(s, 6, a, {"x", "h"}, {"x", "z", "a", "b", "conv", "qe"})
  <2>1. Onward(s, 5, 6, PlainOnes, a, {"x", "h"}, {"x", "z", "a", "b", "conv"}, {"conv"}, {"qe"}, {"x", "z", "a", "b", "conv", "qe"})
    BY <1>14, <1>8, <1>20 DEF Onward
  <2>. QED
    BY <2>1, FedStep
<1>22. Fed(s, 7, a, {"x", "h"}, {"x", "z", "a", "b", "conv", "qe", "ke"})
  <2>1. Onward(s, 6, 7, PlainOnes, a, {"x", "h"}, {"x", "z", "a", "b", "conv", "qe"}, {"conv"}, {"ke"}, {"x", "z", "a", "b", "conv", "qe", "ke"})
    BY <1>14, <1>9, <1>21 DEF Onward
  <2>. QED
    BY <2>1, FedStep
<1>23. Fed(s, 8, a, {"x", "h"}, {"x", "z", "conv", "qe", "ke", "g", "beta"})
  <2>1. Onward(s, 7, 8, PlainOnes, a, {"x", "h"}, {"x", "z", "a", "b", "conv", "qe", "ke"}, {"a", "b"}, {"g", "beta"}, {"x", "z", "conv", "qe", "ke", "g", "beta"})
    BY <1>14, <1>10, <1>22 DEF Onward
  <2>. QED
    BY <2>1, FedStep
<1>24. Fed(s, 9, a, {"x", "h"}, {"x", "z", "y"})
  <2>1. Onward(s, 8, 9, PlainOnes, a, {"x", "h"}, {"x", "z", "conv", "qe", "ke", "g", "beta"}, {"qe", "ke", "conv", "g", "beta"}, {"y"}, {"x", "z", "y"})
    BY <1>14, <1>11, <1>23 DEF Onward
  <2>. QED
    BY <2>1, FedStep
<1>25. Fed(s, 10, a, {"x", "h"}, {"x", "mixed"})
  <2>1. Onward(s, 9, 10, PlainOnes, a, {"x", "h"}, {"x", "z", "y"}, {"y", "z"}, {"mixed"}, {"x", "mixed"})
    BY <1>14, <1>12, <1>24 DEF Onward
  <2>. QED
    BY <2>1, FedStep
<1>26. Fed(s, 11, a, {"x", "h"}, {"x2"})
  <2>1. Onward(s, 10, 11, PlainOnes, a, {"x", "h"}, {"x", "mixed"}, {"mixed", "x"}, {"x2"}, {"x2"})
    BY <1>14, <1>13, <1>25 DEF Onward
  <2>. QED
    BY <2>1, FedStep
<1>27. Grows(s, PlainOnes, a, {"x", "h"}, {"x2"})
  BY <1>14, <1>26, FedGrows
<1>. QED
  BY <1>27 DEF s

-----------------------------------------------------------------------------
\* What the host gives beside the embedding: where the rows are, and how far a split one reaches.
Given(a, split) ==
  {"cos", "sin", "scalars_pos", "scalars_attn"}
    \cup (IF split THEN {"scalars_nsplit"} \cup (IF a = "acts" THEN {"scalars_len"} ELSE {}) ELSE {})

LEMMA AttentionGrows ==
  ASSUME NEW a \in {"acts", "bacts"}, NEW l \in Nat, NEW split \in BOOLEAN
  PROVE  Grows(Attention(a, l, split), CalmOnes, a, {"q16"} \cup Given(a, split), {"attn"})
<1>. DEFINE given == {"q16"} \cup Given(a, split)
            cache == Layer(l, {"kcache", "vcache"})
<1>1. CASE ~split
  <2>1. Attention(a, l, split) = <<Kernel("attention", Of(a, {"q16", "scalars_attn"}) \cup cache, Of(a, {"attn"}))>>
    BY <1>1 DEF Attention
  <2>2. {"q16", "scalars_attn"} \subseteq given /\ {"attn"} \subseteq {"attn"} \cup given
    BY <1>1 DEF Given
  <2>. HIDE DEF given
  <2>3. Grows(Attention(a, l, split), CalmOnes, a, {"q16", "scalars_attn"}, {"attn"})
    BY <2>1, OneKernelGrows
  <2>. QED
    BY <2>2, <2>3, GrowsMore DEF given
<1>2. CASE split /\ a = "acts"
  <2>1. Attention(a, l, split) =
          << Kernel("attention", Of(a, {"q16", "scalars_len"}) \cup cache, Of(a, {"part_m", "part_l", "part_acc"})),
             K("attention", a, {"part_m", "part_l", "part_acc", "scalars_nsplit"}, {"attn"}) >>
    BY <1>2 DEF Attention
  <2>2. {"q16", "scalars_len", "scalars_nsplit"} \subseteq given /\ {"attn"} \subseteq {"attn"} \cup given
    BY <1>2 DEF Given
  <2>. HIDE DEF given
  <2>3. Grows(Attention(a, l, split), CalmOnes, a, {"q16", "scalars_len", "scalars_nsplit"}, {"attn"})
    BY <2>1, StepSplitGrows
  <2>. QED
    BY <2>2, <2>3, GrowsMore DEF given
<1>3. CASE split /\ a # "acts"
  <2>1. Attention(a, l, split) =
          << Kernel("attention", Of(a, {"q16", "scalars_pos"}) \cup cache, Of(a, {"part_m", "part_l", "part_acc"})),
             K("attention", a, {"part_m", "part_l", "part_acc", "scalars_nsplit"}, {"attn"}) >>
    BY <1>3 DEF Attention
  <2>2. {"q16", "scalars_pos", "scalars_nsplit"} \subseteq given /\ {"attn"} \subseteq {"attn"} \cup given
    BY <1>3 DEF Given
  <2>. HIDE DEF given
  <2>3. Grows(Attention(a, l, split), CalmOnes, a, {"q16", "scalars_pos", "scalars_nsplit"}, {"attn"})
    BY <2>1, BatchSplitGrows
  <2>. QED
    BY <2>2, <2>3, GrowsMore DEF given
<1>. QED
  BY <1>1, <1>2, <1>3

LEMMA AttnGrows ==
  ASSUME NEW a \in {"acts", "bacts"}, NEW l \in Nat, NEW split \in BOOLEAN
  PROVE  Grows(AttnMixer(a, l, split), CalmOnes, a, {"h", "x"} \cup Given(a, split), {"x2"})
<1>. DEFINE g == {"h", "x"} \cup Given(a, split)
            p == Projected(a, l)
            t == Attention(a, l, split)
            u == <<K("gate mul", a, {"attn", "gate"}, {"gated"}), MV("matvec o_proj", a, "gated", {"x"}, "x2")>>
<1>1. AttnMixer(a, l, split) = (p \o t) \o u
  BY DEF AttnMixer, Projected
<1>. HIDE DEF p, t, u
<1>2. Grows(p, CalmOnes, a, g, {"q16", "gate"} \cup g)
  <2>1. Grows(p, CalmOnes, a, {"h", "cos", "sin", "scalars_pos"}, {"q16", "gate"})
    BY ProjectedGrows DEF p
  <2>2. {"h", "cos", "sin", "scalars_pos"} \subseteq g
    BY DEF Given
  <2>. HIDE DEF g
  <2>. QED
    BY <2>1, <2>2, GrowsMore
<1>3. Grows(t, CalmOnes, a, {"q16", "gate"} \cup g, {"attn"} \cup ({"q16", "gate"} \cup g))
  <2>1. Grows(t, CalmOnes, a, {"q16"} \cup Given(a, split), {"attn"})
    BY AttentionGrows DEF t
  <2>2. {"q16"} \cup Given(a, split) \subseteq {"q16", "gate"} \cup g
    OBVIOUS
  <2>. HIDE DEF g
  <2>. QED
    BY <2>1, <2>2, GrowsMore
<1>4. Grows(u, CalmOnes, a, {"attn"} \cup ({"q16", "gate"} \cup g), {"x2"})
  <2>1. Grows(u, CalmOnes, a, {"attn", "gate", "x"}, {"x2"})
    BY TailGrows DEF u
  <2>2. {"attn", "gate", "x"} \subseteq {"attn"} \cup ({"q16", "gate"} \cup g)
    OBVIOUS
  <2>. HIDE DEF g
  <2>. QED
    BY <2>1, <2>2, GrowsMore
<1>. HIDE DEF g
<1>5. Grows(p \o t, CalmOnes, a, g, {"attn"} \cup ({"q16", "gate"} \cup g))
  BY <1>2, <1>3, GrowsCat
<1>6. Grows((p \o t) \o u, CalmOnes, a, g, {"x2"})
  BY <1>4, <1>5, GrowsCat
<1>. QED
  BY <1>1, <1>6 DEF g

-----------------------------------------------------------------------------
\* The layers of the model.

LEMMA LayersFacts ==
  /\ Len(Layers) \in Nat /\ Len(Layers) \in Nat
  /\ \A l \in 1..Len(Layers) : l \in Nat /\ Layers[l] \in {"linear", "attn"}
<1>1. Layers \in Seq({"linear", "attn"})
  BY SessionsAssumption
<1>2. Len(Layers) \in Nat
  BY <1>1, LenProperties
<1>. QED
  BY <1>1, <1>2, ElementOfSeq

\* A linear layer's number among the linear layers is its own.
LEMMA NthFacts ==
  ASSUME NEW l \in 1..Len(Layers)
  PROVE  /\ Nth(Layers, l) \in Nat
         /\ \A m \in 1..Len(Layers) :
              Layers[l] = "linear" /\ Layers[m] = "linear" /\ Nth(Layers, m) = Nth(Layers, l) => m = l
<1>. DEFINE Below(m) == {k \in 1..m : Layers[k] = "linear"}
<1>1. Len(Layers) \in Nat
  BY LayersFacts
<1>2. ASSUME NEW m \in 1..Len(Layers)
      PROVE  IsFiniteSet(Below(m)) /\ Nth(Layers, m) = Cardinality(Below(m)) /\ Nth(Layers, m) \in Nat
  <2>1. m \in Nat /\ 1 \in Int
    BY <1>1
  <2>2. IsFiniteSet(1..m)
    BY <2>1, FS_Interval
  <2>3. IsFiniteSet(Below(m))
    BY <2>2, FS_Subset
  <2>4. Nth(Layers, m) = Cardinality(Below(m))
    BY DEF Nth
  <2>. QED
    BY <2>3, <2>4, FS_CardinalityType
<1>3. ASSUME NEW i \in 1..Len(Layers), NEW j \in 1..Len(Layers), i < j, Layers[j] = "linear"
      PROVE  Nth(Layers, i) # Nth(Layers, j)
  <2>1. Below(i) \subseteq Below(j) /\ j \in Below(j) /\ j \notin Below(i)
    BY <1>1, <1>3
  <2>2. Below(i) # Below(j)
    BY <2>1
  <2>. HIDE DEF Below
  <2>. QED
    BY <1>2, <2>1, <2>2, FS_Subset
<1>4. ASSUME NEW m \in 1..Len(Layers), Layers[l] = "linear", Layers[m] = "linear", Nth(Layers, m) = Nth(Layers, l)
      PROVE  m = l
  <2>1. m \in Nat /\ l \in Nat
    BY <1>1
  <2>2. ~(m < l) /\ ~(l < m)
    BY <1>3, <1>4
  <2>. QED
    BY <2>1, <2>2
<1>. QED
  BY <1>2, <1>4

LEMMA RowsFacts ==
  ASSUME NEW l \in 1..Len(Layers)
  PROVE  /\ Rows(Layers, l) \in SUBSET Bufs
         /\ \A r : r \in Rows(Layers, l) <=> \E n \in {"conv", "state"} : r = <<"rows", Nth(Layers, l), n>>
         /\ \A r \in Rows(Layers, l) : r[1] = "rows"
<1>1. \A r : r \in Rows(Layers, l) <=> \E n \in {"conv", "state"} : r = <<"rows", Nth(Layers, l), n>>
  BY DEF Rows
<1>2. "rows" \in Groups /\ Nth(Layers, l) \in Nat /\ {"conv", "state"} \subseteq Names
  BY NthFacts DEF Groups, Names, Acts
<1>3. \A n \in {"conv", "state"} : <<"rows", Nth(Layers, l), n>> \in Bufs
  BY <1>2 DEF Bufs
<1>. QED
  BY <1>1, <1>3

LEMMA LayerGrows ==
  ASSUME NEW a \in {"acts", "bacts"}, NEW l \in 1..Len(Layers), NEW snap \in BOOLEAN, NEW split \in BOOLEAN
  PROVE  Grows(OneLayer(a, Layers, l, snap, split), PlainOnes, a, {"x"} \cup Given(a, split), {"x"})
<1>. DEFINE g == {"x"} \cup Given(a, split)
            rows == IF snap THEN Rows(Layers, l) ELSE {}
            p == <<K("rmsnorm", a, {"x"}, {"h"})>>
            t == IF Layers[l] = "linear" THEN LinearMixer(a, l, rows) ELSE AttnMixer(a, l, split)
            u == FeedForward(a)
<1>1. OneLayer(a, Layers, l, snap, split) = (p \o t) \o u
  BY DEF OneLayer
<1>2. CalmOnes \subseteq PlainOnes /\ PlainOnes \subseteq PlainOnes
  BY DEF CalmOnes
<1>3. l \in Nat /\ rows \in SUBSET Bufs /\ \A r \in rows : r[1] = "rows"
  BY LayersFacts, RowsFacts
<1>. HIDE DEF rows
<1>4. Grows(p, PlainOnes, a, g, {"h"} \cup g)
  <2>1. Grows(p, CalmOnes, a, {"x"}, {"x", "h"})
    BY NormGrows
  <2>2. {"x"} \subseteq g /\ {"h"} \cup g \subseteq {"x", "h"} \cup g
    OBVIOUS
  <2>. HIDE DEF g, p
  <2>. QED
    BY <1>2, <2>1, <2>2, GrowsMore
<1>5. Grows(t, PlainOnes, a, {"h"} \cup g, {"x2"})
  <2>1. CASE Layers[l] = "linear"
    <3>1. Grows(t, PlainOnes, a, {"x", "h"}, {"x2"})
      BY <1>3, <2>1, LinearGrows
    <3>2. {"x", "h"} \subseteq {"h"} \cup g /\ {"x2"} \subseteq {"x2"} \cup ({"h"} \cup g)
      OBVIOUS
    <3>. HIDE DEF g, t
    <3>. QED
      BY <1>2, <3>1, <3>2, GrowsMore
  <2>2. CASE Layers[l] # "linear"
    <3>1. Grows(t, CalmOnes, a, {"h", "x"} \cup Given(a, split), {"x2"})
      BY <1>3, <2>2, AttnGrows
    <3>2. {"h", "x"} \cup Given(a, split) \subseteq {"h"} \cup g /\ {"x2"} \subseteq {"x2"} \cup ({"h"} \cup g)
      OBVIOUS
    <3>. HIDE DEF g, t
    <3>. QED
      BY <1>2, <3>1, <3>2, GrowsMore
  <2>. QED
    BY <2>1, <2>2
<1>6. Grows(u, PlainOnes, a, {"x2"}, {"x"})
  <2>1. Grows(u, CalmOnes, a, {"x2"}, {"x"})
    BY FeedForwardGrows
  <2>. HIDE DEF u
  <2>. QED
    BY <1>2, <2>1, GrowsMore
<1>. HIDE DEF g, p, t, u
<1>7. Grows(p \o t, PlainOnes, a, g, {"x2"})
  BY <1>4, <1>5, GrowsCat
<1>8. Grows((p \o t) \o u, PlainOnes, a, g, {"x"})
  BY <1>6, <1>7, GrowsCat
<1>. QED
  BY <1>1, <1>8 DEF g

LEMMA AllLayersGrow ==
  ASSUME NEW a \in {"acts", "bacts"}, NEW snap \in BOOLEAN, NEW split \in BOOLEAN
  PROVE  /\ Grows(AllLayers(a, Layers, snap, split), PlainOnes, a, {"x"} \cup Given(a, split), {"x"})
         /\ \A l \in 1..Len(Layers) :
              Outs(OneLayer(a, Layers, l, snap, split)) \subseteq Outs(AllLayers(a, Layers, snap, split))
<1>. DEFINE g == {"x"} \cup Given(a, split)
            ss == [l \in 1..Len(Layers) |-> OneLayer(a, Layers, l, snap, split)]
            r == AllLayers(a, Layers, snap, split)
<1>1. r = Joined(ss)
  BY DEF AllLayers, FlattenSeq, Joined
<1>2. ss \in Seq(Seq(PlainOnes)) /\ Len(ss) = Len(Layers) /\ \A l \in 1..Len(Layers) : ss[l] = OneLayer(a, Layers, l, snap, split)
  <2>1. \A l \in 1..Len(Layers) : OneLayer(a, Layers, l, snap, split) \in Seq(PlainOnes)
    BY LayerGrows DEF Grows
  <2>2. Len(Layers) \in Nat
    BY LayersFacts
  <2>3. ss \in Seq(Seq(PlainOnes)) /\ Len(ss) = Len(Layers)
    BY <2>1, <2>2, IsASeq
  <2>. QED
    BY <2>3
<1>3. \A l \in 1..Len(ss) : Feeds(ss[l], Of(a, g))
  <2>1. \A l \in 1..Len(Layers) : Feeds(OneLayer(a, Layers, l, snap, split), Of(a, g))
    BY LayerGrows DEF Grows
  <2>. HIDE DEF g, ss
  <2>. QED
    BY <1>2, <2>1
<1>. HIDE DEF ss, r
<1>4. /\ r \in Seq(PlainOnes) /\ Feeds(r, Of(a, g))
      /\ \A l \in 1..Len(ss) : Outs(ss[l]) \subseteq Outs(r)
  <2>. HIDE DEF g
  <2>. QED
    BY <1>1, <1>2, <1>3, FeedsJoined
<1>5. Of(a, {"x"}) \subseteq Of(a, g)
  BY OfMonotone
<1>6. Grows(r, PlainOnes, a, g, {"x"})
  BY <1>4, <1>5 DEF Grows
<1>. QED
  BY <1>2, <1>4, <1>6 DEF g, r

-----------------------------------------------------------------------------
\* The plans: a list that needs A, and behind which all of R is there.
Sound(plan, A, R) ==
  plan \in Seq(PlainOnes) /\ Feeds(plan, A) /\ R \subseteq A \cup Outs(plan)

LEMMA SoundGrows ==
  ASSUME NEW s, NEW a, NEW given, NEW live, Grows(s, PlainOnes, a, given, live)
  PROVE  Sound(s, Of(a, given), Of(a, live))
BY DEF Grows, Sound

LEMMA SoundMore ==
  ASSUME NEW s, NEW A, NEW R, Sound(s, A, R), NEW B, A \subseteq B, NEW Q, Q \subseteq B \cup R
  PROVE  Sound(s, B, Q)
BY FeedsMore DEF Sound

LEMMA SoundCat ==
  ASSUME NEW s, NEW t, NEW A, NEW R, NEW Q, Sound(s, A, R), Sound(t, A \cup R, Q)
  PROVE  Sound(s \o t, A, Q)
<1>1. s \in Seq(PlainOnes) /\ t \in Seq(PlainOnes)
  BY DEF Sound
<1>2. s \o t \in Seq(PlainOnes) /\ Outs(s \o t) = Outs(s) \cup Outs(t)
  BY <1>1, CatFacts, OutsCat
<1>3. A \cup R \subseteq A \cup Outs(s)
  BY DEF Sound
<1>4. Feeds(t, A \cup Outs(s))
  BY <1>3, FeedsMore DEF Sound
<1>5. Feeds(s \o t, A)
  BY <1>1, <1>4, FeedsCat DEF Sound
<1>6. Q \subseteq A \cup Outs(s \o t)
  BY <1>2, <1>3 DEF Sound
<1>. QED
  BY <1>2, <1>5, <1>6 DEF Sound

LEMMA CalmGrows ==
  ASSUME NEW s, NEW a, NEW given, NEW live, Grows(s, CalmOnes, a, given, live)
  PROVE  Sound(s, Of(a, given), Of(a, live))
<1>1. CalmOnes \subseteq PlainOnes /\ given \subseteq given /\ live \subseteq live \cup given
  BY DEF CalmOnes
<1>2. Grows(s, PlainOnes, a, given, live)
  BY <1>1, GrowsMore
<1>. QED
  BY <1>2, SoundGrows

\* What a pass over the layers is given.
Embedded(a, split) == Of(a, {"x"} \cup Given(a, split))

LEMMA LayersSound ==
  ASSUME NEW a \in {"acts", "bacts"}, NEW snap \in BOOLEAN, NEW split \in BOOLEAN
  PROVE  Sound(AllLayers(a, Layers, snap, split), Embedded(a, split), Of(a, {"x"}))
BY AllLayersGrow, SoundGrows DEF Embedded

LEMMA HeadSound ==
  ASSUME NEW a \in {"acts", "bacts"}
  PROVE  Sound(LmHead(a), Of(a, {"x"}), Of(a, {"x", "logits"}))
BY HeadGrows, CalmGrows

LEMMA HeadBehind ==
  ASSUME NEW a \in {"acts", "bacts"}, NEW s, NEW A, Sound(s, A, Of(a, {"x"}))
  PROVE  Sound(s \o LmHead(a), A, Of(a, {"x", "logits"}))
<1>1. Sound(LmHead(a), A \cup Of(a, {"x"}), Of(a, {"x", "logits"}))
  <2>1. /\ Of(a, {"x"}) \subseteq A \cup Of(a, {"x"})
        /\ Of(a, {"x", "logits"}) \subseteq (A \cup Of(a, {"x"})) \cup Of(a, {"x", "logits"})
    OBVIOUS
  <2>. QED
    BY <2>1, HeadSound, SoundMore
<1>. QED
  BY <1>1, SoundCat

LEMMA PlanSound ==
  ASSUME NEW split \in BOOLEAN
  PROVE  Sound(Plan(Layers, split), Embedded("acts", split), Of("acts", {"logits"}))
<1>. DEFINE s == AllLayers("acts", Layers, FALSE, split)
<1>1. Sound(s, Embedded("acts", split), Of("acts", {"x"}))
  BY LayersSound
<1>. HIDE DEF s
<1>2. Sound(s \o LmHead("acts"), Embedded("acts", split), Of("acts", {"x", "logits"}))
  BY <1>1, HeadBehind
<1>3. Of("acts", {"logits"}) \subseteq Of("acts", {"x", "logits"})
  BY OfMonotone
<1>4. Plan(Layers, split) = s \o LmHead("acts")
  BY DEF Plan, s
<1>. QED
  BY <1>2, <1>3, <1>4, SoundMore

\* The last row, from the batch's activations to the step's.
LEMMA LastRowSound ==
  Sound(LastRow, Of("bacts", {"x"}), Of("acts", {"x"}))
<1>. DEFINE r == Of("bacts", {"x"})
            w == Of("acts", {"x"})
            k == Kernel("lm head row", r, w)
<1>1. r \in SUBSET Bufs /\ w \in SUBSET Bufs /\ \A b \in r \cup w : b[1] \notin {"int8", "saved"}
  <2>1. {"x"} \in SUBSET Names /\ "acts" \in Groups /\ "bacts" \in Groups
    BY DEF Names, Acts, Groups
  <2>2. r \in SUBSET Bufs /\ \A b \in r : b[1] = "bacts"
    BY <2>1, OfFacts
  <2>3. w \in SUBSET Bufs /\ \A b \in w : b[1] = "acts"
    BY <2>1, OfFacts
  <2>. QED
    BY <2>2, <2>3
<1>2. LastRow = <<k>>
  BY DEF LastRow
<1>. HIDE DEF r, w
<1>0. k = Kernel("lm head row", r, w)
  OBVIOUS
<1>. HIDE DEF k
<1>3. k \in PlainOnes /\ k.ins = r /\ k.outs = w
  <2>1. PICK label \in PlanLabels : label = "lm head row"
    BY DEF PlanLabels, Labels
  <2>2. \A b \in r \cup w : b[1] \notin {"int8", "saved"}
    BY <1>1
  <2>3. k = Kernel(label, r, w)
    BY <1>0, <2>1
  <2>. QED
    BY <1>1, <2>2, <2>3, PlainKernel
<1>. DEFINE s == <<k>>
<1>4. s \in Seq(PlainOnes) /\ Len(s) = 1 /\ s[1] = k
  BY <1>3
<1>. HIDE DEF s
<1>5. Feeds(s, r)
  BY <1>3, <1>4 DEF Feeds
<1>6. w \subseteq Outs(s)
  <2>1. 1 \in 1..Len(s)
    BY <1>4
  <2>. QED
    BY <1>3, <1>4, <2>1, OutsFacts
<1>7. Sound(s, r, w)
  BY <1>4, <1>5, <1>6 DEF Sound
<1>. QED
  BY <1>2, <1>7 DEF s, r, w

\* What the host reads behind a batch.
Asked(head) ==
  CASE head = "all" -> Of("bacts", {"logits", "x"})
    [] head = "last" -> Of("acts", {"logits"}) \cup Of("bacts", {"x"})
    [] head = "skip" -> Of("bacts", {"x"})

LEMMA BatchPlanSound ==
  ASSUME NEW snap \in BOOLEAN, NEW split \in BOOLEAN, NEW head \in {"all", "last", "skip"}
  PROVE  Sound(BatchPlan(Layers, snap, split, head), Embedded("bacts", split), Asked(head))
<1>. DEFINE s == AllLayers("bacts", Layers, snap, split)
            A == Embedded("bacts", split)
            X == Of("bacts", {"x"})
<1>1. Sound(s, A, X) /\ X \subseteq A
  BY LayersSound, OfMonotone DEF Embedded
<1>2. CASE head = "all"
  <2>1. BatchPlan(Layers, snap, split, head) = s \o LmHead("bacts")
    BY <1>2 DEF BatchPlan
  <2>2. Asked(head) = Of("bacts", {"x", "logits"})
    <3>1. {"logits", "x"} = {"x", "logits"}
      OBVIOUS
    <3>. QED
      BY <1>2, <3>1 DEF Asked
  <2>. HIDE DEF s, A
  <2>3. Sound(s \o LmHead("bacts"), A, Of("bacts", {"x", "logits"}))
    BY <1>1, HeadBehind
  <2>. QED
    BY <2>1, <2>2, <2>3 DEF A
<1>3. CASE head = "last"
  <2>1. BatchPlan(Layers, snap, split, head) = s \o (LastRow \o LmHead("acts"))
    BY <1>3 DEF BatchPlan
  <2>2. Asked(head) = Of("acts", {"logits"}) \cup X
    BY <1>3 DEF Asked
  <2>. HIDE DEF s, A, X
  <2>3. Sound(LastRow \o LmHead("acts"), X, Of("acts", {"x", "logits"}))
    BY LastRowSound, HeadBehind DEF X
  <2>4. X \subseteq A \cup X
    OBVIOUS
  <2>5. Of("acts", {"x", "logits"}) \subseteq (A \cup X) \cup Of("acts", {"x", "logits"})
    OBVIOUS
  <2>6. Sound(LastRow \o LmHead("acts"), A \cup X, Of("acts", {"x", "logits"}))
    BY <2>3, <2>4, <2>5, SoundMore
  <2>7. Sound(s \o (LastRow \o LmHead("acts")), A, Of("acts", {"x", "logits"}))
    BY <1>1, <2>6, SoundCat
  <2>8. Of("acts", {"logits"}) \subseteq Of("acts", {"x", "logits"})
    BY OfMonotone
  <2>9. A \subseteq A /\ Asked(head) \subseteq A \cup Of("acts", {"x", "logits"})
    BY <1>1, <2>2, <2>8
  <2>10. Sound(s \o (LastRow \o LmHead("acts")), A, Asked(head))
    BY <2>7, <2>9, SoundMore
  <2>. QED
    BY <2>1, <2>10 DEF A
<1>4. CASE head = "skip"
  <2>1. BatchPlan(Layers, snap, split, head) = s \o <<>>
    BY <1>4 DEF BatchPlan
  <2>2. s \o <<>> = s
    BY <1>1, ConcatEmptySeq DEF Sound
  <2>3. Asked(head) = X
    BY <1>4 DEF Asked
  <2>. QED
    BY <1>1, <2>1, <2>2, <2>3
<1>. QED
  BY <1>2, <1>3, <1>4 DEF A

-----------------------------------------------------------------------------
\* The draft head's plans.
LEMMA FcSound ==
  ASSUME NEW a \in {"acts", "bacts"}, NEW m \in {"mtp_in", "mtp_in_b"}
  PROVE  Sound(<< MatVec("mtp fc", a, Of(m, {"fused"}), {}, "x") >>, Of(m, {"fused"}), Of(a, {"x"}))
<1>. DEFINE f == Of(m, {"fused"})
            k == MatVec("mtp fc", a, f, {}, "x")
<1>1. /\ {"fused"} \in SUBSET Names /\ {} \in SUBSET Names /\ "x" \in Names /\ m \in Groups
      /\ a \notin {"mtp_in", "mtp_in_b"} /\ m \notin {"int8", "saved"} /\ "fused" \in {"fused"}
  BY DEF Names, Acts, Groups
<1>2. f \in SUBSET Bufs /\ f # {} /\ \A b \in f : b[1] = m
  BY <1>1, OfFacts
<1>3. <<a, 0, "x">> \notin f
  BY <1>1, <1>2
<1>4. \A b \in f : b[1] \notin {"int8", "saved"}
  BY <1>1, <1>2
<1>5. Of(a, {}) = {}
  BY DEF Of
<1>. HIDE DEF f
<1>0. k = MatVec("mtp fc", a, f, {}, "x")
  OBVIOUS
<1>. HIDE DEF k
<1>6. k \in CalmOnes /\ k.ins = f \cup Of(a, {}) /\ k.outs = Of(a, {"x"})
  <2>1. PICK label \in PlanLabels : label = "mtp fc"
    BY DEF PlanLabels, Labels
  <2>2. PICK y \in Names : y = "x"
    BY <1>1
  <2>3. PICK e \in SUBSET Names : e = {}
    BY <1>1
  <2>4. k = MatVec(label, a, f, e, y)
    BY <1>0, <2>1, <2>2, <2>3
  <2>6. f \in SUBSET Bufs
    BY <1>2
  <2>7. f # {} /\ <<a, 0, y>> \notin f
    BY <1>2, <1>3, <2>2
  <2>5. k \in CalmOnes /\ k.ins = f \cup Of(a, e) /\ k.outs = Of(a, {y})
    <3>1. Multiplies(k, label, a, f, e, y)
      BY <1>4, <2>4, <2>6, <2>7 DEF Multiplies
    <3>. QED
      BY <3>1, MatVecFacts
  <2>. QED
    BY <2>2, <2>3, <2>5
<1>7. k \in PlainOnes /\ k.ins = f
  BY <1>5, <1>6 DEF CalmOnes
<1>. DEFINE s == <<k>>
<1>8. s \in Seq(PlainOnes) /\ Len(s) = 1 /\ s[1] = k
  BY <1>7
<1>. HIDE DEF s
<1>9. Feeds(s, f)
  BY <1>7, <1>8 DEF Feeds
<1>10. Of(a, {"x"}) \subseteq Outs(s)
  <2>1. 1 \in 1..Len(s)
    BY <1>8
  <2>. QED
    BY <1>6, <1>8, <2>1, OutsFacts
<1>11. Sound(s, f, Of(a, {"x"}))
  BY <1>8, <1>9, <1>10 DEF Sound
<1>. QED
  BY <1>11 DEF s, k, f

LEMMA PairCat ==
  ASSUME NEW S, NEW a \in S, NEW b \in S
  PROVE  <<a>> \o <<b>> = <<a, b>>
<1>. DEFINE s == <<a>>
            t == <<b>>
            r == <<a, b>>
            c == s \o t
<1>1. s \in Seq(S) /\ t \in Seq(S) /\ r \in Seq(S) /\ Len(s) = 1 /\ Len(t) = 1 /\ Len(r) = 2
      /\ s[1] = a /\ t[1] = b /\ r[1] = a /\ r[2] = b
  OBVIOUS
<1>. HIDE DEF s, t, r
<1>2. /\ c \in Seq(S) /\ Len(c) = 1 + 1
      /\ \A i \in 1..Len(s) : c[i] = s[i]
      /\ \A i \in 1..Len(t) : c[Len(s) + i] = t[i]
  <2>1. /\ s \o t \in Seq(S) /\ Len(s \o t) = Len(s) + Len(t)
        /\ \A i \in 1..Len(s) : (s \o t)[i] = s[i]
        /\ \A i \in 1..Len(t) : (s \o t)[Len(s) + i] = t[i]
    <3>1. s \in Seq(S) /\ t \in Seq(S)
      BY <1>1
    <3>. QED
      BY <3>1, CatFacts
  <2>. QED
    BY <1>1, <2>1
<1>. HIDE DEF c
<1>3. Len(c) = 2 /\ c[1] = a /\ c[2] = b
  <2>1. 1 \in 1..1 /\ 1 + 1 = 2
    OBVIOUS
  <2>2. c[1] = s[1] /\ c[1 + 1] = t[1]
    BY <1>1, <1>2, <2>1
  <2>. QED
    BY <1>1, <1>2, <2>1, <2>2
<1>4. \A i \in 1..Len(c) : c[i] = r[i]
  <2>1. \A i \in 1..2 : i = 1 \/ i = 2
    OBVIOUS
  <2>. QED
    BY <1>1, <1>3, <2>1
<1>5. c = r
  BY <1>1, <1>2, <1>3, <1>4, SeqEqual
<1>. QED
  BY <1>5 DEF c, s, t, r

LEMMA MtpSound ==
  ASSUME NEW a \in {"acts", "bacts"}, NEW m \in {"mtp_in", "mtp_in_b"}, NEW split \in BOOLEAN
  PROVE  Sound((<< MatVec("mtp fc", a, Of(m, {"fused"}), {}, "x"), K("rmsnorm", a, {"x"}, {"h"}) >>
                  \o AttnMixer(a, 0, split)) \o FeedForward(a),
               Of(m, {"fused"}) \cup Of(a, Given(a, split)), Of(a, {"x"}))
<1>. DEFINE k1 == MatVec("mtp fc", a, Of(m, {"fused"}), {}, "x")
            k2 == K("rmsnorm", a, {"x"}, {"h"})
            A == Of(m, {"fused"}) \cup Of(a, Given(a, split))
            g == {"h", "x"} \cup Given(a, split)
            p == AttnMixer(a, 0, split)
            u == FeedForward(a)
<1>1. Sound(<<k1>>, A, Of(a, {"x"}) \cup A)
  <2>1. Sound(<<k1>>, Of(m, {"fused"}), Of(a, {"x"}))
    BY FcSound
  <2>2. Of(m, {"fused"}) \subseteq A /\ Of(a, {"x"}) \cup A \subseteq A \cup Of(a, {"x"})
    OBVIOUS
  <2>. HIDE DEF A, k1
  <2>. QED
    BY <2>1, <2>2, SoundMore
<1>2. Sound(<<k2>>, A \cup (Of(a, {"x"}) \cup A), Of(a, g))
  <2>1. Sound(<<k2>>, Of(a, {"x"}), Of(a, {"x", "h"}))
    BY NormGrows, CalmGrows
  <2>2. Of(a, {"x"}) \subseteq A \cup (Of(a, {"x"}) \cup A)
    OBVIOUS
  <2>3. Of(a, g) \subseteq (A \cup (Of(a, {"x"}) \cup A)) \cup Of(a, {"x", "h"})
    BY DEF Of
  <2>. HIDE DEF A, k2, g
  <2>. QED
    BY <2>1, <2>2, <2>3, SoundMore
<1>3. <<k1>> \o <<k2>> = <<k1, k2>>
  <2>1. k1 \in PlainOnes /\ k2 \in PlainOnes
    <3>. DEFINE s1 == <<k1>>
                s2 == <<k2>>
    <3>1. s1 \in Seq(PlainOnes) /\ s2 \in Seq(PlainOnes)
      BY <1>1, <1>2 DEF Sound
    <3>2. Len(s1) = 1 /\ s1[1] = k1 /\ Len(s2) = 1 /\ s2[1] = k2
      OBVIOUS
    <3>. HIDE DEF s1, s2, k1, k2
    <3>3. s1[1] \in PlainOnes
      BY <3>1, <3>2, ElementOfSeq
    <3>4. s2[1] \in PlainOnes
      BY <3>1, <3>2, ElementOfSeq
    <3>. QED
      BY <3>2, <3>3, <3>4
  <2>. HIDE DEF k1, k2
  <2>. QED
    BY <2>1, PairCat
<1>4. Sound(<<k1, k2>>, A, Of(a, g))
  <2>. HIDE DEF A, g, k1, k2
  <2>1. Sound(<<k1>> \o <<k2>>, A, Of(a, g))
    BY <1>1, <1>2, SoundCat
  <2>. QED
    BY <1>3, <2>1
<1>5. Sound(p, A \cup Of(a, g), Of(a, {"x2"}))
  <2>1. Sound(p, Of(a, g), Of(a, {"x2"}))
    BY AttnGrows, CalmGrows
  <2>. HIDE DEF A, g, p
  <2>2. Of(a, g) \subseteq A \cup Of(a, g) /\ Of(a, {"x2"}) \subseteq (A \cup Of(a, g)) \cup Of(a, {"x2"})
    OBVIOUS
  <2>. QED
    BY <2>1, <2>2, SoundMore
<1>6. Sound(u, A \cup Of(a, {"x2"}), Of(a, {"x"}))
  <2>1. Sound(u, Of(a, {"x2"}), Of(a, {"x"}))
    BY FeedForwardGrows, CalmGrows
  <2>. HIDE DEF A, u
  <2>2. Of(a, {"x2"}) \subseteq A \cup Of(a, {"x2"}) /\ Of(a, {"x"}) \subseteq (A \cup Of(a, {"x2"})) \cup Of(a, {"x"})
    OBVIOUS
  <2>. QED
    BY <2>1, <2>2, SoundMore
<1>7. Sound((<<k1, k2>> \o p) \o u, A, Of(a, {"x"}))
  <2>. DEFINE t == <<k1, k2>>
  <2>1. Sound(t, A, Of(a, g))
    BY <1>4
  <2>. HIDE DEF t, A, p, u, g
  <2>2. Sound(t \o p, A, Of(a, {"x2"}))
    BY <1>5, <2>1, SoundCat
  <2>3. Sound((t \o p) \o u, A, Of(a, {"x"}))
    BY <1>6, <2>2, SoundCat
  <2>. QED
    BY <2>3 DEF t
<1>. QED
  BY <1>7

LEMMA MtpPlanSound ==
  Sound(MtpPlan, Of("mtp_in", {"fused"}) \cup Of("acts", Given("acts", FALSE)), Of("acts", {"x", "logits"}))
<1>. DEFINE s == (<< MatVec("mtp fc", "acts", Of("mtp_in", {"fused"}), {}, "x"), K("rmsnorm", "acts", {"x"}, {"h"}) >>
                  \o AttnMixer("acts", 0, FALSE)) \o FeedForward("acts")
            A == Of("mtp_in", {"fused"}) \cup Of("acts", Given("acts", FALSE))
<1>1. Sound(s, A, Of("acts", {"x"}))
  BY MtpSound
<1>2. MtpPlan = s \o LmHead("acts")
  BY DEF MtpPlan
<1>. HIDE DEF s, A
<1>3. Sound(s \o LmHead("acts"), A, Of("acts", {"x", "logits"}))
  BY <1>1, HeadBehind
<1>. QED
  BY <1>2, <1>3 DEF A

LEMMA MtpBatchPlanSound ==
  ASSUME NEW split \in BOOLEAN
  PROVE  Sound(MtpBatchPlan(split), Of("mtp_in_b", {"fused"}) \cup Of("bacts", Given("bacts", split)), {})
<1>. DEFINE s == (<< MatVec("mtp fc", "bacts", Of("mtp_in_b", {"fused"}), {}, "x"), K("rmsnorm", "bacts", {"x"}, {"h"}) >>
                  \o AttnMixer("bacts", 0, split)) \o FeedForward("bacts")
            A == Of("mtp_in_b", {"fused"}) \cup Of("bacts", Given("bacts", split))
<1>1. Sound(s, A, Of("bacts", {"x"}))
  BY MtpSound
<1>2. MtpBatchPlan(split) = s
  BY DEF MtpBatchPlan
<1>. HIDE DEF s
<1>. QED
  BY <1>1, <1>2 DEF Sound

-----------------------------------------------------------------------------
\* The int8 kernels. Launch q quantised x, and up to launch n both are as they were.
QuantBefore(s, q, n, x) ==
  /\ q \in 1..n - 1 /\ s[q].ins = x /\ s[q].outs = Quantised
  /\ \A j \in q..n - 1 : s[j].outs \cap x = {}
  /\ \A j \in q + 1..n - 1 : s[j].outs \cap Quantised = {}

\* Whoever reads a quantised copy reads that of its own input.
Quants(s) ==
  \A i \in 1..Len(s) : s[i].ins \cap Quantised # {} => \E q : QuantBefore(s, q, i, s[i].x)

LEMMA AppendFacts ==
  ASSUME NEW S, NEW s \in Seq(S), NEW e \in S, NEW t, t = Append(s, e)
  PROVE  /\ t \in Seq(S) /\ Len(s) \in Nat /\ Len(t) = Len(s) + 1
         /\ \A i \in 1..Len(s) : t[i] = s[i]
         /\ t[Len(s) + 1] = e
BY AppendProperties, LenProperties

\* Places of a sequence that begins behind o.
LEMMA Earlier ==
  ASSUME NEW o \in Nat, NEW l \in Nat, NEW m \in 1..l, NEW i, i = o + m, NEW k \in 1..m - 1
  PROVE  /\ k \in 1..l /\ o + k \in Nat /\ o + k \in 1..i - 1
         /\ \A v \in o + k..i - 1 : v \in o + k..o + m
OBVIOUS

\* What a launch needs behind a list that makes do with A.
Met(e, s, A) == \A b \in e.ins : Scratch(b) => b \in A \cup Outs(s)

LEMMA FeedsAppend ==
  ASSUME NEW s \in Seq(AnyLaunch), NEW e \in AnyLaunch, NEW A, Feeds(s, A), Met(e, s, A)
  PROVE  Feeds(Append(s, e), A)
<1>. DEFINE t == Append(s, e)
<1>1. PICK m \in Nat : m = Len(s) /\ Len(t) = m + 1 /\ t[m + 1] = e /\ \A i \in 1..m : t[i] = s[i]
  BY AppendFacts
<1>. SUFFICES ASSUME NEW i \in 1..m + 1, NEW b \in t[i].ins, Scratch(b), b \notin A
              PROVE  \E j \in 1..i - 1 : b \in t[j].outs
  BY <1>1 DEF Feeds
<1>2. CASE i \in 1..m
  <2>1. PICK j \in 1..i - 1 : b \in s[j].outs
    BY <1>1, <1>2 DEF Feeds
  <2>2. j \in 1..m
    BY <1>2
  <2>. QED
    BY <1>1, <2>1, <2>2
<1>3. CASE i \notin 1..m
  <2>1. i = m + 1 /\ i - 1 = m
    BY <1>3
  <2>2. PICK j \in 1..m : b \in s[j].outs
    BY <1>1, <2>1 DEF Outs, Met
  <2>. QED
    BY <1>1, <2>1, <2>2
<1>. QED
  BY <1>2, <1>3

LEMMA QuantBeforeMore ==
  ASSUME NEW S, NEW s \in Seq(S), NEW e \in S, NEW t, t = Append(s, e), NEW n \in 1..Len(s) + 1,
         NEW q, NEW x, QuantBefore(s, q, n, x)
  PROVE  QuantBefore(t, q, n, x)
<1>1. PICK m \in Nat : m = Len(s) /\ \A i \in 1..m : t[i] = s[i]
  BY AppendFacts
<1>2. q \in 1..n - 1 /\ \A j \in q..n - 1 : j \in 1..m
  BY <1>1 DEF QuantBefore
<1>3. \A j \in q..n - 1 : t[j] = s[j]
  BY <1>1, <1>2
<1>4. q \in q..n - 1 /\ \A j \in q + 1..n - 1 : j \in q..n - 1
  BY <1>2
<1>. QED
  BY <1>3, <1>4 DEF QuantBefore

LEMMA QuantsAppend ==
  ASSUME NEW S, NEW s \in Seq(S), NEW e \in S, NEW t, t = Append(s, e), Quants(s),
         e.ins \cap Quantised # {} => \E q : QuantBefore(s, q, Len(s) + 1, e.x)
  PROVE  Quants(t)
<1>1. PICK m \in Nat : m = Len(s) /\ Len(t) = m + 1 /\ t[m + 1] = e /\ \A i \in 1..m : t[i] = s[i]
  BY AppendFacts
<1>. SUFFICES ASSUME NEW i \in 1..m + 1, t[i].ins \cap Quantised # {}
              PROVE  \E q : QuantBefore(t, q, i, t[i].x)
  BY <1>1 DEF Quants
<1>2. PICK q : QuantBefore(s, q, i, t[i].x)
  <2>1. CASE i \in 1..m
    BY <1>1, <2>1 DEF Quants
  <2>2. CASE i \notin 1..m
    <3>1. i = m + 1
      BY <2>2
    <3>. QED
      BY <1>1, <3>1
  <2>. QED
    BY <2>1, <2>2
<1>3. i \in 1..Len(s) + 1
  BY <1>1
<1>4. QuantBefore(t, q, i, t[i].x)
  BY <1>2, <1>3, QuantBeforeMore
<1>. QED
  BY <1>4

\* It stays so behind a launch that writes neither.
LEMMA QuantBeforeNext ==
  ASSUME NEW S, NEW s \in Seq(S), NEW e \in S, NEW t, t = Append(s, e), NEW q, NEW x,
         QuantBefore(s, q, Len(s) + 1, x), e.outs \cap x = {}, e.outs \cap Quantised = {}
  PROVE  QuantBefore(t, q, Len(t) + 1, x)
<1>1. PICK m \in Nat : m = Len(s) /\ Len(t) = m + 1 /\ t[m + 1] = e /\ \A i \in 1..m : t[i] = s[i]
  BY AppendFacts
<1>2. q \in 1..m /\ s[q].ins = x /\ s[q].outs = Quantised
  <2>1. (m + 1) - 1 = m
    OBVIOUS
  <2>. QED
    BY <1>1, <2>1 DEF QuantBefore
<1>3. /\ \A j \in q..m : s[j].outs \cap x = {}
      /\ \A j \in q + 1..m : s[j].outs \cap Quantised = {}
  <2>1. (m + 1) - 1 = m
    OBVIOUS
  <2>. QED
    BY <1>1, <2>1 DEF QuantBefore
<1>4. ASSUME NEW j \in q..m + 1 PROVE t[j].outs \cap x = {} /\ (j \in q + 1..m + 1 => t[j].outs \cap Quantised = {})
  <2>1. CASE j = m + 1
    BY <1>1, <2>1
  <2>2. CASE j # m + 1
    <3>1. j \in 1..m /\ j \in q..m /\ (j \in q + 1..m + 1 => j \in q + 1..m)
      BY <1>2, <2>2
    <3>. QED
      BY <1>1, <1>3, <3>1
  <2>. QED
    BY <2>1, <2>2
<1>5. (Len(t) + 1) - 1 = m + 1 /\ q \in 1..m + 1 /\ t[q] = s[q] /\ \A j \in q + 1..m + 1 : j \in q..m + 1
  BY <1>1, <1>2
<1>. QED
  BY <1>2, <1>4, <1>5 DEF QuantBefore

LEMMA QuantBeforeStart ==
  ASSUME NEW S, NEW s \in Seq(S), NEW e \in S, NEW t, t = Append(s, e), NEW x,
         e.ins = x, e.outs = Quantised, x \cap Quantised = {}
  PROVE  QuantBefore(t, Len(t), Len(t) + 1, x)
<1>1. PICK m \in Nat : m = Len(s) /\ Len(t) = m + 1 /\ t[m + 1] = e
  BY AppendFacts
<1>2. PICK n \in Nat : n = m + 1 /\ n \in 1..(n + 1) - 1
  OBVIOUS
<1>3. t[n].ins = x /\ t[n].outs = Quantised /\ Len(t) = n
  BY <1>1, <1>2
<1>4. \A j \in n..(n + 1) - 1 : j = n
  OBVIOUS
<1>5. \A j \in n + 1..(n + 1) - 1 : FALSE
  OBVIOUS
<1>. QED
  BY <1>2, <1>3, <1>4, <1>5 DEF QuantBefore

-----------------------------------------------------------------------------
\* What int8_plan has laid of the first k launches.
Quanting(s) == s.label = "quant" /\ s.outs = Quantised

Same(s, t) == s.label = t.label /\ s.outs = t.outs

Done(out, plan, k, A) ==
  /\ out \in Seq(AnyLaunch) /\ Feeds(out, A) /\ Quants(out)
  /\ \A i \in 1..Len(out) : Quanting(out[i]) \/ \E m \in 1..k : Same(out[i], plan[m])
  /\ \A m \in 1..k : \E i \in 1..Len(out) : Same(out[i], plan[m])

Adding(out, plan, k, A, e, t) ==
  Done(out, plan, k, A) /\ k \in Nat /\ e \in AnyLaunch /\ t = Append(out, e)

LEMMA DoneAppend ==
  ASSUME NEW out, NEW plan, NEW k, NEW A, NEW e, NEW t, Adding(out, plan, k, A, e, t)
  PROVE  /\ t \in Seq(AnyLaunch)
         /\ \A i \in 1..Len(t) : t[i] = e \/ Quanting(t[i]) \/ \E m \in 1..k : Same(t[i], plan[m])
         /\ \A m \in 1..k : \E i \in 1..Len(t) : Same(t[i], plan[m])
         /\ \E i \in 1..Len(t) : t[i] = e
<1>0. Done(out, plan, k, A) /\ k \in Nat /\ e \in AnyLaunch /\ t = Append(out, e) /\ out \in Seq(AnyLaunch)
  BY DEF Adding, Done
<1>1. PICK n \in Nat : n = Len(out) /\ Len(t) = n + 1 /\ t[n + 1] = e /\ \A i \in 1..n : t[i] = out[i]
  BY <1>0, AppendFacts
<1>2. t \in Seq(AnyLaunch)
  BY <1>0, AppendFacts
<1>3. ASSUME NEW i \in 1..n + 1 PROVE t[i] = e \/ Quanting(t[i]) \/ \E m \in 1..k : Same(t[i], plan[m])
  <2>1. i = n + 1 \/ i \in 1..n
    OBVIOUS
  <2>. QED
    BY <1>0, <1>1, <2>1 DEF Done
<1>4. ASSUME NEW m \in 1..k PROVE \E i \in 1..Len(t) : Same(t[i], plan[m])
  <2>1. PICK i \in 1..n : Same(out[i], plan[m])
    BY <1>0, <1>1 DEF Done
  <2>2. i \in 1..n + 1
    OBVIOUS
  <2>. QED
    BY <1>1, <2>1, <2>2
<1>5. n + 1 \in 1..n + 1
  OBVIOUS
<1>. QED
  BY <1>1, <1>2, <1>3, <1>4, <1>5

\* What the plan's next launch reads is there in what is laid.
LEMMA DoneFeeds ==
  ASSUME NEW out, NEW plan, NEW k \in Nat, NEW A, Done(out, plan, k, A), Feeds(plan, A), k + 1 \in 1..Len(plan)
  PROVE  \A b \in plan[k + 1].ins : Scratch(b) => b \in A \cup Outs(out)
<1>. SUFFICES ASSUME NEW b \in plan[k + 1].ins, Scratch(b), b \notin A PROVE b \in Outs(out)
  OBVIOUS
<1>1. (k + 1) - 1 = k
  OBVIOUS
<1>2. PICK j \in 1..k : b \in plan[j].outs
  BY <1>1 DEF Feeds
<1>3. PICK i \in 1..Len(out) : Same(out[i], plan[j])
  BY DEF Done
<1>4. b \in out[i].outs
  BY <1>2, <1>3 DEF Same
<1>. QED
  BY <1>4, OutsFacts

LEMMA DoneNext ==
  ASSUME NEW out, NEW plan, NEW k \in Nat, NEW A, Done(out, plan, k, A), Feeds(plan, A), k + 1 \in 1..Len(plan),
         NEW e \in AnyLaunch, Same(e, plan[k + 1]), e.ins \subseteq plan[k + 1].ins \cup Quantised,
         e.ins \cap Quantised # {} => \E q : QuantBefore(out, q, Len(out) + 1, e.x),
         NEW t, t = Append(out, e)
  PROVE  Done(t, plan, k + 1, A)
<1>1. /\ t \in Seq(AnyLaunch)
      /\ \A i \in 1..Len(t) : t[i] = e \/ Quanting(t[i]) \/ \E m \in 1..k : Same(t[i], plan[m])
      /\ \A m \in 1..k : \E i \in 1..Len(t) : Same(t[i], plan[m])
      /\ \E i \in 1..Len(t) : t[i] = e
  <2>1. Adding(out, plan, k, A, e, t)
    BY DEF Adding
  <2>. QED
    BY ONLY <2>1, DoneAppend
<1>2. out \in Seq(AnyLaunch) /\ Feeds(out, A) /\ Quants(out) /\ Len(out) \in Nat
  BY LenProperties DEF Done
<1>3. ASSUME NEW b \in e.ins, Scratch(b) PROVE b \in A \cup Outs(out)
  <2>1. CASE b \in plan[k + 1].ins
    BY <1>3, <2>1, DoneFeeds
  <2>2. CASE b \in Quantised
    <3>1. PICK q : QuantBefore(out, q, Len(out) + 1, e.x)
      BY <2>2
    <3>2. q \in 1..Len(out) /\ out[q].outs = Quantised
      <4>1. (Len(out) + 1) - 1 = Len(out)
        BY <1>2
      <4>. QED
        BY <3>1, <4>1 DEF QuantBefore
    <3>. QED
      BY <2>2, <3>2, OutsFacts
  <2>. QED
    BY <2>1, <2>2
<1>4. Feeds(t, A)
  <2>1. Met(e, out, A)
    BY <1>3 DEF Met
  <2>. QED
    BY <1>2, <2>1, FeedsAppend
<1>5. Quants(t)
  BY <1>2, QuantsAppend
<1>6. \A m \in 1..k : m \in 1..k + 1
  OBVIOUS
<1>7. \A m \in 1..k + 1 : m \in 1..k \/ m = k + 1
  OBVIOUS
<1>8. k + 1 \in 1..k + 1
  OBVIOUS
<1>9. \A i \in 1..Len(t) : Quanting(t[i]) \/ \E m \in 1..k + 1 : Same(t[i], plan[m])
  BY <1>1, <1>6, <1>8
<1>10. \A m \in 1..k + 1 : \E i \in 1..Len(t) : Same(t[i], plan[m])
  BY <1>1, <1>7
<1>. QED
  BY <1>1, <1>4, <1>5, <1>9, <1>10 DEF Done

LEMMA DoneQuant ==
  ASSUME NEW out, NEW plan, NEW k \in Nat, NEW A, Done(out, plan, k, A), Feeds(plan, A), k + 1 \in 1..Len(plan),
         NEW e \in AnyLaunch, Quanting(e), e.ins \subseteq plan[k + 1].ins, e.ins \cap Quantised = {},
         NEW t, t = Append(out, e)
  PROVE  Done(t, plan, k, A)
<1>1. /\ t \in Seq(AnyLaunch)
      /\ \A i \in 1..Len(t) : t[i] = e \/ Quanting(t[i]) \/ \E m \in 1..k : Same(t[i], plan[m])
      /\ \A m \in 1..k : \E i \in 1..Len(t) : Same(t[i], plan[m])
  <2>1. Adding(out, plan, k, A, e, t)
    BY DEF Adding
  <2>. QED
    BY ONLY <2>1, DoneAppend
<1>2. out \in Seq(AnyLaunch) /\ Feeds(out, A) /\ Quants(out)
  BY DEF Done
<1>3. \A b \in e.ins : Scratch(b) => b \in A \cup Outs(out)
  BY DoneFeeds
<1>4. Feeds(t, A)
  <2>1. Met(e, out, A)
    BY <1>3 DEF Met
  <2>. QED
    BY <1>2, <2>1, FeedsAppend
<1>5. Quants(t)
  BY <1>2, QuantsAppend
<1>. QED
  BY <1>1, <1>4, <1>5 DEF Done

-----------------------------------------------------------------------------
\* One launch of the plan, the whole of int8_plan.
Accs == [out : Seq(AnyLaunch), last : [x : SUBSET Bufs, at : Nat]]

Laying(whose, acc, s) ==
  IF s.mv # whose THEN [acc EXCEPT !.out = Append(@, s)]
  ELSE LET fresh == Shares(acc.last, s.x, Len(acc.out))
           quant == IF fresh THEN <<>> ELSE << Kernel("quant", s.x, Quantised) >>
           mm == [s EXCEPT !.ins = (@ \ s.x) \cup Quantised]
           out == acc.out \o quant \o <<mm>>
       IN [out |-> out, last |-> [x |-> s.x, at |-> Len(out)]]

\* If the last launch is a matmul, what it multiplied is quantised still.
Progress(acc, plan, k, A) ==
  /\ acc \in Accs /\ Done(acc.out, plan, k, A) /\ acc.last.at <= Len(acc.out)
  /\ acc.last.x # {} /\ acc.last.at = Len(acc.out)
       => \E q : QuantBefore(acc.out, q, Len(acc.out) + 1, acc.last.x)

Proceeds(plan, k, A, whose) ==
  /\ plan \in Seq(PlainOnes) /\ Feeds(plan, A) /\ k \in Nat /\ k + 1 \in 1..Len(plan)
  /\ whose \in {"acts", "bacts"}

LEMMA AppendIsCat ==
  ASSUME NEW S, NEW s \in Seq(S), NEW e \in S
  PROVE  s \o <<e>> = Append(s, e) /\ s \o <<>> = s
<1>. DEFINE t == Append(s, e)
            r == <<e>>
            c == s \o r
<1>1. r \in Seq(S) /\ Len(r) = 1 /\ r[1] = e
  OBVIOUS
<1>2. t \in Seq(S) /\ Len(s) \in Nat /\ Len(t) = Len(s) + 1 /\ (\A i \in 1..Len(s) : t[i] = s[i]) /\ t[Len(s) + 1] = e
  BY AppendFacts
<1>. HIDE DEF t, r
<1>3. /\ c \in Seq(S) /\ Len(c) = Len(s) + Len(r)
      /\ \A i \in 1..Len(s) : c[i] = s[i]
      /\ \A i \in 1..Len(r) : c[Len(s) + i] = r[i]
  <2>1. s \in Seq(S) /\ r \in Seq(S)
    BY <1>1
  <2>. QED
    <3>1. c \in Seq(S) /\ Len(c) = Len(s) + Len(r)
          /\ \A i \in 1..(Len(s) + Len(r)) : c[i] = IF i <= Len(s) THEN s[i] ELSE r[i - Len(s)]
      BY ONLY <2>1, ConcatProperties
    <3>. HIDE DEF c
    <3>2. PICK m \in Nat : m = Len(s)
      BY <1>2
    <3>3. \A i \in 1..m : i \in 1..m + 1 /\ i <= m
      OBVIOUS
    <3>4. m + 1 \in 1..m + 1 /\ ~(m + 1 <= m) /\ (m + 1) - m = 1 /\ \A i \in 1..1 : i = 1
      OBVIOUS
    <3>. QED
      BY <1>1, <3>1, <3>2, <3>3, <3>4
<1>. HIDE DEF c
<1>4. PICK n \in Nat : n = Len(s)
  BY <1>2
<1>5. ASSUME NEW i \in 1..n + 1 PROVE c[i] = t[i]
  <2>1. CASE i \in 1..n
    BY <1>2, <1>3, <1>4, <2>1
  <2>2. CASE i \notin 1..n
    <3>1. i = n + 1 /\ 1 \in 1..1
      BY <2>2
    <3>2. c[n + 1] = r[1]
      BY <1>1, <1>3, <1>4, <3>1
    <3>. QED
      BY <1>1, <1>2, <1>4, <3>1, <3>2
  <2>. QED
    BY <2>1, <2>2
<1>6. Len(c) = n + 1 /\ Len(t) = n + 1
  BY <1>1, <1>2, <1>3, <1>4
<1>7. c = t
  BY <1>2, <1>3, <1>5, <1>6, SeqEqual
<1>. QED
  BY <1>7, ConcatEmptySeq DEF c, t, r

LEMMA PlainFacts ==
  ASSUME NEW plan \in Seq(PlainOnes), NEW n \in 1..Len(plan), NEW s, s = plan[n]
  PROVE  s \in AnyLaunch /\ Plain(s)
<1>1. s \in PlainOnes
  BY ElementOfSeq
<1>. QED
  BY <1>1 DEF PlainOnes

\* A launch that is no matvec of the table in question goes as it is.
LEMMA LaysOther ==
  ASSUME NEW acc, NEW plan, NEW k, NEW A, NEW whose, Progress(acc, plan, k, A), Proceeds(plan, k, A, whose),
         plan[k + 1].mv # whose
  PROVE  Progress(Laying(whose, acc, plan[k + 1]), plan, k + 1, A)
<1>. DEFINE s == plan[k + 1]
            t == Append(acc.out, s)
            new == Laying(whose, acc, s)
<1>1. /\ acc \in Accs /\ Done(acc.out, plan, k, A) /\ acc.last.at <= Len(acc.out)
      /\ plan \in Seq(PlainOnes) /\ Feeds(plan, A) /\ k \in Nat /\ k + 1 \in 1..Len(plan)
  BY DEF Progress, Proceeds
<1>2. s \in AnyLaunch /\ Plain(s)
  BY <1>1, PlainFacts
<1>3. acc.out \in Seq(AnyLaunch) /\ acc.last.at \in Nat
  BY <1>1 DEF Accs
<1>4. t \in Seq(AnyLaunch) /\ Len(acc.out) \in Nat /\ Len(t) = Len(acc.out) + 1
  BY <1>2, <1>3, AppendFacts
<1>5. new = [acc EXCEPT !.out = t]
  BY DEF Laying
<1>. HIDE DEF s, t, new
<1>6. new \in Accs /\ new.out = t /\ new.last = acc.last
  BY <1>1, <1>4, <1>5 DEF Accs
<1>7. Done(t, plan, k + 1, A)
  <2>1. Same(s, plan[k + 1]) /\ s.ins \subseteq plan[k + 1].ins \cup Quantised /\ t = Append(acc.out, s)
    BY DEF Same, s, t
  <2>2. s.ins \cap Quantised = {}
    BY <1>2 DEF Plain
  <2>. QED
    BY <1>1, <1>2, <2>1, <2>2, DoneNext
<1>8. acc.last.at # Len(t) /\ acc.last.at <= Len(t)
  <2>1. PICK n \in Nat, m \in Nat : n = Len(acc.out) /\ m = acc.last.at
    BY <1>3, <1>4
  <2>2. Len(t) = n + 1 /\ m <= n
    BY <1>1, <1>4, <2>1
  <2>3. m # n + 1 /\ m <= n + 1
    BY <2>2
  <2>. QED
    BY <2>1, <2>2, <2>3
<1>9. Progress(new, plan, k + 1, A)
  BY <1>6, <1>7, <1>8 DEF Progress
<1>. QED
  BY <1>9 DEF new, s

\* The matmul behind a quantisation of its input.
LEMMA LaysMatmul ==
  ASSUME NEW acc, NEW out, NEW plan, NEW k, NEW A, NEW whose, NEW q, Proceeds(plan, k, A, whose), acc \in Accs,
         Done(out, plan, k, A), plan[k + 1].mv = whose, QuantBefore(out, q, Len(out) + 1, plan[k + 1].x),
         NEW new, new.out = out \o << [plan[k + 1] EXCEPT !.ins = (@ \ plan[k + 1].x) \cup Quantised] >>,
         new = [out |-> new.out, last |-> [x |-> plan[k + 1].x, at |-> Len(new.out)]]
  PROVE  Progress(new, plan, k + 1, A)
<1>. DEFINE s == plan[k + 1]
            mm == [s EXCEPT !.ins = (@ \ s.x) \cup Quantised]
            t == new.out
<1>1. /\ out \in Seq(AnyLaunch)
      /\ plan \in Seq(PlainOnes) /\ Feeds(plan, A) /\ k \in Nat /\ k + 1 \in 1..Len(plan)
      /\ whose \in {"acts", "bacts"}
  BY DEF Proceeds, Done
<1>2. s \in AnyLaunch /\ Plain(s) /\ s.mv = whose
  BY <1>1, PlainFacts
<1>3. s.ins \in SUBSET Bufs /\ s.x \in SUBSET Bufs
  BY <1>2 DEF AnyLaunch
<1>. HIDE DEF s
<1>4. /\ mm \in AnyLaunch /\ mm.ins = (s.ins \ s.x) \cup Quantised
      /\ mm.outs = s.outs /\ mm.label = s.label /\ mm.x = s.x
  BY <1>2, <1>3, QuantisedFacts DEF AnyLaunch
<1>. HIDE DEF mm
<1>5. t = Append(out, mm)
  <2>1. t = out \o <<mm>>
    BY DEF mm, s
  <2>. QED
    BY <1>1, <1>4, <2>1, AppendIsCat
<1>. HIDE DEF t
<1>6. t \in Seq(AnyLaunch) /\ Len(t) \in Nat
  <2>1. t \in Seq(AnyLaunch)
    BY <1>1, <1>4, <1>5, AppendFacts
  <2>. QED
    BY <2>1, LenProperties
<1>7. new = [out |-> t, last |-> [x |-> s.x, at |-> Len(t)]]
  BY DEF s, t
<1>8. new \in Accs /\ new.out = t /\ new.last.x = s.x /\ new.last.at = Len(t)
  BY <1>3, <1>6, <1>7 DEF Accs
<1>9. Same(mm, plan[k + 1]) /\ mm.ins \subseteq plan[k + 1].ins \cup Quantised
  BY <1>4 DEF Same, s
<1>10. QuantBefore(out, q, Len(out) + 1, mm.x)
  BY <1>4 DEF s
<1>11. Done(t, plan, k + 1, A)
  BY <1>1, <1>4, <1>5, <1>9, <1>10, DoneNext
<1>12. mm.outs \cap s.x = {} /\ mm.outs \cap Quantised = {}
  <2>1. s.mv # ""
    BY <1>1, <1>2
  <2>. QED
    BY <1>2, <1>4, <2>1 DEF Plain
<1>13. QuantBefore(out, q, Len(out) + 1, s.x)
  BY DEF s
<1>14. QuantBefore(t, q, Len(t) + 1, s.x)
  BY <1>1, <1>4, <1>5, <1>12, <1>13, QuantBeforeNext
<1>15. Len(t) <= Len(t)
  BY <1>6
<1>. QED
  BY <1>8, <1>11, <1>14, <1>15 DEF Progress

LEMMA LaysShared ==
  ASSUME NEW acc, NEW plan, NEW k, NEW A, NEW whose, Progress(acc, plan, k, A), Proceeds(plan, k, A, whose),
         plan[k + 1].mv = whose, Shares(acc.last, plan[k + 1].x, Len(acc.out))
  PROVE  Progress(Laying(whose, acc, plan[k + 1]), plan, k + 1, A)
<1>. DEFINE s == plan[k + 1]
            mm == [s EXCEPT !.ins = (@ \ s.x) \cup Quantised]
            new == Laying(whose, acc, s)
<1>1. /\ acc \in Accs /\ Done(acc.out, plan, k, A) /\ acc.out \in Seq(AnyLaunch)
      /\ plan \in Seq(PlainOnes) /\ k + 1 \in 1..Len(plan) /\ whose \in {"acts", "bacts"}
  BY DEF Progress, Proceeds, Done
<1>2. new = [out |-> acc.out \o <<>> \o <<mm>>, last |-> [x |-> s.x, at |-> Len(acc.out \o <<>> \o <<mm>>)]]
  BY DEF Laying
<1>3. acc.out \o <<>> = acc.out
  BY <1>1, ConcatEmptySeq
<1>4. acc.last.x # {} /\ acc.last.x = s.x /\ acc.last.at = Len(acc.out)
  <2>1. s \in AnyLaunch /\ Plain(s) /\ s.mv # ""
    BY <1>1, PlainFacts
  <2>. QED
    BY <2>1 DEF Plain, Shares
<1>5. PICK q : QuantBefore(acc.out, q, Len(acc.out) + 1, s.x)
  BY <1>4 DEF Progress
<1>. HIDE DEF mm, new
<1>6. new = [out |-> acc.out \o <<mm>>, last |-> [x |-> s.x, at |-> Len(acc.out \o <<mm>>)]]
  BY <1>2, <1>3
<1>7. new.out = acc.out \o <<mm>> /\ new = [out |-> new.out, last |-> [x |-> s.x, at |-> Len(new.out)]]
  BY <1>6
<1>8. Progress(new, plan, k + 1, A)
  BY <1>1, <1>5, <1>7, LaysMatmul DEF mm
<1>. QED
  BY <1>8 DEF new

LEMMA LaysFresh ==
  ASSUME NEW acc, NEW plan, NEW k, NEW A, NEW whose, Progress(acc, plan, k, A), Proceeds(plan, k, A, whose),
         plan[k + 1].mv = whose, ~Shares(acc.last, plan[k + 1].x, Len(acc.out))
  PROVE  Progress(Laying(whose, acc, plan[k + 1]), plan, k + 1, A)
<1>. DEFINE s == plan[k + 1]
            mm == [s EXCEPT !.ins = (@ \ s.x) \cup Quantised]
            quant == Kernel("quant", s.x, Quantised)
            new == Laying(whose, acc, s)
            mid == Append(acc.out, quant)
<1>1. /\ acc \in Accs /\ Done(acc.out, plan, k, A) /\ acc.out \in Seq(AnyLaunch)
      /\ plan \in Seq(PlainOnes) /\ k + 1 \in 1..Len(plan) /\ whose \in {"acts", "bacts"}
      /\ Feeds(plan, A) /\ k \in Nat
  BY DEF Progress, Proceeds, Done
<1>2. new = [out |-> acc.out \o <<quant>> \o <<mm>>, last |-> [x |-> s.x, at |-> Len(acc.out \o <<quant>> \o <<mm>>)]]
  BY DEF Laying
<1>3. s \in AnyLaunch /\ Plain(s) /\ s.mv # "" /\ s.x \in SUBSET Bufs
  <2>1. s \in AnyLaunch /\ Plain(s) /\ s.mv # ""
    BY <1>1, PlainFacts
  <2>. QED
    BY <2>1 DEF AnyLaunch
<1>4. s.x \subseteq s.ins /\ s.x \cap Quantised = {}
  BY <1>3 DEF Plain
<1>. HIDE DEF s
<1>5. quant \in AnyLaunch /\ quant.label = "quant" /\ quant.ins = s.x /\ quant.outs = Quantised
  <2>1. "quant" \in Labels /\ s.x \in SUBSET Bufs /\ Quantised \in SUBSET Bufs
    BY <1>3, QuantisedFacts DEF Labels
  <2>. QED
    BY <2>1 DEF Kernel, AnyLaunch
<1>. HIDE DEF quant
<1>6. acc.out \o <<quant>> = mid
  BY <1>1, <1>5, AppendIsCat
<1>. HIDE DEF mm, new, mid
<1>7. new.out = mid \o <<mm>> /\ new = [out |-> new.out, last |-> [x |-> s.x, at |-> Len(new.out)]]
  BY <1>2, <1>6
<1>8. mid = Append(acc.out, quant)
  BY DEF mid
<1>9. Done(mid, plan, k, A)
  <2>1. Quanting(quant) /\ quant.ins \subseteq plan[k + 1].ins /\ quant.ins \cap Quantised = {}
    BY <1>4, <1>5 DEF Quanting, s
  <2>. QED
    BY <1>1, <1>5, <1>8, <2>1, DoneQuant
<1>10. QuantBefore(mid, Len(mid), Len(mid) + 1, s.x)
  BY <1>1, <1>4, <1>5, <1>8, QuantBeforeStart
<1>11. Progress(new, plan, k + 1, A)
  BY <1>1, <1>7, <1>9, <1>10, LaysMatmul DEF mm, s
<1>. QED
  BY <1>11 DEF new, s

\* Each launch in turn.
LEMMA Lays ==
  ASSUME NEW acc, NEW plan, NEW k, NEW A, NEW whose, Progress(acc, plan, k, A), Proceeds(plan, k, A, whose)
  PROVE  Progress(Laying(whose, acc, plan[k + 1]), plan, k + 1, A)
BY LaysOther, LaysShared, LaysFresh

Bare == [out |-> <<>>, last |-> [x |-> {}, at |-> 0]]

LEMMA LaysNothing ==
  ASSUME NEW plan, NEW A
  PROVE  Bare \in Accs /\ Progress(Bare, plan, 0, A)
<1>. DEFINE e == <<>>
<1>1. e \in Seq(AnyLaunch) /\ Len(e) = 0
  BY EmptySeq
<1>2. Bare = [out |-> e, last |-> [x |-> {}, at |-> 0]]
  BY DEF Bare
<1>. HIDE DEF e
<1>3. Bare \in Accs /\ Bare.out = e /\ Bare.last.x = {} /\ Bare.last.at = 0
  BY <1>1, <1>2 DEF Accs
<1>4. Feeds(e, A) /\ Quants(e)
  BY <1>1 DEF Feeds, Quants
<1>5. Done(e, plan, 0, A)
  BY <1>1, <1>4 DEF Done
<1>6. 0 <= Len(e)
  BY <1>1
<1>. QED
  BY <1>3, <1>5, <1>6 DEF Progress

\* int8_plan, a recursion over the plan.
LEMMA Int8Done ==
  ASSUME NEW plan \in Seq(PlainOnes), NEW A, Feeds(plan, A), NEW whose \in {"acts", "bacts"}
  PROVE  Done(Int8Plan(plan, whose), plan, Len(plan), A)
<1>. DEFINE n == Len(plan)
            Z(f) == [i \in 0..n |-> IF i = 0 THEN Bare ELSE Laying(whose, f[i - 1], plan[i])]
            laid == CHOOSE f : f = Z(f)
            Then(i, acc) == IF i \in 1..n /\ Laying(whose, acc, plan[i]) \in Accs
                            THEN Laying(whose, acc, plan[i]) ELSE Bare
            F == [p \in Nat \X Accs |-> Then(p[1] + 1, p[2])]
<1>1. Int8Plan(plan, whose) = laid[n].out
  BY DEF Int8Plan, Laying, Bare
<1>2. n \in Nat
  BY LenProperties
<1>3. PICK g \in [Nat -> Accs] : g[0] = Bare /\ \A i \in Nat : g[i + 1] = Then(i + 1, g[i])
  <2>1. \A i \in Nat, acc \in Accs : Then(i + 1, acc) \in Accs
    BY LaysNothing
  <2>. HIDE DEF Then
  <2>2. F \in [Nat \X Accs -> Accs] /\ \A i \in Nat, acc \in Accs : F[<<i, acc>>] = Then(i + 1, acc)
    BY <2>1
  <2>. HIDE DEF F
  <2>3. PICK f : Follows(f, Accs, Bare, F)
    BY <2>2, LaysNothing, RecursionExists
  <2>4. f \in [Nat -> Accs] /\ f[0] = Bare /\ \A i \in Nat : f[i + 1] = F[<<i, f[i]>>]
    BY <2>3 DEF Follows
  <2>5. \A i \in Nat : f[i] \in Accs
    BY <2>4
  <2>. QED
    BY <2>2, <2>4, <2>5
<1>. HIDE DEF n, F, laid
<1>. DEFINE T == {k \in Nat : k \in 1..n => Progress(g[k], plan, k, A) /\ g[k] = Laying(whose, g[k - 1], plan[k])}
<1>4. ASSUME NEW k \in Nat, k + 1 \in 1..n, Progress(g[k], plan, k, A)
      PROVE  Progress(g[k + 1], plan, k + 1, A) /\ g[k + 1] = Laying(whose, g[k], plan[k + 1])
  <2>1. Proceeds(plan, k, A, whose)
    BY <1>4 DEF Proceeds, n
  <2>2. Progress(Laying(whose, g[k], plan[k + 1]), plan, k + 1, A)
    BY <1>4, <2>1, Lays
  <2>3. Laying(whose, g[k], plan[k + 1]) \in Accs
    BY <2>2 DEF Progress
  <2>4. g[k + 1] = Laying(whose, g[k], plan[k + 1])
    BY <1>3, <1>4, <2>3
  <2>. QED
    BY <2>2, <2>4
<1>. HIDE DEF Then
<1>5. 0 \in T
  OBVIOUS
<1>6. ASSUME NEW k \in T PROVE k + 1 \in T
  <2>. SUFFICES ASSUME k + 1 \in 1..n
                PROVE  Progress(g[k + 1], plan, k + 1, A) /\ g[k + 1] = Laying(whose, g[(k + 1) - 1], plan[k + 1])
    OBVIOUS
  <2>1. k \in Nat /\ (k + 1) - 1 = k
    OBVIOUS
  <2>2. Progress(g[k], plan, k, A)
    <3>1. CASE k = 0
      BY <1>3, <3>1, LaysNothing
    <3>2. CASE k # 0
      <4>1. k \in 1..n
        BY <1>2, <3>2
      <4>. QED
        BY <4>1
    <3>. QED
      BY <3>1, <3>2
  <2>. HIDE DEF T
  <2>. QED
    BY <1>4, <2>1, <2>2
<1>. HIDE DEF T
<1>7. T = Nat
  <2>1. T \in SUBSET Nat
    BY DEF T
  <2>. QED
    BY <1>5, <1>6, <2>1, Induction
<1>8. \A k \in 1..n : Progress(g[k], plan, k, A) /\ g[k] = Laying(whose, g[k - 1], plan[k])
  <2>. SUFFICES ASSUME NEW k \in 1..n
                PROVE  Progress(g[k], plan, k, A) /\ g[k] = Laying(whose, g[k - 1], plan[k])
    OBVIOUS
  <2>1. k \in T
    BY <1>7
  <2>. QED
    BY <2>1 DEF T
<1>9. \E f : f = Z(f)
  <2>. DEFINE h == [i \in 0..n |-> g[i]]
  <2>1. ASSUME NEW i \in 0..n PROVE g[i] = IF i = 0 THEN Bare ELSE Laying(whose, h[i - 1], plan[i])
    <3>1. CASE i = 0
      BY <1>3, <3>1
    <3>2. CASE i # 0
      <4>1. i \in 1..n /\ i - 1 \in 0..n
        BY <1>2, <3>2
      <4>2. h[i - 1] = g[i - 1]
        BY <4>1
      <4>. HIDE DEF h
      <4>. QED
        BY <1>8, <3>2, <4>1, <4>2
    <3>. QED
      BY <3>1, <3>2
  <2>2. h = Z(h)
    BY <2>1
  <2>. QED
    BY <2>2
<1>10. laid = Z(laid)
  <2>. HIDE DEF Z
  <2>. QED
    BY <1>9 DEF laid
<1>11. \A i \in 0..n : laid[i] = IF i = 0 THEN Bare ELSE Laying(whose, laid[i - 1], plan[i])
  <2>1. \A i \in 0..n : Z(laid)[i] = IF i = 0 THEN Bare ELSE Laying(whose, laid[i - 1], plan[i])
    OBVIOUS
  <2>. HIDE DEF Z
  <2>. QED
    BY <1>10, <2>1
<1>. HIDE DEF Z
<1>. DEFINE U == {k \in Nat : k <= n => laid[k] = g[k]}
<1>12. 0 \in U
  <2>1. 0 \in 0..n
    BY <1>2
  <2>2. laid[0] = Bare
    BY <1>11, <2>1
  <2>. QED
    BY <1>3, <2>2
<1>13. ASSUME NEW k \in U PROVE k + 1 \in U
  <2>. SUFFICES ASSUME k + 1 <= n PROVE laid[k + 1] = g[k + 1]
    OBVIOUS
  <2>1. k \in Nat /\ k + 1 \in 1..n /\ k + 1 \in 0..n /\ k + 1 # 0 /\ (k + 1) - 1 = k /\ k <= n
    BY <1>2
  <2>2. laid[k] = g[k]
    BY <2>1
  <2>. HIDE DEF U
  <2>3. laid[k + 1] = Laying(whose, laid[k], plan[k + 1])
    BY <1>11, <2>1
  <2>4. g[k + 1] = Laying(whose, g[k], plan[k + 1])
    BY <1>8, <2>1
  <2>. QED
    BY <2>2, <2>3, <2>4
<1>. HIDE DEF U
<1>14. U = Nat
  <2>1. U \in SUBSET Nat
    BY DEF U
  <2>. QED
    BY <1>12, <1>13, <2>1, Induction
<1>15. laid[n] = g[n]
  <2>1. n \in U /\ n <= n
    BY <1>2, <1>14
  <2>. QED
    BY <2>1 DEF U
<1>16. Progress(g[n], plan, n, A)
  <2>1. CASE n = 0
    BY <1>3, <2>1, LaysNothing
  <2>2. CASE n # 0
    <3>1. n \in 1..n
      BY <1>2, <2>2
    <3>. QED
      BY <1>8, <3>1
  <2>. QED
    BY <2>1, <2>2
<1>17. Done(g[n].out, plan, n, A)
  BY <1>16 DEF Progress
<1>. QED
  BY <1>1, <1>15, <1>17 DEF n

-----------------------------------------------------------------------------
\* A pass: the launches of its lists, one behind another.
Parts == [by : {"host", "gpu"}, list : Seq(AnyLaunch)]

Lists(pass) == [n \in 1..Len(pass) |-> pass[n].list]

Work(pass) == Joined(Lists(pass))

LEMMA ListsFacts ==
  ASSUME NEW u \in Seq(Parts)
  PROVE  Lists(u) \in Seq(Seq(AnyLaunch)) /\ Len(Lists(u)) = Len(u) /\ \A n \in 1..Len(u) : Lists(u)[n] = u[n].list
<1>. DEFINE B == Seq(AnyLaunch)
<1>1. Len(u) \in Nat /\ \A n \in 1..Len(u) : u[n].list \in B
  <2>1. Len(u) \in Nat /\ \A n \in 1..Len(u) : u[n] \in Parts
    BY LenProperties, ElementOfSeq
  <2>. QED
    BY <2>1 DEF Parts
<1>. HIDE DEF B
<1>2. Lists(u) \in Seq(B) /\ Len(Lists(u)) = Len(u) /\ \A n \in 1..Len(u) : Lists(u)[n] = u[n].list
  BY <1>1 DEF Lists
<1>. QED
  BY <1>2 DEF B

LEMMA WorkIn ==
  ASSUME NEW u \in Seq(Parts)
  PROVE  Work(u) \in Seq(AnyLaunch)
BY ListsFacts, JoinedPlaces DEF Work

LEMMA WorkCat ==
  ASSUME NEW u \in Seq(Parts), NEW v \in Seq(Parts)
  PROVE  u \o v \in Seq(Parts) /\ Work(u \o v) = Work(u) \o Work(v)
<1>. DEFINE w == u \o v
            B == Seq(AnyLaunch)
            a == Lists(u)
            b == Lists(v)
            c == a \o b
            d == Lists(w)
<1>1. /\ w \in Seq(Parts) /\ Len(w) = Len(u) + Len(v) /\ Len(u) \in Nat /\ Len(v) \in Nat
      /\ \A i \in 1..(Len(u) + Len(v)) : w[i] = IF i <= Len(u) THEN u[i] ELSE v[i - Len(u)]
  BY ConcatProperties, LenProperties
<1>. HIDE DEF w
<1>2. /\ a \in Seq(B) /\ Len(a) = Len(u) /\ \A n \in 1..Len(u) : a[n] = u[n].list
      /\ b \in Seq(B) /\ Len(b) = Len(v) /\ \A n \in 1..Len(v) : b[n] = v[n].list
      /\ d \in Seq(B) /\ Len(d) = Len(w) /\ \A n \in 1..Len(w) : d[n] = w[n].list
  BY <1>1, ListsFacts
<1>. HIDE DEF B, a, b, d
<1>3. /\ c \in Seq(B) /\ Len(c) = Len(a) + Len(b)
      /\ \A i \in 1..(Len(a) + Len(b)) : c[i] = IF i <= Len(a) THEN a[i] ELSE b[i - Len(a)]
  <2>1. a \in Seq(B) /\ b \in Seq(B)
    BY <1>2
  <2>. QED
    BY ONLY <2>1, ConcatProperties
<1>. HIDE DEF c
<1>4. PICK m \in Nat, n \in Nat : m = Len(u) /\ n = Len(v)
  BY <1>1
<1>5. ASSUME NEW i \in 1..(m + n) PROVE c[i] = d[i]
  <2>1. CASE i <= m
    <3>1. i \in 1..m
      BY <2>1
    <3>. QED
      BY <1>1, <1>2, <1>3, <1>4, <2>1, <3>1
  <2>2. CASE ~(i <= m)
    <3>1. i - m \in 1..n
      BY <2>2
    <3>2. c[i] = b[i - m] /\ w[i] = v[i - m] /\ d[i] = w[i].list
      BY <1>1, <1>2, <1>3, <1>4, <2>2
    <3>3. b[i - m] = v[i - m].list
      BY <1>2, <1>4, <3>1
    <3>. QED
      BY <3>2, <3>3
  <2>. QED
    BY <2>1, <2>2
<1>6. c = d
  <2>1. Len(c) = m + n /\ Len(d) = m + n
    BY <1>1, <1>2, <1>3, <1>4
  <2>. QED
    BY <1>2, <1>3, <1>5, <2>1, SeqEqual
<1>7. Joined(c) = Joined(a) \o Joined(b)
  <2>1. a \in Seq(Seq(AnyLaunch)) /\ b \in Seq(Seq(AnyLaunch))
    BY <1>2 DEF B
  <2>. QED
    BY <2>1, JoinedCat DEF c
<1>. QED
  BY <1>1, <1>6, <1>7 DEF Work, a, b, d, w

LEMMA WorkOne ==
  ASSUME NEW part \in Parts
  PROVE  <<part>> \in Seq(Parts) /\ Work(<<part>>) = part.list
<1>. DEFINE u == <<part>>
            s == part.list
<1>1. u \in Seq(Parts) /\ Len(u) = 1 /\ u[1] = part
  OBVIOUS
<1>2. s \in Seq(AnyLaunch)
  BY DEF Parts
<1>. DEFINE t == <<s>>
<1>3. t \in Seq(Seq(AnyLaunch)) /\ Len(t) = 1 /\ t[1] = s
  BY <1>2
<1>4. Joined(t) = s
  BY <1>2, JoinedOne
<1>. HIDE DEF u, t
<1>5. Lists(u) \in Seq(Seq(AnyLaunch)) /\ Len(Lists(u)) = 1 /\ \A n \in 1..1 : Lists(u)[n] = u[n].list
  BY <1>1, ListsFacts
<1>6. \A i \in 1..1 : Lists(u)[i] = t[i]
  <2>1. \A i \in 1..1 : i = 1
    OBVIOUS
  <2>. QED
    BY <1>1, <1>3, <1>5, <2>1
<1>7. Lists(u) = t
  <2>. DEFINE B == Seq(AnyLaunch)
              l == Lists(u)
  <2>1. l \in Seq(B) /\ t \in Seq(B) /\ Len(l) = Len(t) /\ \A i \in 1..Len(l) : l[i] = t[i]
    BY <1>3, <1>5, <1>6
  <2>. HIDE DEF B, l
  <2>2. l = t
    BY <2>1, SeqEqual
  <2>. QED
    BY <2>2 DEF l
<1>. QED
  BY <1>1, <1>4, <1>7 DEF Work, u

LEMMA ThereIn ==
  ASSUME NEW list \in Seq(AnyLaunch)
  PROVE  There(list) \in Parts /\ There(list).list = list
BY DEF There, Parts

\* dispatch hands over the list, in one go or not.
LEMMA Dispatched ==
  ASSUME NEW list \in Seq(AnyLaunch), NEW sync \in BOOLEAN
  PROVE  Dispatch(list, sync) \in Seq(Parts) /\ Work(Dispatch(list, sync)) = list
<1>1. CASE ~sync
  <2>1. Dispatch(list, sync) = <<There(list)>>
    BY <1>1 DEF Dispatch
  <2>. QED
    BY <2>1, ThereIn, WorkOne
<1>2. CASE sync
  <2>. DEFINE n == Len(list)
              e(i) == There(<<list[i]>>)
              u == Dispatch(list, sync)
              ss == [i \in 1..n |-> <<list[i]>>]
  <2>1. u = [i \in 1..n |-> e(i)]
    BY <1>2 DEF Dispatch
  <2>2. n \in Nat /\ \A i \in 1..n : list[i] \in AnyLaunch
    BY LenProperties, ElementOfSeq
  <2>3. \A i \in 1..n : <<list[i]>> \in Seq(AnyLaunch)
    BY <2>2
  <2>4. \A i \in 1..n : e(i) \in Parts /\ e(i).list = <<list[i]>>
    BY <2>3, ThereIn
  <2>. HIDE DEF e, u
  <2>5. u \in Seq(Parts) /\ Len(u) = n /\ \A i \in 1..n : u[i] = e(i)
    <3>. HIDE DEF n
    <3>. QED
      BY <2>1, <2>2, <2>4
  <2>6. Lists(u) = ss
    <3>1. [i \in 1..Len(u) |-> u[i].list] = [i \in 1..n |-> <<list[i]>>]
      BY <2>4, <2>5
    <3>. QED
      BY <3>1 DEF Lists
  <2>7. Joined(ss) = list
    BY JoinedSingles
  <2>. QED
    BY <2>5, <2>6, <2>7 DEF Work, u
<1>. QED
  BY <1>1, <1>2

-----------------------------------------------------------------------------
\* A list with no copies in it.
Sober(s) ==
  \A i \in 1..Len(s) : s[i].label \notin {"roll", "restore"} /\ \A b \in s[i].outs : b[1] # "saved"

LEMMA QuantsCat ==
  ASSUME NEW S, NEW s \in Seq(S), NEW t \in Seq(S), Quants(s), Quants(t)
  PROVE  Quants(s \o t)
<1>. DEFINE r == s \o t
<1>1. /\ Len(s) \in Nat
      /\ \A i \in 1..Len(s) : i \in 1..Len(r) /\ r[i] = s[i]
      /\ \A i \in 1..Len(t) : Len(s) + i \in 1..Len(r) /\ r[Len(s) + i] = t[i]
      /\ \A k \in 1..Len(r) : k \in 1..Len(s) \/ \E i \in 1..Len(t) : k = Len(s) + i
  BY ONLY s \in Seq(S), t \in Seq(S), CatFacts
<1>. HIDE DEF r
<1>. SUFFICES ASSUME NEW k \in 1..Len(r), r[k].ins \cap Quantised # {}
              PROVE  \E q : QuantBefore(r, q, k, r[k].x)
  BY DEF Quants, r
<1>. PICK m \in Nat : m = Len(s)
  BY <1>1
<1>2. CASE k \in 1..m
  <2>1. k \in 1..Len(s) /\ r[k] = s[k]
    BY <1>1, <1>2
  <2>2. PICK q : QuantBefore(s, q, k, s[k].x)
    BY <2>1 DEF Quants
  <2>3. q \in 1..k - 1 /\ \A j \in q..k - 1 : j \in 1..m
    BY <1>2, <2>2 DEF QuantBefore
  <2>4. \A j \in q..k - 1 : r[j] = s[j]
    BY <1>1, <2>3
  <2>5. q \in q..k - 1 /\ \A j \in q + 1..k - 1 : j \in q..k - 1
    BY <2>3
  <2>6. QuantBefore(r, q, k, r[k].x)
    BY <2>1, <2>2, <2>4, <2>5 DEF QuantBefore
  <2>. QED
    BY <2>6
<1>3. CASE k \notin 1..m
  <2>1. PICK i \in 1..Len(t) : k = m + i
    BY <1>1, <1>3
  <2>2. r[k] = t[i]
    BY <1>1, <2>1
  <2>3. PICK q : QuantBefore(t, q, i, t[i].x)
    BY <2>2 DEF Quants
  <2>4. q \in 1..i - 1 /\ t[q].ins = t[i].x /\ t[q].outs = Quantised
        /\ (\A j \in q..i - 1 : t[j].outs \cap t[i].x = {})
        /\ (\A j \in q + 1..i - 1 : t[j].outs \cap Quantised = {})
    BY <2>3 DEF QuantBefore
  <2>5. PICK p \in Nat : p = m + q /\ p \in 1..k - 1
    <3>1. q \in 1..i - 1 /\ i \in Nat /\ m \in Nat /\ k = m + i
      BY <2>1, <2>4
    <3>2. i \in 1..i
      BY <2>1
    <3>3. m + q \in Nat /\ m + q \in 1..k - 1
      BY ONLY <3>1, <3>2, Earlier
    <3>. QED
      BY <3>3
  <2>6. ASSUME NEW j \in p..k - 1
        PROVE  \E o \in q..i - 1 : r[j] = t[o] /\ (j \in p + 1..k - 1 => o \in q + 1..i - 1)
    <3>1. PICK o \in q..i - 1 : j = m + o
      <4>1. j - m \in q..i - 1 /\ j = m + (j - m)
        BY <2>1, <2>4, <2>5
      <4>. QED
        BY <4>1
    <3>2. o \in 1..Len(t)
      BY <2>4
    <3>3. r[m + o] = t[o]
      BY <1>1, <3>2
    <3>4. j \in p + 1..k - 1 => o \in q + 1..i - 1
      BY <2>4, <2>5, <3>1
    <3>. QED
      BY <3>1, <3>3, <3>4
  <2>7. r[p] = t[q]
    <3>1. q \in 1..Len(t)
      BY <2>4
    <3>. QED
      BY <1>1, <2>5, <3>1
  <2>8. \A j \in p + 1..k - 1 : j \in p..k - 1
    BY <2>5
  <2>9. (\A j \in p..k - 1 : r[j].outs \cap t[i].x = {}) /\ (\A j \in p + 1..k - 1 : r[j].outs \cap Quantised = {})
    BY <2>4, <2>6, <2>8
  <2>10. QuantBefore(r, p, k, t[i].x)
    BY <2>4, <2>5, <2>7, <2>9 DEF QuantBefore
  <2>. QED
    BY <2>2, <2>10
<1>. QED
  BY <1>2, <1>3

\* Where the launches of two lists are when one is behind the other.
Behind(s, t, r) ==
  /\ \A i \in 1..Len(s) : i \in 1..Len(r) /\ r[i] = s[i]
  /\ \A j \in 1..Len(t) : Len(s) + j \in 1..Len(r) /\ r[Len(s) + j] = t[j]
  /\ \A i \in 1..Len(r) : i \in 1..Len(s) \/ \E j \in 1..Len(t) : i = Len(s) + j

LEMMA CatBehind ==
  ASSUME NEW S, NEW s \in Seq(S), NEW t \in Seq(S)
  PROVE  Behind(s, t, s \o t)
<1>. DEFINE r == s \o t
<1>1. /\ \A i \in 1..Len(s) : i \in 1..Len(r) /\ r[i] = s[i]
      /\ \A i \in 1..Len(t) : Len(s) + i \in 1..Len(r) /\ r[Len(s) + i] = t[i]
      /\ \A k \in 1..Len(r) : k \in 1..Len(s) \/ \E i \in 1..Len(t) : k = Len(s) + i
  BY ONLY s \in Seq(S), t \in Seq(S), CatFacts
<1>. HIDE DEF r
<1>2. Behind(s, t, r)
  BY <1>1 DEF Behind
<1>. QED
  BY <1>2 DEF r

LEMMA BehindValues ==
  ASSUME NEW s, NEW t, NEW r, Behind(s, t, r)
  PROVE  \A i \in 1..Len(r) : (\E j \in 1..Len(s) : r[i] = s[j]) \/ (\E j \in 1..Len(t) : r[i] = t[j])
BY DEF Behind


\* What the host touches, and a list that moves what a plan moves.
Hosts(A) == A \in SUBSET Bufs /\ \A b \in A : b[1] \in {"acts", "bacts", "mtp_in", "mtp_in_b"}

Comes(w, plan) ==
  /\ \A i \in 1..Len(w) : (\A b \in w[i].outs : b[1] \notin {"layer", "rows"}) \/ \E m \in 1..Len(plan) : w[i].outs = plan[m].outs
  /\ \A m \in 1..Len(plan) : \E i \in 1..Len(w) : w[i].outs = plan[m].outs

Still(s) == \A i \in 1..Len(s) : \A b \in s[i].outs : b[1] \notin {"layer", "rows"}

Moving(w, plan, A) ==
  w \in Seq(AnyLaunch) /\ Feeds(w, A) /\ Quants(w) /\ Sober(w) /\ Comes(w, plan)

LEMMA HostKernel ==
  ASSUME NEW A, NEW B, Hosts(A), Hosts(B)
  PROVE  LET k == Kernel("host", A, B)
         IN /\ k \in AnyLaunch /\ k.label = "host" /\ k.ins = A /\ k.outs = B
            /\ \A b \in B : b[1] \notin {"layer", "rows", "saved"}
            /\ A \cap Quantised = {}
<1>1. "host" \in Labels
  BY DEF Labels
<1>2. /\ Kernel("host", A, B) \in AnyLaunch /\ Kernel("host", A, B).label = "host"
      /\ Kernel("host", A, B).ins = A /\ Kernel("host", A, B).outs = B
  BY <1>1 DEF Kernel, AnyLaunch, Hosts
<1>. QED
  BY <1>2, QuantisedFacts DEF Hosts

\* One launch, in front of a list or behind it, that moves nothing a plan moves.
LEMMA ComesCat ==
  ASSUME NEW S, NEW s \in Seq(S), NEW t \in Seq(S), NEW plan,
         (Comes(s, plan) /\ Still(t)) \/ (Still(s) /\ Comes(t, plan))
  PROVE  Comes(s \o t, plan)
<1>. DEFINE r == s \o t
<1>1. Behind(s, t, r)
  BY CatBehind
<1>. HIDE DEF r
<1>1a. \A i \in 1..Len(r) : (\E j \in 1..Len(s) : r[i] = s[j]) \/ (\E j \in 1..Len(t) : r[i] = t[j])
  BY ONLY <1>1, BehindValues
<1>2. ASSUME NEW i \in 1..Len(r)
      PROVE  (\A b \in r[i].outs : b[1] \notin {"layer", "rows"}) \/ \E m \in 1..Len(plan) : r[i].outs = plan[m].outs
  <2>1. (\E j \in 1..Len(s) : r[i] = s[j]) \/ (\E j \in 1..Len(t) : r[i] = t[j])
    BY <1>1a
  <2>. QED
    BY <2>1 DEF Comes, Still
<1>3. (\A j \in 1..Len(s) : \E i \in 1..Len(r) : r[i] = s[j]) /\ (\A j \in 1..Len(t) : \E i \in 1..Len(r) : r[i] = t[j])
  BY <1>1 DEF Behind
<1>4. ASSUME NEW m \in 1..Len(plan) PROVE \E i \in 1..Len(r) : r[i].outs = plan[m].outs
  <2>1. CASE Comes(s, plan)
    <3>1. PICK j \in 1..Len(s) : s[j].outs = plan[m].outs
      BY <2>1 DEF Comes
    <3>. QED
      BY <1>3, <3>1
  <2>2. CASE Comes(t, plan)
    <3>1. PICK j \in 1..Len(t) : t[j].outs = plan[m].outs
      BY <2>2 DEF Comes
    <3>. QED
      BY <1>3, <3>1
  <2>. QED
    BY <2>1, <2>2
<1>. QED
  BY <1>2, <1>4 DEF Comes, r

LEMMA SoberCat ==
  ASSUME NEW S, NEW s \in Seq(S), NEW t \in Seq(S), Sober(s), Sober(t)
  PROVE  Sober(s \o t)
<1>. DEFINE r == s \o t
<1>1. Behind(s, t, r)
  BY CatBehind
<1>. HIDE DEF r
<1>2. ASSUME NEW i \in 1..Len(r)
      PROVE  r[i].label \notin {"roll", "restore"} /\ \A b \in r[i].outs : b[1] # "saved"
  BY <1>1, BehindValues DEF Sober
<1>. QED
  BY <1>2 DEF Sober, r

LEMMA OneLaunch ==
  ASSUME NEW k \in AnyLaunch, NEW A, \A b \in k.ins : Scratch(b) => b \in A, k.ins \cap Quantised = {},
         k.label = "host", \A b \in k.outs : b[1] \notin {"layer", "rows", "saved"}
  PROVE  /\ <<k>> \in Seq(AnyLaunch) /\ Feeds(<<k>>, A) /\ Quants(<<k>>) /\ Outs(<<k>>) = k.outs /\ Sober(<<k>>)
         /\ Still(<<k>>)
<1>. DEFINE s == <<k>>
<1>1. s \in Seq(AnyLaunch) /\ Len(s) = 1 /\ s[1] = k
  OBVIOUS
<1>. HIDE DEF s
<1>2. (\A i \in 1..Len(s) : i = 1 /\ s[i] = k) /\ 1 \in 1..Len(s)
  BY <1>1
<1>3. Feeds(s, A) /\ Quants(s)
  BY <1>2 DEF Feeds, Quants
<1>4. Outs(s) = k.outs
  BY <1>2 DEF Outs
<1>5. Sober(s)
  BY <1>2 DEF Sober
<1>6. Still(s)
  BY <1>2 DEF Still
<1>. QED
  BY <1>1, <1>3, <1>4, <1>5, <1>6 DEF s

\* What the host writes is there.
LEMMA HostBefore ==
  ASSUME NEW l, NEW plan, NEW A, Hosts(A), Moving(l, plan, A)
  PROVE  /\ Moving(<<Kernel("host", {}, A)>> \o l, plan, {})
         /\ A \cup Outs(l) \subseteq Outs(<<Kernel("host", {}, A)>> \o l)
<1>. DEFINE k == Kernel("host", {}, A)
            s == <<k>>
            m == s \o l
<1>1. /\ k \in AnyLaunch /\ k.label = "host" /\ k.ins = {} /\ k.outs = A
      /\ \A b \in k.outs : b[1] \notin {"layer", "rows", "saved"}
  <2>1. Hosts({})
    BY DEF Hosts
  <2>. QED
    BY <2>1, HostKernel
<1>. HIDE DEF k
<1>2. /\ s \in Seq(AnyLaunch) /\ Feeds(s, {}) /\ Quants(s) /\ Outs(s) = A /\ Sober(s)
      /\ Still(s)
  BY <1>1, OneLaunch
<1>. HIDE DEF s
<1>3. l \in Seq(AnyLaunch) /\ Feeds(l, A) /\ Quants(l) /\ Sober(l) /\ Comes(l, plan)
  BY DEF Moving
<1>4. m \in Seq(AnyLaunch)
  BY <1>2, <1>3, ConcatProperties
<1>5. Feeds(m, {})
  <2>1. {} \cup Outs(s) = A
    BY <1>2
  <2>. QED
    BY <1>2, <1>3, <2>1, FeedsCat
<1>6. Quants(m) /\ Sober(m) /\ Outs(m) = A \cup Outs(l)
  BY <1>2, <1>3, QuantsCat, SoberCat, OutsCat
<1>7. Comes(m, plan)
  BY <1>2, <1>3, ComesCat
<1>. QED
  BY <1>4, <1>5, <1>6, <1>7 DEF Moving, s, k

\* What the host reads has been written.
LEMMA HostAfter ==
  ASSUME NEW m, NEW plan, NEW R, Hosts(R), Moving(m, plan, {}), R \subseteq Outs(m)
  PROVE  Moving(m \o <<Kernel("host", R, {})>>, plan, {})
<1>. DEFINE k == Kernel("host", R, {})
            t == <<k>>
            w == m \o t
<1>1. /\ k \in AnyLaunch /\ k.label = "host" /\ k.ins = R /\ k.outs = {} /\ k.ins \cap Quantised = {}
      /\ \A b \in k.outs : b[1] \notin {"layer", "rows", "saved"}
  <2>1. Hosts({})
    BY DEF Hosts
  <2>. QED
    BY <2>1, HostKernel
<1>. HIDE DEF k
<1>2. /\ t \in Seq(AnyLaunch) /\ Feeds(t, R) /\ Quants(t) /\ Sober(t)
      /\ Still(t)
  BY <1>1, OneLaunch
<1>. HIDE DEF t
<1>3. m \in Seq(AnyLaunch) /\ Feeds(m, {}) /\ Quants(m) /\ Sober(m) /\ Comes(m, plan)
  BY DEF Moving
<1>4. w \in Seq(AnyLaunch)
  BY <1>2, <1>3, ConcatProperties
<1>5. Feeds(w, {})
  <2>1. Feeds(t, {} \cup Outs(m))
    BY <1>2, FeedsMore
  <2>. QED
    BY <1>2, <1>3, <2>1, FeedsCat
<1>6. Quants(w) /\ Sober(w)
  BY <1>2, <1>3, QuantsCat, SoberCat
<1>7. Comes(w, plan)
  BY <1>2, <1>3, ComesCat
<1>. QED
  BY <1>4, <1>5, <1>6, <1>7 DEF Moving, t, k

-----------------------------------------------------------------------------
\* A plan, with the int8 kernels or without.
LEMMA DoneMoves ==
  ASSUME NEW l, NEW plan \in Seq(PlainOnes), NEW A, Done(l, plan, Len(plan), A)
  PROVE  Moving(l, plan, A) /\ Outs(plan) \subseteq Outs(l)
<1>1. \A m \in 1..Len(plan) : plan[m] \in AnyLaunch /\ Plain(plan[m])
  BY PlainFacts
<1>2. l \in Seq(AnyLaunch) /\ Feeds(l, A) /\ Quants(l)
  BY DEF Done
<1>3. \A b \in Quantised : b[1] = "int8"
  BY QuantisedFacts
<1>4. ASSUME NEW i \in 1..Len(l)
      PROVE  /\ l[i].label \notin {"roll", "restore"} /\ \A b \in l[i].outs : b[1] # "saved"
             /\ (\A b \in l[i].outs : b[1] \notin {"layer", "rows"}) \/ \E m \in 1..Len(plan) : l[i].outs = plan[m].outs
  <2>1. CASE Quanting(l[i])
    BY <1>3, <2>1 DEF Quanting
  <2>2. CASE \E m \in 1..Len(plan) : Same(l[i], plan[m])
    BY <1>1, <2>2 DEF Same, Plain
  <2>. QED
    BY <2>1, <2>2 DEF Done
<1>5. \A m \in 1..Len(plan) : \E i \in 1..Len(l) : l[i].outs = plan[m].outs
  BY DEF Done, Same
<1>6. Sober(l) /\ Comes(l, plan)
  BY <1>4, <1>5 DEF Sober, Comes
<1>7. Outs(plan) \subseteq Outs(l)
  <2>. SUFFICES ASSUME NEW b \in Outs(plan) PROVE b \in Outs(l)
    OBVIOUS
  <2>1. PICK m \in 1..Len(plan) : b \in plan[m].outs
    BY DEF Outs
  <2>2. PICK i \in 1..Len(l) : l[i].outs = plan[m].outs
    BY <1>5
  <2>. QED
    BY <2>1, <2>2, OutsFacts
<1>. QED
  BY <1>2, <1>6, <1>7 DEF Moving

LEMMA PlanMoves ==
  ASSUME NEW plan, NEW A, NEW R, Sound(plan, A, R), NEW whose \in {"acts", "bacts"}, NEW int8 \in BOOLEAN,
         NEW l, l = IF int8 THEN Int8Plan(plan, whose) ELSE plan
  PROVE  Moving(l, plan, A) /\ R \subseteq A \cup Outs(l)
<1>1. plan \in Seq(PlainOnes) /\ Feeds(plan, A) /\ R \subseteq A \cup Outs(plan)
  BY DEF Sound
<1>2. Done(l, plan, Len(plan), A)
  <2>1. CASE int8
    BY <1>1, <2>1, Int8Done
  <2>2. CASE ~int8
    <3>1. \A i \in 1..Len(plan) : plan[i] \in AnyLaunch /\ plan[i].ins \cap Quantised = {}
      BY <1>1, PlainFacts DEF Plain
    <3>2. plan \in Seq(AnyLaunch)
      <4>1. PlainOnes \subseteq AnyLaunch
        BY DEF PlainOnes
      <4>. QED
        BY <1>1, <4>1
    <3>3. Quants(plan)
      BY <3>1 DEF Quants
    <3>4. l = plan
      BY <2>2
    <3>. QED
      BY <1>1, <3>2, <3>3, <3>4 DEF Done, Same
  <2>. QED
    BY <2>1, <2>2
<1>3. Moving(l, plan, A) /\ Outs(plan) \subseteq Outs(l)
  BY <1>1, <1>2, DoneMoves
<1>. QED
  BY <1>1, <1>3

-----------------------------------------------------------------------------
\* The passes.
LEMMA HereFacts ==
  ASSUME NEW A, NEW B, Hosts(A), Hosts(B)
  PROVE  /\ <<Here(A, B)>> \in Seq(Parts) /\ Work(<<Here(A, B)>>) = <<Kernel("host", A, B)>>
         /\ <<Kernel("host", A, B)>> \in Seq(AnyLaunch)
<1>. DEFINE k == Kernel("host", A, B)
            h == Here(A, B)
<1>1. k \in AnyLaunch
  BY HostKernel
<1>2. h = [by |-> "host", list |-> <<k>>]
  BY DEF Here
<1>. HIDE DEF k
<1>3. <<k>> \in Seq(AnyLaunch)
  BY <1>1
<1>4. h \in Parts /\ h.list = <<k>>
  BY <1>2, <1>3 DEF Parts
<1>. HIDE DEF h
<1>5. <<h>> \in Seq(Parts) /\ Work(<<h>>) = <<k>>
  BY <1>4, WorkOne
<1>. QED
  BY <1>3, <1>5 DEF h, k

Wrapped(A, R, l, sync) == (<<Here({}, A)>> \o Dispatch(l, sync)) \o <<Here(R, {})>>

LEMMA HostsNothing == Hosts({})
BY DEF Hosts

LEMMA PassMoves ==
  ASSUME NEW plan, NEW A, NEW B, NEW R, NEW whose \in {"acts", "bacts"}, NEW int8 \in BOOLEAN, NEW sync \in BOOLEAN,
         NEW l, l = IF int8 THEN Int8Plan(plan, whose) ELSE plan,
         Sound(plan, A, R), Hosts(B), A \subseteq B, Hosts(R)
  PROVE  /\ Wrapped(B, R, l, sync) \in Seq(Parts)
         /\ Moving(Work(Wrapped(B, R, l, sync)), plan, {})
<1>. DEFINE h == <<Here({}, B)>>
            d == Dispatch(l, sync)
            z == <<Here(R, {})>>
            u == h \o d
            w == u \o z
            a == <<Kernel("host", {}, B)>>
            e == <<Kernel("host", R, {})>>
<1>1. Sound(plan, B, R)
  BY SoundMore
<1>2. Moving(l, plan, B) /\ R \subseteq B \cup Outs(l)
  BY <1>1, PlanMoves
<1>3. l \in Seq(AnyLaunch)
  BY <1>2 DEF Moving
<1>4. h \in Seq(Parts) /\ Work(h) = a /\ a \in Seq(AnyLaunch) /\ z \in Seq(Parts) /\ Work(z) = e /\ e \in Seq(AnyLaunch)
  BY HereFacts, HostsNothing
<1>5. d \in Seq(Parts) /\ Work(d) = l
  BY <1>3, Dispatched
<1>6. Moving(a \o l, plan, {}) /\ B \cup Outs(l) \subseteq Outs(a \o l)
  BY <1>2, HostBefore
<1>7. Moving((a \o l) \o e, plan, {})
  <2>. DEFINE m == a \o l
  <2>1. Moving(m, plan, {}) /\ R \subseteq Outs(m)
    BY <1>2, <1>6
  <2>. HIDE DEF m, a
  <2>2. Moving(m \o e, plan, {})
    BY <2>1, HostAfter
  <2>. QED
    BY <2>2 DEF m
<1>8. Wrapped(B, R, l, sync) = w
  BY DEF Wrapped
<1>. HIDE DEF h, d, z, a, e
<1>9. u \in Seq(Parts) /\ Work(u) = a \o l
  BY <1>4, <1>5, WorkCat
<1>. HIDE DEF u
<1>10. w \in Seq(Parts) /\ Work(w) = (a \o l) \o e
  BY <1>4, <1>9, WorkCat
<1>. QED
  BY <1>7, <1>8, <1>10

LEMMA OfHosts ==
  ASSUME NEW a \in {"acts", "bacts", "mtp_in", "mtp_in_b"}, NEW names \in SUBSET Names
  PROVE  Hosts(Of(a, names))
<1>1. a \in Groups
  BY DEF Groups
<1>. QED
  BY <1>1, OfFacts DEF Hosts

LEMMA HostsCup ==
  ASSUME NEW A, NEW B, Hosts(A), Hosts(B)
  PROVE  Hosts(A \cup B)
BY DEF Hosts

LEMMA ScalarsFacts ==
  ASSUME NEW a \in {"acts", "bacts"}
  PROVE  /\ Hosts(Scalars(a))
         /\ Of(a, Given(a, FALSE)) \subseteq Scalars(a)
         /\ \A split \in BOOLEAN :
              Embedded(a, split) \subseteq
                Scalars(a) \cup Of(a, {"x", "scalars_nsplit"} \cup (IF a = "acts" THEN {"scalars_len"} ELSE {}))
<1>1. {"cos", "sin", "scalars_pos", "scalars_attn"} \in SUBSET Names
  BY DEF Names, Acts
<1>2. Hosts(Scalars(a))
  BY <1>1, OfHosts DEF Scalars
<1>3. Of(a, Given(a, FALSE)) \subseteq Scalars(a)
  BY OfMonotone DEF Scalars, Given
<1>4. ASSUME NEW split \in BOOLEAN
      PROVE  Embedded(a, split) \subseteq
               Scalars(a) \cup Of(a, {"x", "scalars_nsplit"} \cup (IF a = "acts" THEN {"scalars_len"} ELSE {}))
  <2>. DEFINE c == {"cos", "sin", "scalars_pos", "scalars_attn"}
              d == {"x", "scalars_nsplit"} \cup (IF a = "acts" THEN {"scalars_len"} ELSE {})
              e == {"x"} \cup Given(a, split)
  <2>1. e \subseteq c \cup d
    BY DEF Given
  <2>. HIDE DEF c, d, e
  <2>2. Of(a, e) \subseteq Of(a, c) \cup Of(a, d)
    BY <2>1, OfMonotone, OfCup
  <2>. QED
    BY <2>2 DEF Embedded, Scalars, c, d, e
<1>. QED
  BY <1>2, <1>3, <1>4

LEMMA StepPassMoves ==
  ASSUME NEW split \in BOOLEAN, NEW int8 \in BOOLEAN, NEW sync \in BOOLEAN
  PROVE  /\ StepPass(Layers, split, int8, sync) \in Seq(Parts)
         /\ Moving(Work(StepPass(Layers, split, int8, sync)), Plan(Layers, split), {})
<1>. DEFINE plan == Plan(Layers, split)
            A == Embedded("acts", split)
            B == Scalars("acts") \cup Of("acts", {"x", "scalars_len", "scalars_nsplit"})
            R == Of("acts", {"logits"})
            l == IF int8 THEN Int8Plan(plan, "acts") ELSE plan
<1>1. Sound(plan, A, R)
  BY PlanSound
<1>2. {"x", "scalars_len", "scalars_nsplit"} \in SUBSET Names /\ {"logits"} \in SUBSET Names
  BY DEF Names, Acts
<1>3. Hosts(B) /\ Hosts(R)
  BY <1>2, OfHosts, HostsCup, ScalarsFacts
<1>4. A \subseteq B
  <2>1. {"x", "scalars_len", "scalars_nsplit"} =
          {"x", "scalars_nsplit"} \cup (IF "acts" = "acts" THEN {"scalars_len"} ELSE {})
    OBVIOUS
  <2>2. "acts" \in {"acts", "bacts"}
    OBVIOUS
  <2>. QED
    BY <2>1, <2>2, ScalarsFacts
<1>5. StepPass(Layers, split, int8, sync) = Wrapped(B, R, l, sync)
  BY DEF StepPass, Wrapped
<1>6. PICK k : k = l
  OBVIOUS
<1>. HIDE DEF plan, A, B, R
<1>7. Wrapped(B, R, k, sync) \in Seq(Parts) /\ Moving(Work(Wrapped(B, R, k, sync)), plan, {})
  BY <1>1, <1>3, <1>4, <1>6, PassMoves
<1>. QED
  BY <1>5, <1>6, <1>7 DEF plan

LEMMA AskedFacts ==
  ASSUME NEW head \in {"all", "last", "skip"}
  PROVE  Hosts(Asked(head))
<1>1. {"logits", "x"} \in SUBSET Names /\ {"logits"} \in SUBSET Names /\ {"x"} \in SUBSET Names
  BY DEF Names, Acts
<1>2. Hosts(Of("bacts", {"logits", "x"})) /\ Hosts(Of("acts", {"logits"})) /\ Hosts(Of("bacts", {"x"}))
  BY <1>1, OfHosts
<1>3. Hosts(Of("acts", {"logits"}) \cup Of("bacts", {"x"}))
  BY <1>2, HostsCup
<1>. QED
  BY <1>2, <1>3 DEF Asked

LEMMA ForwardPassMoves ==
  ASSUME NEW snap \in BOOLEAN, NEW split \in BOOLEAN, NEW head \in {"all", "last", "skip"},
         NEW int8 \in BOOLEAN, NEW sync \in BOOLEAN
  PROVE  /\ ForwardPass(Layers, snap, split, head, int8, sync) \in Seq(Parts)
         /\ Moving(Work(ForwardPass(Layers, snap, split, head, int8, sync)), BatchPlan(Layers, snap, split, head), {})
<1>. DEFINE plan == BatchPlan(Layers, snap, split, head)
            A == Embedded("bacts", split)
            B == Scalars("bacts") \cup Of("bacts", {"x", "scalars_nsplit"})
            R == Asked(head)
            l == IF int8 THEN Int8Plan(plan, "bacts") ELSE plan
<1>1. Sound(plan, A, R)
  BY BatchPlanSound
<1>2. {"x", "scalars_nsplit"} \in SUBSET Names
  BY DEF Names, Acts
<1>3. Hosts(B) /\ Hosts(R)
  BY <1>2, OfHosts, HostsCup, ScalarsFacts, AskedFacts
<1>4. A \subseteq B
  <2>1. {"x", "scalars_nsplit"} =
          {"x", "scalars_nsplit"} \cup (IF "bacts" = "acts" THEN {"scalars_len"} ELSE {})
    OBVIOUS
  <2>2. "bacts" \in {"acts", "bacts"}
    OBVIOUS
  <2>. QED
    BY <2>1, <2>2, ScalarsFacts
<1>5. ForwardPass(Layers, snap, split, head, int8, sync) = Wrapped(B, R, l, sync)
  BY DEF ForwardPass, Wrapped, Asked
<1>6. PICK k : k = l
  OBVIOUS
<1>. HIDE DEF plan, A, B, R
<1>7. Wrapped(B, R, k, sync) \in Seq(Parts) /\ Moving(Work(Wrapped(B, R, k, sync)), plan, {})
  BY <1>1, <1>3, <1>4, <1>6, PassMoves
<1>. QED
  BY <1>5, <1>6, <1>7 DEF plan

LEMMA ThreeCat ==
  ASSUME NEW S, NEW a \in S, NEW b \in S, NEW c \in S
  PROVE  (<<a>> \o <<b>>) \o <<c>> = <<a, b, c>>
<1>. DEFINE s == <<a, b>>
            t == <<c>>
            r == <<a, b, c>>
            d == s \o t
<1>1. /\ s \in Seq(S) /\ t \in Seq(S) /\ r \in Seq(S) /\ Len(s) = 2 /\ Len(t) = 1 /\ Len(r) = 3
      /\ s[1] = a /\ s[2] = b /\ t[1] = c /\ r[1] = a /\ r[2] = b /\ r[3] = c
  OBVIOUS
<1>2. <<a>> \o <<b>> = s
  BY PairCat
<1>. HIDE DEF s, t, r
<1>3. /\ d \in Seq(S) /\ Len(d) = Len(s) + Len(t)
      /\ \A i \in 1..(Len(s) + Len(t)) : d[i] = IF i <= Len(s) THEN s[i] ELSE t[i - Len(s)]
  <2>1. s \in Seq(S) /\ t \in Seq(S)
    BY <1>1
  <2>. QED
    BY ONLY <2>1, ConcatProperties
<1>. HIDE DEF d
<1>4. Len(d) = 3 /\ \A i \in 1..3 : d[i] = IF i <= 2 THEN s[i] ELSE t[i - 2]
  BY <1>1, <1>3
<1>5. \A i \in 1..Len(d) : d[i] = r[i]
  <2>1. \A i \in 1..3 : i = 1 \/ i = 2 \/ i = 3
    OBVIOUS
  <2>2. d[1] = s[1] /\ d[2] = s[2] /\ d[3] = t[1]
    BY <1>4
  <2>. QED
    BY <1>1, <1>4, <2>1, <2>2
<1>6. d = r
  BY <1>1, <1>3, <1>4, <1>5, SeqEqual
<1>. QED
  BY <1>2, <1>6 DEF d, t, r

LEMMA HereIn ==
  ASSUME NEW A, NEW B, Hosts(A), Hosts(B)
  PROVE  Here(A, B) \in Parts
<1>1. <<Kernel("host", A, B)>> \in Seq(AnyLaunch)
  BY HereFacts
<1>. QED
  BY <1>1 DEF Here, Parts

LEMMA DraftPassMoves ==
  ASSUME NEW int8 \in BOOLEAN
  PROVE  DraftPass(int8) \in Seq(Parts) /\ Moving(Work(DraftPass(int8)), MtpPlan, {})
<1>. DEFINE A == Of("mtp_in", {"fused"}) \cup Of("acts", Given("acts", FALSE))
            B == Of("mtp_in", {"fused"}) \cup Scalars("acts")
            R == Of("acts", {"logits", "x"})
            l == IF int8 THEN Int8Plan(MtpPlan, "acts") ELSE MtpPlan
            h == Here({}, B)
            d == There(l)
            z == Here(R, {})
<1>1. Sound(MtpPlan, A, R)
  <2>1. {"x", "logits"} = {"logits", "x"}
    OBVIOUS
  <2>. QED
    BY <2>1, MtpPlanSound
<1>2. {"fused"} \in SUBSET Names /\ {"logits", "x"} \in SUBSET Names
  BY DEF Names, Acts
<1>3. Hosts(B) /\ Hosts(R)
  BY <1>2, OfHosts, HostsCup, ScalarsFacts
<1>4. A \subseteq B
  BY ScalarsFacts
<1>5. l \in Seq(AnyLaunch)
  <2>. HIDE DEF A, R
  <2>1. Moving(l, MtpPlan, A)
    BY <1>1, PlanMoves
  <2>. QED
    BY <2>1 DEF Moving
<1>6. DraftPass(int8) = <<h, d, z>>
  BY DEF DraftPass
<1>7. Dispatch(l, FALSE) = <<d>>
  BY DEF Dispatch
<1>8. h \in Parts /\ d \in Parts /\ z \in Parts
  BY <1>3, <1>5, HereIn, HostsNothing, ThereIn
<1>9. (<<h>> \o <<d>>) \o <<z>> = <<h, d, z>>
  <2>. HIDE DEF h, d, z
  <2>. QED
    BY <1>8, ThreeCat
<1>10. DraftPass(int8) = Wrapped(B, R, l, FALSE)
  BY <1>6, <1>7, <1>9 DEF Wrapped
<1>11. PICK k : k = l
  OBVIOUS
<1>. HIDE DEF A, B, R
<1>12. Wrapped(B, R, k, FALSE) \in Seq(Parts) /\ Moving(Work(Wrapped(B, R, k, FALSE)), MtpPlan, {})
  BY <1>1, <1>3, <1>4, <1>11, PassMoves
<1>. QED
  BY <1>10, <1>11, <1>12

LEMMA WarmPassMoves ==
  ASSUME NEW split \in BOOLEAN, NEW int8 \in BOOLEAN
  PROVE  WarmPass(split, int8) \in Seq(Parts) /\ Moving(Work(WarmPass(split, int8)), MtpBatchPlan(split), {})
<1>. DEFINE plan == MtpBatchPlan(split)
            A == Of("mtp_in_b", {"fused"}) \cup Of("bacts", Given("bacts", split))
            B == Of("mtp_in_b", {"fused"}) \cup Scalars("bacts") \cup Of("bacts", {"scalars_nsplit"})
            l == IF int8 THEN Int8Plan(plan, "bacts") ELSE plan
            h == Here({}, B)
            d == There(l)
            a == <<Kernel("host", {}, B)>>
<1>1. Sound(plan, A, {})
  BY MtpBatchPlanSound
<1>2. {"fused"} \in SUBSET Names /\ {"scalars_nsplit"} \in SUBSET Names
  BY DEF Names, Acts
<1>3. Hosts(B)
  BY <1>2, OfHosts, HostsCup, ScalarsFacts
<1>4. A \subseteq B
  <2>1. Of("bacts", Given("bacts", split)) \subseteq Scalars("bacts") \cup Of("bacts", {"scalars_nsplit"})
    BY DEF Scalars, Of, Given
  <2>. QED
    BY <2>1
<1>5. WarmPass(split, int8) = <<h, d>>
  BY DEF WarmPass
<1>. HIDE DEF plan, A, B
<1>6. Sound(plan, B, {})
  BY <1>1, <1>4, SoundMore
<1>7. Moving(l, plan, B)
  BY <1>6, PlanMoves
<1>8. l \in Seq(AnyLaunch)
  BY <1>7 DEF Moving
<1>9. <<h>> \in Seq(Parts) /\ Work(<<h>>) = a /\ a \in Seq(AnyLaunch)
  BY <1>3, HereFacts, HostsNothing
<1>10. d \in Parts /\ d.list = l
  BY <1>8, ThereIn
<1>11. h \in Parts
  BY <1>3, HereIn, HostsNothing
<1>12. <<h>> \o <<d>> = <<h, d>>
  <2>. HIDE DEF h, d
  <2>. QED
    BY <1>10, <1>11, PairCat
<1>13. Moving(a \o l, plan, {})
  <2>. HIDE DEF l
  <2>. QED
    BY <1>3, <1>7, HostBefore
<1>. HIDE DEF h, d, a, l
<1>14. <<d>> \in Seq(Parts) /\ Work(<<d>>) = l
  BY <1>10, WorkOne
<1>15. <<h>> \o <<d>> \in Seq(Parts) /\ Work(<<h>> \o <<d>>) = a \o l
  BY <1>9, <1>14, WorkCat
<1>. QED
  BY <1>5, <1>12, <1>13, <1>15 DEF plan

-----------------------------------------------------------------------------
\* The copies: of each linear layer its state and its convolution, each the one and the other way.
Memories == <<"state", "conv">>

Copy(label, known, from, to, l, n) ==
  [Kernel(label, {Kept(from, Layers, l, n)}, {Kept(to, Layers, l, n)}) EXCEPT !.known = known]

CopyOf(label, known, from, to, l) ==
  IF Layers[l] = "linear" THEN [k \in 1..2 |-> Copy(label, known, from, to, l, Memories[k])] ELSE <<>>

LEMMA KeptFacts ==
  ASSUME NEW place \in {"layer", "saved", "rows"}, NEW l \in 1..Len(Layers), NEW n \in {"state", "conv"}
  PROVE  Kept(place, Layers, l, n) \in Bufs /\ Kept(place, Layers, l, n)[1] = place
<1>1. l \in Nat /\ Nth(Layers, l) \in Nat
  BY LayersFacts, NthFacts
<1>2. place \in Groups /\ n \in Names
  BY DEF Groups, Names, Acts
<1>. QED
  BY <1>1, <1>2 DEF Kept, Bufs

LEMMA CopyFacts ==
  ASSUME NEW label \in {"save", "restore", "roll"}, NEW known \in BOOLEAN,
         NEW from \in {"layer", "saved", "rows"}, NEW to \in {"layer", "saved", "rows"},
         NEW l \in 1..Len(Layers), NEW n \in {"state", "conv"},
         NEW k, k = Copy(label, known, from, to, l, n)
  PROVE  /\ k \in AnyLaunch /\ k.label = label
         /\ k.ins = {Kept(from, Layers, l, n)} /\ k.outs = {Kept(to, Layers, l, n)}
<1>1. Kept(from, Layers, l, n) \in Bufs /\ Kept(to, Layers, l, n) \in Bufs
  BY KeptFacts
<1>2. label \in Labels
  BY DEF Labels
<1>. QED
  BY <1>1, <1>2 DEF Copy, Kernel, AnyLaunch

CopiesOf(s, label, known, from, to) ==
  /\ label \in {"save", "restore", "roll"} /\ known \in BOOLEAN
  /\ from \in {"layer", "saved", "rows"} /\ to \in {"layer", "saved", "rows"}
  /\ s = Copies(label, Layers, known, from, to)

\* The list of copies: each is of a layer, and of each layer there is each.
LEMMA CopiesFacts ==
  ASSUME NEW label, NEW known, NEW from, NEW to, NEW s, CopiesOf(s, label, known, from, to)
  PROVE  /\ s \in Seq(AnyLaunch)
         /\ \A i \in 1..Len(s) : \E l \in 1..Len(Layers), n \in {"state", "conv"} :
              Layers[l] = "linear" /\ s[i] = Copy(label, known, from, to, l, n)
         /\ \A l \in 1..Len(Layers), n \in {"state", "conv"} : Layers[l] = "linear" =>
              \E i \in 1..Len(s) : s[i] = Copy(label, known, from, to, l, n)
         /\ \A i, j \in 1..Len(s), l \in 1..Len(Layers), n \in {"state", "conv"} :
              Layers[l] = "linear" /\ Kept(to, Layers, l, n) \in s[i].outs /\ Kept(to, Layers, l, n) \in s[j].outs => i = j
<1>. DEFINE L == Len(Layers)
            c(l) == CopyOf(label, known, from, to, l)
            ss == [l \in 1..L |-> c(l)]
<1>0. /\ label \in {"save", "restore", "roll"} /\ known \in BOOLEAN
      /\ from \in {"layer", "saved", "rows"} /\ to \in {"layer", "saved", "rows"}
  BY DEF CopiesOf
<1>1. s = Joined(ss)
  BY DEF CopiesOf, Copies, FlattenSeq, Joined, CopyOf, Copy, Memories
<1>2. Memories[1] = "state" /\ Memories[2] = "conv"
  BY DEF Memories
<1>3. ASSUME NEW l \in 1..L
      PROVE  /\ c(l) \in Seq(AnyLaunch)
             /\ Layers[l] # "linear" => Len(c(l)) = 0
             /\ Layers[l] = "linear" => /\ Len(c(l)) = 2
                                        /\ \A k \in 1..2 : c(l)[k] = Copy(label, known, from, to, l, Memories[k])
  <2>1. CASE Layers[l] = "linear"
    <3>. DEFINE e(k) == Copy(label, known, from, to, l, Memories[k])
    <3>1. \A k \in 1..2 : Memories[k] \in {"state", "conv"}
      BY <1>2
    <3>2. \A k \in 1..2 : e(k) \in AnyLaunch
      BY <1>0, <3>1, CopyFacts
    <3>3. c(l) = [k \in 1..2 |-> e(k)]
      BY <2>1 DEF CopyOf
    <3>. HIDE DEF e
    <3>4. c(l) \in Seq(AnyLaunch) /\ Len(c(l)) = 2 /\ \A k \in 1..2 : c(l)[k] = e(k)
      BY <3>2, <3>3
    <3>. QED
      BY <2>1, <3>4 DEF e
  <2>2. CASE Layers[l] # "linear"
    <3>1. c(l) = <<>>
      BY <2>2 DEF CopyOf
    <3>. QED
      BY <2>2, <3>1
  <2>. QED
    BY <2>1, <2>2
<1>. HIDE DEF c
<1>4. L \in Nat
  BY LayersFacts
<1>5. ss \in Seq(Seq(AnyLaunch)) /\ Len(ss) = L /\ \A l \in 1..L : ss[l] = c(l)
  <2>. DEFINE B == Seq(AnyLaunch)
  <2>1. \A l \in 1..L : c(l) \in B
    BY <1>3
  <2>. HIDE DEF B, L
  <2>2. ss \in Seq(B) /\ Len(ss) = L /\ \A l \in 1..L : ss[l] = c(l)
    BY <1>4, <2>1
  <2>. QED
    BY <2>2 DEF B
<1>. HIDE DEF ss, L
<1>6. s \in Seq(AnyLaunch)
  BY <1>1, <1>5, JoinedPlaces
<1>7. PICK off : Offsets(ss, off) /\ Laid(ss, off, Len(ss), s)
  BY <1>1, <1>5, JoinedPlaces
<1>8. ASSUME NEW i \in 1..Len(s)
      PROVE  \E l \in 1..L, k \in 1..2 :
               Layers[l] = "linear" /\ i = off[l - 1] + k /\ s[i] = Copy(label, known, from, to, l, Memories[k])
  <2>1. PICK l \in 1..L : \E m \in 1..Len(ss[l]) : i = off[l - 1] + m
    BY <1>5, <1>7 DEF Laid
  <2>2. PICK m \in 1..Len(ss[l]) : i = off[l - 1] + m
    BY <2>1
  <2>3. s[i] = ss[l][m]
    BY <1>5, <1>7, <2>2 DEF Laid
  <2>4. Layers[l] = "linear" /\ m \in 1..2
    <3>1. Len(ss[l]) # 0
      BY <2>2
    <3>. QED
      BY <1>3, <1>5, <3>1
  <2>. QED
    BY <1>3, <1>5, <2>2, <2>3, <2>4
<1>9. \A k \in 1..2 : Memories[k] \in {"state", "conv"}
  BY <1>2
<1>10. ASSUME NEW i \in 1..Len(s)
       PROVE  \E l \in 1..L, n \in {"state", "conv"} : Layers[l] = "linear" /\ s[i] = Copy(label, known, from, to, l, n)
  BY <1>8, <1>9
<1>11. ASSUME NEW l \in 1..L, NEW n \in {"state", "conv"}, Layers[l] = "linear"
       PROVE  \E i \in 1..Len(s) : s[i] = Copy(label, known, from, to, l, n)
  <2>1. PICK k \in 1..2 : Memories[k] = n
    BY <1>2
  <2>2. k \in 1..Len(ss[l]) /\ ss[l][k] = Copy(label, known, from, to, l, n)
    BY <1>3, <1>5, <1>11, <2>1
  <2>3. off[l - 1] + k \in 1..Len(s) /\ s[off[l - 1] + k] = ss[l][k]
    BY <1>5, <1>7, <2>2 DEF Laid
  <2>. QED
    BY <2>2, <2>3
<1>12. ASSUME NEW i \in 1..Len(s), NEW j \in 1..Len(s), NEW l \in 1..L, NEW n \in {"state", "conv"}, Layers[l] = "linear",
              Kept(to, Layers, l, n) \in s[i].outs, Kept(to, Layers, l, n) \in s[j].outs
       PROVE  i = j
  <2>1. ASSUME NEW h \in 1..Len(s), Kept(to, Layers, l, n) \in s[h].outs
        PROVE  \E k \in 1..2 : Memories[k] = n /\ h = off[l - 1] + k
    <3>1. PICK m \in 1..L, k \in 1..2 :
            Layers[m] = "linear" /\ h = off[m - 1] + k /\ s[h] = Copy(label, known, from, to, m, Memories[k])
      BY <1>8
    <3>2. s[h].outs = {Kept(to, Layers, m, Memories[k])}
      BY <1>0, <1>9, <3>1, CopyFacts DEF L
    <3>3. Kept(to, Layers, l, n) = Kept(to, Layers, m, Memories[k])
      BY <2>1, <3>2
    <3>4. n = Memories[k] /\ (m = l \/ Nth(Layers, m) = Nth(Layers, l))
      BY <3>3 DEF Kept
    <3>5. m = l
      BY <1>12, <3>1, <3>4, NthFacts DEF L
    <3>. QED
      BY <3>1, <3>4, <3>5
  <2>2. PICK k \in 1..2 : Memories[k] = n /\ i = off[l - 1] + k
    BY <1>12, <2>1
  <2>3. PICK m \in 1..2 : Memories[m] = n /\ j = off[l - 1] + m
    BY <1>12, <2>1
  <2>4. k = m
    BY <1>2, <2>2, <2>3
  <2>. QED
    BY <2>2, <2>3, <2>4
<1>. QED
  BY <1>6, <1>10, <1>11, <1>12 DEF L

-----------------------------------------------------------------------------
\* With snapshots, a launch writes a layer's memory just when it writes its rows.
Twin(k) ==
  \A l \in 1..Len(Layers), n \in {"state", "conv"} :
    Layers[l] = "linear" => (Kept("layer", Layers, l, n) \in k.outs <=> Kept("rows", Layers, l, n) \in k.outs)

Twins(s) == \A i \in 1..Len(s) : Twin(s[i])

LEMMA CalmTwin ==
  ASSUME NEW k \in CalmOnes
  PROVE  Twin(k)
<1>1. Calm(k)
  BY DEF CalmOnes
<1>2. ASSUME NEW l \in 1..Len(Layers), NEW n \in {"state", "conv"}
      PROVE  Kept("layer", Layers, l, n) \notin k.outs /\ Kept("rows", Layers, l, n) \notin k.outs
  <2>1. /\ Kept("layer", Layers, l, n)[1] = "layer" /\ Kept("layer", Layers, l, n)[3] = n
        /\ Kept("rows", Layers, l, n)[1] = "rows"
    BY DEF Kept
  <2>. QED
    BY <1>1, <2>1 DEF Calm
<1>. QED
  BY <1>2 DEF Twin

LEMMA CalmTwins ==
  ASSUME NEW s, NEW a, NEW given, NEW live, Grows(s, CalmOnes, a, given, live)
  PROVE  Twins(s)
<1>1. s \in Seq(CalmOnes)
  BY DEF Grows
<1>2. \A i \in 1..Len(s) : s[i] \in CalmOnes
  BY <1>1, ElementOfSeq
<1>. QED
  BY <1>2, CalmTwin DEF Twins

LEMMA TwinsCat ==
  ASSUME NEW S, NEW s \in Seq(S), NEW t \in Seq(S), Twins(s), Twins(t)
  PROVE  Twins(s \o t)
<1>. DEFINE r == s \o t
<1>1. Behind(s, t, r)
  BY CatBehind
<1>. HIDE DEF r
<1>2. ASSUME NEW i \in 1..Len(r) PROVE Twin(r[i])
  <2>1. (\E j \in 1..Len(s) : r[i] = s[j]) \/ (\E j \in 1..Len(t) : r[i] = t[j])
    BY <1>1, BehindValues
  <2>. QED
    BY <2>1 DEF Twins
<1>. QED
  BY <1>2 DEF Twins, r

LEMMA MemoryTwin ==
  ASSUME NEW a \in {"acts", "bacts"}, NEW W \in SUBSET Names, NEW l \in 1..Len(Layers), Layers[l] = "linear",
         NEW n \in {"conv", "state"},
         NEW k, k.outs = Of(a, W) \cup Layer(l, {n}) \cup {r \in Rows(Layers, l) : r[3] = n}
  PROVE  Twin(k) /\ Kept("layer", Layers, l, n) \in k.outs
<1>1. a \in Groups /\ a # "layer" /\ a # "rows"
  BY DEF Groups
<1>2. \A b \in Of(a, W) : b[1] = a
  BY <1>1, OfFacts
<1>3. \A b : b \in Layer(l, {n}) <=> b = <<"layer", l, n>>
  BY DEF Layer
<1>4. \A b \in Layer(l, {n}) : b[1] = "layer"
  <2>1. <<"layer", l, n>>[1] = "layer"
    OBVIOUS
  <2>. QED
    BY <1>3, <2>1
<1>5. \A r : r \in Rows(Layers, l) <=> \E x \in {"conv", "state"} : r = <<"rows", Nth(Layers, l), x>>
  BY RowsFacts
<1>6. \A r \in Rows(Layers, l) : r[1] = "rows"
  BY RowsFacts
<1>7. \A b : b \in {r \in Rows(Layers, l) : r[3] = n} <=> b = <<"rows", Nth(Layers, l), n>>
  BY <1>5
<1>8. ASSUME NEW m \in 1..Len(Layers), NEW x \in {"state", "conv"}, Layers[m] = "linear"
      PROVE  Kept("layer", Layers, m, x) \in k.outs <=> Kept("rows", Layers, m, x) \in k.outs
  <2>1. Kept("layer", Layers, m, x) = <<"layer", m, x>> /\ Kept("rows", Layers, m, x) = <<"rows", Nth(Layers, m), x>>
    BY DEF Kept
  <2>2. <<"layer", m, x>>[1] = "layer" /\ <<"rows", Nth(Layers, m), x>>[1] = "rows"
    OBVIOUS
  <2>3. <<"layer", m, x>> \in k.outs <=> m = l /\ x = n
    <3>1. <<"layer", m, x>> \notin Of(a, W) /\ <<"layer", m, x>> \notin {r \in Rows(Layers, l) : r[3] = n}
      BY <1>1, <1>2, <1>6, <2>2
    <3>2. <<"layer", m, x>> = <<"layer", l, n>> <=> m = l /\ x = n
      OBVIOUS
    <3>3. <<"layer", m, x>> \in Layer(l, {n}) <=> <<"layer", m, x>> = <<"layer", l, n>>
      BY <1>3
    <3>. QED
      BY <3>1, <3>2, <3>3
  <2>4. <<"rows", Nth(Layers, m), x>> \in k.outs <=> m = l /\ x = n
    <3>1. <<"rows", Nth(Layers, m), x>> \notin Of(a, W) /\ <<"rows", Nth(Layers, m), x>> \notin Layer(l, {n})
      BY <1>1, <1>2, <1>4, <2>2
    <3>2. <<"rows", Nth(Layers, m), x>> \in {r \in Rows(Layers, l) : r[3] = n} <=> Nth(Layers, m) = Nth(Layers, l) /\ x = n
      BY <1>7
    <3>3. Nth(Layers, m) = Nth(Layers, l) <=> m = l
      BY <1>8, NthFacts
    <3>. QED
      BY <3>1, <3>2, <3>3
  <2>. QED
    BY <2>1, <2>3, <2>4
<1>9. Kept("layer", Layers, l, n) \in k.outs
  BY <1>3 DEF Kept
<1>. QED
  BY <1>8, <1>9 DEF Twin

\* A linear layer's launches, but the two that move its memory.
LEMMA LinearTwins ==
  ASSUME NEW a \in {"acts", "bacts"}, NEW l \in 1..Len(Layers), Layers[l] = "linear"
  PROVE  LET s == LinearMixer(a, l, Rows(Layers, l))
         IN /\ s \in Seq(PlainOnes) /\ Twins(s)
            /\ \A n \in {"state", "conv"} : Kept("layer", Layers, l, n) \in Outs(s)
<1>. DEFINE rows == Rows(Layers, l)
            s == LinearMixer(a, l, rows)
            k1 == MV("matvec qkv", a, "h", {}, "qkv")
            k2 == MV("matvec z", a, "h", {}, "z")
            k3 == K("matvec a/b", a, {"h"}, {"a"})
            k4 == K("matvec a/b", a, {"h"}, {"b"})
            k5 == Kernel("conv", Of(a, {"qkv"}) \cup Layer(l, {"conv"}),
                      Of(a, {"conv"}) \cup Layer(l, {"conv"}) \cup {r \in rows : r[3] = "conv"})
            k6 == K("delta q/k", a, {"conv"}, {"qe"})
            k7 == K("delta q/k", a, {"conv"}, {"ke"})
            k8 == K("gates", a, {"a", "b"}, {"g", "beta"})
            k9 == Kernel("delta step", Of(a, {"qe", "ke", "conv", "g", "beta"}) \cup Layer(l, {"state"}),
                      Of(a, {"y"}) \cup Layer(l, {"state"}) \cup {r \in rows : r[3] = "state"})
            k10 == K("gated norm", a, {"y", "z"}, {"mixed"})
            k11 == MV("matvec out_proj", a, "mixed", {"x"}, "x2")
<1>1. {"a", "b", "beta", "conv", "g", "h", "ke", "mixed", "qe", "qkv", "x", "x2", "y", "z"} \subseteq Names
  BY DEF Names, Acts
<1>2. {"delta q/k", "gated norm", "gates", "matvec a/b", "matvec out_proj", "matvec qkv", "matvec z"} \subseteq PlanLabels
  BY DEF PlanLabels, Labels
<1>3. s = <<k1, k2, k3, k4, k5, k6, k7, k8, k9, k10, k11>>
  BY DEF LinearMixer
<1>4. l \in Nat /\ rows \in SUBSET Bufs /\ \A r \in rows : r[1] = "rows"
  BY LayersFacts, RowsFacts
<1>5. s \in Seq(PlainOnes)
  <2>. HIDE DEF rows
  <2>1. Grows(s, PlainOnes, a, {"x", "h"}, {"x2"})
    BY <1>4, LinearGrows
  <2>. QED
    BY <2>1 DEF Grows
<1>. HIDE DEF s, rows
<1>6. Twin(k1)
  BY <1>1, <1>2, MVTakes, CalmTwin DEF Takes
<1>7. Twin(k2)
  BY <1>1, <1>2, MVTakes, CalmTwin DEF Takes
<1>8. Twin(k3)
  BY <1>1, <1>2, KTakes, CalmTwin DEF Takes
<1>9. Twin(k4)
  BY <1>1, <1>2, KTakes, CalmTwin DEF Takes
<1>10. Twin(k6)
  BY <1>1, <1>2, KTakes, CalmTwin DEF Takes
<1>11. Twin(k7)
  BY <1>1, <1>2, KTakes, CalmTwin DEF Takes
<1>12. Twin(k8)
  BY <1>1, <1>2, KTakes, CalmTwin DEF Takes
<1>13. Twin(k10)
  BY <1>1, <1>2, KTakes, CalmTwin DEF Takes
<1>14. Twin(k11)
  BY <1>1, <1>2, MVTakes, CalmTwin DEF Takes
<1>15. Twin(k5) /\ Kept("layer", Layers, l, "conv") \in k5.outs
  <2>1. k5.outs = Of(a, {"conv"}) \cup Layer(l, {"conv"}) \cup {r \in Rows(Layers, l) : r[3] = "conv"}
    BY DEF Kernel, rows
  <2>2. {"conv"} \in SUBSET Names /\ "conv" \in {"conv", "state"}
    BY <1>1
  <2>. HIDE DEF k5
  <2>. QED
    BY <2>1, <2>2, MemoryTwin
<1>16. Twin(k9) /\ Kept("layer", Layers, l, "state") \in k9.outs
  <2>1. k9.outs = Of(a, {"y"}) \cup Layer(l, {"state"}) \cup {r \in Rows(Layers, l) : r[3] = "state"}
    BY DEF Kernel, rows
  <2>2. {"y"} \in SUBSET Names /\ "state" \in {"conv", "state"}
    BY <1>1
  <2>. HIDE DEF k9
  <2>. QED
    BY <2>1, <2>2, MemoryTwin
<1>17. Len(s) = 11 /\ s[1] = k1 /\ s[2] = k2 /\ s[3] = k3 /\ s[4] = k4 /\ s[5] = k5 /\ s[6] = k6 /\ s[7] = k7
       /\ s[8] = k8 /\ s[9] = k9 /\ s[10] = k10 /\ s[11] = k11
  <2>. HIDE DEF k1, k2, k3, k4, k5, k6, k7, k8, k9, k10, k11
  <2>. QED
    BY <1>3
<1>. HIDE DEF k1, k2, k3, k4, k5, k6, k7, k8, k9, k10, k11
<1>18. ASSUME NEW i \in 1..Len(s) PROVE Twin(s[i])
  <2>1. i = 1 \/ i = 2 \/ i = 3 \/ i = 4 \/ i = 5 \/ i = 6 \/ i = 7 \/ i = 8 \/ i = 9 \/ i = 10 \/ i = 11
    BY <1>17
  <2>. QED
    BY <1>6, <1>7, <1>8, <1>9, <1>10, <1>11, <1>12, <1>13, <1>14, <1>15, <1>16, <1>17, <2>1
<1>19. Kept("layer", Layers, l, "conv") \in Outs(s) /\ Kept("layer", Layers, l, "state") \in Outs(s)
  <2>1. 5 \in 1..Len(s) /\ 9 \in 1..Len(s)
    BY <1>17
  <2>. QED
    BY <1>15, <1>16, <1>17, <2>1, OutsFacts
<1>. QED
  BY <1>5, <1>18, <1>19 DEF Twins, s, rows

LEMMA LayerTwins ==
  ASSUME NEW a \in {"acts", "bacts"}, NEW l \in 1..Len(Layers), NEW split \in BOOLEAN
  PROVE  LET s == OneLayer(a, Layers, l, TRUE, split)
         IN /\ s \in Seq(PlainOnes) /\ Twins(s)
            /\ Layers[l] = "linear" => \A n \in {"state", "conv"} : Kept("layer", Layers, l, n) \in Outs(s)
<1>. DEFINE p == <<K("rmsnorm", a, {"x"}, {"h"})>>
            t == IF Layers[l] = "linear" THEN LinearMixer(a, l, Rows(Layers, l)) ELSE AttnMixer(a, l, split)
            u == FeedForward(a)
            s == OneLayer(a, Layers, l, TRUE, split)
<1>1. s = (p \o t) \o u
  BY DEF OneLayer
<1>2. Twins(p) /\ p \in Seq(CalmOnes)
  BY NormGrows, CalmTwins DEF Grows
<1>3. Twins(u) /\ u \in Seq(CalmOnes)
  BY FeedForwardGrows, CalmTwins DEF Grows
<1>. HIDE DEF p, u, s
<1>4. CalmOnes \subseteq PlainOnes
  BY DEF CalmOnes
<1>5. /\ Twins(t) /\ t \in Seq(PlainOnes)
      /\ Layers[l] = "linear" => \A n \in {"state", "conv"} : Kept("layer", Layers, l, n) \in Outs(t)
  <2>1. CASE Layers[l] = "linear"
    BY <2>1, LinearTwins
  <2>2. CASE Layers[l] # "linear"
    <3>1. l \in Nat
      BY LayersFacts
    <3>2. Grows(t, CalmOnes, a, {"h", "x"} \cup Given(a, split), {"x2"})
      BY <2>2, <3>1, AttnGrows
    <3>. HIDE DEF t
    <3>3. Twins(t) /\ t \in Seq(CalmOnes)
      BY <3>2, CalmTwins DEF Grows
    <3>. QED
      BY <1>4, <2>2, <3>3
  <2>. QED
    BY <2>1, <2>2
<1>. HIDE DEF t
<1>6. p \in Seq(PlainOnes) /\ u \in Seq(PlainOnes)
  BY <1>2, <1>3, <1>4
<1>7. p \o t \in Seq(PlainOnes) /\ Twins(p \o t) /\ Outs(t) \subseteq Outs(p \o t)
  <2>1. p \o t \in Seq(PlainOnes)
    BY <1>5, <1>6, ConcatProperties
  <2>2. Twins(p \o t)
    BY <1>2, <1>5, <1>6, TwinsCat
  <2>3. Outs(p \o t) = Outs(p) \cup Outs(t)
    BY <1>5, <1>6, OutsCat
  <2>. QED
    BY <2>1, <2>2, <2>3
<1>8. s \in Seq(PlainOnes) /\ Twins(s) /\ Outs(t) \subseteq Outs(s)
  <2>. DEFINE m == p \o t
  <2>1. m \in Seq(PlainOnes) /\ Twins(m) /\ Outs(t) \subseteq Outs(m) /\ s = m \o u
    BY <1>1, <1>7
  <2>. HIDE DEF m
  <2>2. m \o u \in Seq(PlainOnes)
    BY <1>6, <2>1, ConcatProperties
  <2>3. Twins(m \o u)
    BY <1>3, <1>6, <2>1, TwinsCat
  <2>4. Outs(m \o u) = Outs(m) \cup Outs(u)
    BY <1>6, <2>1, OutsCat
  <2>. QED
    BY <2>1, <2>2, <2>3, <2>4
<1>. QED
  BY <1>5, <1>8 DEF s

\* Every linear layer is moved, and by launches that leave its rows.
Snapped(s) ==
  /\ Twins(s)
  /\ \A l \in 1..Len(Layers), n \in {"state", "conv"} :
       Layers[l] = "linear" => \E i \in 1..Len(s) : Kept("layer", Layers, l, n) \in s[i].outs

LEMMA LayersSnapped ==
  ASSUME NEW a \in {"acts", "bacts"}, NEW split \in BOOLEAN
  PROVE  Snapped(AllLayers(a, Layers, TRUE, split))
<1>. DEFINE c(l) == OneLayer(a, Layers, l, TRUE, split)
            ss == [l \in 1..Len(Layers) |-> c(l)]
            r == AllLayers(a, Layers, TRUE, split)
<1>1. r = Joined(ss)
  BY DEF AllLayers, FlattenSeq, Joined
<1>2. \A l \in 1..Len(Layers) :
        /\ c(l) \in Seq(PlainOnes) /\ Twins(c(l))
        /\ Layers[l] = "linear" => \A n \in {"state", "conv"} : Kept("layer", Layers, l, n) \in Outs(c(l))
  BY LayerTwins
<1>3. \A l \in 1..Len(Layers) : Outs(c(l)) \subseteq Outs(r)
  BY AllLayersGrow
<1>. HIDE DEF c, r
<1>4. ss \in Seq(Seq(PlainOnes)) /\ Len(ss) = Len(Layers) /\ \A l \in 1..Len(Layers) : ss[l] = c(l)
  <2>1. \A l \in 1..Len(Layers) : c(l) \in Seq(PlainOnes)
    BY <1>2
  <2>2. Len(Layers) \in Nat
    BY LayersFacts
  <2>3. ss \in Seq(Seq(PlainOnes)) /\ Len(ss) = Len(Layers)
    BY <2>1, <2>2, IsASeq
  <2>. QED
    BY <2>3
<1>. HIDE DEF ss
<1>5. PICK off : Laid(ss, off, Len(ss), r)
  BY <1>1, <1>4, JoinedPlaces
<1>6. ASSUME NEW i \in 1..Len(r) PROVE Twin(r[i])
  <2>1. PICK l \in 1..Len(ss) : \E m \in 1..Len(ss[l]) : i = off[l - 1] + m
    BY <1>5 DEF Laid
  <2>2. PICK m \in 1..Len(ss[l]) : i = off[l - 1] + m
    BY <2>1
  <2>3. r[i] = ss[l][m]
    BY <1>5, <2>2 DEF Laid
  <2>. QED
    BY <1>2, <1>4, <2>3 DEF Twins
<1>7. ASSUME NEW l \in 1..Len(Layers), NEW n \in {"state", "conv"}, Layers[l] = "linear"
      PROVE  \E i \in 1..Len(r) : Kept("layer", Layers, l, n) \in r[i].outs
  <2>1. Kept("layer", Layers, l, n) \in Outs(r)
    BY <1>2, <1>3, <1>7
  <2>. QED
    BY <2>1 DEF Outs
<1>. QED
  BY <1>6, <1>7 DEF Snapped, Twins, r

LEMMA SnappedCat ==
  ASSUME NEW S, NEW s \in Seq(S), NEW t \in Seq(S), Snapped(s), Twins(t)
  PROVE  Snapped(s \o t)
<1>1. Twins(s \o t)
  BY TwinsCat DEF Snapped
<1>. DEFINE r == s \o t
<1>2. Behind(s, t, r)
  BY CatBehind
<1>. HIDE DEF r
<1>3. \A i \in 1..Len(s) : i \in 1..Len(r) /\ r[i] = s[i]
  BY <1>2 DEF Behind
<1>4. ASSUME NEW l \in 1..Len(Layers), NEW n \in {"state", "conv"}, Layers[l] = "linear"
      PROVE  \E i \in 1..Len(r) : Kept("layer", Layers, l, n) \in r[i].outs
  <2>1. PICK i \in 1..Len(s) : Kept("layer", Layers, l, n) \in s[i].outs
    BY <1>4 DEF Snapped
  <2>. QED
    BY <1>3, <2>1
<1>. QED
  BY <1>1, <1>4 DEF Snapped, r

LEMMA LastRowTwins == Twins(LastRow) /\ LastRow \in Seq(PlainOnes)
<1>1. LastRow \in Seq(PlainOnes)
  BY LastRowSound DEF Sound
<1>. DEFINE k == Kernel("lm head row", Of("bacts", {"x"}), Of("acts", {"x"}))
<1>2. k.outs = Of("acts", {"x"})
  BY DEF Kernel
<1>3. LastRow = <<k>>
  BY DEF LastRow
<1>4. \A b \in k.outs : b[1] = "acts"
  <2>1. "acts" \in Groups /\ {"x"} \in SUBSET Names
    BY DEF Groups, Names, Acts
  <2>2. \A b \in Of("acts", {"x"}) : b[1] = "acts"
    BY ONLY <2>1, OfFacts
  <2>. QED
    BY <1>2, <2>2
<1>. HIDE DEF k
<1>5. Twin(k)
  <2>1. ASSUME NEW l \in 1..Len(Layers), NEW n \in {"state", "conv"}
        PROVE  Kept("layer", Layers, l, n) \notin k.outs /\ Kept("rows", Layers, l, n) \notin k.outs
    <3>1. Kept("layer", Layers, l, n)[1] = "layer" /\ Kept("rows", Layers, l, n)[1] = "rows"
      BY DEF Kept
    <3>. QED
      BY <1>4, <3>1
  <2>. QED
    BY <2>1 DEF Twin
<1>6. Len(<<k>>) = 1 /\ <<k>>[1] = k
  OBVIOUS
<1>7. \A i \in 1..1 : i = 1
  OBVIOUS
<1>8. Twins(<<k>>)
  BY <1>5, <1>6, <1>7 DEF Twins
<1>. QED
  BY <1>1, <1>3, <1>8

LEMMA BatchSnapped ==
  ASSUME NEW split \in BOOLEAN, NEW head \in {"all", "last", "skip"}
  PROVE  Snapped(BatchPlan(Layers, TRUE, split, head))
<1>. DEFINE s == AllLayers("bacts", Layers, TRUE, split)
<1>1. Snapped(s) /\ s \in Seq(PlainOnes)
  BY LayersSnapped, LayersSound DEF Sound
<1>2. ASSUME NEW a \in {"acts", "bacts"} PROVE LmHead(a) \in Seq(PlainOnes) /\ Twins(LmHead(a))
  BY HeadSound, HeadGrows, CalmTwins DEF Sound
<1>3. CASE head = "all"
  <2>1. BatchPlan(Layers, TRUE, split, head) = s \o LmHead("bacts")
    BY <1>3 DEF BatchPlan
  <2>. HIDE DEF s
  <2>. QED
    BY <1>1, <1>2, <2>1, SnappedCat
<1>4. CASE head = "last"
  <2>1. BatchPlan(Layers, TRUE, split, head) = s \o (LastRow \o LmHead("acts"))
    BY <1>4 DEF BatchPlan
  <2>. HIDE DEF s
  <2>2. Twins(LastRow \o LmHead("acts")) /\ LastRow \o LmHead("acts") \in Seq(PlainOnes)
    BY <1>2, LastRowTwins, TwinsCat, ConcatProperties
  <2>. QED
    BY <1>1, <2>1, <2>2, SnappedCat
<1>5. CASE head = "skip"
  <2>1. BatchPlan(Layers, TRUE, split, head) = s \o <<>>
    BY <1>5 DEF BatchPlan
  <2>2. s \o <<>> = s
    BY <1>1, ConcatEmptySeq
  <2>. QED
    BY <1>1, <2>1, <2>2
<1>. QED
  BY <1>3, <1>4, <1>5

\* A list that moves what such a plan moves does the same.
LEMMA SnappedMoves ==
  ASSUME NEW w, NEW plan, NEW A, Moving(w, plan, A), Snapped(plan)
  PROVE  Snapped(w)
<1>1. Comes(w, plan)
  BY DEF Moving
<1>2. ASSUME NEW i \in 1..Len(w) PROVE Twin(w[i])
  <2>1. CASE \A b \in w[i].outs : b[1] \notin {"layer", "rows"}
    <3>1. ASSUME NEW l \in 1..Len(Layers), NEW n \in {"state", "conv"}
          PROVE  Kept("layer", Layers, l, n)[1] = "layer" /\ Kept("rows", Layers, l, n)[1] = "rows"
      BY DEF Kept
    <3>. QED
      BY <2>1, <3>1 DEF Twin
  <2>2. CASE \E m \in 1..Len(plan) : w[i].outs = plan[m].outs
    BY <2>2 DEF Snapped, Twins, Twin
  <2>. QED
    BY <1>1, <2>1, <2>2 DEF Comes
<1>3. ASSUME NEW l \in 1..Len(Layers), NEW n \in {"state", "conv"}, Layers[l] = "linear"
      PROVE  \E i \in 1..Len(w) : Kept("layer", Layers, l, n) \in w[i].outs
  <2>1. PICK m \in 1..Len(plan) : Kept("layer", Layers, l, n) \in plan[m].outs
    BY <1>3 DEF Snapped
  <2>2. PICK i \in 1..Len(w) : w[i].outs = plan[m].outs
    BY <1>1 DEF Comes
  <2>. QED
    BY <2>1, <2>2
<1>. QED
  BY <1>2, <1>3 DEF Snapped, Twins

-----------------------------------------------------------------------------
\* What holds of the work of every pass of a Runner: it needs no activation of the passes before
\* it, and its int8 matmuls read what is theirs. Only the copies are copies.
Fit(s) == s \in Seq(AnyLaunch) /\ Feeds(s, {}) /\ Quants(s)

Owned(pass) ==
  LET s == Work(pass)
  IN \A i \in 1..Len(s) :
       /\ s[i].label = "roll" => pass = CopyPass(RollBackTo(Layers))
       /\ s[i].label = "restore" => pass = CopyPass(Restore(Layers))
       /\ (\E b \in s[i].outs : b[1] = "saved") => pass = CopyPass(Save(Layers))

LEMMA CopyPassFacts ==
  ASSUME NEW list \in Seq(AnyLaunch)
  PROVE  CopyPass(list) \in Seq(Parts) /\ Work(CopyPass(list)) = list
<1>. DEFINE h == There(list)
<1>1. h \in Parts /\ h.list = list
  BY ThereIn
<1>2. CopyPass(list) = <<h>>
  BY DEF CopyPass
<1>. HIDE DEF h
<1>. QED
  BY <1>1, <1>2, WorkOne

LEMMA CopiesFit ==
  ASSUME NEW label, NEW known, NEW from, NEW to, NEW s, CopiesOf(s, label, known, from, to)
  PROVE  /\ Fit(s) /\ CopyPass(s) \in Seq(Parts) /\ Work(CopyPass(s)) = s
         /\ \A i \in 1..Len(s) : s[i].label = label /\ \A b \in s[i].outs : b[1] = to
<1>0. /\ label \in {"save", "restore", "roll"} /\ known \in BOOLEAN
      /\ from \in {"layer", "saved", "rows"} /\ to \in {"layer", "saved", "rows"}
  BY DEF CopiesOf
<1>1. /\ s \in Seq(AnyLaunch)
      /\ \A i \in 1..Len(s) : \E l \in 1..Len(Layers), n \in {"state", "conv"} :
           Layers[l] = "linear" /\ s[i] = Copy(label, known, from, to, l, n)
  BY CopiesFacts
<1>2. ASSUME NEW i \in 1..Len(s)
      PROVE  /\ s[i].label = label /\ \A b \in s[i].outs : b[1] = to
             /\ \A b \in s[i].ins : b[1] = from
  <2>1. PICK l \in 1..Len(Layers), n \in {"state", "conv"} : s[i] = Copy(label, known, from, to, l, n)
    BY <1>1
  <2>2. s[i].label = label /\ s[i].ins = {Kept(from, Layers, l, n)} /\ s[i].outs = {Kept(to, Layers, l, n)}
    BY <1>0, <2>1, CopyFacts
  <2>3. Kept(from, Layers, l, n)[1] = from /\ Kept(to, Layers, l, n)[1] = to
    BY <1>0, KeptFacts
  <2>. QED
    BY <2>2, <2>3
<1>3. \A b : Scratch(b) => b[1] # from
  BY <1>0 DEF Scratch
<1>4. \A b \in Quantised : b[1] # from
  BY <1>0, QuantisedFacts
<1>5. Feeds(s, {})
  BY <1>2, <1>3 DEF Feeds
<1>6. \A i \in 1..Len(s) : s[i].ins \cap Quantised = {}
  BY <1>2, <1>4
<1>7. Quants(s)
  BY <1>6 DEF Quants
<1>. QED
  BY <1>1, <1>2, <1>5, <1>7, CopyPassFacts DEF Fit

LEMMA SoberOwned ==
  ASSUME NEW u, NEW plan, Moving(Work(u), plan, {})
  PROVE  Fit(Work(u)) /\ Owned(u)
BY DEF Moving, Fit, Owned, Sober

LEMMA CopyOwned ==
  /\ LET u == CopyPass(Save(Layers)) IN u \in Seq(Parts) /\ Fit(Work(u)) /\ Owned(u)
  /\ LET u == CopyPass(Restore(Layers)) IN u \in Seq(Parts) /\ Fit(Work(u)) /\ Owned(u)
  /\ LET u == CopyPass(RollBackTo(Layers)) IN u \in Seq(Parts) /\ Fit(Work(u)) /\ Owned(u)
<1>1. ASSUME NEW s, s = Save(Layers)
      PROVE  CopyPass(s) \in Seq(Parts) /\ Fit(Work(CopyPass(s))) /\ Owned(CopyPass(s))
  <2>1. CopiesOf(s, "save", FALSE, "layer", "saved")
    BY <1>1 DEF Save, CopiesOf
  <2>2. /\ Fit(s) /\ CopyPass(s) \in Seq(Parts) /\ Work(CopyPass(s)) = s
        /\ \A i \in 1..Len(s) : s[i].label = "save" /\ \A b \in s[i].outs : b[1] = "saved"
    BY <2>1, CopiesFit
  <2>. QED
    BY <1>1, <2>2 DEF Owned
<1>2. ASSUME NEW s, s = Restore(Layers)
      PROVE  CopyPass(s) \in Seq(Parts) /\ Fit(Work(CopyPass(s))) /\ Owned(CopyPass(s))
  <2>1. CopiesOf(s, "restore", FALSE, "saved", "layer")
    BY <1>2 DEF Restore, CopiesOf
  <2>2. /\ Fit(s) /\ CopyPass(s) \in Seq(Parts) /\ Work(CopyPass(s)) = s
        /\ \A i \in 1..Len(s) : s[i].label = "restore" /\ \A b \in s[i].outs : b[1] = "layer"
    BY <2>1, CopiesFit
  <2>. QED
    BY <1>2, <2>2 DEF Owned
<1>3. ASSUME NEW s, s = RollBackTo(Layers)
      PROVE  CopyPass(s) \in Seq(Parts) /\ Fit(Work(CopyPass(s))) /\ Owned(CopyPass(s))
  <2>1. CopiesOf(s, "roll", TRUE, "rows", "layer")
    BY <1>3 DEF RollBackTo, CopiesOf
  <2>2. /\ Fit(s) /\ CopyPass(s) \in Seq(Parts) /\ Work(CopyPass(s)) = s
        /\ \A i \in 1..Len(s) : s[i].label = "roll" /\ \A b \in s[i].outs : b[1] = "layer"
    BY <2>1, CopiesFit
  <2>. QED
    BY <1>3, <2>2 DEF Owned
<1>. QED
  BY <1>1, <1>2, <1>3

\* What the host does to the layers' memory between lists.
LEMMA HostOwned ==
  ASSUME NEW A \in SUBSET Memory(Layers), NEW B \in SUBSET Memory(Layers)
  PROVE  LET u == <<Here(A, B)>> IN u \in Seq(Parts) /\ Fit(Work(u)) /\ Owned(u)
<1>. DEFINE k == Kernel("host", A, B)
            s == <<k>>
            part == Here(A, B)
            u == <<part>>
<1>1. ASSUME NEW b \in Memory(Layers) PROVE b \in Bufs /\ b[1] = "layer"
  <2>1. PICK l \in 1..Len(Layers), n \in {"state", "conv"} : b = Kept("layer", Layers, l, n)
    BY DEF Memory
  <2>. QED
    BY <2>1, KeptFacts
<1>2. "host" \in Labels
  BY DEF Labels
<1>3. k \in AnyLaunch /\ k.label = "host" /\ k.ins = A /\ k.outs = B
  <2>1. A \in SUBSET Bufs /\ B \in SUBSET Bufs
    BY <1>1
  <2>. QED
    BY <1>2, <2>1 DEF Kernel, AnyLaunch
<1>. HIDE DEF k
<1>4. s \in Seq(AnyLaunch) /\ Len(s) = 1 /\ s[1] = k
  BY <1>3
<1>5. part \in Parts /\ part.list = s
  BY <1>4 DEF Here, Parts, k
<1>. HIDE DEF s, part
<1>6. u \in Seq(Parts) /\ Work(u) = s
  BY <1>5, WorkOne
<1>7. \A i \in 1..Len(s) : s[i] = k
  BY <1>4
<1>8. \A b \in A \cup B : b[1] = "layer"
  BY <1>1
<1>9. Feeds(s, {})
  <2>1. \A b \in A : ~Scratch(b)
    BY <1>8 DEF Scratch
  <2>. QED
    BY <1>3, <1>7, <2>1 DEF Feeds
<1>10. Quants(s)
  <2>1. A \cap Quantised = {}
    BY <1>8, QuantisedFacts
  <2>. QED
    BY <1>3, <1>7, <2>1 DEF Quants
<1>11. Owned(u)
  BY <1>3, <1>6, <1>7, <1>8 DEF Owned
<1>. QED
  BY <1>4, <1>6, <1>9, <1>10, <1>11 DEF Fit, part

LEMMA ForwardsFacts ==
  ASSUME NEW snaps \in SUBSET BOOLEAN, NEW u \in Forwards(Layers, snaps)
  PROVE  /\ u \in Seq(Parts) /\ Fit(Work(u)) /\ Owned(u)
         /\ snaps = {TRUE} => Snapped(Work(u))
<1>1. PICK snap \in snaps, split \in BOOLEAN, int8 \in BOOLEAN, sync \in BOOLEAN, head \in {"all", "last", "skip"} :
        u = ForwardPass(Layers, snap, split, head, int8, sync)
  BY DEF Forwards
<1>2. snap \in BOOLEAN
  OBVIOUS
<1>3. u \in Seq(Parts) /\ Moving(Work(u), BatchPlan(Layers, snap, split, head), {})
  BY <1>1, <1>2, ForwardPassMoves
<1>4. ASSUME snaps = {TRUE} PROVE Snapped(Work(u))
  <2>1. snap = TRUE
    BY <1>4
  <2>2. Snapped(BatchPlan(Layers, TRUE, split, head))
    BY BatchSnapped
  <2>. QED
    BY <1>3, <2>1, <2>2, SnappedMoves
<1>. QED
  BY <1>3, <1>4, SoberOwned

LEMMA PassesFacts ==
  ASSUME NEW u \in RunnerPasses(Layers)
  PROVE  u \in Seq(Parts) /\ Fit(Work(u)) /\ Owned(u)
<1>1. CASE u \in {StepPass(Layers, split, int8, sync) : split, int8, sync \in BOOLEAN}
  <2>1. PICK split \in BOOLEAN, int8 \in BOOLEAN, sync \in BOOLEAN : u = StepPass(Layers, split, int8, sync)
    BY <1>1
  <2>. QED
    BY <2>1, StepPassMoves, SoberOwned
<1>2. CASE u \in Forwards(Layers, BOOLEAN)
  BY <1>2, ForwardsFacts
<1>3. CASE u \in {DraftPass(int8) : int8 \in BOOLEAN}
  BY <1>3, DraftPassMoves, SoberOwned
<1>4. CASE u \in {WarmPass(split, int8) : split, int8 \in BOOLEAN}
  <2>1. PICK split \in BOOLEAN, int8 \in BOOLEAN : u = WarmPass(split, int8)
    BY <1>4
  <2>. QED
    BY <2>1, WarmPassMoves, SoberOwned
<1>5. CASE u \in {CopyPass(list) : list \in {Save(Layers), Restore(Layers), RollBackTo(Layers)}}
  BY <1>5, CopyOwned
<1>6. CASE u \in {ResumePass(Layers), CheckpointPass(Layers)}
  <2>1. {} \in SUBSET Memory(Layers) /\ Memory(Layers) \in SUBSET Memory(Layers)
    OBVIOUS
  <2>2. u = <<Here({}, Memory(Layers))>> \/ u = <<Here(Memory(Layers), {})>>
    BY <1>6 DEF ResumePass, CheckpointPass
  <2>. QED
    BY <2>1, <2>2, HostOwned
<1>. QED
  BY <1>1, <1>2, <1>3, <1>4, <1>5, <1>6 DEF RunnerPasses

-----------------------------------------------------------------------------
\* Two lists of lists of the same lengths, related place by place, put together.
Alike(A, B, ss, tt, E) ==
  /\ ss \in Seq(Seq(A)) /\ tt \in Seq(Seq(B)) /\ Len(ss) = Len(tt)
  /\ \A n \in 1..Len(ss) : Len(ss[n]) = Len(tt[n]) /\ \A i \in 1..Len(ss[n]) : <<ss[n][i], tt[n][i]>> \in E

LEMMA JoinedAlike ==
  ASSUME NEW A, NEW B, NEW ss, NEW tt, NEW E, Alike(A, B, ss, tt, E)
  PROVE  /\ Joined(ss) \in Seq(A) /\ Joined(tt) \in Seq(B) /\ Len(Joined(ss)) = Len(Joined(tt))
         /\ \A i \in 1..Len(Joined(ss)) : <<Joined(ss)[i], Joined(tt)[i]>> \in E
<1>. DEFINE l == Len(ss)
<1>0. /\ ss \in Seq(Seq(A)) /\ tt \in Seq(Seq(B)) /\ l = Len(tt)
      /\ \A n \in 1..l : Len(ss[n]) = Len(tt[n]) /\ \A i \in 1..Len(ss[n]) : <<ss[n][i], tt[n][i]>> \in E
  BY DEF Alike
<1>1. PICK g \in [0..l -> Seq(A)] :
        /\ g[0] = <<>> /\ \A i \in 1..l : g[i] = g[i - 1] \o ss[i]
        /\ Joined(ss) = g[l]
  BY <1>0, JoinedFacts
<1>2. PICK h \in [0..l -> Seq(B)] :
        /\ h[0] = <<>> /\ \A i \in 1..l : h[i] = h[i - 1] \o tt[i]
        /\ Joined(tt) = h[l]
  <2>1. \E h \in [0..Len(tt) -> Seq(B)] :
          /\ h[0] = <<>> /\ \A i \in 1..Len(tt) : h[i] = h[i - 1] \o tt[i]
          /\ Joined(tt) = h[Len(tt)]
    BY <1>0, JoinedFacts
  <2>. QED
    BY <1>0, <2>1
<1>3. l \in Nat /\ (\A i \in 1..l : ss[i] \in Seq(A)) /\ (\A i \in 1..l : tt[i] \in Seq(B))
  <2>1. l \in Nat
    BY <1>0, LenProperties
  <2>2. \A i \in 1..Len(ss) : ss[i] \in Seq(A)
    BY <1>0, ElementOfSeq
  <2>3. \A i \in 1..Len(tt) : tt[i] \in Seq(B)
    BY <1>0, ElementOfSeq
  <2>. QED
    BY <1>0, <2>1, <2>2, <2>3
<1>4. \A n \in 1..l : Len(ss[n]) = Len(tt[n]) /\ \A i \in 1..Len(ss[n]) : <<ss[n][i], tt[n][i]>> \in E
  BY <1>0
<1>. HIDE DEF l
<1>. DEFINE T == {k \in Nat : k <= l => Len(g[k]) = Len(h[k]) /\ \A i \in 1..Len(g[k]) : <<g[k][i], h[k][i]>> \in E}
<1>5. 0 \in T
  BY <1>1, <1>2
<1>6. ASSUME NEW k \in T PROVE k + 1 \in T
  <2>. SUFFICES ASSUME k + 1 <= l
                PROVE  /\ Len(g[k + 1]) = Len(h[k + 1])
                       /\ \A i \in 1..Len(g[k + 1]) : <<g[k + 1][i], h[k + 1][i]>> \in E
    OBVIOUS
  <2>0. k \in Nat /\ (k <= l => Len(g[k]) = Len(h[k]) /\ \A i \in 1..Len(g[k]) : <<g[k][i], h[k][i]>> \in E)
    OBVIOUS
  <2>. HIDE DEF T
  <2>1. PICK j \in 1..l : j = k + 1 /\ j - 1 = k /\ k \in 0..l /\ k <= l
    <3>1. l \in Nat /\ k \in Nat /\ k + 1 <= l
      BY <1>3, <2>0
    <3>2. k + 1 \in 1..l /\ (k + 1) - 1 = k /\ k \in 0..l /\ k <= l
      BY ONLY <3>1
    <3>. QED
      BY <3>2
  <2>2. g[j] = g[k] \o ss[j] /\ h[j] = h[k] \o tt[j]
    BY <1>1, <1>2, <2>1
  <2>. DEFINE a == g[k]
              b == ss[j]
              c == h[k]
              d == tt[j]
              r == a \o b
              s == c \o d
  <2>3. a \in Seq(A) /\ b \in Seq(A) /\ c \in Seq(B) /\ d \in Seq(B)
    BY <1>1, <1>2, <1>3, <2>1
  <2>4. Len(a) = Len(c) /\ \A i \in 1..Len(a) : <<a[i], c[i]>> \in E
    BY <2>0, <2>1
  <2>5. Len(b) = Len(d) /\ \A i \in 1..Len(b) : <<b[i], d[i]>> \in E
    BY <1>4
  <2>. HIDE DEF a, b, c, d
  <2>6. /\ Len(r) = Len(a) + Len(b)
        /\ \A i \in 1..(Len(a) + Len(b)) : r[i] = IF i <= Len(a) THEN a[i] ELSE b[i - Len(a)]
    BY ONLY <2>3, ConcatProperties
  <2>7. /\ Len(s) = Len(c) + Len(d)
        /\ \A i \in 1..(Len(c) + Len(d)) : s[i] = IF i <= Len(c) THEN c[i] ELSE d[i - Len(c)]
    BY ONLY <2>3, ConcatProperties
  <2>. HIDE DEF r, s
  <2>8. PICK m \in Nat, n \in Nat : m = Len(a) /\ n = Len(b)
    BY <2>3, LenProperties
  <2>9. Len(r) = m + n /\ Len(s) = m + n
    BY <2>4, <2>5, <2>6, <2>7, <2>8
  <2>10. ASSUME NEW i \in 1..m + n PROVE <<r[i], s[i]>> \in E
    <3>1. CASE i <= m
      <4>1. i \in 1..m /\ r[i] = a[i] /\ s[i] = c[i]
        BY <2>4, <2>5, <2>6, <2>7, <2>8, <3>1
      <4>. QED
        BY <2>4, <2>8, <4>1
    <3>2. CASE ~(i <= m)
      <4>1. PICK o \in 1..n : o = i - m
        BY <3>2
      <4>2. r[i] = b[o] /\ s[i] = d[o]
        BY <2>4, <2>5, <2>6, <2>7, <2>8, <3>2, <4>1
      <4>. QED
        BY <2>5, <2>8, <4>1, <4>2
    <3>. QED
      BY <3>1, <3>2
  <2>. QED
    BY <2>1, <2>2, <2>9, <2>10 DEF a, b, c, d, r, s
<1>. HIDE DEF T
<1>7. T = Nat
  <2>1. T \in SUBSET Nat
    BY DEF T
  <2>. QED
    BY <1>5, <1>6, <2>1, Induction
<1>8. l \in T /\ l <= l /\ l \in 0..l
  BY <1>3, <1>7
<1>9. Len(g[l]) = Len(h[l]) /\ \A i \in 1..Len(g[l]) : <<g[l][i], h[l][i]>> \in E
  BY <1>8 DEF T
<1>. QED
  BY <1>1, <1>2, <1>8, <1>9

\* A step of a pass is a launch of its work.
Echoes(t, k, p) ==
  t.pass = p /\ t.label = k.label /\ t.ins = k.ins /\ t.outs = k.outs /\ t.x = k.x

AnyStep ==
  [by : {"host", "gpu"}, pass : Nat, job : Nat \X Nat, label : Labels, ins : SUBSET Bufs, outs : SUBSET Bufs,
   known : BOOLEAN, x : SUBSET Bufs]

StepOf(u, p, n, i) ==
  [by |-> u[n].by, pass |-> p, job |-> <<p, n>>, label |-> u[n].list[i].label, ins |-> u[n].list[i].ins,
   outs |-> u[n].list[i].outs, known |-> u[n].list[i].known, x |-> u[n].list[i].x]

StepsOf(u, p) == Joined([n \in 1..Len(u) |-> [i \in 1..Len(u[n].list) |-> StepOf(u, p, n, i)]])

LEMMA PassEchoes ==
  ASSUME NEW u \in Seq(Parts), NEW p \in Nat
  PROVE  /\ StepsOf(u, p) \in Seq(AnyStep) /\ Len(StepsOf(u, p)) = Len(Work(u))
         /\ \A i \in 1..Len(Work(u)) : Echoes(StepsOf(u, p)[i], Work(u)[i], p)
<1>. DEFINE c(n) == [i \in 1..Len(u[n].list) |-> StepOf(u, p, n, i)]
            ss == [n \in 1..Len(u) |-> c(n)]
            tt == Lists(u)
            l == Len(u)
            E == {e \in AnyStep \X AnyLaunch : Echoes(e[1], e[2], p)}
<1>1. l \in Nat /\ \A n \in 1..l : u[n] \in Parts
  BY LenProperties, ElementOfSeq
<1>2. tt \in Seq(Seq(AnyLaunch)) /\ Len(tt) = l /\ \A n \in 1..l : tt[n] = u[n].list
  BY ListsFacts
<1>3. StepsOf(u, p) = Joined(ss) /\ Work(u) = Joined(tt)
  BY DEF StepsOf, Work
<1>4. ASSUME NEW n \in 1..l
      PROVE  /\ c(n) \in Seq(AnyStep) /\ Len(c(n)) = Len(u[n].list)
             /\ \A i \in 1..Len(u[n].list) : <<c(n)[i], u[n].list[i]>> \in E
  <2>. DEFINE list == u[n].list
              e(i) == StepOf(u, p, n, i)
              m == Len(list)
  <2>1. u[n].by \in {"host", "gpu"} /\ list \in Seq(AnyLaunch)
    BY <1>1 DEF Parts
  <2>2. m \in Nat /\ \A i \in 1..m : list[i] \in AnyLaunch
    BY <2>1, LenProperties, ElementOfSeq
  <2>3. ASSUME NEW i \in 1..m PROVE e(i) \in AnyStep /\ Echoes(e(i), list[i], p)
    <3>1. list[i] \in AnyLaunch /\ n \in Nat
      BY <2>2
    <3>2. PICK k \in AnyLaunch : k = list[i]
      BY <3>1
    <3>3. e(i) = [by |-> u[n].by, pass |-> p, job |-> <<p, n>>, label |-> k.label, ins |-> k.ins,
                  outs |-> k.outs, known |-> k.known, x |-> k.x]
      BY <3>2 DEF StepOf
    <3>. HIDE DEF e, list
    <3>4. e(i) \in AnyStep
      <4>1. k.label \in Labels /\ k.ins \in SUBSET Bufs /\ k.outs \in SUBSET Bufs /\ k.known \in BOOLEAN /\ k.x \in SUBSET Bufs
        BY DEF AnyLaunch
      <4>2. <<p, n>> \in Nat \X Nat
        BY <3>1
      <4>. QED
        BY ONLY <2>1, <3>3, <4>1, <4>2, p \in Nat DEF AnyStep
    <3>. QED
      BY <3>2, <3>3, <3>4 DEF Echoes
  <2>4. c(n) = [i \in 1..m |-> e(i)]
    OBVIOUS
  <2>. HIDE DEF c, e, m
  <2>5. c(n) \in Seq(AnyStep) /\ Len(c(n)) = m /\ \A i \in 1..m : c(n)[i] = e(i)
    BY <2>2, <2>3, <2>4
  <2>6. \A i \in 1..m : <<e(i), list[i]>> \in E
    BY <2>2, <2>3
  <2>. QED
    BY <2>5, <2>6 DEF m
<1>. HIDE DEF c, tt, l, E
<1>5. ss \in Seq(Seq(AnyStep)) /\ Len(ss) = l /\ \A n \in 1..l : ss[n] = c(n)
  <2>. DEFINE B == Seq(AnyStep)
  <2>1. \A n \in 1..l : c(n) \in B
    BY <1>4
  <2>2. ss = [n \in 1..l |-> c(n)]
    BY DEF l
  <2>. HIDE DEF B, ss
  <2>3. ss \in Seq(B) /\ Len(ss) = l /\ \A n \in 1..l : ss[n] = c(n)
    BY <1>1, <2>1, <2>2
  <2>. QED
    BY <2>3 DEF B
<1>. HIDE DEF ss
<1>6. Alike(AnyStep, AnyLaunch, ss, tt, E)
  BY <1>2, <1>4, <1>5 DEF Alike
<1>7. /\ Joined(ss) \in Seq(AnyStep) /\ Len(Joined(ss)) = Len(Joined(tt))
      /\ \A i \in 1..Len(Joined(ss)) : <<Joined(ss)[i], Joined(tt)[i]>> \in E
  BY <1>6, JoinedAlike
<1>8. \A a, b : <<a, b>> \in E => Echoes(a, b, p)
  BY DEF E
<1>. QED
  BY <1>3, <1>7, <1>8

-----------------------------------------------------------------------------
\* Where the passes are among the steps: the first p of them end at off[p].
Told(s, passes, off) ==
  /\ off \in [0..Len(passes) -> Nat] /\ Len(s) \in Nat /\ Len(passes) \in Nat
  /\ \A p \in 1..Len(passes) : Len(Work(passes[p])) \in Nat /\ off[p] = off[p - 1] + Len(Work(passes[p]))
  /\ \A p, q \in 0..Len(passes) : p <= q => off[p] <= off[q]
  /\ \A p \in 1..Len(passes) : \A m \in 1..Len(Work(passes[p])) :
       off[p - 1] + m \in 1..Len(s) /\ Echoes(s[off[p - 1] + m], Work(passes[p])[m], p)
  /\ \A i \in 1..Len(s) : \E p \in 1..Len(passes) : \E m \in 1..Len(Work(passes[p])) : i = off[p - 1] + m

LEMMA StepsTold ==
  ASSUME NEW passes \in Seq(RunnerPasses(Layers))
  PROVE  \E off : Told(Steps(passes), passes, off)
<1>. DEFINE l == Len(passes)
            c(p) == StepsOf(passes[p], p)
            ss == [p \in 1..l |-> c(p)]
            s == Steps(passes)
<1>1. s = Joined(ss)
  BY DEF Steps, FlattenSeq, Joined, StepsOf, StepOf
<1>2. l \in Nat /\ \A p \in 1..l : passes[p] \in Seq(Parts)
  <2>1. l \in Nat /\ \A p \in 1..l : passes[p] \in RunnerPasses(Layers)
    BY LenProperties, ElementOfSeq
  <2>. QED
    BY <2>1, PassesFacts
<1>. HIDE DEF l
<1>3. ASSUME NEW p \in 1..l
      PROVE  /\ c(p) \in Seq(AnyStep) /\ Len(c(p)) = Len(Work(passes[p])) /\ Len(c(p)) \in Nat
             /\ \A i \in 1..Len(Work(passes[p])) : Echoes(c(p)[i], Work(passes[p])[i], p)
  <2>1. p \in Nat /\ passes[p] \in Seq(Parts)
    BY <1>2
  <2>2. /\ c(p) \in Seq(AnyStep) /\ Len(c(p)) = Len(Work(passes[p]))
        /\ \A i \in 1..Len(Work(passes[p])) : Echoes(c(p)[i], Work(passes[p])[i], p)
    BY <2>1, PassEchoes
  <2>. HIDE DEF c
  <2>. QED
    BY <2>2, LenProperties
<1>. HIDE DEF c
<1>4. ss \in Seq(Seq(AnyStep)) /\ Len(ss) = l /\ \A p \in 1..l : ss[p] = c(p)
  <2>. DEFINE B == Seq(AnyStep)
  <2>1. \A p \in 1..l : c(p) \in B
    BY <1>3
  <2>. HIDE DEF B
  <2>2. ss \in Seq(B) /\ Len(ss) = l /\ \A p \in 1..l : ss[p] = c(p)
    BY <1>2, <2>1
  <2>. QED
    BY <2>2 DEF B
<1>. HIDE DEF ss, s
<1>5. s \in Seq(AnyStep)
  BY <1>1, <1>4, JoinedPlaces
<1>6. PICK off : Offsets(ss, off) /\ Laid(ss, off, Len(ss), s)
  BY <1>1, <1>4, JoinedPlaces
<1>7. /\ off \in [0..l -> Nat]
      /\ \A p \in 1..l : off[p] = off[p - 1] + Len(Work(passes[p]))
      /\ \A p, q \in 0..l : p <= q => off[p] <= off[q]
  BY <1>3, <1>4, <1>6 DEF Offsets
<1>8. ASSUME NEW p \in 1..l, NEW m \in 1..Len(Work(passes[p]))
      PROVE  off[p - 1] + m \in 1..Len(s) /\ Echoes(s[off[p - 1] + m], Work(passes[p])[m], p)
  <2>1. m \in 1..Len(ss[p]) /\ p \in 1..Len(ss)
    BY <1>3, <1>4
  <2>2. off[p - 1] + m \in 1..Len(s) /\ s[off[p - 1] + m] = ss[p][m]
    BY <1>6, <2>1 DEF Laid
  <2>. QED
    BY <1>3, <1>4, <2>2
<1>9. ASSUME NEW i \in 1..Len(s) PROVE \E p \in 1..l : \E m \in 1..Len(Work(passes[p])) : i = off[p - 1] + m
  BY <1>3, <1>4, <1>6 DEF Laid
<1>10. Len(s) \in Nat
  BY <1>5, LenProperties
<1>11. Told(s, passes, off)
  BY <1>2, <1>3, <1>7, <1>8, <1>9, <1>10 DEF Told, l
<1>. QED
  BY <1>11 DEF s

\* What lies between two launches of a pass is of that pass.
LEMMA Within ==
  ASSUME NEW s, NEW passes, NEW off, Told(s, passes, off), NEW p \in 1..Len(passes),
         NEW k \in 1..Len(Work(passes[p])), NEW m \in 1..Len(Work(passes[p])),
         NEW v \in off[p - 1] + k..off[p - 1] + m
  PROVE  /\ v \in 1..Len(s)
         /\ \E n \in k..m : n \in 1..Len(Work(passes[p])) /\ v = off[p - 1] + n /\ Echoes(s[v], Work(passes[p])[n], p)
<1>1. p - 1 \in 0..Len(passes) /\ Len(Work(passes[p])) \in Nat
  BY DEF Told
<1>2. PICK o \in Nat, l \in Nat : o = off[p - 1] /\ l = Len(Work(passes[p]))
  BY <1>1 DEF Told
<1>3. k \in 1..l /\ m \in 1..l /\ v \in o + k..o + m
  BY <1>2
<1>4. PICK n \in k..m : n \in 1..l /\ v = o + n
  <2>1. v - o \in k..m /\ v - o \in 1..l /\ v = o + (v - o)
    BY ONLY <1>3, o \in Nat, l \in Nat
  <2>. QED
    BY <2>1
<1>5. off[p - 1] + n \in 1..Len(s) /\ Echoes(s[off[p - 1] + n], Work(passes[p])[n], p)
  BY <1>2, <1>4 DEF Told
<1>. QED
  BY <1>2, <1>4, <1>5

LEMMA Runs ==
  ASSUME Listed
  PROVE  \E passes, off : Session(Layers, passes) /\ Told(steps, passes, off)
<1>1. PICK prog \in Programs : steps = prog.steps
  BY DEF Listed
<1>2. PICK passes \in Sessions : steps = Steps(passes)
  BY <1>1, SessionsAssumption
<1>3. Session(Layers, passes)
  BY SessionsAssumption
<1>4. passes \in Seq(RunnerPasses(Layers))
  BY <1>3 DEF Session
<1>. QED
  BY <1>2, <1>3, <1>4, StepsTold

\* A running launch, its place in its pass, and what it found.
LEMMA RunsAt ==
  ASSUME TypeOK, SeesSerial, NEW passes, NEW off, Told(steps, passes, off),
         NEW i \in Running, NEW b \in steps[i].ins
  PROVE  /\ InTurn(saw[i][b], i, b)
         /\ i \in Nat
         /\ \E p \in 1..Len(passes) : \E m \in 1..Len(Work(passes[p])) :
              i = off[p - 1] + m /\ Echoes(steps[i], Work(passes[p])[m], p)
<1>1. InTurn(saw[i][b], i, b)
  BY DEF SeesSerial
<1>2. i \in 1..Len(steps) /\ i \in Nat
  <2>1. N \in Nat
    BY DEF Told, N
  <2>2. i \in base + 1..encoded /\ base \in 0..N /\ encoded \in base..N
    BY DEF TypeOK
  <2>3. i \in 1..N
    BY <2>1, <2>2
  <2>. QED
    BY <2>1, <2>3 DEF N
<1>3. PICK p \in 1..Len(passes) : \E m \in 1..Len(Work(passes[p])) : i = off[p - 1] + m
  BY <1>2 DEF Told
<1>4. PICK m \in 1..Len(Work(passes[p])) : i = off[p - 1] + m
  BY <1>3
<1>5. Echoes(steps[i], Work(passes[p])[m], p)
  BY <1>4 DEF Told
<1>. QED
  BY <1>1, <1>2, <1>4, <1>5

\* What an earlier step of its pass has written it found as that step or a later one left it.
LEMMA Since ==
  ASSUME NEW v, NEW i \in Nat, NEW b, InTurn(v, i, b), NEW j \in 1..i - 1, b \in steps[j].outs
  PROVE  v \in j..i - 1 /\ v > 0 /\ b \in steps[v].outs
<1>1. v \in 0..i - 1 /\ (v > 0 => b \in steps[v].outs) /\ \A k \in v + 1..i - 1 : b \notin steps[k].outs
  BY DEF InTurn
<1>2. ~(j \in v + 1..i - 1)
  BY <1>1
<1>3. v \in j..i - 1 /\ v > 0
  BY ONLY <1>1, <1>2, i \in Nat, j \in 1..i - 1
<1>. QED
  BY <1>1, <1>3

-----------------------------------------------------------------------------
LEMMA NothingStaleHolds ==
  ASSUME Inv
  PROVE  NothingStale
<1>1. PICK passes, off : Session(Layers, passes) /\ Told(steps, passes, off)
  BY Runs DEF Inv
<1>. SUFFICES ASSUME NEW i \in Running, NEW b \in steps[i].ins, Scratch(b)
              PROVE  saw[i][b] > 0 /\ steps[saw[i][b]].pass = steps[i].pass
  BY DEF NothingStale
<1>2. InTurn(saw[i][b], i, b) /\ i \in Nat
  BY <1>1, RunsAt DEF Inv
<1>3a. PICK p \in 1..Len(passes) : \E m \in 1..Len(Work(passes[p])) :
         i = off[p - 1] + m /\ Echoes(steps[i], Work(passes[p])[m], p)
  BY <1>1, RunsAt DEF Inv
<1>3. PICK m \in 1..Len(Work(passes[p])) : i = off[p - 1] + m /\ Echoes(steps[i], Work(passes[p])[m], p)
  BY <1>3a
<1>4. passes[p] \in RunnerPasses(Layers)
  BY <1>1, ElementOfSeq DEF Session
<1>. DEFINE s == Work(passes[p])
<1>5. Feeds(s, {}) /\ s \in Seq(AnyLaunch)
  BY <1>4, PassesFacts DEF Fit
<1>. HIDE DEF s
<1>6. m \in 1..Len(s) /\ b \in s[m].ins /\ steps[i].pass = p
  BY <1>3 DEF Echoes, s
<1>7. PICK k \in 1..m - 1 : b \in s[k].outs
  BY <1>5, <1>6 DEF Feeds
<1>8. Len(s) \in Nat /\ off[p - 1] \in Nat
  <2>1. p - 1 \in 0..Len(passes)
    BY <1>1 DEF Told
  <2>. QED
    BY <1>1, <1>5, <2>1, LenProperties DEF Told
<1>9. /\ k \in 1..Len(s) /\ off[p - 1] + k \in 1..i - 1
      /\ \A v \in off[p - 1] + k..i - 1 : v \in off[p - 1] + k..off[p - 1] + m
  <2>. DEFINE o == off[p - 1]
              l == Len(s)
  <2>1. o \in Nat /\ l \in Nat /\ m \in 1..l /\ i = o + m
    BY <1>3, <1>6, <1>8
  <2>. HIDE DEF o, l
  <2>2. k \in 1..l /\ o + k \in 1..i - 1 /\ \A v \in o + k..i - 1 : v \in o + k..o + m
    BY ONLY <2>1, k \in 1..m - 1, Earlier
  <2>. QED
    BY <2>2 DEF o, l
<1>10. b \in steps[off[p - 1] + k].outs
  BY <1>1, <1>7, <1>9 DEF Told, Echoes, s
<1>11. saw[i][b] \in off[p - 1] + k..i - 1 /\ saw[i][b] > 0
  <2>1. PICK j \in 1..i - 1 : j = off[p - 1] + k /\ b \in steps[j].outs
    BY <1>9, <1>10
  <2>2. PICK v : v = saw[i][b]
    OBVIOUS
  <2>3. InTurn(v, i, b) /\ i \in Nat /\ j \in 1..i - 1 /\ b \in steps[j].outs
    BY <1>2, <2>1, <2>2
  <2>4. v \in j..i - 1 /\ v > 0
    BY ONLY <2>3, Since
  <2>. QED
    BY <2>1, <2>2, <2>4
<1>12. saw[i][b] \in off[p - 1] + k..off[p - 1] + m
  BY <1>9, <1>11
<1>13. steps[saw[i][b]].pass = p
  BY <1>1, <1>6, <1>9, <1>12, Within DEF Echoes, s
<1>. QED
  BY <1>6, <1>11, <1>13

LEMMA QuantOfItsInputHolds ==
  ASSUME Inv
  PROVE  QuantOfItsInput
<1>1. PICK passes, off : Session(Layers, passes) /\ Told(steps, passes, off)
  BY Runs DEF Inv
<1>. SUFFICES ASSUME NEW i \in Running, NEW b \in steps[i].ins, b \in Quantised
              PROVE  /\ steps[saw[i][b]].ins = steps[i].x
                     /\ \A j \in saw[i][b]..i - 1 : steps[j].outs \cap steps[i].x = {}
  BY DEF QuantOfItsInput
<1>2. InTurn(saw[i][b], i, b) /\ i \in Nat
  BY <1>1, RunsAt DEF Inv
<1>3a. PICK p \in 1..Len(passes) : \E m \in 1..Len(Work(passes[p])) :
         i = off[p - 1] + m /\ Echoes(steps[i], Work(passes[p])[m], p)
  BY <1>1, RunsAt DEF Inv
<1>3. PICK m \in 1..Len(Work(passes[p])) : i = off[p - 1] + m /\ Echoes(steps[i], Work(passes[p])[m], p)
  BY <1>3a
<1>4. passes[p] \in RunnerPasses(Layers)
  BY <1>1, ElementOfSeq DEF Session
<1>. DEFINE s == Work(passes[p])
<1>5. Quants(s) /\ s \in Seq(AnyLaunch)
  BY <1>4, PassesFacts DEF Fit
<1>. HIDE DEF s
<1>6. m \in 1..Len(s) /\ b \in s[m].ins /\ steps[i].x = s[m].x
  BY <1>3 DEF Echoes, s
<1>7. PICK q : QuantBefore(s, q, m, s[m].x)
  BY <1>5, <1>6 DEF Quants
<1>8. /\ q \in 1..m - 1 /\ s[q].ins = s[m].x /\ s[q].outs = Quantised
      /\ \A j \in q..m - 1 : s[j].outs \cap s[m].x = {}
      /\ \A j \in q + 1..m - 1 : s[j].outs \cap Quantised = {}
  BY <1>7 DEF QuantBefore
<1>9. PICK o \in Nat : o = off[p - 1]
  <2>1. p - 1 \in 0..Len(passes)
    BY <1>1 DEF Told
  <2>. QED
    BY <1>1, <2>1 DEF Told
<1>10. q \in 1..Len(s) /\ o + q \in 1..i - 1 /\ i = o + m /\ m \in Nat
  <2>. DEFINE l == Len(s)
  <2>1. l \in Nat /\ m \in 1..l /\ i = o + m
    BY <1>3, <1>5, <1>6, <1>9, LenProperties
  <2>. HIDE DEF l
  <2>2. q \in 1..m - 1
    BY <1>8
  <2>3. q \in 1..l /\ o + q \in 1..i - 1
    BY ONLY <2>1, <2>2, o \in Nat, Earlier
  <2>. QED
    BY <2>1, <2>3 DEF l
<1>11. b \in steps[o + q].outs
  <2>1. Echoes(steps[off[p - 1] + q], s[q], p)
    BY <1>1, <1>10 DEF Told, s
  <2>. QED
    BY <1>8, <1>9, <2>1 DEF Echoes
<1>. DEFINE v == saw[i][b]
<1>12. v \in o + q..i - 1 /\ v > 0 /\ b \in steps[v].outs
  BY <1>2, <1>10, <1>11, Since
<1>. HIDE DEF v
<1>13. ASSUME NEW j \in o + q..i - 1
       PROVE  \E n \in q..m - 1 : j = o + n /\ Echoes(steps[j], s[n], p)
  <2>1. j \in o + q..o + m /\ j # o + m
    BY ONLY <1>10, q \in 1..m - 1, o \in Nat, j \in o + q..i - 1
  <2>2. PICK n \in q..m : n \in 1..Len(s) /\ j = o + n /\ Echoes(steps[j], s[n], p)
    BY <1>1, <1>6, <1>9, <1>10, <2>1, Within DEF s
  <2>3. n # m
    BY <2>1, <2>2
  <2>4. n \in q..m - 1
    BY ONLY <1>8, <1>10, n \in q..m, <2>3
  <2>. QED
    BY <2>2, <2>4
<1>14. PICK n \in q..m - 1 : v = o + n /\ Echoes(steps[v], s[n], p)
  BY <1>12, <1>13
<1>15. n = q
  <2>1. CASE n # q
    <3>1. n \in q + 1..m - 1
      BY ONLY <1>8, <1>10, n \in q..m - 1, <2>1
    <3>2. b \in s[n].outs
      BY <1>12, <1>14 DEF Echoes
    <3>. QED
      BY <1>8, <3>1, <3>2
  <2>. QED
    BY <2>1
<1>16. steps[v].ins = steps[i].x
  BY <1>6, <1>8, <1>14, <1>15 DEF Echoes
<1>17. ASSUME NEW j \in v..i - 1 PROVE steps[j].outs \cap steps[i].x = {}
  <2>1. j \in o + q..i - 1
    BY <1>14, <1>15, <1>17
  <2>2. PICK k \in q..m - 1 : Echoes(steps[j], s[k], p)
    BY <1>13, <2>1
  <2>. QED
    BY <1>6, <1>8, <2>2 DEF Echoes
<1>. QED
  BY <1>16, <1>17 DEF v

\* Every copy takes one buffer of a layer to the other, and none goes where another goes.
Copying(s, from, to) ==
  /\ \A i \in 1..Len(s) : \E l \in 1..Len(Layers), n \in {"state", "conv"} :
       /\ Layers[l] = "linear"
       /\ s[i].ins = {Kept(from, Layers, l, n)} /\ s[i].outs = {Kept(to, Layers, l, n)}
  /\ \A l \in 1..Len(Layers), n \in {"state", "conv"} : Layers[l] = "linear" =>
       \E i \in 1..Len(s) : s[i].outs = {Kept(to, Layers, l, n)}
  /\ \A i, j \in 1..Len(s), l \in 1..Len(Layers), n \in {"state", "conv"} :
       Layers[l] = "linear" /\ Kept(to, Layers, l, n) \in s[i].outs /\ Kept(to, Layers, l, n) \in s[j].outs => i = j
  /\ \A i \in 1..Len(s) : \A b \in s[i].outs : b[1] = to

LEMMA Copied ==
  ASSUME NEW label, NEW known, NEW from, NEW to, NEW s, CopiesOf(s, label, known, from, to)
  PROVE  Copying(s, from, to) /\ Work(CopyPass(s)) = s
<1>1. /\ label \in {"save", "restore", "roll"} /\ known \in BOOLEAN
      /\ from \in {"layer", "saved", "rows"} /\ to \in {"layer", "saved", "rows"}
  BY DEF CopiesOf
<1>2. ASSUME NEW l \in 1..Len(Layers), NEW n \in {"state", "conv"}, NEW k, k = Copy(label, known, from, to, l, n)
      PROVE  k.ins = {Kept(from, Layers, l, n)} /\ k.outs = {Kept(to, Layers, l, n)}
  BY <1>1, <1>2, CopyFacts
<1>3. /\ \A i \in 1..Len(s) : \E l \in 1..Len(Layers), n \in {"state", "conv"} :
           Layers[l] = "linear" /\ s[i] = Copy(label, known, from, to, l, n)
      /\ \A l \in 1..Len(Layers), n \in {"state", "conv"} : Layers[l] = "linear" =>
           \E i \in 1..Len(s) : s[i] = Copy(label, known, from, to, l, n)
      /\ \A i, j \in 1..Len(s), l \in 1..Len(Layers), n \in {"state", "conv"} :
           Layers[l] = "linear" /\ Kept(to, Layers, l, n) \in s[i].outs /\ Kept(to, Layers, l, n) \in s[j].outs => i = j
  BY CopiesFacts
<1>4. (\A i \in 1..Len(s) : \A b \in s[i].outs : b[1] = to) /\ Work(CopyPass(s)) = s
  BY CopiesFit
<1>5. ASSUME NEW i \in 1..Len(s)
      PROVE  \E l \in 1..Len(Layers), n \in {"state", "conv"} :
               /\ Layers[l] = "linear"
               /\ s[i].ins = {Kept(from, Layers, l, n)} /\ s[i].outs = {Kept(to, Layers, l, n)}
  <2>1. PICK l \in 1..Len(Layers), n \in {"state", "conv"} :
          Layers[l] = "linear" /\ s[i] = Copy(label, known, from, to, l, n)
    BY <1>3
  <2>2. s[i].ins = {Kept(from, Layers, l, n)} /\ s[i].outs = {Kept(to, Layers, l, n)}
    BY <1>2, <2>1
  <2>. QED
    BY <2>1, <2>2
<1>6. ASSUME NEW l \in 1..Len(Layers), NEW n \in {"state", "conv"}, Layers[l] = "linear"
      PROVE  \E i \in 1..Len(s) : s[i].outs = {Kept(to, Layers, l, n)}
  <2>1. PICK i \in 1..Len(s) : s[i] = Copy(label, known, from, to, l, n)
    BY <1>3, <1>6
  <2>2. s[i].outs = {Kept(to, Layers, l, n)}
    BY <1>2, <2>1
  <2>. QED
    BY <2>2
<1>. QED
  BY <1>3, <1>4, <1>5, <1>6 DEF Copying

LEMMA RollsFacts == CopiesOf(RollBackTo(Layers), "roll", TRUE, "rows", "layer")
BY DEF CopiesOf, RollBackTo

LEMMA RestoresFacts == CopiesOf(Restore(Layers), "restore", FALSE, "saved", "layer")
BY DEF CopiesOf, Restore

LEMMA SavesFacts == CopiesOf(Save(Layers), "save", FALSE, "layer", "saved")
BY DEF CopiesOf, Save

\* Step i is the m-th launch of the p-th pass.
At(passes, off, p, m, i) ==
  /\ Told(steps, passes, off) /\ Session(Layers, passes)
  /\ p \in 1..Len(passes) /\ m \in 1..Len(Work(passes[p])) /\ i = off[p - 1] + m
  /\ Echoes(steps[i], Work(passes[p])[m], p)

\* Rolling back, behind a batch with snapshots.
LEMMA RollsBackItsOwn ==
  ASSUME NEW passes, NEW off, NEW p, NEW m, NEW i, At(passes, off, p, m, i), steps[i].label = "roll",
         NEW b \in steps[i].ins, NEW own \in steps[i].outs, NEW v, InTurn(v, i, b)
  PROVE  InTurn(v, i, own)
<1>. DEFINE s == Work(passes[p])
            r == Work(passes[p - 1])
<1>0. /\ Told(steps, passes, off) /\ Session(Layers, passes)
      /\ p \in 1..Len(passes) /\ m \in 1..Len(Work(passes[p])) /\ i = off[p - 1] + m
      /\ Echoes(steps[i], Work(passes[p])[m], p)
  BY DEF At
<1>1. /\ passes[p] = CopyPass(RollBackTo(Layers))
      /\ p > 1 /\ passes[p - 1] \in Forwards(Layers, {TRUE})
  <2>1. passes[p] \in RunnerPasses(Layers)
    BY <1>0, ElementOfSeq DEF Session
  <2>2. Work(passes[p])[m].label = "roll"
    BY <1>0 DEF Echoes
  <2>3. passes[p] = CopyPass(RollBackTo(Layers))
    BY <1>0, <2>1, <2>2, PassesFacts DEF Owned
  <2>. QED
    BY <1>0, <2>3 DEF Session
<1>2. /\ \A h \in 1..Len(s) : \E l \in 1..Len(Layers), n \in {"state", "conv"} :
           /\ Layers[l] = "linear"
           /\ s[h].ins = {Kept("rows", Layers, l, n)} /\ s[h].outs = {Kept("layer", Layers, l, n)}
      /\ \A h, j \in 1..Len(s), l \in 1..Len(Layers), n \in {"state", "conv"} :
           Layers[l] = "linear" /\ Kept("layer", Layers, l, n) \in s[h].outs /\ Kept("layer", Layers, l, n) \in s[j].outs => h = j
      /\ \A h \in 1..Len(s) : \A a \in s[h].outs : a[1] = "layer"
  <2>1. PICK c : c = RollBackTo(Layers) /\ CopiesOf(c, "roll", TRUE, "rows", "layer")
    BY <1>0, RollsFacts
  <2>2. Work(CopyPass(c)) = c
    BY ONLY <2>1, Copied
  <2>3. s = c
    BY <1>0, <1>1, <2>1, <2>2
  <2>4. CopiesOf(s, "roll", TRUE, "rows", "layer")
    BY <1>0, <2>1, <2>3
  <2>. HIDE DEF s
  <2>5. Copying(s, "rows", "layer")
    BY ONLY <2>4, Copied
  <2>. QED
    BY <1>0, <2>5 DEF Copying
<1>3. Snapped(r) /\ r \in Seq(AnyLaunch)
  <2>1. {TRUE} \in SUBSET BOOLEAN
    OBVIOUS
  <2>. QED
    BY <1>0, <1>1, <2>1, ForwardsFacts DEF Fit
<1>4. m \in 1..Len(s) /\ steps[i].ins = s[m].ins /\ steps[i].outs = s[m].outs
  BY <1>0 DEF Echoes
<1>. HIDE DEF s, r
<1>5. PICK l \in 1..Len(Layers), n \in {"state", "conv"} :
        /\ Layers[l] = "linear"
        /\ s[m].ins = {Kept("rows", Layers, l, n)} /\ s[m].outs = {Kept("layer", Layers, l, n)}
  BY <1>0, <1>2, <1>4
<1>6. b = Kept("rows", Layers, l, n) /\ own = Kept("layer", Layers, l, n)
  BY <1>0, <1>4, <1>5
<1>7. b[1] = "rows"
  BY <1>0, <1>6, KeptFacts
<1>8. PICK d \in Nat, e \in Nat, x \in Nat :
        d = off[p - 2] /\ e = off[p - 1] /\ x = Len(r) /\ e = d + x /\ i = e + m /\ m \in Nat /\ m >= 1
  <2>1. p - 1 \in 1..Len(passes) /\ (p - 1) - 1 = p - 2 /\ p - 1 \in 0..Len(passes) /\ p - 2 \in 0..Len(passes)
    BY <1>0, <1>1 DEF Told
  <2>2. off[p - 1] \in Nat /\ off[p - 2] \in Nat
    BY <1>0, <2>1 DEF Told
  <2>3. Len(r) \in Nat /\ off[p - 1] = off[p - 2] + Len(r)
    BY <1>0, <2>1 DEF Told, r
  <2>4. m \in Nat /\ m >= 1
    BY <1>0, <1>4
  <2>. QED
    BY <1>0, <2>2, <2>3, <2>4
<1>8b. e = d + x /\ i = e + m /\ m \in Nat /\ m >= 1
  BY <1>0, <1>8
<1>9. /\ \A k \in 1..x : d + k \in 1..Len(steps) /\ Echoes(steps[d + k], r[k], p - 1)
      /\ \A k \in 1..Len(s) : e + k \in 1..Len(steps) /\ Echoes(steps[e + k], s[k], p)
  <2>1. p - 1 \in 1..Len(passes) /\ (p - 1) - 1 = p - 2
    BY <1>0, <1>1
  <2>2. \A k \in 1..Len(r) : off[p - 2] + k \in 1..Len(steps) /\ Echoes(steps[off[p - 2] + k], r[k], p - 1)
    BY <1>0, <2>1 DEF Told, r
  <2>3. \A k \in 1..Len(s) : off[p - 1] + k \in 1..Len(steps) /\ Echoes(steps[off[p - 1] + k], s[k], p)
    BY <1>0 DEF Told, s
  <2>. QED
    BY <1>0, <1>8, <2>2, <2>3
\* The batch has moved the layer, and left the rows it moved it to.
<1>10. PICK k \in 1..x : own \in r[k].outs
  BY <1>0, <1>3, <1>5, <1>6, <1>8 DEF Snapped
<1>11. \A h \in 1..x : own \in r[h].outs <=> b \in r[h].outs
  BY <1>0, <1>3, <1>5, <1>6, <1>8 DEF Snapped, Twins, Twin
<1>12. i \in Nat /\ d + k \in 1..i - 1
  BY ONLY <1>8b, d \in Nat, x \in Nat, k \in 1..x
<1>13. b \in steps[d + k].outs
  BY <1>0, <1>9, <1>10, <1>11 DEF Echoes
<1>14. v \in d + k..i - 1 /\ v > 0 /\ b \in steps[v].outs
  <2>1. PICK j \in 1..i - 1 : j = d + k /\ b \in steps[j].outs
    BY <1>0, <1>12, <1>13
  <2>2. InTurn(v, i, b) /\ i \in Nat /\ j \in 1..i - 1 /\ b \in steps[j].outs
    BY <1>0, <1>12, <2>1
  <2>3. v \in j..i - 1 /\ v > 0 /\ b \in steps[v].outs
    BY ONLY <2>2, Since
  <2>. QED
    BY <1>0, <2>1, <2>3
\* The steps in between are the rest of the batch and the copies before this one.
<1>15. ASSUME NEW j \in d + k..i - 1
       PROVE  \/ \E h \in 1..x : j = d + h /\ Echoes(steps[j], r[h], p - 1)
              \/ \E h \in 1..Len(s) : h < m /\ Echoes(steps[j], s[h], p)
  <2>1. CASE j <= e
    <3>1. j - d \in 1..x /\ j = d + (j - d)
      BY ONLY <1>8b, <2>1, k \in 1..x, j \in d + k..i - 1, d \in Nat, e \in Nat, x \in Nat
    <3>. QED
      BY <1>0, <1>9, <3>1
  <2>2. CASE ~(j <= e)
    <3>1. j - e \in 1..m - 1 /\ j = e + (j - e)
      BY ONLY <1>8b, <2>2, k \in 1..x, j \in d + k..i - 1, d \in Nat, e \in Nat, x \in Nat
    <3>2. PICK y \in Nat : y = Len(s)
      BY <1>0 DEF Told, s
    <3>3. m \in 1..y
      BY <1>0, <1>4, <3>2
    <3>4. j - e \in 1..y /\ j - e < m
      BY ONLY <3>1, <3>3, y \in Nat
    <3>. QED
      BY <1>0, <1>9, <3>1, <3>2, <3>4
  <2>. QED
    BY <1>0, <2>1, <2>2
<1>16. \A h \in 1..Len(s) : b \notin s[h].outs
  <2>1. \A h \in 1..Len(s) : \A a \in s[h].outs : a[1] = "layer"
    BY <1>0, <1>2
  <2>. QED
    BY <1>0, <1>7, <2>1
<1>17. own \in steps[v].outs
  <2>1. CASE \E h \in 1..x : v = d + h /\ Echoes(steps[v], r[h], p - 1)
    BY <1>0, <1>11, <1>14, <2>1 DEF Echoes
  <2>2. CASE \E h \in 1..Len(s) : h < m /\ Echoes(steps[v], s[h], p)
    BY <1>0, <1>14, <1>16, <2>2 DEF Echoes
  <2>. QED
    BY <1>0, <1>14, <1>15, <2>1, <2>2
<1>18. ASSUME NEW j \in v + 1..i - 1 PROVE own \notin steps[j].outs
  <2>1. j \in d + k..i - 1
    BY ONLY <1>12, <1>14, d \in Nat, k \in 1..x, x \in Nat, i \in Nat, j \in v + 1..i - 1
  <2>2. CASE \E h \in 1..x : j = d + h /\ Echoes(steps[j], r[h], p - 1)
    <3>1. b \notin steps[j].outs
      BY <1>0 DEF InTurn
    <3>. QED
      BY <1>0, <1>11, <2>2, <3>1 DEF Echoes
  <2>3. CASE \E h \in 1..Len(s) : h < m /\ Echoes(steps[j], s[h], p)
    <3>1. PICK h \in 1..Len(s) : h < m /\ Echoes(steps[j], s[h], p)
      BY <1>0, <2>3
    <3>2. own \in s[m].outs
      BY <1>0, <1>4
    <3>3. h # m
      BY <1>0, <1>8, <3>1
    <3>4. own \notin s[h].outs
      BY <1>0, <1>2, <1>4, <1>5, <1>6, <3>2, <3>3
    <3>. QED
      BY <1>0, <3>1, <3>4 DEF Echoes
  <2>. QED
    BY <1>0, <1>15, <2>1, <2>2, <2>3
<1>19. v \in 0..i - 1
  BY <1>0 DEF InTurn
<1>. QED
  BY <1>0, <1>17, <1>18, <1>19 DEF InTurn

\* Restoring, some time behind a save.
LEMMA RestoresItsOwn ==
  ASSUME NEW passes, NEW off, NEW p, NEW m, NEW i, At(passes, off, p, m, i), steps[i].label = "restore",
         NEW b \in steps[i].ins, NEW own \in steps[i].outs, NEW v, InTurn(v, i, b)
  PROVE  v > 0 /\ steps[v].ins = {own}
<1>. DEFINE s == Work(passes[p])
<1>0. /\ Told(steps, passes, off) /\ Session(Layers, passes)
      /\ p \in 1..Len(passes) /\ m \in 1..Len(Work(passes[p])) /\ i = off[p - 1] + m
      /\ Echoes(steps[i], Work(passes[p])[m], p)
  BY DEF At
<1>1. \A q \in 1..Len(passes) : Owned(passes[q])
  <2>1. \A q \in 1..Len(passes) : passes[q] \in RunnerPasses(Layers)
    BY <1>0, ElementOfSeq DEF Session
  <2>. QED
    BY <1>0, <2>1, PassesFacts
<1>2. passes[p] = CopyPass(Restore(Layers))
  BY <1>0, <1>1 DEF Echoes, Owned
<1>3. PICK q \in 1..p - 1 : passes[q] = CopyPass(Save(Layers))
  BY <1>0, <1>2 DEF Session
<1>4. Copying(s, "saved", "layer")
  <2>1. PICK c : c = Restore(Layers) /\ CopiesOf(c, "restore", FALSE, "saved", "layer")
    BY <1>0, RestoresFacts
  <2>2. Work(CopyPass(c)) = c /\ Copying(c, "saved", "layer")
    BY ONLY <2>1, Copied
  <2>. QED
    BY <1>0, <1>2, <2>1, <2>2
<1>5. \A h \in 1..Len(passes) : passes[h] = CopyPass(Save(Layers)) => Copying(Work(passes[h]), "layer", "saved")
  <2>1. PICK c : c = Save(Layers) /\ CopiesOf(c, "save", FALSE, "layer", "saved")
    BY <1>0, SavesFacts
  <2>2. Work(CopyPass(c)) = c /\ Copying(c, "layer", "saved")
    BY ONLY <2>1, Copied
  <2>. QED
    BY <1>0, <2>1, <2>2
<1>6. m \in 1..Len(s) /\ steps[i].ins = s[m].ins /\ steps[i].outs = s[m].outs
  BY <1>0 DEF Echoes
<1>. HIDE DEF s
<1>7. PICK l \in 1..Len(Layers), n \in {"state", "conv"} :
        /\ Layers[l] = "linear"
        /\ s[m].ins = {Kept("saved", Layers, l, n)} /\ s[m].outs = {Kept("layer", Layers, l, n)}
  BY <1>0, <1>4, <1>6 DEF Copying
<1>8. b = Kept("saved", Layers, l, n) /\ own = Kept("layer", Layers, l, n)
  BY <1>0, <1>6, <1>7
<1>9. b[1] = "saved"
  BY <1>0, <1>8, KeptFacts
\* The save has saved this layer, before.
<1>10. PICK j \in 1..i - 1 : b \in steps[j].outs
  <2>1. q \in 1..Len(passes) /\ q \in 0..Len(passes) /\ p - 1 \in 0..Len(passes) /\ q - 1 \in 0..Len(passes) /\ q <= p - 1
    <3>1. Len(passes) \in Nat
      BY <1>0 DEF Told
    <3>. QED
      BY ONLY <1>0, <3>1, q \in 1..p - 1
  <2>. DEFINE r == Work(passes[q])
  <2>0. Copying(r, "layer", "saved")
    BY <1>0, <1>3, <1>5, <2>1
  <2>. HIDE DEF r
  <2>1b. \A g \in 1..Len(Layers), z \in {"state", "conv"} : Layers[g] = "linear" =>
           \E k \in 1..Len(r) : r[k].outs = {Kept("saved", Layers, g, z)}
    BY <2>0 DEF Copying
  <2>2. PICK k \in 1..Len(r) : r[k].outs = {b}
    BY <1>7, <1>8, <2>1b
  <2>3. PICK d \in Nat, e \in Nat, x \in Nat, y \in Nat :
          d = off[q - 1] /\ e = off[q] /\ x = Len(r) /\ e = d + x /\ y = off[p - 1] /\ e <= y
    <3>1. Len(r) \in Nat /\ off[q] = off[q - 1] + Len(r)
      BY <1>0, <2>1 DEF Told, r
    <3>2. off[q - 1] \in Nat /\ off[q] \in Nat /\ off[p - 1] \in Nat /\ off[q] <= off[p - 1]
      BY <1>0, <2>1 DEF Told
    <3>. QED
      BY <1>0, <3>1, <3>2
  <2>4. Echoes(steps[d + k], r[k], q)
    BY <1>0, <2>1, <2>3 DEF Told, r
  <2>5. b \in steps[d + k].outs
    BY <1>0, <2>2, <2>4 DEF Echoes
  <2>6. k \in 1..x /\ e = d + x /\ e <= y /\ i = y + m /\ m \in Nat /\ m >= 1
    <3>1. Len(s) \in Nat
      BY <1>0 DEF Told, s
    <3>. QED
      BY <1>0, <1>6, <2>2, <2>3, <3>1
  <2>7. d + k \in 1..i - 1
    BY ONLY <2>6, d \in Nat, e \in Nat, x \in Nat, y \in Nat
  <2>. QED
    BY <1>0, <2>5, <2>7
<1>11. i \in 1..Len(steps) /\ Len(steps) \in Nat
  BY <1>0 DEF Told
<1>12. v \in j..i - 1 /\ v > 0 /\ b \in steps[v].outs
  <2>1. InTurn(v, i, b) /\ i \in Nat /\ j \in 1..i - 1 /\ b \in steps[j].outs
    BY <1>0, <1>10, <1>11
  <2>. QED
    BY ONLY <2>1, Since
\* Only saving writes what is saved, and each layer's from that layer.
<1>13. PICK h \in 1..Len(passes) : \E k \in 1..Len(Work(passes[h])) : v = off[h - 1] + k
  <2>1. v \in 1..Len(steps)
    BY ONLY <1>11, <1>12, j \in 1..i - 1
  <2>. QED
    BY <1>0, <2>1 DEF Told
<1>14. PICK k \in 1..Len(Work(passes[h])) : v = off[h - 1] + k
  BY <1>0, <1>13
<1>. DEFINE w == Work(passes[h])
<1>15. steps[v].ins = w[k].ins /\ steps[v].outs = w[k].outs
  BY <1>0, <1>14 DEF Told, Echoes
<1>16. Copying(w, "layer", "saved")
  <2>1. \E a \in w[k].outs : a[1] = "saved"
    BY <1>0, <1>9, <1>12, <1>15
  <2>2. passes[h] = CopyPass(Save(Layers))
    BY <1>0, <1>1, <2>1 DEF Owned
  <2>. QED
    BY <1>0, <1>5, <2>2
<1>17. k \in 1..Len(w)
  OBVIOUS
<1>. HIDE DEF w
<1>18. PICK g \in 1..Len(Layers), z \in {"state", "conv"} :
         /\ Layers[g] = "linear"
         /\ w[k].ins = {Kept("layer", Layers, g, z)} /\ w[k].outs = {Kept("saved", Layers, g, z)}
  BY <1>0, <1>16, <1>17 DEF Copying
<1>19. Kept("saved", Layers, g, z) = Kept("saved", Layers, l, n)
  BY <1>0, <1>8, <1>12, <1>15, <1>18
<1>20. z = n /\ Nth(Layers, g) = Nth(Layers, l)
  BY <1>0, <1>19 DEF Kept
<1>21. g = l
  BY <1>0, <1>7, <1>18, <1>20, NthFacts
<1>. QED
  BY <1>0, <1>8, <1>12, <1>15, <1>18, <1>20, <1>21

LEMMA PutsBackItsOwnHolds ==
  ASSUME Inv
  PROVE  PutsBackItsOwn
<1>1. PICK passes, off : Session(Layers, passes) /\ Told(steps, passes, off)
  BY Runs DEF Inv
<1>. SUFFICES ASSUME NEW i \in Running, NEW b \in steps[i].ins, NEW own \in steps[i].outs
              PROVE  /\ steps[i].label = "roll" => InTurn(saw[i][b], i, own)
                     /\ steps[i].label = "restore" => saw[i][b] > 0 /\ steps[saw[i][b]].ins = {own}
  BY DEF PutsBackItsOwn
<1>2. PICK v : v = saw[i][b] /\ InTurn(v, i, b)
  BY <1>1, RunsAt DEF Inv
<1>3. PICK p \in 1..Len(passes) : \E m \in 1..Len(Work(passes[p])) :
        i = off[p - 1] + m /\ Echoes(steps[i], Work(passes[p])[m], p)
  BY <1>1, RunsAt DEF Inv
<1>4. PICK m \in 1..Len(Work(passes[p])) : i = off[p - 1] + m /\ Echoes(steps[i], Work(passes[p])[m], p)
  BY <1>3
<1>4b. At(passes, off, p, m, i)
  BY <1>1, <1>4 DEF At
<1>5. ASSUME steps[i].label = "roll" PROVE InTurn(v, i, own)
  BY <1>2, <1>4b, <1>5, RollsBackItsOwn
<1>6. ASSUME steps[i].label = "restore" PROVE v > 0 /\ steps[v].ins = {own}
  BY <1>2, <1>4b, <1>6, RestoresItsOwn
<1>. QED
  BY <1>2, <1>5, <1>6

\* Whatever passes a Runner asks for, over whatever layers, no launch computes with what an
\* earlier pass left in the activations they share.
THEOREM PassesStandAlone == Spec => []NothingStale
<1>1. Inv => NothingStale
  BY NothingStaleHolds
<1>. QED
  BY <1>1, Invariance, PTL

\* Whatever passes a Runner asks for, an int8 matmul multiplies the quantisation of its own
\* input, however many matmuls share that quantisation.
THEOREM SharesItsQuant == Spec => []QuantOfItsInput
<1>1. Inv => QuantOfItsInput
  BY QuantOfItsInputHolds
<1>. QED
  BY <1>1, Invariance, PTL

\* However many layers there are and of which kinds, rolling back and restoring put into each what
\* was kept of it: by the launch that last moved it, or by a save.
THEOREM CopiesGoHome == Spec => []PutsBackItsOwn
<1>1. Inv => PutsBackItsOwn
  BY PutsBackItsOwnHolds
<1>. QED
  BY <1>1, Invariance, PTL
=============================================================================
