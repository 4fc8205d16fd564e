------------------------------- MODULE Launch -------------------------------
(***************************************************************************)
(* How a device runs the lists of launches the host hands it: on Metal in  *)
(* one concurrent command buffer with barriers where the tracker of        *)
(* lex-metal/src/device.rs sees a hazard (or one serial encoder under      *)
(* LEX_SERIAL), on CUDA on one in-order stream.  The host waits after each *)
(* list and reads and writes buffers between them.                         *)
(*                                                                         *)
(* A program is one sequence of steps: launches, and accesses of the host. *)
(* Launches with the same job are one list.  The content of a buffer is    *)
(* the number of the step that wrote it (0: as it was at the start), so    *)
(* two steps see the same numbers when they see the same contents.         *)
(***************************************************************************)
EXTENDS Integers, Sequences

CONSTANTS Buffers,
          Programs              \* the encoder a program runs on, and its steps

ASSUME ProgramsAssumption ==
  \A p \in Programs :
    /\ p.encoder \in {"concurrent", "serial", "stream"}
    /\ Len(p.steps) \in Nat
    /\ \A i \in 1..Len(p.steps) : p.steps[i].ins \subseteq Buffers /\ p.steps[i].outs \subseteq Buffers

VARIABLES encoder, steps,       \* the program that runs
          phase,                \* what the host is doing
          base,                 \* steps before this list: all complete
          encoded,              \* steps encoded so far
          written, read,        \* buffers since the last barrier
          barriers, after,      \* barriers in this list; those before each of its launches
          saw,                  \* what each running launch found in the buffers it reads
          done,                 \* launches of this list that are complete
          mem                   \* content of each buffer

host == <<phase, base, encoded, written, read, barriers, after>>
vars == <<encoder, steps, phase, base, encoded, written, read, barriers, after, saw, done, mem>>

N == Len(steps)
Running == DOMAIN saw
Partial(i) == -i                \* being written by launch i
Torn == -N - 1                  \* written by two launches at once

\* What a pipeline binds, and what the tracker takes each binding for: a pipeline
\* that does not say which bindings it writes is taken to write them all.
Bound(s) == s.ins \cup s.outs
Writes(s) == IF s.known THEN s.outs ELSE Bound(s)
Reads(s) == Bound(s) \ Writes(s)

TypeOK ==
  /\ phase \in {"host", "encoding", "waiting"}
  /\ base \in 0..N /\ encoded \in base..N
  /\ written \subseteq Buffers /\ read \subseteq Buffers
  /\ barriers \in Nat /\ after \in [1..N -> Nat]
  /\ Running \subseteq base + 1..encoded /\ done \subseteq (base + 1..encoded) \ Running
  /\ mem \in [Buffers -> Int]

Init ==
  /\ \E p \in Programs : encoder = p.encoder /\ steps = p.steps
  /\ phase = "host" /\ base = 0 /\ encoded = 0
  /\ written = {} /\ read = {}
  /\ barriers = 0 /\ after = [i \in 1..N |-> 0]
  /\ saw = [i \in {} |-> 0] /\ done = {}
  /\ mem = [b \in Buffers |-> 0]

-----------------------------------------------------------------------------
\* The host.

\* Reading or writing a buffer, between lists.
HostAccess ==
  /\ phase = "host" /\ base < N /\ steps[base + 1].by = "host"
  /\ base' = base + 1 /\ encoded' = base + 1
  /\ mem' = [b \in Buffers |-> IF b \in steps[base + 1].outs THEN base + 1 ELSE mem[b]]
  /\ UNCHANGED <<encoder, steps, phase, written, read, barriers, after, saw, done>>

\* run_launches: a new encoder.
Open ==
  /\ phase = "host" /\ base < N /\ steps[base + 1].by = "gpu"
  /\ phase' = "encoding"
  /\ written' = {} /\ read' = {} /\ barriers' = 0
  /\ UNCHANGED <<encoder, steps, base, encoded, after, saw, done, mem>>

More == encoded < N /\ steps[encoded + 1].by = "gpu" /\ steps[encoded + 1].job = steps[base + 1].job

Hazard(s) ==
  \/ Bound(s) \cap written # {}
  \/ Writes(s) \cap read # {}

TrackedFromNext(list, bindings, fenced) ==                       \* a mutant
  IF fenced THEN {} ELSE list \cup bindings

TrackedForever(list, bindings, fenced) == list \cup bindings     \* a mutant

\* The tracker's lists after s, which had a barrier before it or not.
Tracked(list, bindings, fenced) == IF fenced THEN bindings ELSE list \cup bindings

\* One turn of the encoding loop. Only the concurrent encoder tracks anything.
Encode ==
  /\ phase = "encoding" /\ More
  /\ encoded' = encoded + 1
  /\ LET s == steps[encoded + 1]
         fenced == encoder = "concurrent" /\ Hazard(s)
     IN /\ barriers' = IF fenced THEN barriers + 1 ELSE barriers
        /\ written' = IF encoder = "concurrent" THEN Tracked(written, Writes(s), fenced) ELSE written
        /\ read' = IF encoder = "concurrent" THEN Tracked(read, Reads(s), fenced) ELSE read
        /\ after' = [after EXCEPT ![encoded + 1] = barriers']
  /\ UNCHANGED <<encoder, steps, phase, base, saw, done, mem>>

\* commit, or the call that synchronises the stream.
Commit ==
  /\ phase = "encoding" /\ ~More
  /\ phase' = "waiting"
  /\ UNCHANGED <<encoder, steps, base, encoded, written, read, barriers, after, saw, done, mem>>

ReturnUnreset ==                                                 \* a mutant
  /\ phase = "waiting" /\ done = base + 1..encoded
  /\ phase' = "host" /\ base' = encoded
  /\ UNCHANGED <<encoder, steps, encoded, written, read, barriers, after, saw, done, mem>>

ReturnUnwaited ==                                                \* a mutant
  /\ phase = "waiting"
  /\ phase' = "host" /\ base' = encoded /\ done' = {} /\ saw' = [i \in {} |-> 0]
  /\ UNCHANGED <<encoder, steps, encoded, written, read, barriers, after, mem>>

\* wait_until_completed returns.
Return ==
  /\ phase = "waiting" /\ done = base + 1..encoded
  /\ phase' = "host" /\ base' = encoded /\ done' = {}
  /\ UNCHANGED <<encoder, steps, encoded, written, read, barriers, after, saw, mem>>

-----------------------------------------------------------------------------
\* The device.

\* A stream takes a launch at once, a command buffer runs when committed.
Issued == encoder = "stream" \/ phase = "waiting"

\* Launch i of the list may not start before launch j of it is complete.
HeldBy(j, i) == j < i /\ (encoder = "concurrent" => after[j] < after[i])

\* A launch reads its buffers from the moment it starts to the moment it ends.
Begin(i) ==
  /\ Issued /\ i \in (base + 1..encoded) \ (Running \cup done)
  /\ \A j \in base + 1..encoded : HeldBy(j, i) => j \in done
  /\ saw' = [j \in Running \cup {i} |-> IF j = i THEN [b \in steps[i].ins |-> mem[b]] ELSE saw[j]]
  /\ mem' = [b \in Buffers |-> IF b \in steps[i].outs THEN Partial(i) ELSE mem[b]]
  /\ UNCHANGED <<encoder, steps, host, done>>

End(i) ==
  /\ i \in Running
  /\ saw' = [j \in Running \ {i} |-> saw[j]]
  /\ done' = done \cup {i}
  /\ mem' = [b \in Buffers |-> IF b \notin steps[i].outs THEN mem[b]
                               ELSE IF mem[b] = Partial(i) THEN i ELSE Torn]
  /\ UNCHANGED <<encoder, steps, host>>

-----------------------------------------------------------------------------
Finished == phase = "host" /\ base = N /\ UNCHANGED vars

Next ==
  \/ HostAccess \/ Open \/ Encode \/ Commit \/ Return \/ Finished
  \/ \E i \in base + 1..encoded : Begin(i) \/ End(i)

Spec == Init /\ [][Next]_vars

-----------------------------------------------------------------------------
\* v is the step whose output buffer b holds when the steps before i have been run one
\* after another.
InTurn(v, i, b) ==
  /\ v \in 0..i - 1
  /\ v > 0 => b \in steps[v].outs
  /\ \A j \in v + 1..i - 1 : b \notin steps[j].outs

\* run_all: "Same semantics as calling Gpu::run for each in turn". As long as a launch runs,
\* the buffers it reads hold what they would hold had the steps before it been run one
\* after another -- no earlier writer is still to come, no later one has been.
SeesSerial ==
  \A i \in Running : \A b \in steps[i].ins :
    /\ InTurn(saw[i][b], i, b)
    /\ b \notin steps[i].outs => mem[b] = saw[i][b]

\* Whenever the host has control -- to read logits, to write the next token -- every buffer
\* holds what running the steps in turn would have left in it, and nothing is running.
HostSeesSerial ==
  phase = "host" => Running = {} /\ \A b \in Buffers : InTurn(mem[b], base + 1, b)

Conflict(s, t) == Writes(s) \cap Bound(t) # {} \/ Reads(s) \cap Writes(t) # {}

\* "placed only before a dispatch that reads or writes a buffer an unbarriered earlier one
\* wrote, or writes one it read": each barrier has a launch between it and the barrier before
\* that the launch behind it conflicts with; what does not conflict shares the GPU.
BarrierNeeded ==
  phase = "encoding" /\ encoded > base + 1 /\ after[encoded] > after[encoded - 1]
    => \E j \in base + 1..encoded - 1 :
         after[j] = after[encoded - 1] /\ Conflict(steps[j], steps[encoded])
=============================================================================
