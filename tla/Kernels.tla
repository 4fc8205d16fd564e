------------------------------ MODULE Kernels ------------------------------
(***************************************************************************)
(* The life of a kernel in lex-front and lex-msl.  A job is a chain of     *)
(* launches over shared buffers.  The program of a launch is made by a     *)
(* builder, or compiled from a .lx file; it is checked; an accepted one is *)
(* interpreted on `mem` and lowered, and the code of the lowering run on   *)
(* `dev`, from the same start.  The instances of a launch are run one      *)
(* after another by the interpreter, and in the job's order by the lowered *)
(* code: a device promises none.  A job may carry a slip: its first        *)
(* program, or the text of it, was edited by someone who made a mistake.   *)
(***************************************************************************)
EXTENDS KernelIR, Arith

CONSTANTS
    Jobs,            \* [id, unit, backwards, slip]; slip is <<>> or tells the edit
    TaskOf(_),       \* a job's launches, [prog or toks, args, scalars]; what its buffers
                     \* hold at the start, by name; wanted, <<buffer, values by
                     \* element>>: what it is to compute
    Chip,            \* the target: [name, simd, threads, bytes, async, split]
    Dialect,         \* [simd, atom, width, shared] of the code generator
    \* The passes, CompileFile, Check, Run and Lower of the modules of those
    \* names, on a program (or text) and what each is given with it.
    Compiler(_, _), Judge(_, _), Interpreter(_, _, _, _, _), Generator(_, _, _, _, _, _, _, _)

VARIABLES
    job, task, at,   \* the job, what it is to do, and the launch it is at
    stage,           \* "written" -> "built" | "refused"; "built" -> "checked" | "rejected";
                     \* "checked" -> "interpreted" -> "done" -> "written"
    kernel,          \* the launch's program and the schedule to lower it with
    report,          \* what the checker said of the launch
    host, lowered,   \* how the interpreter and the lowered code ended it
    mem, dev         \* the buffers of the one and of the other
vars == <<job, task, at, stage, kernel, report, host, lowered, mem, dev>>

Launch == task.launches[at]
GivenFrom(buffers, l) == [i \in DOMAIN l.args |-> buffers[l.args[i]]]

\* a mutant
ReturnedAlone(buffers, l, globals) ==
    [b \in {l.args[i] : i \in DOMAIN l.args} |-> globals[CHOOSE i \in DOMAIN globals : l.args[i] = b]]

\* A launch leaves its results in the buffers it was given.
Returned(buffers, l, globals) ==
    [b \in DOMAIN buffers |->
        IF \E i \in DOMAIN globals : l.args[i] = b
        THEN globals[CHOOSE i \in DOMAIN globals : l.args[i] = b] ELSE buffers[b]]

\* The schedule of a file, as its kernels are lowered with it.
Scheduled(keys) ==
    [threads |-> keys.threads,
     warps |-> IF "warps" \in DOMAIN keys THEN keys.warps ELSE <<>>,
     pad |-> IF "pad" \in DOMAIN keys THEN keys.pad ELSE 0] @@ Dialect
Compiled(c) == IF c.err # "" THEN c ELSE [err |-> "", prog |-> c.prog, sched |-> Scheduled(c.keys)]
Made(l) ==
    IF "toks" \in DOMAIN l THEN Compiled(Compiler([toks |-> l.toks, target |-> Chip.name], l.consts))
    ELSE [err |-> "", prog |-> l.prog, sched |-> [threads |-> l.threads, warps |-> <<>>, pad |-> 0] @@ Dialect]

NoKernel  == [err |-> ""]
NoReport  == [ok |-> FALSE, diags |-> <<>>, peak |-> 0, tys |-> <<>>]
NoOutcome == [err |-> "", left |-> {}, peak |-> 0]

Init ==
    /\ job \in Jobs /\ at = 1
    /\ \E t \in {TaskOf(job)} : task = t /\ mem = t.buffers /\ dev = t.buffers
    /\ stage = "written" /\ kernel = NoKernel /\ report = NoReport
    /\ host = NoOutcome /\ lowered = ""

\* A builder's program; or parse, and Unit::compile for the target.
Build ==
    /\ stage = "written"
    /\ \E k \in {Made(Launch)} :
          /\ kernel' = k
          /\ stage' = IF k.err = "" THEN "built" ELSE "refused"
    /\ UNCHANGED <<job, task, at, report, host, lowered, mem, dev>>

\* check: a program with a diagnostic goes no further.
CheckKernel ==
    /\ stage = "built"
    /\ \E r \in {Judge(kernel.prog, Chip)} :
          /\ report' = [ok |-> r.ok, diags |-> r.diags, peak |-> r.peak, tys |-> r.tys]
          /\ stage' = IF r.ok THEN "checked" ELSE "rejected"
    /\ UNCHANGED <<job, task, at, kernel, host, lowered, mem, dev>>

\* run_full: every instance must leave nothing behind it.
Interpret ==
    /\ stage = "checked"
    /\ \E r \in {Interpreter(kernel.prog, GivenFrom(mem, Launch), Launch.scalars, job.unit, report.tys)} :
          /\ host' = [err |-> r.err, peak |-> r.peak,
                      left |-> {v \in DOMAIN r.env : r.env[v].k # "index"}]
          /\ mem' = IF r.err = "" THEN Returned(mem, Launch, r.globals) ELSE mem
    /\ stage' = "interpreted"
    /\ UNCHANGED <<job, task, at, kernel, report, lowered, dev>>

\* lower_sched, and the launch of its code.  What ran wrong is not repeated.
Generate ==
    /\ stage = "interpreted" /\ host.err = ""
    /\ \E r \in {Generator(kernel.prog, GivenFrom(dev, Launch), Launch.scalars, report.tys, Chip,
                           kernel.sched, job.unit, job.backwards)} :
          /\ lowered' = r.err
          /\ dev' = IF r.err = "" THEN Returned(dev, Launch, r.globals) ELSE dev
    /\ stage' = "done"
    /\ UNCHANGED <<job, task, at, kernel, report, host, mem>>

\* The next launch of the chain; a kernel that cannot be lowered ends it.
NextLaunch ==
    /\ stage = "done" /\ lowered = "" /\ at < Len(task.launches)
    /\ at' = at + 1
    /\ stage' = "written"
    /\ kernel' = NoKernel /\ report' = NoReport /\ host' = NoOutcome
    /\ UNCHANGED <<job, task, lowered, mem, dev>>

Next == Build \/ CheckKernel \/ Interpret \/ Generate \/ NextLaunch

Spec == Init /\ [][Next]_vars

(* Properties. *)
TypeOK ==
    /\ stage \in {"written", "refused", "built", "rejected", "checked", "interpreted", "done"}
    /\ report.ok \in BOOLEAN /\ report.peak \in Nat /\ host.peak \in Nat
    /\ lowered \in {"", "unsupported", "race", "device race"}
    /\ DOMAIN mem = DOMAIN dev

Ran == stage \in {"interpreted", "done"}

\* The checker (check.rs) is sound for the interpreter (interp.rs): of a
\* program it accepts, whatever the mistake in it, no use finds its value
\* moved, no access leaves its tensor, no operand has another type than the
\* operation wants, no pipe waits for ever and nothing is left unconsumed.
\* Only the reading of elements no one wrote is not its business.
AcceptedNeverGoesWrong == Ran => host.err \in {"", "uninitialised"} /\ host.left = {}

\* The threadgroup memory the checker charges a program with (check.rs:185,
\* `bump`) covers what its run ever holds at once, so that a program within
\* the budget of the target fits.
BudgetCovers == Ran /\ host.err = "" => host.peak <= report.peak

\* What the repository itself writes, in Rust or in .lx, compiles, passes its
\* own checker and runs; all but those with pipes are lowered.
BuildsChecked ==
    job.slip = <<>> =>
        /\ stage \notin {"refused", "rejected"} /\ host.err = ""
        /\ lowered = "unsupported" => \E s \in ToSet(kernel.prog.body.stmts) : s.s = "roles"

\* A kernel of the repository computes its function: attention, products with
\* the weights a file holds, norms, rotations, the delta rule and the
\* convolution with their roll back; and a kernel that is one launch writes
\* nowhere else.  On exact inputs (unit 1), where no rounding hides anything.
ComputesItsFunction ==
    stage = "interpreted" /\ host.err = "" /\ at = Len(task.launches) /\ job.unit = 1 =>
        /\ \A w \in task.wanted : \A e \in DOMAIN w[2] : Agree(<< w[2][e] >>, << mem[w[1]][e] >>)
        /\ at = 1 => \A b \in DOMAIN mem : \A e \in DOMAIN mem[b] :
               mem[b][e] = task.buffers[b][e] \/ \E w \in task.wanted : w[1] = b /\ e \in DOMAIN w[2]

\* The lowering (program.rs) puts a barrier wherever the threads of a group
\* meet in its memory, for every program that is accepted; and in device
\* memory no builder's program has them meet.
NoRace ==
    /\ lowered # "race"
    /\ job.slip = <<>> => lowered # "device race"

\* The code of the lowering leaves what the interpreter leaves, bit for bit
\* where f16 rounds too (unit 2), in whatever order instances run.
LoweredAgrees == stage = "done" /\ lowered = "" => mem = dev
=============================================================================
