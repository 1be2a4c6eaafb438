------------------------------ MODULE Campaign ------------------------------
(***************************************************************************)
(* A campaign over time: processes of kit/runner.py started one after      *)
(* another or beside each other on the same {work} directory, each of them *)
(* possibly killed at any step.  With one process this is the owner's      *)
(* terminal: rows retried, batches resumed.  With several it is a          *)
(* dispatcher that starts rows of its own.                                 *)
(***************************************************************************)
EXTENDS RowRun

CONSTANTS
  Commands,        \* the command lines offered: "run-all", "run-row", ...
  MaxInvocations   \* bound: processes started in one behaviour

ASSUME InvocationsAssumption == MaxInvocations \in Nat

VARIABLE invocations   \* how many processes have been started

vars == <<rowVars, invocations>>

Init == RowInit /\ invocations = 0

Count == invocations < MaxInvocations /\ invocations' = invocations + 1

PrepareAll(w) ==
  /\ "prepare-all" \in Commands /\ Count
  /\ \E kept \in Filters : Invoke(w, "prepare", FALSE, TRUE, 0, kept)

PrepareOne(w) ==
  /\ "prepare-row" \in Commands /\ Count
  /\ \E r \in Rows : Invoke(w, "prepare", FALSE, FALSE, 0, {r})

RunAll(w) ==
  /\ "run-all" \in Commands /\ Count
  /\ \E kept \in Filters, n \in {0} \cup ExplicitNumbers : Invoke(w, "run", FALSE, TRUE, n, kept)

RunOne(w) ==
  /\ "run-row" \in Commands /\ Count
  /\ \E r \in Rows, n \in {0} \cup ExplicitNumbers : Invoke(w, "run", FALSE, FALSE, n, {r})

Batch(w) ==
  /\ "batch" \in Commands /\ Count
  /\ \E kept \in Filters : Invoke(w, "prepare", TRUE, TRUE, 0, kept)

Work(w) == InvocationStep(w) /\ UNCHANGED invocations

\* The process prints its exit code, or its traceback.
Exit(w) == job[w].pc \in {"over", "raised"} /\ Vanish({w}) /\ UNCHANGED invocations

\* It is killed or interrupted, or the machine or the allocation goes away.
Crash(w) == job[w].pc \notin {"idle", "over", "raised"} /\ Vanish({w}) /\ UNCHANGED invocations

Next == \/ \E w \in Workers :
             \/ PrepareAll(w) \/ PrepareOne(w) \/ RunAll(w) \/ RunOne(w) \/ Batch(w)
             \/ Work(w) \/ Exit(w) \/ Crash(w)
        \/ OrphanStep /\ UNCHANGED invocations

\* A running process keeps running and ends; nobody has to start one.
Fairness == \A w \in Workers : WF_vars(Work(w)) /\ WF_vars(Exit(w))

Spec == Init /\ [][Next]_vars /\ Fairness

-----------------------------------------------------------------------------
TypeOK == RowTypeOK /\ invocations \in 0 .. MaxInvocations

\* Every invocation ends: `run --all` gives each scheduled row one turn,
\* whatever fails, is refused, deferred or stale.
InvocationEnds == \A w \in Workers : job[w].pc # "idle" ~> job[w].pc = "idle"

-----------------------------------------------------------------------------
(* One process at a time. *)

AtEndOfRunAll(w) == job[w].pc = "over" /\ job[w].cmd = "run" /\ job[w].every

\* `run --all` that exits 0 leaves every scheduled row at a PASS that read the
\* latest attempts: passing over a row in file order never misses a re-run.
\* Only --attempt with a number below a row's latest attempt leaves that
\* attempt to speak for the row.
OkMeansCurrent ==
  \A w \in Workers : AtEndOfRunAll(w) /\ job[w].first = "OK" =>
    \A r \in job[w].scheduled :
      \/ Verdict(r) = "PASS" /\ ~Stale(r)
      \/ job[w].explicit # 0 /\ job[w].explicit < StateOf(r)[1]

\* A command that outlived its runner may have written what r requires.
FromOrphan(r) ==
  \E o \in Rows, n \in 0 .. MaxAttempt :
    <<o, n>> \in orphans /\ Requires[r] \cap (CmdWrites[o] \cup PrepWrites[o]) # {}

\* A failure costs only the rows that need it: when no failed pilot and no
\* ending allocation has stopped the run, every scheduled row was launched,
\* still stands, or is one whose gate is shut, whose inputs are missing (or were,
\* before a command without a runner wrote them) or that has an attempt of the
\* number asked for.
OnlyDependentsLost ==
  \A w \in Workers : AtEndOfRunAll(w) =>
    \/ job[w].todo # {} /\ job[w].lost \cap Pilots # {}
    \/ job[w].first = "EXHAUSTED"
    \/ \A r \in job[w].scheduled :
         \/ r \in job[w].tried
         \/ Verdict(r) = "PASS" /\ ~Stale(r)
         \/ ~GateOpen(r) \/ ~Ready(r) \/ FromOrphan(r)
         \/ job[w].explicit \in Numbers(r)

\* A batch over all rows in which no command fails exits 0, when the commands
\* that passed wrote their outputs: what prepare --all deferred is prepared in
\* time, and the kit refuses no row of its own accord.
CleanBatchPasses ==
  \A w \in Workers :
    /\ AtEndOfRunAll(w) /\ job[w].batch /\ job[w].clean /\ job[w].scheduled = Rows
    /\ \A r \in Rows : Verdict(r) = "PASS" => WroteOutputs(r)
    => job[w].first = "OK"

-----------------------------------------------------------------------------
(* What the module docstring of runner.py says and the code does not do. *)

\* "the later rows that need it, directly or through rows they need, are
\* refused when reached": no row is launched by a `run --all` in which a row it
\* needs, directly or not, was lost.
LostRowsCostTheirDependents ==
  \A w \in Workers : job[w].pc = "launched" /\ job[w].every =>
    Reached[job[w].row] \cap job[w].lost = {}
=============================================================================
