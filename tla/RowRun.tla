------------------------------- MODULE RowRun -------------------------------
(***************************************************************************)
(* One invocation of kit/runner.py working through its rows: `prepare`,    *)
(* `run` and `batch`, from the first row to the exit code.                 *)
(*                                                                         *)
(* What outlives an invocation is on disk: per row, numbered attempt       *)
(* directories with start.json and verdict.json, numbered preparation      *)
(* records, and the paths that rows write.  An invocation reads the disk   *)
(* when it decides (skip, prepare, gate), again when it numbers the        *)
(* attempt, again when it records its inputs, and its command reads it     *)
(* later still; every one of these is a step, so that another invocation   *)
(* or a crash may come in between.                                         *)
(*                                                                         *)
(* The modules that start invocations are Campaign (processes started by   *)
(* hand) and ParallelRun (the pool of threads of `parallel_jobs`).         *)
(***************************************************************************)
EXTENDS CampaignFile, Sequences, FiniteSetsExt

CONSTANTS
  Workers,     \* the processes (or threads) that execute invocations
  Allocated,   \* does the campaign run inside an allocation with a planned end
  Filters,     \* the sets of rows that some --seeds argument keeps
  ExplicitNumbers, \* the numbers given as --attempt by some command line
  MaxAttempt   \* bound: attempt numbers of a row

ASSUME WorkersAssumption ==
  /\ MaxAttempt \in Nat /\ Allocated \in BOOLEAN /\ Filters \subseteq SUBSET Rows
  /\ ExplicitNumbers \subseteq Nat \ {0}

AttemptNo == 1 .. MaxAttempt

VARIABLES
  attempts,  \* row -> attempt number -> what its directory holds
  prep,      \* row -> the verdicts of its preparations, oldest first
  paths,     \* the paths that exist
  content,   \* row -> the attempt whose command last wrote its outputs, 0: none
  job,       \* worker -> the invocation it executes
  orphans    \* commands that outlived their runner: row and attempt, 0: preparation

rowVars == <<attempts, prep, paths, content, job, orphans>>

\* The exit codes 0, 1, 2 and 75.
Codes == {"OK", "FAILED", "REFUSED", "EXHAUSTED"}
Verdicts == {"NONE", "NO_VERDICT", "PASS", "FAIL"}
NeverRan == <<0, "NONE">>

\* An attempt directory: `made` is a directory without start.json; `inputs`
\* is what both records say the attempt read; `saw` (not on disk) is what
\* its command really did, as a version of each row's outputs: of the rows it
\* reads the version it found, of its own row the one it wrote, 0 if none.
Absent == [stage |-> "absent", verdict |-> "NO_VERDICT",
           inputs |-> [o \in Rows |-> NeverRan], saw |-> [o \in Rows |-> 0]]

\* An invocation: its arguments, the rows still to come, the row in hand with
\* what was read and decided about it, and the first exit code that was not OK.
\* Bookkeeping: `lost` (the rows that failed or were refused), `tried` (those
\* launched) and `clean` (no command of this invocation has failed).
Idle == [pc |-> "idle", cmd |-> "run", batch |-> FALSE, every |-> FALSE,
         explicit |-> 0, scheduled |-> {}, todo |-> {}, row |-> 0, num |-> 0,
         inputs |-> Absent.inputs, saw |-> Absent.saw, ok |-> FALSE,
         code |-> "OK", first |-> "OK", lost |-> {}, tried |-> {},
         clean |-> TRUE]

-----------------------------------------------------------------------------
(* What the runner reads off the disk. *)

Numbers(r) == {n \in AttemptNo : attempts[r][n].stage # "absent"}
NextNumber(r) == IF Numbers(r) = {} THEN 1 ELSE Max(Numbers(r)) + 1

\* Faulty variant: an attempt without a verdict is passed over.
StateOf_Finished(r) ==
  LET judged == {n \in Numbers(r) : attempts[r][n].verdict # "NO_VERDICT"}
  IN IF judged = {} THEN NeverRan ELSE <<Max(judged), attempts[r][Max(judged)].verdict>>

\* Number and verdict of the latest attempt.  One that has written no verdict
\* hides every earlier one.
StateOf(r) ==
  IF Numbers(r) = {} THEN NeverRan
  ELSE LET n == Max(Numbers(r)) IN <<n, attempts[r][n].verdict>>

Verdict(r) == StateOf(r)[2]
LatestPrep(r) == IF prep[r] = <<>> THEN "NONE" ELSE prep[r][Len(prep[r])]

\* The state of every row r reads, as recorded in start.json.
InputsOf(r) == [o \in Rows |-> IF o \in Reads(r) THEN StateOf(o) ELSE NeverRan]

\* Faulty variant: only a retry that passed makes its readers stale.
Stale_Passed(r) ==
  /\ Verdict(r) = "PASS"
  /\ \E o \in Reads(r) :
       StateOf(o) # attempts[r][Max(Numbers(r))].inputs[o] /\ Verdict(o) = "PASS"

\* The PASS of r read an attempt of some row that is no longer its latest.
Stale(r) ==
  /\ Verdict(r) = "PASS"
  /\ \E o \in Reads(r) :
       StateOf(o) \notin {NeverRan, attempts[r][Max(Numbers(r))].inputs[o]}

GateOpen(r) == \A n \in Needs(r) : Verdict(n) = "PASS"
Missing(r) == Requires[r] \ paths
\* Faulty variant: a preparation that passed is taken for the paths themselves.
Ready_PreparedOnly(r) == r \in Prepares => LatestPrep(r) = "PASS"
Ready(r) == (r \in Prepares => LatestPrep(r) = "PASS") /\ Missing(r) = {}
Deferred(r) == Missing(r) # {} /\ Missing(r) \subseteq Producible(r)

\* The rows in todo that need f and have not passed: what a failed f costs.
NeededLater(todo, f) == {r \in todo : r > f /\ f \in Reached[r] /\ Verdict(r) # "PASS"}

-----------------------------------------------------------------------------
RowInit ==
  /\ attempts = [r \in Rows |-> [n \in AttemptNo |-> Absent]]
  /\ prep = [r \in Rows |-> <<>>]
  /\ paths = {p \in Paths : \A r \in Rows : p \notin CmdWrites[r] \cup PrepWrites[r]}
  /\ content = [r \in Rows |-> 0]
  /\ job = [w \in Workers |-> Idle]
  /\ orphans = {}

\* Start an invocation on a set of rows (those the seed filter keeps).  A file
\* with implicit edges is refused before anything else happens.
Invoke(w, cmd, batch, every, explicit, rows) ==
  /\ ImplicitEdges = {}
  /\ job[w].pc = "idle"
  /\ job' = [job EXCEPT ![w] = [Idle EXCEPT !.pc = "next", !.cmd = cmd, !.batch = batch,
                !.every = every, !.explicit = explicit, !.scheduled = rows, !.todo = rows]]
  /\ UNCHANGED <<attempts, prep, paths, content, orphans>>

\* The row in hand is finished with exit code c; the loop looks at it next.
Return(w, c) == job' = [job EXCEPT ![w].pc = "returned", ![w].code = c]

Next1(w, cmd) == job[w].pc = "next" /\ job[w].cmd = cmd /\ job[w].todo # {}
First(w) == Min(job[w].todo)

-----------------------------------------------------------------------------
(* cmd_prepare: every row's IO, even after a failure. *)

\* `prepare --all` passes over a row whose missing paths an earlier row's
\* command will write, and records nothing.
DeferRow(w) ==
  /\ Next1(w, "prepare")
  /\ job[w].every /\ Deferred(First(w))
  /\ job' = [job EXCEPT ![w].todo = @ \ {First(w)}]
  /\ UNCHANGED <<attempts, prep, paths, content>>

PrepareRow(w) ==
  /\ Next1(w, "prepare")
  /\ ~(job[w].every /\ Deferred(First(w)))
  /\ job' = [job EXCEPT ![w].pc = "preparing", ![w].row = First(w),
                        ![w].num = Len(prep[First(w)]) + 1]
  /\ UNCHANGED <<attempts, prep, paths, content>>

\* prepare_row for a row with nothing to prepare and nothing to look for.
NothingToPrepare(w) ==
  LET r == job[w].row IN
  /\ job[w].pc = "preparing"
  /\ r \notin Prepares /\ Requires[r] = {}
  /\ Return(w, "OK")
  /\ UNCHANGED <<attempts, prep, paths, content>>

\* The prepare commands run, up to the first that fails.  One that exits 0 may
\* have left its paths unwritten.
PrepareCommands(w) ==
  LET r == job[w].row IN
  /\ job[w].pc = "preparing"
  /\ r \in Prepares \/ Requires[r] # {}
  /\ \E ok \in (IF r \in Prepares THEN BOOLEAN ELSE {TRUE}) :
     \E wrote \in SUBSET PrepWrites[r] :
       /\ paths' = paths \cup wrote
       /\ job' = [job EXCEPT ![w].pc = "prepared", ![w].ok = ok,
                             ![w].clean = @ /\ ok /\ wrote = PrepWrites[r]]
  /\ UNCHANGED <<attempts, prep, content>>

\* Faulty variant: the record replaces one that took its number meanwhile.
RecordPreparation_Replace(w) ==
  LET j == job[w]
      pass == j.ok /\ Missing(j.row) = {}
  IN
  /\ j.pc = "prepared"
  /\ prep' = [prep EXCEPT ![j.row] =
                Append(SubSeq(@, 1, j.num - 1), IF pass THEN "PASS" ELSE "FAIL")]
  /\ Return(w, IF pass THEN "OK" ELSE "FAILED")
  /\ UNCHANGED <<attempts, paths, content>>

\* Look for the required paths and publish the record under the number that
\* was counted before the commands ran.  In `run --all` a PASS goes on to the
\* row itself, a FAIL means the row is not run.
RecordPreparation(w) ==
  LET j == job[w]
      r == j.row
      pass == j.ok /\ Missing(r) = {}
  IN
  /\ j.pc = "prepared"
  /\ j.num = Len(prep[r]) + 1
  /\ prep' = [prep EXCEPT ![r] = Append(@, IF pass THEN "PASS" ELSE "FAIL")]
  /\ \/ j.cmd = "run" /\ pass /\ job' = [job EXCEPT ![w].pc = "chosen"]
     \/ j.cmd = "prepare" /\ pass /\ Return(w, "OK")
     \/ ~pass /\ Return(w, "FAILED")
  /\ UNCHANGED <<attempts, paths, content>>

\* Another preparation of the row took the number meanwhile: the exclusive
\* link raises FileExistsError and the process ends.
PreparationClash(w) ==
  /\ job[w].pc = "prepared"
  /\ job[w].num # Len(prep[job[w].row]) + 1
  /\ job' = [job EXCEPT ![w].pc = "raised"]
  /\ UNCHANGED <<attempts, prep, paths, content>>

-----------------------------------------------------------------------------
(* cmd_run, the part before run_row. *)

\* Faulty variant: every PASS is passed over.
Passed_Always(w) == job[w].every /\ Verdict(First(w)) = "PASS"

Passed(w) == job[w].every /\ Verdict(First(w)) = "PASS" /\ ~Stale(First(w))

\* With --all a row whose PASS still stands is passed over.
SkipRow(w) ==
  /\ Next1(w, "run")
  /\ Passed(w)
  /\ job' = [job EXCEPT ![w].todo = @ \ {First(w)}]
  /\ UNCHANGED <<attempts, prep, paths, content>>

\* Faulty variant: only a preparation that failed is done again.
PrepareNow_Failed(w) ==
  LET r == First(w) IN job[w].every /\ Producible(r) # {} /\ GateOpen(r) /\ ~Deferred(r)
                       /\ LatestPrep(r) = "FAIL"

\* A row that `prepare --all` deferred, whose inputs exist now.
PrepareNow(w) ==
  LET r == First(w) IN job[w].every /\ Producible(r) # {} /\ GateOpen(r) /\ ~Deferred(r)
                       /\ LatestPrep(r) # "PASS"

TakeRow(w) ==
  LET r == First(w) IN
  /\ Next1(w, "run")
  /\ ~Passed(w)
  /\ job' = IF PrepareNow(w)
            THEN [job EXCEPT ![w].pc = "preparing", ![w].row = r, ![w].num = Len(prep[r]) + 1]
            ELSE [job EXCEPT ![w].pc = "chosen", ![w].row = r]
  /\ UNCHANGED <<attempts, prep, paths, content>>

-----------------------------------------------------------------------------
(* run_row. *)

\* The gate, and the check that no GPU would wait on IO.
Refuse(w) ==
  /\ job[w].pc = "chosen"
  /\ ~(GateOpen(job[w].row) /\ Ready(job[w].row))
  /\ Return(w, "REFUSED")
  /\ UNCHANGED <<attempts, prep, paths, content>>

\* Faulty variant: the inputs are looked at, the gate is not.
Admit_Ungated(w) ==
  /\ job[w].pc = "chosen"
  /\ Ready(job[w].row)
  /\ job' = [job EXCEPT ![w].pc = "admitted"]
  /\ UNCHANGED <<attempts, prep, paths, content>>

Admit(w) ==
  /\ job[w].pc = "chosen"
  /\ GateOpen(job[w].row) /\ Ready(job[w].row)
  /\ job' = [job EXCEPT ![w].pc = "admitted"]
  /\ UNCHANGED <<attempts, prep, paths, content>>

\* The row's time cap does not fit before the planned end of the allocation.
Exhausted(w) ==
  /\ job[w].pc = "admitted"
  /\ Allocated
  /\ Return(w, "EXHAUSTED")
  /\ UNCHANGED <<attempts, prep, paths, content>>

\* The number asked for, or one more than the highest there is; a number that
\* exists is refused.
ChooseNumber(w) ==
  LET r == job[w].row
      n == IF job[w].explicit # 0 THEN job[w].explicit ELSE NextNumber(r)
  IN
  /\ job[w].pc = "admitted"
  /\ n \in AttemptNo                                   \* the bound
  /\ \/ n \in Numbers(r) /\ Return(w, "REFUSED")
     \/ n \notin Numbers(r) /\ job' = [job EXCEPT ![w].pc = "numbered", ![w].num = n]
  /\ UNCHANGED <<attempts, prep, paths, content>>

\* Faulty variant: the rows it does not read are left out of the record.
RecordInputs_Partial(w) ==
  /\ job[w].pc = "numbered"
  /\ job' = [job EXCEPT ![w].pc = "recorded",
               ![w].inputs = [o \in Reads(job[w].row) |-> StateOf(o)]]
  /\ UNCHANGED <<attempts, prep, paths, content>>

RecordInputs(w) ==
  /\ job[w].pc = "numbered"
  /\ job' = [job EXCEPT ![w].pc = "recorded", ![w].inputs = InputsOf(job[w].row)]
  /\ UNCHANGED <<attempts, prep, paths, content>>

\* write_durably(start.json), first half: the attempt directory.
MakeDirectory(w) ==
  LET r == job[w].row  n == job[w].num IN
  /\ job[w].pc = "recorded"
  /\ attempts' = [attempts EXCEPT ![r][n].stage = IF @ = "absent" THEN "made" ELSE @]
  /\ job' = [job EXCEPT ![w].pc = "made"]
  /\ UNCHANGED <<prep, paths, content>>

\* Faulty variant: start.json is renamed into place, over one that is there.
LinkStart_Rename(w) ==
  LET r == job[w].row  n == job[w].num IN
  /\ job[w].pc = "made"
  /\ attempts' = [attempts EXCEPT ![r][n] =
                    [@ EXCEPT !.stage = "started", !.inputs = job[w].inputs]]
  /\ job' = [job EXCEPT ![w].pc = "launched", ![w].tried = @ \cup {r}]
  /\ UNCHANGED <<prep, paths, content>>

\* Second half: the link that publishes start.json only if there is none.
LinkStart(w) ==
  LET r == job[w].row  n == job[w].num IN
  /\ job[w].pc = "made"
  /\ attempts[r][n].stage = "made"
  /\ attempts' = [attempts EXCEPT ![r][n] =
                    [@ EXCEPT !.stage = "started", !.inputs = job[w].inputs]]
  /\ job' = [job EXCEPT ![w].pc = "launched", ![w].tried = @ \cup {r}]
  /\ UNCHANGED <<prep, paths, content>>

StartClash(w) ==
  /\ job[w].pc = "made"
  /\ attempts[job[w].row][job[w].num].stage = "started"
  /\ job' = [job EXCEPT ![w].pc = "raised"]
  /\ UNCHANGED <<attempts, prep, paths, content>>

\* The command reads its inputs, may write its outputs, and ends.  Whether it
\* exits 0 and its bars are met is open either way: a row may have no bars, and
\* a bar may find a file that an earlier attempt wrote.  A deadline kill (of
\* the whole group) is an end that is not ok.
CommandReads(w) ==
  LET r == job[w].row IN
  /\ job[w].pc = "launched"
  /\ job' = [job EXCEPT ![w].pc = "running",
               ![w].saw = [o \in Rows |-> IF o \in Reads(r) THEN content[o] ELSE 0]]
  /\ UNCHANGED <<attempts, prep, paths, content>>

CommandWrites(w) ==
  LET r == job[w].row IN
  /\ job[w].pc = "running"
  /\ content' = [content EXCEPT ![r] = job[w].num]
  /\ paths' = paths \cup CmdWrites[r]
  /\ job' = [job EXCEPT ![w].pc = "written", ![w].saw[r] = job[w].num]
  /\ UNCHANGED <<attempts, prep>>

CommandEnds(w) ==
  /\ job[w].pc \in {"running", "written"}
  /\ \E ok \in BOOLEAN :
       job' = [job EXCEPT ![w].pc = "ended", ![w].ok = ok, ![w].clean = IF ok THEN @ ELSE FALSE]
  /\ UNCHANGED <<attempts, prep, paths, content>>

\* write_durably(verdict.json): only if there is none.
WriteVerdict(w) ==
  LET r == job[w].row  n == job[w].num IN
  /\ job[w].pc = "ended"
  /\ attempts[r][n].verdict = "NO_VERDICT"
  /\ attempts' = [attempts EXCEPT ![r][n] =
       [@ EXCEPT !.verdict = IF job[w].ok THEN "PASS" ELSE "FAIL", !.saw = job[w].saw]]
  /\ Return(w, IF job[w].ok THEN "OK" ELSE "FAILED")
  /\ UNCHANGED <<prep, paths, content>>

-----------------------------------------------------------------------------
(* The end of the loop body, and of the invocation. *)

\* Faulty variant: a row that is refused ends the loop.
StopHere_Refused(j) ==
  j.cmd = "run" /\ j.code # "OK"
    /\ (~j.every \/ j.code \in {"EXHAUSTED", "REFUSED"} \/ (j.row \in Pilots /\ NeededLater(j.todo, j.row) # {}))

\* Does the loop end at the row that returned a code other than OK?
StopHere(j) ==
  /\ j.cmd = "run" /\ j.code # "OK"
  /\ ~j.every \/ j.code = "EXHAUSTED" \/ (j.row \in Pilots /\ NeededLater(j.todo, j.row) # {})

\* Faulty variant: a refused row is kept for another turn.
Collect_Again(w) ==
  /\ job[w].pc = "returned"
  /\ job' = [job EXCEPT ![w].pc = IF StopHere(job[w]) THEN "over" ELSE "next",
               ![w].todo = IF job[w].code = "REFUSED" THEN @ ELSE @ \ {job[w].row},
               ![w].code = "OK"]
  /\ UNCHANGED <<attempts, prep, paths, content>>

Collect(w) ==
  LET j == job[w]
      failed == IF j.code = "OK" THEN {} ELSE {j.row}
  IN
  /\ j.pc = "returned"
  /\ job' = [job EXCEPT ![w] =
       [j EXCEPT !.pc = IF StopHere(j) THEN "over" ELSE "next",
                 !.todo = @ \ {j.row}, !.row = 0, !.num = 0, !.ok = FALSE,
                 !.inputs = Absent.inputs, !.saw = Absent.saw, !.code = "OK",
                 !.first = IF @ = "OK" \/ j.code = "EXHAUSTED" THEN j.code ELSE @,
                 !.lost = @ \cup failed]]
  /\ UNCHANGED <<attempts, prep, paths, content>>

\* All rows are done.  `batch` goes on to `run --all` whatever the
\* preparations said.
LoopEnds(w) ==
  LET j == job[w] IN
  /\ j.pc = "next" /\ j.todo = {}
  /\ job' = [job EXCEPT ![w] =
       IF j.batch /\ j.cmd = "prepare"
       THEN [j EXCEPT !.cmd = "run", !.todo = j.scheduled, !.first = "OK", !.lost = {}]
       ELSE [j EXCEPT !.pc = "over"]]
  /\ UNCHANGED <<attempts, prep, paths, content>>

\* One step of the invocation of w.  None of them starts a command that is
\* meant to outlive the invocation.
InvocationStep(w) ==
  /\ UNCHANGED orphans
  /\ \/ DeferRow(w) \/ PrepareRow(w) \/ NothingToPrepare(w) \/ PrepareCommands(w)
     \/ RecordPreparation(w) \/ PreparationClash(w)
     \/ SkipRow(w) \/ TakeRow(w) \/ Refuse(w) \/ Admit(w) \/ Exhausted(w) \/ ChooseNumber(w)
     \/ RecordInputs(w) \/ MakeDirectory(w) \/ LinkStart(w) \/ StartClash(w)
     \/ CommandReads(w) \/ CommandWrites(w) \/ CommandEnds(w) \/ WriteVerdict(w)
     \/ Collect(w) \/ LoopEnds(w)

\* The commands that the workers ws have under way.  Each is the leader of a
\* session of its own, so it survives the end of its runner.
UnderWay(ws) ==
  {<<job[w].row, job[w].num>> : w \in {v \in ws : job[v].pc \in {"launched", "running", "written"}}}
    \cup {<<job[w].row, 0>> : w \in {v \in ws : job[v].pc = "preparing"}}

\* The workers ws are gone, over or killed or interrupted.  The commands they
\* leave go on, or have been ended with the allocation.
Vanish(ws) ==
  /\ job' = [w \in Workers |-> IF w \in ws THEN Idle ELSE job[w]]
  /\ \E left \in SUBSET UnderWay(ws) : orphans' = orphans \cup left
  /\ UNCHANGED <<attempts, prep, paths, content>>

\* A command whose runner is gone writes, at any time and as often as it
\* likes.  Nobody judges it, and nobody learns that it has ended.
OrphanWrites(r, n) ==
  /\ <<r, n>> \in orphans
  /\ content' = IF n = 0 THEN content ELSE [content EXCEPT ![r] = n]
  /\ paths' = paths \cup IF n = 0 THEN PrepWrites[r] ELSE CmdWrites[r]
  /\ UNCHANGED <<attempts, prep, job, orphans>>

OrphanStep == \E r \in Rows, n \in 0 .. MaxAttempt : OrphanWrites(r, n)

-----------------------------------------------------------------------------
Pcs == {"idle", "next", "preparing", "prepared", "chosen", "admitted", "numbered",
        "recorded", "made", "launched", "running", "written", "ended", "returned",
        "over", "raised"}

RowState == (0 .. MaxAttempt) \X Verdicts
AttemptRecord ==
  [stage : {"absent", "made", "started"}, verdict : {"NO_VERDICT", "PASS", "FAIL"},
   inputs : [Rows -> RowState], saw : [Rows -> 0 .. MaxAttempt]]
Invocation ==
  [pc : Pcs, cmd : {"run", "prepare"}, batch : BOOLEAN, every : BOOLEAN,
   explicit : Nat, scheduled : SUBSET Rows, todo : SUBSET Rows, row : 0 .. NRows,
   num : Nat, inputs : [Rows -> RowState], saw : [Rows -> 0 .. MaxAttempt],
   ok : BOOLEAN, code : Codes, first : Codes, lost : SUBSET Rows, tried : SUBSET Rows,
   clean : BOOLEAN]

RowTypeOK ==
  /\ attempts \in [Rows -> [AttemptNo -> AttemptRecord]]
  /\ prep \in [Rows -> Seq({"PASS", "FAIL"})]
  /\ paths \subseteq Paths
  /\ content \in [Rows -> 0 .. MaxAttempt]
  /\ job \in [Workers -> Invocation]
  /\ orphans \subseteq Rows \X (0 .. MaxAttempt)

-----------------------------------------------------------------------------
(* What holds of the rows, for the modules that start invocations to check. *)

Holding == {"launched", "running", "written", "ended"}
Holds(w, r, n) == job[w].pc \in Holding /\ job[w].row = r /\ job[w].num = n
Latest(r) == attempts[r][Max(Numbers(r))]

-----------------------------------------------------------------------------
(* Any number of processes. *)

\* An attempt that has started and has no verdict yet belongs to at most one
\* process, and a process past its start.json owns such an attempt: two
\* processes that chose the same number never both launch
\* (write_durably links start.json exclusively).
AttemptOwned ==
  \A w \in Workers :
    job[w].pc \in Holding =>
      /\ job[w].row \in Rows /\ job[w].num \in AttemptNo
      /\ attempts[job[w].row][job[w].num].stage = "started"
      /\ attempts[job[w].row][job[w].num].verdict = "NO_VERDICT"
      /\ \A v \in Workers \ {w} : ~Holds(v, job[w].row, job[w].num)

\* Nothing recorded is ever overwritten: a published start.json and its inputs
\* stand, a published verdict stands, preparation records are only added.
EvidenceStands ==
  [][\A r \in Rows :
       /\ \A n \in AttemptNo :
            LET a == attempts[r][n]  b == attempts'[r][n] IN
            /\ a.stage = "started" => b.stage = "started" /\ b.inputs = a.inputs
            /\ a.verdict # "NO_VERDICT" => b.verdict = a.verdict
       /\ Len(prep'[r]) >= Len(prep[r])
       /\ \A k \in 1 .. Len(prep[r]) : prep'[r][k] = prep[r][k]]_rowVars

\* A command only starts when the paths its row requires exist, however many
\* processes prepare and run beside it (not_ready before the launch).
LaunchedOnInputs ==
  \A w \in Workers : job[w].pc \in Holding => Requires[job[w].row] \subseteq paths

(* These hold as long as one process at a time works on the campaign. *)

\* A row is launched, and runs to its verdict, under an open gate: every row
\* it needs and every earlier pilot stands at PASS (gate in run_row).
LaunchedOnPass == \A w \in Workers : job[w].pc \in Holding => GateOpen(job[w].row)

\* The version v of row r comes from a command that outlived its runner: an
\* attempt up to n that has no verdict and gets none.
LeftBehind(r, v, n) == v \in 1 .. n /\ attempts[r][v].verdict = "NO_VERDICT"

\* The PASS of r was given to a command that wrote its outputs.
WroteOutputs(r) == attempts[r][StateOf(r)[1]].saw[r] = StateOf(r)[1]

\* The outputs of a row whose latest verdict is PASS, given to a command that
\* wrote them, are those of that attempt, also after crashes in the middle of
\* later or earlier attempts; only the command of an earlier attempt that was
\* cut off and is still alive may have written over them (runner.py starts a
\* command in a session of its own).  Never are they those of a later attempt,
\* or of an earlier one that was judged.
PassDescribesOutputs ==
  \A r \in Rows : Verdict(r) = "PASS" /\ WroteOutputs(r) =>
    content[r] = StateOf(r)[1] \/ LeftBehind(r, content[r], StateOf(r)[1] - 1)

\* A PASS that `run --all` would pass over read what is on disk now: a retry,
\* successful, failed or cut off, never leaves an old result standing.  Again
\* a command that outlived its runner may have changed the disk, but only one
\* of an attempt no later than the one the PASS records as read.
StandingPassIsCurrent ==
  \A r \in Rows : Verdict(r) = "PASS" /\ ~Stale(r) =>
    \A o \in Reads(r) : \/ content[o] = Latest(r).saw[o]
                        \/ LeftBehind(o, content[o], Latest(r).inputs[o][1])
=============================================================================
