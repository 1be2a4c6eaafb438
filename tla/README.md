# Continual-learning kit: TLA+ models and proofs

This directory models the stateful parts of `src/kit`: the campaign runner, the
handoff of a job chain, the controller of a lane of GPU commands, the rows
and GPU-hour ledger of the next-message dispatch, the snapshots and node tasks
of message 2, and the run-time limit and budget gate of package 4. TLC checks the models on
small instances; TLAPS proves every safety property of the eight specifications
that a run checks, for every instance.

The kit itself computes little that a model could say something about; what it
does is keep *records on a shared disk* while jobs start, race, end, fail and
are killed. A row of an experiment counts when its records say it passed, so
what can go wrong is a record that says more than happened: an old PASS that
outlives a retry, a generation that mixes two moments, a lane whose commands
ran on different GPUs, hours charged twice, a block that goes on after one of its
jobs ran into its limit. The properties here are about that.

Contents: 1 the system, 2 the modules and how they correspond to the code,
3 what is checked, 4 fairness, 5 what is proved, 6 what the models showed about
the code, 7 what is left out, 8 the plan.

## 1. The system

### 1.1 Components that are modelled

**Campaign file** (`src/kit/runner.py`, `load_campaign` and the helpers on
edges). State: none. A campaign is a list of *rows*; a row names rows it
`needs` (a gate), `wants` (inputs it can do without), an `order` among them,
and paths it `requires`; pilots are rows every later row needs. Correct when
the derived relations (which rows are read, which paths another row will
produce, which orders the file relies on without saying) agree with what the
runner does with them.

**Campaign runner** (`prepare`, `run --row`, `run --all`, `batch` of
`src/kit/runner.py`). State, all on disk: per row, numbered attempt directories
with `start.json` (published by an exclusive link) and `verdict.json`; numbered
preparation records; the paths rows write. Every invocation is a fresh process
that decides from the disk alone. Hard: the disk is read at several moments
(skip, prepare, gate, number, inputs, the command itself) and other processes
and crashes come in between; a command has a session of its own and may outlive
a runner that was killed or interrupted; a killed attempt hides an earlier PASS; a
re-run makes later results stale; a number may be given by hand. Correct when no
row is launched with a needed row not at PASS, no PASS that a re-run has made
obsolete is passed over, records are never replaced, a failure costs exactly the
rows that depend on it, and the exit code can be trusted.

**Parallel scheduler** (`cmd_run_parallel`). State: in memory, the rows still to
hand out, those done, whether to stop, the exit code; each thread runs a one-row
invocation of the runner over the same disk. Hard: completion order, a pilot
failing while others run, an exception in a thread, a seed filter that removes
rows others depend on. Correct when no thread runs beside a row it reads, the
dispatch loop cannot stall, and all dispatched work is collected.

**Durable handoff** (`src/kit/message_handoff.py`, called by
`src/kit/message_job.sh` as `README-message.md` prescribes). State: the node's
`OUT`, the durable tree with its generations and the `CURRENT` pointer, the
lock. Jobs of a chain restore `OUT`, write to it, and save it at the end or when
they are told to stop. Hard: a save killed anywhere, a stage that still writes
during a save, a job that continues on another node, filesystems without
flock. Correct when `CURRENT` always names a whole generation that `OUT` really
was at one instant, no commit is undone, and local evidence survives a restore.

**Lane pool** (`run` of `src/kit/lane_pool.py`). State: the controller's record,
its copy `lane.json`, the children, the required paths. A controller runs a few
commands at a time on one allocated GPU, stops admitting when one fails or is
not ready, and can be resumed in the same allocation. Hard: children outlive a
killed controller; the record on disk trails the one in memory; a resume takes
over part of a record; a signal may come at any instruction, the cleanup included.
Correct when a COMPLETE lane is the work of one allocation, no command has two
processes, and a controller always ends and, unless it is killed, leaves nothing
running (which it does not always do, 6.1).

**Next-message rows and ledger** (`run`, `current` of `src/kit/nm_jobs.py`;
`reserve`, `reconcile` of `src/kit/nm_budget.py`). State: a receipt per attempt,
a pointer per row with the hash of a receipt, the row locks and the budget lock.
Attempts of rows in several allocations reserve GPU-hours and run; an accounting
row asks the scheduler for ends of allocations and charges receipts. Hard: two
writers of a receipt, a scheduler that does not answer or answers for a later run
of a requeued job, death between the receipt and the pointer, a reservation that
does not bound what its allocation costs. Correct when a row runs on completed
dependencies, the allowance is exceeded by no more than allocations overran their
reservations, and each allocation is charged once and never below its cost.

**Message-2 snapshots** (`publish`, `read_pointer`, `restore` and the removal of
unfinished archives in `src/kit/m2_snapshot.py`). State: per stage, archives
named by digest, two receipts each, `CURRENT.json`. Hard: a publication killed
between archive, receipts and pointer; a reader that has read a pointer while
its archive is being retired. Correct when `CURRENT` names a complete archive, a
finished snapshot stands for ever, and nothing in use is removed.

**Message-2 node tasks** (`run_task`, `publish_barrier` of `src/kit/m2_node.py`).
State: on the node, the tree `out` and `inputs.json`; on the shared disk, the
task's snapshot and its barrier. A run may be ended anywhere, and the partner
queues the same task again. Hard: the local tree survives the run that half
made it; inputs may be refreshed between two runs; a TERM may be swallowed; commands
may outlive a killed run; a task may be finished and its barrier not committed.
Correct when nothing of another version of an input gets into a snapshot, a finished
one has all the inputs it names, and requeuing leads to finished tasks and committed
barriers (unless a tree lacks an input, 6.1).

**Run-time limit** (`recover` and the run of a GPU row in `src/kit/p4_run.py`, the
watchdog `src/kit/p4_watchdog.py`). State: the record of each attempt, the
watchdog's own record, the stop file of the block, the processes. A job is ended
at its limit by its wrapper or, when that is gone, by its watchdog; the next
wrapper of the block finishes the records of those before it. Hard: both act on
one job and either may be killed between any two writes; nobody may have seen
when a job ended. Correct when no job of a block is launched after one that ran
into its limit, no attempt is charged less than its job ran, and each job is
ended by whoever is left.

**Package-4 budget gate** (`evaluate_gate`, the ledger and retries in
`src/kit/p4_budget.py`; the outcome of a row in `src/kit/p4_run.py`). State: the
history of attempts of a block's rows. Every GPU row asks for a limit before it
launches. Hard: waits, refusals, failures and retries are charged; rows are
asked in any order the runner allows. Correct when the trainings never eat into
what the outstanding scorings need, qualification never eats into the reserve,
and there is one training retry in the block.

### 1.2 How they interact

The runner starts every command of a campaign, and its parallel form runs the
same code in threads over the same disk. Commands of rows start lanes
(`lane_pool`), write to `OUT`, and read what earlier rows left. The job script
brackets all of it with `restore` and `save`. The next-message rows are
submitted one process per row to the scheduler and meet in receipts, pointers
and locks. Message-2 tasks meet in snapshots and barriers: one task's `CURRENT`
is another's input. A GPU row of package 4 is a command of the campaign runner
that wraps another command: the wrapper passes the budget gate, launches the
job, starts the watchdog and writes the record from which later gates compute
what was spent. All interaction is by files, `flock`, child processes, signals and
exit codes (75 for "not now"); nothing is exchanged over a network, except the
scheduler's answers (`squeue`, `sacct`) which may fail to come.

### 1.3 Components that are not modelled yet, or not at all

`PROJECT.json` lists all of them with their reasons. Stateful and planned:

| part | sources | state and hard behaviour |
|---|---|---|
| containment, hard stops, retries | `p4_contain`, `v4_ack`, `v4_retry` | acknowledged stops, a retry that must not repeat what was done (`v4_retry.py:208`) |
| checkpoint retention | `v4_retention` | an intent, several unlinks, replay after a crash (`v4_retention.py:269`) |
| teacher journal | `v4_teacher` | a journal per attempt, rounds, merged shards (`v4_teacher.py:634`) |
| message-2 GPU phases | `m2_node` (`run_staged`, `gpu_leases`) | a task split into staging, GPU and publication on one host; leases on GPUs (`m2_node.py:62`, `:567`) |
| 3A/4A ledger, PD storage | `a4_common`, `a4_jobs`, `pd_jobs` | the remainder of held time over requeues (`a4_common.py:419`, `a4_jobs.py:541`, `:584`), storage reserved before it is used (`pd_jobs.py:164`, `:242`) |
| staging, utilisation watcher | `stage_local`, `util_watch` | a marker that must not precede the data (`stage_local.py:111`, `:180`), signals before the child exists (`util_watch.py:257`) |
| rest of the modelled files | `message_handoff.py:260`, `lane_pool.py:157`, `runner.py:680` | scoring epochs; the bounded wait for an engine's start-up lock; the `v4` containment branch |
| rest of the package-4 files | `p4_budget`, `p4_run` | bridges and self-test blocks, frozen inputs, recipes and selection: comparisons of recorded files whose only effect is a refusal |

Not worth a model: trainers, scorers, rewards, readers, reports, data mixing and
text packing are functions of their input or numerical code with tests of their
own; the inference engine and the scheduler are other people's programs; the
simulators stand in for them.

## 2. The modules

```
CampaignFile <- RowRun <- Campaign    <- MC_Campaign
                       <- ParallelRun <- MC_ParallelRun
                          Campaign, ParallelRun, SetFacts <- RunnerProof
HandoffLock  <- Handoff               <- MC_Handoff,  HandoffProof
                LanePool              <- MC_LanePool, LanePoolProof
                NmRows                <- MC_NmRows;   NmRows, SetFacts <- NmRowsProof
SnapshotStore <- NodeTask             <- MC_NodeTask, NodeTaskProof
StageRegister <- (abstract, instantiated by NodeTask)
JobWatch     <- RunLimit              <- MC_RunLimit, RunLimitProof
                BudgetGate            <- MC_BudgetGate; BudgetGate, SetFacts <- BudgetGateProof
```

The MC modules only name the small campaign files, plans and symmetry sets that
the `.cfg` files use. Definitions marked *Faulty variant* are not part of any
specification: each is a form the code could have had by a plausible mistake,
kept beside the definition it varies to show that a property depends on it.

**`CampaignFile`** holds the rows and edges as constants (a row is its position
in the file) and the derived relations: `Needs`, `Reads`, `Producible`,
`Reached`, `ImplicitEdges`.

**`RowRun`** is one invocation. `attempts[r][n]` is the attempt directory:
`absent`, `made` (a directory without `start.json`) or `started`, with the
inputs it recorded and its verdict. `prep[r]` are the preparation records,
`paths` the paths that exist, `content[r]` the attempt whose command last wrote
row `r`'s outputs, `orphans` the commands that outlived their runner. `job[w]` is the invocation of worker `w`; its `pc` names the
next access to the disk. Where the code reads or writes the disk, the model has
a step of its own: `SkipRow`/`TakeRow` (the loop of `cmd_run`),
`DeferRow` (the loop of `cmd_prepare`), `PrepareRow`, `PrepareCommands`,
`RecordPreparation` (`prepare_row`), `Refuse`/`Admit` (the gate and `not_ready` of
`run_row`), `Exhausted`, `ChooseNumber`, `RecordInputs`,
`MakeDirectory`, `LinkStart` (the two halves of publishing `start.json`),
`CommandReads`, `CommandWrites`, `CommandEnds` (the command, which may exit 0 without
having written: bars are optional and accept files of earlier attempts),
`WriteVerdict`, `Collect`, `LoopEnds` (the loop and the exit code). `Vanish` is the
end of a runner; it may leave the command it had under way, and `OrphanWrites` is
such a command writing at any time and as often as it likes. `saw` records what
the command really read, and whether it wrote; it is not on disk and only the
properties look at it.

**`Campaign`** starts invocations in processes (`PrepareAll`, `PrepareOne`,
`RunAll`, `RunOne`, `Batch`), the runs with or without `--attempt`, lets them work,
exit, or crash at any step.

**`ParallelRun`** has the main thread of `cmd_run_parallel`: `Dispatch`, `Wait`,
`CollectFutures`, `AllCollected`, `Unwind` (a thread raised), `MainExits`,
`MainCrashes`; a thread executes a one-row invocation of `RowRun` and is handed the
`--attempt` of the run (`asked`). Further workers are processes that prepare or run
single rows of the same campaign meanwhile. Its
specification is `PoolSpec`, so that one module can speak of both.

**`HandoffLock`** is `locked()`: the flock, or the directory `.handoff.lock.d` with
its owner, judged dead and cleared by the next process. **`Handoff`** adds save,
one step per file for the inventory, the copy and the second look, then the
rename, `CURRENT` and the cleanup; restore, one step per file moved aside and
filled; the writes of the job's stages at any moment; the death of any process
at any step; and the next job, on this node or an empty one. A file's version
is the number of the write that made it and stands for content, size and time.

**`LanePool`** is the controller's loop: `Start` or `Resume`, `Admit`, `Poll`,
`PassOver`, `NotReady`, `Spawn`, `SpawnFails`, `Register`, `WriteRecord`, `Drained`,
`Raise`, `Reap`, `Finish`; around it commands end, paths are supplied, the
controller is killed, and an allocation follows another. An exception or signal may
come at any step; a second one during the cleanup ends that too. `orphans` are the
processes no controller has in hand, `window` tells whether a launch is not written
yet or was not when a controller ended; only the properties look at it.

**`NmRows`** has an attempt (`Begin`, `Admit`, `Reserve`, `CommandEnds`,
`WriteReceipt`, `WritePointer`), the accounting row (`BeginAccount`, `Load`,
`Query`, `Charge`, `Repoint`, `EndAccount`, `AccountDies`), the end of an allocation,
which takes every process in it along and may cost more than was reserved, and
`Requeue`, after which the same job runs again in another allocation. An allocation
is one run of a job: `Query` has the answer of `scontrol`, which is about the latest
run of the job id, and that of `sacct`, which is about the run the receipt names.

**`SnapshotStore`** is the durable store. An archive is known by its digest, so it
is the record of its content: stage, parents, tree, whether it is finished.
`Upload`, `Certify`, `Point` and `Prune` are the four writes of `publish` in their
order, `Admissible` what it refuses under the stage's lock, `Age` the day after
which an archive no longer named may be removed. **`NodeTask`** is `run_task`
over it: `Begin` (requirements, barriers, pointers read), `RestoreViews`,
`CheckIdentity`, `Clear`, `Record` (`inputs.json`), `OwnSnapshot` (none, outdated,
unfinished, finished, not matching), `MakeTree`, `Overlay` one input at a time,
`Launch`, the commands, `BuildArchive` and the store's steps, `PublishBarrier`,
`Tidy`; `Fails` and `Ended` are a failing command, TERM and SIGKILL. `BeginInterrupted`,
`OwnInterrupted` and `CommitInterrupted` are the TERM that the run swallows and goes on
after, without starting commands; `stray` are the commands of a killed run, and
`StrayWrites` what they do to the tree of their task. The commands fail on a tree
that lacks an input (`FailsBare`).

**`StageRegister`** is what the store promises, without archives, receipts, trees
or runs: per stage one register, where a value replaces another only while the
stage is unfinished and only by exchanging inputs that were unfinished, where
a finished value stands for ever and is made of finished ones, and a barrier
that is committed once to the finished value. `NodeTask` is shown to implement
it under

    Register == INSTANCE StageRegister
                  WITH Stages <- Tasks, NoValue <- NoArchive, register <- current

so a step of the register is `Point`, a commit is `PublishBarrier`, and
everything else a run does is a stutter.

**`JobWatch`** holds what outlives a wrapper: the attempts' records, the jobs,
the watchdogs (`Term`, `Acting`, `WriteStop`, `DogKills`, `Acted`, `Unavailable`,
`StandDown`) and the stop file. **`RunLimit`** is the wrapper: `Reconcile` to
`CloseUnverified` are `recover` with `settle_budget`, one step per durable write;
`Gates`, `Decide`, `Launching`, `StartWatchdog`, `Launched`, `Release` the
admission and launch; `Wait` to `Acknowledged` the end of the run and its
accounting. `Killed` takes a wrapper or a watchdog between any two steps.

**`BudgetGate`** is the ledger over whole attempts: `Unavailable`, `Fits` and
`LimitOf` are the three parts of `evaluate_gate`, `MayRetry` the retry rule; a row
is kept (`Reconcile`), turned away, refused with a stop, or admitted and later
ended. `QualificationFirst` is the order of the screen's rows. How a job is ended is `RunLimit`'s business; here it is gone within its
limit and the shutdown allowance.

The exact lines each definition stands for are in `PROJECT.json` under `map`.

## 3. What is checked

Every run explores its instance completely. A bound on counters is named in the
module that has it (`MaxAttempt`, `MaxInvocations`, `MaxRuns`, `MaxPids`,
`MaxWrites`, `MaxStarts`, `MaxHolder`, `Attempts`, `Jobs`, `MaxEnds`, `MaxDays`, `N`,
`MaxLaunches`, `MaxKills`, `MaxAttempts`, `MaxUnlaunched`, `MaxCost`, `QueueGap`); with it the system may
stop, so the runs do not look for deadlocks. That the program itself does not
stop half-way is a property where it matters: `InvocationEnds`, `NeverStuck`,
`RunEnds`, `ControllerEnds`, `AllFinish`, `EveryJobEnds`.

| run | instance | distinct states | shows |
|---|---|---|---|
| `campaign_single` | pilot, training, scoring prepared on its model, report; every command, one process, two invocations, the number 3 given by hand, crashes | 687,161 | `LaunchedOnPass`, `LaunchedOnInputs`, `PassDescribesOutputs`, `StandingPassIsCurrent`, `OkMeansCurrent`, `OnlyDependentsLost`, `CleanBatchPasses`, `InvocationEnds` |
| `parallel_beside` | a row, a pilot and a prepared row that wants the one and needs the other; two threads and a process beside them, two runs, seed filters, `--attempt 1`, ending allocation, crashes | 595,845 | `AttemptOwned`, `NoInputInFlight`, `NeverStuck`, `AllWorkCollected`, `EvidenceStands`, `RunEnds` |
| `handoff_saves` | two files, two writes, two processes at a time out of four, both kinds of filesystem | 722,874 | `CurrentIntact`, `CommittedIsAState`, `LocalEvidenceKept`, `NeverGoesBack` |
| `lane_resumes` | three commands, two at once, four controllers, two allocations; kills and signals at any point | 51,686 | `CompleteIsOneJob`, `PeersFinish`, `OneProcessPerCommand`, `ReceiptsStand`, `ControllerEnds` |
| `nm_ledger` | two rows, three attempts, two allocations (two jobs, or two runs of one), an accounting row | 1,132,809 | `RunsOnComplete`, `WithinAllowance`, `ChargedOnce` |
| `nodes_requeued` | a stage, a reducer that accepts it unfinished and commits a barrier, a task that waits for the barrier; two runs ended or interrupted anywhere, a day | 675,869 | `CurrentWhole`, `MadeOfParents`, `KeepsRegister` (the refinement), `AllFinish` |
| `limit_block` | three attempts of a block, two of them launched; two wrappers or watchdogs killed | 1,397,471 | `NoLaunchAfterOverrun`, `StopBeforeEnded`, `ChargedInFull`, `StandDownIsSafe`, `EveryJobEnds` |
| `budget_screen` | a qualification row, two trainings on two GPUs, their scorings; waits, failures, limits, retries | 1,623,370 | `ScoringsStayPaid`, `ReserveUntouched`, `OneRetry` |
| `nodes_staging` | as `nodes_requeued` | stops at the counterexample | violates `StartsOnAllInputs` (6.1) |
| `limit_unverified` | as `limit_block`, one kill | stops at the counterexample | violates `UnverifiedStops` (6.1) |
| `lane_left` | as `lane_resumes` | stops at the counterexample | violates `NothingLeftRunning` (6.1) |
| `nm_requeued` | as `nm_ledger` | stops at the counterexample | violates `ActualCharges` (6.1) |

The type invariants `TypeOK` are kept in the modules as documentation; no run
spends time on them, because the theorems of section 5 prove them, or a finer
form of them, for all specifications. Every property has a mutant in
`PROJECT.json`: a plausible mistake in the code that makes it fail under the
same `.cfg`.

Why the bounds are enough for what they are to show:

- *Rows.* Staleness and lost rows need a row that reads a row that reads a row,
  a want beside a need, and a path produced by one row and required by another.
  The four-row file has all of them. Two invocations are a pass and a retry, or a
  crash and what the next process finds, and a `batch` prepares and runs in one of them;
  a command that outlived the first writes beside the second. Four attempt numbers are
  more than they can use up. The number 3 given by hand may be free, taken or followed
  by 4, and never is below a row's latest attempt; the theorems of section 5 that hold with
  `--attempt` cover all other numbers.
- *Processes and threads.* The races are between two: both choose a number, or one retries
  a row another is about to read. In the file of `parallel_beside` the pilot may fail
  while the row before it runs, two rows are eligible at once and the third waits for both,
  and the process beside may hold or prepare any of them. With one attempt number a
  thread and the process clash as soon as both want the same row; a row that has
  been run already is refused when the second run asks for number 1, and otherwise
  the second run goes no further with it than the end of the allocation. The threads of a pool are alike: `Dispatch` takes any idle one.
- *Handoff.* A previous generation, one being saved and one left over from a
  killed save need three savers; the fourth process is the restore. Two files are
  the fewest that can be listed at different moments; two writes the fewest that
  can straddle them.
- *Lane.* One command produces the input of the second, the third waits for a
  path from outside: each way to be complete, pending, failed or not run occurs,
  over more than one resume, and a controller may end anywhere in each of them.
- *Ledger.* An attempt that completes, one that repeats it and one of the row
  that depends on both; two allocations are two jobs, or a job and its requeue. An
  allowance of 3 covers a training (2) beside a scoring (1) but no second training,
  and an allocation may cost 2 when 1 was reserved, so the sum of charges does pass
  the allowance.
- *Node tasks.* One unfinished input, one task that takes it as it is and one that
  does not: every way `OwnSnapshot` can go occurs, a refreshed input included. Two
  ended runs can fall on one task twice or on a task and its input, and each may leave its
  commands behind; one day is enough to retire what two publications left.
- *Run-time limit.* The first attempt overruns, the second is the wrapper that
  recovers it and may be killed, the third the one that must not launch. A limit
  and a grace of one tick each distinguish before, at and past the limit, and by
  and past the deadline. Two kills are wrapper and watchdog of one attempt, or
  a wrapper and the one that recovers after it.
- *Budget.* Training `T`=4 and scoring `E`=2 give a reserve of three trainings and two
  scorings, 16 of 19: an allowance of 3 lets qualification run twice, a
  training on two GPUs be cut by its limit, by a wait of one and by a retry of
  the other. The screen of the code is the same with eight trainings, 39
  scorings and six direct rows.

Where a property depends on a condition, it says so. `CurrentIntact` and
`NeverGoesBack` are stated for a filesystem with flock. The single-process properties of
`RowRun` are checked with one process. `PassDescribesOutputs` speaks of commands that
wrote their outputs, and like `StandingPassIsCurrent` it excepts what the command of an
attempt without a verdict writes after its runner is gone. `OneProcessPerCommand` excepts
a controller that ended between a launch and the write that records it, `MadeOfParents`
commands that outlived their run, `AllFinish` trees that lack an input. None of the
exceptions is a bound of the run: each occurs in it, and sections 6.1 and 6.3 say what
happens then.

## 4. Fairness

- `Campaign`: weak fairness of the steps and of the exit of a worker. The runner
  has no waits of its own: a process that is not killed goes on, and a command
  ends because the runner gives it a deadline. Nobody has to start an invocation,
  and a crash is never required.
- `ParallelRun`: weak fairness of the main thread and of each worker's steps; the
  threads of a pool are scheduled independently, and `wait` returns when a future
  is over.
- `LanePool`: weak fairness of the controller's loop (it polls every 50 ms) and of
  the end of each command it started, which the scheduler's wall limit
  guarantees; no signal has to come. Nothing says that a missing path is ever supplied, that a child of
  a killed controller ends, or that an allocation is followed by another.
- `NodeTask`: weak fairness of `Begin` (the partner requeues a task until it is
  reported finished, as `README-message2.md` asks) and of the steps of a run. That
  a run is ended or interrupted is never required and happens `MaxEnds` times at most.
  This is not enough for every task to finish: commands fail on a tree that lacks an
  input, as often as the task is requeued, and `AllFinish` says so (`Stranded`).
- `RunLimit`: weak fairness of time, of the watchdogs, of the wrappers, and of the
  end of a job that took a SIGKILL. No job has to end by itself, no wrapper has to
  be started, nothing bounds how slow a process is. Starting a wrapper is not fair:
  the job whose wrapper was killed has to be ended by its watchdog alone.
- `BudgetGate`, `Handoff` and `NmRows` state no fairness and are checked for safety only: a save
  that is killed owes nothing, the accounting row is run by hand, and the gate has no loop.

## 5. What is proved

The proof modules state for every value of the constants what the runs show on
one instance: any campaign file, any plan of a lane, any rows, tasks and files,
any number of processes, attempts, kills and resumes. Each has an inductive
invariant (`IInv`, or the parts named below) that is the reason why the component
works; the listed properties are consequences of it. Every invariant was an
invariant of a TLC run before it was proved.

| theorem | statement |
|---|---|
| **`RunnerProof`**, `Campaign` | |
| `TypeCorrect` | `Spec => []TypeInv`: types, and that a row (and from `numbered` on a number) is in hand wherever the code uses one |
| `AttemptsOwned`, `EvidenceIsKept` | `AttemptOwned`, `EvidenceStands`, any number of processes |
| `LaunchesHaveInputs` | `LaunchedOnInputs` |
| `OneProcessRunsOnPass` | `LaunchedOnPass`, one process, with or without `--attempt` |
| `OneProcessDescribesOutputs`, `OneProcessStaysCurrent` | `PassDescribesOutputs`, `StandingPassIsCurrent`, one process that never passes `--attempt` |
| `OneProcessOkIsCurrent` | `OkMeansCurrent`, one process, with or without `--attempt` |
| `OneProcessLosesDependents` | `OnlyDependentsLost`, one process, with or without `--attempt`, `WrittenBefore` |
| `OneProcessCleanBatch` | `CleanBatchPasses`, one process outside an allocation, `Supplied` |
| **`RunnerProof`**, `ParallelRun` | |
| `PoolTypeCorrect` | `PoolSpec => []PoolTypeOK` |
| `ThreadsKeepClear`, `DispatchAdvances`, `ReturnsWithAllWork` | `NoInputInFlight`, `NeverStuck`, `AllWorkCollected` |
| `ThreadsOwnAttempts`, `ThreadsKeepEvidence`, `ThreadsHaveInputs` | `AttemptOwned`, `EvidenceStands`, `LaunchedOnInputs`, also beside other processes |
| `ThreadsRunOnPass`, `ThreadsDescribeOutputs`, `ThreadsStayCurrent` | `LaunchedOnPass`, `PassDescribesOutputs`, `StandingPassIsCurrent` for the threads of a pool that number their attempts themselves |
| `ThreadsOkIsCurrent` | `PoolOkMeansCurrent`: a run that returns 0, with or without `--attempt`, leaves every scheduled row at a PASS that read the latest attempts, or the number asked for is below the row's latest |
| **`HandoffProof`** | |
| `HandoffIsSound` | `Spec => []IInv`, types included |
| `CurrentIsIntact`, `CommittedWasThere` | `CurrentIntact`, `CommittedIsAState` |
| `EvidenceIsKept`, `CommittedGoesForward` | `LocalEvidenceKept`, `NeverGoesBack` |
| **`LanePoolProof`** | |
| `LaneIsSound` | `Spec => []IInv`, types included |
| `CompleteLaneIsOneJob`, `PeersAreLeftToFinish`, `CompleteReceiptsStand` | `CompleteIsOneJob`, `PeersFinish`, `ReceiptsStand` |
| `NoSecondProcess` | `OneProcessPerCommand` |
| **`RunLimitProof`** | |
| `AttemptsAreInTurn` | `Spec => []IInv`, types included |
| `JobsAreChargedInFull`, `StopIsFirst` | `ChargedInFull`, `StopBeforeEnded` |
| `StandDownLeavesNothing`, `NothingAfterOverrun` | `StandDownIsSafe`, `NoLaunchAfterOverrun` |
| **`NmRowsProof`** | |
| `LedgerIsSound` | `Spec => []IInv`, types included |
| `DependenciesAreComplete` | `RunsOnComplete` |
| `AllowanceIsKept`, `ChargedNoLess` | `WithinAllowance`, `ChargedOnce` |
| **`NodeTaskProof`** | |
| `RunsAreSound` | `Spec => []IInv` |
| `CurrentIsWhole`, `MadeOfItsParents` | `CurrentWhole`, `MadeOfParents` |
| `RegisterIsKept` | `KeepsRegister`: the safety part of the refinement of `StageRegister` |
| **`BudgetGateProof`** | |
| `LedgerIsInOrder` | `Spec => []IInv`, types included |
| `OneRetryIsAll` | `OneRetry` |
| `ReserveIsKept` | `ReserveUntouched`, for a reserve within the ceiling |
| `ScoringsArePaid` | `ScoringsStayPaid`, for a ceiling that holds the scorings |

### Assumptions

The named `ASSUME`s of the modules, which TLC evaluates on every run, give types
to the constants: `CampaignFileAssumption`, `WorkersAssumption`,
`InvocationsAssumption`, `RunsAssumption`, `LockAssumption`, `HandoffAssumption`, `LaneAssumption`,
`LimitAssumption`, `BoundsAssumption`, `NmAssumption`, `NodeAssumption`,
`LedgerAssumption`. `ScreenAssumption` says what the generated prevention campaigns
have in their `needs`: the qualification rows form a chain that every later row
needs (`k8b-p4-g8-toolchem.yaml:70`). Sets of
rows, files, tasks, processes and inputs are arbitrary, of any size; only the
attempts and allocations of `NmRows` must be finitely many, because costs are added up, and
a pool has finitely many threads and at least one, because it counts those at work.
Some theorems assume more. These assumptions hold of the instance that the run of the
property explores, but for `ExplicitNumbers = {}`: the run has a number given by hand, of
the harmless kind section 3 describes. What goes wrong without them is said here or in section 6:

- The results about gates, outputs and exit codes assume `WellFormed`, which
  `load_campaign` enforces by refusing other files, and so does `DispatchAdvances`
  (a cycle is never dispatched).
- They also assume that nobody runs rows of the campaign beside: one worker
  (`Workers = {p}`) in `Campaign`, no other than the threads (`Workers = Threads`)
  in `ParallelRun`. With two processes `LaunchedOnPass` fails (6.3). One worker
  does not mean one process: it starts, ends and crashes as often as
  `MaxInvocations` says, each time as a new process that knows only the disk.
- `OneProcessDescribesOutputs`, `OneProcessStaysCurrent`, `ThreadsRunOnPass`,
  `ThreadsDescribeOutputs` and `ThreadsStayCurrent` assume `ExplicitNumbers = {}`: with
  `--attempt` a number may be below a row's latest attempt, and what the records say
  of outputs fails (6.2); `ThreadsRunOnPass` takes the assumption over from the invariant
  it shares with them. The theorems about exit codes and lost rows hold with `--attempt`; the
  properties themselves say what a number below the latest, or one that
  exists, does to them.
- `OneProcessLosesDependents` assumes `WrittenBefore` (no row writes a path that an
  earlier row requires) and `OneProcessCleanBatch` assumes `Supplied` (each required
  path is given from outside, or written by the row's own preparation, an earlier
  command, or an earlier preparation that waits for no command). Files without
  them are accepted by the code and break the two properties (6.3). The latter also
  assumes `~Allocated`: at the end of an allocation a clean batch stops early by
  design, with its own exit code.
- `ReserveIsKept` assumes `Reserve =< Ceiling` and `ScoringsArePaid` that the ceiling
  holds the hours of all scorings; without them the statements are false before
  anything was spent. Both follow from `qualification_may_start`
  (`p4_budget.py:386`), without which the campaign's reserve row fails and no GPU row
  starts. Nothing is assumed of the sizes of `T` and `E`, of what failed attempts
  cost, or of how long a row waits.

### `RunnerProof`

`Campaign` and `ParallelRun` start invocations in different ways and share what an
invocation does. `RowNext` is that common part: either one worker takes a step of
`RowRun`, or workers come and go and nothing on disk changes (`Moved`).
`CampaignMoves` and `PoolMoves` show that each specification takes only such steps;
everything below is proved once about `RowNext` and used twice.

Types are by cases over the 22 steps of an invocation, each reduced to "one
record of `job` is replaced by a record of the same type". Three lemmas then state
once what *any* step can do, and the rest does not look at the actions it
does not need: `StepFrame` (paths stay, who can pass the gate and link an attempt,
which three steps change `attempts`), `StepTrack` (each stage of an attempt is
reached by one action, which keeps what earlier stages decided), `StepTurn`
(how the loop takes and finishes rows). What `Max`, `Numbers` and `StateOf` return
after each kind of change is stated as lemmas about those operators. The
invariants are layers:

- `OwnInv`. `AttemptOwned` is not inductive: `LinkStart` could hand a second process
  an attempt that a first one holds if a held attempt could look unstarted, or
  one that has been judged if `verdict.json` could exist without `start.json`.
  `JudgedOnce` adds that every verdict belongs to a started attempt. Then the
  exclusive link decides. `EvidenceStands` follows step by step from it, since only
  an owner without a verdict writes one. `OrphansCut` says the same of commands
  whose runner is gone: their attempt is started, has no verdict and is nobody's.
  `LaunchedOnInputs` needs only that
  `paths` never shrinks (`InputsInPlace`). None of these depends on who else is at
  work.
- `AllInTurn`: rows are taken in file order, each once; those behind the one in
  hand are done.
- `Apart`: nobody else has in hand a row that an invocation is to run, or one that
  such a row depends on. It is the one place where scheduling comes in. One worker
  is apart from others trivially; the threads of a pool are by `Handed`, the
  invariant of `ParallelRun` (what a thread's row depends on is collected, what is
  handed out is done or with one thread). `NoInputInFlight` and
  `AllWorkCollected` follow from `Handed`, and `NeverStuck` from it and `WellFormed`:
  the first pending row depends on earlier rows only, which are then done.
- `AttemptInv`, from `Apart`: a chosen number is above all others until its
  directory exists and the highest from then on (`Fresh`); the recorded inputs are
  still the latest attempts (`Remembered`); the gate that was open at the
  admission still is (`Gated`). `LaunchedOnPass` is part of it.
- `CurrentInv`, when numbers are chosen by the runner: what a command read is
  there until its verdict (`Seen`), and so is what it wrote, if it wrote (`Wrote`);
  nobody has a verdict that read the attempt in hand (`Ahead`). "There" is `Still`: the
  content is that version, or one that a command left behind by an attempt without a
  verdict has written over it; by `OrphansCut` and `Fresh` that attempt is no later than
  the one meant. It carries
  `JudgedCurrent` over retries: a verdict that names the *latest* attempt of an
  input read what the input holds *now*. A new attempt is ahead of every verdict,
  so starting one makes old readers stale at once, and writing its outputs can
  no longer make a standing PASS wrong. That is why a killed retry does no harm.
  With `PassIsLatest` the properties `PassDescribesOutputs` and
  `StandingPassIsCurrent` are immediate.
- `OkInv`: while the exit code is 0, the rows behind the loop are `Settled`: they stand,
  or the number asked for is below their latest attempt. A later row can
  not make an earlier one stale because edges point to earlier rows, and that row
  is not run a second time.
- `AccountInv`: each row behind the loop was launched, stands, has its gate shut,
  an input missing (or one that a command left behind may have written since), or an
  attempt of the number asked for. A shut gate stays shut, since the rows it looks at have
  had their turn; a missing input stays missing by `WrittenBefore`.
- `BatchInv`, for a batch without failures: the preparations leave each row short
  only of what some command produces (`Provided`), a passed row's outputs exist
  (`PassedWrote`, over earlier processes too, for the commands that did write), so by `Supplied` each row finds its
  inputs when its turn comes.
- `PoolOkInv`: the collected rows stand while nothing failed (`DoneStands`). A row is
  run only before those that depend on it are started, so a re-run by one thread
  never makes stale what another has collected.

### `HandoffProof`

The files of OUT are listed, copied and looked at again one at a time while
stages write, so that the committed generation is *one* state of OUT is not
plain. The argument has three parts. `Owned` and `Restores`: a process past its
start holds the lock, and a restore is alone on the node, stages included,
because a job restores before it runs anything; this holds on filesystems without
flock as well. So during a save a file of OUT is only replaced by newer versions
(`Between`: what is listed is no newer than OUT, and with flock no older than what
is committed). `OnceThere`: when the second look begins, OUT of that instant is at
least as new as the manifest; a file that passes the second look has not changed
since it was listed, so it was at the version of the manifest at that instant
already. When the last file has passed, that instant equals the manifest, which is what
`Generations` says of every committed tree. `CommittedGoesForward` is `Between` at the
step that points `CURRENT`; `CurrentIsIntact` needs `Saves`: with flock the
generation about to be named is the one this process renamed, and the cleanup
spares what `CURRENT` names.

### `LanePoolProof`

`Peaceful` is the heart: as long as nothing failed, every command before the
cursor is complete or in hand, and one on record as `RUNNING` is in hand. So when
the cursor has passed the plan with nothing in hand and nothing pending, every
command has its receipt, and all are of the allocation in the record
(`Standing`, `WholeOf`). `PENDING` is a status without `RUNNING` entries for the same
reason. `InHand` says that what is in hand lies before the cursor, except the
command just launched, so no command is launched twice by one controller. Over
kills, signals and cleanups that are cut off, `Recorded` adds that whatever may be alive
is on record as `RUNNING` or `FAILED`, in a `lane.json` that no controller resumes:
each launch is in that file, except the one whose write is still to come (`window`),
and a controller that ends before it is the exception `OneProcessPerCommand` states.

### `RunLimitProof`

The invariant says what each durable record allows one to conclude of the job,
the watchdog and the wrapper, for each pair of an attempt and a wrapper that
recovers it. What made it inductive: a wrapper that is about to terminate a job
still sees a live record (`Turn`); a record in its early states is `Pristine`, its
stand-down included, so a job that is launched later is not excused by it;
`wr.ended` is `"limit"` wherever a stop by the limit is in progress (`Stops`); and
evidence of a limit is not only what the record has but also the mark of a watchdog
that found the job alive (`Suspect`), which the accounting reads. `Settling`
repeats all of this for the fields a recovery holds in memory between its writes.
`NoLaunchAfterOverrun` then is `Apart`: between the decision and the launch an
earlier job stays gone, and one that overran has stopped the block or is
`unverified`.

### `NmRowsProof`

What an attempt has reached fixes what its allocation, receipt and pointers can
be (`Placed`, `Told`, `Points`). What an admitted attempt runs after was
really completed (`Admitted`): `Told` carries the outcome through every copy
of a receipt, also the one that the accounting loaded earlier and writes back.
For the money, an allocation has at most one reservation (`ReservedOnce`), and
`Costing` says that a charge is no less than its allocation cost, and more only if
the job ran again (`CostOf`). Since an allocation may cost more than was reserved,
the sum of charges is not bounded; what is bounded is what was *planned*, the smaller of
charge and reservation. A charge never raises that (`PlansNoMore`), whichever
receipt it is written over, and a new reservation was compared with what the others
hold, which is at least what they plan (`OnePlanMore`). The sum is over any
finite set of attempts.

### `NodeTaskProof`

`Held` says that what a run was given stays in the store: an archive is pruned only
when a day old and not current, and a finished input is still the current one.
`Overlaid` says that a tree never contains an input that `inputs.json` does not
name, as long as no commands of the task outlived their run: the tree is cleared before
the record changes. It also says that commands that succeeded had every input they
were given, which is why a finished snapshot has all of them, though an unfinished one may
lack some. `InStore` says that an archive
on its way through `upload`, `certify` and `point` is `Admissible` as long as the task's
lock is held, which is what makes `Point` a step of the abstract register; `Named`
that whatever `CURRENT` names is whole, whatever was pruned. All other steps are
stutters, and `PublishBarrier` commits a finished value that is current.

### `BudgetGateProof`

Two arguments that meet in the invariant. For the *retry*: `RetriesUsed` counts
launches of attempts that ended, so a retry under way is invisible to it;
`Retrying` adds it, and the sum stays at one because `MayRetry` wants no retry so far
and nothing else runs. A slot that has an export is kept, not trained, so the row
being trained has none (`TrainedOnce`). For the *hours*: a limit is what the
inequality left, divided by the GPUs, rounded down, less the shutdown allowance, so
wait, limit and allowance together cost at most what was left (`LimitFits`). A job
that is admitted therefore moves the sum from "spent" to "may be used" within its
inequality, and when it ends the sum can only fall (`EndUses`). For trainings and
scorings that inequality is about the ceiling and the outstanding scorings, which
include all untried ones. A qualification row is compared with its allowance
only; that this is enough for the ceiling is `InOrder`: a row runs after all
qualification rows before it in the file passed, so a qualification row that has
not passed yet is admitted before any training or scoring was launched, and one
that has passed is `Repeated` (6.2) and not counted.

### `SetFacts`

Facts the proof modules share. `Max` and `Min` of finite sets of naturals exist and
bound. A sum over a finite set (`SumFunctionOnSet`, a fold of the community modules)
is the sum of any member and the rest, in any order (`SumBySize`); it is monotone,
depends only on its members, changes by as much as the one member that
changes, and that of naturals over a part is at most the whole (`SumOfPart`), or the
same where the rest is zero (`SumOverPart`). The library's induction theorems cannot be applied here, since they take
an operator as a parameter; `Inductive` and `BySize` state the same principles for
*sets* (a set of naturals that has 0 and every successor; a set of subsets that
has each set whose reductions by one it has), and these can.

### What is only model-checked

Every safety invariant, action property and the refinement's safety part that a
run checks have a theorem. What is left to TLC:

- liveness: `InvocationEnds`, `RunEnds`, `ControllerEnds`, `AllFinish`,
  `EveryJobEnds`; liveness under fairness and `ENABLED` are out of the prover's
  reach;
- the four expected violations, which are about an instance by nature;
- what a function defined by recursion computes for every input (`Upstream`, hence
  `Reached` and `ImplicitEdges`): that is an induction over data. The theorems about
  campaigns hold whatever these relations are, and none says what they contain.

Some theorems are the other way round, and no run repeats them: `PoolOkMeansCurrent`
and the properties of `RowRun` under `PoolSpec`. TLC found all of them true on
small pools before they were proved, those that assume it without a process beside
the pool and without `--attempt`.

## 6. What the models showed about the code

### 6.1 Counterexamples with a run

- `nodes_staging`: `if not out.exists(): out.mkdir()` guards all overlays that follow
  it, so a run ended between the `mkdir` and the last overlay leaves a tree that
  the requeued run takes for complete; the commands start without the remaining
  inputs (`m2_node.py:356` against `m2_node.py:172` and `README-message2.md:461`).
- `limit_unverified`: the record `unverified` and the stop of the block are two
  writes. A wrapper killed between them leaves a record that is no evidence of a
  limit; the next recovery closes it without a stop and a later row is launched
  (`p4_run.py:1175` against the docstring at `p4_run.py:676`).
- `lane_left`: a lane's child between its launch and its registration belongs to
  nobody. A signal in that window leaves it running, a second signal during the cleanup
  leaves those not reaped yet, and in both cases the controller is over without a SIGKILL
  (`lane_pool.py:267` against the comment at `lane_pool.py:282`).
- `nm_requeued`: the accounting asks for a job id, and `scontrol` answers for its
  latest run. After a requeue the receipt of the earlier run is charged up to the end of
  the later one, which has a receipt of its own (`nm_budget.py:63`,
  `a4_common.py:151` against `nm_budget.py:74` and `a4_common.py:138`). What the charges
  do keep is `ChargedOnce`: never less than the allocation, never two for one.

### 6.2 Counterexamples without a run of their own

Four statements of the documentation the code does not keep; each was found by
TLC, by naming the operator given here in a `.cfg` (where there is one), and no
run repeats it.

- `--attempt N` with an unused `N` below the latest attempt rewrites the row's
  outputs while the higher attempt stays the latest, so rows that read the old
  outputs keep a PASS that `run --all` passes over (`runner.py:651` against
  `runner.py:60`): `StandingPassIsCurrent` with explicit attempt numbers.
- A row refused in this run because its input failed keeps its own old PASS, so a
  row that needs it is launched, though it ought to be refused "directly or
  through rows" it needs (`runner.py:887` against `runner.py:26`):
  `LostRowsCostTheirDependents` of `Campaign`.
- A resumed controller whose first inputs are missing, or whose GPU does not
  answer, writes a PENDING `lane.json` that has the complete receipts but no job
  nonce; no later `--resume` accepts it (`lane_pool.py:218` against
  `lane_pool.md:51`): `PendingCanResume` of `LanePool`.
- An attempt turned away before it reserved leaves a receipt with GPUs and no
  start; the accounting calls it pending on every call and never asks the
  scheduler about it (`nm_budget.py:61` against `README-next-message.md:122`):
  `AccountingCompletes` of `NmRows`.

One more follows from the gate: a qualification scoring that runs again after its
PASS, because what it reads was made again, is admitted on what is left of the
qualification allowance, whatever the block has spent in total
(`p4_budget.py:1011-1013`), so the sum may pass the 75 GPU-hours of
`README-send5.md:92`. The properties of `BudgetGate` leave such attempts out
(`Repeated`) and hold for all others.

### 6.3 Limits of the protocols

Not contradicted by any document, and worth knowing. Except for the hosts of the
lock directory, which the code alone shows, each was seen in a run, as an exception a
property needed, or by changing one constant of a run or stating one more property.

- Two processes on one campaign: the gate is read at `runner.py:614`, the row is
  launched later. With two workers `LaunchedOnPass` fails: a row is launched while
  the row it needs is being retried.
- A path that only a *deferred row's prepare* writes: `run --all` counts what
  commands produce (`runner.py:402`), not what prepares do, so a batch in which
  nothing fails can still refuse the reader of that path. `CleanBatchPasses` holds
  for files without that shape, as the one in the run, and for all of them
  (`OneProcessCleanBatch`).
- A path that a *later* row writes too: a row refused for want of a required path
  may find it at the end of the same `run --all`, when a later row has written it,
  so it was neither launched nor is it short of an input (the check is made once,
  at the row's turn, `runner.py:614`). `OnlyDependentsLost` fails for such a file
  (a row that requires a path of a row it only wants, and a third that writes it
  again), and holds for all others (`OneProcessLosesDependents`).
- A command has a session of its own (`runner.py:464`). When its runner is killed or
  interrupted it writes on, beside the retry, and the retry's PASS may stand on what it
  wrote; so may the PASS of a row that read the retry. `PassDescribesOutputs` and
  `StandingPassIsCurrent` say which attempts' commands that can be.
- Bars are optional for rows that are not pilots (`runner.py:126`), and a bar may read a
  file that an earlier attempt wrote (`runner.py:500`), so a command that exits 0
  without writing is a PASS (`runner.py:723-730`) on outputs that are not its own.
- `run --all --attempt N` refuses every row that has an attempt `N` already
  (`runner.py:651`), with open gate and inputs, and goes on to the next:
  `OnlyDependentsLost` names such rows beside those a failure costs.
- After a controller of a lane ended between a launch and the write that records it, a
  resume of the older, PENDING `lane.json` may start the command a second time
  (`lane_pool.py:267-272`): the exception of `OneProcessPerCommand`.
- The lock of a next-message row ends with its `with` block, before receipt and
  pointer are written (`nm_jobs.py:237`), so a second attempt of the row may start between,
  and the two pointers are written in any order. `RunsOnComplete` holds
  nevertheless.
- What an allocation costs is not bounded by what was reserved: the reservation is
  computed before the budget lock is waited for (`nm_budget.py:33`), the deadline
  is the command's alone (`nm_jobs.py:209`), and hashing and the last writes follow. The
  charges may exceed the allowance by what allocations overran, and by no more than
  that but for requeues (`WithinAllowance`, `ChargedOnce`).
- A TERM that arrives while a node task looks at its own snapshot is taken for a snapshot
  that cannot be read (`m2_node.py:355`): the run goes on, starts no commands and
  publishes the tree as it is. That snapshot is unfinished, so a requeue goes on from it.
- SIGKILL of a node task leaves its commands (`m2_node.py:521`) writing to the tree the
  next run of the task works on, also after it was cleared for other inputs: the
  exception of `MadeOfParents`.
- The lock directory (no flock): a process that has judged the owner dead clears
  the directory whoever owns it by then (`message_handoff.py:71`), so two can be
  in the locked region. `CurrentIntact` and `NeverGoesBack` fail then;
  `CommittedIsAState` and `LocalEvidenceKept` are checked on both kinds.
- A job killed in the locked region of such a filesystem leaves the directory
  behind; the next process of the same host clears it, one of another host is
  refused.
- The accounting row loads a receipt, asks the scheduler and writes the receipt
  back (`nm_budget.py:63-67`). A receipt published in between is overwritten by
  what was loaded, and a COMPLETE attempt says RUNNING again. If the accounting
  dies after the receipt and before the pointer (`nm_budget.py:70`), the pointer's
  hash no longer fits and every row that runs after it fails as "changed".
  `RunsOnComplete` holds over both: the harm is a row that is not run, never one
  run on incomplete input.

- GPU phases of a message-2 task, read and not modelled: the publication of a
  task, of its `-gpu` receipt and of its barrier are three steps
  (`m2_node.py:687-694`), and a run that finds the task published skips
  (`m2_node.py:572`), so a kill between them leaves receipt and barrier out for
  good. And a GPU attempt that was killed before it wrote `gpu-result.json` may be
  followed by another without new staging; if `staged.json` changed meanwhile the
  publication refuses the result.
- A turned-away attempt of one training row makes `first` false for the others
  (`p4_budget.py:1056`), so the check of outstanding qualification rows is skipped;
  the edges of the campaign keep those rows from starting before qualification.
- Seen while reading and covered by no property: admission of package-4 rows has
  no lock (`p4_budget.py:1115`), the runner's order is what keeps rows apart;
  engines that start together each see the memory the other has not taken yet
  (`lane_pool.py:165`); requeues of a 3A/4A job and the reuse of a staged archive
  (`a4_jobs.py:541`, `stage_local.py:180`).

## 7. What the models leave out

- *Runner.* Branches for files with a `v4` section, phase-0 and FinQA campaigns;
  parsing, templates and seeds as text; logs and reports. `parallel_jobs` is read
  from the `v4` section, and `ParallelRun` models its scheduler with the rows of a
  plain campaign. A command reads all its inputs at one moment and writes all
  its outputs at one; two workers have two chances to come between. The command of a
  runner that is gone writes its outputs any number of times, and whether it ends with its
  runner is open. The processes beside a pool run or prepare single rows.
- *Handoff.* `record_job_start` and scoring epochs; processes of several hosts on
  one lock; two jobs of a chain at once (the chain is submitted with
  `afterany`). Removing a lock directory or a generation is one step.
- *Lane.* `capacity` and the engine's start-up lock; staggering and timing as such
  (a deadline is an exception at any moment). A command's path appears when it
  succeeds. Of a group that was terminated, members that survive the TERM of their leader
  are one orphan of the command (`Reap`).
- *Rows and ledger.* Rows without GPUs, launch bindings, archived families, the
  confirmation family, the synthetic mode. Trying a row's lock and looking up its
  dependencies is one step. A hash is what it is a hash of. Hours are GPU-hours, so a
  requeued run has the GPUs of the run before; an allocation lasts `MaxCost` at most,
  whatever was reserved on it. A row ends with its allocation, and a job runs again
  only when its last run has ended.
- *Snapshots and node tasks.* Tasks split into CPU and GPU phases (`run_staged`),
  GPU leases, staging lists and lanes, imports and caches, execution receipts;
  contention for the stage lock (a second run of a task is not started); the
  protection of archives named only by `dependencies`. A run never lasts a day.
  `Prune` looks at all pointers at once and `Begin` reads those of all inputs at once,
  where the code goes from one to the next; that no archive is pruned within a day is
  what keeps the difference from mattering. That the commands of a task fail on a tree
  without an input (`FailsBare`) is assumed of the stage programs, which open their
  inputs. A run that cannot confirm the end of its commands publishes nothing
  (`m2_node.py:531`), which is the kill of a run whose commands go on. Commands that
  outlived their run add inputs to a tree and do no work in it.
  An archive stands for its digest, so equal content is one archive.
- *Run-time limit.* Containment by process group only; the branches for a Slurm
  step are out. A job is its group, its marker and its GPU processes together.
  Wrappers of a block come one after the other, as the runner starts them. Time
  passes only while some deadline is ahead. The record of the launch and the
  parked start of the job are one step; frozen-input checks, an expired guard and
  the time-out of the busy wait are left out, as they end before a launch.
  `NoLaunchAfterOverrun` leaves out attempts recorded as unverified, which
  `UnverifiedStops` is about.
- *Budget gate.* The prevention block; bridges and the self-test have gates of
  their own. Direct scorings are scorings with the same hours. The cap of a limit
  by a row's own table entry and the comparison of frozen files are left out: each
  only lowers a limit or refuses. One row at a time, and no time passes between the gate
  and the launch. Scorings that are repeated in qualification are counted for neither
  property (6.2).

## 8. The plan

To model, in the order of how much depends on the part:

1. `HardStop`, `V4Retry` (`v4_ack`, `p4_contain`, `v4_retry`): acknowledged stops,
   retries that repeat nothing.
2. The GPU phases of `NodeTask` with their leases; the same promise as
   `StageRegister`, with the receipt and the barrier after the snapshot.
3. `A4Ledger`, `PdStorage` (`a4_common`, `a4_jobs`, `pd_jobs`): held time and
   reservations over requeues.
4. `Retention`, `TeacherJournal`, `StageLocal`, `UtilWatch`, `EngineStart`,
   `ScoringEpoch`.
5. Abstract specifications: `Campaign` and `ParallelRun` implement an append-only
   ledger of attempts; `Handoff` with flock implements a store whose commit is one
   step; `LanePool` implements a set of receipts that only grows within a job.

To prove: the properties of the parts above as they are modelled; of what is here,
the refinements of item 5.
