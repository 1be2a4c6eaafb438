----------------------------- MODULE ParallelRun -----------------------------
(***************************************************************************)
(* cmd_run_parallel of kit/runner.py: `run --all` of a campaign that       *)
(* registers parallel_jobs.  The main thread hands rows to a pool of       *)
(* threads as the rows they need or want are done; each thread executes    *)
(* the one-row invocation of RowRun.  parallel_jobs is the number of       *)
(* threads; the other workers are processes that run single rows beside.   *)
(***************************************************************************)
EXTENDS RowRun

CONSTANTS
  Threads,   \* the workers that are threads of the run
  MaxRuns    \* bound: processes started in one behaviour

ASSUME RunsAssumption ==
  MaxRuns \in Nat /\ Threads \subseteq Workers /\ IsFiniteSet(Threads) /\ Threads # {}

VARIABLES
  main,      \* where the main thread stands
  pending,   \* the scheduled rows not handed out yet
  done,      \* the rows whose thread has been collected
  stopped,   \* is nothing more to be handed out
  first,     \* the exit code so far
  scheduled, \* the rows the seed filter keeps
  asked,     \* the number the run was given as --attempt, 0: none
  runs       \* how many processes have been started

mainVars == <<main, pending, done, stopped, first, scheduled, asked, runs>>
poolVars == <<rowVars, mainVars>>

PoolInit ==
  /\ RowInit
  /\ main = "idle" /\ pending = {} /\ done = {} /\ stopped = FALSE
  /\ first = "OK" /\ scheduled = {} /\ asked = 0 /\ runs = 0

\* The threads that hold a future: still at work, or over and not collected.
Running == {w \in Threads : job[w].pc # "idle"}
RowOf(w) == CHOOSE r \in job[w].scheduled : TRUE

Dependencies(r) == Needs(r) \cup Wants[r]
\* Faulty variants: rows are waited for that nobody will run; wants are not
\* waited for.
Eligible_All == {r \in pending : Dependencies(r) \subseteq done}
Eligible_NeedsOnly == {r \in pending : Needs(r) \cap scheduled \subseteq done}

\* Pending rows whose scheduled needs and wants are all done.
Eligible == {r \in pending : Dependencies(r) \cap scheduled \subseteq done}

Start ==
  /\ main = "idle" /\ runs < MaxRuns
  /\ ImplicitEdges = {}
  /\ \E kept \in Filters : pending' = kept /\ scheduled' = kept
  /\ asked' \in {0} \cup ExplicitNumbers
  /\ main' = "dispatch" /\ runs' = runs + 1
  /\ done' = {} /\ stopped' = FALSE /\ first' = "OK"
  /\ UNCHANGED rowVars

\* Rows are looked at in file order while a thread is free.
CanDispatch == ~stopped /\ Eligible # {} /\ Cardinality(Running) < Cardinality(Threads)

\* The threads of a pool are alike: a row goes to any one that is free.
NextThread == CHOOSE w \in Threads : job[w].pc = "idle"

Dispatch ==
  /\ main = "dispatch" /\ CanDispatch
  /\ LET r == Min(Eligible) IN
       /\ \E w \in Threads : w = NextThread /\ Invoke(w, "run", FALSE, TRUE, asked, {r})
       /\ pending' = pending \ {r}
  /\ UNCHANGED <<main, done, stopped, first, scheduled, asked, runs>>

\* Nothing more can be handed out: the main thread waits for a future.
Wait ==
  /\ main = "dispatch" /\ ~CanDispatch
  /\ Running # {}
  /\ main' = "wait"
  /\ UNCHANGED <<rowVars, pending, done, stopped, first, scheduled, asked, runs>>

\* Faulty variant: a stopped run returns without its futures.
AllCollected_Early ==
  /\ main = "dispatch" /\ ~CanDispatch /\ (stopped \/ Running = {})
  /\ main' = IF stopped \/ pending = {} THEN "returned" ELSE "stuck"
  /\ UNCHANGED <<rowVars, pending, done, stopped, first, scheduled, asked, runs>>

\* No future is left: the run returns, or raises when rows are left over.
AllCollected ==
  /\ main = "dispatch" /\ ~CanDispatch /\ Running = {}
  /\ main' = IF stopped \/ pending = {} THEN "returned" ELSE "stuck"
  /\ UNCHANGED <<rowVars, pending, done, stopped, first, scheduled, asked, runs>>

\* Faulty variant: a future that failed stays among those waited for.
CollectFutures_Keep ==
  LET over == {w \in Threads : job[w].pc = "over"}
      lost == {w \in over : job[w].first # "OK"}
  IN
  /\ main = "wait" /\ over # {}
  /\ \A w \in Threads : job[w].pc # "raised"
  /\ job' = [w \in Workers |-> IF w \in over \ lost THEN Idle ELSE job[w]]
  /\ done' = done \cup {RowOf(w) : w \in over}
  /\ first' = IF lost = {} THEN first ELSE "FAILED"
  /\ stopped' = (stopped \/ {RowOf(w) : w \in lost} \cap Pilots # {})
  /\ main' = "dispatch"
  /\ UNCHANGED <<attempts, prep, paths, content, orphans, pending, scheduled, asked, runs>>

\* wait(FIRST_COMPLETED) hands over every future that is over by then; their
\* results are applied before anything else is dispatched.
CollectFutures ==
  LET over == {w \in Threads : job[w].pc = "over"}
      lost == {w \in over : job[w].first # "OK"}
      ends == {w \in lost : RowOf(w) \in Pilots \/ job[w].first = "EXHAUSTED"}
      codes == {job[w].first : w \in lost}
  IN
  /\ main = "wait" /\ over # {}
  /\ \A w \in Threads : job[w].pc # "raised"
  /\ job' = [w \in Workers |-> IF w \in over THEN Idle ELSE job[w]]
  /\ done' = done \cup {RowOf(w) : w \in over}
  /\ \E c \in IF first # "OK" \/ codes = {} THEN {first} ELSE codes :
       first' = IF "EXHAUSTED" \in codes /\ c # "REFUSED" THEN "EXHAUSTED" ELSE c
  /\ stopped' = (stopped \/ ends # {})
  /\ main' = "dispatch"
  /\ UNCHANGED <<attempts, prep, paths, content, orphans, pending, scheduled, asked, runs>>

\* A thread raised: its exception leaves the loop, the pool waits for the
\* threads still at work.
Unwind ==
  /\ main = "wait" /\ \E w \in Threads : job[w].pc = "raised"
  /\ main' = "unwinding"
  /\ UNCHANGED <<rowVars, pending, done, stopped, first, scheduled, asked, runs>>

Step(w) == InvocationStep(w) /\ UNCHANGED mainVars

\* The process ends, or is killed with its threads; the commands of these live
\* on, or end with the allocation.
Gone ==
  /\ Vanish(Threads)
  /\ main' = "idle" /\ pending' = {} /\ done' = {} /\ stopped' = FALSE
  /\ first' = "OK" /\ scheduled' = {} /\ asked' = 0
  /\ UNCHANGED runs

MainExits ==
  /\ \/ main \in {"returned", "stuck"}
     \/ main = "unwinding" /\ \A w \in Threads : job[w].pc \in {"idle", "over", "raised"}
  /\ Gone

MainCrashes == main \in {"dispatch", "wait", "unwinding"} /\ Gone

\* A process started by hand: `prepare --row` or `run --row`.
Beside(w) ==
  /\ w \notin Threads /\ runs < MaxRuns
  /\ \E r \in Rows :
       \/ Invoke(w, "prepare", FALSE, FALSE, 0, {r})
       \/ \E n \in {0} \cup ExplicitNumbers : Invoke(w, "run", FALSE, FALSE, n, {r})
  /\ runs' = runs + 1
  /\ UNCHANGED <<main, pending, done, stopped, first, scheduled, asked>>

BesideEnds(w) ==
  /\ w \notin Threads /\ job[w].pc \in {"over", "raised"}
  /\ Vanish({w}) /\ UNCHANGED mainVars

Main == Dispatch \/ Wait \/ AllCollected \/ CollectFutures \/ Unwind \/ MainExits
PoolNext == \/ Start \/ Main \/ MainCrashes
            \/ \E w \in Workers : Step(w) \/ Beside(w) \/ BesideEnds(w)
            \/ OrphanStep /\ UNCHANGED mainVars

\* Neither the main thread nor a thread of the pool is ever starved.
PoolFairness == WF_poolVars(Main) /\ \A w \in Workers : WF_poolVars(Step(w))

PoolSpec == PoolInit /\ [][PoolNext]_poolVars /\ PoolFairness

-----------------------------------------------------------------------------
PoolTypeOK ==
  /\ RowTypeOK
  /\ main \in {"idle", "dispatch", "wait", "returned", "stuck", "unwinding"}
  /\ pending \subseteq scheduled /\ done \subseteq scheduled /\ scheduled \subseteq Rows
  /\ stopped \in BOOLEAN /\ first \in Codes /\ asked \in Nat /\ runs \in 0 .. MaxRuns

Working == {w \in Threads : job[w].pc \notin {"idle", "over", "raised"}}

\* While a thread works on a row, no other thread of the run works on the same
\* row or on one it needs or wants: what the run itself writes stands still
\* under the row until its verdict (the dependency test of the dispatch loop).
NoInputInFlight ==
  \A v, w \in Working :
    v # w => RowOf(v) # RowOf(w) /\ RowOf(v) \notin Dependencies(RowOf(w))

\* A run that exits 0 leaves every scheduled row at a PASS that read the latest
\* attempts, as the run without threads does: a re-run of a row is over
\* before its readers are looked at.  Again --attempt with a number below a
\* row's latest attempt leaves that attempt to speak for the row.
PoolOkMeansCurrent ==
  main = "returned" /\ first = "OK" =>
    \A r \in scheduled :
      \/ Verdict(r) = "PASS" /\ ~Stale(r)
      \/ asked # 0 /\ asked < StateOf(r)[1]

\* The dependency graph always advances: the CampaignError after an empty round
\* of dispatching is never raised, whatever the seed filter leaves out.
NeverStuck == main # "stuck"

\* A row that was dispatched is waited for: a run that stops early, on a failed
\* pilot or at the end of the allocation, returns with no thread at work and
\* every dispatched row collected.
AllWorkCollected == main = "returned" => Working = {} /\ scheduled \ pending = done

\* Once started, the run comes to its end.
RunEnds == main = "dispatch" ~> main = "idle"
=============================================================================
