----------------------------- MODULE BudgetGate -----------------------------
(* The ledger of a package-4 block (kit/p4_budget.py): every GPU row asks its *)
(* gate before it launches (kit/p4_run.py), runs under the limit the gate     *)
(* computed and is charged for its GPU-hours.  The wrapper's way of ending a  *)
(* job is RunLimit's; here a job ends within its limit and the shutdown       *)
(* allowance.  The block is the prevention screen: it holds the qualification *)
(* rows.  Rows run one at a time, as the runner starts them.                  *)
EXTENDS Integers, Sequences, FiniteSetsExt, Functions

CONSTANTS
  NRows,        \* the rows of the block, in the campaign's order
  Kind,         \* row -> "qualification", "training" or "scoring"
  Gpus,         \* row -> its GPUs
  Needs,        \* row -> rows the runner wants a PASS of first
  Ceiling, T, E,  \* GPU-hours: the block's, a training's, a scoring's
  Grace,        \* the shutdown allowance
  Waits,        \* times an attempt may spend before the gate
  Durations,    \* run times a job may take when it ends by itself
  MaxAttempts,  \* bound: attempts of a row
  MaxUnlaunched \* bound: attempts of the block that launch nothing

Rows == 1 .. NRows
OfKind(k) == {r \in Rows : Kind[r] = k}
Qualification == OfKind("qualification")
Training == OfKind("training")
Scorings == OfKind("scoring")

(* What the registered reservation leaves for qualification: one training     *)
(* slot more than there are rows is the retry.                                *)
Reserve == (Cardinality(Training) + 1) * T + Cardinality(Scorings) * E
Allowance == Ceiling - Reserve

ASSUME LedgerAssumption ==
  /\ NRows \in Nat \ {0} /\ Ceiling \in Nat /\ T \in Nat /\ E \in Nat
  /\ Grace \in Nat /\ Waits \subseteq Nat /\ Durations \subseteq Nat
  /\ Kind \in [Rows -> {"qualification", "training", "scoring"}]
  /\ Gpus \in [Rows -> Nat \ {0}] /\ Needs \in [Rows -> SUBSET Rows]

(* The generated campaigns: each qualification row needs the one before it,   *)
(* and every later row the last or one that does.                            *)
QualificationFirst ==
  \A q \in Qualification :
    /\ \A r \in Training \union Scorings : r > q
    /\ \A r \in Rows : r > q => \E n \in Needs[r] : n >= q
ASSUME ScreenAssumption == QualificationFirst

(* The rows that run a trainer: their exports are kept.                       *)
Trains(r) == Kind[r] = "training" \/ (Kind[r] = "qualification" /\ Gpus[r] > 1)

VARIABLES
  history,  \* row -> its attempts' records
  job,      \* the launched attempt that has not ended
  stop      \* the block's stop file is there
vars == <<history, job, stop>>

Idle == [row |-> 0, wait |-> 0, limit |-> 0]
Attempts(r) == {history[r][k] : k \in DOMAIN history[r]}
Passed(r) == \E a \in Attempts(r) : a.passed
Launches(r) == {k \in DOMAIN history[r] : history[r][k].launched}
Outstanding(rows) == {r \in rows : ~Passed(r)}

Init == history = [r \in Rows |-> <<>>] /\ job = Idle /\ stop = FALSE

(***************************************************************************)
(* The ledger: GPU-hours of every attempt, refused ones and waits included.*)
(***************************************************************************)
Hours(r, ks) == SumFunctionOnSet([k \in ks |-> history[r][k].hours], ks)
SpentOn(rows) == SumFunctionOnSet([r \in rows |-> Hours(r, DOMAIN history[r])], rows)
Retries(r) == Max({0, Cardinality(Launches(r)) - 1})
RetriesUsed == SumFunctionOnSet([r \in Training |-> Retries(r)], Training)

(* Evidence of a spending limit counts with or without a stop file.           *)
Limited == \E r \in Rows : \E a \in Attempts(r) : a.launched /\ a.limited

(* Whether a failed launch may be retried: not ended by its limit, no complete *)
(* export, settings verified.                                                *)
Eligible(a) == ~a.limited /\ ~a.export /\ a.settings

(* Slots that failed once and may be tried again.                            *)
FailedSlots ==
  {r \in Training : /\ ~Passed(r) /\ Cardinality(Launches(r)) = 1
                    /\ \A k \in Launches(r) : Eligible(history[r][k])}

(* Faulty variant: one retry per row.                                        *)
MayRetry_PerRow(r) ==
  /\ Cardinality(Launches(r)) = 1 /\ r \in FailedSlots
  /\ \A s \in FailedSlots : r <= s

(* The one retry belongs to the first failed slot in the registered order.    *)
MayRetry(r) ==
  /\ Cardinality(Launches(r)) = 1 /\ RetriesUsed = 0
  /\ r \in FailedSlots /\ \A s \in FailedSlots : r <= s

(***************************************************************************)
(* The gate of row r, asked after a wait of w: its own attempt is charged  *)
(* for the wait already.                                                   *)
(***************************************************************************)
Spent(rows, r, w) == SpentOn(rows) + w * Gpus[r]
Others(r) == Cardinality(Outstanding(Scorings) \ {r})
FirstTraining(r) ==
  Launches(r) = {} /\ \A s \in Training \ {r} : history[s] = <<>>

Unavailable(r) ==
  \/ Trains(r) /\ Passed(r)
  \/ Kind[r] = "qualification" /\ Trains(r) /\ Launches(r) # {}
  \/ Kind[r] = "training" /\ Launches(r) # {} /\ ~MayRetry(r)
  \/ Kind[r] = "training" /\ RetriesUsed > 1
  \/ /\ Kind[r] = "training" /\ FirstTraining(r)
     /\ Outstanding(Qualification) # {}

(* The registered inequalities.                                              *)
Fits(r, w) ==
  LET left == Ceiling - Spent(Rows, r, w)
      retry == IF RetriesUsed = 0 THEN 1 ELSE 0
  IN CASE Kind[r] = "qualification" -> Spent(Qualification, r, w) < Allowance
       [] Kind[r] = "scoring" -> (Others(r) + 1) * E <= left
       [] OTHER ->
            /\ FirstTraining(r) => SpentOn(Qualification) + Reserve <= Ceiling
            /\ (Cardinality(Outstanding(Training)) + retry) * T
                 + Others(r) * E <= left

(* Faulty variant: everything that is left.                                  *)
Left_Everything(r, w) ==
  IF Kind[r] = "qualification"
    THEN Allowance - Spent(Qualification, r, w)
    ELSE Ceiling - Spent(Rows, r, w)

(* The hours a row may use: qualification stays within its allowance, the    *)
(* others leave every other outstanding scoring its E.                       *)
Left(r, w) ==
  IF Kind[r] = "qualification"
    THEN Allowance - Spent(Qualification, r, w)
    ELSE Ceiling - Spent(Rows, r, w) - Others(r) * E

(* Faulty variant: forgets the shutdown allowance.                           *)
LimitOf_NoGrace(r, w) == Max({0, Left(r, w) \div Gpus[r]})
LimitOf(r, w) == Max({0, Max({0, Left(r, w) \div Gpus[r]}) - Grace})

Stopped == stop \/ Limited
Admits(r, w) == ~Stopped /\ ~Unavailable(r) /\ Fits(r, w) /\ LimitOf(r, w) > 0

(***************************************************************************)
(* The attempts of a row.                                                  *)
(***************************************************************************)
Add(r, a) == history' = [history EXCEPT ![r] = Append(@, a)]
Unlaunched(r) == Len(history[r]) - Cardinality(Launches(r))
EndUnlaunched(r, w, passed) ==
  /\ SumFunctionOnSet([s \in Rows |-> Unlaunched(s)], Rows) < MaxUnlaunched
  /\ Add(r, [launched |-> FALSE, hours |-> w * Gpus[r], passed |-> passed,
             export |-> FALSE, settings |-> TRUE, limited |-> FALSE])

MayStart(r) ==
  /\ job = Idle /\ Len(history[r]) < MaxAttempts
  /\ \A n \in Needs[r] : Passed(n)

(* An earlier attempt's complete export is kept, not trained again; it fails  *)
(* the row when its settings are recorded and wrong.                         *)
Kept(r) == {k \in DOMAIN history[r] : Trains(r) /\ history[r][k].export}
Reconcile(r, w) ==
  /\ MayStart(r) /\ Kept(r) # {}
  /\ EndUnlaunched(r, w, history[r][Min(Kept(r))].settings)
  /\ UNCHANGED <<job, stop>>

(* Exit 2: nothing is known against the block, nothing launches.             *)
TurnAway(r, w) ==
  /\ MayStart(r) /\ Kept(r) = {} /\ ~Stopped /\ Unavailable(r)
  /\ EndUnlaunched(r, w, FALSE) /\ UNCHANGED <<job, stop>>

(* Exit 1: a budget refusal stops the block.                                 *)
Refuse(r, w) ==
  /\ MayStart(r) /\ Kept(r) = {} /\ ~Admits(r, w)
  /\ Stopped \/ ~Unavailable(r)
  /\ EndUnlaunched(r, w, FALSE) /\ stop' = TRUE /\ UNCHANGED job

Admit(r, w) ==
  /\ MayStart(r) /\ Kept(r) = {} /\ Admits(r, w)
  /\ job' = [row |-> r, wait |-> w, limit |-> LimitOf(r, w)]
  /\ UNCHANGED <<history, stop>>

(* The job is verified gone after u.  At or past its limit that is evidence, *)
(* and the wrapper stops the block, unless it was killed before.  A trainer   *)
(* passes only with an export and its settings, which are right, or without   *)
(* an export verified.                                                       *)
Results == [passed : BOOLEAN, export : BOOLEAN, settings : BOOLEAN]
Possible(r, x) ==
  IF Trains(r) THEN x.passed => x.export /\ x.settings
               ELSE ~x.export /\ x.settings
End(u, x, stops) ==
  /\ job # Idle /\ Possible(job.row, x)
  /\ LET late == u >= job.limit IN
     /\ Add(job.row, [launched |-> TRUE, hours |-> (job.wait + u) * Gpus[job.row],
                      passed |-> x.passed, export |-> x.export,
                      settings |-> x.settings, limited |-> late])
     /\ stops => late
     /\ stop' = (stop \/ stops)
  /\ job' = Idle

Ends == {d \in Durations : d < job.limit} \union {job.limit, job.limit + Grace}
Next ==
  \/ \E r \in Rows, w \in Waits :
       Reconcile(r, w) \/ TurnAway(r, w) \/ Refuse(r, w) \/ Admit(r, w)
  \/ \E u \in Ends, x \in Results, stops \in BOOLEAN : End(u, x, stops)

Spec == Init /\ [][Next]_vars

(***************************************************************************)
(* Properties.                                                             *)
(***************************************************************************)
(* A qualification scoring may run again after its PASS, when what it reads   *)
(* was made again; its gate looks at the allowance only, not at the ceiling.  *)
Repeated(r, k) ==
  Kind[r] = "qualification" /\ \E j \in 1 .. k - 1 : history[r][j].passed

(* What launched attempts of these rows used, repeated qualification apart,   *)
(* and what the job that runs may still use.                                 *)
Counted(r) == {k \in Launches(r) : ~Repeated(r, k)}
Worst(rows) ==
  IF job.row \in rows /\ ~Repeated(job.row, Len(history[job.row]) + 1)
    THEN (job.wait + job.limit + Grace) * Gpus[job.row] ELSE 0
UsedSoFar(rows) == SumFunctionOnSet([r \in rows |-> Hours(r, Counted(r))], rows)
Used(rows) == UsedSoFar(rows) + Worst(rows)

Untried == {r \in Scorings \ {job.row} : Launches(r) = {}}

(* Whatever fails, waits or is tried again, the scorings no one has tried yet *)
(* stay paid for out of what the counted attempts leave of the ceiling        *)
(* (p4_budget.evaluate_gate, README-send5.md: "the block's outstanding        *)
(* scorings stay paid for").  The seconds between a gate and its launch, and  *)
(* repeated qualification scorings, are not counted.                          *)
ScoringsStayPaid ==
  Used(Rows) + Cardinality(Untried) * E <= Ceiling

(* Qualification never eats into the reserve of nine trainings and the        *)
(* scorings, whichever of its rows fail and run again.                        *)
ReserveUntouched == Used(Qualification) + Reserve <= Ceiling

(* One training retry for the whole block, and never a trained row trained    *)
(* again: launches, exports and passes over all its rows.                     *)
OneRetry ==
  /\ RetriesUsed <= 1
  /\ \A r \in Training :
       Cardinality({k \in DOMAIN history[r] : history[r][k].export}) <= 1
=============================================================================
