------------------------------- MODULE NmRows -------------------------------
(***************************************************************************)
(* The rows of the next-message dispatch that hold GPUs (kit/nm_jobs.py)   *)
(* and the ledger of their allocations (kit/nm_budget.py): an attempt of a *)
(* row checks what it depends on, reserves GPU-hours, runs its command and *)
(* publishes a receipt and a pointer; the accounting row asks the          *)
(* scheduler for the ends of allocations and charges the receipts.         *)
(*                                                                         *)
(* A hash of a receipt is the receipt itself.  Processes die with their    *)
(* allocation; the accounting row can die alone.  An allocation is a run   *)
(* of a scheduler's job: one job id and one start.  A job that is requeued *)
(* runs again, under the same id, in an allocation of its own.             *)
(***************************************************************************)
EXTENDS Integers, FiniteSets, Functions

CONSTANTS
  Tasks,      \* the rows
  After,      \* row -> the rows it has to run after (`afterok`)
  Attempts,   \* bound: the attempts there can be
  Jobs,       \* bound: the allocations there can be
  Hours,      \* row -> the GPU-hours it reserves
  MaxCost,    \* bound: the GPU-hours an allocation lasts, whatever was reserved
  QueueGap,   \* bound: the GPU-hours' worth of queueing before a requeued run
  Allowance,  \* GPU-hours the branch has
  None

ASSUME NmAssumption ==
  /\ After \in [Tasks -> SUBSET Tasks]
  /\ Hours \in [Tasks -> Nat \ {0}] /\ Allowance \in Nat
  /\ MaxCost \in Nat \ {0} /\ QueueGap \in Nat
  /\ IsFiniteSet(Attempts) /\ IsFiniteSet(Jobs) /\ None \notin Attempts \cup Jobs \cup Tasks

VARIABLES
  job,      \* allocation -> "none", "running" or "ended"
  spent,    \* allocation -> its actual GPU-hours, once it has ended
  earlier,  \* allocation -> the earlier runs of its job
  at,       \* attempt -> its row, its allocation, its step and its outcome
  receipt,  \* attempt -> receipt.json; hours 0: not charged yet
  pointer,  \* row -> state/<row>.json: an attempt and the hash of its receipt
  acct      \* the accounting row, which holds the budget lock while it works

vars == <<job, spent, earlier, at, receipt, pointer, acct>>

NoReceipt == [status |-> "none", reserved |-> 0, hours |-> 0]
Idle == [pc |-> "idle", todo |-> {}, on |-> None, value |-> NoReceipt,
         cost |-> 0, pending |-> FALSE, blind |-> FALSE]

Init ==
  /\ job = [j \in Jobs |-> "none"] /\ spent = [j \in Jobs |-> 0]
  /\ earlier = [j \in Jobs |-> {}]
  /\ at = [a \in Attempts |-> [task |-> None, job |-> None, pc |-> "none", outcome |-> "none"]]
  /\ receipt = [a \in Attempts |-> NoReceipt]
  /\ pointer = [t \in Tasks |-> [on |-> None, seal |-> NoReceipt]]
  /\ acct = Idle

Charged(a) == receipt[a].hours # 0
Reserved(a) == receipt[a].reserved # 0
Exists(a) == receipt[a].status # "none"
Step(a, pc) == at[a].pc = pc

-----------------------------------------------------------------------------
(* run(). *)

\* Every submission is a new attempt with a receipt of its own.
Begin(a, j, t) ==
  /\ Step(a, "none") /\ job[j] # "ended"
  /\ job' = [job EXCEPT ![j] = "running"]
  /\ at' = [at EXCEPT ![a] = [task |-> t, job |-> j, pc |-> "created", outcome |-> "PENDING"]]
  /\ receipt' = [receipt EXCEPT ![a].status = "RUNNING"]
  /\ UNCHANGED <<spent, earlier, pointer, acct>>

\* The attempt leaves the try block, and with it the lock of its row.
Over(a, outcome) ==
  /\ at' = [at EXCEPT ![a].pc = "over", ![a].outcome = outcome]
  /\ UNCHANGED <<job, spent, earlier, receipt, pointer, acct>>

To(a, pc) == at' = [at EXCEPT ![a].pc = pc]

\* The lock of a row is held as far as the end of its command.
Locked(t) == \E a \in Attempts : at[a].task = t /\ at[a].pc \in {"ready", "running"}

Named(t) == pointer[t].on # None
Sealed(t) == pointer[t].seal = receipt[pointer[t].on]

\* Faulty variant: any published attempt will do.
Current_Any(t) == Named(t) /\ Sealed(t)

\* current(): the pointer's receipt is the one it was made for, and complete.
Current(t) == Named(t) /\ Sealed(t) /\ pointer[t].seal.status = "COMPLETE"

Turned(d) == IF Named(d) /\ ~Sealed(d) THEN "FAILED" ELSE "PENDING"

\* The lock of the row is tried, and what it runs after is looked up: an absent
\* or incomplete dependency is PENDING, one that was changed FAILED.
Admit(a) ==
  LET deps == After[at[a].task] IN
  /\ Step(a, "created")
  /\ \/ Locked(at[a].task) /\ Over(a, "PENDING")
     \/ ~Locked(at[a].task) /\ \E d \in deps : ~Current(d) /\ Over(a, Turned(d))
     \/ /\ ~Locked(at[a].task) /\ \A d \in deps : Current(d)
        /\ To(a, "ready")
        /\ UNCHANGED <<job, spent, earlier, receipt, pointer, acct>>

\* Faulty variant: only what the scheduler has confirmed counts.
Cost_Charged(a) == receipt[a].hours

\* What an attempt costs, or what it has reserved while that is not known.
Cost(a) == IF Charged(a) THEN receipt[a].hours ELSE receipt[a].reserved

Held(as) == SumFunctionOnSet([a \in as |-> Cost(a)], as)

\* Faulty variant: two rows of one allocation both reserve.
SharesAllocation_Never(a) == FALSE

SharesAllocation(a) == \E b \in Attempts \ {a} : Reserved(b) /\ at[b].job = at[a].job

\* reserve(), under the budget lock: one row per allocation, and the
\* allowance covers it together with everything held.
Reserve(a) ==
  /\ Step(a, "ready") /\ acct.pc = "idle"
  /\ \/ SharesAllocation(a) /\ Over(a, "FAILED")
     \/ ~SharesAllocation(a) /\ Held(Attempts \ {a}) + Hours[at[a].task] > Allowance /\ Over(a, "PENDING")
     \/ /\ ~SharesAllocation(a) /\ Held(Attempts \ {a}) + Hours[at[a].task] <= Allowance
        /\ receipt' = [receipt EXCEPT ![a].reserved = Hours[at[a].task]]
        /\ To(a, "running")
        /\ UNCHANGED <<job, spent, earlier, pointer, acct>>

\* The command ends, is stopped by its deadline or by a TERM.
CommandEnds(a) ==
  /\ Step(a, "running")
  /\ \E outcome \in {"COMPLETE", "PENDING", "FAILED"} : Over(a, outcome)

\* The receipt is written again from the attempt's own record.
WriteReceipt(a) ==
  /\ Step(a, "over")
  /\ receipt' = [receipt EXCEPT ![a].status = at[a].outcome, ![a].hours = 0]
  /\ To(a, "sealed")
  /\ UNCHANGED <<job, spent, earlier, pointer, acct>>

WritePointer(a) ==
  /\ Step(a, "sealed")
  /\ pointer' = [pointer EXCEPT ![at[a].task] = [on |-> a, seal |-> receipt[a]]]
  /\ To(a, "done")
  /\ UNCHANGED <<job, spent, earlier, receipt, acct>>

-----------------------------------------------------------------------------
(* reconcile(). *)

\* The accounting goes on with its next receipt.
Onward == acct' = [acct EXCEPT !.pc = "load", !.on = None, !.value = NoReceipt, !.cost = 0]

\* The pointer of the receipt's row is read: it follows if it names this receipt.
ReadPointer ==
  IF pointer[at[acct.on].task].on = acct.on THEN acct' = [acct EXCEPT !.pc = "repoint"]
  ELSE Onward

\* The accounting row takes the budget lock.  A receipt that is charged is only
\* counted, one without an allocation's start stays pending; nothing else can
\* become charged or reserved while the lock is held.
BeginAccount ==
  /\ acct.pc = "idle"
  /\ acct' = [Idle EXCEPT !.pc = "load",
       !.todo = {a \in Attempts : Reserved(a) /\ ~Charged(a)},
       !.pending = \E a \in Attempts : Exists(a) /\ ~Reserved(a),
       !.blind = \E j \in Jobs : job[j] = "running"]
  /\ UNCHANGED <<job, spent, earlier, at, receipt, pointer>>

Load ==
  /\ acct.pc = "load"
  /\ \E a \in acct.todo :
       acct' = [acct EXCEPT !.todo = @ \ {a}, !.on = a, !.value = receipt[a], !.pc = "query"]
  /\ UNCHANGED <<job, spent, earlier, at, receipt, pointer>>

\* The allocations in which the job of j ran again.
Later(j) == {k \in Jobs : j \in earlier[k]}

\* From the start of j to the end of its job's latest run, but for the queue.
Span(j) == spent[j] + SumFunctionOnSet([k \in Later(j) |-> spent[k]], Later(j))

\* The answer has an end, at this cost.
Answered(cost) == acct' = [acct EXCEPT !.pc = "charge", !.cost = cost]

\* The scheduler is asked.  `scontrol` takes no start and answers for the latest
\* run of the job id, `sacct` for the run that started when the receipt says.  A
\* run that goes on has no end, and there may be no answer.
Query ==
  /\ acct.pc = "query"
  /\ LET mine == at[acct.on].job
         requeued == Later(mine) # {}
     IN
     \/ /\ \A j \in Later(mine) \cup {mine} : job[j] = "ended"
        /\ \E gap \in 0 .. (IF requeued THEN QueueGap ELSE 0) : Answered(Span(mine) + gap)
     \/ requeued /\ job[mine] = "ended" /\ Answered(spent[mine])
     \/ acct' = [Idle EXCEPT !.pc = "load", !.todo = acct.todo, !.pending = TRUE, !.blind = TRUE]
  /\ UNCHANGED <<job, spent, earlier, at, receipt, pointer>>

\* Faulty variant: the charge is what was reserved.
Charge_Reserved ==
  /\ acct.pc = "charge"
  /\ receipt' = [receipt EXCEPT ![acct.on] =
                   [acct.value EXCEPT !.hours = acct.value.reserved]]
  /\ ReadPointer
  /\ UNCHANGED <<job, spent, earlier, at, pointer>>

\* The receipt as it was loaded, with its charge; then the pointer is read.
Charge ==
  /\ acct.pc = "charge"
  /\ receipt' = [receipt EXCEPT ![acct.on] =
                   [acct.value EXCEPT !.hours = acct.cost]]
  /\ ReadPointer
  /\ UNCHANGED <<job, spent, earlier, at, pointer>>

Repoint ==
  /\ acct.pc = "repoint"
  /\ pointer' = [pointer EXCEPT ![at[acct.on].task] =
                   [on |-> acct.on, seal |-> receipt[acct.on]]]
  /\ Onward
  /\ UNCHANGED <<job, spent, earlier, at, receipt>>

EndAccount ==
  /\ acct.pc = "load" /\ acct.todo = {}
  /\ acct' = Idle
  /\ UNCHANGED <<job, spent, earlier, at, receipt, pointer>>

AccountDies ==
  /\ acct.pc # "idle" /\ acct' = Idle
  /\ UNCHANGED <<job, spent, earlier, at, receipt, pointer>>

-----------------------------------------------------------------------------
(* The scheduler. *)

\* An allocation ends with every process in it.  The reservation does not bound
\* it: it is computed before the budget lock is waited for, and the deadline is
\* the command's alone.
EndAllocation(j) ==
  LET mine == {a \in Attempts : at[a].job = j} IN
  /\ job[j] = "running" /\ job' = [job EXCEPT ![j] = "ended"]
  /\ \E h \in 1 .. MaxCost : spent' = [spent EXCEPT ![j] = h]
  /\ at' = [a \in Attempts |->
       IF a \in mine /\ at[a].pc # "done" THEN [at[a] EXCEPT !.pc = "dead"] ELSE at[a]]
  /\ UNCHANGED <<earlier, receipt, pointer, acct>>

\* The job whose latest run was i runs again, in allocation j.
Requeue(i, j) ==
  /\ job[i] = "ended" /\ Later(i) = {}
  /\ job[j] = "none" /\ job' = [job EXCEPT ![j] = "running"]
  /\ earlier' = [earlier EXCEPT ![j] = earlier[i] \cup {i}]
  /\ UNCHANGED <<spent, at, receipt, pointer, acct>>

Run(a) ==
  Admit(a) \/ Reserve(a) \/ CommandEnds(a) \/ WriteReceipt(a) \/ WritePointer(a)

Reconcile ==
  BeginAccount \/ Load \/ Query \/ Charge \/ Repoint \/ EndAccount \/ AccountDies

Next ==
  \/ \E j \in Jobs : EndAllocation(j)
  \/ \E i, j \in Jobs : Requeue(i, j)
  \/ \E a \in Attempts, j \in Jobs, t \in Tasks : Begin(a, j, t)
  \/ \E a \in Attempts : Run(a)
  \/ Reconcile

Spec == Init /\ [][Next]_vars

-----------------------------------------------------------------------------
Statuses == {"none", "RUNNING", "COMPLETE", "PENDING", "FAILED"}
Costs == 0 .. (MaxCost * Cardinality(Jobs) + QueueGap)
Receipts == [status : Statuses, reserved : {0} \cup {Hours[t] : t \in Tasks}, hours : Costs]

TypeOK ==
  /\ job \in [Jobs -> {"none", "running", "ended"}] /\ spent \in [Jobs -> Costs]
  /\ earlier \in [Jobs -> SUBSET Jobs]
  /\ at \in [Attempts -> [task : Tasks \cup {None}, job : Jobs \cup {None},
       pc : {"none", "created", "ready", "running", "over", "sealed", "done", "dead"},
       outcome : Statuses]]
  /\ receipt \in [Attempts -> Receipts]
  /\ pointer \in [Tasks -> [on : Attempts \cup {None}, seal : Receipts]]
  /\ acct \in [pc : {"idle", "load", "query", "charge", "repoint"},
               todo : SUBSET Attempts, on : Attempts \cup {None}, value : Receipts,
               cost : Costs, pending : BOOLEAN, blind : BOOLEAN]

\* The command of a row runs only after every row it depends on has really
\* completed, though pointers and receipts are rewritten by others meanwhile.
RunsOnComplete ==
  \A a \in Attempts : Step(a, "running") =>
    \A d \in After[at[a].task] :
      \E b \in Attempts : at[b].task = d /\ at[b].outcome = "COMPLETE"

\* What an attempt was to cost of the allowance: its reservation, or its charge
\* when that is less.
Planned(a) ==
  IF Charged(a) /\ receipt[a].hours < receipt[a].reserved
  THEN receipt[a].hours ELSE receipt[a].reserved

\* What is charged or reserved exceeds the allowance by no more than allocations
\* turned out to cost beyond what was reserved on them, over attempts that race
\* to reserve, die, or are charged while others reserve.
WithinAllowance ==
  SumFunctionOnSet([a \in Attempts |-> Planned(a)], Attempts) <= Allowance

\* A receipt is charged only after its allocation has ended, with no less than it
\* cost, and with no more unless its job was requeued; no allocation is charged
\* to two attempts.
ChargedOnce ==
  \A a \in Attempts : Charged(a) =>
    /\ job[at[a].job] = "ended" /\ receipt[a].hours >= spent[at[a].job]
    /\ receipt[a].hours = spent[at[a].job] \/ Later(at[a].job) # {}
    /\ \A b \in Attempts : Charged(b) /\ at[b].job = at[a].job => a = b

\* "allocated GPUs × actual allocation wall time, every failed/rejected attempt
\* included": a charge is what the receipt's own allocation cost, also when its
\* job was requeued.
ActualCharges ==
  \A a \in Attempts : Charged(a) => receipt[a].hours = spent[at[a].job]

\* "CPU accounting reconciles actual Slurm starts and terminal ends, including
\* failed/rejected allocations": once every allocation has ended and the scheduler
\* has told the end of each it was asked about, the accounting is complete.
AccountingCompletes ==
  acct.pc = "load" /\ acct.todo = {} /\ ~acct.blind => ~acct.pending
=============================================================================
