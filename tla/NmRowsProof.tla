----------------------------- MODULE NmRowsProof ----------------------------
(***************************************************************************)
(* Why the rows of NmRows and their ledger are sound, for every set of     *)
(* rows, attempts and allocations: what an attempt has reached fixes what  *)
(* its allocation, its receipt and the pointers to it can be, and of the   *)
(* attempts of one allocation at most one has a reservation.               *)
(***************************************************************************)
EXTENDS NmRows, SetFacts

-----------------------------------------------------------------------------
(* The invariant. *)

ReceiptShapes == [status : Statuses, reserved : Nat, hours : Nat]

AtShapes ==
  [task : Tasks \cup {None}, job : Jobs \cup {None},
   pc : {"none", "created", "ready", "running", "over", "sealed", "done", "dead"},
   outcome : Statuses]

AcctShapes ==
  [pc : {"idle", "load", "query", "charge", "repoint"},
   todo : SUBSET Attempts, on : Attempts \cup {None}, value : ReceiptShapes,
   cost : Nat, pending : BOOLEAN, blind : BOOLEAN]

\* Every variable has its shape; what is reserved and charged is a natural, and an
\* allocation that has not begun follows no other.
Shape ==
  /\ job \in [Jobs -> {"none", "running", "ended"}] /\ spent \in [Jobs -> Nat]
  /\ earlier \in [Jobs -> SUBSET Jobs]
  /\ \A j \in Jobs : job[j] = "none" => earlier[j] = {}
  /\ at \in [Attempts -> AtShapes]
  /\ receipt \in [Attempts -> ReceiptShapes]
  /\ pointer \in [Tasks -> [on : Attempts \cup {None}, seal : ReceiptShapes]]
  /\ acct \in AcctShapes

Working == {"created", "ready", "running", "over", "sealed"}
Past == {"over", "sealed", "done", "dead"}

\* An attempt that has begun has a row and an allocation, which runs as long as
\* the attempt is at work; one that has not has neither, nor a receipt.
Placed(a) ==
  /\ Step(a, "none") => at[a].job = None /\ at[a].task = None /\ ~Reserved(a) /\ ~Charged(a)
  /\ ~Step(a, "none") => at[a].task \in Tasks /\ at[a].job \in Jobs
  /\ at[a].pc \in Working => job[at[a].job] = "running"

\* What an admitted attempt runs after has been completed by an attempt of the
\* right row.
Admitted(a) ==
  at[a].pc \in {"ready", "running"} =>
    \A d \in After[at[a].task] :
      \E b \in Attempts : at[b].task = d /\ at[b].outcome = "COMPLETE"

\* What says that an attempt is complete says it of one that is: its outcome, its
\* receipt and every copy of the receipt.
Told(a) ==
  /\ at[a].outcome = "COMPLETE" => at[a].pc \in Past
  /\ receipt[a].status = "COMPLETE" => at[a].outcome = "COMPLETE"
  /\ acct.on = a /\ acct.value.status = "COMPLETE" => at[a].outcome = "COMPLETE"

\* A pointer names an attempt of its row.
Points(t) == Named(t) => at[pointer[t].on].task = t

\* A reservation is made by an attempt on its own allocation, and no attempt that
\* is not yet through its admission has one.
ReservedOnce(a) ==
  Reserved(a) =>
    /\ at[a].pc \notin {"none", "created", "ready"}
    /\ \A b \in Attempts : Reserved(b) /\ at[b].job = at[a].job => b = a

\* What is charged for an allocation: what it has cost, or more if its job was
\* requeued.
CostOf(h, j) ==
  h >= spent[j] /\ (h = spent[j] \/ \E k \in Jobs : j \in earlier[k])

Costing(a) ==
  Charged(a) =>
    Reserved(a) /\ job[at[a].job] = "ended" /\ CostOf(receipt[a].hours, at[a].job)

\* The accounting works on receipts with a reservation and no charge, holds a copy
\* with the same reservation, and charges only what has ended.
Accounts ==
  /\ \A a \in acct.todo : Reserved(a) /\ ~Charged(a)
  /\ acct.pc \in {"query", "charge", "repoint"} =>
       acct.on # None /\ Reserved(acct.on) /\ acct.value.reserved = receipt[acct.on].reserved
  /\ acct.pc \in {"query", "charge"} => ~Charged(acct.on) /\ acct.on \notin acct.todo
  /\ acct.pc \in {"charge", "repoint"} => job[at[acct.on].job] = "ended"
  /\ acct.pc = "charge" => CostOf(acct.cost, at[acct.on].job)

IInv ==
  /\ Shape /\ Accounts /\ WithinAllowance
  /\ \A t \in Tasks : Points(t)
  /\ \A a \in Attempts :
       Placed(a) /\ Admitted(a) /\ Told(a) /\ ReservedOnce(a) /\ Costing(a)

-----------------------------------------------------------------------------
(* What is held is a sum of costs, and what was planned is part of it. *)

\* Both are naturals.
LEMMA PlannedIsNatural ==
  ASSUME Shape, NEW a \in Attempts
  PROVE  Cost(a) \in Nat /\ Planned(a) \in Nat /\ Planned(a) =< Cost(a)
BY DEF Shape, ReceiptShapes, Cost, Planned, Charged

\* As long as no attempt was to cost more than before, the allowance covers them all.
LEMMA PlansNoMore ==
  ASSUME Shape, Shape', WithinAllowance, \A a \in Attempts : Planned(a)' =< Planned(a)
  PROVE  WithinAllowance'
<1> DEFINE c == [a \in Attempts |-> Planned(a)]
           d == [a \in Attempts |-> Planned(a)']
<1>1. \A a \in Attempts : Planned(a) \in Nat /\ Planned(a)' \in Nat
  BY DEF Shape, ReceiptShapes, Planned, Charged
<1>2. \A a \in Attempts : d[a] \in Int /\ c[a] \in Int /\ d[a] =< c[a]
  BY <1>1
<1>3. IsFiniteSet(Attempts) /\ Allowance \in Int
  BY NmAssumption
<1>4. WithinAllowance <=> (SumFunctionOnSet(c, Attempts) <= Allowance)
  BY DEF WithinAllowance
<1>5. WithinAllowance' <=> (SumFunctionOnSet(d, Attempts) <= Allowance)
  BY DEF WithinAllowance
<1> HIDE DEF c, d
<1>6. SumFunctionOnSet(d, Attempts) =< SumFunctionOnSet(c, Attempts)
  BY <1>2, <1>3, SumIsMonotone
<1>7. SumFunctionOnSet(d, Attempts) \in Int /\ SumFunctionOnSet(c, Attempts) \in Int
  BY <1>2, <1>3, SumBySize
<1>8. QED
  BY <1>3, <1>4, <1>5, <1>6, <1>7

\* When one attempt comes to reserve what the others leave of the allowance, the
\* allowance covers all plans.
LEMMA OnePlanMore ==
  ASSUME Shape, Shape', NEW a \in Attempts,
         \A b \in Attempts \ {a} : Planned(b)' = Planned(b),
         Held(Attempts \ {a}) + Planned(a)' =< Allowance
  PROVE  WithinAllowance'
<1> DEFINE c == [b \in Attempts \ {a} |-> Cost(b)]
           d == [b \in Attempts |-> Planned(b)']
<1>1. \A b \in Attempts : Cost(b) \in Nat /\ Planned(b) \in Nat /\ Planned(b) =< Cost(b)
  BY PlannedIsNatural
<1>2. \A b \in Attempts : Planned(b)' \in Nat
  BY DEF Shape, ReceiptShapes, Planned, Charged
<1>3. \A b \in Attempts : d[b] \in Int
  BY <1>2
<1>4. \A b \in Attempts \ {a} : d[b] \in Int /\ c[b] \in Int /\ d[b] =< c[b]
  BY <1>1
<1>5. IsFiniteSet(Attempts) /\ IsFiniteSet(Attempts \ {a}) /\ Allowance \in Int
  BY NmAssumption, FS_RemoveElement
<1>6. Held(Attempts \ {a}) = SumFunctionOnSet(c, Attempts \ {a})
  BY DEF Held
<1>7. WithinAllowance' <=> (SumFunctionOnSet(d, Attempts) <= Allowance)
  BY DEF WithinAllowance
<1>8. d[a] = Planned(a)' /\ d[a] \in Int
  BY <1>3
<1> HIDE DEF c, d
<1>9. SumFunctionOnSet(d, Attempts \ {a}) =< SumFunctionOnSet(c, Attempts \ {a})
  BY <1>4, <1>5, SumIsMonotone
<1>10. SumFunctionOnSet(d, Attempts) = d[a] + SumFunctionOnSet(d, Attempts \ {a})
  BY <1>3, <1>5, SumBySize
<1>11. SumFunctionOnSet(d, Attempts \ {a}) \in Int /\ SumFunctionOnSet(c, Attempts \ {a}) \in Int
  BY <1>4, <1>5, SumBySize
<1>12. QED
  BY <1>5, <1>6, <1>7, <1>8, <1>9, <1>10, <1>11

-----------------------------------------------------------------------------
(* The steps of a row. *)

\* What is true of the accounting stays so while it rests, as long as no attempt
\* loses its reservation or is charged, and nothing that has ended runs again.
LEMMA AccountsStand ==
  ASSUME Shape, Accounts, UNCHANGED <<spent, earlier, acct>>,
         \A b \in Attempts : Reserved(b) =>
           /\ Reserved(b)' /\ Charged(b)' = Charged(b)
           /\ receipt'[b].reserved = receipt[b].reserved /\ at'[b].job = at[b].job
           /\ job[at[b].job] = "ended" => job'[at[b].job] = "ended"
  PROVE  Accounts'
<1>1. acct.todo \in SUBSET Attempts /\ acct.on \in Attempts \cup {None}
  BY DEF Shape, AcctShapes
<1>2. \A b \in acct'.todo : Reserved(b)' /\ ~Charged(b)'
  BY <1>1 DEF Accounts
<1>3. CASE acct.pc \in {"query", "charge", "repoint"}
  <2>1. acct.on \in Attempts /\ Reserved(acct.on)
    BY <1>1, <1>3 DEF Accounts
  <2>2. /\ Reserved(acct.on)' /\ Charged(acct.on)' = Charged(acct.on)
        /\ receipt'[acct.on].reserved = receipt[acct.on].reserved
        /\ at'[acct.on].job = at[acct.on].job
        /\ job[at[acct.on].job] = "ended" => job'[at[acct.on].job] = "ended"
    BY <2>1
  <2>3. QED
    BY <1>2, <1>3, <2>2 DEF Accounts, CostOf
<1>4. CASE acct.pc \notin {"query", "charge", "repoint"}
  BY <1>2, <1>4 DEF Accounts
<1>5. QED
  BY <1>3, <1>4

\* The invariant holds before anything has begun.
LEMMA InitHolds == Init => IInv
<1> SUFFICES ASSUME Init
             PROVE  IInv
  OBVIOUS
<1> USE NmAssumption DEF Init, NoReceipt, Idle
<1>1. Shape
  BY DEF Shape, ReceiptShapes, AtShapes, AcctShapes, Statuses
<1>2. \A a \in Attempts : ~Reserved(a) /\ ~Charged(a) /\ at[a].pc = "none"
        /\ at[a].job = None /\ at[a].task = None /\ at[a].outcome = "none"
        /\ receipt[a].status = "none" /\ Planned(a) = 0
  BY DEF Reserved, Charged, Planned
<1>3. Accounts
  BY DEF Accounts, CostOf
<1>4. WithinAllowance
  <2> DEFINE c == [a \in Attempts |-> Planned(a)]
  <2>1. \A a \in Attempts : c[a] = 0
    BY <1>2
  <2> HIDE DEF c
  <2>2. SumFunctionOnSet(c, Attempts) = 0
    BY <2>1, SumOfZeros
  <2>3. QED
    BY <2>2 DEF WithinAllowance, c
<1>5. \A t \in Tasks : Points(t)
  BY DEF Points, Named
<1>6. \A a \in Attempts :
        Placed(a) /\ Admitted(a) /\ Told(a) /\ ReservedOnce(a) /\ Costing(a)
  BY <1>2 DEF Placed, Admitted, Told, ReservedOnce, Costing, Step, Working
<1>7. QED
  BY <1>1, <1>3, <1>4, <1>5, <1>6 DEF IInv

\* A submission begins an attempt that had none of it.
LEMMA BeginKeeps ==
  ASSUME IInv, NEW a \in Attempts, NEW j \in Jobs, NEW t \in Tasks, Begin(a, j, t)
  PROVE  IInv'
<1> USE DEF IInv
<1>1. Shape'
  BY DEF Begin, Shape, ReceiptShapes, AtShapes, Statuses
<1>2. /\ at'[a].task = t /\ at'[a].job = j /\ at'[a].pc = "created"
      /\ at'[a].outcome = "PENDING" /\ receipt'[a].status = "RUNNING"
      /\ \A b \in Attempts \ {a} : at'[b] = at[b] /\ receipt'[b] = receipt[b]
      /\ \A b \in Attempts :
           receipt'[b].reserved = receipt[b].reserved /\ receipt'[b].hours = receipt[b].hours
      /\ job'[j] = "running" /\ \A i \in Jobs \ {j} : job'[i] = job[i]
      /\ job[j] # "ended" /\ at[a].pc = "none"
      /\ spent' = spent /\ earlier' = earlier /\ pointer' = pointer /\ acct' = acct
  BY DEF Begin, Shape, Step, ReceiptShapes, AtShapes
<1>3. \A b \in Attempts : Reserved(b)' = Reserved(b) /\ Charged(b)' = Charged(b)
        /\ Planned(b)' = Planned(b) /\ Planned(b) \in Nat
  BY <1>2, PlannedIsNatural DEF Reserved, Charged, Planned
<1>4. ~Reserved(a) /\ ~Charged(a) /\ receipt[a].status # "COMPLETE" /\ at[a].outcome # "COMPLETE"
  BY <1>2 DEF Placed, Told, Step, Past
<1>5. \A b \in Attempts \ {a} : Reserved(b) =>
        at[b].job \in Jobs /\ (job'[at[b].job] = "ended" <=> job[at[b].job] = "ended")
  BY <1>2 DEF Placed, ReservedOnce, Step
<1>6. Accounts'
  BY <1>2, <1>3, <1>4, <1>5, AccountsStand
<1>7. WithinAllowance'
  BY <1>1, <1>3, PlansNoMore
<1>8. ASSUME NEW s \in Tasks
      PROVE  Points(s)'
  BY <1>2, NmAssumption DEF Points, Named, Placed, Shape, Step
<1>9. ASSUME NEW b \in Attempts
      PROVE  (Placed(b) /\ Admitted(b) /\ Told(b) /\ ReservedOnce(b) /\ Costing(b))'
  <2>1. Placed(b)'
    BY <1>2, <1>3, <1>4 DEF Placed, Step, Working
  <2>2. Admitted(b)'
    BY <1>2, <1>4 DEF Admitted
  <2>3. Told(b)'
    BY <1>2, <1>4 DEF Told
  <2>4. ReservedOnce(b)'
    BY <1>2, <1>3, <1>4 DEF ReservedOnce
  <2>5. Costing(b)'
    BY <1>2, <1>3, <1>4, <1>5 DEF Costing, CostOf
  <2>6. QED
    BY <2>1, <2>2, <2>3, <2>4, <2>5
<1>10. QED
  BY <1>1, <1>6, <1>7, <1>8, <1>9

\* An attempt that leaves its try block gives up the lock of its row.
LEMMA OverKeeps ==
  ASSUME IInv, NEW a \in Attempts, NEW outcome \in {"COMPLETE", "PENDING", "FAILED"},
         at[a].pc \in {"created", "ready", "running"}, Over(a, outcome)
  PROVE  IInv'
<1> USE DEF IInv
<1>1. Shape'
  <2>1. at[a] \in AtShapes
    BY DEF Shape
  <2>2. [at[a] EXCEPT !.pc = "over", !.outcome = outcome] \in AtShapes
    BY <2>1 DEF AtShapes, Statuses
  <2>3. at' = [at EXCEPT ![a] = [at[a] EXCEPT !.pc = "over", !.outcome = outcome]]
    BY DEF Over, Shape
  <2>4. at' \in [Attempts -> AtShapes]
    BY <2>2, <2>3 DEF Shape
  <2>5. QED
    BY <2>4 DEF Over, Shape
<1>2. /\ at'[a].task = at[a].task /\ at'[a].job = at[a].job
      /\ at'[a].pc = "over" /\ at'[a].outcome = outcome
      /\ \A b \in Attempts \ {a} : at'[b] = at[b]
      /\ \A b \in Attempts : at'[b].job = at[b].job /\ at'[b].task = at[b].task
      /\ job' = job /\ spent' = spent /\ earlier' = earlier /\ receipt' = receipt /\ pointer' = pointer /\ acct' = acct
  BY DEF Over, Shape, AtShapes
<1>3. \A b \in Attempts : Reserved(b)' = Reserved(b) /\ Charged(b)' = Charged(b)
        /\ Planned(b)' = Planned(b) /\ Planned(b) \in Nat
  BY <1>2, PlannedIsNatural DEF Reserved, Charged, Planned
<1>4. at[a].outcome # "COMPLETE" /\ receipt[a].status # "COMPLETE"
  BY DEF Told, Past
<1>5. Accounts'
  BY <1>2, <1>3, AccountsStand
<1>6. WithinAllowance'
  BY <1>1, <1>3, PlansNoMore
<1>7. ASSUME NEW s \in Tasks
      PROVE  Points(s)'
  BY <1>2 DEF Points, Named, Shape
<1>8. ASSUME NEW b \in Attempts
      PROVE  (Placed(b) /\ Admitted(b) /\ Told(b) /\ ReservedOnce(b) /\ Costing(b))'
  <2>1. Placed(b)'
    BY <1>2, <1>3 DEF Placed, Step, Working
  <2>2. Admitted(b)'
    BY <1>2, <1>4 DEF Admitted
  <2>3. Told(b)'
    BY <1>2, <1>4 DEF Told, Past
  <2>4. ReservedOnce(b)'
    BY <1>2, <1>3 DEF ReservedOnce
  <2>5. Costing(b)'
    BY <1>2, <1>3 DEF Costing, CostOf
  <2>6. QED
    BY <2>1, <2>2, <2>3, <2>4, <2>5
<1>9. QED
  BY <1>1, <1>5, <1>6, <1>7, <1>8

\* An attempt comes by the lock when nobody has it, and only on pointers that
\* name complete attempts.
LEMMA AdmitKeeps ==
  ASSUME IInv, NEW a \in Attempts, Admit(a)
  PROVE  IInv'
<1>1. CASE \E outcome \in {"PENDING", "FAILED"} : Over(a, outcome)
  BY <1>1, OverKeeps DEF Admit, Step
<1>2. CASE /\ ~Locked(at[a].task) /\ \A d \in After[at[a].task] : Current(d)
           /\ To(a, "ready") /\ UNCHANGED <<job, spent, earlier, receipt, pointer, acct>>
  <2> USE <1>2 DEF IInv
  <2>1. Shape'
    BY DEF To, Shape, AtShapes
  <2>2. /\ at'[a].pc = "ready" /\ at[a].pc = "created" /\ at[a].task \in Tasks
        /\ \A b \in Attempts \ {a} : at'[b] = at[b]
        /\ \A b \in Attempts : /\ at'[b].job = at[b].job /\ at'[b].task = at[b].task
                               /\ at'[b].outcome = at[b].outcome
        /\ job' = job /\ spent' = spent /\ earlier' = earlier /\ receipt' = receipt /\ pointer' = pointer /\ acct' = acct
    BY DEF To, Shape, AtShapes, Admit, Step, Placed
  <2>3. \A b \in Attempts : Reserved(b)' = Reserved(b) /\ Charged(b)' = Charged(b)
          /\ Planned(b)' = Planned(b) /\ Planned(b) \in Nat
    BY <2>2, PlannedIsNatural DEF Reserved, Charged, Planned
  <2>4. ~Reserved(a) /\ at[a].outcome # "COMPLETE"
    BY <2>2 DEF ReservedOnce, Told, Past
  <2>5. \A d \in After[at[a].task] :
          \E b \in Attempts : at[b].task = d /\ at[b].outcome = "COMPLETE"
    <3> TAKE d \in After[at[a].task]
    <3>1. d \in Tasks
      BY <2>2, NmAssumption
    <3>2. Named(d) /\ Sealed(d) /\ pointer[d].seal.status = "COMPLETE"
      BY DEF Current
    <3>3. pointer[d].on \in Attempts /\ receipt[pointer[d].on].status = "COMPLETE"
      BY <3>1, <3>2 DEF Named, Sealed, Shape
    <3>4. at[pointer[d].on].task = d /\ at[pointer[d].on].outcome = "COMPLETE"
      BY <3>1, <3>2, <3>3 DEF Points, Told
    <3>5. QED
      BY <3>3, <3>4
  <2>6. Accounts'
    BY <2>2, <2>3, AccountsStand
  <2>7. WithinAllowance'
    BY <2>1, <2>3, PlansNoMore
  <2>8. ASSUME NEW s \in Tasks
        PROVE  Points(s)'
    BY <2>2 DEF Points, Named, Shape
  <2>9. ASSUME NEW b \in Attempts
        PROVE  (Placed(b) /\ Admitted(b) /\ Told(b) /\ ReservedOnce(b) /\ Costing(b))'
    <3>1. Placed(b)'
      BY <2>2, <2>3 DEF Placed, Step, Working
    <3>2. Admitted(b)'
      BY <2>2, <2>5 DEF Admitted
    <3>3. Told(b)'
      BY <2>2, <2>4 DEF Told, Past
    <3>4. ReservedOnce(b)'
      BY <2>2, <2>3, <2>4 DEF ReservedOnce
    <3>5. Costing(b)'
      BY <2>2, <2>3 DEF Costing, CostOf
    <3>6. QED
      BY <3>1, <3>2, <3>3, <3>4, <3>5
  <2>10. QED
    BY <2>1, <2>6, <2>7, <2>8, <2>9
<1>3. QED
  BY <1>1, <1>2 DEF Admit, Turned

\* A reservation is made once on an allocation, and only within the allowance.
LEMMA ReserveKeeps ==
  ASSUME IInv, NEW a \in Attempts, Reserve(a)
  PROVE  IInv'
<1>1. CASE \E outcome \in {"PENDING", "FAILED"} : Over(a, outcome)
  BY <1>1, OverKeeps DEF Reserve, Step
<1>2. CASE /\ ~SharesAllocation(a)
           /\ Held(Attempts \ {a}) + Hours[at[a].task] <= Allowance
           /\ receipt' = [receipt EXCEPT ![a].reserved = Hours[at[a].task]]
           /\ To(a, "running") /\ UNCHANGED <<job, spent, earlier, pointer, acct>>
  <2> USE <1>2 DEF IInv
  <2>1. at[a].pc = "ready" /\ at[a].task \in Tasks /\ at[a].job \in Jobs
        /\ Hours[at[a].task] \in Nat \ {0} /\ job[at[a].job] = "running"
        /\ acct.pc = "idle"
    BY NmAssumption DEF Reserve, Step, Placed, Working
  <2>2. Shape'
    <3>1. at' \in [Attempts -> AtShapes]
      <4>1. at \in [Attempts -> AtShapes] /\ at' = [at EXCEPT ![a].pc = "running"] /\ a \in Attempts
        BY DEF To, Shape
      <4>2. [at[a] EXCEPT !.pc = "running"] \in AtShapes
        BY ONLY <4>1 DEF AtShapes
      <4>3. QED
        BY ONLY <4>1, <4>2
    <3>2. receipt' \in [Attempts -> ReceiptShapes]
      BY <2>1 DEF Shape, ReceiptShapes
    <3>3. QED
      BY <3>1, <3>2 DEF Shape
  <2>3. /\ at'[a].pc = "running"
        /\ \A b \in Attempts \ {a} : at'[b] = at[b] /\ receipt'[b] = receipt[b]
        /\ \A b \in Attempts : /\ at'[b].job = at[b].job /\ at'[b].task = at[b].task
                               /\ at'[b].outcome = at[b].outcome
                               /\ receipt'[b].status = receipt[b].status
                               /\ receipt'[b].hours = receipt[b].hours
        /\ receipt'[a].reserved = Hours[at[a].task]
        /\ job' = job /\ spent' = spent /\ earlier' = earlier /\ pointer' = pointer /\ acct' = acct
    BY DEF To, Shape, ReceiptShapes, AtShapes
  <2>4. \A b \in Attempts \ {a} : Reserved(b)' = Reserved(b) /\ Planned(b)' = Planned(b)
    BY <2>3 DEF Reserved, Charged, Planned
  <2>5. \A b \in Attempts : Charged(b)' = Charged(b)
    BY <2>3 DEF Charged
  <2>6. ~Charged(a) /\ Reserved(a)' /\ Planned(a)' = Hours[at[a].task]
    <3>1. ~Charged(a)
      BY <2>1 DEF Costing, CostOf
    <3>2. QED
      BY <2>1, <2>3, <2>5, <3>1 DEF Reserved, Planned
  <2>7. Accounts'
    <3>1. ~Reserved(a)
      BY <2>1 DEF ReservedOnce
    <3>2. QED
      BY <2>1, <2>3, <2>4, <2>5, <3>1, AccountsStand
  <2>8. WithinAllowance'
    BY <2>2, <2>4, <2>6, OnePlanMore
  <2>9. ASSUME NEW s \in Tasks
        PROVE  Points(s)'
    BY <2>3 DEF Points, Named, Shape
  <2>10. ASSUME NEW b \in Attempts
         PROVE  (Placed(b) /\ Admitted(b) /\ Told(b) /\ ReservedOnce(b) /\ Costing(b))'
    <3>1. Placed(b)'
      BY <2>1, <2>3, <2>4, <2>5 DEF Placed, Step, Working
    <3>2. Admitted(b)'
      BY <2>1, <2>3 DEF Admitted
    <3>3. Told(b)'
      BY <2>1, <2>3 DEF Told, Past
    <3>4. ReservedOnce(b)'
      BY <2>1, <2>3, <2>4, <2>6 DEF ReservedOnce, SharesAllocation
    <3>5. Costing(b)'
      BY <2>1, <2>3, <2>4, <2>5, <2>6 DEF Costing, CostOf
    <3>6. QED
      BY <3>1, <3>2, <3>3, <3>4, <3>5
  <2>11. QED
    BY <2>2, <2>7, <2>8, <2>9, <2>10
<1>3. QED
  BY <1>1, <1>2 DEF Reserve

\* A command ends.
LEMMA CommandEndsKeeps ==
  ASSUME IInv, NEW a \in Attempts, CommandEnds(a)
  PROVE  IInv'
BY OverKeeps DEF CommandEnds, Step

\* The receipt is sealed with the outcome, its reservation standing.
LEMMA WriteReceiptKeeps ==
  ASSUME IInv, NEW a \in Attempts, WriteReceipt(a)
  PROVE  IInv'
<1> USE DEF IInv
<1>1. at[a].pc = "over" /\ job[at[a].job] = "running" /\ at[a].outcome \in Statuses
  BY DEF WriteReceipt, Step, Placed, Working, Shape, AtShapes
<1> DEFINE r == [receipt[a] EXCEPT !.status = at[a].outcome, !.hours = 0]
           w == [at[a] EXCEPT !.pc = "sealed"]
<1>2. Shape'
  <2>1. receipt[a] \in ReceiptShapes /\ at[a] \in AtShapes
    BY DEF Shape
  <2>2. r \in ReceiptShapes /\ w \in AtShapes
    BY ONLY <1>1, <2>1 DEF ReceiptShapes, AtShapes
  <2>3. /\ receipt' = [receipt EXCEPT ![a] = r] /\ at' = [at EXCEPT ![a] = w]
        /\ UNCHANGED <<job, spent, earlier, pointer, acct>>
    BY DEF WriteReceipt, To
  <2> HIDE DEF r, w
  <2>4. Shape
    OBVIOUS
  <2>5. QED
    BY ONLY <2>2, <2>3, <2>4 DEF Shape
<1>3. /\ at'[a].pc = "sealed" /\ receipt'[a].status = at[a].outcome /\ receipt'[a].hours = 0
      /\ \A b \in Attempts \ {a} : at'[b] = at[b] /\ receipt'[b] = receipt[b]
      /\ \A b \in Attempts : /\ at'[b].job = at[b].job /\ at'[b].task = at[b].task
                             /\ at'[b].outcome = at[b].outcome
                             /\ receipt'[b].reserved = receipt[b].reserved
      /\ job' = job /\ spent' = spent /\ earlier' = earlier /\ pointer' = pointer /\ acct' = acct
  BY DEF WriteReceipt, To, Shape, ReceiptShapes, AtShapes
<1>4. ~Charged(a) /\ receipt[a].hours = 0
  BY <1>1 DEF Costing, Charged
<1>5. \A b \in Attempts : receipt'[b].hours = receipt[b].hours
  BY <1>3, <1>4
<1>6. \A b \in Attempts : Reserved(b)' = Reserved(b) /\ Charged(b)' = Charged(b)
        /\ Planned(b)' = Planned(b) /\ Planned(b) \in Nat
  BY <1>3, <1>5, PlannedIsNatural DEF Reserved, Charged, Planned
<1>7. Accounts'
  BY <1>3, <1>6, AccountsStand
<1>8. WithinAllowance'
  BY <1>2, <1>6, PlansNoMore
<1>9. ASSUME NEW s \in Tasks
      PROVE  Points(s)'
  BY <1>3 DEF Points, Named, Shape
<1>10. ASSUME NEW b \in Attempts
       PROVE  (Placed(b) /\ Admitted(b) /\ Told(b) /\ ReservedOnce(b) /\ Costing(b))'
  <2>1. Placed(b)'
    BY <1>1, <1>3, <1>6 DEF Placed, Step, Working
  <2>2. Admitted(b)'
    BY <1>1, <1>3 DEF Admitted
  <2>3. Told(b)'
    BY <1>1, <1>3 DEF Told, Past
  <2>4. ReservedOnce(b)'
    BY <1>1, <1>3, <1>6 DEF ReservedOnce
  <2>5. Costing(b)'
    BY <1>3, <1>5, <1>6 DEF Costing, CostOf
  <2>6. QED
    BY <2>1, <2>2, <2>3, <2>4, <2>5
<1>11. QED
  BY <1>2, <1>7, <1>8, <1>9, <1>10

\* The pointer of its row is moved to the attempt.
LEMMA WritePointerKeeps ==
  ASSUME IInv, NEW a \in Attempts, WritePointer(a)
  PROVE  IInv'
<1> USE DEF IInv
<1>1. at[a].pc = "sealed" /\ at[a].task \in Tasks
  BY DEF WritePointer, Step, Placed
<1>2. Shape'
  <2> DEFINE w == [at[a] EXCEPT !.pc = "done"]
             v == [on |-> a, seal |-> receipt[a]]
  <2>1. /\ at' = [at EXCEPT ![a] = w] /\ pointer' = [pointer EXCEPT ![at[a].task] = v]
        /\ UNCHANGED <<job, spent, earlier, receipt, acct>>
    BY DEF WritePointer, To
  <2>2. w \in AtShapes
    <3>1. at[a] \in AtShapes
      BY DEF Shape
    <3>2. QED
      BY ONLY <3>1 DEF AtShapes
  <2>3. v \in [on : Attempts \cup {None}, seal : ReceiptShapes]
    BY DEF Shape
  <2> HIDE DEF w, v
  <2>4. Shape
    OBVIOUS
  <2>5. QED
    BY ONLY <1>1, <2>1, <2>2, <2>3, <2>4 DEF Shape
<1>3. /\ at'[a].pc = "done" /\ pointer'[at[a].task].on = a
      /\ \A t \in Tasks \ {at[a].task} : pointer'[t] = pointer[t]
      /\ \A b \in Attempts \ {a} : at'[b] = at[b]
      /\ \A b \in Attempts : /\ at'[b].job = at[b].job /\ at'[b].task = at[b].task
                             /\ at'[b].outcome = at[b].outcome
      /\ job' = job /\ spent' = spent /\ earlier' = earlier /\ receipt' = receipt /\ acct' = acct
  BY <1>1 DEF WritePointer, To, Shape, AtShapes
<1>4. \A b \in Attempts : Reserved(b)' = Reserved(b) /\ Charged(b)' = Charged(b)
        /\ Planned(b)' = Planned(b) /\ Planned(b) \in Nat
  BY <1>3, PlannedIsNatural DEF Reserved, Charged, Planned
<1>5. Accounts'
  BY <1>3, <1>4, AccountsStand
<1>6. WithinAllowance'
  BY <1>2, <1>4, PlansNoMore
<1>7. ASSUME NEW s \in Tasks
      PROVE  Points(s)'
  BY <1>3 DEF Points, Named, Shape
<1>8. ASSUME NEW b \in Attempts
      PROVE  (Placed(b) /\ Admitted(b) /\ Told(b) /\ ReservedOnce(b) /\ Costing(b))'
  <2>1. Placed(b)'
    BY <1>1, <1>3, <1>4 DEF Placed, Step, Working
  <2>2. Admitted(b)'
    BY <1>1, <1>3 DEF Admitted
  <2>3. Told(b)'
    BY <1>1, <1>3 DEF Told, Past
  <2>4. ReservedOnce(b)'
    BY <1>1, <1>3, <1>4 DEF ReservedOnce
  <2>5. Costing(b)'
    BY <1>3, <1>4 DEF Costing, CostOf
  <2>6. QED
    BY <2>1, <2>2, <2>3, <2>4, <2>5
<1>9. QED
  BY <1>2, <1>5, <1>6, <1>7, <1>8

-----------------------------------------------------------------------------
(* The accounting. *)

\* A step of the accounting that writes nothing disturbs only what is said of its
\* own state.
LEMMA LookingKeeps ==
  ASSUME IInv, UNCHANGED <<job, spent, earlier, at, receipt, pointer>>,
         acct' \in AcctShapes, Accounts',
         \A a \in Attempts :
           acct'.on = a /\ acct'.value.status = "COMPLETE" => at[a].outcome = "COMPLETE"
  PROVE  IInv'
<1> USE DEF IInv
<1>1. Shape'
  BY DEF Shape
<1>2. \A a \in Attempts : Reserved(a)' = Reserved(a) /\ Charged(a)' = Charged(a)
        /\ Planned(a)' = Planned(a) /\ Planned(a) \in Nat
  BY PlannedIsNatural DEF Reserved, Charged, Planned
<1>3. WithinAllowance'
  BY <1>1, <1>2, PlansNoMore
<1>4. ASSUME NEW s \in Tasks
      PROVE  Points(s)'
  BY DEF Points, Named
<1>5. ASSUME NEW b \in Attempts
      PROVE  (Placed(b) /\ Admitted(b) /\ Told(b) /\ ReservedOnce(b) /\ Costing(b))'
  <2>1. Placed(b)' /\ Admitted(b)'
    BY <1>2 DEF Placed, Admitted, Step
  <2>2. Told(b)'
    BY DEF Told
  <2>3. ReservedOnce(b)' /\ Costing(b)'
    BY <1>2 DEF ReservedOnce, Costing, CostOf
  <2>4. QED
    BY <2>1, <2>2, <2>3
<1>6. QED
  BY <1>1, <1>3, <1>4, <1>5

\* Going on with the next receipt, or with none, is such a step.
LEMMA OnwardKeeps ==
  ASSUME IInv, UNCHANGED <<job, spent, earlier, at, receipt, pointer>>,
         acct' \in AcctShapes, acct'.pc \in {"idle", "load"}, acct'.on = None,
         \A a \in acct'.todo : Reserved(a) /\ ~Charged(a)
  PROVE  IInv'
<1>1. Accounts'
  BY DEF Accounts, Reserved, Charged
<1>2. QED
  BY <1>1, LookingKeeps, NmAssumption

\* A job's runs from j on last no less than j, and no more if j was the last.
LEMMA SpanIsCost ==
  ASSUME Shape, NEW j \in Jobs, NEW gap \in Nat, Later(j) = {} => gap = 0
  PROVE  Span(j) + gap \in Nat /\ CostOf(Span(j) + gap, j)
<1> DEFINE w == [k \in Later(j) |-> spent[k]]
           s == SumFunctionOnSet(w, Later(j))
<1>1. Later(j) \in SUBSET Jobs
  BY DEF Later
<1>2. IsFiniteSet(Later(j)) /\ spent[j] \in Nat
  BY <1>1, NmAssumption, FS_Subset DEF Shape
<1>3. \A k \in Later(j) : w[k] \in Nat
  BY <1>1 DEF Shape
<1>4. Span(j) = spent[j] + s
  BY DEF Span
<1> HIDE DEF w
<1>5. s \in Nat
  BY <1>2, <1>3, SumOfNaturals
<1>6. Later(j) = {} => s = 0
  BY <1>2, <1>3, SumOfZeros
<1>7. Later(j) # {} => \E k \in Jobs : j \in earlier[k]
  BY DEF Later
<1> HIDE DEF s
<1>8. QED
  BY <1>2, <1>4, <1>5, <1>6, <1>7 DEF CostOf

\* Taking the lock, loading a receipt, asking the scheduler, ending.
LEMMA LooksKeep ==
  ASSUME IInv, BeginAccount \/ Load \/ Query \/ EndAccount \/ AccountDies
  PROVE  IInv'
<1> USE DEF IInv
<1>r. acct = [pc |-> acct.pc, todo |-> acct.todo, on |-> acct.on, value |-> acct.value,
              cost |-> acct.cost, pending |-> acct.pending, blind |-> acct.blind]
  BY DEF Shape, AcctShapes
<1>s. /\ acct.todo \in SUBSET Attempts /\ acct.on \in Attempts \cup {None}
      /\ acct.value \in ReceiptShapes /\ acct.pending \in BOOLEAN /\ acct.blind \in BOOLEAN
      /\ NoReceipt \in ReceiptShapes /\ acct.cost \in Nat
      /\ \A a \in acct.todo : Reserved(a) /\ ~Charged(a)
  BY DEF Shape, AcctShapes, ReceiptShapes, Statuses, NoReceipt, Accounts
<1>u. UNCHANGED <<job, spent, earlier, at, receipt, pointer>>
  BY DEF BeginAccount, Load, Query, EndAccount, AccountDies
<1>n. ASSUME NEW pc \in {"idle", "load"}, NEW todo \in SUBSET Attempts, NEW p \in BOOLEAN,
             NEW q \in BOOLEAN, \A a \in todo : Reserved(a) /\ ~Charged(a),
             acct' = [pc |-> pc, todo |-> todo, on |-> None, value |-> NoReceipt,
                      cost |-> 0, pending |-> p, blind |-> q]
      PROVE  IInv'
  <2>1. acct' \in AcctShapes
    BY <1>n, <1>s DEF AcctShapes
  <2>2. acct'.pc = pc /\ acct'.on = None /\ acct'.todo = todo
    BY <1>n
  <2>3. QED
    BY <1>n, <1>u, <2>1, <2>2, OnwardKeeps
<1>1. CASE BeginAccount
  <2> DEFINE p == \E a \in Attempts : Exists(a) /\ ~Reserved(a)
             q == \E j \in Jobs : job[j] = "running"
             todo == {a \in Attempts : Reserved(a) /\ ~Charged(a)}
  <2>1. p \in BOOLEAN /\ q \in BOOLEAN /\ todo \in SUBSET Attempts
        /\ \A a \in todo : Reserved(a) /\ ~Charged(a)
    OBVIOUS
  <2>2. acct' = [pc |-> "load", todo |-> todo, on |-> None, value |-> NoReceipt,
                 cost |-> 0, pending |-> p, blind |-> q]
    BY <1>1 DEF BeginAccount, Idle
  <2> HIDE DEF p, q, todo
  <2>3. QED
    BY <1>n, <2>1, <2>2
<1>2. CASE Load
  <2>1. PICK a \in acct.todo :
          acct' = [acct EXCEPT !.todo = @ \ {a}, !.on = a, !.value = receipt[a], !.pc = "query"]
    BY <1>2 DEF Load
  <2>2. acct' = [pc |-> "query", todo |-> acct.todo \ {a}, on |-> a, value |-> receipt[a],
                 cost |-> acct.cost, pending |-> acct.pending, blind |-> acct.blind]
    BY <1>r, <2>1
  <2>3. a \in Attempts /\ a # None /\ receipt[a] \in ReceiptShapes
    BY <1>s, NmAssumption DEF Shape
  <2>4. Accounts'
    <3>1. /\ acct'.pc = "query" /\ acct'.todo = acct.todo \ {a} /\ acct'.on = a
          /\ acct'.value = receipt[a] /\ receipt' = receipt
      BY <1>u, <2>2
    <3>2. \A b \in Attempts : Reserved(b)' = Reserved(b) /\ Charged(b)' = Charged(b)
      BY <3>1 DEF Reserved, Charged
    <3>3. QED
      BY <1>s, <2>3, <3>1, <3>2 DEF Accounts
  <2>5. \A b \in Attempts :
          acct'.on = b /\ acct'.value.status = "COMPLETE" => at[b].outcome = "COMPLETE"
    BY <2>2 DEF Told
  <2>6. acct' \in AcctShapes
    BY <1>s, <2>2, <2>3 DEF AcctShapes
  <2>7. QED
    BY <1>u, <2>4, <2>5, <2>6, LookingKeeps
<1>3. CASE Query
  <2> DEFINE mine == at[acct.on].job
  <2>1. /\ acct.pc = "query" /\ acct.on \in Attempts /\ mine \in Jobs
        /\ Reserved(acct.on) /\ ~Charged(acct.on) /\ acct.on \notin acct.todo
        /\ acct.on # None /\ acct.value.reserved = receipt[acct.on].reserved
    BY <1>3, <1>s DEF Query, Accounts, Placed, ReservedOnce, Step
  <2>2. CASE acct' = [Idle EXCEPT !.pc = "load", !.todo = acct.todo, !.pending = TRUE,
                                 !.blind = TRUE]
    <3>1. acct' = [pc |-> "load", todo |-> acct.todo, on |-> None, value |-> NoReceipt,
                   cost |-> 0, pending |-> TRUE, blind |-> TRUE]
      BY <2>2 DEF Idle
    <3>2. QED
      BY <1>n, <1>s, <3>1
  <2>3. ASSUME NEW cost \in Nat, Answered(cost), CostOf(cost, mine), job[mine] = "ended"
        PROVE  IInv'
    <3>1. acct' = [pc |-> "charge", todo |-> acct.todo, on |-> acct.on, value |-> acct.value,
                   cost |-> cost, pending |-> acct.pending, blind |-> acct.blind]
      BY <1>r, <2>3 DEF Answered
    <3>2. Accounts'
      <4>1. /\ acct'.pc = "charge" /\ acct'.todo = acct.todo /\ acct'.on = acct.on
            /\ acct'.value = acct.value /\ acct'.cost = cost
            /\ receipt' = receipt /\ at' = at /\ job' = job /\ spent' = spent
            /\ earlier' = earlier
        BY <1>u, <3>1
      <4>2. \A b \in Attempts : Reserved(b)' = Reserved(b) /\ Charged(b)' = Charged(b)
        BY <4>1 DEF Reserved, Charged
      <4>3. QED
        BY <1>s, <2>1, <2>3, <4>1, <4>2 DEF Accounts, CostOf
    <3>3. \A b \in Attempts :
            acct'.on = b /\ acct'.value.status = "COMPLETE" => at[b].outcome = "COMPLETE"
      BY <3>1 DEF Told
    <3>4. acct' \in AcctShapes
      BY <1>s, <3>1 DEF AcctShapes
    <3>5. QED
      BY <1>u, <3>2, <3>3, <3>4, LookingKeeps
  <2>4. CASE /\ \A j \in Later(mine) \cup {mine} : job[j] = "ended"
             /\ \E gap \in 0 .. (IF Later(mine) # {} THEN QueueGap ELSE 0) :
                  Answered(Span(mine) + gap)
    <3>1. PICK gap \in 0 .. (IF Later(mine) # {} THEN QueueGap ELSE 0) :
            Answered(Span(mine) + gap)
      BY <2>4
    <3>2. gap \in Nat /\ (Later(mine) = {} => gap = 0) /\ job[mine] = "ended"
      BY <2>4, NmAssumption
    <3>3. Span(mine) + gap \in Nat /\ CostOf(Span(mine) + gap, mine)
      BY <2>1, <3>2, SpanIsCost
    <3> HIDE DEF mine
    <3>4. QED
      BY <2>3, <3>1, <3>2, <3>3
  <2>5. CASE job[mine] = "ended" /\ Answered(spent[mine])
    <3>1. spent[mine] \in Nat /\ CostOf(spent[mine], mine)
      BY <2>1 DEF CostOf, Shape
    <3>2. QED
      BY <2>3, <2>5, <3>1
  <2>6. QED
    BY <1>3, <2>2, <2>4, <2>5 DEF Query
<1>4. CASE EndAccount \/ AccountDies
  <2>1. acct' = [pc |-> "idle", todo |-> {}, on |-> None, value |-> NoReceipt,
                 cost |-> 0, pending |-> FALSE, blind |-> FALSE]
    BY <1>4 DEF EndAccount, AccountDies, Idle
  <2>2. acct' \in AcctShapes
    BY <1>s, <2>1 DEF AcctShapes
  <2>3. acct'.pc = "idle" /\ acct'.on = None /\ acct'.todo = {}
    BY <2>1
  <2>4. QED
    BY <1>u, <2>2, <2>3, OnwardKeeps
<1>5. QED
  BY <1>1, <1>2, <1>3, <1>4

\* The receipt is charged with what the scheduler's answer says its allocation has
\* cost, and keeps its reservation; its status may be the older one that was loaded.
LEMMA ChargeKeeps ==
  ASSUME IInv, Charge
  PROVE  IInv'
<1> USE DEF IInv
<1> PICK a : a = acct.on
  OBVIOUS
<1> PICK v : v = acct.value
  OBVIOUS
<1> PICK h : h = acct.cost
  OBVIOUS
<1>1. /\ a \in Attempts /\ Reserved(a) /\ v.reserved = receipt[a].reserved
      /\ job[at[a].job] = "ended" /\ acct.pc = "charge" /\ ~Charged(a)
      /\ CostOf(h, at[a].job) /\ a \notin acct.todo /\ a # None
  BY DEF Charge, Accounts, Shape, AcctShapes
<1>2. at[a].job \in Jobs /\ at[a].task \in Tasks /\ h \in Nat /\ v \in ReceiptShapes
      /\ at[a].pc \notin Working
  BY <1>1 DEF Placed, Shape, AcctShapes, ReservedOnce, Step, Working
<1>3. receipt' = [receipt EXCEPT ![a] = [v EXCEPT !.hours = h]]
  BY DEF Charge
<1>4. /\ receipt'[a].status = v.status /\ receipt'[a].reserved = receipt[a].reserved
      /\ receipt'[a].hours = h /\ receipt'[a] \in ReceiptShapes
      /\ \A b \in Attempts \ {a} : receipt'[b] = receipt[b]
      /\ receipt' \in [Attempts -> ReceiptShapes]
  BY <1>1, <1>2, <1>3 DEF Shape, ReceiptShapes
<1>5. job' = job /\ spent' = spent /\ earlier' = earlier /\ at' = at /\ pointer' = pointer
  BY DEF Charge
<1>6. /\ acct'.pc \in {"repoint", "load"} /\ acct'.todo = acct.todo /\ acct' \in AcctShapes
      /\ acct'.pc = "repoint" => acct'.on = a /\ acct'.value = v
      /\ acct'.pc = "load" => acct'.on = None
  <2>1. NoReceipt \in ReceiptShapes /\ acct \in AcctShapes
    BY DEF NoReceipt, ReceiptShapes, Statuses, Shape
  <2>2. acct' = [acct EXCEPT !.pc = "repoint"] \/ Onward
    BY DEF Charge, ReadPointer
  <2>3. CASE acct' = [acct EXCEPT !.pc = "repoint"]
    BY <2>1, <2>3 DEF AcctShapes
  <2>4. CASE Onward
    BY <2>1, <2>4 DEF Onward, AcctShapes
  <2>5. QED
    BY <2>2, <2>3, <2>4
<1>7. Shape'
  BY <1>4, <1>5, <1>6 DEF Shape
<1>8. \A b \in Attempts : Reserved(b)' = Reserved(b)
  BY <1>4 DEF Reserved
<1>9. \A b \in Attempts \ {a} : Charged(b)' = Charged(b) /\ Planned(b)' = Planned(b)
        /\ Planned(b) \in Nat
  BY <1>4, PlannedIsNatural DEF Charged, Planned
<1>10. Planned(a)' =< Planned(a)
  <2>1. receipt[a].reserved \in Nat
    BY <1>1 DEF Shape, ReceiptShapes
  <2>2. Planned(a) = receipt[a].reserved
    BY <1>1 DEF Planned
  <2>3. QED
    BY <1>2, <1>4, <2>1, <2>2 DEF Planned
<1>11. Accounts'
  <2>1. \A b \in acct.todo : Reserved(b)' /\ ~Charged(b)'
    BY <1>1, <1>8, <1>9 DEF Accounts, Shape, AcctShapes
  <2>2. QED
    BY <1>1, <1>4, <1>5, <1>6, <1>8, <2>1 DEF Accounts
<1>12. WithinAllowance'
  BY <1>7, <1>9, <1>10, PlansNoMore
<1>13. ASSUME NEW s \in Tasks
       PROVE  Points(s)'
  BY <1>5 DEF Points, Named
<1>14. ASSUME NEW b \in Attempts
       PROVE  (Placed(b) /\ Admitted(b) /\ Told(b) /\ ReservedOnce(b) /\ Costing(b))'
  <2>1. Placed(b)'
    <3>1. CASE b = a
      BY <1>1, <1>5, <3>1 DEF Placed, Step, ReservedOnce
    <3>2. CASE b # a
      BY <1>5, <1>8, <1>9, <3>2 DEF Placed, Step
    <3>3. QED
      BY <3>1, <3>2
  <2>2. Admitted(b)'
    BY <1>5 DEF Admitted
  <2>3. Told(b)'
    BY <1>1, <1>4, <1>5, <1>6, NmAssumption DEF Told
  <2>4. ReservedOnce(b)'
    BY <1>5, <1>8 DEF ReservedOnce
  <2>5. Costing(b)'
    <3>1. CASE b = a
      BY <1>1, <1>2, <1>4, <1>5, <1>8, <3>1 DEF Costing, CostOf
    <3>2. CASE b # a
      BY <1>4, <1>5, <1>8, <1>9, <3>2 DEF Costing, CostOf
    <3>3. QED
      BY <3>1, <3>2
  <2>6. QED
    BY <2>1, <2>2, <2>3, <2>4, <2>5
<1>15. QED
  BY <1>7, <1>11, <1>12, <1>13, <1>14

\* The pointer that named the receipt follows it.
LEMMA RepointKeeps ==
  ASSUME IInv, Repoint
  PROVE  IInv'
<1> USE DEF IInv
<1> PICK a : a = acct.on
  OBVIOUS
<1>1. a \in Attempts /\ at[a].task \in Tasks
  BY DEF Repoint, Accounts, Shape, AcctShapes, ReservedOnce, Placed, Step
<1>2. /\ pointer' = [pointer EXCEPT ![at[a].task] = [on |-> a, seal |-> receipt[a]]]
      /\ job' = job /\ spent' = spent /\ earlier' = earlier /\ at' = at /\ receipt' = receipt
  BY DEF Repoint
<1>3. acct'.pc = "load" /\ acct'.todo = acct.todo /\ acct'.on = None /\ acct' \in AcctShapes
  <2>1. NoReceipt \in ReceiptShapes /\ acct \in AcctShapes
    BY DEF NoReceipt, ReceiptShapes, Statuses, Shape
  <2>2. QED
    BY <2>1 DEF Repoint, Onward, AcctShapes
<1>4. Shape'
  BY <1>1, <1>2, <1>3 DEF Shape
<1>5. \A b \in Attempts : Reserved(b)' = Reserved(b) /\ Charged(b)' = Charged(b)
        /\ Planned(b)' = Planned(b) /\ Planned(b) \in Nat
  BY <1>2, PlannedIsNatural DEF Reserved, Charged, Planned
<1>6. Accounts'
  BY <1>2, <1>3, <1>5 DEF Accounts, Shape, AcctShapes
<1>7. WithinAllowance'
  BY <1>4, <1>5, PlansNoMore
<1>8. ASSUME NEW s \in Tasks
      PROVE  Points(s)'
  BY <1>1, <1>2 DEF Points, Named, Shape
<1>9. ASSUME NEW b \in Attempts
      PROVE  (Placed(b) /\ Admitted(b) /\ Told(b) /\ ReservedOnce(b) /\ Costing(b))'
  BY <1>2, <1>3, <1>5, NmAssumption
  DEF Placed, Admitted, Told, ReservedOnce, Costing, CostOf, Step
<1>10. QED
  BY <1>4, <1>6, <1>7, <1>8, <1>9

-----------------------------------------------------------------------------
(* The scheduler. *)

\* An allocation ends with every attempt that was at work in it; none of them was
\* charged while it ran.
LEMMA EndAllocationKeeps ==
  ASSUME IInv, NEW j \in Jobs, EndAllocation(j)
  PROVE  IInv'
<1> USE DEF IInv
<1> DEFINE mine == {a \in Attempts : at[a].job = j}
<1>1. PICK h \in 1 .. MaxCost : spent' = [spent EXCEPT ![j] = h]
  BY DEF EndAllocation
<1>2. h \in Nat
  BY NmAssumption
<1>8. /\ \A a \in Attempts : /\ at'[a].task = at[a].task /\ at'[a].job = at[a].job
                             /\ at'[a].outcome = at[a].outcome
      /\ \A a \in mine : at'[a].pc \in {"done", "dead"} /\ (at[a].pc = "none" => FALSE)
      /\ \A a \in Attempts \ mine : at'[a].pc = at[a].pc
      /\ at' \in [Attempts -> AtShapes]
  <2>1. \A a \in mine : at[a].pc # "none"
    BY NmAssumption DEF Placed, Step
  <2>2. at' = [a \in Attempts |-> IF a \in mine /\ at[a].pc # "done"
                                  THEN [at[a] EXCEPT !.pc = "dead"] ELSE at[a]]
    BY DEF EndAllocation
  <2>3. at \in [Attempts -> AtShapes]
    BY DEF Shape
  <2>4. \A a \in Attempts : [at[a] EXCEPT !.pc = "dead"] \in AtShapes
    BY <2>3 DEF AtShapes
  <2>5. \A a \in Attempts : at'[a] = IF a \in mine /\ at[a].pc # "done"
                                    THEN [at[a] EXCEPT !.pc = "dead"] ELSE at[a]
    BY <2>2
  <2>6. at' \in [Attempts -> AtShapes]
    BY <2>2, <2>3, <2>4
  <2>7. \A a \in Attempts : LET d == [at[a] EXCEPT !.pc = "dead"] IN
          d.pc = "dead" /\ d.task = at[a].task /\ d.job = at[a].job /\ d.outcome = at[a].outcome
    BY <2>3 DEF AtShapes
  <2>8. QED
    BY <2>1, <2>5, <2>6, <2>7
<1>9. /\ job[j] = "running" /\ job'[j] = "ended" /\ \A i \in Jobs \ {j} : job'[i] = job[i]
      /\ job' \in [Jobs -> {"none", "running", "ended"}]
      /\ spent'[j] = h /\ \A i \in Jobs \ {j} : spent'[i] = spent[i]
      /\ spent' \in [Jobs -> Nat]
      /\ earlier' = earlier /\ receipt' = receipt /\ pointer' = pointer /\ acct' = acct
  BY <1>1, <1>2 DEF EndAllocation, Shape
<1>10. Shape'
  BY <1>8, <1>9 DEF Shape
<1>11. \A b \in Attempts : Reserved(b)' = Reserved(b) /\ Charged(b)' = Charged(b)
        /\ Planned(b)' = Planned(b) /\ Planned(b) \in Nat
  BY <1>9, PlannedIsNatural DEF Reserved, Charged, Planned
<1>12. \A b \in mine : ~Charged(b)
  BY <1>9 DEF Costing, CostOf
<1>13. Accounts'
  <2>1. \A b \in acct'.todo : Reserved(b)' /\ ~Charged(b)'
    BY <1>9, <1>11 DEF Accounts, Shape, AcctShapes
  <2>2. CASE acct.pc \in {"query", "charge", "repoint"}
    <3>1. acct.on \in Attempts /\ Reserved(acct.on)
      BY <2>2 DEF Accounts, Shape, AcctShapes
    <3>2. at[acct.on].job \in Jobs /\ at'[acct.on].job = at[acct.on].job
      BY <1>8, <3>1 DEF ReservedOnce, Placed, Step
    <3>3. job[at[acct.on].job] = "ended" =>
            job'[at[acct.on].job] = "ended" /\ spent'[at[acct.on].job] = spent[at[acct.on].job]
      BY <1>9, <3>2
    <3>4. Reserved(acct.on)' /\ Charged(acct.on)' = Charged(acct.on)
      BY <1>9, <3>1 DEF Reserved, Charged
    <3>5. QED
      BY <1>9, <2>1, <2>2, <3>2, <3>3, <3>4 DEF Accounts, CostOf
  <2>3. CASE acct.pc \notin {"query", "charge", "repoint"}
    BY <1>9, <2>1, <2>3 DEF Accounts
  <2>4. QED
    BY <2>2, <2>3
<1>14. WithinAllowance'
  BY <1>10, <1>11, PlansNoMore
<1>15. ASSUME NEW s \in Tasks
       PROVE  Points(s)'
  BY <1>8, <1>9 DEF Points, Named, Shape
<1>16. ASSUME NEW b \in Attempts
       PROVE  (Placed(b) /\ Admitted(b) /\ Told(b) /\ ReservedOnce(b) /\ Costing(b))'
  <2>1. Placed(b)'
    BY <1>8, <1>9, <1>11 DEF Placed, Step, Working
  <2>2. Admitted(b)'
    BY <1>8 DEF Admitted
  <2>3. Told(b)'
    BY <1>8, <1>9 DEF Told, Past
  <2>4. ReservedOnce(b)'
    BY <1>8, <1>11 DEF ReservedOnce
  <2>5. Costing(b)'
    <3>1. CASE b \in mine
      BY <1>8, <1>9, <1>11, <1>12, <3>1 DEF Costing, CostOf
    <3>2. CASE b \notin mine
      <4>1. Reserved(b) => at[b].job \in Jobs \ {j}
        BY <3>2 DEF ReservedOnce, Placed, Step
      <4>2. Charged(b) => Reserved(b)
        BY DEF Costing, CostOf
      <4>3. QED
        BY <1>8, <1>9, <1>11, <4>1, <4>2 DEF Costing, CostOf
    <3>3. QED
      BY <3>1, <3>2
  <2>6. QED
    BY <2>1, <2>2, <2>3, <2>4, <2>5
<1>17. QED
  BY <1>10, <1>13, <1>14, <1>15, <1>16

\* A job runs again in an allocation that had not begun: what has ended has ended,
\* and what was requeued before stays so.
LEMMA RequeueKeeps ==
  ASSUME IInv, NEW i \in Jobs, NEW j \in Jobs, Requeue(i, j)
  PROVE  IInv'
<1> USE DEF IInv
<1>1. /\ job[j] = "none" /\ job'[j] = "running" /\ \A k \in Jobs \ {j} : job'[k] = job[k]
      /\ job' \in [Jobs -> {"none", "running", "ended"}]
      /\ earlier' \in [Jobs -> SUBSET Jobs]
      /\ \A k \in Jobs \ {j} : earlier'[k] = earlier[k]
      /\ spent' = spent /\ at' = at /\ receipt' = receipt /\ pointer' = pointer /\ acct' = acct
  BY DEF Requeue, Shape
<1>2. Shape'
  BY <1>1 DEF Shape
<1>3. \A b \in Attempts : Reserved(b)' = Reserved(b) /\ Charged(b)' = Charged(b)
        /\ Planned(b)' = Planned(b) /\ Planned(b) \in Nat
  BY <1>1, PlannedIsNatural DEF Reserved, Charged, Planned
<1>4. ASSUME NEW h, NEW k \in Jobs, CostOf(h, k)
      PROVE  h >= spent[k] /\ (h = spent[k] \/ \E l \in Jobs : k \in earlier'[l])
  <2>1. earlier[j] = {}
    BY <1>1 DEF Shape
  <2>2. QED
    BY <1>1, <1>4, <2>1 DEF CostOf
<1>5. \A k \in Jobs : job[k] = "ended" => job'[k] = "ended"
  BY <1>1
<1>6. Accounts'
  <2>1. \A b \in Attempts : Reserved(b) => at[b].job \in Jobs
    BY DEF ReservedOnce, Placed, Step
  <2>2. acct.todo \in SUBSET Attempts /\ acct.on \in Attempts \cup {None}
    BY DEF Shape, AcctShapes
  <2>3. \A b \in acct'.todo : Reserved(b)' /\ ~Charged(b)'
    BY <1>1, <1>3, <2>2 DEF Accounts
  <2>4. CASE acct.pc \in {"query", "charge", "repoint"}
    <3>1. acct.on \in Attempts /\ Reserved(acct.on)
      BY <2>2, <2>4 DEF Accounts
    <3>2. Reserved(acct.on)' /\ Charged(acct.on)' = Charged(acct.on)
      <4>1. receipt' = receipt /\ acct' = acct
        BY <1>1
      <4>2. QED
        BY <3>1, <4>1 DEF Reserved, Charged
    <3>3. acct.pc = "charge" => CostOf(acct.cost, at[acct.on].job)'
      BY <1>1, <1>4, <2>1, <3>1 DEF Accounts, CostOf
    <3>4. QED
      BY <1>1, <1>5, <2>1, <2>3, <2>4, <3>1, <3>2, <3>3 DEF Accounts
  <2>5. CASE acct.pc \notin {"query", "charge", "repoint"}
    BY <1>1, <2>3, <2>5 DEF Accounts
  <2>6. QED
    BY <2>4, <2>5
<1>7. WithinAllowance'
  BY <1>2, <1>3, PlansNoMore
<1>8. ASSUME NEW s \in Tasks
      PROVE  Points(s)'
  BY <1>1 DEF Points, Named
<1>9. ASSUME NEW b \in Attempts
      PROVE  (Placed(b) /\ Admitted(b) /\ Told(b) /\ ReservedOnce(b) /\ Costing(b))'
  <2>1. Placed(b)'
    BY <1>1, <1>3 DEF Placed, Step, Working
  <2>2. Admitted(b)' /\ Told(b)'
    BY <1>1 DEF Admitted, Told
  <2>3. ReservedOnce(b)'
    BY <1>1, <1>3 DEF ReservedOnce
  <2>4. Costing(b)'
    <3>1. Charged(b) => at[b].job \in Jobs
      BY DEF Costing, ReservedOnce, Placed, Step
    <3>2. QED
      BY <1>1, <1>3, <1>4, <1>5, <3>1 DEF Costing, CostOf
  <2>5. QED
    BY <2>1, <2>2, <2>3, <2>4
<1>10. QED
  BY <1>2, <1>6, <1>7, <1>8, <1>9

-----------------------------------------------------------------------------
(* The theorems. *)

\* Every step keeps the invariant, and so does a step of none of them.
LEMMA IInvKept == IInv /\ [Next]_vars => IInv'
<1> SUFFICES ASSUME IInv, [Next]_vars
             PROVE  IInv'
  OBVIOUS
<1>1. CASE \E j \in Jobs : EndAllocation(j)
  BY <1>1, EndAllocationKeeps
<1>2. CASE \E i, j \in Jobs : Requeue(i, j)
  BY <1>2, RequeueKeeps
<1>3. CASE \E a \in Attempts, j \in Jobs, t \in Tasks : Begin(a, j, t)
  BY <1>3, BeginKeeps
<1>4. CASE \E a \in Attempts : Run(a)
  BY <1>4, AdmitKeeps, ReserveKeeps, CommandEndsKeeps, WriteReceiptKeeps, WritePointerKeeps
  DEF Run
<1>5. CASE Reconcile
  BY <1>5, LooksKeep, ChargeKeeps, RepointKeeps DEF Reconcile
<1>6. CASE UNCHANGED vars
  BY <1>6 DEF vars, IInv, Shape, Accounts, WithinAllowance, Planned, Charged, Reserved,
     Points, Named, Placed, Admitted, Told, ReservedOnce, Costing, CostOf, Step
<1>7. QED
  BY <1>1, <1>3, <1>4, <1>5, <1>6, <1>2 DEF Next

\* The whole invariant holds throughout.
THEOREM LedgerIsSound == Spec => []IInv
BY InitHolds, IInvKept, PTL DEF Spec

\* A command runs only after every row its own depends on was completed by some
\* attempt, whatever was written over pointers and receipts meanwhile.
THEOREM DependenciesAreComplete == Spec => []RunsOnComplete
<1>1. IInv => RunsOnComplete
  BY DEF IInv, Admitted, RunsOnComplete, Step
<1>2. QED
  BY <1>1, LedgerIsSound, PTL

\* The charges and the open reservations of all attempts together exceed the
\* allowance by no more than what allocations cost beyond their reservations, for
\* any number of attempts, any hours and any costs.
THEOREM AllowanceIsKept == Spec => []WithinAllowance
<1>1. IInv => WithinAllowance
  BY DEF IInv
<1>2. QED
  BY <1>1, LedgerIsSound, PTL

\* A charge is no less than what an ended allocation has cost, and no more unless its
\* job was requeued; no allocation is charged to two attempts.
THEOREM ChargedNoLess == Spec => []ChargedOnce
<1>1. IInv => ChargedOnce
  <2> SUFFICES ASSUME IInv, NEW a \in Attempts, Charged(a)
               PROVE  /\ job[at[a].job] = "ended" /\ receipt[a].hours >= spent[at[a].job]
                      /\ receipt[a].hours = spent[at[a].job] \/ Later(at[a].job) # {}
                      /\ \A b \in Attempts : Charged(b) /\ at[b].job = at[a].job => a = b
    BY DEF ChargedOnce
  <2>1. Reserved(a) /\ job[at[a].job] = "ended" /\ CostOf(receipt[a].hours, at[a].job)
    BY DEF IInv, Costing
  <2>2. Later(at[a].job) = {} => receipt[a].hours = spent[at[a].job]
    BY <2>1 DEF CostOf, Later
  <2>3. \A b \in Attempts : Charged(b) => Reserved(b)
    BY DEF IInv, Costing
  <2>4. QED
    BY <2>1, <2>2, <2>3 DEF IInv, CostOf, ReservedOnce
<1>2. QED
  BY <1>1, LedgerIsSound, PTL
=============================================================================
