--------------------------- MODULE RunnerProof ---------------------------
(***************************************************************************)
(* Proofs about the campaign runner, for every campaign file, every set of *)
(* processes and every bound.  The first half of each pair of results is   *)
(* about Campaign (processes), the second about ParallelRun (the threads   *)
(* of run --all --parallel); both rest on RowNext, the step of RowRun they *)
(* share, and on Apart, which says that nobody else writes the attempts of *)
(* a row an invocation has in hand.  In order: types, how far the loop has *)
(* come, who owns an attempt, what stays on disk, the gate, what a PASS    *)
(* says of the disk, and what exit code 0 says.                            *)
(***************************************************************************)
EXTENDS Campaign, ParallelRun, SetFacts, SequenceTheorems

\* Where an invocation has a row in hand, and where it has a number too.
WithRow == {"preparing", "prepared", "chosen", "admitted", "numbered", "recorded",
            "made", "launched", "running", "written", "ended", "returned"}
WithNumber == {"numbered", "recorded", "made", "launched", "running", "written", "ended"}

InHand ==
  \A w \in Workers : /\ job[w].pc \in WithRow => job[w].row \in Rows
                     /\ job[w].pc \in WithNumber => job[w].num \in AttemptNo

RowInv == RowTypeOK /\ InHand

USE CampaignFileAssumption, WorkersAssumption

-----------------------------------------------------------------------------
(* What the reading operators return. *)

LEMMA NumbersBounded ==
  ASSUME NEW r \in Rows
  PROVE  /\ Numbers(r) \subseteq AttemptNo
         /\ Numbers(r) # {} => Max(Numbers(r)) \in Numbers(r)
<1>1. Numbers(r) \subseteq AttemptNo /\ Numbers(r) \in SUBSET (0 .. MaxAttempt)
  BY DEF Numbers, AttemptNo
<1>2. QED
  BY <1>1, MaxOfBounded

LEMMA StateTyped ==
  ASSUME RowTypeOK, NEW r \in Rows
  PROVE  StateOf(r) \in RowState
<1>1. CASE Numbers(r) = {}
  BY <1>1 DEF StateOf, NeverRan, RowState, Verdicts
<1>2. CASE Numbers(r) # {}
  <2>1. Max(Numbers(r)) \in AttemptNo
    BY <1>2, NumbersBounded
  <2>2. attempts[r][Max(Numbers(r))].verdict \in {"NO_VERDICT", "PASS", "FAIL"}
    BY <2>1 DEF RowTypeOK, AttemptRecord
  <2>3. QED
    BY <1>2, <2>1, <2>2 DEF StateOf, RowState, Verdicts, AttemptNo
<1>3. QED
  BY <1>1, <1>2

LEMMA InputsTyped ==
  ASSUME RowTypeOK, NEW r \in Rows
  PROVE  InputsOf(r) \in [Rows -> RowState]
<1>1. NeverRan \in RowState
  BY DEF NeverRan, RowState, Verdicts
<1>2. QED
  BY <1>1, StateTyped DEF InputsOf

LEMMA FirstInRows ==
  ASSUME NEW w \in Workers, job[w].todo \in SUBSET Rows, job[w].todo # {}
  PROVE  First(w) \in job[w].todo /\ First(w) \in Rows
<1>1. job[w].todo \in SUBSET Nat
  BY DEF Rows
<1>2. Min(job[w].todo) \in job[w].todo
  BY <1>1, MinOfNaturals
<1>3. QED
  BY <1>2 DEF First

LEMMA AbsentTyped == Absent \in AttemptRecord
BY DEF Absent, AttemptRecord, RowState, NeverRan, Verdicts

LEMMA IdleTyped == Idle \in Invocation
BY AbsentTyped DEF Idle, Invocation, Pcs, Codes, Absent, AttemptRecord

-----------------------------------------------------------------------------
(* Updates of a record that stay in its type. *)

LEMMA TakenTyped ==
  ASSUME NEW i \in Invocation, NEW r \in Rows, NEW n \in Nat
  PROVE  /\ [i EXCEPT !.pc = "preparing", !.row = r, !.num = n] \in Invocation
         /\ [i EXCEPT !.pc = "chosen", !.row = r] \in Invocation
<1>1. r \in 0 .. NRows
  BY DEF Rows
<1>2. QED
  BY <1>1 DEF Invocation, Pcs

LEMMA InvokedTyped ==
  ASSUME NEW i \in Invocation, NEW cmd \in {"run", "prepare"}, NEW batch \in BOOLEAN,
         NEW every \in BOOLEAN, NEW explicit \in Nat, NEW rows \in SUBSET Rows
  PROVE  [i EXCEPT !.pc = "next", !.cmd = cmd, !.batch = batch, !.every = every,
            !.explicit = explicit, !.scheduled = rows, !.todo = rows] \in Invocation
<1>1. "next" \in Pcs
  BY DEF Pcs
<1>2. QED
  BY <1>1 DEF Invocation

LEMMA NumberedTyped ==
  ASSUME NEW i \in Invocation, NEW n \in AttemptNo
  PROVE  [i EXCEPT !.pc = "numbered", !.num = n] \in Invocation
<1>1. n \in Nat
  BY DEF AttemptNo
<1>2. QED
  BY <1>1 DEF Invocation, Pcs

LEMMA ReturnedTyped ==
  ASSUME NEW i \in Invocation, NEW c \in Codes
  PROVE  [i EXCEPT !.pc = "returned", !.code = c] \in Invocation
<1>1. "returned" \in Pcs
  BY DEF Pcs
<1>2. QED
  BY <1>1 DEF Invocation

LEMMA PassedTyped ==
  ASSUME NEW i \in Invocation, NEW r
  PROVE  [i EXCEPT !.todo = @ \ {r}] \in Invocation
BY DEF Invocation

LEMMA MovedOnTyped ==
  ASSUME NEW i \in Invocation, NEW p \in Pcs
  PROVE  [i EXCEPT !.pc = p] \in Invocation
BY DEF Invocation

LEMMA EndedTyped ==
  ASSUME NEW i \in Invocation, NEW ok \in BOOLEAN, NEW c \in BOOLEAN
  PROVE  /\ [i EXCEPT !.pc = "prepared", !.ok = ok, !.clean = c] \in Invocation
         /\ [i EXCEPT !.pc = "ended", !.ok = ok, !.clean = c] \in Invocation
<1>1. "prepared" \in Pcs /\ "ended" \in Pcs
  BY DEF Pcs
<1>2. QED
  BY <1>1 DEF Invocation

LEMMA CollectedTyped ==
  ASSUME NEW i \in Invocation, NEW p \in {"over", "next"}, NEW todo \in SUBSET Rows,
         NEW ins \in [Rows -> RowState], NEW seen \in [Rows -> 0 .. MaxAttempt],
         NEW left \in Codes, NEW lost \in SUBSET Rows
  PROVE  [i EXCEPT !.pc = p, !.todo = todo, !.row = 0, !.num = 0, !.ok = FALSE,
            !.inputs = ins, !.saw = seen, !.code = "OK", !.first = left,
            !.lost = lost] \in Invocation
<1>1. 0 \in 0 .. NRows /\ p \in Pcs /\ "OK" \in Codes
  BY DEF Pcs, Codes
<1>2. QED
  BY <1>1 DEF Invocation

LEMMA MadeTyped ==
  ASSUME NEW a \in AttemptRecord
  PROVE  [a EXCEPT !.stage = IF @ = "absent" THEN "made" ELSE @] \in AttemptRecord
BY DEF AttemptRecord

LEMMA StartedTyped ==
  ASSUME NEW a \in AttemptRecord, NEW ins \in [Rows -> RowState]
  PROVE  [a EXCEPT !.stage = "started", !.inputs = ins] \in AttemptRecord
BY DEF AttemptRecord

LEMMA JudgedTyped ==
  ASSUME NEW a \in AttemptRecord, NEW ok, NEW seen \in [Rows -> 0 .. MaxAttempt]
  PROVE  [a EXCEPT !.verdict = IF ok THEN "PASS" ELSE "FAIL", !.saw = seen] \in AttemptRecord
BY DEF AttemptRecord

-----------------------------------------------------------------------------
LEMMA InitTyped == RowInit => RowInv
<1> SUFFICES ASSUME RowInit PROVE RowInv
  OBVIOUS
<1>1. RowTypeOK
  BY AbsentTyped, IdleTyped DEF RowInit, RowTypeOK
<1>2. InHand
  BY DEF RowInit, InHand, Idle, WithRow, WithNumber
<1>3. QED
  BY <1>1, <1>2 DEF RowInv

\* Every step of an invocation keeps the types, and a row in hand.
LEMMA StepTyped ==
  ASSUME RowInv, NEW w \in Workers, InvocationStep(w)
  PROVE  RowInv'
<1> USE DEF RowInv
<1>o. orphans' = orphans
  BY DEF InvocationStep
<1> USE <1>o
<1>0. /\ job[w] \in Invocation
      /\ job[w].pc \in WithRow => job[w].row \in Rows
      /\ job[w].pc \in WithNumber => job[w].num \in AttemptNo
  BY DEF RowTypeOK, InHand
<1>a. ASSUME job' = [job EXCEPT ![w] = job'[w]], job'[w] \in Invocation,
             job'[w].pc \in WithRow => job'[w].row \in Rows,
             job'[w].pc \in WithNumber => job'[w].num \in AttemptNo
      PROVE  InHand' /\ job' \in [Workers -> Invocation]
  BY <1>a DEF InHand, RowTypeOK
<1>b. ASSUME NEW c \in Codes, Return(w, c), job[w].row \in Rows
      PROVE  InHand' /\ job' \in [Workers -> Invocation]
  <2> DEFINE j == [job[w] EXCEPT !.pc = "returned", !.code = c]
  <2>1. job' = [job EXCEPT ![w] = j]
    BY <1>b DEF Return, RowTypeOK
  <2>2. j \in Invocation
    BY <1>0, <1>b, ReturnedTyped
  <2>3. j.pc = "returned" /\ j.row = job[w].row
    BY <1>0 DEF Invocation
  <2> HIDE DEF j
  <2>4. QED
    BY <1>a, <1>b, <2>1, <2>2, <2>3 DEF RowTypeOK, WithNumber
<1>c. ASSUME job[w].pc = "next", job' = [job EXCEPT ![w].todo = @ \ {First(w)}]
      PROVE  InHand' /\ job' \in [Workers -> Invocation]
  <2> DEFINE j == [job[w] EXCEPT !.todo = @ \ {First(w)}]
  <2>1. job' = [job EXCEPT ![w] = j]
    BY <1>c DEF RowTypeOK
  <2>2. j \in Invocation
    BY <1>0, PassedTyped
  <2>3. j.pc = "next"
    BY <1>0, <1>c DEF Invocation
  <2> HIDE DEF j
  <2>4. QED
    BY <1>a, <2>1, <2>2, <2>3 DEF RowTypeOK, WithRow, WithNumber
<1>d. ASSUME NEW p \in {"raised", "admitted"}, job' = [job EXCEPT ![w].pc = p], job[w].row \in Rows
      PROVE  InHand' /\ job' \in [Workers -> Invocation]
  <2> DEFINE j == [job[w] EXCEPT !.pc = p]
  <2>1. job' = [job EXCEPT ![w] = j]
    BY <1>d DEF RowTypeOK
  <2>2. j \in Invocation
    BY <1>0, <1>d, MovedOnTyped DEF Pcs
  <2>3. j.pc = p /\ j.row = job[w].row
    BY <1>0 DEF Invocation
  <2> HIDE DEF j
  <2>4. QED
    BY <1>a, <1>d, <2>1, <2>2, <2>3 DEF RowTypeOK, WithNumber
<1>1. CASE DeferRow(w)
  <2>1. InHand' /\ job' \in [Workers -> Invocation]
    BY <1>c, <1>1 DEF DeferRow, Next1
  <2>2. QED
    BY <1>1, <2>1 DEF DeferRow, RowTypeOK
<1>2. CASE PrepareRow(w)
  <2>1. First(w) \in Rows
    BY <1>2, <1>0, FirstInRows DEF PrepareRow, Next1, Invocation
  <2>2. Len(prep[First(w)]) + 1 \in Nat
    BY <2>1, LenProperties DEF RowTypeOK
  <2> DEFINE j == [job[w] EXCEPT !.pc = "preparing", !.row = First(w),
                                 !.num = Len(prep[First(w)]) + 1]
  <2>3. job' = [job EXCEPT ![w] = j]
    BY <1>2 DEF PrepareRow, RowTypeOK
  <2>4. j \in Invocation /\ j.row \in Rows /\ j.pc \notin WithNumber
    <3>1. j \in Invocation
      BY <1>0, <2>1, <2>2, TakenTyped
    <3>2. j.row = First(w) /\ j.pc \in {"preparing", "chosen"}
      BY <1>0 DEF Invocation
    <3>3. QED
      BY <2>1, <3>1, <3>2 DEF WithNumber
  <2>5. QED
    BY <1>a, <1>2, <2>3, <2>4 DEF PrepareRow, RowTypeOK
<1>3. CASE NothingToPrepare(w)
  <2>1. job[w].row \in Rows
    BY <1>0, <1>3 DEF NothingToPrepare, WithRow
  <2>2. InHand' /\ job' \in [Workers -> Invocation]
    BY <1>b, <1>3, <2>1 DEF NothingToPrepare, Codes
  <2>3. QED
    BY <1>3, <2>2 DEF NothingToPrepare, RowTypeOK
<1>4. CASE PrepareCommands(w)
  <2>1. job[w].row \in Rows
    BY <1>0, <1>4 DEF PrepareCommands, WithRow
  <2>2. PICK ok \in BOOLEAN, wrote \in SUBSET PrepWrites[job[w].row], c \in BOOLEAN :
          /\ paths' = paths \cup wrote
          /\ job' = [job EXCEPT ![w].pc = "prepared", ![w].ok = ok, ![w].clean = c]
    <3>1. PICK ok \in BOOLEAN, wrote \in SUBSET PrepWrites[job[w].row] :
            /\ paths' = paths \cup wrote
            /\ job' = [job EXCEPT ![w].pc = "prepared", ![w].ok = ok,
                                  ![w].clean = @ /\ ok /\ wrote = PrepWrites[job[w].row]]
      BY <1>4 DEF PrepareCommands
    <3>2. PICK c \in BOOLEAN :
            c = (job[w].clean /\ ok /\ wrote = PrepWrites[job[w].row])
      OBVIOUS
    <3>3. job' = [job EXCEPT ![w].pc = "prepared", ![w].ok = ok, ![w].clean = c]
      BY <3>1, <3>2, Zenon
    <3>4. QED
      BY <3>1, <3>3
  <2> DEFINE j == [job[w] EXCEPT !.pc = "prepared", !.ok = ok, !.clean = c]
  <2>3. job' = [job EXCEPT ![w] = j]
    BY <2>2 DEF RowTypeOK
  <2>4. j \in Invocation
    BY <1>0, EndedTyped
  <2>5. j.row \in Rows /\ j.pc \notin WithNumber
    BY <1>0, <2>1 DEF Invocation, WithNumber
  <2>6. PrepWrites[job[w].row] \subseteq Paths
    BY <2>1
  <2>7. paths' \subseteq Paths
    BY <2>2, <2>6 DEF RowTypeOK
  <2> HIDE DEF j
  <2>8. InHand' /\ job' \in [Workers -> Invocation]
    BY <1>a, <2>3, <2>4, <2>5 DEF RowTypeOK
  <2>9. QED
    BY <1>4, <2>7, <2>8 DEF PrepareCommands, RowTypeOK
<1>5. CASE RecordPreparation(w)
  <2>1. job[w].row \in Rows
    BY <1>0, <1>5 DEF RecordPreparation, WithRow
  <2>2. PICK v \in {"PASS", "FAIL"} :
          prep' = [prep EXCEPT ![job[w].row] = Append(@, v)]
    BY <1>5 DEF RecordPreparation
  <2>3. Append(prep[job[w].row], v) \in Seq({"PASS", "FAIL"})
    BY <2>1, AppendProperties DEF RowTypeOK
  <2>4. prep' \in [Rows -> Seq({"PASS", "FAIL"})]
    BY <2>2, <2>3 DEF RowTypeOK
  <2>5. PICK j \in Invocation : /\ job' = [job EXCEPT ![w] = j]
                                /\ j.row = job[w].row /\ j.pc \notin WithNumber
    <3>1. \/ job' = [job EXCEPT ![w].pc = "chosen"]
          \/ job' = [job EXCEPT ![w].pc = "returned", ![w].code = "OK"]
          \/ job' = [job EXCEPT ![w].pc = "returned", ![w].code = "FAILED"]
      BY <1>5 DEF RecordPreparation, Return
    <3>2. [job[w] EXCEPT !.pc = "chosen"] \in Invocation
      BY <1>0 DEF Invocation, Pcs
    <3>3. \A c \in Codes : [job[w] EXCEPT !.pc = "returned", !.code = c] \in Invocation
      BY <1>0 DEF Invocation, Pcs
    <3>4. CASE job' = [job EXCEPT ![w].pc = "chosen"]
      <4>1. job' = [job EXCEPT ![w] = [job[w] EXCEPT !.pc = "chosen"]]
        BY <3>4 DEF RowTypeOK
      <4>2. QED
        BY <1>0, <3>2, <4>1 DEF WithNumber, Invocation
    <3>5. CASE job' = [job EXCEPT ![w].pc = "returned", ![w].code = "OK"]
      <4>1. job' = [job EXCEPT ![w] = [job[w] EXCEPT !.pc = "returned", !.code = "OK"]]
        BY <3>5 DEF RowTypeOK
      <4>2. [job[w] EXCEPT !.pc = "returned", !.code = "OK"] \in Invocation
        BY <3>3 DEF Codes
      <4>3. QED
        BY <1>0, <4>1, <4>2 DEF WithNumber, Invocation
    <3>6. CASE job' = [job EXCEPT ![w].pc = "returned", ![w].code = "FAILED"]
      <4>1. job' = [job EXCEPT ![w] = [job[w] EXCEPT !.pc = "returned", !.code = "FAILED"]]
        BY <3>6 DEF RowTypeOK
      <4>2. [job[w] EXCEPT !.pc = "returned", !.code = "FAILED"] \in Invocation
        BY <3>3 DEF Codes
      <4>3. QED
        BY <1>0, <4>1, <4>2 DEF WithNumber, Invocation
    <3>7. QED
      BY <3>1, <3>4, <3>5, <3>6
  <2>6. InHand' /\ job' \in [Workers -> Invocation]
    BY <1>a, <2>1, <2>5 DEF RowTypeOK
  <2>7. QED
    BY <1>5, <2>4, <2>6 DEF RecordPreparation, RowTypeOK
<1>6. CASE PreparationClash(w)
  <2>1. job[w].row \in Rows
    BY <1>0, <1>6 DEF PreparationClash, WithRow
  <2>2. InHand' /\ job' \in [Workers -> Invocation]
    BY <1>d, <1>6, <2>1 DEF PreparationClash
  <2>3. QED
    BY <1>6, <2>2 DEF PreparationClash, RowTypeOK
<1>7. CASE SkipRow(w)
  <2>1. InHand' /\ job' \in [Workers -> Invocation]
    BY <1>c, <1>7 DEF SkipRow, Next1
  <2>2. QED
    BY <1>7, <2>1 DEF SkipRow, RowTypeOK
<1>8. CASE TakeRow(w)
  <2>1. First(w) \in Rows
    BY <1>8, <1>0, FirstInRows DEF TakeRow, Next1, Invocation
  <2>2. Len(prep[First(w)]) + 1 \in Nat
    BY <2>1, LenProperties DEF RowTypeOK
  <2> DEFINE j == IF PrepareNow(w)
                  THEN [job[w] EXCEPT !.pc = "preparing", !.row = First(w),
                                      !.num = Len(prep[First(w)]) + 1]
                  ELSE [job[w] EXCEPT !.pc = "chosen", !.row = First(w)]
  <2>3. job' = [job EXCEPT ![w] = j]
    BY <1>8 DEF TakeRow, RowTypeOK
  <2>4. j \in Invocation /\ j.row \in Rows /\ j.pc \notin WithNumber
    <3>1. j \in Invocation
      BY <1>0, <2>1, <2>2, TakenTyped
    <3>2. j.row = First(w) /\ j.pc \in {"preparing", "chosen"}
      BY <1>0 DEF Invocation
    <3>3. QED
      BY <2>1, <3>1, <3>2 DEF WithNumber
  <2>5. QED
    BY <1>a, <1>8, <2>3, <2>4 DEF TakeRow, RowTypeOK
<1>9. CASE Refuse(w)
  <2>1. job[w].row \in Rows
    BY <1>0, <1>9 DEF Refuse, WithRow
  <2>2. InHand' /\ job' \in [Workers -> Invocation]
    BY <1>b, <1>9, <2>1 DEF Refuse, Codes
  <2>3. QED
    BY <1>9, <2>2 DEF Refuse, RowTypeOK
<1>10. CASE Admit(w)
  <2>1. job[w].row \in Rows
    BY <1>0, <1>10 DEF Admit, WithRow
  <2>2. InHand' /\ job' \in [Workers -> Invocation]
    BY <1>d, <1>10, <2>1 DEF Admit
  <2>3. QED
    BY <1>10, <2>2 DEF Admit, RowTypeOK
<1>22. CASE Exhausted(w)
  <2>1. job[w].row \in Rows
    BY <1>0, <1>22 DEF Exhausted, WithRow
  <2>2. InHand' /\ job' \in [Workers -> Invocation]
    BY <1>b, <1>22, <2>1 DEF Exhausted, Codes
  <2>3. QED
    BY <1>22, <2>2 DEF Exhausted, RowTypeOK
<1>11. CASE ChooseNumber(w)
  <2>1. job[w].row \in Rows
    BY <1>0, <1>11 DEF ChooseNumber, WithRow
  <2>2. PICK n \in AttemptNo :
          \/ job' = [job EXCEPT ![w].pc = "returned", ![w].code = "REFUSED"]
          \/ job' = [job EXCEPT ![w].pc = "numbered", ![w].num = n]
    BY <1>11 DEF ChooseNumber, Return
  <2> DEFINE a == [job[w] EXCEPT !.pc = "returned", !.code = "REFUSED"]
             b == [job[w] EXCEPT !.pc = "numbered", !.num = n]
  <2>3. job' = [job EXCEPT ![w] = a] \/ job' = [job EXCEPT ![w] = b]
    BY <2>2 DEF RowTypeOK
  <2>4. a \in Invocation /\ a.pc \notin WithNumber /\ a.row \in Rows
    <3>1. a \in Invocation
      BY <1>0, ReturnedTyped DEF Codes
    <3>2. QED
      BY <1>0, <2>1, <3>1 DEF Invocation, WithNumber
  <2>5. b \in Invocation /\ b.num \in AttemptNo /\ b.row \in Rows
    BY <1>0, <2>1, NumberedTyped DEF Invocation
  <2>6. InHand' /\ job' \in [Workers -> Invocation]
    BY <1>a, <2>3, <2>4, <2>5 DEF RowTypeOK
  <2>7. QED
    BY <1>11, <2>6 DEF ChooseNumber, RowTypeOK
<1>12. CASE RecordInputs(w)
  <2>1. job[w].row \in Rows /\ job[w].num \in AttemptNo
    BY <1>0, <1>12 DEF RecordInputs, WithRow, WithNumber
  <2>2. InputsOf(job[w].row) \in [Rows -> RowState]
    BY <2>1, InputsTyped
  <2> DEFINE j == [job[w] EXCEPT !.pc = "recorded", !.inputs = InputsOf(job[w].row)]
  <2>3. job' = [job EXCEPT ![w] = j]
    BY <1>12 DEF RecordInputs, RowTypeOK
  <2>4. j \in Invocation /\ j.row \in Rows /\ j.num \in AttemptNo
    BY <1>0, <2>1, <2>2 DEF Invocation, Pcs
  <2>5. QED
    BY <1>a, <1>12, <2>3, <2>4 DEF RecordInputs, RowTypeOK
<1>13. CASE MakeDirectory(w)
  <2>1. job[w].row \in Rows /\ job[w].num \in AttemptNo
    BY <1>0, <1>13 DEF MakeDirectory, WithRow, WithNumber
  <2> DEFINE r == job[w].row
             n == job[w].num
             a == [attempts[r][n] EXCEPT !.stage = IF @ = "absent" THEN "made" ELSE @]
             j == [job[w] EXCEPT !.pc = "made"]
  <2>2. a \in AttemptRecord
    BY <2>1, MadeTyped DEF RowTypeOK
  <2>3. attempts' = [attempts EXCEPT ![r] = [attempts[r] EXCEPT ![n] = a]]
    BY <1>13, <2>1 DEF MakeDirectory, RowTypeOK
  <2>4. attempts' \in [Rows -> [AttemptNo -> AttemptRecord]]
    BY <2>1, <2>2, <2>3 DEF RowTypeOK
  <2>5. job' = [job EXCEPT ![w] = j]
    BY <1>13 DEF MakeDirectory, RowTypeOK
  <2>6. j \in Invocation /\ j.row \in Rows /\ j.num \in AttemptNo
    BY <1>0, <2>1 DEF Invocation, Pcs
  <2>7. QED
    BY <1>a, <1>13, <2>4, <2>5, <2>6 DEF MakeDirectory, RowTypeOK
<1>14. CASE LinkStart(w)
  <2>1. job[w].row \in Rows /\ job[w].num \in AttemptNo
    BY <1>0, <1>14 DEF LinkStart, WithRow, WithNumber
  <2> DEFINE r == job[w].row
             n == job[w].num
             a == [attempts[r][n] EXCEPT !.stage = "started", !.inputs = job[w].inputs]
             j == [job[w] EXCEPT !.pc = "launched", !.tried = @ \cup {r}]
  <2>2. a \in AttemptRecord
    <3>1. attempts[r][n] \in AttemptRecord /\ job[w].inputs \in [Rows -> RowState]
      BY <1>0, <2>1 DEF RowTypeOK, Invocation
    <3>2. QED
      BY <3>1, StartedTyped
  <2>3. attempts' = [attempts EXCEPT ![r] = [attempts[r] EXCEPT ![n] = a]]
    BY <1>14, <2>1 DEF LinkStart, RowTypeOK
  <2>4. attempts' \in [Rows -> [AttemptNo -> AttemptRecord]]
    BY <2>1, <2>2, <2>3 DEF RowTypeOK
  <2>5. job' = [job EXCEPT ![w] = j]
    BY <1>14 DEF LinkStart, RowTypeOK
  <2>6. j \in Invocation /\ j.row \in Rows /\ j.num \in AttemptNo
    BY <1>0, <2>1 DEF Invocation, Pcs
  <2> HIDE DEF a, j
  <2>7. InHand' /\ job' \in [Workers -> Invocation]
    BY <1>a, <2>5, <2>6 DEF RowTypeOK
  <2>8. QED
    BY <1>14, <2>4, <2>7 DEF LinkStart, RowTypeOK
<1>15. CASE StartClash(w)
  <2>1. job[w].row \in Rows
    BY <1>0, <1>15 DEF StartClash, WithRow
  <2>2. InHand' /\ job' \in [Workers -> Invocation]
    BY <1>d, <1>15, <2>1 DEF StartClash
  <2>3. QED
    BY <1>15, <2>2 DEF StartClash, RowTypeOK
<1>16. CASE CommandReads(w)
  <2>1. job[w].row \in Rows /\ job[w].num \in AttemptNo
    BY <1>0, <1>16 DEF CommandReads, WithRow, WithNumber
  <2> DEFINE s == [o \in Rows |-> IF o \in Reads(job[w].row) THEN content[o] ELSE 0]
             j == [job[w] EXCEPT !.pc = "running", !.saw = s]
  <2>2. s \in [Rows -> 0 .. MaxAttempt]
    BY DEF RowTypeOK
  <2>3. job' = [job EXCEPT ![w] = j]
    BY <1>16 DEF CommandReads, RowTypeOK
  <2> HIDE DEF s
  <2>4. j \in Invocation /\ j.row \in Rows /\ j.num \in AttemptNo
    BY <1>0, <2>1, <2>2 DEF Invocation, Pcs
  <2>5. QED
    BY <1>a, <1>16, <2>3, <2>4 DEF CommandReads, RowTypeOK
<1>17. CASE CommandWrites(w)
  <2>1. job[w].row \in Rows /\ job[w].num \in AttemptNo
    BY <1>0, <1>17 DEF CommandWrites, WithRow, WithNumber
  <2> DEFINE s == [job[w].saw EXCEPT ![job[w].row] = job[w].num]
             j == [job[w] EXCEPT !.pc = "written", !.saw = s]
  <2>0. s \in [Rows -> 0 .. MaxAttempt]
    BY <1>0, <2>1 DEF Invocation, AttemptNo
  <2>2. content' \in [Rows -> 0 .. MaxAttempt]
    BY <1>17, <2>1 DEF CommandWrites, RowTypeOK, AttemptNo
  <2>3. paths' \subseteq Paths
    <3>1. CmdWrites[job[w].row] \subseteq Paths
      BY <2>1
    <3>2. QED
      BY <1>17, <3>1 DEF CommandWrites, RowTypeOK
  <2>4. job' = [job EXCEPT ![w] = j]
    <3>1. job' = [job EXCEPT ![w] = [[job[w] EXCEPT !.pc = "written"] EXCEPT !.saw = s]]
      BY <1>0, <1>17 DEF CommandWrites, RowTypeOK, Invocation
    <3>2. QED
      BY <1>0, <3>1 DEF Invocation
  <2> HIDE DEF s
  <2>5. j \in Invocation /\ j.row \in Rows /\ j.num \in AttemptNo
    BY <1>0, <2>0, <2>1 DEF Invocation, Pcs
  <2>6. QED
    BY <1>a, <1>17, <2>2, <2>3, <2>4, <2>5 DEF CommandWrites, RowTypeOK
<1>18. CASE CommandEnds(w)
  <2>1. job[w].row \in Rows /\ job[w].num \in AttemptNo
    BY <1>0, <1>18 DEF CommandEnds, WithRow, WithNumber
  <2>2. PICK ok \in BOOLEAN, c \in BOOLEAN :
          job' = [job EXCEPT ![w].pc = "ended", ![w].ok = ok, ![w].clean = c]
    <3>1. PICK ok \in BOOLEAN :
            job' = [job EXCEPT ![w].pc = "ended", ![w].ok = ok,
                               ![w].clean = IF ok THEN @ ELSE FALSE]
      BY <1>18 DEF CommandEnds
    <3>2. PICK c \in BOOLEAN : c = IF ok THEN job[w].clean ELSE FALSE
      BY <1>0 DEF Invocation
    <3>3. QED
      BY <3>1, <3>2, Zenon
  <2> DEFINE j == [job[w] EXCEPT !.pc = "ended", !.ok = ok, !.clean = c]
  <2>3. job' = [job EXCEPT ![w] = j]
    BY <2>2 DEF RowTypeOK
  <2>4. j \in Invocation
    BY <1>0, EndedTyped
  <2>5. j.row \in Rows /\ j.num \in AttemptNo
    BY <1>0, <2>1 DEF Invocation
  <2> HIDE DEF j
  <2>6. InHand' /\ job' \in [Workers -> Invocation]
    BY <1>a, <2>3, <2>4, <2>5 DEF RowTypeOK
  <2>7. QED
    BY <1>18, <2>6 DEF CommandEnds, RowTypeOK
<1>19. CASE WriteVerdict(w)
  <2>1. job[w].row \in Rows /\ job[w].num \in AttemptNo
    BY <1>0, <1>19 DEF WriteVerdict, WithRow, WithNumber
  <2> DEFINE r == job[w].row
             n == job[w].num
             c == IF job[w].ok THEN "OK" ELSE "FAILED"
             a == [attempts[r][n] EXCEPT !.verdict = IF job[w].ok THEN "PASS" ELSE "FAIL",
                                         !.saw = job[w].saw]
             j == [job[w] EXCEPT !.pc = "returned", !.code = c]
  <2>2. a \in AttemptRecord
    <3>1. attempts[r][n] \in AttemptRecord /\ job[w].saw \in [Rows -> 0 .. MaxAttempt]
      BY <1>0, <2>1 DEF RowTypeOK, Invocation
    <3>2. QED
      BY <3>1, JudgedTyped
  <2>3. attempts' = [attempts EXCEPT ![r] = [attempts[r] EXCEPT ![n] = a]]
    BY <1>19, <2>1 DEF WriteVerdict, RowTypeOK
  <2>4. attempts' \in [Rows -> [AttemptNo -> AttemptRecord]]
    BY <2>1, <2>2, <2>3 DEF RowTypeOK
  <2>5. job' = [job EXCEPT ![w] = j]
    BY <1>19 DEF WriteVerdict, Return, RowTypeOK
  <2>6. j \in Invocation /\ j.row \in Rows /\ j.pc \notin WithNumber
    <3>1. c \in Codes
      BY DEF Codes
    <3>2. j \in Invocation
      BY <1>0, <3>1, ReturnedTyped
    <3>3. QED
      BY <1>0, <2>1, <3>2 DEF Invocation, WithNumber
  <2>7. QED
    BY <1>a, <1>19, <2>4, <2>5, <2>6 DEF WriteVerdict, RowTypeOK
<1>20. CASE Collect(w)
  <2>1. job[w].row \in Rows
    BY <1>0, <1>20 DEF Collect, WithRow
  <2> DEFINE pc2 == IF StopHere(job[w]) THEN "over" ELSE "next"
             failed == IF job[w].code = "OK" THEN {} ELSE {job[w].row}
             todo2 == job[w].todo \ {job[w].row}
             first2 == IF job[w].first = "OK" \/ job[w].code = "EXHAUSTED"
                       THEN job[w].code ELSE job[w].first
             lost2 == job[w].lost \cup failed
             j == [job[w] EXCEPT !.pc = pc2, !.todo = todo2, !.row = 0, !.num = 0,
                     !.ok = FALSE, !.inputs = Absent.inputs, !.saw = Absent.saw,
                     !.code = "OK", !.first = first2, !.lost = lost2]
  <2>2. job' = [job EXCEPT ![w] = j]
    BY <1>20 DEF Collect
  <2>3. /\ pc2 \in {"over", "next"} /\ todo2 \in SUBSET Rows
        /\ first2 \in Codes /\ lost2 \in SUBSET Rows
    BY <1>0, <2>1 DEF Invocation
  <2>4. Absent.inputs \in [Rows -> RowState] /\ Absent.saw \in [Rows -> 0 .. MaxAttempt]
    BY AbsentTyped DEF AttemptRecord
  <2> HIDE DEF pc2, failed, todo2, first2, lost2
  <2>5. j \in Invocation
    BY <1>0, <2>3, <2>4, CollectedTyped
  <2>6. j.pc = pc2
    BY <1>0 DEF Invocation
  <2>7. j.pc \notin WithRow /\ j.pc \notin WithNumber
    BY <2>3, <2>6 DEF WithRow, WithNumber
  <2> HIDE DEF j
  <2>8. QED
    BY <1>a, <1>20, <2>2, <2>5, <2>7 DEF Collect, RowTypeOK
<1>21. CASE LoopEnds(w)
  <2> DEFINE a == [job[w] EXCEPT !.cmd = "run", !.todo = job[w].scheduled,
                                 !.first = "OK", !.lost = {}]
             b == [job[w] EXCEPT !.pc = "over"]
  <2>1. job' = [job EXCEPT ![w] = a] \/ job' = [job EXCEPT ![w] = b]
    BY <1>21 DEF LoopEnds
  <2>2. a \in Invocation /\ a.pc \notin WithRow /\ a.pc \notin WithNumber
    BY <1>0, <1>21 DEF LoopEnds, Invocation, Pcs, Codes, WithRow, WithNumber
  <2>3. b \in Invocation /\ b.pc \notin WithRow /\ b.pc \notin WithNumber
    BY <1>0 DEF Invocation, Pcs, WithRow, WithNumber
  <2>4. InHand' /\ job' \in [Workers -> Invocation]
    BY <1>a, <2>1, <2>2, <2>3 DEF RowTypeOK
  <2>5. QED
    BY <1>21, <2>4 DEF LoopEnds, RowTypeOK
<1>23. QED
  BY <1>1, <1>2, <1>3, <1>4, <1>5, <1>6, <1>7, <1>8, <1>9, <1>10, <1>11,
     <1>12, <1>13, <1>14, <1>15, <1>16, <1>17, <1>18, <1>19, <1>20, <1>21, <1>22
     DEF InvocationStep

-----------------------------------------------------------------------------
(* Between the steps of the invocations: workers come and go. *)

\* An idle worker, or an invocation that has not looked at its first row.
NewJob(j) ==
  /\ j \in Invocation /\ j.pc \in {"idle", "next"}
  /\ j.todo = j.scheduled /\ j.first = "OK" /\ j.lost = {} /\ j.tried = {}
  /\ j.batch => j.every /\ j.cmd = "prepare" /\ j.explicit = 0

\* Invocations end, vanish or begin; nothing on disk changes.  What had a
\* command under way may leave it.
Moved ==
  /\ UNCHANGED <<attempts, prep, paths, content>>
  /\ job' \in [Workers -> Invocation]
  /\ \A w \in Workers : job'[w] = job[w] \/ NewJob(job'[w])
  /\ orphans \subseteq orphans'
  /\ \A o \in orphans' \ orphans :
       \E w \in Workers : NewJob(job'[w]) /\ o \in UnderWay({w})

\* What Campaign and ParallelRun have in common.
RowNext == Moved \/ OrphanStep \/ \E w \in Workers : InvocationStep(w)

LEMMA IdleIsNew == NewJob(Idle)
BY IdleTyped DEF NewJob, Idle

LEMMA InvokeMoves ==
  ASSUME RowInv, NEW w \in Workers, NEW cmd \in {"run", "prepare"}, NEW batch \in BOOLEAN,
         NEW every \in BOOLEAN, NEW explicit \in Nat, NEW rows \in SUBSET Rows,
         batch => every /\ cmd = "prepare" /\ explicit = 0,
         Invoke(w, cmd, batch, every, explicit, rows)
  PROVE  /\ Moved
         /\ job' = [job EXCEPT ![w] = job'[w]]
         /\ job'[w].pc = "next" /\ job'[w].scheduled = rows /\ job'[w].explicit = explicit
<1> DEFINE j == [Idle EXCEPT !.pc = "next", !.cmd = cmd, !.batch = batch, !.every = every,
                   !.explicit = explicit, !.scheduled = rows, !.todo = rows]
<1>0. job \in [Workers -> Invocation]
  BY DEF RowInv, RowTypeOK
<1>1. job' = [job EXCEPT ![w] = j]
  BY <1>0 DEF Invoke
<1>2. j \in Invocation
  <2>1. \A i \in Invocation :
          [i EXCEPT !.pc = "next", !.cmd = cmd, !.batch = batch, !.every = every,
             !.explicit = explicit, !.scheduled = rows, !.todo = rows] \in Invocation
    BY ONLY InvokedTyped, cmd \in {"run", "prepare"}, batch \in BOOLEAN, every \in BOOLEAN,
            explicit \in Nat, rows \in SUBSET Rows, ZenonT(60)
  <2>2. QED
    BY <2>1, IdleTyped, Zenon
<1>a. j.pc = "next" /\ j.scheduled = rows /\ j.explicit = explicit /\ j.todo = rows
  BY DEF Idle
<1>b. j.every = every /\ j.batch = batch /\ j.cmd = cmd
  BY DEF Idle
<1>c. j.first = "OK" /\ j.lost = {} /\ j.tried = {}
  BY DEF Idle
<1> HIDE DEF j
<1>3. NewJob(j)
  BY <1>2, <1>a, <1>b, <1>c DEF NewJob
<1>4. Moved
  BY <1>0, <1>1, <1>2, <1>3 DEF Invoke, Moved
<1>5. QED
  BY <1>0, <1>1, <1>a, <1>4

LEMMA VanishMoves ==
  ASSUME RowInv, NEW ws \in SUBSET Workers, Vanish(ws)
  PROVE  Moved
<1>1. /\ job' \in [Workers -> Invocation]
      /\ \A w \in Workers : job'[w] = job[w] \/ NewJob(job'[w])
      /\ \A w \in ws : NewJob(job'[w])
  BY IdleTyped, IdleIsNew DEF Vanish, RowInv, RowTypeOK
<1>2. orphans \subseteq orphans' /\ orphans' \subseteq orphans \cup UnderWay(ws)
  BY DEF Vanish
<1>3. ASSUME NEW o \in UnderWay(ws) PROVE \E w \in ws : o \in UnderWay({w})
  BY DEF UnderWay
<1>4. QED
  BY <1>1, <1>2, <1>3 DEF Vanish, Moved

LEMMA UnderWayTyped ==
  ASSUME RowInv, NEW w \in Workers
  PROVE  UnderWay({w}) \subseteq Rows \X (0 .. MaxAttempt)
<1>1. job[w].pc \in {"launched", "running", "written"} =>
        job[w].row \in Rows /\ job[w].num \in 0 .. MaxAttempt
  BY DEF RowInv, InHand, WithRow, WithNumber, AttemptNo
<1>2. job[w].pc = "preparing" => job[w].row \in Rows /\ 0 \in 0 .. MaxAttempt
  BY DEF RowInv, InHand, WithRow
<1>3. QED
  BY <1>1, <1>2 DEF UnderWay

LEMMA MovedTyped ==
  ASSUME RowInv, Moved
  PROVE  RowInv'
<1>0. orphans' \subseteq Rows \X (0 .. MaxAttempt)
  <2>1. orphans \subseteq Rows \X (0 .. MaxAttempt)
    BY DEF RowInv, RowTypeOK
  <2>2. \A o \in orphans' \ orphans : \E w \in Workers : o \in UnderWay({w})
    BY DEF Moved
  <2>3. QED
    BY <2>1, <2>2, UnderWayTyped
<1>1. RowTypeOK'
  BY <1>0 DEF RowInv, Moved, RowTypeOK
<1>2. InHand'
  BY DEF RowInv, Moved, InHand, NewJob, WithRow, WithNumber
<1>3. QED
  BY <1>1, <1>2 DEF RowInv

\* A command without a runner writes, and nothing else changes.
LEMMA OrphanTyped ==
  ASSUME RowInv, OrphanStep
  PROVE  RowInv' /\ UNCHANGED <<attempts, prep, job, orphans>> /\ paths \subseteq paths'
<1>1. PICK r \in Rows, n \in 0 .. MaxAttempt : OrphanWrites(r, n)
  BY DEF OrphanStep
<1>2. PrepWrites[r] \subseteq Paths /\ CmdWrites[r] \subseteq Paths
  OBVIOUS
<1>3. content' \in [Rows -> 0 .. MaxAttempt]
  BY <1>1 DEF OrphanWrites, RowInv, RowTypeOK
<1>4. paths' \subseteq Paths /\ paths \subseteq paths'
  BY <1>1, <1>2 DEF OrphanWrites, RowInv, RowTypeOK
<1>5. UNCHANGED <<attempts, prep, job, orphans>>
  BY <1>1 DEF OrphanWrites
<1>6. QED
  BY <1>3, <1>4, <1>5 DEF RowInv, RowTypeOK, InHand

LEMMA RowsTyped ==
  ASSUME RowInv, RowNext
  PROVE  RowInv'
BY StepTyped, MovedTyped, OrphanTyped DEF RowNext

-----------------------------------------------------------------------------
(* Campaign. *)

TypeInv == TypeOK /\ InHand

LEMMA CampaignMoves ==
  ASSUME RowInv, [Next]_vars
  PROVE  RowNext
<1>0. ExplicitNumbers \subseteq Nat
  OBVIOUS
<1>1. CASE UNCHANGED vars
  BY <1>1 DEF vars, rowVars, RowNext, Moved, RowInv, RowTypeOK
<1>2. ASSUME NEW w \in Workers, PrepareAll(w) PROVE Moved
  BY <1>2, InvokeMoves DEF PrepareAll
<1>3. ASSUME NEW w \in Workers, PrepareOne(w) PROVE Moved
  <2>1. PICK r \in Rows : Invoke(w, "prepare", FALSE, FALSE, 0, {r})
    BY <1>3 DEF PrepareOne
  <2>2. {r} \in SUBSET Rows
    OBVIOUS
  <2>3. QED
    BY <2>1, <2>2, InvokeMoves
<1>4. ASSUME NEW w \in Workers, RunAll(w) PROVE Moved
  <2>1. PICK kept \in Filters, n \in {0} \cup ExplicitNumbers :
               Invoke(w, "run", FALSE, TRUE, n, kept)
    BY <1>4 DEF RunAll
  <2>2. kept \in SUBSET Rows /\ n \in Nat
    BY <1>0
  <2>3. QED
    BY <2>1, <2>2, InvokeMoves
<1>5. ASSUME NEW w \in Workers, RunOne(w) PROVE Moved
  <2>1. PICK r \in Rows, n \in {0} \cup ExplicitNumbers :
               Invoke(w, "run", FALSE, FALSE, n, {r})
    BY <1>5 DEF RunOne
  <2>2. {r} \in SUBSET Rows /\ n \in Nat
    BY <1>0
  <2>3. QED
    BY <2>1, <2>2, InvokeMoves
<1>6. ASSUME NEW w \in Workers, Batch(w) PROVE Moved
  BY <1>6, InvokeMoves DEF Batch
<1>7. ASSUME NEW w \in Workers, Exit(w) \/ Crash(w) PROVE Moved
  <2>1. Vanish({w}) /\ {w} \in SUBSET Workers
    BY <1>7 DEF Exit, Crash
  <2>2. QED
    BY <2>1, VanishMoves
<1>8. QED
  BY <1>1, <1>2, <1>3, <1>4, <1>5, <1>6, <1>7 DEF Next, Work, RowNext

\* The variables always hold values of their types, and a row and a number are
\* in hand wherever run_row and prepare_row use them.
THEOREM TypeCorrect == Spec => []TypeInv
<1>1. Init => TypeInv
  <2>1. MaxInvocations \in Nat
    BY InvocationsAssumption
  <2>2. QED
    BY <2>1, InitTyped DEF Init, RowInv, TypeInv, TypeOK
<1>2. TypeInv /\ [Next]_vars => TypeInv'
  <2> SUFFICES ASSUME TypeInv, [Next]_vars PROVE TypeInv'
    OBVIOUS
  <2>1. RowInv'
    BY CampaignMoves, RowsTyped DEF TypeInv, TypeOK, RowInv
  <2>2. invocations' = invocations \/ Count
    BY DEF Next, PrepareAll, PrepareOne, RunAll, RunOne, Batch, Work, Exit, Crash, vars
  <2>3. (invocations \in 0 .. MaxInvocations)'
    BY <2>2, InvocationsAssumption DEF TypeInv, TypeOK, Count
  <2>4. QED
    BY <2>1, <2>3 DEF TypeInv, TypeOK, RowInv
<1>3. QED
  BY <1>1, <1>2, PTL DEF Spec

-----------------------------------------------------------------------------
(* What one step of an invocation does, in three parts. *)

\* Past the gate of run_row.
Admitted == {"admitted", "numbered", "recorded", "made"} \cup Holding

\* What a step of worker w may do, as far as the properties below tell steps
\* apart: only job[w] changes; a row past its gate keeps its row and came
\* there through Admit; an attempt in hand is the one it was launched as.
Frame(w) ==
  /\ job' = [job EXCEPT ![w] = job'[w]]
  /\ paths \subseteq paths'
  /\ job'[w].pc \in Admitted =>
       \/ Admit(w) /\ job'[w].row = job[w].row
       \/ job[w].pc \in Admitted /\ job'[w].row = job[w].row
  /\ job'[w].pc \in Holding =>
       \/ LinkStart(w) /\ job'[w].row = job[w].row /\ job'[w].num = job[w].num
       \/ job[w].pc \in Holding /\ job'[w].row = job[w].row /\ job'[w].num = job[w].num
  /\ \/ MakeDirectory(w) \/ LinkStart(w) \/ WriteVerdict(w)
     \/ UNCHANGED attempts
  /\ \/ /\ job[w].pc = "prepared"
        /\ \E v \in {"PASS", "FAIL"} : prep' = [prep EXCEPT ![job[w].row] = Append(@, v)]
     \/ UNCHANGED prep

LEMMA StepFrame ==
  ASSUME RowInv, NEW w \in Workers, InvocationStep(w)
  PROVE  Frame(w)
<1>0. job \in [Workers -> Invocation] /\ job[w] \in Invocation
  BY DEF RowInv, RowTypeOK
<1>1. CASE DeferRow(w)
  BY <1>0, <1>1 DEF Frame, DeferRow, Next1, Admitted, Holding, Invocation
<1>2. CASE PrepareRow(w)
  BY <1>0, <1>2 DEF Frame, PrepareRow, Next1, Admitted, Holding, Invocation
<1>3. CASE NothingToPrepare(w)
  BY <1>0, <1>3 DEF Frame, NothingToPrepare, Return, Admitted, Holding, Invocation
<1>4. CASE PrepareCommands(w)
  <2>1. job' = [job EXCEPT ![w] = job'[w]]
    BY <1>0, <1>4 DEF PrepareCommands
  <2>2. job'[w].pc \in {"prepared"}
    BY <1>0, <1>4 DEF PrepareCommands, Invocation
  <2>3. paths \subseteq paths' /\ UNCHANGED <<attempts, prep>>
    BY <1>4 DEF PrepareCommands
  <2>4. QED
    BY <2>1, <2>2, <2>3 DEF Frame, Admitted, Holding
<1>5. CASE RecordPreparation(w)
  <2>1. job' = [job EXCEPT ![w] = job'[w]]
    BY <1>0, <1>5 DEF RecordPreparation, Return
  <2>2. job'[w].pc \in {"chosen", "returned"}
    BY <1>0, <1>5 DEF RecordPreparation, Return, Invocation
  <2>3. /\ UNCHANGED <<attempts, paths>>
        /\ job[w].pc = "prepared"
        /\ \E v \in {"PASS", "FAIL"} : prep' = [prep EXCEPT ![job[w].row] = Append(@, v)]
    BY <1>5 DEF RecordPreparation, Return
  <2>4. QED
    BY <2>1, <2>2, <2>3 DEF Frame, Admitted, Holding
<1>6. CASE PreparationClash(w)
  BY <1>0, <1>6 DEF Frame, PreparationClash, Admitted, Holding, Invocation
<1>7. CASE SkipRow(w)
  BY <1>0, <1>7 DEF Frame, SkipRow, Next1, Admitted, Holding, Invocation
<1>8. CASE TakeRow(w)
  BY <1>0, <1>8 DEF Frame, TakeRow, Next1, Admitted, Holding, Invocation
<1>9. CASE Refuse(w)
  BY <1>0, <1>9 DEF Frame, Refuse, Return, Admitted, Holding, Invocation
<1>10. CASE Admit(w)
  BY <1>0, <1>10 DEF Frame, Admit, Admitted, Holding, Invocation
<1>22. CASE Exhausted(w)
  BY <1>0, <1>22 DEF Frame, Exhausted, Return, Admitted, Holding, Invocation
<1>11. CASE ChooseNumber(w)
  BY <1>0, <1>11 DEF Frame, ChooseNumber, Return, Admitted, Holding, Invocation
<1>12. CASE RecordInputs(w)
  BY <1>0, <1>12 DEF Frame, RecordInputs, Admitted, Holding, Invocation
<1>13. CASE MakeDirectory(w)
  BY <1>0, <1>13 DEF Frame, MakeDirectory, Admitted, Holding, Invocation
<1>14. CASE LinkStart(w)
  BY <1>0, <1>14 DEF Frame, LinkStart, Admitted, Holding, Invocation
<1>15. CASE StartClash(w)
  BY <1>0, <1>15 DEF Frame, StartClash, Admitted, Holding, Invocation
<1>16. CASE CommandReads(w)
  BY <1>0, <1>16 DEF Frame, CommandReads, Admitted, Holding, Invocation
<1>17. CASE CommandWrites(w)
  BY <1>0, <1>17 DEF Frame, CommandWrites, Admitted, Holding, Invocation
<1>18. CASE CommandEnds(w)
  <2>1. job' = [job EXCEPT ![w] = job'[w]]
    BY <1>0, <1>18 DEF CommandEnds
  <2>2. job'[w].pc = "ended" /\ job'[w].row = job[w].row /\ job'[w].num = job[w].num
    BY <1>0, <1>18 DEF CommandEnds, Invocation
  <2>3. UNCHANGED <<attempts, prep, paths>> /\ job[w].pc \in Holding
    BY <1>18 DEF CommandEnds, Holding
  <2>4. QED
    BY <2>1, <2>2, <2>3 DEF Frame, Admitted
<1>19. CASE WriteVerdict(w)
  BY <1>0, <1>19 DEF Frame, WriteVerdict, Return, Admitted, Holding, Invocation
<1>20. CASE Collect(w)
  BY <1>0, <1>20 DEF Frame, Collect, Admitted, Holding, Invocation
<1>21. CASE LoopEnds(w)
  BY <1>0, <1>21 DEF Frame, LoopEnds, Admitted, Holding, Invocation
<1>23. QED
  BY <1>1, <1>2, <1>3, <1>4, <1>5, <1>6, <1>7, <1>8, <1>9, <1>10, <1>11,
     <1>12, <1>13, <1>14, <1>15, <1>16, <1>17, <1>18, <1>19, <1>20, <1>21, <1>22
     DEF InvocationStep

\* The part of an attempt from the number to the verdict, and the loop around it.
Begun == {"made"} \cup Holding

\* The arguments of an invocation stand; every stage of an attempt is reached
\* by its own action, which keeps what the stages before it decided.
Track(w) ==
  LET i == job[w]  j == job'[w] IN
  /\ i.pc # "idle" /\ j.pc # "idle"
  /\ j.explicit = i.explicit /\ j.every = i.every /\ j.batch = i.batch
  /\ j.scheduled = i.scheduled /\ (j.clean => i.clean)
  /\ j.pc = "numbered" => ChooseNumber(w)
  /\ j.pc = "recorded" => RecordInputs(w)
  /\ j.pc = "made" => MakeDirectory(w)
  /\ j.pc = "launched" => LinkStart(w)
  /\ j.pc = "running" => CommandReads(w)
  /\ j.pc = "written" => CommandWrites(w)
  /\ j.pc = "ended" => CommandEnds(w)
  /\ j.pc \in WithNumber => j.row = i.row
  /\ j.pc \in {"recorded"} \cup Begun => j.num = i.num
  /\ j.pc \in Begun => j.inputs = i.inputs
  /\ j.pc = "written" => j.saw = [i.saw EXCEPT ![i.row] = i.num]
  /\ j.pc = "ended" => j.saw = i.saw
  /\ CommandWrites(w) \/ UNCHANGED content

LEMMA StepTrack ==
  ASSUME RowInv, NEW w \in Workers, InvocationStep(w)
  PROVE  Track(w)
<1>0. job \in [Workers -> Invocation] /\ job[w] \in Invocation
  BY DEF RowInv, RowTypeOK
<1>1. CASE DeferRow(w)
  BY <1>0, <1>1 DEF Track, DeferRow, Next1, WithNumber, Begun, Holding, Invocation
<1>2. CASE PrepareRow(w)
  BY <1>0, <1>2 DEF Track, PrepareRow, Next1, WithNumber, Begun, Holding, Invocation
<1>3. CASE NothingToPrepare(w)
  BY <1>0, <1>3 DEF Track, NothingToPrepare, Return, WithNumber, Begun, Holding, Invocation
<1>4. CASE PrepareCommands(w)
  <2>1. PICK ok \in BOOLEAN, wrote \in SUBSET PrepWrites[job[w].row] :
          job' = [job EXCEPT ![w].pc = "prepared", ![w].ok = ok,
                             ![w].clean = @ /\ ok /\ wrote = PrepWrites[job[w].row]]
    BY <1>4 DEF PrepareCommands
  <2>2. job[w].pc = "preparing" /\ UNCHANGED content
    BY <1>4 DEF PrepareCommands
  <2>3. QED
    BY <1>0, <2>1, <2>2 DEF Track, WithNumber, Begun, Holding, Invocation
<1>5. CASE RecordPreparation(w)
  <2>1. /\ job[w].pc = "prepared" /\ UNCHANGED content
        /\ job' = [job EXCEPT ![w].pc = "chosen"] \/ \E c \in Codes : Return(w, c)
    BY <1>5 DEF RecordPreparation, Codes
  <2>2. CASE job' = [job EXCEPT ![w].pc = "chosen"]
    BY <1>0, <2>1, <2>2 DEF Track, WithNumber, Begun, Holding, Invocation
  <2>3. ASSUME NEW c \in Codes, Return(w, c) PROVE Track(w)
    BY <1>0, <2>1, <2>3 DEF Track, Return, WithNumber, Begun, Holding, Invocation
  <2>4. QED
    BY <2>1, <2>2, <2>3
<1>6. CASE PreparationClash(w)
  BY <1>0, <1>6 DEF Track, PreparationClash, WithNumber, Begun, Holding, Invocation
<1>7. CASE SkipRow(w)
  BY <1>0, <1>7 DEF Track, SkipRow, Next1, WithNumber, Begun, Holding, Invocation
<1>8. CASE TakeRow(w)
  BY <1>0, <1>8 DEF Track, TakeRow, Next1, WithNumber, Begun, Holding, Invocation
<1>9. CASE Refuse(w)
  BY <1>0, <1>9 DEF Track, Refuse, Return, WithNumber, Begun, Holding, Invocation
<1>10. CASE Admit(w)
  BY <1>0, <1>10 DEF Track, Admit, WithNumber, Begun, Holding, Invocation
<1>22. CASE Exhausted(w)
  BY <1>0, <1>22 DEF Track, Exhausted, Return, WithNumber, Begun, Holding, Invocation
<1>11. CASE ChooseNumber(w)
  <2>1. /\ job[w].pc = "admitted" /\ UNCHANGED content
        /\ \/ Return(w, "REFUSED")
           \/ \E n \in AttemptNo : job' = [job EXCEPT ![w].pc = "numbered", ![w].num = n]
    BY <1>11 DEF ChooseNumber
  <2>2. CASE Return(w, "REFUSED")
    BY <1>0, <2>1, <2>2 DEF Track, Return, WithNumber, Begun, Holding, Invocation
  <2>3. ASSUME NEW n \in AttemptNo, job' = [job EXCEPT ![w].pc = "numbered", ![w].num = n]
        PROVE  Track(w)
    <3>1. /\ job'[w].pc = "numbered" /\ job'[w].row = job[w].row
          /\ job'[w].explicit = job[w].explicit /\ job'[w].every = job[w].every
          /\ job'[w].batch = job[w].batch /\ job'[w].clean = job[w].clean
          /\ job'[w].scheduled = job[w].scheduled
      BY <1>0, <2>3 DEF Invocation
    <3>2. QED
      BY <1>11, <2>1, <3>1 DEF Track, WithNumber, Begun, Holding
  <2>4. QED
    BY <2>1, <2>2, <2>3
<1>12. CASE RecordInputs(w)
  BY <1>0, <1>12 DEF Track, RecordInputs, WithNumber, Begun, Holding, Invocation
<1>13. CASE MakeDirectory(w)
  BY <1>0, <1>13 DEF Track, MakeDirectory, WithNumber, Begun, Holding, Invocation
<1>14. CASE LinkStart(w)
  BY <1>0, <1>14 DEF Track, LinkStart, WithNumber, Begun, Holding, Invocation
<1>15. CASE StartClash(w)
  BY <1>0, <1>15 DEF Track, StartClash, WithNumber, Begun, Holding, Invocation
<1>16. CASE CommandReads(w)
  BY <1>0, <1>16 DEF Track, CommandReads, WithNumber, Begun, Holding, Invocation
<1>17. CASE CommandWrites(w)
  BY <1>0, <1>17 DEF Track, CommandWrites, WithNumber, Begun, Holding, Invocation
<1>18. CASE CommandEnds(w)
  <2>1. PICK ok \in BOOLEAN :
          job' = [job EXCEPT ![w].pc = "ended", ![w].ok = ok, ![w].clean = IF ok THEN @ ELSE FALSE]
    BY <1>18 DEF CommandEnds
  <2>2. /\ job'[w].pc = "ended" /\ job'[w].row = job[w].row /\ job'[w].num = job[w].num
        /\ job'[w].inputs = job[w].inputs /\ job'[w].saw = job[w].saw
        /\ job'[w].explicit = job[w].explicit /\ job'[w].every = job[w].every
        /\ job'[w].batch = job[w].batch /\ job'[w].scheduled = job[w].scheduled
        /\ job'[w].clean => job[w].clean
    BY <1>0, <2>1 DEF Invocation
  <2>3. job[w].pc \in {"running", "written"} /\ UNCHANGED content
    BY <1>18 DEF CommandEnds
  <2>4. QED
    BY <1>18, <2>2, <2>3 DEF Track
<1>19. CASE WriteVerdict(w)
  BY <1>0, <1>19 DEF Track, WriteVerdict, Return, WithNumber, Begun, Holding, Invocation
<1>20. CASE Collect(w)
  BY <1>0, <1>20 DEF Track, Collect, WithNumber, Begun, Holding, Invocation
<1>21. CASE LoopEnds(w)
  BY <1>0, <1>21 DEF Track, LoopEnds, WithNumber, Begun, Holding, Invocation
<1>23. QED
  BY <1>1, <1>2, <1>3, <1>4, <1>5, <1>6, <1>7, <1>8, <1>9, <1>10, <1>11,
     <1>12, <1>13, <1>14, <1>15, <1>16, <1>17, <1>18, <1>19, <1>20, <1>21, <1>22
     DEF InvocationStep

\* How the loop over the rows goes on: which actions take a row in hand, which
\* finish it, and which of them touch what is left and what came out.
Turn(w) ==
  LET i == job[w]  j == job'[w] IN
  /\ \/ j.todo = i.todo /\ j.first = i.first /\ j.lost = i.lost /\ j.cmd = i.cmd
     \/ /\ DeferRow(w) \/ SkipRow(w) \/ Collect(w) \/ LoopEnds(w)
        /\ j.pc \in {"next", "over"}
  /\ j.tried = i.tried \/ LinkStart(w)
  /\ j.pc \in WithRow => \/ i.pc \in WithRow /\ j.row = i.row
                         \/ i.pc = "next" /\ (PrepareRow(w) \/ TakeRow(w))
  /\ j.pc = "preparing" => PrepareRow(w) \/ TakeRow(w)
  /\ j.pc = "prepared" => PrepareCommands(w)
  /\ j.pc = "chosen" => TakeRow(w) \/ RecordPreparation(w)
  /\ j.pc = "returned" => \/ NothingToPrepare(w) \/ RecordPreparation(w) \/ Refuse(w)
                          \/ Exhausted(w) \/ ChooseNumber(w) \/ WriteVerdict(w)
  /\ j.pc = "over" => Collect(w) \/ LoopEnds(w)

LEMMA StepTurn ==
  ASSUME RowInv, NEW w \in Workers, InvocationStep(w)
  PROVE  Turn(w)
<1>0. job \in [Workers -> Invocation] /\ job[w] \in Invocation
  BY DEF RowInv, RowTypeOK
<1>1. CASE DeferRow(w)
  BY <1>0, <1>1 DEF Turn, DeferRow, Next1, WithRow, Invocation
<1>2. CASE PrepareRow(w)
  BY <1>0, <1>2 DEF Turn, PrepareRow, Next1, WithRow, Invocation
<1>3. CASE NothingToPrepare(w)
  BY <1>0, <1>3 DEF Turn, NothingToPrepare, Return, WithRow, Invocation
<1>4. CASE PrepareCommands(w)
  <2>1. PICK ok \in BOOLEAN, wrote \in SUBSET PrepWrites[job[w].row] :
          job' = [job EXCEPT ![w].pc = "prepared", ![w].ok = ok,
                             ![w].clean = @ /\ ok /\ wrote = PrepWrites[job[w].row]]
    BY <1>4 DEF PrepareCommands
  <2>2. job[w].pc = "preparing"
    BY <1>4 DEF PrepareCommands
  <2>3. /\ job'[w].pc = "prepared" /\ job'[w].row = job[w].row /\ job'[w].todo = job[w].todo
        /\ job'[w].first = job[w].first /\ job'[w].lost = job[w].lost
        /\ job'[w].cmd = job[w].cmd /\ job'[w].tried = job[w].tried
    BY <1>0, <2>1 DEF Invocation
  <2>4. QED
    BY <1>4, <2>2, <2>3 DEF Turn, WithRow
<1>5. CASE RecordPreparation(w)
  BY <1>0, <1>5 DEF Turn, RecordPreparation, Return, WithRow, Invocation
<1>6. CASE PreparationClash(w)
  BY <1>0, <1>6 DEF Turn, PreparationClash, WithRow, Invocation
<1>7. CASE SkipRow(w)
  BY <1>0, <1>7 DEF Turn, SkipRow, Next1, WithRow, Invocation
<1>8. CASE TakeRow(w)
  BY <1>0, <1>8 DEF Turn, TakeRow, Next1, WithRow, Invocation
<1>9. CASE Refuse(w)
  BY <1>0, <1>9 DEF Turn, Refuse, Return, WithRow, Invocation
<1>10. CASE Admit(w)
  BY <1>0, <1>10 DEF Turn, Admit, WithRow, Invocation
<1>22. CASE Exhausted(w)
  BY <1>0, <1>22 DEF Turn, Exhausted, Return, WithRow, Invocation
<1>11. CASE ChooseNumber(w)
  BY <1>0, <1>11 DEF Turn, ChooseNumber, Return, WithRow, Invocation
<1>12. CASE RecordInputs(w)
  BY <1>0, <1>12 DEF Turn, RecordInputs, WithRow, Invocation
<1>13. CASE MakeDirectory(w)
  BY <1>0, <1>13 DEF Turn, MakeDirectory, WithRow, Invocation
<1>14. CASE LinkStart(w)
  BY <1>0, <1>14 DEF Turn, LinkStart, WithRow, Invocation
<1>15. CASE StartClash(w)
  BY <1>0, <1>15 DEF Turn, StartClash, WithRow, Invocation
<1>16. CASE CommandReads(w)
  BY <1>0, <1>16 DEF Turn, CommandReads, WithRow, Invocation
<1>17. CASE CommandWrites(w)
  BY <1>0, <1>17 DEF Turn, CommandWrites, WithRow, Invocation
<1>18. CASE CommandEnds(w)
  BY <1>0, <1>18 DEF Turn, CommandEnds, WithRow, Invocation
<1>19. CASE WriteVerdict(w)
  BY <1>0, <1>19 DEF Turn, WriteVerdict, Return, WithRow, Invocation
<1>20. CASE Collect(w)
  BY <1>0, <1>20 DEF Turn, Collect, WithRow, Invocation
<1>21. CASE LoopEnds(w)
  BY <1>0, <1>21 DEF Turn, LoopEnds, WithRow, Invocation
<1>23. QED
  BY <1>1, <1>2, <1>3, <1>4, <1>5, <1>6, <1>7, <1>8, <1>9, <1>10, <1>11,
     <1>12, <1>13, <1>14, <1>15, <1>16, <1>17, <1>18, <1>19, <1>20, <1>21, <1>22
     DEF InvocationStep

-----------------------------------------------------------------------------
(* ParallelRun: its steps are those of RowNext, and the main thread knows     *)
(* what each of its threads works on.                                         *)

\* A thread works on one row, and no two threads on the same; what that row
\* depends on is done; and what has been handed out is done or with a thread.
Handed ==
  /\ \A w \in Running : \E r \in scheduled \ (pending \cup done) :
       job[w].scheduled = {r} /\ Dependencies(r) \cap scheduled \subseteq done
  /\ \A v, w \in Running : v # w => RowOf(v) # RowOf(w)
  /\ scheduled \ pending = done \cup {RowOf(w) : w \in Running}
  /\ main \in {"idle", "returned", "stuck"} => Running = {}
  /\ main = "stuck" => pending # {} /\ ~stopped /\ Eligible = {}

PoolInv == RowInv /\ PoolTypeOK /\ Handed

LEMMA GoneMoves ==
  ASSUME RowInv, Gone
  PROVE  Moved /\ \A w \in Threads : job'[w].pc = "idle"
<1>1. Threads \subseteq Workers
  BY RunsAssumption
<1>2. \A w \in Workers : job'[w] = IF w \in Threads THEN Idle ELSE job[w]
  BY DEF Gone, Vanish
<1>4. Moved
  BY <1>1, VanishMoves DEF Gone
<1>5. QED
  BY <1>1, <1>2, <1>4 DEF Idle

LEMMA CollectMoves ==
  ASSUME RowInv, CollectFutures
  PROVE  /\ Moved
         /\ \A w \in Threads : job'[w] = IF job[w].pc = "over" THEN Idle ELSE job[w]
<1> DEFINE over == {w \in Threads : job[w].pc = "over"}
<1>1. Threads \subseteq Workers
  BY RunsAssumption
<1>2. job' = [w \in Workers |-> IF w \in over THEN Idle ELSE job[w]]
  BY DEF CollectFutures
<1>3. job' \in [Workers -> Invocation]
  BY <1>2, IdleTyped DEF RowInv, RowTypeOK
<1>4. \A w \in Workers : job'[w] = IF w \in over THEN Idle ELSE job[w]
  BY <1>2
<1>5. UNCHANGED <<attempts, prep, paths, content, orphans>>
  BY DEF CollectFutures
<1>6. QED
  BY <1>1, <1>3, <1>4, <1>5, IdleIsNew DEF Moved

LEMMA PoolMoves ==
  ASSUME RowInv, PoolTypeOK, [PoolNext]_poolVars
  PROVE  RowNext
<1>1. ASSUME UNCHANGED rowVars PROVE Moved
  BY <1>1 DEF rowVars, Moved, RowInv, RowTypeOK
<1>2. CASE Dispatch
  <2>1. PICK w \in Threads : Invoke(w, "run", FALSE, TRUE, asked, {Min(Eligible)})
    BY <1>2 DEF Dispatch
  <2>2. w \in Workers /\ asked \in Nat
    BY RunsAssumption DEF PoolTypeOK
  <2>3. Min(Eligible) \in Rows
    <3>1. Eligible # {} /\ Eligible \subseteq pending
      BY <1>2 DEF Dispatch, CanDispatch, Eligible
    <3>2. pending \subseteq Rows
      BY DEF PoolTypeOK
    <3>3. Rows \subseteq Nat
      BY DEF Rows
    <3>4. Eligible \in SUBSET Nat
      BY <3>1, <3>2, <3>3
    <3>5. Min(Eligible) \in Eligible
      BY <3>1, <3>4, MinOfNaturals
    <3>6. QED
      BY <3>1, <3>2, <3>5
  <2>4. {Min(Eligible)} \in SUBSET Rows
    BY <2>3
  <2>5. QED
    BY <2>1, <2>2, <2>4, InvokeMoves DEF RowNext
<1>3. CASE CollectFutures
  BY <1>3, CollectMoves DEF RowNext
<1>4. CASE MainExits \/ MainCrashes
  BY <1>4, GoneMoves DEF RowNext, MainExits, MainCrashes
<1>5. ASSUME NEW w \in Workers, Step(w) PROVE RowNext
  BY <1>5 DEF RowNext, Step
<1>6. ASSUME NEW w \in Workers, Beside(w) PROVE RowNext
  <2>1. PICK r \in Rows :
          \/ Invoke(w, "prepare", FALSE, FALSE, 0, {r})
          \/ \E n \in {0} \cup ExplicitNumbers : Invoke(w, "run", FALSE, FALSE, n, {r})
    BY <1>6 DEF Beside
  <2>2. {r} \in SUBSET Rows /\ \A n \in {0} \cup ExplicitNumbers : n \in Nat
    BY WorkersAssumption
  <2>3. QED
    BY <2>1, <2>2, InvokeMoves DEF RowNext
<1>7. ASSUME NEW w \in Workers, BesideEnds(w) PROVE RowNext
  <2>1. Vanish({w}) /\ {w} \in SUBSET Workers
    BY <1>7 DEF BesideEnds
  <2>2. QED
    BY <2>1, VanishMoves DEF RowNext
<1>8. CASE Start \/ Wait \/ AllCollected \/ Unwind \/ UNCHANGED poolVars
  BY <1>1, <1>8 DEF Start, Wait, AllCollected, Unwind, poolVars, RowNext
<1>9. CASE OrphanStep
  BY <1>9 DEF RowNext
<1>10. QED
  BY <1>2, <1>3, <1>4, <1>5, <1>6, <1>7, <1>8, <1>9 DEF PoolNext, Main

LEMMA PoolStarts == PoolInit => PoolInv
<1> SUFFICES ASSUME PoolInit PROVE PoolInv
  OBVIOUS
<1>0. Threads \subseteq Workers /\ MaxRuns \in Nat
  BY RunsAssumption
<1>1. RowInv
  BY InitTyped DEF PoolInit
<1>2. PoolTypeOK
  <2>1. RowTypeOK /\ 0 \in 0 .. MaxRuns /\ "OK" \in Codes
    BY <1>0, <1>1 DEF RowInv, Codes
  <2>2. QED
    BY ONLY <2>1, PoolInit DEF PoolInit, PoolTypeOK
<1>3. Running = {}
  BY <1>0 DEF PoolInit, RowInit, Running, Idle
<1>4. Handed
  BY <1>3 DEF PoolInit, Handed
<1>5. QED
  BY <1>1, <1>2, <1>4 DEF PoolInv

\* A thread's only row.
LEMMA OnlyRow ==
  ASSUME NEW w, NEW r, job[w].scheduled = {r}
  PROVE  RowOf(w) = r
BY DEF RowOf

LEMMA RowHanded ==
  ASSUME Handed, NEW w \in Running
  PROVE  /\ RowOf(w) \in scheduled \ (pending \cup done) /\ job[w].scheduled = {RowOf(w)}
         /\ Dependencies(RowOf(w)) \cap scheduled \subseteq done
<1>1. PICK r \in scheduled \ (pending \cup done) :
        job[w].scheduled = {r} /\ Dependencies(r) \cap scheduled \subseteq done
  BY DEF Handed
<1>2. QED
  BY <1>1, OnlyRow

LEMMA PoolTyped ==
  ASSUME PoolInv, [PoolNext]_poolVars
  PROVE  PoolTypeOK'
<1>0. RowTypeOK' /\ MaxRuns \in Nat /\ Threads \subseteq Workers
  BY PoolMoves, RowsTyped, RunsAssumption DEF PoolInv, RowInv
<1>1. CASE UNCHANGED mainVars
  BY <1>0, <1>1 DEF PoolInv, PoolTypeOK, mainVars
<1>2. CASE Start
  <2>1. PICK kept \in Filters : pending' = kept /\ scheduled' = kept
    BY <1>2 DEF Start
  <2>2. kept \subseteq Rows
    BY <2>1
  <2>3. /\ main' = "dispatch" /\ runs' = runs + 1 /\ runs < MaxRuns
        /\ done' = {} /\ stopped' = FALSE /\ first' = "OK" /\ asked' \in Nat
    BY <1>2 DEF Start
  <2>4. runs' \in 0 .. MaxRuns
    BY <1>0, <2>3 DEF PoolInv, PoolTypeOK
  <2>5. QED
    BY ONLY <1>0, <2>1, <2>2, <2>3, <2>4 DEF PoolTypeOK, Codes
<1>3. CASE Dispatch
  BY <1>0, <1>3 DEF Dispatch, PoolInv, PoolTypeOK
<1>4. CASE Wait \/ AllCollected \/ Unwind
  BY <1>0, <1>4 DEF Wait, AllCollected, Unwind, PoolInv, PoolTypeOK
<1>5. CASE CollectFutures
  <2>1. \A w \in Running : RowOf(w) \in scheduled
    BY RowHanded DEF PoolInv
  <2> DEFINE over == {w \in Threads : job[w].pc = "over"}
  <2>2. done' = done \cup {RowOf(w) : w \in over} /\ over \subseteq Running
    BY <1>5 DEF CollectFutures, Running
  <2>3. first' \in Codes
    <3>1. {job[w].first : w \in {v \in over : job[v].first # "OK"}} \subseteq Codes
      BY <1>0 DEF PoolInv, RowInv, RowTypeOK, Invocation
    <3>2. QED
      BY <1>5, <3>1 DEF CollectFutures, PoolInv, PoolTypeOK, Codes
  <2>4. stopped' \in BOOLEAN
    BY <1>5 DEF CollectFutures, PoolInv, PoolTypeOK
  <2>5. main' = "dispatch" /\ UNCHANGED <<pending, scheduled, asked, runs>>
    BY <1>5 DEF CollectFutures
  <2>6. QED
    BY <1>0, <2>1, <2>2, <2>3, <2>4, <2>5 DEF PoolInv, PoolTypeOK
<1>6. CASE MainExits \/ MainCrashes
  <2>1. /\ main' = "idle" /\ pending' = {} /\ done' = {} /\ stopped' = FALSE
        /\ first' = "OK" /\ scheduled' = {} /\ asked' = 0 /\ runs' = runs
    BY <1>6 DEF MainExits, MainCrashes, Gone
  <2>2. runs \in 0 .. MaxRuns
    BY DEF PoolInv, PoolTypeOK
  <2>3. QED
    BY ONLY <1>0, <2>1, <2>2 DEF PoolTypeOK, Codes
<1>7. ASSUME NEW w \in Workers, Beside(w) PROVE PoolTypeOK'
  BY <1>0, <1>7 DEF Beside, PoolInv, PoolTypeOK
<1>8. ASSUME NEW w \in Workers, Step(w) \/ BesideEnds(w) PROVE PoolTypeOK'
  BY <1>1, <1>8 DEF Step, BesideEnds
<1>9. CASE OrphanStep /\ UNCHANGED mainVars
  BY <1>1, <1>9
<1>10. QED
  BY <1>1, <1>2, <1>3, <1>4, <1>5, <1>6, <1>7, <1>8, <1>9 DEF PoolNext, Main, poolVars

\* What a thread does to its own invocation is nothing to the main thread, as
\* long as it neither ends it nor takes other rows.
LEMMA HandedKept ==
  ASSUME Handed, UNCHANGED <<pending, done, scheduled, stopped>>,
         main' \in {main, "wait", "unwinding"},
         \A w \in Threads : /\ job'[w].pc = "idle" <=> job[w].pc = "idle"
                            /\ job'[w].scheduled = job[w].scheduled
  PROVE  Handed'
<1>1. Running' = Running
  BY DEF Running
<1>2. \A w \in Running : RowOf(w)' = RowOf(w) /\ job'[w].scheduled = job[w].scheduled
  BY DEF Running, RowOf
<1>3. Eligible' = Eligible
  BY DEF Eligible
<1>4. \A r \in scheduled : (Dependencies(r) \cap scheduled \subseteq done)'
                             <=> Dependencies(r) \cap scheduled \subseteq done
  BY DEF Dependencies, Needs
<1>5. QED
  BY <1>1, <1>2, <1>3, <1>4 DEF Handed

LEMMA DispatchHanded ==
  ASSUME PoolInv, Dispatch
  PROVE  Handed'
<1>0. RowInv /\ Handed /\ Threads \subseteq Workers /\ scheduled \subseteq Rows
  BY RunsAssumption DEF PoolInv, PoolTypeOK
<1> DEFINE r == Min(Eligible)
<1>1. r \in pending /\ r \in Eligible
  <2>1. Eligible # {} /\ Eligible \subseteq pending /\ pending \subseteq Rows
    BY DEF Dispatch, CanDispatch, Eligible, PoolInv, PoolTypeOK
  <2>2. Rows \subseteq Nat
    BY DEF Rows
  <2>3. Eligible \in SUBSET Nat
    BY <2>1, <2>2
  <2>4. QED
    BY <2>1, <2>3, MinOfNaturals
<1>2. PICK w \in Threads : Invoke(w, "run", FALSE, TRUE, asked, {r})
  BY DEF Dispatch
<1>3. r \in scheduled /\ r \in Rows
  BY <1>0, <1>1 DEF PoolInv, PoolTypeOK
<1> HIDE DEF r
<1>4. /\ job' = [job EXCEPT ![w] = job'[w]]
      /\ job'[w].pc = "next" /\ job'[w].scheduled = {r} /\ job[w].pc = "idle"
  <2>1. {r} \in SUBSET Rows /\ w \in Workers /\ asked \in Nat
    BY <1>0, <1>3 DEF PoolInv, PoolTypeOK
  <2>2. job[w].pc = "idle"
    BY <1>2 DEF Invoke
  <2>3. /\ job' = [job EXCEPT ![w] = job'[w]]
        /\ job'[w].pc = "next" /\ job'[w].scheduled = {r}
    BY ONLY <1>0, <2>1, <1>2, InvokeMoves
  <2>4. QED
    BY <2>2, <2>3
<1>5. \A v \in Threads : v # w => job'[v] = job[v]
  BY <1>0, <1>4 DEF RowInv, RowTypeOK
<1>6. Running' = Running \cup {w} /\ w \notin Running
  BY <1>4, <1>5 DEF Running
<1>7. pending' = pending \ {r} /\ UNCHANGED <<main, done, stopped, scheduled>> /\ main = "dispatch"
  BY DEF Dispatch, r
<1>8. /\ \A v \in Running : RowOf(v)' = RowOf(v) /\ job'[v].scheduled = job[v].scheduled
      /\ RowOf(w)' = r
  BY <1>4, <1>5, <1>6 DEF RowOf, Running
<1>9. r \notin done /\ \A v \in Running : RowOf(v) \in scheduled \ (pending \cup done)
  <2>1. \A v \in Running : RowOf(v) \in scheduled \ (pending \cup done)
    BY <1>0, RowHanded
  <2>2. QED
    BY <1>0, <1>1, <2>1 DEF Handed
<1>10. Dependencies(r) \cap scheduled \subseteq done
  BY <1>1 DEF Eligible
<1>11. \A v \in Running' : \E q \in scheduled' \ (pending' \cup done') :
         job'[v].scheduled = {q} /\ Dependencies(q) \cap scheduled' \subseteq done'
  <2>1. \A v \in Running : \E q \in scheduled \ (pending \cup done) :
          job[v].scheduled = {q} /\ Dependencies(q) \cap scheduled \subseteq done
    BY <1>0 DEF Handed
  <2>2. r \in scheduled' \ (pending' \cup done')
    BY <1>3, <1>7, <1>9
  <2>3. QED
    BY <1>4, <1>6, <1>7, <1>8, <1>10, <2>1, <2>2
<1>12. \A u, v \in Running' : u # v => RowOf(u)' # RowOf(v)'
  BY <1>0, <1>1, <1>6, <1>8, <1>9 DEF Handed
<1>13. scheduled' \ pending' = done' \cup {RowOf(v)' : v \in Running'}
  <2>1. {RowOf(v)' : v \in Running'} = {RowOf(v) : v \in Running} \cup {r}
    BY <1>6, <1>8
  <2>2. scheduled \ (pending \ {r}) = (scheduled \ pending) \cup {r}
    BY <1>3
  <2>3. scheduled \ pending = done \cup {RowOf(v) : v \in Running}
    BY <1>0 DEF Handed
  <2>4. QED
    BY <1>7, <2>1, <2>2, <2>3
<1>14. QED
  BY <1>7, <1>11, <1>12, <1>13 DEF Handed

LEMMA CollectHanded ==
  ASSUME PoolInv, CollectFutures
  PROVE  Handed'
<1>0. RowInv /\ Handed
  BY DEF PoolInv
<1> DEFINE over == {w \in Threads : job[w].pc = "over"}
<1>1. \A w \in Threads : job'[w] = IF job[w].pc = "over" THEN Idle ELSE job[w]
  BY <1>0, CollectMoves
<1>2. Running' = Running \ over /\ over \subseteq Running
  BY <1>1 DEF Running, Idle
<1>3. /\ done' = done \cup {RowOf(w) : w \in over}
      /\ UNCHANGED <<pending, scheduled>> /\ main' = "dispatch"
  BY DEF CollectFutures
<1> HIDE DEF over
<1>4. \A w \in Running' : RowOf(w)' = RowOf(w) /\ job'[w].scheduled = job[w].scheduled
  BY <1>1, <1>2 DEF RowOf, Running, over
<1>5. \A w \in Running' : \E r \in scheduled' \ (pending' \cup done') :
        job'[w].scheduled = {r} /\ Dependencies(r) \cap scheduled' \subseteq done'
  <2>1. TAKE w \in Running'
  <2>2. PICK r \in scheduled \ (pending \cup done) :
          job[w].scheduled = {r} /\ Dependencies(r) \cap scheduled \subseteq done
    BY <1>0, <1>2 DEF Handed
  <2>3. RowOf(w) = r
    BY <2>2, OnlyRow
  <2>4. r \notin {RowOf(v) : v \in over}
    BY <1>0, <1>2, <2>3 DEF Handed
  <2>5. QED
    BY <1>3, <1>4, <2>2, <2>4
<1>6. \A u, v \in Running' : u # v => RowOf(u)' # RowOf(v)'
  BY <1>0, <1>2, <1>4 DEF Handed
<1>7. scheduled' \ pending' = done' \cup {RowOf(v)' : v \in Running'}
  <2>1. {RowOf(v)' : v \in Running'} = {RowOf(v) : v \in Running'}
    BY <1>4
  <2>2. {RowOf(v) : v \in Running} = {RowOf(v) : v \in over} \cup {RowOf(v) : v \in Running'}
    BY <1>2
  <2>3. scheduled \ pending = done \cup {RowOf(v) : v \in Running}
    BY <1>0 DEF Handed
  <2>4. QED
    BY <1>3, <2>1, <2>2, <2>3
<1>8. QED
  BY <1>3, <1>5, <1>6, <1>7 DEF Handed

\* With no thread at work one of the pool is free.
LEMMA SomeThreadFree ==
  ASSUME Running = {}
  PROVE  Cardinality(Running) < Cardinality(Threads)
<1>1. IsFiniteSet(Threads) /\ Threads # {}
  BY RunsAssumption
<1>2. Cardinality(Threads) \in Nat /\ Cardinality(Threads) # 0
  BY <1>1, FS_CardinalityType, FS_EmptySet
<1>3. Cardinality(Running) = 0
  BY FS_EmptySet
<1>4. QED
  BY <1>2, <1>3

LEMMA PoolHanded ==
  ASSUME PoolInv, [PoolNext]_poolVars
  PROVE  Handed'
<1>0. RowInv /\ Handed /\ Threads \subseteq Workers /\ job \in [Workers -> Invocation]
  BY RunsAssumption DEF PoolInv, RowInv, RowTypeOK
<1>1. CASE Start
  <2>1. Running' = {}
    BY <1>0, <1>1 DEF Start, Handed, Running, rowVars
  <2>2. pending' = scheduled' /\ done' = {} /\ main' = "dispatch"
    BY <1>1 DEF Start
  <2>3. QED
    BY <2>1, <2>2 DEF Handed
<1>2. CASE Dispatch
  BY <1>2, DispatchHanded
<1>3. CASE Wait \/ Unwind \/ UNCHANGED poolVars
  BY <1>0, <1>3, HandedKept DEF Wait, Unwind, poolVars, mainVars, rowVars
<1>4. CASE AllCollected
  <2>1. /\ Running' = {} /\ UNCHANGED <<pending, done, stopped, scheduled>>
        /\ main' = IF stopped \/ pending = {} THEN "returned" ELSE "stuck"
    BY <1>4 DEF AllCollected, Running, rowVars
  <2>2. Running = {} /\ ~CanDispatch
    BY <1>4 DEF AllCollected
  <2>3. ~stopped => Eligible = {}
    BY <2>2, SomeThreadFree DEF CanDispatch
  <2>4. Eligible' = Eligible
    BY <2>1 DEF Eligible
  <2>5. QED
    BY <1>0, <2>1, <2>2, <2>3, <2>4 DEF Handed
<1>5. CASE CollectFutures
  BY <1>5, CollectHanded
<1>6. CASE MainExits \/ MainCrashes
  <2>1. Gone
    BY <1>6 DEF MainExits, MainCrashes
  <2>2. Running' = {}
    BY <1>0, <2>1, GoneMoves DEF Running
  <2>3. QED
    BY <2>1, <2>2 DEF Gone, Handed
<1>7. ASSUME NEW w \in Workers, Step(w) PROVE Handed'
  <2>1. Track(w) /\ job' = [job EXCEPT ![w] = job'[w]] /\ UNCHANGED mainVars
    BY <1>0, <1>7, StepTrack, StepFrame DEF Step, Frame
  <2>2. \A v \in Workers : /\ job'[v].pc = "idle" <=> job[v].pc = "idle"
                           /\ job'[v].scheduled = job[v].scheduled
    BY <1>0, <2>1 DEF Track
  <2>3. QED
    BY <1>0, <2>1, <2>2, HandedKept DEF mainVars
<1>8. ASSUME NEW w \in Workers, Beside(w) \/ BesideEnds(w) PROVE Handed'
  <2>1. \A v \in Threads : job'[v] = job[v]
    BY <1>0, <1>8 DEF Beside, BesideEnds, Invoke, Vanish
  <2>2. QED
    BY <1>0, <1>8, <2>1, HandedKept DEF Beside, BesideEnds, mainVars
<1>9. CASE OrphanStep /\ UNCHANGED mainVars
  BY <1>0, <1>9, HandedKept, OrphanTyped DEF mainVars
<1>10. QED
  BY <1>1, <1>2, <1>3, <1>4, <1>5, <1>6, <1>7, <1>8, <1>9 DEF PoolNext, Main

LEMMA PoolKept ==
  ASSUME PoolInv, [PoolNext]_poolVars
  PROVE  PoolInv'
BY PoolTyped, PoolHanded, PoolMoves, RowsTyped DEF PoolInv

\* Rows, threads and the bookkeeping of the main thread keep their types.
THEOREM PoolTypeCorrect == PoolSpec => []PoolTypeOK
<1>1. PoolInv => PoolTypeOK
  BY DEF PoolInv
<1>2. QED
  BY <1>1, PoolStarts, PoolKept, PTL DEF PoolSpec

\* No two threads work on one row, and none on a row that another thread's row
\* needs or wants, whatever processes run single rows beside the pool.
THEOREM ThreadsKeepClear == PoolSpec => []NoInputInFlight
<1>1. PoolInv => NoInputInFlight
  <2> SUFFICES ASSUME PoolInv, NEW v \in Working, NEW w \in Working, v # w
               PROVE  RowOf(v) # RowOf(w) /\ RowOf(v) \notin Dependencies(RowOf(w))
    BY DEF NoInputInFlight
  <2>1. v \in Running /\ w \in Running
    BY DEF Working, Running
  <2>2. RowOf(v) # RowOf(w)
    BY <2>1 DEF PoolInv, Handed
  <2>3. RowOf(v) \in scheduled \ done /\ Dependencies(RowOf(w)) \cap scheduled \subseteq done
    BY <2>1, RowHanded DEF PoolInv
  <2>4. QED
    BY <2>2, <2>3
<1>2. QED
  BY <1>1, PoolStarts, PoolKept, PTL DEF PoolSpec

\* The dispatch loop never runs dry: the first row still pending depends on
\* earlier rows only, and those that are scheduled are done.
THEOREM DispatchAdvances ==
  ASSUME WellFormed
  PROVE  PoolSpec => []NeverStuck
<1>1. PoolInv => NeverStuck
  <2> SUFFICES ASSUME PoolInv, main = "stuck" PROVE FALSE
    BY DEF NeverStuck
  <2>1. pending # {} /\ Eligible = {} /\ Running = {} /\ scheduled \ pending = done
    BY DEF PoolInv, Handed
  <2>2. pending \subseteq scheduled /\ scheduled \subseteq Rows /\ Rows \subseteq Nat
    BY DEF PoolInv, PoolTypeOK, Rows
  <2>3. PICK r \in pending : \A q \in pending : r <= q
    <3>1. pending \in SUBSET Nat
      BY <2>2
    <3>2. QED
      BY <2>1, <3>1, MinOfNaturals
  <2>4. r \in Rows
    BY <2>2
  <2>5. \A d \in Dependencies(r) : d \in Rows => d < r
    <3>1. StatedNeeds[r] \cup Wants[r] \subseteq 1 .. (r - 1)
      BY <2>4 DEF WellFormed
    <3>2. QED
      BY <2>4, <3>1 DEF Dependencies, Needs, Rows
  <2>6. \A d \in Dependencies(r) \cap scheduled : d \in done
    <3>1. TAKE d \in Dependencies(r) \cap scheduled
    <3>2. d < r /\ d \in Nat /\ r \in Nat
      BY <2>2, <2>4, <2>5, <3>1
    <3>3. d \notin pending
      BY <2>3, <3>2
    <3>4. QED
      BY <2>1, <3>1, <3>3
  <2>7. r \in Eligible
    BY <2>6 DEF Eligible
  <2>8. QED
    BY <2>1, <2>7
<1>2. QED
  BY <1>1, PoolStarts, PoolKept, PTL DEF PoolSpec

\* The run returns only when no thread is at work, and every row it handed out
\* has been collected, also when it stops early.
THEOREM ReturnsWithAllWork == PoolSpec => []AllWorkCollected
<1>1. PoolInv => AllWorkCollected
  <2> SUFFICES ASSUME PoolInv, main = "returned"
               PROVE  Working = {} /\ scheduled \ pending = done
    BY DEF AllWorkCollected
  <2>1. Running = {} /\ scheduled \ pending = done \cup {RowOf(w) : w \in Running}
    BY DEF PoolInv, Handed
  <2>2. Working \subseteq Running
    BY DEF Working, Running
  <2>3. QED
    BY <2>1, <2>2
<1>2. QED
  BY <1>1, PoolStarts, PoolKept, PTL DEF PoolSpec

-----------------------------------------------------------------------------
(* Ownership. *)

\* Only a started attempt is ever judged.
JudgedOnce ==
  \A r \in Rows, n \in AttemptNo :
    attempts[r][n].stage # "started" => attempts[r][n].verdict = "NO_VERDICT"

\* A command without a runner belongs to an attempt that was started, has no
\* verdict, and is in nobody's hand.
OrphansCut ==
  \A o \in orphans : o[2] # 0 =>
    /\ attempts[o[1]][o[2]].stage = "started"
    /\ attempts[o[1]][o[2]].verdict = "NO_VERDICT"
    /\ \A w \in Workers : ~Holds(w, o[1], o[2])

OwnInv == RowInv /\ JudgedOnce /\ AttemptOwned /\ OrphansCut

LEMMA InitOwned == RowInit => JudgedOnce /\ AttemptOwned /\ OrphansCut
BY DEF RowInit, JudgedOnce, AttemptOwned, OrphansCut, Absent, Idle, Holding

LEMMA AttemptUpdate ==
  ASSUME RowInv, NEW r \in Rows, NEW n \in AttemptNo, NEW a,
         attempts' = [attempts EXCEPT ![r][n] = a]
  PROVE  /\ attempts'[r][n] = a
         /\ \A q \in Rows, k \in AttemptNo :
              <<q, k>> # <<r, n>> => attempts'[q][k] = attempts[q][k]
BY DEF RowInv, RowTypeOK

LEMMA StepOwned ==
  ASSUME OwnInv, NEW w \in Workers, InvocationStep(w), Frame(w)
  PROVE  JudgedOnce' /\ AttemptOwned'
<1>0. /\ RowInv /\ JudgedOnce /\ AttemptOwned
      /\ job \in [Workers -> Invocation]
      /\ job' = [job EXCEPT ![w] = job'[w]]
  BY DEF OwnInv, RowInv, RowTypeOK, Frame
<1> DEFINE r == job[w].row
           n == job[w].num
<1>a. /\ \A v \in Workers \ {w} : job'[v] = job[v]
      /\ job'[w].pc \in Holding =>
           \/ LinkStart(w) /\ job'[w].row = r /\ job'[w].num = n
           \/ job[w].pc \in Holding /\ job'[w].row = r /\ job'[w].num = n
  BY <1>0 DEF Frame
<1>1. CASE UNCHANGED attempts
  <2>1. JudgedOnce'
    BY <1>0, <1>1 DEF JudgedOnce
  <2>2. ~LinkStart(w)
    <3>1. SUFFICES ASSUME LinkStart(w) PROVE FALSE
      OBVIOUS
    <3>2. r \in Rows /\ n \in AttemptNo
      BY <1>0, <3>1 DEF LinkStart, RowInv, InHand, WithRow, WithNumber
    <3>3. attempts'[r][n].stage = "started" /\ attempts[r][n].stage = "made"
      BY <1>0, <3>1, <3>2 DEF LinkStart, RowInv, RowTypeOK, AttemptRecord
    <3>4. QED
      BY <1>1, <3>3
  <2>3. AttemptOwned'
    BY <1>0, <1>1, <1>a, <2>2 DEF AttemptOwned, Holds
  <2>4. QED
    BY <2>1, <2>3
<1>2. ASSUME r \in Rows, n \in AttemptNo, NEW a, attempts' = [attempts EXCEPT ![r][n] = a],
             a.stage # "started" => a.verdict = "NO_VERDICT"
      PROVE  JudgedOnce'
  BY <1>0, <1>2, AttemptUpdate DEF JudgedOnce
<1>3. CASE MakeDirectory(w)
  <2>1. r \in Rows /\ n \in AttemptNo /\ job'[w].pc = "made"
    BY <1>0, <1>3 DEF MakeDirectory, RowInv, InHand, WithRow, WithNumber
  <2> DEFINE a == [attempts[r][n] EXCEPT !.stage = IF @ = "absent" THEN "made" ELSE @]
  <2>2. attempts' = [attempts EXCEPT ![r][n] = a]
    BY <1>3, <1>0, <2>1 DEF MakeDirectory, RowInv, RowTypeOK
  <2>3. /\ a.verdict = attempts[r][n].verdict
        /\ a.stage = "started" <=> attempts[r][n].stage = "started"
    BY <2>1, <1>0 DEF RowInv, RowTypeOK, AttemptRecord
  <2> HIDE DEF a
  <2>4. JudgedOnce'
    BY <1>0, <1>2, <2>1, <2>2, <2>3 DEF JudgedOnce
  <2>5. \A q \in Rows, k \in AttemptNo :
          /\ attempts'[q][k].verdict = attempts[q][k].verdict
          /\ attempts[q][k].stage = "started" => attempts'[q][k].stage = "started"
    BY <1>0, <2>1, <2>2, <2>3, AttemptUpdate
  <2>6. AttemptOwned'
    BY <1>0, <1>a, <2>1, <2>5 DEF AttemptOwned, Holds, Holding
  <2>7. QED
    BY <2>4, <2>6
<1>4. CASE LinkStart(w)
  <2>1. r \in Rows /\ n \in AttemptNo /\ job'[w].pc = "launched"
    BY <1>0, <1>4 DEF LinkStart, RowInv, InHand, WithRow, WithNumber, Invocation
  <2>2. attempts[r][n].stage = "made" /\ attempts[r][n].verdict = "NO_VERDICT"
    BY <1>0, <1>4, <2>1 DEF LinkStart, JudgedOnce
  <2> DEFINE a == [attempts[r][n] EXCEPT !.stage = "started", !.inputs = job[w].inputs]
  <2>3. attempts' = [attempts EXCEPT ![r][n] = a]
    BY <1>4 DEF LinkStart
  <2>4. a.stage = "started" /\ a.verdict = "NO_VERDICT"
    BY <2>1, <2>2, <1>0 DEF RowInv, RowTypeOK, AttemptRecord
  <2> HIDE DEF a
  <2>5. JudgedOnce'
    BY <1>2, <2>1, <2>3, <2>4
  <2>6. \A v \in Workers \ {w} : ~Holds(v, r, n)
    BY <1>0, <2>2 DEF AttemptOwned, Holds
  <2>7. /\ attempts'[r][n] = a
        /\ \A q \in Rows, k \in AttemptNo :
             <<q, k>> # <<r, n>> => attempts'[q][k] = attempts[q][k]
    BY <1>0, <2>1, <2>3 DEF RowInv, RowTypeOK
  <2>8. job'[w].row = r /\ job'[w].num = n
    BY <1>a, <2>1 DEF Holding
  <2>9. AttemptOwned'
    BY <1>0, <1>a, <2>1, <2>4, <2>6, <2>7, <2>8 DEF AttemptOwned, Holds
  <2>10. QED
    BY <2>5, <2>9
<1>5. CASE WriteVerdict(w)
  <2>1. r \in Rows /\ n \in AttemptNo /\ Holds(w, r, n)
    BY <1>0, <1>5 DEF WriteVerdict, RowInv, InHand, WithRow, WithNumber, Holds, Holding
  <2>2. job'[w].pc = "returned"
    BY <1>0, <1>5 DEF WriteVerdict, Return, Invocation
  <2> DEFINE a == [attempts[r][n] EXCEPT !.verdict = IF job[w].ok THEN "PASS" ELSE "FAIL",
                                         !.saw = job[w].saw]
  <2>3. attempts' = [attempts EXCEPT ![r][n] = a]
    BY <1>5 DEF WriteVerdict
  <2>4. a.stage = "started"
    <3>1. attempts[r][n].stage = "started"
      BY <1>0, <2>1 DEF AttemptOwned, Holds
    <3>2. QED
      BY <3>1, <2>1, <1>0 DEF RowInv, RowTypeOK, AttemptRecord
  <2> HIDE DEF a
  <2>5. JudgedOnce'
    BY <1>2, <2>1, <2>3, <2>4
  <2>6. \A q \in Rows, k \in AttemptNo :
          <<q, k>> # <<r, n>> => attempts'[q][k] = attempts[q][k]
    BY <1>0, <2>1, <2>3, AttemptUpdate
  <2>7. \A v \in Workers \ {w} : ~Holds(v, r, n)
    BY <1>0, <2>1 DEF AttemptOwned, Holds
  <2>8. AttemptOwned'
    BY <1>0, <1>a, <2>2, <2>6, <2>7 DEF AttemptOwned, Holds, Holding
  <2>9. QED
    BY <2>5, <2>8
<1>6. QED
  BY <1>1, <1>3, <1>4, <1>5 DEF Frame

\* Where workers come and go, a row past its gate is where it was.
LEMMA MovedKeepsOut ==
  ASSUME Moved, NEW w \in Workers, job'[w].pc \in WithRow
  PROVE  job'[w] = job[w]
BY DEF Moved, NewJob, WithRow

\* What making a directory leaves of any attempt of the table.
LEMMA MadeOnly ==
  ASSUME NEW R, NEW N, NEW f \in [R -> [N -> AttemptRecord]], NEW p, NEW q, NEW g,
         g = [f EXCEPT ![p][q].stage = IF @ = "absent" THEN "made" ELSE @],
         NEW r \in R, NEW n \in N
  PROVE  /\ g[r][n].inputs = f[r][n].inputs /\ g[r][n].verdict = f[r][n].verdict
         /\ f[r][n].stage = "started" => g[r][n].stage = "started"
<1>1. CASE r # p
  BY <1>1
<1>2. CASE r = p /\ n # q
  BY <1>2
<1>3. CASE r = p /\ n = q
  <2> DEFINE a == f[r][n]
             made == IF a.stage = "absent" THEN "made" ELSE a.stage
  <2>1. a \in AttemptRecord /\ (a.stage = "started" => made = "started")
    OBVIOUS
  <2>2. g[r][n] = [a EXCEPT !.stage = made]
    BY <1>3
  <2> HIDE DEF a, made
  <2>3. /\ [a EXCEPT !.stage = made].inputs = a.inputs
        /\ [a EXCEPT !.stage = made].verdict = a.verdict
        /\ [a EXCEPT !.stage = made].stage = made
    BY ONLY <2>1 DEF AttemptRecord
  <2>4. QED
    BY ONLY <2>1, <2>2, <2>3 DEF a
<1>4. QED
  BY <1>1, <1>2, <1>3

LEMMA AttemptsKept ==
  ASSUME OwnInv, NEW w \in Workers, Frame(w)
  PROVE  \A r \in Rows, n \in AttemptNo :
           LET a == attempts[r][n]  b == attempts'[r][n] IN
           /\ a.stage = "started" => b.stage = "started" /\ b.inputs = a.inputs
           /\ a.verdict # "NO_VERDICT" => b.verdict = a.verdict
<1>0. RowInv /\ JudgedOnce /\ attempts \in [Rows -> [AttemptNo -> AttemptRecord]]
  BY DEF OwnInv, RowInv, RowTypeOK
<1>1. CASE UNCHANGED attempts
  BY <1>1
<1>2. CASE MakeDirectory(w)
  <2>1. attempts' = [attempts EXCEPT ![job[w].row][job[w].num].stage =
                       IF @ = "absent" THEN "made" ELSE @]
    BY <1>2 DEF MakeDirectory
  <2>2. \A r \in Rows, n \in AttemptNo :
          /\ attempts'[r][n].inputs = attempts[r][n].inputs
          /\ attempts'[r][n].verdict = attempts[r][n].verdict
          /\ attempts[r][n].stage = "started" => attempts'[r][n].stage = "started"
    <3> DEFINE p == job[w].row  q == job[w].num
    <3> HIDE DEF p, q
    <3>1. attempts' = [attempts EXCEPT ![p][q].stage = IF @ = "absent" THEN "made" ELSE @]
      BY ONLY <2>1 DEF p, q
    <3> QED
      BY ONLY <1>0, <3>1, MadeOnly
  <2>3. QED
    BY ONLY <2>2
<1>3. CASE LinkStart(w)
  <2>1. attempts[job[w].row][job[w].num].stage = "made"
    BY <1>3 DEF LinkStart
  <2>2. QED
    BY <1>0, <1>3, <2>1 DEF LinkStart, AttemptRecord
<1>4. CASE WriteVerdict(w)
  <2>1. attempts[job[w].row][job[w].num].verdict = "NO_VERDICT"
    BY <1>4 DEF WriteVerdict
  <2>2. QED
    BY <1>0, <1>4, <2>1 DEF WriteVerdict, AttemptRecord
<1>5. QED
  BY <1>1, <1>2, <1>3, <1>4 DEF Frame

\* The commands that are left behind are those of attempts in hand.
LEMMA MovedCut ==
  ASSUME OwnInv, Moved
  PROVE  OrphansCut'
<1>0. /\ RowInv /\ AttemptOwned /\ OrphansCut /\ UNCHANGED attempts
      /\ \A w \in Workers : job'[w] = job[w] \/ job'[w].pc \notin Holding
  BY DEF OwnInv, Moved, NewJob, Holding
<1>1. ASSUME NEW o \in orphans', o[2] # 0
      PROVE  /\ attempts[o[1]][o[2]].stage = "started"
             /\ attempts[o[1]][o[2]].verdict = "NO_VERDICT"
             /\ \A w \in Workers : ~Holds(w, o[1], o[2])'
  <2>1. CASE o \in orphans
    BY <1>0, <1>1, <2>1 DEF OrphansCut, Holds
  <2>2. CASE o \notin orphans
    <3>1. PICK w \in Workers : NewJob(job'[w]) /\ o \in UnderWay({w})
      BY <1>1, <2>2 DEF Moved
    <3>2. Holds(w, o[1], o[2])
      BY <1>1, <3>1 DEF UnderWay, Holds, Holding
    <3>3. /\ attempts[o[1]][o[2]].stage = "started"
          /\ attempts[o[1]][o[2]].verdict = "NO_VERDICT"
          /\ \A v \in Workers \ {w} : ~Holds(v, o[1], o[2])
      BY <1>0, <3>2 DEF AttemptOwned, Holds
    <3>4. ~Holds(w, o[1], o[2])'
      BY <3>1 DEF NewJob, Holds, Holding
    <3>5. QED
      BY <1>0, <3>3, <3>4 DEF Holds
  <2>3. QED
    BY <2>1, <2>2
<1>2. QED
  BY <1>0, <1>1 DEF OrphansCut

\* No step starts or judges an attempt that was cut off.
LEMMA StepCut ==
  ASSUME OwnInv, NEW w \in Workers, InvocationStep(w), Frame(w)
  PROVE  OrphansCut'
<1>0. /\ RowInv /\ JudgedOnce /\ OrphansCut /\ orphans' = orphans
      /\ orphans \subseteq Rows \X (0 .. MaxAttempt)
      /\ job \in [Workers -> Invocation] /\ job' = [job EXCEPT ![w] = job'[w]]
  BY DEF OwnInv, RowInv, RowTypeOK, InvocationStep, Frame
<1> SUFFICES ASSUME NEW o \in orphans, o[2] # 0
             PROVE  /\ attempts'[o[1]][o[2]].stage = "started"
                    /\ attempts'[o[1]][o[2]].verdict = "NO_VERDICT"
                    /\ \A v \in Workers : ~Holds(v, o[1], o[2])'
  BY <1>0 DEF OrphansCut
<1>1. o[1] \in Rows /\ o[2] \in AttemptNo
  BY <1>0 DEF AttemptNo
<1> DEFINE r == o[1]  n == o[2]
<1>2. /\ attempts[r][n].stage = "started" /\ attempts[r][n].verdict = "NO_VERDICT"
      /\ \A v \in Workers : ~Holds(v, r, n)
  BY <1>0 DEF OrphansCut
<1> HIDE DEF r, n
<1>3. attempts'[r][n].stage = "started"
  BY <1>1, <1>2, AttemptsKept DEF r, n
<1>4. attempts'[r][n].verdict = "NO_VERDICT"
  <2>1. CASE WriteVerdict(w)
    <3>1. /\ job[w].row \in Rows /\ job[w].num \in AttemptNo
          /\ Holds(w, job[w].row, job[w].num)
      BY <1>0, <2>1 DEF WriteVerdict, RowInv, InHand, WithRow, WithNumber, Holds, Holding
    <3>2. <<r, n>> # <<job[w].row, job[w].num>>
      BY <1>2, <3>1
    <3> DEFINE a == [attempts[job[w].row][job[w].num] EXCEPT
                       !.verdict = IF job[w].ok THEN "PASS" ELSE "FAIL", !.saw = job[w].saw]
    <3>3. attempts' = [attempts EXCEPT ![job[w].row][job[w].num] = a]
      BY <2>1 DEF WriteVerdict
    <3> HIDE DEF a
    <3>4. attempts'[r][n] = attempts[r][n]
      BY <1>0, <1>1, <3>1, <3>2, <3>3, AttemptUpdate DEF r, n
    <3>5. QED
      BY <1>2, <3>4
  <2>2. CASE LinkStart(w)
    <3>1. /\ job[w].row \in Rows /\ job[w].num \in AttemptNo
          /\ attempts[job[w].row][job[w].num].stage = "made"
      BY <1>0, <2>2 DEF LinkStart, RowInv, InHand, WithRow, WithNumber
    <3>2. <<r, n>> # <<job[w].row, job[w].num>>
      BY <1>2, <3>1
    <3> DEFINE a == [attempts[job[w].row][job[w].num] EXCEPT
                       !.stage = "started", !.inputs = job[w].inputs]
    <3>3. attempts' = [attempts EXCEPT ![job[w].row][job[w].num] = a]
      BY <2>2 DEF LinkStart
    <3> HIDE DEF a
    <3>4. attempts'[r][n] = attempts[r][n]
      BY <1>0, <1>1, <3>1, <3>2, <3>3, AttemptUpdate DEF r, n
    <3>5. QED
      BY <1>2, <3>4
  <2>3. CASE MakeDirectory(w)
    <3>1. attempts' = [attempts EXCEPT ![job[w].row][job[w].num].stage =
                         IF @ = "absent" THEN "made" ELSE @]
      BY <2>3 DEF MakeDirectory
    <3>2. r \in Rows /\ n \in AttemptNo /\ attempts \in [Rows -> [AttemptNo -> AttemptRecord]]
      BY <1>0, <1>1 DEF r, n, RowInv, RowTypeOK
    <3> DEFINE p == job[w].row  q == job[w].num
    <3> HIDE DEF p, q
    <3>3. attempts' = [attempts EXCEPT ![p][q].stage = IF @ = "absent" THEN "made" ELSE @]
      BY ONLY <3>1 DEF p, q
    <3>4. attempts'[r][n].verdict = attempts[r][n].verdict
      BY ONLY <3>2, <3>3, MadeOnly
    <3>5. QED
      BY <1>2, <3>4
  <2>4. QED
    BY <1>2, <2>1, <2>2, <2>3 DEF Frame
<1>5. ~Holds(w, r, n)'
  <2>1. SUFFICES ASSUME job'[w].pc \in Holding, job'[w].row = r, job'[w].num = n
                 PROVE  FALSE
    BY DEF Holds
  <2>2. CASE LinkStart(w) /\ job'[w].row = job[w].row /\ job'[w].num = job[w].num
    BY <1>2, <2>1, <2>2 DEF LinkStart
  <2>3. CASE job[w].pc \in Holding /\ job'[w].row = job[w].row /\ job'[w].num = job[w].num
    BY <1>2, <2>1, <2>3 DEF Holds
  <2>4. QED
    BY <2>1, <2>2, <2>3 DEF Frame
<1>6. \A v \in Workers \ {w} : ~Holds(v, r, n)'
  BY <1>0, <1>2 DEF Holds
<1>7. QED
  BY <1>3, <1>4, <1>5, <1>6 DEF r, n

LEMMA OwnKept ==
  ASSUME OwnInv, RowNext
  PROVE  OwnInv'
<1>0. RowInv /\ JudgedOnce /\ AttemptOwned /\ OrphansCut /\ RowInv'
  BY RowsTyped DEF OwnInv
<1>1. CASE Moved
  <2>1. \A w \in Workers : job'[w].pc \in Holding => job'[w] = job[w]
    BY <1>1, MovedKeepsOut DEF Holding, WithRow
  <2>2. UNCHANGED attempts
    BY <1>1 DEF Moved
  <2>3. JudgedOnce' /\ AttemptOwned'
    BY <1>0, <2>1, <2>2 DEF JudgedOnce, AttemptOwned, Holds
  <2>4. QED
    BY <1>0, <1>1, <2>3, MovedCut DEF OwnInv
<1>2. ASSUME NEW w \in Workers, InvocationStep(w) PROVE OwnInv'
  BY <1>0, <1>2, StepFrame, StepOwned, StepCut DEF OwnInv
<1>3. CASE OrphanStep
  <2>1. UNCHANGED <<attempts, job, orphans>>
    BY <1>0, <1>3, OrphanTyped
  <2>2. QED
    BY <1>0, <2>1 DEF OwnInv, JudgedOnce, AttemptOwned, OrphansCut, Holds
<1>4. QED
  BY <1>1, <1>2, <1>3 DEF RowNext

LEMMA CampaignOwned ==
  /\ Init => OwnInv
  /\ OwnInv /\ [Next]_vars => OwnInv'
<1>1. Init => OwnInv
  BY InitTyped, InitOwned DEF Init, OwnInv
<1>2. OwnInv /\ [Next]_vars => OwnInv'
  BY CampaignMoves, OwnKept DEF OwnInv
<1>3. QED
  BY <1>1, <1>2

\* Two processes never both run one attempt of a row, and an attempt being run
\* has a start.json and no verdict.json (the exclusive link of write_durably).
THEOREM AttemptsOwned == Spec => []AttemptOwned
<1>1. OwnInv => AttemptOwned
  BY DEF OwnInv
<1>2. QED
  BY <1>1, CampaignOwned, PTL DEF Spec

\* The same with the threads of a pool and processes beside it.
THEOREM ThreadsOwnAttempts == PoolSpec => []AttemptOwned
<1>1. PoolInit => PoolInv /\ OwnInv
  BY PoolStarts, InitOwned DEF PoolInit, PoolInv, OwnInv
<1>2. PoolInv /\ OwnInv /\ [PoolNext]_poolVars => (PoolInv /\ OwnInv)'
  BY PoolKept, PoolMoves, OwnKept DEF PoolInv
<1>3. OwnInv => AttemptOwned
  BY DEF OwnInv
<1>4. QED
  BY <1>1, <1>2, <1>3, PTL DEF PoolSpec

-----------------------------------------------------------------------------
(* Evidence. *)

EvidenceStep ==
  \A r \in Rows :
    /\ \A n \in AttemptNo :
         LET a == attempts[r][n]  b == attempts'[r][n] IN
         /\ a.stage = "started" => b.stage = "started" /\ b.inputs = a.inputs
         /\ a.verdict # "NO_VERDICT" => b.verdict = a.verdict
    /\ Len(prep'[r]) >= Len(prep[r])
    /\ \A k \in 1 .. Len(prep[r]) : prep'[r][k] = prep[r][k]

LEMMA PrepKept ==
  ASSUME RowInv, NEW q,
         \/ \E v \in {"PASS", "FAIL"} : prep' = [prep EXCEPT ![q] = Append(@, v)]
         \/ UNCHANGED prep
  PROVE  \A r \in Rows : /\ Len(prep'[r]) >= Len(prep[r])
                         /\ \A k \in 1 .. Len(prep[r]) : prep'[r][k] = prep[r][k]
<1>1. TAKE r \in Rows
<1>2. prep[r] \in Seq({"PASS", "FAIL"}) /\ Len(prep[r]) \in Nat
  BY LenProperties DEF RowInv, RowTypeOK
<1>3. CASE prep'[r] = prep[r]
  BY <1>2, <1>3
<1>4. ASSUME NEW v \in {"PASS", "FAIL"}, prep'[r] = Append(prep[r], v)
      PROVE  /\ Len(prep'[r]) >= Len(prep[r])
             /\ \A k \in 1 .. Len(prep[r]) : prep'[r][k] = prep[r][k]
  BY <1>2, <1>4, AppendProperties
<1>5. prep'[r] = prep[r] \/ \E v \in {"PASS", "FAIL"} : prep'[r] = Append(prep[r], v)
  BY DEF RowInv, RowTypeOK
<1>6. QED
  BY <1>3, <1>4, <1>5

LEMMA EvidenceKept ==
  ASSUME OwnInv, RowNext
  PROVE  EvidenceStep
<1>0. RowInv
  BY DEF OwnInv
<1>1. CASE Moved
  BY <1>0, <1>1, PrepKept DEF EvidenceStep, Moved
<1>2. ASSUME NEW w \in Workers, InvocationStep(w) PROVE EvidenceStep
  <2>1. Frame(w)
    BY <1>0, <1>2, StepFrame
  <2>2. \/ \E v \in {"PASS", "FAIL"} : prep' = [prep EXCEPT ![job[w].row] = Append(@, v)]
        \/ UNCHANGED prep
    BY <2>1 DEF Frame
  <2>3. QED
    BY <1>0, <2>1, <2>2, PrepKept, AttemptsKept DEF EvidenceStep
<1>3. CASE OrphanStep
  <2>1. UNCHANGED <<attempts, prep>>
    BY <1>0, <1>3, OrphanTyped
  <2>2. QED
    BY <1>0, <2>1, PrepKept DEF EvidenceStep
<1>4. QED
  BY <1>1, <1>2, <1>3 DEF RowNext

\* Nothing recorded is ever overwritten, whatever processes race and die.
THEOREM EvidenceIsKept == Spec => EvidenceStands
<1>1. OwnInv /\ [Next]_vars => [EvidenceStep]_rowVars
  BY CampaignMoves, EvidenceKept DEF OwnInv
<1>2. QED
  BY <1>1, CampaignOwned, PTL DEF Spec, EvidenceStands, EvidenceStep

\* The same with the threads of a pool and processes beside it.
THEOREM ThreadsKeepEvidence == PoolSpec => EvidenceStands
<1>1. PoolInit => PoolInv /\ OwnInv
  BY PoolStarts, InitOwned DEF PoolInit, PoolInv, OwnInv
<1>2. PoolInv /\ OwnInv /\ [PoolNext]_poolVars => (PoolInv /\ OwnInv)'
  BY PoolKept, PoolMoves, OwnKept DEF PoolInv
<1>3. PoolInv /\ OwnInv /\ [PoolNext]_poolVars => [EvidenceStep]_rowVars
  BY PoolMoves, EvidenceKept DEF PoolInv
<1>4. QED
  BY <1>1, <1>2, <1>3, PTL DEF PoolSpec, EvidenceStands, EvidenceStep

-----------------------------------------------------------------------------
(* Inputs in place. *)

InputsInPlace ==
  \A w \in Workers : job[w].pc \in Admitted => Requires[job[w].row] \subseteq paths

LEMMA InputsStay ==
  ASSUME RowInv, InputsInPlace, RowNext
  PROVE  InputsInPlace'
<1>0. job \in [Workers -> Invocation]
  BY DEF RowInv, RowTypeOK
<1>1. CASE Moved
  <2>1. \A w \in Workers : job'[w].pc \in Admitted => job'[w] = job[w]
    BY <1>1, MovedKeepsOut DEF Admitted, Holding, WithRow
  <2>2. QED
    BY <1>1, <2>1 DEF Moved, InputsInPlace
<1>2. ASSUME NEW w \in Workers, InvocationStep(w) PROVE InputsInPlace'
  <2>1. Frame(w)
    BY <1>2, StepFrame
  <2>2. Admit(w) => Requires[job[w].row] \subseteq paths
    BY DEF Admit, Ready, Missing
  <2>3. QED
    BY <1>0, <2>1, <2>2 DEF Frame, InputsInPlace
<1>3. CASE OrphanStep
  BY <1>3, OrphanTyped DEF InputsInPlace
<1>4. QED
  BY <1>1, <1>2, <1>3 DEF RowNext

\* No command starts before the paths its row requires exist.
THEOREM LaunchesHaveInputs == Spec => []LaunchedOnInputs
<1>1. Init => RowInv /\ InputsInPlace
  BY InitTyped DEF Init, RowInit, InputsInPlace, Idle, Admitted, Holding
<1>2. RowInv /\ InputsInPlace /\ [Next]_vars => (RowInv /\ InputsInPlace)'
  BY CampaignMoves, RowsTyped, InputsStay
<1>3. InputsInPlace => LaunchedOnInputs
  BY DEF InputsInPlace, LaunchedOnInputs, Admitted
<1>4. QED
  BY <1>1, <1>2, <1>3, PTL DEF Spec

\* Nor does a thread of the pool start one.
THEOREM ThreadsHaveInputs == PoolSpec => []LaunchedOnInputs
<1>1. PoolInit => PoolInv /\ InputsInPlace
  BY PoolStarts DEF PoolInit, RowInit, InputsInPlace, Idle, Admitted, Holding
<1>2. PoolInv /\ InputsInPlace /\ [PoolNext]_poolVars => (PoolInv /\ InputsInPlace)'
  BY PoolKept, PoolMoves, InputsStay DEF PoolInv
<1>3. InputsInPlace => LaunchedOnInputs
  BY DEF InputsInPlace, LaunchedOnInputs, Admitted
<1>4. QED
  BY <1>1, <1>2, <1>3, PTL DEF PoolSpec

-----------------------------------------------------------------------------
(* The edges of the file, and the latest attempt of a row. *)

LEMMA EdgesBack ==
  ASSUME WellFormed, NEW r \in Rows
  PROVE  /\ Needs(r) \cup Reads(r) \subseteq Dependencies(r)
         /\ \A d \in Dependencies(r) : d \in Rows /\ d < r
<1>1. Needs(r) \cup Reads(r) \subseteq Dependencies(r)
  BY DEF Reads, Dependencies
<1>2. StatedNeeds[r] \cup Wants[r] \subseteq 1 .. (r - 1)
  BY DEF WellFormed
<1>3. Pilots \subseteq Rows
  BY CampaignFileAssumption
<1>4. \A d \in Dependencies(r) : d \in Rows /\ d < r
  BY <1>2, <1>3 DEF Dependencies, Needs, Rows
<1>5. QED
  BY <1>1, <1>4

\* The number of the latest attempt, 0 when there is none.
Highest(r) == StateOf(r)[1]

LEMMA HighestOf ==
  ASSUME NEW r \in Rows
  PROVE  /\ Highest(r) \in 0 .. MaxAttempt
         /\ \A n \in Numbers(r) : n <= Highest(r)
         /\ Numbers(r) = {} => Highest(r) = 0 /\ StateOf(r) = NeverRan
         /\ Numbers(r) # {} => /\ Highest(r) = Max(Numbers(r)) /\ Highest(r) \in Numbers(r)
                               /\ StateOf(r) = <<Highest(r), attempts[r][Highest(r)].verdict>>
<1>1. Numbers(r) \in SUBSET (0 .. MaxAttempt)
  BY DEF Numbers, AttemptNo
<1>2. CASE Numbers(r) = {}
  BY <1>2 DEF Highest, StateOf, NeverRan
<1>3. CASE Numbers(r) # {}
  <2>1. Max(Numbers(r)) \in Numbers(r) /\ \A n \in Numbers(r) : Max(Numbers(r)) >= n
    BY <1>1, <1>3, MaxOfBounded
  <2>2. Highest(r) = Max(Numbers(r))
        /\ StateOf(r) = <<Max(Numbers(r)), attempts[r][Max(Numbers(r))].verdict>>
    BY <1>3 DEF Highest, StateOf
  <2>3. \A n \in Numbers(r) : n \in Nat
    BY <1>1
  <2>4. QED
    BY <1>1, <1>3, <2>1, <2>2, <2>3
<1>4. QED
  BY <1>2, <1>3

\* The largest of a row's numbers is its highest.
LEMMA HighestIs ==
  ASSUME NEW r \in Rows, NEW n \in Numbers(r), \A k \in Numbers(r) : k <= n
  PROVE  Highest(r) = n /\ StateOf(r) = <<n, attempts[r][n].verdict>>
<1>1. Highest(r) \in Numbers(r) /\ n <= Highest(r)
  BY HighestOf
<1>2. Highest(r) <= n /\ n \in Nat /\ Highest(r) \in Nat
  BY <1>1 DEF Numbers, AttemptNo
<1>3. Highest(r) = n
  BY <1>1, <1>2
<1>4. QED
  BY <1>3, HighestOf

\* Both, for the next state too.
LatestFacts ==
  \A r \in Rows :
    /\ Highest(r) \in 0 .. MaxAttempt
    /\ \A n \in Numbers(r) : n <= Highest(r)
    /\ \A n \in Numbers(r) : (\A k \in Numbers(r) : k <= n)
         => Highest(r) = n /\ StateOf(r) = <<n, attempts[r][n].verdict>>

LEMMA LatestNow == LatestFacts
BY HighestOf, HighestIs DEF LatestFacts

LEMMA LatestAfter == LatestFacts'
BY LatestNow, PTL

LEMMA SameRow ==
  ASSUME NEW r, attempts'[r] = attempts[r]
  PROVE  /\ Numbers(r)' = Numbers(r) /\ StateOf(r)' = StateOf(r)
         /\ Highest(r)' = Highest(r) /\ Verdict(r)' = Verdict(r)
<1>1. Numbers(r)' = Numbers(r)
  BY DEF Numbers
<1>2. StateOf(r)' = StateOf(r)
  BY <1>1 DEF StateOf
<1>3. QED
  BY <1>1, <1>2 DEF Highest, Verdict

-----------------------------------------------------------------------------
(* The loop over the rows: in file order, each row once. *)

InTurn(w) ==
  LET j == job[w] IN
  /\ j.todo \subseteq j.scheduled
  /\ \A r \in j.scheduled \ j.todo, q \in j.todo : r < q
  /\ j.pc \in WithRow => j.row \in j.todo /\ \A q \in j.todo : j.row <= q
  /\ j.cmd = "run" /\ j.pc \in {"preparing", "prepared"} => j.every /\ Producible(j.row) # {}
  /\ j.batch => j.every /\ j.explicit = 0
  /\ j.explicit # 0 /\ j.pc \in WithNumber => j.num = j.explicit
  /\ j.cmd = "prepare" => j.pc \notin {"chosen"} \cup Admitted

AllInTurn == \A w \in Workers : InTurn(w)

LEMMA FirstIsLeast ==
  ASSUME RowInv, NEW w \in Workers, job[w].todo # {}
  PROVE  First(w) \in job[w].todo /\ First(w) \in Rows /\ \A q \in job[w].todo : First(w) <= q
<1>1. job[w].todo \in SUBSET Rows
  BY DEF RowInv, RowTypeOK, Invocation
<1>2. job[w].todo \in SUBSET Nat
  BY <1>1 DEF Rows
<1>3. QED
  BY <1>1, <1>2, MinOfNaturals DEF First

LEMMA StepInTurn ==
  ASSUME RowInv, NEW w \in Workers, InTurn(w), InvocationStep(w)
  PROVE  InTurn(w)'
<1>0. /\ Track(w) /\ Turn(w) /\ job[w] \in Invocation
      /\ job \in [Workers -> Invocation] /\ job[w].todo \subseteq Rows
  BY StepTrack, StepTurn DEF RowInv, RowTypeOK, Invocation
<1> DEFINE i == job[w]
           j == job'[w]
<1>a. \A r, q \in job[w].todo : r <= q /\ q <= r => r = q
  BY <1>0 DEF Rows
<1>1. j.todo \subseteq j.scheduled /\ \A r \in j.scheduled \ j.todo, q \in j.todo : r < q
  <2>1. j.scheduled = i.scheduled
    BY <1>0 DEF Track
  <2>2. CASE j.todo = i.todo
    BY <2>1, <2>2 DEF InTurn
  <2>3. ASSUME NEW f \in i.todo, \A q \in i.todo : f <= q, j.todo = i.todo \ {f}
        PROVE  j.todo \subseteq j.scheduled /\ \A r \in j.scheduled \ j.todo, q \in j.todo : r < q
    <3>1. \A q \in j.todo : f < q
      BY <1>0, <2>3 DEF Rows
    <3>2. QED
      BY <2>1, <2>3, <3>1 DEF InTurn
  <2>4. CASE DeferRow(w) \/ SkipRow(w)
    <3>1. j.todo = i.todo \ {First(w)} /\ i.todo # {}
      BY <1>0, <2>4 DEF DeferRow, SkipRow, Next1, Invocation
    <3>2. QED
      BY <2>3, <3>1, FirstIsLeast
  <2>5. CASE Collect(w)
    <3>1. j.todo = i.todo \ {i.row} /\ i.pc \in WithRow
      BY <1>0, <2>5 DEF Collect, Invocation, WithRow
    <3>2. QED
      BY <2>3, <3>1 DEF InTurn
  <2>6. CASE LoopEnds(w)
    <3>1. j.todo \in {{}, j.scheduled}
      BY <1>0, <2>6 DEF LoopEnds, Invocation
    <3>2. QED
      BY <3>1
  <2>7. QED
    BY <1>0, <2>2, <2>4, <2>5, <2>6 DEF Turn
<1>b. j.pc \in WithRow => j.todo = i.todo /\ j.cmd = i.cmd
  BY <1>0 DEF Turn, WithRow
<1>2. j.pc \in WithRow => j.row \in j.todo /\ \A q \in j.todo : j.row <= q
  <2>1. PrepareRow(w) \/ TakeRow(w) => j.row = First(w) /\ i.todo # {}
    BY <1>0 DEF PrepareRow, TakeRow, Next1, Invocation
  <2>2. QED
    BY <1>0, <1>b, <2>1, FirstIsLeast DEF Turn, InTurn
<1>3. j.batch => j.every /\ j.explicit = 0
  BY <1>0 DEF Track, InTurn
<1>4. j.cmd = "run" /\ j.pc \in {"preparing", "prepared"} => j.every /\ Producible(j.row) # {}
  <2>1. PrepareRow(w) => i.cmd = "prepare"
    BY DEF PrepareRow, Next1
  <2>2. TakeRow(w) /\ j.pc = "preparing" => i.every /\ Producible(j.row) # {}
    BY <1>0 DEF TakeRow, PrepareNow, Invocation
  <2>3. PrepareCommands(w) => i.pc = "preparing" /\ j.row = i.row
    <3>1. PrepareCommands(w) => i.pc = "preparing" /\ j.pc = "prepared"
      BY <1>0 DEF PrepareCommands, Invocation
    <3>2. QED
      BY <1>0, <3>1 DEF Turn, WithRow
  <2>4. QED
    BY <1>0, <1>b, <2>1, <2>2, <2>3 DEF Turn, Track, InTurn, WithRow
<1>5. j.cmd = "prepare" => j.pc \notin {"chosen"} \cup Admitted
  <2>1. TakeRow(w) => i.cmd = "run"
    BY DEF TakeRow, Next1
  <2>2. RecordPreparation(w) /\ j.pc = "chosen" => i.cmd = "run"
    BY <1>0 DEF RecordPreparation, Return, Invocation
  <2>3. Frame(w)
    BY StepFrame
  <2>4. j.pc \in Admitted => i.pc \in {"chosen"} \cup Admitted
    BY <2>3 DEF Frame, Admit
  <2>5. j.pc \in {"chosen"} \cup Admitted => j.pc \in WithRow
    BY DEF Admitted, Holding, WithRow
  <2>6. QED
    BY <1>0, <1>b, <2>1, <2>2, <2>4, <2>5 DEF Turn, InTurn
<1>6. j.explicit # 0 /\ j.pc \in WithNumber => j.num = j.explicit
  <2>1. ChooseNumber(w) /\ j.pc = "numbered" /\ i.explicit # 0 => j.num = i.explicit
    BY <1>0 DEF ChooseNumber, Return, Invocation
  <2>2. j.pc \in {"recorded"} \cup Begun => i.pc \in WithNumber
    <3>1. Frame(w)
      BY StepFrame
    <3>2. QED
      BY <1>0, <3>1 DEF Track, Frame, RecordInputs, MakeDirectory, LinkStart, Begun, Holding,
                        WithNumber
  <2>3. j.pc \in WithNumber => j.pc = "numbered" \/ j.pc \in {"recorded"} \cup Begun
    BY DEF WithNumber, Begun, Holding
  <2>4. QED
    BY <1>0, <2>1, <2>2, <2>3 DEF Track, InTurn
<1>7. QED
  BY <1>1, <1>2, <1>3, <1>4, <1>5, <1>6 DEF InTurn, Producible

LEMMA TurnsKept ==
  ASSUME RowInv, AllInTurn, RowNext
  PROVE  AllInTurn'
<1>1. CASE Moved
  <2>1. ASSUME NEW w \in Workers, NewJob(job'[w]) PROVE InTurn(w)'
    BY <2>1 DEF NewJob, InTurn, WithRow, WithNumber, Admitted, Holding
  <2>2. ASSUME NEW w \in Workers, job'[w] = job[w] PROVE InTurn(w)'
    BY <2>2 DEF AllInTurn, InTurn, Producible
  <2>3. QED
    BY <1>1, <2>1, <2>2 DEF Moved, AllInTurn
<1>2. ASSUME NEW w \in Workers, InvocationStep(w) PROVE AllInTurn'
  <2>1. job' = [job EXCEPT ![w] = job'[w]] /\ job \in [Workers -> Invocation]
    BY <1>2, StepFrame DEF Frame, RowInv, RowTypeOK
  <2>2. ASSUME NEW v \in Workers, v # w PROVE InTurn(v)'
    <3>1. job'[v] = job[v]
      BY <2>1, <2>2
    <3>2. QED
      BY <3>1 DEF AllInTurn, InTurn, Producible
  <2>3. InTurn(w)'
    BY <1>2, StepInTurn DEF AllInTurn
  <2>4. QED
    BY <2>2, <2>3 DEF AllInTurn
<1>3. CASE OrphanStep
  BY <1>3, OrphanTyped DEF AllInTurn, InTurn, Producible
<1>4. QED
  BY <1>1, <1>2, <1>3 DEF RowNext

LEMMA TurnsStart == RowInit => AllInTurn
BY DEF RowInit, AllInTurn, InTurn, Idle, WithRow, WithNumber, Admitted, Holding

-----------------------------------------------------------------------------
(* Nobody disturbs the rows of an invocation. *)

\* No worker has in hand a row that another one is to run, or that such a row
\* depends on.  It holds of one worker, and of the threads of a pool alone.
Apart ==
  \A v, w \in Workers :
    v # w /\ job[v].pc \in WithRow /\ job[w].pc # "idle" =>
      \A r \in job[w].scheduled : job[v].row # r /\ job[v].row \notin Dependencies(r)

\* A step writes about the row in hand only.
LEMMA StepDisk ==
  ASSUME RowInv, NEW w \in Workers, InvocationStep(w)
  PROVE  /\ job[w].pc \notin WithRow => UNCHANGED <<attempts, prep, content>>
         /\ \A o \in Rows : o # job[w].row => /\ attempts'[o] = attempts[o]
                                              /\ prep'[o] = prep[o] /\ content'[o] = content[o]
<1>0. Frame(w) /\ Track(w)
  BY StepFrame, StepTrack
<1>1. /\ attempts \in [Rows -> [AttemptNo -> AttemptRecord]]
      /\ prep \in [Rows -> Seq({"PASS", "FAIL"})] /\ content \in [Rows -> 0 .. MaxAttempt]
  BY DEF RowInv, RowTypeOK
<1>2. \/ UNCHANGED attempts
      \/ /\ job[w].pc \in WithRow
         /\ \A o \in Rows : o # job[w].row => attempts'[o] = attempts[o]
  BY <1>0, <1>1 DEF Frame, MakeDirectory, LinkStart, WriteVerdict, WithRow
<1>3. \/ UNCHANGED prep
      \/ /\ job[w].pc \in WithRow
         /\ \A o \in Rows : o # job[w].row => prep'[o] = prep[o]
  BY <1>0, <1>1 DEF Frame, WithRow
<1>4. \/ UNCHANGED content
      \/ /\ job[w].pc \in WithRow
         /\ \A o \in Rows : o # job[w].row => content'[o] = content[o]
  BY <1>0, <1>1 DEF Track, CommandWrites, WithRow
<1>5. QED
  BY <1>2, <1>3, <1>4

\* What another worker's rows, and what they depend on, see of a step.
LEMMA OthersUndisturbed ==
  ASSUME WellFormed, RowInv, Apart, NEW w \in Workers, InvocationStep(w),
         NEW v \in Workers, v # w, job[v].pc # "idle",
         NEW r \in Rows, r \in job[v].scheduled
  PROVE  /\ job'[v] = job[v]
         /\ \A o \in {r} \cup Dependencies(r) :
              o \in Rows /\ attempts'[o] = attempts[o] /\ content'[o] = content[o]
<1>1. job'[v] = job[v]
  BY StepFrame DEF Frame, RowInv, RowTypeOK
<1>2. \A o \in {r} \cup Dependencies(r) : o \in Rows
  BY EdgesBack
<1>3. job[w].pc \in WithRow => \A o \in {r} \cup Dependencies(r) : o # job[w].row
  BY DEF Apart
<1>4. QED
  BY <1>1, <1>2, <1>3, StepDisk

\* make_directory: one more number, the highest if it is above them all.
LEMMA DirectoryMade ==
  ASSUME OwnInv, NEW w \in Workers, MakeDirectory(w), NEW r, NEW n,
         r = job[w].row, n = job[w].num
  PROVE  /\ r \in Rows /\ n \in AttemptNo
         /\ \A q \in Rows, k \in AttemptNo :
              /\ attempts'[q][k].verdict = attempts[q][k].verdict
              /\ attempts'[q][k].inputs = attempts[q][k].inputs
              /\ attempts'[q][k].saw = attempts[q][k].saw
         /\ Highest(r) < n => Highest(r)' = n /\ StateOf(r)' = <<n, "NO_VERDICT">>
<1>0. /\ RowInv /\ JudgedOnce /\ attempts \in [Rows -> [AttemptNo -> AttemptRecord]]
      /\ r \in Rows /\ n \in AttemptNo
  BY DEF OwnInv, RowInv, RowTypeOK, InHand, MakeDirectory, WithRow, WithNumber
<1> DEFINE a == [attempts[r][n] EXCEPT !.stage = IF @ = "absent" THEN "made" ELSE @]
<1>1. attempts' = [attempts EXCEPT ![r][n] = a]
  BY <1>0 DEF MakeDirectory
<1>2. /\ a.verdict = attempts[r][n].verdict /\ a.inputs = attempts[r][n].inputs
      /\ a.saw = attempts[r][n].saw /\ a.stage # "absent"
  BY <1>0 DEF AttemptRecord
<1> HIDE DEF a
<1>3. /\ attempts'[r][n] = a
      /\ \A q \in Rows, k \in AttemptNo :
           <<q, k>> # <<r, n>> => attempts'[q][k] = attempts[q][k]
  BY <1>0, <1>1, AttemptUpdate
<1>4. \A q \in Rows, k \in AttemptNo :
        /\ attempts'[q][k].verdict = attempts[q][k].verdict
        /\ attempts'[q][k].inputs = attempts[q][k].inputs
        /\ attempts'[q][k].saw = attempts[q][k].saw
  BY <1>2, <1>3
<1>5. ASSUME Highest(r) < n
      PROVE  Highest(r)' = n /\ StateOf(r)' = <<n, "NO_VERDICT">>
  <2>1. n \notin Numbers(r)
    <3>1. Highest(r) \in Nat /\ n \in Nat
      BY <1>0, HighestOf DEF AttemptNo
    <3>2. QED
      BY <1>0, <1>5, <3>1, HighestOf
  <2>2. attempts[r][n].verdict = "NO_VERDICT"
    BY <1>0, <2>1 DEF Numbers, JudgedOnce
  <2>3. Numbers(r)' = Numbers(r) \cup {n}
    BY <1>0, <1>2, <1>3 DEF Numbers
  <2>4. \A k \in Numbers(r)' : k <= n
    <3>1. \A k \in Numbers(r) : k <= Highest(r) /\ k \in Nat
      <4>1. Numbers(r) \subseteq AttemptNo
        BY <1>0, NumbersBounded
      <4>2. QED
        BY <1>0, <4>1, HighestOf DEF AttemptNo
    <3>2. Highest(r) \in Nat /\ n \in Nat
      BY <1>0, HighestOf DEF AttemptNo
    <3>3. QED
      BY <1>5, <2>3, <3>1, <3>2
  <2>5. Highest(r)' = n /\ StateOf(r)' = <<n, attempts'[r][n].verdict>>
    BY <1>0, <2>3, <2>4, LatestAfter DEF LatestFacts
  <2>6. QED
    BY <1>0, <1>4, <2>2, <2>5
<1>6. QED
  BY <1>0, <1>4, <1>5

\* Neither the link of start.json nor that of verdict.json adds a number.
LEMMA SameNumbers ==
  ASSUME NEW r \in Rows,
         \A k \in AttemptNo : /\ attempts'[r][k].stage = "absent" <=> attempts[r][k].stage = "absent"
                              /\ attempts'[r][k].verdict = attempts[r][k].verdict
  PROVE  StateOf(r)' = StateOf(r) /\ Highest(r)' = Highest(r) /\ Verdict(r)' = Verdict(r)
<1>1. Numbers(r)' = Numbers(r)
  BY DEF Numbers
<1>2. Numbers(r) # {} => Max(Numbers(r)) \in AttemptNo
  BY NumbersBounded
<1>3. StateOf(r)' = StateOf(r)
  BY <1>1, <1>2 DEF StateOf
<1>4. QED
  BY <1>3 DEF Highest, Verdict

LEMMA StartLinked ==
  ASSUME OwnInv, NEW w \in Workers, LinkStart(w), NEW r, NEW n,
         r = job[w].row, n = job[w].num
  PROVE  /\ r \in Rows /\ n \in AttemptNo
         /\ attempts[r][n].verdict = "NO_VERDICT" /\ attempts'[r][n].inputs = job[w].inputs
         /\ \A q \in Rows, k \in AttemptNo :
              /\ attempts'[q][k].verdict = attempts[q][k].verdict
              /\ attempts'[q][k].saw = attempts[q][k].saw
              /\ <<q, k>> # <<r, n>> => attempts'[q][k] = attempts[q][k]
         /\ \A q \in Rows : /\ StateOf(q)' = StateOf(q) /\ Highest(q)' = Highest(q)
                            /\ Verdict(q)' = Verdict(q)
<1>0. /\ RowInv /\ JudgedOnce /\ attempts \in [Rows -> [AttemptNo -> AttemptRecord]]
      /\ r \in Rows /\ n \in AttemptNo
  BY DEF OwnInv, RowInv, RowTypeOK, InHand, LinkStart, WithRow, WithNumber
<1> DEFINE a == [attempts[r][n] EXCEPT !.stage = "started", !.inputs = job[w].inputs]
<1>1. attempts' = [attempts EXCEPT ![r][n] = a] /\ attempts[r][n].stage = "made"
  BY <1>0 DEF LinkStart
<1>2. /\ a.verdict = attempts[r][n].verdict /\ a.inputs = job[w].inputs
      /\ a.saw = attempts[r][n].saw /\ a.stage = "started"
  BY <1>0 DEF AttemptRecord
<1> HIDE DEF a
<1>3. /\ attempts'[r][n] = a
      /\ \A q \in Rows, k \in AttemptNo :
           <<q, k>> # <<r, n>> => attempts'[q][k] = attempts[q][k]
  BY <1>0, <1>1, AttemptUpdate
<1>4. \A q \in Rows, k \in AttemptNo :
        /\ attempts'[q][k].verdict = attempts[q][k].verdict
        /\ attempts'[q][k].saw = attempts[q][k].saw
        /\ attempts'[q][k].stage = "absent" <=> attempts[q][k].stage = "absent"
  BY <1>1, <1>2, <1>3
<1>5. attempts[r][n].verdict = "NO_VERDICT"
  BY <1>0, <1>1 DEF JudgedOnce
<1>6. QED
  BY <1>0, <1>2, <1>3, <1>4, <1>5, SameNumbers

LEMMA VerdictWritten ==
  ASSUME OwnInv, NEW w \in Workers, WriteVerdict(w), NEW r, NEW n,
         r = job[w].row, n = job[w].num
  PROVE  /\ r \in Rows /\ n \in AttemptNo
         /\ attempts'[r][n].inputs = attempts[r][n].inputs
         /\ attempts'[r][n].saw = job[w].saw
         /\ attempts'[r][n].verdict = IF job[w].ok THEN "PASS" ELSE "FAIL"
         /\ \A q \in Rows, k \in AttemptNo :
              <<q, k>> # <<r, n>> => attempts'[q][k] = attempts[q][k]
         /\ Highest(r)' = Highest(r)
         /\ Highest(r) = n => StateOf(r)' = <<n, IF job[w].ok THEN "PASS" ELSE "FAIL">>
<1>0. /\ RowInv /\ attempts \in [Rows -> [AttemptNo -> AttemptRecord]]
      /\ r \in Rows /\ n \in AttemptNo
  BY DEF OwnInv, RowInv, RowTypeOK, InHand, WriteVerdict, WithRow, WithNumber
<1> DEFINE a == [attempts[r][n] EXCEPT !.verdict = IF job[w].ok THEN "PASS" ELSE "FAIL",
                                       !.saw = job[w].saw]
<1>1. attempts' = [attempts EXCEPT ![r][n] = a]
  BY <1>0 DEF WriteVerdict
<1>2. /\ a.verdict = IF job[w].ok THEN "PASS" ELSE "FAIL"
      /\ a.inputs = attempts[r][n].inputs /\ a.saw = job[w].saw
      /\ a.stage = attempts[r][n].stage
  BY <1>0 DEF AttemptRecord
<1> HIDE DEF a
<1>3. /\ attempts'[r][n] = a
      /\ \A q \in Rows, k \in AttemptNo :
           <<q, k>> # <<r, n>> => attempts'[q][k] = attempts[q][k]
  BY <1>0, <1>1, AttemptUpdate
<1>4. Numbers(r)' = Numbers(r)
  BY <1>0, <1>2, <1>3 DEF Numbers
<1>5. Highest(r)' = Highest(r)
  BY <1>4 DEF Highest, StateOf, NeverRan
<1>6. n \in Numbers(r)
  BY <1>0 DEF OwnInv, AttemptOwned, WriteVerdict, Holding, Numbers
<1>7. Highest(r) = n => StateOf(r)' = <<n, attempts'[r][n].verdict>>
  <2>1. Numbers(r)' # {} /\ (Highest(r) = n => Max(Numbers(r)) = n)
    BY <1>0, <1>4, <1>6, HighestOf
  <2>2. QED
    BY <1>4, <2>1 DEF StateOf
<1>8. QED
  BY <1>0, <1>2, <1>3, <1>5, <1>7

-----------------------------------------------------------------------------
(* The attempt in hand is the latest of its row, it runs under an open gate,  *)
(* and its records say what was read.                                         *)

\* A number the runner chose itself is above all others until its directory
\* is made, and the highest from then on.
Fresh(w) ==
  LET j == job[w] IN
  j.explicit = 0 =>
    /\ j.pc \in {"numbered", "recorded"} => Highest(j.row) < j.num
    /\ j.pc \in Begun => Highest(j.row) = j.num

\* The inputs recorded are the latest attempts still.
Remembered(w) ==
  LET j == job[w] IN
  /\ j.pc \in {"recorded"} \cup Begun => \A o \in Reads(j.row) : j.inputs[o] = StateOf(o)
  /\ j.pc \in Holding => attempts[j.row][j.num].inputs = j.inputs

Gated(w) == job[w].pc \in Admitted => GateOpen(job[w].row)

Sound(w) == Fresh(w) /\ Remembered(w) /\ Gated(w)

AttemptInv == OwnInv /\ AllInTurn /\ \A w \in Workers : Sound(w)

\* The row of an attempt in hand, and what it depends on, as others see it.
LEMMA RowInHand ==
  ASSUME RowInv, AllInTurn, NEW w \in Workers, job[w].pc \in WithRow
  PROVE  job[w].row \in Rows /\ job[w].row \in job[w].scheduled
BY DEF RowInv, InHand, AllInTurn, InTurn

LEMMA SoundBeside ==
  ASSUME WellFormed, AttemptInv, Apart, NEW w \in Workers, InvocationStep(w),
         NEW v \in Workers, v # w
  PROVE  Sound(v)'
<1>0. RowInv /\ AllInTurn /\ Sound(v) /\ job'[v] = job[v]
  BY StepFrame DEF AttemptInv, OwnInv, Frame, RowInv, RowTypeOK
<1>1. CASE job[v].pc \notin WithRow
  BY <1>0, <1>1 DEF Sound, Fresh, Remembered, Gated, WithRow, Begun, Holding, Admitted
<1>2. CASE job[v].pc \in WithRow
  <2>1. PICK r \in Rows : r = job[v].row /\ r \in job[v].scheduled
    BY <1>0, <1>2, RowInHand
  <2>2. \A o \in {r} \cup Dependencies(r) : attempts'[o] = attempts[o]
    BY <1>0, <1>2, <2>1, OthersUndisturbed DEF WithRow
  <2>3. \A o \in {r} \cup Dependencies(r) :
          Highest(o)' = Highest(o) /\ StateOf(o)' = StateOf(o) /\ Verdict(o)' = Verdict(o)
    BY <2>2, SameRow
  <2>4. Needs(r) \cup Reads(r) \subseteq Dependencies(r)
    BY <2>1, EdgesBack
  <2>5. /\ Highest(r)' = Highest(r) /\ attempts'[r] = attempts[r]
        /\ \A o \in Reads(r) : StateOf(o)' = StateOf(o)
        /\ GateOpen(r) => \A o \in Needs(r) : Verdict(o)' = "PASS"
    BY <2>2, <2>3, <2>4 DEF GateOpen
  <2>6. Fresh(v)'
    BY <1>0, <2>1, <2>5 DEF Sound, Fresh
  <2>7. Remembered(v)'
    BY <1>0, <2>1, <2>5 DEF Sound, Remembered
  <2>8. Gated(v)'
    BY <1>0, <2>1, <2>5 DEF Sound, Gated, GateOpen
  <2>9. QED
    BY <2>6, <2>7, <2>8 DEF Sound
<1>3. QED
  BY <1>1, <1>2

LEMMA StepFresh ==
  ASSUME AttemptInv, NEW w \in Workers, InvocationStep(w)
  PROVE  Fresh(w)'
<1>0. /\ OwnInv /\ RowInv /\ Fresh(w) /\ Track(w) /\ Frame(w)
      /\ job \in [Workers -> Invocation] /\ job[w] \in Invocation
  BY StepFrame, StepTrack DEF AttemptInv, Sound, OwnInv, RowInv, RowTypeOK
<1> SUFFICES ASSUME job'[w].explicit = 0, job'[w].pc \in {"numbered", "recorded"} \cup Begun
             PROVE  /\ job'[w].pc \in {"numbered", "recorded"} => Highest(job[w].row)' < job'[w].num
                    /\ job'[w].pc \in Begun => Highest(job[w].row)' = job'[w].num
  BY DEF Fresh
<1>1. PICK r, n : /\ r = job[w].row /\ job'[w].row = r /\ n = job'[w].num
                  /\ job[w].explicit = 0 /\ job'[w].pc \in WithNumber
  BY <1>0 DEF Track, WithNumber, Begun, Holding
<1>2. CASE job'[w].pc = "numbered"
  <2>1. ChooseNumber(w) /\ job[w].pc = "admitted" /\ r \in Rows
    BY <1>0, <1>1, <1>2 DEF Track, ChooseNumber, RowInv, InHand, WithRow
  <2>2. n = NextNumber(r) /\ UNCHANGED attempts
    BY <1>0, <1>1, <1>2, <2>1 DEF ChooseNumber, Return, Invocation
  <2>3. Highest(r) < n
    <3>1. Highest(r) \in Nat
      BY <2>1, HighestOf
    <3>2. Numbers(r) = {} => n = 1 /\ Highest(r) = 0
      BY <2>1, <2>2, HighestOf DEF NextNumber
    <3>3. Numbers(r) # {} => n = Highest(r) + 1
      BY <2>1, <2>2, HighestOf DEF NextNumber
    <3>4. QED
      BY <3>1, <3>2, <3>3
  <2>4. QED
    BY <1>1, <1>2, <2>2, <2>3, SameRow DEF Begun, Holding
<1>3. CASE job'[w].pc = "recorded"
  <2>1. RecordInputs(w) /\ job[w].pc = "numbered" /\ UNCHANGED attempts /\ n = job[w].num
    BY <1>0, <1>1, <1>3 DEF Track, RecordInputs
  <2>2. QED
    BY <1>0, <1>1, <1>3, <2>1, SameRow DEF Fresh, Begun, Holding
<1>4. CASE job'[w].pc = "made"
  <2>1. MakeDirectory(w) /\ job[w].pc = "recorded" /\ n = job[w].num
    BY <1>0, <1>1, <1>4 DEF Track, MakeDirectory, Begun
  <2>2. Highest(r) < n
    BY <1>0, <1>1, <2>1 DEF Fresh
  <2>3. Highest(r)' = n
    BY <1>0, <1>1, <2>1, <2>2, DirectoryMade
  <2>4. QED
    BY <1>1, <1>4, <2>3
<1>5. CASE job'[w].pc \in Holding
  <2>1. job[w].pc \in Begun /\ n = job[w].num
    BY <1>0, <1>1, <1>5 DEF Track, Frame, LinkStart, Begun
  <2>2. LinkStart(w) \/ UNCHANGED attempts
    <3>1. WriteVerdict(w) => job'[w].pc = "returned"
      BY <1>0 DEF WriteVerdict, Return, Invocation
    <3>2. MakeDirectory(w) => job'[w].pc = "made"
      BY <1>0 DEF MakeDirectory, Invocation
    <3>3. QED
      BY <1>0, <1>5, <3>1, <3>2 DEF Frame, Holding
  <2>3. r \in Rows
    BY <1>0, <1>1, <2>1 DEF RowInv, InHand, WithRow, Begun, Holding
  <2>4. Highest(r)' = Highest(r)
    BY <1>0, <2>2, <2>3, StartLinked, SameRow
  <2>5. QED
    BY <1>0, <1>1, <1>5, <2>1, <2>4 DEF Fresh, Holding
<1>6. QED
  BY <1>2, <1>3, <1>4, <1>5 DEF Begun

LEMMA StepGated ==
  ASSUME WellFormed, AttemptInv, NEW w \in Workers, InvocationStep(w)
  PROVE  Gated(w)'
<1>0. RowInv /\ Gated(w) /\ Frame(w)
  BY StepFrame DEF AttemptInv, Sound, OwnInv
<1> SUFFICES ASSUME job'[w].pc \in Admitted PROVE GateOpen(job[w].row)'
  BY DEF Gated
<1>1. PICK r \in Rows : r = job[w].row /\ job'[w].row = r /\ GateOpen(r)
  <2>1. job'[w].row = job[w].row /\ (Admit(w) \/ job[w].pc \in Admitted)
    BY <1>0 DEF Frame
  <2>2. Admit(w) => GateOpen(job[w].row) /\ job[w].pc = "chosen"
    BY DEF Admit
  <2>3. GateOpen(job[w].row) /\ job[w].row \in Rows
    BY <1>0, <2>1, <2>2 DEF Gated, RowInv, InHand, WithRow, Admitted, Holding
  <2>4. QED
    BY <2>1, <2>3
<1>2. \A o \in Needs(r) : o \in Rows /\ o # r
  BY EdgesBack DEF Rows
<1>3. \A o \in Needs(r) : Verdict(o)' = Verdict(o)
  BY <1>0, <1>1, <1>2, StepDisk, SameRow
<1>4. QED
  BY <1>1, <1>3 DEF GateOpen

LEMMA StepRemembered ==
  ASSUME WellFormed, AttemptInv, NEW w \in Workers, InvocationStep(w)
  PROVE  Remembered(w)'
<1>0. /\ OwnInv /\ RowInv /\ Remembered(w) /\ Track(w) /\ Frame(w)
      /\ job \in [Workers -> Invocation] /\ job[w] \in Invocation
  BY StepFrame, StepTrack DEF AttemptInv, Sound, OwnInv, RowInv, RowTypeOK
<1> SUFFICES ASSUME job'[w].pc \in {"recorded"} \cup Begun
             PROVE  /\ \A o \in Reads(job[w].row)' : job'[w].inputs[o] = StateOf(o)'
                    /\ job'[w].pc \in Holding =>
                         attempts'[job'[w].row][job'[w].num].inputs = job'[w].inputs
  BY DEF Remembered, Begun
<1>1. PICK r \in Rows : /\ r = job[w].row /\ job'[w].row = r
                        /\ job[w].pc \in WithNumber /\ job'[w].num = job[w].num
  <2>1. /\ job'[w].pc = "recorded" => job[w].pc = "numbered"
        /\ job'[w].pc = "made" => job[w].pc = "recorded"
        /\ job'[w].pc \in Holding => job[w].pc \in Begun
    BY <1>0 DEF Track, Frame, RecordInputs, MakeDirectory, LinkStart, Begun
  <2>2. job[w].pc \in WithNumber /\ job'[w].pc \in WithNumber
    BY <2>1 DEF WithNumber, Begun, Holding
  <2>3. job[w].row \in Rows
    BY <1>0, <2>2 DEF RowInv, InHand, WithRow, WithNumber
  <2>4. QED
    BY <1>0, <2>2, <2>3 DEF Track
<1>2. \A o \in Reads(r) : StateOf(o)' = StateOf(o)
  <2>1. \A o \in Reads(r) : o \in Rows /\ o # r
    BY EdgesBack DEF Rows
  <2>2. QED
    BY <1>0, <1>1, <2>1, StepDisk, SameRow
<1>3. \A o \in Reads(r) : job'[w].inputs[o] = StateOf(o)
  <2>1. CASE job'[w].pc = "recorded"
    <3>1. job'[w].inputs = InputsOf(r)
      BY <1>0, <1>1, <2>1 DEF Track, RecordInputs, Invocation
    <3>2. \A o \in Reads(r) : o \in Rows
      BY EdgesBack
    <3>3. QED
      BY <3>1, <3>2 DEF InputsOf
  <2>2. CASE job'[w].pc \in Begun
    <3>1. job'[w].inputs = job[w].inputs /\ job[w].pc \in {"recorded"} \cup Begun
      BY <1>0, <2>2 DEF Track, Frame, MakeDirectory, LinkStart, Begun
    <3>2. QED
      BY <1>0, <1>1, <3>1 DEF Remembered
  <2>3. QED
    BY <2>1, <2>2
<1>4. ASSUME job'[w].pc \in Holding
      PROVE  attempts'[r][job[w].num].inputs = job'[w].inputs
  <2>1. job'[w].inputs = job[w].inputs
    BY <1>0, <1>4 DEF Track, Begun
  <2>2. CASE LinkStart(w)
    BY <1>0, <1>1, <2>1, <2>2, StartLinked
  <2>3. CASE ~LinkStart(w)
    <3>1. WriteVerdict(w) => job'[w].pc = "returned"
      BY <1>0 DEF WriteVerdict, Return, Invocation
    <3>2. MakeDirectory(w) => job'[w].pc = "made"
      BY <1>0 DEF MakeDirectory, Invocation
    <3>3. UNCHANGED attempts /\ job[w].pc \in Holding
      BY <1>0, <1>4, <2>3, <3>1, <3>2 DEF Frame, Holding
    <3>4. QED
      BY <1>0, <1>1, <2>1, <3>3 DEF Remembered
  <2>4. QED
    BY <2>2, <2>3
<1>5. QED
  BY <1>1, <1>2, <1>3, <1>4

LEMMA AttemptsSound ==
  ASSUME WellFormed, AttemptInv, Apart, RowNext
  PROVE  AttemptInv'
<1>0. RowInv /\ OwnInv /\ AllInTurn
  BY DEF AttemptInv, OwnInv
<1>1. OwnInv' /\ AllInTurn'
  BY <1>0, OwnKept, TurnsKept
<1>2. CASE Moved
  <2>1. UNCHANGED attempts
    BY <1>2 DEF Moved
  <2>2. \A r : StateOf(r)' = StateOf(r) /\ Highest(r)' = Highest(r) /\ Verdict(r)' = Verdict(r)
    BY <2>1, SameRow
  <2>3. ASSUME NEW w \in Workers PROVE Sound(w)'
    <3>1. CASE job'[w].pc \in WithRow
      <4>1. job'[w] = job[w]
        BY <1>2, <3>1, MovedKeepsOut
      <4>2. QED
        BY <2>1, <2>2, <4>1 DEF AttemptInv, Sound, Fresh, Remembered, Gated, GateOpen
    <3>2. CASE job'[w].pc \notin WithRow
      BY <3>2 DEF Sound, Fresh, Remembered, Gated, WithRow, Begun, Holding, Admitted
    <3>3. QED
      BY <3>1, <3>2
  <2>4. QED
    BY <1>1, <2>3 DEF AttemptInv
<1>3. ASSUME NEW w \in Workers, InvocationStep(w) PROVE AttemptInv'
  <2>1. Sound(w)'
    BY <1>3, StepFresh, StepGated, StepRemembered DEF Sound
  <2>2. \A v \in Workers : v # w => Sound(v)'
    BY <1>3, SoundBeside
  <2>3. QED
    BY <1>1, <2>1, <2>2 DEF AttemptInv
<1>4. CASE OrphanStep
  <2>1. UNCHANGED <<attempts, job>>
    BY <1>0, <1>4, OrphanTyped
  <2>2. \A r : StateOf(r)' = StateOf(r) /\ Highest(r)' = Highest(r) /\ Verdict(r)' = Verdict(r)
    BY <2>1, SameRow
  <2>3. \A w \in Workers : Sound(w)'
    BY <2>1, <2>2 DEF AttemptInv, Sound, Fresh, Remembered, Gated, GateOpen
  <2>4. QED
    BY <1>1, <2>3 DEF AttemptInv
<1>5. QED
  BY <1>2, <1>3, <1>4 DEF RowNext

LEMMA AttemptsStart == RowInit => AttemptInv
<1> SUFFICES ASSUME RowInit PROVE AttemptInv
  OBVIOUS
<1>1. OwnInv /\ AllInTurn
  BY InitTyped, InitOwned, TurnsStart DEF OwnInv
<1>2. \A w \in Workers : Sound(w)
  BY DEF RowInit, Idle, Sound, Fresh, Remembered, Gated, Begun, Holding, Admitted
<1>3. QED
  BY <1>1, <1>2 DEF AttemptInv

\* One process alone is apart from the others.
LEMMA AloneIsApart ==
  ASSUME NEW p, Workers = {p}
  PROVE  Apart
BY DEF Apart

\* One process alone launches a row, and runs it to its verdict, only while
\* every needed row and every earlier pilot stands at PASS.
THEOREM OneProcessRunsOnPass ==
  ASSUME WellFormed, NEW p, Workers = {p}
  PROVE  Spec => []LaunchedOnPass
<1>1. Init => AttemptInv
  BY AttemptsStart DEF Init
<1>2. AttemptInv /\ [Next]_vars => AttemptInv'
  BY AloneIsApart, CampaignMoves, AttemptsSound DEF AttemptInv, OwnInv
<1>3. AttemptInv => LaunchedOnPass
  BY DEF AttemptInv, Sound, Gated, LaunchedOnPass, Admitted
<1>4. QED
  BY <1>1, <1>2, <1>3, PTL DEF Spec

-----------------------------------------------------------------------------
(* What the commands read and wrote, when the runner numbers every attempt    *)
(* itself.                                                                    *)

Automatic == \A w \in Workers : job[w].explicit = 0

\* The version v of row o is on disk, unless a command that was left behind, of
\* an attempt up to n, has written over it.
Still(o, v, n) == content[o] = v \/ LeftBehind(o, content[o], n)

\* What the command read is what is there until its verdict.
Seen(w) ==
  job[w].pc \in {"running", "written", "ended"} =>
    \A o \in Reads(job[w].row) : Still(o, job[w].saw[o], Highest(o))

\* What the command wrote is what is there until its verdict.
Wrote(w) ==
  job[w].pc \in {"running", "written", "ended"} /\ job[w].saw[job[w].row] = job[w].num =>
    Still(job[w].row, job[w].num, job[w].num - 1)

\* No verdict read the attempt in hand or a later one.
Ahead(w) ==
  job[w].pc \in Begun =>
    \A r \in Rows, n \in AttemptNo :
      attempts[r][n].verdict # "NO_VERDICT" /\ job[w].row \in Reads(r) =>
        attempts[r][n].inputs[job[w].row][1] < job[w].num

\* What one verdict says of one input: it read no attempt that is still to
\* come, and if it read the latest, then what the command saw is there now.
ReadNow(r, n, o) ==
  LET k == attempts[r][n].inputs[o][1] IN
  /\ k <= Highest(o)
  /\ k = Highest(o) => Still(o, attempts[r][n].saw[o], k)

JudgedCurrent ==
  \A r \in Rows, n \in AttemptNo :
    attempts[r][n].verdict # "NO_VERDICT" => \A o \in Reads(r) : ReadNow(r, n, o)

PassIsLatest ==
  \A r \in Rows : Verdict(r) = "PASS" /\ WroteOutputs(r) => Still(r, Highest(r), Highest(r) - 1)

Current(w) == Seen(w) /\ Wrote(w) /\ Ahead(w)

CurrentInv ==
  /\ AttemptInv /\ Automatic
  /\ \A w \in Workers : Current(w)
  /\ JudgedCurrent /\ PassIsLatest

\* A verdict that was there before the step stands as it was.
LEMMA JudgedBefore ==
  ASSUME OwnInv, NEW w \in Workers, InvocationStep(w), NEW q \in Rows, NEW k \in AttemptNo,
         attempts'[q][k].verdict # "NO_VERDICT",
         ~(WriteVerdict(w) /\ q = job[w].row /\ k = job[w].num)
  PROVE  /\ attempts[q][k].verdict # "NO_VERDICT"
         /\ attempts'[q][k].verdict = attempts[q][k].verdict
         /\ attempts'[q][k].inputs = attempts[q][k].inputs
         /\ attempts'[q][k].saw = attempts[q][k].saw
<1>0. Frame(w)
  BY StepFrame DEF OwnInv
<1>1. CASE UNCHANGED attempts
  BY <1>1
<1>2. CASE MakeDirectory(w)
  BY <1>2, DirectoryMade
<1>3. CASE LinkStart(w)
  <2>1. attempts[job[w].row][job[w].num].verdict = "NO_VERDICT"
    BY <1>3, StartLinked
  <2>2. \A i \in Rows, j \in AttemptNo : attempts'[i][j].verdict = attempts[i][j].verdict
    BY <1>3, StartLinked
  <2>3. <<q, k>> # <<job[w].row, job[w].num>>
    BY <2>1, <2>2
  <2>4. attempts'[q][k] = attempts[q][k]
    BY <1>3, <2>3, StartLinked
  <2>5. QED
    BY <2>4
<1>4. CASE WriteVerdict(w)
  <2>1. <<q, k>> # <<job[w].row, job[w].num>>
    BY <1>4
  <2>2. attempts'[q][k] = attempts[q][k]
    BY <1>4, <2>1, VerdictWritten
  <2>3. QED
    BY <2>2
<1>5. QED
  BY <1>0, <1>1, <1>2, <1>3, <1>4 DEF Frame

\* A step that leaves the outputs of a row alone leaves the version on disk,
\* except that it may judge an attempt.
LEMMA StillStays ==
  ASSUME OwnInv, NEW w \in Workers, InvocationStep(w), NEW o \in Rows, NEW v,
         NEW n \in 0 .. MaxAttempt, Still(o, v, n), content'[o] = content[o],
         WriteVerdict(w) /\ o = job[w].row => n < job[w].num
  PROVE  \/ content'[o] = v
         \/ content'[o] \in 1 .. n /\ attempts'[o][content'[o]].verdict = "NO_VERDICT"
<1>1. CASE content[o] = v
  BY <1>1
<1>2. CASE LeftBehind(o, content[o], n)
  <2>1. PICK k \in AttemptNo : k = content[o] /\ k <= n /\ attempts[o][k].verdict = "NO_VERDICT"
    BY <1>2 DEF LeftBehind, AttemptNo
  <2>2. ~(WriteVerdict(w) /\ o = job[w].row /\ k = job[w].num)
    BY <2>1 DEF AttemptNo
  <2>3. attempts'[o][k].verdict = "NO_VERDICT"
    BY <2>1, <2>2, JudgedBefore
  <2>4. QED
    BY <2>1, <2>3 DEF AttemptNo
<1>3. QED
  BY <1>1, <1>2 DEF Still

\* A command without a runner belongs to an earlier attempt, or to the latest
\* one when that has no verdict and is in nobody's hand.
LEMMA OrphanNumber ==
  ASSUME OwnInv, NEW o \in Rows, NEW m \in AttemptNo, <<o, m>> \in orphans
  PROVE  /\ m <= Highest(o) /\ attempts[o][m].verdict = "NO_VERDICT"
         /\ \A w \in Workers : ~Holds(w, o, m)
<1>1. /\ attempts[o][m].stage = "started" /\ attempts[o][m].verdict = "NO_VERDICT"
      /\ \A w \in Workers : ~Holds(w, o, m)
  BY DEF OwnInv, OrphansCut, AttemptNo
<1>2. m \in Numbers(o)
  BY <1>1 DEF Numbers
<1>3. QED
  BY <1>1, <1>2, HighestOf

\* What it writes over a row is one more version left behind.
LEMMA OrphanStill ==
  ASSUME OwnInv, OrphanStep, NEW o \in Rows, NEW v, NEW n \in 0 .. MaxAttempt, Still(o, v, n),
         \/ n = Highest(o)
         \/ n = Highest(o) - 1 /\ <<o, Highest(o)>> \notin orphans
  PROVE  \/ content'[o] = v
         \/ content'[o] \in 1 .. n /\ attempts'[o][content'[o]].verdict = "NO_VERDICT"
<1>0. Highest(o) \in 0 .. MaxAttempt
  BY HighestOf
<1>1. PICK r \in Rows, m \in 0 .. MaxAttempt : OrphanWrites(r, m)
  BY DEF OrphanStep
<1>2. UNCHANGED attempts /\ content \in [Rows -> 0 .. MaxAttempt]
  BY <1>1 DEF OrphanWrites, OwnInv, RowInv, RowTypeOK
<1>3. CASE o = r /\ m # 0
  <2>1. m \in AttemptNo /\ <<o, m>> \in orphans /\ content'[o] = m
    BY <1>1, <1>2, <1>3 DEF OrphanWrites, AttemptNo
  <2>2. m <= Highest(o) /\ attempts[o][m].verdict = "NO_VERDICT"
    BY <2>1, OrphanNumber
  <2>3. m <= n
    BY <1>0, <2>1, <2>2 DEF AttemptNo
  <2>4. QED
    BY <1>2, <2>1, <2>2, <2>3 DEF AttemptNo
<1>4. CASE ~(o = r /\ m # 0)
  <2>1. content'[o] = content[o]
    BY <1>1, <1>2, <1>4 DEF OrphanWrites
  <2>2. QED
    BY <1>2, <2>1 DEF Still, LeftBehind
<1>5. QED
  BY <1>3, <1>4

\* The attempt that a worker holds has no verdict and is its row's latest.
LEMMA HeldUnjudged ==
  ASSUME AttemptInv, Automatic, NEW w \in Workers, job[w].pc \in Holding
  PROVE  /\ job[w].row \in Rows /\ Highest(job[w].row) = job[w].num
         /\ Verdict(job[w].row) = "NO_VERDICT"
<1>0. OwnInv /\ RowInv /\ Fresh(w)
  BY DEF AttemptInv, OwnInv, Sound
<1>1. PICK r \in Rows, n \in AttemptNo :
        /\ r = job[w].row /\ n = job[w].num
        /\ attempts[r][n].stage = "started" /\ attempts[r][n].verdict = "NO_VERDICT"
  BY <1>0 DEF OwnInv, AttemptOwned
<1>2. Highest(r) = n
  BY <1>0, <1>1 DEF Fresh, Automatic, Begun
<1>3. n \in Numbers(r)
  BY <1>1 DEF Numbers
<1>4. StateOf(r) = <<n, "NO_VERDICT">>
  BY <1>1, <1>2, <1>3, HighestOf
<1>5. QED
  BY <1>1, <1>2, <1>4 DEF Verdict

LEMMA StepJudged ==
  ASSUME WellFormed, CurrentInv, NEW w \in Workers, InvocationStep(w)
  PROVE  JudgedCurrent'
<1>0. /\ AttemptInv /\ Automatic /\ OwnInv /\ RowInv /\ JudgedCurrent /\ Current(w)
      /\ Sound(w) /\ Frame(w) /\ Track(w)
  BY StepFrame, StepTrack DEF CurrentInv, AttemptInv, OwnInv
<1> SUFFICES ASSUME NEW q \in Rows, NEW k \in AttemptNo,
                    attempts'[q][k].verdict # "NO_VERDICT", NEW o \in Reads(q)
             PROVE  ReadNow(q, k, o)'
  BY DEF JudgedCurrent
<1>1. o \in Rows /\ o # q
  BY EdgesBack DEF Rows
<1>2. CASE WriteVerdict(w) /\ q = job[w].row /\ k = job[w].num
  <2>1. job[w].pc = "ended" /\ UNCHANGED content
    BY <1>2 DEF WriteVerdict
  <2>2. attempts'[q][k].inputs = job[w].inputs /\ attempts'[q][k].saw = job[w].saw
    BY <1>0, <1>2, <2>1, VerdictWritten DEF Sound, Remembered, Holding
  <2>3. job[w].inputs[o] = StateOf(o) /\ Still(o, job[w].saw[o], Highest(o))
    BY <1>0, <1>2, <2>1 DEF Sound, Remembered, Current, Seen, Begun, Holding
  <2>4. Highest(o)' = Highest(o) /\ attempts'[o] = attempts[o]
    BY <1>0, <1>1, <1>2, StepDisk, SameRow
  <2>5. Highest(o) \in 0 .. MaxAttempt
    BY <1>1, HighestOf
  <2>6. attempts'[q][k].inputs[o][1] = Highest(o)'
    BY <2>2, <2>3, <2>4 DEF Highest
  <2>7. Still(o, attempts[q][k].saw[o], Highest(o))'
    BY <2>1, <2>2, <2>3, <2>4 DEF Still, LeftBehind
  <2>8. QED
    BY <2>4, <2>5, <2>6, <2>7 DEF ReadNow
<1>3. CASE ~(WriteVerdict(w) /\ q = job[w].row /\ k = job[w].num)
  <2>1. PICK m \in 0 .. MaxAttempt :
          /\ m = attempts[q][k].inputs[o][1] /\ m <= Highest(o)
          /\ m = Highest(o) => Still(o, attempts[q][k].saw[o], m)
          /\ attempts'[q][k].inputs[o][1] = m
          /\ attempts'[q][k].saw[o] = attempts[q][k].saw[o]
          /\ attempts[q][k].verdict # "NO_VERDICT"
    <3>1. /\ attempts[q][k].verdict # "NO_VERDICT"
          /\ attempts'[q][k].inputs = attempts[q][k].inputs
          /\ attempts'[q][k].saw = attempts[q][k].saw
      BY <1>0, <1>3, JudgedBefore
    <3>2. ReadNow(q, k, o)
      BY <1>0, <3>1 DEF JudgedCurrent
    <3>3. attempts[q][k].inputs[o] \in RowState
      BY <1>0, <1>1 DEF RowInv, RowTypeOK, AttemptRecord
    <3>4. attempts[q][k].inputs[o][1] \in 0 .. MaxAttempt
      BY <3>3 DEF RowState
    <3>5. QED
      BY <3>1, <3>2, <3>4 DEF ReadNow
  <2>2. Highest(o) \in 0 .. MaxAttempt
    BY <1>1, HighestOf
  <2>3. CASE o # job[w].row
    <3>1. /\ Highest(o)' = Highest(o) /\ content'[o] = content[o]
          /\ attempts'[o] = attempts[o]
      BY <1>0, <1>1, <2>3, StepDisk, SameRow
    <3>2. QED
      BY <2>1, <3>1 DEF ReadNow, Still, LeftBehind
  <2>4. CASE o = job[w].row /\ MakeDirectory(w)
    <3>1. job[w].pc = "recorded" /\ Highest(o) < job[w].num
      BY <1>0, <2>4 DEF MakeDirectory, Sound, Fresh, Automatic
    <3>2. Highest(o)' = job[w].num /\ job[w].num \in AttemptNo
      BY <1>0, <2>4, <3>1, DirectoryMade
    <3>3. m < job[w].num /\ m # job[w].num
      BY <2>1, <2>2, <3>1, <3>2 DEF AttemptNo
    <3>4. QED
      BY <2>1, <3>2, <3>3 DEF ReadNow, AttemptNo
  <2>5. CASE o = job[w].row /\ ~MakeDirectory(w)
    <3>1. Highest(o)' = Highest(o)
      BY <1>0, <1>1, <2>5, StartLinked, VerdictWritten, SameRow DEF Frame
    <3>2. CASE CommandWrites(w) \/ WriteVerdict(w)
      <4>1. job[w].pc \in Holding /\ job[w].pc \in Begun
        BY <3>2 DEF CommandWrites, WriteVerdict, Holding, Begun
      <4>2. m < job[w].num
        BY <1>0, <2>1, <2>5, <4>1 DEF Current, Ahead
      <4>3. Highest(o) = job[w].num
        BY <1>0, <2>5, <4>1, HeldUnjudged
      <4>4. QED
        BY <2>1, <2>2, <3>1, <4>2, <4>3 DEF ReadNow
    <3>3. CASE ~CommandWrites(w) /\ ~WriteVerdict(w)
      <4>1. UNCHANGED content
        BY <1>0, <3>3 DEF Track
      <4>2. ASSUME m = Highest(o)
            PROVE  \/ content'[o] = attempts[q][k].saw[o]
                   \/ content'[o] \in 1 .. m /\ attempts'[o][content'[o]].verdict = "NO_VERDICT"
        BY <1>0, <1>1, <2>1, <3>3, <4>1, <4>2, StillStays
      <4>3. QED
        BY <2>1, <3>1, <4>2 DEF ReadNow, Still, LeftBehind
    <3>4. QED
      BY <3>2, <3>3
  <2>6. QED
    BY <2>3, <2>4, <2>5
<1>4. QED
  BY <1>2, <1>3

LEMMA StepPass ==
  ASSUME WellFormed, CurrentInv, NEW w \in Workers, InvocationStep(w)
  PROVE  PassIsLatest'
<1>0. /\ AttemptInv /\ Automatic /\ OwnInv /\ RowInv /\ PassIsLatest /\ Current(w)
      /\ Sound(w) /\ Frame(w) /\ Track(w)
  BY StepFrame, StepTrack DEF CurrentInv, AttemptInv, OwnInv
<1> SUFFICES ASSUME NEW r \in Rows, Verdict(r)' = "PASS", WroteOutputs(r)'
             PROVE  Still(r, Highest(r), Highest(r) - 1)'
  BY DEF PassIsLatest
<1>1. CASE r # job[w].row
  <2>1. /\ Verdict(r)' = Verdict(r) /\ Highest(r)' = Highest(r) /\ StateOf(r)' = StateOf(r)
        /\ content'[r] = content[r] /\ attempts'[r] = attempts[r]
    BY <1>0, <1>1, StepDisk, SameRow
  <2>2. QED
    BY <1>0, <2>1 DEF PassIsLatest, WroteOutputs, Still, LeftBehind
<1>2. CASE r = job[w].row /\ MakeDirectory(w)
  <2>1. Highest(r) < job[w].num
    BY <1>0, <1>2 DEF MakeDirectory, Sound, Fresh, Automatic
  <2>2. StateOf(r)' = <<job[w].num, "NO_VERDICT">>
    BY <1>0, <1>2, <2>1, DirectoryMade
  <2>3. QED
    BY <2>2 DEF Verdict
<1>a. Highest(r) \in 0 .. MaxAttempt /\ (Verdict(r) = "PASS" => Highest(r) \in AttemptNo)
  BY HighestOf, NumbersBounded DEF Verdict, NeverRan
<1>3. CASE r = job[w].row /\ LinkStart(w)
  <2>1. /\ Verdict(r)' = Verdict(r) /\ Highest(r)' = Highest(r) /\ StateOf(r)' = StateOf(r)
        /\ \A k \in AttemptNo : /\ attempts'[r][k].verdict = attempts[r][k].verdict
                                /\ attempts'[r][k].saw = attempts[r][k].saw
    BY <1>0, <1>3, StartLinked
  <2>2. UNCHANGED content
    BY <1>3 DEF LinkStart
  <2>3. WroteOutputs(r)
    BY <1>a, <2>1 DEF WroteOutputs, Highest
  <2>4. Still(r, Highest(r), Highest(r) - 1)
    BY <1>0, <2>1, <2>3 DEF PassIsLatest
  <2>5. QED
    BY <1>a, <2>1, <2>2, <2>4 DEF Still, LeftBehind, AttemptNo
<1>4. CASE r = job[w].row /\ WriteVerdict(w)
  <2>1. job[w].pc = "ended" /\ UNCHANGED content
    BY <1>4 DEF WriteVerdict
  <2>2. Highest(r) = job[w].num
    BY <1>0, <1>4, <2>1, HeldUnjudged DEF Holding
  <2>3. /\ Highest(r)' = job[w].num /\ job[w].num \in AttemptNo
        /\ attempts'[r][job[w].num].saw = job[w].saw
        /\ \A k \in AttemptNo : k # job[w].num => attempts'[r][k] = attempts[r][k]
    BY <1>0, <1>4, <2>2, VerdictWritten
  <2>4. job[w].saw[r] = job[w].num
    BY <2>3 DEF WroteOutputs, Highest
  <2>5. Still(r, job[w].num, job[w].num - 1)
    BY <1>0, <1>4, <2>1, <2>4 DEF Current, Wrote
  <2>6. QED
    BY <2>1, <2>3, <2>5 DEF Still, LeftBehind, AttemptNo
<1>5. CASE r = job[w].row /\ UNCHANGED attempts
  <2>1. Verdict(r)' = Verdict(r) /\ Highest(r)' = Highest(r) /\ StateOf(r)' = StateOf(r)
    BY <1>5, SameRow
  <2>2. ~CommandWrites(w)
    <3>1. CommandWrites(w) => job[w].pc \in Holding
      BY DEF CommandWrites, Holding
    <3>2. job[w].pc \in Holding => Verdict(r) = "NO_VERDICT"
      BY <1>0, <1>5, HeldUnjudged
    <3>3. QED
      BY <2>1, <3>1, <3>2
  <2>3. UNCHANGED content
    BY <1>0, <2>2 DEF Track
  <2>4. QED
    BY <1>0, <1>5, <2>1, <2>3 DEF PassIsLatest, WroteOutputs, Still, LeftBehind
<1>6. QED
  BY <1>0, <1>1, <1>2, <1>3, <1>4, <1>5 DEF Frame

LEMMA StepSeen ==
  ASSUME WellFormed, CurrentInv, NEW w \in Workers, InvocationStep(w)
  PROVE  Seen(w)'
<1>0. /\ RowInv /\ Seen(w) /\ Track(w) /\ job \in [Workers -> Invocation]
      /\ job[w] \in Invocation
  BY StepTrack DEF CurrentInv, AttemptInv, OwnInv, Current, RowInv, RowTypeOK
<1> SUFFICES ASSUME job'[w].pc \in {"running", "written", "ended"}
             PROVE  \A o \in Reads(job[w].row) : Still(o, job[w].saw[o], Highest(o))'
  BY <1>0 DEF Seen, Track, WithNumber, Reads, Needs
<1>1. PICK r \in Rows : /\ r = job[w].row /\ job'[w].row = r
                        /\ job[w].pc \in {"launched", "running", "written"}
  <2>1. job[w].pc \in {"launched", "running", "written"}
    BY <1>0 DEF Track, CommandReads, CommandWrites, CommandEnds
  <2>2. job[w].row \in Rows
    BY <1>0, <2>1 DEF RowInv, InHand, WithRow
  <2>3. QED
    BY <1>0, <2>1, <2>2 DEF Track, WithNumber
<1>2. \A o \in Reads(r) : o \in Rows /\ o # r
  BY EdgesBack DEF Rows
<1>a. \A o \in Reads(r) : /\ content'[o] = content[o] /\ attempts'[o] = attempts[o]
                          /\ Highest(o)' = Highest(o)
  BY <1>0, <1>1, <1>2, StepDisk, SameRow
<1>3. CASE job'[w].pc = "running"
  <2>1. CommandReads(w)
    BY <1>0, <1>3 DEF Track
  <2>2. job'[w].saw = [o \in Rows |-> IF o \in Reads(r) THEN content[o] ELSE 0]
    BY <1>0, <1>1, <2>1 DEF CommandReads, Invocation
  <2>3. QED
    BY <1>1, <1>2, <1>a, <2>2 DEF Still
<1>4. CASE job'[w].pc \in {"written", "ended"}
  <2>1. job[w].pc \in {"running", "written"}
    BY <1>0, <1>4 DEF Track, CommandWrites, CommandEnds
  <2>2. \A o \in Reads(r) : job'[w].saw[o] = job[w].saw[o]
    BY <1>0, <1>1, <1>2, <1>4 DEF Track, Invocation
  <2>3. \A o \in Reads(r) : Still(o, job[w].saw[o], Highest(o))
    BY <1>0, <1>1, <2>1 DEF Seen
  <2>4. QED
    BY <1>1, <1>a, <2>2, <2>3 DEF Still, LeftBehind
<1>5. QED
  BY <1>3, <1>4

LEMMA StepWrote ==
  ASSUME WellFormed, CurrentInv, NEW w \in Workers, InvocationStep(w)
  PROVE  Wrote(w)'
<1>0. /\ RowInv /\ Wrote(w) /\ Track(w) /\ job \in [Workers -> Invocation]
      /\ job[w] \in Invocation /\ content \in [Rows -> 0 .. MaxAttempt]
  BY StepTrack DEF CurrentInv, AttemptInv, OwnInv, Current, RowInv, RowTypeOK
<1> SUFFICES ASSUME job'[w].pc \in {"running", "written", "ended"},
                    job'[w].saw[job'[w].row] = job'[w].num
             PROVE  Still(job[w].row, job[w].num, job[w].num - 1)'
  BY DEF Wrote
<1>1. PICK r \in Rows, n \in AttemptNo :
        /\ r = job[w].row /\ job'[w].row = r /\ n = job[w].num /\ job'[w].num = n
  <2>1. job[w].pc \in {"launched", "running", "written"}
    BY <1>0 DEF Track, CommandReads, CommandWrites, CommandEnds
  <2>2. job[w].row \in Rows /\ job[w].num \in AttemptNo
    BY <1>0, <2>1 DEF RowInv, InHand, WithRow, WithNumber
  <2>3. QED
    BY <1>0, <2>2 DEF Track, WithNumber, Begun, Holding
<1>2. CASE job'[w].pc = "running"
  <2>1. CommandReads(w) /\ r \notin Reads(r)
    BY <1>0, <1>2, EdgesBack DEF Track, Rows
  <2>2. job'[w].saw = [o \in Rows |-> IF o \in Reads(r) THEN content[o] ELSE 0]
    BY <1>0, <1>1, <2>1 DEF CommandReads, Invocation
  <2>3. QED
    BY <1>1, <2>1, <2>2 DEF AttemptNo
<1>3. CASE job'[w].pc = "written"
  <2>1. content' = [content EXCEPT ![r] = n]
    BY <1>0, <1>1, <1>3 DEF Track, CommandWrites
  <2>2. QED
    BY <1>0, <1>1, <2>1 DEF Still
<1>4. CASE job'[w].pc = "ended"
  <2>1. job[w].pc \in {"running", "written"} /\ UNCHANGED <<attempts, content>>
    BY <1>0, <1>4 DEF Track, CommandEnds
  <2>2. job[w].saw[r] = n
    BY <1>0, <1>1, <1>4 DEF Track
  <2>3. Still(r, n, n - 1)
    BY <1>0, <1>1, <2>1, <2>2 DEF Wrote
  <2>4. QED
    BY <1>1, <2>1, <2>3 DEF Still, LeftBehind
<1>5. QED
  BY <1>2, <1>3, <1>4

LEMMA StepAhead ==
  ASSUME WellFormed, CurrentInv, NEW w \in Workers, InvocationStep(w)
  PROVE  Ahead(w)'
<1>0. /\ OwnInv /\ RowInv /\ Ahead(w) /\ Track(w) /\ Frame(w) /\ Fresh(w)
      /\ JudgedCurrent /\ Automatic
      /\ job \in [Workers -> Invocation] /\ job[w] \in Invocation
  BY StepTrack, StepFrame
     DEF CurrentInv, AttemptInv, Sound, OwnInv, Current, RowInv, RowTypeOK
<1> SUFFICES ASSUME job'[w].pc \in Begun, NEW q \in Rows, NEW k \in AttemptNo,
                    attempts'[q][k].verdict # "NO_VERDICT", job'[w].row \in Reads(q)
             PROVE  attempts'[q][k].inputs[job'[w].row][1] < job'[w].num
  BY DEF Ahead, Reads, Needs
<1>1. PICK r \in Rows, n \in AttemptNo :
        /\ r = job[w].row /\ job'[w].row = r /\ n = job[w].num /\ job'[w].num = n
        /\ job[w].pc \in {"recorded"} \cup Begun
  <2>1. job[w].pc \in {"recorded"} \cup Begun
    BY <1>0 DEF Track, Frame, MakeDirectory, LinkStart, Begun
  <2>2. job[w].row \in Rows /\ job[w].num \in AttemptNo
    BY <1>0, <2>1 DEF RowInv, InHand, WithRow, WithNumber, Begun, Holding
  <2>3. QED
    BY <1>0, <2>1, <2>2 DEF Track, WithNumber, Begun, Holding
<1>2. ~WriteVerdict(w)
  <2>1. WriteVerdict(w) => job'[w].pc = "returned"
    BY <1>0 DEF WriteVerdict, Return, Invocation
  <2>2. QED
    BY <2>1 DEF Begun, Holding
<1>3. /\ attempts[q][k].verdict # "NO_VERDICT"
      /\ attempts'[q][k].inputs = attempts[q][k].inputs
  BY <1>0, <1>2, JudgedBefore
<1>4. attempts[q][k].inputs[r][1] < n
  <2>1. CASE job[w].pc = "recorded"
    <3>1. attempts[q][k].inputs[r][1] <= Highest(r)
      BY <1>0, <1>1, <1>3 DEF JudgedCurrent, ReadNow
    <3>2. Highest(r) < n
      BY <1>0, <1>1, <2>1 DEF Fresh, Automatic
    <3>3. attempts[q][k].inputs[r] \in RowState
      BY <1>0 DEF RowInv, RowTypeOK, AttemptRecord
    <3>4. attempts[q][k].inputs[r][1] \in Nat /\ Highest(r) \in Nat /\ n \in Nat
      BY <3>3, HighestOf DEF RowState, AttemptNo
    <3>5. QED
      BY <3>1, <3>2, <3>4
  <2>2. CASE job[w].pc \in Begun
    BY <1>0, <1>1, <1>3, <2>2 DEF Ahead
  <2>3. QED
    BY <1>1, <2>1, <2>2
<1>5. QED
  BY <1>1, <1>3, <1>4

LEMMA CurrentBeside ==
  ASSUME WellFormed, CurrentInv, Apart, NEW w \in Workers, InvocationStep(w),
         NEW v \in Workers, v # w
  PROVE  Current(v)'
<1>0. /\ OwnInv /\ RowInv /\ AllInTurn /\ Current(v) /\ job'[v] = job[v]
  BY StepFrame DEF CurrentInv, AttemptInv, OwnInv, Frame, RowInv, RowTypeOK
<1>1. CASE job[v].pc \notin WithRow
  BY <1>0, <1>1 DEF Current, Seen, Wrote, Ahead, WithRow, Begun, Holding
<1>2. CASE job[v].pc \in WithRow
  <2>1. PICK r \in Rows : r = job[v].row /\ r \in job[v].scheduled
    BY <1>0, <1>2, RowInHand
  <2>2. \A o \in {r} \cup Dependencies(r) :
          content'[o] = content[o] /\ attempts'[o] = attempts[o] /\ Highest(o)' = Highest(o)
    BY <1>0, <1>2, <2>1, OthersUndisturbed, SameRow DEF WithRow
  <2>3. Reads(r) \subseteq Dependencies(r)
    BY <2>1, EdgesBack
  <2>4. Seen(v)'
    <3>1. ASSUME job[v].pc \in {"running", "written", "ended"}, NEW o \in Reads(r)
          PROVE  Still(o, job[v].saw[o], Highest(o))'
      <4>1. Still(o, job[v].saw[o], Highest(o))
        BY <1>0, <2>1, <3>1 DEF Current, Seen
      <4>2. QED
        BY <1>0, <2>2, <2>3, <4>1 DEF Still, LeftBehind
    <3>2. QED
      BY <1>0, <2>1, <3>1 DEF Seen
  <2>5. Wrote(v)'
    BY <1>0, <2>1, <2>2 DEF Current, Wrote, Still, LeftBehind
  <2>6. ASSUME job[v].pc \in Begun, NEW q \in Rows, NEW k \in AttemptNo,
               attempts'[q][k].verdict # "NO_VERDICT", r \in Reads(q)
        PROVE  attempts'[q][k].inputs[r][1] < job[v].num
    <3>1. ~(WriteVerdict(w) /\ q = job[w].row)
      <4>1. WriteVerdict(w) => job[w].pc \in WithRow /\ job[w].pc # "idle"
        BY DEF WriteVerdict, WithRow
      <4>2. WriteVerdict(w) /\ q = job[w].row => q \in job[w].scheduled
        BY <1>0, <4>1, RowInHand
      <4>3. r \in Dependencies(q)
        BY <2>6, EdgesBack
      <4>4. QED
        BY <1>2, <2>1, <4>1, <4>2, <4>3 DEF Apart
    <3>2. /\ attempts[q][k].verdict # "NO_VERDICT"
          /\ attempts'[q][k].inputs = attempts[q][k].inputs
      BY <1>0, <2>6, <3>1, JudgedBefore
    <3>3. QED
      BY <1>0, <2>1, <2>6, <3>2 DEF Current, Ahead
  <2>7. Ahead(v)'
    BY <1>0, <2>1, <2>6 DEF Ahead
  <2>8. QED
    BY <2>4, <2>5, <2>7 DEF Current
<1>3. QED
  BY <1>1, <1>2

\* A command without a runner writes: what it may leave of a version is said
\* in advance.
LEMMA OrphanCurrent ==
  ASSUME CurrentInv, WellFormed, OrphanStep
  PROVE  (\A w \in Workers : Current(w)') /\ JudgedCurrent' /\ PassIsLatest'
<1>0. /\ AttemptInv /\ OwnInv /\ RowInv /\ Automatic /\ UNCHANGED <<attempts, job, orphans>>
      /\ attempts \in [Rows -> [AttemptNo -> AttemptRecord]]
  BY OrphanTyped DEF CurrentInv, AttemptInv, OwnInv, RowInv, RowTypeOK
<1>1. \A r : StateOf(r)' = StateOf(r) /\ Highest(r)' = Highest(r) /\ Verdict(r)' = Verdict(r)
  BY <1>0, SameRow
<1>2. ASSUME NEW w \in Workers PROVE Current(w)'
  <2>1. Current(w)
    BY DEF CurrentInv
  <2>2. Seen(w)'
    <3> SUFFICES ASSUME job[w].pc \in {"running", "written", "ended"}, NEW o \in Reads(job[w].row)
                 PROVE  Still(o, job[w].saw[o], Highest(o))'
      BY <1>0 DEF Seen, Reads, Needs
    <3>1. o \in Rows /\ Highest(o) \in 0 .. MaxAttempt
      BY <1>0, EdgesBack, HighestOf DEF RowInv, InHand, WithRow
    <3>2. Still(o, job[w].saw[o], Highest(o))
      BY <2>1 DEF Current, Seen
    <3>3. QED
      BY <1>0, <1>1, <3>1, <3>2, OrphanStill DEF Still, LeftBehind
  <2>3. Wrote(w)'
    <3> SUFFICES ASSUME job[w].pc \in {"running", "written", "ended"},
                        job[w].saw[job[w].row] = job[w].num
                 PROVE  Still(job[w].row, job[w].num, job[w].num - 1)'
      BY <1>0 DEF Wrote
    <3>1. /\ job[w].row \in Rows /\ job[w].num \in AttemptNo
          /\ Highest(job[w].row) = job[w].num /\ Holds(w, job[w].row, job[w].num)
      BY <1>0, HeldUnjudged DEF RowInv, InHand, WithNumber, Holding, Holds
    <3>2. <<job[w].row, job[w].num>> \notin orphans
      BY <1>0, <3>1, OrphanNumber
    <3>3. Still(job[w].row, job[w].num, job[w].num - 1)
      BY <2>1 DEF Current, Wrote
    <3>4. job[w].num - 1 \in 0 .. MaxAttempt /\ job[w].num - 1 = Highest(job[w].row) - 1
      BY <3>1 DEF AttemptNo
    <3>5. QED
      BY <1>0, <3>1, <3>2, <3>3, <3>4, OrphanStill DEF Still, LeftBehind
  <2>4. Ahead(w)'
    BY <1>0, <2>1 DEF Current, Ahead
  <2>5. QED
    BY <2>2, <2>3, <2>4 DEF Current
<1>3. ASSUME NEW r \in Rows, NEW n \in AttemptNo, attempts[r][n].verdict # "NO_VERDICT",
             NEW o \in Reads(r)
      PROVE  ReadNow(r, n, o)'
  <2>1. ReadNow(r, n, o) /\ o \in Rows /\ Highest(o) \in 0 .. MaxAttempt
    BY <1>3, EdgesBack, HighestOf DEF CurrentInv, JudgedCurrent
  <2>2. QED
    BY <1>0, <1>1, <2>1, OrphanStill DEF ReadNow, Still, LeftBehind
<1>4. ASSUME NEW r \in Rows, Verdict(r) = "PASS", WroteOutputs(r)
      PROVE  Still(r, Highest(r), Highest(r) - 1)'
  <2>1. Still(r, Highest(r), Highest(r) - 1)
    BY <1>4 DEF CurrentInv, PassIsLatest
  <2>2. Highest(r) \in AttemptNo /\ attempts[r][Highest(r)].verdict = "PASS"
    BY <1>4, HighestOf, NumbersBounded DEF Verdict, NeverRan
  <2>3. <<r, Highest(r)>> \notin orphans
    BY <1>0, <2>2, OrphanNumber
  <2>4. Highest(r) - 1 \in 0 .. MaxAttempt
    BY <2>2 DEF AttemptNo
  <2>5. QED
    BY <1>0, <1>1, <2>1, <2>3, <2>4, OrphanStill DEF Still, LeftBehind
<1>5. JudgedCurrent'
  BY <1>0, <1>3 DEF JudgedCurrent, Reads, Needs
<1>6. PassIsLatest'
  BY <1>0, <1>1, <1>4 DEF PassIsLatest, WroteOutputs
<1>7. QED
  BY <1>2, <1>5, <1>6

LEMMA CurrentKept ==
  ASSUME WellFormed, CurrentInv, Apart, RowNext, Automatic'
  PROVE  CurrentInv'
<1>0. AttemptInv' /\ RowInv
  BY AttemptsSound DEF CurrentInv, AttemptInv, OwnInv
<1>1. CASE Moved
  <2>1. UNCHANGED <<attempts, content>>
    BY <1>1 DEF Moved
  <2>2. \A r : StateOf(r)' = StateOf(r) /\ Highest(r)' = Highest(r) /\ Verdict(r)' = Verdict(r)
    BY <2>1, SameRow
  <2>3. JudgedCurrent' /\ PassIsLatest'
    BY <2>1, <2>2
       DEF CurrentInv, JudgedCurrent, ReadNow, PassIsLatest, WroteOutputs, Still, LeftBehind
  <2>4. ASSUME NEW w \in Workers PROVE Current(w)'
    <3>1. CASE job'[w].pc \in WithRow
      <4>1. job'[w] = job[w]
        BY <1>1, <3>1, MovedKeepsOut
      <4>2. QED
        BY <2>1, <2>2, <4>1 DEF CurrentInv, Current, Seen, Wrote, Ahead, Still, LeftBehind
    <3>2. CASE job'[w].pc \notin WithRow
      BY <3>2 DEF Current, Seen, Wrote, Ahead, WithRow, Begun, Holding
    <3>3. QED
      BY <3>1, <3>2
  <2>5. QED
    BY <1>0, <2>3, <2>4 DEF CurrentInv
<1>2. ASSUME NEW w \in Workers, InvocationStep(w) PROVE CurrentInv'
  <2>1. Current(w)'
    BY <1>2, StepSeen, StepWrote, StepAhead DEF Current
  <2>2. \A v \in Workers : v # w => Current(v)'
    BY <1>2, CurrentBeside
  <2>3. JudgedCurrent' /\ PassIsLatest'
    BY <1>2, StepJudged, StepPass
  <2>4. QED
    BY <1>0, <2>1, <2>2, <2>3 DEF CurrentInv
<1>3. CASE OrphanStep
  BY <1>0, <1>3, OrphanCurrent DEF CurrentInv
<1>4. QED
  BY <1>1, <1>2, <1>3 DEF RowNext

LEMMA CurrentStarts == RowInit => CurrentInv
<1> SUFFICES ASSUME RowInit PROVE CurrentInv
  OBVIOUS
<1>1. AttemptInv /\ Automatic /\ \A w \in Workers : Current(w)
  BY AttemptsStart
     DEF RowInit, Idle, Automatic, Current, Seen, Wrote, Ahead, Begun, Holding
<1>2. \A r \in Rows, n \in AttemptNo : attempts[r][n] = Absent
  BY DEF RowInit
<1>3. JudgedCurrent
  BY <1>2 DEF JudgedCurrent, Absent
<1>4. ASSUME NEW r \in Rows PROVE Verdict(r) # "PASS"
  <2>1. Numbers(r) = {}
    BY <1>2 DEF Numbers, Absent
  <2>2. QED
    BY <2>1 DEF Verdict, StateOf, NeverRan
<1>5. QED
  BY <1>1, <1>3, <1>4 DEF CurrentInv, PassIsLatest

LEMMA CurrentOutputs ==
  ASSUME CurrentInv
  PROVE  PassDescribesOutputs
BY DEF CurrentInv, PassIsLatest, PassDescribesOutputs, Still, Highest

LEMMA CurrentInputs ==
  ASSUME WellFormed, CurrentInv
  PROVE  StandingPassIsCurrent
<1> SUFFICES ASSUME NEW r \in Rows, Verdict(r) = "PASS", ~Stale(r), NEW o \in Reads(r)
             PROVE  \/ content[o] = Latest(r).saw[o]
                    \/ LeftBehind(o, content[o], Latest(r).inputs[o][1])
  BY DEF StandingPassIsCurrent
<1>0. RowInv /\ o \in Rows
  BY EdgesBack DEF CurrentInv, AttemptInv, OwnInv
<1>1. Numbers(r) # {}
  BY HighestOf DEF Verdict, NeverRan
<1>2. PICK n \in AttemptNo : n = Max(Numbers(r)) /\ attempts[r][n].verdict = "PASS"
  <2>1. Max(Numbers(r)) \in AttemptNo
    BY <1>1, NumbersBounded
  <2>2. attempts[r][Max(Numbers(r))].verdict = "PASS"
    BY <1>1 DEF Verdict, StateOf
  <2>3. QED
    BY <2>1, <2>2
<1>3. ReadNow(r, n, o)
  BY <1>2 DEF CurrentInv, JudgedCurrent
<1>4. PICK k \in 0 .. MaxAttempt : k = attempts[r][n].inputs[o][1]
  <2>1. attempts[r][n].inputs[o] \in RowState
    BY <1>0 DEF RowInv, RowTypeOK, AttemptRecord
  <2>2. QED
    BY <2>1 DEF RowState
<1>5. StateOf(o) \in {NeverRan, attempts[r][n].inputs[o]}
  BY <1>2 DEF Stale
<1>6. k = Highest(o)
  <2>1. Highest(o) = k \/ Highest(o) = 0
    BY <1>4, <1>5 DEF Highest, NeverRan
  <2>2. k <= Highest(o)
    BY <1>3, <1>4 DEF ReadNow
  <2>3. QED
    BY <2>1, <2>2
<1>7. QED
  BY <1>2, <1>3, <1>4, <1>6 DEF ReadNow, Latest, Still

\* No command line of the campaign names an attempt, so none ever does.
LEMMA CampaignAutomatic ==
  ASSUME ExplicitNumbers = {}, RowInv, Automatic, [Next]_vars
  PROVE  Automatic'
<1>0. job \in [Workers -> Invocation]
  BY DEF RowInv, RowTypeOK
<1>1. ASSUME NEW w \in Workers, NEW cmd, NEW batch, NEW every, NEW rows,
             Invoke(w, cmd, batch, every, 0, rows)
      PROVE  Automatic'
  BY <1>0, <1>1 DEF Invoke, Idle, Automatic
<1>2. ASSUME NEW w \in Workers, Vanish({w}) PROVE Automatic'
  BY <1>0, <1>2 DEF Vanish, Idle, Automatic
<1>3. ASSUME NEW w \in Workers, InvocationStep(w) PROVE Automatic'
  BY <1>0, <1>3, StepFrame, StepTrack DEF Frame, Track, Automatic
<1>4. ASSUME NEW w \in Workers,
             PrepareAll(w) \/ PrepareOne(w) \/ RunAll(w) \/ RunOne(w) \/ Batch(w)
      PROVE  Automatic'
  <2>1. CASE PrepareAll(w)
    BY <1>1, <2>1 DEF PrepareAll
  <2>2. CASE PrepareOne(w)
    BY <1>1, <2>2 DEF PrepareOne
  <2>3. CASE RunAll(w)
    <3>1. PICK kept \in Filters, n \in {0} \cup ExplicitNumbers :
                 Invoke(w, "run", FALSE, TRUE, n, kept)
      BY <2>3 DEF RunAll
    <3>2. n = 0
      OBVIOUS
    <3>3. QED
      BY <1>1, <3>1, <3>2
  <2>4. CASE RunOne(w)
    <3>1. PICK r \in Rows, n \in {0} \cup ExplicitNumbers :
                 Invoke(w, "run", FALSE, FALSE, n, {r})
      BY <2>4 DEF RunOne
    <3>2. n = 0
      OBVIOUS
    <3>3. QED
      BY <1>1, <3>1, <3>2
  <2>5. CASE Batch(w)
    BY <1>1, <2>5 DEF Batch
  <2>6. QED
    BY <1>4, <2>1, <2>2, <2>3, <2>4, <2>5
<1>5. ASSUME NEW w \in Workers, Work(w) \/ Exit(w) \/ Crash(w) PROVE Automatic'
  BY <1>2, <1>3, <1>5 DEF Work, Exit, Crash
<1>6. CASE UNCHANGED vars
  BY <1>6 DEF vars, rowVars, Automatic
<1>7. CASE OrphanStep
  BY <1>7, OrphanTyped DEF Automatic
<1>8. QED
  BY <1>4, <1>5, <1>6, <1>7 DEF Next

LEMMA CampaignCurrent ==
  ASSUME WellFormed, ExplicitNumbers = {}, NEW p, Workers = {p}
  PROVE  Spec => []CurrentInv
<1>1. Init => CurrentInv
  BY CurrentStarts DEF Init
<1>2. CurrentInv /\ [Next]_vars => CurrentInv'
  <2> SUFFICES ASSUME CurrentInv, [Next]_vars PROVE CurrentInv'
    OBVIOUS
  <2>1. RowInv /\ Automatic /\ Apart
    BY AloneIsApart DEF CurrentInv, AttemptInv, OwnInv
  <2>2. RowNext /\ Automatic'
    BY <2>1, CampaignMoves, CampaignAutomatic
  <2>3. QED
    BY <2>1, <2>2, CurrentKept
<1>3. QED
  BY <1>1, <1>2, PTL DEF Spec

\* The outputs of a row whose latest verdict is PASS, given to a command that wrote
\* them, are those of that attempt or of the command that an earlier attempt without
\* a verdict left behind, whatever was killed in the middle before or after it, as
\* long as one process at a time works and the runner numbers the attempts.
THEOREM OneProcessDescribesOutputs ==
  ASSUME WellFormed, ExplicitNumbers = {}, NEW p, Workers = {p}
  PROVE  Spec => []PassDescribesOutputs
BY CampaignCurrent, CurrentOutputs, PTL

\* A PASS that `run --all` would pass over read what its inputs hold now, under
\* the same conditions, unless a command left behind by an attempt without a verdict
\* wrote over them: no retry leaves an old result standing.
THEOREM OneProcessStaysCurrent ==
  ASSUME WellFormed, ExplicitNumbers = {}, NEW p, Workers = {p}
  PROVE  Spec => []StandingPassIsCurrent
BY CampaignCurrent, CurrentInputs, PTL

-----------------------------------------------------------------------------
(* `run --all` that exits 0.                                                  *)

\* A PASS that `run --all` passes over.
Standing(r) == Verdict(r) = "PASS" /\ ~Stale(r)

LEMMA StandingKept ==
  ASSUME NEW r, attempts'[r] = attempts[r], \A o \in Reads(r) : attempts'[o] = attempts[o],
         Standing(r)
  PROVE  Standing(r)'
<1>1. Numbers(r)' = Numbers(r) /\ Verdict(r)' = Verdict(r)
  BY SameRow
<1>2. \A o \in Reads(r) : StateOf(o)' = StateOf(o)
  BY SameRow
<1>3. Stale(r)' <=> Stale(r)
  BY <1>1, <1>2 DEF Stale, Reads, Needs
<1>4. QED
  BY <1>1, <1>3 DEF Standing

\* A step does not touch the rows that its invocation has done, nor what they
\* depend on: the row in hand comes after them.
LEMMA DoneUndisturbed ==
  ASSUME WellFormed, RowInv, AllInTurn, NEW w \in Workers, InvocationStep(w),
         NEW r \in job[w].scheduled \ job[w].todo
  PROVE  /\ r \in Rows
         /\ \A o \in {r} \cup Dependencies(r) : o \in Rows /\ attempts'[o] = attempts[o]
<1>1. r \in Rows
  BY DEF RowInv, RowTypeOK, Invocation
<1>2. \A o \in {r} \cup Dependencies(r) : o \in Rows /\ o <= r
  BY <1>1, EdgesBack DEF Rows
<1>3. CASE job[w].pc \notin WithRow
  BY <1>1, <1>2, <1>3, StepDisk
<1>4. CASE job[w].pc \in WithRow
  <2>1. job[w].row \in Rows /\ r < job[w].row
    BY <1>4, RowInHand DEF AllInTurn, InTurn
  <2>2. \A o \in {r} \cup Dependencies(r) : o # job[w].row
    BY <1>1, <1>2, <2>1 DEF Rows
  <2>3. QED
    BY <1>1, <1>2, <2>2, StepDisk
<1>5. QED
  BY <1>3, <1>4

\* The number e, asked for as --attempt, is not the one that speaks for row r.
Outnumbered(e, r) == e # 0 /\ e < StateOf(r)[1]

\* The row r is settled for an invocation that was given the number e.
Settled(e, r) == Standing(r) \/ Outnumbered(e, r)

LEMMA SettledKept ==
  ASSUME NEW e, NEW r, attempts'[r] = attempts[r],
         \A o \in Reads(r) : attempts'[o] = attempts[o], Settled(e, r)
  PROVE  Settled(e, r)'
BY SameRow, StandingKept DEF Settled, Outnumbered

\* As long as nothing went wrong, the rows done stand at a PASS that read the
\* latest attempts, or have a later attempt than the one asked for.
OkSoFar(w) ==
  LET j == job[w] IN
  j.pc # "idle" /\ j.cmd = "run" /\ j.every =>
    /\ j.first = "OK" => \A r \in j.scheduled \ j.todo : Settled(j.explicit, r)
    /\ j.pc = "returned" /\ j.code = "OK" => Settled(j.explicit, j.row)
    /\ j.pc = "over" /\ j.first = "OK" => j.todo = {}

OkInv == AttemptInv /\ \A w \in Workers : OkSoFar(w)

\* A row that returns OK in `run --all` has just passed on what is there now.
LEMMA ReturnStands ==
  ASSUME WellFormed, OkInv, NEW w \in Workers, InvocationStep(w),
         job'[w].pc = "returned", job'[w].cmd = "run", job'[w].every, job'[w].code = "OK"
  PROVE  Settled(job[w].explicit, job[w].row)' /\ job'[w].row = job[w].row
<1>0. /\ OwnInv /\ RowInv /\ InTurn(w) /\ Sound(w) /\ Turn(w) /\ Track(w)
      /\ job \in [Workers -> Invocation] /\ job[w] \in Invocation
  BY StepTrack, StepTurn DEF OkInv, AttemptInv, OwnInv, AllInTurn, RowInv, RowTypeOK
<1>1. job[w].every /\ job'[w].explicit = job[w].explicit
  BY <1>0 DEF Track
<1>2. ~NothingToPrepare(w)
  <2>1. NothingToPrepare(w) => /\ job[w].pc = "preparing" /\ Requires[job[w].row] = {}
                               /\ job[w].cmd = "run"
    BY <1>0 DEF NothingToPrepare, Return, Invocation
  <2>2. QED
    BY <1>0, <2>1 DEF InTurn, Producible
<1>3. ~RecordPreparation(w)
  <2>1. ASSUME RecordPreparation(w)
        PROVE  \/ job'[w].pc = "chosen"
               \/ job[w].cmd = "prepare" /\ job'[w].cmd = job[w].cmd
               \/ job'[w].code = "FAILED"
    <3>1. \/ job' = [job EXCEPT ![w].pc = "chosen"]
          \/ job[w].cmd = "prepare" /\ Return(w, "OK")
          \/ Return(w, "FAILED")
      BY <2>1 DEF RecordPreparation
    <3>2. QED
      BY <1>0, <3>1 DEF Return, Invocation
  <2>2. QED
    BY <2>1
<1>4. ~Refuse(w) /\ ~Exhausted(w)
  BY <1>0 DEF Refuse, Exhausted, Return, Invocation
<1>5. ~ChooseNumber(w)
  BY <1>0 DEF ChooseNumber, Return, Invocation
<1>6. WriteVerdict(w)
  BY <1>0, <1>2, <1>3, <1>4, <1>5 DEF Turn
<1>7. job[w].pc = "ended" /\ job[w].ok /\ job'[w].row = job[w].row
  BY <1>0, <1>6 DEF WriteVerdict, Return, Invocation
<1>8. PICK r \in Rows, n \in AttemptNo :
        /\ r = job[w].row /\ n = job[w].num
        /\ Highest(r) = n \/ (job[w].explicit = n /\ n < Highest(r))
        /\ \A o \in Reads(r) : attempts[r][n].inputs[o] = StateOf(o)
  <2>1. job[w].row \in Rows /\ job[w].num \in AttemptNo
    BY <1>0, <1>6, VerdictWritten
  <2>2. \/ Highest(job[w].row) = job[w].num
        \/ job[w].explicit = job[w].num /\ job[w].num < Highest(job[w].row)
    <3>1. CASE job[w].explicit = 0
      BY <1>0, <1>7, <3>1 DEF Sound, Fresh, Begun, Holding
    <3>2. CASE job[w].explicit # 0
      <4>1. job[w].explicit = job[w].num
        BY <1>0, <1>7, <3>2 DEF InTurn, WithNumber
      <4>2. job[w].num \in Numbers(job[w].row)
        BY <1>0, <1>7, <2>1 DEF OwnInv, AttemptOwned, Holding, Numbers
      <4>3. job[w].num <= Highest(job[w].row) /\ Highest(job[w].row) \in Nat
        BY <2>1, <4>2, HighestOf
      <4>4. QED
        BY <2>1, <4>1, <4>3 DEF AttemptNo
    <3>3. QED
      BY <3>1, <3>2
  <2>3. \A o \in Reads(job[w].row) :
          attempts[job[w].row][job[w].num].inputs[o] = StateOf(o)
    BY <1>0, <1>7 DEF Sound, Remembered, Begun, Holding
  <2>4. QED
    BY <2>1, <2>2, <2>3
<1>9. CASE job[w].explicit = n /\ n < Highest(r)
  <2>1. Highest(r)' = Highest(r)
    BY <1>0, <1>6, <1>8, VerdictWritten
  <2>2. QED
    BY <1>1, <1>7, <1>8, <1>9, <2>1 DEF Settled, Outnumbered, Highest, AttemptNo
<1>10. CASE Highest(r) = n
  <2>1. /\ StateOf(r)' = <<n, "PASS">> /\ Highest(r)' = n
        /\ attempts'[r][n].inputs = attempts[r][n].inputs
    BY <1>0, <1>6, <1>7, <1>8, <1>10, VerdictWritten
  <2>2. \A o \in Reads(r) : StateOf(o)' = StateOf(o)
    <3>1. \A o \in Reads(r) : o \in Rows /\ o # r
      BY EdgesBack DEF Rows
    <3>2. QED
      BY <1>0, <1>8, <3>1, StepDisk, SameRow
  <2>3. Verdict(r)' = "PASS"
    BY <2>1 DEF Verdict
  <2>4. Max(Numbers(r)') = n
    <3>1. Numbers(r)' # {}
      BY <2>1 DEF StateOf, NeverRan
    <3>2. StateOf(r)' = <<Max(Numbers(r)'), attempts'[r][Max(Numbers(r)')].verdict>>
      BY <3>1 DEF StateOf
    <3>3. QED
      BY <2>1, <3>2
  <2>5. ~Stale(r)'
    <3>1. Reads(r)' = Reads(r)
      BY DEF Reads, Needs
    <3>2. attempts'[r][Max(Numbers(r)')].inputs = attempts[r][n].inputs
      BY <2>1, <2>4
    <3>3. \A o \in Reads(r) : StateOf(o)' = attempts[r][n].inputs[o]
      BY <1>8, <2>2
    <3>4. \A o \in Reads(r)' : StateOf(o)' = attempts'[r][Max(Numbers(r)')].inputs[o]
      BY <3>1, <3>2, <3>3
    <3>5. QED
      BY <3>4 DEF Stale
  <2>6. QED
    BY <1>7, <1>8, <2>3, <2>5 DEF Settled, Standing
<1>11. QED
  BY <1>8, <1>9, <1>10

LEMMA StepOk ==
  ASSUME WellFormed, OkInv, NEW w \in Workers, InvocationStep(w)
  PROVE  OkSoFar(w)'
<1>0. /\ RowInv /\ AllInTurn /\ InTurn(w) /\ OkSoFar(w) /\ Turn(w) /\ Track(w)
      /\ job \in [Workers -> Invocation] /\ job[w] \in Invocation
  BY StepTrack, StepTurn DEF OkInv, AttemptInv, OwnInv, AllInTurn, RowInv, RowTypeOK
<1> DEFINE i == job[w]
           j == job'[w]
<1> SUFFICES ASSUME j.cmd = "run", j.every
             PROVE  /\ j.first = "OK" => \A r \in j.scheduled \ j.todo : Settled(i.explicit, r)'
                    /\ j.pc = "returned" /\ j.code = "OK" =>
                         Settled(i.explicit, i.row)' /\ j.row = i.row
                    /\ j.pc = "over" /\ j.first = "OK" => j.todo = {}
  BY <1>0 DEF OkSoFar, Track, Settled, Outnumbered
<1>a. i.every /\ j.scheduled = i.scheduled /\ j.explicit = i.explicit
  BY <1>0 DEF Track
<1>b. ASSUME i.cmd = "run", i.first = "OK", NEW r \in i.scheduled \ i.todo
      PROVE  Settled(i.explicit, r)'
  <2>1. Settled(i.explicit, r)
    BY <1>0, <1>a, <1>b DEF OkSoFar, Track
  <2>2. attempts'[r] = attempts[r] /\ \A o \in Reads(r) : attempts'[o] = attempts[o]
    BY <1>0, <1>b, DoneUndisturbed, EdgesBack
  <2>3. QED
    <3>1. \A e : Settled(e, r) => Settled(e, r)'
      BY <2>2, SettledKept
    <3>2. QED
      BY <1>a, <2>1, <3>1
<1>1. j.first = "OK" => \A r \in j.scheduled \ j.todo : Settled(i.explicit, r)'
  <2>1. CASE j.todo = i.todo /\ j.first = i.first /\ j.cmd = i.cmd
    BY <1>a, <1>b, <2>1
  <2>2. CASE DeferRow(w)
    BY <1>0, <2>2 DEF DeferRow, Next1, Invocation
  <2>3. CASE SkipRow(w)
    <3>1. /\ i.cmd = "run" /\ j.first = i.first /\ j.todo = i.todo \ {First(w)}
          /\ UNCHANGED attempts /\ Passed(w)
      BY <1>0, <2>3 DEF SkipRow, Next1, Invocation
    <3>2. Settled(i.explicit, First(w))
      BY <3>1 DEF Passed, Standing, Settled
    <3>3. \A r : r = First(w) => Settled(i.explicit, r)'
      <4>1. \A e, r : r = First(w) /\ Settled(e, r) => Settled(e, r)'
        BY <3>1, SettledKept
      <4>2. QED
        BY <1>a, <3>2, <4>1
    <3>4. QED
      BY <1>a, <1>b, <3>1, <3>3
  <2>4. CASE Collect(w)
    <3>1. /\ i.cmd = "run" /\ j.todo = i.todo \ {i.row} /\ UNCHANGED attempts
          /\ i.pc = "returned"
      BY <1>0, <2>4 DEF Collect, Invocation
    <3>2. j.first = "OK" => i.first = "OK" /\ i.code = "OK"
      BY <1>0, <2>4 DEF Collect, Invocation
    <3>3. i.code = "OK" => Settled(i.explicit, i.row)
      BY <1>0, <1>a, <3>1 DEF OkSoFar, Track
    <3>4. \A r : i.code = "OK" /\ r = i.row => Settled(i.explicit, r)'
      <4>1. \A e, r : Settled(e, r) => Settled(e, r)'
        BY <3>1, SettledKept
      <4>2. QED
        BY <1>a, <3>3, <4>1
    <3>5. QED
      BY <1>a, <1>b, <3>1, <3>2, <3>4
  <2>5. CASE LoopEnds(w)
    <3>1. \/ j.todo = j.scheduled
          \/ i.cmd = "run" /\ j.first = i.first /\ j.todo = i.todo
      BY <1>0, <2>5 DEF LoopEnds, Invocation
    <3>2. QED
      BY <1>a, <1>b, <3>1
  <2>6. QED
    BY <1>0, <2>1, <2>2, <2>3, <2>4, <2>5 DEF Turn
<1>2. j.pc = "returned" /\ j.code = "OK" => Settled(i.explicit, i.row)' /\ j.row = i.row
  BY ReturnStands
<1>3. j.pc = "over" /\ j.first = "OK" => j.todo = {}
  <2>1. Collect(w) /\ j.pc = "over" => j.first # "OK"
    BY <1>0 DEF Collect, StopHere, Invocation
  <2>2. LoopEnds(w) /\ j.pc = "over" => j.todo = {}
    BY <1>0 DEF LoopEnds, Invocation
  <2>3. QED
    BY <1>0, <2>1, <2>2 DEF Turn
<1>4. QED
  BY <1>1, <1>2, <1>3

LEMMA OkBeside ==
  ASSUME WellFormed, OkInv, Apart, NEW w \in Workers, InvocationStep(w),
         NEW v \in Workers, v # w
  PROVE  OkSoFar(v)'
<1>0. /\ RowInv /\ AllInTurn /\ OkSoFar(v) /\ job'[v] = job[v]
  BY StepFrame DEF OkInv, AttemptInv, OwnInv, Frame, RowInv, RowTypeOK
<1>1. ASSUME job[v].pc # "idle", NEW r \in job[v].scheduled, Settled(job[v].explicit, r)
      PROVE  Settled(job[v].explicit, r)'
  <2>1. r \in Rows
    BY <1>0 DEF RowInv, RowTypeOK, Invocation
  <2>2. \A o \in {r} \cup Dependencies(r) : attempts'[o] = attempts[o]
    BY <1>0, <1>1, <2>1, OthersUndisturbed
  <2>3. QED
    <3>1. \A e : Settled(e, r) => Settled(e, r)'
      BY <2>1, <2>2, EdgesBack, SettledKept
    <3>2. QED
      BY <1>0, <1>1, <3>1
<1>2. job[v].pc = "returned" => job[v].row \in job[v].scheduled
  BY <1>0, RowInHand DEF WithRow
<1>3. QED
  BY <1>0, <1>1, <1>2 DEF OkSoFar, Settled, Outnumbered

LEMMA OkKept ==
  ASSUME WellFormed, OkInv, Apart, RowNext
  PROVE  OkInv'
<1>0. AttemptInv' /\ RowInv
  BY AttemptsSound DEF OkInv, AttemptInv, OwnInv
<1>1. CASE Moved
  <2>1. UNCHANGED attempts
    BY <1>1 DEF Moved
  <2>2. \A e, r : Settled(e, r) => Settled(e, r)'
    BY <2>1, SettledKept
  <2>3. ASSUME NEW w \in Workers, NewJob(job'[w]) PROVE OkSoFar(w)'
    BY <2>3 DEF NewJob, OkSoFar
  <2>4. ASSUME NEW w \in Workers, job'[w] = job[w] PROVE OkSoFar(w)'
    BY <2>2, <2>4 DEF OkInv, OkSoFar, Settled, Outnumbered
  <2>5. QED
    BY <1>0, <1>1, <2>3, <2>4 DEF Moved, OkInv
<1>2. ASSUME NEW w \in Workers, InvocationStep(w) PROVE OkInv'
  BY <1>0, <1>2, StepOk, OkBeside DEF OkInv
<1>3. CASE OrphanStep
  <2>1. UNCHANGED <<attempts, job>>
    BY <1>0, <1>3, OrphanTyped
  <2>2. \A e, r : Settled(e, r) => Settled(e, r)'
    BY <2>1, SettledKept
  <2>3. ASSUME NEW w \in Workers PROVE OkSoFar(w)'
    BY <2>1, <2>2 DEF OkInv, OkSoFar, Settled, Outnumbered
  <2>4. QED
    BY <1>0, <2>3 DEF OkInv
<1>4. QED
  BY <1>1, <1>2, <1>3 DEF RowNext

LEMMA OkStarts == RowInit => OkInv
BY AttemptsStart DEF RowInit, OkInv, OkSoFar, Idle

\* A process alone whose `run --all`, with or without --attempt, exits 0 leaves
\* every scheduled row at a PASS that read the latest attempts, or with a later
\* attempt than the one it was told to make, for every campaign file whose edges
\* point to earlier rows.
THEOREM OneProcessOkIsCurrent ==
  ASSUME WellFormed, NEW p, Workers = {p}
  PROVE  Spec => []OkMeansCurrent
<1>1. Init => OkInv
  BY OkStarts DEF Init
<1>2. OkInv /\ [Next]_vars => OkInv'
  BY AloneIsApart, CampaignMoves, OkKept DEF OkInv, AttemptInv, OwnInv
<1>3. OkInv => OkMeansCurrent
  BY DEF OkInv, OkSoFar, OkMeansCurrent, AtEndOfRunAll, Settled, Outnumbered, Standing
<1>4. QED
  BY <1>1, <1>2, <1>3, PTL DEF Spec

-----------------------------------------------------------------------------
(* What a failure costs.                                                      *)

\* No row writes a path that an earlier row requires.
WrittenBefore ==
  \A r, q \in Rows : r < q => (CmdWrites[q] \cup PrepWrites[q]) \cap Requires[r] = {}

\* Only the command and the preparation of the row in hand write.
LEMMA StepPaths ==
  ASSUME RowInv, NEW w \in Workers, InvocationStep(w)
  PROVE  \/ UNCHANGED paths
         \/ /\ job[w].pc \in WithRow
            /\ paths' \subseteq paths \cup CmdWrites[job[w].row] \cup PrepWrites[job[w].row]
<1>1. CASE PrepareCommands(w)
  <2>1. PICK wrote \in SUBSET PrepWrites[job[w].row] : paths' = paths \cup wrote
    BY <1>1 DEF PrepareCommands
  <2>2. job[w].pc \in WithRow
    BY <1>1 DEF PrepareCommands, WithRow
  <2>3. QED
    BY <2>1, <2>2
<1>2. CASE CommandWrites(w)
  BY <1>2 DEF CommandWrites, WithRow
<1>3. CASE \/ DeferRow(w) \/ PrepareRow(w) \/ NothingToPrepare(w) \/ RecordPreparation(w)
           \/ PreparationClash(w) \/ SkipRow(w) \/ TakeRow(w) \/ Refuse(w)
  BY <1>3 DEF DeferRow, PrepareRow, NothingToPrepare, RecordPreparation, PreparationClash,
              SkipRow, TakeRow, Refuse
<1>4. CASE \/ Admit(w) \/ Exhausted(w) \/ ChooseNumber(w) \/ RecordInputs(w)
           \/ MakeDirectory(w) \/ LinkStart(w) \/ StartClash(w)
  BY <1>4 DEF Admit, Exhausted, ChooseNumber, RecordInputs, MakeDirectory, LinkStart,
              StartClash
<1>5. CASE \/ CommandReads(w) \/ CommandEnds(w) \/ WriteVerdict(w) \/ Collect(w)
           \/ LoopEnds(w)
  BY <1>5 DEF CommandReads, CommandEnds, WriteVerdict, Collect, LoopEnds
<1>6. QED
  BY <1>1, <1>2, <1>3, <1>4, <1>5 DEF InvocationStep

\* A row of a `run --all` that has had its turn was launched, stands, or is one
\* that the gate, its inputs or the number asked for keep from running.
AccountedFor(w, r) ==
  \/ r \in job[w].tried
  \/ Standing(r)
  \/ ~GateOpen(r) \/ ~Ready(r) \/ FromOrphan(r)
  \/ job[w].explicit \in Numbers(r)

Accounted(w) ==
  LET j == job[w] IN
  /\ j.pc \in Holding => j.row \in j.tried
  /\ j.pc = "prepared" /\ j.row \notin Prepares => j.ok
  /\ j.cmd = "run" /\ j.every =>
       /\ j.first # "EXHAUSTED" => \A r \in j.scheduled \ j.todo : AccountedFor(w, r)
       /\ j.pc = "returned" /\ j.code # "EXHAUSTED" => AccountedFor(w, j.row)
       /\ j.pc = "over" /\ j.todo # {} => j.first = "EXHAUSTED" \/ j.lost \cap Pilots # {}

AccountInv == AttemptInv /\ \A w \in Workers : Accounted(w)

\* A number that the runner chooses itself is free.
LEMMA NextIsFree ==
  ASSUME NEW r \in Rows
  PROVE  NextNumber(r) \notin Numbers(r)
<1>1. CASE Numbers(r) = {}
  BY <1>1
<1>2. CASE Numbers(r) # {}
  <2>1. NextNumber(r) = Highest(r) + 1 /\ Highest(r) \in Nat
    BY <1>2, HighestOf DEF NextNumber
  <2>2. \A n \in Numbers(r) : n <= Highest(r)
    BY HighestOf
  <2>3. QED
    BY <2>1, <2>2
<1>3. QED
  BY <1>1, <1>2

\* Nothing on disk changes for a row and what it depends on, or a command left
\* behind writes its inputs: its account stands.
LEMMA AccountKept ==
  ASSUME WellFormed, NEW w, NEW r \in Rows, AccountedFor(w, r),
         job[w].tried \subseteq job'[w].tried, job'[w].explicit = job[w].explicit,
         orphans \subseteq orphans',
         \A o \in {r} \cup Dependencies(r) : attempts'[o] = attempts[o],
         prep'[r] = prep[r], Requires[r] \cap paths' \subseteq paths \/ FromOrphan(r)
  PROVE  AccountedFor(w, r)'
<1>1. Needs(r) \cup Reads(r) \subseteq Dependencies(r)
  BY EdgesBack
<1>2. Standing(r) => Standing(r)'
  BY <1>1, StandingKept
<1>3. GateOpen(r)' => GateOpen(r)
  <2>1. \A o \in Needs(r) : Verdict(o)' = Verdict(o)
    BY <1>1, SameRow
  <2>2. QED
    BY <2>1 DEF GateOpen, Needs
<1>4. FromOrphan(r) => FromOrphan(r)'
  BY DEF FromOrphan
<1>5. Ready(r)' => Ready(r) \/ FromOrphan(r)
  BY DEF Ready, LatestPrep, Missing
<1>6. job[w].explicit \in Numbers(r) => (job[w].explicit \in Numbers(r))'
  BY SameRow
<1>7. QED
  BY <1>2, <1>3, <1>4, <1>5, <1>6 DEF AccountedFor

LEMMA DoneAccounted ==
  ASSUME WellFormed, WrittenBefore, AccountInv, NEW w \in Workers, InvocationStep(w),
         NEW r \in job[w].scheduled \ job[w].todo, AccountedFor(w, r),
         job[w].tried \subseteq job'[w].tried
  PROVE  AccountedFor(w, r)'
<1>0. RowInv /\ AllInTurn /\ r \in Rows
  BY DoneUndisturbed DEF AccountInv, AttemptInv, OwnInv
<1>1. \A o \in {r} \cup Dependencies(r) : attempts'[o] = attempts[o]
  BY <1>0, DoneUndisturbed
<1>2. job[w].pc \in WithRow => job[w].row \in Rows /\ r < job[w].row
  BY <1>0, RowInHand DEF AllInTurn, InTurn
<1>3. prep'[r] = prep[r]
  <2>1. r # job[w].row \/ job[w].pc \notin WithRow
    BY <1>0, <1>2 DEF Rows
  <2>2. QED
    BY <1>0, <2>1, StepDisk
<1>4. Requires[r] \cap paths' \subseteq paths
  <2>1. job[w].pc \in WithRow =>
          (CmdWrites[job[w].row] \cup PrepWrites[job[w].row]) \cap Requires[r] = {}
    BY <1>0, <1>2 DEF WrittenBefore
  <2>2. QED
    BY <1>0, <2>1, StepPaths
<1>5. job'[w].explicit = job[w].explicit /\ orphans' = orphans
  BY <1>0, StepTrack DEF Track, InvocationStep
<1>6. QED
  BY <1>0, <1>1, <1>3, <1>4, <1>5, AccountKept

\* A row that returns, other than at the end of the allocation, is accounted for.
LEMMA ReturnAccounted ==
  ASSUME WellFormed, AccountInv, NEW w \in Workers, InvocationStep(w),
         job'[w].pc = "returned", job'[w].cmd = "run", job'[w].every,
         job'[w].code # "EXHAUSTED"
  PROVE  AccountedFor(w, job[w].row)' /\ job'[w].row = job[w].row
<1>0. /\ RowInv /\ InTurn(w) /\ Accounted(w) /\ Turn(w) /\ Track(w)
      /\ job \in [Workers -> Invocation] /\ job[w] \in Invocation
      /\ prep \in [Rows -> Seq({"PASS", "FAIL"})]
  BY StepTrack, StepTurn
     DEF AccountInv, AttemptInv, OwnInv, AllInTurn, RowInv, RowTypeOK
<1>1. job[w].every /\ job'[w].explicit = job[w].explicit
  BY <1>0 DEF Track
<1>2. ~NothingToPrepare(w)
  <2>1. NothingToPrepare(w) => /\ job[w].pc = "preparing" /\ Requires[job[w].row] = {}
                               /\ job[w].cmd = "run"
    BY <1>0 DEF NothingToPrepare, Return, Invocation
  <2>2. QED
    BY <1>0, <2>1 DEF InTurn, Producible
<1>3. PICK r \in Rows : r = job[w].row /\ job'[w].row = r
  <2>0. PrepareRow(w) \/ TakeRow(w) => job'[w].pc \in {"preparing", "chosen"}
    BY <1>0 DEF PrepareRow, TakeRow, Invocation
  <2>1. job[w].pc \in WithRow /\ job'[w].row = job[w].row
    BY <1>0, <2>0 DEF Turn, WithRow
  <2>2. QED
    BY <1>0, <2>1 DEF RowInv, InHand
<1>4. CASE RecordPreparation(w)
  <2>1. job[w].pc = "prepared" /\ UNCHANGED paths
    BY <1>4 DEF RecordPreparation
  <2>2. ~(job[w].ok /\ Missing(r) = {})
    <3>1. ASSUME job[w].ok /\ Missing(r) = {} PROVE FALSE
      <4>1. \/ job' = [job EXCEPT ![w].pc = "chosen"]
            \/ job[w].cmd = "prepare" /\ Return(w, "OK")
        BY <1>3, <1>4, <3>1 DEF RecordPreparation
      <4>2. job'[w].pc = "chosen" \/ (job[w].cmd = "prepare" /\ job'[w].cmd = job[w].cmd)
        BY <1>0, <4>1 DEF Return, Invocation
      <4>3. QED
        BY <4>2
    <3>2. QED
      BY <3>1
  <2>3. prep'[r] = Append(prep[r], "FAIL")
    <3>1. prep' = [prep EXCEPT ![r] = Append(@, "FAIL")]
      BY <1>3, <1>4, <2>2 DEF RecordPreparation
    <3>2. QED
      BY <1>0, <3>1
  <2>4. CASE r \in Prepares
    <3>1. prep'[r] # <<>> /\ prep'[r][Len(prep'[r])] = "FAIL"
      <4>1. prep[r] \in Seq({"PASS", "FAIL"})
        BY <1>0
      <4>2. /\ Len(Append(prep[r], "FAIL")) = Len(prep[r]) + 1
            /\ Append(prep[r], "FAIL")[Len(prep[r]) + 1] = "FAIL"
            /\ Append(prep[r], "FAIL") # <<>>
        BY <4>1, AppendProperties
      <4>3. QED
        BY <2>3, <4>2
    <3>2. ~Ready(r)'
      BY <2>4, <3>1 DEF Ready, LatestPrep
    <3>3. QED
      BY <1>3, <3>2 DEF AccountedFor
  <2>5. CASE r \notin Prepares
    <3>1. Missing(r) # {}
      BY <1>0, <1>3, <2>1, <2>2, <2>5 DEF Accounted
    <3>2. ~Ready(r)'
      BY <2>1, <3>1 DEF Ready, Missing
    <3>3. QED
      BY <1>3, <3>2 DEF AccountedFor
  <2>6. QED
    BY <2>4, <2>5
<1>5. CASE Refuse(w)
  <2>1. ~(GateOpen(r) /\ Ready(r)) /\ UNCHANGED <<attempts, prep, paths>>
    BY <1>3, <1>5 DEF Refuse
  <2>2. ~(GateOpen(r)' /\ Ready(r)')
    <3>1. \A o : Verdict(o)' = Verdict(o)
      BY <2>1, SameRow
    <3>2. GateOpen(r)' => GateOpen(r)
      BY <3>1 DEF GateOpen, Needs
    <3>3. Ready(r)' => Ready(r)
      BY <2>1 DEF Ready, LatestPrep, Missing
    <3>4. QED
      BY <2>1, <3>2, <3>3
  <2>3. QED
    BY <1>3, <2>2 DEF AccountedFor
<1>6. CASE Exhausted(w)
  BY <1>0, <1>6 DEF Exhausted, Return, Invocation
<1>7. CASE ChooseNumber(w)
  <2>1. /\ job[w].explicit = 0 => NextNumber(r) \in Numbers(r)
        /\ job[w].explicit # 0 => job[w].explicit \in Numbers(r)
        /\ UNCHANGED attempts
    BY <1>0, <1>3, <1>7 DEF ChooseNumber, Return, Invocation
  <2>2. (job[w].explicit \in Numbers(r))'
    BY <1>1, <2>1, NextIsFree, SameRow
  <2>3. QED
    BY <1>3, <2>2 DEF AccountedFor
<1>8. CASE WriteVerdict(w)
  <2>1. job[w].pc \in Holding /\ job'[w].tried = job[w].tried
    BY <1>0, <1>8 DEF WriteVerdict, Return, Invocation, Holding
  <2>2. QED
    BY <1>0, <1>3, <2>1 DEF Accounted, AccountedFor
<1>9. QED
  BY <1>0, <1>2, <1>4, <1>5, <1>6, <1>7, <1>8, <1>3 DEF Turn

LEMMA StepAccounted ==
  ASSUME WellFormed, WrittenBefore, AccountInv, NEW w \in Workers, InvocationStep(w)
  PROVE  Accounted(w)'
<1>0. /\ RowInv /\ InTurn(w) /\ Accounted(w) /\ Turn(w) /\ Track(w) /\ Frame(w)
      /\ job \in [Workers -> Invocation] /\ job[w] \in Invocation
  BY StepTrack, StepTurn, StepFrame
     DEF AccountInv, AttemptInv, OwnInv, AllInTurn, RowInv, RowTypeOK
<1> DEFINE i == job[w]
           j == job'[w]
<1>a. i.tried \subseteq j.tried
  <2>1. LinkStart(w) => j.tried = i.tried \cup {i.row}
    BY <1>0 DEF LinkStart, Invocation
  <2>2. QED
    BY <1>0, <2>1 DEF Turn
<1>1. j.pc \in Holding => j.row \in j.tried
  <2>1. LinkStart(w) => j.tried = i.tried \cup {i.row}
    BY <1>0 DEF LinkStart, Invocation
  <2>2. QED
    BY <1>0, <1>a, <2>1 DEF Frame, Accounted
<1>2. j.pc = "prepared" /\ j.row \notin Prepares => j.ok
  <2> SUFFICES ASSUME j.pc = "prepared", j.row \notin Prepares PROVE j.ok
    OBVIOUS
  <2>1. PrepareCommands(w)
    BY <1>0 DEF Turn
  <2>2. PICK ok \in (IF i.row \in Prepares THEN BOOLEAN ELSE {TRUE}),
             wrote \in SUBSET PrepWrites[i.row] :
          job' = [job EXCEPT ![w].pc = "prepared", ![w].ok = ok,
                             ![w].clean = @ /\ ok /\ wrote = PrepWrites[i.row]]
    BY <2>1 DEF PrepareCommands
  <2>3. j.row = i.row /\ j.ok = ok
    BY <1>0, <2>2 DEF Invocation
  <2>4. QED
    BY <2>2, <2>3
<1>b. /\ i.every = j.every /\ j.scheduled = i.scheduled /\ j.explicit = i.explicit
      /\ orphans' = orphans
  BY <1>0 DEF Track, InvocationStep
<1>c. ASSUME i.cmd = "run", i.every, i.first # "EXHAUSTED",
             NEW r \in i.scheduled \ i.todo
      PROVE  AccountedFor(w, r)'
  <2>1. AccountedFor(w, r)
    BY <1>0, <1>c DEF Accounted
  <2>2. QED
    BY <1>a, <1>c, <2>1, DoneAccounted
<1>3. ASSUME j.cmd = "run", j.every, j.first # "EXHAUSTED"
      PROVE  \A r \in j.scheduled \ j.todo : AccountedFor(w, r)'
  <2>1. CASE j.todo = i.todo /\ j.first = i.first /\ j.cmd = i.cmd
    BY <1>b, <1>c, <1>3, <2>1
  <2>2. CASE DeferRow(w)
    BY <1>0, <1>3, <2>2 DEF DeferRow, Next1, Invocation
  <2>3. CASE SkipRow(w)
    <3>1. /\ i.cmd = "run" /\ j.first = i.first /\ j.todo = i.todo \ {First(w)}
          /\ UNCHANGED attempts /\ Passed(w)
      BY <1>0, <2>3 DEF SkipRow, Next1, Invocation
    <3>2. Standing(First(w))
      BY <3>1 DEF Passed, Standing
    <3>3. \A r : r = First(w) => AccountedFor(w, r)'
      BY <3>1, <3>2, StandingKept DEF AccountedFor
    <3>4. QED
      BY <1>b, <1>c, <1>3, <3>1, <3>3
  <2>4. CASE Collect(w)
    <3>0. j.cmd = i.cmd /\ j.todo = i.todo \ {i.row} /\ j.tried = i.tried
      BY <1>0, <2>4 DEF Collect, Invocation
    <3>1. /\ i.cmd = "run" /\ j.todo = i.todo \ {i.row} /\ i.pc = "returned"
          /\ UNCHANGED <<attempts, prep, paths>> /\ j.tried = i.tried
      BY <1>3, <2>4, <3>0 DEF Collect
    <3>2. i.first # "EXHAUSTED" /\ i.code # "EXHAUSTED"
      BY <1>0, <1>3, <2>4 DEF Collect, Invocation
    <3>3. AccountedFor(w, i.row) /\ i.row \in Rows
      BY <1>0, <1>b, <1>3, <3>1, <3>2 DEF Accounted, RowInv, InHand, WithRow
    <3>4. \A r : r = i.row => AccountedFor(w, r)'
      BY <1>b, <3>1, <3>3, AccountKept
    <3>5. QED
      BY <1>b, <1>c, <1>3, <3>1, <3>2, <3>4
  <2>5. CASE LoopEnds(w)
    <3>1. \/ j.todo = j.scheduled
          \/ i.cmd = "run" /\ j.first = i.first /\ j.todo = i.todo
      BY <1>0, <1>3, <2>5 DEF LoopEnds, Invocation
    <3>2. QED
      BY <1>b, <1>c, <1>3, <3>1
  <2>6. QED
    BY <1>0, <2>1, <2>2, <2>3, <2>4, <2>5 DEF Turn
<1>4. ASSUME j.cmd = "run", j.every, j.pc = "returned", j.code # "EXHAUSTED"
      PROVE  AccountedFor(w, i.row)' /\ j.row = i.row
  BY <1>4, ReturnAccounted DEF AccountInv
<1>5. ASSUME j.cmd = "run", j.every, j.pc = "over", j.todo # {}
      PROVE  j.first = "EXHAUSTED" \/ j.lost \cap Pilots # {}
  <2>1. Collect(w)
    <3>1. LoopEnds(w) => j.todo = {}
      BY <1>0, <1>5 DEF LoopEnds, Invocation
    <3>2. QED
      BY <1>0, <1>5, <3>1 DEF Turn
  <2>2. StopHere(i) /\ i.every
    BY <1>0, <1>5, <2>1 DEF Collect, Invocation
  <2>3. i.code = "EXHAUSTED" => j.first = "EXHAUSTED"
    BY <1>0, <2>1 DEF Collect, Invocation
  <2>4. i.code # "OK" => i.row \in j.lost
    BY <1>0, <2>1 DEF Collect, Invocation
  <2>5. QED
    BY <2>2, <2>3, <2>4 DEF StopHere
<1>6. j.cmd = "run" /\ j.every =>
        /\ j.first # "EXHAUSTED" => \A r \in j.scheduled \ j.todo : AccountedFor(w, r)'
        /\ j.pc = "returned" /\ j.code # "EXHAUSTED" => AccountedFor(w, i.row)' /\ j.row = i.row
        /\ j.pc = "over" /\ j.todo # {} => j.first = "EXHAUSTED" \/ j.lost \cap Pilots # {}
  BY <1>3, <1>4, <1>5
<1>7. QED
  BY ONLY <1>1, <1>2, <1>6 DEF Accounted

LEMMA AccountsKept ==
  ASSUME WellFormed, WrittenBefore, NEW p, Workers = {p}, AccountInv, RowNext
  PROVE  AccountInv'
<1>0. AttemptInv'
  BY AloneIsApart, AttemptsSound DEF AccountInv
<1>1. CASE Moved
  <2>1. UNCHANGED <<attempts, prep, paths>>
    BY <1>1 DEF Moved
  <2>2. \A r : /\ Standing(r) => Standing(r)'
               /\ GateOpen(r)' => GateOpen(r)
               /\ Ready(r)' => Ready(r)
               /\ FromOrphan(r) => FromOrphan(r)'
               /\ Numbers(r)' = Numbers(r)
    <3>1. \A o : Verdict(o)' = Verdict(o) /\ Numbers(o)' = Numbers(o)
      BY <2>1, SameRow
    <3>2. orphans \subseteq orphans'
      BY <1>1 DEF Moved
    <3>3. \A r : FromOrphan(r) => FromOrphan(r)'
      BY <3>2 DEF FromOrphan
    <3>4. QED
      BY <2>1, <3>1, <3>3, StandingKept DEF GateOpen, Needs, Ready, LatestPrep, Missing
  <2>3. ASSUME NEW w \in Workers, NewJob(job'[w]) PROVE Accounted(w)'
    BY <2>3 DEF NewJob, Accounted, Holding
  <2>4. ASSUME NEW w \in Workers, job'[w] = job[w] PROVE Accounted(w)'
    <3>1. \A r : AccountedFor(w, r) => AccountedFor(w, r)'
      BY <2>2, <2>4 DEF AccountedFor
    <3>2. QED
      BY <2>4, <3>1 DEF AccountInv, Accounted
  <2>5. QED
    BY <1>0, <1>1, <2>3, <2>4 DEF Moved, AccountInv
<1>2. ASSUME NEW w \in Workers, InvocationStep(w) PROVE AccountInv'
  BY <1>0, <1>2, StepAccounted DEF AccountInv
<1>3. CASE OrphanStep
  <2>1. RowInv /\ UNCHANGED <<attempts, prep, job, orphans>>
    BY <1>3, OrphanTyped DEF AccountInv, AttemptInv, OwnInv
  <2>2. \A r \in Rows : Requires[r] \cap paths' \subseteq paths \/ FromOrphan(r)
    <3>1. PICK o \in Rows, n \in 0 .. MaxAttempt : OrphanWrites(o, n)
      BY <1>3 DEF OrphanStep
    <3>2. <<o, n>> \in orphans /\ paths' \subseteq paths \cup CmdWrites[o] \cup PrepWrites[o]
      BY <3>1 DEF OrphanWrites
    <3>3. QED
      BY <3>2 DEF FromOrphan
  <2>3. \A w, r : r \in Rows /\ AccountedFor(w, r) => AccountedFor(w, r)'
    BY <2>1, <2>2, AccountKept
  <2>4. ASSUME NEW w \in Workers PROVE Accounted(w)'
    <3>1. job[w].scheduled \subseteq Rows /\ (job[w].pc = "returned" => job[w].row \in Rows)
      BY <2>1 DEF RowInv, RowTypeOK, InHand, WithRow, Invocation
    <3>2. QED
      BY <2>1, <2>3, <3>1 DEF AccountInv, Accounted
  <2>5. QED
    BY <1>0, <2>4 DEF AccountInv
<1>4. QED
  BY <1>1, <1>2, <1>3 DEF RowNext

LEMMA AccountsStart == RowInit => AccountInv
BY AttemptsStart DEF RowInit, AccountInv, Accounted, Idle, Holding

\* A failure costs only the rows that need it: a `run --all` of a process alone
\* that no lost pilot and no ending allocation has stopped has launched every
\* scheduled row, but for those that stand, whose gate is shut, whose inputs are
\* missing or come from a command left behind, or that have the number asked for
\* as --attempt.  The file must not write a path behind the row that requires it.
THEOREM OneProcessLosesDependents ==
  ASSUME WellFormed, WrittenBefore, NEW p, Workers = {p}
  PROVE  Spec => []OnlyDependentsLost
<1>1. Init => AccountInv
  BY AccountsStart DEF Init
<1>2. AccountInv /\ [Next]_vars => AccountInv'
  BY CampaignMoves, AccountsKept DEF AccountInv, AttemptInv, OwnInv
<1>3. AccountInv => OnlyDependentsLost
  <2> SUFFICES ASSUME AccountInv, NEW w \in Workers, AtEndOfRunAll(w),
                      ~(job[w].todo # {} /\ job[w].lost \cap Pilots # {}),
                      job[w].first # "EXHAUSTED"
               PROVE  \A r \in job[w].scheduled :
                        AccountedFor(w, r)
    BY DEF OnlyDependentsLost, Standing, AccountedFor
  <2>1. Accounted(w)
    BY DEF AccountInv
  <2>2. job[w].todo = {}
    BY <2>1 DEF Accounted, AtEndOfRunAll
  <2>3. QED
    BY <2>1, <2>2 DEF Accounted, AtEndOfRunAll
<1>4. QED
  BY <1>1, <1>2, <1>3, PTL DEF Spec

-----------------------------------------------------------------------------
(* A batch in which nothing fails.                                            *)

\* Where each required path comes from: nobody writes it, the row's own
\* preparation does, the command of an earlier row, or the preparation of an
\* earlier row that waits for no command.
Supplied ==
  \A r \in Rows, p \in Paths : p \in Requires[r] =>
    \/ \A o \in Rows : p \notin CmdWrites[o] \cup PrepWrites[o]
    \/ p \in PrepWrites[r]
    \/ \E o \in 1 .. (r - 1) : \/ p \in CmdWrites[o]
                               \/ p \in PrepWrites[o] /\ Producible(o) = {}

GivenPaths ==
  \A p \in Paths : (\A r \in Rows : p \notin CmdWrites[r] \cup PrepWrites[r]) => p \in paths

\* A command that wrote its outputs left the paths they are in.
PassedWrote ==
  \A r \in Rows, n \in AttemptNo :
    attempts[r][n].verdict = "PASS" /\ attempts[r][n].saw[r] = n => CmdWrites[r] \subseteq paths

WroteOut(w) ==
  LET j == job[w] IN
  j.pc \in {"running", "written", "ended"} /\ j.saw[j.row] = j.num =>
    CmdWrites[j.row] \subseteq paths

\* Every row done that passed, passed for a command that wrote its outputs.
Spoken(w) ==
  job[w].cmd = "run" =>
    \A r \in Rows \ job[w].todo : Verdict(r) = "PASS" => WroteOutputs(r)

\* What the preparations of a batch leave behind for a row: done, if the row
\* waits for no command, and in any case only outputs of commands missing.
Provided(r) ==
  /\ Producible(r) = {} => /\ r \in Prepares => LatestPrep(r) = "PASS"
                           /\ PrepWrites[r] \subseteq paths
  /\ Missing(r) \subseteq Producible(r)

CleanSoFar(w) ==
  LET j == job[w] IN
  j.batch /\ j.clean /\ j.scheduled = Rows /\ Spoken(w) =>
    /\ j.pc \in {"prepared", "ended"} => j.ok
    /\ j.pc = "prepared" => PrepWrites[j.row] \subseteq paths
    /\ j.cmd = "prepare" => /\ \A r \in Rows \ j.todo : Provided(r)
                            /\ j.pc = "returned" => Provided(j.row)
    /\ j.cmd = "run" => /\ \A r \in Rows : Provided(r)
                        /\ \A r \in Rows \ j.todo : Verdict(r) = "PASS"
                        /\ j.first = "OK"
                        /\ j.pc = "chosen" => Ready(j.row)
                        /\ j.pc = "returned" => j.code = "OK" /\ Verdict(j.row) = "PASS"

Written == GivenPaths /\ PassedWrote /\ \A w \in Workers : WroteOut(w)

BatchInv == AttemptInv /\ Written /\ \A w \in Workers : CleanSoFar(w)

LEMMA WrittenKept ==
  ASSUME WellFormed, OwnInv, Written, RowNext
  PROVE  Written'
<1>0. RowInv
  BY DEF OwnInv
<1>1. CASE Moved
  <2>1. UNCHANGED <<attempts, paths>>
    BY <1>1 DEF Moved
  <2>2. GivenPaths' /\ PassedWrote'
    BY <2>1 DEF Written, GivenPaths, PassedWrote
  <2>3. ASSUME NEW w \in Workers PROVE WroteOut(w)'
    <3>1. CASE job'[w].pc \in WithRow
      BY <1>1, <2>1, <3>1, MovedKeepsOut DEF Written, WroteOut
    <3>2. CASE job'[w].pc \notin WithRow
      BY <3>2 DEF WroteOut, WithRow
    <3>3. QED
      BY <3>1, <3>2
  <2>4. QED
    BY <2>2, <2>3 DEF Written
<1>2. ASSUME NEW w \in Workers, InvocationStep(w) PROVE Written'
  <2>0. /\ Frame(w) /\ Track(w) /\ paths \subseteq paths'
        /\ job \in [Workers -> Invocation] /\ job[w] \in Invocation
    BY <1>0, <1>2, StepFrame, StepTrack DEF Frame, RowInv, RowTypeOK
  <2>1. GivenPaths'
    BY <2>0 DEF Written, GivenPaths
  <2>2. ASSUME NEW r \in Rows, NEW n \in AttemptNo, attempts'[r][n].verdict = "PASS",
               attempts'[r][n].saw[r] = n
        PROVE  CmdWrites[r] \subseteq paths'
    <3>1. CASE WriteVerdict(w) /\ r = job[w].row /\ n = job[w].num
      <4>1. job[w].pc = "ended"
        BY <3>1 DEF WriteVerdict
      <4>2. job[w].saw[r] = n
        BY <2>2, <3>1, VerdictWritten
      <4>3. CmdWrites[r] \subseteq paths
        BY <3>1, <4>1, <4>2 DEF Written, WroteOut
      <4>4. QED
        BY <2>0, <4>3
    <3>2. CASE ~(WriteVerdict(w) /\ r = job[w].row /\ n = job[w].num)
      <4>1. /\ attempts'[r][n].verdict = attempts[r][n].verdict
            /\ attempts'[r][n].saw = attempts[r][n].saw
        BY <1>2, <2>2, <3>2, JudgedBefore
      <4>2. CmdWrites[r] \subseteq paths
        BY <2>2, <4>1 DEF Written, PassedWrote
      <4>3. QED
        BY <2>0, <4>2
    <3>3. QED
      BY <3>1, <3>2
  <2>3. WroteOut(w)'
    <3>0. job'[w].pc \in {"running", "written", "ended"} => job'[w].row = job[w].row
      BY <2>0 DEF Track, WithNumber
    <3>1. ASSUME job'[w].pc = "running" PROVE job'[w].saw[job'[w].row] # job'[w].num
      <4>1. CommandReads(w) /\ job[w].pc = "launched"
        BY <2>0, <3>1 DEF Track, CommandReads
      <4>2. job[w].row \in Rows /\ job[w].num \in AttemptNo
        BY <1>0, <4>1 DEF RowInv, InHand, WithRow, WithNumber
      <4>3. job[w].row \notin Reads(job[w].row)
        BY <4>2, EdgesBack DEF Rows
      <4>4. job'[w].saw[job[w].row] = 0 /\ job'[w].num = job[w].num
        BY <2>0, <4>1, <4>2, <4>3 DEF CommandReads, Invocation
      <4>5. QED
        BY <3>0, <3>1, <4>2, <4>4 DEF AttemptNo
    <3>2. ASSUME job'[w].pc = "written" PROVE CmdWrites[job'[w].row] \subseteq paths'
      <4>1. CommandWrites(w)
        BY <2>0, <3>2 DEF Track
      <4>2. QED
        BY <3>0, <3>2, <4>1 DEF CommandWrites
    <3>3. ASSUME job'[w].pc = "ended", job'[w].saw[job'[w].row] = job'[w].num
          PROVE  CmdWrites[job'[w].row] \subseteq paths'
      <4>1. CommandEnds(w) /\ job'[w].saw = job[w].saw /\ job'[w].num = job[w].num
        BY <2>0, <3>3 DEF Track, Begun, Holding
      <4>2. job[w].pc \in {"running", "written"}
        BY <4>1 DEF CommandEnds
      <4>3. QED
        BY <2>0, <3>0, <3>3, <4>1, <4>2 DEF Written, WroteOut
    <3>4. QED
      BY <3>1, <3>2, <3>3 DEF WroteOut
  <2>4. ASSUME NEW v \in Workers, v # w PROVE WroteOut(v)'
    <3>1. job'[v] = job[v]
      BY <2>0, <2>4 DEF Frame
    <3>2. QED
      BY <2>0, <3>1 DEF Written, WroteOut
  <2>5. QED
    BY <2>1, <2>2, <2>3, <2>4 DEF Written, PassedWrote
<1>3. CASE OrphanStep
  <2>1. UNCHANGED <<attempts, job>> /\ paths \subseteq paths'
    BY <1>0, <1>3, OrphanTyped
  <2>2. QED
    BY <2>1 DEF Written, GivenPaths, PassedWrote, WroteOut
<1>4. QED
  BY <1>1, <1>2, <1>3 DEF RowNext

\* Once its own preparation has run, after those of the rows before it, a row
\* misses nothing but the outputs of commands.
LEMMA OnlyOutputsMissing ==
  ASSUME Supplied, GivenPaths, NEW r \in Rows, PrepWrites[r] \subseteq paths,
         \A o \in 1 .. (r - 1) : Producible(o) = {} => PrepWrites[o] \subseteq paths
  PROVE  Missing(r) \subseteq Producible(r)
<1> SUFFICES ASSUME NEW m \in Requires[r], m \notin paths PROVE m \in Producible(r)
  BY DEF Missing
<1>1. m \in Paths
  OBVIOUS
<1>2. PICK o \in 1 .. (r - 1) : m \in CmdWrites[o] \/ (m \in PrepWrites[o] /\ Producible(o) = {})
  BY <1>1 DEF Supplied, GivenPaths
<1>3. m \in CmdWrites[o]
  BY <1>2
<1>4. QED
  BY <1>2, <1>3 DEF Producible

\* Behind rows that all passed, and wrote their outputs, a provided row misses
\* nothing at an open gate.
LEMMA NothingMissing ==
  ASSUME WellFormed, PassedWrote, NEW r \in Rows, Provided(r),
         \A o \in 1 .. (r - 1) : Verdict(o) = "PASS" /\ WroteOutputs(o)
  PROVE  Missing(r) = {} /\ GateOpen(r)
<1>1. \A o \in 1 .. (r - 1) : o \in Rows
  BY DEF Rows
<1>2. ASSUME NEW o \in 1 .. (r - 1) PROVE CmdWrites[o] \subseteq paths
  <2>1. Numbers(o) # {}
    BY <1>1, HighestOf DEF Verdict, NeverRan
  <2>2. Highest(o) \in Numbers(o) /\ attempts[o][Highest(o)].verdict = "PASS"
    BY <1>1, <2>1, HighestOf DEF Verdict
  <2>3. attempts[o][Highest(o)].saw[o] = Highest(o)
    BY DEF WroteOutputs, Highest
  <2>4. QED
    BY <1>1, <2>2, <2>3 DEF PassedWrote, Numbers
<1>3. Missing(r) = {}
  <2>1. ASSUME NEW m \in Missing(r) PROVE FALSE
    <3>1. m \in Producible(r) /\ m \notin paths
      BY <2>1 DEF Provided, Missing
    <3>2. PICK o \in 1 .. (r - 1) : m \in CmdWrites[o]
      BY <3>1 DEF Producible
    <3>3. QED
      BY <1>2, <3>1, <3>2
  <2>2. QED
    BY <2>1
<1>4. GateOpen(r)
  <2>1. \A o \in Needs(r) : o \in 1 .. (r - 1)
    BY EdgesBack DEF Rows
  <2>2. QED
    BY <2>1 DEF GateOpen
<1>5. QED
  BY <1>3, <1>4

LEMMA ProvidedKept ==
  ASSUME NEW r, Provided(r), paths \subseteq paths',
         prep'[r] = prep[r] \/ Producible(r) # {}
  PROVE  Provided(r)'
BY DEF Provided, LatestPrep, Missing, Producible

\* The rows before the least one left are done.
LEMMA EarlierDone ==
  ASSUME NEW w \in Workers, job[w].scheduled = Rows, NEW r \in Rows,
         \A q \in job[w].todo : r <= q
  PROVE  \A o \in 1 .. (r - 1) : o \in Rows \ job[w].todo
<1>1. \A o \in 1 .. (r - 1) : o \in Rows /\ ~(r <= o)
  BY DEF Rows
<1>2. QED
  BY <1>1

\* A preparation that ends in a clean batch leaves its row provided.
LEMMA PreparationProvides ==
  ASSUME WellFormed, Supplied, BatchInv, NEW w \in Workers, InvocationStep(w),
         job[w].batch, job[w].clean, job[w].scheduled = Rows, job'[w].cmd = "prepare",
         job'[w].pc = "returned"
  PROVE  Provided(job[w].row)' /\ job'[w].row = job[w].row
<1>0. /\ RowInv /\ InTurn(w) /\ CleanSoFar(w) /\ Written /\ Turn(w) /\ Track(w) /\ Frame(w)
      /\ job \in [Workers -> Invocation] /\ job[w] \in Invocation
      /\ prep \in [Rows -> Seq({"PASS", "FAIL"})]
  BY StepTrack, StepTurn, StepFrame
     DEF BatchInv, AttemptInv, OwnInv, AllInTurn, RowInv, RowTypeOK
<1>1. job[w].cmd = "prepare" /\ Spoken(w)
  BY <1>0 DEF Turn, Spoken
<1>2. job[w].pc \notin {"chosen"} \cup Admitted
  BY <1>0, <1>1 DEF InTurn
<1>3. NothingToPrepare(w) \/ RecordPreparation(w)
  BY <1>0, <1>2 DEF Turn, Refuse, Exhausted, ChooseNumber, WriteVerdict, Admitted, Holding
<1>4. PICK r \in Rows : /\ r = job[w].row /\ job'[w].row = r
                        /\ \A q \in job[w].todo : r <= q
  <2>1. job[w].pc \in WithRow
    BY <1>3 DEF NothingToPrepare, RecordPreparation, WithRow
  <2>2. job'[w].row = job[w].row
    BY <1>0, <2>1 DEF Turn, WithRow
  <2>3. QED
    BY <1>0, <2>1, <2>2 DEF RowInv, InHand, InTurn
<1>5. CASE NothingToPrepare(w)
  <2>1. r \notin Prepares /\ Requires[r] = {} /\ UNCHANGED <<prep, paths>>
    BY <1>4, <1>5 DEF NothingToPrepare
  <2>2. PrepWrites[r] = {} /\ Missing(r) = {}
    BY <2>1 DEF WellFormed, Missing
  <2>3. Provided(r)
    BY <2>1, <2>2 DEF Provided
  <2>4. Provided(r)'
    BY <2>1, <2>3, ProvidedKept
  <2>5. QED
    BY <1>4, <2>4
<1>6. CASE RecordPreparation(w)
  <2>1. job[w].pc = "prepared" /\ UNCHANGED paths
    BY <1>6 DEF RecordPreparation
  <2>2. job[w].ok /\ PrepWrites[r] \subseteq paths
    BY <1>0, <1>1, <1>4, <2>1 DEF CleanSoFar
  <2>3. Missing(r) \subseteq Producible(r)
    <3>1. \A o \in 1 .. (r - 1) : o \in Rows \ job[w].todo
      BY <1>4, EarlierDone
    <3>2. \A o \in 1 .. (r - 1) : Provided(o)
      BY <1>0, <1>1, <3>1 DEF CleanSoFar
    <3>3. \A o \in 1 .. (r - 1) : Producible(o) = {} => PrepWrites[o] \subseteq paths
      BY <3>2 DEF Provided
    <3>4. QED
      BY <1>0, <2>2, <3>3, OnlyOutputsMissing DEF Written
  <2>4. Producible(r) = {} => LatestPrep(r)' = "PASS"
    <3>1. ASSUME Missing(r) = {} PROVE LatestPrep(r)' = "PASS"
      <4>1. prep' = [prep EXCEPT ![r] = Append(@, "PASS")]
        BY <1>4, <1>6, <2>2, <3>1 DEF RecordPreparation
      <4>2. prep[r] \in Seq({"PASS", "FAIL"})
        BY <1>0
      <4>3. /\ Len(Append(prep[r], "PASS")) = Len(prep[r]) + 1
            /\ Append(prep[r], "PASS")[Len(prep[r]) + 1] = "PASS"
            /\ Append(prep[r], "PASS") # <<>>
        BY <4>2, AppendProperties
      <4>4. prep'[r] = Append(prep[r], "PASS")
        BY <1>0, <4>1
      <4>5. QED
        BY <4>3, <4>4 DEF LatestPrep
    <3>2. QED
      BY <2>3, <3>1
  <2>5. Provided(r)'
    BY <2>1, <2>2, <2>3, <2>4 DEF Provided, Missing, Producible
  <2>6. QED
    BY <1>4, <2>5
<1>7. QED
  BY <1>3, <1>5, <1>6

\* A row that `run --all` takes or prepares in a clean batch: all its inputs are
\* there, so it is not deferred again, and it is chosen only when it is ready.
LEMMA ChosenIsReady ==
  ASSUME WellFormed, BatchInv, NEW w \in Workers, InvocationStep(w),
         job[w].batch, job[w].clean, job[w].scheduled = Rows, Spoken(w), job[w].cmd = "run",
         job'[w].pc = "chosen"
  PROVE  Ready(job[w].row)'
<1>0. /\ RowInv /\ InTurn(w) /\ CleanSoFar(w) /\ Written /\ Turn(w) /\ Track(w) /\ Frame(w)
      /\ job \in [Workers -> Invocation] /\ job[w] \in Invocation
      /\ prep \in [Rows -> Seq({"PASS", "FAIL"})]
  BY StepTrack, StepTurn, StepFrame
     DEF BatchInv, AttemptInv, OwnInv, AllInTurn, RowInv, RowTypeOK
<1>1. ASSUME NEW r \in Rows, \A q \in job[w].todo : r <= q
      PROVE  Missing(r) = {} /\ GateOpen(r) /\ Provided(r)
  <2>1. \A o \in 1 .. (r - 1) : o \in Rows \ job[w].todo
    BY <1>1, EarlierDone
  <2>2. Provided(r) /\ \A o \in 1 .. (r - 1) : Verdict(o) = "PASS" /\ WroteOutputs(o)
    BY <1>0, <2>1 DEF CleanSoFar, Spoken
  <2>3. QED
    BY <1>0, <2>2, NothingMissing DEF Written
<1>2. CASE TakeRow(w)
  <2>1. PICK r \in Rows : r = First(w) /\ \A q \in job[w].todo : r <= q
    BY <1>0, <1>2, FirstIsLeast DEF TakeRow, Next1
  <2>2. ~PrepareNow(w) /\ job'[w].row = r /\ UNCHANGED <<prep, paths>>
    BY <1>0, <1>2, <2>1 DEF TakeRow, Invocation
  <2>3. Missing(r) = {} /\ GateOpen(r) /\ Provided(r)
    BY <1>1, <2>1
  <2>4. job[w].every
    BY <1>0 DEF InTurn
  <2>5. Producible(r) = {} \/ LatestPrep(r) = "PASS"
    BY <2>1, <2>2, <2>3, <2>4 DEF PrepareNow, Deferred
  <2>6. Ready(r)
    BY <2>3, <2>5 DEF Provided, Ready
  <2>7. Ready(r)'
    BY <2>2, <2>6 DEF Ready, LatestPrep, Missing
  <2>8. QED
    BY <2>2, <2>7
<1>3. CASE RecordPreparation(w)
  <2>1. PICK r \in Rows : r = job[w].row /\ \A q \in job[w].todo : r <= q
    BY <1>0, <1>3 DEF RecordPreparation, RowInv, InHand, InTurn, WithRow
  <2>2. job[w].pc = "prepared" /\ UNCHANGED paths
    BY <1>3 DEF RecordPreparation
  <2>3. job[w].ok /\ Missing(r) = {}
    BY <1>0, <1>1, <2>1, <2>2 DEF CleanSoFar
  <2>4. prep' = [prep EXCEPT ![r] = Append(@, "PASS")]
    BY <1>3, <2>1, <2>3 DEF RecordPreparation
  <2>5. job'[w].row = r
    BY <1>0, <2>1, <2>2 DEF Turn, WithRow
  <2>6. prep[r] \in Seq({"PASS", "FAIL"}) /\ prep'[r] = Append(prep[r], "PASS")
    BY <1>0, <2>4
  <2>7. LatestPrep(r)' = "PASS"
    <3> DEFINE s == prep[r]
    <3>1. /\ Len(Append(s, "PASS")) = Len(s) + 1
          /\ Append(s, "PASS")[Len(s) + 1] = "PASS"
          /\ Append(s, "PASS") # <<>>
      <4>1. "PASS" \in {"PASS", "FAIL"} /\ s \in Seq({"PASS", "FAIL"})
        BY <2>6
      <4> HIDE DEF s
      <4>2. QED
        BY <4>1, AppendProperties
    <3>2. QED
      BY <2>6, <3>1 DEF LatestPrep
  <2>8. Ready(r)'
    BY <2>2, <2>3, <2>7 DEF Ready, Missing
  <2>9. QED
    BY <2>5, <2>8
<1>4. QED
  BY <1>0, <1>2, <1>3 DEF Turn

\* A row that returns in the run of a clean batch has passed.
LEMMA ReturnPasses ==
  ASSUME WellFormed, ~Allocated, BatchInv, NEW w \in Workers, InvocationStep(w),
         job[w].batch, job[w].clean, job[w].scheduled = Rows, Spoken(w), job[w].cmd = "run",
         job'[w].pc = "returned"
  PROVE  job'[w].code = "OK" /\ Verdict(job[w].row)' = "PASS"
<1>0. /\ RowInv /\ OwnInv /\ InTurn(w) /\ CleanSoFar(w) /\ Written /\ Turn(w) /\ Track(w)
      /\ Fresh(w) /\ job \in [Workers -> Invocation] /\ job[w] \in Invocation
  BY StepTrack, StepTurn
     DEF BatchInv, AttemptInv, Sound, OwnInv, AllInTurn, RowInv, RowTypeOK
<1>1. job[w].every /\ job[w].explicit = 0
  BY <1>0 DEF InTurn
<1>2. PICK r \in Rows : /\ r = job[w].row /\ job'[w].row = r /\ job[w].pc \in WithRow
                        /\ \A q \in job[w].todo : r <= q
  <2>1. PrepareRow(w) \/ TakeRow(w) => job'[w].pc \in {"preparing", "chosen"}
    BY <1>0 DEF PrepareRow, TakeRow, Invocation
  <2>2. job[w].pc \in WithRow /\ job'[w].row = job[w].row
    BY <1>0, <2>1 DEF Turn, WithRow
  <2>3. QED
    BY <1>0, <2>2 DEF RowInv, InHand, InTurn
<1>3. Missing(r) = {} /\ GateOpen(r)
  <2>1. \A o \in 1 .. (r - 1) : o \in Rows \ job[w].todo
    BY <1>2, EarlierDone
  <2>2. Provided(r) /\ \A o \in 1 .. (r - 1) : Verdict(o) = "PASS" /\ WroteOutputs(o)
    BY <1>0, <2>1 DEF CleanSoFar, Spoken
  <2>3. QED
    BY <1>0, <2>2, NothingMissing DEF Written
<1>4. ~NothingToPrepare(w)
  BY <1>0 DEF NothingToPrepare, InTurn, Producible
<1>5. ~RecordPreparation(w)
  <2>1. ASSUME RecordPreparation(w) PROVE job'[w].pc = "chosen"
    <3>1. job[w].pc = "prepared"
      BY <2>1 DEF RecordPreparation
    <3>2. job[w].ok
      BY <1>0, <3>1 DEF CleanSoFar
    <3>3. job' = [job EXCEPT ![w].pc = "chosen"]
      BY <1>2, <1>3, <2>1, <3>2 DEF RecordPreparation
    <3>4. QED
      BY <1>0, <3>3 DEF Invocation
  <2>2. QED
    BY <2>1
<1>6. ~Refuse(w)
  <2>1. job[w].pc = "chosen" => Ready(r)
    BY <1>0, <1>2 DEF CleanSoFar
  <2>2. QED
    BY <1>2, <1>3, <2>1 DEF Refuse
<1>7. ~Exhausted(w)
  BY DEF Exhausted
<1>8. ~ChooseNumber(w)
  <2>1. ChooseNumber(w) => NextNumber(r) \in Numbers(r)
    BY <1>0, <1>1, <1>2 DEF ChooseNumber, Return, Invocation
  <2>2. QED
    BY <2>1, NextIsFree
<1>9. WriteVerdict(w) /\ job[w].pc = "ended"
  BY <1>0, <1>4, <1>5, <1>6, <1>7, <1>8 DEF Turn, WriteVerdict
<1>10. job[w].ok
  BY <1>0, <1>9 DEF CleanSoFar
<1>11. job'[w].code = "OK"
  BY <1>0, <1>9, <1>10 DEF WriteVerdict, Return, Invocation
<1>12. Highest(r) = job[w].num
  BY <1>0, <1>1, <1>2, <1>9 DEF Fresh, Begun, Holding
<1>13. StateOf(r)' = <<job[w].num, "PASS">>
  BY <1>0, <1>2, <1>9, <1>10, <1>12, VerdictWritten
<1>14. Verdict(r)' = "PASS"
  BY <1>13 DEF Verdict
<1>15. QED
  BY <1>2, <1>11, <1>14

LEMMA StepClean ==
  ASSUME WellFormed, Supplied, ~Allocated, BatchInv, NEW w \in Workers, InvocationStep(w)
  PROVE  CleanSoFar(w)'
<1>0. /\ RowInv /\ AllInTurn /\ InTurn(w) /\ CleanSoFar(w) /\ Turn(w) /\ Track(w) /\ Frame(w)
      /\ job \in [Workers -> Invocation] /\ job[w] \in Invocation
      /\ prep \in [Rows -> Seq({"PASS", "FAIL"})]
  BY StepTrack, StepTurn, StepFrame
     DEF BatchInv, AttemptInv, OwnInv, AllInTurn, RowInv, RowTypeOK
<1> DEFINE i == job[w]
           j == job'[w]
<1> SUFFICES ASSUME j.batch, j.clean, j.scheduled = Rows, Spoken(w)'
             PROVE  /\ j.pc \in {"prepared", "ended"} => j.ok
                    /\ j.pc = "prepared" => PrepWrites[j.row] \subseteq paths'
                    /\ j.cmd = "prepare" =>
                         /\ \A r \in Rows \ j.todo : Provided(r)'
                         /\ j.pc = "returned" => Provided(i.row)' /\ j.row = i.row
                    /\ j.cmd = "run" =>
                         /\ \A r \in Rows : Provided(r)'
                         /\ \A r \in Rows \ j.todo : Verdict(r)' = "PASS"
                         /\ j.first = "OK"
                         /\ j.pc = "chosen" => Ready(i.row)'
                         /\ j.pc = "returned" => j.code = "OK" /\ Verdict(i.row)' = "PASS"
  BY DEF CleanSoFar
<1>d. /\ DeferRow(w) \/ SkipRow(w) \/ Collect(w) => j.cmd = i.cmd
      /\ LoopEnds(w) => j.cmd \in {i.cmd, "run"}
  <2>1. DeferRow(w) \/ SkipRow(w) => j.cmd = i.cmd
    BY <1>0 DEF DeferRow, SkipRow, Invocation
  <2>2. Collect(w) => j.cmd = i.cmd
    BY <1>0 DEF Collect, Invocation
  <2>3. LoopEnds(w) => j.cmd \in {i.cmd, "run"}
    BY <1>0 DEF LoopEnds, Invocation
  <2>4. QED
    BY <2>1, <2>2, <2>3
<1>e. Spoken(w)
  <2> SUFFICES ASSUME i.cmd = "run", NEW r \in Rows \ i.todo, Verdict(r) = "PASS"
               PROVE  WroteOutputs(r)
    BY DEF Spoken
  <2>1. i.scheduled = Rows
    BY <1>0 DEF Track
  <2>2. attempts'[r] = attempts[r]
    BY <1>0, <2>1, DoneUndisturbed
  <2>3. j.cmd = "run" /\ r \notin j.todo
    <3>1. CASE j.todo = i.todo /\ j.cmd = i.cmd
      BY <3>1
    <3>2. CASE DeferRow(w) \/ SkipRow(w)
      BY <1>0, <1>d, <3>2 DEF DeferRow, SkipRow, Invocation
    <3>3. CASE Collect(w)
      BY <1>0, <1>d, <3>3 DEF Collect, Invocation
    <3>4. CASE LoopEnds(w)
      BY <1>0, <3>4 DEF LoopEnds, Invocation
    <3>5. QED
      BY <1>0, <3>1, <3>2, <3>3, <3>4 DEF Turn
  <2>4. StateOf(r)' = StateOf(r) /\ Verdict(r)' = Verdict(r)
    BY <2>2, SameRow
  <2>5. WroteOutputs(r)'
    BY <2>3, <2>4 DEF Spoken
  <2>6. QED
    BY <2>2, <2>4, <2>5 DEF WroteOutputs
<1>a. i.batch /\ i.clean /\ i.scheduled = Rows /\ i.every /\ Spoken(w)
  BY <1>0, <1>e DEF Track, InTurn
<1>b. paths \subseteq paths'
  BY <1>0 DEF Frame
<1>1. j.pc = "prepared" => j.ok /\ PrepWrites[j.row] \subseteq paths'
  <2> SUFFICES ASSUME j.pc = "prepared" PROVE j.ok /\ PrepWrites[j.row] \subseteq paths'
    OBVIOUS
  <2>1. PrepareCommands(w)
    BY <1>0 DEF Turn
  <2>2. PICK ok \in BOOLEAN, wrote \in SUBSET PrepWrites[i.row] :
          /\ paths' = paths \cup wrote
          /\ job' = [job EXCEPT ![w].pc = "prepared", ![w].ok = ok,
                                ![w].clean = @ /\ ok /\ wrote = PrepWrites[i.row]]
    BY <2>1 DEF PrepareCommands
  <2>3. j.row = i.row /\ j.ok = ok /\ ok = TRUE /\ wrote = PrepWrites[i.row]
    BY <1>0, <2>2 DEF Invocation
  <2>4. paths' = paths \cup PrepWrites[i.row]
    BY <2>2, <2>3
  <2>5. QED
    BY <2>3, <2>4
<1>2. j.pc = "ended" => j.ok
  <2> SUFFICES ASSUME j.pc = "ended" PROVE j.ok
    OBVIOUS
  <2>1. CommandEnds(w)
    BY <1>0 DEF Track
  <2>2. PICK ok \in BOOLEAN :
          job' = [job EXCEPT ![w].pc = "ended", ![w].ok = ok,
                             ![w].clean = IF ok THEN @ ELSE FALSE]
    BY <2>1 DEF CommandEnds
  <2>3. QED
    BY <1>0, <2>2 DEF Invocation
<1>c. ASSUME NEW r \in Rows \ i.todo, Provided(r) PROVE Provided(r)'
  <2>1. i.pc \in WithRow => r # i.row
    BY <1>0 DEF InTurn
  <2>2. prep'[r] = prep[r]
    BY <1>0, <2>1, StepDisk
  <2>3. QED
    BY <1>b, <1>c, <2>2, ProvidedKept
<1>3. ASSUME j.cmd = "prepare" PROVE \A r \in Rows \ j.todo : Provided(r)'
  <2>0. i.cmd = "prepare" /\ \A r \in Rows \ i.todo : Provided(r)'
    <3>1. i.cmd = "prepare"
      BY <1>0, <1>3, <1>d DEF Turn
    <3>2. QED
      BY <1>0, <1>a, <1>c, <3>1 DEF CleanSoFar
  <2>1. CASE j.todo = i.todo
    BY <2>0, <2>1
  <2>2. CASE DeferRow(w)
    <3>1. PICK f \in Rows : f = First(w) /\ \A q \in i.todo : f <= q
      BY <1>0, <2>2, FirstIsLeast DEF DeferRow, Next1
    <3>2. Deferred(f) /\ UNCHANGED <<prep, paths>> /\ j.todo = i.todo \ {f}
      BY <1>0, <2>2, <3>1 DEF DeferRow, Invocation
    <3>3. Provided(f)
      BY <3>2 DEF Deferred, Provided
    <3>4. Provided(f)'
      BY <3>2, <3>3, ProvidedKept
    <3>5. QED
      BY <2>0, <3>2, <3>4
  <2>3. CASE SkipRow(w)
    BY <2>0, <2>3 DEF SkipRow, Next1
  <2>4. CASE Collect(w)
    <3>1. PICK f \in Rows : f = i.row
      BY <1>0, <2>4 DEF Collect, RowInv, InHand, WithRow
    <3>2. i.pc = "returned" /\ UNCHANGED <<prep, paths>> /\ j.todo = i.todo \ {f}
      BY <1>0, <2>4, <3>1 DEF Collect, Invocation
    <3>3. Provided(f)
      BY <1>0, <1>a, <2>0, <3>1, <3>2 DEF CleanSoFar
    <3>4. Provided(f)'
      BY <3>2, <3>3, ProvidedKept
    <3>5. QED
      BY <2>0, <3>2, <3>4
  <2>5. CASE LoopEnds(w)
    <3>1. j.cmd = "run"
      BY <1>0, <1>a, <2>0, <2>5 DEF LoopEnds, Invocation
    <3>2. QED
      BY <1>3, <3>1
  <2>6. QED
    BY <1>0, <2>1, <2>2, <2>3, <2>4, <2>5 DEF Turn
<1>4. j.cmd = "prepare" /\ j.pc = "returned" => Provided(i.row)' /\ j.row = i.row
  BY <1>a, PreparationProvides
<1>5. CASE j.cmd = "run" /\ i.cmd = "prepare"
  <2>1. LoopEnds(w)
    BY <1>0, <1>5, <1>d DEF Turn
  <2>2. /\ i.todo = {} /\ j.todo = Rows /\ j.first = "OK" /\ j.pc = "next"
        /\ UNCHANGED <<prep, paths>>
    BY <1>0, <1>5, <1>a, <2>1 DEF LoopEnds, Invocation
  <2>3. \A r \in Rows : Provided(r)'
    BY <1>0, <1>5, <1>a, <1>c, <2>2 DEF CleanSoFar
  <2>4. QED
    BY <1>1, <1>2, <1>5, <2>2, <2>3
<1>6. CASE j.cmd = "run" /\ i.cmd = "run"
  <2>1. ASSUME NEW r \in Rows PROVE Provided(r)'
    <3>1. Provided(r)
      BY <1>0, <1>6, <1>a DEF CleanSoFar
    <3>2. prep'[r] = prep[r] \/ Producible(r) # {}
      <4>1. r # i.row => prep'[r] = prep[r]
        BY <1>0, StepDisk
      <4>2. i.pc # "prepared" => UNCHANGED prep
        BY <1>0 DEF Frame
      <4>3. i.pc = "prepared" => Producible(i.row) # {}
        BY <1>0, <1>6 DEF InTurn
      <4>4. QED
        BY <4>1, <4>2, <4>3
    <3>3. QED
      BY <1>b, <3>1, <3>2, ProvidedKept
  <2>2. ASSUME NEW r \in Rows \ i.todo PROVE Verdict(r)' = "PASS"
    <3>1. attempts'[r] = attempts[r]
      BY <1>0, <1>a, DoneUndisturbed
    <3>2. Verdict(r) = "PASS"
      BY <1>0, <1>6, <1>a DEF CleanSoFar
    <3>3. QED
      BY <3>1, <3>2, SameRow
  <2>3. j.first = "OK" /\ \A r \in Rows \ j.todo : Verdict(r)' = "PASS"
    <3>0. i.first = "OK"
      BY <1>0, <1>6, <1>a DEF CleanSoFar
    <3>1. CASE j.todo = i.todo /\ j.first = i.first
      BY <2>2, <3>0, <3>1
    <3>2. CASE DeferRow(w)
      BY <1>6, <3>2 DEF DeferRow, Next1
    <3>3. CASE SkipRow(w)
      <4>1. PICK f : f = First(w) /\ Verdict(f) = "PASS"
        BY <3>3 DEF SkipRow, Passed
      <4>2. j.todo = i.todo \ {f} /\ j.first = i.first /\ UNCHANGED attempts
        BY <1>0, <3>3, <4>1 DEF SkipRow, Invocation
      <4>3. Verdict(f)' = "PASS"
        BY <4>1, <4>2, SameRow
      <4>4. QED
        BY <2>2, <3>0, <4>2, <4>3
    <3>4. CASE Collect(w)
      <4>1. PICK f : f = i.row
        OBVIOUS
      <4>2. i.pc = "returned" /\ UNCHANGED attempts
        BY <3>4 DEF Collect
      <4>3. i.code = "OK" /\ Verdict(f) = "PASS"
        BY <1>0, <1>6, <1>a, <4>1, <4>2 DEF CleanSoFar
      <4>4. j.todo = i.todo \ {f} /\ j.first = "OK"
        BY <1>0, <3>0, <3>4, <4>1, <4>3 DEF Collect, Invocation
      <4>5. Verdict(f)' = "PASS"
        BY <4>2, <4>3, SameRow
      <4>6. QED
        BY <2>2, <4>4, <4>5
    <3>5. CASE LoopEnds(w)
      <4>1. j.todo = i.todo /\ j.first = i.first
        BY <1>0, <1>6, <3>5 DEF LoopEnds, Invocation
      <4>2. QED
        BY <3>1, <4>1
    <3>6. QED
      BY <1>0, <3>1, <3>2, <3>3, <3>4, <3>5 DEF Turn
  <2>4. j.pc = "chosen" => Ready(i.row)'
    BY <1>6, <1>a, ChosenIsReady
  <2>5. j.pc = "returned" => j.code = "OK" /\ Verdict(i.row)' = "PASS"
    BY <1>6, <1>a, ReturnPasses
  <2>6. QED
    BY <1>1, <1>2, <1>6, <2>1, <2>3, <2>4, <2>5
<1>7. QED
  BY <1>0, <1>1, <1>2, <1>3, <1>4, <1>5, <1>6 DEF Invocation

LEMMA BatchKept ==
  ASSUME WellFormed, Supplied, ~Allocated, NEW p, Workers = {p}, BatchInv, RowNext
  PROVE  BatchInv'
<1>0. AttemptInv' /\ Written'
  BY AloneIsApart, AttemptsSound, WrittenKept DEF BatchInv, AttemptInv
<1>1. CASE Moved
  <2>1. UNCHANGED <<attempts, prep, paths>>
    BY <1>1 DEF Moved
  <2>2. \A r : /\ Provided(r)' <=> Provided(r)
               /\ Ready(r)' <=> Ready(r)
               /\ Verdict(r)' = Verdict(r)
               /\ WroteOutputs(r)' <=> WroteOutputs(r)
    BY <2>1, SameRow DEF WroteOutputs, Provided, Ready, LatestPrep, Missing, Producible
  <2>3. ASSUME NEW w \in Workers, NewJob(job'[w]) PROVE CleanSoFar(w)'
    BY <2>3 DEF NewJob, CleanSoFar
  <2>4. ASSUME NEW w \in Workers, job'[w] = job[w] PROVE CleanSoFar(w)'
    BY <2>1, <2>2, <2>4 DEF BatchInv, CleanSoFar, Spoken
  <2>5. QED
    BY <1>0, <1>1, <2>3, <2>4 DEF Moved, BatchInv
<1>2. ASSUME NEW w \in Workers, InvocationStep(w) PROVE BatchInv'
  BY <1>0, <1>2, StepClean DEF BatchInv
<1>3. CASE OrphanStep
  <2>1. UNCHANGED <<attempts, prep, job>> /\ paths \subseteq paths'
    BY <1>3, OrphanTyped DEF BatchInv, AttemptInv, OwnInv
  <2>2. \A r : /\ Provided(r) => Provided(r)'
               /\ Ready(r) => Ready(r)'
    BY <2>1, ProvidedKept DEF Ready, LatestPrep, Missing
  <2>3. \A r : Verdict(r)' = Verdict(r) /\ (WroteOutputs(r)' <=> WroteOutputs(r))
    BY <2>1, SameRow DEF WroteOutputs
  <2>4. ASSUME NEW w \in Workers PROVE CleanSoFar(w)'
    BY <2>1, <2>2, <2>3 DEF BatchInv, CleanSoFar, Spoken
  <2>5. QED
    BY <1>0, <2>4 DEF BatchInv
<1>4. QED
  BY <1>1, <1>2, <1>3 DEF RowNext

LEMMA BatchStarts == RowInit => BatchInv
<1> SUFFICES ASSUME RowInit PROVE BatchInv
  OBVIOUS
<1>1. AttemptInv
  BY AttemptsStart
<1>2. Written /\ \A w \in Workers : CleanSoFar(w)
  BY DEF RowInit, Written, GivenPaths, PassedWrote, WroteOut, CleanSoFar, Idle, Absent
<1>3. QED
  BY <1>1, <1>2 DEF BatchInv

\* A batch over all rows in which no command fails exits 0, if those that passed
\* wrote their outputs and whatever earlier processes left on disk: what
\* `prepare --all` deferred is prepared in time, no row is refused.  Outside an allocation, and if every path that a row requires
\* is supplied before its turn.
THEOREM OneProcessCleanBatch ==
  ASSUME WellFormed, Supplied, ~Allocated, NEW p, Workers = {p}
  PROVE  Spec => []CleanBatchPasses
<1>1. Init => BatchInv
  BY BatchStarts DEF Init
<1>2. BatchInv /\ [Next]_vars => BatchInv'
  BY CampaignMoves, BatchKept DEF BatchInv, AttemptInv, OwnInv
<1>3. BatchInv => CleanBatchPasses
  BY DEF BatchInv, CleanSoFar, Spoken, CleanBatchPasses, AtEndOfRunAll
<1>4. QED
  BY <1>1, <1>2, <1>3, PTL DEF Spec

-----------------------------------------------------------------------------
(* ParallelRun without a process beside it: the threads are apart, so what     *)
(* holds of one process holds of the pool.                                     *)

LEMMA PoolIsApart ==
  ASSUME Workers = Threads, PoolInv, AllInTurn
  PROVE  Apart
<1> SUFFICES ASSUME NEW v \in Workers, NEW w \in Workers, v # w,
                    job[v].pc \in WithRow, job[w].pc # "idle", NEW r \in job[w].scheduled
             PROVE  job[v].row # r /\ job[v].row \notin Dependencies(r)
  BY DEF Apart
<1>1. v \in Running /\ w \in Running /\ Handed /\ RowInv
  BY DEF Running, WithRow, PoolInv
<1>2. r = RowOf(w) /\ Dependencies(r) \cap scheduled \subseteq done
  BY <1>1, RowHanded
<1>3. job[v].row = RowOf(v)
  BY <1>1, RowHanded, RowInHand
<1>4. RowOf(v) # RowOf(w) /\ RowOf(v) \in scheduled \ done
  BY <1>1, RowHanded DEF Handed
<1>5. QED
  BY <1>2, <1>3, <1>4

\* Where no command line gives a number, neither the pool nor a process beside
\* it names an attempt.
LEMMA PoolAutomatic ==
  ASSUME RowInv, ExplicitNumbers = {}, Automatic, asked = 0, [PoolNext]_poolVars
  PROVE  Automatic' /\ asked' = 0
<1>0. job \in [Workers -> Invocation] /\ Threads \subseteq Workers
  BY RunsAssumption DEF RowInv, RowTypeOK
<1>a. asked' = 0
  BY DEF PoolNext, Main, Start, Dispatch, Wait, AllCollected, CollectFutures, Unwind, MainExits,
         MainCrashes, Gone, Step, Beside, BesideEnds, poolVars, mainVars
<1> SUFFICES Automatic'
  BY <1>a
<1>1. ASSUME NEW w \in Workers, NEW cmd, NEW every, NEW rows, Invoke(w, cmd, FALSE, every, 0, rows)
      PROVE  Automatic'
  BY <1>0, <1>1 DEF Invoke, Idle, Automatic
<1>2. CASE Dispatch
  <2>1. PICK w \in Threads : Invoke(w, "run", FALSE, TRUE, 0, {Min(Eligible)})
    BY <1>2 DEF Dispatch
  <2>2. QED
    BY <1>0, <1>1, <2>1
<1>3. CASE CollectFutures
  <2>1. job' = [w \in Workers |-> IF w \in Threads /\ job[w].pc = "over" THEN Idle ELSE job[w]]
    BY <1>3 DEF CollectFutures
  <2>2. QED
    BY <2>1 DEF Idle, Automatic
<1>4. CASE MainExits \/ MainCrashes
  <2>1. job' = [w \in Workers |-> IF w \in Threads THEN Idle ELSE job[w]]
    BY <1>4 DEF MainExits, MainCrashes, Gone, Vanish
  <2>2. QED
    BY <2>1 DEF Idle, Automatic
<1>5. ASSUME NEW w \in Workers, Step(w) PROVE Automatic'
  BY <1>0, <1>5, StepFrame, StepTrack DEF Step, Frame, Track, Automatic
<1>6. ASSUME NEW w \in Workers, Beside(w) PROVE Automatic'
  <2>1. PICK r \in Rows, cmd \in {"run", "prepare"} : Invoke(w, cmd, FALSE, FALSE, 0, {r})
    BY <1>6 DEF Beside
  <2>2. QED
    BY <1>1, <2>1
<1>7. ASSUME NEW w \in Workers, BesideEnds(w) PROVE Automatic'
  BY <1>0, <1>7 DEF BesideEnds, Vanish, Idle, Automatic
<1>8. CASE Start \/ Wait \/ AllCollected \/ Unwind \/ UNCHANGED poolVars
  <2>1. UNCHANGED job
    BY <1>8 DEF Start, Wait, AllCollected, Unwind, poolVars, rowVars
  <2>2. QED
    BY <2>1 DEF Automatic
<1>9. CASE OrphanStep
  BY <1>9, OrphanTyped DEF Automatic
<1>10. QED
  BY <1>a, <1>2, <1>3, <1>4, <1>5, <1>6, <1>7, <1>8, <1>9 DEF PoolNext, Main

LEMMA PoolCurrent ==
  ASSUME WellFormed, ExplicitNumbers = {}, Workers = Threads
  PROVE  PoolSpec => [](PoolInv /\ CurrentInv)
<1> DEFINE I == PoolInv /\ CurrentInv /\ asked = 0
<1>1. PoolInit => I
  BY PoolStarts, CurrentStarts DEF PoolInit
<1>2. I /\ [PoolNext]_poolVars => I'
  <2> SUFFICES ASSUME PoolInv, CurrentInv, asked = 0, [PoolNext]_poolVars
               PROVE  PoolInv' /\ CurrentInv' /\ asked' = 0
    OBVIOUS
  <2>1. RowInv /\ PoolTypeOK /\ Automatic /\ AllInTurn
    BY DEF PoolInv, CurrentInv, AttemptInv
  <2>2. RowNext /\ Automatic' /\ asked' = 0 /\ Apart
    BY <2>1, PoolMoves, PoolAutomatic, PoolIsApart
  <2>3. QED
    BY <2>2, PoolKept, CurrentKept
<1>3. QED
  BY <1>1, <1>2, PTL DEF PoolSpec

\* A thread of a run without --attempt launches its row under an open gate, and
\* the gate stays open until the verdict.
THEOREM ThreadsRunOnPass ==
  ASSUME WellFormed, ExplicitNumbers = {}, Workers = Threads
  PROVE  PoolSpec => []LaunchedOnPass
<1>1. CurrentInv => LaunchedOnPass
  BY DEF CurrentInv, AttemptInv, Sound, Gated, LaunchedOnPass, Admitted
<1>2. QED
  BY <1>1, PoolCurrent, PTL

\* The outputs of a row whose latest verdict is PASS, given to a command that
\* wrote them, are those of that attempt, or of the command that an earlier
\* attempt without a verdict left behind, whatever the pool ran at the same time
\* and whenever it was killed.
THEOREM ThreadsDescribeOutputs ==
  ASSUME WellFormed, ExplicitNumbers = {}, Workers = Threads
  PROVE  PoolSpec => []PassDescribesOutputs
BY PoolCurrent, CurrentOutputs, PTL

\* A PASS that the next run would pass over read what its inputs hold now, unless
\* a command that an attempt without a verdict left behind wrote over them.
THEOREM ThreadsStayCurrent ==
  ASSUME WellFormed, ExplicitNumbers = {}, Workers = Threads
  PROVE  PoolSpec => []StandingPassIsCurrent
BY PoolCurrent, CurrentInputs, PTL

\* Every thread executes a `run --all` of its one row, with the --attempt of the
\* run.
ThreadJobs == \A w \in Running : job[w].cmd = "run" /\ job[w].every /\ job[w].explicit = asked

\* The rows collected stand as long as nothing went wrong, with their scheduled
\* dependencies among them; a stopped run has a code to say so.
DoneStands ==
  /\ \A r \in done : Dependencies(r) \cap scheduled \subseteq done
  /\ first = "OK" => \A r \in done : Settled(asked, r)
  /\ stopped => first # "OK"
  /\ main = "returned" => stopped \/ pending = {}

PoolOkInv == PoolInv /\ OkInv /\ ThreadJobs /\ DoneStands

LEMMA StepCommand ==
  ASSUME RowInv, NEW w \in Workers, InvocationStep(w)
  PROVE  job'[w].cmd \in {job[w].cmd, "run"}
<1>0. Turn(w) /\ job \in [Workers -> Invocation] /\ job[w] \in Invocation
  BY StepTurn DEF RowInv, RowTypeOK
<1>1. CASE DeferRow(w) \/ SkipRow(w)
  BY <1>0, <1>1 DEF DeferRow, SkipRow, Invocation
<1>2. CASE Collect(w)
  BY <1>0, <1>2 DEF Collect, Invocation
<1>3. CASE LoopEnds(w)
  BY <1>0, <1>3 DEF LoopEnds, Invocation
<1>4. QED
  BY <1>0, <1>1, <1>2, <1>3 DEF Turn

LEMMA ThreadJobsKept ==
  ASSUME Workers = Threads, PoolInv, ThreadJobs, [PoolNext]_poolVars
  PROVE  ThreadJobs'
<1>0. RowInv /\ Handed /\ job \in [Workers -> Invocation]
  BY DEF PoolInv, RowInv, RowTypeOK
<1> SUFFICES ASSUME NEW v \in Workers, job'[v].pc # "idle"
             PROVE  job'[v].cmd = "run" /\ job'[v].every /\ job'[v].explicit = asked'
  BY DEF ThreadJobs, Running
<1>1. ASSUME job'[v] = job[v], asked' = asked
      PROVE  job'[v].cmd = "run" /\ job'[v].every /\ job'[v].explicit = asked'
  BY <1>1 DEF ThreadJobs, Running
<1>2. CASE Dispatch
  <2>1. PICK w \in Threads : Invoke(w, "run", FALSE, TRUE, asked, {Min(Eligible)})
    BY <1>2 DEF Dispatch
  <2>a. asked' = asked
    BY <1>2 DEF Dispatch
  <2>2. CASE v # w
    BY <1>0, <1>1, <2>a, <2>1, <2>2 DEF Invoke
  <2>3. CASE v = w
    BY <1>0, <2>a, <2>1, <2>3 DEF Invoke, Idle
  <2>4. QED
    BY <2>2, <2>3
<1>3. CASE CollectFutures
  <2>1. asked' = asked
    BY <1>3 DEF CollectFutures
  <2>2. QED
    BY <1>0, <1>1, <1>3, <2>1, CollectMoves DEF Idle
<1>4. CASE MainExits \/ MainCrashes
  BY <1>0, <1>4, GoneMoves DEF MainExits, MainCrashes
<1>5. ASSUME NEW w \in Workers, Step(w)
      PROVE  job'[v].cmd = "run" /\ job'[v].every /\ job'[v].explicit = asked'
  <2>a. asked' = asked
    BY <1>5 DEF Step, mainVars
  <2>1. /\ Track(w) /\ Frame(w) /\ job'[w].cmd \in {job[w].cmd, "run"}
    BY <1>0, <1>5, StepTrack, StepFrame, StepCommand DEF Step
  <2>2. CASE v # w
    BY <1>0, <1>1, <2>a, <2>1, <2>2 DEF Frame
  <2>3. CASE v = w
    BY <2>a, <2>1, <2>3 DEF Track, ThreadJobs, Running
  <2>4. QED
    BY <2>2, <2>3
<1>6. ASSUME NEW w \in Workers, Beside(w) \/ BesideEnds(w)
      PROVE  job'[v].cmd = "run" /\ job'[v].every /\ job'[v].explicit = asked'
  BY <1>6 DEF Beside, BesideEnds
<1>7. CASE Wait \/ AllCollected \/ Unwind \/ UNCHANGED poolVars
  BY <1>1, <1>7 DEF Wait, AllCollected, Unwind, poolVars, rowVars, mainVars
<1>8. CASE Start
  BY <1>0, <1>8 DEF Start, rowVars, Handed, Running
<1>9. CASE OrphanStep /\ UNCHANGED mainVars
  BY <1>0, <1>1, <1>9, OrphanTyped DEF mainVars
<1>10. QED
  BY <1>2, <1>3, <1>4, <1>5, <1>6, <1>7, <1>8, <1>9 DEF PoolNext, Main

\* What a thread writes is not about a row that is done, nor one it reads.
LEMMA DoneRowsStand ==
  ASSUME Workers = Threads, WellFormed, PoolInv, AllInTurn, DoneStands,
         NEW w \in Workers, InvocationStep(w), NEW r \in done, NEW e, Settled(e, r)
  PROVE  Settled(e, r)'
<1>0. RowInv /\ Handed /\ r \in Rows /\ r \in scheduled
  BY DEF PoolInv, PoolTypeOK
<1>1. \A o \in {r} \cup Reads(r) : o \in Rows /\ o \in {r} \cup Dependencies(r)
  BY <1>0, EdgesBack
<1>2. CASE job[w].pc \notin WithRow
  BY <1>0, <1>1, <1>2, StepDisk, SettledKept
<1>3. CASE job[w].pc \in WithRow
  <2>1. w \in Running
    BY <1>3 DEF Running, WithRow
  <2>2. job[w].row = RowOf(w) /\ RowOf(w) \in scheduled \ done
    BY <1>0, <1>3, <2>1, RowHanded, RowInHand
  <2>3. \A o \in {r} \cup Dependencies(r) : o # job[w].row
    BY <2>2 DEF DoneStands
  <2>4. \A o \in {r} \cup Reads(r) : attempts'[o] = attempts[o]
    BY <1>0, <1>1, <2>3, StepDisk
  <2>5. QED
    BY <2>4, SettledKept
<1>4. QED
  BY <1>2, <1>3

LEMMA DoneStandsKept ==
  ASSUME Workers = Threads, WellFormed, PoolOkInv, [PoolNext]_poolVars
  PROVE  DoneStands'
<1>0. PoolInv /\ RowInv /\ OkInv /\ AllInTurn /\ ThreadJobs /\ DoneStands /\ Handed
  BY DEF PoolOkInv, PoolInv, OkInv, AttemptInv
<1>a. ASSUME UNCHANGED attempts, UNCHANGED asked, NEW r, Settled(asked, r)
      PROVE  Settled(asked, r)'
  <2>1. \A e : Settled(e, r) => Settled(e, r)'
    BY <1>a, SettledKept
  <2>2. QED
    BY <1>a, <2>1
<1>1. CASE Start
  <2>1. done' = {} /\ stopped' = FALSE /\ main' = "dispatch"
    BY <1>1 DEF Start
  <2>2. QED
    BY <2>1 DEF DoneStands
<1>2. CASE Dispatch
  <2>1. UNCHANGED <<attempts, main, done, stopped, first, scheduled, asked>> /\ main = "dispatch"
    BY <1>2 DEF Dispatch, Invoke
  <2>2. QED
    BY <1>0, <1>a, <2>1 DEF DoneStands
<1>3. CASE Wait \/ Unwind
  <2>1. /\ UNCHANGED <<attempts, done, stopped, first, scheduled, asked>>
        /\ main' # "returned"
    BY <1>3 DEF Wait, Unwind, rowVars
  <2>2. QED
    BY <1>0, <1>a, <2>1 DEF DoneStands
<1>4. CASE AllCollected
  <2>1. /\ UNCHANGED <<attempts, done, stopped, first, scheduled, asked, pending>>
        /\ main' = IF stopped \/ pending = {} THEN "returned" ELSE "stuck"
    BY <1>4 DEF AllCollected, rowVars
  <2>2. QED
    BY <1>0, <1>a, <2>1 DEF DoneStands
<1>5. CASE CollectFutures
  <2> DEFINE over == {w \in Threads : job[w].pc = "over"}
             lost == {w \in over : job[w].first # "OK"}
             codes == {job[w].first : w \in lost}
  <2>0. over \subseteq Running
    BY DEF Running
  <2>1. /\ UNCHANGED <<attempts, scheduled, asked>> /\ main' = "dispatch"
        /\ done' = done \cup {RowOf(w) : w \in over}
    BY <1>5 DEF CollectFutures
  <2>2. PICK c \in IF first # "OK" \/ codes = {} THEN {first} ELSE codes :
          first' = IF "EXHAUSTED" \in codes /\ c # "REFUSED" THEN "EXHAUSTED" ELSE c
    BY <1>5 DEF CollectFutures
  <2>3. stopped' = (stopped \/ {w \in lost : RowOf(w) \in Pilots \/ job[w].first = "EXHAUSTED"} # {})
    BY <1>5 DEF CollectFutures
  <2>a. codes = {} => lost = {}
    <3>1. \A w \in lost : job[w].first \in codes
      OBVIOUS
    <3> HIDE DEF codes, lost, over
    <3>2. QED
      BY <3>1
  <2>b. \A d \in codes : d # "OK"
    OBVIOUS
  <2> HIDE DEF codes, lost, over
  <2>4. first' = "OK" => first = "OK" /\ lost = {}
    BY <2>2, <2>a, <2>b
  <2> USE DEF codes, lost, over
  <2>5. \A r \in done' : Dependencies(r) \cap scheduled' \subseteq done'
    <3>1. \A w \in over : Dependencies(RowOf(w)) \cap scheduled \subseteq done
      BY <1>0, <2>0, RowHanded
    <3>2. QED
      BY <1>0, <2>1, <3>1 DEF DoneStands
  <2>6. ASSUME first' = "OK", NEW r \in done' PROVE Settled(asked, r)'
    <3>1. CASE r \in done
      BY <1>0, <1>a, <2>1, <2>4, <2>6, <3>1 DEF DoneStands
    <3>2. CASE r \notin done
      <4>1. PICK w \in over : r = RowOf(w)
        BY <2>1, <3>2
      <4>2. w \in Workers /\ w \in Running /\ job[w].pc = "over" /\ job[w].first = "OK"
        BY <2>0, <2>4, <2>6
      <4>3. job[w].scheduled = {r}
        BY <1>0, <4>1, <4>2, RowHanded
      <4>4. Settled(asked, r)
        BY <1>0, <4>2, <4>3 DEF OkInv, OkSoFar, ThreadJobs
      <4>5. QED
        BY <1>a, <2>1, <4>4
    <3>3. QED
      BY <3>1, <3>2
  <2>7. stopped' => first' # "OK"
    BY <1>0, <2>3, <2>4 DEF DoneStands
  <2>8. QED
    BY <2>1, <2>5, <2>6, <2>7 DEF DoneStands
<1>6. CASE MainExits \/ MainCrashes
  <2>1. done' = {} /\ stopped' = FALSE /\ main' = "idle"
    BY <1>6 DEF MainExits, MainCrashes, Gone
  <2>2. QED
    BY <2>1 DEF DoneStands
<1>7. ASSUME NEW w \in Workers, Step(w) PROVE DoneStands'
  <2>1. UNCHANGED mainVars /\ InvocationStep(w)
    BY <1>7 DEF Step
  <2>2. \A e, r : r \in done /\ Settled(e, r) => Settled(e, r)'
    BY <1>0, <2>1, DoneRowsStand
  <2>3. UNCHANGED asked
    BY <2>1 DEF mainVars
  <2>4. \A r \in done : Settled(asked, r) => Settled(asked, r)'
    BY <2>2, <2>3
  <2>5. QED
    BY <1>0, <2>1, <2>4 DEF DoneStands, mainVars
<1>8. ASSUME NEW w \in Workers, Beside(w) \/ BesideEnds(w) PROVE DoneStands'
  BY <1>8 DEF Beside, BesideEnds
<1>9. CASE UNCHANGED poolVars
  <2>1. UNCHANGED <<attempts, main, pending, done, stopped, first, scheduled, asked>>
    BY <1>9 DEF poolVars, mainVars, rowVars
  <2>2. QED
    BY <1>0, <1>a, <2>1 DEF DoneStands
<1>10. CASE OrphanStep /\ UNCHANGED mainVars
  <2>1. UNCHANGED <<attempts, main, pending, done, stopped, first, scheduled, asked>>
    BY <1>0, <1>10, OrphanTyped DEF mainVars
  <2>2. QED
    BY <1>0, <1>a, <2>1 DEF DoneStands
<1>11. QED
  BY <1>1, <1>2, <1>3, <1>4, <1>5, <1>6, <1>7, <1>8, <1>9, <1>10 DEF PoolNext, Main

\* `run --all` of a campaign with parallel jobs, with or without --attempt, that
\* exits 0 leaves every scheduled row at a PASS that read the latest attempts, or
\* with a later attempt than the one it was told to make, as one without them: a
\* re-run is over before the readers of its row are looked at.
THEOREM ThreadsOkIsCurrent ==
  ASSUME WellFormed, Workers = Threads
  PROVE  PoolSpec => []PoolOkMeansCurrent
<1>1. PoolInit => PoolOkInv
  <2>1. PoolInit => PoolInv /\ OkInv
    BY PoolStarts, OkStarts DEF PoolInit
  <2>2. PoolInit => ThreadJobs /\ DoneStands
    BY DEF PoolInit, RowInit, ThreadJobs, Running, Idle, DoneStands
  <2>3. QED
    BY <2>1, <2>2 DEF PoolOkInv
<1>2. PoolOkInv /\ [PoolNext]_poolVars => PoolOkInv'
  <2> SUFFICES ASSUME PoolOkInv, [PoolNext]_poolVars PROVE PoolOkInv'
    OBVIOUS
  <2>1. RowInv /\ PoolTypeOK /\ PoolInv /\ OkInv /\ AllInTurn /\ ThreadJobs
    BY DEF PoolOkInv, PoolInv, OkInv, AttemptInv
  <2>2. RowNext /\ Apart
    BY <2>1, PoolMoves, PoolIsApart
  <2>3. PoolInv' /\ OkInv' /\ ThreadJobs' /\ DoneStands'
    BY <2>1, <2>2, PoolKept, OkKept, ThreadJobsKept, DoneStandsKept
  <2>4. QED
    BY <2>3 DEF PoolOkInv
<1>3. PoolOkInv => PoolOkMeansCurrent
  <2> SUFFICES ASSUME PoolOkInv, main = "returned", first = "OK", NEW r \in scheduled
               PROVE  Settled(asked, r)
    BY DEF PoolOkMeansCurrent, Settled, Outnumbered, Standing
  <2>1. Handed /\ DoneStands
    BY DEF PoolOkInv, PoolInv
  <2>2. pending = {} /\ Running = {}
    BY <2>1 DEF DoneStands, Handed
  <2>3. scheduled \ pending = done \cup {RowOf(w) : w \in Running}
    BY <2>1 DEF Handed
  <2>4. r \in done
    BY <2>2, <2>3
  <2>5. QED
    BY <2>1, <2>4 DEF DoneStands
<1>4. QED
  BY <1>1, <1>2, <1>3, PTL DEF PoolSpec
=============================================================================
