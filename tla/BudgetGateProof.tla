--------------------------- MODULE BudgetGateProof --------------------------
(***************************************************************************)
(* Why the ledger of BudgetGate keeps what it reserved, for any rows, GPUs, *)
(* hours and waits and any number of attempts: an admitted job's limit is   *)
(* at most what its inequality left, and what a job uses is at most its     *)
(* limit and the shutdown allowance; and why one retry is all there is.     *)
(***************************************************************************)
EXTENDS BudgetGate, SetFacts

-----------------------------------------------------------------------------
(* The invariant. *)

Records == [launched : BOOLEAN, hours : Nat, passed : BOOLEAN, export : BOOLEAN,
            settings : BOOLEAN, limited : BOOLEAN]
Jobs == [row : 0 .. NRows, wait : Nat, limit : Nat]

Shape ==
  /\ history \in [Rows -> Seq(Records)]
  /\ job \in Jobs /\ (job.row = 0 <=> job = Idle) /\ stop \in BOOLEAN

\* Only a launched attempt leaves an export, and a row passes by one or by an export.
LaunchedFirst ==
  \A r \in Rows :
    /\ \A k \in DOMAIN history[r] : history[r][k].export => k \in Launches(r)
    /\ Passed(r) => Launches(r) # {}

\* A row that has been launched comes after passed qualification rows only.
Ran(r) == Launches(r) # {} \/ job.row = r
InOrder == \A q \in Qualification, r \in Rows : r > q /\ Ran(r) => Passed(q)

\* The retry that is under way counts, and what is being trained has no export.
Retrying == IF job.row \in Training /\ Launches(job.row) # {} THEN 1 ELSE 0
Exports(r) == {k \in DOMAIN history[r] : history[r][k].export}
TrainedOnce ==
  /\ RetriesUsed + Retrying =< 1
  /\ \A r \in Training : /\ \A j, k \in Exports(r) : j = k
                         /\ job.row = r => Exports(r) = {}

IInv == Shape /\ LaunchedFirst /\ InOrder /\ TrainedOnce

-----------------------------------------------------------------------------
(* The ledger as a sum. *)

\* The rows are finitely many, and so are those of a kind.
LEMMA RowsAreFinite ==
  /\ \A rows \in SUBSET Rows : IsFiniteSet(rows)
  /\ Qualification \subseteq Rows /\ Training \subseteq Rows /\ Scorings \subseteq Rows
  /\ \A r \in Rows : r \in Qualification <=> Kind[r] = "qualification"
  /\ \A r \in Rows : r \in Training <=> Kind[r] = "training"
  /\ \A r \in Rows : r \in Scorings <=> Kind[r] = "scoring"
  /\ Rows \subseteq Qualification \cup Training \cup Scorings
<1>1. NRows \in Nat
  BY LedgerAssumption
<1>2. IsFiniteSet(Rows)
  BY <1>1, FS_Interval DEF Rows
<1>3. \A rows \in SUBSET Rows : IsFiniteSet(rows)
  BY <1>2, FS_Subset
<1>4. \A r \in Rows : Kind[r] \in {"qualification", "training", "scoring"}
  BY LedgerAssumption
<1>5. QED
  BY <1>3, <1>4 DEF Qualification, Training, Scorings, OfKind

\* Attempts are records, and a row's are finitely many.
LEMMA AttemptsAreRecords ==
  ASSUME Shape, NEW r \in Rows
  PROVE  /\ Len(history[r]) \in Nat /\ DOMAIN history[r] = 1 .. Len(history[r])
         /\ IsFiniteSet(DOMAIN history[r])
         /\ \A k \in DOMAIN history[r] : history[r][k] \in Records /\ history[r][k].hours \in Nat
         /\ Launches(r) \subseteq DOMAIN history[r] /\ Counted(r) \subseteq Launches(r)
<1>1. history[r] \in Seq(Records)
  BY DEF Shape
<1>2. Len(history[r]) \in Nat /\ DOMAIN history[r] = 1 .. Len(history[r])
  BY <1>1
<1>3. \A k \in DOMAIN history[r] : history[r][k] \in Records
  BY <1>1, <1>2
<1>4. IsFiniteSet(DOMAIN history[r])
  BY <1>2, FS_Interval
<1>5. QED
  BY <1>2, <1>3, <1>4 DEF Records, Launches, Counted

\* The hours of some attempts of a row are a natural, and not more than those of all.
LEMMA HoursAreNatural ==
  ASSUME Shape, NEW r \in Rows, NEW ks \in SUBSET (DOMAIN history[r])
  PROVE  /\ Hours(r, ks) \in Nat /\ Hours(r, DOMAIN history[r]) \in Nat
         /\ Hours(r, ks) =< Hours(r, DOMAIN history[r])
<1> DEFINE D == DOMAIN history[r]
           w == [k \in D |-> history[r][k].hours]
           v == [k \in ks |-> history[r][k].hours]
<1>1. IsFiniteSet(D) /\ IsFiniteSet(ks)
  BY AttemptsAreRecords, FS_Subset
<1>2. \A k \in D : w[k] \in Nat
  BY AttemptsAreRecords
<1>3. \A k \in ks : v[k] \in Int /\ w[k] = v[k]
  BY <1>2
<1>4. Hours(r, ks) = SumFunctionOnSet(v, ks) /\ Hours(r, D) = SumFunctionOnSet(w, D)
  BY DEF Hours
<1>0. ks \in SUBSET D
  OBVIOUS
<1> HIDE DEF D, w, v
<1>5. SumFunctionOnSet(v, ks) = SumFunctionOnSet(w, ks)
  BY <1>1, <1>3, SumOfEquals
<1>6. SumFunctionOnSet(w, ks) =< SumFunctionOnSet(w, D)
  BY <1>0, <1>1, <1>2, SumOfPart
<1>7. \A k \in ks : w[k] \in Nat
  BY <1>0, <1>2
<1>8. SumFunctionOnSet(w, ks) \in Nat /\ SumFunctionOnSet(w, D) \in Nat
  BY <1>1, <1>2, <1>7, SumOfNaturals
<1>9. QED
  BY <1>4, <1>5, <1>6, <1>8 DEF D

\* What counts of the rows is a natural, and not more than what they spent.
LEMMA UsedIsSpent ==
  ASSUME Shape, NEW rows \in SUBSET Rows
  PROVE  /\ UsedSoFar(rows) \in Nat /\ SpentOn(rows) \in Nat
         /\ UsedSoFar(rows) =< SpentOn(rows)
<1> DEFINE w == [r \in rows |-> Hours(r, Counted(r))]
           v == [r \in rows |-> Hours(r, DOMAIN history[r])]
<1>1. IsFiniteSet(rows)
  BY RowsAreFinite
<1>2. \A r \in rows : w[r] \in Nat /\ v[r] \in Nat /\ w[r] =< v[r]
  <2> TAKE r \in rows
  <2>1. r \in Rows /\ Counted(r) \in SUBSET (DOMAIN history[r])
    BY AttemptsAreRecords
  <2>2. QED
    BY <2>1, HoursAreNatural
<1>3. \A r \in rows : w[r] \in Int /\ v[r] \in Int /\ w[r] =< v[r]
  BY <1>2
<1>4. UsedSoFar(rows) = SumFunctionOnSet(w, rows) /\ SpentOn(rows) = SumFunctionOnSet(v, rows)
  BY DEF UsedSoFar, SpentOn
<1> HIDE DEF w, v
<1>5. SumFunctionOnSet(w, rows) =< SumFunctionOnSet(v, rows)
  BY <1>1, <1>3, SumIsMonotone
<1>6. SumFunctionOnSet(w, rows) \in Nat /\ SumFunctionOnSet(v, rows) \in Nat
  BY <1>1, <1>2, SumOfNaturals
<1>7. QED
  BY <1>4, <1>5, <1>6

\* Until another row is launched, the qualification rows are all that counts.
LEMMA OnlyQualification ==
  ASSUME Shape, \A r \in Rows \ Qualification : Launches(r) = {}
  PROVE  UsedSoFar(Rows) = UsedSoFar(Qualification)
<1> DEFINE w == [r \in Rows |-> Hours(r, Counted(r))]
           v == [r \in Qualification |-> Hours(r, Counted(r))]
<1>1. Qualification \in SUBSET Rows /\ IsFiniteSet(Rows) /\ IsFiniteSet(Qualification)
  BY RowsAreFinite
<1>2. \A r \in Rows : w[r] \in Nat
  <2> TAKE r \in Rows
  <2>1. Counted(r) \in SUBSET (DOMAIN history[r])
    BY AttemptsAreRecords
  <2>2. QED
    BY <2>1, HoursAreNatural
<1>3. \A r \in Rows \ Qualification : w[r] = 0
  <2> TAKE r \in Rows \ Qualification
  <2> DEFINE none == [k \in {} |-> history[r][k].hours]
  <2>1. Counted(r) = {}
    BY DEF Counted
  <2>2. Hours(r, Counted(r)) = SumFunctionOnSet(none, {})
    BY <2>1 DEF Hours
  <2>3. IsFiniteSet({}) /\ \A k \in {} : none[k] \in Int
    BY FS_EmptySet
  <2> HIDE DEF none
  <2>4. SumFunctionOnSet(none, {}) = 0
    BY <2>3, SumBySize
  <2>5. QED
    BY <2>2, <2>4
<1>4. UsedSoFar(Rows) = SumFunctionOnSet(w, Rows)
      /\ UsedSoFar(Qualification) = SumFunctionOnSet(v, Qualification)
  BY DEF UsedSoFar
<1>5. \A r \in Rows : w[r] \in Int
  BY <1>2
<1>6. \A r \in Qualification : w[r] \in Int /\ v[r] = w[r]
  BY <1>1, <1>5
<1> HIDE DEF w, v
<1>7. SumFunctionOnSet(w, Rows) = SumFunctionOnSet(w, Qualification)
  BY <1>1, <1>3, <1>5, SumOverPart
<1>8. SumFunctionOnSet(w, Qualification) = SumFunctionOnSet(v, Qualification)
  BY <1>1, <1>6, SumOfEquals
<1>9. QED
  BY <1>4, <1>7, <1>8

-----------------------------------------------------------------------------
(* An attempt is added. *)

\* The row's attempts are those it had and a last one; the other rows keep theirs.
LEMMA AddedLast ==
  ASSUME Shape, NEW r \in Rows, NEW a \in Records, Add(r, a)
  PROVE  /\ history' \in [Rows -> Seq(Records)]
         /\ \A s \in Rows \ {r} : history'[s] = history[s]
         /\ Len(history[r]) \in Nat /\ DOMAIN history[r] = 1 .. Len(history[r])
         /\ Len(history'[r]) = Len(history[r]) + 1
         /\ DOMAIN history'[r] = DOMAIN history[r] \cup {Len(history[r]) + 1}
         /\ Len(history[r]) + 1 \notin DOMAIN history[r]
         /\ \A k \in DOMAIN history[r] : history'[r][k] = history[r][k]
         /\ history'[r][Len(history[r]) + 1] = a
<1>1. history \in [Rows -> Seq(Records)] /\ history[r] \in Seq(Records)
  BY DEF Shape
<1>2. history'[r] = Append(history[r], a) /\ \A s \in Rows \ {r} : history'[s] = history[s]
  BY <1>1 DEF Add
<1>3. Append(history[r], a) \in Seq(Records)
  BY <1>1
<1>4. history' \in [Rows -> Seq(Records)]
  BY <1>1, <1>3 DEF Add
<1>5. /\ Len(history[r]) \in Nat /\ DOMAIN history[r] = 1 .. Len(history[r])
      /\ Len(history'[r]) = Len(history[r]) + 1
      /\ DOMAIN history'[r] = 1 .. Len(history[r]) + 1
      /\ \A k \in 1 .. Len(history[r]) : history'[r][k] = history[r][k]
      /\ history'[r][Len(history[r]) + 1] = a
  BY <1>1, <1>2
<1>6. QED
  BY <1>2, <1>4, <1>5

\* What the other rows have done, launched and used stays as it was.
LEMMA OtherRows ==
  ASSUME NEW s \in Rows, history'[s] = history[s]
  PROVE  /\ Launches(s)' = Launches(s) /\ Counted(s)' = Counted(s)
         /\ Hours(s, Counted(s))' = Hours(s, Counted(s))
         /\ Passed(s)' = Passed(s) /\ Retries(s)' = Retries(s) /\ Exports(s)' = Exports(s)
BY DEF Launches, Counted, Repeated, Hours, Passed, Attempts, Retries, Exports

\* A row passes by the attempt added or has passed before.
LEMMA PassedIs == \A r : Passed(r) <=> \E k \in DOMAIN history[r] : history[r][k].passed
BY DEF Passed, Attempts

\* The row itself: the attempt is launched and counts, or not.
LEMMA OwnRow ==
  ASSUME Shape, NEW r \in Rows, NEW a \in Records, Add(r, a), NEW n, n = Len(history[r]) + 1
  PROVE  /\ Launches(r)' = IF a.launched THEN Launches(r) \cup {n} ELSE Launches(r)
         /\ Passed(r)' <=> Passed(r) \/ a.passed
         /\ Exports(r)' = IF a.export THEN Exports(r) \cup {n} ELSE Exports(r)
         /\ n \notin Launches(r)
         /\ \A k \in DOMAIN history[r] \cup {n} : Repeated(r, k)' <=> Repeated(r, k)
         /\ Counted(r)' = IF a.launched /\ ~Repeated(r, n) THEN Counted(r) \cup {n} ELSE Counted(r)
<1> DEFINE D == DOMAIN history[r]
<1>1. /\ n \in Nat /\ n >= 1 /\ D = 1 .. n - 1 /\ DOMAIN history'[r] = D \cup {n} /\ n \notin D
      /\ \A k \in D : history'[r][k] = history[r][k]
      /\ history'[r][n] = a
  BY AddedLast
<1>2. {a.launched, a.passed, a.export} \subseteq BOOLEAN
  BY DEF Records
<1>3. Launches(r)' = IF a.launched THEN Launches(r) \cup {n} ELSE Launches(r)
  BY <1>1, <1>2 DEF Launches
<1>4. Passed(r)' <=> Passed(r) \/ a.passed
  <2>1. Passed(r)' <=> \E k \in DOMAIN history'[r] : history'[r][k].passed
    BY DEF Passed, Attempts
  <2>2. QED
    BY <1>1, <2>1, PassedIs
<1>5. Exports(r)' = IF a.export THEN Exports(r) \cup {n} ELSE Exports(r)
  BY <1>1, <1>2 DEF Exports
<1>6. \A k \in D \cup {n} : Repeated(r, k)' <=> Repeated(r, k)
  <2> TAKE k \in D \cup {n}
  <2>1. k \in Nat /\ \A j \in 1 .. k - 1 : j \in D
    BY <1>1
  <2>2. \A j \in 1 .. k - 1 : history'[r][j].passed <=> history[r][j].passed
    BY <1>1, <2>1
  <2>3. QED
    BY <2>2 DEF Repeated
<1>7. n \notin Launches(r)
  BY <1>1 DEF Launches
<1>8. Launches(r) \subseteq D
  BY DEF Launches
<1>9. \A k \in Launches(r)' : Repeated(r, k)' <=> Repeated(r, k)
  BY <1>3, <1>6, <1>8
<1>10. Counted(r)' = {k \in Launches(r)' : ~Repeated(r, k)}
  BY <1>9 DEF Counted
<1>11. Counted(r)' = IF a.launched /\ ~Repeated(r, n) THEN Counted(r) \cup {n} ELSE Counted(r)
  BY <1>2, <1>3, <1>10 DEF Counted
<1>12. QED
  BY <1>3, <1>4, <1>5, <1>6, <1>7, <1>11

\* Of the attempts added, the launched ones add their hours to what counts, and of
\* those of qualification the first ones only.
Adds(r, a) == IF a.launched /\ ~Repeated(r, Len(history[r]) + 1) THEN a.hours ELSE 0

LEMMA OwnHours ==
  ASSUME Shape, NEW r \in Rows, NEW a \in Records, Add(r, a)
  PROVE  Hours(r, Counted(r))' = Hours(r, Counted(r)) + Adds(r, a)
<1> DEFINE n == Len(history[r]) + 1
           ks == Counted(r)
           w == [k \in ks |-> history[r][k].hours]
           v == [k \in ks |-> history'[r][k].hours]
           u == [k \in ks \cup {n} |-> history'[r][k].hours]
<1>1. /\ ks \subseteq DOMAIN history[r] /\ IsFiniteSet(ks) /\ n \notin ks
      /\ \A k \in ks : history[r][k].hours \in Int /\ history'[r][k] = history[r][k]
      /\ history'[r][n] = a /\ a.hours \in Int
  <2>1. ks \in SUBSET (DOMAIN history[r])
    BY AttemptsAreRecords
  <2>2. QED
    BY <2>1, AttemptsAreRecords, AddedLast, FS_Subset DEF Records
<1>2. Hours(r, ks) = SumFunctionOnSet(w, ks)
  BY DEF Hours
<1>3. \A k \in ks : w[k] \in Int /\ v[k] = w[k] /\ u[k] = w[k]
  BY <1>1
<1>4. u[n] = a.hours /\ \A k \in ks \cup {n} : u[k] \in Int
  BY <1>1
<1>5. Counted(r)' = IF a.launched /\ ~Repeated(r, n) THEN ks \cup {n} ELSE ks
  BY OwnRow
<1>6. CASE ~(a.launched /\ ~Repeated(r, n))
  <2>1. Hours(r, Counted(r))' = SumFunctionOnSet(v, ks)
    BY <1>5, <1>6 DEF Hours
  <2>2. Adds(r, a) = 0
    BY <1>6 DEF Adds
  <2>3. Hours(r, ks) \in Nat
    BY <1>1, HoursAreNatural
  <2> HIDE DEF w, v, u, n, ks
  <2>4. SumFunctionOnSet(w, ks) = SumFunctionOnSet(v, ks)
    BY <1>1, <1>3, SumOfEquals
  <2>5. QED
    BY <1>2, <2>1, <2>2, <2>3, <2>4 DEF ks
<1>7. CASE a.launched /\ ~Repeated(r, n)
  <2>1. Hours(r, Counted(r))' = SumFunctionOnSet(u, ks \cup {n})
    BY <1>5, <1>7 DEF Hours
  <2>2. Adds(r, a) = a.hours
    BY <1>7 DEF Adds
  <2>3. IsFiniteSet(ks \cup {n}) /\ (ks \cup {n}) \ {n} = ks
    BY <1>1, FS_AddElement
  <2>4. Hours(r, ks) \in Nat
    BY <1>1, HoursAreNatural
  <2> HIDE DEF w, v, u, n, ks
  <2>5. SumFunctionOnSet(u, ks \cup {n}) = u[n] + SumFunctionOnSet(u, (ks \cup {n}) \ {n})
    BY <1>4, <2>3, SumBySize
  <2>6. SumFunctionOnSet(w, ks) = SumFunctionOnSet(u, ks)
    BY <1>1, <1>3, SumOfEquals
  <2>7. SumFunctionOnSet(u, ks \cup {n}) = a.hours + SumFunctionOnSet(u, ks)
    BY ONLY <1>4, <2>3, <2>5
  <2>8. a.hours \in Int
    BY <1>1
  <2>9. Hours(r, Counted(r))' = a.hours + Hours(r, ks)
    BY ONLY <1>2, <2>1, <2>6, <2>7
  <2>10. Hours(r, Counted(r))' = Hours(r, ks) + Adds(r, a)
    BY ONLY <2>2, <2>4, <2>8, <2>9
  <2>11. QED
    BY <2>10 DEF ks
<1>8. QED
  BY <1>6, <1>7

\* What counts of a set of rows grows by what the attempt adds.
LEMMA UsedGrows ==
  ASSUME Shape, NEW r \in Rows, NEW a \in Records, Add(r, a), NEW rows \in SUBSET Rows
  PROVE  UsedSoFar(rows)' = UsedSoFar(rows) + IF r \in rows THEN Adds(r, a) ELSE 0
<1> DEFINE w == [s \in rows |-> Hours(s, Counted(s))]
           v == [s \in rows |-> Hours(s, Counted(s))']
<1>1. IsFiniteSet(rows) /\ UsedSoFar(rows) \in Nat
  BY RowsAreFinite, UsedIsSpent
<1>2. \A s \in rows : w[s] \in Int
  <2> TAKE s \in rows
  <2>1. s \in Rows /\ Counted(s) \in SUBSET (DOMAIN history[s])
    BY AttemptsAreRecords
  <2>2. QED
    BY <2>1, HoursAreNatural
<1>3. UsedSoFar(rows) = SumFunctionOnSet(w, rows) /\ UsedSoFar(rows)' = SumFunctionOnSet(v, rows)
  BY DEF UsedSoFar
<1>4. \A s \in rows \ {r} : v[s] = w[s]
  <2> TAKE s \in rows \ {r}
  <2>1. history'[s] = history[s] /\ s \in Rows
    BY AddedLast
  <2>2. QED
    BY <2>1, OtherRows
<1>5. CASE r \notin rows
  <2>1. \A s \in rows : w[s] \in Int /\ v[s] = w[s]
    BY <1>2, <1>4, <1>5
  <2> HIDE DEF w, v
  <2>2. SumFunctionOnSet(w, rows) = SumFunctionOnSet(v, rows)
    BY <1>1, <2>1, SumOfEquals
  <2>3. QED
    BY <1>1, <1>3, <1>5, <2>2
<1>6. CASE r \in rows
  <2>1. v[r] = w[r] + Adds(r, a) /\ Adds(r, a) \in Nat
    <3>1. Hours(r, Counted(r))' = Hours(r, Counted(r)) + Adds(r, a)
      BY OwnHours
    <3>2. QED
      BY <1>6, <3>1 DEF Adds, Records
  <2>2. \A s \in rows : w[s] \in Int /\ v[s] \in Int
    BY <1>2, <1>4, <2>1
  <2>3. w[r] \in Int
    BY <1>2, <1>6
  <2> HIDE DEF w, v
  <2>4. SumFunctionOnSet(v, rows) = (SumFunctionOnSet(w, rows) - w[r]) + v[r]
    BY <1>1, <1>4, <1>6, <2>2, SumChanges
  <2>5. QED
    BY <1>1, <1>3, <1>6, <2>1, <2>3, <2>4
<1>7. QED
  BY <1>5, <1>6

-----------------------------------------------------------------------------
(* Limits. *)

LEMMA MaxWithZero ==
  ASSUME NEW x \in Int
  PROVE  Max({0, x}) = IF x > 0 THEN x ELSE 0
<1> DEFINE m == IF x > 0 THEN x ELSE 0
<1>1. m \in {0, x} /\ \A y \in {0, x} : m >= y
  OBVIOUS
<1>2. \A n \in {0, x} : (\A y \in {0, x} : n >= y) => n = m
  OBVIOUS
<1> HIDE DEF m
<1>3. Max({0, x}) = m
  BY <1>1, <1>2 DEF Max
<1>4. QED
  BY <1>3 DEF m

\* All GPUs for the limit and the shutdown allowance cost no more than was left.
LEMMA LimitFits ==
  ASSUME NEW left \in Int, NEW g \in Nat \ {0}, NEW m,
         m = Max({0, Max({0, left \div g}) - Grace}), m > 0
  PROVE  m \in Nat /\ (m + Grace) * g =< left
<1>1. Grace \in Nat /\ left \div g \in Int /\ (left \div g) * g =< left
  BY LedgerAssumption
<1> DEFINE d == left \div g
<1> HIDE DEF d
<1>2. Max({0, d}) = IF d > 0 THEN d ELSE 0
  BY <1>1, MaxWithZero DEF d
<1>3. Max({0, d}) - Grace \in Int
  BY <1>1, <1>2 DEF d
<1>4. m = IF Max({0, d}) - Grace > 0 THEN Max({0, d}) - Grace ELSE 0
  BY <1>3, MaxWithZero DEF d
<1>5. m + Grace = d /\ m \in Nat
  BY <1>1, <1>2, <1>4 DEF d
<1>6. QED
  BY <1>1, <1>5 DEF d

\* A wait, a run and the shutdown allowance are paid for apart.
LEMMA Apart ==
  ASSUME NEW a \in Nat, NEW b \in Nat, NEW g \in Nat
  PROVE  a * g \in Nat /\ (a + b) * g = a * g + b * g
OBVIOUS

LEMMA Times ==
  ASSUME NEW a \in Nat, NEW b \in Nat, NEW g \in Nat, a =< b
  PROVE  a * g \in Nat /\ b * g \in Nat /\ a * g =< b * g
OBVIOUS

\* What is reserved and left is a number.
LEMMA Numbers ==
  /\ Reserve \in Nat /\ Allowance \in Int /\ Allowance + Reserve = Ceiling
  /\ Ceiling \in Nat /\ E \in Nat /\ Grace \in Nat
  /\ \A part \in SUBSET Scorings :
       /\ Cardinality(part) \in Nat /\ Cardinality(part) * E \in Nat
       /\ Cardinality(part) * E =< Reserve
       /\ \A less \in SUBSET part : Cardinality(less) * E =< Cardinality(part) * E
<1>1. Ceiling \in Nat /\ E \in Nat /\ Grace \in Nat /\ T \in Nat
  BY LedgerAssumption
<1>2. IsFiniteSet(Scorings) /\ IsFiniteSet(Training)
  BY RowsAreFinite
<1>3. Cardinality(Scorings) \in Nat /\ Cardinality(Training) \in Nat
  BY <1>2, FS_CardinalityType
<1>4. ASSUME NEW part \in SUBSET Scorings, NEW less \in SUBSET part
      PROVE  /\ Cardinality(less) \in Nat /\ Cardinality(less) * E \in Nat
             /\ Cardinality(part) * E \in Nat
             /\ Cardinality(less) * E =< Cardinality(part) * E
  <2>1. IsFiniteSet(part) /\ IsFiniteSet(less)
    BY <1>2, FS_Subset
  <2>2. Cardinality(less) =< Cardinality(part)
    BY <2>1, FS_Subset
  <2>3. Cardinality(less) \in Nat /\ Cardinality(part) \in Nat
    BY <2>1, FS_CardinalityType
  <2>4. QED
    BY <1>1, <2>2, <2>3, Times
<1>5. (Cardinality(Training) + 1) * T \in Nat /\ Cardinality(Scorings) * E \in Nat
  BY <1>1, <1>3, Apart
<1>6. Reserve \in Nat /\ Cardinality(Scorings) * E =< Reserve
  BY <1>5 DEF Reserve
<1>7. \A part \in SUBSET Scorings : Cardinality(part) * E =< Cardinality(Scorings) * E
  BY <1>4
<1>8. \A part \in SUBSET Scorings : Cardinality(part) * E \in Nat /\ Cardinality(part) \in Nat
  BY <1>4
<1>9. \A part \in SUBSET Scorings : Cardinality(part) * E =< Reserve
  BY <1>5, <1>6, <1>7, <1>8
<1>10. Allowance \in Int /\ Allowance + Reserve = Ceiling
  BY <1>1, <1>6 DEF Allowance
<1>11. \A part \in SUBSET Scorings :
         \A less \in SUBSET part : Cardinality(less) * E =< Cardinality(part) * E
  BY <1>4
<1>12. QED
  BY <1>1, <1>6, <1>8, <1>9, <1>10, <1>11

-----------------------------------------------------------------------------
(* An admitted row: nothing is spent yet, and its limit fits. *)

Tried(r) == Outstanding(Scorings) \ {r}

LEMMA AdmittedFits ==
  ASSUME Shape, NEW r \in Rows, NEW w \in Waits, Admit(r, w)
  PROVE  /\ job = Idle /\ job.row = 0 /\ history' = history /\ stop' = stop
         /\ job'.row = r /\ job' \in Jobs /\ job' # Idle /\ r # 0
         /\ Kept(r) = {} /\ ~Unavailable(r) /\ (\A s \in Needs[r] : Passed(s))
         /\ (job'.wait + job'.limit + Grace) * Gpus[r] \in Nat
         /\ IF r \in Qualification
              THEN SpentOn(Qualification) + (job'.wait + job'.limit + Grace) * Gpus[r] =< Allowance
              ELSE SpentOn(Rows) + (job'.wait + job'.limit + Grace) * Gpus[r]
                     + Cardinality(Tried(r)) * E =< Ceiling
<1>1. /\ job = Idle /\ history' = history /\ stop' = stop
      /\ job' = [row |-> r, wait |-> w, limit |-> LimitOf(r, w)] /\ LimitOf(r, w) > 0
      /\ Kept(r) = {} /\ ~Unavailable(r) /\ \A s \in Needs[r] : Passed(s)
  BY DEF Admit, Admits, MayStart
<1>2. w \in Nat /\ Gpus[r] \in Nat \ {0} /\ Grace \in Nat /\ r \in 1 .. NRows /\ NRows \in Nat
  BY LedgerAssumption DEF Rows
<1> DEFINE g == Gpus[r]
           m == LimitOf(r, w)
           left == Left(r, w)
<1>3. w * g \in Nat
  BY <1>2, Apart
<1>4. /\ Qualification \in SUBSET Rows /\ Rows \in SUBSET Rows
      /\ r \in Qualification <=> Kind[r] = "qualification"
  BY RowsAreFinite
<1>5. SpentOn(Qualification) \in Nat /\ SpentOn(Rows) \in Nat
  BY <1>4, UsedIsSpent
<1>6. Tried(r) \in SUBSET Scorings
  BY DEF Tried, Outstanding
<1>7. Cardinality(Tried(r)) * E \in Nat
  BY <1>6, Numbers
<1>8. left = IF r \in Qualification
               THEN Allowance - (SpentOn(Qualification) + w * g)
               ELSE Ceiling - (SpentOn(Rows) + w * g) - Cardinality(Tried(r)) * E
  BY <1>4 DEF Left, Spent, Others, Tried
<1>9. left \in Int
  BY <1>3, <1>5, <1>7, <1>8, Numbers
<1>10. m = Max({0, Max({0, left \div g}) - Grace}) /\ m > 0
  BY <1>1 DEF LimitOf
<1>11. job'.wait = w /\ job'.limit = m /\ job'.row = r /\ job' = [row |-> r, wait |-> w, limit |-> m]
  BY <1>1
<1> HIDE DEF g, m, left
<1>12. m \in Nat /\ (m + Grace) * g =< left
  BY <1>2, <1>9, <1>10, LimitFits DEF g
<1>13. (w + (m + Grace)) * g = w * g + (m + Grace) * g /\ (m + Grace) * g \in Nat
  BY <1>2, <1>12, Apart DEF g
<1>14. w + (m + Grace) = w + m + Grace
  BY <1>2, <1>12
<1>15. (job'.wait + job'.limit + Grace) * g = w * g + (m + Grace) * g
  BY <1>11, <1>13, <1>14
<1>16. IF r \in Qualification
         THEN SpentOn(Qualification) + (w * g + (m + Grace) * g) =< Allowance
         ELSE SpentOn(Rows) + (w * g + (m + Grace) * g) + Cardinality(Tried(r)) * E =< Ceiling
  BY <1>3, <1>5, <1>7, <1>8, <1>12, <1>13, Numbers
<1>17. job' \in Jobs /\ job' # Idle /\ r # 0 /\ job.row = 0
  BY <1>1, <1>2, <1>11, <1>12 DEF Jobs, Idle
<1>18. QED
  BY <1>1, <1>3, <1>11, <1>13, <1>15, <1>16, <1>17 DEF g

-----------------------------------------------------------------------------
(* Retries. *)

LEMMA RetriesOf ==
  ASSUME Shape, NEW r \in Rows
  PROVE  /\ Retries(r) \in Nat /\ IsFiniteSet(Launches(r))
         /\ Launches(r) = {} => Retries(r) = 0
         /\ Launches(r) # {} => Retries(r) = Cardinality(Launches(r)) - 1
<1>1. IsFiniteSet(Launches(r))
  BY AttemptsAreRecords, FS_Subset
<1>2. Cardinality(Launches(r)) \in Nat /\ (Cardinality(Launches(r)) = 0 <=> Launches(r) = {})
  BY <1>1, FS_CardinalityType, FS_EmptySet
<1>3. Retries(r) = IF Cardinality(Launches(r)) - 1 > 0 THEN Cardinality(Launches(r)) - 1 ELSE 0
  BY <1>2, MaxWithZero DEF Retries
<1>4. QED
  BY <1>1, <1>2, <1>3

\* So it is after a step.
Counts ==
  \A r \in Rows :
    /\ Retries(r) \in Nat /\ IsFiniteSet(Launches(r))
    /\ Launches(r) = {} => Retries(r) = 0
    /\ Launches(r) # {} => Retries(r) = Cardinality(Launches(r)) - 1

LEMMA RetriesCount == Shape => Counts
BY RetriesOf DEF Counts

LEMMA RetriesAfter == Shape' => Counts'
BY RetriesCount, PTL

\* The retries of a block are a sum of naturals, and change with those of one row.
LEMMA RetriesChange ==
  ASSUME Shape, Shape', NEW r \in Rows,
         \A s \in Rows \ {r} : Retries(s)' = Retries(s)
  PROVE  /\ RetriesUsed \in Nat
         /\ RetriesUsed' = RetriesUsed
              + IF r \in Training THEN Retries(r)' - Retries(r) ELSE 0
<1> DEFINE w == [s \in Training |-> Retries(s)]
           v == [s \in Training |-> Retries(s)']
<1>1. IsFiniteSet(Training) /\ Training \subseteq Rows
  BY RowsAreFinite
<1>2. \A s \in Rows : Retries(s) \in Nat /\ Retries(s)' \in Nat
  BY RetriesOf, RetriesAfter DEF Counts
<1>3. \A s \in Training : w[s] = Retries(s) /\ v[s] = Retries(s)' /\ w[s] \in Nat /\ v[s] \in Nat
  BY <1>1, <1>2
<1>4. RetriesUsed = SumFunctionOnSet(w, Training) /\ RetriesUsed' = SumFunctionOnSet(v, Training)
  BY DEF RetriesUsed
<1>5. \A s \in Training \ {r} : v[s] = w[s]
  BY <1>1, <1>3
<1>6. \A s \in Training : w[s] \in Int /\ v[s] \in Int /\ w[s] \in Nat
  BY <1>3
<1> HIDE DEF w, v
<1>7. SumFunctionOnSet(w, Training) \in Nat
  BY <1>1, <1>6, SumOfNaturals
<1>8. CASE r \in Training
  <2>1. SumFunctionOnSet(v, Training) = (SumFunctionOnSet(w, Training) - w[r]) + v[r]
    BY <1>1, <1>5, <1>6, <1>8, SumChanges
  <2>2. w[r] = Retries(r) /\ v[r] = Retries(r)' /\ w[r] \in Int /\ v[r] \in Int
    BY <1>3, <1>6, <1>8
  <2>3. QED
    BY ONLY <1>4, <1>7, <1>8, <2>1, <2>2
<1>9. CASE r \notin Training
  <2>1. \A s \in Training : w[s] \in Int /\ v[s] = w[s]
    BY <1>5, <1>6, <1>9
  <2>2. SumFunctionOnSet(w, Training) = SumFunctionOnSet(v, Training)
    BY <1>1, <2>1, SumOfEquals
  <2>3. QED
    BY ONLY <1>4, <1>7, <1>9, <2>2
<1>10. QED
  BY <1>8, <1>9

\* A launch of a row that has been launched before is one retry more.
LEMMA LaunchRetries ==
  ASSUME Shape, Shape', NEW r \in Rows, NEW a \in Records, Add(r, a), a.launched
  PROVE  Retries(r)' - Retries(r) = IF Launches(r) = {} THEN 0 ELSE 1
<1> DEFINE n == Len(history[r]) + 1
<1>1. Launches(r)' = Launches(r) \cup {n} /\ n \notin Launches(r)
  BY OwnRow
<1> HIDE DEF n
<1>2. IsFiniteSet(Launches(r))
  BY RetriesOf
<1>3. Cardinality(Launches(r) \cup {n}) = Cardinality(Launches(r)) + 1
  BY <1>1, <1>2, FS_AddElement
<1>4. Cardinality(Launches(r)) \in Nat /\ (Launches(r) = {} => Cardinality(Launches(r)) = 0)
  BY <1>2, FS_CardinalityType, FS_EmptySet
<1>5. Retries(r)' = Cardinality(Launches(r)') - 1
  BY <1>1, RetriesAfter DEF Counts
<1>6. /\ Launches(r) = {} => Retries(r) = 0
      /\ Launches(r) # {} => Retries(r) = Cardinality(Launches(r)) - 1
  BY RetriesOf
<1>7. QED
  BY ONLY <1>1, <1>3, <1>4, <1>5, <1>6

-----------------------------------------------------------------------------
(* The steps. *)

\* An attempt that launched nothing: what counts, what ran and what was retried is
\* as before; the row may have passed by an export it kept.
LEMMA NothingLaunched ==
  ASSUME IInv, job = Idle, job' = job, stop' \in BOOLEAN, NEW r \in Rows, NEW a \in Records, Add(r, a),
         ~a.launched, ~a.export, a.passed => Kept(r) # {}
  PROVE  /\ IInv' /\ \A rows \in SUBSET Rows : UsedSoFar(rows)' = UsedSoFar(rows)
         /\ \A s \in Rows : Launches(s)' = Launches(s)
<1>1. Shape
  BY DEF IInv
<1>2. Shape'
  BY <1>1, AddedLast DEF Shape
<1>3. \A s \in Rows \ {r} : history'[s] = history[s]
  BY <1>1, AddedLast
<1>4. \A s \in Rows \ {r} : /\ Launches(s)' = Launches(s) /\ Passed(s)' = Passed(s)
                            /\ Retries(s)' = Retries(s) /\ Exports(s)' = Exports(s)
  BY <1>3, OtherRows
<1>5. /\ Launches(r)' = Launches(r) /\ Exports(r)' = Exports(r)
      /\ Passed(r)' <=> Passed(r) \/ a.passed
  BY <1>1, OwnRow
<1>6. \A rows \in SUBSET Rows : UsedSoFar(rows)' = UsedSoFar(rows)
  <2> TAKE rows \in SUBSET Rows
  <2>1. UsedSoFar(rows)' = UsedSoFar(rows) + IF r \in rows THEN Adds(r, a) ELSE 0
    BY <1>1, UsedGrows
  <2>2. Adds(r, a) = 0 /\ UsedSoFar(rows) \in Nat
    BY <1>1, UsedIsSpent DEF Adds
  <2>3. QED
    BY <2>1, <2>2
<1>7. \A s \in Rows : Launches(s)' = Launches(s) /\ Exports(s)' = Exports(s) /\ (Passed(s) => Passed(s)')
  BY <1>4, <1>5
<1>8. LaunchedFirst'
  <2>1. \A s \in Rows : Exports(s) \subseteq Launches(s)
    BY DEF IInv, LaunchedFirst, Exports
  <2>2. \A s \in Rows : \A k \in DOMAIN history'[s] : history'[s][k].export => k \in Launches(s)'
    BY <1>7, <2>1 DEF Exports
  <2>3. Kept(r) \subseteq Launches(r)
    BY <2>1 DEF Kept, Exports
  <2>4. \A s \in Rows : Passed(s)' => Launches(s)' # {}
    BY <1>4, <1>5, <2>3 DEF IInv, LaunchedFirst
  <2>5. QED
    BY <2>2, <2>4 DEF LaunchedFirst
<1>9. InOrder'
  <2>1. \A s \in Rows : Ran(s)' <=> Ran(s)
    BY <1>7 DEF Ran
  <2>2. Qualification \subseteq Rows
    BY RowsAreFinite
  <2>3. QED
    BY <1>7, <2>1, <2>2 DEF IInv, InOrder
<1>10. TrainedOnce'
  <2>1. Retries(r)' = Retries(r)
    BY <1>5 DEF Retries
  <2>2. RetriesUsed' = RetriesUsed
    <3>1. Retries(r) \in Nat
      BY <1>1, RetriesOf
    <3>2. /\ RetriesUsed \in Nat
          /\ RetriesUsed' = RetriesUsed + IF r \in Training THEN Retries(r)' - Retries(r) ELSE 0
      BY <1>1, <1>2, <1>4, RetriesChange
    <3>3. QED
      BY <2>1, <3>1, <3>2
  <2>3. Retrying' = Retrying
    BY <1>7, RowsAreFinite DEF Retrying
  <2>4. Training \subseteq Rows
    BY RowsAreFinite
  <2>5. QED
    BY <1>7, <2>2, <2>3, <2>4 DEF IInv, TrainedOnce
<1>11. QED
  BY <1>2, <1>6, <1>7, <1>8, <1>9, <1>10 DEF IInv

\* An admission: the retry goes to a block that has had none.
LEMMA AdmitKeeps ==
  ASSUME IInv, NEW r \in Rows, NEW w \in Waits, Admit(r, w)
  PROVE  IInv'
<1>1. /\ Shape /\ LaunchedFirst /\ InOrder /\ TrainedOnce
  BY DEF IInv
<1>2. /\ job = Idle /\ job.row = 0 /\ history' = history /\ stop' = stop /\ job'.row = r
      /\ job' \in Jobs /\ job' # Idle /\ r # 0
      /\ Kept(r) = {} /\ ~Unavailable(r) /\ \A s \in Needs[r] : Passed(s)
  BY <1>1, AdmittedFits
<1>3. \A s \in Rows : /\ Launches(s)' = Launches(s) /\ (Passed(s)' <=> Passed(s))
                      /\ Retries(s)' = Retries(s) /\ Exports(s)' = Exports(s)
  BY <1>2, OtherRows
<1>4. Shape'
  BY <1>1, <1>2 DEF Shape
<1>5. LaunchedFirst'
  BY <1>1, <1>2, <1>3 DEF LaunchedFirst
<1>6. InOrder'
  <2>1. Qualification \subseteq Rows
    BY RowsAreFinite
  <2>2. \A q \in Qualification : r > q => Passed(q)
    <3> TAKE q \in Qualification
    <3> HAVE r > q
    <3>1. PICK n \in Needs[r] : n >= q
      BY ScreenAssumption DEF QualificationFirst
    <3>2. n \in Rows /\ Passed(n)
      BY <1>2, <3>1, LedgerAssumption
    <3>3. CASE n = q
      BY <3>2, <3>3
    <3>4. CASE n # q
      <4>1. n > q
        BY <2>1, <3>1, <3>2, <3>4, LedgerAssumption DEF Rows
      <4>2. Ran(n)
        BY <1>1, <3>2 DEF LaunchedFirst, Ran
      <4>3. QED
        BY <1>1, <3>2, <4>1, <4>2 DEF InOrder
    <3>5. QED
      BY <3>3, <3>4
  <2>3. \A s \in Rows : Ran(s)' => Ran(s) \/ s = r
    BY <1>2, <1>3 DEF Ran
  <2>4. QED
    BY <1>1, <1>3, <2>1, <2>2, <2>3 DEF InOrder
<1>7. TrainedOnce'
  <2>1. Training \subseteq Rows
    BY RowsAreFinite
  <2>2. RetriesUsed' = RetriesUsed /\ RetriesUsed \in Nat
    <3>1. Retries(r)' = Retries(r) /\ Retries(r) \in Nat
      BY <1>1, <1>3, RetriesOf
    <3>2. /\ RetriesUsed \in Nat
          /\ RetriesUsed' = RetriesUsed + IF r \in Training THEN Retries(r)' - Retries(r) ELSE 0
      BY <1>1, <1>3, <1>4, RetriesChange
    <3>3. QED
      BY <3>1, <3>2
  <2>3. RetriesUsed' + Retrying' =< 1
    <3>1. CASE r \in Training /\ Launches(r) # {}
      <4>1. RetriesUsed = 0
        <5>1. Kind[r] = "training"
          BY <3>1, <2>1, RowsAreFinite
        <5>2. QED
          BY <1>2, <3>1, <5>1 DEF Unavailable, MayRetry
      <4>2. Retrying' = 1
        BY <1>2, <1>3, <3>1 DEF Retrying
      <4>3. QED
        BY <2>2, <4>1, <4>2
    <3>2. CASE ~(r \in Training /\ Launches(r) # {})
      <4>1. Retrying' = 0
        BY <1>2, <1>3, <3>2 DEF Retrying
      <4>2. RetriesUsed =< 1
        BY <1>1, <2>2 DEF TrainedOnce, Retrying
      <4>3. QED
        BY <2>2, <4>1, <4>2
    <3>3. QED
      BY <3>1, <3>2
  <2>4. \A s \in Training : job'.row = s => Exports(s)' = {}
    <3>1. r \in Training => Exports(r) = {}
      <4>1. r \in Training => Kind[r] = "training"
        BY RowsAreFinite
      <4>2. QED
        BY <1>2, <4>1 DEF Kept, Exports, Trains
    <3>2. QED
      BY <1>2, <1>3, <3>1
  <2>5. \A s \in Training : \A j, k \in Exports(s)' : j = k
    BY <1>1, <1>3, <2>1 DEF TrainedOnce
  <2>6. QED
    BY <2>3, <2>4, <2>5 DEF TrainedOnce
<1>8. QED
  BY <1>4, <1>5, <1>6, <1>7 DEF IInv

\* A launched attempt ends: what it was admitted for covers what it used.
LEMMA EndedFits ==
  ASSUME Shape, NEW u \in Ends, NEW x \in Results, NEW stops \in BOOLEAN, End(u, x, stops)
  PROVE  \E r \in Rows, a \in Records :
           /\ job.row = r /\ job # Idle /\ job' = Idle /\ job'.row = 0 /\ stop' \in BOOLEAN
           /\ Add(r, a) /\ a.launched
           /\ a.hours =< (job.wait + job.limit + Grace) * Gpus[r]
           /\ (job.wait + job.limit + Grace) * Gpus[r] \in Nat
<1> DEFINE r == job.row
           a == [launched |-> TRUE, hours |-> (job.wait + u) * Gpus[r], passed |-> x.passed,
                 export |-> x.export, settings |-> x.settings, limited |-> (u >= job.limit)]
<1>1. /\ job # Idle /\ job' = Idle /\ Add(r, a) /\ stop' = (stop \/ stops)
  BY DEF End
<1>2. job \in Jobs /\ job.row # 0 /\ stop \in BOOLEAN
  BY <1>1 DEF Shape
<1>3. job.wait \in Nat /\ job.limit \in Nat /\ job.row \in 0 .. NRows
  BY <1>2 DEF Jobs
<1>4. r \in Rows /\ Grace \in Nat /\ Durations \subseteq Nat
  BY <1>2, <1>3, LedgerAssumption DEF Rows
<1>5. Gpus[r] \in Nat
  BY <1>4, LedgerAssumption
<1>6. u \in Nat /\ u =< job.limit + Grace
  BY <1>3, <1>4 DEF Ends
<1>7. /\ job.wait + u \in Nat /\ job.wait + job.limit + Grace \in Nat
      /\ job.wait + u =< job.wait + job.limit + Grace
  BY <1>3, <1>4, <1>6
<1> HIDE DEF r
<1>8. /\ (job.wait + u) * Gpus[r] \in Nat /\ (job.wait + job.limit + Grace) * Gpus[r] \in Nat
      /\ (job.wait + u) * Gpus[r] =< (job.wait + job.limit + Grace) * Gpus[r]
  BY <1>5, <1>7, Times
<1>9. {x.passed, x.export, x.settings} \subseteq BOOLEAN /\ (u >= job.limit) \in BOOLEAN
  BY DEF Results
<1>10. a \in Records /\ a.launched /\ a.hours = (job.wait + u) * Gpus[r]
  BY <1>8, <1>9 DEF Records
<1>11. job'.row = 0 /\ stop' \in BOOLEAN /\ job.row = r
  BY <1>1, <1>2 DEF Idle, r
<1> HIDE DEF a
<1>12. QED
  BY <1>1, <1>4, <1>8, <1>10, <1>11

LEMMA EndKeeps ==
  ASSUME IInv, NEW u \in Ends, NEW x \in Results, NEW stops \in BOOLEAN, End(u, x, stops)
  PROVE  IInv'
<1>1. /\ Shape /\ LaunchedFirst /\ InOrder /\ TrainedOnce
  BY DEF IInv
<1>2. PICK r \in Rows : \E a \in Records :
           /\ job.row = r /\ job # Idle /\ job' = Idle /\ job'.row = 0 /\ stop' \in BOOLEAN
           /\ Add(r, a) /\ a.launched
  BY <1>1, EndedFits
<1>3. PICK a \in Records :
           /\ job.row = r /\ job # Idle /\ job' = Idle /\ job'.row = 0 /\ stop' \in BOOLEAN
           /\ Add(r, a) /\ a.launched
  BY <1>2
<1> DEFINE n == Len(history[r]) + 1
<1>4. \A s \in Rows \ {r} : history'[s] = history[s]
  BY <1>1, <1>3, AddedLast
<1>5. \A s \in Rows \ {r} : /\ Launches(s)' = Launches(s) /\ (Passed(s)' <=> Passed(s))
                            /\ Retries(s)' = Retries(s) /\ Exports(s)' = Exports(s)
  BY <1>4, OtherRows
<1>6. /\ Launches(r)' = Launches(r) \cup {n} /\ (Passed(r) => Passed(r)')
      /\ Exports(r)' = IF a.export THEN Exports(r) \cup {n} ELSE Exports(r)
  BY <1>1, <1>3, OwnRow
<1> HIDE DEF n
<1>7. Shape'
  <2>1. job' \in Jobs
    BY <1>3, LedgerAssumption DEF Jobs, Idle
  <2>2. QED
    BY <1>1, <1>3, <2>1, AddedLast DEF Shape
<1>8. LaunchedFirst'
  <2>1. \A s \in Rows : Exports(s) \subseteq Launches(s)
    BY <1>1 DEF LaunchedFirst, Exports
  <2>2. \A s \in Rows : Exports(s)' \subseteq Launches(s)'
    BY <1>5, <1>6, <2>1
  <2>3. \A s \in Rows : \A k \in DOMAIN history'[s] : history'[s][k].export => k \in Launches(s)'
    BY <2>2 DEF Exports
  <2>4. \A s \in Rows : Passed(s)' => Launches(s)' # {}
    BY <1>1, <1>5, <1>6 DEF LaunchedFirst
  <2>5. QED
    BY <2>3, <2>4 DEF LaunchedFirst
<1>9. 0 \notin Rows /\ Qualification \subseteq Rows /\ Training \subseteq Rows
  BY LedgerAssumption, RowsAreFinite DEF Rows
<1>10. InOrder'
  <2>1. \A s \in Rows : Ran(s)' => Ran(s)
    BY <1>3, <1>5, <1>9 DEF Ran
  <2>2. \A s \in Rows : Passed(s) => Passed(s)'
    BY <1>5, <1>6
  <2>3. QED
    BY <1>1, <1>9, <2>1, <2>2 DEF InOrder
<1>11. TrainedOnce'
  <2>1. Retries(r)' - Retries(r) = IF Launches(r) = {} THEN 0 ELSE 1
    BY <1>1, <1>3, <1>7, LaunchRetries
  <2>2. /\ RetriesUsed \in Nat
        /\ RetriesUsed' = RetriesUsed + IF r \in Training THEN Retries(r)' - Retries(r) ELSE 0
    BY <1>1, <1>5, <1>7, RetriesChange
  <2>3. RetriesUsed' = RetriesUsed + Retrying
    BY <1>3, <2>1, <2>2 DEF Retrying
  <2>4. Retrying' = 0
    BY <1>3, <1>9 DEF Retrying
  <2>5. RetriesUsed' + Retrying' =< 1
    <3>1. RetriesUsed + Retrying =< 1 /\ Retrying \in Nat
      BY <1>1 DEF TrainedOnce, Retrying
    <3>2. QED
      BY <2>2, <2>3, <2>4, <3>1
  <2>6. \A s \in Training : \A j, k \in Exports(s)' : j = k
    BY <1>1, <1>3, <1>5, <1>6, <1>9 DEF TrainedOnce
  <2>7. \A s \in Training : job'.row # s
    BY <1>3, <1>9
  <2>8. QED
    BY <2>5, <2>6, <2>7 DEF TrainedOnce
<1>12. QED
  BY <1>7, <1>8, <1>10, <1>11 DEF IInv

-----------------------------------------------------------------------------
(* One retry. *)

\* The attempts that launch nothing, and what they record.
Asks(r, w) == Reconcile(r, w) \/ TurnAway(r, w) \/ Refuse(r, w)

LEMMA AsksRecords ==
  ASSUME Shape, NEW r \in Rows, NEW w \in Waits, Asks(r, w)
  PROVE  /\ job = Idle /\ job' = job /\ stop' \in BOOLEAN
         /\ \E a \in Records : Add(r, a) /\ ~a.launched /\ ~a.export /\ (a.passed => Kept(r) # {})
<1> DEFINE rec(p) == [launched |-> FALSE, hours |-> w * Gpus[r], passed |-> p,
                      export |-> FALSE, settings |-> TRUE, limited |-> FALSE]
<1>1. w \in Nat /\ Gpus[r] \in Nat /\ stop \in BOOLEAN
  BY LedgerAssumption DEF Shape
<1>2. w * Gpus[r] \in Nat
  BY <1>1, Apart
<1>3. \A p \in BOOLEAN : rec(p) \in Records /\ rec(p).passed = p /\ ~rec(p).launched /\ ~rec(p).export
  BY <1>2 DEF Records
<1>4. job = Idle /\ job' = job /\ stop' \in BOOLEAN
  BY <1>1 DEF Asks, Reconcile, TurnAway, Refuse, MayStart
<1>5. \E p \in BOOLEAN : Add(r, rec(p)) /\ (p => Kept(r) # {})
  <2>1. CASE Reconcile(r, w)
    <3> DEFINE p == history[r][Min(Kept(r))].settings
    <3>1. Kept(r) # {} /\ Add(r, rec(p))
      BY <2>1 DEF Reconcile, EndUnlaunched
    <3>2. Kept(r) \in SUBSET Nat /\ Kept(r) \subseteq DOMAIN history[r]
      BY AttemptsAreRecords DEF Kept
    <3>3. Min(Kept(r)) \in DOMAIN history[r]
      BY <3>1, <3>2, MinOfNaturals
    <3>4. p \in BOOLEAN
      BY <3>3, AttemptsAreRecords DEF Records
    <3>5. QED
      BY <3>1, <3>4
  <2>2. CASE TurnAway(r, w) \/ Refuse(r, w)
    <3>1. Add(r, rec(FALSE))
      BY <2>2 DEF TurnAway, Refuse, EndUnlaunched
    <3>2. QED
      BY <3>1
  <2>3. QED
    BY <2>1, <2>2 DEF Asks
<1> HIDE DEF rec
<1>6. QED
  BY <1>3, <1>4, <1>5

LEMMA InitHolds == Init => IInv
<1> SUFFICES ASSUME Init
             PROVE  IInv
  OBVIOUS
<1>1. /\ \A r \in Rows : history[r] = <<>> /\ DOMAIN history[r] = {}
      /\ history \in [Rows -> Seq(Records)]
      /\ job = Idle /\ job.row = 0 /\ job \in Jobs /\ stop \in BOOLEAN /\ 0 \notin Rows
  <2>1. history = [r \in Rows |-> <<>>] /\ job = Idle /\ stop = FALSE
    BY DEF Init
  <2>2. <<>> \in Seq(Records) /\ DOMAIN <<>> = {}
    OBVIOUS
  <2>3. history \in [Rows -> Seq(Records)] /\ \A r \in Rows : history[r] = <<>>
    BY <2>1, <2>2
  <2>4. NRows \in Nat /\ 0 \notin Rows
    BY LedgerAssumption DEF Rows
  <2>5. job.row = 0 /\ job \in Jobs
    BY <2>1, <2>4 DEF Idle, Jobs
  <2>6. QED
    BY <2>1, <2>2, <2>3, <2>4, <2>5
<1>2. Shape
  BY <1>1 DEF Shape
<1>3. \A r \in Rows : Launches(r) = {} /\ ~Passed(r) /\ Exports(r) = {}
  BY <1>1, PassedIs DEF Launches, Exports
<1>4. LaunchedFirst
  BY <1>1, <1>3 DEF LaunchedFirst
<1>5. Qualification \subseteq Rows /\ Training \subseteq Rows /\ IsFiniteSet(Training)
  BY RowsAreFinite
<1>6. InOrder
  BY <1>1, <1>3 DEF InOrder, Ran
<1>7. TrainedOnce
  <2> DEFINE w == [r \in Training |-> Retries(r)]
  <2>1. \A r \in Training : w[r] = 0
    BY <1>2, <1>3, <1>5, RetriesOf
  <2>2. RetriesUsed = SumFunctionOnSet(w, Training)
    BY DEF RetriesUsed
  <2> HIDE DEF w
  <2>3. RetriesUsed = 0
    BY <1>5, <2>1, <2>2, SumOfZeros
  <2>4. Retrying = 0
    BY <1>1, <1>5 DEF Retrying
  <2>5. QED
    BY <1>3, <1>5, <2>3, <2>4 DEF TrainedOnce
<1>8. QED
  BY <1>2, <1>4, <1>6, <1>7 DEF IInv

LEMMA StutterKeeps ==
  ASSUME IInv, UNCHANGED vars
  PROVE  IInv'
<1>1. history' = history /\ job' = job /\ stop' = stop
  BY DEF vars
<1>2. \A s \in Rows : /\ Launches(s)' = Launches(s) /\ (Passed(s)' <=> Passed(s))
                      /\ Exports(s)' = Exports(s)
  BY <1>1, OtherRows
<1>3. Shape'
  BY <1>1 DEF IInv, Shape
<1>4. LaunchedFirst'
  BY <1>1, <1>2 DEF IInv, LaunchedFirst
<1>5. Qualification \subseteq Rows /\ Training \subseteq Rows
  BY RowsAreFinite
<1>6. InOrder'
  BY <1>1, <1>2, <1>5 DEF IInv, InOrder, Ran
<1>7. RetriesUsed' = RetriesUsed
  BY <1>1 DEF RetriesUsed, Retries, Launches
<1>8. Retrying' = Retrying
  BY <1>1, <1>2, <1>5 DEF Retrying
<1>9. TrainedOnce'
  BY <1>1, <1>2, <1>5, <1>7, <1>8 DEF IInv, TrainedOnce
<1>10. QED
  BY <1>3, <1>4, <1>6, <1>9 DEF IInv

LEMMA IInvKept == IInv /\ [Next]_vars => IInv'
<1> SUFFICES ASSUME IInv, [Next]_vars
             PROVE  IInv'
  OBVIOUS
<1>1. ASSUME NEW r \in Rows, NEW w \in Waits, Asks(r, w)
      PROVE  IInv'
  <2>1. Shape
    BY DEF IInv
  <2>2. /\ job = Idle /\ job' = job /\ stop' \in BOOLEAN
        /\ \E a \in Records : Add(r, a) /\ ~a.launched /\ ~a.export /\ (a.passed => Kept(r) # {})
    BY <1>1, <2>1, AsksRecords
  <2>3. PICK a \in Records : Add(r, a) /\ ~a.launched /\ ~a.export /\ (a.passed => Kept(r) # {})
    BY <2>2
  <2>4. QED
    BY <2>2, <2>3, NothingLaunched
<1>2. ASSUME NEW r \in Rows, NEW w \in Waits, Admit(r, w)
      PROVE  IInv'
  BY <1>2, AdmitKeeps
<1>3. ASSUME NEW u \in Ends, NEW x \in Results, NEW stops \in BOOLEAN, End(u, x, stops)
      PROVE  IInv'
  BY <1>3, EndKeeps
<1>4. CASE UNCHANGED vars
  BY <1>4, StutterKeeps
<1>5. QED
  BY <1>1, <1>2, <1>3, <1>4 DEF Next, Asks

\* The invariant of the ledger.
THEOREM LedgerIsInOrder == Spec => []IInv
BY InitHolds, IInvKept, PTL DEF Spec

\* The block trains one row again at most, and no row that has an export.
THEOREM OneRetryIsAll == Spec => []OneRetry
<1>1. IInv => OneRetry
  <2> SUFFICES ASSUME IInv
               PROVE  OneRetry
    OBVIOUS
  <2>1. Shape /\ TrainedOnce
    BY DEF IInv
  <2>2. RetriesUsed =< 1
    <3>1. RetriesUsed + Retrying =< 1 /\ Retrying \in Nat
      BY <2>1 DEF TrainedOnce, Retrying
    <3>2. RetriesUsed \in Nat
      <4> DEFINE w == [s \in Training |-> Retries(s)]
      <4>1. IsFiniteSet(Training) /\ Training \subseteq Rows
        BY RowsAreFinite
      <4>2. \A s \in Training : w[s] \in Nat
        BY <2>1, <4>1, RetriesOf
      <4>3. RetriesUsed = SumFunctionOnSet(w, Training)
        BY DEF RetriesUsed
      <4> HIDE DEF w
      <4>4. QED
        BY <4>1, <4>2, <4>3, SumOfNaturals
    <3>3. QED
      BY <3>1, <3>2
  <2>3. ASSUME NEW r \in Training
        PROVE  Cardinality(Exports(r)) =< 1
    <3>1. CASE Exports(r) = {}
      <4>1. Cardinality({}) = 0
        BY FS_EmptySet
      <4>2. QED
        BY <3>1, <4>1
    <3>2. CASE Exports(r) # {}
      <4>1. PICK k \in Exports(r) : TRUE
        BY <3>2
      <4>2. Exports(r) = {k}
        BY <2>1, <4>1 DEF TrainedOnce
      <4>3. Cardinality({k}) = 1
        BY FS_Singleton
      <4>4. QED
        BY <4>2, <4>3
    <3>3. QED
      BY <3>1, <3>2
  <2>4. QED
    BY <2>2, <2>3 DEF OneRetry, Exports
<1>2. QED
  BY <1>1, LedgerIsInOrder, PTL

-----------------------------------------------------------------------------
(* What may be used. *)

Bound == (job.wait + job.limit + Grace) * Gpus[job.row]

\* While nothing runs, only what was used counts.
LEMMA NothingRuns ==
  ASSUME job = Idle, NEW rows \in SUBSET Rows
  PROVE  Worst(rows) = 0 /\ Used(rows) = UsedSoFar(rows) + 0
<1>1. job.row = 0 /\ 0 \notin Rows
  BY LedgerAssumption DEF Idle, Rows
<1>2. Worst(rows) = 0
  BY <1>1 DEF Worst
<1>3. QED
  BY <1>2 DEF Used

LEMMA NothingRunsThen ==
  ASSUME job' = Idle, NEW rows \in SUBSET Rows
  PROVE  Worst(rows)' = 0 /\ Used(rows)' = UsedSoFar(rows)' + 0
<1>1. job'.row = 0 /\ 0 \notin Rows
  BY LedgerAssumption DEF Idle, Rows
<1>2. Worst(rows)' = 0
  BY <1>1 DEF Worst
<1>3. QED
  BY <1>2 DEF Used

\* The end of a job adds no more than it was admitted for.
LEMMA EndUses ==
  ASSUME Shape, NEW u \in Ends, NEW x \in Results, NEW stops \in BOOLEAN, End(u, x, stops),
         NEW rows \in SUBSET Rows
  PROVE  Used(rows)' \in Int /\ Used(rows) \in Int /\ Used(rows)' =< Used(rows)
<1>1. PICK r \in Rows : \E a \in Records :
           /\ job.row = r /\ job # Idle /\ job' = Idle
           /\ Add(r, a) /\ a.launched
           /\ a.hours =< Bound /\ Bound \in Nat
  BY EndedFits DEF Bound
<1>2. PICK a \in Records :
           /\ job.row = r /\ job # Idle /\ job' = Idle
           /\ Add(r, a) /\ a.launched
           /\ a.hours =< Bound /\ Bound \in Nat
  BY <1>1
<1>3. Used(rows)' = UsedSoFar(rows)' + 0
  BY <1>2, NothingRunsThen
<1>4. UsedSoFar(rows)' = UsedSoFar(rows) + IF r \in rows THEN Adds(r, a) ELSE 0
  BY <1>2, UsedGrows
<1>5. Adds(r, a) = IF ~Repeated(r, Len(history[r]) + 1) THEN a.hours ELSE 0
  BY <1>2 DEF Adds
<1>6. Worst(rows) = IF r \in rows /\ ~Repeated(r, Len(history[r]) + 1) THEN Bound ELSE 0
  BY <1>2 DEF Worst, Bound
<1>7. UsedSoFar(rows) \in Nat /\ a.hours \in Nat
  BY UsedIsSpent DEF Records
<1>8. Used(rows) = UsedSoFar(rows) + Worst(rows)
  BY DEF Used
<1>9. (IF r \in rows THEN Adds(r, a) ELSE 0) \in Nat /\ Worst(rows) \in Nat
      /\ (IF r \in rows THEN Adds(r, a) ELSE 0) =< Worst(rows)
  BY <1>2, <1>5, <1>6, <1>7
<1>10. QED
  BY ONLY <1>3, <1>4, <1>7, <1>8, <1>9

\* An admission adds its bound, to the qualification's share or to the block's.
LEMMA AdmitUses ==
  ASSUME Shape, NEW r \in Rows, NEW w \in Waits, Admit(r, w), NEW rows \in SUBSET Rows
  PROVE  /\ UsedSoFar(rows) \in Nat /\ SpentOn(rows) \in Nat /\ UsedSoFar(rows) =< SpentOn(rows)
         /\ Used(rows) = UsedSoFar(rows)
         /\ Bound' \in Nat
         /\ Used(rows)' = UsedSoFar(rows)
              + IF r \in rows /\ ~Repeated(r, Len(history[r]) + 1) THEN Bound' ELSE 0
<1>1. /\ job = Idle /\ history' = history /\ job'.row = r
      /\ (job'.wait + job'.limit + Grace) * Gpus[r] \in Nat
  BY AdmittedFits
<1>2. Bound' = (job'.wait + job'.limit + Grace) * Gpus[r]
  BY <1>1 DEF Bound
<1>3. UsedSoFar(rows)' = UsedSoFar(rows)
  BY <1>1 DEF UsedSoFar, Hours, Counted, Launches, Repeated
<1>4. Repeated(r, Len(history[r]) + 1)' <=> Repeated(r, Len(history[r]) + 1)
  BY <1>1 DEF Repeated
<1>5. Worst(rows)' = IF r \in rows /\ ~Repeated(r, Len(history[r]) + 1)' THEN Bound' ELSE 0
  BY <1>1 DEF Worst, Bound
<1>6. Used(rows)' = UsedSoFar(rows)' + Worst(rows)'
  BY DEF Used
<1>7. UsedSoFar(rows) \in Nat /\ SpentOn(rows) \in Nat /\ UsedSoFar(rows) =< SpentOn(rows)
  BY UsedIsSpent
<1>8. Used(rows) = UsedSoFar(rows)
  BY <1>1, <1>7, NothingRuns
<1>9. QED
  BY <1>1, <1>2, <1>3, <1>4, <1>5, <1>6, <1>7, <1>8

\* An attempt that launches nothing uses nothing that counts.
LEMMA AsksUses ==
  ASSUME IInv, NEW r \in Rows, NEW w \in Waits, Asks(r, w)
  PROVE  /\ \A rows \in SUBSET Rows : Used(rows)' = Used(rows)
         /\ job' = job /\ \A s \in Rows : Launches(s)' = Launches(s)
<1>1. Shape
  BY DEF IInv
<1>2. /\ job = Idle /\ job' = job /\ stop' \in BOOLEAN
      /\ \E a \in Records : Add(r, a) /\ ~a.launched /\ ~a.export /\ (a.passed => Kept(r) # {})
  BY <1>1, AsksRecords
<1>3. PICK a \in Records : Add(r, a) /\ ~a.launched /\ ~a.export /\ (a.passed => Kept(r) # {})
  BY <1>2
<1>4. /\ \A rows \in SUBSET Rows : UsedSoFar(rows)' = UsedSoFar(rows)
      /\ \A s \in Rows : Launches(s)' = Launches(s)
  BY <1>2, <1>3, NothingLaunched
<1>5. job' = Idle
  BY <1>2
<1>6. \A rows \in SUBSET Rows : Used(rows)' = Used(rows)
  BY <1>2, <1>4, <1>5, NothingRuns, NothingRunsThen
<1>7. QED
  BY <1>2, <1>4, <1>6

\* In the beginning nothing is used.
LEMMA InitUses ==
  ASSUME Init, NEW rows \in SUBSET Rows
  PROVE  Used(rows) = 0
<1>1. IInv /\ Shape
  BY InitHolds DEF IInv
<1>2. job = Idle /\ \A r \in Rows : history[r] = <<>>
  BY DEF Init
<1>3. \A r \in Rows : Hours(r, DOMAIN history[r]) = 0
  <2> TAKE r \in Rows
  <2> DEFINE none == [k \in {} |-> history[r][k].hours]
  <2>1. DOMAIN history[r] = {}
    BY <1>2
  <2>2. Hours(r, DOMAIN history[r]) = SumFunctionOnSet(none, {})
    BY <2>1 DEF Hours
  <2>3. IsFiniteSet({}) /\ \A k \in {} : none[k] = 0
    BY FS_EmptySet
  <2> HIDE DEF none
  <2>4. QED
    BY <2>2, <2>3, SumOfZeros
<1>4. SpentOn(rows) = 0
  <2> DEFINE v == [r \in rows |-> Hours(r, DOMAIN history[r])]
  <2>1. IsFiniteSet(rows) /\ \A r \in rows : v[r] = 0
    BY <1>3, RowsAreFinite
  <2>2. SpentOn(rows) = SumFunctionOnSet(v, rows)
    BY DEF SpentOn
  <2> HIDE DEF v
  <2>3. QED
    BY <2>1, <2>2, SumOfZeros
<1>5. UsedSoFar(rows) \in Nat /\ UsedSoFar(rows) =< SpentOn(rows)
  BY <1>1, UsedIsSpent
<1>6. Used(rows) = UsedSoFar(rows) + 0
  BY <1>2, NothingRuns
<1>7. QED
  BY <1>4, <1>5, <1>6

-----------------------------------------------------------------------------
(* The reserve, and the scorings. *)

LEMMA ReserveKept == IInv /\ ReserveUntouched /\ [Next]_vars => ReserveUntouched'
<1> SUFFICES ASSUME IInv, ReserveUntouched, [Next]_vars
             PROVE  ReserveUntouched'
  OBVIOUS
<1> DEFINE Q == Qualification
<1>1. Shape /\ Q \in SUBSET Rows
  BY RowsAreFinite DEF IInv
<1>2. /\ Reserve \in Nat /\ Ceiling \in Nat /\ Allowance \in Int /\ Allowance + Reserve = Ceiling
      /\ Reserve' = Reserve
  BY Numbers
<1>3. Used(Q) + Reserve =< Ceiling
  BY DEF ReserveUntouched
<1>4. Used(Q)' + Reserve =< Ceiling => ReserveUntouched'
  BY DEF ReserveUntouched
<1>5. ASSUME NEW r \in Rows, NEW w \in Waits, Asks(r, w)
      PROVE  ReserveUntouched'
  <2>1. Used(Q)' = Used(Q)
    BY <1>1, <1>5, AsksUses
  <2>2. QED
    BY <1>3, <1>4, <2>1
<1>6. ASSUME NEW r \in Rows, NEW w \in Waits, Admit(r, w)
      PROVE  ReserveUntouched'
  <2>1. /\ UsedSoFar(Q) \in Nat /\ SpentOn(Q) \in Nat /\ UsedSoFar(Q) =< SpentOn(Q)
        /\ Used(Q) = UsedSoFar(Q) /\ Bound' \in Nat
        /\ Used(Q)' = UsedSoFar(Q)
             + IF r \in Q /\ ~Repeated(r, Len(history[r]) + 1) THEN Bound' ELSE 0
    BY <1>1, <1>6, AdmitUses
  <2>2. r \in Q => SpentOn(Q) + Bound' =< Allowance
    BY <1>1, <1>6, AdmittedFits DEF Bound
  <2> HIDE DEF Q
  <2>3. CASE r \in Q /\ ~Repeated(r, Len(history[r]) + 1)
    <3>1. Used(Q)' =< Allowance /\ Used(Q)' \in Int
      BY <1>2, <2>1, <2>2, <2>3
    <3>2. QED
      BY <1>2, <1>4, <3>1
  <2>4. CASE ~(r \in Q /\ ~Repeated(r, Len(history[r]) + 1))
    <3>1. Used(Q)' = Used(Q)
      BY <2>1, <2>4
    <3>2. QED
      BY <1>3, <1>4, <3>1
  <2>5. QED
    BY <2>3, <2>4
<1>7. ASSUME NEW u \in Ends, NEW x \in Results, NEW stops \in BOOLEAN, End(u, x, stops)
      PROVE  ReserveUntouched'
  <2>1. Used(Q)' \in Int /\ Used(Q) \in Int /\ Used(Q)' =< Used(Q)
    BY <1>1, <1>7, EndUses
  <2> HIDE DEF Q
  <2>2. QED
    BY <1>2, <1>3, <1>4, <2>1
<1>8. CASE UNCHANGED vars
  BY <1>8 DEF vars, ReserveUntouched, Used, Worst, UsedSoFar, Hours, Counted, Launches, Repeated
<1>9. QED
  BY <1>5, <1>6, <1>7, <1>8 DEF Next, Asks

\* The qualification rows never use more than the reservation leaves them, wherever
\* it leaves them anything.
THEOREM ReserveIsKept ==
  ASSUME Reserve =< Ceiling
  PROVE  Spec => []ReserveUntouched
<1>1. Init => ReserveUntouched
  <2> SUFFICES ASSUME Init
               PROVE  ReserveUntouched
    OBVIOUS
  <2>1. Qualification \in SUBSET Rows
    BY RowsAreFinite
  <2>2. Used(Qualification) = 0
    BY <2>1, InitUses
  <2>3. QED
    BY <2>2, Numbers DEF ReserveUntouched
<1>2. QED
  BY <1>1, ReserveKept, InitHolds, IInvKept, PTL DEF Spec

\* Whoever is admitted, all it may use fits beside the scorings nobody has tried.
LEMMA AdmissionPays ==
  ASSUME IInv, ScoringsStayPaid, NEW r \in Rows, NEW w \in Waits, Admit(r, w)
  PROVE  ScoringsStayPaid'
<1>1. Shape /\ InOrder /\ LaunchedFirst
  BY DEF IInv
<1>2. /\ job = Idle /\ job.row = 0 /\ history' = history /\ job'.row = r /\ r # 0
      /\ IF r \in Qualification
           THEN SpentOn(Qualification) + Bound' =< Allowance
           ELSE SpentOn(Rows) + Bound' + Cardinality(Tried(r)) * E =< Ceiling
  BY <1>1, AdmittedFits DEF Bound
<1>3. Rows \in SUBSET Rows /\ Qualification \in SUBSET Rows /\ Scorings \subseteq Rows
  BY RowsAreFinite
<1>4. /\ UsedSoFar(Rows) \in Nat /\ SpentOn(Rows) \in Nat /\ UsedSoFar(Rows) =< SpentOn(Rows)
      /\ Used(Rows) = UsedSoFar(Rows) /\ Bound' \in Nat
      /\ Used(Rows)' = UsedSoFar(Rows)
           + IF r \in Rows /\ ~Repeated(r, Len(history[r]) + 1) THEN Bound' ELSE 0
  BY <1>1, <1>3, AdmitUses
<1>5. \A s \in Rows : Launches(s)' = Launches(s)
  BY <1>2, OtherRows
<1>6. Untried = {s \in Scorings : Launches(s) = {}} /\ Untried' = {s \in Scorings \ {r} : Launches(s) = {}}
  <2>1. 0 \notin Rows
    BY LedgerAssumption DEF Rows
  <2>2. Untried' = {s \in Scorings \ {r} : Launches(s)' = {}}
    BY <1>2 DEF Untried
  <2>3. QED
    BY <1>2, <1>3, <1>5, <2>1, <2>2 DEF Untried
<1> DEFINE old == Cardinality(Untried) * E
           new == Cardinality(Untried') * E
<1>7. Untried \in SUBSET Scorings /\ Untried' \in SUBSET Untried
  BY <1>6
<1>8. old \in Nat /\ new \in Nat /\ new =< old /\ old =< Reserve
  <2>1. Untried' \in SUBSET Scorings
    BY <1>7
  <2>2. QED
    BY <1>7, <2>1, Numbers
<1>9. Used(Rows) + old =< Ceiling
  BY DEF ScoringsStayPaid
<1>10. Used(Rows)' + new =< Ceiling => ScoringsStayPaid'
  BY DEF ScoringsStayPaid
<1>11. Ceiling \in Nat /\ Reserve \in Nat /\ Allowance \in Int /\ Allowance + Reserve = Ceiling
  BY Numbers
<1>12. CASE Repeated(r, Len(history[r]) + 1)
  <2>1. Used(Rows)' = Used(Rows)
    BY <1>4, <1>12
  <2> HIDE DEF old, new
  <2>2. QED
    BY ONLY <1>4, <1>8, <1>9, <1>10, <1>11, <2>1
<1>13. CASE r \notin Qualification
  <2>1. Untried' \in SUBSET Tried(r) /\ Tried(r) \in SUBSET Scorings
    <3>1. \A s \in Scorings : Launches(s) = {} => ~Passed(s)
      BY <1>1, <1>3 DEF LaunchedFirst
    <3>2. QED
      BY <1>6, <3>1 DEF Tried, Outstanding
  <2> DEFINE others == Cardinality(Tried(r)) * E
  <2>2. new =< others /\ others \in Nat
    BY <2>1, Numbers
  <2>3. Used(Rows)' =< UsedSoFar(Rows) + Bound' /\ Used(Rows)' \in Int
    BY <1>4
  <2>4. SpentOn(Rows) + Bound' + others =< Ceiling
    BY <1>2, <1>13
  <2> HIDE DEF old, new, others
  <2>5. QED
    BY ONLY <1>4, <1>8, <1>10, <1>11, <2>2, <2>3, <2>4
<1>14. CASE r \in Qualification /\ ~Repeated(r, Len(history[r]) + 1)
  <2>1. ~Passed(r)
    <3>1. Kind[r] = "qualification"
      BY <1>14, RowsAreFinite
    <3>2. Len(history[r]) \in Nat /\ DOMAIN history[r] = 1 .. Len(history[r])
      BY <1>1, AttemptsAreRecords
    <3>3. \A j \in 1 .. (Len(history[r]) + 1) - 1 : ~history[r][j].passed
      BY <1>14, <3>1 DEF Repeated
    <3>4. QED
      BY <3>2, <3>3, PassedIs
  <2>2. \A s \in Rows \ Qualification : Launches(s) = {}
    <3> TAKE s \in Rows \ Qualification
    <3>1. s \in Training \cup Scorings
      BY RowsAreFinite
    <3>2. s > r
      BY <1>14, <3>1, ScreenAssumption DEF QualificationFirst
    <3>3. QED
      BY <1>1, <1>14, <2>1, <3>2 DEF InOrder, Ran
  <2>3. UsedSoFar(Rows) = UsedSoFar(Qualification)
    BY <1>1, <2>2, OnlyQualification
  <2>4. UsedSoFar(Qualification) =< SpentOn(Qualification) /\ SpentOn(Qualification) \in Nat
    BY <1>1, <1>3, UsedIsSpent
  <2>5. SpentOn(Qualification) + Bound' =< Allowance
    BY <1>2, <1>14
  <2>6. Used(Rows)' = UsedSoFar(Rows) + Bound'
    BY <1>4, <1>14
  <2> HIDE DEF old, new
  <2>7. QED
    BY ONLY <1>4, <1>8, <1>10, <1>11, <2>3, <2>4, <2>5, <2>6
<1>15. QED
  BY <1>12, <1>13, <1>14

LEMMA ScoringsKept == IInv /\ ScoringsStayPaid /\ [Next]_vars => ScoringsStayPaid'
<1> SUFFICES ASSUME IInv, ScoringsStayPaid, [Next]_vars
             PROVE  ScoringsStayPaid'
  OBVIOUS
<1>1. Shape /\ Rows \in SUBSET Rows /\ Scorings \subseteq Rows
  BY RowsAreFinite DEF IInv
<1>2. ASSUME NEW r \in Rows, NEW w \in Waits, Asks(r, w)
      PROVE  ScoringsStayPaid'
  <2>1. Used(Rows)' = Used(Rows) /\ job' = job /\ \A s \in Rows : Launches(s)' = Launches(s)
    BY <1>1, <1>2, AsksUses
  <2>2. Untried' = Untried
    BY <1>1, <2>1 DEF Untried
  <2>3. QED
    BY <2>1, <2>2 DEF ScoringsStayPaid
<1>3. ASSUME NEW r \in Rows, NEW w \in Waits, Admit(r, w)
      PROVE  ScoringsStayPaid'
  BY <1>3, AdmissionPays
<1>4. ASSUME NEW u \in Ends, NEW x \in Results, NEW stops \in BOOLEAN, End(u, x, stops)
      PROVE  ScoringsStayPaid'
  <2>1. PICK r \in Rows : \E a \in Records :
           /\ job.row = r /\ job'.row = 0 /\ Add(r, a) /\ a.launched
    BY <1>1, <1>4, EndedFits
  <2>2. PICK a \in Records : job.row = r /\ job'.row = 0 /\ Add(r, a) /\ a.launched
    BY <2>1
  <2>3. Launches(r)' # {} /\ \A s \in Rows \ {r} : Launches(s)' = Launches(s)
    <3>1. Launches(r)' = Launches(r) \cup {Len(history[r]) + 1}
      BY <1>1, <2>2, OwnRow
    <3>2. \A s \in Rows \ {r} : history'[s] = history[s]
      BY <1>1, <2>2, AddedLast
    <3>3. QED
      BY <3>1, <3>2, OtherRows
  <2>4. Untried' = Untried
    <3>1. 0 \notin Rows
      BY LedgerAssumption DEF Rows
    <3>2. Untried' = {s \in Scorings : Launches(s)' = {}}
      BY <1>1, <2>2, <3>1 DEF Untried
    <3>3. Untried = {s \in Scorings \ {r} : Launches(s) = {}}
      BY <2>2 DEF Untried
    <3>4. QED
      BY <1>1, <2>3, <3>2, <3>3
  <2>5. Used(Rows)' \in Int /\ Used(Rows) \in Int /\ Used(Rows)' =< Used(Rows)
    BY <1>1, <1>4, EndUses
  <2> DEFINE old == Cardinality(Untried) * E
  <2>6. old \in Nat /\ Ceiling \in Nat
    <3>1. Untried \in SUBSET Scorings
      BY DEF Untried
    <3>2. QED
      BY <3>1, Numbers
  <2>7. Used(Rows) + old =< Ceiling /\ (Used(Rows)' + old =< Ceiling => ScoringsStayPaid')
    BY <2>4 DEF ScoringsStayPaid
  <2> HIDE DEF old
  <2>8. QED
    BY ONLY <2>5, <2>6, <2>7
<1>5. CASE UNCHANGED vars
  BY <1>5 DEF vars, ScoringsStayPaid, Untried, Used, Worst, UsedSoFar, Hours, Counted, Launches, Repeated
<1>6. QED
  BY <1>2, <1>3, <1>4, <1>5 DEF Next, Asks

\* Whatever fails, waits or is tried again, the scorings nobody has tried stay paid
\* for, and so the ceiling is never passed, if it would hold them alone.
THEOREM ScoringsArePaid ==
  ASSUME Cardinality(Scorings) * E =< Ceiling
  PROVE  Spec => []ScoringsStayPaid
<1>1. Init => ScoringsStayPaid
  <2> SUFFICES ASSUME Init
               PROVE  ScoringsStayPaid
    OBVIOUS
  <2>1. Used(Rows) = 0
    BY InitUses
  <2>2. Untried \in SUBSET Scorings /\ Scorings \in SUBSET Scorings
    BY DEF Untried
  <2>3. /\ Cardinality(Untried) * E \in Nat /\ Cardinality(Scorings) * E \in Nat
        /\ Cardinality(Untried) * E =< Cardinality(Scorings) * E /\ Ceiling \in Nat
    BY <2>2, Numbers
  <2>4. QED
    BY <2>1, <2>3 DEF ScoringsStayPaid
<1>2. QED
  BY <1>1, ScoringsKept, InitHolds, IInvKept, PTL DEF Spec
=============================================================================
