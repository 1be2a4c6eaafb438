---------------------------- MODULE RunLimitProof ----------------------------
(***************************************************************************)
(* Safety of RunLimit for any number of attempts, any run time and grace,  *)
(* and any number of kills: a job is charged through its end, a stop is    *)
(* durable before the record that needs it, a watchdog stands down only    *)
(* when there is nothing to end, and nothing is launched after an overrun. *)
(***************************************************************************)
EXTENDS RunLimit, TLAPS

Time == Nat \cup {Never}
Records ==
  [state : {"none", "admitting", "busy", "refused", "launching", "running", "ended", "unverified"},
   launched : BOOLEAN, limit : Time, class : {"none", "budget", "interrupted", "not verified"},
   byLimit : BOOLEAN, past : BOOLEAN, until : Time, standDown : BOOLEAN]
Jobs == [is : {"none", "parked", "live", "gone", "aborted"}, at : Time, killed : BOOLEAN]
Dogs ==
  [pc : {"off", "watching", "termed", "stopping", "ending", "unavailable", "over"},
   state : {"none", "watching", "acting", "acted", "stood down"}, alive : BOOLEAN, gone : Time]

\* Where a wrapper is: before its launch, with a launched job, and in recovery.
Recovering == {"recover", "terminate", "unavailable", "settle", "settleStop", "settleState", "settleDog"}
Before == Recovering \cup {"gates", "decide", "launch"}
Running == {"run", "ended", "limitStop", "await", "past", "pastStop", "account"}
Working == Before \cup Running \cup {"watch", "release", "standDown", "giveUp", "ack"}
Wrappers ==
  [pc : Working \cup {"off", "over"}, on : Nat, ended : {"none", "exit", "signal", "limit"},
   at : Time, fields : Records]

Typed ==
  /\ now \in Nat /\ stop \in {"none", "limit", "unavailable", "gate"}
  /\ rec \in [Attempts -> Records] /\ job \in [Attempts -> Jobs]
  /\ dog \in [Attempts -> Dogs] /\ wr \in [Attempts -> Wrappers]

\* One wrapper at a time; those that have not begun have left no trace.
Turn(i) ==
  /\ ~At(i, "off") => \A j \in 1..i-1 : Gone(j)
  /\ At(i, "off") => rec[i] = NoRecord /\ job[i] = NoJob /\ dog[i] = NoDog
  /\ wr[i].pc \in Working => On(i) \in 1..i /\ \A j \in 1..On(i)-1 : ~LiveRecord(j)
  /\ wr[i].pc \in Recovering \ {"recover"} => On(i) < i
  /\ At(i, "terminate") => LiveRecord(On(i))
  /\ wr[i].pc \in {"unavailable", "settleDog"} => ~LiveRecord(On(i))
  /\ wr[i].pc \in Working \ Recovering => On(i) = i

\* The record says what is known of the job, and the watchdog belongs to it.
Pristine(i) ==
  /\ ~rec[i].launched /\ ~rec[i].byLimit /\ ~rec[i].past
  /\ ~rec[i].standDown /\ rec[i].until = Never
Recorded(i) ==
  /\ wr[i].pc \in Before => rec[i].state = "admitting" /\ job[i] = NoJob
  /\ At(i, "watch") => rec[i].state = "launching" /\ job[i].is = "parked"
  /\ At(i, "release") => rec[i].state = "running" /\ job[i].is = "parked" /\ rec[i].launched
  /\ wr[i].pc \in Running => rec[i].state = "running" /\ job[i].is \in {"live", "gone"}
  /\ At(i, "standDown") => rec[i].state = "ended"
  /\ job[i].is = "none" => /\ dog[i] = NoDog /\ Pristine(i) /\ rec[i].limit = Never
                           /\ rec[i].state \in {"none", "admitting", "busy", "refused"}
  /\ job[i].is # "none" => rec[i].limit # Never
  /\ job[i].is = "parked" => wr[i].pc \in {"watch", "release"}
  /\ job[i].is \in {"live", "gone"} =>
       rec[i].launched /\ rec[i].state \in {"running", "ended", "unverified"}
  /\ rec[i].state \in {"none", "admitting", "busy", "refused", "launching"} => Pristine(i)
  /\ rec[i].state = "running" => ~rec[i].past /\ rec[i].until = Never

\* A job whose end is on record has ended, and no later than that.
EndedBy(i, at) == at # Never => ~Live(i) /\ at >= job[i].at
Charged(i) ==
  /\ job[i].is = "gone" => job[i].at \in 0..now
  /\ job[i].is # "gone" => job[i].at = Never
  /\ EndedBy(i, rec[i].until) /\ EndedBy(i, dog[i].gone)
  /\ rec[i].state = "ended" => rec[i].until # Never
  /\ rec[i].standDown => ~Live(i)

\* The watchdog has acted on a live job only after the limit.
Watched(i) ==
  /\ dog[i].alive => now >= rec[i].limit
  /\ dog[i].pc \in {"off", "watching"} => ~dog[i].alive
  /\ dog[i].state = "stood down" => ~Live(i) /\ ~dog[i].alive

\* A job that had ended before its limit, as far as anybody knows.
Evidence(i, r) ==
  r.launched /\ (r.byLimit \/ r.past \/ (r.until # Never /\ r.until >= r.limit))
Suspect(i, r) == Evidence(i, r) \/ (r.launched /\ dog[i].alive)
Stops(i) ==
  /\ rec[i].state = "ended" /\ Suspect(i, rec[i]) => stop # "none"
  /\ wr[i].pc \in {"past", "pastStop", "account", "standDown"} => ~Live(i)
  /\ wr[i].pc \in {"past", "pastStop", "account"} => wr[i].at # Never /\ wr[i].at >= job[i].at
  /\ wr[i].pc \in {"release", "run"} \/ (At(i, "await") /\ wr[i].ended # "limit") => ~rec[i].byLimit
  /\ wr[i].pc \in {"ended", "limitStop"} => wr[i].ended = "limit"
  /\ At(i, "await") /\ wr[i].ended = "limit" => stop # "none"
  /\ At(i, "account") =>
       stop # "none" \/ (wr[i].at < rec[i].limit /\ ~rec[i].byLimit /\ ~dog[i].alive)

\* What a recovery is about to write of the attempt in turn.
Settling(i) ==
  wr[i].pc \in {"settle", "settleStop", "settleState"} =>
    LET j == On(i)
        f == Fields(i) IN
    /\ f.launched = rec[j].launched /\ f.limit = rec[j].limit
    /\ f.state = rec[j].state \/ (f.state = "ended" /\ LiveRecord(j))
    /\ f.state \notin {"launching", "running"}
    /\ f.state \in {"none", "admitting", "busy", "refused"} =>
         f.until = Never /\ ~f.byLimit /\ ~f.past /\ ~f.standDown
    /\ EndedBy(j, f.until) /\ (f.state = "ended" => f.until # Never)
    /\ f.standDown => ~Live(j)
    /\ f.state = "ended" /\ Suspect(j, f) =>
         stop # "none" \/ (At(i, "settle") /\ Evidence(j, f)) \/ At(i, "settleStop")

\* No job is launched while an earlier one lives, or after one that overran.
Over(j) == job[j].is = "gone" /\ job[j].at >= rec[j].limit
Apart(i, j) ==
  /\ At(i, "decide") => ~Live(j)
  /\ At(i, "launch") \/ job[i].is # "none" =>
       ~Live(j) /\ (Over(j) => rec[j].state = "unverified")

IInv ==
  /\ Typed
  /\ \A i \in Attempts :
       /\ Turn(i) /\ \A j \in 1..i-1 : Apart(i, j)
       /\ Recorded(i) /\ Charged(i) /\ Watched(i) /\ Stops(i) /\ Settling(i)

LEMMA NothingIsTyped ==
  /\ NoRecord \in Records /\ NoJob \in Jobs /\ NoDog \in Dogs /\ NoWrapper \in Wrappers
  /\ [NoWrapper EXCEPT !.pc = "over"] \in Wrappers
BY DEF NoRecord, NoJob, NoDog, NoWrapper, Records, Jobs, Dogs, Wrappers, Time, Never, Working,
       Before, Recovering, Running

LEMMA TimeIsInt == \A x \in Time : x \in Int /\ (x # Never => x \in Nat)
BY DEF Time, Never

LEMMA RecordFields ==
  ASSUME NEW r \in Records
  PROVE  /\ r.limit \in Time /\ r.until \in Time /\ r.limit \in Int /\ r.until \in Int
         /\ {r.launched, r.byLimit, r.past, r.standDown} \subseteq BOOLEAN
<1>1. /\ r.limit \in Time /\ r.until \in Time
      /\ {r.launched, r.byLimit, r.past, r.standDown} \subseteq BOOLEAN
  BY DEF Records
<1>. QED BY <1>1, TimeIsInt

LEMMA TypedFields ==
  ASSUME Typed, NEW j \in Attempts
  PROVE  /\ rec[j] \in Records /\ rec[j].limit \in Int /\ rec[j].until \in Int
         /\ job[j].at \in Int /\ wr[j].at \in Int /\ now \in Int /\ now \in Time
         /\ dog[j].gone \in Time /\ dog[j].gone \in Int /\ dog[j].alive \in BOOLEAN
<1>1. rec[j] \in Records /\ job[j] \in Jobs /\ dog[j] \in Dogs /\ wr[j] \in Wrappers
  BY DEF Typed
<1>2. job[j].at \in Time
  BY <1>1 DEF Jobs
<1>3. dog[j].gone \in Time /\ dog[j].alive \in BOOLEAN
  BY <1>1 DEF Dogs
<1>4. wr[j].at \in Time
  BY <1>1 DEF Wrappers
<1>5. now \in Time
  BY DEF Typed, Time
<1>. QED BY <1>1, <1>2, <1>3, <1>4, <1>5, TimeIsInt, RecordFields

LEMMA InitHolds == Init => IInv
<1> SUFFICES ASSUME Init PROVE IInv
  OBVIOUS
<1>1. Typed
  BY NothingIsTyped DEF Init, WatchInit, Typed
<1>2. \A i \in Attempts : rec[i] = NoRecord /\ job[i] = NoJob /\ dog[i] = NoDog
                          /\ wr[i].pc = "off" /\ stop = "none"
  BY DEF Init, WatchInit, NoWrapper
<1>3. ASSUME NEW i \in Attempts PROVE Turn(i)
  BY <1>2, <1>3 DEF Turn, At, Working, Before, Recovering, Running
<1>4. ASSUME NEW i \in Attempts, NEW j \in 1..i-1 PROVE Apart(i, j)
  BY <1>2, <1>4 DEF Apart, At, NoJob
<1>5. ASSUME NEW i \in Attempts
      PROVE  Recorded(i) /\ Charged(i) /\ Watched(i) /\ Stops(i) /\ Settling(i)
  <2>1. Recorded(i)
    BY <1>2, <1>5 DEF Recorded, Pristine, At, Before, Recovering, Running, NoJob, NoRecord
  <2>2. Charged(i)
    BY <1>2, <1>5 DEF Charged, EndedBy, NoJob, NoRecord, NoDog
  <2>5. Watched(i)
    <3>1. ~dog[i].alive /\ dog[i].state = "none"
      BY <1>2, <1>5 DEF NoDog
    <3>. QED BY <3>1 DEF Watched
  <2>3. Stops(i)
    BY <1>2, <1>5 DEF Stops, At, NoRecord
  <2>4. Settling(i)
    BY <1>2, <1>5 DEF Settling
  <2>. QED BY <2>1, <2>2, <2>3, <2>4, <2>5
<1>. QED BY <1>1, <1>3, <1>4, <1>5 DEF IInv

-----------------------------------------------------------------------------
\* What the ways to write do.
OthersWr(i) == wr' \in [Attempts -> Wrappers] /\ \A k \in Attempts \ {i} : wr'[k] = wr[k]
OthersRec(j) == rec' \in [Attempts -> Records] /\ \A k \in Attempts \ {j} : rec'[k] = rec[k]
OthersJob(j) == job' \in [Attempts -> Jobs] /\ \A k \in Attempts \ {j} : job'[k] = job[k]

LEMMA GoFacts ==
  ASSUME Typed, NEW i \in Attempts, NEW p \in Working, Go(i, p)
  PROVE  /\ OthersWr(i) /\ wr'[i].pc = p /\ wr'[i].on = wr[i].on /\ wr'[i].ended = wr[i].ended
         /\ wr'[i].at = wr[i].at /\ wr'[i].fields = wr[i].fields
BY DEF Typed, Go, OthersWr, Wrappers

LEMMA LeaveFacts ==
  ASSUME Typed, NEW i \in Attempts, Leave(i)
  PROVE  OthersWr(i) /\ wr'[i].pc = "over"
BY NothingIsTyped DEF Typed, Leave, OthersWr, NoWrapper

LEMMA WriteFacts ==
  ASSUME Typed, NEW j \in Attempts, NEW r \in Records, Write(j, r)
  PROVE  OthersRec(j) /\ rec'[j] = r
BY DEF Typed, Write, OthersRec

LEMMA StopFacts ==
  ASSUME Typed, NEW why \in {"limit", "unavailable", "gate"}, RecordStop(why)
  PROVE  stop' \in {"limit", "unavailable", "gate"}
BY DEF Typed, RecordStop

LEMMA OneWrapper ==
  ASSUME IInv, NEW i \in Attempts, wr[i].pc \in Working
  PROVE  /\ \A k \in Attempts \ {i} : wr[k].pc \notin Working
         /\ On(i) \in Attempts /\ On(i) \leq i
         /\ \A k \in Attempts : k < i => Gone(k)
         /\ \A k \in Attempts : k > i => At(k, "off")
<1>1. i \in 1..N /\ N \in Nat
  BY LimitAssumption DEF Attempts
<1>2. /\ \A k \in Attempts : ~At(k, "off") => \A j \in 1..k-1 : Gone(j)
      /\ On(i) \in 1..i /\ ~At(i, "off") /\ ~Gone(i)
  BY DEF IInv, Turn, At, Gone, Working, Before, Recovering, Running
<1>3. ASSUME NEW k \in Attempts, k < i PROVE Gone(k)
  BY <1>1, <1>2, <1>3 DEF Attempts
<1>4. ASSUME NEW k \in Attempts, k > i PROVE At(k, "off")
  BY <1>1, <1>2, <1>4 DEF Attempts
<1>5. ASSUME NEW k \in Attempts \ {i} PROVE wr[k].pc \notin Working
  <2>1. k < i \/ k > i
    BY <1>1, <1>5 DEF Attempts
  <2>. QED BY <2>1, <1>3, <1>4 DEF At, Gone, Working, Before, Recovering, Running
<1>. QED BY <1>1, <1>2, <1>3, <1>4, <1>5 DEF Attempts

-----------------------------------------------------------------------------
\* A step of i's wrapper that writes one record, its own or an earlier one, and
\* at most the job of that attempt.
Step(i, x) ==
  /\ OthersWr(i) /\ OthersRec(x) /\ OthersJob(x) /\ UNCHANGED <<now, dog>>
  /\ stop' \in {"none", "limit", "unavailable", "gate"} /\ (stop # "none" => stop' # "none")
  /\ x # i => /\ job'[x] = job[x] /\ rec'[x].limit = rec[x].limit
              /\ rec[x].state = "unverified" => rec'[x].state = "unverified"

LEMMA StepFrame ==
  ASSUME IInv, NEW i \in Attempts, wr[i].pc \in Working, NEW x \in 1..i, Step(i, x),
         Turn(i)', Settling(i)', Recorded(i)', Stops(i)',
         Recorded(x)', Charged(x)', Watched(x)', Stops(x)',
         wr'[i].pc \in {"decide", "launch"} \/ (job'[i].is # "none" /\ job[i].is = "none")
           => \A j \in 1..i-1 : Apart(i, j)'
  PROVE  IInv'
<1>0. /\ i \in 1..N /\ N \in Nat /\ x \in Attempts /\ Typed /\ x \leq i
      /\ \A k \in Attempts \ {i} : wr[k].pc \notin Working
      /\ \A k \in Attempts : (k < i => Gone(k)) /\ (k > i => At(k, "off"))
  BY OneWrapper, LimitAssumption DEF Attempts, IInv
<1>1. Typed'
  BY <1>0 DEF Typed, Step, OthersWr, OthersRec, OthersJob
<1>2. ASSUME NEW k \in Attempts \ {i} PROVE Turn(k)'
  <2>1. wr'[k] = wr[k] /\ dog'[k] = dog[k] /\ Turn(k)
    BY <1>2 DEF Step, OthersWr, IInv
  <2>2. At(k, "off") => rec'[k] = rec[k] /\ job'[k] = job[k]
    BY <1>0, <1>2 DEF Step, OthersRec, OthersJob, At, Gone, Attempts
  <2>3. ~At(k, "off") => \A j \in 1..k-1 : Gone(j)'
    <3>. SUFFICES ASSUME ~At(k, "off") PROVE \A j \in 1..k-1 : Gone(j)'
      OBVIOUS
    <3>1. k < i
      BY <1>0, <1>2 DEF Attempts
    <3>. QED BY <1>0, <3>1 DEF Step, OthersWr, Gone, At, Attempts
  <2>. QED BY <1>0, <1>2, <2>1, <2>2, <2>3 DEF Turn, At, Recovering, Working, Before, Running
<1>3. ASSUME NEW k \in Attempts, NEW j \in 1..k-1 PROVE Apart(k, j)'
  <2>1. j \in Attempts /\ Apart(k, j) /\ j # k /\ j < k
    BY <1>3, LimitAssumption DEF IInv, Attempts
  <2>2. CASE k > i
    <3>1. At(k, "off") /\ job[k] = NoJob
      BY <1>0, <2>2 DEF IInv, Turn
    <3>2. wr'[k] = wr[k] /\ job'[k] = job[k]
      BY <1>0, <1>3, <2>2 DEF Step, OthersWr, OthersJob, Attempts
    <3>. QED BY <3>1, <3>2 DEF Apart, At, NoJob
  <2>3. CASE k \leq i
    <3>1. j # i
      BY <1>0, <2>1, <2>3 DEF Attempts
    <3>2. /\ job'[j] = job[j] /\ rec'[j].limit = rec[j].limit
          /\ rec[j].state = "unverified" => rec'[j].state = "unverified"
      BY <2>1, <3>1 DEF Step, OthersRec, OthersJob
    <3>3. CASE /\ k = i
               /\ wr'[i].pc \in {"decide", "launch"} \/ (job'[i].is # "none" /\ job[i].is = "none")
      BY <1>3, <3>3
    <3>4. CASE /\ k = i
               /\ wr'[i].pc \notin {"decide", "launch"} /\ ~(job'[i].is # "none" /\ job[i].is = "none")
      BY <2>1, <3>2, <3>4 DEF Apart, Live, Over, At
    <3>5. CASE k # i
      <4>1. ~At(k, "decide")' /\ ~At(k, "launch")' /\ job'[k] = job[k]
        BY <1>0, <1>3, <3>5 DEF Step, OthersWr, OthersJob, At, Working, Before
      <4>. QED BY <2>1, <3>2, <4>1 DEF Apart, Live, Over
    <3>. QED BY <3>3, <3>4, <3>5
  <2>. QED BY <1>0, <2>2, <2>3 DEF Attempts
<1>4. ASSUME NEW k \in Attempts \ {i}, k # x
      PROVE  Recorded(k)' /\ Charged(k)' /\ Watched(k)' /\ Stops(k)'
  <2>1. /\ rec'[k] = rec[k] /\ wr'[k] = wr[k] /\ job'[k] = job[k] /\ dog'[k] = dog[k]
        /\ now' = now /\ Recorded(k) /\ Charged(k) /\ Watched(k) /\ Stops(k)
    BY <1>4 DEF Step, OthersRec, OthersWr, OthersJob, IInv
  <2>2. Recorded(k)' /\ Charged(k)'
    BY <2>1 DEF Recorded, Pristine, At, Charged, EndedBy, Live
  <2>3. Watched(k)' /\ Stops(k)'
    BY <2>1 DEF Watched, Stops, Suspect, Evidence, At, Live, Step
  <2>. QED BY <2>2, <2>3
<1>5. ASSUME NEW k \in Attempts \ {i} PROVE Settling(k)'
  BY <1>0, <1>5 DEF Step, OthersWr, Settling, Working, Before, Recovering
<1>6. x # i => Charged(i)' /\ Watched(i)'
  BY DEF Step, OthersRec, OthersJob, IInv, Charged, Watched, EndedBy, Live
<1>. QED BY <1>0, <1>1, <1>2, <1>3, <1>4, <1>5, <1>6 DEF IInv

\* The same of a step that writes no record.
LEMMA MoveFrame ==
  ASSUME IInv, NEW i \in Attempts, wr[i].pc \in Working, OthersWr(i), UNCHANGED watchVars,
         Turn(i)', Settling(i)', Recorded(i)', Stops(i)',
         wr'[i].pc \in {"decide", "launch"} => \A j \in 1..i-1 : Apart(i, j)'
  PROVE  IInv'
<1>1. Step(i, i)
  BY DEF IInv, Typed, Step, OthersRec, OthersJob, watchVars
<1>2. Charged(i)' /\ Watched(i)'
  BY DEF IInv, Charged, Watched, EndedBy, Live, watchVars
<1>. QED BY <1>1, <1>2, StepFrame, LimitAssumption DEF Attempts, watchVars

\* While i's wrapper recovers j, j's own is gone.
InRecovery(i) == wr[i].pc \in Recovering /\ On(i) < i

LEMMA RecoveryFacts ==
  ASSUME IInv, NEW i \in Attempts, InRecovery(i)
  PROVE  /\ On(i) \in Attempts /\ On(i) # i /\ Gone(On(i)) /\ wr[i].pc \in Working
         /\ \A j \in 1..i-1 : Gone(j)
         /\ \A j \in 1..On(i)-1 : ~LiveRecord(j)
         /\ rec[i] \in Records /\ wr[i] \in Wrappers /\ rec[On(i)] \in Records
         /\ job[On(i)].is # "parked"
<1>1. i \in 1..N /\ N \in Nat /\ wr[i].pc \in Working /\ Typed /\ Turn(i)
  BY LimitAssumption DEF InRecovery, Working, Before, Attempts, IInv
<1>2. On(i) \in Attempts /\ Gone(On(i)) /\ \A j \in 1..i-1 : Gone(j)
  BY <1>1, OneWrapper DEF InRecovery, Attempts
<1>3. job[On(i)].is # "parked"
  BY <1>2 DEF IInv, Recorded, Gone, At
<1>. QED BY <1>1, <1>2, <1>3 DEF InRecovery, Turn, Typed

\* It goes on, with or without a record that it is about to settle.
LEMMA RecoverMoves ==
  ASSUME IInv, NEW i \in Attempts, InRecovery(i), OthersWr(i), UNCHANGED watchVars,
         \/ wr'[i].pc = "recover" /\ wr'[i].on = On(i) + 1 /\ ~LiveRecord(On(i))
         \/ wr'[i].pc = "terminate" /\ wr'[i].on = On(i) /\ LiveRecord(On(i))
         \/ wr'[i].pc = "settle" /\ wr'[i].on = On(i),
         Settling(i)'
  PROVE  IInv'
<1>0. /\ wr[i].pc \in Working /\ Gone(On(i)) /\ On(i) # i /\ On(i) \in Attempts
      /\ \A j \in 1..i-1 : Gone(j)
      /\ \A j \in 1..On(i)-1 : ~LiveRecord(j)
      /\ i \in 1..N /\ N \in Nat
  BY RecoveryFacts, LimitAssumption DEF Attempts
<1>1. Turn(i)'
  <2>1. \A j \in 1..i-1 : Gone(j)'
    BY <1>0 DEF Gone, At, OthersWr, Attempts
  <2>2. \A j \in 1..On(i)-1 : ~LiveRecord(j)'
    BY <1>0 DEF LiveRecord, watchVars
  <2>3. CASE wr'[i].pc = "recover" /\ wr'[i].on = On(i) + 1 /\ ~LiveRecord(On(i))
    BY <1>0, <2>1, <2>2, <2>3
       DEF Turn, At, On, Recovering, Working, Before, Running, watchVars, LiveRecord, InRecovery, Attempts
  <2>4. CASE \/ wr'[i].pc = "terminate" /\ wr'[i].on = On(i) /\ LiveRecord(On(i))
             \/ wr'[i].pc = "settle" /\ wr'[i].on = On(i)
    BY <1>0, <2>1, <2>2, <2>4
       DEF Turn, At, On, Recovering, Working, Before, Running, InRecovery, Attempts, watchVars, LiveRecord
  <2>. QED BY <2>3, <2>4
<1>2. Recorded(i)'
  BY DEF IInv, Recorded, Pristine, At, InRecovery, Recovering, Before, Running, watchVars
<1>3. Stops(i)'
  BY DEF IInv, Stops, Suspect, Evidence, At, Live, watchVars
<1>. QED BY <1>0, <1>1, <1>2, <1>3, MoveFrame

LEMMA InterruptedFacts ==
  ASSUME NEW j \in Attempts, rec[j] \in Records, NEW at \in Time, NEW past \in BOOLEAN,
         NEW f, f = Interrupted(j, at, past)
  PROVE  /\ f \in Records /\ f.launched = rec[j].launched /\ f.limit = rec[j].limit
         /\ f.state = "ended" /\ f.until = at /\ f.past = past
         /\ f.standDown = rec[j].standDown
BY DEF Interrupted, Records

LEMMA SettleFacts ==
  ASSUME Typed, NEW i \in Attempts, NEW f \in Records,
         wr' = [wr EXCEPT ![i].pc = "settle", ![i].fields = f]
  PROVE  OthersWr(i) /\ wr'[i].pc = "settle" /\ wr'[i].on = On(i) /\ wr'[i].fields = f
<1> DEFINE w == [wr[i] EXCEPT !.pc = "settle", !.fields = f]
<1>1. wr \in [Attempts -> Wrappers] /\ wr[i] \in Wrappers
  BY DEF Typed
<1>2. w \in Wrappers /\ w.pc = "settle" /\ w.on = wr[i].on /\ w.fields = f
  BY ONLY <1>1, f \in Records DEF Wrappers, Working, Before, Recovering
<1>3. wr' = [wr EXCEPT ![i] = w]
  OBVIOUS
<1> HIDE DEF w
<1>. QED BY <1>1, <1>2, <1>3 DEF OthersWr, On

LEMMA ReconcileKeeps ==
  ASSUME IInv, NEW i \in Attempts, Reconcile(i)
  PROVE  IInv'
<1> DEFINE j == On(i)
<1>0. /\ At(i, "recover") /\ InRecovery(i) /\ UNCHANGED watchVars /\ j \in Attempts
      /\ Recorded(j) /\ Charged(j) /\ Stops(j) /\ rec[j] \in Records /\ Typed
      /\ dog[j] \in Dogs /\ job[j].is # "parked"
  <2>1. At(i, "recover") /\ InRecovery(i) /\ UNCHANGED watchVars
    BY DEF Reconcile, InRecovery, At, Recovering
  <2>. QED BY <2>1, RecoveryFacts DEF IInv, Typed
<1>1. CASE ~LiveRecord(j) /\ wr' = [wr EXCEPT ![i].on = @ + 1]
  <2>1. /\ OthersWr(i) /\ wr'[i].pc = "recover" /\ wr'[i].on = On(i) + 1
    BY <1>0, <1>1 DEF Typed, OthersWr, Wrappers, At, On
  <2>2. Settling(i)'
    BY <2>1 DEF Settling
  <2>. QED BY <1>0, <1>1, <2>1, <2>2, RecoverMoves
<1>2. CASE ~LiveRecord(j) /\ wr' = [wr EXCEPT ![i].pc = "settle", ![i].fields = rec[j]]
  <2>1. /\ OthersWr(i) /\ wr'[i].pc = "settle" /\ wr'[i].on = On(i) /\ wr'[i].fields = rec[j]
    BY <1>0, <1>2, SettleFacts
  <2>2. Settling(i)'
    BY <1>0, <1>2, <2>1 DEF Settling, On, Fields, LiveRecord, Recorded, Charged, Stops, EndedBy,
       Suspect, Evidence, Live, watchVars, Pristine, Records
  <2>. QED BY <1>0, <2>1, <2>2, RecoverMoves
<1>3. ASSUME LiveRecord(j), Trusted(j), NEW past \in BOOLEAN,
             past = (dog[j].alive \/ dog[j].gone >= rec[j].limit),
             wr' = [wr EXCEPT ![i].pc = "settle", ![i].fields = Interrupted(j, dog[j].gone, past)]
      PROVE  IInv'
  <2> DEFINE f == Interrupted(j, dog[j].gone, past)
  <2>1. /\ f \in Records /\ f.launched = rec[j].launched /\ f.limit = rec[j].limit
        /\ f.state = "ended" /\ f.until = dog[j].gone /\ f.standDown = rec[j].standDown
        /\ f.past = past
    BY <1>0, TypedFields, InterruptedFacts
  <2> HIDE DEF f
  <2>2. /\ OthersWr(i) /\ wr'[i].pc = "settle" /\ wr'[i].on = On(i) /\ wr'[i].fields = f
    BY <1>0, <1>3, <2>1, SettleFacts DEF f
  <2>3. Settling(i)'
    BY <1>0, <1>3, <2>1, <2>2 DEF Settling, On, Fields, LiveRecord, Charged, EndedBy,
       Suspect, Evidence, Live, watchVars, Trusted, At
  <2>. QED BY <1>0, <2>2, <2>3, RecoverMoves
<1>4. CASE LiveRecord(j) /\ Go(i, "terminate")
  <2>1. OthersWr(i) /\ wr'[i].pc = "terminate" /\ wr'[i].on = On(i)
    BY <1>0, <1>4, GoFacts DEF On, Working, Before, Recovering
  <2>2. Settling(i)'
    BY <2>1 DEF Settling
  <2>. QED BY <1>0, <1>4, <2>1, <2>2, RecoverMoves
<1>5. (dog[j].alive \/ dog[j].gone >= rec[j].limit) \in BOOLEAN
  <2>1. dog[j].alive \in BOOLEAN /\ dog[j].gone \in Int /\ rec[j].limit \in Int
    BY <1>0, TypedFields
  <2>. QED BY <2>1
<1>6. ASSUME LiveRecord(j), Trusted(j),
             wr' = [wr EXCEPT ![i].pc = "settle",
               ![i].fields = Interrupted(j, dog[j].gone,
                                         dog[j].alive \/ dog[j].gone >= rec[j].limit)]
      PROVE  IInv'
  <2>1. PICK past \in BOOLEAN : past = (dog[j].alive \/ dog[j].gone >= rec[j].limit)
    BY <1>5
  <2>. QED BY <1>3, <1>6, <2>1
<1>7. CASE ~LiveRecord(j)
  <2>1. \/ wr' = [wr EXCEPT ![i].on = @ + 1]
        \/ wr' = [wr EXCEPT ![i].pc = "settle", ![i].fields = rec[j]]
    BY <1>7 DEF Reconcile
  <2>. QED BY <1>1, <1>2, <1>7, <2>1
<1>8. CASE LiveRecord(j) /\ Trusted(j)
  BY <1>6, <1>8 DEF Reconcile
<1>9. CASE LiveRecord(j) /\ ~Trusted(j)
  BY <1>4, <1>9 DEF Reconcile
<1>. QED BY <1>7, <1>8, <1>9

LEMMA VerifiedKeeps ==
  ASSUME IInv, NEW i \in Attempts, Verified(i)
  PROVE  IInv'
<1> DEFINE j == On(i)
<1>0. /\ At(i, "terminate") /\ InRecovery(i) /\ UNCHANGED watchVars /\ j \in Attempts
      /\ Recorded(j) /\ Charged(j) /\ Watched(j) /\ rec[j] \in Records /\ Typed /\ now \in Time
      /\ job[j].is # "parked" /\ ~Live(j) /\ LiveRecord(j)
  <2>1. At(i, "terminate") /\ InRecovery(i) /\ UNCHANGED watchVars /\ LiveRecord(j) /\ ~Live(j)
    BY DEF Verified, InRecovery, At, Recovering, IInv, Turn
  <2>. QED BY <2>1, RecoveryFacts DEF IInv, Typed, Time
<1>1. PICK past \in BOOLEAN : past = (now >= rec[j].limit)
  <2>1. now \in Int /\ rec[j].limit \in Int
    BY <1>0, TypedFields
  <2>2. (now >= rec[j].limit) \in BOOLEAN
    BY <2>1
  <2>. QED BY <2>2
<1> DEFINE f == Interrupted(j, now, past)
<1>2. wr' = [wr EXCEPT ![i].pc = "settle", ![i].fields = f]
  BY <1>1 DEF Verified
<1>3. /\ f \in Records /\ f.launched = rec[j].launched /\ f.limit = rec[j].limit
      /\ f.state = "ended" /\ f.until = now /\ f.past = past /\ f.standDown = rec[j].standDown
  BY <1>0, InterruptedFacts
<1> HIDE DEF f
<1>4. /\ OthersWr(i) /\ wr'[i].pc = "settle" /\ wr'[i].on = On(i) /\ wr'[i].fields = f
  BY <1>0, <1>2, <1>3, SettleFacts
<1>5. EndedBy(j, now)
  BY <1>0 DEF Charged, EndedBy, Live, Typed, Never, LiveRecord, Recorded, Pristine
<1>6. Suspect(j, f) => Evidence(j, f)
  BY <1>0, <1>1, <1>3 DEF Suspect, Evidence, Watched
<1>7. Settling(i)'
  BY <1>0, <1>3, <1>4, <1>5, <1>6 DEF Settling, On, Fields, LiveRecord, EndedBy,
     Suspect, Evidence, Live, watchVars, At, Typed, Never
<1>. QED BY <1>0, <1>4, <1>7, RecoverMoves

\* It writes the record that it recovers.
LEMMA RecoverWrites ==
  ASSUME IInv, NEW i \in Attempts, InRecovery(i), NEW j, j = On(i), Step(i, j),
         UNCHANGED job,
         \/ wr'[i].pc = "recover" /\ wr'[i].on = j + 1 /\ ~LiveRecord(j)'
         \/ wr'[i].pc \in {"unavailable", "settleDog"} /\ wr'[i].on = j /\ ~LiveRecord(j)'
         \/ wr'[i].pc \in {"settleStop", "settleState"} /\ wr'[i].on = j,
         Settling(i)', Recorded(j)', EndedBy(j, rec[j].until)', rec'[j].standDown => ~Live(j),
         rec'[j].state = "ended" => rec'[j].until # Never,
         rec'[j].state = "ended" /\ Suspect(j, rec[j])' => stop' # "none"
  PROVE  IInv'
<1>0. /\ wr[i].pc \in Working /\ Gone(j) /\ j # i /\ j \in Attempts /\ j < i
      /\ \A k \in 1..i-1 : Gone(k)
      /\ \A k \in 1..j-1 : ~LiveRecord(k)
      /\ i \in 1..N /\ N \in Nat /\ j \in 1..i-1
  BY RecoveryFacts, LimitAssumption DEF Attempts, InRecovery
<1>1. Turn(i)'
  <2>1. \A k \in 1..i-1 : Gone(k)'
    BY <1>0 DEF Gone, At, Step, OthersWr, Attempts
  <2>2. \A k \in 1..j-1 : ~LiveRecord(k)'
    BY <1>0 DEF LiveRecord, Step, OthersRec, Attempts
  <2>3. CASE wr'[i].pc = "recover" /\ wr'[i].on = j + 1 /\ ~LiveRecord(j)'
    <3>1. \A k \in 1..j : ~LiveRecord(k)'
      BY <1>0, <2>2, <2>3
    <3>2. /\ On(i)' \in 1..i /\ \A k \in 1..On(i)'-1 : ~LiveRecord(k)'
      BY <1>0, <2>3, <3>1 DEF On
    <3>. QED BY <1>0, <2>1, <2>3, <3>2 DEF Turn, At, On, Recovering, Working, Before, Running, Attempts
  <2>4. CASE wr'[i].pc \in {"unavailable", "settleDog"} /\ wr'[i].on = j /\ ~LiveRecord(j)'
    BY <1>0, <2>1, <2>2, <2>4 DEF Turn, At, On, Recovering, Working, Before, Running, Attempts
  <2>5. CASE wr'[i].pc \in {"settleStop", "settleState"} /\ wr'[i].on = j
    BY <1>0, <2>1, <2>2, <2>5 DEF Turn, At, On, Recovering, Working, Before, Running, Attempts
  <2>. QED BY <2>3, <2>4, <2>5
<1>2. rec'[i] = rec[i] /\ wr'[i].pc \in Recovering /\ wr'[j].pc = "over"
  BY <1>0 DEF Step, OthersRec, OthersWr, Recovering, Gone, At
<1>3. Recorded(i)' /\ Stops(i)'
  BY <1>2 DEF IInv, Recorded, Pristine, Stops, At, InRecovery, Recovering, Before, Running, Step
<1>4. Charged(j)' /\ Watched(j)'
  BY <1>0 DEF IInv, Charged, EndedBy, Watched, Live, Step
<1>5. Stops(j)'
  BY <1>2 DEF Stops, At
<1>. QED BY <1>0, <1>1, <1>2, <1>3, <1>4, <1>5, StepFrame DEF Recovering

LEMMA NotVerifiedKeeps ==
  ASSUME IInv, NEW i \in Attempts, NotVerified(i)
  PROVE  IInv'
<1> PICK j : j = On(i)
  OBVIOUS
<1>0. /\ InRecovery(i) /\ UNCHANGED <<now, job, dog, stop>> /\ j \in Attempts /\ j # i
      /\ Recorded(j) /\ Charged(j) /\ Typed /\ Gone(j) /\ rec[j] \in Records
      /\ job[j].is = "live" /\ LiveRecord(j)
  <2>1. /\ InRecovery(i) /\ UNCHANGED <<now, job, dog, stop>> /\ LiveRecord(j) /\ Live(j)
    BY DEF NotVerified, InRecovery, At, Recovering, IInv, Turn
  <2>. QED BY <2>1, RecoveryFacts DEF IInv, Live
<1> DEFINE r == [rec[j] EXCEPT !.state = "unverified", !.class = "not verified"]
<1>1. /\ r \in Records /\ r.state = "unverified" /\ r.launched = rec[j].launched
      /\ r.limit = rec[j].limit /\ r.until = rec[j].until /\ r.standDown = rec[j].standDown
  BY <1>0 DEF Records
<1>2. Write(j, r) /\ Go(i, "unavailable")
  BY DEF NotVerified
<1> HIDE DEF r
<1>3. OthersRec(j) /\ rec'[j] = r
  BY <1>0, <1>1, <1>2, WriteFacts
<1>4. OthersWr(i) /\ wr'[i].pc = "unavailable" /\ wr'[i].on = j
  BY <1>0, <1>2, GoFacts DEF On, Working, Before, Recovering
<1>5. Step(i, j)
  BY <1>0, <1>1, <1>3, <1>4 DEF Step, Typed, OthersJob
<1>6. Recorded(j)' /\ EndedBy(j, rec[j].until)' /\ (rec'[j].standDown => ~Live(j))
  <2>1. wr'[j].pc = "over"
    BY <1>0, <1>4 DEF OthersWr, Gone, At
  <2>. QED BY <1>0, <1>1, <1>3, <2>1
          DEF Recorded, At, Before, Recovering, Running, Charged, EndedBy, Live, LiveRecord
<1>7. ~LiveRecord(j)' /\ Settling(i)'
  BY <1>1, <1>3, <1>4 DEF LiveRecord, Settling
<1>. QED BY <1>0, <1>1, <1>3, <1>4, <1>5, <1>6, <1>7, RecoverWrites

\* A record that recovery leaves as it is.
LEMMA RecordStands ==
  ASSUME IInv, NEW i \in Attempts, InRecovery(i), NEW j, j = On(i), OthersWr(i),
         UNCHANGED <<rec, job, dog>>
  PROVE  /\ Recorded(j)' /\ EndedBy(j, rec[j].until)' /\ (rec'[j].standDown => ~Live(j))
         /\ rec'[j].state = "ended" => rec'[j].until # Never
<1>1. j \in Attempts /\ Gone(j) /\ j # i
  BY RecoveryFacts
<1>2. Recorded(j) /\ Charged(j) /\ wr[j].pc = "over" /\ wr'[j].pc = "over"
  BY <1>1 DEF IInv, OthersWr, Gone, At
<1>3. Recorded(j)'
  BY <1>2 DEF Recorded, At, Before, Recovering, Running, Pristine
<1>. QED BY <1>2, <1>3 DEF Charged, EndedBy, Live

LEMMA StopUnavailableKeeps ==
  ASSUME IInv, NEW i \in Attempts, StopUnavailable(i)
  PROVE  IInv'
<1> PICK j : j = On(i)
  OBVIOUS
<1>0. /\ InRecovery(i) /\ UNCHANGED <<now, rec, job, dog>> /\ Typed /\ ~LiveRecord(j)
  BY DEF StopUnavailable, InRecovery, At, Recovering, IInv, Turn
<1>1. stop' \in {"limit", "unavailable", "gate"}
  BY <1>0, StopFacts DEF StopUnavailable
<1>2. OthersWr(i) /\ wr'[i].pc = "recover" /\ wr'[i].on = j + 1
  BY <1>0 DEF StopUnavailable, Typed, OthersWr, Wrappers, Working, Before, Recovering, On
<1>3. Step(i, j)
  BY <1>0, <1>1, <1>2 DEF Step, Typed, OthersRec, OthersJob
<1>4. ~LiveRecord(j)' /\ Settling(i)'
  BY <1>0, <1>2 DEF LiveRecord, Settling
<1>. QED BY <1>0, <1>1, <1>2, <1>3, <1>4, RecordStands, RecoverWrites

LEMMA SettleKeeps ==
  ASSUME IInv, NEW i \in Attempts, Settle(i)
  PROVE  IInv'
<1> PICK j : j = On(i)
  OBVIOUS
<1> PICK f : f = Fields(i)
  OBVIOUS
<1>0. /\ InRecovery(i) /\ UNCHANGED <<now, job, dog, stop>> /\ j \in Attempts /\ Typed
      /\ rec[j] \in Records /\ f \in Records /\ Settling(i) /\ At(i, "settle") /\ j # i
      /\ Recorded(j) /\ Charged(j) /\ Stops(j) /\ Gone(j)
  <2>1. InRecovery(i) /\ UNCHANGED <<now, job, dog, stop>> /\ At(i, "settle")
    BY DEF Settle, InRecovery, At, Recovering, IInv, Turn
  <2>. QED BY <2>1, RecoveryFacts DEF IInv, Fields, Wrappers
<1>1. CASE LimitEvidence(j, f)
  <2> DEFINE r == [rec[j] EXCEPT !.class = "budget"]
  <2>1. /\ r \in Records /\ r.state = rec[j].state /\ r.launched = rec[j].launched
        /\ r.limit = rec[j].limit /\ r.until = rec[j].until /\ r.standDown = rec[j].standDown
        /\ r.byLimit = rec[j].byLimit /\ r.past = rec[j].past
    BY <1>0 DEF Records
  <2>2. Write(j, r) /\ wr' = [wr EXCEPT ![i].pc = "settleStop", ![i].fields.class = "budget"]
    BY <1>1 DEF Settle
  <2> HIDE DEF r
  <2>3. OthersRec(j) /\ rec'[j] = r
    BY <1>0, <2>1, <2>2, WriteFacts
  <2>4. /\ OthersWr(i) /\ wr'[i].pc = "settleStop" /\ wr'[i].on = j
        /\ wr'[i].fields = [f EXCEPT !.class = "budget"]
    <3>1. [f EXCEPT !.class = "budget"] \in Records
      BY <1>0 DEF Records
    <3>2. wr \in [Attempts -> Wrappers] /\ wr[i] \in Wrappers
      BY <1>0 DEF Typed
    <3>. QED BY <2>2, <3>1, <3>2 DEF OthersWr, On, Fields, Wrappers, Working, Before, Recovering
  <2>5. Step(i, j)
    BY <1>0, <2>1, <2>3, <2>4 DEF Step, Typed, OthersJob
  <2>6. Recorded(j)'
    <3>1. wr'[j].pc = "over"
      BY <1>0, <2>4 DEF OthersWr, Gone, At
    <3>2. Pristine(j)' <=> Pristine(j)
      BY <2>1, <2>3 DEF Pristine
    <3>. QED BY <1>0, <2>1, <2>3, <3>1, <3>2 DEF Gone, Recorded, At, Before, Recovering, Running
  <2>7. /\ EndedBy(j, rec[j].until)' /\ (rec'[j].standDown => ~Live(j))
        /\ rec'[j].state = "ended" => rec'[j].until # Never
    BY <1>0, <2>1, <2>3 DEF Charged, EndedBy, Live
  <2>8. rec'[j].state = "ended" /\ Suspect(j, rec[j])' => stop' # "none"
    BY <1>0, <2>1, <2>3 DEF Stops, Suspect, Evidence
  <2>9. Settling(i)'
    <3> PICK g : g = wr'[i].fields
      OBVIOUS
    <3>1. /\ g.state = f.state /\ g.launched = f.launched /\ g.limit = f.limit
          /\ g.until = f.until /\ g.standDown = f.standDown /\ g.byLimit = f.byLimit
          /\ g.past = f.past
      BY <1>0, <2>4 DEF Records
    <3>. QED BY <1>0, <2>1, <2>3, <2>4, <3>1
            DEF Settling, On, Fields, EndedBy, Live, LiveRecord, At
  <2>. QED BY <1>0, <2>4, <2>5, <2>6, <2>7, <2>8, <2>9, RecoverWrites
<1>2. CASE ~LimitEvidence(j, f)
  <2>1. Go(i, "settleState") /\ UNCHANGED rec
    BY <1>2 DEF Settle
  <2>2. OthersWr(i) /\ wr'[i].pc = "settleState" /\ wr'[i].on = j /\ wr'[i].fields = f
    BY <1>0, <2>1, GoFacts DEF On, Fields, Working, Before, Recovering
  <2>3. Step(i, j)
    BY <1>0, <2>1, <2>2 DEF Step, Typed, OthersRec, OthersJob
  <2>4. rec'[j].state = "ended" /\ Suspect(j, rec[j])' => stop' # "none"
    BY <1>0, <2>1 DEF Stops, Suspect, Evidence
  <2>5. Settling(i)'
    BY <1>0, <1>2, <2>1, <2>2 DEF Settling, On, Fields, EndedBy, Live, LiveRecord, At,
       Suspect, Evidence, LimitEvidence
  <2>. QED BY <1>0, <2>1, <2>2, <2>3, <2>4, <2>5, RecordStands, RecoverWrites
<1>. QED BY <1>1, <1>2

LEMMA SettleStopKeeps ==
  ASSUME IInv, NEW i \in Attempts, SettleStop(i)
  PROVE  IInv'
<1> PICK j : j = On(i)
  OBVIOUS
<1>0. /\ InRecovery(i) /\ UNCHANGED <<now, rec, job, dog>> /\ Typed /\ Settling(i)
      /\ At(i, "settleStop") /\ Go(i, "settleState")
  BY DEF SettleStop, InRecovery, At, Recovering, IInv, Turn
<1>1. stop' \in {"limit", "unavailable", "gate"}
  BY <1>0, StopFacts DEF SettleStop
<1>2. OthersWr(i) /\ wr'[i].pc = "settleState" /\ wr'[i].on = j /\ wr'[i].fields = Fields(i)
  BY <1>0, GoFacts DEF On, Fields, Working, Before, Recovering
<1>3. Step(i, j)
  BY <1>0, <1>1, <1>2 DEF Step, Typed, OthersRec, OthersJob
<1>4. Settling(i)'
  BY <1>0, <1>1, <1>2 DEF Settling, On, Fields, EndedBy, Live, LiveRecord, At
<1>. QED BY <1>0, <1>1, <1>2, <1>3, <1>4, RecordStands, RecoverWrites

LEMMA SettleStateKeeps ==
  ASSUME IInv, NEW i \in Attempts, SettleState(i)
  PROVE  IInv'
<1> PICK j : j = On(i)
  OBVIOUS
<1> PICK f : f = Fields(i)
  OBVIOUS
<1>0. /\ InRecovery(i) /\ UNCHANGED <<now, job, dog, stop>> /\ j \in Attempts /\ Typed
      /\ rec[j] \in Records /\ f \in Records /\ Settling(i) /\ At(i, "settleState") /\ j # i
      /\ Recorded(j) /\ Gone(j) /\ Write(j, f) /\ Go(i, "settleDog")
  <2>1. /\ InRecovery(i) /\ UNCHANGED <<now, job, dog, stop>> /\ At(i, "settleState")
        /\ Write(j, f) /\ Go(i, "settleDog")
    BY DEF SettleState, InRecovery, At, Recovering, IInv, Turn
  <2>. QED BY <2>1, RecoveryFacts DEF IInv, Fields, Wrappers
<1>1. OthersRec(j) /\ rec'[j] = f
  BY <1>0, WriteFacts
<1>2. OthersWr(i) /\ wr'[i].pc = "settleDog" /\ wr'[i].on = j
  BY <1>0, GoFacts DEF On, Working, Before, Recovering
<1>3. /\ f.launched = rec[j].launched /\ f.limit = rec[j].limit
      /\ f.state = rec[j].state \/ (f.state = "ended" /\ LiveRecord(j))
      /\ f.state \notin {"launching", "running"}
      /\ f.state \in {"none", "admitting", "busy", "refused"} =>
           f.until = Never /\ ~f.byLimit /\ ~f.past /\ ~f.standDown
      /\ EndedBy(j, f.until) /\ (f.state = "ended" => f.until # Never)
      /\ f.standDown => ~Live(j)
      /\ f.state = "ended" /\ Suspect(j, f) => stop # "none"
  BY <1>0 DEF Settling, At
<1>4. Step(i, j)
  BY <1>0, <1>1, <1>2, <1>3 DEF Step, Typed, OthersJob, LiveRecord
<1>5. Recorded(j)'
  <2>1. wr'[j].pc = "over"
    BY <1>0, <1>2 DEF OthersWr, Gone, At
  <2>. QED BY <1>0, <1>1, <1>3, <2>1
          DEF Recorded, At, Before, Recovering, Running, Pristine, Gone, LiveRecord
<1>6. /\ EndedBy(j, rec[j].until)' /\ (rec'[j].standDown => ~Live(j))
      /\ rec'[j].state = "ended" => rec'[j].until # Never
      /\ rec'[j].state = "ended" /\ Suspect(j, rec[j])' => stop' # "none"
  BY <1>0, <1>1, <1>3 DEF EndedBy, Live, Suspect, Evidence
<1>7. ~LiveRecord(j)' /\ Settling(i)'
  BY <1>1, <1>2, <1>3 DEF LiveRecord, Settling
<1>. QED BY <1>0, <1>2, <1>4, <1>5, <1>6, <1>7, RecoverWrites

LEMMA SettleDogKeeps ==
  ASSUME IInv, NEW i \in Attempts, SettleDog(i)
  PROVE  IInv'
<1> PICK j : j = On(i)
  OBVIOUS
<1>0. /\ InRecovery(i) /\ UNCHANGED <<now, job, dog, stop>> /\ j \in Attempts /\ Typed
      /\ rec[j] \in Records /\ ~LiveRecord(j) /\ j # i
      /\ Recorded(j) /\ Charged(j) /\ Stops(j) /\ Gone(j)
  <2>1. InRecovery(i) /\ UNCHANGED <<now, job, dog, stop>> /\ ~LiveRecord(j)
    BY DEF SettleDog, InRecovery, At, Recovering, IInv, Turn
  <2>. QED BY <2>1, RecoveryFacts DEF IInv
<1>1. PICK down \in BOOLEAN : down = (rec[j].standDown \/ rec[j].state = "ended")
  <2>1. rec[j].standDown \in BOOLEAN
    BY <1>0, RecordFields
  <2>2. (rec[j].standDown \/ rec[j].state = "ended") \in BOOLEAN
    BY <2>1
  <2>. QED BY <2>2
<1> DEFINE r == [rec[j] EXCEPT !.standDown = down]
<1>2. /\ r \in Records /\ r.state = rec[j].state /\ r.launched = rec[j].launched
      /\ r.limit = rec[j].limit /\ r.until = rec[j].until /\ r.standDown = down
      /\ r.byLimit = rec[j].byLimit /\ r.past = rec[j].past
  BY <1>0 DEF Records
<1>3. Write(j, r)
  BY <1>0, <1>1 DEF SettleDog, Write, Typed
<1> HIDE DEF r
<1>4. OthersRec(j) /\ rec'[j] = r
  BY <1>0, <1>2, <1>3, WriteFacts
<1>5. OthersWr(i) /\ wr'[i].pc = "recover" /\ wr'[i].on = j + 1
  BY <1>0, NothingIsTyped DEF SettleDog, Typed, OthersWr, Wrappers, Working, Before, Recovering, On
<1>6. Step(i, j)
  BY <1>0, <1>2, <1>4, <1>5 DEF Step, Typed, OthersJob
<1>7. Recorded(j)'
  <2>1. wr'[j].pc = "over"
    BY <1>0, <1>5 DEF OthersWr, Gone, At
  <2>2. Pristine(j) /\ rec[j].state # "ended" => Pristine(j)'
    BY <1>1, <1>2, <1>4 DEF Pristine
  <2>. QED BY <1>0, <1>2, <1>4, <2>1, <2>2 DEF Recorded, At, Before, Recovering, Running, Gone
<1>8. /\ EndedBy(j, rec[j].until)' /\ (rec'[j].standDown => ~Live(j))
      /\ rec'[j].state = "ended" => rec'[j].until # Never
  BY <1>0, <1>1, <1>2, <1>4 DEF Charged, EndedBy, Live
<1>9. rec'[j].state = "ended" /\ Suspect(j, rec[j])' => stop' # "none"
  BY <1>0, <1>2, <1>4 DEF Stops, Suspect, Evidence
<1>10. ~LiveRecord(j)' /\ Settling(i)'
  BY <1>0, <1>2, <1>4, <1>5 DEF LiveRecord, Settling
<1>. QED BY <1>0, <1>5, <1>6, <1>7, <1>8, <1>9, <1>10, RecoverWrites

LEMMA CloseUnverifiedKeeps ==
  ASSUME IInv, NEW i \in Attempts, CloseUnverified(i)
  PROVE  IInv'
<1>0. /\ At(i, "recover") /\ On(i) = i /\ UNCHANGED <<now, job, dog, stop>> /\ Typed
      /\ wr[i].pc \in Working /\ Turn(i) /\ Recorded(i) /\ Stops(i)
      /\ i \in 1..N /\ N \in Nat
  BY LimitAssumption DEF CloseUnverified, At, Working, Before, Recovering, IInv, Attempts
<1>1. ASSUME NEW j \in Unverified, ~Live(j), UNCHANGED wr,
             Write(j, [rec[j] EXCEPT !.until = now, !.standDown = TRUE])
      PROVE  IInv'
  <2> DEFINE r == [rec[j] EXCEPT !.until = now, !.standDown = TRUE]
  <2>0. /\ j \in Attempts /\ rec[j] \in Records /\ rec[j].state = "unverified"
        /\ Recorded(j) /\ Charged(j) /\ Watched(j) /\ now \in Time /\ Turn(j)
    BY <1>0, <1>1, TypedFields DEF Unverified, IInv
  <2>1. j \in 1..i /\ j # i
    <3>1. j # i
      BY <1>0, <2>0 DEF Recorded, At, Before, Recovering
    <3>2. ~At(j, "off")
      BY <2>0 DEF Turn, NoRecord
    <3>. QED BY <1>0, <2>0, <3>1, <3>2, OneWrapper DEF Attempts
  <2>2. /\ r \in Records /\ r.state = "unverified" /\ r.launched = rec[j].launched
        /\ r.limit = rec[j].limit /\ r.until = now /\ r.standDown = TRUE
    BY <2>0 DEF Records
  <2> HIDE DEF r
  <2>3. OthersRec(j) /\ rec'[j] = r
    BY <1>0, <1>1, <2>0, <2>2, WriteFacts DEF r
  <2>4. Step(i, j)
    BY <1>0, <1>1, <2>0, <2>2, <2>3 DEF Step, Typed, OthersWr, OthersJob
  <2>5. Turn(i)'
    BY <1>0, <1>1, <2>0, <2>1, <2>2, <2>3
       DEF Turn, At, Gone, LiveRecord, On, OthersRec, Recovering, Attempts
  <2>6. Recorded(i)' /\ Stops(i)' /\ Settling(i)'
    <3>1. rec'[i] = rec[i] /\ wr'[i] = wr[i] /\ job'[i] = job[i] /\ dog'[i] = dog[i] /\ stop' = stop
      BY <1>0, <1>1, <2>1, <2>3 DEF OthersRec
    <3>. QED BY <1>0, <3>1 DEF Recorded, Pristine, Stops, Settling, Suspect, Evidence, At, Live
  <2>7. Recorded(j)' /\ Watched(j)' /\ Stops(j)'
    <3>1. wr[j].pc = "over" /\ wr' = wr
      BY <1>0, <1>1, <2>0, <2>1, OneWrapper DEF Gone, At, Attempts
    <3>. QED BY <1>0, <2>0, <2>2, <2>3, <3>1
            DEF Recorded, Watched, Stops, At, Before, Recovering, Running, Live
  <2>8. Charged(j)'
    <3>1. now \in Nat /\ job[j].at \leq now
      BY <1>0, <2>0 DEF Charged, Typed, Never
    <3>. QED BY <1>0, <1>1, <2>0, <2>2, <2>3, <3>1 DEF Charged, EndedBy, Live
  <2>. QED BY <1>0, <1>1, <2>1, <2>4, <2>5, <2>6, <2>7, <2>8, StepFrame DEF At
<1>2. CASE Go(i, "gates") /\ UNCHANGED rec
  <2>1. OthersWr(i) /\ wr'[i].pc = "gates" /\ wr'[i].on = i /\ UNCHANGED watchVars
    BY <1>0, <1>2, GoFacts DEF On, Working, Before, watchVars
  <2>2. Turn(i)'
    BY <1>0, <2>1 DEF Turn, At, Gone, On, OthersWr, LiveRecord, Recovering, Working, Before, Running,
       watchVars, Attempts
  <2>3. Recorded(i)' /\ Stops(i)' /\ Settling(i)'
    BY <1>0, <2>1 DEF Recorded, Pristine, Stops, Settling, Suspect, Evidence, At, Live, Before,
       Recovering, Running, watchVars
  <2>. QED BY <1>0, <2>1, <2>2, <2>3, MoveFrame
<1>. QED BY <1>1, <1>2 DEF CloseUnverified

-----------------------------------------------------------------------------
\* i's wrapper has recovered what was to recover, and goes on or leaves.
AtOwn(i) == wr[i].pc \in Working \ Recovering

LEMMA OwnFacts ==
  ASSUME IInv, NEW i \in Attempts, AtOwn(i)
  PROVE  /\ Typed /\ On(i) = i /\ wr[i].pc \in Working /\ i \in 1..N /\ N \in Nat
         /\ \A j \in 1..i-1 : j \in Attempts /\ Gone(j) /\ ~LiveRecord(j)
         /\ Recorded(i) /\ Charged(i) /\ Watched(i) /\ Stops(i)
<1>1. /\ Typed /\ On(i) = i /\ wr[i].pc \in Working /\ i \in 1..N /\ N \in Nat
      /\ Recorded(i) /\ Charged(i) /\ Watched(i) /\ Stops(i) /\ Turn(i)
  BY LimitAssumption DEF IInv, AtOwn, Turn, Attempts
<1>. QED BY <1>1 DEF Turn, At, Working, Before, Recovering, Running, Attempts

LEMMA OwnFrame ==
  ASSUME IInv, NEW i \in Attempts, AtOwn(i), Step(i, i),
         wr'[i].pc = "over" \/ (AtOwn(i)' /\ wr'[i].on = wr[i].on),
         Recorded(i)', Charged(i)', Watched(i)', Stops(i)',
         wr'[i].pc \in {"decide", "launch"} \/ (job'[i].is # "none" /\ job[i].is = "none")
           => \A j \in 1..i-1 : Apart(i, j)'
  PROVE  IInv'
<1>1. /\ On(i) = i /\ wr[i].pc \in Working /\ i \in 1..N /\ N \in Nat
      /\ \A j \in 1..i-1 : j \in Attempts /\ Gone(j) /\ ~LiveRecord(j)
  BY OwnFacts
<1>2. \A j \in 1..i-1 : Gone(j)' /\ ~LiveRecord(j)'
  BY <1>1 DEF Step, OthersWr, OthersRec, Gone, At, LiveRecord, Attempts
<1>3. Turn(i)'
  <2>1. CASE wr'[i].pc = "over"
    BY <1>1, <1>2, <2>1 DEF Turn, At, Working, Before, Recovering, Running
  <2>2. CASE AtOwn(i)' /\ wr'[i].on = i
    BY <1>1, <1>2, <2>2 DEF Turn, At, On, AtOwn, Working, Before, Recovering, Running
  <2>. QED BY <1>1, <2>1, <2>2 DEF On
<1>4. Settling(i)'
  BY DEF Settling, AtOwn, Recovering
<1>. QED BY <1>1, <1>3, <1>4, StepFrame

LEMMA GatesKeeps ==
  ASSUME IInv, NEW i \in Attempts, Gates(i)
  PROVE  IInv'
<1>0. /\ At(i, "gates") /\ AtOwn(i) /\ UNCHANGED <<now, job, dog, stop>>
      /\ Typed /\ Recorded(i) /\ Charged(i) /\ Watched(i) /\ Stops(i) /\ rec[i] \in Records
      /\ rec[i].state = "admitting" /\ job[i] = NoJob
      /\ \A j \in 1..i-1 : j \in Attempts
  <2>1. At(i, "gates") /\ AtOwn(i) /\ UNCHANGED <<now, job, dog, stop>>
    BY DEF Gates, At, AtOwn, Working, Before, Recovering
  <2>2. Typed /\ Recorded(i)
    BY <2>1, OwnFacts
  <2>3. rec[i].state = "admitting" /\ job[i] = NoJob
    BY <2>1, <2>2 DEF Recorded, At, Before
  <2>. QED BY <2>1, <2>2, <2>3, OwnFacts, TypedFields
<1>1. CASE Write(i, [rec[i] EXCEPT !.state = "busy"]) /\ Leave(i)
  <2> DEFINE r == [rec[i] EXCEPT !.state = "busy"]
  <2>1. /\ r \in Records /\ r.state = "busy" /\ r.launched = rec[i].launched
        /\ r.limit = rec[i].limit /\ r.until = rec[i].until /\ r.standDown = rec[i].standDown
        /\ r.byLimit = rec[i].byLimit /\ r.past = rec[i].past
    BY <1>0 DEF Records
  <2> HIDE DEF r
  <2>2. OthersRec(i) /\ rec'[i] = r /\ OthersWr(i) /\ wr'[i].pc = "over"
    BY <1>0, <1>1, <2>1, WriteFacts, LeaveFacts DEF r
  <2>3. Step(i, i)
    BY <1>0, <2>2 DEF Step, Typed, OthersJob
  <2>4. Recorded(i)' /\ Stops(i)'
    BY <1>0, <2>1, <2>2 DEF Recorded, Stops, Pristine, At, Before, Recovering, Running, NoJob
  <2>5. Charged(i)' /\ Watched(i)'
    BY <1>0, <2>1, <2>2 DEF Charged, Watched, EndedBy, Live, NoJob
  <2>. QED BY <1>0, <2>2, <2>3, <2>4, <2>5, OwnFrame
<1>2. CASE (\A j \in Attempts : ~Live(j)) /\ Go(i, "decide") /\ UNCHANGED rec
  <2>1. OthersWr(i) /\ wr'[i].pc = "decide" /\ wr'[i].on = wr[i].on
    BY <1>0, <1>2, GoFacts DEF Working, Before
  <2>2. Step(i, i)
    BY <1>0, <1>2, <2>1 DEF Step, Typed, OthersRec, OthersJob
  <2>3. Recorded(i)' /\ Stops(i)'
    BY <1>0, <1>2, <2>1
       DEF Recorded, Stops, Pristine, Suspect, Evidence, At, Before, Recovering, Running
  <2>4. Charged(i)' /\ Watched(i)'
    BY <1>0, <1>2 DEF Charged, Watched, EndedBy, Live
  <2>5. \A j \in 1..i-1 : Apart(i, j)'
    BY <1>0, <1>2, <2>1 DEF Apart, At, Live, NoJob
  <2>. QED BY <1>0, <2>1, <2>2, <2>3, <2>4, <2>5, OwnFrame DEF AtOwn, Working, Before, Recovering
<1>. QED BY <1>1, <1>2 DEF Gates

LEMMA DecideKeeps ==
  ASSUME IInv, NEW i \in Attempts, Decide(i)
  PROVE  IInv'
<1>0. /\ At(i, "decide") /\ AtOwn(i) /\ UNCHANGED <<now, job, dog>>
      /\ Typed /\ Recorded(i) /\ Charged(i) /\ Watched(i) /\ Stops(i) /\ rec[i] \in Records
      /\ rec[i].state = "admitting" /\ job[i] = NoJob
      /\ \A j \in 1..i-1 : j \in Attempts /\ ~LiveRecord(j)
  <2>1. At(i, "decide") /\ AtOwn(i) /\ UNCHANGED <<now, job, dog>>
    BY DEF Decide, At, AtOwn, Working, Before, Recovering
  <2>2. Typed /\ Recorded(i)
    BY <2>1, OwnFacts
  <2>3. rec[i].state = "admitting" /\ job[i] = NoJob
    BY <2>1, <2>2 DEF Recorded, At, Before
  <2>. QED BY <2>1, <2>2, <2>3, OwnFacts, TypedFields
<1>1. CASE RecordStop("gate") /\ Leave(i) /\ Write(i, [rec[i] EXCEPT !.state = "refused"])
  <2> DEFINE r == [rec[i] EXCEPT !.state = "refused"]
  <2>1. /\ r \in Records /\ r.state = "refused" /\ r.launched = rec[i].launched
        /\ r.limit = rec[i].limit /\ r.until = rec[i].until /\ r.standDown = rec[i].standDown
        /\ r.byLimit = rec[i].byLimit /\ r.past = rec[i].past
    BY <1>0 DEF Records
  <2> HIDE DEF r
  <2>2. OthersRec(i) /\ rec'[i] = r /\ OthersWr(i) /\ wr'[i].pc = "over"
    BY <1>0, <1>1, <2>1, WriteFacts, LeaveFacts DEF r
  <2>3. stop' \in {"limit", "unavailable", "gate"}
    BY <1>0, <1>1, StopFacts
  <2>4. Step(i, i)
    BY <1>0, <2>2, <2>3 DEF Step, Typed, OthersJob
  <2>5. Recorded(i)' /\ Stops(i)'
    BY <1>0, <2>1, <2>2 DEF Recorded, Stops, Pristine, At, Before, Recovering, Running, NoJob
  <2>6. Charged(i)' /\ Watched(i)'
    BY <1>0, <2>1, <2>2 DEF Charged, Watched, EndedBy, Live, NoJob
  <2>. QED BY <1>0, <2>2, <2>4, <2>5, <2>6, OwnFrame
<1>2. CASE ~Stopped /\ Go(i, "launch") /\ UNCHANGED <<rec, stop>>
  <2>1. OthersWr(i) /\ wr'[i].pc = "launch" /\ wr'[i].on = wr[i].on
    BY <1>0, <1>2, GoFacts DEF Working, Before
  <2>2. Step(i, i)
    BY <1>0, <1>2, <2>1 DEF Step, Typed, OthersRec, OthersJob
  <2>3. Recorded(i)' /\ Stops(i)'
    BY <1>0, <1>2, <2>1
       DEF Recorded, Stops, Pristine, Suspect, Evidence, At, Before, Recovering, Running
  <2>4. Charged(i)' /\ Watched(i)'
    BY <1>0, <1>2 DEF Charged, Watched, EndedBy, Live
  <2>5. ASSUME NEW j \in 1..i-1 PROVE Apart(i, j)'
    <3>0. j \in Attempts /\ ~LiveRecord(j) /\ Apart(i, j) /\ ~LimitEvidence(j, rec[j])
      BY <1>0, <1>2 DEF Stopped, IInv
    <3>1. ~Live(j)
      BY <1>0, <3>0 DEF Apart
    <3>2. ASSUME Over(j) PROVE rec[j].state = "unverified"
      <4>1. rec[j].launched /\ rec[j].state \in {"ended", "unverified"}
        BY <3>0, <3>2 DEF IInv, Recorded, Over, LiveRecord
      <4>2. ASSUME rec[j].state = "ended" PROVE FALSE
        <5>1. /\ rec[j].until # Never /\ rec[j].until >= job[j].at
              /\ job[j].at >= rec[j].limit
          BY <3>0, <3>2, <4>2 DEF IInv, Charged, EndedBy, Over
        <5>2. rec[j].until >= rec[j].limit
          BY <1>0, <3>0, <5>1, TypedFields
        <5>. QED BY <3>0, <4>1, <5>1, <5>2 DEF LimitEvidence
      <4>. QED BY <4>1, <4>2
    <3>. QED BY <1>0, <1>2, <3>1, <3>2 DEF Apart, Live, Over
  <2>. QED BY <1>0, <2>1, <2>2, <2>3, <2>4, <2>5, OwnFrame DEF AtOwn, Working, Before, Recovering
<1>. QED BY <1>1, <1>2 DEF Decide

LEMMA LaunchingKeeps ==
  ASSUME IInv, NEW i \in Attempts, Launching(i)
  PROVE  IInv'
<1> DEFINE r == [rec[i] EXCEPT !.state = "launching", !.limit = now + Limit]
<1>0. /\ At(i, "launch") /\ AtOwn(i) /\ UNCHANGED <<now, dog, stop>>
      /\ Go(i, "watch") /\ Write(i, r) /\ job' = [job EXCEPT ![i].is = "parked"]
  BY DEF Launching, At, AtOwn, Working, Before, Recovering
<1>1. /\ Typed /\ Recorded(i) /\ Charged(i) /\ Watched(i) /\ Stops(i) /\ rec[i] \in Records
      /\ job[i] = NoJob /\ dog[i] = NoDog /\ Pristine(i)
  <2>1. Typed /\ Recorded(i) /\ Charged(i) /\ Watched(i) /\ Stops(i) /\ rec[i] \in Records
    BY <1>0, OwnFacts, TypedFields
  <2>2. job[i] = NoJob
    BY <1>0, <2>1 DEF Recorded, At, Before
  <2>. QED BY <2>1, <2>2 DEF Recorded, NoJob
<1>2. now + Limit \in Nat /\ now + Limit \in Time /\ now + Limit # Never
  BY <1>1, LimitAssumption DEF Typed, Time, Never
<1>3. /\ r \in Records /\ r.state = "launching" /\ r.limit = now + Limit
      /\ r.launched = rec[i].launched /\ r.until = rec[i].until
      /\ r.standDown = rec[i].standDown /\ r.byLimit = rec[i].byLimit /\ r.past = rec[i].past
  BY <1>1, <1>2 DEF Records
<1> HIDE DEF r
<1>4. OthersRec(i) /\ rec'[i] = r /\ OthersWr(i) /\ wr'[i].pc = "watch" /\ wr'[i].on = wr[i].on
  BY <1>0, <1>1, <1>3, WriteFacts, GoFacts DEF Working
<1>5. OthersJob(i) /\ job'[i].is = "parked" /\ job'[i].at = Never
  <2>1. OthersJob(i) /\ job'[i].is = "parked" /\ job'[i].at = job[i].at
    BY <1>0, <1>1 DEF OthersJob, Typed, Jobs
  <2>. QED BY <1>1, <2>1 DEF NoJob
<1>6. Step(i, i)
  BY <1>0, <1>1, <1>4, <1>5 DEF Step, Typed, Pristine, Recorded, NoJob
<1>7. Pristine(i)'
  BY <1>1, <1>3, <1>4 DEF Pristine
<1>8. Recorded(i)'
  BY <1>2, <1>3, <1>4, <1>5, <1>7 DEF Recorded, At, Before, Recovering, Running
<1>9. Stops(i)' /\ Watched(i)'
  BY <1>0, <1>1, <1>3, <1>4 DEF Stops, Watched, At, NoDog
<1>10. Charged(i)'
  BY <1>0, <1>1, <1>3, <1>4, <1>5, <1>7 DEF Charged, EndedBy, NoDog, Pristine
<1>11. ASSUME NEW j \in 1..i-1 PROVE Apart(i, j)'
  <2>1. j \in Attempts /\ j # i /\ Apart(i, j)
    BY <1>0, <1>11, OwnFacts DEF IInv, Attempts
  <2>. QED BY <1>0, <1>4, <1>5, <2>1 DEF Apart, At, Live, Over, OthersRec, OthersJob
<1>. QED BY <1>0, <1>4, <1>6, <1>8, <1>9, <1>10, <1>11, OwnFrame DEF AtOwn, Working, Before, Recovering, Running

LEMMA LaunchedKeeps ==
  ASSUME IInv, NEW i \in Attempts, Launched(i)
  PROVE  IInv'
<1>0. /\ At(i, "watch") /\ AtOwn(i) /\ UNCHANGED <<now, dog, stop>>
  BY DEF Launched, At, AtOwn, Working, Before, Recovering, Running
<1>1. /\ Typed /\ Recorded(i) /\ Charged(i) /\ Watched(i) /\ Stops(i) /\ rec[i] \in Records
      /\ rec[i].state = "launching" /\ job[i].is = "parked" /\ Pristine(i) /\ rec[i].limit # Never
  <2>1. Typed /\ Recorded(i) /\ Charged(i) /\ Watched(i) /\ Stops(i) /\ rec[i] \in Records
    BY <1>0, OwnFacts, TypedFields
  <2>. QED BY <1>0, <2>1 DEF Recorded
<1>2. CASE /\ Write(i, [rec[i] EXCEPT !.state = "running", !.launched = TRUE])
           /\ Go(i, "release") /\ UNCHANGED job
  <2> DEFINE r == [rec[i] EXCEPT !.state = "running", !.launched = TRUE]
  <2>1. /\ r \in Records /\ r.state = "running" /\ r.launched = TRUE
        /\ r.limit = rec[i].limit /\ r.until = rec[i].until /\ r.standDown = rec[i].standDown
        /\ r.byLimit = rec[i].byLimit /\ r.past = rec[i].past
    BY <1>1 DEF Records
  <2> HIDE DEF r
  <2>2. OthersRec(i) /\ rec'[i] = r /\ OthersWr(i) /\ wr'[i].pc = "release" /\ wr'[i].on = wr[i].on
    BY <1>1, <1>2, <2>1, WriteFacts, GoFacts DEF Working, r
  <2>3. Step(i, i)
    BY <1>0, <1>1, <1>2, <2>2 DEF Step, Typed, OthersJob
  <2>4. Recorded(i)'
    BY <1>1, <1>2, <2>1, <2>2 DEF Recorded, Pristine, At, Before, Recovering, Running
  <2>5. Stops(i)' /\ Watched(i)' /\ Charged(i)'
    BY <1>0, <1>1, <1>2, <2>1, <2>2 DEF Pristine, Stops, Watched, Charged, EndedBy, At, Live
  <2>. QED BY <1>0, <1>1, <1>2, <2>2, <2>3, <2>4, <2>5, OwnFrame
          DEF AtOwn, Working, Before, Recovering, Running
<1>3. CASE /\ Leave(i) /\ job' = [job EXCEPT ![i].is = "aborted"]
           /\ Write(i, [rec[i] EXCEPT !.state = "refused"])
  <2> DEFINE r == [rec[i] EXCEPT !.state = "refused"]
  <2>1. /\ r \in Records /\ r.state = "refused" /\ r.launched = rec[i].launched
        /\ r.limit = rec[i].limit /\ r.until = rec[i].until /\ r.standDown = rec[i].standDown
        /\ r.byLimit = rec[i].byLimit /\ r.past = rec[i].past
    BY <1>1 DEF Records
  <2> HIDE DEF r
  <2>2. OthersRec(i) /\ rec'[i] = r /\ OthersWr(i) /\ wr'[i].pc = "over"
    BY <1>1, <1>3, <2>1, WriteFacts, LeaveFacts DEF r
  <2>3. OthersJob(i) /\ job'[i].is = "aborted" /\ job'[i].at = job[i].at
    BY <1>1, <1>3 DEF OthersJob, Typed, Jobs
  <2>4. Step(i, i)
    BY <1>0, <1>1, <2>2, <2>3 DEF Step, Typed
  <2>5. Recorded(i)'
    BY <1>1, <2>1, <2>2, <2>3 DEF Recorded, Pristine, At, Before, Recovering, Running
  <2>6. Stops(i)' /\ Watched(i)' /\ Charged(i)'
    BY <1>0, <1>1, <2>1, <2>2, <2>3 DEF Stops, Watched, Charged, EndedBy, At, Live
  <2>. QED BY <1>0, <1>1, <2>2, <2>3, <2>4, <2>5, <2>6, OwnFrame
<1>. QED BY <1>2, <1>3 DEF Launched

LEMMA ReleaseKeeps ==
  ASSUME IInv, NEW i \in Attempts, Release(i)
  PROVE  IInv'
<1>0. /\ At(i, "release") /\ AtOwn(i) /\ UNCHANGED <<now, rec, dog, stop>>
      /\ Go(i, "run") /\ job' = [job EXCEPT ![i].is = "live"]
  BY DEF Release, At, AtOwn, Working, Before, Recovering, Running
<1>1. /\ Typed /\ Recorded(i) /\ Charged(i) /\ Watched(i) /\ Stops(i)
      /\ rec[i].state = "running" /\ job[i].is = "parked" /\ rec[i].launched
  <2>1. Typed /\ Recorded(i) /\ Charged(i) /\ Watched(i) /\ Stops(i)
    BY <1>0, OwnFacts
  <2>. QED BY <1>0, <2>1 DEF Recorded
<1>2. OthersWr(i) /\ wr'[i].pc = "run" /\ wr'[i].on = wr[i].on /\ wr'[i].ended = wr[i].ended
  BY <1>0, <1>1, GoFacts DEF Working, Running
<1>3. OthersJob(i) /\ job'[i].is = "live" /\ job'[i].at = job[i].at
  BY <1>0, <1>1 DEF OthersJob, Typed, Jobs
<1>4. Step(i, i)
  BY <1>0, <1>1, <1>2, <1>3 DEF Step, Typed, OthersRec
<1>5. Recorded(i)'
  BY <1>0, <1>1, <1>2, <1>3 DEF Recorded, At, Before, Recovering, Running
<1>6. Watched(i)' /\ Charged(i)'
  BY <1>0, <1>1, <1>3 DEF Watched, Charged, EndedBy, Live
<1>7. Stops(i)'
  BY <1>0, <1>1, <1>2 DEF Stops, At
<1>. QED BY <1>0, <1>1, <1>2, <1>3, <1>4, <1>5, <1>6, <1>7, OwnFrame
        DEF AtOwn, Working, Before, Recovering, Running

-----------------------------------------------------------------------------
\* A step of the wrapper that writes no record.
LEMMA OwnMove ==
  ASSUME IInv, NEW i \in Attempts, AtOwn(i), OthersWr(i), UNCHANGED <<now, rec, job, dog>>,
         stop' = stop \/ stop' \in {"limit", "unavailable", "gate"},
         wr'[i].pc = "over" \/ (AtOwn(i)' /\ wr'[i].on = wr[i].on /\ wr'[i].pc \notin Before),
         Recorded(i)', Stops(i)'
  PROVE  IInv'
<1>1. Charged(i) /\ Watched(i) /\ Typed
  BY DEF IInv
<1>2. Step(i, i)
  BY <1>1 DEF Step, Typed, OthersRec, OthersJob
<1>3. Charged(i)' /\ Watched(i)'
  BY <1>1 DEF Charged, Watched, EndedBy, Live
<1>. QED BY <1>2, <1>3, OwnFrame DEF Before

LEMMA WaitKeeps ==
  ASSUME IInv, NEW i \in Attempts, Wait(i)
  PROVE  IInv'
<1>0. /\ At(i, "run") /\ AtOwn(i) /\ UNCHANGED watchVars
      /\ Typed /\ Recorded(i) /\ Stops(i) /\ rec[i].state = "running" /\ job[i].is \in {"live", "gone"}
  <2>1. At(i, "run") /\ AtOwn(i) /\ UNCHANGED watchVars
    BY DEF Wait, At, AtOwn, Working, Before, Recovering, Running
  <2>2. Typed /\ Recorded(i) /\ Stops(i)
    BY <2>1, OwnFacts
  <2>. QED BY <2>1, <2>2 DEF Recorded, At, Running
<1>1. PICK p \in {"await", "ended"}, e \in {"signal", "exit", "limit"} :
        /\ wr' = [wr EXCEPT ![i].pc = p, ![i].ended = e]
        /\ p = "await" <=> e # "limit"
  BY DEF Wait
<1>2. OthersWr(i) /\ wr'[i].pc = p /\ wr'[i].ended = e /\ wr'[i].on = wr[i].on
  <2> DEFINE w == [wr[i] EXCEPT !.pc = p, !.ended = e]
  <2>1. wr \in [Attempts -> Wrappers] /\ wr[i] \in Wrappers /\ wr' = [wr EXCEPT ![i] = w]
    BY <1>0, <1>1 DEF Typed
  <2>2. w \in Wrappers /\ w.pc = p /\ w.ended = e /\ w.on = wr[i].on
    BY ONLY <2>1, p \in {"await", "ended"}, e \in {"signal", "exit", "limit"}
    DEF Wrappers, Working, Running
  <2> HIDE DEF w
  <2>. QED BY <2>1, <2>2 DEF OthersWr
<1>3. Recorded(i)'
  BY <1>0, <1>2 DEF Recorded, Pristine, At, Before, Recovering, Running, watchVars
<1>4. Stops(i)'
  BY <1>0, <1>1, <1>2 DEF Stops, Suspect, Evidence, At, Live, watchVars
<1>. QED BY <1>0, <1>2, <1>3, <1>4, OwnMove
        DEF AtOwn, Working, Before, Recovering, Running, watchVars

\* While the wrapper ends its job, the record says that it runs.
LEMMA RunningFacts ==
  ASSUME IInv, NEW i \in Attempts, wr[i].pc \in Running
  PROVE  /\ AtOwn(i) /\ Typed /\ Recorded(i) /\ Charged(i) /\ Watched(i) /\ Stops(i)
         /\ rec[i] \in Records /\ rec[i].state = "running" /\ rec[i].limit \in Int
         /\ job[i].is \in {"live", "gone"}
<1>1. AtOwn(i)
  BY DEF AtOwn, Working, Before, Recovering, Running
<1>. QED BY <1>1, OwnFacts, TypedFields DEF Recorded

\* The class of the record and the marks of the limit say nothing else.
LEMMA MarkFacts ==
  ASSUME IInv, NEW i \in Attempts, wr[i].pc \in Running, NEW by \in BOOLEAN,
         rec' = [rec EXCEPT ![i] = [rec[i] EXCEPT !.class = "budget", !.byLimit = by]],
         UNCHANGED <<now, job, dog, stop>>, OthersWr(i),
         wr'[i].pc \in Running, wr'[i].on = wr[i].on, Stops(i)'
  PROVE  IInv'
<1> DEFINE r == [rec[i] EXCEPT !.class = "budget", !.byLimit = by]
<1>0. /\ AtOwn(i) /\ Typed /\ Recorded(i) /\ Charged(i) /\ Watched(i) /\ rec[i] \in Records
      /\ rec[i].state = "running" /\ job[i].is \in {"live", "gone"}
  BY RunningFacts
<1>1. /\ r \in Records /\ r.state = "running" /\ r.launched = rec[i].launched
      /\ r.limit = rec[i].limit /\ r.until = rec[i].until /\ r.standDown = rec[i].standDown
      /\ r.past = rec[i].past
  BY <1>0 DEF Records
<1>2. Write(i, r)
  BY DEF Write
<1> HIDE DEF r
<1>3. OthersRec(i) /\ rec'[i] = r
  BY <1>0, <1>1, <1>2, WriteFacts
<1>4. Step(i, i)
  BY <1>0, <1>3 DEF Step, Typed, OthersJob
<1>5. Recorded(i)'
  BY <1>0, <1>1, <1>3 DEF Recorded, At, Before, Recovering, Running
<1>6. Charged(i)' /\ Watched(i)'
  BY <1>0, <1>1, <1>3 DEF Charged, Watched, EndedBy, Live
<1>. QED BY <1>0, <1>4, <1>5, <1>6, OwnFrame DEF AtOwn, Working, Before, Recovering, Running

LEMMA MarkLimitKeeps ==
  ASSUME IInv, NEW i \in Attempts, MarkLimit(i)
  PROVE  IInv'
<1>0. /\ wr[i].pc \in Running /\ UNCHANGED <<now, job, dog>> /\ Typed /\ Recorded(i) /\ Stops(i)
      /\ rec[i] \in Records /\ rec[i].state = "running" /\ AtOwn(i) /\ job[i].is \in {"live", "gone"}
  <2>1. wr[i].pc \in Running /\ UNCHANGED <<now, job, dog>>
    BY DEF MarkLimit, At, Running
  <2>. QED BY <2>1, RunningFacts
<1>1. CASE /\ At(i, "ended") /\ Write(i, [rec[i] EXCEPT !.class = "budget", !.byLimit = TRUE])
           /\ Go(i, "limitStop") /\ UNCHANGED stop
  <2>1. OthersWr(i) /\ wr'[i].pc = "limitStop" /\ wr'[i].on = wr[i].on /\ wr'[i].ended = wr[i].ended
    BY <1>0, <1>1, GoFacts DEF Working, Running
  <2>2. rec'[i].state = "running"
    BY <1>0, <1>1 DEF Write, Typed, Records
  <2>3. Stops(i)'
    BY <1>0, <1>1, <2>1, <2>2 DEF Stops, At
  <2>. QED BY <1>0, <1>1, <2>1, <2>3, MarkFacts DEF Write, Running
<1>2. CASE At(i, "limitStop") /\ RecordStop("limit") /\ Go(i, "await") /\ UNCHANGED rec
  <2>1. OthersWr(i) /\ wr'[i].pc = "await" /\ wr'[i].on = wr[i].on /\ wr'[i].ended = wr[i].ended
    BY <1>0, <1>2, GoFacts DEF Working, Running
  <2>2. stop' \in {"limit", "unavailable", "gate"}
    BY <1>0, <1>2, StopFacts
  <2>3. Recorded(i)'
    BY <1>0, <1>2, <2>1 DEF Recorded, Pristine, At, Before, Recovering, Running
  <2>4. Stops(i)'
    BY <1>0, <1>2, <2>1, <2>2 DEF Stops, At
  <2>. QED BY <1>0, <1>2, <2>1, <2>2, <2>3, <2>4, OwnMove
          DEF AtOwn, Working, Before, Recovering, Running
<1>. QED BY <1>1, <1>2 DEF MarkLimit

LEMMA AwaitEndKeeps ==
  ASSUME IInv, NEW i \in Attempts, AwaitEnd(i)
  PROVE  IInv'
<1>0. /\ wr[i].pc \in Running /\ UNCHANGED watchVars /\ At(i, "await") /\ ~Live(i)
      /\ Typed /\ Recorded(i) /\ Charged(i) /\ Watched(i) /\ Stops(i) /\ AtOwn(i)
      /\ rec[i].state = "running" /\ rec[i].limit \in Int /\ job[i].is = "gone"
      /\ now \in Nat /\ now \in Time
  <2>1. wr[i].pc \in Running /\ UNCHANGED watchVars /\ At(i, "await") /\ ~Live(i)
    BY DEF AwaitEnd, At, Running
  <2>. QED BY <2>1, RunningFacts, TypedFields DEF Live, Typed
<1>1. PICK p \in {"past", "account"} :
        /\ wr' = [wr EXCEPT ![i].at = now, ![i].pc = p]
        /\ p = "account" => ~(now >= rec[i].limit) \/ wr[i].ended = "limit"
  <2>1. CASE now >= rec[i].limit /\ wr[i].ended # "limit"
    BY <2>1 DEF AwaitEnd
  <2>2. CASE ~(now >= rec[i].limit /\ wr[i].ended # "limit")
    BY <2>2 DEF AwaitEnd
  <2>. QED BY <2>1, <2>2
<1>2. /\ OthersWr(i) /\ wr'[i].pc = p /\ wr'[i].on = wr[i].on /\ wr'[i].at = now
      /\ wr'[i].ended = wr[i].ended
  <2>1. wr \in [Attempts -> Wrappers] /\ wr[i] \in Wrappers
    BY <1>0 DEF Typed
  <2>2. /\ wr'[i] = [wr[i] EXCEPT !.at = now, !.pc = p]
        /\ \A k \in Attempts \ {i} : wr'[k] = wr[k]
    BY <1>1, <2>1
  <2>3. wr'[i] \in Wrappers
    <3>1. p \in Working /\ now \in Time
      BY <1>0, <1>1 DEF Working, Running
    <3>. QED BY <2>1, <2>2, <3>1 DEF Wrappers
  <2>4. /\ wr'[i].pc = p /\ wr'[i].on = wr[i].on /\ wr'[i].at = now
        /\ wr'[i].ended = wr[i].ended
    BY <2>1, <2>2 DEF Wrappers
  <2>5. OthersWr(i)
    BY <1>1, <2>1, <2>2, <2>3 DEF OthersWr
  <2>. QED BY <2>4, <2>5
<1>3. Recorded(i)'
  BY <1>0, <1>2 DEF Recorded, Pristine, At, Before, Recovering, Running, watchVars
<1>4. Stops(i)'
  <2>1. now # Never /\ now >= job[i].at
    BY <1>0 DEF Never, Charged
  <2>2. p = "account" => stop # "none" \/ (now < rec[i].limit /\ ~rec[i].byLimit /\ ~dog[i].alive)
    <3>1. wr[i].ended = "limit" => stop # "none"
      BY <1>0 DEF Stops
    <3>2. ~(now >= rec[i].limit) => now < rec[i].limit
      BY <1>0
    <3>4. ~(now >= rec[i].limit) => ~dog[i].alive
      BY <1>0 DEF Watched
    <3>3. wr[i].ended # "limit" => ~rec[i].byLimit
      BY <1>0 DEF Stops
    <3>. QED BY <1>1, <3>1, <3>2, <3>3, <3>4
  <2>. QED BY <1>0, <1>2, <2>1, <2>2 DEF Stops, At, Live, watchVars
<1>. QED BY <1>0, <1>2, <1>3, <1>4, OwnMove
        DEF AtOwn, Working, Before, Recovering, Running, watchVars

LEMMA PastLimitKeeps ==
  ASSUME IInv, NEW i \in Attempts, PastLimit(i)
  PROVE  IInv'
<1>0. /\ wr[i].pc \in Running /\ UNCHANGED <<now, job, dog>> /\ Typed /\ Recorded(i) /\ Stops(i)
      /\ rec[i] \in Records /\ rec[i].state = "running" /\ AtOwn(i) /\ job[i].is \in {"live", "gone"}
  <2>1. wr[i].pc \in Running /\ UNCHANGED <<now, job, dog>>
    BY DEF PastLimit, At, Running
  <2>. QED BY <2>1, RunningFacts
<1>1. CASE /\ At(i, "past") /\ Write(i, [rec[i] EXCEPT !.class = "budget"])
           /\ Go(i, "pastStop") /\ UNCHANGED stop
  <2>1. /\ OthersWr(i) /\ wr'[i].pc = "pastStop" /\ wr'[i].on = wr[i].on
        /\ wr'[i].ended = wr[i].ended /\ wr'[i].at = wr[i].at
    BY <1>0, <1>1, GoFacts DEF Working, Running
  <2>2. rec'[i].state = "running"
    BY <1>0, <1>1 DEF Write, Typed, Records
  <2>3. Stops(i)'
    BY <1>0, <1>1, <2>1, <2>2 DEF Stops, At, Live
  <2>4. PICK by \in BOOLEAN : by = rec[i].byLimit
    BY <1>0, RecordFields
  <2>5. rec' = [rec EXCEPT ![i] = [rec[i] EXCEPT !.class = "budget", !.byLimit = by]]
    BY <1>0, <1>1, <2>4 DEF Write, Records
  <2>. QED BY <1>0, <1>1, <2>1, <2>3, <2>5, MarkFacts DEF Running
<1>2. CASE At(i, "pastStop") /\ RecordStop("limit") /\ Go(i, "account") /\ UNCHANGED rec
  <2>1. /\ OthersWr(i) /\ wr'[i].pc = "account" /\ wr'[i].on = wr[i].on
        /\ wr'[i].ended = wr[i].ended /\ wr'[i].at = wr[i].at
    BY <1>0, <1>2, GoFacts DEF Working, Running
  <2>2. stop' \in {"limit", "unavailable", "gate"}
    BY <1>0, <1>2, StopFacts
  <2>3. Recorded(i)'
    BY <1>0, <1>2, <2>1 DEF Recorded, Pristine, At, Before, Recovering, Running
  <2>4. Stops(i)'
    BY <1>0, <1>2, <2>1, <2>2 DEF Stops, At, Live
  <2>. QED BY <1>0, <1>2, <2>1, <2>2, <2>3, <2>4, OwnMove
          DEF AtOwn, Working, Before, Recovering, Running
<1>. QED BY <1>1, <1>2 DEF PastLimit

LEMMA AccountKeeps ==
  ASSUME IInv, NEW i \in Attempts, Account(i)
  PROVE  IInv'
<1>0. /\ wr[i].pc \in Running /\ UNCHANGED <<now, job, dog, stop>> /\ At(i, "account")
      /\ Go(i, "standDown")
      /\ Typed /\ Recorded(i) /\ Charged(i) /\ Watched(i) /\ Stops(i) /\ AtOwn(i)
      /\ rec[i] \in Records /\ rec[i].state = "running" /\ job[i].is = "gone" /\ ~Live(i)
      /\ wr[i].at \in Time /\ wr[i].at \in Int /\ rec[i].limit \in Int
  <2>1. /\ wr[i].pc \in Running /\ UNCHANGED <<now, job, dog, stop>> /\ At(i, "account")
        /\ Go(i, "standDown")
    BY DEF Account, At, Running
  <2>2. Typed /\ Stops(i) /\ wr[i] \in Wrappers
    BY <2>1, RunningFacts DEF Typed
  <2>3. ~Live(i) /\ wr[i].at \in Time
    BY <2>1, <2>2 DEF Stops, At, Wrappers
  <2>. QED BY <2>1, <2>2, <2>3, RunningFacts, TypedFields DEF Live
<1>1. PICK past \in BOOLEAN : past = (wr[i].at >= rec[i].limit)
  <2>1. (wr[i].at >= rec[i].limit) \in BOOLEAN
    BY <1>0
  <2>. QED BY <2>1
<1> DEFINE r == [rec[i] EXCEPT !.state = "ended", !.until = wr[i].at, !.past = past]
<1>2. /\ r \in Records /\ r.state = "ended" /\ r.launched = rec[i].launched
      /\ r.limit = rec[i].limit /\ r.until = wr[i].at /\ r.standDown = rec[i].standDown
      /\ r.past = past /\ r.byLimit = rec[i].byLimit
  BY <1>0 DEF Records
<1>3. Write(i, r)
  BY <1>1 DEF Account
<1> HIDE DEF r
<1>4. OthersRec(i) /\ rec'[i] = r /\ OthersWr(i) /\ wr'[i].pc = "standDown" /\ wr'[i].on = wr[i].on
  BY <1>0, <1>2, <1>3, WriteFacts, GoFacts DEF Working
<1>5. Step(i, i)
  BY <1>0, <1>4 DEF Step, Typed, OthersJob
<1>6. Recorded(i)'
  BY <1>0, <1>2, <1>4 DEF Recorded, At, Before, Recovering, Running
<1>7. Charged(i)' /\ Watched(i)'
  BY <1>0, <1>2, <1>4 DEF Charged, Watched, EndedBy, Live, Stops, At
<1>8. Stops(i)'
  <2>1. Suspect(i, r) => stop # "none"
    <3>1. stop # "none" \/ (wr[i].at < rec[i].limit /\ ~rec[i].byLimit /\ ~dog[i].alive)
      BY <1>0 DEF Stops
    <3>2. wr[i].at < rec[i].limit => ~(wr[i].at >= rec[i].limit)
      BY <1>0
    <3>3. ~(wr[i].at >= rec[i].limit) => ~past
      BY <1>1
    <3>. QED BY <1>2, <3>1, <3>2, <3>3 DEF Suspect, Evidence
  <2>. QED BY <1>0, <2>1, <1>4 DEF Stops, Suspect, Evidence, At, Live
<1>. QED BY <1>0, <1>4, <1>5, <1>6, <1>7, <1>8, OwnFrame DEF AtOwn, Working, Before, Recovering, Running

LEMMA WriteStandDownKeeps ==
  ASSUME IInv, NEW i \in Attempts, WriteStandDown(i)
  PROVE  IInv'
<1> DEFINE r == [rec[i] EXCEPT !.standDown = TRUE]
<1>0. /\ At(i, "standDown") /\ AtOwn(i) /\ UNCHANGED <<now, job, dog, stop>>
      /\ Write(i, r) /\ Go(i, "ack")
  BY DEF WriteStandDown, At, AtOwn, Working, Before, Recovering, Running
<1>1. /\ Typed /\ Recorded(i) /\ Charged(i) /\ Watched(i) /\ Stops(i) /\ rec[i] \in Records
      /\ ~Live(i) /\ rec[i].state = "ended"
  BY <1>0, OwnFacts, TypedFields DEF Stops, At, Recorded
<1>2. /\ r \in Records /\ r.state = rec[i].state /\ r.launched = rec[i].launched
      /\ r.limit = rec[i].limit /\ r.until = rec[i].until
      /\ r.past = rec[i].past /\ r.byLimit = rec[i].byLimit
  BY <1>1 DEF Records
<1> HIDE DEF r
<1>3. OthersRec(i) /\ rec'[i] = r /\ OthersWr(i) /\ wr'[i].pc = "ack" /\ wr'[i].on = wr[i].on
  BY <1>0, <1>1, <1>2, WriteFacts, GoFacts DEF Working
<1>4. Step(i, i)
  BY <1>0, <1>1, <1>3 DEF Step, Typed, OthersJob
<1>5. Recorded(i)'
  BY <1>0, <1>1, <1>2, <1>3 DEF Recorded, At, Before, Recovering, Running
<1>6. Charged(i)' /\ Watched(i)'
  BY <1>0, <1>1, <1>2, <1>3 DEF Charged, Watched, EndedBy, Live
<1>7. Stops(i)'
  BY <1>0, <1>1, <1>2, <1>3 DEF Stops, Suspect, Evidence, At
<1>. QED BY <1>0, <1>3, <1>4, <1>5, <1>6, <1>7, OwnFrame DEF AtOwn, Working, Before, Recovering, Running

LEMMA GiveUpKeeps ==
  ASSUME IInv, NEW i \in Attempts, GiveUp(i)
  PROVE  IInv'
<1>0. /\ AtOwn(i) /\ UNCHANGED <<now, job, dog>>
  BY DEF GiveUp, At, AtOwn, Working, Before, Recovering, Running
<1>1. Typed /\ Recorded(i) /\ Charged(i) /\ Watched(i) /\ Stops(i) /\ rec[i] \in Records
  BY <1>0, OwnFacts, TypedFields
<1>2. CASE /\ At(i, "await") /\ Live(i) /\ Go(i, "giveUp") /\ UNCHANGED stop
           /\ Write(i, [rec[i] EXCEPT !.state = "unverified", !.class = "not verified"])
  <2> DEFINE r == [rec[i] EXCEPT !.state = "unverified", !.class = "not verified"]
  <2>1. /\ r \in Records /\ r.state = "unverified" /\ r.launched = rec[i].launched
        /\ r.limit = rec[i].limit /\ r.until = rec[i].until /\ r.standDown = rec[i].standDown
    BY <1>1 DEF Records
  <2>2. Write(i, r)
    BY <1>2
  <2> HIDE DEF r
  <2>3. OthersRec(i) /\ rec'[i] = r /\ OthersWr(i) /\ wr'[i].pc = "giveUp" /\ wr'[i].on = wr[i].on
    BY <1>1, <1>2, <2>1, <2>2, WriteFacts, GoFacts DEF Working
  <2>4. job[i].is = "live"
    BY <1>1, <1>2 DEF Recorded, At, Running, Live
  <2>5. Step(i, i)
    BY <1>0, <1>1, <1>2, <2>3 DEF Step, Typed, OthersJob
  <2>6. Recorded(i)'
    BY <1>0, <1>1, <2>1, <2>3, <2>4 DEF Recorded, At, Before, Recovering, Running
  <2>7. Charged(i)' /\ Watched(i)'
    BY <1>0, <1>1, <2>1, <2>3, <2>4 DEF Charged, Watched, EndedBy, Live
  <2>8. Stops(i)'
    BY <2>1, <2>3 DEF Stops, At
  <2>. QED BY <1>0, <2>3, <2>4, <2>5, <2>6, <2>7, <2>8, OwnFrame
          DEF AtOwn, Working, Before, Recovering, Running
<1>3. CASE At(i, "giveUp") /\ RecordStop("unavailable") /\ Go(i, "ack") /\ UNCHANGED rec
  <2>1. OthersWr(i) /\ wr'[i].pc = "ack" /\ wr'[i].on = wr[i].on
    BY <1>1, <1>3, GoFacts DEF Working
  <2>2. stop' \in {"limit", "unavailable", "gate"}
    BY <1>1, <1>3, StopFacts
  <2>3. Recorded(i)'
    BY <1>0, <1>1, <1>3, <2>1 DEF Recorded, Pristine, At, Before, Recovering, Running
  <2>4. Stops(i)'
    BY <2>1, <2>2 DEF Stops, At
  <2>. QED BY <1>0, <1>3, <2>1, <2>2, <2>3, <2>4, OwnMove
          DEF AtOwn, Working, Before, Recovering, Running
<1>. QED BY <1>2, <1>3 DEF GiveUp

LEMMA AcknowledgedKeeps ==
  ASSUME IInv, NEW i \in Attempts, Acknowledged(i)
  PROVE  IInv'
<1>0. At(i, "ack") /\ AtOwn(i) /\ UNCHANGED watchVars /\ Leave(i)
  BY DEF Acknowledged, At, AtOwn, Working, Before, Recovering, Running
<1>1. Typed /\ Recorded(i) /\ Stops(i)
  BY <1>0, OwnFacts
<1>2. OthersWr(i) /\ wr'[i].pc = "over"
  BY <1>0, <1>1, LeaveFacts
<1>3. Recorded(i)'
  BY <1>0, <1>1, <1>2 DEF Recorded, Pristine, At, Before, Recovering, Running, watchVars
<1>4. Stops(i)'
  BY <1>0, <1>1, <1>2 DEF Stops, Suspect, Evidence, At, watchVars
<1>. QED BY <1>0, <1>2, <1>3, <1>4, OwnMove DEF watchVars

-----------------------------------------------------------------------------
\* A step of what the wrapper started: x's job or its watchdog.
OthersDog(j) == dog' \in [Attempts -> Dogs] /\ \A k \in Attempts \ {j} : dog'[k] = dog[k]
JobEnded(x) == job[x].is = "live" /\ job'[x].is = "gone" /\ job'[x].at = now
Event(x) ==
  /\ OthersJob(x) /\ OthersDog(x) /\ UNCHANGED <<now, rec, wr>>
  /\ stop' \in {"none", "limit", "unavailable", "gate"} /\ (stop # "none" => stop' # "none")
  /\ job[x].is # "none"
  /\ JobEnded(x) \/ (job'[x].is = job[x].is /\ job'[x].at = job[x].at)
  /\ dog'[x].alive => dog[x].alive \/ Live(x)
  /\ dog'[x].gone = dog[x].gone \/ (dog'[x].gone = now /\ ~Live(x))

LEMMA EventFrame ==
  ASSUME IInv, NEW x \in Attempts, Event(x), Watched(x)'
  PROVE  IInv'
<1>0. /\ Typed /\ UNCHANGED <<now, rec, wr>> /\ (Live(x)' => Live(x))
      /\ \A k \in Attempts \ {x} : job'[k] = job[k] /\ dog'[k] = dog[k]
      /\ job[x].is # "none" /\ ~At(x, "off")
      /\ stop # "none" => stop' # "none"
  <2>1. ~At(x, "off")
    BY DEF Event, IInv, Turn, NoJob
  <2>. QED BY <2>1 DEF IInv, Event, JobEnded, Live, OthersJob, OthersDog
<1>1. Typed'
  BY <1>0 DEF Typed, Event, OthersJob, OthersDog
<1>2. ASSUME NEW k \in Attempts PROVE Turn(k)'
  <2>1. Turn(k) /\ (At(k, "off") => job'[k] = job[k] /\ dog'[k] = dog[k])
    BY <1>0 DEF IInv
  <2>. QED BY <1>0, <2>1 DEF Turn, At, Gone, On, LiveRecord
<1>3. ASSUME NEW k \in Attempts, NEW j \in 1..k-1 PROVE Apart(k, j)'
  <2>1. j \in Attempts /\ Apart(k, j)
    BY <1>3, LimitAssumption DEF IInv, Attempts
  <2>2. Live(j)' => Live(j)
    BY <1>0, <2>1 DEF Live
  <2>3. (job[k].is # "none")' => job[k].is # "none"
    BY <1>0
  <2>4. ASSUME ~Live(j), Over(j)' PROVE Over(j)
    <3>1. job'[j].is = job[j].is /\ job'[j].at = job[j].at
      BY <1>0, <2>1, <2>4 DEF Event, JobEnded, Live
    <3>. QED BY <1>0, <2>4, <3>1 DEF Over
  <2>. QED BY <1>0, <2>1, <2>2, <2>3, <2>4 DEF Apart, At
<1>4. Recorded(x)'
  BY <1>0 DEF IInv, Recorded, Pristine, At, Event, JobEnded, Before, NoJob
<1>5. Charged(x)'
  <2>1. Charged(x) /\ now \in Nat /\ now # Never
    BY <1>0 DEF IInv, Typed, Never
  <2>2. CASE JobEnded(x)
    <3>1. /\ rec[x].until = Never /\ ~rec[x].standDown /\ rec[x].state # "ended"
          /\ dog[x].gone = Never /\ dog'[x].gone = Never
      BY <2>1, <2>2 DEF Charged, EndedBy, JobEnded, Live, Event
    <3>. QED BY <1>0, <2>1, <2>2, <3>1 DEF Charged, EndedBy, JobEnded
  <2>3. CASE job'[x].is = job[x].is /\ job'[x].at = job[x].at
    <3>1. now >= job[x].at
      BY <2>1 DEF Charged, Never
    <3>. QED BY <1>0, <2>1, <2>3, <3>1 DEF Charged, EndedBy, Event, Live
  <2>. QED BY <2>2, <2>3 DEF Event
<1>6. Stops(x)'
  <2>1. Stops(x) /\ Charged(x)
    BY DEF IInv
  <2>2. ~Live(x) => job'[x].at = job[x].at /\ (dog'[x].alive => dog[x].alive)
    BY DEF Event, JobEnded, Live
  <2>3. rec[x].state = "ended" => ~Live(x)
    BY <2>1 DEF Charged, EndedBy
  <2>. QED BY <1>0, <2>1, <2>2, <2>3 DEF Stops, Suspect, Evidence, At
<1>7. ASSUME NEW k \in Attempts PROVE Settling(k)'
  <2> PICK j : j = On(k)
    OBVIOUS
  <2>1. CASE wr[k].pc \in {"settle", "settleStop", "settleState"}
    <3>1. InRecovery(k)
      BY <2>1 DEF IInv, Turn, InRecovery, Recovering
    <3>2. j \in Attempts /\ Settling(k)
      BY <3>1, RecoveryFacts DEF IInv
    <3>3. Live(j)' => Live(j)
      BY <1>0, <3>2 DEF Live
    <3>4. ~Live(j) => job'[j].at = job[j].at /\ (dog'[j].alive => dog[j].alive)
      BY <1>0, <3>2 DEF Event, JobEnded, Live
    <3>. QED BY <1>0, <2>1, <3>2, <3>3, <3>4
            DEF Settling, On, Fields, EndedBy, LiveRecord, At, Suspect, Evidence
  <2>2. CASE wr[k].pc \notin {"settle", "settleStop", "settleState"}
    BY <1>0, <2>2 DEF Settling
  <2>. QED BY <2>1, <2>2
<1>8. ASSUME NEW k \in Attempts, k # x
      PROVE  Recorded(k)' /\ Charged(k)' /\ Watched(k)' /\ Stops(k)'
  <2>1. /\ job'[k] = job[k] /\ dog'[k] = dog[k]
        /\ Recorded(k) /\ Charged(k) /\ Watched(k) /\ Stops(k)
    BY <1>0, <1>8 DEF IInv
  <2>2. Recorded(k)' /\ Charged(k)'
    BY <1>0, <2>1 DEF Recorded, Pristine, At, Charged, EndedBy, Live
  <2>3. Watched(k)' /\ Stops(k)'
    BY <1>0, <2>1 DEF Watched, Stops, Suspect, Evidence, At, Live
  <2>. QED BY <2>2, <2>3
<1>. QED BY <1>1, <1>2, <1>3, <1>4, <1>5, <1>6, <1>7, <1>8 DEF IInv

LEMMA KillKeeps ==
  ASSUME IInv, NEW x \in Attempts, Kill(x), job[x].is # "none", UNCHANGED wr
  PROVE  IInv'
<1>1. Typed /\ Watched(x) /\ UNCHANGED <<now, rec, dog, stop>>
  BY DEF IInv, Kill
<1>2. OthersJob(x) /\ job'[x].is = job[x].is /\ job'[x].at = job[x].at
  BY <1>1 DEF Kill, OthersJob, Typed, Jobs
<1>3. Event(x)
  BY <1>1, <1>2 DEF Event, OthersDog, Typed
<1>4. Watched(x)'
  BY <1>1, <1>2 DEF Watched, Live
<1>. QED BY <1>3, <1>4, EventFrame

LEMMA WrapperKillsKeeps ==
  ASSUME IInv, NEW i \in Attempts, WrapperKills(i)
  PROVE  IInv'
<1>0. UNCHANGED wr
  BY DEF WrapperKills
<1>1. CASE At(i, "terminate") /\ Kill(On(i))
  <2>1. InRecovery(i) /\ LiveRecord(On(i))
    BY <1>1 DEF IInv, Turn, At, InRecovery, Recovering
  <2>2. On(i) \in Attempts
    BY <2>1, RecoveryFacts
  <2>3. job[On(i)].is # "none"
    BY <2>1, <2>2 DEF IInv, Recorded, LiveRecord
  <2>. QED BY <1>0, <1>1, <2>2, <2>3, KillKeeps
<1>2. ASSUME NEW j \in Unverified, Kill(j) PROVE IInv'
  <2>1. j \in Attempts /\ job[j].is # "none"
    BY DEF Unverified, IInv, Recorded
  <2>. QED BY <1>0, <1>2, <2>1, KillKeeps
<1>3. CASE wr[i].pc \in {"ended", "limitStop", "await"} /\ Kill(i)
  <2>1. job[i].is # "none"
    BY <1>3 DEF IInv, Recorded, Running
  <2>. QED BY <1>0, <1>3, <2>1, KillKeeps
<1>. QED BY <1>1, <1>2, <1>3 DEF WrapperKills

LEMMA StartWatchdogKeeps ==
  ASSUME IInv, NEW i \in Attempts, StartWatchdog(i)
  PROVE  IInv'
<1>1. /\ Typed /\ Watched(i) /\ UNCHANGED <<now, rec, job, stop, wr>> /\ dog[i].pc = "off"
      /\ job[i].is = "parked"
  BY DEF IInv, StartWatchdog, Recorded
<1>2. /\ OthersDog(i) /\ dog'[i].pc = "watching" /\ dog'[i].state = "watching"
      /\ dog'[i].alive = dog[i].alive /\ dog'[i].gone = dog[i].gone
  BY <1>1 DEF StartWatchdog, OthersDog, Typed, Dogs
<1>3. Event(i)
  BY <1>1, <1>2 DEF Event, OthersJob, Typed
<1>4. Watched(i)'
  BY <1>1, <1>2 DEF Watched
<1>. QED BY <1>3, <1>4, EventFrame

LEMMA EndsKeeps ==
  ASSUME IInv, NEW i \in Attempts, Ends(i)
  PROVE  IInv'
<1>1. /\ Typed /\ Watched(i) /\ UNCHANGED <<now, rec, dog, stop, wr>> /\ job[i].is = "live"
      /\ now \in Time
  BY TypedFields DEF IInv, Ends, JobEnds
<1>2. OthersJob(i) /\ job'[i].is = "gone" /\ job'[i].at = now
  BY <1>1 DEF Ends, JobEnds, OthersJob, Typed, Jobs
<1>3. Event(i)
  BY <1>1, <1>2 DEF Event, JobEnded, OthersDog, Typed
<1>4. Watched(i)'
  BY <1>1, <1>2 DEF Watched, Live
<1>. QED BY <1>3, <1>4, EventFrame

\* A watchdog at work has a job that was launched.
LEMMA WorkingDog ==
  ASSUME IInv, NEW i \in Attempts, DogWorks(i)
  PROVE  job[i].is # "none" /\ Typed /\ Watched(i) /\ dog[i] \in Dogs /\ now \in Time
BY TypedFields DEF IInv, Recorded, DogWorks, NoDog, Typed

\* It goes on, or ends, without another TERM.
LEMMA DogMoves ==
  ASSUME IInv, NEW i \in Attempts, DogWorks(i), UNCHANGED <<now, rec, job, wr>>, OthersDog(i),
         stop' = stop \/ stop' \in {"limit", "unavailable", "gate"},
         dog'[i].alive = dog[i].alive, dog'[i].pc \notin {"off", "watching"},
         dog'[i].gone = dog[i].gone \/ (dog'[i].gone = now /\ ~Live(i)),
         dog'[i].state = "stood down" => dog[i].state = "stood down" \/ (~Live(i) /\ ~dog[i].alive)
  PROVE  IInv'
<1>1. job[i].is # "none" /\ Typed /\ Watched(i)
  BY WorkingDog
<1>2. Event(i)
  BY <1>1 DEF Event, OthersJob, Typed
<1>3. Watched(i)'
  BY <1>1 DEF Watched, Live
<1>. QED BY <1>2, <1>3, EventFrame

LEMMA WatchdogKeeps ==
  ASSUME IInv, NEW i \in Attempts, Watchdog(i)
  PROVE  IInv'
<1>0. DogWorks(i) /\ UNCHANGED wr
  BY DEF Watchdog, DogStep, Term, Acting, WriteStop, DogKills, Acted, Unavailable, StandDown, DogWorks
<1>1. job[i].is # "none" /\ Typed /\ Watched(i) /\ dog[i] \in Dogs /\ now \in Time
  BY <1>0, WorkingDog
<1>2. CASE Term(i)
  <2>1. PICK p \in {"termed", "ending"}, alive \in BOOLEAN :
          /\ dog' = [dog EXCEPT ![i].pc = p, ![i].alive = alive] /\ alive = Live(i)
    <3>1. Live(i) \in BOOLEAN
      BY DEF Live
    <3>2. CASE Live(i)
      BY <1>2, <3>1, <3>2 DEF Term
    <3>3. CASE ~Live(i)
      BY <1>2, <3>1, <3>3 DEF Term
    <3>. QED BY <3>2, <3>3
  <2>2. /\ OthersDog(i) /\ dog'[i].pc = p /\ dog'[i].alive = alive /\ dog'[i].gone = dog[i].gone
        /\ dog'[i].state = dog[i].state
    BY <1>1, <2>1 DEF OthersDog, Typed, Dogs
  <2>3. UNCHANGED <<now, rec, job, stop>> /\ now >= rec[i].limit
    BY <1>2 DEF Term
  <2>4. Event(i)
    BY <1>0, <1>1, <2>1, <2>2, <2>3 DEF Event, OthersJob, Typed
  <2>5. Watched(i)'
    BY <1>1, <1>2, <2>1, <2>2, <2>3 DEF Watched, Live, Term
  <2>. QED BY <2>4, <2>5, EventFrame
<1>3. CASE Acting(i)
  <2>1. /\ UNCHANGED <<now, rec, job, stop>> /\ OthersDog(i)
        /\ dog'[i].pc = "stopping" /\ dog'[i].state = "acting"
        /\ dog'[i].alive = dog[i].alive /\ dog'[i].gone = dog[i].gone
    BY <1>1, <1>3 DEF Acting, OthersDog, Typed, Dogs
  <2>. QED BY <1>0, <2>1, DogMoves
<1>4. CASE WriteStop(i)
  <2>1. /\ UNCHANGED <<now, rec, job>> /\ OthersDog(i)
        /\ dog'[i].pc = "ending" /\ dog'[i].state = dog[i].state
        /\ dog'[i].alive = dog[i].alive /\ dog'[i].gone = dog[i].gone
    BY <1>1, <1>4 DEF WriteStop, OthersDog, Typed, Dogs
  <2>2. stop' \in {"limit", "unavailable", "gate"}
    BY <1>1, <1>4, StopFacts DEF WriteStop
  <2>. QED BY <1>0, <2>1, <2>2, DogMoves
<1>5. CASE DogKills(i)
  BY <1>0, <1>1, <1>5, KillKeeps DEF DogKills
<1>6. CASE Acted(i)
  <2>1. /\ UNCHANGED <<now, rec, job, stop>> /\ OthersDog(i)
        /\ dog'[i].pc \in {"over", "unavailable"} /\ dog'[i].state = "acted"
        /\ dog'[i].alive = dog[i].alive
        /\ dog'[i].gone = dog[i].gone \/ (dog'[i].gone = now /\ ~Live(i))
    <3>1. CASE /\ ~Live(i)
               /\ dog' = [dog EXCEPT ![i].pc = "over", ![i].state = "acted", ![i].gone = now]
      BY <1>1, <1>6, <3>1 DEF Acted, OthersDog, Typed, Dogs
    <3>2. CASE dog' = [dog EXCEPT ![i].pc = "unavailable", ![i].state = "acted"]
      BY <1>1, <1>6, <3>2 DEF Acted, OthersDog, Typed, Dogs
    <3>. QED BY <1>6, <3>1, <3>2 DEF Acted
  <2>. QED BY <1>0, <2>1, DogMoves
<1>7. CASE Unavailable(i)
  <2>1. /\ UNCHANGED <<now, rec, job>> /\ OthersDog(i)
        /\ dog'[i].pc = "over" /\ dog'[i].state = dog[i].state
        /\ dog'[i].alive = dog[i].alive /\ dog'[i].gone = dog[i].gone
    BY <1>1, <1>7 DEF Unavailable, OthersDog, Typed, Dogs
  <2>2. stop' \in {"limit", "unavailable", "gate"}
    BY <1>1, <1>7, StopFacts DEF Unavailable
  <2>. QED BY <1>0, <2>1, <2>2, DogMoves
<1>8. CASE StandDown(i)
  <2>1. /\ UNCHANGED <<now, rec, job, stop>> /\ OthersDog(i)
        /\ dog'[i].pc = "over" /\ dog'[i].state = "stood down"
        /\ dog'[i].alive = dog[i].alive /\ dog'[i].gone = dog[i].gone
    BY <1>1, <1>8 DEF StandDown, OthersDog, Typed, Dogs
  <2>2. ~Live(i) /\ ~dog[i].alive
    BY <1>1, <1>8 DEF StandDown, Watched, IInv, Charged
  <2>. QED BY <1>0, <2>1, <2>2, DogMoves
<1>. QED BY <1>2, <1>3, <1>4, <1>5, <1>6, <1>7, <1>8 DEF Watchdog, DogStep

-----------------------------------------------------------------------------
LEMMA BeginKeeps ==
  ASSUME IInv, NEW i \in Attempts, Begin(i)
  PROVE  IInv'
<1> DEFINE r == [NoRecord EXCEPT !.state = "admitting"]
<1>0. /\ i \in 1..N /\ N \in Nat /\ Typed /\ At(i, "off") /\ UNCHANGED <<now, job, dog, stop>>
      /\ \A j \in 1..i-1 : Gone(j)
      /\ rec[i] = NoRecord /\ job[i] = NoJob /\ dog[i] = NoDog
      /\ Write(i, r) /\ wr' = [wr EXCEPT ![i].pc = "recover", ![i].on = 1]
  BY LimitAssumption DEF IInv, Begin, Turn, Attempts
<1>1. r \in Records /\ r.state = "admitting" /\ ~r.launched /\ ~r.byLimit /\ ~r.past
      /\ ~r.standDown /\ r.until = Never /\ r.limit = Never
  BY NothingIsTyped DEF NoRecord, Records
<1> HIDE DEF r
<1>2. OthersRec(i) /\ rec'[i] = r
  BY <1>0, <1>1, WriteFacts
<1>3. OthersWr(i) /\ wr'[i].pc = "recover" /\ wr'[i].on = 1
  <2> DEFINE w == [wr[i] EXCEPT !.pc = "recover", !.on = 1]
  <2>1. wr \in [Attempts -> Wrappers] /\ wr[i] \in Wrappers /\ wr' = [wr EXCEPT ![i] = w]
    BY <1>0 DEF Typed
  <2>2. w \in Wrappers /\ w.pc = "recover" /\ w.on = 1
    BY ONLY <2>1 DEF Wrappers, Working, Before, Recovering
  <2> HIDE DEF w
  <2>. QED BY <2>1, <2>2 DEF OthersWr
<1>4. Typed'
  BY <1>0, <1>2, <1>3 DEF Typed, OthersRec, OthersWr
<1>5. \A k \in Attempts : k > i => At(k, "off")
  <2>1. ASSUME NEW k \in Attempts, k > i, ~At(k, "off") PROVE FALSE
    <3>1. Gone(i)
      BY <1>0, <2>1 DEF IInv, Turn, Attempts
    <3>. QED BY <1>0, <3>1 DEF Gone, At
  <2>. QED BY <2>1
<1>6. ASSUME NEW k \in Attempts, k # i PROVE Turn(k)'
  <2>1. Turn(k) /\ wr'[k] = wr[k] /\ rec'[k] = rec[k] /\ job'[k] = job[k] /\ dog'[k] = dog[k]
    BY <1>0, <1>2, <1>3, <1>6 DEF IInv, OthersWr, OthersRec
  <2>2. CASE k > i
    BY <1>5, <2>1, <2>2 DEF Turn, At, Recovering, Working, Before, Running
  <2>3. CASE k < i
    <3>1. wr[k].pc = "over" /\ \A j \in 1..k-1 : Gone(j)'
      BY <1>0, <1>3, <2>3 DEF Gone, At, OthersWr, Attempts
    <3>. QED BY <2>1, <3>1 DEF Turn, At, Recovering, Working, Before, Running
  <2>. QED BY <1>0, <1>6, <2>2, <2>3 DEF Attempts
<1>7. Turn(i)'
  <2>1. \A j \in 1..i-1 : Gone(j)'
    BY <1>0, <1>3 DEF Gone, At, OthersWr, Attempts
  <2>2. On(i)' \in 1..i /\ \A j \in 1..On(i)'-1 : ~LiveRecord(j)'
    <3>1. On(i)' = 1 /\ 1 \in 1..i /\ \A j \in 1..1-1 : FALSE
      BY <1>0, <1>3 DEF On
    <3>. QED BY <3>1
  <2>. QED BY <1>0, <1>3, <2>1, <2>2 DEF Turn, At, Recovering, Working, Before, Running
<1>8. ASSUME NEW k \in Attempts, NEW j \in 1..k-1 PROVE Apart(k, j)'
  <2>1. j \in Attempts /\ Apart(k, j)
    BY <1>8, LimitAssumption DEF IInv, Attempts
  <2>2. CASE k = i
    BY <1>0, <1>3, <2>2 DEF Apart, At, NoJob
  <2>3. CASE k # i
    <3>1. wr'[k] = wr[k] /\ (j # i => rec'[j] = rec[j])
      BY <1>2, <1>3, <2>1, <2>3 DEF OthersWr, OthersRec
    <3>2. j = i => ~Over(j)'
      BY <1>0 DEF Over, NoJob
    <3>. QED BY <1>0, <2>1, <3>1, <3>2 DEF Apart, At, Live, Over
  <2>. QED BY <2>2, <2>3
<1>9. Recorded(i)' /\ Stops(i)'
  BY <1>0, <1>1, <1>2, <1>3 DEF Recorded, Pristine, Stops, At, Before, Recovering, Running, NoJob
<1>10. Charged(i)' /\ Watched(i)' /\ Settling(i)'
  BY <1>0, <1>1, <1>2, <1>3 DEF Charged, EndedBy, Watched, Live, NoJob, NoDog, Settling
<1>11. ASSUME NEW k \in Attempts, k # i
       PROVE  Recorded(k)' /\ Charged(k)' /\ Watched(k)' /\ Stops(k)' /\ Settling(k)'
  <2>1. /\ rec'[k] = rec[k] /\ wr'[k] = wr[k] /\ job'[k] = job[k] /\ dog'[k] = dog[k]
        /\ Recorded(k) /\ Charged(k) /\ Watched(k) /\ Stops(k)
    BY <1>0, <1>2, <1>3, <1>11 DEF OthersRec, OthersWr, IInv
  <2>2. Recorded(k)' /\ Charged(k)'
    BY <1>0, <2>1 DEF Recorded, Pristine, At, Charged, EndedBy, Live
  <2>3. Watched(k)' /\ Stops(k)'
    BY <1>0, <2>1 DEF Watched, Stops, Suspect, Evidence, At, Live
  <2>4. wr[k].pc \in {"off", "over"}
    BY <1>0, <1>5, <1>11 DEF At, Gone, Attempts
  <2>. QED BY <2>1, <2>2, <2>3, <2>4 DEF Settling
<1>. QED BY <1>4, <1>6, <1>7, <1>8, <1>9, <1>10, <1>11 DEF IInv

\* Time alone changes nothing that is known.
LEMMA TickKeeps ==
  ASSUME IInv, Tick, UNCHANGED wr
  PROVE  IInv'
<1>0. /\ Typed /\ now \in Nat /\ now' = now + 1 /\ UNCHANGED <<rec, job, dog, stop, wr>>
  BY DEF IInv, Tick, Typed
<1>1. Typed'
  BY <1>0 DEF Typed
<1>2. ASSUME NEW k \in Attempts
      PROVE  /\ Turn(k)' /\ Recorded(k)' /\ Stops(k)' /\ Settling(k)'
             /\ \A j \in 1..k-1 : Apart(k, j)'
  <2>1. Turn(k)' /\ Recorded(k)'
    BY <1>0 DEF IInv, Turn, At, Gone, On, LiveRecord, Recorded, Pristine
  <2>2. Stops(k)' /\ Settling(k)'
    BY <1>0 DEF IInv, Stops, Settling, Suspect, Evidence, At, Live, On, Fields, EndedBy, LiveRecord
  <2>3. \A j \in 1..k-1 : Apart(k, j)'
    BY <1>0 DEF IInv, Apart, At, Live, Over
  <2>. QED BY <2>1, <2>2, <2>3
<1>3. ASSUME NEW k \in Attempts PROVE Charged(k)' /\ Watched(k)'
  <2>1. rec[k].limit \in Int /\ job[k].at \in Int
    BY <1>0, TypedFields
  <2>2. Charged(k)'
    BY <1>0, <2>1 DEF IInv, Charged, EndedBy, Live
  <2>3. Watched(k)'
    <3>1. now >= rec[k].limit => now' >= rec'[k].limit
      BY <1>0, <2>1
    <3>. QED BY <1>0, <3>1 DEF IInv, Watched, Live
  <2>. QED BY <2>2, <2>3
<1>. QED BY <1>1, <1>2, <1>3 DEF IInv

LEMMA KilledKeeps ==
  ASSUME IInv, Killed
  PROVE  IInv'
<1>1. PICK i \in Attempts : WrapperDies(i) \/ (DogDies(i) /\ UNCHANGED wr)
  BY DEF Killed
<1>2. CASE DogDies(i) /\ UNCHANGED wr
  <2>1. DogWorks(i) /\ UNCHANGED <<now, rec, job, stop, wr>>
    BY <1>2 DEF DogDies
  <2>2. job[i].is # "none" /\ Typed /\ Watched(i) /\ dog[i] \in Dogs
    BY <2>1, WorkingDog
  <2>3. PICK alive \in BOOLEAN :
          /\ alive => dog[i].alive
          /\ dog' = [dog EXCEPT ![i].pc = "over", ![i].alive = alive]
    <3>1. (dog[i].state \in {"acting", "acted"} /\ dog[i].alive) \in BOOLEAN
      OBVIOUS
    <3>. QED BY <1>2, <3>1 DEF DogDies
  <2>4. /\ OthersDog(i) /\ dog'[i].pc = "over" /\ dog'[i].alive = alive
        /\ dog'[i].state = dog[i].state /\ dog'[i].gone = dog[i].gone
    BY <2>2, <2>3 DEF OthersDog, Typed, Dogs
  <2>5. Event(i)
    BY <2>1, <2>2, <2>3, <2>4 DEF Event, OthersJob, Typed
  <2>6. Watched(i)'
    BY <2>1, <2>2, <2>3, <2>4 DEF Watched, Live
  <2>. QED BY <2>5, <2>6, EventFrame
<1>3. CASE WrapperDies(i)
  <2>0. /\ wr[i].pc \in Working /\ Typed /\ UNCHANGED <<now, rec, dog, stop>> /\ i \in 1..i
        /\ i \in 1..N /\ N \in Nat
        /\ Turn(i) /\ Recorded(i) /\ Charged(i) /\ Watched(i) /\ Stops(i)
    BY <1>3, LimitAssumption DEF WrapperDies, Gone, At, IInv, Typed, Wrappers, Attempts
  <2>1. OthersWr(i) /\ wr'[i].pc = "over"
    BY <1>3, <2>0, LeaveFacts DEF WrapperDies
  <2>2. /\ OthersJob(i) /\ job'[i].at = job[i].at
        /\ job'[i].is = job[i].is \/ (job[i].is = "parked" /\ job'[i].is = "aborted")
        /\ job'[i].is # "parked"
    BY <1>3, <2>0 DEF WrapperDies, OthersJob, Typed, Jobs
  <2>3. Step(i, i)
    BY <2>0, <2>1, <2>2 DEF Step, Typed, OthersRec
  <2>4. Turn(i)'
    <3>1. \A j \in 1..i-1 : Gone(j)'
      BY <2>0, <2>1 DEF Turn, Gone, At, OthersWr, Attempts, Working, Before, Recovering, Running
    <3>. QED BY <2>1, <3>1 DEF Turn, At, Working, Before, Recovering, Running
  <2>5. Recorded(i)'
    BY <2>0, <2>1, <2>2 DEF Recorded, Pristine, At, Before, Recovering, Running
  <2>6. Stops(i)' /\ Watched(i)' /\ Settling(i)'
    BY <2>0, <2>1, <2>2 DEF Stops, Watched, Suspect, Evidence, At, Live, Settling
  <2>7. Charged(i)'
    BY <2>0, <2>2 DEF Charged, EndedBy, Live
  <2>. QED BY <2>0, <2>1, <2>2, <2>3, <2>4, <2>5, <2>6, <2>7, StepFrame
<1>. QED BY <1>1, <1>2, <1>3

LEMMA IInvKept ==
  ASSUME IInv, [Next]_vars
  PROVE  IInv'
<1>1. CASE UNCHANGED vars
  <2>1. UNCHANGED <<now, rec, job, dog, stop, wr>>
    BY <1>1 DEF vars, watchVars
  <2>2. Typed'
    BY <2>1 DEF IInv, Typed
  <2>3. ASSUME NEW k \in Attempts
        PROVE  Turn(k)' /\ \A j \in 1..k-1 : Apart(k, j)'
    BY <2>1 DEF IInv, Turn, Apart, At, Gone, On, Live, LiveRecord, Over
  <2>4. ASSUME NEW k \in Attempts PROVE Recorded(k)' /\ Charged(k)' /\ Watched(k)'
    BY <2>1 DEF IInv, Recorded, Pristine, Charged, EndedBy, Watched, At, Live
  <2>5. ASSUME NEW k \in Attempts PROVE Stops(k)' /\ Settling(k)'
    BY <2>1 DEF IInv, Stops, Settling, Suspect, Evidence, At, Live, On, Fields, EndedBy, LiveRecord
  <2>. QED BY <2>2, <2>3, <2>4, <2>5 DEF IInv
<1>2. CASE Tick /\ UNCHANGED <<wr, kills>>
  BY <1>2, TickKeeps
<1>3. CASE Killed
  BY <1>3, KilledKeeps
<1>4. ASSUME NEW i \in Attempts, Begin(i) \/ Recover(i) PROVE IInv'
  BY <1>4, BeginKeeps, ReconcileKeeps, VerifiedKeeps, NotVerifiedKeeps, StopUnavailableKeeps,
     SettleKeeps, SettleStopKeeps, SettleStateKeeps, SettleDogKeeps, CloseUnverifiedKeeps,
     WrapperKillsKeeps DEF Recover
<1>5. ASSUME NEW i \in Attempts, Admit(i) \/ Watchdog(i) \/ Ends(i) PROVE IInv'
  BY <1>5, GatesKeeps, DecideKeeps, LaunchingKeeps, StartWatchdogKeeps, LaunchedKeeps,
     ReleaseKeeps, WatchdogKeeps, EndsKeeps DEF Admit
<1>6. ASSUME NEW i \in Attempts, Finish(i) PROVE IInv'
  BY <1>6, WaitKeeps, MarkLimitKeeps, AwaitEndKeeps, PastLimitKeeps, AccountKeeps,
     WriteStandDownKeeps, GiveUpKeeps, AcknowledgedKeeps DEF Finish
<1>. QED BY <1>1, <1>2, <1>3, <1>4, <1>5, <1>6 DEF Next

\* The invariant holds in every state of every run.
THEOREM AttemptsAreInTurn == Spec => []IInv
BY InitHolds, IInvKept, PTL DEF Spec

-----------------------------------------------------------------------------
\* No attempt of kit/p4_run.py is charged through less than its job ran,
\* whoever ended it and whoever was killed.
THEOREM JobsAreChargedInFull == Spec => []ChargedInFull
<1>1. IInv => ChargedInFull
  BY DEF IInv, Charged, EndedBy, ChargedInFull
<1>. QED BY <1>1, AttemptsAreInTurn, PTL

\* A terminal record with evidence of a spending-limit termination is never
\* on disk before the stop of its block.
THEOREM StopIsFirst == Spec => []StopBeforeEnded
<1>1. IInv => StopBeforeEnded
  BY DEF IInv, Stops, StopBeforeEnded, LimitEvidence, Suspect, Evidence
<1>. QED BY <1>1, AttemptsAreInTurn, PTL

\* A watchdog (kit/p4_watchdog.py) that has stood down has signalled nothing
\* and leaves no job behind.
THEOREM StandDownLeavesNothing == Spec => []StandDownIsSafe
<1>1. IInv => StandDownIsSafe
  BY DEF IInv, Watched, StandDownIsSafe
<1>. QED BY <1>1, AttemptsAreInTurn, PTL

\* After a job that ran to the end of its admitted time no attempt of the block
\* is launched, unless the attempt is recorded as unverified.
THEOREM NothingAfterOverrun == Spec => []NoLaunchAfterOverrun
<1>1. ASSUME IInv PROVE NoLaunchAfterOverrun
  <2>1. ASSUME NEW j \in Attempts, NEW i \in j+1..N, Overran(j), rec[j].state # "unverified"
        PROVE  job[i].is = "none"
    <3>1. i \in Attempts /\ j \in 1..i-1
      BY LimitAssumption DEF Attempts
    <3>2. Apart(i, j)
      BY <1>1, <3>1 DEF IInv
    <3>3. Live(j) \/ Over(j)
      BY <2>1 DEF Overran, Live, Over
    <3>. QED BY <2>1, <3>2, <3>3 DEF Apart
  <2>. QED BY <2>1 DEF NoLaunchAfterOverrun
<1>. QED BY <1>1, AttemptsAreInTurn, PTL
=============================================================================
