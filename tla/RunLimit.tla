------------------------------ MODULE RunLimit ------------------------------
(***************************************************************************)
(* The wrapper of package-4 GPU rows: kit/p4_run.py.  It finishes what     *)
(* earlier wrappers left behind, passes the gates, launches its job parked *)
(* and watched, ends it at the limit or when asked to, and accounts for    *)
(* it.  Wrappers of a block run one after the other, as runner.py starts   *)
(* them; wrapper and watchdog may be killed between any two writes.        *)
(***************************************************************************)
EXTENDS JobWatch, FiniteSets

CONSTANTS
  MaxKills,    \* bound: wrappers and watchdogs killed
  MaxLaunches  \* bound: attempts that are launched
ASSUME BoundsAssumption == MaxKills \in Nat /\ MaxLaunches \in Nat

VARIABLES
  wr,     \* attempt -> its wrapper: where it is and what it remembers
  kills   \* processes killed so far

vars == <<watchVars, wr, kills>>

NoWrapper == [pc |-> "off", on |-> 0, ended |-> "none", at |-> Never, fields |-> NoRecord]

Init == WatchInit /\ wr = [i \in Attempts |-> NoWrapper] /\ kills = 0

At(i, pc) == wr[i].pc = pc
Go(i, pc) == wr' = [wr EXCEPT ![i].pc = pc]
Write(j, r) == rec' = [rec EXCEPT ![j] = r]
\* The wrapper is no more, by itself or killed; what it remembered is gone.
Leave(i) == wr' = [wr EXCEPT ![i] = [NoWrapper EXCEPT !.pc = "over"]]
Gone(i) == At(i, "over")

Begin(i) ==
  /\ At(i, "off") /\ \A j \in 1..i-1 : Gone(j)
  /\ Cardinality({j \in Attempts : rec[j].limit # Never}) < MaxLaunches
  /\ Write(i, [NoRecord EXCEPT !.state = "admitting"])
  /\ wr' = [wr EXCEPT ![i].pc = "recover", ![i].on = 1]
  /\ UNCHANGED <<now, job, dog, stop, kills>>

-----------------------------------------------------------------------------
(* Recovery: every earlier record in turn, then once more the unverified ones. *)

On(i) == wr[i].on
LiveRecord(j) == rec[j].state \in {"launching", "running"}
DogAtWork(j) == DogWorks(j) /\ dog[j].state \in {"watching", "acting"}
Trusted(j) == dog[j].state = "acted" /\ dog[j].gone # Never

\* What recovery is about to write of a job that was gone at `at`.
\* Faulty variant: the end is inferred from the admitted run time.
Interrupted_Inferred(j, at, past) ==
  [rec[j] EXCEPT !.state = "ended", !.class = "interrupted",
                 !.until = rec[j].limit - 1, !.past = FALSE]
Interrupted(j, at, past) ==
  [rec[j] EXCEPT !.state = "ended", !.class = "interrupted", !.until = at, !.past = past]

\* The limit has come and the watchdog is at work: it is given its time.
Reconcile(i) ==
  /\ At(i, "recover") /\ On(i) < i
  /\ LET j == On(i) IN
     \/ /\ ~LiveRecord(j)
        /\ wr' = IF LimitEvidence(j, rec[j]) \/ (rec[j].state = "ended" /\ ~rec[j].standDown)
                 THEN [wr EXCEPT ![i].pc = "settle", ![i].fields = rec[j]]
                 ELSE [wr EXCEPT ![i].on = @ + 1]
     \/ /\ LiveRecord(j) /\ (now >= rec[j].limit => ~DogAtWork(j) \/ now >= Deadline(j))
        /\ IF Trusted(j)
           THEN wr' = [wr EXCEPT ![i].pc = "settle",
                  ![i].fields = Interrupted(j, dog[j].gone,
                                            dog[j].alive \/ dog[j].gone >= rec[j].limit)]
           ELSE Go(i, "terminate")
  /\ UNCHANGED <<watchVars, kills>>

\* No time of its end can be trusted: recovery ends the job itself and charges it until now.
Verified(i) ==
  /\ At(i, "terminate") /\ ~Live(On(i))
  /\ wr' = [wr EXCEPT ![i].pc = "settle",
                      ![i].fields = Interrupted(On(i), now, now >= rec[On(i)].limit)]
  /\ UNCHANGED <<watchVars, kills>>

NotVerified(i) ==
  /\ At(i, "terminate") /\ Live(On(i)) /\ job[On(i)].killed
  /\ Write(On(i), [rec[On(i)] EXCEPT !.state = "unverified", !.class = "not verified"])
  /\ Go(i, "unavailable") /\ UNCHANGED <<now, job, dog, stop, kills>>

StopUnavailable(i) ==
  /\ At(i, "unavailable") /\ RecordStop("unavailable")
  /\ wr' = [wr EXCEPT ![i].pc = "recover", ![i].on = @ + 1]
  /\ UNCHANGED <<now, rec, job, dog, kills>>

\* settle_budget: with evidence the disposition, then the stop, then the terminal
\* state, and last the stand-down.
Fields(i) == wr[i].fields
\* Faulty variant: the terminal state is written first.
Settle_StateFirst(i) ==
  /\ At(i, "settle") /\ Write(On(i), Fields(i))
  /\ IF LimitEvidence(On(i), Fields(i)) THEN Go(i, "settleStop") ELSE Go(i, "settleState")
  /\ UNCHANGED <<now, job, dog, stop, kills>>
Settle(i) ==
  /\ At(i, "settle")
  /\ IF LimitEvidence(On(i), Fields(i))
     THEN /\ Write(On(i), [rec[On(i)] EXCEPT !.class = "budget"])
          /\ wr' = [wr EXCEPT ![i].pc = "settleStop", ![i].fields.class = "budget"]
     ELSE Go(i, "settleState") /\ UNCHANGED rec
  /\ UNCHANGED <<now, job, dog, stop, kills>>

SettleStop(i) ==
  /\ At(i, "settleStop") /\ RecordStop("limit") /\ Go(i, "settleState")
  /\ UNCHANGED <<now, rec, job, dog, kills>>

SettleState(i) ==
  /\ At(i, "settleState") /\ Write(On(i), Fields(i)) /\ Go(i, "settleDog")
  /\ UNCHANGED <<now, job, dog, stop, kills>>

SettleDog(i) ==
  /\ At(i, "settleDog")
  /\ rec' = [rec EXCEPT ![On(i)].standDown = @ \/ rec[On(i)].state = "ended"]
  /\ wr' = [wr EXCEPT ![i].pc = "recover", ![i].on = @ + 1, ![i].fields = NoRecord]
  /\ UNCHANGED <<now, job, dog, stop, kills>>

\* An unverified attempt whose job is gone by now is closed; its state stays.
Unverified == {j \in Attempts : rec[j].state = "unverified" /\ rec[j].until = Never}
CloseUnverified(i) ==
  /\ At(i, "recover") /\ On(i) = i
  /\ \/ \E j \in Unverified :
          ~Live(j) /\ Write(j, [rec[j] EXCEPT !.until = now, !.standDown = TRUE]) /\ UNCHANGED wr
     \/ /\ \A j \in Unverified : Live(j) /\ job[j].killed
        /\ Go(i, "gates") /\ UNCHANGED rec
  /\ UNCHANGED <<now, job, dog, stop, kills>>

\* Recovery, and the wrapper at the end of its own run, send the SIGKILL when it is due.
WrapperKills(i) ==
  /\ \/ At(i, "terminate") /\ Kill(On(i))
     \/ At(i, "recover") /\ On(i) = i /\ \E j \in Unverified : Live(j) /\ Kill(j)
     \/ wr[i].pc \in {"ended", "limitStop", "await"} /\ Kill(i)
  /\ UNCHANGED <<wr, kills>>

-----------------------------------------------------------------------------
(* Admission and launch. *)

\* No unacknowledged watchdog is alive, and no compute process is on the GPUs; else busy.
Gates(i) ==
  /\ At(i, "gates")
  /\ IF (\E j \in Attempts : DogAtWork(j)) \/ (\E j \in Attempts : Live(j))
     THEN Write(i, [rec[i] EXCEPT !.state = "busy"]) /\ Leave(i)
     ELSE Go(i, "decide") /\ UNCHANGED rec
  /\ UNCHANGED <<now, job, dog, stop, kills>>

\* The block is stopped, or an attempt of it holds evidence of a spending-limit termination.
Stopped == stop # "none" \/ \E j \in Attempts : LimitEvidence(j, rec[j])
Decide(i) ==
  /\ At(i, "decide")
  /\ IF Stopped THEN /\ RecordStop("gate") /\ Leave(i)
                     /\ Write(i, [rec[i] EXCEPT !.state = "refused"])
     ELSE Go(i, "launch") /\ UNCHANGED <<rec, stop>>
  /\ UNCHANGED <<now, job, dog, kills>>

\* The durable times first, then the job's group, parked, then its watchdog.
Launching(i) ==
  /\ At(i, "launch") /\ Go(i, "watch")
  /\ Write(i, [rec[i] EXCEPT !.state = "launching", !.limit = now + Limit])
  /\ job' = [job EXCEPT ![i].is = "parked"]
  /\ UNCHANGED <<now, dog, stop, kills>>

StartWatchdog(i) ==
  /\ At(i, "watch") /\ dog[i].pc = "off"
  /\ dog' = [dog EXCEPT ![i].pc = "watching", ![i].state = "watching"]
  /\ UNCHANGED <<now, rec, job, stop, wr, kills>>

\* Only with a watchdog that watches does the attempt count as launched, and run.
Launched(i) ==
  /\ At(i, "watch")
  /\ IF dog[i].pc = "watching"
     THEN /\ Write(i, [rec[i] EXCEPT !.state = "running", !.launched = TRUE])
          /\ Go(i, "release") /\ UNCHANGED job
     ELSE /\ dog[i].pc # "off" /\ Leave(i)
          /\ job' = [job EXCEPT ![i].is = "aborted"]
          /\ Write(i, [rec[i] EXCEPT !.state = "refused"])
  /\ UNCHANGED <<now, dog, stop, kills>>

Release(i) ==
  /\ At(i, "release") /\ job' = [job EXCEPT ![i].is = "live"] /\ Go(i, "run")
  /\ UNCHANGED <<now, rec, dog, stop, kills>>

-----------------------------------------------------------------------------
(* The end of the run, and its accounting. *)

\* The command ends, the wrapper is told to end, or the admitted run time has passed.
Wait(i) ==
  /\ At(i, "run")
  /\ \/ wr' = [wr EXCEPT ![i].pc = "await", ![i].ended = "signal"]
     \/ now < rec[i].limit /\ ~Live(i) /\ wr' = [wr EXCEPT ![i].pc = "await", ![i].ended = "exit"]
     \/ now >= rec[i].limit /\ wr' = [wr EXCEPT ![i].pc = "ended", ![i].ended = "limit"]
  /\ UNCHANGED <<watchVars, kills>>

\* The disposition and the block's stop are durable before any terminal state.
MarkLimit(i) ==
  /\ \/ /\ At(i, "ended") /\ Write(i, [rec[i] EXCEPT !.class = "budget", !.byLimit = TRUE])
        /\ Go(i, "limitStop") /\ UNCHANGED stop
     \/ At(i, "limitStop") /\ RecordStop("limit") /\ Go(i, "await") /\ UNCHANGED rec
  /\ UNCHANGED <<now, job, dog, kills>>

\* Verified only at the limit or later: a spending-limit termination too.
AwaitEnd(i) ==
  /\ At(i, "await") /\ ~Live(i)
  /\ wr' = [wr EXCEPT ![i].at = now,
       ![i].pc = IF now >= rec[i].limit /\ wr[i].ended # "limit" THEN "past" ELSE "account"]
  /\ UNCHANGED <<watchVars, kills>>

PastLimit(i) ==
  /\ \/ /\ At(i, "past") /\ Write(i, [rec[i] EXCEPT !.class = "budget"])
        /\ Go(i, "pastStop") /\ UNCHANGED stop
     \/ At(i, "pastStop") /\ RecordStop("limit") /\ Go(i, "account") /\ UNCHANGED rec
  /\ UNCHANGED <<now, job, dog, kills>>

\* Never charged through less than the time at which the job was verified gone.
Account(i) ==
  /\ At(i, "account") /\ Go(i, "standDown")
  /\ Write(i, [rec[i] EXCEPT !.state = "ended", !.until = wr[i].at,
                             !.past = wr[i].at >= rec[i].limit])
  /\ UNCHANGED <<now, job, dog, stop, kills>>

WriteStandDown(i) ==
  /\ At(i, "standDown") /\ Write(i, [rec[i] EXCEPT !.standDown = TRUE]) /\ Go(i, "ack")
  /\ UNCHANGED <<now, job, dog, stop, kills>>

\* The job cannot be shown gone in time: its watchdog is left to its work.
GiveUp(i) ==
  /\ \/ /\ At(i, "await") /\ Live(i) /\ job[i].killed
        /\ wr[i].ended = "limit" => now >= Deadline(i)
        /\ Write(i, [rec[i] EXCEPT !.state = "unverified", !.class = "not verified"])
        /\ Go(i, "giveUp") /\ UNCHANGED stop
     \/ At(i, "giveUp") /\ RecordStop("unavailable") /\ Go(i, "ack") /\ UNCHANGED rec
  /\ UNCHANGED <<now, job, dog, kills>>

\* The wrapper returns once the watchdog has acknowledged, is gone, or its time is up.
Acknowledged(i) ==
  /\ At(i, "ack") /\ (~DogAtWork(i) \/ rec[i].state = "unverified") /\ Leave(i)
  /\ UNCHANGED <<watchVars, kills>>

-----------------------------------------------------------------------------
\* A parked command goes when its wrapper does: it waits on the wrapper's pipe.
WrapperDies(i) ==
  /\ ~Gone(i) /\ ~At(i, "off") /\ Leave(i)
  /\ job' = IF job[i].is = "parked" THEN [job EXCEPT ![i].is = "aborted"] ELSE job
  /\ UNCHANGED <<now, rec, dog, stop>>

Killed ==
  /\ kills < MaxKills /\ kills' = kills + 1
  /\ \E i \in Attempts : WrapperDies(i) \/ (DogDies(i) /\ UNCHANGED wr)

Recover(i) ==
  \/ Reconcile(i) \/ Verified(i) \/ NotVerified(i) \/ StopUnavailable(i)
  \/ Settle(i) \/ SettleStop(i) \/ SettleState(i) \/ SettleDog(i)
  \/ CloseUnverified(i) \/ WrapperKills(i)
Admit(i) ==
  \/ Gates(i) \/ Decide(i) \/ Launching(i)
  \/ StartWatchdog(i) \/ Launched(i) \/ Release(i)
Finish(i) ==
  \/ Wait(i) \/ MarkLimit(i) \/ AwaitEnd(i) \/ PastLimit(i)
  \/ Account(i) \/ WriteStandDown(i) \/ GiveUp(i) \/ Acknowledged(i)
Watchdog(i) == DogStep(i) /\ UNCHANGED <<wr, kills>>
Ends(i) == JobEnds(i) /\ UNCHANGED <<wr, kills>>

Next ==
  \/ Tick /\ UNCHANGED <<wr, kills>>
  \/ Killed
  \/ \E i \in Attempts : Begin(i) \/ Recover(i) \/ Admit(i) \/ Finish(i) \/ Watchdog(i) \/ Ends(i)

\* Time passes, the processes run, and a job that took a SIGKILL goes.
Fairness ==
  /\ WF_vars(Tick /\ UNCHANGED <<wr, kills>>)
  /\ WF_vars(\E i \in Attempts : Watchdog(i))
  /\ WF_vars(\E i \in Attempts : Recover(i) \/ Admit(i) \/ Finish(i))
  /\ WF_vars(\E i \in Attempts : job[i].killed /\ Ends(i))
Spec == Init /\ [][Next]_vars /\ Fairness

-----------------------------------------------------------------------------
(***************************************************************************)
(* Properties                                                              *)
(***************************************************************************)
TypeOK ==
  /\ now \in Nat /\ kills \in 0..MaxKills
  /\ stop \in {"none", "limit", "unavailable", "gate"}
  /\ \A i \in Attempts :
       /\ rec[i].state \in {"none", "admitting", "busy", "refused", "launching",
                            "running", "ended", "unverified"}
       /\ rec[i].class \in {"none", "budget", "interrupted", "not verified"}
       /\ job[i].is \in {"none", "parked", "live", "gone", "aborted"} /\ job[i].at \in -1..now
       /\ dog[i].gone \in -1..now /\ rec[i].until \in -1..now
       /\ wr[i].on \in 0..i /\ wr[i].ended \in {"none", "exit", "signal", "limit"}

\* The job went on to the end of its admitted run time or longer.
Overran(i) ==
  /\ rec[i].limit # Never
  /\ \/ job[i].is = "live" /\ now >= rec[i].limit
     \/ job[i].is = "gone" /\ job[i].at >= rec[i].limit

\* After a job has run to the end of its admitted time no later attempt of the
\* block is launched, whoever was killed between the evidence and the stop.
\* (What holds of attempts recorded as unverified is UnverifiedStops.)
NoLaunchAfterOverrun ==
  \A j \in Attempts : \A i \in j+1..N :
    Overran(j) /\ rec[j].state # "unverified" => job[i].is = "none"

\* A terminal record that shows a spending-limit termination has its block
\* stopped already: the stop is durable first.
StopBeforeEnded ==
  \A i \in Attempts : rec[i].state = "ended" /\ LimitEvidence(i, rec[i]) => stop # "none"

\* No attempt is charged through less than its job ran, whoever ended it.
ChargedInFull ==
  \A i \in Attempts : rec[i].until # Never => ~Live(i) /\ rec[i].until >= job[i].at

\* A watchdog acknowledges a stand-down only when it has signalled nothing and
\* there is nothing left for it to end.
StandDownIsSafe ==
  \A i \in Attempts : dog[i].state = "stood down" => ~Live(i) /\ ~dog[i].alive

\* An attempt that is recorded as unverified has stopped its block: nothing is
\* launched after it.
UnverifiedStops ==
  \A j \in Attempts : \A i \in j+1..N :
    rec[j].state = "unverified" => job[i].is = "none"

\* No job runs on for ever as long as its wrapper or its watchdog is left, also
\* when the other is killed before it has ended the job.
Lost(i) == ~DogWorks(i) /\ dog[i].state \in {"watching", "acting"} /\ Gone(i)
EveryJobEnds == []<>(\A i \in Attempts : job[i].is = "live" => Lost(i))
=============================================================================
