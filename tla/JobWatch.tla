------------------------------ MODULE JobWatch ------------------------------
(***************************************************************************)
(* What outlives the wrapper of a package-4 attempt: its durable record,   *)
(* its job, its watchdog (kit/p4_watchdog.py) with the watchdog's own      *)
(* record, and the stop file of the block (kit/p4_budget.py).  A job ends  *)
(* by itself or some time after a SIGKILL; nothing bounds how slow a       *)
(* process is.  Containment is by process group.                           *)
(***************************************************************************)
EXTENDS Integers

CONSTANTS
  N,      \* attempts of the block, made one after the other
  Limit,  \* the run time a launch is admitted for
  Grace   \* from the end of the admitted run time to the deadline

ASSUME LimitAssumption == N \in Nat /\ Limit \in Nat \ {0} /\ Grace \in Nat \ {0}

VARIABLES
  now,   \* the clock
  rec,   \* attempt -> its record on disk
  job,   \* attempt -> the processes it launched
  dog,   \* attempt -> its watchdog's process and record
  stop   \* what the stop file of the block says, "none" before it exists

watchVars == <<now, rec, job, dog, stop>>

Attempts == 1..N
Never == -1

NoRecord == [state |-> "none", launched |-> FALSE, limit |-> Never, class |-> "none",
             byLimit |-> FALSE, past |-> FALSE, until |-> Never, standDown |-> FALSE]
NoJob == [is |-> "none", at |-> Never, killed |-> FALSE]
NoDog == [pc |-> "off", state |-> "none", alive |-> FALSE, gone |-> Never]

WatchInit ==
  /\ now = 0 /\ stop = "none"
  /\ rec = [i \in Attempts |-> NoRecord] /\ job = [i \in Attempts |-> NoJob]
  /\ dog = [i \in Attempts |-> NoDog]

Deadline(i) == rec[i].limit + Grace
Live(i) == job[i].is \in {"parked", "live"}
DogWorks(i) == dog[i].pc \notin {"off", "over"}

\* The stop file is linked to its name: the first stop is the stop.
RecordStop(why) == stop' = IF stop = "none" THEN why ELSE stop

\* Time passes only while an attempt's deadline is ahead.
Tick ==
  /\ \E i \in Attempts : rec[i].limit # Never /\ now < Deadline(i)
  /\ now' = now + 1 /\ UNCHANGED <<rec, job, dog, stop>>

JobEnds(i) ==
  /\ job[i].is = "live"
  /\ job' = [job EXCEPT ![i] = [is |-> "gone", at |-> now, killed |-> FALSE]]
  /\ UNCHANGED <<now, rec, dog, stop>>

Kill(i) == ~job[i].killed /\ job' = [job EXCEPT ![i].killed = TRUE] /\ UNCHANGED <<now, rec, dog, stop>>

\* Why a launched attempt counts as ended by its spending limit.
\* Faulty variant: only what the wrapper says of itself counts.
LimitEvidence_ByWrapper(i, r) == r.launched /\ r.byLimit
LimitEvidence(i, r) ==
  /\ r.launched
  /\ \/ r.byLimit \/ r.past
     \/ dog[i].state \in {"acting", "acted"} /\ dog[i].alive
     \/ r.until # Never /\ r.until >= r.limit

-----------------------------------------------------------------------------
\* The TERM is the first thing at the limit; whether the job took it is the evidence.
Term(i) ==
  /\ dog[i].pc = "watching" /\ now >= rec[i].limit
  /\ dog' = [dog EXCEPT ![i].pc = IF Live(i) THEN "termed" ELSE "ending", ![i].alive = Live(i)]
  /\ UNCHANGED <<now, rec, job, stop>>

\* The job was alive at the limit: the evidence, then the block's stop.
Acting(i) ==
  /\ dog[i].pc = "termed"
  /\ dog' = [dog EXCEPT ![i].pc = "stopping", ![i].state = "acting"]
  /\ UNCHANGED <<now, rec, job, stop>>

WriteStop(i) ==
  /\ dog[i].pc = "stopping" /\ RecordStop("limit")
  /\ dog' = [dog EXCEPT ![i].pc = "ending"] /\ UNCHANGED <<now, rec, job>>

\* Faulty variant: the SIGKILL waits until the stop has been written and the job is gone.
DogKills_Verified(i) == dog[i].pc = "ending" /\ ~Live(i) /\ Kill(i)
DogKills(i) ==
  dog[i].pc \in {"termed", "stopping", "ending"} /\ now > rec[i].limit /\ Kill(i)

\* Verified empty: the time of that is on record.  Not by the deadline: so is that.
Acted(i) ==
  /\ dog[i].pc = "ending"
  /\ \/ ~Live(i) /\ dog' = [dog EXCEPT ![i].pc = "over", ![i].state = "acted", ![i].gone = now]
     \/ Live(i) /\ job[i].killed /\ now >= Deadline(i)
        /\ dog' = [dog EXCEPT ![i].pc = "unavailable", ![i].state = "acted"]
  /\ UNCHANGED <<now, rec, job, stop>>

Unavailable(i) ==
  /\ dog[i].pc = "unavailable" /\ RecordStop("unavailable")
  /\ dog' = [dog EXCEPT ![i].pc = "over"] /\ UNCHANGED <<now, rec, job>>

\* The stand-down cancels the schedule if its TERM has not been sent.
\* Faulty variant: it cancels the schedule whatever has been sent.
StandDown_Late(i) ==
  /\ dog[i].pc \in {"watching", "termed", "stopping", "ending"} /\ rec[i].standDown
  /\ dog' = [dog EXCEPT ![i].pc = "over", ![i].state = "stood down"]
  /\ UNCHANGED <<now, rec, job, stop>>
StandDown(i) ==
  /\ dog[i].pc = "watching" /\ rec[i].standDown
  /\ dog' = [dog EXCEPT ![i].pc = "over", ![i].state = "stood down"]
  /\ UNCHANGED <<now, rec, job, stop>>

DogStep(i) ==
  \/ Term(i) \/ Acting(i) \/ WriteStop(i) \/ DogKills(i)
  \/ Acted(i) \/ Unavailable(i) \/ StandDown(i)

DogDies(i) ==
  /\ DogWorks(i)
  /\ dog' = [dog EXCEPT ![i].pc = "over",
                        ![i].alive = dog[i].state \in {"acting", "acted"} /\ dog[i].alive]
  /\ UNCHANGED <<now, rec, job, stop>>
=============================================================================
