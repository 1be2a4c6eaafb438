---------------------------- MODULE LanePoolProof ---------------------------
(***************************************************************************)
(* Why the lane of LanePool is one comparison that survives its resumes,   *)
(* for every plan, any number of controllers and allocations, and whatever *)
(* points they are killed or interrupted at; and why no command gets a     *)
(* second process, unless a controller ended between a launch and the      *)
(* write that records it.                                                  *)
(***************************************************************************)
EXTENDS LanePool, TLAPS

-----------------------------------------------------------------------------
(* The invariant. *)

\* Between controllers there is no record and no process in hand; before the first
\* one there is no lane.json.
Resting ==
  /\ pc = "idle" => record = NoLane /\ \A c \in Plan : active[c] = "none"
  /\ starts = 0 => pc = "idle" /\ lane = NoLane

\* A controller's record names its allocation, has the nonce once it is admitted,
\* and its status says how far the controller is.
InSession ==
  pc # "idle" =>
    /\ record.allocation = holder
    /\ pc \in {"loop", "spawned", "registered"} => record.job = holder
    /\ pc \in {"admit", "spawned", "registered"} => record.status = "RUNNING"
    /\ pc = "loop" => record.status \in {"RUNNING", "PENDING", "FAILED"}
    /\ pc = "reap" => record.status = "FAILED"
    /\ pc = "finish" => record.status \in {"PENDING", "FAILED", "COMPLETE"}
    /\ pc = "spawned" => cursor \in Plan /\ active[cursor] = "spawned"

\* A process in hand is on record as RUNNING in this allocation; the newest one is
\* the command at the cursor, every other one is before it.
InHand(c) ==
  active[c] # "none" =>
    /\ pc \in {"loop", "spawned", "registered", "reap"}
    /\ record.commands[c] = [status |-> "RUNNING", holder |-> holder]
    /\ active[c] = "spawned" => pc = "spawned" /\ c = cursor
    /\ active[c] # "spawned" => c < cursor

\* What is complete was so in the allocation its file names, and what lane.json has
\* as complete the record has as well.
Standing(c) ==
  /\ lane.commands[c].status = "COMPLETE" => lane.commands[c].holder = lane.allocation
  /\ record.commands[c].status = "COMPLETE" => record.commands[c].holder = record.allocation
  /\ pc # "idle" /\ lane.commands[c].status = "COMPLETE" => record.commands[c] = lane.commands[c]

\* Until something fails no command has, and one on record as RUNNING is in hand;
\* until the status changes, all before the cursor are complete or in hand.
Peaceful(c) ==
  /\ record.status \in {"RUNNING", "PENDING", "COMPLETE"} =>
       /\ record.commands[c].status # "FAILED"
       /\ record.commands[c].status = "RUNNING" => active[c] # "none"
  /\ record.status = "RUNNING" /\ c < cursor =>
       record.commands[c].status = "COMPLETE" \/ active[c] # "none"

\* What says COMPLETE has its nonce and every command.
WholeOf(r) ==
  r.status = "COMPLETE" =>
    /\ r.job = r.allocation /\ r.job # 0
    /\ \A c \in Plan : r.commands[c].status = "COMPLETE"

IInv ==
  /\ TypeOK /\ Resting /\ InSession /\ WholeOf(lane) /\ WholeOf(record)
  /\ \A c \in Plan : InHand(c) /\ Standing(c) /\ Peaceful(c)

\* What an entry says of a command whose process may be alive.
Begun == {"RUNNING", "FAILED"}

\* Where a launch can be unwritten.
OpenAt == {"spawned", "registered", "reap", "finish"}

\* Unless a controller of this allocation ended with a launch unwritten: one that is
\* not in its cleanup has nobody's processes beside it, and whatever may be alive is
\* begun, in the record of the cleanup and, but for the launch that is not written
\* yet, in lane.json.  No resume accepts such a lane.json.
Recorded ==
  /\ orphans # {} => starts # 0
  /\ window = "open" => pc \in OpenAt
  /\ window # "caught" /\ pc \in {"admit", "loop", "spawned", "registered"} => orphans = {}
  /\ window # "caught" /\ pc \in {"reap", "finish"} =>
       \A c \in orphans : active[c] = "none" /\ record.commands[c].status \in Begun
  /\ window = "closed" =>
       \A c \in Plan : c \in orphans \/ active[c] # "none" => lane.commands[c].status \in Begun
  /\ lane.status = "PENDING" => \A c \in Plan : lane.commands[c].status \notin Begun

-----------------------------------------------------------------------------
(* Records. *)

Entries == [status : Statuses, holder : 0 .. MaxHolder]

\* A record is what its fields say.
LEMMA RecordShape ==
  Records = [status : {"NONE", "RUNNING", "COMPLETE", "PENDING", "FAILED"},
             job : 0 .. MaxHolder, allocation : 0 .. MaxHolder, commands : [Plan -> Entries]]
BY DEF Records, Entries

\* A fresh record, and none, are records; so is what a resume keeps of one.
LEMMA FreshRecords ==
  /\ Fresh \in Records /\ NoLane \in Records
  /\ \A r \in Records : Kept(r) \in [Plan -> Entries]
  /\ Fresh.status = "RUNNING" /\ Fresh.job = 0
  /\ NoLane.status = "NONE" /\ NoLane.job = 0 /\ NoLane.allocation = 0
  /\ \A c \in Plan : Fresh.commands[c] = NotRun /\ NoLane.commands[c] = NotRun
  /\ NotRun.status = "NOT_RUN" /\ NotRun \in Entries
<1>1. NotRun \in Entries /\ NotRun.status = "NOT_RUN"
  BY LaneAssumption DEF NotRun, Entries, Statuses
<1>2. [c \in Plan |-> NotRun] \in [Plan -> Entries]
  BY <1>1
<1>3. Fresh \in Records /\ NoLane \in Records
  BY <1>2, LaneAssumption, RecordShape DEF Fresh, NoLane
<1>4. ASSUME NEW r \in Records
      PROVE  Kept(r) \in [Plan -> Entries]
  <2>1. \A c \in Plan : r.commands[c] \in Entries
    BY RecordShape
  <2>2. QED
    BY <1>1, <2>1 DEF Kept
<1>5. QED
  BY <1>1, <1>3, <1>4 DEF Fresh, NoLane

\* The invariant holds before the first controller.
LEMMA InitHolds == Init => IInv
<1> SUFFICES ASSUME Init
             PROVE  IInv
  OBVIOUS
<1> USE LaneAssumption, FreshRecords DEF Init
<1>1. TypeOK
  <2>1. files \subseteq Paths
    OBVIOUS
  <2>2. active \in [Plan -> {"none", "spawned", "running"} \cup Outcomes]
    OBVIOUS
  <2>3. cursor \in 1 .. NCommands + 1 /\ holder \in 1 .. MaxHolder /\ starts \in 0 .. MaxStarts
    OBVIOUS
  <2>4. QED
    BY <2>1, <2>2, <2>3 DEF TypeOK
<1>2. Resting /\ InSession /\ WholeOf(lane) /\ WholeOf(record)
  BY DEF Resting, InSession, WholeOf
<1>3. \A c \in Plan : InHand(c) /\ Standing(c) /\ Peaceful(c)
  BY DEF InHand, Standing, Peaceful
<1>4. QED
  BY <1>1, <1>2, <1>3 DEF IInv

-----------------------------------------------------------------------------
(* Starting. *)

\* A fresh controller: there is no lane.json.
LEMMA StartKeeps ==
  ASSUME IInv, Start
  PROVE  IInv'
<1> USE LaneAssumption, FreshRecords DEF IInv
<1>1. /\ pc = "idle" /\ pc' = "admit" /\ cursor' = 1 /\ starts' = starts + 1 /\ starts < MaxStarts
      /\ lane = NoLane /\ lane' = lane /\ holder' = holder /\ active' = active
      /\ UNCHANGED <<files, orphans, killed, window>>
  BY DEF Start, Resting
<1>2. /\ record'.status = "RUNNING" /\ record'.job = 0 /\ record'.allocation = holder
      /\ record'.commands = Fresh.commands /\ record' \in Records
  BY RecordShape DEF Start, TypeOK, Fresh
<1>3. \A c \in Plan : active[c] = "none"
  BY <1>1 DEF Resting
<1>4. TypeOK'
  BY <1>1, <1>2 DEF TypeOK, Plan
<1>5. Resting' /\ InSession' /\ WholeOf(lane)' /\ WholeOf(record)'
  BY <1>1, <1>2, <1>4 DEF Resting, InSession, WholeOf, TypeOK
<1>6. ASSUME NEW c \in Plan
      PROVE  (InHand(c) /\ Standing(c) /\ Peaceful(c))'
  BY <1>1, <1>2, <1>3 DEF InHand, Standing, Peaceful, Plan
<1>7. QED
  BY <1>4, <1>5, <1>6

\* A resumed controller takes the complete entries of its allocation's file.
LEMMA ResumeKeeps ==
  ASSUME IInv, Resume
  PROVE  IInv'
<1> USE LaneAssumption, FreshRecords DEF IInv
<1>1. /\ pc = "idle" /\ pc' = "admit" /\ cursor' = 1 /\ starts' = starts + 1 /\ starts < MaxStarts
      /\ lane.allocation = holder /\ lane' = lane /\ holder' = holder /\ active' = active
      /\ UNCHANGED <<files, orphans, killed, window>>
  BY DEF Resume
<1>2. /\ record'.status = "RUNNING" /\ record'.job = 0 /\ record'.allocation = holder
      /\ record'.commands = Kept(lane) /\ record' \in Records
  BY RecordShape DEF Resume, TypeOK, Fresh
<1>3. \A c \in Plan : active[c] = "none"
  BY <1>1 DEF Resting
<1>4. TypeOK'
  BY <1>1, <1>2 DEF TypeOK, Plan
<1>5. Resting' /\ InSession' /\ WholeOf(lane)' /\ WholeOf(record)'
  BY <1>1, <1>2, <1>4 DEF Resting, InSession, WholeOf, TypeOK
<1>6. ASSUME NEW c \in Plan
      PROVE  (InHand(c) /\ Standing(c) /\ Peaceful(c))'
  <2>1. record'.commands[c] = IF lane.commands[c].status = "COMPLETE" THEN lane.commands[c] ELSE NotRun
    BY <1>2 DEF Kept
  <2>2. QED
    BY <1>1, <1>2, <1>3, <2>1 DEF InHand, Standing, Peaceful, Plan
<1>7. QED
  BY <1>4, <1>5, <1>6

\* The nonce, or PENDING at once.
LEMMA AdmitKeeps ==
  ASSUME IInv, Admit
  PROVE  IInv'
<1> USE LaneAssumption, FreshRecords DEF IInv
<1>1. /\ pc = "admit" /\ record.status = "RUNNING" /\ record.allocation = holder
      /\ UNCHANGED <<files, lane, cursor, active, orphans, holder, starts, killed, window>>
      /\ record \in Records /\ holder \in 1 .. MaxHolder
  BY DEF Admit, InSession, TypeOK
<1>2. \/ pc' = "loop" /\ record' = [record EXCEPT !.job = holder]
      \/ pc' = "finish" /\ record' = [record EXCEPT !.status = "PENDING"]
  BY DEF Admit
<1>3. /\ record'.allocation = holder /\ record'.commands = record.commands /\ record' \in Records
      /\ \/ pc' = "loop" /\ record'.status = "RUNNING" /\ record'.job = holder
         \/ pc' = "finish" /\ record'.status = "PENDING"
  BY <1>1, <1>2, RecordShape
<1>4. \A c \in Plan : active[c] = "none"
  BY <1>1 DEF InHand, TypeOK
<1>5. TypeOK'
  BY <1>1, <1>3 DEF TypeOK
<1>6. Resting' /\ InSession' /\ WholeOf(lane)' /\ WholeOf(record)'
  BY <1>1, <1>3 DEF Resting, InSession, WholeOf, TypeOK
<1>7. ASSUME NEW c \in Plan
      PROVE  (InHand(c) /\ Standing(c) /\ Peaceful(c))'
  BY <1>1, <1>3, <1>4 DEF InHand, Standing, Peaceful
<1>8. QED
  BY <1>5, <1>6, <1>7

-----------------------------------------------------------------------------
(* The loop. *)

\* A process that has ended gives its entry an outcome, and the record a status
\* when that is not a success.
LEMMA PollKeeps ==
  ASSUME IInv, NEW c \in Plan, Poll(c)
  PROVE  IInv'
<1> USE LaneAssumption, FreshRecords DEF IInv
<1> PICK s : s = StatusOf(active[c])
  OBVIOUS
<1> PICK t : t = (IF s = "COMPLETE" THEN record.status
                  ELSE IF "FAILED" \in {s, record.status} THEN "FAILED" ELSE "PENDING")
  OBVIOUS
<1>1. /\ pc = "loop" /\ active[c] # "none" /\ s \in {"COMPLETE", "PENDING", "FAILED"}
      /\ record.status \in {"RUNNING", "PENDING", "FAILED"} /\ record.allocation = holder
      /\ record.job = holder
      /\ record \in Records /\ record.commands[c] = [status |-> "RUNNING", holder |-> holder]
      /\ UNCHANGED <<files, lane, pc, cursor, orphans, holder, starts, killed, window>>
  BY DEF Poll, Outcomes, StatusOf, InSession, InHand, TypeOK
<1>2. record' = [record EXCEPT !.commands[c].status = s, !.status = t]
  BY DEF Poll
<1>3. /\ record'.allocation = holder /\ record'.job = record.job /\ record'.status = t
      /\ record'.commands[c] = [status |-> s, holder |-> holder]
      /\ \A d \in Plan \ {c} : record'.commands[d] = record.commands[d]
      /\ record' \in Records
  <2>1. record.commands \in [Plan -> Entries] /\ record.commands[c] \in Entries
    BY <1>1, RecordShape
  <2>2. [record.commands EXCEPT ![c].status = s] \in [Plan -> Entries]
    BY <1>1, <2>1 DEF Entries, Statuses
  <2>3. t \in {"RUNNING", "COMPLETE", "PENDING", "FAILED"}
    BY <1>1
  <2> DEFINE e == [record.commands EXCEPT ![c].status = s]
  <2>4. record' = [record EXCEPT !.commands = e, !.status = t]
    BY <1>1, <1>2, RecordShape
  <2>5. e[c] = [status |-> s, holder |-> holder] /\ \A d \in Plan \ {c} : e[d] = record.commands[d]
    BY <1>1, <2>1 DEF Entries
  <2> HIDE DEF e
  <2>6. record'.commands = e /\ record'.status = t /\ record'.job = record.job
        /\ record'.allocation = record.allocation
    BY <1>1, <2>4, RecordShape
  <2>7. record' \in Records
    BY <1>1, <2>2, <2>3, <2>4, RecordShape DEF e
  <2>8. QED
    BY <1>1, <2>5, <2>6, <2>7
<1>4. /\ active'[c] = "none" /\ \A d \in Plan \ {c} : active'[d] = active[d]
      /\ active' \in [Plan -> {"none", "spawned", "running"} \cup Outcomes]
  BY DEF Poll, TypeOK
<1>5. TypeOK'
  BY <1>1, <1>3, <1>4 DEF TypeOK
<1>6. t \in {"RUNNING", "PENDING", "FAILED"} /\ (t = "RUNNING" => s = "COMPLETE")
      /\ (s = "FAILED" => t = "FAILED") /\ (t # "FAILED" => record.status # "FAILED")
      /\ (t = "RUNNING" => record.status = "RUNNING")
  BY <1>1
<1>7. Resting' /\ InSession' /\ WholeOf(lane)' /\ WholeOf(record)'
  BY <1>1, <1>3, <1>6 DEF Resting, InSession, WholeOf
<1>8. ASSUME NEW d \in Plan
      PROVE  (InHand(d) /\ Standing(d) /\ Peaceful(d))'
  <2>1. CASE d = c
    BY <1>1, <1>3, <1>4, <1>6, <2>1 DEF InHand, Standing, Peaceful
  <2>2. CASE d # c
    BY <1>1, <1>3, <1>4, <1>6, <2>2 DEF InHand, Standing, Peaceful
  <2>3. QED
    BY <2>1, <2>2
<1>9. QED
  BY <1>5, <1>7, <1>8

\* A complete command is passed over.
LEMMA PassOverKeeps ==
  ASSUME IInv, PassOver
  PROVE  IInv'
<1> USE LaneAssumption DEF IInv
<1>1. /\ pc = "loop" /\ record.status = "RUNNING" /\ cursor \in Plan /\ cursor' = cursor + 1
      /\ record.commands[cursor].status = "COMPLETE"
      /\ UNCHANGED <<files, lane, record, pc, active, orphans, holder, starts, killed, window>>
  BY DEF PassOver, Admitting
<1>2. TypeOK'
  BY <1>1 DEF TypeOK, Plan
<1>3. Resting' /\ InSession' /\ WholeOf(lane)' /\ WholeOf(record)'
  BY <1>1 DEF Resting, InSession, WholeOf
<1>4. ASSUME NEW c \in Plan
      PROVE  (InHand(c) /\ Standing(c) /\ Peaceful(c))'
  <2>1. (c < cursor + 1 => c < cursor \/ c = cursor) /\ (c < cursor => c < cursor + 1)
    BY <1>1 DEF Plan
  <2>2. QED
    BY <1>1, <2>1 DEF InHand, Standing, Peaceful
<1>5. QED
  BY <1>2, <1>3, <1>4

\* No process can supply what the next command lacks.
LEMMA NotReadyKeeps ==
  ASSUME IInv, NotReady
  PROVE  IInv'
<1> USE LaneAssumption DEF IInv
<1> PICK c : c = cursor
  OBVIOUS
<1>1. /\ pc = "loop" /\ record.status = "RUNNING" /\ c \in Plan
      /\ record.commands[c].status # "COMPLETE" /\ Known = {} /\ record \in Records
      /\ record.allocation = holder /\ record.job = holder
      /\ UNCHANGED <<files, lane, pc, cursor, active, orphans, holder, starts, killed, window>>
  BY DEF NotReady, Admitting, TypeOK, InSession
<1>2. record' = [record EXCEPT !.status = "PENDING", !.commands[c].status = "PENDING"]
  BY DEF NotReady
<1>3. /\ record'.allocation = holder /\ record'.job = holder /\ record'.status = "PENDING"
      /\ record'.commands[c].status = "PENDING"
      /\ \A d \in Plan \ {c} : record'.commands[d] = record.commands[d]
      /\ record' \in Records
  <2>1. record.commands \in [Plan -> Entries] /\ record.commands[c] \in Entries
    BY <1>1, RecordShape
  <2>2. [record.commands EXCEPT ![c].status = "PENDING"] \in [Plan -> Entries]
    BY <2>1 DEF Entries, Statuses
  <2>3. record' = [record EXCEPT !.commands = [record.commands EXCEPT ![c].status = "PENDING"],
                                 !.status = "PENDING"]
    BY <1>1, <1>2, RecordShape
  <2>4. QED
    BY <1>1, <2>1, <2>2, <2>3, RecordShape DEF Entries
<1>4. \A d \in Plan : active[d] = "none"
  BY <1>1 DEF Known, InHand, TypeOK
<1>5. TypeOK'
  BY <1>1, <1>3 DEF TypeOK
<1>6. Resting' /\ InSession' /\ WholeOf(lane)' /\ WholeOf(record)'
  BY <1>1, <1>3 DEF Resting, InSession, WholeOf
<1>7. ASSUME NEW d \in Plan
      PROVE  (InHand(d) /\ Standing(d) /\ Peaceful(d))'
  <2>1. CASE d = c
    BY <1>1, <1>3, <1>4, <2>1 DEF InHand, Standing, Peaceful
  <2>2. CASE d # c
    BY <1>1, <1>3, <1>4, <2>2 DEF InHand, Standing, Peaceful
  <2>3. QED
    BY <2>1, <2>2
<1>8. QED
  BY <1>5, <1>6, <1>7

\* The next command is launched, and on record as RUNNING.
LEMMA SpawnKeeps ==
  ASSUME IInv, Spawn
  PROVE  IInv'
<1> USE LaneAssumption DEF IInv
<1> PICK c : c = cursor
  OBVIOUS
<1>1. /\ pc = "loop" /\ pc' = "spawned" /\ record.status = "RUNNING" /\ c \in Plan
      /\ record.commands[c].status # "COMPLETE" /\ record \in Records
      /\ record.allocation = holder /\ record.job = holder /\ holder \in 1 .. MaxHolder
      /\ UNCHANGED <<files, lane, cursor, orphans, holder, starts, killed>>
      /\ window' \in {"closed", "open", "caught"}
  BY DEF Spawn, Admitting, TypeOK, InSession, Unwritten
<1>2. record' = [record EXCEPT !.commands[c] = [status |-> "RUNNING", holder |-> holder]]
  BY DEF Spawn
<1>3. /\ record'.allocation = holder /\ record'.job = holder /\ record'.status = "RUNNING"
      /\ record'.commands[c] = [status |-> "RUNNING", holder |-> holder]
      /\ \A d \in Plan \ {c} : record'.commands[d] = record.commands[d]
      /\ record' \in Records
  <2>1. record.commands \in [Plan -> Entries]
        /\ [status |-> "RUNNING", holder |-> holder] \in Entries
    BY <1>1, RecordShape DEF Entries, Statuses
  <2>2. QED
    BY <1>1, <1>2, <2>1, RecordShape
<1>4. /\ active'[c] = "spawned" /\ \A d \in Plan \ {c} : active'[d] = active[d]
      /\ active' \in [Plan -> {"none", "spawned", "running"} \cup Outcomes]
  BY <1>1 DEF Spawn, TypeOK
<1>5. TypeOK'
  BY <1>1, <1>3, <1>4 DEF TypeOK
<1>6. Resting' /\ InSession' /\ WholeOf(lane)' /\ WholeOf(record)'
  BY <1>1, <1>3, <1>4 DEF Resting, InSession, WholeOf
<1>7. ASSUME NEW d \in Plan
      PROVE  (InHand(d) /\ Standing(d) /\ Peaceful(d))'
  <2>1. CASE d = c
    BY <1>1, <1>3, <1>4, <2>1 DEF InHand, Standing, Peaceful
  <2>2. CASE d # c
    BY <1>1, <1>3, <1>4, <2>2 DEF InHand, Standing, Peaceful
  <2>3. QED
    BY <2>1, <2>2
<1>8. QED
  BY <1>5, <1>6, <1>7

\* A program that cannot be started.
LEMMA SpawnFailsKeeps ==
  ASSUME IInv, SpawnFails
  PROVE  IInv'
<1> USE LaneAssumption DEF IInv
<1> PICK c : c = cursor
  OBVIOUS
<1>1. /\ pc = "loop" /\ pc' = "reap" /\ record.status = "RUNNING" /\ c \in Plan
      /\ record.commands[c].status # "COMPLETE" /\ record \in Records
      /\ record.allocation = holder /\ record.job = holder /\ holder \in 1 .. MaxHolder
      /\ active \in [Plan -> {"none", "spawned", "running"} \cup Outcomes]
      /\ UNCHANGED <<files, lane, cursor, active, orphans, holder, starts, killed, window>>
  BY DEF SpawnFails, Admitting, TypeOK, InSession
<1>2. record' = [record EXCEPT !.status = "FAILED",
                   !.commands[c] = [status |-> "FAILED", holder |-> holder]]
  BY DEF SpawnFails
<1>3. /\ record'.allocation = holder /\ record'.job = holder /\ record'.status = "FAILED"
      /\ record'.commands[c] = [status |-> "FAILED", holder |-> holder]
      /\ \A d \in Plan \ {c} : record'.commands[d] = record.commands[d]
      /\ record' \in Records
  <2>1. record.commands \in [Plan -> Entries]
        /\ [status |-> "FAILED", holder |-> holder] \in Entries
    BY <1>1, RecordShape DEF Entries, Statuses
  <2>2. QED
    BY <1>1, <1>2, <2>1, RecordShape
<1>5. active[c] = "none"
  BY <1>1 DEF InHand, Plan
<1>6. TypeOK'
  BY <1>1, <1>3 DEF TypeOK
<1>7. Resting' /\ InSession' /\ WholeOf(lane)' /\ WholeOf(record)'
  BY <1>1, <1>3 DEF Resting, InSession, WholeOf
<1>8. ASSUME NEW d \in Plan
      PROVE  (InHand(d) /\ Standing(d) /\ Peaceful(d))'
  <2>1. CASE d = c
    BY <1>1, <1>3, <1>5, <2>1 DEF InHand, Standing, Peaceful
  <2>2. CASE d # c
    BY <1>1, <1>3, <2>2 DEF InHand, Standing, Peaceful
  <2>3. QED
    BY <2>1, <2>2
<1>9. QED
  BY <1>6, <1>7, <1>8

\* The controller takes the new process in hand, and goes on to the next command.
LEMMA RegisterKeeps ==
  ASSUME IInv, Register
  PROVE  IInv'
<1> USE LaneAssumption DEF IInv
<1> PICK c : c = cursor
  OBVIOUS
<1>1. /\ pc = "spawned" /\ pc' = "registered" /\ c \in Plan /\ cursor' = c + 1
      /\ active[c] = "spawned" /\ record.status = "RUNNING"
      /\ active'[c] = "running" /\ \A d \in Plan \ {c} : active'[d] = active[d]
      /\ active' \in [Plan -> {"none", "spawned", "running"} \cup Outcomes]
      /\ UNCHANGED <<files, lane, record, orphans, holder, starts, killed, window>>
  BY DEF Register, InSession, TypeOK
<1>2. TypeOK'
  BY <1>1 DEF TypeOK, Plan
<1>3. Resting' /\ InSession' /\ WholeOf(lane)' /\ WholeOf(record)'
  BY <1>1 DEF Resting, InSession, WholeOf
<1>4. ASSUME NEW d \in Plan
      PROVE  (InHand(d) /\ Standing(d) /\ Peaceful(d))'
  <2>1. CASE d = c
    <3>1. c < c + 1
      BY <1>1 DEF Plan
    <3>2. QED
      BY <1>1, <2>1, <3>1 DEF InHand, Standing, Peaceful
  <2>2. CASE d # c
    <3>1. d < c + 1 <=> d < c
      BY <1>1, <2>2 DEF Plan
    <3>2. QED
      BY <1>1, <2>2, <3>1 DEF InHand, Standing, Peaceful
  <2>3. QED
    BY <2>1, <2>2
<1>5. QED
  BY <1>2, <1>3, <1>4

\* lane.json gets the record.
LEMMA WriteRecordKeeps ==
  ASSUME IInv, WriteRecord
  PROVE  IInv'
<1> USE DEF IInv
<1>1. /\ pc = "registered" /\ pc' = "loop" /\ lane' = record /\ record.status = "RUNNING"
      /\ record.allocation = holder
      /\ UNCHANGED <<files, record, cursor, active, orphans, holder, starts, killed>>
      /\ window' \in {"closed", "open", "caught"}
  BY DEF WriteRecord, InSession, Written
<1>2. TypeOK'
  BY <1>1 DEF TypeOK
<1>3. Resting' /\ InSession' /\ WholeOf(lane)' /\ WholeOf(record)'
  BY <1>1 DEF Resting, InSession, WholeOf
<1>4. ASSUME NEW c \in Plan
      PROVE  (InHand(c) /\ Standing(c) /\ Peaceful(c))'
  BY <1>1 DEF InHand, Standing, Peaceful
<1>5. QED
  BY <1>2, <1>3, <1>4

\* The loop is left with nothing in hand, and COMPLETE only past the last command.
LEMMA DrainedKeeps ==
  ASSUME IInv, Drained
  PROVE  IInv'
<1> USE LaneAssumption DEF IInv
<1>1. /\ pc = "loop" /\ pc' = "finish" /\ Known = {} /\ record \in Records
      /\ record.allocation = holder /\ record.job = holder /\ holder \in 1 .. MaxHolder
      /\ record.status \in {"RUNNING", "PENDING", "FAILED"} /\ cursor \in 1 .. NCommands + 1
      /\ UNCHANGED <<files, lane, cursor, active, orphans, holder, starts, killed, window>>
  BY DEF Drained, TypeOK, InSession
<1>2. \A c \in Plan : active[c] = "none"
  BY <1>1 DEF Known, InHand, TypeOK
<1>3. CASE record.status # "RUNNING" /\ UNCHANGED record
  <2>1. TypeOK'
    BY <1>1, <1>3 DEF TypeOK
  <2>2. Resting' /\ InSession' /\ WholeOf(lane)' /\ WholeOf(record)'
    BY <1>1, <1>3 DEF Resting, InSession, WholeOf
  <2>3. ASSUME NEW c \in Plan
        PROVE  (InHand(c) /\ Standing(c) /\ Peaceful(c))'
    BY <1>1, <1>2, <1>3 DEF InHand, Standing, Peaceful
  <2>4. QED
    BY <2>1, <2>2, <2>3
<1>4. CASE /\ record.status = "RUNNING" /\ cursor \notin Plan
           /\ record' = [record EXCEPT !.status = "COMPLETE"]
  <2>1. /\ record'.allocation = holder /\ record'.job = holder /\ record'.status = "COMPLETE"
        /\ record'.commands = record.commands /\ record' \in Records
    BY <1>1, <1>4, RecordShape
  <2>2. \A c \in Plan : c < cursor
    BY <1>1, <1>4 DEF Plan
  <2>3. \A c \in Plan : record.commands[c].status = "COMPLETE"
    BY <1>2, <1>4, <2>2 DEF Peaceful
  <2>4. TypeOK'
    BY <1>1, <2>1 DEF TypeOK
  <2>5. Resting' /\ InSession' /\ WholeOf(lane)' /\ WholeOf(record)'
    BY <1>1, <2>1, <2>3 DEF Resting, InSession, WholeOf
  <2>6. ASSUME NEW c \in Plan
        PROVE  (InHand(c) /\ Standing(c) /\ Peaceful(c))'
    BY <1>1, <1>2, <2>1, <2>3 DEF InHand, Standing, Peaceful
  <2>7. QED
    BY <2>4, <2>5, <2>6
<1>5. QED
  BY <1>3, <1>4 DEF Drained

-----------------------------------------------------------------------------
(* Ending. *)

\* An exception leaves the loop; a process that is not in hand yet is lost.
LEMMA RaiseKeeps ==
  ASSUME IInv, Raise
  PROVE  IInv'
<1> USE LaneAssumption DEF IInv
<1> DEFINE lost == {c \in Plan : active[c] = "spawned"}
<1>1. /\ pc \in {"admit", "loop", "spawned", "registered"} /\ pc' = "reap"
      /\ record.allocation = holder /\ record \in Records
      /\ orphans' = orphans \cup lost
      /\ active' = [c \in Plan |-> IF c \in lost THEN "none" ELSE active[c]]
      /\ UNCHANGED <<files, lane, cursor, holder, starts, killed, window>>
  BY DEF Raise, TypeOK, InSession
<1>2. PICK s \in {"RUNNING", "FAILED"} :
        record' = [record EXCEPT !.status = "FAILED", !.commands = [c \in Plan |->
                     IF c \in lost THEN [record.commands[c] EXCEPT !.status = s]
                     ELSE record.commands[c]]]
  BY DEF Raise
<1>3. \A c \in Plan : record.commands[c] \in Entries
                      /\ [record.commands[c] EXCEPT !.status = s] \in Entries
  BY <1>1, RecordShape DEF Entries, Statuses
<1>4. /\ record'.allocation = holder /\ record'.job = record.job /\ record'.status = "FAILED"
      /\ record' \in Records
      /\ \A c \in Plan : IF c \in lost THEN record'.commands[c].status = s
                         ELSE record'.commands[c] = record.commands[c]
  <2> DEFINE e == [c \in Plan |->
                     IF c \in lost THEN [record.commands[c] EXCEPT !.status = s]
                     ELSE record.commands[c]]
  <2>1. e \in [Plan -> Entries]
    BY <1>3
  <2>2. \A c \in Plan : IF c \in lost THEN e[c].status = s ELSE e[c] = record.commands[c]
    BY <1>3 DEF Entries
  <2>3. record' = [record EXCEPT !.status = "FAILED", !.commands = e]
    BY <1>2
  <2> HIDE DEF e, lost
  <2>4. QED
    BY <1>1, <2>1, <2>2, <2>3, RecordShape
<1>5. \A c \in lost : lane.commands[c].status # "COMPLETE"
  BY <1>1 DEF InHand, Standing
<1>6. TypeOK'
  <2>1. active' \in [Plan -> {"none", "spawned", "running"} \cup Outcomes]
    BY <1>1 DEF TypeOK
  <2>2. QED
    BY <1>1, <1>4, <2>1 DEF TypeOK
<1>7. Resting' /\ InSession' /\ WholeOf(lane)' /\ WholeOf(record)'
  BY <1>1, <1>4 DEF Resting, InSession, WholeOf
<1>8. ASSUME NEW c \in Plan
      PROVE  (InHand(c) /\ Standing(c) /\ Peaceful(c))'
  <2>1. CASE c \in lost
    BY <1>1, <1>4, <1>5, <2>1 DEF InHand, Standing, Peaceful
  <2>2. CASE c \notin lost
    BY <1>1, <1>4, <2>2 DEF InHand, Standing, Peaceful
  <2>3. QED
    BY <2>1, <2>2
<1>9. QED
  BY <1>6, <1>7, <1>8

\* What a process in hand has on record was not complete, and is failed now.
LEMMA ReapKeeps ==
  ASSUME IInv, NEW c \in Plan, Reap(c)
  PROVE  IInv'
<1> USE LaneAssumption DEF IInv
<1>1. /\ pc = "reap" /\ record.status = "FAILED" /\ active[c] # "none"
      /\ record.allocation = holder /\ record \in Records
      /\ orphans' \in SUBSET Plan
      /\ UNCHANGED <<files, lane, pc, cursor, holder, starts, killed, window>>
  BY DEF Reap, TypeOK, InSession
<1>2. /\ active'[c] = "none" /\ \A d \in Plan \ {c} : active'[d] = active[d]
      /\ active' \in [Plan -> {"none", "spawned", "running"} \cup Outcomes]
  BY DEF Reap, TypeOK
<1>3. /\ record'.allocation = holder /\ record'.job = record.job /\ record'.status = "FAILED"
      /\ record' \in Records /\ record'.commands[c].status = "FAILED"
      /\ \A d \in Plan \ {c} : record'.commands[d] = record.commands[d]
  <2>1. record.commands \in [Plan -> Entries] /\ record.commands[c] \in Entries
    BY <1>1, RecordShape
  <2>2. [record.commands EXCEPT ![c].status = "FAILED"] \in [Plan -> Entries]
    BY <2>1 DEF Entries, Statuses
  <2>3. record' = [record EXCEPT !.commands = [record.commands EXCEPT ![c].status = "FAILED"]]
    BY <1>1, RecordShape DEF Reap
  <2>4. QED
    BY <1>1, <2>1, <2>2, <2>3, RecordShape DEF Entries
<1>4. lane.commands[c].status # "COMPLETE"
  BY <1>1 DEF InHand, Standing
<1>5. TypeOK'
  BY <1>1, <1>2, <1>3 DEF TypeOK
<1>6. Resting' /\ InSession' /\ WholeOf(lane)' /\ WholeOf(record)'
  BY <1>1, <1>3 DEF Resting, InSession, WholeOf
<1>7. ASSUME NEW d \in Plan
      PROVE  (InHand(d) /\ Standing(d) /\ Peaceful(d))'
  <2>1. CASE d = c
    BY <1>1, <1>2, <1>3, <1>4, <2>1 DEF InHand, Standing, Peaceful
  <2>2. CASE d # c
    BY <1>1, <1>2, <1>3, <2>2 DEF InHand, Standing, Peaceful
  <2>3. QED
    BY <2>1, <2>2
<1>8. QED
  BY <1>5, <1>6, <1>7

\* Nothing is in hand any more.
LEMMA ReapedKeeps ==
  ASSUME IInv, Reaped
  PROVE  IInv'
<1> USE LaneAssumption DEF IInv
<1>1. /\ pc = "reap" /\ pc' = "finish" /\ record.status = "FAILED"
      /\ \A c \in Plan : active[c] = "none"
      /\ UNCHANGED <<files, lane, record, cursor, active, orphans, holder, starts, killed, window>>
  BY DEF Reaped, InSession
<1>2. TypeOK'
  BY <1>1 DEF TypeOK
<1>3. Resting' /\ InSession' /\ WholeOf(lane)' /\ WholeOf(record)'
  BY <1>1 DEF Resting, InSession, WholeOf
<1>4. ASSUME NEW c \in Plan
      PROVE  (InHand(c) /\ Standing(c) /\ Peaceful(c))'
  BY <1>1 DEF InHand, Standing, Peaceful
<1>5. QED
  BY <1>2, <1>3, <1>4

\* The last write of the record.
LEMMA FinishKeeps ==
  ASSUME IInv, Finish
  PROVE  IInv'
<1> USE FreshRecords DEF IInv
<1>1. /\ pc = "finish" /\ pc' = "idle" /\ lane' = record /\ record' = NoLane
      /\ record.allocation = holder
      /\ UNCHANGED <<files, cursor, active, orphans, holder, starts, killed>>
      /\ window' \in {"closed", "open", "caught"}
  BY DEF Finish, InSession, Written
<1>2. \A c \in Plan : active[c] = "none"
  BY <1>1 DEF InHand
<1>3. TypeOK'
  BY <1>1 DEF TypeOK
<1>4. starts # 0
  BY <1>1 DEF Resting
<1>5. Resting' /\ InSession' /\ WholeOf(lane)' /\ WholeOf(record)'
  BY <1>1, <1>2, <1>4 DEF Resting, InSession, WholeOf
<1>6. ASSUME NEW c \in Plan
      PROVE  (InHand(c) /\ Standing(c) /\ Peaceful(c))'
  BY <1>1, <1>2 DEF InHand, Standing, Peaceful
<1>7. QED
  BY <1>3, <1>5, <1>6

-----------------------------------------------------------------------------
(* The world around the controller. *)

\* A controller that is gone without its last write leaves lane.json as it was.
LEMMA GoneKeeps ==
  ASSUME IInv, Kill \/ RaiseAgain
  PROVE  IInv'
<1> USE LaneAssumption, FreshRecords DEF IInv
<1>1. /\ pc # "idle" /\ pc' = "idle" /\ record' = NoLane /\ killed' \in BOOLEAN
      /\ window' \in {"closed", "open", "caught"}
      /\ \A c \in Plan : active'[c] = "none"
      /\ active' \in [Plan -> {"none", "spawned", "running"} \cup Outcomes]
      /\ orphans' \in SUBSET Plan
      /\ UNCHANGED <<files, lane, cursor, holder, starts>>
  BY DEF Kill, RaiseAgain, Gone, Caught, TypeOK, Alive
<1>2. TypeOK'
  BY <1>1 DEF TypeOK
<1>3. Resting' /\ InSession' /\ WholeOf(lane)' /\ WholeOf(record)'
  BY <1>1 DEF Resting, InSession, WholeOf
<1>4. ASSUME NEW c \in Plan
      PROVE  (InHand(c) /\ Standing(c) /\ Peaceful(c))'
  BY <1>1 DEF InHand, Standing, Peaceful
<1>5. QED
  BY <1>2, <1>3, <1>4

\* A process in hand ends; it stays in hand.
LEMMA CommandEndsKeeps ==
  ASSUME IInv, NEW c \in Plan, CommandEnds(c)
  PROVE  IInv'
<1> USE DEF IInv
<1>1. PICK o \in Outcomes : active' = [active EXCEPT ![c] = o]
  BY DEF CommandEnds
<1>2. /\ active[c] = "running" /\ active'[c] \notin {"none", "spawned"}
      /\ \A d \in Plan \ {c} : active'[d] = active[d]
      /\ active' \in [Plan -> {"none", "spawned", "running"} \cup Outcomes]
      /\ files' \in SUBSET Paths
      /\ UNCHANGED <<lane, record, pc, cursor, orphans, holder, starts, killed, window>>
  BY <1>1 DEF CommandEnds, Outcomes, TypeOK
<1>3. TypeOK'
  BY <1>2 DEF TypeOK
<1>4. Resting' /\ InSession' /\ WholeOf(lane)' /\ WholeOf(record)'
  BY <1>2 DEF Resting, InSession, WholeOf
<1>5. ASSUME NEW d \in Plan
      PROVE  (InHand(d) /\ Standing(d) /\ Peaceful(d))'
  <2>1. CASE d = c
    BY <1>2, <2>1 DEF InHand, Standing, Peaceful
  <2>2. CASE d # c
    BY <1>2, <2>2 DEF InHand, Standing, Peaceful
  <2>3. QED
    BY <2>1, <2>2
<1>6. QED
  BY <1>3, <1>4, <1>5

\* What happens to paths and to processes nobody has in hand.
LEMMA OutsideKeeps ==
  ASSUME IInv, UNCHANGED <<lane, record, pc, cursor, active, starts, killed>>,
         window' \in {"closed", "open", "caught"}, files' \subseteq Paths, orphans' \subseteq Plan,
         (pc = "idle" /\ holder' \in 1 .. MaxHolder) \/ holder' = holder
  PROVE  IInv'
<1> USE FreshRecords DEF IInv
<1>1. TypeOK'
  BY DEF TypeOK
<1>2. Resting' /\ InSession' /\ WholeOf(lane)' /\ WholeOf(record)'
  BY DEF Resting, InSession, WholeOf
<1>3. ASSUME NEW c \in Plan
      PROVE  (InHand(c) /\ Standing(c) /\ Peaceful(c))'
  <2>1. CASE pc = "idle"
    BY <2>1 DEF InHand, Standing, Peaceful, Resting
  <2>2. CASE pc # "idle"
    BY <2>2 DEF InHand, Standing, Peaceful
  <2>3. QED
    BY <2>1, <2>2
<1>4. QED
  BY <1>1, <1>2, <1>3

\* An orphan ends, a path is staged, another allocation begins.
LEMMA WorldKeeps ==
  ASSUME IInv,
         (\E c \in Plan : OrphanEnds(c)) \/ (\E p \in Paths : Supply(p)) \/ NextHolder
  PROVE  IInv'
<1> USE LaneAssumption
<1>1. CASE \E c \in Plan : OrphanEnds(c)
  <2>1. /\ UNCHANGED <<lane, record, pc, cursor, active, starts, killed>> /\ holder' = holder
        /\ files' \subseteq Paths /\ orphans' \subseteq Plan
        /\ window' \in {"closed", "open", "caught"}
    BY <1>1 DEF OrphanEnds, TypeOK, IInv
  <2>2. QED
    BY <2>1, OutsideKeeps
<1>2. CASE \E p \in Paths : Supply(p)
  <2>1. /\ UNCHANGED <<lane, record, pc, cursor, active, starts, killed>> /\ holder' = holder
        /\ files' \subseteq Paths /\ orphans' \subseteq Plan
        /\ window' \in {"closed", "open", "caught"}
    BY <1>2 DEF Supply, TypeOK, IInv
  <2>2. QED
    BY <2>1, OutsideKeeps
<1>3. CASE NextHolder
  <2>1. /\ UNCHANGED <<lane, record, pc, cursor, active, starts, killed>> /\ pc = "idle"
        /\ files' \subseteq Paths /\ orphans' \subseteq Plan
        /\ window' \in {"closed", "open", "caught"} /\ holder' \in 1 .. MaxHolder
    BY <1>3 DEF NextHolder, TypeOK, IInv
  <2>2. QED
    BY <2>1, OutsideKeeps
<1>4. QED
  BY <1>1, <1>2, <1>3

\* Every step keeps the invariant.
LEMMA IInvKept == IInv /\ [Next]_vars => IInv'
<1> SUFFICES ASSUME IInv, [Next]_vars
             PROVE  IInv'
  OBVIOUS
<1>1. CASE Controller
  BY <1>1, AdmitKeeps, PassOverKeeps, NotReadyKeeps, SpawnKeeps, SpawnFailsKeeps, RegisterKeeps,
     WriteRecordKeeps, DrainedKeeps, ReapKeeps, ReapedKeeps, FinishKeeps, PollKeeps DEF Controller
<1>2. CASE UNCHANGED vars
  <2>1. TypeOK'
    BY <1>2 DEF IInv, TypeOK, vars
  <2>2. UNCHANGED <<lane, record, pc, cursor, active, starts, killed, holder>>
        /\ files' \subseteq Paths /\ orphans' \subseteq Plan
        /\ window' \in {"closed", "open", "caught"}
    BY <1>2, <2>1 DEF vars, TypeOK
  <2>3. QED
    BY <2>2, OutsideKeeps
<1>3. QED
  BY <1>1, <1>2, StartKeeps, ResumeKeeps, RaiseKeeps, GoneKeeps, CommandEndsKeeps, WorldKeeps
  DEF Next

-----------------------------------------------------------------------------
(* The theorems about the lane. *)

\* The whole invariant, and with it type correctness, holds throughout.
THEOREM LaneIsSound == Spec => []IInv
BY InitHolds, IInvKept, PTL DEF Spec

\* A COMPLETE lane.json is one comparison: every command complete, and all of them
\* run in the allocation it names, over any number of resumes, kills and exceptions.
THEOREM CompleteLaneIsOneJob == Spec => []CompleteIsOneJob
<1>1. IInv => CompleteIsOneJob
  <2> SUFFICES ASSUME IInv, lane.status = "COMPLETE"
               PROVE  /\ lane.job # 0
                      /\ \A c \in Plan :
                           lane.commands[c] = [status |-> "COMPLETE", holder |-> lane.job]
    BY DEF CompleteIsOneJob
  <2>1. \A c \in Plan : lane.commands[c] \in Entries
    BY RecordShape DEF IInv, TypeOK
  <2>2. \A c \in Plan : lane.commands[c].status = "COMPLETE" /\ lane.commands[c].holder = lane.job
    BY DEF IInv, WholeOf, Standing
  <2>3. QED
    BY <2>1, <2>2 DEF IInv, WholeOf, Entries
<1>2. QED
  BY <1>1, LaneIsSound, PTL

\* A lane that ends PENDING has terminated none of its commands.
THEOREM PeersAreLeftToFinish == Spec => []PeersFinish
<1>1. IInv => PeersFinish
  <2> SUFFICES ASSUME IInv, pc = "finish", record.status = "PENDING", NEW c \in Plan
               PROVE  record.commands[c].status \in {"NOT_RUN", "COMPLETE", "PENDING"}
    BY DEF PeersFinish
  <2>1. record.commands[c].status \in Statuses
    BY RecordShape DEF IInv, TypeOK, Entries
  <2>2. QED
    BY <2>1 DEF IInv, Peaceful, InHand, Statuses
<1>2. QED
  BY <1>1, LaneIsSound, PTL

\* A complete entry on disk is also the record's, so that writing the record keeps
\* it and the loop passes its command over.
LEMMA EntryStands ==
  ASSUME IInv, Next, NEW c \in Plan, lane.commands[c].status = "COMPLETE"
  PROVE  lane'.commands[c] = lane.commands[c] /\ (active[c] = "none" => active'[c] = "none")
<1> USE DEF IInv
<1>1. pc # "idle" => record.commands[c] = lane.commands[c]
  BY DEF Standing
<1>2. CASE WriteRecord \/ Finish
  <2>1. pc # "idle" /\ lane' = record /\ active' = active
    BY <1>2 DEF WriteRecord, Finish
  <2>2. QED
    BY <1>1, <2>1
<1>3. CASE Spawn
  <2>1. /\ pc = "loop" /\ lane' = lane /\ record.commands[cursor].status # "COMPLETE"
        /\ active' = [active EXCEPT ![cursor] = "spawned"]
    BY <1>3 DEF Spawn, Admitting
  <2>2. cursor # c
    BY <1>1, <2>1
  <2>3. QED
    BY <2>1, <2>2 DEF TypeOK
<1>4. CASE Register
  <2>1. /\ lane' = lane /\ active[cursor] = "spawned"
        /\ active' = [active EXCEPT ![cursor] = "running"]
    BY <1>4 DEF Register, InSession
  <2>2. QED
    BY <2>1 DEF TypeOK
<1>5. CASE \E d \in Plan : Poll(d)
  <2>1. PICK d \in Plan : Poll(d)
    BY <1>5
  <2>2. lane' = lane /\ active' = [active EXCEPT ![d] = "none"]
    BY <2>1 DEF Poll
  <2>3. QED
    BY <2>2 DEF TypeOK
<1>6. CASE \E d \in Plan : CommandEnds(d)
  <2>1. PICK d \in Plan : CommandEnds(d)
    BY <1>6
  <2>2. PICK o \in Outcomes : active' = [active EXCEPT ![d] = o]
    BY <2>1 DEF CommandEnds
  <2>3. lane' = lane /\ active[d] = "running"
    BY <2>1 DEF CommandEnds
  <2>4. QED
    BY <2>2, <2>3 DEF TypeOK
<1>7. CASE Kill \/ RaiseAgain \/ Raise \/ \E d \in Plan : Reap(d)
  <2>1. lane' = lane /\ (active[c] = "none" => active'[c] = "none")
    BY <1>7 DEF Kill, RaiseAgain, Gone, Raise, Reap, TypeOK
  <2>2. QED
    BY <2>1
<1>8. CASE \/ Start \/ Resume \/ Admit \/ PassOver \/ NotReady \/ SpawnFails \/ Drained
           \/ Reaped \/ NextHolder \/ (\E d \in Plan : OrphanEnds(d)) \/ (\E p \in Paths : Supply(p))
  <2>1. lane' = lane /\ active' = active
    BY <1>8 DEF Start, Resume, Admit, PassOver, NotReady, SpawnFails, Drained, Reaped, NextHolder,
       OrphanEnds, Supply
  <2>2. QED
    BY <2>1
<1>9. QED
  BY <1>2, <1>3, <1>4, <1>5, <1>6, <1>7, <1>8 DEF Next, Controller

\* A complete command's receipt on disk is neither lost nor redone.
THEOREM CompleteReceiptsStand == Spec => ReceiptsStand
<1> DEFINE Stands ==
      \A c \in Plan : lane.commands[c].status = "COMPLETE" =>
        /\ lane'.commands[c] = lane.commands[c]
        /\ active[c] = "none" => active'[c] = "none"
<1>1. IInv /\ [Next]_vars => [Stands]_vars
  BY EntryStands
<1>2. Spec => [][Stands]_vars
  <2> HIDE DEF Stands
  <2>1. QED
    BY <1>1, LaneIsSound, PTL DEF Spec
<1>3. QED
  BY <1>2 DEF ReceiptsStand

-----------------------------------------------------------------------------
(* What is alive without a controller is on record. *)

\* Starting: a resume finds an entry begun for nobody, and so nothing alive.
LEMMA StartRecords ==
  ASSUME IInv, Recorded, Start \/ Resume
  PROVE  Recorded'
<1> USE DEF IInv, Recorded
<1>1. /\ pc = "idle" /\ pc' = "admit" /\ UNCHANGED <<lane, active, orphans, window>>
      /\ starts' = starts + 1 /\ starts \in Nat
      /\ starts = 0 \/ lane.status = "PENDING"
  BY LaneAssumption DEF Start, Resume, TypeOK
<1>2. window # "open"
  BY <1>1 DEF OpenAt
<1>3. window # "caught" => orphans = {}
  <2>1. CASE starts = 0
    BY <2>1
  <2>2. CASE lane.status = "PENDING" /\ window = "closed"
    BY <2>2 DEF TypeOK
  <2>3. QED
    BY <1>1, <1>2, <2>1, <2>2 DEF TypeOK
<1>4. QED
  BY <1>1, <1>2, <1>3

\* The steps of a controller at work.
LEMMA WorkRecords ==
  ASSUME IInv, Recorded,
         \/ Admit \/ PassOver \/ NotReady \/ SpawnFails \/ Drained \/ Spawn \/ Register
         \/ \E c \in Plan : Poll(c)
  PROVE  Recorded'
<1> USE DEF IInv, Recorded
<1>1. CASE Admit \/ PassOver \/ NotReady \/ SpawnFails \/ Drained
  <2>1. /\ UNCHANGED <<lane, active, orphans, window, starts>>
        /\ pc \in {"admit", "loop"} /\ pc' \in {"admit", "loop", "reap", "finish"}
    BY <1>1 DEF Admit, PassOver, NotReady, SpawnFails, Drained, Admitting
  <2>2. QED
    BY <2>1 DEF OpenAt
<1>2. CASE Spawn
  <2>1. /\ UNCHANGED <<lane, orphans, starts>> /\ window' # "closed"
        /\ window' = "caught" <=> window = "caught"
        /\ pc = "loop" /\ pc' = "spawned"
    BY <1>2 DEF Spawn, Admitting, Unwritten
  <2>2. QED
    BY <2>1 DEF OpenAt
<1>3. CASE Register
  <2>1. /\ UNCHANGED <<lane, orphans, window, starts>>
        /\ pc = "spawned" /\ pc' = "registered" /\ active[cursor] # "none" /\ cursor \in Plan
        /\ active' = [active EXCEPT ![cursor] = "running"]
    BY <1>3 DEF Register, InSession
  <2>2. \A c \in Plan : active'[c] # "none" => active[c] # "none"
    BY <2>1 DEF TypeOK
  <2>3. QED
    BY <2>1, <2>2 DEF OpenAt
<1>4. CASE \E c \in Plan : Poll(c)
  <2>1. PICK c \in Plan : Poll(c)
    BY <1>4
  <2>2. /\ UNCHANGED <<lane, orphans, window, starts, pc>> /\ pc = "loop"
        /\ active' = [active EXCEPT ![c] = "none"]
    BY <2>1 DEF Poll
  <2>3. \A d \in Plan : active'[d] # "none" => active[d] # "none"
    BY <2>2 DEF TypeOK
  <2>4. QED
    BY <2>2, <2>3
<1>5. QED
  BY <1>1, <1>2, <1>3, <1>4

\* A write of the record has every process in hand as RUNNING, and what the
\* cleanup has lost as begun.
LEMMA WriteRecords ==
  ASSUME IInv, Recorded, WriteRecord \/ Finish
  PROVE  Recorded'
<1> USE DEF IInv, Recorded
<1>1. CASE WriteRecord
  <2>1. /\ pc = "registered" /\ pc' = "loop" /\ lane' = record /\ record.status = "RUNNING"
        /\ UNCHANGED <<record, active, orphans, starts>>
        /\ window' # "open" /\ (window' = "caught" <=> window = "caught")
    BY <1>1 DEF WriteRecord, InSession, Written
  <2>2. \A c \in Plan : active[c] # "none" => record.commands[c].status = "RUNNING"
    BY DEF InHand
  <2>3. QED
    BY <2>1, <2>2 DEF Begun
<1>2. CASE Finish
  <2>1. /\ pc = "finish" /\ pc' = "idle" /\ lane' = record
        /\ UNCHANGED <<active, orphans, starts>>
        /\ window' # "open" /\ (window' = "caught" <=> window = "caught")
    BY <1>2 DEF Finish, Written
  <2>2. \A c \in Plan : active[c] = "none"
    BY <2>1 DEF InHand
  <2>3. record.status = "PENDING" => \A c \in Plan : record.commands[c].status \notin Begun
    BY <2>2 DEF Peaceful, Begun
  <2>4. QED
    BY <2>1, <2>2, <2>3
<1>3. QED
  BY <1>1, <1>2

\* An exception, the cleanup, and a controller that does not come to its last write.
LEMMA EndRecords ==
  ASSUME IInv, Recorded, Raise \/ Reaped \/ (\E c \in Plan : Reap(c)) \/ Kill \/ RaiseAgain
  PROVE  Recorded'
<1> USE DEF IInv, Recorded
<1>1. CASE Raise
  <2> DEFINE lost == {c \in Plan : active[c] = "spawned"}
  <2>1. /\ pc \in {"admit", "loop", "spawned", "registered"} /\ pc' = "reap"
        /\ orphans' = orphans \cup lost
        /\ active' = [c \in Plan |-> IF c \in lost THEN "none" ELSE active[c]]
        /\ UNCHANGED <<lane, starts, window>>
    BY <1>1 DEF Raise
  <2>2. PICK s \in {"RUNNING", "FAILED"} :
          record' = [record EXCEPT !.status = "FAILED", !.commands = [c \in Plan |->
                       IF c \in lost THEN [record.commands[c] EXCEPT !.status = s]
                       ELSE record.commands[c]]]
    BY <1>1 DEF Raise
  <2>3. \A c \in lost : record'.commands[c].status \in Begun
    <3>1. \A c \in Plan : record.commands[c] \in Entries
      BY RecordShape DEF TypeOK
    <3>2. record \in Records
      BY DEF TypeOK
    <3>3. record'.commands = [c \in Plan |->
                       IF c \in lost THEN [record.commands[c] EXCEPT !.status = s]
                       ELSE record.commands[c]]
      BY <2>2, <3>2, RecordShape
    <3>4. QED
      BY <3>1, <3>3 DEF Begun, Entries
  <2>4. starts # 0
    BY <2>1 DEF Resting
  <2>5. \A c \in lost : active[c] # "none" /\ active'[c] = "none"
    BY <2>1
  <2>6. \A c \in Plan : active'[c] # "none" => active[c] # "none"
    BY <2>1
  <2> HIDE DEF lost
  <2>7. QED
    BY <2>1, <2>3, <2>4, <2>5, <2>6 DEF OpenAt
<1>2. CASE Reaped
  <2>1. /\ pc = "reap" /\ pc' = "finish"
        /\ UNCHANGED <<lane, record, active, orphans, starts, window>>
    BY <1>2 DEF Reaped
  <2>2. QED
    BY <2>1 DEF OpenAt
<1>3. CASE \E c \in Plan : Reap(c)
  <2>1. PICK c \in Plan : Reap(c)
    BY <1>3
  <2>2. /\ pc = "reap" /\ active[c] # "none" /\ UNCHANGED <<pc, lane, starts, window>>
        /\ orphans' \in {orphans, orphans \cup {c}}
        /\ active' = [active EXCEPT ![c] = "none"]
        /\ record' = [record EXCEPT !.commands[c].status = "FAILED"]
    BY <2>1 DEF Reap
  <2>3. record'.commands[c].status = "FAILED"
        /\ \A d \in Plan \ {c} : record'.commands[d] = record.commands[d]
    <3>1. record.commands \in [Plan -> Entries] /\ record.commands[c] \in Entries /\ record \in Records
      BY RecordShape DEF TypeOK
    <3>2. record'.commands = [record.commands EXCEPT ![c].status = "FAILED"]
      BY <2>2, <3>1, RecordShape
    <3>3. QED
      BY <3>1, <3>2 DEF Entries
  <2>4. active'[c] = "none" /\ \A d \in Plan \ {c} : active'[d] = active[d]
    BY <2>2 DEF TypeOK
  <2>5. starts # 0
    BY <2>2 DEF Resting
  <2>6. orphans \subseteq Plan
    BY DEF TypeOK
  <2>7. QED
    BY <2>2, <2>3, <2>4, <2>5, <2>6 DEF Begun
<1>4. CASE Kill \/ RaiseAgain
  <2>1. /\ pc # "idle" /\ pc' = "idle" /\ orphans' = orphans \cup Alive
        /\ UNCHANGED <<lane, starts>> /\ \A c \in Plan : active'[c] = "none"
        /\ window' # "open" /\ (window' = "closed" => window = "closed")
    BY <1>4 DEF Kill, RaiseAgain, Gone, Caught
  <2>2. starts # 0
    BY <2>1 DEF Resting
  <2>3. \A c \in Alive : c \in Plan /\ active[c] # "none"
    BY DEF Alive
  <2>4. QED
    BY <2>1, <2>2, <2>3
<1>5. QED
  BY <1>1, <1>2, <1>3, <1>4

\* A process ends, a path is staged, another allocation begins.
LEMMA WorldRecords ==
  ASSUME IInv, Recorded,
         \/ \E c \in Plan : CommandEnds(c) \/ OrphanEnds(c)
         \/ \E p \in Paths : Supply(p)
         \/ NextHolder \/ UNCHANGED vars
  PROVE  Recorded'
<1> USE DEF IInv, Recorded
<1>1. CASE \E c \in Plan : CommandEnds(c)
  <2>1. PICK c \in Plan : CommandEnds(c)
    BY <1>1
  <2>2. PICK o \in Outcomes : active' = [active EXCEPT ![c] = o]
    BY <2>1 DEF CommandEnds
  <2>3. active[c] = "running" /\ UNCHANGED <<pc, lane, record, orphans, starts, window>>
    BY <2>1 DEF CommandEnds
  <2>4. \A d \in Plan : active'[d] # "none" <=> active[d] # "none"
    BY <2>2, <2>3 DEF TypeOK, Outcomes
  <2>5. orphans \subseteq Plan
    BY DEF TypeOK
  <2>6. QED
    BY <2>3, <2>4, <2>5
<1>2. CASE (\E c \in Plan : OrphanEnds(c)) \/ (\E p \in Paths : Supply(p)) \/ UNCHANGED vars
  <2>1. /\ UNCHANGED <<pc, lane, record, active, starts, window>> /\ orphans' \subseteq orphans
    BY <1>2 DEF OrphanEnds, Supply, vars
  <2>2. QED
    BY <2>1
<1>3. CASE NextHolder
  <2>1. /\ pc = "idle" /\ UNCHANGED <<pc, lane, active>> /\ orphans' = {} /\ window' = "closed"
    BY <1>3 DEF NextHolder
  <2>2. QED
    BY <2>1 DEF Resting
<1>4. QED
  BY <1>1, <1>2, <1>3

\* Both invariants hold throughout.
LEMMA LaneIsRecorded == Spec => [](IInv /\ Recorded)
<1>1. Init => Recorded
  <2> SUFFICES ASSUME Init
               PROVE  Recorded
    OBVIOUS
  <2>1. lane.status = "NONE" /\ orphans = {} /\ \A c \in Plan : active[c] = "none"
    BY FreshRecords DEF Init
  <2>2. QED
    BY <2>1 DEF Init, Recorded
<1>2. IInv /\ Recorded /\ [Next]_vars => Recorded'
  BY StartRecords, WorkRecords, WriteRecords, EndRecords, WorldRecords DEF Next, Controller
<1>3. QED
  BY <1>1, <1>2, InitHolds, IInvKept, PTL DEF Spec

\* A command never has two live processes, over any number of kills, signals and
\* resumes, unless a controller of the allocation ended between a launch and the
\* write that records it.
THEOREM NoSecondProcess == Spec => []OneProcessPerCommand
<1>1. IInv /\ Recorded => OneProcessPerCommand
  <2> SUFFICES ASSUME IInv, Recorded, window # "caught"
               PROVE  orphans \cap Alive = {}
    BY DEF OneProcessPerCommand
  <2>1. CASE pc = "idle"
    BY <2>1 DEF IInv, Resting, Alive
  <2>2. CASE pc \in {"admit", "loop", "spawned", "registered"}
    BY <2>2 DEF Recorded
  <2>3. CASE pc \in {"reap", "finish"}
    BY <2>3 DEF Recorded, Alive
  <2>4. QED
    BY <2>1, <2>2, <2>3 DEF IInv, TypeOK
<1>2. QED
  BY <1>1, LaneIsRecorded, PTL
=============================================================================
