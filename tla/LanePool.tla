------------------------------ MODULE LanePool ------------------------------
(***************************************************************************)
(* kit/lane_pool.py: the controller that runs one lane's commands on one   *)
(* allocated GPU, a few at a time, and can be resumed in the same          *)
(* allocation after it came to commands whose inputs are not there yet.    *)
(*                                                                         *)
(* The controller keeps its record in memory and writes it to lane.json    *)
(* after every launch and at its end.  Commands are processes of their own *)
(* sessions: they outlive a controller that is killed outright, but not    *)
(* the allocation.                                                         *)
(***************************************************************************)
EXTENDS Integers, FiniteSets

CONSTANTS
  NCommands,   \* how many commands the plan lists
  Paths,       \* the paths some command requires
  Requires,    \* command -> the paths it requires
  Produces,    \* command -> the paths it creates when it succeeds
  K,           \* how many commands may run at once
  MaxStarts,   \* bound: controllers started in one behaviour
  MaxHolder    \* bound: allocations that follow one another

Plan == 1 .. NCommands

ASSUME LaneAssumption ==
  /\ NCommands \in Nat \ {0} /\ K \in Nat \ {0}
  /\ Requires \in [Plan -> SUBSET Paths] /\ Produces \in [Plan -> SUBSET Paths]
  /\ MaxStarts \in Nat /\ MaxHolder \in Nat \ {0}

VARIABLES
  files,    \* the required paths that exist
  lane,     \* lane.json
  record,   \* the controller's record
  pc,       \* where the controller stands
  cursor,   \* next_index: the next command to start
  active,   \* command -> its process as the controller knows it
  orphans,  \* commands with a process that no controller knows
  holder,   \* the allocation; it fixes SLURM_JOB_ID, the nonce and the GPU
  starts,   \* how many controllers have been started
  killed,   \* bookkeeping: has a controller been killed outright
  window    \* bookkeeping: is a launch not written to lane.json yet, and has a
            \* controller of this allocation ended at such a point

vars == <<files, lane, record, pc, cursor, active, orphans, holder, starts, killed, window>>

\* What one command of the record says: how it stands, and (for what ran) under
\* which allocation.
NotRun == [status |-> "NOT_RUN", holder |-> 0]

\* A record.  `job` is the nonce, 0 when the record does not have the field.
Fresh == [status |-> "RUNNING", job |-> 0, allocation |-> 0,
          commands |-> [c \in Plan |-> NotRun]]
NoLane == [Fresh EXCEPT !.status = "NONE"]

Outcomes == {"ok", "pending", "failed"}
Alive == {c \in Plan : active[c] \in {"spawned", "running"}}
Known == {c \in Plan : active[c] \notin {"none", "spawned"}}

Init ==
  /\ files \in {{}, Paths \ UNION {Produces[c] : c \in Plan}}
  /\ lane = NoLane /\ record = NoLane /\ pc = "idle" /\ cursor = 1
  /\ active = [c \in Plan |-> "none"] /\ orphans = {}
  /\ holder = 1 /\ starts = 0 /\ killed = FALSE /\ window = "closed"

\* A launch that lane.json does not show yet, and the write that shows it.
Unwritten == IF window = "caught" THEN "caught" ELSE "open"
Written == IF window = "caught" THEN "caught" ELSE "closed"
\* What it means that a controller ends without that write.
Caught == IF window = "closed" THEN "closed" ELSE "caught"

-----------------------------------------------------------------------------
(* Starting. *)

\* A fresh output directory; one that exists is refused.
Start ==
  /\ pc = "idle" /\ starts < MaxStarts /\ starts' = starts + 1
  /\ starts = 0
  /\ record' = [Fresh EXCEPT !.allocation = holder]
  /\ pc' = "admit" /\ cursor' = 1
  /\ UNCHANGED <<files, lane, active, orphans, holder, killed, window>>

\* Faulty variant: the receipts are not taken over.
Kept_None(old) == [c \in Plan |-> NotRun]

\* Receipts of complete commands are taken over, everything else starts anew.
Kept(old) ==
  [c \in Plan |-> IF old.commands[c].status = "COMPLETE" THEN old.commands[c] ELSE NotRun]

\* Faulty variant: a resume in any allocation.
Resume_Anywhere ==
  /\ pc = "idle" /\ starts < MaxStarts /\ starts' = starts + 1
  /\ lane.status = "PENDING"
  /\ record' = [Fresh EXCEPT !.allocation = holder, !.commands = Kept(lane)]
  /\ pc' = "admit" /\ cursor' = 1
  /\ UNCHANGED <<files, lane, active, orphans, holder, killed, window>>

\* --resume: a PENDING lane.json of this allocation, nonce and GPU.
Resume ==
  /\ pc = "idle" /\ starts < MaxStarts /\ starts' = starts + 1
  /\ lane.status = "PENDING" /\ lane.allocation = holder /\ lane.job = holder
  /\ record' = [Fresh EXCEPT !.allocation = holder, !.commands = Kept(lane)]
  /\ pc' = "admit" /\ cursor' = 1
  /\ UNCHANGED <<files, lane, active, orphans, holder, killed, window>>

\* The inputs of the first command, and a GPU that answers; the record has a
\* nonce only after both.
Admit ==
  /\ pc = "admit"
  /\ \/ /\ Requires[1] \subseteq files
        /\ record' = [record EXCEPT !.job = holder] /\ pc' = "loop"
     \/ record' = [record EXCEPT !.status = "PENDING"] /\ pc' = "finish"
  /\ UNCHANGED <<files, lane, cursor, active, orphans, holder, starts, killed, window>>

-----------------------------------------------------------------------------
(* The loop. *)

StatusOf(outcome) ==
  CASE outcome = "ok" -> "COMPLETE" [] outcome = "pending" -> "PENDING" [] OTHER -> "FAILED"

\* A process that has ended is taken off the active ones.  One that failed or
\* is not ready stops the admission of further commands.
Poll(c) ==
  LET s == StatusOf(active[c]) IN
  /\ pc = "loop" /\ active[c] \in Outcomes
  /\ active' = [active EXCEPT ![c] = "none"]
  /\ record' = [record EXCEPT !.commands[c].status = s,
       !.status = IF s = "COMPLETE" THEN @
                  ELSE IF "FAILED" \in {s, @} THEN "FAILED" ELSE "PENDING"]
  /\ UNCHANGED <<files, lane, pc, cursor, orphans, holder, starts, killed, window>>

Admitting == pc = "loop" /\ record.status = "RUNNING" /\ cursor \in Plan /\ Cardinality(Known) < K

PassOver ==
  /\ Admitting /\ record.commands[cursor].status = "COMPLETE"
  /\ cursor' = cursor + 1
  /\ UNCHANGED <<files, lane, record, pc, active, orphans, holder, starts, killed, window>>

\* Faulty variant: the controller waits for the missing input.
NotReady_Waits ==
  /\ Admitting /\ record.commands[cursor].status # "COMPLETE"
  /\ ~(Requires[cursor] \subseteq files) /\ Known = {}
  /\ UNCHANGED vars

\* An input is missing and no running command could still supply it.
NotReady ==
  /\ Admitting /\ record.commands[cursor].status # "COMPLETE"
  /\ ~(Requires[cursor] \subseteq files) /\ Known = {}
  /\ record' = [record EXCEPT !.status = "PENDING", !.commands[cursor].status = "PENDING"]
  /\ UNCHANGED <<files, lane, pc, cursor, active, orphans, holder, starts, killed, window>>

\* The command's process is there; the controller has no hold of it yet.
Spawn ==
  /\ Admitting /\ record.commands[cursor].status # "COMPLETE"
  /\ Requires[cursor] \subseteq files
  /\ active' = [active EXCEPT ![cursor] = "spawned"]
  /\ record' = [record EXCEPT !.commands[cursor] = [status |-> "RUNNING", holder |-> holder]]
  /\ pc' = "spawned" /\ window' = Unwritten
  /\ UNCHANGED <<files, lane, cursor, orphans, holder, starts, killed>>

\* The program cannot be started: the command failed, and an exception leaves
\* the loop.
SpawnFails ==
  /\ Admitting /\ record.commands[cursor].status # "COMPLETE"
  /\ Requires[cursor] \subseteq files
  /\ record' = [record EXCEPT !.status = "FAILED",
                  !.commands[cursor] = [status |-> "FAILED", holder |-> holder]]
  /\ pc' = "reap"
  /\ UNCHANGED <<files, lane, cursor, active, orphans, holder, starts, killed, window>>

Register ==
  /\ pc = "spawned"
  /\ active' = [active EXCEPT ![cursor] = "running"]
  /\ cursor' = cursor + 1 /\ pc' = "registered"
  /\ UNCHANGED <<files, lane, record, orphans, holder, starts, killed, window>>

\* Faulty variant: the record is written at the end only.
WriteRecord_Later ==
  /\ pc = "registered"
  /\ pc' = "loop" /\ window' = Written
  /\ UNCHANGED <<files, lane, record, cursor, active, orphans, holder, starts, killed>>

WriteRecord ==
  /\ pc = "registered"
  /\ lane' = record /\ pc' = "loop" /\ window' = Written
  /\ UNCHANGED <<files, record, cursor, active, orphans, holder, starts, killed>>

\* Faulty variant: the first end that is not a success leaves the loop.
Drained_Early ==
  /\ pc = "loop" /\ record.status # "RUNNING"
  /\ pc' = "finish"
  /\ record' = [record EXCEPT !.commands = [c \in Plan |->
                  IF c \in Known THEN [@[c] EXCEPT !.status = "FAILED"] ELSE @[c]]]
  /\ active' = [c \in Plan |-> "none"]
  /\ UNCHANGED <<files, lane, cursor, orphans, holder, starts, killed, window>>

\* The loop ends when no process is left and nothing may or can be started.
Drained ==
  /\ pc = "loop" /\ Known = {}
  /\ \/ record.status # "RUNNING" /\ UNCHANGED record
     \/ record.status = "RUNNING" /\ cursor \notin Plan
        /\ record' = [record EXCEPT !.status = "COMPLETE"]
  /\ pc' = "finish"
  /\ UNCHANGED <<files, lane, cursor, active, orphans, holder, starts, killed, window>>

-----------------------------------------------------------------------------
(* Ending. *)

\* The deadline, a signal, a GPU that is another one: an exception leaves the
\* loop.  A process that Popen has started and that is not in hand yet is in
\* nobody's hand from then on; its entry says RUNNING, or FAILED when the
\* exception comes out of Popen itself.
Raise ==
  /\ pc \in {"admit", "loop", "spawned", "registered"}
  /\ LET lost == {c \in Plan : active[c] = "spawned"} IN
     /\ orphans' = orphans \cup lost
     /\ active' = [c \in Plan |-> IF c \in lost THEN "none" ELSE active[c]]
     /\ \E s \in {"RUNNING", "FAILED"} :
          record' = [record EXCEPT !.status = "FAILED", !.commands = [c \in Plan |->
                       IF c \in lost THEN [@[c] EXCEPT !.status = s] ELSE @[c]]]
  /\ pc' = "reap"
  /\ UNCHANGED <<files, lane, cursor, holder, starts, killed, window>>

\* The next process in hand is terminated and called failed, also one that has
\* just ended well.  Members of its group may survive the TERM: the KILL comes
\* only when the leader does.
Reap(c) ==
  /\ pc = "reap" /\ active[c] # "none"
  /\ orphans' \in {orphans, orphans \cup {c}}
  /\ record' = [record EXCEPT !.commands[c].status = "FAILED"]
  /\ active' = [active EXCEPT ![c] = "none"]
  /\ UNCHANGED <<files, lane, pc, cursor, holder, starts, killed, window>>

Reaped ==
  /\ pc = "reap" /\ \A c \in Plan : active[c] = "none"
  /\ pc' = "finish"
  /\ UNCHANGED <<files, lane, record, cursor, active, orphans, holder, starts, killed, window>>

\* The last write.
Finish ==
  /\ pc = "finish"
  /\ lane' = record /\ pc' = "idle" /\ record' = NoLane /\ window' = Written
  /\ UNCHANGED <<files, cursor, active, orphans, holder, starts, killed>>

Controller ==
  \/ Admit \/ PassOver \/ NotReady \/ Spawn \/ SpawnFails \/ Register
  \/ WriteRecord \/ Drained \/ Reaped \/ Finish
  \/ \E c \in Plan : Poll(c) \/ Reap(c)

-----------------------------------------------------------------------------
(* The world around the controller. *)

\* The controller is gone without its last write, and what it had started goes
\* on in sessions of its own.
Gone ==
  /\ orphans' = orphans \cup Alive
  /\ active' = [c \in Plan |-> "none"]
  /\ pc' = "idle" /\ record' = NoLane /\ window' = Caught
  /\ UNCHANGED <<files, lane, cursor, holder, starts>>

\* SIGKILL: no handler runs.
Kill == pc # "idle" /\ Gone /\ killed' = TRUE

\* A signal during the cleanup: nothing catches its exception.
RaiseAgain == pc \in {"reap", "finish"} /\ Gone /\ UNCHANGED killed

\* A command ends; one that succeeds has created its paths.
CommandEnds(c) ==
  /\ active[c] = "running"
  /\ \E o \in Outcomes :
       /\ active' = [active EXCEPT ![c] = o]
       /\ files' = IF o = "ok" THEN files \cup (Produces[c] \cap Paths) ELSE files
  /\ UNCHANGED <<lane, record, pc, cursor, orphans, holder, starts, killed, window>>

OrphanEnds(c) ==
  /\ c \in orphans /\ orphans' = orphans \ {c}
  /\ \E ok \in BOOLEAN : files' = IF ok THEN files \cup (Produces[c] \cap Paths) ELSE files
  /\ UNCHANGED <<lane, record, pc, cursor, active, holder, starts, killed, window>>

\* A job of the owner's stages a path.
Supply(p) ==
  /\ p \notin files /\ \A c \in Plan : p \notin Produces[c]
  /\ files' = files \cup {p}
  /\ UNCHANGED <<lane, record, pc, cursor, active, orphans, holder, starts, killed, window>>

\* The allocation ends, with every process in it; another one begins.
NextHolder ==
  /\ pc = "idle" /\ holder < MaxHolder
  /\ holder' = holder + 1 /\ orphans' = {} /\ window' = "closed"
  /\ UNCHANGED <<files, lane, record, pc, cursor, active, starts, killed>>

Next ==
  \/ Start \/ Resume \/ Controller \/ Raise \/ RaiseAgain \/ Kill \/ NextHolder
  \/ \E c \in Plan : CommandEnds(c) \/ OrphanEnds(c)
  \/ \E p \in Paths : Supply(p)

\* The controller runs on, and the commands it started come to an end (the
\* scheduler's wall limit); nothing says that a path is ever supplied.
Fairness == WF_vars(Controller) /\ \A c \in Plan : WF_vars(CommandEnds(c))

Spec == Init /\ [][Next]_vars /\ Fairness

-----------------------------------------------------------------------------
Statuses == {"NOT_RUN", "RUNNING", "COMPLETE", "PENDING", "FAILED"}
Records ==
  [status : {"NONE", "RUNNING", "COMPLETE", "PENDING", "FAILED"},
   job : 0 .. MaxHolder, allocation : 0 .. MaxHolder,
   commands : [Plan -> [status : Statuses, holder : 0 .. MaxHolder]]]

TypeOK ==
  /\ files \subseteq Paths
  /\ lane \in Records /\ record \in Records
  /\ pc \in {"idle", "admit", "loop", "spawned", "registered", "reap", "finish"}
  /\ cursor \in 1 .. NCommands + 1
  /\ active \in [Plan -> {"none", "spawned", "running"} \cup Outcomes]
  /\ orphans \subseteq Plan
  /\ holder \in 1 .. MaxHolder /\ starts \in 0 .. MaxStarts
  /\ killed \in BOOLEAN /\ window \in {"closed", "open", "caught"}

\* A COMPLETE lane.json stands for one comparison: every command is complete,
\* and all of them ran in the allocation, and on the GPU, it names, over any
\* number of resumes ("never merge scores from separate lane jobs").
CompleteIsOneJob ==
  lane.status = "COMPLETE" =>
    /\ lane.job # 0
    /\ \A c \in Plan : lane.commands[c] = [status |-> "COMPLETE", holder |-> lane.job]

\* A command's receipt, once complete on disk, is neither lost nor redone: its
\* entry stands and the command is not started again.
ReceiptsStand ==
  [][\A c \in Plan : lane.commands[c].status = "COMPLETE" =>
       /\ lane'.commands[c] = lane.commands[c]
       /\ active[c] = "none" => active'[c] = "none"]_vars

\* A command that fails or is not ready lets its peers finish: a lane that ends
\* PENDING has terminated none of them.
PeersFinish ==
  pc = "finish" /\ record.status = "PENDING" =>
    \A c \in Plan : record.commands[c].status \in {"NOT_RUN", "COMPLETE", "PENDING"}

\* A command never has two live processes, also after its controller was killed
\* or interrupted in its cleanup: what it started is on record as RUNNING or
\* FAILED, and no resume accepts that.  The exception is a controller that ended
\* between a launch and the write that records it, in the same allocation.
OneProcessPerCommand == window # "caught" => orphans \cap Alive = {}

\* The controller never waits for external work: it ends, whatever paths are
\* never supplied.
ControllerEnds == pc # "idle" ~> pc = "idle"

-----------------------------------------------------------------------------
\* "Controller failure/interrupt instead reaps whole process groups so no orphan
\* keeps the allocation alive" (lane_pool.py:282): a controller that was not
\* killed leaves no process behind.
NothingLeftRunning == pc = "idle" /\ ~killed => orphans = {}

\* "Completed command receipts survive a PENDING result.  --resume reuses them"
\* in the same allocation (lane_pool.md): a PENDING lane.json with a complete
\* command can be resumed by a controller of its allocation.
PendingCanResume ==
  lane.status = "PENDING" /\ (\E c \in Plan : lane.commands[c].status = "COMPLETE")
    => lane.job = lane.allocation
=============================================================================
