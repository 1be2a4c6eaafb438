----------------------------- MODULE HandoffLock -----------------------------
(***************************************************************************)
(* locked() of kit/message_handoff.py: the lock on a durable tree that     *)
(* save, restore and job-start take.  It is a flock where the filesystem   *)
(* has one; elsewhere it is a directory, `.handoff.lock.d`, that names its *)
(* owner and outlives an owner that is killed.                             *)
(***************************************************************************)
EXTENDS Integers, FiniteSets

CONSTANTS
  Procs,        \* the slots in which processes of one host run
  Filesystems,  \* TRUE for one with flock, FALSE for one without
  MaxPids       \* bound: processes started in one behaviour

ASSUME LockAssumption == Filesystems \subseteq BOOLEAN /\ MaxPids \in Nat

VARIABLES
  hasFlock,  \* does the filesystem of the durable tree support flock
  flock,  \* the process that holds the flock, 0: none
  dir,    \* the lock directory: its owner, NoDir, or NoOwner before owner.json
  lk,     \* slot -> the process in it, and where it stands with the lock
  pids    \* how many processes have been started

lockVars == <<hasFlock, flock, dir, lk, pids>>

NoDir == 0
NoOwner == -1
NoProcess == [pc |-> "idle", pid |-> 0, tries |-> 0]

LockInit ==
  /\ hasFlock \in Filesystems
  /\ flock = 0 /\ dir = NoDir /\ lk = [p \in Procs |-> NoProcess] /\ pids = 0

Lives(pid) == \E p \in Procs : lk[p].pid = pid
Held(p) == lk[p].pc = "held"
At(p, pc) == lk[p].pc = pc

\* A process comes to locked(), with a pid that no other process has.
Arrive(p) ==
  /\ At(p, "idle") /\ pids < MaxPids
  /\ pids' = pids + 1
  /\ lk' = [lk EXCEPT ![p] = [pc |-> "try", pid |-> pids + 1, tries |-> 2]]
  /\ UNCHANGED <<hasFlock, flock, dir>>

\* The process stops with the message that the handoff is busy.
Refused(p) == lk' = [lk EXCEPT ![p] = NoProcess]

TakeFlock(p) ==
  /\ hasFlock /\ At(p, "try")
  /\ \/ flock = 0 /\ flock' = lk[p].pid /\ lk' = [lk EXCEPT ![p].pc = "held"]
     \/ flock # 0 /\ Refused(p) /\ UNCHANGED flock
  /\ UNCHANGED <<hasFlock, dir, pids>>

\* Two turns: make the directory, or look who owns it.
MakeDir(p) ==
  /\ ~hasFlock /\ At(p, "try")
  /\ \/ lk[p].tries = 0 /\ Refused(p) /\ UNCHANGED dir
     \/ /\ lk[p].tries > 0 /\ dir = NoDir
        /\ dir' = NoOwner /\ lk' = [lk EXCEPT ![p].pc = "owning"]
     \/ /\ lk[p].tries > 0 /\ dir # NoDir
        /\ lk' = [lk EXCEPT ![p].pc = "judging"] /\ UNCHANGED dir
  /\ UNCHANGED <<hasFlock, flock, pids>>

\* owner.json; the write fails when the directory has been cleared meanwhile.
WriteOwner(p) ==
  /\ At(p, "owning")
  /\ \/ dir # NoDir /\ dir' = lk[p].pid /\ lk' = [lk EXCEPT ![p].pc = "held"]
     \/ dir = NoDir /\ Refused(p) /\ UNCHANGED dir
  /\ UNCHANGED <<hasFlock, flock, pids>>

\* An owner that cannot be read counts as alive.
Judge(p) ==
  /\ At(p, "judging")
  /\ IF dir \in {NoDir, NoOwner} \/ Lives(dir) THEN Refused(p)
     ELSE lk' = [lk EXCEPT ![p].pc = "clearing"]
  /\ UNCHANGED <<hasFlock, flock, dir, pids>>

\* The directory of a dead owner is removed, whoever owns it by now.
Clear(p) ==
  /\ At(p, "clearing")
  /\ dir' = NoDir
  /\ lk' = [lk EXCEPT ![p].pc = "try", ![p].tries = @ - 1]
  /\ UNCHANGED <<hasFlock, flock, pids>>

LockStep(p) == TakeFlock(p) \/ MakeDir(p) \/ WriteOwner(p) \/ Judge(p) \/ Clear(p)

\* The process leaves the locked region and ends.
Leave(p) ==
  /\ Held(p)
  /\ lk' = [lk EXCEPT ![p] = NoProcess]
  /\ flock' = IF hasFlock THEN 0 ELSE flock
  /\ dir' = IF hasFlock THEN dir ELSE NoDir
  /\ UNCHANGED <<hasFlock, pids>>

\* The process is killed: the kernel drops its flock, the directory stays.
Die(p) ==
  /\ ~At(p, "idle")
  /\ lk' = [lk EXCEPT ![p] = NoProcess]
  /\ flock' = IF flock = lk[p].pid THEN 0 ELSE flock
  /\ UNCHANGED <<hasFlock, dir, pids>>

LockTypeOK ==
  /\ hasFlock \in BOOLEAN
  /\ flock \in 0 .. MaxPids /\ dir \in -1 .. MaxPids
  /\ lk \in [Procs -> [pc : {"idle", "try", "owning", "judging", "clearing", "held"},
                       pid : 0 .. MaxPids, tries : 0 .. 2]]
  /\ pids \in 0 .. MaxPids
=============================================================================
