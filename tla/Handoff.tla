------------------------------ MODULE Handoff -------------------------------
(***************************************************************************)
(* save and restore of kit/message_handoff.py, and the jobs that use them  *)
(* as README-message.md prescribes: a job restores OUT before anything     *)
(* writes to it, and saves it when it ends.                                *)
(*                                                                         *)
(* The durable tree holds numbered generations; CURRENT names the one that *)
(* is committed.  A version is the number of the write that made it: it    *)
(* stands for a file's content, size and time together.                    *)
(***************************************************************************)
EXTENDS HandoffLock

CONSTANTS
  Files,      \* the files of OUT
  MaxWrites   \* bound: writes of the job's stages

ASSUME HandoffAssumption == MaxWrites \in Nat

VARIABLES
  out,       \* OUT: file -> version, 0: the file is not there
  backup,    \* file -> the versions in .pre-restore directories
  gens,      \* the generation directories
  current,   \* the generation CURRENT names, 0: there is no CURRENT
  work,      \* slot -> what its process does in the locked region
  restored,  \* has the job at work come past its restore
  writes,    \* how many writes there were
  live,      \* bookkeeping: file -> the version last written on this node
  history    \* bookkeeping: the states OUT has been in

outVars == <<out, backup, live, history>>
vars == <<lockVars, out, backup, gens, current, work, restored, writes, live, history>>

Versions == 0 .. MaxWrites
Nothing == [f \in Files |-> 0]
Absent == [stage |-> "absent", tree |-> Nothing]
NoWork == [op |-> "save", pc |-> "start", previous |-> 0, old |-> Nothing,
           manifest |-> Nothing, gen |-> 0, todo |-> {}]

Init ==
  /\ LockInit
  /\ out = Nothing /\ backup = [f \in Files |-> {}]
  /\ gens = [g \in 1 .. MaxPids |-> Absent] /\ current = 0
  /\ work = [p \in Procs |-> NoWork]
  /\ restored = FALSE /\ writes = 0 /\ live = Nothing /\ history = {Nothing}

-----------------------------------------------------------------------------
(* Starting, failing, ending. *)

Begin(p, op) ==
  /\ Arrive(p)
  /\ work' = [work EXCEPT ![p] = [NoWork EXCEPT !.op = op]]
  /\ UNCHANGED <<outVars, gens, current, writes>>

Restoring == \E p \in Procs : lk[p].pid # 0 /\ work[p].op = "restore"

\* Faulty variant: the exit trap is set before OUT is restored.
BeginSave_Always(p) ==
  ~Restoring /\ Begin(p, "save") /\ UNCHANGED restored

\* The trap that saves is set, and stages run, once restore has succeeded.
BeginSave(p) ==
  restored /\ Begin(p, "save") /\ UNCHANGED restored

\* A job starts when the one before it is over (`--dependency=afterany`).
BeginRestore(p) ==
  /\ \A q \in Procs : At(q, "idle")
  /\ Begin(p, "restore") /\ restored' = FALSE

To(p, pc) == work' = [work EXCEPT ![p].pc = pc]
In(p, op, pc) == Held(p) /\ work[p].op = op /\ work[p].pc = pc

\* An exception inside the locked region; what it left in generations stays.
Stop(p) ==
  /\ To(p, "done")
  /\ UNCHANGED <<lockVars, outVars, gens, current, restored, writes>>

Done(p) ==
  /\ Held(p) /\ work[p].pc = "done"
  /\ Leave(p)
  /\ work' = [work EXCEPT ![p] = NoWork]
  /\ UNCHANGED <<outVars, gens, current, restored, writes>>

Intact(g) == g # 0 /\ gens[g].stage = "committed"

-----------------------------------------------------------------------------
(* save_locked. *)

\* CURRENT is looked up, and has to name a committed generation.
FindPrevious(p) ==
  /\ In(p, "save", "start")
  /\ \/ current # 0 /\ ~Intact(current) /\ Stop(p)
     \/ /\ current = 0 \/ Intact(current)
        /\ work' = [work EXCEPT ![p].pc = "list", ![p].previous = current,
             ![p].old = IF current = 0 THEN Nothing ELSE gens[current].tree,
             ![p].todo = Files]
        /\ UNCHANGED <<lockVars, outVars, gens, current, restored, writes>>

\* inventory(): one file after the other.
List(p) ==
  /\ In(p, "save", "list")
  /\ \E f \in work[p].todo :
       work' = [work EXCEPT ![p].manifest[f] = out[f], ![p].todo = @ \ {f}]
  /\ UNCHANGED <<lockVars, outVars, gens, current, restored, writes>>

Listed(p) == In(p, "save", "list") /\ work[p].todo = {}

\* Nothing has changed since CURRENT.
Skip(p) ==
  /\ Listed(p)
  /\ work[p].previous # 0 /\ work[p].manifest = work[p].old
  /\ Stop(p)

\* The staging directory; its name is new.
Stage(p) ==
  LET g == lk[p].pid IN
  /\ Listed(p)
  /\ work[p].previous = 0 \/ work[p].manifest # work[p].old
  /\ gens' = [gens EXCEPT ![g] = [stage |-> "partial", tree |-> Nothing]]
  /\ work' = [work EXCEPT ![p].pc = "copy", ![p].gen = g, ![p].todo = Files]
  /\ UNCHANGED <<lockVars, outVars, current, restored, writes>>

Reusable(p, f) ==
  work[p].previous # 0 /\ work[p].old[f] = work[p].manifest[f]

\* What rsync may put into the staging tree: nothing for a file the manifest
\* does not list, else OUT's file, or a link to the previous generation's when
\* the manifest says it is unchanged and the sizes and whole seconds agree.
CopyOf(p, f) ==
  IF work[p].manifest[f] = 0 THEN {0}
  ELSE {out[f]} \cup {v \in {work[p].manifest[f]} : Reusable(p, f)}

\* rsync fails when the staging directory is gone.
Copy(p) ==
  LET g == work[p].gen IN
  /\ In(p, "save", "copy")
  /\ \/ gens[g].stage # "partial" /\ Stop(p)
     \/ /\ gens[g].stage = "partial"
        /\ \E f \in work[p].todo :
             /\ \E v \in CopyOf(p, f) : gens' = [gens EXCEPT ![g].tree[f] = v]
             /\ work' = [work EXCEPT ![p].todo = @ \ {f}]
        /\ UNCHANGED <<lockVars, outVars, current, restored, writes>>

Copied(p) ==
  /\ In(p, "save", "copy") /\ work[p].todo = {}
  /\ work' = [work EXCEPT ![p].pc = "recheck", ![p].todo = Files]
  /\ UNCHANGED <<lockVars, outVars, gens, current, restored, writes>>

\* Faulty variant: OUT is not looked at again.
Recheck_Not(p) ==
  /\ In(p, "save", "recheck")
  /\ \E f \in work[p].todo : work' = [work EXCEPT ![p].todo = @ \ {f}]
  /\ UNCHANGED <<lockVars, outVars, gens, current, restored, writes>>

\* OUT has to look as the manifest says, again one file after the other.
Recheck(p) ==
  /\ In(p, "save", "recheck")
  /\ \E f \in work[p].todo :
       \/ /\ out[f] = work[p].manifest[f]
          /\ work' = [work EXCEPT ![p].todo = @ \ {f}]
          /\ UNCHANGED <<lockVars, outVars, gens, current, restored, writes>>
       \/ out[f] # work[p].manifest[f] /\ Stop(p)

\* Faulty variant: the stamped staging directory is not renamed.
Commit_NoRename(p) ==
  /\ In(p, "save", "recheck") /\ work[p].todo = {}
  /\ gens' = [gens EXCEPT ![work[p].gen].stage = "stamped"]
  /\ To(p, "point")
  /\ UNCHANGED <<lockVars, outVars, current, restored, writes>>

\* Faulty variant: the other generations are removed before CURRENT is written.
Commit_CleanFirst(p) ==
  LET g == work[p].gen IN
  /\ In(p, "save", "recheck") /\ work[p].todo = {}
  /\ gens' = [o \in DOMAIN gens |->
       IF o = g THEN [gens[g] EXCEPT !.stage = "committed"] ELSE Absent]
  /\ To(p, "point")
  /\ UNCHANGED <<lockVars, outVars, current, restored, writes>>

\* The copy has to be what the manifest says; then it gets its stamp and name.
Commit(p) ==
  LET g == work[p].gen IN
  /\ In(p, "save", "recheck") /\ work[p].todo = {}
  /\ \/ /\ gens[g] = [stage |-> "partial", tree |-> work[p].manifest]
        /\ gens' = [gens EXCEPT ![g].stage = "committed"]
        /\ To(p, "point")
        /\ UNCHANGED <<lockVars, outVars, current, restored, writes>>
     \/ gens[g] # [stage |-> "partial", tree |-> work[p].manifest] /\ Stop(p)

\* CURRENT is replaced: the commit point.
Point(p) ==
  /\ In(p, "save", "point")
  /\ current' = work[p].gen
  /\ To(p, "cleanup")
  /\ UNCHANGED <<lockVars, outVars, gens, restored, writes>>

\* Every directory but the new generation and the one before it is removed.
Cleanup(p) ==
  LET others == {g \in 1 .. MaxPids : gens[g].stage # "absent"}
                  \ {work[p].gen, work[p].previous}
  IN
  /\ In(p, "save", "cleanup")
  /\ \/ others = {} /\ Stop(p)
     \/ /\ \E g \in others : gens' = [gens EXCEPT ![g] = Absent]
        /\ UNCHANGED <<lockVars, outVars, current, work, restored, writes>>

-----------------------------------------------------------------------------
(* restore. *)

FirstJob(p) ==
  /\ In(p, "restore", "start") /\ current = 0
  /\ To(p, "done") /\ restored' = TRUE
  /\ UNCHANGED <<lockVars, outVars, gens, current, writes>>

\* The committed generation, verified, and the local files that differ from it.
Compare(p) ==
  /\ In(p, "restore", "start") /\ current # 0
  /\ \/ ~Intact(current) /\ Stop(p)
     \/ /\ Intact(current)
        /\ work' = [work EXCEPT ![p].pc = "aside", ![p].manifest = gens[current].tree,
             ![p].todo = {f \in Files : out[f] \notin {0, gens[current].tree[f]}}]
        /\ UNCHANGED <<lockVars, outVars, gens, current, restored, writes>>

\* One rename per file that differs.
MoveAside(p) ==
  /\ In(p, "restore", "aside")
  /\ \E f \in work[p].todo :
       /\ backup' = [backup EXCEPT ![f] = @ \cup {out[f]}]
       /\ out' = [out EXCEPT ![f] = 0] /\ history' = history \cup {out'}
       /\ work' = [work EXCEPT ![p].todo = @ \ {f}]
  /\ UNCHANGED <<lockVars, gens, current, restored, writes, live>>

\* Faulty variant: what differs is left to rsync.
MovedAside_Not(p) ==
  /\ In(p, "restore", "aside")
  /\ work' = [work EXCEPT ![p].pc = "fill", ![p].todo = Files]
  /\ UNCHANGED <<lockVars, outVars, gens, current, restored, writes>>

MovedAside(p) ==
  /\ In(p, "restore", "aside") /\ work[p].todo = {}
  /\ work' = [work EXCEPT ![p].pc = "fill", ![p].todo = Files]
  /\ UNCHANGED <<lockVars, outVars, gens, current, restored, writes>>

\* rsync fills OUT from the generation it was given.
Fill(p) ==
  /\ In(p, "restore", "fill")
  /\ \E f \in work[p].todo :
       /\ out' = [out EXCEPT ![f] = IF work[p].manifest[f] = 0 THEN @ ELSE work[p].manifest[f]]
       /\ history' = history \cup {out'}
       /\ work' = [work EXCEPT ![p].todo = @ \ {f}]
  /\ UNCHANGED <<lockVars, gens, current, restored, writes, live, backup>>

\* OUT has to be what the manifest says.
Verify(p) ==
  /\ In(p, "restore", "fill") /\ work[p].todo = {}
  /\ To(p, "done")
  /\ restored' = (out = work[p].manifest)
  /\ UNCHANGED <<lockVars, outVars, gens, current, writes>>

-----------------------------------------------------------------------------
(* The jobs, and what happens to them. *)

\* A stage of the job writes a file.
Write(f) ==
  /\ restored /\ ~Restoring /\ writes < MaxWrites
  /\ writes' = writes + 1
  /\ out' = [out EXCEPT ![f] = writes + 1] /\ history' = history \cup {out'}
  /\ live' = [live EXCEPT ![f] = writes + 1]
  /\ UNCHANGED <<lockVars, backup, gens, current, work, restored>>

\* The next job starts, on this node or on one whose OUT is empty.
NextJob ==
  /\ \A p \in Procs : At(p, "idle")
  /\ restored' = FALSE
  /\ \E away \in BOOLEAN :
       /\ out' = IF away THEN Nothing ELSE out
       /\ live' = IF away THEN Nothing ELSE live
  /\ history' = history \cup {out'}
  /\ UNCHANGED <<lockVars, backup, gens, current, work, writes>>

Killed(p) ==
  /\ Die(p)
  /\ work' = [work EXCEPT ![p] = NoWork]
  /\ UNCHANGED <<outVars, gens, current, restored, writes>>

Locking(p) ==
  LockStep(p) /\ UNCHANGED <<outVars, gens, current, work, restored, writes>>

Save(p) ==
  \/ FindPrevious(p) \/ List(p) \/ Skip(p) \/ Stage(p) \/ Copy(p) \/ Copied(p)
  \/ Recheck(p) \/ Commit(p) \/ Point(p) \/ Cleanup(p)
Restore(p) ==
  \/ FirstJob(p) \/ Compare(p) \/ MoveAside(p) \/ MovedAside(p) \/ Fill(p) \/ Verify(p)

Step(p) == Locking(p) \/ Save(p) \/ Restore(p) \/ Done(p)

Next ==
  \/ NextJob
  \/ \E f \in Files : Write(f)
  \/ \E p \in Procs : BeginSave(p) \/ BeginRestore(p) \/ Step(p) \/ Killed(p)

Spec == Init /\ [][Next]_vars

-----------------------------------------------------------------------------
TypeOK ==
  /\ LockTypeOK
  /\ out \in [Files -> Versions] /\ live \in [Files -> Versions]
  /\ backup \in [Files -> SUBSET Versions]
  /\ gens \in [1 .. MaxPids -> [stage : {"absent", "partial", "committed"},
                                tree : [Files -> Versions]]]
  /\ current \in 0 .. MaxPids
  /\ work \in [Procs ->
       [op : {"save", "restore"},
        pc : {"start", "list", "copy", "recheck", "point", "cleanup", "aside", "fill", "done"},
        previous : 0 .. MaxPids, gen : 0 .. MaxPids, todo : SUBSET Files,
        old : [Files -> Versions], manifest : [Files -> Versions]]]
  /\ restored \in BOOLEAN /\ writes \in Versions
  /\ history \subseteq [Files -> Versions]

\* CURRENT never names a generation that is missing, partial or cleaned away,
\* at whatever step a save dies and whoever saves next.  It is stated for a
\* filesystem with flock: the lock directory can have two owners.
CurrentIntact == hasFlock => current = 0 \/ Intact(current)

\* The committed generation is a state OUT really was in at one instant, also
\* when a stage kept writing during the save: a file listed early and one
\* listed late belong together.
CommittedIsAState == current # 0 => gens[current].tree \in history

Committed == IF current = 0 THEN Nothing ELSE gens[current].tree

\* What has been committed is never undone: no later generation lacks a file or
\* holds an older version of it, over jobs that move to another node, restores
\* that die half-way and saves of two processes, on a filesystem with flock.
NeverGoesBack == [][hasFlock => \A f \in Files : Committed'[f] >= Committed[f]]_vars

\* Restore "never deletes local evidence": the last version a stage wrote on
\* this node is in OUT or in a backup, even after a restore that was killed.
LocalEvidenceKept ==
  \A f \in Files : live[f] # 0 => live[f] = out[f] \/ live[f] \in backup[f]
=============================================================================
