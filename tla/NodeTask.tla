------------------------------ MODULE NodeTask ------------------------------
(***************************************************************************)
(* One task of message 2 on its node: kit/m2_node.py.  A run reads the     *)
(* snapshots its task requires, brings the local tree `out` up to them,    *)
(* lets the task's commands write there, publishes the tree as the task's  *)
(* snapshot and, for some tasks, commits a barrier.  It may be killed at   *)
(* any step, or told to end (TERM); the partner requeues the same task.    *)
(* The task's stage lock admits one run at a time, but the commands have a *)
(* session of their own, and those of a killed run may go on.              *)
(***************************************************************************)
EXTENDS SnapshotStore

CONSTANTS
  Requires,   \* task -> the tasks whose snapshots it needs
  Waits,      \* task -> the tasks whose barriers it needs
  Partial,    \* tasks that accept unfinished inputs (partial_inputs)
  Commits,    \* tasks that commit a barrier (commit_barrier)
  Work,       \* task -> how many steps its commands take
  MaxEnds,    \* bound: runs that are killed, told to end, or whose commands fail
  MaxDays     \* bound: days that pass

ASSUME NodeAssumption ==
  /\ Requires \in [Tasks -> SUBSET Tasks] /\ Waits \in [Tasks -> SUBSET Tasks]
  /\ Partial \subseteq Tasks /\ Commits \subseteq Tasks
  /\ Work \in [Tasks -> Nat] /\ MaxEnds \in Nat /\ MaxDays \in Nat

VARIABLES
  inputs,   \* task -> inputs.json: the parents its local state was made for
  out,      \* task -> the local tree: the parents overlaid in it and the work done
  run,      \* task -> the run of it, with what the process remembers
  barrier,  \* task -> the archive its barrier names
  stray,    \* commands whose run is gone and who may still write: task, and inputs
  ends,     \* runs ended so far by a kill, a TERM or a failing command
  days      \* days that have passed

vars == <<storeVars, inputs, out, run, barrier, stray, ends, days>>
localVars == <<inputs, out, barrier, stray, ends, days>>

Nothing == [k \in {} |-> NoArchive]
NoTree == [views |-> {}, made |-> -1]
EmptyTree == [views |-> {}, made |-> 0]
NoRun == [pc |-> "idle", parents |-> Nothing, refresh |-> FALSE, mine |-> FALSE,
          good |-> FALSE, interrupted |-> FALSE, archive |-> NoArchive]

Init ==
  /\ StoreInit
  /\ inputs = [t \in Tasks |-> NoArchive] /\ out = [t \in Tasks |-> NoTree]
  /\ run = [t \in Tasks |-> NoRun] /\ barrier = [t \in Tasks |-> NoArchive]
  /\ stray = {} /\ ends = 0 /\ days = 0

At(t, pc) == run[t].pc = pc
Go(t, pc) == run' = [run EXCEPT ![t].pc = pc]

\* The run is over and the task not finished; what the process knew is gone.
Exit(t) == run' = [run EXCEPT ![t] = NoRun]
\* The run reports the task finished (COMPLETE or SKIP): nobody queues it again.
Report(t) == run' = [run EXCEPT ![t] = [NoRun EXCEPT !.pc = "done"]]

\* A barrier has to be there and to name the finished snapshot of its task.
BarrierStands(b) == barrier[b] # NoArchive /\ current[b] = barrier[b] /\ Complete(current[b])

\* CURRENT of an input may be missing or unfinished only for a partial task.
InputsThere(t) ==
  /\ \A k \in Requires[t] : current[k] # NoArchive => Readable(k)
  /\ t \notin Partial => \A k \in Requires[t] : Complete(current[k])

\* The partner queues the task, again if need be; without its inputs the run is over at once.
Begin(t) ==
  /\ At(t, "idle") /\ (\A b \in Waits[t] : BarrierStands(b)) /\ InputsThere(t)
  /\ run' = [run EXCEPT ![t].pc = "views", ![t].parents = [k \in Requires[t] |-> current[k]]]
  /\ UNCHANGED <<storeVars, localVars>>

\* TERM while a partial task reads the pointers of its inputs counts as "not there yet".
BeginInterrupted(t) ==
  /\ At(t, "idle") /\ (\A b \in Waits[t] : BarrierStands(b)) /\ InputsThere(t)
  /\ t \in Partial /\ ends < MaxEnds /\ ends' = ends + 1
  /\ \E lost \in SUBSET Requires[t] \ {{}} :
       run' = [run EXCEPT ![t].pc = "views", ![t].interrupted = TRUE,
                 ![t].parents = [k \in Requires[t] |-> IF k \in lost THEN NoArchive ELSE current[k]]]
  /\ UNCHANGED <<storeVars, inputs, out, barrier, stray, days>>

Given(t) == ParentsOf(run[t]) \ {NoArchive}

\* Replicas of the inputs; an archive that was pruned meanwhile cannot be opened.
RestoreViews(t) ==
  /\ At(t, "views")
  /\ IF Given(t) \subseteq tars THEN Go(t, "identity") ELSE Exit(t)
  /\ UNCHANGED <<storeVars, localVars>>

\* Has the local tree been made for other inputs?  Only unfinished ones may differ.
SameInputs(t) == inputs[t] \in {NoArchive, run[t].parents}
\* Faulty variant: the tree that was made for other inputs is kept.
CheckIdentity_KeepsTree(t) ==
  /\ At(t, "identity") /\ run' = [run EXCEPT ![t].pc = "record", ![t].refresh = ~SameInputs(t)]
  /\ UNCHANGED <<storeVars, localVars>>
CheckIdentity(t) ==
  /\ At(t, "identity")
  /\ \/ SameInputs(t) /\ Go(t, "record")
     \/ /\ ~SameInputs(t) /\ t \in Partial
        /\ \A k \in Requires[t] : Complete(inputs[t][k]) => inputs[t][k] = run[t].parents[k]
        /\ run' = [run EXCEPT ![t].pc = "clear", ![t].refresh = TRUE]
     \/ /\ ~SameInputs(t)
        /\ ~(t \in Partial /\ \A k \in Requires[t] :
               Complete(inputs[t][k]) => inputs[t][k] = run[t].parents[k])
        /\ Exit(t)
  /\ UNCHANGED <<storeVars, localVars>>

Clear(t) ==
  /\ At(t, "clear") /\ out' = [out EXCEPT ![t] = NoTree] /\ Go(t, "record")
  /\ UNCHANGED <<storeVars, inputs, barrier, stray, ends, days>>

Record(t) ==
  /\ At(t, "record") /\ inputs' = [inputs EXCEPT ![t] = run[t].parents] /\ Go(t, "own")
  /\ UNCHANGED <<storeVars, out, barrier, stray, ends, days>>

-----------------------------------------------------------------------------
\* The task's own snapshot, if it has one: finished, made of older inputs, or to go on from.
Older(t) == /\ Compatible(current[t], run[t].parents, t \in Partial)
            /\ current[t].parents # run[t].parents

Outdates(t) == current[t] # NoArchive /\ Readable(t) /\ Older(t) /\ ~Complete(current[t])
Restored(t) ==
  /\ current[t] # NoArchive /\ Readable(t)
  /\ current[t].parents = run[t].parents /\ ~Complete(current[t])
Owes(t) ==
  /\ Complete(current[t]) /\ Readable(t) /\ current[t].parents = run[t].parents
  /\ t \in Commits /\ barrier[t] = NoArchive

NoneYet(t) ==
  /\ current[t] = NoArchive /\ Go(t, "tree") /\ UNCHANGED out

Outdated(t) ==
  /\ Outdates(t) /\ out' = [out EXCEPT ![t] = NoTree]
  /\ run' = [run EXCEPT ![t].pc = "tree", ![t].refresh = TRUE]

Unfinished(t) ==
  /\ Restored(t)
  /\ out' = [out EXCEPT ![t] = IF @ = NoTree /\ ~run[t].refresh THEN current[t].tree ELSE @]
  /\ Go(t, "tree")

\* A finished task is skipped; a barrier it still owes is committed first.
\* Faulty variant: a finished task is always skipped.
Finished_Skips(t) ==
  /\ Complete(current[t]) /\ Readable(t) /\ current[t].parents = run[t].parents
  /\ Report(t) /\ UNCHANGED out
Finished(t) ==
  /\ Complete(current[t]) /\ Readable(t) /\ current[t].parents = run[t].parents
  /\ IF Owes(t)
     THEN /\ run' = [run EXCEPT ![t].pc = "commit", ![t].archive = current[t]]
          /\ out' = [out EXCEPT ![t] = EmptyTree]
     ELSE Report(t) /\ UNCHANGED out

Mismatch(t) ==
  /\ current[t] # NoArchive
  /\ ~Readable(t) \/ (current[t].parents # run[t].parents /\ ~(Older(t) /\ ~Complete(current[t])))
  /\ Exit(t) /\ UNCHANGED out

OwnSnapshot(t) ==
  /\ At(t, "own")
  /\ NoneYet(t) \/ Outdated(t) \/ Unfinished(t) \/ Finished(t) \/ Mismatch(t)
  /\ UNCHANGED <<storeVars, inputs, barrier, stray, ends, days>>

\* What is left of a tree whose removal was broken off.
Leftovers(t) ==
  {NoTree} \cup {[views |-> v, made |-> m] : v \in SUBSET out[t].views, m \in 0..out[t].made}

\* TERM while the own snapshot is looked at is taken for a snapshot that is not there:
\* the run goes on to publish what it has, and starts no commands.
OwnInterrupted(t) ==
  /\ At(t, "own") /\ ends < MaxEnds /\ ends' = ends + 1
  /\ run' = [run EXCEPT ![t].pc = "tree", ![t].interrupted = TRUE]
  /\ \E tree \in {out[t]} \cup (IF Outdates(t) \/ Owes(t) THEN Leftovers(t) ELSE {})
                \cup (IF Owes(t) THEN {EmptyTree} ELSE {})
                \cup (IF Restored(t) /\ out[t] = NoTree /\ ~run[t].refresh
                      THEN {current[t].tree} ELSE {}) :
       out' = [out EXCEPT ![t] = tree]
  /\ UNCHANGED <<storeVars, inputs, barrier, stray, days>>

\* Only a run that makes the tree itself lays the inputs over it.
MakeTree(t) ==
  /\ At(t, "tree")
  /\ IF out[t] = NoTree
     THEN /\ out' = [out EXCEPT ![t] = EmptyTree]
          /\ run' = [run EXCEPT ![t].pc = "overlay", ![t].mine = TRUE]
     ELSE Go(t, "overlay") /\ UNCHANGED out
  /\ UNCHANGED <<storeVars, inputs, barrier, stray, ends, days>>

Missing(t) == IF run[t].mine THEN Given(t) \ out[t].views ELSE {}
Overlay(t) ==
  /\ At(t, "overlay")
  /\ \E a \in Missing(t) : out' = [out EXCEPT ![t].views = @ \cup {a}]
  /\ UNCHANGED <<storeVars, inputs, run, barrier, stray, ends, days>>

Launch(t) ==
  /\ At(t, "overlay") /\ Missing(t) = {}
  /\ Go(t, IF run[t].interrupted THEN "publish" ELSE "child")
  /\ UNCHANGED <<storeVars, localVars>>

-----------------------------------------------------------------------------
\* The task's commands write to the tree and end.
Works(t) ==
  /\ At(t, "child") /\ out[t].made < Work[t]
  /\ out' = [out EXCEPT ![t].made = @ + 1]
  /\ UNCHANGED <<storeVars, inputs, run, barrier, stray, ends, days>>

\* The commands open every input they were given.
Succeeds(t) ==
  /\ At(t, "child") /\ out[t].made = Work[t] /\ Given(t) \subseteq out[t].views
  /\ run' = [run EXCEPT ![t].pc = "publish", ![t].good = TRUE]
  /\ UNCHANGED <<storeVars, localVars>>

\* They fail on a tree that lacks one.
FailsBare(t) ==
  /\ At(t, "child") /\ ~(Given(t) \subseteq out[t].views) /\ Go(t, "publish")
  /\ UNCHANGED <<storeVars, localVars>>

\* The commands fail, or are stopped because the run is told to end: what there is, is published.
Fails(t) ==
  /\ At(t, "child") /\ ends < MaxEnds
  /\ ends' = ends + 1 /\ Go(t, "publish")
  /\ UNCHANGED <<storeVars, inputs, out, barrier, stray, days>>

\* The snapshot is finished when the commands succeeded on finished inputs.
\* Faulty variant: the inputs may be unfinished.
Archive_AnyInputs(t) ==
  [key |-> t, tree |-> out[t], parents |-> run[t].parents, complete |-> run[t].good]
Archive(t) ==
  [key |-> t, tree |-> out[t], parents |-> run[t].parents,
   complete |-> run[t].good /\ \A k \in Requires[t] : Complete(run[t].parents[k])]

BuildArchive(t) ==
  /\ At(t, "publish")
  /\ run' = [run EXCEPT ![t] =
       IF current[t] = Archive(t) THEN [@ EXCEPT !.pc = "after", !.archive = Archive(t)]
       ELSE IF Admissible(Archive(t), t \in Partial)
            THEN [@ EXCEPT !.pc = "upload", !.archive = Archive(t)] ELSE NoRun]
  /\ UNCHANGED <<storeVars, localVars>>

Stored(t) ==
  \/ At(t, "upload") /\ Upload(run[t].archive) /\ Go(t, "certify")
  \/ At(t, "certify") /\ Certify(run[t].archive) /\ Go(t, "point")
  \/ At(t, "point") /\ Point(run[t].archive) /\ Go(t, "prune")
  \/ At(t, "prune") /\ Prune(t) /\ Go(t, "after")
StoreArchive(t) == Stored(t) /\ UNCHANGED localVars

\* Only a finished task goes on to its barrier and removes its tree.
Published(t) ==
  /\ At(t, "after")
  /\ IF ~Complete(run[t].archive) THEN Exit(t)
     ELSE Go(t, IF t \in Commits THEN "commit" ELSE "tidy")
  /\ UNCHANGED <<storeVars, localVars>>

\* A barrier that is there has to say the same.
PublishBarrier(t) ==
  /\ At(t, "commit")
  /\ IF barrier[t] \in {NoArchive, run[t].archive}
     THEN /\ barrier' = [barrier EXCEPT ![t] = run[t].archive]
          /\ IF run[t].good THEN Go(t, "tidy") ELSE Report(t)
     ELSE UNCHANGED barrier /\ Exit(t)
  /\ UNCHANGED <<storeVars, inputs, out, stray, ends, days>>

\* TERM while a skipped task makes up for its barrier is swallowed like OwnInterrupted.
CommitInterrupted(t) ==
  /\ At(t, "commit") /\ ~run[t].good /\ ends < MaxEnds /\ ends' = ends + 1
  /\ run' = [run EXCEPT ![t].pc = "tree", ![t].interrupted = TRUE]
  /\ \/ UNCHANGED barrier
     \/ barrier[t] = NoArchive /\ barrier' = [barrier EXCEPT ![t] = run[t].archive]
  /\ UNCHANGED <<storeVars, inputs, out, stray, days>>

Tidy(t) ==
  /\ At(t, "tidy") /\ out' = [out EXCEPT ![t] = NoTree] /\ Report(t)
  /\ UNCHANGED <<storeVars, inputs, barrier, stray, ends, days>>

\* TERM during staging, and SIGKILL anywhere, end the run where it stands: a tree may
\* be half removed, and the commands, which have a session of their own, may go on.
Removing(t) == run[t].pc \in {"clear", "tidy"} \/ (At(t, "own") /\ (Outdates(t) \/ Owes(t)))
Ended(t) ==
  /\ run[t].pc \notin {"idle", "done"} /\ ends < MaxEnds
  /\ ends' = ends + 1 /\ Exit(t)
  /\ \E tree \in {out[t]} \cup (IF Removing(t) THEN Leftovers(t) ELSE {}) :
       out' = [out EXCEPT ![t] = tree]
  /\ \/ UNCHANGED stray
     \/ At(t, "child") /\ stray' = stray \cup {[task |-> t, given |-> Given(t)]}
  /\ UNCHANGED <<storeVars, inputs, barrier, days>>

\* Commands whose run is gone write what they make of their inputs to the tree of
\* their task, even if it has been removed.  Inputs the tree is made for add nothing to it.
Strayed == {s.task : s \in stray}
InputsOf(t) == {inputs[t][k] : k \in DOMAIN inputs[t]}
StrayWrites(s) ==
  /\ out' = [out EXCEPT ![s.task] = [views |-> @.views \cup (s.given \ InputsOf(s.task)),
                                     made |-> IF @ = NoTree THEN 0 ELSE @.made]]
  /\ UNCHANGED <<storeVars, inputs, run, barrier, stray, ends, days>>

\* No run lasts a day: those there were have ended when one has passed.
Day ==
  /\ days < MaxDays /\ \A t \in Tasks : run[t].pc \in {"idle", "done"}
  /\ days' = days + 1 /\ Age
  /\ UNCHANGED <<inputs, out, run, barrier, stray, ends>>

-----------------------------------------------------------------------------
Staging(t) ==
  \/ RestoreViews(t) \/ CheckIdentity(t)
  \/ Clear(t) \/ Record(t) \/ OwnSnapshot(t) \/ MakeTree(t) \/ Overlay(t) \/ Launch(t)
Finishing(t) ==
  \/ Works(t) \/ Succeeds(t) \/ FailsBare(t) \/ BuildArchive(t) \/ StoreArchive(t)
  \/ Published(t) \/ PublishBarrier(t) \/ Tidy(t)
RunTask(t) == Staging(t) \/ Finishing(t)

Interrupted(t) == BeginInterrupted(t) \/ OwnInterrupted(t) \/ CommitInterrupted(t)

Next ==
  \/ Day \/ \E s \in stray : StrayWrites(s)
  \/ \E t \in Tasks : Begin(t) \/ RunTask(t) \/ Fails(t) \/ Interrupted(t) \/ Ended(t)

\* The partner requeues a task until it is finished, and a run goes on until it ends.
Fairness == \A t \in Tasks : WF_vars(Begin(t)) /\ WF_vars(RunTask(t))
Spec == Init /\ [][Next]_vars /\ Fairness

-----------------------------------------------------------------------------
(***************************************************************************)
(* Properties                                                              *)
(***************************************************************************)

\* What CURRENT names is in the store with its receipts, and so are the archives
\* it was made of and those a run has read the pointers of: neither an interrupted
\* publication nor the removal of old archives takes away what somebody uses.
CurrentWhole ==
  \A t \in Tasks :
    /\ current[t] # NoArchive =>
         current[t] \in tars \cap receipts /\ (ParentsOf(current[t]) \ {NoArchive}) \subseteq tars
    /\ At(t, "views") => Given(t) \subseteq tars

\* A snapshot has nothing in it of another version of its inputs than it names, however
\* often they were refreshed and its runs ended in between, unless commands of the task
\* outlived their run; and a finished one has everything of those it names.
MadeOfParents ==
  \A t \in Tasks : current[t] # NoArchive =>
    /\ t \notin Strayed => current[t].tree.views \subseteq ParentsOf(current[t])
    /\ Complete(current[t]) => ParentsOf(current[t]) \ {NoArchive} \subseteq current[t].tree.views

\* The commands of a task start on a tree that has all the inputs it was given.
StartsOnAllInputs ==
  \A t \in Tasks : At(t, "child") => Given(t) \subseteq out[t].views

\* The store keeps the promise of StageRegister: finished snapshots stand, they
\* are made of finished ones, and a barrier is committed once to a finished one.
Register == INSTANCE StageRegister
              WITH Stages <- Tasks, NoValue <- NoArchive, register <- current
KeepsRegister == Register!Spec

\* No run repairs a tree that is there and lacks an input it was made for.
Stranded(t) ==
  /\ ~Complete(current[t]) /\ out[t] # NoTree
  /\ inputs[t] # NoArchive /\ ~(InputsOf(t) \ {NoArchive} \subseteq out[t].views)
\* The task and all that it waits for, directly or not.
Upstream(t) ==
  {u \in Tasks : \A set \in SUBSET Tasks :
     (t \in set /\ \A v \in set : Requires[v] \cup Waits[v] \subseteq set) => u \in set}

\* With the partner requeuing, every task is finished and its barrier committed, wherever
\* its runs were ended, also between the snapshot and the barrier; unless it, or a task it
\* waits for, is left for ever with a tree that lacks an input.
AllFinish ==
  \A t \in Tasks :
    \/ <>(Complete(current[t]) /\ (t \in Commits => barrier[t] # NoArchive))
    \/ \E u \in Upstream(t) : <>[]Stranded(u)
=============================================================================
