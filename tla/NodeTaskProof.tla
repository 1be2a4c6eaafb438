---------------------------- MODULE NodeTaskProof ----------------------------
(***************************************************************************)
(* Safety of NodeTask for any tasks, inputs and numbers of ended runs: the *)
(* store keeps the promise of StageRegister, CURRENT always names what is  *)
(* in the store, and a snapshot has no other version of its inputs in it.  *)
(***************************************************************************)
EXTENDS NodeTask, TLAPS

Steps == {"idle", "views", "identity", "clear", "record", "own", "tree", "overlay", "child",
          "publish", "upload", "certify", "point", "prune", "after", "commit", "tidy", "done"}
Active(t) == run[t].pc \notin {"idle", "done"}
\* inputs.json holds the inputs of this run.
Recorded == Steps \ {"idle", "views", "identity", "clear", "record", "done"}
\* The archive of this run is not named by CURRENT yet, or is.
Storing == {"upload", "certify", "point"}
Stood == {"prune", "after", "commit"}
\* The commands have succeeded.
Closing == {"publish", "tidy"} \cup Storing \cup Stood

IsTree(x) == DOMAIN x = {"views", "made"}
IsRun(x) == DOMAIN x = {"pc", "parents", "refresh", "mine", "good", "interrupted", "archive"}
IsArchive(t, x) ==
  /\ x # NoArchive /\ x.key = t /\ IsTree(x.tree) /\ x.complete \in BOOLEAN
  /\ DOMAIN x.parents = Requires[t]
  /\ t \notin Strayed => x.tree.views \subseteq ParentsOf(x)
  /\ x.complete => ParentsOf(x) \ {NoArchive} \subseteq x.tree.views

Shape ==
  /\ DOMAIN current = Tasks /\ DOMAIN inputs = Tasks /\ DOMAIN out = Tasks
  /\ DOMAIN run = Tasks /\ DOMAIN barrier = Tasks
  /\ \A t \in Tasks : /\ IsTree(out[t]) /\ IsRun(run[t])
                      /\ run[t].pc \in Steps /\ run[t].good \in BOOLEAN
                      /\ run[t].good => run[t].pc \in Closing

\* What a run was given is in the store, and no day old unless CURRENT still
\* names it; what was finished is what CURRENT names.
HeldInputs(t) ==
  /\ DOMAIN run[t].parents = Requires[t]
  /\ \A k \in Requires[t] :
       LET g == run[t].parents[k] IN
       g # NoArchive => /\ g.key = k /\ g \in tars
                        /\ g = current[k] \/ g \notin aged
                        /\ g.complete => g = current[k]
Held == \A t \in Tasks : IF Active(t) THEN HeldInputs(t) ELSE DOMAIN run[t].parents = {}

\* What CURRENT names is in the store, certified, with all it was made of.
Named ==
  \A t \in Tasks : current[t] # NoArchive =>
    /\ IsArchive(t, current[t]) /\ current[t] \in tars \cap receipts
    /\ (ParentsOf(current[t]) \ {NoArchive}) \subseteq tars

\* The tree was made of no other inputs than inputs.json names, unless commands outlived
\* their run; commands that succeeded had them all.
Overlaid(t) ==
  /\ t \notin Strayed => out[t].views \subseteq InputsOf(t)
  /\ At(t, "record") /\ t \notin Strayed => out[t].views = {} \/ inputs[t] = run[t].parents
  /\ run[t].pc \in Recorded => inputs[t] = run[t].parents
  /\ At(t, "publish") /\ run[t].good => Given(t) \subseteq out[t].views

\* The archive a run stores may replace what CURRENT names.
InStore(t) ==
  LET a == run[t].archive IN
  /\ run[t].pc \in Storing =>
       /\ IsArchive(t, a) /\ a.parents = run[t].parents /\ Admissible(a, t \in Partial)
       /\ a.complete => \A k \in Requires[t] : Complete(run[t].parents[k])
  /\ run[t].pc \in {"certify", "point"} => a \in tars /\ a \notin aged
  /\ At(t, "point") => a \in receipts
  /\ run[t].pc \in Stood => a = current[t]
  /\ At(t, "commit") => Complete(a)

IInv == Shape /\ Held /\ Named /\ \A t \in Tasks : Overlaid(t) /\ InStore(t)

LEMMA NoRunIs ==
  /\ DOMAIN NoRun = {"pc", "parents", "refresh", "mine", "good", "interrupted", "archive"}
  /\ NoRun.pc = "idle" /\ NoRun.good = FALSE /\ DOMAIN NoRun.parents = {}
BY DEF NoRun, Nothing

LEMMA StrayOnes == stray \subseteq stray' => Strayed \subseteq Strayed'
BY DEF Strayed

LEMMA StrayStays == UNCHANGED stray => Strayed' = Strayed
BY DEF Strayed

\* What the ways to go on do to the runs.
Others(t) == DOMAIN run' = Tasks /\ \A u \in Tasks \ {t} : run'[u] = run[u]

LEMMA GoFacts ==
  ASSUME Shape, NEW t \in Tasks, NEW p, Go(t, p)
  PROVE  /\ Others(t) /\ IsRun(run'[t]) /\ run'[t].pc = p
         /\ run'[t].parents = run[t].parents /\ run'[t].good = run[t].good
         /\ run'[t].archive = run[t].archive
BY DEF Shape, IsRun, Go, Others

LEMMA ExitFacts ==
  ASSUME Shape, NEW t \in Tasks, Exit(t) \/ Report(t)
  PROVE  /\ Others(t) /\ IsRun(run'[t]) /\ run'[t].pc \in {"idle", "done"}
         /\ DOMAIN run'[t].parents = {} /\ run'[t].good = FALSE
<1>1. CASE Exit(t)
  BY <1>1, NoRunIs DEF Shape, IsRun, Exit, Others
<1>2. CASE Report(t)
  BY <1>2, NoRunIs DEF Shape, IsRun, Report, Others
<1>. QED BY <1>1, <1>2

-----------------------------------------------------------------------------
\* A step of t's run that leaves the store alone.
Local(t) ==
  /\ UNCHANGED storeVars /\ Others(t) /\ IsRun(run'[t])
  /\ run'[t].pc \in Steps /\ run'[t].good \in BOOLEAN
  /\ run'[t].good => run'[t].pc \in Closing
  /\ stray \subseteq stray'
  /\ IF Active(t)' THEN Active(t) /\ run'[t].parents = run[t].parents
                   ELSE DOMAIN run'[t].parents = {}
  /\ DOMAIN out' = Tasks /\ DOMAIN inputs' = Tasks /\ DOMAIN barrier' = Tasks
  /\ \A u \in Tasks \ {t} : out'[u] = out[u] /\ inputs'[u] = inputs[u]
  /\ IsTree(out'[t])

LEMMA LocalKeeps ==
  ASSUME IInv, NEW t \in Tasks, Local(t), Overlaid(t)', InStore(t)'
  PROVE  IInv'
<1>0. Strayed \subseteq Strayed'
  BY StrayOnes DEF Local
<1>1. Shape'
  <2>1. \A u \in Tasks \ {t} : run'[u] = run[u] /\ out'[u] = out[u]
    BY DEF IInv, Shape, Local, Others
  <2>2. DOMAIN current' = Tasks /\ DOMAIN inputs' = Tasks /\ DOMAIN out' = Tasks
    BY DEF IInv, Shape, Local, storeVars
  <2>. QED BY <2>1, <2>2 DEF IInv, Shape, Local, Others, IsRun, IsTree, Closing
<1>2. Held'
  BY DEF IInv, Shape, Local, Others, Held, HeldInputs, Active, storeVars
<1>3. Named'
  BY <1>0 DEF IInv, Named, Local, storeVars, IsArchive, ParentsOf, IsTree
<1>4. ASSUME NEW u \in Tasks, u # t PROVE Overlaid(u)' /\ InStore(u)'
  <2>1. /\ run'[u] = run[u] /\ out'[u] = out[u] /\ inputs'[u] = inputs[u]
        /\ UNCHANGED <<tars, receipts, aged, current>>
    BY <1>4 DEF Local, Others, storeVars, IInv, Shape
  <2>2. Overlaid(u) /\ InStore(u)
    BY DEF IInv
  <2>3. Overlaid(u)'
    BY <1>0, <2>1, <2>2 DEF Overlaid, InputsOf, At, Given, ParentsOf
  <2>4. InStore(u)'
    BY <1>0, <2>1, <2>2 DEF InStore, At, Admissible, Readable, IsArchive, ParentsOf, IsTree
  <2>. QED BY <2>3, <2>4
<1>. QED BY <1>1, <1>2, <1>3, <1>4 DEF IInv

\* The run is over, wherever that happens; a tree that is left has nothing new in it.
LEMMA ExitKeeps ==
  ASSUME IInv, NEW t \in Tasks, Exit(t) \/ Report(t), UNCHANGED <<storeVars, inputs>>,
         DOMAIN out' = Tasks, \A u \in Tasks \ {t} : out'[u] = out[u],
         IsTree(out'[t]), out'[t].views \subseteq out[t].views,
         DOMAIN barrier' = Tasks, stray \subseteq stray'
  PROVE  IInv'
<1> USE DEF storeVars, Steps, Recorded, Storing, Stood, Closing, Active
<1>0. Shape /\ IsTree(out[t]) /\ Overlaid(t) /\ DOMAIN out = Tasks /\ DOMAIN inputs = Tasks
  BY DEF IInv, Shape
<1>1. /\ Others(t) /\ IsRun(run'[t]) /\ run'[t].pc \in {"idle", "done"}
      /\ DOMAIN run'[t].parents = {} /\ run'[t].good = FALSE
  BY <1>0, ExitFacts
<1>2. Local(t)
  BY <1>0, <1>1 DEF Local
<1>3. Overlaid(t)' /\ InStore(t)'
  BY <1>0, <1>1, StrayOnes DEF Overlaid, InputsOf, InStore, At
<1>. QED BY <1>2, <1>3, LocalKeeps

LEMMA ExitsKeep ==
  ASSUME IInv, NEW t \in Tasks, Exit(t) \/ Report(t), UNCHANGED <<storeVars, inputs, stray>>,
         out' = out \/ out' = [out EXCEPT ![t] = NoTree], DOMAIN barrier' = Tasks
  PROVE  IInv'
<1>1. IsTree(out[t]) /\ IsTree(NoTree) /\ NoTree.views = {} /\ DOMAIN out = Tasks
  BY DEF IInv, Shape, NoTree, IsTree
<1>. QED BY <1>1, ExitKeeps

LEMMA StagingKeeps ==
  ASSUME IInv, NEW t \in Tasks, Staging(t)
  PROVE  IInv'
<1> USE DEF localVars, storeVars, At, Steps, Recorded, Storing, Stood, Closing, Active
<1>0. /\ Shape /\ IsRun(run[t]) /\ IsTree(out[t]) /\ run[t].good \in BOOLEAN
      /\ Overlaid(t) /\ InStore(t) /\ DOMAIN out = Tasks /\ DOMAIN inputs = Tasks
      /\ DOMAIN barrier = Tasks /\ DOMAIN run = Tasks /\ (run[t].good => run[t].pc \in Closing)
      /\ UNCHANGED stray /\ Strayed' = Strayed
  <2>1. UNCHANGED stray
    BY DEF Staging, RestoreViews, CheckIdentity, Clear, Record, OwnSnapshot, MakeTree, Overlay, Launch
  <2>. QED BY <2>1, StrayStays DEF IInv, Shape
<1>1. CASE RestoreViews(t)
  <2>0. UNCHANGED <<storeVars, localVars>>
    BY <1>1 DEF RestoreViews
  <2>1. CASE Exit(t)
    BY <1>0, <2>0, <2>1, ExitsKeep
  <2>2. CASE Go(t, "identity")
    <3>1. Local(t)
      BY <1>0, <1>1, <2>0, <2>2, GoFacts DEF Local, RestoreViews
    <3>2. Overlaid(t)' /\ InStore(t)'
      BY <1>0, <2>0, <2>2, GoFacts DEF Overlaid, InputsOf, InStore
    <3>. QED BY <3>1, <3>2, LocalKeeps
  <2>. QED BY <1>1, <2>1, <2>2 DEF RestoreViews
<1>2. CASE CheckIdentity(t)
  <2>0. UNCHANGED <<storeVars, localVars>> /\ At(t, "identity")
    BY <1>2 DEF CheckIdentity
  <2>1. CASE SameInputs(t) /\ Go(t, "record")
    <3>1. Local(t)
      BY <1>0, <2>0, <2>1, GoFacts DEF Local
    <3>2. t \notin Strayed => inputs[t] = run[t].parents \/ out[t].views = {}
      BY <1>0, <2>1 DEF SameInputs, Overlaid, InputsOf, NoArchive
    <3>3. Overlaid(t)' /\ InStore(t)'
      BY <1>0, <2>0, <2>1, <3>2, GoFacts DEF Overlaid, InputsOf, InStore
    <3>. QED BY <3>1, <3>3, LocalKeeps
  <2>2. CASE run' = [run EXCEPT ![t].pc = "clear", ![t].refresh = TRUE]
    <3>1. /\ Others(t) /\ IsRun(run'[t]) /\ run'[t].pc = "clear"
          /\ run'[t].parents = run[t].parents /\ run'[t].good = run[t].good
      BY <1>0, <2>2 DEF IsRun, Others
    <3>2. Local(t)
      BY <1>0, <2>0, <3>1 DEF Local
    <3>3. Overlaid(t)' /\ InStore(t)'
      BY <1>0, <2>0, <3>1 DEF Overlaid, InputsOf, InStore
    <3>. QED BY <3>2, <3>3, LocalKeeps
  <2>3. CASE Exit(t)
    BY <1>0, <2>0, <2>3, ExitsKeep
  <2>. QED BY <1>2, <2>1, <2>2, <2>3 DEF CheckIdentity
<1>3. CASE Clear(t)
  <2>1. Go(t, "record")
    BY <1>3 DEF Clear
  <2>2. Local(t)
    BY <1>0, <1>3, <2>1, GoFacts DEF Local, Clear, NoTree, IsTree
  <2>3. Overlaid(t)' /\ InStore(t)'
    BY <1>0, <1>3, <2>1, GoFacts DEF Overlaid, InputsOf, InStore, Clear, NoTree, IsTree
  <2>. QED BY <2>2, <2>3, LocalKeeps
<1>4. CASE Record(t)
  <2>1. Go(t, "own")
    BY <1>4 DEF Record
  <2>2. Local(t)
    BY <1>0, <1>4, <2>1, GoFacts DEF Local, Record
  <2>3. Overlaid(t)' /\ InStore(t)'
    BY <1>0, <1>4, <2>1, GoFacts DEF Overlaid, InputsOf, InStore, Record
  <2>. QED BY <2>2, <2>3, LocalKeeps
<1>5. CASE OwnSnapshot(t)
  <2>0. UNCHANGED <<storeVars, inputs, barrier, ends, days>> /\ At(t, "own")
    BY <1>5 DEF OwnSnapshot
  <2>1. /\ inputs[t] = run[t].parents
        /\ t \notin Strayed => out[t].views \subseteq ParentsOf(run[t])
    BY <1>0, <2>0 DEF Overlaid, InputsOf, ParentsOf
  <2>2. CASE Go(t, "tree") /\ UNCHANGED out
    <3>1. Local(t)
      BY <1>0, <2>0, <2>2, GoFacts DEF Local
    <3>2. Overlaid(t)' /\ InStore(t)'
      BY <1>0, <2>0, <2>2, GoFacts DEF Overlaid, InputsOf, InStore
    <3>. QED BY <3>1, <3>2, LocalKeeps
  <2>3. CASE Outdated(t)
    <3>1. /\ Others(t) /\ IsRun(run'[t]) /\ run'[t].pc = "tree" /\ out'[t] = NoTree
          /\ run'[t].parents = run[t].parents /\ run'[t].good = run[t].good
      BY <1>0, <2>3 DEF IsRun, Others, Outdated
    <3>2. Local(t)
      BY <1>0, <2>0, <2>3, <3>1 DEF Local, Outdated, NoTree, IsTree
    <3>3. Overlaid(t)' /\ InStore(t)'
      BY <1>0, <2>0, <2>1, <3>1 DEF Overlaid, InputsOf, InStore, NoTree
    <3>. QED BY <3>2, <3>3, LocalKeeps
  <2>4. CASE Unfinished(t)
    <3>1. Go(t, "tree") /\ (out'[t] = out[t] \/ out'[t] = current[t].tree)
      BY <1>0, <2>4 DEF Unfinished
    <3>2. /\ IsTree(current[t].tree) /\ current[t].parents = run[t].parents
          /\ t \notin Strayed => current[t].tree.views \subseteq ParentsOf(current[t])
      BY <2>4 DEF Unfinished, Restored, IInv, Named, IsArchive
    <3>3. (t \notin Strayed => out'[t].views \subseteq ParentsOf(run[t])) /\ IsTree(out'[t])
      BY <1>0, <2>1, <3>1, <3>2 DEF ParentsOf
    <3>4. Local(t)
      BY <1>0, <2>0, <2>4, <3>1, <3>3, GoFacts DEF Local, Unfinished
    <3>5. Overlaid(t)' /\ InStore(t)'
      BY <1>0, <2>0, <2>1, <3>1, <3>3, GoFacts DEF Overlaid, InputsOf, ParentsOf, InStore
    <3>. QED BY <3>4, <3>5, LocalKeeps
  <2>5. CASE run' = [run EXCEPT ![t].pc = "commit", ![t].archive = current[t]]
             /\ out' = [out EXCEPT ![t] = EmptyTree] /\ Complete(current[t])
    <3>1. /\ Others(t) /\ IsRun(run'[t]) /\ run'[t].pc = "commit" /\ out'[t] = EmptyTree
          /\ run'[t].parents = run[t].parents /\ run'[t].good = run[t].good
          /\ run'[t].archive = current[t]
      BY <1>0, <2>5 DEF IsRun, Others
    <3>2. Local(t)
      BY <1>0, <2>0, <2>5, <3>1 DEF Local, EmptyTree, IsTree
    <3>3. Overlaid(t)' /\ InStore(t)'
      BY <1>0, <2>0, <2>1, <2>5, <3>1 DEF Overlaid, InputsOf, InStore, EmptyTree, Complete
    <3>. QED BY <3>2, <3>3, LocalKeeps
  <2>6. CASE (Report(t) \/ Exit(t)) /\ UNCHANGED out
    BY <1>0, <2>0, <2>6, ExitsKeep
  <2>7. CASE Finished(t)
    BY <2>5, <2>6, <2>7 DEF Finished
  <2>. QED
    BY <1>5, <2>2, <2>3, <2>4, <2>6, <2>7 DEF OwnSnapshot, NoneYet, Mismatch
<1>6. CASE MakeTree(t)
  <2>0. UNCHANGED <<storeVars, inputs, barrier, ends, days>> /\ At(t, "tree")
    BY <1>6 DEF MakeTree
  <2>1. /\ Others(t) /\ IsRun(run'[t]) /\ run'[t].pc = "overlay"
        /\ run'[t].parents = run[t].parents /\ run'[t].good = run[t].good
        /\ out' = out \/ out' = [out EXCEPT ![t] = EmptyTree]
    <3>1. CASE out[t] = NoTree
      BY <1>0, <1>6, <3>1 DEF MakeTree, IsRun, Others
    <3>2. CASE out[t] # NoTree
      BY <1>0, <1>6, <3>2, GoFacts DEF MakeTree
    <3>. QED BY <3>1, <3>2
  <2>2. Local(t)
    BY <1>0, <2>0, <2>1 DEF Local, EmptyTree, IsTree
  <2>3. Overlaid(t)' /\ InStore(t)'
    BY <1>0, <2>0, <2>1 DEF Overlaid, InputsOf, InStore, EmptyTree
  <2>. QED BY <2>2, <2>3, LocalKeeps
<1>7. CASE Overlay(t)
  <2>1. PICK a \in Missing(t) : out' = [out EXCEPT ![t].views = @ \cup {a}]
    BY <1>7 DEF Overlay
  <2>2. UNCHANGED <<storeVars, inputs, run, barrier>> /\ At(t, "overlay")
    BY <1>7 DEF Overlay
  <2>3. inputs[t] = run[t].parents
    BY <1>0, <2>2 DEF Overlaid
  <2>4. a \in InputsOf(t)
    BY <2>1, <2>3 DEF Missing, Given, ParentsOf, InputsOf
  <2>5. IsTree(out'[t]) /\ out'[t].views = out[t].views \cup {a}
    BY <1>0, <2>1 DEF IsTree
  <2>6. Local(t)
    BY <1>0, <2>1, <2>2, <2>5 DEF Local, Others
  <2>7. Overlaid(t)'
    BY <1>0, <2>2, <2>4, <2>5 DEF Overlaid, InputsOf
  <2>8. InStore(t)'
    BY <1>0, <2>2 DEF InStore
  <2>. QED BY <2>6, <2>7, <2>8, LocalKeeps
<1>8. CASE Launch(t)
  <2>1. PICK next \in {"publish", "child"} : Go(t, next)
    BY <1>8 DEF Launch
  <2>2. Local(t)
    BY <1>0, <1>8, <2>1, GoFacts DEF Local, Launch
  <2>3. Overlaid(t)' /\ InStore(t)'
    BY <1>0, <1>8, <2>1, GoFacts DEF Overlaid, InputsOf, InStore, Launch
  <2>. QED BY <2>2, <2>3, LocalKeeps
<1>. QED BY <1>1, <1>2, <1>3, <1>4, <1>5, <1>6, <1>7, <1>8 DEF Staging

-----------------------------------------------------------------------------
LEMMA BeginKeeps ==
  ASSUME IInv, NEW t \in Tasks, Begin(t) \/ BeginInterrupted(t)
  PROVE  IInv'
<1> USE DEF localVars, storeVars, At, Steps, Recorded, Storing, Stood, Closing, Active
<1>0. /\ Shape /\ Held /\ IsRun(run[t]) /\ run[t].good \in BOOLEAN /\ DOMAIN run = Tasks
      /\ Named /\ Requires[t] \subseteq Tasks /\ (run[t].good => run[t].pc \in Closing)
  BY NodeAssumption DEF IInv, Shape
<1>1. /\ Others(t) /\ IsRun(run'[t]) /\ run'[t].pc = "views"
      /\ DOMAIN run'[t].parents = Requires[t] /\ run'[t].good = FALSE
      /\ \A k \in Requires[t] : run'[t].parents[k] \in {current[k], NoArchive}
  <2>1. CASE Begin(t)
    BY <1>0, <2>1 DEF Begin, IsRun, Others
  <2>2. CASE BeginInterrupted(t)
    <3>1. PICK lost \in SUBSET Requires[t] :
            run' = [run EXCEPT ![t].pc = "views", ![t].interrupted = TRUE,
                      ![t].parents = [k \in Requires[t] |->
                                        IF k \in lost THEN NoArchive ELSE current[k]]]
      BY <2>2 DEF BeginInterrupted
    <3>. QED BY <1>0, <2>2, <3>1 DEF BeginInterrupted, IsRun, Others
  <2>. QED BY <2>1, <2>2
<1>2. UNCHANGED <<tars, receipts, aged, current, inputs, out, barrier, stray>> /\ Strayed' = Strayed
  BY StrayStays DEF Begin, BeginInterrupted
<1>3. Shape'
  BY <1>0, <1>1, <1>2 DEF Shape, Others, IsRun, IsTree
<1>4. HeldInputs(t)'
  BY <1>0, <1>1, <1>2 DEF HeldInputs, Named, IsArchive
<1>5. Held'
  <2> SUFFICES ASSUME NEW u \in Tasks
               PROVE  IF Active(u)' THEN HeldInputs(u)' ELSE DOMAIN run'[u].parents = {}
    BY DEF Held
  <2>1. CASE u = t
    BY <1>1, <1>4, <2>1
  <2>2. CASE u # t
    <3>1. run'[u] = run[u] /\ (IF Active(u) THEN HeldInputs(u) ELSE DOMAIN run[u].parents = {})
      BY <1>0, <1>1, <2>2 DEF Held, Others
    <3>2. HeldInputs(u) => HeldInputs(u)'
      BY <1>2, <3>1 DEF HeldInputs
    <3>3. QED
      BY <3>1, <3>2
  <2>3. QED
    BY <2>1, <2>2
<1>6. Named'
  BY <1>0, <1>2 DEF Named, IsArchive, ParentsOf, IsTree
<1>7. Overlaid(t)' /\ InStore(t)'
  BY <1>1, <1>2 DEF IInv, Overlaid, InputsOf, InStore
<1>8. ASSUME NEW u \in Tasks, u # t PROVE Overlaid(u)' /\ InStore(u)'
  <2>1. run'[u] = run[u] /\ Overlaid(u) /\ InStore(u)
    BY <1>1, <1>8 DEF Others, IInv
  <2>2. Overlaid(u)'
    BY <1>2, <2>1 DEF Overlaid, InputsOf, Given, ParentsOf
  <2>3. InStore(u)'
    BY <1>2, <2>1 DEF InStore, Admissible, Readable, IsArchive, ParentsOf, IsTree
  <2>. QED BY <2>2, <2>3
<1>. QED BY <1>3, <1>5, <1>6, <1>7, <1>8 DEF IInv

\* An archive is what the run made of its inputs, and may be stored.
LEMMA ArchiveIsOne ==
  ASSUME IInv, NEW t \in Tasks, At(t, "publish")
  PROVE  /\ IsArchive(t, Archive(t)) /\ Archive(t).parents = run[t].parents
         /\ Archive(t).complete => \A k \in Requires[t] : Complete(run[t].parents[k])
         /\ Archive(t).complete => run[t].good
<1> DEFINE a == Archive(t)
<1>1. /\ a.key = t /\ a.tree = out[t] /\ a.parents = run[t].parents
      /\ a.complete = (run[t].good /\ \A k \in Requires[t] : Complete(run[t].parents[k]))
  BY DEF Archive
<1>2. a # NoArchive
  <2>1. DOMAIN a = {"key", "tree", "parents", "complete"}
    BY DEF Archive
  <2>. QED BY <2>1 DEF NoArchive
<1>3. /\ IsTree(out[t]) /\ DOMAIN run[t].parents = Requires[t]
      /\ t \notin Strayed => out[t].views \subseteq ParentsOf(run[t])
      /\ run[t].good => ParentsOf(run[t]) \ {NoArchive} \subseteq out[t].views
  BY DEF Given, IInv, Shape, Overlaid, Recorded, Steps, InputsOf, ParentsOf, At, Held, HeldInputs, Active
<1>4. a.complete \in BOOLEAN
  BY <1>1
<1>. QED BY <1>1, <1>2, <1>3, <1>4 DEF IsArchive, ParentsOf

LEMMA FinishingKeeps ==
  ASSUME IInv, NEW t \in Tasks,
         \/ Works(t) \/ Succeeds(t) \/ FailsBare(t) \/ BuildArchive(t) \/ Published(t)
         \/ PublishBarrier(t) \/ Tidy(t) \/ Fails(t)
  PROVE  IInv'
<1> USE DEF localVars, storeVars, At, Steps, Recorded, Storing, Stood, Closing, Active
<1>0. /\ Shape /\ IsRun(run[t]) /\ IsTree(out[t]) /\ run[t].good \in BOOLEAN
      /\ Overlaid(t) /\ InStore(t) /\ DOMAIN out = Tasks /\ DOMAIN inputs = Tasks
      /\ DOMAIN barrier = Tasks /\ DOMAIN run = Tasks /\ (run[t].good => run[t].pc \in Closing)
      /\ UNCHANGED stray /\ Strayed' = Strayed
  <2>1. UNCHANGED stray
    BY DEF Works, Succeeds, FailsBare, BuildArchive, Published, PublishBarrier, Tidy, Fails
  <2>. QED BY <2>1, StrayStays DEF IInv, Shape
<1>1. CASE Works(t)
  <2>1. UNCHANGED <<storeVars, inputs, run, barrier>> /\ At(t, "child")
    BY <1>1 DEF Works
  <2>2. IsTree(out'[t]) /\ out'[t].views = out[t].views
    BY <1>0, <1>1 DEF Works, IsTree
  <2>3. Local(t)
    BY <1>0, <1>1, <2>1, <2>2 DEF Local, Others, Works
  <2>4. Overlaid(t)' /\ InStore(t)'
    BY <1>0, <2>1, <2>2 DEF Overlaid, InputsOf, InStore
  <2>. QED BY <2>3, <2>4, LocalKeeps
<1>2. CASE Succeeds(t)
  <2>1. UNCHANGED <<storeVars, localVars>> /\ At(t, "child") /\ Given(t) \subseteq out[t].views
    BY <1>2 DEF Succeeds
  <2>2. /\ Others(t) /\ IsRun(run'[t]) /\ run'[t].pc = "publish"
        /\ run'[t].parents = run[t].parents /\ run'[t].good = TRUE
    BY <1>0, <1>2 DEF Succeeds, IsRun, Others
  <2>3. Local(t)
    BY <1>0, <2>1, <2>2 DEF Local
  <2>4. Overlaid(t)' /\ InStore(t)'
    BY <1>0, <2>1, <2>2 DEF Overlaid, InputsOf, InStore, Given, ParentsOf
  <2>. QED BY <2>3, <2>4, LocalKeeps
<1>3. CASE BuildArchive(t)
  <2> DEFINE a == Archive(t)
  <2>0. UNCHANGED <<storeVars, localVars>> /\ At(t, "publish")
    BY <1>3 DEF BuildArchive
  <2>1. /\ IsArchive(t, a) /\ a.parents = run[t].parents
        /\ a.complete => \A k \in Requires[t] : Complete(run[t].parents[k])
    BY <2>0, ArchiveIsOne
  <2> HIDE DEF a
  <2>2. CASE current[t] = a
    <3>1. /\ Others(t) /\ IsRun(run'[t]) /\ run'[t].pc = "after"
          /\ run'[t].parents = run[t].parents /\ run'[t].good = run[t].good
          /\ run'[t].archive = a
      BY <1>0, <1>3, <2>2 DEF BuildArchive, IsRun, Others, a
    <3>2. Local(t)
      BY <1>0, <2>0, <3>1 DEF Local
    <3>3. Overlaid(t)' /\ InStore(t)'
      BY <1>0, <2>0, <2>2, <3>1 DEF Overlaid, InputsOf, InStore
    <3>. QED BY <3>2, <3>3, LocalKeeps
  <2>3. CASE current[t] # a /\ Admissible(a, t \in Partial)
    <3>1. /\ Others(t) /\ IsRun(run'[t]) /\ run'[t].pc = "upload"
          /\ run'[t].parents = run[t].parents /\ run'[t].good = run[t].good
          /\ run'[t].archive = a
      BY <1>0, <1>3, <2>3 DEF BuildArchive, IsRun, Others, a
    <3>2. Local(t)
      BY <1>0, <2>0, <3>1 DEF Local
    <3>3. Overlaid(t)'
      BY <1>0, <2>0, <3>1 DEF Overlaid, InputsOf
    <3>4. InStore(t)'
      BY <1>0, <2>0, <2>1, <3>1, <2>3
         DEF InStore, Admissible, Readable, IsArchive, ParentsOf, IsTree
    <3>. QED BY <3>2, <3>3, <3>4, LocalKeeps
  <2>4. CASE current[t] # a /\ ~Admissible(a, t \in Partial)
    <3>1. Exit(t)
      BY <1>3, <2>4 DEF BuildArchive, Exit, a
    <3>. QED BY <1>0, <2>0, <3>1, ExitsKeep
  <2>. QED BY <2>2, <2>3, <2>4
<1>4. CASE Published(t)
  <2>0. UNCHANGED <<storeVars, localVars>> /\ At(t, "after")
    BY <1>4 DEF Published
  <2>1. CASE Exit(t)
    BY <1>0, <2>0, <2>1, ExitsKeep
  <2>2. CASE Go(t, "commit") /\ Complete(run[t].archive)
    <3>1. Local(t)
      BY <1>0, <2>0, <2>2, GoFacts DEF Local
    <3>2. Overlaid(t)' /\ InStore(t)'
      BY <1>0, <2>0, <2>2, GoFacts DEF Overlaid, InputsOf, InStore
    <3>. QED BY <3>1, <3>2, LocalKeeps
  <2>3. CASE Go(t, "tidy")
    <3>1. Local(t)
      BY <1>0, <2>0, <2>3, GoFacts DEF Local
    <3>2. Overlaid(t)' /\ InStore(t)'
      BY <1>0, <2>0, <2>3, GoFacts DEF Overlaid, InputsOf, InStore
    <3>. QED BY <3>1, <3>2, LocalKeeps
  <2>. QED BY <1>4, <2>1, <2>2, <2>3 DEF Published
<1>5. CASE PublishBarrier(t)
  <2>0. UNCHANGED <<storeVars, inputs, out>> /\ At(t, "commit") /\ DOMAIN barrier' = Tasks
    BY <1>0, <1>5 DEF PublishBarrier
  <2>1. CASE Exit(t) \/ Report(t)
    BY <1>0, <2>0, <2>1, ExitsKeep
  <2>2. CASE Go(t, "tidy")
    <3>1. Local(t)
      BY <1>0, <2>0, <2>2, GoFacts DEF Local
    <3>2. Overlaid(t)' /\ InStore(t)'
      BY <1>0, <2>0, <2>2, GoFacts DEF Overlaid, InputsOf, InStore
    <3>. QED BY <3>1, <3>2, LocalKeeps
  <2>. QED BY <1>5, <2>1, <2>2 DEF PublishBarrier
<1>6. CASE Tidy(t)
  BY <1>0, <1>6, ExitsKeep DEF Tidy
<1>7. CASE Fails(t) \/ FailsBare(t)
  <2>0. UNCHANGED <<storeVars, inputs, out, barrier>> /\ At(t, "child") /\ Go(t, "publish")
    BY <1>7 DEF Fails, FailsBare
  <2>1. Local(t)
    BY <1>0, <2>0, GoFacts DEF Local
  <2>2. Overlaid(t)' /\ InStore(t)'
    BY <1>0, <2>0, GoFacts DEF Overlaid, InputsOf, InStore
  <2>. QED BY <2>1, <2>2, LocalKeeps
<1>. QED BY <1>1, <1>2, <1>3, <1>4, <1>5, <1>6, <1>7

\* What is left of a tree has nothing new in it.
LEMMA LeftoversAreOld ==
  ASSUME NEW t \in Tasks, NEW tree \in Leftovers(t)
  PROVE  IsTree(tree) /\ tree.views \subseteq out[t].views
BY DEF Leftovers, NoTree, IsTree

LEMMA EndedKeeps ==
  ASSUME IInv, NEW t \in Tasks, Ended(t)
  PROVE  IInv'
<1>1. PICK tree \in {out[t]} \cup (IF Removing(t) THEN Leftovers(t) ELSE {}) :
        out' = [out EXCEPT ![t] = tree]
  BY DEF Ended
<1>2. DOMAIN out = Tasks /\ IsTree(out[t]) /\ DOMAIN barrier = Tasks
  BY DEF IInv, Shape
<1>3. IsTree(tree) /\ tree.views \subseteq out[t].views
  BY <1>1, <1>2, LeftoversAreOld
<1>4. Exit(t) /\ UNCHANGED <<storeVars, inputs, barrier>> /\ stray \subseteq stray'
  BY DEF Ended
<1>. QED BY <1>1, <1>2, <1>3, <1>4, ExitKeeps

\* A TERM that is swallowed: the run goes on with a tree of its own inputs.
LEMMA SwallowedKeeps ==
  ASSUME IInv, NEW t \in Tasks, OwnInterrupted(t) \/ CommitInterrupted(t)
  PROVE  IInv'
<1> USE DEF storeVars, At, Steps, Recorded, Storing, Stood, Closing, Active
<1>0. /\ Shape /\ IsRun(run[t]) /\ IsTree(out[t]) /\ run[t].good \in BOOLEAN
      /\ Overlaid(t) /\ InStore(t) /\ DOMAIN out = Tasks /\ DOMAIN inputs = Tasks
      /\ DOMAIN barrier = Tasks /\ DOMAIN run = Tasks /\ (run[t].good => run[t].pc \in Closing)
  BY DEF IInv, Shape
<1>1. /\ run[t].pc \in {"own", "commit"} /\ run[t].good = FALSE
      /\ UNCHANGED <<storeVars, inputs, stray>> /\ DOMAIN barrier' = Tasks
  BY <1>0 DEF OwnInterrupted, CommitInterrupted
<1>2. /\ Others(t) /\ IsRun(run'[t]) /\ run'[t].pc = "tree"
      /\ run'[t].parents = run[t].parents /\ run'[t].good = run[t].good
  BY <1>0 DEF OwnInterrupted, CommitInterrupted, IsRun, Others
<1>3. inputs[t] = run[t].parents /\ (t \notin Strayed => out[t].views \subseteq ParentsOf(run[t]))
  BY <1>0, <1>1 DEF Overlaid, InputsOf, ParentsOf
<1> DEFINE Fits(o) == /\ DOMAIN o = Tasks /\ (\A u \in Tasks \ {t} : o[u] = out[u])
                      /\ IsTree(o[t]) /\ (t \notin Strayed => o[t].views \subseteq ParentsOf(run[t]))
<1>4. Fits(out')
  <2>1. CASE UNCHANGED out
    BY <1>0, <1>3, <2>1
  <2>2. ASSUME NEW tree \in Leftovers(t) \cup {out[t], EmptyTree}, out' = [out EXCEPT ![t] = tree]
        PROVE  Fits(out')
    BY <1>0, <1>3, <2>2, LeftoversAreOld DEF EmptyTree, IsTree
  <2>3. ASSUME Restored(t), out' = [out EXCEPT ![t] = current[t].tree]
        PROVE  Fits(out')
    BY <1>0, <1>3, <2>3 DEF Restored, IInv, Named, IsArchive, ParentsOf
  <2>4. CASE OwnInterrupted(t)
    <3>1. PICK tree \in Leftovers(t) \cup {out[t], EmptyTree, current[t].tree} :
            /\ out' = [out EXCEPT ![t] = tree]
            /\ tree \in Leftovers(t) \cup {out[t], EmptyTree} \/ (Restored(t) /\ tree = current[t].tree)
      BY <2>4 DEF OwnInterrupted
    <3>. QED BY <2>2, <2>3, <3>1
  <2>. QED BY <2>1, <2>4 DEF CommitInterrupted
<1>5. Local(t)
  BY <1>0, <1>1, <1>2, <1>4 DEF Local
<1>6. Overlaid(t)' /\ InStore(t)'
  BY <1>0, <1>1, <1>2, <1>3, <1>4, StrayStays DEF Overlaid, InputsOf, ParentsOf, InStore
<1>. QED BY <1>5, <1>6, LocalKeeps

\* Commands that outlived their run write to a tree nothing is said of any more.
LEMMA StrayKeeps ==
  ASSUME IInv, NEW s \in stray, StrayWrites(s)
  PROVE  IInv'
<1>1. UNCHANGED <<tars, receipts, aged, current, inputs, run, barrier, stray>> /\ Strayed' = Strayed
  BY StrayStays DEF StrayWrites, storeVars
<1>2. s.task \in Strayed
  BY DEF Strayed
<1>3. /\ DOMAIN out' = Tasks /\ \A t \in Tasks : IsTree(out[t]) => IsTree(out'[t])
      /\ \A t \in Tasks : out[t].views \subseteq out'[t].views
      /\ \A t \in Tasks \ Strayed : out'[t] = out[t]
  BY <1>2 DEF StrayWrites, IsTree, IInv, Shape
<1>4. Shape' /\ Held' /\ Named'
  BY <1>1, <1>3 DEF IInv, Shape, IsRun, Closing, Held, HeldInputs, Active, Named, IsArchive,
                    ParentsOf, IsTree
<1>5. \A t \in Tasks : Overlaid(t)' /\ InStore(t)'
  BY <1>1, <1>3 DEF IInv, Overlaid, InputsOf, Given, InStore, At, Admissible, Readable, IsArchive,
                    ParentsOf, IsTree
<1>. QED BY <1>4, <1>5 DEF IInv

-----------------------------------------------------------------------------
\* The four writes of publish.
LEMMA UploadKeeps ==
  ASSUME IInv, NEW t \in Tasks, At(t, "upload"), Upload(run[t].archive), Go(t, "certify"),
         UNCHANGED localVars
  PROVE  IInv'
<1> USE DEF localVars, At, Steps, Recorded, Storing, Stood, Closing, Active
<1>0. /\ Shape /\ Held /\ Named /\ \A u \in Tasks : Overlaid(u) /\ InStore(u)
      /\ Strayed' = Strayed
  BY StrayStays DEF IInv
<1>1. /\ Others(t) /\ IsRun(run'[t]) /\ run'[t].pc = "certify"
      /\ run'[t].parents = run[t].parents /\ run'[t].good = run[t].good
      /\ run'[t].archive = run[t].archive
  BY <1>0, GoFacts
<1> DEFINE a == run[t].archive
<1>2. /\ tars' = tars \cup {a} /\ aged' = aged \ {a}
      /\ UNCHANGED <<receipts, current, inputs, out, barrier>>
  BY DEF Upload
<1> HIDE DEF a
<1>3. Shape'
  BY <1>0, <1>1, <1>2 DEF Shape, Others, IsRun, IsTree
<1>4. Held'
  BY <1>0, <1>1, <1>2 DEF Held, HeldInputs, Others
<1>5. Named'
  BY <1>0, <1>2 DEF Named, IsArchive, ParentsOf, IsTree
<1>6. ASSUME NEW u \in Tasks PROVE Overlaid(u)'
  BY <1>0, <1>1, <1>2 DEF Overlaid, InputsOf, Given, ParentsOf, Others
<1>7. ASSUME NEW u \in Tasks, u # t PROVE InStore(u)'
  <2>1. run'[u] = run[u] /\ InStore(u)
    BY <1>0, <1>1, <1>7 DEF Others
  <2>. QED BY <1>0, <1>2, <2>1 DEF InStore, Admissible, Readable, IsArchive, ParentsOf, IsTree
<1>8. InStore(t)'
  BY <1>0, <1>1, <1>2 DEF InStore, Admissible, Readable, IsArchive, ParentsOf, IsTree, a
<1>. QED BY <1>3, <1>4, <1>5, <1>6, <1>7, <1>8 DEF IInv

LEMMA CertifyKeeps ==
  ASSUME IInv, NEW t \in Tasks, At(t, "certify"), Certify(run[t].archive), Go(t, "point"),
         UNCHANGED localVars
  PROVE  IInv'
<1> USE DEF localVars, At, Steps, Recorded, Storing, Stood, Closing, Active
<1>0. /\ Shape /\ Held /\ Named /\ \A u \in Tasks : Overlaid(u) /\ InStore(u)
      /\ Strayed' = Strayed
  BY StrayStays DEF IInv
<1>1. /\ Others(t) /\ IsRun(run'[t]) /\ run'[t].pc = "point"
      /\ run'[t].parents = run[t].parents /\ run'[t].good = run[t].good
      /\ run'[t].archive = run[t].archive
  BY <1>0, GoFacts
<1> DEFINE a == run[t].archive
<1>2. receipts' = receipts \cup {a} /\ UNCHANGED <<tars, aged, current, inputs, out, barrier>>
  BY DEF Certify
<1> HIDE DEF a
<1>3. Shape'
  BY <1>0, <1>1, <1>2 DEF Shape, Others, IsRun, IsTree
<1>4. Held'
  BY <1>0, <1>1, <1>2 DEF Held, HeldInputs, Others
<1>5. Named'
  BY <1>0, <1>2 DEF Named, IsArchive, ParentsOf, IsTree
<1>6. ASSUME NEW u \in Tasks PROVE Overlaid(u)'
  BY <1>0, <1>1, <1>2 DEF Overlaid, InputsOf, Given, ParentsOf, Others
<1>7. ASSUME NEW u \in Tasks, u # t PROVE InStore(u)'
  <2>1. run'[u] = run[u] /\ InStore(u)
    BY <1>0, <1>1, <1>7 DEF Others
  <2>. QED BY <1>0, <1>2, <2>1 DEF InStore, Admissible, Readable, IsArchive, ParentsOf, IsTree
<1>8. InStore(t)'
  BY <1>0, <1>1, <1>2 DEF InStore, Admissible, Readable, IsArchive, ParentsOf, IsTree, a
<1>. QED BY <1>3, <1>4, <1>5, <1>6, <1>7, <1>8 DEF IInv

\* What the pointer names next, what it retires, and who may still use that.
LEMMA PointKeeps ==
  ASSUME IInv, NEW t \in Tasks, At(t, "point"), Point(run[t].archive), Go(t, "prune"),
         UNCHANGED localVars
  PROVE  IInv'
<1> USE DEF localVars, At, Steps, Recorded, Storing, Stood, Closing, Active
<1>0. /\ Shape /\ Held /\ Named /\ \A u \in Tasks : Overlaid(u) /\ InStore(u)
      /\ Strayed' = Strayed
  BY StrayStays DEF IInv
<1>1. /\ Others(t) /\ IsRun(run'[t]) /\ run'[t].pc = "prune"
      /\ run'[t].parents = run[t].parents /\ run'[t].good = run[t].good
      /\ run'[t].archive = run[t].archive
  BY <1>0, GoFacts
<1> DEFINE a == run[t].archive
<1>2. /\ IsArchive(t, a) /\ a.parents = run[t].parents /\ Admissible(a, t \in Partial)
      /\ a \in tars /\ a \in receipts
  BY <1>0 DEF InStore
<1>3. /\ DOMAIN current' = Tasks /\ current'[t] = a
      /\ \A u \in Tasks \ {t} : current'[u] = current[u]
      /\ aged' = aged \ {current[t]}
      /\ UNCHANGED <<tars, receipts, inputs, out, barrier>>
  BY <1>0, <1>2 DEF Point, Shape, IsArchive
<1>4. current[t] # NoArchive => ~current[t].complete
  BY <1>2 DEF Admissible, IsArchive
<1> HIDE DEF a
<1>5. Shape'
  BY <1>0, <1>1, <1>3 DEF Shape, Others, IsRun, IsTree
<1>6. ASSUME NEW u \in Tasks PROVE IF Active(u)' THEN HeldInputs(u)' ELSE DOMAIN run'[u].parents = {}
  <2>1. run'[u].parents = run[u].parents /\ (Active(u)' <=> Active(u))
    BY <1>1 DEF Others
  <2>2. CASE Active(u)
    <3>1. HeldInputs(u)
      BY <1>0, <2>2 DEF Held
    <3>2. ASSUME NEW k \in Requires[u], run[u].parents[k] # NoArchive
          PROVE  LET g == run[u].parents[k] IN
                 /\ g.key = k /\ g \in tars' /\ (g = current'[k] \/ g \notin aged')
                 /\ g.complete => g = current'[k]
      <4>1. k \in Tasks
        BY NodeAssumption
      <4>. QED BY <1>3, <1>4, <3>1, <3>2, <4>1 DEF HeldInputs
    <3>. QED BY <2>1, <2>2, <3>1, <3>2 DEF HeldInputs
  <2>. QED BY <1>0, <2>1, <2>2 DEF Held
<1>7. Named'
  <2>1. (ParentsOf(a) \ {NoArchive}) \subseteq tars
    <3>1. HeldInputs(t)
      BY <1>0 DEF Held
    <3>. QED BY <1>2, <3>1 DEF HeldInputs, ParentsOf
  <2>. QED BY <1>0, <1>2, <1>3, <2>1 DEF Named, IsArchive, ParentsOf, IsTree
<1>8. ASSUME NEW u \in Tasks PROVE Overlaid(u)'
  BY <1>0, <1>1, <1>3 DEF Overlaid, InputsOf, Given, ParentsOf, Others
<1>9. ASSUME NEW u \in Tasks, u # t PROVE InStore(u)'
  <2>1. run'[u] = run[u] /\ InStore(u) /\ current'[u] = current[u]
    BY <1>0, <1>1, <1>3, <1>9 DEF Others
  <2>. QED BY <1>0, <1>3, <2>1 DEF InStore, Admissible, Readable, IsArchive, ParentsOf, IsTree
<1>10. InStore(t)'
  BY <1>1, <1>3 DEF InStore, a
<1>. QED BY <1>5, <1>6, <1>7, <1>8, <1>9, <1>10 DEF IInv, Held

\* Nothing that is named, was given to a run or is being stored is removed.
LEMMA PruneKeeps ==
  ASSUME IInv, NEW t \in Tasks, At(t, "prune"), Prune(t), Go(t, "after"), UNCHANGED localVars
  PROVE  IInv'
<1> USE DEF localVars, At, Steps, Recorded, Storing, Stood, Closing, Active
<1>0. /\ Shape /\ Held /\ Named /\ \A u \in Tasks : Overlaid(u) /\ InStore(u)
      /\ Strayed' = Strayed
  BY StrayStays DEF IInv
<1>1. /\ Others(t) /\ IsRun(run'[t]) /\ run'[t].pc = "after"
      /\ run'[t].parents = run[t].parents /\ run'[t].good = run[t].good
      /\ run'[t].archive = run[t].archive
  BY <1>0, GoFacts
<1> DEFINE gone == Prunable(t)
<1>2. /\ tars' = tars \ gone /\ receipts' = receipts \ gone /\ aged' = aged \ gone
      /\ UNCHANGED <<current, inputs, out, barrier>>
  BY DEF Prune
<1>3. \A u \in Tasks : current[u] # NoArchive =>
        current[u] \notin gone /\ (ParentsOf(current[u]) \cap gone) = {}
  BY DEF Prunable, Protected
<1>4. \A x : x \notin aged => x \notin gone
  BY DEF Prunable
<1>5. \A x \in gone : x.key = t
  BY DEF Prunable
<1> HIDE DEF gone
<1>6. Shape'
  BY <1>0, <1>1, <1>2 DEF Shape, Others, IsRun, IsTree
<1>7. ASSUME NEW u \in Tasks PROVE IF Active(u)' THEN HeldInputs(u)' ELSE DOMAIN run'[u].parents = {}
  <2>1. run'[u].parents = run[u].parents /\ (Active(u)' <=> Active(u))
    BY <1>1 DEF Others
  <2>2. CASE Active(u)
    <3>1. HeldInputs(u)
      BY <1>0, <2>2 DEF Held
    <3>2. ASSUME NEW k \in Requires[u], run[u].parents[k] # NoArchive
          PROVE  LET g == run[u].parents[k] IN
                 /\ g.key = k /\ g \in tars' /\ (g = current'[k] \/ g \notin aged')
                 /\ g.complete => g = current'[k]
      <4>1. k \in Tasks
        BY NodeAssumption
      <4>2. run[u].parents[k] \notin gone
        BY <1>3, <1>4, <3>1, <3>2, <4>1 DEF HeldInputs
      <4>. QED BY <1>2, <3>1, <3>2, <4>2 DEF HeldInputs
    <3>. QED BY <2>1, <2>2, <3>1, <3>2 DEF HeldInputs
  <2>. QED BY <1>0, <2>1, <2>2 DEF Held
<1>8. Named'
  BY <1>0, <1>2, <1>3 DEF Named, IsArchive, ParentsOf, IsTree
<1>9. ASSUME NEW u \in Tasks PROVE Overlaid(u)'
  BY <1>0, <1>1, <1>2 DEF Overlaid, InputsOf, Given, ParentsOf, Others
<1>10. ASSUME NEW u \in Tasks, u # t PROVE InStore(u)'
  <2>1. run'[u] = run[u] /\ InStore(u)
    BY <1>0, <1>1, <1>10 DEF Others
  <2>2. run[u].pc \in Storing => run[u].archive \notin gone
    BY <1>5, <1>10, <2>1 DEF InStore, IsArchive
  <2>. QED BY <1>0, <1>2, <1>3, <2>1, <2>2 DEF InStore, Admissible, Readable, IsArchive, ParentsOf, IsTree
<1>11. InStore(t)'
  BY <1>0, <1>1, <1>2 DEF InStore
<1>. QED BY <1>6, <1>7, <1>8, <1>9, <1>10, <1>11 DEF IInv, Held

\* A day passes when no run uses anything.
LEMMA DayKeeps ==
  ASSUME IInv, Day
  PROVE  IInv'
<1>1. \A t \in Tasks : ~Active(t) /\ run[t].pc \in {"idle", "done"}
  BY DEF Day, Active
<1>2. UNCHANGED <<tars, receipts, current, inputs, out, run, barrier, stray>> /\ Strayed' = Strayed
  BY StrayStays DEF Day, Age
<1>3. Shape' /\ Named'
  BY <1>2 DEF IInv, Shape, IsRun, Closing, IsTree, Named, IsArchive, ParentsOf
<1>4. Held'
  BY <1>1, <1>2 DEF IInv, Held, Active
<1>5. \A t \in Tasks : Overlaid(t)' /\ InStore(t)'
  BY <1>1, <1>2 DEF IInv, Overlaid, InputsOf, InStore, Storing, Stood, Recorded, At
<1>. QED BY <1>3, <1>4, <1>5 DEF IInv

LEMMA StepKeeps == IInv /\ [Next]_vars => IInv'
<1> SUFFICES ASSUME IInv, [Next]_vars PROVE IInv'
  OBVIOUS
<1>1. CASE Day
  BY <1>1, DayKeeps
<1>2. ASSUME NEW t \in Tasks, StoreArchive(t) PROVE IInv'
  BY <1>2, UploadKeeps, CertifyKeeps, PointKeeps, PruneKeeps DEF StoreArchive, Stored
<1>3. ASSUME NEW t \in Tasks, ~StoreArchive(t),
             Begin(t) \/ RunTask(t) \/ Fails(t) \/ Interrupted(t) \/ Ended(t)
      PROVE  IInv'
  BY <1>3, BeginKeeps, StagingKeeps, FinishingKeeps, SwallowedKeeps, EndedKeeps
     DEF RunTask, Finishing, Interrupted
<1>4. CASE UNCHANGED vars
  <2>1. UNCHANGED <<tars, receipts, aged, current, inputs, out, run, barrier, stray>>
        /\ Strayed' = Strayed
    BY <1>4, StrayStays DEF vars, storeVars
  <2>2. Shape' /\ Held' /\ Named'
    BY <2>1 DEF IInv, Shape, IsRun, Closing, IsTree, Held, HeldInputs, Active, Named, IsArchive, ParentsOf
  <2>3. \A t \in Tasks : Overlaid(t)' /\ InStore(t)'
    BY <2>1 DEF IInv, Overlaid, InputsOf, Given, InStore, At, Admissible, Readable, IsArchive, ParentsOf, IsTree
  <2>. QED BY <2>2, <2>3 DEF IInv
<1>. QED BY <1>1, <1>2, <1>3, <1>4, StrayKeeps DEF Next, RunTask, Finishing

LEMMA InitHolds == Init => IInv
<1> SUFFICES ASSUME Init PROVE IInv
  OBVIOUS
<1>1. /\ current = [t \in Tasks |-> NoArchive] /\ inputs = [t \in Tasks |-> NoArchive]
      /\ out = [t \in Tasks |-> NoTree] /\ run = [t \in Tasks |-> NoRun]
      /\ barrier = [t \in Tasks |-> NoArchive]
  BY DEF Init, StoreInit
<1>2. Shape
  BY <1>1, NoRunIs DEF Shape, IsRun, IsTree, NoTree, Steps, Closing
<1>3. Held /\ Named
  BY <1>1, NoRunIs DEF Held, Named, Active
<1>4. \A t \in Tasks : Overlaid(t) /\ InStore(t)
  BY <1>1, NoRunIs DEF Overlaid, InStore, InputsOf, NoTree, At, Recorded, Steps, Storing, Stood
<1>. QED BY <1>2, <1>3, <1>4 DEF IInv

THEOREM RunsAreSound == Spec => []IInv
BY InitHolds, StepKeeps, PTL DEF Spec

-----------------------------------------------------------------------------
(* What CURRENT names is in the store with its receipts and with everything  *)
(* it was made of, and what a run has read the pointers of can be opened:    *)
(* publish and prune_incomplete of m2_snapshot.py, interrupted anywhere.     *)
THEOREM CurrentIsWhole == Spec => []CurrentWhole
<1>1. IInv => CurrentWhole
  <2> SUFFICES ASSUME IInv, NEW t \in Tasks, At(t, "views") PROVE Given(t) \subseteq tars
    BY DEF CurrentWhole, IInv, Named
  <2>1. HeldInputs(t)
    BY DEF IInv, Held, Active, At
  <2>. QED BY <2>1 DEF HeldInputs, Given, ParentsOf
<1>. QED BY <1>1, RunsAreSound, PTL

(* A snapshot has nothing in it of another version of its inputs than it     *)
(* names, unless commands of its task outlived their run, and a finished one *)
(* has everything of those it names: the local tree of m2_node.py survives   *)
(* runs, its inputs do not.                                                  *)
THEOREM MadeOfItsParents == Spec => []MadeOfParents
<1>1. IInv => MadeOfParents
  BY DEF IInv, Named, IsArchive, Complete, MadeOfParents
<1>. QED BY <1>1, RunsAreSound, PTL

-----------------------------------------------------------------------------
\* Only the pointer and the barrier are the register's business.
LEMMA OtherStepsStutter ==
  ASSUME [Next]_vars, \A t \in Tasks : ~PublishBarrier(t) /\ ~StoreArchive(t) /\ ~CommitInterrupted(t)
  PROVE  UNCHANGED <<current, barrier>>
<1>1. CASE Day \/ UNCHANGED vars
  BY <1>1 DEF Day, Age, vars, storeVars
<1>2. ASSUME NEW s \in stray, StrayWrites(s) PROVE UNCHANGED <<current, barrier>>
  BY <1>2 DEF StrayWrites, storeVars
<1>3. ASSUME NEW t \in Tasks, Staging(t) \/ Begin(t) \/ Works(t) \/ Succeeds(t) \/ FailsBare(t)
                                \/ BuildArchive(t) \/ Published(t) \/ Tidy(t) \/ Fails(t)
                                \/ BeginInterrupted(t) \/ OwnInterrupted(t) \/ Ended(t)
      PROVE  UNCHANGED <<current, barrier>>
  BY <1>3 DEF Staging, Begin, FailsBare, BeginInterrupted, OwnInterrupted, RestoreViews, CheckIdentity, Clear, Record, OwnSnapshot, MakeTree,
              Overlay, Launch, Works, Succeeds, BuildArchive, Published, Tidy, Fails, Ended,
              localVars, storeVars
<1>. QED BY <1>1, <1>2, <1>3 DEF Next, RunTask, Finishing, Interrupted

\* The pointers and the barriers are functions: writing what is there changes nothing.
Tables ==
  /\ current = [t \in Tasks |-> current[t]] /\ barrier = [t \in Tasks |-> barrier[t]]

LEMMA TablesHold == Spec => []Tables
<1>1. Init => Tables
  BY DEF Init, StoreInit, Tables
<1>2. IInv /\ Tables /\ [Next]_vars => Tables'
  <2> SUFFICES ASSUME IInv, Tables, [Next]_vars PROVE Tables'
    OBVIOUS
  <2>1. ASSUME NEW t \in Tasks, PublishBarrier(t) \/ CommitInterrupted(t) PROVE Tables'
    <3>1. UNCHANGED current /\ (barrier' = barrier \/ barrier' = [barrier EXCEPT ![t] = run[t].archive])
      BY <2>1 DEF PublishBarrier, CommitInterrupted, storeVars
    <3>. QED BY <3>1 DEF Tables
  <2>2. CASE \E t \in Tasks : StoreArchive(t)
    BY <2>2 DEF StoreArchive, Stored, Upload, Certify, Point, Prune, localVars, Tables
  <2>3. CASE UNCHANGED <<current, barrier>>
    BY <2>3 DEF Tables
  <2>. QED
    BY <2>1, <2>2, <2>3, OtherStepsStutter
<1>. QED BY <1>1, <1>2, RunsAreSound, PTL DEF Spec

\* CURRENT moves as the register of its stage may.
LEMMA PointPublishes ==
  ASSUME IInv, Tables, NEW t \in Tasks, At(t, "point"), Point(run[t].archive), UNCHANGED barrier
  PROVE  Register!Publish(t) \/ UNCHANGED <<current, barrier>>
<1> DEFINE a == run[t].archive
<1>1. /\ IsArchive(t, a) /\ a.parents = run[t].parents /\ Admissible(a, t \in Partial)
      /\ a.complete => \A k \in Requires[t] : Complete(run[t].parents[k])
  BY DEF IInv, InStore, At, Storing
<1>2. HeldInputs(t) /\ DOMAIN current = Tasks /\ Requires[t] \subseteq Tasks
  BY NodeAssumption DEF IInv, Held, Active, At, Shape
<1>3. current' = [current EXCEPT ![t] = a] /\ a # NoArchive /\ current'[t] = a
  BY <1>1, <1>2 DEF Point, IsArchive
<1>4. ASSUME current[t] # NoArchive
      PROVE  ~current[t].complete /\ Register!Refreshes(current[t], a)
  <2>1. ~current[t].complete /\ Compatible(current[t], a.parents, t \in Partial)
    BY <1>1, <1>4 DEF Admissible, IsArchive
  <2>2. DOMAIN current[t].parents = Requires[t] /\ DOMAIN a.parents = Requires[t]
    BY <1>1, <1>4 DEF IInv, Named, IsArchive
  <2>. QED BY <2>1, <2>2 DEF Compatible, Complete, Register!Refreshes
<1>5. Register!FinishedOn(a)
  BY <1>1, <1>2 DEF IsArchive, HeldInputs, Complete, Register!FinishedOn
<1> HIDE DEF a
<1>6. CASE current[t] # a
  BY <1>3, <1>4, <1>5, <1>6 DEF Register!Publish
<1>7. CASE current[t] = a
  BY <1>3, <1>7 DEF Tables
<1>. QED BY <1>6, <1>7

(* The store keeps the promise of StageRegister: finished snapshots stand    *)
(* for ever, are made of finished ones, and a barrier is committed once, to  *)
(* the finished snapshot of its task.                                        *)
THEOREM RegisterIsKept == Spec => KeepsRegister
<1>1. Init => Register!Init
  BY DEF Init, StoreInit, Register!Init
<1>2. IInv /\ Tables /\ [Next]_vars => [Register!Next]_<<current, barrier>>
  <2> SUFFICES ASSUME IInv, Tables, [Next]_vars
               PROVE  Register!Next \/ UNCHANGED <<current, barrier>>
    OBVIOUS
  <2>1. ASSUME NEW t \in Tasks, StoreArchive(t)
        PROVE  Register!Next \/ UNCHANGED <<current, barrier>>
    <3>1. UNCHANGED barrier
      BY <2>1 DEF StoreArchive, localVars
    <3>2. CASE At(t, "point") /\ Point(run[t].archive)
      BY <3>1, <3>2, PointPublishes DEF Register!Next
    <3>3. CASE ~(At(t, "point") /\ Point(run[t].archive))
      BY <2>1, <3>1, <3>3 DEF StoreArchive, Stored, Upload, Certify, Prune
    <3>. QED BY <3>2, <3>3
  <2>2. ASSUME NEW t \in Tasks, PublishBarrier(t) \/ CommitInterrupted(t)
        PROVE  Register!Next \/ UNCHANGED <<current, barrier>>
    <3>1. run[t].archive = current[t] /\ Complete(current[t]) /\ UNCHANGED current
      BY <2>2 DEF PublishBarrier, CommitInterrupted, IInv, InStore, At, Stood, storeVars
    <3>2. CASE barrier[t] = NoArchive /\ barrier' = [barrier EXCEPT ![t] = run[t].archive]
      BY <3>1, <3>2 DEF Complete, Register!Commit, Register!Next
    <3>3. CASE barrier[t] = run[t].archive /\ barrier' = [barrier EXCEPT ![t] = run[t].archive]
      BY <3>1, <3>3 DEF Tables
    <3>4. CASE UNCHANGED barrier
      BY <3>1, <3>4
    <3>. QED BY <2>2, <3>2, <3>3, <3>4 DEF PublishBarrier, CommitInterrupted
  <2>. QED BY <2>1, <2>2, OtherStepsStutter
<1>. QED BY <1>1, <1>2, RunsAreSound, TablesHold, PTL DEF Spec, KeepsRegister, Register!Spec
=============================================================================
