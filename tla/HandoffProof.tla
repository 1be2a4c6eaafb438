----------------------------- MODULE HandoffProof ----------------------------
(***************************************************************************)
(* Why the saves and restores of Handoff keep what they promise, for any   *)
(* number of processes, files and writes: on a filesystem with flock only  *)
(* one process is at work on the durable tree, and on any filesystem a     *)
(* restore is alone with OUT, so that during a save a file of OUT is only  *)
(* ever replaced by a newer version.                                       *)
(***************************************************************************)
EXTENDS Handoff, TLAPS

-----------------------------------------------------------------------------
(* The invariant. *)

Busy(p) == lk[p].pid # 0
Saving(p) == Busy(p) /\ work[p].op = "save"
AtWork(p, pcs) == Saving(p) /\ work[p].pc \in pcs

\* A slot's process has a pid of its own, is in the locked region when it is past
\* its start, and holds the flock there, where there is one.  It judges the owner of the
\* lock directory only while it has a turn left.
Owned(p) ==
  /\ lk[p].pc = "idle" <=> ~Busy(p)
  /\ lk[p].pid =< pids
  /\ lk[p].pc \in {"judging", "clearing"} => lk[p].tries > 0
  /\ \A q \in Procs : Busy(p) /\ lk[q].pid = lk[p].pid => q = p
  /\ work[p].pc # "start" => Held(p)
  /\ hasFlock => lk[p].pc \in {"idle", "try", "held"} /\ (Held(p) => flock = lk[p].pid)

\* Nothing bears a number that has not been given yet.
Numbered ==
  /\ current =< pids /\ \A g \in 1 .. MaxPids : g > pids => gens[g] = Absent
  /\ \A f \in Files :
       /\ out[f] =< writes
       /\ \A g \in 1 .. MaxPids : gens[g].tree[f] =< writes
       /\ \A p \in Procs : work[p].manifest[f] =< writes

\* A restore that is not through is alone, and no stage runs.  What it has looked at
\* is either moved away or what it is to become.
Restores(p) ==
  Busy(p) /\ work[p].op = "restore" =>
    /\ work[p].pc \in {"start", "aside", "fill", "done"}
    /\ work[p].pc # "done" => ~restored /\ \A q \in Procs : Busy(q) => q = p
    /\ work[p].pc \in {"aside", "fill"} => current # 0 /\ work[p].manifest = gens[current].tree
    /\ \A f \in Files :
         work[p].pc = "fill" \/ (work[p].pc = "aside" /\ f \notin work[p].todo) =>
           out[f] \in {0, work[p].manifest[f]}

\* A save works for a job that is past its restore, on a generation of its own.
Saves(p) ==
  Saving(p) =>
    /\ restored
    /\ work[p].pc \in {"start", "list", "copy", "recheck", "point", "cleanup", "done"}
    /\ work[p].pc \in {"start", "list"} => gens[lk[p].pid] = Absent /\ current # lk[p].pid
    /\ work[p].pc \in {"copy", "recheck", "point", "cleanup"} => work[p].gen = lk[p].pid
    /\ work[p].pc = "point" => gens[work[p].gen].stage \in {"committed", "absent"}
    /\ hasFlock =>
         /\ work[p].pc = "point" =>
              gens[work[p].gen] = [stage |-> "committed", tree |-> work[p].manifest]
         /\ work[p].pc = "cleanup" => current = work[p].gen

\* Has the file been entered in the manifest of the save that is under way?
Entered(p, f) ==
  AtWork(p, {"copy", "recheck", "point"}) \/ (AtWork(p, {"list"}) /\ f \notin work[p].todo)

\* What is listed is at most as old as what is committed and no newer than OUT.
Between(p) ==
  \A f \in Files : Entered(p, f) =>
    work[p].manifest[f] =< out[f] /\ (hasFlock => Committed[f] =< work[p].manifest[f])

\* OUT was once, since the listing, at least as new as the manifest; what has been
\* looked at again was then exactly as listed.
OnceThere(p) ==
  AtWork(p, {"recheck"}) =>
    \E h \in history : \A f \in Files :
      /\ work[p].manifest[f] =< h[f] /\ h[f] =< out[f]
      /\ f \notin work[p].todo => h[f] = work[p].manifest[f]

\* The generations, and the one CURRENT names.
Generations ==
  /\ \A g \in 1 .. MaxPids :
       /\ gens[g].stage = "absent" => gens[g] = Absent
       /\ gens[g].stage = "committed" => gens[g].tree \in history
  /\ current # 0 => gens[current].stage \in {"committed", "absent"}
  /\ CurrentIntact
  /\ hasFlock /\ restored => \A f \in Files : Committed[f] =< out[f]
  /\ out \in history /\ Nothing \in history

IInv ==
  /\ TypeOK /\ Numbered /\ Generations /\ LocalEvidenceKept
  /\ \A p \in Procs : Owned(p) /\ Restores(p) /\ Saves(p) /\ Between(p) /\ OnceThere(p)

-----------------------------------------------------------------------------
(* Frames. *)

Works ==
  [op : {"save", "restore"},
   pc : {"start", "list", "copy", "recheck", "point", "cleanup", "aside", "fill", "done"},
   previous : 0 .. MaxPids, gen : 0 .. MaxPids, todo : SUBSET Files,
   old : [Files -> Versions], manifest : [Files -> Versions]]

Locks == [pc : {"idle", "try", "owning", "judging", "clearing", "held"},
          pid : 0 .. MaxPids, tries : 0 .. 2]

Trees == [stage : {"absent", "partial", "committed"}, tree : [Files -> Versions]]

\* The variables, with the shapes of their parts by name.
LEMMA Shapes ==
  ASSUME TypeOK
  PROVE  /\ work \in [Procs -> Works] /\ lk \in [Procs -> Locks]
         /\ gens \in [1 .. MaxPids -> Trees]
         /\ hasFlock \in BOOLEAN /\ flock \in 0 .. MaxPids /\ dir \in -1 .. MaxPids
         /\ pids \in 0 .. MaxPids /\ current \in 0 .. MaxPids
         /\ out \in [Files -> Versions] /\ live \in [Files -> Versions]
         /\ backup \in [Files -> SUBSET Versions]
         /\ restored \in BOOLEAN /\ writes \in Versions /\ history \subseteq [Files -> Versions]
BY DEF TypeOK, LockTypeOK, Works, Locks, Trees

\* The bounds are numbers, and so are versions and pids.
LEMMA Numbers ==
  /\ MaxPids \in Nat /\ MaxWrites \in Nat /\ Versions \subseteq Nat /\ 0 \in Versions
  /\ Nothing \in [Files -> Versions] /\ (\A f \in Files : Nothing[f] = 0)
  /\ Absent \in Trees /\ Absent.tree = Nothing /\ Absent.stage = "absent"
  /\ NoWork \in Works /\ NoWork.pc = "start" /\ NoWork.op = "save" /\ NoWork.manifest = Nothing
BY LockAssumption, HandoffAssumption DEF Versions, Nothing, Absent, NoWork, Trees, Works

\* The fields of a slot's work, and the number of its process.
LEMMA Fields ==
  ASSUME IInv, NEW p \in Procs
  PROVE  /\ work[p] \in Works /\ work[p].todo \subseteq Files
         /\ work[p].manifest \in [Files -> Versions] /\ work[p].old \in [Files -> Versions]
         /\ \A f \in Files : work[p].manifest[f] =< writes
         /\ Held(p) => Busy(p)
         /\ Busy(p) => lk[p].pid \in 1 .. MaxPids /\ lk[p].pid =< pids
<1> USE Shapes, Numbers DEF IInv
<1>1. work[p] \in Works /\ lk[p] \in Locks /\ Owned(p)
  OBVIOUS
<1>2. lk[p].pid \in 0 .. MaxPids
  BY <1>1 DEF Locks
<1>3. /\ work[p].todo \subseteq Files /\ work[p].manifest \in [Files -> Versions]
      /\ work[p].old \in [Files -> Versions]
  BY <1>1 DEF Works
<1>4. (Held(p) => Busy(p)) /\ (Busy(p) => lk[p].pid # 0) /\ lk[p].pid =< pids
  BY <1>1 DEF Owned, Held, Busy
<1>5. Busy(p) => lk[p].pid \in 1 .. MaxPids
  BY <1>2, <1>4
<1>6. \A f \in Files : work[p].manifest[f] =< writes
  BY DEF Numbered
<1>7. QED
  BY <1>1, <1>3, <1>4, <1>5, <1>6

\* A process in the locked region is the only one there, where there is flock.
LEMMA Alone ==
  ASSUME IInv, hasFlock, NEW p \in Procs, NEW q \in Procs, Held(p), Held(q)
  PROVE  p = q
<1>1. Owned(p) /\ Owned(q)
  BY DEF IInv
<1>2. Busy(p) /\ lk[p].pid = flock /\ lk[q].pid = flock
  BY <1>1 DEF Owned, Held
<1>3. QED
  BY <1>1, <1>2 DEF Owned

\* A step that changes nothing but the work of one process in the locked region has
\* to keep only what is said of that process.
LEMMA WorkStep ==
  ASSUME IInv, NEW p \in Procs, NEW w \in Works, Held(p),
         UNCHANGED <<lockVars, outVars, gens, current, restored, writes>>,
         work' = [work EXCEPT ![p] = w],
         \A f \in Files : w.manifest[f] =< writes,
         Restores(p)', Saves(p)', Between(p)', OnceThere(p)'
  PROVE  IInv'
<1> USE Shapes DEF IInv
<1>1. /\ lk' = lk /\ pids' = pids /\ hasFlock' = hasFlock /\ flock' = flock /\ dir' = dir
      /\ out' = out /\ backup' = backup /\ live' = live /\ history' = history
      /\ gens' = gens /\ current' = current /\ restored' = restored /\ writes' = writes
  BY DEF lockVars, outVars
<1>2. /\ work'[p] = w /\ \A q \in Procs \ {p} : work'[q] = work[q]
      /\ work' \in [Procs -> Works]
  OBVIOUS
<1>3. TypeOK'
  <2>1. LockTypeOK'
    BY <1>1 DEF TypeOK, LockTypeOK
  <2>2. QED
    BY <1>1, <1>2, <2>1 DEF TypeOK, Works
<1>4. Numbered'
  BY <1>1, <1>2 DEF Numbered
<1>5. Generations' /\ LocalEvidenceKept'
  BY <1>1 DEF Generations, LocalEvidenceKept, CurrentIntact, Intact, Committed
<1>6. \A q \in Procs : Owned(q)'
  BY <1>1, <1>2 DEF Owned, Busy, Held
<1>7. ASSUME NEW q \in Procs \ {p}
      PROVE  Restores(q)' /\ Saves(q)' /\ Between(q)' /\ OnceThere(q)'
  <2>1. work'[q] = work[q] /\ lk' = lk
    BY <1>1, <1>2
  <2>2. Restores(q) /\ Saves(q) /\ Between(q) /\ OnceThere(q)
    OBVIOUS
  <2>3. Restores(q)'
    BY ONLY <1>1, <2>1, <2>2 DEF Restores, Busy
  <2>4. Saves(q)'
    BY ONLY <1>1, <2>1, <2>2 DEF Saves, Saving, Busy
  <2>5. Between(q)'
    BY ONLY <1>1, <2>1, <2>2 DEF Between, Entered, AtWork, Saving, Busy, Committed
  <2>6. OnceThere(q)'
    BY ONLY <1>1, <2>1, <2>2 DEF OnceThere, AtWork, Saving, Busy
  <2>7. QED
    BY <2>3, <2>4, <2>5, <2>6
<1>8. QED
  BY <1>3, <1>4, <1>5, <1>6, <1>7

\* A process that gives up keeps what it has.
LEMMA StopKeeps ==
  ASSUME IInv, NEW p \in Procs, Held(p), Stop(p)
  PROVE  IInv'
<1> USE Shapes, Numbers DEF IInv
<1>1. UNCHANGED <<lockVars, outVars, gens, current, restored, writes>>
  BY DEF Stop
<1> DEFINE w == [work[p] EXCEPT !.pc = "done"]
<1>2. /\ w \in Works /\ w.pc = "done" /\ w.op = work[p].op /\ w.manifest = work[p].manifest
  BY DEF Works
<1>3. work' = [work EXCEPT ![p] = w]
  BY DEF Stop, To
<1> HIDE DEF w
<1>4. work'[p] = w /\ lk' = lk /\ out' = out /\ restored' = restored
  BY <1>1, <1>3 DEF lockVars, outVars
<1>5. \A f \in Files : w.manifest[f] =< writes
  BY <1>2 DEF Numbered
<1>6. Restores(p)' /\ Saves(p)'
  <2>1. Restores(p) /\ Saves(p)
    OBVIOUS
  <2>2. gens' = gens /\ current' = current
    BY <1>1
  <2>3. Restores(p)'
    BY ONLY <1>2, <1>4, <2>1, <2>2 DEF Restores, Busy
  <2>4. Saves(p)'
    BY ONLY <1>2, <1>4, <2>1, <2>2 DEF Saves, Busy, Saving
  <2>5. QED
    BY <2>3, <2>4
<1>7. Between(p)' /\ OnceThere(p)'
  BY <1>2, <1>4 DEF Between, OnceThere, AtWork, Entered
<1>8. QED
  BY <1>1, <1>2, <1>3, <1>5, <1>6, <1>7, WorkStep

-----------------------------------------------------------------------------
(* The steps of a save. *)

\* The lookup of CURRENT.
LEMMA FindPreviousKeeps ==
  ASSUME IInv, NEW p \in Procs, FindPrevious(p)
  PROVE  IInv'
<1> USE Shapes, Numbers DEF IInv
<1>1. Held(p) /\ work[p].op = "save" /\ work[p].pc = "start"
  BY DEF FindPrevious, In
<1>2. CASE Stop(p)
  BY <1>1, <1>2, StopKeeps
<1>3. CASE ~Stop(p)
  <2> DEFINE o == IF current = 0 THEN Nothing ELSE gens[current].tree
             w == [work[p] EXCEPT !.pc = "list", !.previous = current, !.old = o, !.todo = Files]
  <2>1. o \in [Files -> Versions]
    BY DEF Trees
  <2>2. /\ work' = [work EXCEPT ![p] = w]
        /\ UNCHANGED <<lockVars, outVars, gens, current, restored, writes>>
    BY <1>3 DEF FindPrevious
  <2> HIDE DEF o
  <2>3. /\ w \in Works /\ w.pc = "list" /\ w.op = "save" /\ w.manifest = work[p].manifest
        /\ w.todo = Files
    BY <1>1, <2>1 DEF Works
  <2> HIDE DEF w
  <2>4. work'[p] = w /\ lk' = lk /\ out' = out /\ restored' = restored /\ gens' = gens
        /\ current' = current
    BY <2>2 DEF lockVars, outVars
  <2>5. \A f \in Files : w.manifest[f] =< writes
    BY <2>3 DEF Numbered
  <2>6. Restores(p)' /\ Saves(p)' /\ Between(p)' /\ OnceThere(p)'
    BY <1>1, <2>3, <2>4
    DEF Restores, Saves, Between, OnceThere, Busy, Saving, AtWork, Entered
  <2>7. QED
    BY <1>1, <2>2, <2>3, <2>5, <2>6, WorkStep
<1>4. QED
  BY <1>2, <1>3

\* A file is entered as it is in OUT, which is no older than what is committed.
LEMMA ListKeeps ==
  ASSUME IInv, NEW p \in Procs, List(p)
  PROVE  IInv'
<1> USE Shapes, Numbers DEF IInv
<1>1. Held(p) /\ work[p].op = "save" /\ work[p].pc = "list" /\ Busy(p)
  BY DEF List, In, Owned, Held
<1>2. PICK f \in work[p].todo :
        work' = [work EXCEPT ![p].manifest[f] = out[f], ![p].todo = @ \ {f}]
  BY DEF List
<1> DEFINE m == [work[p].manifest EXCEPT ![f] = out[f]]
           w == [work[p] EXCEPT !.manifest = m, !.todo = work[p].todo \ {f}]
<1>3. f \in Files /\ work[p].todo \subseteq Files /\ work[p].manifest \in [Files -> Versions]
  BY DEF Works
<1>4. /\ m \in [Files -> Versions] /\ m[f] = out[f]
      /\ \A g \in Files \ {f} : m[g] = work[p].manifest[g]
  BY <1>3
<1>5. work' = [work EXCEPT ![p] = w]
  BY <1>2, <1>3 DEF Works
<1> HIDE DEF m
<1>6. /\ w \in Works /\ w.pc = "list" /\ w.op = "save" /\ w.manifest = m
      /\ w.todo = work[p].todo \ {f}
  BY <1>1, <1>3, <1>4 DEF Works
<1> HIDE DEF w
<1>7. UNCHANGED <<lockVars, outVars, gens, current, restored, writes>>
  BY DEF List
<1>8. work'[p] = w /\ lk' = lk /\ out' = out /\ restored' = restored /\ gens' = gens
      /\ current' = current /\ hasFlock' = hasFlock
  BY <1>5, <1>7 DEF lockVars, outVars
<1>9. \A g \in Files : w.manifest[g] =< writes
  BY <1>3, <1>4, <1>6 DEF Numbered
<1>10. restored
  BY <1>1 DEF Saves, Saving
<1>11. Between(p)'
  <2> SUFFICES ASSUME NEW g \in Files, g \notin w.todo
               PROVE  w.manifest[g] =< out[g] /\ (hasFlock => Committed'[g] =< w.manifest[g])
    BY <1>6, <1>8 DEF Between, Entered, AtWork, Saving
  <2>1. Committed' = Committed
    BY <1>8 DEF Committed
  <2>2. CASE g = f
    <3>1. hasFlock => Committed[f] =< out[f]
      BY <1>3, <1>10 DEF Generations
    <3>2. out[f] =< out[f]
      <4>1. out[f] \in Versions
        BY <1>3
      <4>2. out[f] \in Nat
        BY <4>1, Numbers
      <4>3. QED
        BY ONLY <4>2
    <3>3. QED
      BY <1>4, <1>6, <2>1, <2>2, <3>1, <3>2
  <2>3. CASE g # f
    BY <1>1, <1>4, <1>6, <2>1, <2>3 DEF Between, Entered, AtWork, Saving
  <2>4. QED
    BY <2>2, <2>3
<1>12. Restores(p)' /\ Saves(p)' /\ OnceThere(p)'
  BY <1>1, <1>6, <1>8 DEF Restores, Saves, OnceThere, Busy, Saving, AtWork
<1>13. QED
  BY <1>1, <1>5, <1>6, <1>7, <1>9, <1>11, <1>12, WorkStep

\* A step of a save that writes one generation: its own, which CURRENT does not name,
\* or it removes one, which CURRENT does not name where there is flock.
LEMMA GenStep ==
  ASSUME IInv, NEW p \in Procs, NEW w \in Works, Saving(p), Held(p), w.op = "save",
         w.manifest = work[p].manifest,
         NEW g \in 1 .. MaxPids, NEW t \in Trees,
         UNCHANGED <<lockVars, outVars, current, restored, writes>>,
         work' = [work EXCEPT ![p] = w], gens' = [gens EXCEPT ![g] = t],
         g =< pids, \A f \in Files : t.tree[f] =< writes,
         t.stage = "absent" => t = Absent, t.stage = "committed" => t.tree \in history,
         t = Absent \/ g = lk[p].pid, current = g => ~hasFlock /\ t = Absent,
         Saves(p)', Between(p)', OnceThere(p)'
  PROVE  IInv'
<1> USE Shapes, Numbers DEF IInv
<1>1. /\ lk' = lk /\ pids' = pids /\ hasFlock' = hasFlock /\ flock' = flock /\ dir' = dir
      /\ out' = out /\ backup' = backup /\ live' = live /\ history' = history
      /\ current' = current /\ restored' = restored /\ writes' = writes
  BY DEF lockVars, outVars
<1>2. /\ work'[p] = w /\ \A q \in Procs \ {p} : work'[q] = work[q]
      /\ work' \in [Procs -> Works]
  OBVIOUS
<1>3. /\ gens'[g] = t /\ \A o \in (1 .. MaxPids) \ {g} : gens'[o] = gens[o]
      /\ gens' \in [1 .. MaxPids -> Trees]
  OBVIOUS
<1>4. current # 0 => current \in 1 .. MaxPids
  OBVIOUS
<1>5. hasFlock => Committed' = Committed
  BY <1>1, <1>3, <1>4 DEF Committed
<1>6. TypeOK'
  <2>1. TypeOK
    BY DEF IInv
  <2>2. QED
    BY ONLY <1>1, <1>2, <1>3, <2>1 DEF TypeOK, LockTypeOK, Works, Trees
<1>7. Numbered'
  <2>1. \A o \in 1 .. MaxPids : o > pids => gens'[o] = Absent
    BY <1>3 DEF Numbered
  <2>2. \A f \in Files, o \in 1 .. MaxPids : gens'[o].tree[f] =< writes
    BY <1>3 DEF Numbered
  <2>3. \A f \in Files, q \in Procs : work'[q].manifest[f] =< writes
    BY <1>2 DEF Numbered
  <2>4. QED
    BY <1>1, <2>1, <2>2, <2>3 DEF Numbered
<1>8. Generations'
  <2>1. \A o \in 1 .. MaxPids :
          /\ gens'[o].stage = "absent" => gens'[o] = Absent
          /\ gens'[o].stage = "committed" => gens'[o].tree \in history
    BY <1>3 DEF Generations
  <2>2. current # 0 => gens'[current].stage \in {"committed", "absent"}
    BY <1>3, <1>4 DEF Generations
  <2>3. CurrentIntact'
    BY <1>1, <1>3, <1>4 DEF Generations, CurrentIntact, Intact
  <2>4. QED
    BY <1>1, <1>5, <2>1, <2>2, <2>3 DEF Generations
<1>9. LocalEvidenceKept'
  BY <1>1 DEF LocalEvidenceKept
<1>10. \A q \in Procs : Owned(q)'
  BY <1>1, <1>2 DEF Owned, Busy, Held, Saving
<1>11. Restores(p)'
  BY <1>2 DEF Restores
<1>12. ASSUME NEW q \in Procs \ {p}
       PROVE  Restores(q)' /\ Saves(q)' /\ Between(q)' /\ OnceThere(q)'
  <2>1. work'[q] = work[q] /\ lk'[q] = lk[q]
    BY <1>1, <1>2
  <2>2. Restores(q)'
    <3>1. Busy(q) /\ work[q].op = "restore" => work[q].pc = "done"
      BY DEF Restores, Saving
    <3>2. QED
      BY <1>1, <2>1, <3>1 DEF Restores, Busy
  <2>3. Saves(q)'
    <3> SUFFICES ASSUME Saving(q) PROVE Saves(q)'
      BY <2>1 DEF Saves, Saving, Busy
    <3>1. lk[q].pid \in 1 .. MaxPids /\ lk[q].pid # lk[p].pid
      BY Fields DEF Saving, Owned
    <3>2. t = Absent \/ gens'[lk[q].pid] = gens[lk[q].pid]
      BY <1>3, <3>1
    <3>a. gens'[lk[q].pid] \in {t, gens[lk[q].pid]}
      BY <1>3, <3>1
    <3>3. work[q].pc \in {"start", "list"} => gens'[lk[q].pid] = Absent
      BY <1>3, <3>1, <3>2 DEF Saves
    <3>4. work[q].pc = "point" => gens'[work[q].gen].stage \in {"committed", "absent"}
      <4>1. work[q].pc = "point" =>
              work[q].gen = lk[q].pid /\ gens[work[q].gen].stage \in {"committed", "absent"}
        BY DEF Saves
      <4>2. Absent.stage = "absent"
        OBVIOUS
      <4>3. t = Absent => gens'[lk[q].pid] \in {Absent, gens[lk[q].pid]}
        BY ONLY <3>a
      <4>4. QED
        BY ONLY <3>2, <4>1, <4>2, <4>3
    <3>5. hasFlock => work[q].pc \notin {"point"}
      BY Alone DEF Owned
    <3>6. Saves(q) /\ Saving(q)
      OBVIOUS
    <3>7. QED
      BY ONLY <1>1, <2>1, <3>3, <3>4, <3>5, <3>6 DEF Saves, Saving, Busy
  <2>4. Between(q)'
    BY <1>1, <1>5, <2>1 DEF Between, Entered, AtWork, Saving, Busy
  <2>5. OnceThere(q)'
    BY <1>1, <2>1 DEF OnceThere, AtWork, Saving, Busy
  <2>6. QED
    BY <2>2, <2>3, <2>4, <2>5
<1>13. QED
  BY <1>6, <1>7, <1>8, <1>9, <1>10, <1>11, <1>12

\* Nothing to save.
LEMMA SkipKeeps ==
  ASSUME IInv, NEW p \in Procs, Skip(p)
  PROVE  IInv'
BY StopKeeps DEF Skip, Listed, In

\* The staging directory bears the saver's own number, which no generation has.
LEMMA StageKeeps ==
  ASSUME IInv, NEW p \in Procs, Stage(p)
  PROVE  IInv'
<1> USE Shapes, Numbers DEF IInv
<1>1. /\ Held(p) /\ Busy(p) /\ work[p].op = "save" /\ work[p].pc = "list"
      /\ work[p].todo = {}
  BY DEF Stage, Listed, In, Owned, Held
<1> DEFINE g == lk[p].pid
           t == [stage |-> "partial", tree |-> Nothing]
           w == [work[p] EXCEPT !.pc = "copy", !.gen = g, !.todo = Files]
<1>2. /\ g \in 1 .. MaxPids /\ g =< pids /\ current # g
  BY <1>1, Fields DEF Saves, Saving
<1> HIDE DEF g
<1>3. /\ w \in Works /\ w.op = "save" /\ w.pc = "copy" /\ w.gen = g
      /\ w.manifest = work[p].manifest
  <2>1. work[p] \in Works
    OBVIOUS
  <2>2. g \in 0 .. MaxPids
    BY <1>2
  <2>3. QED
    BY ONLY <1>1, <2>1, <2>2 DEF Works
<1>4. /\ t \in Trees /\ t.stage = "partial" /\ t.tree = Nothing
  BY DEF Trees
<1>5. /\ work' = [work EXCEPT ![p] = w] /\ gens' = [gens EXCEPT ![g] = t]
      /\ UNCHANGED <<lockVars, outVars, current, restored, writes>>
  BY DEF Stage, g
<1> HIDE DEF t, w
<1>6. /\ work'[p] = w /\ lk' = lk /\ out' = out /\ restored' = restored /\ current' = current
      /\ hasFlock' = hasFlock
  BY <1>5 DEF lockVars, outVars
<1>7. \A f \in Files : t.tree[f] =< writes
  <2>1. writes \in Nat
    OBVIOUS
  <2>2. QED
    BY <1>4, <2>1
<1>8. Saves(p)' /\ OnceThere(p)'
  BY <1>1, <1>3, <1>6 DEF g, Saves, OnceThere, Saving, AtWork, Busy
<1>9. hasFlock => Committed' = Committed
  BY <1>2, <1>5, <1>6 DEF Committed
<1>10. Between(p)'
  BY <1>1, <1>3, <1>6, <1>9 DEF Between, Entered, AtWork, Saving, Busy
<1>11. QED
  BY <1>1, <1>2, <1>3, <1>4, <1>5, <1>7, <1>8, <1>10, GenStep DEF Saving, g

\* A file is copied, into a generation that is not committed.
LEMMA CopyKeeps ==
  ASSUME IInv, NEW p \in Procs, Copy(p)
  PROVE  IInv'
<1> USE Shapes, Numbers DEF IInv
<1>1. Held(p) /\ Busy(p) /\ work[p].op = "save" /\ work[p].pc = "copy"
  BY DEF Copy, In, Owned, Held
<1>2. CASE Stop(p)
  BY <1>1, <1>2, StopKeeps
<1>3. CASE ~Stop(p)
  <2> DEFINE g == work[p].gen
  <2>1. /\ gens[g].stage = "partial" /\ UNCHANGED <<lockVars, outVars, current, restored, writes>>
        /\ \E f \in work[p].todo :
             /\ \E v \in CopyOf(p, f) : gens' = [gens EXCEPT ![g].tree[f] = v]
             /\ work' = [work EXCEPT ![p].todo = @ \ {f}]
    BY <1>3 DEF Copy
  <2> PICK f \in work[p].todo :
         /\ \E v \in CopyOf(p, f) : gens' = [gens EXCEPT ![g].tree[f] = v]
         /\ work' = [work EXCEPT ![p].todo = @ \ {f}]
    BY <2>1
  <2>2. PICK v \in CopyOf(p, f) : gens' = [gens EXCEPT ![g].tree[f] = v]
    OBVIOUS
  <2>3. /\ g = lk[p].pid /\ g \in 1 .. MaxPids /\ g =< pids
        /\ f \in Files /\ work[p].todo \subseteq Files /\ work[p].manifest \in [Files -> Versions]
        /\ gens[g] \in Trees /\ gens[g].tree \in [Files -> Versions]
    <3>1. g = lk[p].pid /\ g \in 1 .. MaxPids /\ g =< pids
      BY <1>1, Fields DEF Saves, Saving
    <3>2. gens[g] \in Trees
      BY <3>1
    <3>3. QED
      BY <3>1, <3>2, Fields DEF Trees
  <2> HIDE DEF g
  <2>4. current # g
    <3>1. current # 0 => gens[current].stage # "partial"
      BY DEF Generations
    <3>2. QED
      BY ONLY <2>1, <2>3, <3>1
  <2>5. v \in Versions /\ v =< writes
    BY <2>3 DEF CopyOf, Numbered
  <2> DEFINE t == [stage |-> "partial", tree |-> [gens[g].tree EXCEPT ![f] = v]]
             w == [work[p] EXCEPT !.todo = work[p].todo \ {f}]
  <2>0. t = [gens[g] EXCEPT !.tree[f] = v]
    <3>1. gens[g] \in Trees /\ gens[g].stage = "partial"
      BY <2>1, <2>3
    <3>2. QED
      BY ONLY <3>1 DEF Trees
  <2>6. /\ t \in Trees /\ t.stage = "partial" /\ \A e \in Files : t.tree[e] =< writes
    BY <2>3, <2>5 DEF Trees, Numbered
  <2>7. gens' = [gens EXCEPT ![g] = t]
    <3>1. gens' = [gens EXCEPT ![g] = [gens[g] EXCEPT !.tree[f] = v]]
      BY <2>2 DEF g
    <3>2. QED
      BY <2>0, <3>1
  <2>8. work' = [work EXCEPT ![p] = w]
    BY <2>2
  <2>9. /\ w \in Works /\ w.op = "save" /\ w.pc = "copy" /\ w.gen = g
        /\ w.manifest = work[p].manifest
    <3>1. work[p] \in Works /\ g = work[p].gen
      BY DEF g
    <3>2. QED
      <4>1. w \in Works
        BY ONLY <1>1, <2>3, <3>1 DEF Works
      <4>2. w.op = work[p].op /\ w.pc = work[p].pc /\ w.gen = work[p].gen
        BY ONLY <3>1 DEF Works
      <4>3. w.manifest = work[p].manifest
        BY ONLY <3>1 DEF Works
      <4>4. QED
        BY ONLY <1>1, <3>1, <4>1, <4>2, <4>3
  <2> HIDE DEF t, w
  <2>10. /\ work'[p] = w /\ lk' = lk /\ out' = out /\ restored' = restored /\ current' = current
         /\ hasFlock' = hasFlock
    BY <2>1, <2>8 DEF lockVars, outVars
  <2>11. Saves(p)' /\ OnceThere(p)'
    BY <1>1, <2>3, <2>9, <2>10 DEF g, Saves, OnceThere, Saving, AtWork, Busy
  <2>12. Committed' = Committed
    BY <2>4, <2>7, <2>10 DEF Committed
  <2>13. Between(p)'
    BY <1>1, <2>9, <2>10, <2>12 DEF Between, Entered, AtWork, Saving, Busy
  <2>14. IInv /\ Saving(p)
    BY <1>1 DEF Saving
  <2>15. QED
    BY ONLY <1>1, <2>1, <2>3, <2>4, <2>6, <2>7, <2>8, <2>9, <2>11, <2>13, <2>14, GenStep
<1>4. QED
  BY <1>2, <1>3

\* All is copied: what is in OUT now is at least as new as the manifest.
LEMMA CopiedKeeps ==
  ASSUME IInv, NEW p \in Procs, Copied(p)
  PROVE  IInv'
<1> USE Shapes, Numbers DEF IInv
<1>1. /\ Held(p) /\ Busy(p) /\ work[p].op = "save" /\ work[p].pc = "copy"
  BY Fields DEF Copied, In
<1> DEFINE w == [work[p] EXCEPT !.pc = "recheck", !.todo = Files]
<1>2. /\ work' = [work EXCEPT ![p] = w]
      /\ UNCHANGED <<lockVars, outVars, gens, current, restored, writes>>
  BY DEF Copied
<1>3. /\ w \in Works /\ w.op = "save" /\ w.pc = "recheck" /\ w.gen = work[p].gen
      /\ w.manifest = work[p].manifest /\ w.todo = Files
  <2>1. work[p] \in Works
    OBVIOUS
  <2>2. QED
    BY ONLY <2>1, <1>1 DEF Works
<1> HIDE DEF w
<1>4. /\ work'[p] = w /\ lk' = lk /\ out' = out /\ restored' = restored /\ current' = current
      /\ hasFlock' = hasFlock /\ history' = history /\ gens' = gens
  BY <1>2 DEF lockVars, outVars
<1>5. \A f \in Files : w.manifest[f] =< writes
  BY <1>3, Fields
<1>6. Restores(p)' /\ Saves(p)'
  BY <1>1, <1>3, <1>4 DEF Restores, Saves, Saving, Busy
<1>7. Between(p)'
  BY <1>1, <1>3, <1>4 DEF Between, Entered, AtWork, Saving, Busy, Committed
<1>8. OnceThere(p)'
  <2>1. \A f \in Files : work[p].manifest[f] =< out[f] /\ out[f] \in Nat
    BY <1>1 DEF Between, Entered, AtWork, Saving
  <2>2. \A f \in Files : work[p].manifest[f] =< out[f] /\ out[f] =< out[f]
    BY ONLY <2>1
  <2>3. out \in history
    BY DEF Generations
  <2>4. QED
    BY <1>3, <1>4, <2>2, <2>3 DEF OnceThere
<1>9. QED
  BY <1>1, <1>2, <1>3, <1>5, <1>6, <1>7, <1>8, WorkStep

\* A file that is still as it was listed was so at the instant found before.
LEMMA RecheckKeeps ==
  ASSUME IInv, NEW p \in Procs, Recheck(p)
  PROVE  IInv'
<1> USE Shapes, Numbers DEF IInv
<1>1. /\ Held(p) /\ Busy(p) /\ work[p].op = "save" /\ work[p].pc = "recheck"
  BY Fields DEF Recheck, In
<1>2. CASE Stop(p)
  BY <1>1, <1>2, StopKeeps
<1>3. CASE ~Stop(p)
  <2> PICK f \in work[p].todo :
        /\ out[f] = work[p].manifest[f]
        /\ work' = [work EXCEPT ![p].todo = @ \ {f}]
        /\ UNCHANGED <<lockVars, outVars, gens, current, restored, writes>>
    BY <1>3 DEF Recheck
  <2> DEFINE w == [work[p] EXCEPT !.todo = work[p].todo \ {f}]
  <2>1. /\ work' = [work EXCEPT ![p] = w]
        /\ UNCHANGED <<lockVars, outVars, gens, current, restored, writes>>
    OBVIOUS
  <2>2. f \in Files /\ work[p].todo \subseteq Files
    BY Fields
  <2>3. /\ w \in Works /\ w.op = "save" /\ w.pc = "recheck" /\ w.gen = work[p].gen
        /\ w.manifest = work[p].manifest /\ w.todo = work[p].todo \ {f}
    <3>1. work[p] \in Works
      OBVIOUS
    <3>2. QED
      BY ONLY <3>1, <2>2, <1>1 DEF Works
  <2> HIDE DEF w
  <2>4. /\ work'[p] = w /\ lk' = lk /\ out' = out /\ restored' = restored /\ current' = current
        /\ hasFlock' = hasFlock /\ history' = history /\ gens' = gens
    BY <2>1 DEF lockVars, outVars
  <2>5. \A e \in Files : w.manifest[e] =< writes
    BY <2>3, Fields
  <2>6. Restores(p)' /\ Saves(p)'
    <3>1. restored /\ w.gen = lk'[p].pid
      BY <1>1, <2>3, <2>4 DEF Saves, Saving
    <3>2. QED
      BY <2>3, <2>4, <3>1 DEF Restores, Saves, Saving, Busy
  <2>7. Between(p)'
    BY <1>1, <2>3, <2>4 DEF Between, Entered, AtWork, Saving, Busy, Committed
  <2>8. OnceThere(p)'
    <3> PICK h \in history : \A e \in Files :
          /\ work[p].manifest[e] =< h[e] /\ h[e] =< out[e]
          /\ e \notin work[p].todo => h[e] = work[p].manifest[e]
      BY <1>1 DEF OnceThere, AtWork, Saving
    <3>1. h[f] \in Nat /\ out[f] \in Nat
      <4>1. h \in [Files -> Versions] /\ out \in [Files -> Versions]
        OBVIOUS
      <4>2. QED
        BY <2>2, <4>1
    <3>2. out[f] =< h[f] /\ h[f] =< out[f]
      BY <2>2
    <3>3. h[f] = out[f]
      BY ONLY <3>1, <3>2
    <3>4. \A e \in Files :
            /\ w.manifest[e] =< h[e] /\ h[e] =< out[e]
            /\ e \notin w.todo => h[e] = w.manifest[e]
      BY <2>3, <3>3
    <3>5. QED
      BY <2>3, <2>4, <3>4 DEF OnceThere
  <2>9. QED
    BY <1>1, <2>1, <2>3, <2>5, <2>6, <2>7, <2>8, WorkStep
<1>4. QED
  BY <1>2, <1>3

\* What is committed was there when the last file had been looked at again.
LEMMA CommitKeeps ==
  ASSUME IInv, NEW p \in Procs, Commit(p)
  PROVE  IInv'
<1> USE Shapes, Numbers DEF IInv
<1>1. /\ Held(p) /\ Busy(p) /\ work[p].op = "save" /\ work[p].pc = "recheck"
      /\ work[p].todo = {}
  BY Fields DEF Commit, In
<1>2. CASE Stop(p)
  BY <1>1, <1>2, StopKeeps
<1>3. CASE ~Stop(p)
  <2> DEFINE g == work[p].gen
             t == [stage |-> "committed", tree |-> work[p].manifest]
             w == [work[p] EXCEPT !.pc = "point"]
  <2>1. /\ gens[g] = [stage |-> "partial", tree |-> work[p].manifest]
        /\ gens' = [gens EXCEPT ![g].stage = "committed"]
        /\ work' = [work EXCEPT ![p] = w]
        /\ UNCHANGED <<lockVars, outVars, current, restored, writes>>
    BY <1>3 DEF Commit, To
  <2>2. g = lk[p].pid /\ g \in 1 .. MaxPids /\ g =< pids
    BY <1>1, Fields DEF Saves, Saving
  <2>3. current # g
    BY <2>1, <2>2 DEF Generations
  <2>4. gens' = [gens EXCEPT ![g] = t]
    <3>1. [gens[g] EXCEPT !.stage = "committed"] = t
      BY <2>1
    <3>2. gens' = [gens EXCEPT ![g] = [gens[g] EXCEPT !.stage = "committed"]]
      BY <2>1
    <3>3. QED
      BY <3>1, <3>2
  <2>5. /\ w \in Works /\ w.op = "save" /\ w.pc = "point" /\ w.gen = g
        /\ w.manifest = work[p].manifest
    <3>1. work[p] \in Works
      OBVIOUS
    <3>2. QED
      BY ONLY <3>1, <1>1 DEF Works
  <2>6. work[p].manifest \in history
    <3>1. PICK h \in history : \A f \in Files : h[f] = work[p].manifest[f]
      BY <1>1 DEF OnceThere, AtWork, Saving
    <3>2. h \in [Files -> Versions] /\ work[p].manifest \in [Files -> Versions]
      BY Fields
    <3>3. h = work[p].manifest
      BY ONLY <3>1, <3>2
    <3>4. QED
      BY <3>3
  <2>7. /\ t \in Trees /\ t.stage = "committed" /\ t.tree = work[p].manifest
        /\ \A f \in Files : t.tree[f] =< writes
    BY Fields DEF Trees
  <2>8. /\ work'[p] = w /\ lk' = lk /\ out' = out /\ restored' = restored /\ current' = current
        /\ hasFlock' = hasFlock /\ gens'[g] = t
    BY <2>1, <2>2, <2>4 DEF lockVars, outVars
  <2>9. Saves(p)'
    <3>1. /\ gens'[w.gen] = [stage |-> "committed", tree |-> w.manifest]
          /\ gens'[w.gen].stage = "committed"
      BY <2>5, <2>8
    <3>2. restored /\ w.gen = lk'[p].pid
      BY <1>1, <2>2, <2>5, <2>8 DEF Saves, Saving
    <3> HIDE DEF g, t, w
    <3>3. QED
      BY <2>5, <2>8, <3>1, <3>2 DEF Saves, Saving, Busy
  <2> HIDE DEF g, t, w
  <2>10. Committed' = Committed
    BY <2>2, <2>3, <2>4, <2>8 DEF Committed
  <2>11. Between(p)' /\ OnceThere(p)'
    BY <1>1, <2>5, <2>8, <2>10 DEF Between, Entered, OnceThere, AtWork, Saving, Busy
  <2>12. QED
    BY <1>1, <2>1, <2>2, <2>3, <2>4, <2>5, <2>6, <2>7, <2>9, <2>11, GenStep DEF Saving
<1>4. QED
  BY <1>2, <1>3

\* A directory is removed that is neither the new generation nor the one before it.
LEMMA CleanupKeeps ==
  ASSUME IInv, NEW p \in Procs, Cleanup(p)
  PROVE  IInv'
<1> USE Shapes, Numbers DEF IInv
<1>1. /\ Held(p) /\ Busy(p) /\ work[p].op = "save" /\ work[p].pc = "cleanup"
  BY Fields DEF Cleanup, In
<1>2. CASE Stop(p)
  BY <1>1, <1>2, StopKeeps
<1>3. CASE ~Stop(p)
  <2>1. PICK g \in 1 .. MaxPids :
          /\ gens[g].stage # "absent" /\ g # work[p].gen
          /\ gens' = [gens EXCEPT ![g] = Absent]
    BY <1>3 DEF Cleanup
  <2>2. UNCHANGED <<lockVars, outVars, current, work, restored, writes>>
    BY <1>3 DEF Cleanup
  <2>3. g =< pids
    BY <2>1 DEF Numbered
  <2>4. current = g => ~hasFlock
    BY <1>1, <2>1 DEF Saves, Saving
  <2>5. \A f \in Files : Absent.tree[f] =< writes
    <3>1. writes \in Nat
      OBVIOUS
    <3>2. QED
      BY <3>1
  <2>6. Absent.stage # "committed"
    OBVIOUS
  <2>7. /\ lk' = lk /\ out' = out /\ restored' = restored /\ current' = current
        /\ hasFlock' = hasFlock /\ work' = work
    BY <2>2 DEF lockVars, outVars
  <2>8. Saves(p)' /\ Between(p)' /\ OnceThere(p)'
    BY <1>1, <2>7 DEF Saves, Between, Entered, OnceThere, AtWork, Saving, Busy
  <2>9. work[p] \in Works /\ work' = [work EXCEPT ![p] = work[p]]
    BY <2>7
  <2>10. QED
    BY <1>1, <2>1, <2>2, <2>3, <2>4, <2>5, <2>6, <2>8, <2>9, GenStep DEF Saving
<1>4. QED
  BY <1>2, <1>3

\* CURRENT names what the save has committed, which is no newer than OUT.
LEMMA PointKeeps ==
  ASSUME IInv, NEW p \in Procs, Point(p)
  PROVE  IInv'
<1> USE Shapes, Numbers DEF IInv
<1>1. /\ Held(p) /\ Busy(p) /\ work[p].op = "save" /\ work[p].pc = "point"
  BY Fields DEF Point, In
<1> DEFINE g == work[p].gen
           w == [work[p] EXCEPT !.pc = "cleanup"]
<1>2. /\ work' = [work EXCEPT ![p] = w] /\ current' = g
      /\ UNCHANGED <<lockVars, outVars, gens, restored, writes>>
  BY DEF Point, To
<1>3. /\ w \in Works /\ w.op = "save" /\ w.pc = "cleanup" /\ w.gen = g
      /\ w.manifest = work[p].manifest
  <2>1. work[p] \in Works
    OBVIOUS
  <2>2. QED
    BY ONLY <2>1, <1>1 DEF Works
<1>4. g = lk[p].pid /\ g \in 1 .. MaxPids /\ g =< pids /\ gens[g].stage \in {"committed", "absent"}
  BY <1>1, Fields DEF Saves, Saving
<1>5. hasFlock => gens[g] = [stage |-> "committed", tree |-> work[p].manifest]
  BY <1>1 DEF Saves, Saving
<1> HIDE DEF g, w
<1>6. /\ lk' = lk /\ pids' = pids /\ hasFlock' = hasFlock /\ flock' = flock /\ dir' = dir
      /\ out' = out /\ backup' = backup /\ live' = live /\ history' = history
      /\ gens' = gens /\ restored' = restored /\ writes' = writes /\ current' = g
  BY <1>2 DEF lockVars, outVars
<1>7. /\ work'[p] = w /\ \A q \in Procs \ {p} : work'[q] = work[q]
      /\ work' \in [Procs -> Works]
  BY <1>2, <1>3
<1>8. hasFlock => Committed' = work[p].manifest
  BY <1>4, <1>5, <1>6 DEF Committed
<1>9. TypeOK'
  BY <1>4, <1>6, <1>7 DEF TypeOK, LockTypeOK, Works
<1>10. Numbered'
  BY <1>3, <1>4, <1>6, <1>7 DEF Numbered
<1>11. Generations'
  <2>1. \A f \in Files : work[p].manifest[f] =< out[f]
    BY <1>1 DEF Between, Entered, AtWork, Saving
  <2>2. hasFlock /\ restored => \A f \in Files : Committed'[f] =< out[f]
    BY <1>8, <2>1
  <2>3. CurrentIntact'
    BY <1>4, <1>5, <1>6 DEF CurrentIntact, Intact
  <2>4. QED
    BY <1>4, <1>6, <2>2, <2>3 DEF Generations
<1>12. LocalEvidenceKept'
  BY <1>6 DEF LocalEvidenceKept
<1>13. \A q \in Procs : Owned(q)'
  BY <1>1, <1>6, <1>7 DEF Owned, Busy, Held
<1>14. Restores(p)' /\ Between(p)' /\ OnceThere(p)'
  BY <1>3, <1>7 DEF Restores, Between, Entered, OnceThere, AtWork
<1>15. Saves(p)'
  BY <1>1, <1>3, <1>4, <1>6, <1>7 DEF Saves, Saving, Busy
<1>16. ASSUME NEW q \in Procs \ {p}
       PROVE  Restores(q)' /\ Saves(q)' /\ Between(q)' /\ OnceThere(q)'
  <2>1. work'[q] = work[q] /\ lk'[q] = lk[q]
    BY <1>6, <1>7
  <2>2. Restores(q)'
    <3>1. Busy(q) /\ work[q].op = "restore" => work[q].pc = "done"
      BY <1>1 DEF Restores
    <3>2. QED
      BY <1>6, <2>1, <3>1 DEF Restores, Busy
  <2>3. hasFlock => work[q].pc = "start"
    BY <1>1, Alone DEF Owned
  <2>4. Saves(q)'
    <3>1. Busy(q) => lk[q].pid # g
      BY <1>1, <1>4 DEF Owned
    <3>2. QED
      BY <1>6, <2>1, <2>3, <3>1 DEF Saves, Saving, Busy
  <2>5. Between(q)'
    BY <1>6, <2>1, <2>3 DEF Between, Entered, AtWork, Saving, Busy
  <2>6. OnceThere(q)'
    BY <1>6, <2>1 DEF OnceThere, AtWork, Saving, Busy
  <2>7. QED
    BY <2>2, <2>4, <2>5, <2>6
<1>17. QED
  BY <1>9, <1>10, <1>11, <1>12, <1>13, <1>14, <1>15, <1>16

-----------------------------------------------------------------------------
(* The steps of a restore. *)

\* A restore is alone: its step has to keep what is said of itself, of OUT and of what
\* was written on the node.
LEMMA RestoreStep ==
  ASSUME IInv, NEW p \in Procs, NEW w \in Works, Held(p), work[p].op = "restore",
         work[p].pc # "done", w.op = "restore",
         UNCHANGED <<lockVars, gens, current, writes, live>>,
         work' = [work EXCEPT ![p] = w], \A f \in Files : w.manifest[f] =< writes,
         out' \in [Files -> Versions], \A f \in Files : out'[f] =< writes,
         history' = history \cup {out'}, backup' \in [Files -> SUBSET Versions],
         restored' \in BOOLEAN, LocalEvidenceKept', Restores(p)',
         hasFlock /\ restored' => \A f \in Files : Committed[f] =< out'[f]
  PROVE  IInv'
<1> USE Shapes, Numbers DEF IInv
<1>1. /\ lk' = lk /\ pids' = pids /\ hasFlock' = hasFlock /\ flock' = flock /\ dir' = dir
      /\ live' = live /\ gens' = gens /\ current' = current /\ writes' = writes
  BY DEF lockVars
<1>2. /\ work'[p] = w /\ \A q \in Procs \ {p} : work'[q] = work[q]
      /\ work' \in [Procs -> Works]
  OBVIOUS
<1>3. Busy(p)
  BY Fields
<1>4. \A q \in Procs \ {p} : ~Busy(q)
  BY <1>3 DEF Restores
<1>5. TypeOK'
  <2>1. LockTypeOK'
    BY <1>1 DEF TypeOK, LockTypeOK
  <2>2. QED
    BY <1>1, <1>2, <2>1 DEF TypeOK, Works
<1>6. Numbered'
  BY <1>1, <1>2 DEF Numbered
<1>7. Generations'
  <2>1. Committed' = Committed
    BY <1>1 DEF Committed
  <2>2. CurrentIntact'
    BY <1>1 DEF Generations, CurrentIntact, Intact
  <2>3. QED
    BY <1>1, <2>1, <2>2 DEF Generations
<1>8. \A q \in Procs : Owned(q)'
  BY <1>1, <1>2 DEF Owned, Busy, Held
<1>9. Saves(p)' /\ Between(p)' /\ OnceThere(p)'
  BY <1>2 DEF Saves, Between, Entered, OnceThere, AtWork, Saving
<1>10. \A q \in Procs \ {p} : Restores(q)' /\ Saves(q)' /\ Between(q)' /\ OnceThere(q)'
  BY <1>1, <1>4 DEF Restores, Saves, Between, Entered, OnceThere, AtWork, Saving, Busy
<1>11. QED
  BY <1>5, <1>6, <1>7, <1>8, <1>9, <1>10

\* There is nothing to restore.
LEMMA FirstJobKeeps ==
  ASSUME IInv, NEW p \in Procs, FirstJob(p)
  PROVE  IInv'
<1> USE Shapes, Numbers DEF IInv
<1>1. /\ Held(p) /\ work[p].op = "restore" /\ work[p].pc = "start" /\ current = 0
  BY DEF FirstJob, In
<1> DEFINE w == [work[p] EXCEPT !.pc = "done"]
<1>2. /\ work' = [work EXCEPT ![p] = w] /\ restored' = TRUE
      /\ UNCHANGED <<lockVars, outVars, gens, current, writes>>
  BY DEF FirstJob, To
<1>3. w \in Works /\ w.op = "restore" /\ w.pc = "done" /\ w.manifest = work[p].manifest
  <2>1. work[p] \in Works
    OBVIOUS
  <2>2. QED
    BY ONLY <2>1, <1>1 DEF Works
<1> HIDE DEF w
<1>4. /\ out' = out /\ backup' = backup /\ live' = live /\ history' = history
      /\ work'[p] = w
  BY <1>2 DEF outVars
<1>5. history' = history \cup {out'}
  BY <1>4 DEF Generations
<1>6. \A f \in Files : w.manifest[f] =< writes /\ out'[f] =< writes
  BY <1>3, <1>4, Fields DEF Numbered
<1>7. \A f \in Files : Committed[f] =< out'[f]
  <2>1. \A f \in Files : out[f] \in Nat
    OBVIOUS
  <2>2. QED
    BY <1>1, <1>4, <2>1 DEF Committed
<1>8. Restores(p)'
  BY <1>3, <1>4 DEF Restores
<1>9. LocalEvidenceKept'
  BY <1>4 DEF LocalEvidenceKept
<1>10. QED
  BY <1>1, <1>2, <1>3, <1>4, <1>5, <1>6, <1>7, <1>8, <1>9, RestoreStep

\* What is to be moved aside is what differs from the committed generation.
LEMMA CompareKeeps ==
  ASSUME IInv, NEW p \in Procs, Compare(p)
  PROVE  IInv'
<1> USE Shapes, Numbers DEF IInv
<1>1. /\ Held(p) /\ Busy(p) /\ work[p].op = "restore" /\ work[p].pc = "start" /\ current # 0
  BY Fields DEF Compare, In
<1>2. CASE Stop(p)
  BY <1>1, <1>2, StopKeeps
<1>3. CASE ~Stop(p)
  <2> DEFINE m == gens[current].tree
             d == {f \in Files : out[f] \notin {0, m[f]}}
             w == [work[p] EXCEPT !.pc = "aside", !.manifest = m, !.todo = d]
  <2>1. /\ work' = [work EXCEPT ![p] = w]
        /\ UNCHANGED <<lockVars, outVars, gens, current, restored, writes>>
    BY <1>3 DEF Compare
  <2>2. m \in [Files -> Versions] /\ \A f \in Files : m[f] =< writes
    <3>1. current \in 1 .. MaxPids
      BY <1>1
    <3>2. QED
      BY <3>1 DEF Trees, Numbered
  <2>3. /\ w \in Works /\ w.op = "restore" /\ w.pc = "aside" /\ w.manifest = m /\ w.todo = d
    <3>1. work[p] \in Works /\ d \in SUBSET Files
      OBVIOUS
    <3> HIDE DEF m, d
    <3>2. QED
      BY ONLY <3>1, <2>2, <1>1 DEF Works
  <2> HIDE DEF w
  <2>4. /\ out' = out /\ backup' = backup /\ live' = live /\ history' = history
        /\ work'[p] = w /\ lk' = lk /\ restored' = restored /\ gens' = gens /\ current' = current
    BY <2>1 DEF outVars, lockVars
  <2>5. history' = history \cup {out'}
    BY <2>4 DEF Generations
  <2>6. \A f \in Files : w.manifest[f] =< writes /\ out'[f] =< writes
    BY <2>2, <2>3, <2>4 DEF Numbered
  <2>7. ~restored /\ \A q \in Procs : Busy(q) => q = p
    BY <1>1 DEF Restores
  <2>8. Restores(p)'
    BY <1>1, <2>3, <2>4, <2>7 DEF Restores, Busy
  <2>9. LocalEvidenceKept'
    BY <2>4 DEF LocalEvidenceKept
  <2>10. UNCHANGED <<lockVars, gens, current, writes, live>> /\ ~restored'
    BY <2>1, <2>4, <2>7 DEF outVars
  <2>11. QED
    BY <1>1, <2>1, <2>3, <2>4, <2>5, <2>6, <2>7, <2>8, <2>9, <2>10, RestoreStep
<1>4. QED
  BY <1>2, <1>3

\* What is moved aside is in a backup from then on.
LEMMA MoveAsideKeeps ==
  ASSUME IInv, NEW p \in Procs, MoveAside(p)
  PROVE  IInv'
<1> USE Shapes, Numbers DEF IInv
<1>1. /\ Held(p) /\ Busy(p) /\ work[p].op = "restore" /\ work[p].pc = "aside"
  BY Fields DEF MoveAside, In
<1> PICK f \in work[p].todo :
      /\ backup' = [backup EXCEPT ![f] = @ \cup {out[f]}]
      /\ out' = [out EXCEPT ![f] = 0] /\ history' = history \cup {out'}
      /\ work' = [work EXCEPT ![p].todo = @ \ {f}]
  BY DEF MoveAside
<1> DEFINE w == [work[p] EXCEPT !.todo = work[p].todo \ {f}]
<1>2. /\ work' = [work EXCEPT ![p] = w]
      /\ UNCHANGED <<lockVars, gens, current, restored, writes, live>>
  BY DEF MoveAside
<1>3. f \in Files /\ work[p].todo \subseteq Files /\ out[f] \in Versions
  BY Fields
<1>4. /\ w \in Works /\ w.op = "restore" /\ w.pc = "aside" /\ w.manifest = work[p].manifest
      /\ w.todo = work[p].todo \ {f}
  <2>1. work[p] \in Works
    OBVIOUS
  <2>2. QED
    BY ONLY <2>1, <1>3, <1>1 DEF Works
<1> HIDE DEF w
<1>5. /\ live' = live /\ work'[p] = w /\ lk' = lk /\ restored' = restored /\ gens' = gens
      /\ current' = current
  BY <1>2 DEF lockVars
<1>6. out'[f] = 0 /\ out' \in [Files -> Versions] /\ \A e \in Files \ {f} : out'[e] = out[e]
  BY <1>3
<1>7. /\ backup' \in [Files -> SUBSET Versions]
      /\ \A e \in Files : backup[e] \subseteq backup'[e]
      /\ out[f] \in backup'[f]
  BY <1>3
<1>8. \A e \in Files : w.manifest[e] =< writes /\ out'[e] =< writes
  <2>1. writes \in Nat
    OBVIOUS
  <2>2. QED
    BY <1>4, <1>6, <2>1, Fields DEF Numbered
<1>9. LocalEvidenceKept'
  BY <1>3, <1>5, <1>6, <1>7 DEF LocalEvidenceKept
<1>10. ~restored /\ \A q \in Procs : Busy(q) => q = p
  BY <1>1 DEF Restores
<1>11. Restores(p)'
  <2>1. current # 0 /\ work[p].manifest = gens[current].tree
    BY <1>1 DEF Restores
  <2>2. \A e \in Files : e \notin w.todo => out'[e] \in {0, w.manifest[e]}
    BY <1>1, <1>4, <1>6 DEF Restores
  <2>3. Restores(p)' <=>
          (Busy(p) /\ w.op = "restore" =>
             /\ w.pc \in {"start", "aside", "fill", "done"}
             /\ w.pc # "done" => ~restored /\ \A q \in Procs : Busy(q) => q = p
             /\ w.pc \in {"aside", "fill"} => current # 0 /\ w.manifest = gens[current].tree
             /\ \A e \in Files : w.pc = "fill" \/ (w.pc = "aside" /\ e \notin w.todo) =>
                  out'[e] \in {0, w.manifest[e]})
    BY <1>5 DEF Restores, Busy
  <2>4. QED
    BY <1>4, <1>10, <2>1, <2>2, <2>3
<1>12. UNCHANGED <<lockVars, gens, current, writes, live>> /\ ~restored'
  BY <1>2, <1>5, <1>10 DEF outVars
<1>13. restored' \in BOOLEAN /\ history' = history \cup {out'} /\ IInv
  BY <1>5
<1>14. QED
  BY ONLY <1>1, <1>2, <1>4, <1>6, <1>7, <1>8, <1>9, <1>11, <1>12, <1>13, RestoreStep

\* Whatever is still in OUT is what it is to become.
LEMMA MovedAsideKeeps ==
  ASSUME IInv, NEW p \in Procs, MovedAside(p)
  PROVE  IInv'
<1> USE Shapes, Numbers DEF IInv
<1>1. /\ Held(p) /\ Busy(p) /\ work[p].op = "restore" /\ work[p].pc = "aside" /\ work[p].todo = {}
  BY Fields DEF MovedAside, In
<1> DEFINE w == [work[p] EXCEPT !.pc = "fill", !.todo = Files]
<1>2. /\ work' = [work EXCEPT ![p] = w]
      /\ UNCHANGED <<lockVars, outVars, gens, current, restored, writes>>
  BY DEF MovedAside
<1>3. w \in Works /\ w.op = "restore" /\ w.pc = "fill" /\ w.manifest = work[p].manifest
  <2>1. work[p] \in Works
    OBVIOUS
  <2>2. QED
    BY ONLY <2>1, <1>1 DEF Works
<1> HIDE DEF w
<1>4. /\ out' = out /\ backup' = backup /\ live' = live /\ history' = history
      /\ work'[p] = w /\ lk' = lk /\ restored' = restored /\ gens' = gens /\ current' = current
  BY <1>2 DEF outVars, lockVars
<1>5. history' = history \cup {out'}
  BY <1>4 DEF Generations
<1>6. \A f \in Files : w.manifest[f] =< writes /\ out'[f] =< writes
  BY <1>3, <1>4, Fields DEF Numbered
<1>7. ~restored /\ \A q \in Procs : Busy(q) => q = p
  BY <1>1 DEF Restores
<1>8. Restores(p)'
  <2>1. current # 0 /\ work[p].manifest = gens[current].tree
    BY <1>1 DEF Restores
  <2>2. \A f \in Files : out[f] \in {0, work[p].manifest[f]}
    BY <1>1 DEF Restores
  <2>3. QED
    BY <1>1, <1>3, <1>4, <1>7, <2>1, <2>2 DEF Restores, Busy
<1>9. LocalEvidenceKept'
  BY <1>4 DEF LocalEvidenceKept
<1>10. UNCHANGED <<lockVars, gens, current, writes, live>> /\ ~restored'
  BY <1>2, <1>4, <1>7 DEF outVars
<1>11. QED
  BY <1>1, <1>2, <1>3, <1>4, <1>5, <1>6, <1>7, <1>8, <1>9, <1>10, RestoreStep

\* rsync replaces only what is equal or not there.
LEMMA FillKeeps ==
  ASSUME IInv, NEW p \in Procs, Fill(p)
  PROVE  IInv'
<1> USE Shapes, Numbers DEF IInv
<1>1. /\ Held(p) /\ Busy(p) /\ work[p].op = "restore" /\ work[p].pc = "fill"
  BY Fields DEF Fill, In
<1> PICK f \in work[p].todo :
      /\ out' = [out EXCEPT ![f] = IF work[p].manifest[f] = 0 THEN @ ELSE work[p].manifest[f]]
      /\ history' = history \cup {out'}
      /\ work' = [work EXCEPT ![p].todo = @ \ {f}]
  BY DEF Fill
<1> DEFINE w == [work[p] EXCEPT !.todo = work[p].todo \ {f}]
           v == IF work[p].manifest[f] = 0 THEN out[f] ELSE work[p].manifest[f]
<1>2. /\ work' = [work EXCEPT ![p] = w] /\ out' = [out EXCEPT ![f] = v]
      /\ UNCHANGED <<lockVars, gens, current, restored, writes, live, backup>>
  BY DEF Fill
<1>3. f \in Files /\ work[p].todo \subseteq Files /\ v \in Versions /\ v =< writes
  BY Fields DEF Numbered
<1>4. /\ w \in Works /\ w.op = "restore" /\ w.pc = "fill" /\ w.manifest = work[p].manifest
  <2>1. work[p] \in Works
    OBVIOUS
  <2>2. QED
    BY ONLY <2>1, <1>3, <1>1 DEF Works
<1>5. out[f] \in {0, work[p].manifest[f]}
  BY <1>1, <1>3 DEF Restores
<1>6. (v = out[f] \/ out[f] = 0) /\ v \in {0, work[p].manifest[f]}
  BY <1>5
<1> HIDE DEF w, v
<1>7. /\ live' = live /\ work'[p] = w /\ lk' = lk /\ restored' = restored /\ gens' = gens
      /\ current' = current /\ backup' = backup
  BY <1>2 DEF lockVars
<1>8. out'[f] = v /\ out' \in [Files -> Versions] /\ \A e \in Files \ {f} : out'[e] = out[e]
  BY <1>2, <1>3
<1>9. \A e \in Files : w.manifest[e] =< writes /\ out'[e] =< writes
  BY <1>3, <1>4, <1>8, Fields DEF Numbered
<1>10. LocalEvidenceKept'
  BY <1>6, <1>7, <1>8 DEF LocalEvidenceKept
<1>11. ~restored /\ \A q \in Procs : Busy(q) => q = p
  BY <1>1 DEF Restores
<1>12. Restores(p)'
  <2>1. current # 0 /\ work[p].manifest = gens[current].tree
    BY <1>1 DEF Restores
  <2>2. \A e \in Files : out'[e] \in {0, w.manifest[e]}
    BY <1>1, <1>4, <1>6, <1>8 DEF Restores
  <2>3. QED
    BY <1>1, <1>4, <1>7, <1>11, <2>1, <2>2 DEF Restores, Busy
<1>13. /\ UNCHANGED <<lockVars, gens, current, writes, live>> /\ ~restored'
       /\ restored' \in BOOLEAN /\ backup' \in [Files -> SUBSET Versions]
       /\ history' = history \cup {out'}
  BY <1>2, <1>7, <1>11 DEF outVars
<1>14. QED
  BY <1>1, <1>2, <1>4, <1>7, <1>8, <1>9, <1>10, <1>11, <1>12, <1>13, RestoreStep

\* The job is past its restore when OUT is what is committed.
LEMMA VerifyKeeps ==
  ASSUME IInv, NEW p \in Procs, Verify(p)
  PROVE  IInv'
<1> USE Shapes, Numbers DEF IInv
<1>1. /\ Held(p) /\ work[p].op = "restore" /\ work[p].pc = "fill"
  BY DEF Verify, In
<1> DEFINE w == [work[p] EXCEPT !.pc = "done"]
<1>2. /\ work' = [work EXCEPT ![p] = w] /\ restored' = (out = work[p].manifest)
      /\ UNCHANGED <<lockVars, outVars, gens, current, writes>>
  BY DEF Verify, To
<1>3. w \in Works /\ w.op = "restore" /\ w.pc = "done" /\ w.manifest = work[p].manifest
  <2>1. work[p] \in Works
    OBVIOUS
  <2>2. QED
    BY ONLY <2>1, <1>1 DEF Works
<1> HIDE DEF w
<1>4. /\ out' = out /\ backup' = backup /\ live' = live /\ history' = history
      /\ work'[p] = w
  BY <1>2 DEF outVars
<1>5. history' = history \cup {out'}
  BY <1>4 DEF Generations
<1>6. \A f \in Files : w.manifest[f] =< writes /\ out'[f] =< writes
  BY <1>3, <1>4, Fields DEF Numbered
<1>7. restored' => \A f \in Files : Committed[f] =< out'[f]
  <2>1. current # 0 /\ work[p].manifest = gens[current].tree
    BY <1>1, Fields DEF Restores
  <2>2. restored' => Committed = out
    BY <1>2, <2>1 DEF Committed
  <2>3. \A f \in Files : out[f] \in Nat
    OBVIOUS
  <2>4. \A f \in Files : out[f] =< out[f]
    BY ONLY <2>3
  <2>5. QED
    BY <1>4, <2>2, <2>4
<1>8. Restores(p)'
  BY <1>3, <1>4 DEF Restores
<1>9. LocalEvidenceKept'
  BY <1>4 DEF LocalEvidenceKept
<1>10. restored' \in BOOLEAN
  BY <1>2
<1>11. QED
  BY <1>1, <1>2, <1>3, <1>4, <1>5, <1>6, <1>7, <1>8, <1>9, <1>10, RestoreStep

-----------------------------------------------------------------------------
(* The steps of the jobs and of the lock. *)

\* Nothing is there, and nobody.
LEMMA InitHolds == Init => IInv
<1> SUFFICES ASSUME Init PROVE IInv
  OBVIOUS
<1> USE Numbers
<1>1. /\ hasFlock \in BOOLEAN /\ flock = 0 /\ dir = 0 /\ pids = 0
      /\ lk = [p \in Procs |-> [pc |-> "idle", pid |-> 0, tries |-> 0]]
      /\ out = Nothing /\ backup = [f \in Files |-> {}] /\ current = 0
      /\ gens = [g \in 1 .. MaxPids |-> Absent] /\ work = [p \in Procs |-> NoWork]
      /\ restored = FALSE /\ writes = 0 /\ live = Nothing /\ history = {Nothing}
  BY LockAssumption DEF Init, LockInit, NoDir, NoProcess
<1>2. \A p \in Procs : lk[p].pc = "idle" /\ lk[p].pid = 0 /\ work[p] = NoWork
  BY <1>1
<1>3. TypeOK
  <2>1. lk \in [Procs -> Locks]
    BY <1>1 DEF Locks
  <2>2. work \in [Procs -> Works] /\ gens \in [1 .. MaxPids -> Trees]
    BY <1>1
  <2>3. backup \in [Files -> SUBSET Versions]
    BY <1>1
  <2>4. LockTypeOK
    BY <1>1, <2>1 DEF LockTypeOK, Locks
  <2>5. /\ writes \in Versions /\ out \in [Files -> Versions] /\ live \in [Files -> Versions]
        /\ history \subseteq [Files -> Versions] /\ current \in 0 .. MaxPids /\ restored \in BOOLEAN
    <3>1. writes = 0 /\ current = 0 /\ restored = FALSE
      BY <1>1
    <3>2. out = Nothing /\ live = Nothing /\ history = {Nothing}
      BY <1>1
    <3>3. writes \in Versions /\ current \in 0 .. MaxPids /\ restored \in BOOLEAN
      <4>1. 0 \in Versions /\ 0 \in 0 .. MaxPids
        OBVIOUS
      <4>2. QED
        BY ONLY <3>1, <4>1
    <3>4. QED
      BY <3>2, <3>3
  <2>6. QED
    BY <2>2, <2>3, <2>4, <2>5 DEF TypeOK, Works, Trees
<1>4. Numbered
  BY <1>1, <1>2 DEF Numbered
<1>5. Generations /\ LocalEvidenceKept
  BY <1>1 DEF Generations, CurrentIntact, LocalEvidenceKept
<1>6. \A p \in Procs : Owned(p)
  BY <1>1, <1>2 DEF Owned, Busy, Held
<1>7. \A p \in Procs : Restores(p) /\ Saves(p) /\ Between(p) /\ OnceThere(p)
  BY <1>2 DEF Restores, Saves, Between, Entered, OnceThere, AtWork, Saving, Busy
<1>8. QED
  BY <1>3, <1>4, <1>5, <1>6, <1>7 DEF IInv

\* The next job finds nobody at work, and has not restored yet.
LEMMA NextJobKeeps ==
  ASSUME IInv, NextJob
  PROVE  IInv'
<1> USE Shapes, Numbers DEF IInv
<1>1. /\ lk' = lk /\ pids' = pids /\ hasFlock' = hasFlock /\ flock' = flock /\ dir' = dir
      /\ backup' = backup /\ history' = history \cup {out'} /\ gens' = gens /\ current' = current
      /\ work' = work /\ writes' = writes /\ restored' = FALSE
      /\ (out' = Nothing /\ live' = Nothing) \/ (out' = out /\ live' = live)
  BY DEF NextJob, lockVars
<1>2. \A p \in Procs : ~Busy(p)
  BY DEF NextJob, At, Owned
<1>3. out' \in [Files -> Versions] /\ live' \in [Files -> Versions]
  BY <1>1
<1>4. TypeOK'
  BY <1>1, <1>3 DEF TypeOK, LockTypeOK
<1>5. Numbered'
  <2>1. writes \in Nat
    OBVIOUS
  <2>2. \A f \in Files : out'[f] =< writes
    BY <1>1, <2>1 DEF Numbered
  <2>3. QED
    BY <1>1, <2>2 DEF Numbered
<1>6. Generations'
  BY <1>1 DEF Generations, CurrentIntact, Intact
<1>7. LocalEvidenceKept'
  BY <1>1 DEF LocalEvidenceKept
<1>8. \A p \in Procs : Owned(p)'
  BY <1>1 DEF Owned, Busy, Held
<1>9. \A p \in Procs : Restores(p)' /\ Saves(p)' /\ Between(p)' /\ OnceThere(p)'
  BY <1>1, <1>2 DEF Restores, Saves, Between, Entered, OnceThere, AtWork, Saving, Busy
<1>10. QED
  BY <1>4, <1>5, <1>6, <1>7, <1>8, <1>9

\* A stage writes a version newer than all there are.
LEMMA WriteKeeps ==
  ASSUME IInv, NEW f \in Files, Write(f)
  PROVE  IInv'
<1> USE Shapes, Numbers DEF IInv
<1>1. /\ lk' = lk /\ pids' = pids /\ hasFlock' = hasFlock /\ flock' = flock /\ dir' = dir
      /\ backup' = backup /\ history' = history \cup {out'} /\ gens' = gens /\ current' = current
      /\ work' = work /\ restored' = restored /\ restored /\ writes < MaxWrites
      /\ out' = [out EXCEPT ![f] = writes + 1] /\ live' = [live EXCEPT ![f] = writes + 1]
      /\ writes' = writes + 1
  BY DEF Write, lockVars
<1>2. writes \in Nat /\ writes + 1 \in Versions /\ writes =< writes + 1
  BY <1>1, HandoffAssumption DEF Versions
<1>3. /\ out' \in [Files -> Versions] /\ out'[f] = writes + 1
      /\ \A e \in Files \ {f} : out'[e] = out[e]
  BY <1>1, <1>2
<1>4. /\ live' \in [Files -> Versions] /\ live'[f] = writes + 1
      /\ \A e \in Files \ {f} : live'[e] = live[e]
  BY <1>1, <1>2
<1>5. \A n \in Nat : n =< writes => n =< writes + 1
  BY <1>2
<1>6. \A e \in Files : out[e] =< out'[e] /\ out[e] \in Nat /\ out'[e] \in Nat /\ out'[e] =< writes'
  <2>1. \A e \in Files : out[e] \in Nat /\ out[e] =< writes
    BY DEF Numbered
  <2>2. QED
    BY <1>1, <1>2, <1>3, <1>5, <2>1
<1>7. TypeOK'
  BY <1>1, <1>2, <1>3, <1>4 DEF TypeOK, LockTypeOK
<1>8. Numbered'
  <2>1. \A g \in 1 .. MaxPids, e \in Files : gens[g].tree[e] \in Nat /\ gens[g].tree[e] =< writes
    <3> SUFFICES ASSUME NEW g \in 1 .. MaxPids, NEW e \in Files
                 PROVE  gens[g].tree[e] \in Nat /\ gens[g].tree[e] =< writes
      OBVIOUS
    <3>1. gens[g] \in Trees
      OBVIOUS
    <3>2. gens[g].tree[e] \in Versions
      BY ONLY <3>1 DEF Trees
    <3>3. QED
      BY <3>2 DEF Numbered
  <2>2. \A p \in Procs, e \in Files : work[p].manifest[e] \in Nat /\ work[p].manifest[e] =< writes
    BY Fields
  <2>3. QED
    BY <1>1, <1>5, <1>6, <2>1, <2>2 DEF Numbered
<1>9. Generations'
  <2>1. Committed' = Committed
    BY <1>1 DEF Committed
  <2>2. Committed \in [Files -> Versions]
    BY DEF Committed, Trees
  <2>3. hasFlock => \A e \in Files : Committed[e] =< out[e] /\ Committed[e] \in Nat
    BY <1>1, <2>2 DEF Generations
  <2>4. hasFlock => \A e \in Files : Committed[e] =< out'[e]
    <3>1. \A x, y, z \in Nat : x =< y /\ y =< z => x =< z
      OBVIOUS
    <3>2. QED
      BY <1>6, <2>3, <3>1
  <2>5. QED
    BY <1>1, <2>1, <2>4 DEF Generations, CurrentIntact, Intact
<1>10. LocalEvidenceKept'
  BY <1>1, <1>3, <1>4 DEF LocalEvidenceKept
<1>11. \A p \in Procs : Owned(p)'
  BY <1>1 DEF Owned, Busy, Held
<1>12. ASSUME NEW p \in Procs
       PROVE  Restores(p)' /\ Saves(p)' /\ Between(p)' /\ OnceThere(p)'
  <2>1. Busy(p) => work[p].op = "save"
    <3>1. work[p].op \in {"save", "restore"}
      BY Fields DEF Works
    <3>2. QED
      BY <3>1 DEF Write, Restoring, Busy
  <2>2. Restores(p)' /\ Saves(p)'
    BY <1>1, <2>1 DEF Restores, Saves, Saving, Busy
  <2>3. \A x, y, z \in Nat : x =< y /\ y =< z => x =< z
    OBVIOUS
  <2>4. Between(p)'
    <3>1. \A e \in Files : work[p].manifest[e] \in Nat
      BY Fields
    <3>2. \A e \in Files : work[p].manifest[e] =< out[e] => work[p].manifest[e] =< out'[e]
      BY <1>6, <2>3, <3>1
    <3>3. QED
      BY <1>1, <3>2 DEF Between, Entered, AtWork, Saving, Busy, Committed
  <2>5. OnceThere(p)'
    <3> SUFFICES ASSUME AtWork(p, {"recheck"}) PROVE OnceThere(p)'
      BY <1>1 DEF OnceThere, AtWork, Saving, Busy
    <3> PICK h \in history : \A e \in Files :
          /\ work[p].manifest[e] =< h[e] /\ h[e] =< out[e]
          /\ e \notin work[p].todo => h[e] = work[p].manifest[e]
      BY DEF OnceThere
    <3>1. h \in [Files -> Versions]
      OBVIOUS
    <3>2. \A e \in Files : h[e] \in Nat
      BY <3>1
    <3>3. \A e \in Files : h[e] =< out'[e]
      BY <1>6, <2>3, <3>2
    <3>4. QED
      BY <1>1, <3>3 DEF OnceThere
  <2>6. QED
    BY <2>2, <2>4, <2>5
<1>13. QED
  BY <1>7, <1>8, <1>9, <1>10, <1>11, <1>12

\* A new process has a number that no other has had.
LEMMA BeginKeeps ==
  ASSUME IInv, NEW p \in Procs, BeginSave(p) \/ BeginRestore(p)
  PROVE  IInv'
<1> USE Shapes, Numbers DEF IInv
<1> DEFINE op == IF BeginSave(p) THEN "save" ELSE "restore"
           l == [pc |-> "try", pid |-> pids + 1, tries |-> 2]
           w == [NoWork EXCEPT !.op = op]
<1>1. /\ At(p, "idle") /\ pids < MaxPids /\ pids' = pids + 1
      /\ lk' = [lk EXCEPT ![p] = l] /\ work' = [work EXCEPT ![p] = w]
      /\ hasFlock' = hasFlock /\ flock' = flock /\ dir' = dir
      /\ out' = out /\ backup' = backup /\ live' = live /\ history' = history
      /\ gens' = gens /\ current' = current /\ writes' = writes
  BY DEF BeginSave, BeginRestore, Begin, Arrive, outVars
<1>2. /\ op = "save" => restored /\ restored' = restored
      /\ op = "restore" => restored' = FALSE /\ \A q \in Procs : At(q, "idle")
      /\ op \in {"save", "restore"}
  BY DEF BeginSave, BeginRestore
<1>3. /\ w \in Works /\ w.op = op /\ w.pc = "start" /\ w.manifest = Nothing
  BY <1>2 DEF Works, NoWork
<1>4. l \in Locks /\ l.pc = "try" /\ l.pid = pids + 1
  BY <1>1 DEF Locks
<1>5. pids \in Nat /\ pids + 1 \in 1 .. MaxPids /\ pids + 1 > pids /\ ~(pids + 1 =< pids)
  BY <1>1
<1> HIDE DEF op, l, w
<1>6. /\ work'[p] = w /\ \A q \in Procs \ {p} : work'[q] = work[q]
      /\ work' \in [Procs -> Works]
  BY <1>1, <1>3
<1>7. /\ lk'[p] = l /\ \A q \in Procs \ {p} : lk'[q] = lk[q]
      /\ lk' \in [Procs -> Locks]
  BY <1>1, <1>4
<1>8. restored' \in BOOLEAN
  BY <1>2
<1>9. TypeOK'
  <2>1. LockTypeOK'
    BY <1>1, <1>5, <1>7 DEF TypeOK, LockTypeOK, Locks
  <2>2. QED
    BY <1>1, <1>6, <1>8, <2>1 DEF TypeOK, Works
<1>10. Numbered'
  <2>1. \A q \in Procs, f \in Files : work'[q].manifest[f] =< writes
    <3>1. writes \in Nat
      OBVIOUS
    <3>2. QED
      BY <1>3, <1>6, <3>1 DEF Numbered
  <2>2. \A g \in 1 .. MaxPids : g > pids' => gens[g] = Absent
    BY <1>1, <1>5 DEF Numbered
  <2>3. current =< pids'
    BY <1>1, <1>5 DEF Numbered
  <2>4. QED
    BY <1>1, <2>1, <2>2, <2>3 DEF Numbered
<1>11. Generations'
  BY <1>1, <1>2 DEF Generations, CurrentIntact, Intact, Committed
<1>12. LocalEvidenceKept'
  BY <1>1 DEF LocalEvidenceKept
<1>13. \A q \in Procs : lk[q].pid \in Nat /\ lk[q].pid =< pids /\ lk[q].pid # pids + 1
  <2>1. \A q \in Procs : lk[q].pid \in 0 .. MaxPids /\ lk[q].pid =< pids
    BY DEF Locks, Owned
  <2>2. QED
    BY <1>5, <2>1
<1>14. Owned(p)'
  BY <1>1, <1>3, <1>4, <1>5, <1>6, <1>7, <1>13 DEF Owned, Busy, Held
<1>15. ASSUME NEW q \in Procs \ {p}
       PROVE  Owned(q)'
  <2>1. lk[q].pid =< pids'
    BY <1>1, <1>5, <1>13
  <2>2. QED
    BY <1>1, <1>4, <1>6, <1>7, <1>13, <2>1 DEF Owned, Busy, Held
<1>16. Busy(p)'
  BY <1>4, <1>5, <1>7 DEF Busy
<1>17. Between(p)' /\ OnceThere(p)'
  BY <1>3, <1>6 DEF Between, Entered, OnceThere, AtWork
<1>18. CASE op = "save"
  <2>1. restored /\ restored'
    BY <1>2, <1>18
  <2>2. Restores(p)'
    BY <1>3, <1>6, <1>18 DEF Restores
  <2>3. Saves(p)'
    <3>1. gens[pids + 1] = Absent /\ current # pids + 1
      BY <1>5 DEF Numbered
    <3>2. QED
      BY <1>1, <1>3, <1>4, <1>6, <1>7, <2>1, <3>1 DEF Saves
  <2>4. ASSUME NEW q \in Procs \ {p}
        PROVE  Restores(q)' /\ Saves(q)' /\ Between(q)' /\ OnceThere(q)'
    <3>1. work'[q] = work[q] /\ lk'[q] = lk[q]
      BY <1>6, <1>7
    <3>2. Restores(q)'
      BY <1>1, <2>1, <3>1 DEF Restores, Busy
    <3>3. Saves(q)'
      BY <1>1, <2>1, <3>1 DEF Saves, Saving, Busy
    <3>4. Between(q)' /\ OnceThere(q)'
      BY <1>1, <3>1 DEF Between, Entered, OnceThere, AtWork, Saving, Busy, Committed
    <3>5. QED
      BY <3>2, <3>3, <3>4
  <2>5. QED
    BY <1>9, <1>10, <1>11, <1>12, <1>14, <1>15, <1>17, <2>2, <2>3, <2>4
<1>19. CASE op = "restore"
  <2>1. ~restored' /\ \A q \in Procs : ~Busy(q)
    BY <1>2, <1>19 DEF At, Owned
  <2>2. \A q \in Procs \ {p} : ~Busy(q)'
    BY <1>7, <2>1 DEF Busy
  <2>3. Restores(p)' /\ Saves(p)'
    BY <1>3, <1>6, <1>19, <2>1, <2>2 DEF Restores, Saves, Saving
  <2>4. \A q \in Procs \ {p} : Restores(q)' /\ Saves(q)' /\ Between(q)' /\ OnceThere(q)'
    BY <2>2 DEF Restores, Saves, Between, Entered, OnceThere, AtWork, Saving
  <2>5. QED
    BY <1>9, <1>10, <1>11, <1>12, <1>14, <1>15, <1>17, <2>3, <2>4
<1>20. QED
  BY <1>2, <1>18, <1>19

\* A step with the lock, an end or a kill: no other process gets into the locked region,
\* and none is driven out of it.
LEMMA LockFrame ==
  ASSUME IInv, NEW p \in Procs, NEW l \in Locks, NEW w \in Works,
         UNCHANGED <<hasFlock, pids, outVars, gens, current, restored, writes>>,
         lk' = [lk EXCEPT ![p] = l], work' = [work EXCEPT ![p] = w],
         flock' \in 0 .. MaxPids, dir' \in -1 .. MaxPids,
         l.pid = 0 \/ (Busy(p) /\ l.pid = lk[p].pid /\ w = work[p]),
         l.pc = "idle" <=> l.pid = 0, l.pc \in {"judging", "clearing"} => l.tries > 0,
         hasFlock => /\ l.pc \in {"idle", "try", "held"} /\ (l.pc = "held" => flock' = l.pid)
                     /\ \A q \in Procs \ {p} : Held(q) => flock' = flock,
         w.pc # "start" => l.pc = "held", \A f \in Files : w.manifest[f] =< writes
  PROVE  IInv'
<1> USE Shapes, Numbers DEF IInv
<1>1. /\ pids' = pids /\ hasFlock' = hasFlock
      /\ out' = out /\ backup' = backup /\ live' = live /\ history' = history
      /\ gens' = gens /\ current' = current /\ restored' = restored /\ writes' = writes
  BY DEF outVars
<1>2. /\ work'[p] = w /\ \A q \in Procs \ {p} : work'[q] = work[q]
      /\ work' \in [Procs -> Works]
  OBVIOUS
<1>3. /\ lk'[p] = l /\ \A q \in Procs \ {p} : lk'[q] = lk[q]
      /\ lk' \in [Procs -> Locks]
  OBVIOUS
<1>4. \A q \in Procs : Busy(q)' => Busy(q) /\ lk'[q].pid = lk[q].pid /\ work'[q] = work[q]
  BY <1>2, <1>3 DEF Busy
<1>5. TypeOK'
  <2>1. TypeOK
    OBVIOUS
  <2>2. flock' \in 0 .. MaxPids /\ dir' \in -1 .. MaxPids
    OBVIOUS
  <2>3. LockTypeOK'
    BY ONLY <1>1, <1>3, <2>1, <2>2 DEF TypeOK, LockTypeOK, Locks
  <2>4. QED
    BY ONLY <1>1, <1>2, <2>1, <2>3 DEF TypeOK, Works
<1>6. Numbered'
  BY <1>1, <1>2 DEF Numbered
<1>7. Generations' /\ LocalEvidenceKept'
  BY <1>1 DEF Generations, LocalEvidenceKept, CurrentIntact, Intact, Committed
<1>8. Owned(p)'
  <2>1. l.pid =< pids
    <3>1. pids \in Nat /\ lk[p].pid =< pids
      BY DEF Owned
    <3>2. QED
      BY <3>1
  <2>2. \A q \in Procs : Busy(p)' /\ lk'[q].pid = lk'[p].pid => q = p
    <3> SUFFICES ASSUME NEW q \in Procs, Busy(p)', lk'[q].pid = lk'[p].pid PROVE q = p
      OBVIOUS
    <3>1. Busy(p) /\ lk'[p].pid = lk[p].pid /\ Busy(q)'
      BY <1>4 DEF Busy
    <3>2. lk[q].pid = lk[p].pid
      BY <1>4, <3>1
    <3>3. QED
      BY <3>1, <3>2 DEF Owned
  <2>3. (hasFlock => l.pc \in {"idle", "try", "held"} /\ (l.pc = "held" => flock' = l.pid))
    OBVIOUS
  <2>4. QED
    BY <1>1, <1>2, <1>3, <2>1, <2>2, <2>3 DEF Owned, Busy, Held
<1>9. ASSUME NEW q \in Procs \ {p}
      PROVE  Owned(q)'
  <2>1. lk'[q] = lk[q] /\ work'[q] = work[q]
    BY <1>2, <1>3
  <2>2. \A x \in Procs : Busy(q)' /\ lk'[x].pid = lk'[q].pid => x = q
    <3> SUFFICES ASSUME NEW x \in Procs, Busy(q)', lk'[x].pid = lk'[q].pid PROVE x = q
      OBVIOUS
    <3>1. Busy(q) /\ lk'[q].pid = lk[q].pid /\ Busy(x)'
      BY <1>4 DEF Busy
    <3>2. lk[x].pid = lk[q].pid
      BY <1>4, <3>1
    <3>3. QED
      BY <3>1, <3>2 DEF Owned
  <2>3. hasFlock => (lk[q].pc = "held" => flock' = lk[q].pid)
    BY DEF Owned, Held
  <2>4. QED
    BY <1>1, <2>1, <2>2, <2>3 DEF Owned, Busy, Held
<1>10. ASSUME NEW q \in Procs
       PROVE  Restores(q)' /\ Saves(q)' /\ Between(q)' /\ OnceThere(q)'
  <2>1. CASE ~Busy(q)'
    BY <2>1 DEF Restores, Saves, Between, Entered, OnceThere, AtWork, Saving
  <2>2. CASE Busy(q)'
    <3>1. Busy(q) /\ lk'[q].pid = lk[q].pid /\ work'[q] = work[q]
      BY <1>4, <2>2
    <3>2. Restores(q)'
      BY <1>1, <1>4, <3>1 DEF Restores
    <3>3. Saves(q)'
      <4>1. Saves(q) /\ (Saving(q)' => Saving(q))
        BY <3>1 DEF Saving
      <4>2. CASE ~Saving(q)
        BY ONLY <4>1, <4>2 DEF Saves
      <4>3. CASE Saving(q)
        BY ONLY <1>1, <3>1, <4>1, <4>3 DEF Saves
      <4>4. QED
        BY ONLY <4>2, <4>3
    <3>4. Between(q)'
      BY <1>1, <3>1 DEF Between, Entered, AtWork, Saving, Committed
    <3>5. OnceThere(q)'
      BY <1>1, <3>1 DEF OnceThere, AtWork, Saving
    <3>6. QED
      BY <3>2, <3>3, <3>4, <3>5
  <2>3. QED
    BY <2>1, <2>2
<1>11. QED
  BY <1>5, <1>6, <1>7, <1>8, <1>9, <1>10

\* With flock the lock is free or refused; the lock directory is for the others.
LEMMA LockingKeeps ==
  ASSUME IInv, NEW p \in Procs, Locking(p)
  PROVE  IInv'
<1> USE Shapes, Numbers DEF IInv
<1>1. /\ LockStep(p) /\ UNCHANGED <<outVars, gens, current, work, restored, writes>>
  BY DEF Locking
<1>2. /\ work[p] \in Works /\ work' = [work EXCEPT ![p] = work[p]]
      /\ \A f \in Files : work[p].manifest[f] =< writes
  BY <1>1, Fields
<1>3. lk[p] \in Locks /\ NoProcess \in Locks /\ NoProcess.pid = 0 /\ NoProcess.pc = "idle"
  BY DEF NoProcess, Locks
<1>4. lk[p].pc \in {"try", "owning", "judging", "clearing"} => Busy(p) /\ work[p].pc = "start"
  BY DEF Owned, Held
<1>5. CASE TakeFlock(p)
  <2>1. /\ hasFlock /\ lk[p].pc = "try" /\ UNCHANGED <<hasFlock, dir, pids>>
    BY <1>5 DEF TakeFlock, At
  <2>2. CASE flock = 0 /\ flock' = lk[p].pid /\ lk' = [lk EXCEPT ![p].pc = "held"]
    <3> DEFINE l == [lk[p] EXCEPT !.pc = "held"]
    <3>1. l \in Locks /\ l.pc = "held" /\ l.pid = lk[p].pid
      BY <1>3 DEF Locks
    <3>2. lk' = [lk EXCEPT ![p] = l]
      BY <2>2
    <3> HIDE DEF l
    <3>3. l.pid \in 1 .. MaxPids
      BY <1>4, <2>1, <3>1, Fields
    <3>4. \A q \in Procs : ~Held(q)
      BY <2>1, <2>2, Fields DEF Owned, Busy
    <3>5. flock' \in 0 .. MaxPids /\ dir' \in -1 .. MaxPids
      BY <2>1, <2>2, <3>1, <3>3
    <3>6. UNCHANGED <<hasFlock, pids, outVars, gens, current, restored, writes>>
      BY <1>1, <2>1
    <3>7. Busy(p) /\ flock' = l.pid /\ l.pid # 0
      BY <1>4, <2>1, <2>2, <3>1, <3>3
    <3>8. QED
      BY <1>2, <3>1, <3>2, <3>4, <3>5, <3>6, <3>7, LockFrame
  <2>3. CASE flock' = flock /\ lk' = [lk EXCEPT ![p] = NoProcess]
    BY <1>1, <1>2, <1>3, <1>4, <2>1, <2>3, LockFrame
  <2>4. QED
    BY <1>5, <2>2, <2>3 DEF TakeFlock, Refused
<1>6. CASE ~hasFlock /\ (MakeDir(p) \/ WriteOwner(p) \/ Judge(p) \/ Clear(p))
  <2>1. UNCHANGED <<hasFlock, flock, pids>> /\ work[p].pc = "start" /\ Busy(p)
    BY <1>4, <1>6 DEF MakeDir, WriteOwner, Judge, Clear, At
  <2>2. dir' \in -1 .. MaxPids
    BY <1>6 DEF MakeDir, WriteOwner, Judge, Clear, NoDir, NoOwner, Locks
  <2> DEFINE Fits(l) ==
        /\ lk' = [lk EXCEPT ![p] = l] /\ l.pid \in {0, lk[p].pid}
        /\ l.pc = "idle" <=> l.pid = 0
        /\ l.pc \in {"judging", "clearing"} => l.tries > 0
  <2>3. PICK l \in Locks : Fits(l)
    <3>1. CASE lk' = [lk EXCEPT ![p] = NoProcess]
      BY <1>3, <3>1
    <3>2. ASSUME NEW c \in {"owning", "judging", "clearing", "held"}, lk' = [lk EXCEPT ![p].pc = c],
                 lk[p].tries > 0 \/ c \in {"owning", "held"}
          PROVE  \E l \in Locks : Fits(l)
      <4> DEFINE l == [lk[p] EXCEPT !.pc = c]
      <4>1. /\ l \in Locks /\ l.pc = c /\ l.pid = lk[p].pid /\ l.tries = lk[p].tries
            /\ lk' = [lk EXCEPT ![p] = l]
        BY <1>3, <3>2 DEF Locks
      <4> HIDE DEF l
      <4>2. l.pid # 0 /\ l.pc # "idle"
        BY <2>1, <4>1 DEF Busy
      <4>3. QED
        BY <3>2, <4>1, <4>2
    <3>3. CASE Clear(p)
      <4>1. /\ lk[p].pc = "clearing" /\ lk[p].tries > 0
            /\ lk' = [lk EXCEPT ![p].pc = "try", ![p].tries = @ - 1]
        BY <3>3 DEF Clear, At, Owned
      <4> DEFINE l == [lk[p] EXCEPT !.pc = "try", !.tries = lk[p].tries - 1]
      <4>2. lk[p].tries \in 0 .. 2
        BY <1>3 DEF Locks
      <4>3. lk[p].tries - 1 \in 0 .. 2
        BY <4>1, <4>2
      <4>4. l \in Locks /\ l.pid = lk[p].pid /\ l.pc = "try"
        BY ONLY <1>3, <4>3 DEF Locks
      <4>5. lk' = [lk EXCEPT ![p] = l]
        BY <4>1
      <4> HIDE DEF l
      <4>6. l.pid # 0
        BY <2>1, <4>4 DEF Busy
      <4>7. QED
        BY <4>4, <4>5, <4>6
    <3>4. CASE MakeDir(p)
      BY <3>1, <3>2, <3>4 DEF MakeDir, Refused
    <3>5. CASE WriteOwner(p)
      BY <3>1, <3>2, <3>5 DEF WriteOwner, Refused
    <3>6. CASE Judge(p)
      BY <3>1, <3>2, <3>6 DEF Judge, Refused, At, Owned
    <3>7. QED
      BY <1>6, <3>3, <3>4, <3>5, <3>6
  <2>4. UNCHANGED <<hasFlock, pids, outVars, gens, current, restored, writes>>
    BY <1>1, <2>1
  <2>5. flock' \in 0 .. MaxPids
    BY <2>1
  <2> HIDE DEF Fits
  <2>6. /\ lk' = [lk EXCEPT ![p] = l]
        /\ l.pid = 0 \/ (Busy(p) /\ l.pid = lk[p].pid /\ work[p] = work[p])
        /\ l.pc = "idle" <=> l.pid = 0
        /\ l.pc \in {"judging", "clearing"} => l.tries > 0
    BY <2>1, <2>3 DEF Fits
  <2>7. QED
    BY <1>2, <1>6, <2>1, <2>2, <2>4, <2>5, <2>6, LockFrame
<1>7. QED
  BY <1>1, <1>5, <1>6 DEF LockStep, MakeDir, WriteOwner, Judge, Clear, At, Owned

\* The process that leaves is the one that holds the flock.
LEMMA DoneKeeps ==
  ASSUME IInv, NEW p \in Procs, Done(p)
  PROVE  IInv'
<1> USE Shapes, Numbers DEF IInv
<1>1. /\ Held(p) /\ lk' = [lk EXCEPT ![p] = NoProcess] /\ work' = [work EXCEPT ![p] = NoWork]
      /\ flock' = IF hasFlock THEN 0 ELSE flock
      /\ dir' = IF hasFlock THEN dir ELSE NoDir
      /\ UNCHANGED <<hasFlock, pids, outVars, gens, current, restored, writes>>
  BY DEF Done, Leave
<1>2. NoProcess \in Locks /\ NoProcess.pid = 0 /\ NoProcess.pc = "idle"
  BY DEF NoProcess, Locks
<1>3. hasFlock => \A q \in Procs \ {p} : ~Held(q)
  BY <1>1, Alone
<1>4. flock' \in 0 .. MaxPids /\ dir' \in -1 .. MaxPids
  BY <1>1 DEF NoDir
<1>5. \A f \in Files : NoWork.manifest[f] =< writes
  <2>1. writes \in Nat
    OBVIOUS
  <2>2. QED
    BY <2>1
<1>6. QED
  BY <1>1, <1>2, <1>3, <1>4, <1>5, LockFrame

\* A kill frees the flock of the process that is killed, and of no other.
LEMMA KilledKeeps ==
  ASSUME IInv, NEW p \in Procs, Killed(p)
  PROVE  IInv'
<1> USE Shapes, Numbers DEF IInv
<1>1. /\ ~At(p, "idle") /\ lk' = [lk EXCEPT ![p] = NoProcess] /\ work' = [work EXCEPT ![p] = NoWork]
      /\ flock' = IF flock = lk[p].pid THEN 0 ELSE flock
      /\ UNCHANGED <<hasFlock, dir, pids, outVars, gens, current, restored, writes>>
  BY DEF Killed, Die
<1>2. NoProcess \in Locks /\ NoProcess.pid = 0 /\ NoProcess.pc = "idle"
  BY DEF NoProcess, Locks
<1>3. ASSUME hasFlock, NEW q \in Procs \ {p}, Held(q)
      PROVE  flock' = flock
  <2>1. flock = lk[q].pid
    BY <1>3 DEF Owned
  <2>2. lk[q].pid # lk[p].pid
    BY <1>1 DEF Owned, At
  <2>3. QED
    BY <1>1, <2>1, <2>2
<1>4. flock' \in 0 .. MaxPids /\ dir' \in -1 .. MaxPids
  BY <1>1
<1>5. \A f \in Files : NoWork.manifest[f] =< writes
  <2>1. writes \in Nat
    OBVIOUS
  <2>2. QED
    BY <2>1
<1>6. QED
  BY <1>1, <1>2, <1>3, <1>4, <1>5, LockFrame

\* Every step keeps the invariant.
LEMMA IInvKept == IInv /\ [Next]_vars => IInv'
<1> SUFFICES ASSUME IInv, [Next]_vars PROVE IInv'
  OBVIOUS
<1>1. CASE UNCHANGED vars
  <2>1. /\ lk' = lk /\ pids' = pids /\ hasFlock' = hasFlock /\ flock' = flock /\ dir' = dir
        /\ out' = out /\ backup' = backup /\ live' = live /\ history' = history /\ work' = work
        /\ gens' = gens /\ current' = current /\ restored' = restored /\ writes' = writes
    BY <1>1 DEF vars, lockVars
  <2>2. TypeOK' /\ Numbered' /\ Generations' /\ LocalEvidenceKept'
    BY <2>1
    DEF IInv, TypeOK, LockTypeOK, Numbered, Generations, LocalEvidenceKept, CurrentIntact, Intact,
        Committed
  <2>3. \A p \in Procs : Owned(p)' /\ Restores(p)' /\ Saves(p)'
    BY <2>1 DEF IInv, Owned, Restores, Saves, Saving, Busy, Held
  <2>4. \A p \in Procs : Between(p)' /\ OnceThere(p)'
    BY <2>1 DEF IInv, Between, OnceThere, Entered, AtWork, Saving, Busy, Committed
  <2>5. QED
    BY <2>2, <2>3, <2>4 DEF IInv
<1>2. CASE NextJob
  BY <1>2, NextJobKeeps
<1>3. ASSUME NEW f \in Files, Write(f) PROVE IInv'
  BY <1>3, WriteKeeps
<1>4. ASSUME NEW p \in Procs, BeginSave(p) \/ BeginRestore(p) PROVE IInv'
  BY <1>4, BeginKeeps
<1>5. ASSUME NEW p \in Procs, Save(p) PROVE IInv'
  BY <1>5, FindPreviousKeeps, ListKeeps, SkipKeeps, StageKeeps, CopyKeeps, CopiedKeeps,
     RecheckKeeps, CommitKeeps, PointKeeps, CleanupKeeps DEF Save
<1>6. ASSUME NEW p \in Procs, Restore(p) PROVE IInv'
  BY <1>6, FirstJobKeeps, CompareKeeps, MoveAsideKeeps, MovedAsideKeeps, FillKeeps, VerifyKeeps
  DEF Restore
<1>7. ASSUME NEW p \in Procs, Locking(p) \/ Done(p) \/ Killed(p) PROVE IInv'
  BY <1>7, LockingKeeps, DoneKeeps, KilledKeeps
<1>8. QED
  BY <1>1, <1>2, <1>3, <1>4, <1>5, <1>6, <1>7 DEF Next, Step

-----------------------------------------------------------------------------
(* The theorems. *)

\* The invariant holds in every state.
THEOREM HandoffIsSound == Spec => []IInv
BY InitHolds, IInvKept, PTL DEF Spec

\* CURRENT names a whole committed generation, where there is flock.
THEOREM CurrentIsIntact == Spec => []CurrentIntact
<1>1. IInv => CurrentIntact
  BY DEF IInv, Generations
<1>2. QED
  BY <1>1, HandoffIsSound, PTL

\* What CURRENT names is a state OUT was in.
THEOREM CommittedWasThere == Spec => []CommittedIsAState
<1>1. IInv => CommittedIsAState
  <2> SUFFICES ASSUME IInv, current # 0 PROVE gens[current].tree \in history
    BY DEF CommittedIsAState
  <2>1. current \in 1 .. MaxPids /\ gens[current].stage \in {"committed", "absent"}
    BY Shapes DEF IInv, Generations
  <2>2. QED
    BY <2>1, Numbers DEF IInv, Generations
<1>2. QED
  BY <1>1, HandoffIsSound, PTL

\* A restore never loses the last version a stage wrote on the node.
THEOREM EvidenceIsKept == Spec => []LocalEvidenceKept
<1>1. IInv => LocalEvidenceKept
  BY DEF IInv
<1>2. QED
  BY <1>1, HandoffIsSound, PTL

\* Where there is flock, only the replacement of CURRENT changes what is committed, and
\* it puts something at least as new in its place.
LEMMA StepsGoForward ==
  ASSUME IInv, [Next]_vars, hasFlock
  PROVE  \A f \in Files : Committed'[f] >= Committed[f]
<1> USE Shapes, Numbers DEF IInv
<1>1. \A f \in Files : Committed[f] \in Nat
  <2>1. current # 0 => gens[current] \in Trees
    OBVIOUS
  <2>2. Committed \in [Files -> Versions]
    BY <2>1 DEF Committed, Trees
  <2>3. QED
    BY <2>2
<1>2. ASSUME Committed' = Committed PROVE \A f \in Files : Committed'[f] >= Committed[f]
  BY <1>1, <1>2
<1>3. current # 0 => current \in 1 .. MaxPids /\ gens[current].stage = "committed"
  BY DEF Generations, CurrentIntact, Intact
<1>4. CASE current' = current /\ gens' = gens
  BY <1>2, <1>4 DEF Committed
<1>5. ASSUME NEW g \in 1 .. MaxPids, NEW t, current' = current,
             gens' = [gens EXCEPT ![g] = t], current # g
      PROVE  Committed' = Committed
  BY <1>3, <1>5 DEF Committed
<1>6. ASSUME NEW p \in Procs, Stage(p) PROVE Committed' = Committed
  <2>1. Held(p) /\ Saving(p) /\ work[p].pc = "list"
    BY <1>6, Fields DEF Stage, Listed, In, Saving
  <2>2. lk[p].pid \in 1 .. MaxPids /\ current # lk[p].pid
    BY <2>1, Fields DEF Saves, Saving
  <2>3. QED
    BY <1>5, <1>6, <2>2 DEF Stage
<1>7. ASSUME NEW p \in Procs, Copy(p), gens' # gens PROVE Committed' = Committed
  <2> DEFINE g == work[p].gen
  <2>1. /\ gens[g].stage = "partial" /\ current' = current /\ work[p].pc = "copy" /\ Saving(p)
    BY <1>7, Fields DEF Copy, Stop, In, Saving
  <2>2. \A o \in DOMAIN gens \ {g} : gens'[o] = gens[o]
    BY <1>7 DEF Copy, Stop
  <2>3. current # 0 => current # g
    BY <1>3, <2>1
  <2>4. QED
    BY <1>3, <2>1, <2>2, <2>3 DEF Committed
<1>8. ASSUME NEW p \in Procs, Commit(p), gens' # gens PROVE Committed' = Committed
  <2> DEFINE g == work[p].gen
  <2>1. gens[g].stage = "partial" /\ current' = current
    BY <1>8 DEF Commit, Stop
  <2>2. \A o \in DOMAIN gens \ {g} : gens'[o] = gens[o]
    BY <1>8 DEF Commit, Stop
  <2>3. QED
    BY <1>3, <2>1, <2>2 DEF Committed
<1>9. ASSUME NEW p \in Procs, Cleanup(p), gens' # gens PROVE Committed' = Committed
  <2>1. /\ Saving(p) /\ work[p].pc = "cleanup" /\ current' = current
        /\ \E g \in 1 .. MaxPids : g # work[p].gen /\ gens' = [gens EXCEPT ![g] = Absent]
    BY <1>9, Fields DEF Cleanup, Stop, In, Saving
  <2>2. current = work[p].gen
    BY <2>1 DEF Saves
  <2>3. QED
    BY <1>5, <2>1, <2>2
<1>10. ASSUME NEW p \in Procs, Point(p) PROVE \A f \in Files : Committed'[f] >= Committed[f]
  <2>1. /\ Saving(p) /\ work[p].pc = "point" /\ current' = work[p].gen /\ gens' = gens
        /\ work[p].gen \in 1 .. MaxPids
    BY <1>10, Fields DEF Point, In, Saving, Saves
  <2>2. gens[work[p].gen].tree = work[p].manifest
    <3>1. gens[work[p].gen] = [stage |-> "committed", tree |-> work[p].manifest]
      BY <2>1 DEF Saves
    <3>2. QED
      BY <3>1
  <2>3. Committed' = work[p].manifest
    BY <2>1, <2>2 DEF Committed
  <2>4. \A f \in Files : Committed[f] =< work[p].manifest[f] /\ work[p].manifest[f] \in Nat
    BY <2>1, Fields DEF Between, Entered, AtWork, Saving
  <2>5. QED
    BY <1>1, <2>3, <2>4
<1>11. CASE NextJob \/ \E f \in Files : Write(f)
  BY <1>4, <1>11 DEF NextJob, Write
<1>12. ASSUME NEW p \in Procs,
              \/ BeginSave(p) \/ BeginRestore(p) \/ Locking(p) \/ Restore(p) \/ Done(p) \/ Killed(p)
              \/ FindPrevious(p) \/ List(p) \/ Skip(p) \/ Copied(p) \/ Recheck(p)
       PROVE  current' = current /\ gens' = gens
  <2>1. CASE BeginSave(p) \/ BeginRestore(p) \/ Locking(p) \/ Done(p) \/ Killed(p)
    BY <2>1 DEF BeginSave, BeginRestore, Begin, Locking, Done, Killed
  <2>2. CASE Restore(p)
    BY <2>2 DEF Restore, FirstJob, Compare, MoveAside, MovedAside, Fill, Verify, Stop
  <2>3. CASE FindPrevious(p) \/ List(p) \/ Skip(p) \/ Copied(p) \/ Recheck(p)
    BY <2>3 DEF FindPrevious, List, Skip, Copied, Recheck, Stop
  <2>4. QED
    BY <1>12, <2>1, <2>2, <2>3
<1>13. CASE \E p \in Procs : BeginSave(p) \/ BeginRestore(p) \/ Step(p) \/ Killed(p)
  <2> PICK p \in Procs : BeginSave(p) \/ BeginRestore(p) \/ Step(p) \/ Killed(p)
    BY <1>13
  <2>1. CASE Stage(p) \/ Copy(p) \/ Commit(p) \/ Cleanup(p)
    <3>1. current' = current
      BY <2>1 DEF Stage, Copy, Commit, Cleanup, Stop
    <3>2. QED
      BY <1>2, <1>4, <1>6, <1>7, <1>8, <1>9, <2>1, <3>1
  <2>2. CASE Point(p)
    BY <1>10, <2>2
  <2>3. QED
    BY <1>4, <1>12, <2>1, <2>2 DEF Step, Save
<1>14. CASE UNCHANGED vars
  BY <1>4, <1>14 DEF vars
<1>15. QED
  BY <1>11, <1>13, <1>14 DEF Next

\* What is committed is never undone.
THEOREM CommittedGoesForward == Spec => NeverGoesBack
<1> DEFINE Forward == hasFlock => \A f \in Files : Committed'[f] >= Committed[f]
<1>1. IInv /\ [Next]_vars => [Forward]_vars
  BY StepsGoForward
<1>2. Spec => [][Forward]_vars
  <2> HIDE DEF Forward
  <2>1. QED
    BY <1>1, HandoffIsSound, PTL DEF Spec
<1>3. QED
  BY <1>2 DEF NeverGoesBack
=============================================================================
