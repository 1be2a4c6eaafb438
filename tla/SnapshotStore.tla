---------------------------- MODULE SnapshotStore ----------------------------
(***************************************************************************)
(* The durable store of kit/m2_snapshot.py: one directory per stage with   *)
(* immutable archives, the receipts of their digests and CURRENT.json.     *)
(* An archive is known by its digest, so it is the record of what is in    *)
(* it.  An archive that CURRENT no longer names is removed after a day,    *)
(* unless some stage's CURRENT was built from it.                          *)
(***************************************************************************)
EXTENDS Integers, FiniteSets

CONSTANT Tasks  \* the stages, by task id

\* "No such archive": a pointer that is absent.  It has no fields, so it is no archive.
NoArchive == <<>>

VARIABLES
  tars,      \* the archives in the store
  receipts,  \* the archives with both digest receipts
  aged,      \* archives whose time stamp is a day old or more
  current    \* stage -> the archive CURRENT.json names, NoArchive before the first

storeVars == <<tars, receipts, aged, current>>

StoreInit ==
  tars = {} /\ receipts = {} /\ aged = {} /\ current = [t \in Tasks |-> NoArchive]

Complete(a) == a # NoArchive /\ a.complete

\* A pointer is refused unless the receipt of its digest is there.
Readable(t) == current[t] \in receipts

\* May a stage with inputs `parents` go on from an archive of it?
Compatible(old, parents, partial) ==
  \/ old.parents = parents
  \/ /\ partial /\ ~old.complete
     /\ \A k \in DOMAIN parents : Complete(old.parents[k]) => old.parents[k] = parents[k]

\* What publish refuses, under the lock of the stage's directory.
Admissible(a, partial) ==
  LET old == current[a.key] IN
  old # NoArchive => /\ Readable(a.key) /\ ~old.complete
                     /\ Compatible(old, a.parents, partial)

\* The archive appears under its name at once; an interrupted upload leaves none.
Upload(a) == tars' = tars \cup {a} /\ aged' = aged \ {a} /\ UNCHANGED <<receipts, current>>

Certify(a) == receipts' = receipts \cup {a} /\ UNCHANGED <<tars, aged, current>>

\* The day of grace of the archive that is retired starts now.
Point(a) ==
  /\ aged' = aged \ {current[a.key]}
  /\ current' = [current EXCEPT ![a.key] = a]
  /\ UNCHANGED <<tars, receipts>>

ParentsOf(a) == {a.parents[k] : k \in DOMAIN a.parents}
\* Faulty variant: only what CURRENT names is kept.
Protected_CurrentOnly == {current[t] : t \in Tasks} \ {NoArchive}
Protected ==
  LET named == {current[t] : t \in Tasks} \ {NoArchive}
  IN  named \cup UNION {ParentsOf(a) : a \in named}

\* A reader holds the lease of an archive from the opening to the last byte.
Prunable(t) == {a \in tars : a.key = t /\ ~a.complete /\ a \in aged} \ Protected
Prune(t) ==
  /\ tars' = tars \ Prunable(t) /\ receipts' = receipts \ Prunable(t)
  /\ aged' = aged \ Prunable(t) /\ UNCHANGED current

\* A day passes.
Age == aged' = tars /\ UNCHANGED <<tars, receipts, current>>
=============================================================================
