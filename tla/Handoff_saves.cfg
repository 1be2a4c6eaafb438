\* Saves and restores on both kinds of filesystem: kills, late writers, a change of node.
SPECIFICATION Spec
CONSTANTS
  Procs = {p1, p2}
  Filesystems = {TRUE, FALSE}
  MaxPids = 4
  Files = {f1, f2}
  MaxWrites = 2
  p1 = p1
  p2 = p2
  f1 = f1
  f2 = f2
SYMMETRY HandoffSymmetry
INVARIANTS
  CurrentIntact
  CommittedIsAState
  LocalEvidenceKept
PROPERTIES
  NeverGoesBack
CHECK_DEADLOCK FALSE
