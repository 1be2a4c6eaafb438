\* A run that ends while the inputs are laid over the tree, and the task queued again.
SPECIFICATION Spec
CONSTANTS
  a = a
  r = r
  z = z
  Tasks = {a, r, z}
  Requires <- NodeRequires
  Waits <- NodeWaits
  Partial = {r}
  Commits = {r}
  Work <- NodeWork
  MaxEnds = 2
  MaxDays = 1
INVARIANTS
  StartsOnAllInputs
CHECK_DEADLOCK FALSE
