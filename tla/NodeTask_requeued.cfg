\* Tasks that are killed, told to end and requeued, with a reducer over unfinished inputs.
SPECIFICATION Spec
CONSTANTS
  a = a
  r = r
  z = z
  Tasks = {a, r, z}
  Requires <- NodeRequires
  Waits <- NodeWaits
  Partial = {r}
  Commits = {r}
  Work <- NodeWork
  MaxEnds = 2
  MaxDays = 1
INVARIANTS
  CurrentWhole
  MadeOfParents
PROPERTIES
  KeepsRegister
  AllFinish
CHECK_DEADLOCK FALSE
