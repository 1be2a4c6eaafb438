\* Attempts of one block whose wrappers and watchdogs may be killed anywhere.
SPECIFICATION Spec
CONSTANTS
  N = 3
  Limit = 1
  Grace = 1
  MaxKills = 2
  MaxLaunches = 2
INVARIANTS
  NoLaunchAfterOverrun
  StopBeforeEnded
  ChargedInFull
  StandDownIsSafe
PROPERTY EveryJobEnds
CHECK_DEADLOCK FALSE
