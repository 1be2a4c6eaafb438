\* Attempts of one block whose wrappers and watchdogs may be killed anywhere.
SPECIFICATION Spec
CONSTANTS
  N = 3
  Limit = 1
  Grace = 1
  MaxKills = 1
  MaxLaunches = 2
INVARIANT UnverifiedStops
CHECK_DEADLOCK FALSE
