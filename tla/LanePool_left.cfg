\* A signal between the start of a process and its registration.
SPECIFICATION Spec
CONSTANTS
  NCommands = 3
  Paths = {"export", "staged"}
  Requires <- LaneRequires
  Produces <- LaneProduces
  K = 2
  MaxStarts = 4
  MaxHolder = 2
INVARIANTS
  NothingLeftRunning
CHECK_DEADLOCK FALSE
