\* Resumes in two allocations, kills and signals at any point, commands that are not ready.
SPECIFICATION Spec
CONSTANTS
  NCommands = 3
  Paths = {"export", "staged"}
  Requires <- LaneRequires
  Produces <- LaneProduces
  K = 2
  MaxStarts = 4
  MaxHolder = 2
INVARIANTS
  CompleteIsOneJob
  PeersFinish
  OneProcessPerCommand
PROPERTIES
  ReceiptsStand
  ControllerEnds
CHECK_DEADLOCK FALSE
