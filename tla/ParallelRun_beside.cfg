\* Runs with two threads and a process beside them: stops, clashes, crashes, seed filters.
SPECIFICATION PoolSpec
CONSTANTS
  NRows = 3
  Pilots = {2}
  StatedNeeds <- ForkNeeds
  Wants <- ForkWants
  Order <- NoEdges
  Prepares = {3}
  Paths = {"model"}
  Requires <- ForkRequires
  CmdWrites <- ForkCmdWrites
  PrepWrites <- NoEdges
  Threads = {t1, t2}
  Workers = {t1, t2, o1}
  Allocated = TRUE
  MaxAttempt = 1
  ExplicitNumbers = {1}
  Filters <- SeedFilters
  MaxRuns = 2
  t1 = t1
  t2 = t2
  o1 = o1
INVARIANTS
  AttemptOwned
  NoInputInFlight
  NeverStuck
  AllWorkCollected
PROPERTIES
  EvidenceStands
  RunEnds
CHECK_DEADLOCK FALSE
