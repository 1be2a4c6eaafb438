\* One process at a time: every command, retries, numbers given by hand, crashes.
SPECIFICATION Spec
CONSTANTS
  NRows = 4
  Pilots = {1}
  StatedNeeds <- ReportNeeds
  Wants <- ReportWants
  Order <- NoOrder
  Prepares = {3}
  Paths = {"model", "shards"}
  Requires <- ReportRequires
  CmdWrites <- ReportCmdWrites
  PrepWrites <- ReportPrepWrites
  Workers = {p1}
  Allocated = FALSE
  MaxAttempt = 4
  Commands = {"batch", "run-all", "run-row", "prepare-all", "prepare-row"}
  Filters <- AllRows
  ExplicitNumbers = {3}
  MaxInvocations = 2
  p1 = p1
INVARIANTS
  LaunchedOnPass
  LaunchedOnInputs
  PassDescribesOutputs
  StandingPassIsCurrent
  OkMeansCurrent
  OnlyDependentsLost
  CleanBatchPasses
PROPERTIES
  InvocationEnds
CHECK_DEADLOCK FALSE
