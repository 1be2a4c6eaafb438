\* The screen: waits, failures, limits, retries, rows asked again.
SPECIFICATION Spec
CONSTANTS
  NRows = 5
  Kind <- ScreenKind
  Gpus <- ScreenGpus
  Needs <- ScreenNeeds
  Ceiling = 19
  T = 4
  E = 2
  Grace = 1
  Waits = {0, 1}
  Durations = {1}
  MaxAttempts = 2
  MaxUnlaunched = 2
INVARIANTS
  ScoringsStayPaid
  ReserveUntouched
  OneRetry
CHECK_DEADLOCK FALSE
