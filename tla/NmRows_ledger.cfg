\* Attempts of two rows beside the accounting row, in the allocations of two jobs
\* or in two runs of one that was requeued.
SPECIFICATION Spec
CONSTANTS
  Tasks = {"train", "score"}
  After <- TrainThenScore
  Attempts = {a1, a2, a3}
  Jobs = {j1, j2}
  Hours <- RowHours
  MaxCost = 2
  QueueGap = 1
  Allowance = 3
  None = None
  a1 = a1
  a2 = a2
  a3 = a3
  j1 = j1
  j2 = j2
SYMMETRY NmSymmetry
INVARIANTS
  RunsOnComplete
  WithinAllowance
  ChargedOnce
CHECK_DEADLOCK FALSE
