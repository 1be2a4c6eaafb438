---------------------------- MODULE MC_Campaign -----------------------------
(* A small campaign file for Campaign: a pilot, a training run, a scoring of  *)
(* the model it writes (prepared once the model exists) and a report that     *)
(* only wants both.  Two invocations and automatic numbers reach attempt 2 at *)
(* most, so that the number 3 given by hand is never below a row's latest.    *)
EXTENDS Campaign

ReportNeeds == <<{}, {1}, {2}, {1}>>
ReportWants == <<{}, {}, {}, {2, 3}>>
NoOrder == <<{}, {}, {}, {}>>
ReportRequires == <<{}, {}, {"model"}, {"model"}>>
ReportCmdWrites == <<{}, {"model"}, {}, {}>>
ReportPrepWrites == <<{}, {}, {"shards"}, {}>>

CONSTANT p1

AllRows == {Rows}
=============================================================================
