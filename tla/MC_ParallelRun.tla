--------------------------- MODULE MC_ParallelRun ---------------------------
(* A fork for ParallelRun: a row that writes a model, a pilot beside it, and  *)
(* a row prepared on the model that wants the first and needs the pilot.      *)
EXTENDS ParallelRun

ForkNeeds == <<{}, {}, {2}>>
ForkWants == <<{}, {}, {1}>>
ForkRequires == <<{}, {}, {"model"}>>
ForkCmdWrites == <<{"model"}, {}, {}>>
NoEdges == <<{}, {}, {}>>

CONSTANTS t1, t2, o1

SeedFilters == {Rows, Rows \ {1}}
=============================================================================
