---------------------------- MODULE MC_LanePool -----------------------------
(* A lane of three commands: the second reads what the first produces, the    *)
(* third a path staged by somebody else.                                      *)
EXTENDS LanePool

LaneRequires == <<{}, {"export"}, {"staged"}>>
LaneProduces == <<{"export"}, {}, {}>>
=============================================================================
