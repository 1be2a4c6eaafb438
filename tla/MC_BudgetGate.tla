---------------------------- MODULE MC_BudgetGate ----------------------------
(* A small prevention screen: a qualification row that may run again, two     *)
(* trainings on two GPUs and their scorings.                                  *)
EXTENDS BudgetGate

ScreenKind == <<"qualification", "training", "scoring", "training", "scoring">>
ScreenGpus == <<1, 2, 1, 2, 1>>
ScreenNeeds == <<{}, {1}, {1, 2}, {1}, {1, 4}>>
=============================================================================
