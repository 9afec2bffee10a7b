-------------------------- MODULE MCFixedWorkflow --------------------------
(* Small instances of FixedWorkflow for TLC.                               *)
EXTENDS FixedWorkflow

\* A live run with every kind of evidence, recorded runs of the grouped and of
\* both legacy forms, and a bundle that lacks what the controller expects.
Live ==
  [live |-> TRUE, budgeted |-> TRUE, reproduces |-> TRUE, single |-> FALSE, samples |-> 3,
   regressions |-> 2, exclusions |-> TRUE, public |-> FALSE, fine |-> FALSE,
   edits |-> 2, repairs |-> 2]
Recorded == [Live EXCEPT !.live = FALSE, !.budgeted = FALSE]
Legacy ==
  [live |-> FALSE, budgeted |-> TRUE, reproduces |-> TRUE, single |-> TRUE, samples |-> 0,
   regressions |-> 1, exclusions |-> TRUE, public |-> FALSE, fine |-> TRUE,
   edits |-> 0, repairs |-> 2]
SymbolsOnly ==
  [live |-> FALSE, budgeted |-> FALSE, reproduces |-> FALSE, single |-> FALSE, samples |-> 0,
   regressions |-> 0, exclusions |-> FALSE, public |-> TRUE, fine |-> FALSE,
   edits |-> 0, repairs |-> 1]

MCPlans == {Live, Recorded, Legacy, SymbolsOnly, [SymbolsOnly EXCEPT !.exclusions = TRUE],
            [Live EXCEPT !.budgeted = FALSE, !.reproduces = FALSE, !.samples = 0]}
MCSources == {"s1", "s2"}
=============================================================================
