SPECIFICATION Spec
CONSTANTS
  Plans <- MCPlans
  Sources <- MCSources
  MaxRuns = 2
INVARIANT SamplingIsPredetermined
INVARIANT EvidenceComesFirst
INVARIANT PredictionHasItsTrail
INVARIANT RunTellsItsEnd
PROPERTY ValidationFeedsNothingBack
CHECK_DEADLOCK FALSE
