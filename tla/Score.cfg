SPECIFICATION ScoreSpec
CONSTANTS
  d1 = d1
  d2 = d2
  c1 = c1
  c2 = c2
  i1 = i1
  i2 = i2
  g1 = g1
  g2 = g2
  none = none
  None = none
  Ids = {d1, d2}
  Commits = {c1, c2}
  Images = {i1, i2}
  Digests = {g1, g2}
  Languages = {"go", "rust"}
  Pins <- MCPins
  Splits1 <- MCSplits
  Edits <- MCEdits
  PinOptions <- MCOptions
  Verifiers <- MCVerifiers
  ImageOf <- MCImageOf
INVARIANT RunsInPinnedImage
INVARIANT VerdictIsVerifiers
INVARIANT ScoringLeavesNoContainer
CHECK_DEADLOCK FALSE
