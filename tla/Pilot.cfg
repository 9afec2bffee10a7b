SPECIFICATION Spec
CONSTANTS
  ctl = ctl
  t1 = t1
  t2 = t2
  p = p
  q = q
  x = x
  k1 = k1
  k2 = k2
  a = a
  b = b
  none = none
  None = none
  TaskOrder <- MCOrder
  Control = ctl
  Pilot <- MCPilot
  LanguageOf <- MCLanguageOf
  RepositoryOf <- MCRepository
  Rank <- MCRank
  Published <- MCPublished
  Profile <- MCProfile
  Evidence <- MCEvidence
  Images = {p, q, x}
  Layered <- MCLayered
  ToolsOf <- MCToolsOf
  Codes = {k1, k2}
  PlanOf <- MCPlanOf
  CommandOf <- MCCommandOf
  Helm = {t1}
  Tests = {a, b}
  Outcomes <- MCOutcomes
  Forgeries <- MCForgeries
  Registries <- MCRegistries
  Choices <- MCChoices
  MaxSurveys = 2
  MaxExports = 2
  MaxVerifications = 2
  MaxFaults = 1
INVARIANT RecordsHaveBaselines
INVARIANT BundleRestsOnEvidence
INVARIANT LaunchIsVerified
CHECK_DEADLOCK FALSE
