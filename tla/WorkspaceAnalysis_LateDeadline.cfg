SPECIFICATION AnalysisSpec
CONSTANTS
  DeadlineAt = 7
  AttemptBudget = 3
  AssemblyReserve = 1
  StallTimeout = 2
  MinTimeout = 1
  Preparation = 1
  Provider = {p, q}
INVARIANT DeadlineEndsTheLastAttempt
CHECK_DEADLOCK FALSE
