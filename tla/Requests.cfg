SPECIFICATION RequestSpec
CONSTANTS
  push = push
  pushAgain = pushAgain
  rerun = rerun
  rerunAgain = rerunAgain
  d1 = d1
  d2 = d2
  d3 = d3
  j1 = j1
  j2 = j2
  canonical = canonical
  checkRun = checkRun
  Call = {push, pushAgain, rerun, rerunAgain}
  Submission = {d1, d2, d3}
  SubmissionOf <- MCSubmissionOf
  Key = {d1, d2, d3, canonical, checkRun}
  KeysOf <- MCKeysOf
  Job = {j1, j2}
  None = None
  MaxFaults = 1
  Request = {r1, r2, r3}
  RateLimit = 3
  MaxConcurrent = 2
  SlowBody = TRUE
  MaxGateFaults = 2
  DeadlineAt = 6
  AttemptBudget = 3
  AssemblyReserve = 1
  StallTimeout = 2
  MinTimeout = 1
  Preparation = 1
  Provider = {p, q}
INVARIANTS
  AttachedHoldsGuard
  CoalescedUnlessFailed
  RedeliveriesShareTheJob
  SlotsAreAccounted
  CeilingHoldsUntilExpiry
  OnlyCompleteAnswersPublished
  QuietStreamsAreGivenUp
  TimeoutsAreReal
  RetryIsEarned
PROPERTIES
  HeadIsFreed
  LeaksAreRecovered
  AnalysisSettles
CHECK_DEADLOCK FALSE
