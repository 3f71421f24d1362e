SPECIFICATION ComponentSpec
CONSTANTS
  x1 = x1
  x2 = x2
  a1 = a1
  a2 = a2
  t1 = t1
  t2 = t2
  t3 = t3
  c1 = c1
  c2 = c2
  j1 = j1
  j2 = j2
  f = f
  g = g
  Attempt = {a1, a2}
  ReviewJob = {x1, x2}
  ShaOf <- MCShaOf
  FindingId = {f}
  MaxHead = 2
  MaxPubFaults = 1
  Invocation = 96
  PublishReserve = 4
  DrainReserve = 30
  AIReserve = 18
  Slice = 9
  SandboxMin = 18
  CommandMin = 1
  CommandCap = 24
  ProbeCap = 2
  ContextCap = 3
  ModelCap = 48
  MinTry = 1
  SetUpCap = 12
  ClaimAt = {0, 60, 65, 85}
  Duration = {0, 20}
  Subject <- MCSubject
  Task = {t1, t2, t3}
  MaxGrantChanges = 2
  MaxTaskFaults = 1
  Caller = {c1, c2}
  Work = {j1, j2}
  Backoff <- MCBackoff
  Budget = 2
  Day = 2
  Period = 2
  MaxTime = 2
  MaxWakeFaults = 1
  FindingIdentity = {f, g}
  ReplacementOf <- MCReplacementOf
  Reaction = {r}
  MaxEvents = 3
  MaxRepeats = 1
  NoFinding = none
  File = {f1, f2}
  FindingKey = {k1, k2}
  MaxFindings = 2
  PromptBudget = 1
  Path = {a, b, s}
  Strayed = s
  Blob = {x, y}
  MaxChanges = 4
  Candidate <- MCCandidate
  MaxFiles = 3
  FileBytes = 3
  ChangesetChars = 3
  SnapshotBytes = 3
  SnapshotFiles = 2
  ManifestEntries = 2
  PayloadBytes = 8
  ConfirmTimeout = 2
  ClientTimeout = 4
  ServerDeadline = 2
INVARIANTS
  StaleEffectsAreBounded
  SummaryIsNotRepeated
  SyncConverges
  BudgetIsKept
  VerdictIsEarned
  AccessConverges
  JobsAreWoken
  SelfWakesAreBudgeted
  DismissalsStand
  FindingsAreAccountedFor
  ChangesAreCaptured
  ReadsStayInside
  ManifestTellsTheTruth
  CollectedPayloadsAreAccepted
  ExitTellsWhatHappened
CHECK_DEADLOCK FALSE
