SPECIFICATION FairSpec
CONSTANTS
  inst = inst
  repo = repo
  Job = {j1, j2}
  Worker = {w1}
  Installation = {inst}
  Repository = {repo}
  InstallationOf <- MCInstallationOf
  RepositoryOf <- MCRepositoryOf
  MaxAttempts = 2
  ClaimDelay = TRUE
  Poisoned = {}
  MaxFaults = 1
  Revocable = {}
  None = None
INVARIANT OutcomesAreRecorded
PROPERTY JobsSettle
