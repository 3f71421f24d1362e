SPECIFICATION StoreSpec
CONSTANTS
  j1 = j1
  j2 = j2
  j3 = j3
  inst = inst
  inst2 = inst2
  repo = repo
  repo2 = repo2
  Job = {j1, j2, j3}
  Installation = {inst, inst2}
  Repository = {repo, repo2}
  InstallationOf <- MCInstallationOf
  RepositoryOf <- MCRepositoryOf
  MaxAttempts = 2
  ClaimDelay = TRUE
  None = None
INVARIANTS
  StoreTypeOK
  NotStranded
  ScheduledIsClaimable
  StagedMatchesAttempt
  LeaseHoldsLocks
  LocksAreOwned
PROPERTY PromiseKept
