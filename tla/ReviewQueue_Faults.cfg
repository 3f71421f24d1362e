SPECIFICATION Spec
CONSTANTS
  inst = inst
  repo = repo
  Job = {j1}
  Worker = {w1, w2}
  Installation = {inst}
  Repository = {repo}
  InstallationOf <- MCInstallationOf
  RepositoryOf <- MCRepositoryOf
  MaxAttempts = 2
  ClaimDelay = TRUE
  Poisoned = {}
  MaxFaults = 1
  Revocable = {repo}
  None = None
INVARIANT LedgerMatchesQueue
PROPERTY StoreRespected
SYMMETRY JobAndWorkerSymmetry
