SPECIFICATION Spec
CONSTANTS
  inst = inst
  repo = repo
  Job = {j1}
  Worker = {w1, w2}
  Installation = {inst}
  Repository = {repo}
  InstallationOf <- MCInstallationOf
  RepositoryOf <- MCRepositoryOf
  MaxAttempts = 3
  ClaimDelay = FALSE
  Poisoned = {}
  MaxFaults = 0
  Revocable = {}
  None = None
INVARIANT RecoveryWaitsForLedger
SYMMETRY JobAndWorkerSymmetry
