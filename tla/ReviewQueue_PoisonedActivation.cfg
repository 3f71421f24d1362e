SPECIFICATION FairSpec
CONSTANTS
  inst = inst
  repo = repo
  Job = {j1, j2}
  Worker = {w1}
  Installation = {inst}
  Repository = {repo}
  InstallationOf <- MCInstallationOf
  RepositoryOf <- MCRepositoryOf
  MaxAttempts = 2
  ClaimDelay = FALSE
  Poisoned = {j2}
  MaxFaults = 0
  Revocable = {}
  None = None
PROPERTY RetriesAreNeverStranded
