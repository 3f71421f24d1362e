------------------------ MODULE MCReviewQueueStore ------------------------
EXTENDS ReviewQueueStore, TLC

CONSTANTS j1, j2, j3, inst, inst2, repo, repo2

\* j2 shares j1's installation, j3 shares j1's repository (reinstalled).
MCInstallationOf == j1 :> inst @@ j2 :> inst @@ j3 :> inst2
MCRepositoryOf == j1 :> repo @@ j2 :> repo2 @@ j3 :> repo
=============================================================================
