--------------------------- MODULE MCReviewQueue ---------------------------
EXTENDS ReviewQueue, TLC

CONSTANTS inst, repo

\* Every job belongs to the one installation and the one repository.
MCInstallationOf == [j \in Job |-> inst]
MCRepositoryOf == [j \in Job |-> repo]

\* Jobs and workers are interchangeable, used for safety only.
JobAndWorkerSymmetry == Permutations(Worker) \cup Permutations(Job)
=============================================================================
