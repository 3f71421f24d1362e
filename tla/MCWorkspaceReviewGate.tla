----------------------- MODULE MCWorkspaceReviewGate -----------------------
EXTENDS WorkspaceReviewGate, TLC

\* Requests are interchangeable, used for safety only.
RequestSymmetry == Permutations(Request)
=============================================================================
