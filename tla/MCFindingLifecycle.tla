-------------------------- MODULE MCFindingLifecycle --------------------------
EXTENDS FindingLifecycle

\* No finding supersedes another.
MCReplacementOf == [f \in FindingIdentity |-> NoFinding]
=============================================================================
