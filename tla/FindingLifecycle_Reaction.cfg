SPECIFICATION LifecycleSpec
CONSTANTS
  FindingIdentity = {f}
  ReplacementOf <- MCReplacementOf
  Reaction = {r}
  MaxEvents = 3
  MaxRepeats = 1
  NoFinding = none
INVARIANT ReactionsAreUndone
CHECK_DEADLOCK FALSE
