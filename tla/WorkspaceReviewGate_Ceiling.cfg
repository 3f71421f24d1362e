SPECIFICATION GateSpec
CONSTANTS
  Request = {r1, r2, r3}
  RateLimit = 10
  MaxConcurrent = 1
  SlowBody = FALSE
  MaxGateFaults = 1
INVARIANT CeilingHolds
SYMMETRY RequestSymmetry
