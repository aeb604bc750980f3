CONSTANTS
  a = a
  b = b
  c = c
  Keys <- MCKeys
  Rate <- MCRate
  Burst <- MCBurst
  TicksPerSec = 1
  MaxBuckets = 1
  MaxTime = 5
SYMMETRY MCSymmetry
SPECIFICATION Spec
INVARIANTS
  TypeOK
  WithinBudget
  RetryAfterIsEnough
