SPECIFICATION Spec
CONSTANTS
  v1 = v1
  v2 = v2
  Keys = {1, 2, 3, 4}
  Vals = {v1, v2}
  None = None
  Sentinel = 0
  Hash <- SmallHash
  Primes <- SmallPrimes
  GrowWhileIterating = FALSE
SYMMETRY ValueSymmetry
INVARIANTS TypeOK BucketsPartition
PROPERTIES ImplementsMap IterationComplete
