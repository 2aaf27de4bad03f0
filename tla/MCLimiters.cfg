\* Two units a window of three, which neither an interval nor two buckets divide
\* evenly, bursts of three, and a deletion when an entry is idle for two.
SPECIFICATION LimitersSpec
CONSTANTS
  c1 = c1
  c2 = c2
  Callers = {c1, c2}
  Rate = 2
  Window = 3
  BurstOpt = 3
  BucketCount = 2
  IdleTTL = 1
  MaxTime = 5
  MaxN = 4
SYMMETRY CallerSymmetry
INVARIANTS
  EntriesTyped
  GCRAConforms
  RatesHeld
  DecisionsKept
  IdleIsSettled
CHECK_DEADLOCK FALSE
