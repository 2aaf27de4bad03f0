\* The documented bound on active keys.
SPECIFICATION Spec
CONSTANTS
  c1 = c1
  c2 = c2
  k1 = k1
  k2 = k2
  k3 = k3
  k4 = k4
  Nobody = Nobody
  NoKey = NoKey
  Callers = {c1, c2}
  Keys = {k1, k2, k3}
  Shards = 2
  ShardOf <- TwoShards
  MaxKeys = 1
  IdleTTL = 1
  CleanupLimit = 1
  AllowNewKey = FALSE
  MaxTime = 2
  MaxCalls = 1

INVARIANTS
  KeysBounded
CHECK_DEADLOCK FALSE
