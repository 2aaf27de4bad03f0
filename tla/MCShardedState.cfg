\* Two goroutines with two calls each, room for two keys.
SPECIFICATION Spec
CONSTANTS
  c1 = c1
  c2 = c2
  k1 = k1
  k2 = k2
  k3 = k3
  k4 = k4
  Nobody = Nobody
  NoKey = NoKey
  Callers = {c1, c2}
  Keys = {k1, k2, k3, k4}
  Shards = 2
  ShardOf <- TwoShards
  MaxKeys = 2
  IdleTTL = 1
  CleanupLimit = 1
  AllowNewKey = TRUE
  MaxTime = 2
  MaxCalls = 2
INVARIANTS
  TypeOK
  CountExact
  OvershootBounded
  InsertIsFresh
PROPERTIES
  CallsReturn
CHECK_DEADLOCK FALSE
