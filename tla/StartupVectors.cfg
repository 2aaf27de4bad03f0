\* One process on an older database.
SPECIFICATION Spec
CONSTANTS
  Servers = {a}
  Ids = {m1, m2}
  Columns = {user_id, storage_version}
  MaxFaults = 2
INVARIANT OldVectorsKept
CHECK_DEADLOCK FALSE
