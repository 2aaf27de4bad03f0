\* Two processes on one database, a saved memory besides an old one, two of the
\* five columns and two faults.
SPECIFICATION Spec
CONSTANTS
  Servers = {a, b}
  Ids = {m1, m2}
  Columns = {user_id, storage_version}
  MaxFaults = 2
INVARIANTS
  TypeOK
  VectorsKept
  ServesWhole
PROPERTIES
  ComesUp
CHECK_DEADLOCK FALSE
