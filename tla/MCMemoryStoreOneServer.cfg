\* One server, with I/O errors and crashes.
SPECIFICATION Spec
CONSTANTS
  s1 = s1
  s2 = s2
  r1 = r1
  r2 = r2
  r3 = r3
  q1 = q1
  o1 = o1
  o2 = o2
  i1 = i1
  i2 = i2
  t1 = t1
  t2 = t2
  bad = bad
  Free = Free
  Malformed = bad
  Servers = {s1}
  Requests = {r1, r2, r3}
  Searches = {}
  ServerOf <- OneServer
  Owners = {o1, o2}
  Ids = {i1, i2}
  Texts = {t1, t2}
  Items <- OneServerItems
  LegacyRows <- OlderRow
  MaxDay = 2
  Limit = 1
  Faulty = TRUE
SYMMETRY SaveSymmetry
INVARIANTS
  TypeOK
  RowsBacked
  EntriesUnique
  AnswersTruthful
  NoSelfConflict
CHECK_DEADLOCK FALSE
