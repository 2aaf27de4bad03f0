\* Two starts over two ids and room for one session, answers without content;
\* or one start whose answer has up to four deltas.
SPECIFICATION MCSpec
CONSTANTS
  r1 = r1
  r2 = r2
  a = a
  b = b
  None = None
  Blank = Blank
  Runs = {r1, r2}
  Ids = {a, b}
  BufferSize = 1
  MaxActive = 1
  TTL = 1
  MaxTime = 2
  MaxStream = 4
INVARIANTS
  TypeOK
  AliveIsListed
  ActiveBounded
  CloseReachesAll
  ClosedTellsAll
PROPERTIES
  InterruptEnds
CHECK_DEADLOCK FALSE
