\* Two questions over answers of one delta, where a kept turn fills the
\* conversation; or one question over two deltas, where a finished event of both
\* is too long to read.
SPECIFICATION MCSpec
CONSTANTS
  MaxTurns = 2
  MaxLines = 2
  MaxBeats = 1
  MaxMessages = 3
  MaxChars = 4
  LineLimit = 1
INVARIANTS
  TypeOK
  TalkFaithful
  UnsavedIsWarned
  TalkBounded
  BadStreamEnds
PROPERTIES
  CtrlCExits
  TurnsEnd
CHECK_DEADLOCK FALSE
