\* What a test says of a stream that fails.
SPECIFICATION Spec
CONSTANTS
  MaxTurns = 1
  MaxLines = 1
  MaxBeats = 0
  MaxMessages = 4
  MaxChars = 4
  LineLimit = 1
INVARIANTS
  FinishedIsWhole
CHECK_DEADLOCK FALSE
