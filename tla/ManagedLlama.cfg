\* Two owners on one port and one model file, two callers of Close, one death.
SPECIFICATION Spec
CONSTANTS
  Owners = {a, b}
  MaxClosers = 2
  MaxDeaths = 1
INVARIANTS
  TypeOK
  NoChildLeft
  OwnServer
PROPERTIES
  EverythingReturns
