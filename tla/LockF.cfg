CONSTANTS
  a = a
  b = b
  c = c
  Posix = {a, b}
  Flockers = {c}
  Segments <- MCSegments
  LastByte = 2
  maxlockdepth = 1
  maxlocksperuid = 3
SPECIFICATION Spec
INVARIANTS ListSound SleepersBlocked NoDeadlock
PROPERTY ImplementsRangeLocks
CHECK_DEADLOCK FALSE
SYMMETRY PosixSymmetry
