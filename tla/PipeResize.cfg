CONSTANTS
  Readers = {r1}
  Writers = {w1, w2}
  Pollers = {}
  PIPE_SIZE = 3
  BIG_PIPE_SIZE = 5
  PIPE_BUF = 2
  LIMITBIGPIPES = 1
  BigPipes = {0}
  ReadSizes = {2}
  WriteSizes = {2, 4}
  MaxWrites = 1
  Nonblock = FALSE
  Faults = FALSE
SPECIFICATION Spec
INVARIANT NothingLost
CHECK_DEADLOCK FALSE
