CONSTANTS
  Readers = {r1}
  Writers = {w1, w2}
  Pollers = {s1}
  PIPE_SIZE = 3
  BIG_PIPE_SIZE = 5
  PIPE_BUF = 2
  LIMITBIGPIPES = 1
  BigPipes = {0, 1}
  ReadSizes = {1, 2}
  WriteSizes = {1, 2, 4}
  MaxWrites = 1
  Nonblock = TRUE
  Faults = TRUE
SPECIFICATION FairSpec
INVARIANTS NothingLostUnresized ShortWritesWhole BusyCounts NoLostWakeup
PROPERTY CloseReturns
CHECK_DEADLOCK FALSE
