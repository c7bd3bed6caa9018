CONSTANTS
  p1 = p1
  p2 = p2
  Procs = {p1, p2}
  Idents = {"a", "b"}
  Signals = {9, 17, 18, 19, 30}
  Targets = {p1}
  Sleeps <- MCSleeps
  Acts <- MCActs
SPECIFICATION FairSpec
INVARIANTS QueueTellsSleepers ErrorTellsCause
PROPERTIES StaysStopped SleepsEnd
CHECK_DEADLOCK FALSE
