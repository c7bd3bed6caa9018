CONSTANTS
  far = far
  near = near
  Timeouts = {far, near}
  WHEELBITS = 1
  INTBITS = 5
  Delays <- MCDelays
  hz = 10
  tick = 3
  Times <- MCTimes
  MaxLate = 1
SPECIFICATION FairSpec
INVARIANTS TypeOK FlagTellsList DueIsOnTodo
PROPERTIES NeverEarly DueRuns
