CONSTANTS
  Tasks = {t1, t2}
  Queues = {"driver"}
SPECIFICATION FairSpec
PROPERTY DestroyReturns
CHECK_DEADLOCK FALSE
