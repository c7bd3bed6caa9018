CONSTANTS
  Tasks = {t1, t2, t3, t4}
  Queues = {"system", "driver"}
SPECIFICATION FairSpec
INVARIANTS TypeOK NoStrandedTask TasksAccounted NoUseAfterFree
PROPERTY TasksRun
CHECK_DEADLOCK FALSE
