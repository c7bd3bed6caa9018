CONSTANTS
  Procs = {11, 12, 13}
  FlagSets = {{}, {"INTR", "SLEEPFAIL"}, {"NOSLEEP"}}
SPECIFICATION FairSpec
INVARIANTS TypeOK Exclusion WordTellsHolders NoOrphanWaiterBits NoLostWakeup
PROPERTY ImplementsPromise SleepersWoken
