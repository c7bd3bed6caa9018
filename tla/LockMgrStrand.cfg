CONSTANTS
  p1 = p1
  p2 = p2
  p3 = p3
  p4 = p4
  Procs = {p1, p2, p3, p4}
  LK_NOPROC = LK_NOPROC
  Types = {"SHARED", "EXCLUSIVE", "DRAIN"}
  Uses <- FailingUses
  MaxHold = 2
SPECIFICATION Spec
INVARIANT NoStrandedWaiter
CHECK_DEADLOCK FALSE
