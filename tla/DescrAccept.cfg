CONSTANTS
  NULL = NULL
  Procs = {p1, p2, p3}
  Tables = {t1, t2}
  Files = {f1, f2}
  Fds = {0, 1, 2}
  first = p1
  MaxCount = 99
  Programs <- AcceptPrograms
SPECIFICATION Spec
INVARIANT TableExclusion
CHECK_DEADLOCK FALSE
SYMMETRY MCSymmetry
