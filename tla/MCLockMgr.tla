------------------------------ MODULE MCLockMgr -----------------------------
(***************************************************************************)
(* LockMgr for TLC: the locks, by the flags they are used with.            *)
(***************************************************************************)
EXTENDS LockMgr

CONSTANTS p1, p2, p3, p4

Only(procs, flagsets) ==
  [p \in Procs |-> IF p \in procs THEN flagsets ELSE {}]

\* Four processes whose requests wait as long as it takes.
Patient == Only(Procs, {{}, {"NOWAIT", "RECURSEFAIL"}, {"CANRECURSE"}})

\* Three processes, of which some give up after a sleep.
Failing == Only({p1, p2, p3}, {{}, {"CATCH"}, {"SLEEPFAIL"}})

MCUses == {Patient, Failing}
FailingUses == {Failing}
=============================================================================
