------------------------------- MODULE MCDescr ------------------------------
(***************************************************************************)
(* Descr for TLC: what the processes do.                                   *)
(***************************************************************************)
EXTENDS Descr, TLC

\* Every process has a table of its own, a copy of its parent's.
OwnTables == [p \in Procs |-> Calls \ {"rfork"}]

\* All processes share one table, and neither accept nor flock.
OneTable == [p \in Procs |-> Calls \ {"fork", "accept", "flock"}]

\* All processes share one table, and accept connections.
OneTableAccept == [p \in Procs |-> Calls \ {"fork", "flock"}]

MCPrograms == {OwnTables, OneTable}
AcceptPrograms == {OneTableAccept}

\* Tables are alike, and so are the processes that do not exist at first.
MCSymmetry == Permutations(Tables) \union Permutations(Procs \ {first})
=============================================================================
