------------------------------- MODULE MCLockF ------------------------------
(***************************************************************************)
(* LockF for TLC: the segments that are locked.                            *)
(***************************************************************************)
EXTENDS LockF

\* The whole file; its middle, which splits it in three; a beginning and an
\* end that overlap.
MCSegments == {<<0, EOF>>, <<1, 1>>, <<0, 1>>, <<1, EOF>>}

\* Nothing tells the processes that use fcntl apart.
PosixSymmetry == Permutations(Posix)
=============================================================================
