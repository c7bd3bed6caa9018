------------------------------ MODULE MCTimeout -----------------------------
(***************************************************************************)
(* Timeout for TLC: one timeout that is set near and far, and one that is  *)
(* always near.                                                            *)
(***************************************************************************)
EXTENDS Timeout, TLC

CONSTANTS far, near

\* The delays lie on both sides of the edges of the wheels, at 2, 4 and 8.
MCDelays == (far :> {2, 3, 5, 9}) @@ (near :> {1, 4})

\* 2 microseconds are less than a tick; 2 seconds are more than INT_MAX ticks.
MCTimes == (far :> {<<0, 2>>, <<2, 2>>}) @@ (near :> {<<0, 2>>})
=============================================================================
