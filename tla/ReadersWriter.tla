--------------------------- MODULE ReadersWriter ---------------------------
(***************************************************************************)
(* What rwlock(9) promises its callers, and nothing about how: any number  *)
(* of readers or one writer, and a writer that can ask to become a reader  *)
(* and then does so "without letting other exclusive locks in between".    *)
(***************************************************************************)
CONSTANT Procs

VARIABLES
  held,         \* what each process holds
  downgrading   \* the writers that have asked to become readers

vars == <<held, downgrading>>

Init ==
  /\ held = [p \in Procs |-> "none"]
  /\ downgrading = {}

GetRead(p) ==
  /\ held[p] = "none"
  /\ \A q \in Procs : held[q] # "write"
  /\ held' = [held EXCEPT ![p] = "read"]
  /\ UNCHANGED downgrading

GetWrite(p) ==
  /\ \A q \in Procs : held[q] = "none"
  /\ held' = [held EXCEPT ![p] = "write"]
  /\ UNCHANGED downgrading

AskDowngrade(p) ==
  /\ held[p] = "write"
  /\ downgrading' = downgrading \union {p}
  /\ UNCHANGED held

\* The only step a downgrading process takes: it holds the lock throughout.
Downgrade(p) ==
  /\ p \in downgrading
  /\ held[p] = "write"
  /\ held' = [held EXCEPT ![p] = "read"]
  /\ downgrading' = downgrading \ {p}

Release(p) ==
  /\ held[p] # "none" /\ p \notin downgrading
  /\ held' = [held EXCEPT ![p] = "none"]
  /\ UNCHANGED downgrading

Next ==
  \E p \in Procs :
    \/ GetRead(p) \/ GetWrite(p)
    \/ AskDowngrade(p) \/ Downgrade(p)
    \/ Release(p)

Spec == Init /\ [][Next]_vars
=============================================================================
