------------------------------ MODULE RangeLocks -----------------------------
(***************************************************************************)
(* What advisory locks on a file promise, fcntl(2): every byte is free,    *)
(* shared by some owners, or held exclusively by one.  An owner changes    *)
(* what it has on a range of bytes in one step, whatever it had there.     *)
(***************************************************************************)
CONSTANTS
  Owners, Bytes,
  Ranges   \* sets of bytes that may be asked for

VARIABLE held   \* what every owner holds on every byte

Modes == {"none", "RDLCK", "WRLCK"}

HeldTypeOK == held \in [Owners -> [Bytes -> Modes]]

Init == held = [o \in Owners |-> [b \in Bytes |-> "none"]]

\* o may have mode on the bytes of R as far as the others are concerned.
Free(o, R, mode) ==
  \A q \in Owners \ {o}, b \in R :
    /\ mode = "WRLCK" => held[q][b] = "none"
    /\ mode = "RDLCK" => held[q][b] # "WRLCK"

Set(o, R, mode) ==
  /\ Free(o, R, mode)
  /\ held' = [held EXCEPT ![o] = [b \in Bytes |-> IF b \in R THEN mode ELSE @[b]]]

Next == \E o \in Owners, R \in Ranges, mode \in Modes : Set(o, R, mode)

Spec == Init /\ [][Next]_held

\* An exclusive lock keeps everybody else off its bytes.
Exclusion ==
  \A o, q \in Owners, b \in Bytes :
    o # q /\ held[o][b] = "WRLCK" => held[q][b] = "none"
=============================================================================
