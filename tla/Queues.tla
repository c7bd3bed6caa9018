------------------------------- MODULE Queues -------------------------------
(***************************************************************************)
(* The linked lists of the kernel as sequences: the tail queues of         *)
(* sys/sys/queue.h and the circular ones of sys/kern/kern_timeout.c.       *)
(***************************************************************************)
EXTENDS Naturals, Sequences, FiniteSets

\* q after the members of S have been unlinked from it.  The k-th element that
\* is left is the one with k - 1 others that stay before it.
Without(q, S) ==
  LET stay == {i \in DOMAIN q : q[i] \notin S}
      Place(k) == CHOOSE i \in stay : Cardinality({j \in stay : j <= i}) = k
  IN [k \in 1..Cardinality(stay) |-> q[Place(k)]]

\* x is on q, and q holds nothing twice.
OnQueue(q, x) == \E i \in DOMAIN q : q[i] = x
Distinct(q)   == \A i, j \in DOMAIN q : q[i] = q[j] => i = j
=============================================================================
