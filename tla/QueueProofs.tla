----------------------------- MODULE QueueProofs -----------------------------
(***************************************************************************)
(* What the operations on lists do to who is on them.                      *)
(***************************************************************************)
EXTENDS Queues, SequenceTheorems, FiniteSetTheorems, TLAPS

-----------------------------------------------------------------------------
(***************************************************************************)
(* Adding and removing.                                                    *)
(***************************************************************************)

\* Places in a queue of n can be counted.
LEMMA Countable ==
  ASSUME NEW n \in Nat, NEW S \in SUBSET (1..n)
  PROVE  IsFiniteSet(S) /\ Cardinality(S) \in Nat
<1>1. IsFiniteSet(1..n)
  BY FS_Interval
<1>2. IsFiniteSet(S)
  BY <1>1, FS_Subset
<1> QED BY <1>2, FS_CardinalityType

LEMMA CountUpto ==
  ASSUME NEW n \in Nat
  PROVE  Cardinality(1..n) = n
BY FS_Interval

\* TAILQ_INSERT_TAIL of a process that is not on the queue.
LEMMA Appended ==
  ASSUME NEW T, NEW q \in Seq(T), Distinct(q), NEW p \in T, ~OnQueue(q, p)
  PROVE  /\ Append(q, p) \in Seq(T) /\ Distinct(Append(q, p))
         /\ \A x : OnQueue(Append(q, p), x) <=> x = p \/ OnQueue(q, x)
<1> DEFINE n == Len(q)
           r == Append(q, p)
<1>1. n \in Nat /\ DOMAIN q = 1..n
  BY LenProperties
<1>2. /\ r \in Seq(T) /\ Len(r) = n + 1
      /\ \A i \in 1..n : r[i] = q[i]
      /\ r[n + 1] = p
  BY AppendProperties
<1>3. DOMAIN r = 1..(n + 1)
  BY <1>2, LenProperties
<1>4. /\ \A i \in 1..(n + 1) : i \in 1..n \/ i = n + 1
      /\ 1..n \subseteq 1..(n + 1) /\ n + 1 \in 1..(n + 1)
  BY <1>1
<1> HIDE DEF r, n
<1>5. Distinct(r)
  BY <1>1, <1>2, <1>3, <1>4 DEF Distinct, OnQueue
<1>6. \A x : OnQueue(r, x) <=> x = p \/ OnQueue(q, x)
  BY <1>1, <1>2, <1>3, <1>4 DEF OnQueue
<1> QED BY <1>2, <1>5, <1>6 DEF r

\* The places of those who stay are numbered without gaps.
LEMMA Numbered ==
  ASSUME NEW n \in Nat, NEW stay \in SUBSET (1..n), NEW k \in 1..Cardinality(stay)
  PROVE  \E i \in stay : Cardinality({j \in stay : j <= i}) = k
<1> DEFINE c    == Cardinality(stay)
           Upto(i) == {j \in stay : j <= i}
           f    == [i \in stay |-> Cardinality(Upto(i))]
<1>1. IsFiniteSet(stay) /\ c \in Nat
  BY Countable
<1>2. ASSUME NEW i \in stay
      PROVE  IsFiniteSet(Upto(i)) /\ Cardinality(Upto(i)) \in 1..c
  <2>1. IsFiniteSet(Upto(i)) /\ Cardinality(Upto(i)) <= c
    BY <1>1, FS_Subset
  <2>2. i \in Upto(i)
    OBVIOUS
  <2>3. Cardinality(Upto(i)) # 0 /\ Cardinality(Upto(i)) \in Nat
    BY <2>1, <2>2, FS_EmptySet, FS_CardinalityType
  <2> QED BY <1>1, <2>1, <2>3
<1>3. ASSUME NEW i \in stay, NEW m \in stay, i < m
      PROVE  Cardinality(Upto(i)) # Cardinality(Upto(m))
  <2>0. \A j \in stay : j \in Nat
    OBVIOUS
  <2>1. \A j \in stay : j <= i => j <= m
    BY <1>3, <2>0
  <2>2. m <= m /\ ~(m <= i)
    BY <1>3, <2>0
  <2>3. Upto(i) \subseteq Upto(m) /\ m \in Upto(m) /\ m \notin Upto(i)
    BY <2>1, <2>2
  <2> QED BY <1>2, <2>3, FS_Subset
<1>4. \A i, m \in stay : Cardinality(Upto(i)) = Cardinality(Upto(m)) => i = m
  <2> TAKE i, m \in stay
  <2>1. i < m \/ m < i \/ i = m
    OBVIOUS
  <2> HIDE DEF Upto
  <2> QED BY <1>3, <2>1
<1>5. f \in Injection(stay, 1..c)
  <2>1. f \in [stay -> 1..c]
    BY <1>2
  <2>2. \A i, m \in stay : f[i] = f[m] => i = m
    BY <1>4
  <2> QED BY <2>1, <2>2 DEF Injection, IsInjective
<1>6. IsFiniteSet(1..c) /\ Cardinality(1..c) = c
  BY <1>1, FS_Interval
<1>7. f \in Surjection(stay, 1..c)
  BY <1>5, <1>6, FS_Injection
<1>8. PICK i \in stay : f[i] = k
  BY <1>7 DEF Surjection
<1> QED BY <1>8

\* TAILQ_REMOVE of the members of S.
LEMMA Unlinked ==
  ASSUME NEW T, NEW q \in Seq(T), Distinct(q), NEW S
  PROVE  /\ Without(q, S) \in Seq(T) /\ Distinct(Without(q, S))
         /\ \A x : OnQueue(Without(q, S), x) <=> OnQueue(q, x) /\ x \notin S
<1> DEFINE n == Len(q)
           stay == {i \in DOMAIN q : q[i] \notin S}
           c == Cardinality(stay)
           Place(k) == CHOOSE i \in stay : Cardinality({j \in stay : j <= i}) = k
           r == [k \in 1..c |-> q[Place(k)]]
<1>1. n \in Nat /\ DOMAIN q = 1..n /\ \A i \in 1..n : q[i] \in T
  BY LenProperties
<1>2. stay \in SUBSET (1..n) /\ r = Without(q, S)
  BY <1>1 DEF Without
<1>3. IsFiniteSet(stay) /\ c \in Nat
  BY <1>1, <1>2, Countable
<1>4. ASSUME NEW k \in 1..c
      PROVE  Place(k) \in stay /\ Cardinality({j \in stay : j <= Place(k)}) = k
  <2>1. \E i \in stay : Cardinality({j \in stay : j <= i}) = k
    BY <1>1, <1>2, Numbered
  <2> QED BY <2>1
<1>5. ASSUME NEW i \in stay
      PROVE  \E k \in 1..c : Place(k) = i
  <2> DEFINE Upto(m) == {j \in stay : j <= m}
             k == Cardinality(Upto(i))
  <2>1. IsFiniteSet(Upto(i)) /\ k <= c
    BY <1>3, FS_Subset
  <2>2. i \in Upto(i)
    BY <1>1, <1>2
  <2>3. k # 0 /\ k \in Nat
    BY <2>1, <2>2, FS_EmptySet, FS_CardinalityType
  <2>3a. k \in 1..c
    BY <1>3, <2>1, <2>3
  <2>4. Place(k) \in stay /\ Cardinality(Upto(Place(k))) = Cardinality(Upto(i))
    BY <1>4, <2>3a
  <2>5. ASSUME NEW m \in stay, NEW h \in stay, m < h
        PROVE  Cardinality(Upto(m)) # Cardinality(Upto(h))
    <3>1. Upto(m) \subseteq Upto(h) /\ h \in Upto(h) /\ h \notin Upto(m)
      BY <1>1, <1>2, <2>5
    <3>2. IsFiniteSet(Upto(h))
      BY <1>3, FS_Subset
    <3> QED BY <3>1, <3>2, FS_Subset
  <2>6. Place(k) < i \/ i < Place(k) \/ Place(k) = i
    BY <1>1, <1>2, <2>4
  <2> HIDE DEF Upto, Place, k
  <2> QED BY <2>3a, <2>4, <2>5, <2>6
<1> HIDE DEF Place
<1>6. r \in [1..c -> T] /\ DOMAIN r = 1..c
  BY <1>1, <1>2, <1>4
<1>7. r \in Seq(T)
  BY <1>3, <1>6
<1>8. Distinct(r)
  <2> SUFFICES ASSUME NEW k \in 1..c, NEW m \in 1..c, r[k] = r[m]
               PROVE  k = m
    BY <1>6 DEF Distinct
  <2>1. q[Place(k)] = q[Place(m)]
    OBVIOUS
  <2>2. Place(k) = Place(m)
    BY <1>2, <1>4, <2>1 DEF Distinct
  <2> QED BY <1>4, <2>2
<1>9. ASSUME NEW x
      PROVE  OnQueue(r, x) <=> OnQueue(q, x) /\ x \notin S
  <2>1. ASSUME NEW k \in 1..c, r[k] = x
        PROVE  OnQueue(q, x) /\ x \notin S
    BY <1>2, <1>4, <2>1 DEF OnQueue
  <2>2. ASSUME NEW i \in DOMAIN q, q[i] = x, x \notin S
        PROVE  \E k \in 1..c : r[k] = x
    <3>1. i \in stay
      BY <2>2
    <3>2. PICK k \in 1..c : Place(k) = i
      BY <1>5, <3>1
    <3> QED BY <2>2, <3>2
  <2> QED BY <1>6, <2>1, <2>2 DEF OnQueue
<1> QED BY <1>2, <1>7, <1>8, <1>9

\* A queue of different processes is no longer than there are processes.
LEMMA Bounded ==
  ASSUME NEW T, IsFiniteSet(T), NEW q \in Seq(T), Distinct(q)
  PROVE  Len(q) <= Cardinality(T)
<1>1. q \in [1..Len(q) -> T] /\ Len(q) \in Nat /\ DOMAIN q = 1..Len(q)
  BY LenProperties
<1>2. q \in Injection(1..Len(q), T)
  BY <1>1 DEF Distinct, Injection, IsInjective
<1>3. Cardinality(1..Len(q)) <= Cardinality(T)
  BY <1>2, FS_Injection
<1>4. Cardinality(1..Len(q)) = Len(q)
  BY <1>1, CountUpto
<1> QED BY <1>3, <1>4

\* CIRCQ_APPEND: the elements of r, none of which is on q, follow those of q.
LEMMA Joined ==
  ASSUME NEW T, NEW q \in Seq(T), NEW r \in Seq(T), Distinct(q), Distinct(r),
         \A x : ~(OnQueue(q, x) /\ OnQueue(r, x))
  PROVE  /\ q \o r \in Seq(T) /\ Distinct(q \o r)
         /\ \A x : OnQueue(q \o r, x) <=> OnQueue(q, x) \/ OnQueue(r, x)
<1> DEFINE m == Len(q)
           n == Len(r)
           c == q \o r
<1>1. m \in Nat /\ DOMAIN q = 1..m /\ n \in Nat /\ DOMAIN r = 1..n
  BY LenProperties
<1>2. /\ c \in Seq(T) /\ Len(c) = m + n
      /\ \A i \in 1..(m + n) : c[i] = IF i <= m THEN q[i] ELSE r[i - m]
  BY ConcatProperties
<1>3. DOMAIN c = 1..(m + n)
  BY <1>2, LenProperties
<1> HIDE DEF c, m, n
<1>4. \A i \in 1..(m + n) :
        \/ i \in 1..m /\ c[i] = q[i]
        \/ i - m \in 1..n /\ c[i] = r[i - m]
  BY <1>1, <1>2
<1>5. /\ \A i \in 1..m : i \in 1..(m + n) /\ c[i] = q[i]
      /\ \A i \in 1..n : i + m \in 1..(m + n) /\ c[i + m] = r[i]
  BY <1>1, <1>2
<1>6. ASSUME NEW i \in 1..(m + n), NEW j \in 1..(m + n), c[i] = c[j]
      PROVE  i = j
  <2>1. CASE i \in 1..m /\ c[i] = q[i] /\ j \in 1..m /\ c[j] = q[j]
    BY <1>1, <1>6, <2>1 DEF Distinct
  <2>2. CASE i - m \in 1..n /\ c[i] = r[i - m] /\ j - m \in 1..n /\ c[j] = r[j - m]
    <3>1. i - m = j - m
      BY <1>1, <1>6, <2>2 DEF Distinct
    <3> QED BY <1>1, <3>1
  <2>3. CASE i \in 1..m /\ c[i] = q[i] /\ j - m \in 1..n /\ c[j] = r[j - m]
    BY <1>1, <1>6, <2>3 DEF OnQueue
  <2>4. CASE i - m \in 1..n /\ c[i] = r[i - m] /\ j \in 1..m /\ c[j] = q[j]
    BY <1>1, <1>6, <2>4 DEF OnQueue
  <2> QED BY <1>4, <2>1, <2>2, <2>3, <2>4
<1>7. Distinct(c)
  BY <1>3, <1>6 DEF Distinct
<1>8. ASSUME NEW x
      PROVE  OnQueue(c, x) <=> OnQueue(q, x) \/ OnQueue(r, x)
  <2>1. ASSUME NEW i \in 1..(m + n), c[i] = x
        PROVE  OnQueue(q, x) \/ OnQueue(r, x)
    BY <1>1, <1>4, <2>1 DEF OnQueue
  <2>2. ASSUME NEW i \in 1..m, q[i] = x
        PROVE  i \in 1..(m + n) /\ c[i] = x
    BY <1>5, <2>2
  <2>3. ASSUME NEW i \in 1..n, r[i] = x
        PROVE  i + m \in 1..(m + n) /\ c[i + m] = x
    BY <1>5, <2>3
  <2> QED BY <1>1, <1>3, <2>1, <2>2, <2>3 DEF OnQueue
<1> QED BY <1>2, <1>7, <1>8 DEF c

\* Removing the first element.
LEMMA Shifted ==
  ASSUME NEW T, NEW q \in Seq(T), q # <<>>, Distinct(q)
  PROVE  /\ Head(q) \in T /\ OnQueue(q, Head(q))
         /\ Tail(q) \in Seq(T) /\ Distinct(Tail(q))
         /\ \A x : OnQueue(Tail(q), x) <=> OnQueue(q, x) /\ x # Head(q)
<1> DEFINE n == Len(q)
           r == Tail(q)
<1>0. n \in Nat \ {0}
  BY EmptySeq
<1>1. n \in Nat /\ n # 0 /\ DOMAIN q = 1..n /\ \A i \in 1..n : q[i] \in T
  BY <1>0, LenProperties
<1>2. /\ r \in Seq(T) /\ Len(r) = n - 1
      /\ \A i \in 1..(n - 1) : r[i] = q[i + 1]
  BY HeadTailProperties
<1>3. DOMAIN r = 1..(n - 1)
  BY <1>2, LenProperties
<1>4. 1 \in 1..n /\ Head(q) = q[1]
  BY <1>1
<1> HIDE DEF r, n
<1>5. /\ \A i \in 1..(n - 1) : i + 1 \in 1..n /\ i + 1 # 1
      /\ \A i \in 1..n : i = 1 \/ (i - 1 \in 1..(n - 1) /\ (i - 1) + 1 = i)
  BY <1>1
<1>6. Distinct(r)
  <2> SUFFICES ASSUME NEW i \in 1..(n - 1), NEW j \in 1..(n - 1), r[i] = r[j]
               PROVE  i = j
    BY <1>3 DEF Distinct
  <2>1. i + 1 = j + 1
    BY <1>1, <1>2, <1>5 DEF Distinct
  <2> QED BY <1>1, <2>1
<1>7. ASSUME NEW x
      PROVE  OnQueue(r, x) <=> OnQueue(q, x) /\ x # q[1]
  <2>1. ASSUME NEW i \in 1..(n - 1), r[i] = x
        PROVE  OnQueue(q, x) /\ x # q[1]
    BY <1>1, <1>2, <1>4, <1>5, <2>1 DEF OnQueue, Distinct
  <2>2. ASSUME NEW i \in 1..n, q[i] = x, x # q[1]
        PROVE  i - 1 \in 1..(n - 1) /\ r[i - 1] = x
    BY <1>2, <1>5, <2>2
  <2> QED BY <1>1, <1>3, <2>1, <2>2 DEF OnQueue
<1> QED BY <1>1, <1>2, <1>4, <1>6, <1>7 DEF r, OnQueue
=============================================================================
