---------------------------- MODULE TimeoutProofs ----------------------------
(***************************************************************************)
(* For any number of timeouts, any width of the wheels and of ints, and    *)
(* any delays: the flags tell the lists, nothing runs early, and what is   *)
(* due is on the work list.                                                *)
(***************************************************************************)
EXTENDS Timeout, QueueProofs

-----------------------------------------------------------------------------
(***************************************************************************)
(* The inductive invariant.                                                *)
(***************************************************************************)

\* The lists hold nothing twice, and no two of them the same timeout.
Sound(todo, wheel) ==
  /\ todo \in Seq(Timeouts) /\ Distinct(todo)
  /\ \A b \in Buckets :
       /\ wheel[b] \in Seq(Timeouts) /\ Distinct(wheel[b])
       /\ \A t : ~(OnQueue(todo, t) /\ OnQueue(wheel[b], t))
  /\ \A b, c \in Buckets : \A t : OnQueue(wheel[b], t) /\ OnQueue(wheel[c], t) => b = c

OnSome(todo, wheel, t) ==
  OnQueue(todo, t) \/ \E b \in Buckets : OnQueue(wheel[b], t)

\* hardclock moves bucket b at time now.
Serves(now, b) == \E w \in Moved(now) : b = Current(w, now)

\* What the caller of timeout_add may rely on.
TimeInv(t) ==
  /\ armed[t] <=> ONQUEUE \in to_flags[t]
  /\ armed[t] <=> OnSome(timeout_todo, timeout_wheel, t)
  /\ armed[t] => to_time[t] = (ticks + left[t]) % Modulus

\* A bucket is moved in time for all that is in it.
Served(t, b) ==
  OnQueue(timeout_wheel[b], t) =>
    \E d \in 1 .. left[t] : Serves((ticks + d) % Modulus, b)

IInv ==
  /\ TypeOK
  /\ Sound(timeout_todo, timeout_wheel)
  /\ \A t \in Timeouts : TimeInv(t) /\ \A b \in Buckets : Served(t, b)
-----------------------------------------------------------------------------
(***************************************************************************)
(* Wrapping ints.                                                          *)
(***************************************************************************)

\* Adding less than a turn.
LEMMA Wrap ==
  ASSUME NEW M \in Nat \ {0}, NEW a \in 0 .. M - 1, NEW d \in Int, d < M, -d < M
  PROVE  /\ (a + d) % M = (IF a + d < 0 THEN a + d + M ELSE IF a + d < M THEN a + d ELSE a + d - M)
         /\ (a + d) % M \in 0 .. M - 1
OBVIOUS

LEMMA Widths ==
  /\ Modulus \in Nat \ {0} /\ INT_MAX \in Nat \ {0}
  /\ Modulus = 2 * INT_MAX + 2 /\ MaxLate \in 1 .. INT_MAX
  /\ WHEELSIZE \in Nat \ {0}
<1>1. Modulus \in Nat /\ Modulus % 2 = 0 /\ WHEELSIZE \in Nat \ {0}
  BY WheelAssumption
<1>2. MaxLate \in 1 .. (Modulus \div 2 - 1)
  BY MaxLateAssumption DEF INT_MAX
<1> HIDE DEF Modulus, WHEELSIZE
<1> QED BY <1>1, <1>2 DEF INT_MAX

\* The difference of two ints is the distance of their times.
LEMMA Distance ==
  ASSUME NEW a \in 0 .. Modulus - 1, NEW d \in -INT_MAX .. INT_MAX
  PROVE  /\ Minus((a + d) % Modulus, a) = d
         /\ (a + d) % Modulus \in 0 .. Modulus - 1
<1>1. /\ Modulus \in Nat \ {0} /\ INT_MAX \in Nat \ {0}
      /\ Modulus = 2 * INT_MAX + 2
  BY Widths
<1> HIDE DEF Modulus, INT_MAX
<1>2. d \in Int /\ d < Modulus /\ -d < Modulus
  BY <1>1
<1> DEFINE b == (a + d) % Modulus
<1>3. /\ b = (IF a + d < 0 THEN a + d + Modulus
              ELSE IF a + d < Modulus THEN a + d ELSE a + d - Modulus)
      /\ b \in 0 .. Modulus - 1
  BY <1>1, <1>2, Wrap
<1> HIDE DEF b
<1>4. (b - a) % Modulus = IF d < 0 THEN d + Modulus ELSE d
  <2>1. b - a \in {d, d + Modulus, d - Modulus}
    BY <1>1, <1>2, <1>3
  <2>2. b - a \in Int /\ b - a < Modulus /\ -(b - a) < Modulus
    BY <1>1, <1>3
  <2> DEFINE e == b - a
  <2>3. e \in {d, d + Modulus, d - Modulus} /\ e \in Int /\ e < Modulus /\ -e < Modulus
    BY <2>1, <2>2
  <2> HIDE DEF e
  <2>4. e % Modulus = IF e < 0 THEN e + Modulus ELSE e
    BY <1>1, <2>3
  <2>5. e % Modulus = IF d < 0 THEN d + Modulus ELSE d
    BY <1>1, <1>2, <2>3, <2>4
  <2> QED BY <2>5 DEF e
<1>5. Minus(b, a) = d
  BY <1>1, <1>2, <1>4 DEF Minus
<1> QED BY <1>3, <1>5 DEF b

\* d ticks from now are d - 1 from the next tick.
LEMMA OneTick ==
  ASSUME NEW a \in 0 .. Modulus - 1, NEW d \in -INT_MAX .. INT_MAX
  PROVE  (((a + 1) % Modulus) + (d - 1)) % Modulus = (a + d) % Modulus
<1>1. /\ Modulus \in Nat \ {0} /\ INT_MAX \in Nat \ {0}
      /\ Modulus = 2 * INT_MAX + 2
  BY Widths
<1> HIDE DEF Modulus, INT_MAX
<1>2. /\ (a + 1) % Modulus = (IF a + 1 < Modulus THEN a + 1 ELSE 0)
      /\ (a + 1) % Modulus \in 0 .. Modulus - 1
  BY <1>1
<1>3. (a + d) % Modulus = (IF a + d < 0 THEN a + d + Modulus
              ELSE IF a + d < Modulus THEN a + d ELSE a + d - Modulus)
  <2>1. d \in Int /\ d < Modulus /\ -d < Modulus
    BY <1>1
  <2> QED BY <1>1, <2>1, Wrap
<1> DEFINE c == (a + 1) % Modulus
           e == d - 1
<1>4. c \in 0 .. Modulus - 1 /\ e \in Int /\ e < Modulus /\ -e < Modulus
  BY <1>1, <1>2
<1>5. c = (IF a + 1 < Modulus THEN a + 1 ELSE 0) /\ e = d - 1
  BY <1>2
<1> HIDE DEF c, e
<1>6. (c + e) % Modulus = (IF c + e < 0 THEN c + e + Modulus
                           ELSE IF c + e < Modulus THEN c + e ELSE c + e - Modulus)
  BY <1>1, <1>4, Wrap
<1>7. (c + e) % Modulus = (a + d) % Modulus
  BY <1>1, <1>3, <1>4, <1>5, <1>6
<1> QED BY <1>7 DEF c, e

-----------------------------------------------------------------------------
(***************************************************************************)
(* The wheels.                                                             *)
(***************************************************************************)

LEMMA Multiple ==
  ASSUME NEW k \in Nat, NEW u \in Nat \ {0}
  PROVE  k * u \in Nat /\ (k * u) % u = 0 /\ (k * u) \div u = k
OBVIOUS

LEMMA Division ==
  ASSUME NEW n \in Nat, NEW u \in Nat \ {0}
  PROVE  n \div u \in Nat /\ n % u \in 0 .. u - 1 /\ n = (n \div u) * u + (n % u)
<1>1. n = u * (n \div u) + (n % u) /\ n % u \in 0 .. (u - 1) /\ n \div u \in Nat
  OBVIOUS
<1> DEFINE q == n \div u
<1>2. q \in Nat /\ n = u * q + (n % u)
  BY <1>1
<1> HIDE DEF q
<1>3. u * q = q * u
  BY <1>2
<1>4. n = q * u + (n % u)
  BY <1>2, <1>3
<1> QED BY <1>1, <1>4 DEF q

LEMMA Spans ==
  /\ Span(0) = 1 /\ Span(1) = WHEELSIZE /\ Span(2) = WHEELSIZE * WHEELSIZE
  /\ Span(3) = WHEELSIZE * (WHEELSIZE * WHEELSIZE)
  /\ \A w \in 0 .. 3 : Span(w) \in Nat \ {0}
<1>1. WHEELSIZE \in Nat \ {0}
  BY Widths
<1> HIDE DEF WHEELSIZE
<1>2. WHEELSIZE * WHEELSIZE \in Nat \ {0}
  BY <1>1
<1>3. WHEELSIZE * (WHEELSIZE * WHEELSIZE) \in Nat \ {0}
  BY <1>1, <1>2
<1>4. /\ Span(0) = 1 /\ Span(1) = WHEELSIZE /\ Span(2) = WHEELSIZE * WHEELSIZE
      /\ Span(3) = WHEELSIZE * (WHEELSIZE * WHEELSIZE)
  BY DEF Span
<1> QED BY <1>1, <1>2, <1>3, <1>4

\* Positions lie in the wheels, so that each wheel has buckets of its own.
LEMMA Positions ==
  ASSUME NEW w \in 0 .. 3, NEW n \in Nat
  PROVE  /\ MASKWHEEL(w, n) \in 0 .. WHEELSIZE - 1
         /\ Current(w, n) \in Buckets
         /\ \A v \in 0 .. 3, m \in Nat : Current(w, n) = Current(v, m) => v = w
<1>1. \A v \in 0 .. 3, m \in Nat : MASKWHEEL(v, m) \in 0 .. WHEELSIZE - 1
  <2> TAKE v \in 0 .. 3, m \in Nat
  <2>1. Span(v) \in Nat \ {0} /\ WHEELSIZE \in Nat \ {0}
    BY Spans, Widths
  <2> HIDE DEF Span, WHEELSIZE
  <2>2. m \div Span(v) \in Nat
    BY <2>1, Division
  <2> QED BY <2>1, <2>2, Division DEF MASKWHEEL
<1>2. WHEELSIZE \in Nat \ {0}
  BY Widths
<1> HIDE DEF WHEELSIZE, MASKWHEEL
<1>3. ASSUME NEW v \in 0 .. 3, NEW m \in Nat
      PROVE  /\ Current(v, m) \in Nat
             /\ v = 0 => Current(v, m) < WHEELSIZE
             /\ v = 1 => Current(v, m) >= WHEELSIZE /\ Current(v, m) < 2 * WHEELSIZE
             /\ v = 2 => Current(v, m) >= 2 * WHEELSIZE /\ Current(v, m) < 3 * WHEELSIZE
             /\ v = 3 => Current(v, m) >= 3 * WHEELSIZE /\ Current(v, m) < 4 * WHEELSIZE
  <2> DEFINE c == MASKWHEEL(v, m)
  <2>1. c \in 0 .. WHEELSIZE - 1 /\ Current(v, m) = c + v * WHEELSIZE
    BY <1>1 DEF Current
  <2> HIDE DEF c
  <2>2. v \in {0, 1, 2, 3}
    OBVIOUS
  <2> QED BY <1>2, <2>1, <2>2
<1> HIDE DEF Current
<1>4. Current(w, n) \in Buckets
  <2>1. w \in {0, 1, 2, 3}
    OBVIOUS
  <2>2. Current(w, n) \in Nat /\ Current(w, n) < 4 * WHEELSIZE
    BY <1>2, <1>3, <2>1
  <2> QED BY <1>2, <2>2 DEF Buckets
<1>5. ASSUME NEW v \in 0 .. 3, NEW m \in Nat, Current(w, n) = Current(v, m)
      PROVE  v = w
  <2>1. w \in {0, 1, 2, 3} /\ v \in {0, 1, 2, 3}
    OBVIOUS
  <2> DEFINE c == Current(w, n)
             d == Current(v, m)
  <2>2. /\ c \in Nat /\ d \in Nat /\ c = d
        /\ w = 0 => c < WHEELSIZE
        /\ w = 1 => c >= WHEELSIZE /\ c < 2 * WHEELSIZE
        /\ w = 2 => c >= 2 * WHEELSIZE /\ c < 3 * WHEELSIZE
        /\ w = 3 => c >= 3 * WHEELSIZE /\ c < 4 * WHEELSIZE
    BY <1>3, <1>5
  <2>3. /\ v = 0 => d < WHEELSIZE
        /\ v = 1 => d >= WHEELSIZE /\ d < 2 * WHEELSIZE
        /\ v = 2 => d >= 2 * WHEELSIZE /\ d < 3 * WHEELSIZE
        /\ v = 3 => d >= 3 * WHEELSIZE /\ d < 4 * WHEELSIZE
    BY <1>3
  <2> HIDE DEF c, d
  <2> QED BY <1>2, <2>1, <2>2, <2>3
<1> QED BY <1>1, <1>4, <1>5

\* When a wheel is at the start of a bucket, all the lower ones are at 0.
LEMMA Aligned ==
  ASSUME NEW w \in 0 .. 3, NEW k \in Nat
  PROVE  w \in Moved(k * Span(w)) /\ MASKWHEEL(w, k * Span(w)) = k % WHEELSIZE
<1> DEFINE W == WHEELSIZE
           n == k * Span(w)
<1>1. W \in Nat \ {0} /\ W * W \in Nat \ {0} /\ W * (W * W) \in Nat \ {0}
  BY Spans, Widths
<1>2. /\ Span(0) = 1 /\ Span(1) = W /\ Span(2) = W * W /\ Span(3) = W * (W * W)
      /\ Span(w) \in Nat \ {0}
  BY Spans
<1> HIDE DEF W
<1>3. MASKWHEEL(w, n) = k % W
  BY <1>2, Multiple DEF MASKWHEEL, W
<1>4. \A v \in 0 .. w - 1 : MASKWHEEL(v, n) = 0
  <2>1. \A j \in Nat : ((j * W) \div 1) % W = 0
    BY <1>1, Multiple
  <2>2. \A j \in Nat : ((j * (W * W)) \div W) % W = 0
    <3> TAKE j \in Nat
    <3>1. j * W \in Nat /\ j * (W * W) = (j * W) * W
      BY <1>1
    <3>2. ((j * W) * W) \div W = j * W
      BY <1>1, <3>1, Multiple
    <3> QED BY <1>1, <3>1, <3>2, Multiple
  <2>3. CASE w = 1
    BY <1>2, <2>1, <2>3 DEF MASKWHEEL, W
  <2>4. CASE w = 2
    <3>1. n = k * (W * W) /\ n = (k * W) * W /\ k * W \in Nat
      BY <1>1, <1>2, <2>4
    <3>2. MASKWHEEL(0, n) = 0
      BY <1>2, <2>1, <3>1 DEF MASKWHEEL, W
    <3>3. MASKWHEEL(1, n) = 0
      BY <1>2, <2>2, <3>1 DEF MASKWHEEL, W
    <3> QED BY <2>4, <3>2, <3>3
  <2>5. CASE w = 3
    <3>1. n = k * (W * (W * W))
      BY <1>2, <2>5
    <3>2. n = ((k * W) * W) * W /\ n = (k * W) * (W * W) /\ k * W \in Nat /\ (k * W) * W \in Nat
      BY <1>1, <3>1
    <3>3. MASKWHEEL(0, n) = 0
      BY <1>2, <2>1, <3>2 DEF MASKWHEEL, W
    <3>4. MASKWHEEL(1, n) = 0
      BY <1>2, <2>2, <3>2 DEF MASKWHEEL, W
    <3>5. MASKWHEEL(2, n) = 0
      <4>1. n \div (W * W) = k * W
        BY <1>1, <3>2, Multiple
      <4> QED BY <1>1, <1>2, <4>1, Multiple DEF MASKWHEEL, W
    <3> QED BY <2>5, <3>3, <3>4, <3>5
  <2>6. CASE w = 0
    BY <2>6
  <2> QED BY <2>3, <2>4, <2>5, <2>6
<1> QED BY <1>3, <1>4 DEF Moved, W

\* BUCKET's wheel: a bucket of it spans less than rel.
LEMMA WheelOf ==
  ASSUME NEW rel \in Nat \ {0}, NEW abs
  PROVE  \E w \in 0 .. 3 : BUCKET(rel, abs) = Current(w, abs) /\ (w = 0 \/ rel > Span(w))
<1> DEFINE P(w) == /\ w = 3 \/ rel <= Span(w + 1)
                   /\ \A v \in 0 .. w - 1 : rel > Span(v + 1)
<1>1. Span(1) \in Nat /\ Span(2) \in Nat /\ Span(3) \in Nat
  BY Spans
<1>2. \E w \in 0 .. 3 : P(w)
  <2>1. CASE rel <= Span(1)
    <3>1. P(0)
      BY <2>1
    <3> QED BY <3>1
  <2>2. CASE rel > Span(1) /\ rel <= Span(2)
    <3>1. P(1)
      BY <2>2
    <3> QED BY <3>1
  <2>3. CASE rel > Span(1) /\ rel > Span(2) /\ rel <= Span(3)
    <3>1. P(2)
      BY <2>3
    <3> QED BY <3>1
  <2>4. CASE rel > Span(1) /\ rel > Span(2) /\ rel > Span(3)
    <3>1. P(3)
      BY <2>4
    <3> QED BY <3>1
  <2> QED BY <1>1, <2>1, <2>2, <2>3, <2>4
<1> DEFINE w == CHOOSE w \in 0 .. 3 : P(w)
<1>3. w \in 0 .. 3 /\ P(w)
  BY <1>2
<1>4. BUCKET(rel, abs) = Current(w, abs)
  BY DEF BUCKET
<1> HIDE DEF w
<1>5. w = 0 \/ rel > Span(w)
  <2>1. CASE w # 0
    <3>1. w - 1 \in 0 .. w - 1 /\ (w - 1) + 1 = w
      BY <1>3, <2>1
    <3>2. rel > Span((w - 1) + 1)
      BY <1>3, <3>1
    <3> QED BY <3>1, <3>2
  <2> QED BY <2>1
<1> QED BY <1>3, <1>4, <1>5

\* The bucket that is chosen for a timeout is moved before the timeout is due,
\* or when it is: the start of the bucket's span lies between now and then.
LEMMA InTime ==
  ASSUME NEW a \in 0 .. Modulus - 1, NEW rel \in 1 .. INT_MAX,
         NEW T, T = (a + rel) % Modulus
  PROVE  /\ BUCKET(rel, T) \in Buckets
         /\ \E d \in 1 .. rel : Serves((a + d) % Modulus, BUCKET(rel, T))
<1>1. /\ Modulus \in Nat \ {0} /\ INT_MAX \in Nat \ {0}
      /\ Modulus = 2 * INT_MAX + 2
  BY Widths
<1> HIDE DEF Modulus, INT_MAX
<1>2. /\ T \in 0 .. Modulus - 1 /\ T \in Nat
      /\ T = IF a + rel < Modulus THEN a + rel ELSE a + rel - Modulus
  <2>1. rel \in Int /\ rel < Modulus /\ -rel < Modulus
    BY <1>1
  <2>2. /\ T = (IF a + rel < 0 THEN a + rel + Modulus
                ELSE IF a + rel < Modulus THEN a + rel ELSE a + rel - Modulus)
        /\ T \in 0 .. Modulus - 1
    BY <1>1, <2>1, Wrap
  <2> QED BY <1>1, <2>2
<1>3. PICK w \in 0 .. 3 : BUCKET(rel, T) = Current(w, T) /\ (w = 0 \/ rel > Span(w))
  BY <1>1, WheelOf
<1> DEFINE u == Span(w)
           k == T \div u
           n == k * u
           r == T % u
           d == rel - r
<1>4. u \in Nat \ {0} /\ (w = 0 => u = 1)
  BY Spans
<1> HIDE DEF u
<1>5. k \in Nat /\ r \in 0 .. u - 1 /\ T = n + r
  BY <1>2, <1>4, Division
<1> HIDE DEF k, r
<1>6. n \in Nat
  BY <1>4, <1>5
<1> HIDE DEF n
<1>7. d \in 1 .. rel
  <2>1. CASE w = 0
    BY <1>4, <1>5, <2>1
  <2>2. CASE rel > u
    BY <1>4, <1>5, <2>2
  <2> QED BY <1>3, <2>1, <2>2 DEF u
<1>8. (a + d) % Modulus = n
  <2>1. n = T - r /\ n \in 0 .. Modulus - 1
    BY <1>1, <1>2, <1>4, <1>5, <1>6
  <2>2. a + d = n \/ a + d = n + Modulus
    BY <1>1, <1>2, <1>4, <1>5, <1>6, <2>1
  <2> HIDE DEF d
  <2>3. d \in Int /\ d < Modulus /\ -d < Modulus
    BY <1>1, <1>7
  <2>4. (a + d) % Modulus = (IF a + d < 0 THEN a + d + Modulus
           ELSE IF a + d < Modulus THEN a + d ELSE a + d - Modulus)
    BY <1>1, <2>3, Wrap
  <2> QED BY <1>1, <2>1, <2>2, <2>3, <2>4
<1>9. w \in Moved(n) /\ MASKWHEEL(w, n) = MASKWHEEL(w, T)
  <2>1. w \in Moved(k * Span(w)) /\ MASKWHEEL(w, k * Span(w)) = k % WHEELSIZE
    BY <1>5, Aligned
  <2> QED BY <2>1 DEF n, u, k, MASKWHEEL
<1>10. Current(w, n) = Current(w, T)
  BY <1>9 DEF Current
<1>11. Serves((a + d) % Modulus, BUCKET(rel, T))
  BY <1>3, <1>8, <1>9, <1>10 DEF Serves
<1>12. BUCKET(rel, T) \in Buckets
  BY <1>2, <1>3, Positions
<1> QED BY <1>7, <1>11, <1>12

-----------------------------------------------------------------------------
(***************************************************************************)
(* The lists.                                                              *)
(***************************************************************************)

\* t is unlinked from wherever it is.
LEMMA Removed ==
  ASSUME NEW todo, NEW wheel, Sound(todo, wheel), NEW t \in Timeouts,
         NEW q, q = RemoveFrom(todo, t),
         NEW w, w = [b \in Buckets |-> RemoveFrom(wheel[b], t)]
  PROVE  /\ Sound(q, w)
         /\ \A x : OnQueue(q, x) <=> OnQueue(todo, x) /\ x # t
         /\ \A b \in Buckets : \A x : OnQueue(w[b], x) <=> OnQueue(wheel[b], x) /\ x # t
<1>1. /\ q \in Seq(Timeouts) /\ Distinct(q)
      /\ \A x : OnQueue(q, x) <=> OnQueue(todo, x) /\ x # t
  BY Unlinked DEF Sound, RemoveFrom
<1>2. \A b \in Buckets : /\ w[b] \in Seq(Timeouts) /\ Distinct(w[b])
                         /\ \A x : OnQueue(w[b], x) <=> OnQueue(wheel[b], x) /\ x # t
  BY Unlinked DEF Sound, RemoveFrom
<1>3. Sound(q, w)
  BY <1>1, <1>2 DEF Sound
<1> QED BY <1>1, <1>2, <1>3

\* A timeout that is on no list joins the work list.
LEMMA Queued ==
  ASSUME NEW todo, NEW wheel, Sound(todo, wheel), NEW t \in Timeouts, ~OnSome(todo, wheel, t)
  PROVE  /\ Sound(Append(todo, t), wheel)
         /\ \A x : OnQueue(Append(todo, t), x) <=> x = t \/ OnQueue(todo, x)
<1> DEFINE q == Append(todo, t)
<1>1. /\ q \in Seq(Timeouts) /\ Distinct(q)
      /\ \A x : OnQueue(q, x) <=> x = t \/ OnQueue(todo, x)
  BY Appended DEF Sound, OnSome
<1> HIDE DEF q
<1>2. Sound(q, wheel)
  BY <1>1 DEF Sound, OnSome
<1> QED BY <1>1, <1>2 DEF q

\* The first timeout of the work list is taken off it.
LEMMA Taken ==
  ASSUME NEW todo, NEW wheel, Sound(todo, wheel), todo # <<>>
  PROVE  /\ Sound(Tail(todo), wheel) /\ Head(todo) \in Timeouts
         /\ OnQueue(todo, Head(todo)) /\ ~OnSome(Tail(todo), wheel, Head(todo))
         /\ \A x : OnQueue(Tail(todo), x) <=> OnQueue(todo, x) /\ x # Head(todo)
<1> DEFINE q == Tail(todo)
           h == Head(todo)
<1>1. /\ h \in Timeouts /\ OnQueue(todo, h) /\ q \in Seq(Timeouts) /\ Distinct(q)
      /\ \A x : OnQueue(q, x) <=> OnQueue(todo, x) /\ x # h
  BY Shifted DEF Sound
<1> HIDE DEF q, h
<1>2. Sound(q, wheel) /\ ~OnSome(q, wheel, h)
  BY <1>1 DEF Sound, OnSome
<1> QED BY <1>1, <1>2 DEF q, h

\* A timeout that is on no list goes into bucket b.
LEMMA Sorted ==
  ASSUME NEW todo, NEW wheel, Sound(todo, wheel),
         NEW t \in Timeouts, ~OnSome(todo, wheel, t), NEW b \in Buckets,
         NEW w, w[b] = Append(wheel[b], t), \A c \in Buckets : c # b => w[c] = wheel[c]
  PROVE  /\ Sound(todo, w)
         /\ \A c \in Buckets : \A x :
              OnQueue(w[c], x) <=> OnQueue(wheel[c], x) \/ (c = b /\ x = t)
<1> DEFINE q == Append(wheel[b], t)
<1>1. /\ q \in Seq(Timeouts) /\ Distinct(q)
      /\ \A x : OnQueue(q, x) <=> x = t \/ OnQueue(wheel[b], x)
  BY Appended DEF Sound, OnSome
<1>2. w[b] = q /\ \A c \in Buckets : c # b => w[c] = wheel[c]
  OBVIOUS
<1> HIDE DEF q
<1>4. \A c \in Buckets : \A x :
        OnQueue(w[c], x) <=> OnQueue(wheel[c], x) \/ (c = b /\ x = t)
  BY <1>1, <1>2
<1>5. \A c \in Buckets : w[c] \in Seq(Timeouts) /\ Distinct(w[c])
  BY <1>1, <1>2 DEF Sound
<1>6. \A c \in Buckets : \A x : ~(OnQueue(todo, x) /\ OnQueue(w[c], x))
  BY <1>4 DEF Sound, OnSome
<1>7. ASSUME NEW c \in Buckets, NEW d \in Buckets, NEW x, OnQueue(w[c], x), OnQueue(w[d], x)
      PROVE  c = d
  <2>1. ~OnQueue(wheel[c], t) /\ ~OnQueue(wheel[d], t)
    BY DEF OnSome
  <2>2. OnQueue(wheel[c], x) /\ OnQueue(wheel[d], x) => c = d
    BY DEF Sound
  <2> QED BY <1>4, <1>7, <2>1, <2>2
<1>8. Sound(todo, w)
  BY <1>5, <1>6, <1>7 DEF Sound
<1> QED BY <1>4, <1>8

\* One bucket, or nothing, is moved to the work list: MOVEBUCKET.
LEMMA MovedOne ==
  ASSUME NEW todo, NEW wheel, Sound(todo, wheel), NEW b \in Buckets, NEW M, NEW i,
         NEW w, \A c \in Buckets : w[c] = IF i \in M /\ c = b THEN <<>> ELSE wheel[c]
  PROVE  LET q == todo \o (IF i \in M THEN wheel[b] ELSE <<>>)
         IN /\ Sound(q, w)
            /\ \A x : OnQueue(q, x) <=> OnQueue(todo, x) \/ (i \in M /\ OnQueue(wheel[b], x))
<1> DEFINE r == IF i \in M THEN wheel[b] ELSE <<>>
           q == todo \o r
<1>0. <<>> \in Seq(Timeouts) /\ DOMAIN <<>> = {}
  OBVIOUS
<1>1. /\ todo \in Seq(Timeouts) /\ Distinct(todo)
      /\ r \in Seq(Timeouts) /\ Distinct(r)
      /\ \A x : OnQueue(r, x) <=> i \in M /\ OnQueue(wheel[b], x)
  BY <1>0 DEF Sound, Distinct, OnQueue
<1>2. \A x : ~(OnQueue(todo, x) /\ OnQueue(r, x))
  BY <1>1 DEF Sound
<1> HIDE DEF r
<1>3. /\ q \in Seq(Timeouts) /\ Distinct(q)
      /\ \A x : OnQueue(q, x) <=> OnQueue(todo, x) \/ OnQueue(r, x)
  BY <1>1, <1>2, Joined
<1> HIDE DEF q
<1>4. ASSUME NEW c \in Buckets
      PROVE  /\ w[c] \in Seq(Timeouts) /\ Distinct(w[c])
             /\ \A x : OnQueue(w[c], x) <=> OnQueue(wheel[c], x) /\ ~(i \in M /\ c = b)
  BY <1>0 DEF Sound, Distinct, OnQueue
<1>5. Sound(q, w)
  BY <1>1, <1>3, <1>4 DEF Sound
<1> QED BY <1>1, <1>3, <1>5 DEF q, r

-----------------------------------------------------------------------------
(***************************************************************************)
(* The callers.                                                            *)
(***************************************************************************)

LEMMA SetInv ==
  ASSUME IInv, NEW t \in Timeouts, Set(t)
  PROVE  IInv'
<1> USE DEF Set, history
<1>1. TypeOK /\ Sound(timeout_todo, timeout_wheel)
      /\ \A u \in Timeouts : TimeInv(u) /\ \A b \in Buckets : Served(u, b)
  BY DEF IInv
<1>2. TypeOK'
  BY <1>1 DEF TypeOK
<1>3. \A u \in Timeouts : ONQUEUE \in to_flags'[u] <=> ONQUEUE \in to_flags[u]
  BY <1>1 DEF TypeOK
<1>4. \A u \in Timeouts : TimeInv(u)' /\ \A b \in Buckets : Served(u, b)'
  BY <1>1, <1>3 DEF TimeInv, OnSome, Served
<1> QED BY <1>1, <1>2, <1>4 DEF IInv, Sound

\* What is kept of the times when t is armed again for d ticks from now.
LEMMA Armed ==
  ASSUME TypeOK, NEW t \in Timeouts, NEW d \in 0 .. INT_MAX,
         to_time' = [to_time EXCEPT ![t] = (d + ticks) % Modulus],
         to_flags' = [to_flags EXCEPT ![t] = {ONQUEUE}],
         armed' = [armed EXCEPT ![t] = TRUE], left' = [left EXCEPT ![t] = d],
         UNCHANGED <<ticks, softclock, requested>>,
         timeout_wheel' \in [Buckets -> Seq(Timeouts)], timeout_todo' \in Seq(Timeouts)
  PROVE  /\ TypeOK' /\ armed'[t] /\ ONQUEUE \in to_flags'[t] /\ left'[t] = d
         /\ to_time'[t] = (ticks' + left'[t]) % Modulus
         /\ Minus(to_time'[t], ticks) = d
         /\ \A u \in Timeouts : u # t =>
              /\ armed'[u] = armed[u] /\ to_flags'[u] = to_flags[u]
              /\ left'[u] = left[u] /\ to_time'[u] = to_time[u]
<1>1. /\ ticks \in 0 .. Modulus - 1 /\ d \in -INT_MAX .. INT_MAX
      /\ d \in -MaxLate .. INT_MAX /\ d + ticks = ticks + d
  <2>1. /\ Modulus \in Nat \ {0} /\ INT_MAX \in Nat \ {0} /\ MaxLate \in 1 .. INT_MAX
        /\ ticks \in 0 .. Modulus - 1
    BY Widths DEF TypeOK
  <2> HIDE DEF Modulus, INT_MAX
  <2> QED BY <2>1
<1>2. /\ Minus((ticks + d) % Modulus, ticks) = d
      /\ (ticks + d) % Modulus \in 0 .. Modulus - 1
  BY <1>1, Distance
<1> DEFINE new == (ticks + d) % Modulus
<1>3. /\ to_time' = [to_time EXCEPT ![t] = new] /\ new \in 0 .. Modulus - 1
      /\ Minus(new, ticks) = d
  BY <1>1, <1>2
<1>4. /\ left' \in [Timeouts -> -MaxLate .. INT_MAX] /\ left'[t] = d
      /\ \A u \in Timeouts : u # t => left'[u] = left[u]
  <2> HIDE DEF Modulus, INT_MAX
  <2> QED BY <1>1 DEF TypeOK
<1> HIDE DEF new, Modulus, INT_MAX
<1>5. /\ to_time' \in [Timeouts -> 0 .. Modulus - 1] /\ to_time'[t] = new
      /\ \A u \in Timeouts : u # t => to_time'[u] = to_time[u]
  BY <1>3 DEF TypeOK
<1>6. /\ to_flags' \in [Timeouts -> SUBSET {ONQUEUE, TRIGGERED}] /\ to_flags'[t] = {ONQUEUE}
      /\ \A u \in Timeouts : u # t => to_flags'[u] = to_flags[u]
  BY DEF TypeOK
<1>7. /\ armed' \in [Timeouts -> BOOLEAN] /\ armed'[t]
      /\ \A u \in Timeouts : u # t => armed'[u] = armed[u]
  BY DEF TypeOK
<1>8. TypeOK'
  BY <1>4, <1>5, <1>6, <1>7 DEF TypeOK
<1> QED BY <1>3, <1>4, <1>5, <1>6, <1>7, <1>8 DEF new

LEMMA AddInv ==
  ASSUME IInv, NEW t \in Timeouts, NEW d \in 0 .. INT_MAX, Add(t, d, d)
  PROVE  IInv'
<1> DEFINE new == (d + ticks) % Modulus
<1>1. /\ TypeOK /\ Sound(timeout_todo, timeout_wheel)
      /\ \A u \in Timeouts : TimeInv(u) /\ \A b \in Buckets : Served(u, b)
  BY DEF IInv
<1>2. /\ to_time' = [to_time EXCEPT ![t] = new]
      /\ to_flags' = [to_flags EXCEPT ![t] = {ONQUEUE}]
      /\ Enqueue(t, new)
      /\ armed' = [armed EXCEPT ![t] = TRUE] /\ left' = [left EXCEPT ![t] = d]
      /\ UNCHANGED <<ticks, softclock, requested>>
  BY DEF Add
<1> DEFINE Links == /\ Sound(timeout_todo', timeout_wheel')
                    /\ timeout_wheel' \in [Buckets -> Seq(Timeouts)]
                    /\ OnSome(timeout_todo', timeout_wheel', t)
                    /\ \A u \in Timeouts : u # t =>
                         OnSome(timeout_todo', timeout_wheel', u)
                           <=> OnSome(timeout_todo, timeout_wheel, u)
                    /\ \A u \in Timeouts : u # t => \A b \in Buckets :
                         OnQueue(timeout_wheel'[b], u) <=> OnQueue(timeout_wheel[b], u)
<1>3. ASSUME Links,
             \/ \A b \in Buckets : ~OnQueue(timeout_wheel'[b], t)
             \/ /\ \A b \in Buckets : OnQueue(timeout_wheel'[b], t) => OnQueue(timeout_wheel[b], t)
                /\ \A b \in Buckets : OnQueue(timeout_wheel[b], t) => left[t] <= d
      PROVE  IInv'
  <2>1. timeout_todo' \in Seq(Timeouts) /\ timeout_wheel' \in [Buckets -> Seq(Timeouts)]
    BY <1>3 DEF Sound
  <2>2. /\ TypeOK' /\ armed'[t] /\ ONQUEUE \in to_flags'[t] /\ left'[t] = d
        /\ to_time'[t] = (ticks' + left'[t]) % Modulus
        /\ \A u \in Timeouts : u # t =>
             /\ armed'[u] = armed[u] /\ to_flags'[u] = to_flags[u]
             /\ left'[u] = left[u] /\ to_time'[u] = to_time[u]
    BY <1>1, <1>2, <2>1, Armed
  <2>3. ASSUME NEW u \in Timeouts, u # t
        PROVE  TimeInv(u)' /\ \A b \in Buckets : Served(u, b)'
    BY <1>1, <1>2, <1>3, <2>2, <2>3 DEF TimeInv, Served
  <2>4. TimeInv(t)'
    BY <1>3, <2>2 DEF TimeInv
  <2>5. ASSUME NEW b \in Buckets, OnQueue(timeout_wheel'[b], t)
        PROVE  \E e \in 1 .. left'[t] : Serves((ticks' + e) % Modulus, b)
    <3>1. OnQueue(timeout_wheel[b], t) /\ left[t] <= d
      BY <1>3, <2>5
    <3>2. PICK e \in 1 .. left[t] : Serves((ticks + e) % Modulus, b)
      BY <1>1, <3>1 DEF Served
    <3>3. left[t] \in Int
      BY <1>1, Widths DEF TypeOK
    <3> HIDE DEF INT_MAX, Modulus
    <3>4. e \in 1 .. left'[t]
      BY <2>2, <3>1, <3>2, <3>3, Widths
    <3> QED BY <1>2, <3>2, <3>4
  <2> QED BY <1>3, <2>2, <2>3, <2>4, <2>5 DEF IInv, Served
<1>4. CASE ONQUEUE \in to_flags[t] /\ Minus(new, ticks) < Minus(to_time[t], ticks) /\ Requeue(t)
  <2> DEFINE q == RemoveFrom(timeout_todo, t)
  <2>1. /\ timeout_wheel' = [b \in Buckets |-> RemoveFrom(timeout_wheel[b], t)]
        /\ timeout_todo' = Append(q, t)
    BY <1>4 DEF Requeue
  <2>2. \A b \in Buckets : timeout_wheel'[b] = RemoveFrom(timeout_wheel[b], t)
    BY <2>1
  <2>3. /\ Sound(q, timeout_wheel')
        /\ \A x : OnQueue(q, x) <=> OnQueue(timeout_todo, x) /\ x # t
        /\ \A b \in Buckets : \A x :
             OnQueue(timeout_wheel'[b], x) <=> OnQueue(timeout_wheel[b], x) /\ x # t
    BY <1>1, <2>1, Removed
  <2> HIDE DEF q
  <2>4. ~OnSome(q, timeout_wheel', t)
    BY <2>3 DEF OnSome
  <2>5. /\ Sound(timeout_todo', timeout_wheel')
        /\ \A x : OnQueue(timeout_todo', x) <=> x = t \/ OnQueue(q, x)
    BY <2>1, <2>3, <2>4, Queued
  <2>6. timeout_wheel' \in [Buckets -> Seq(Timeouts)]
    BY <2>1, <2>2, <2>3 DEF Sound
  <2>7. Links
    BY <2>3, <2>5, <2>6 DEF OnSome
  <2> QED BY <1>3, <2>3, <2>7
<1>5. CASE /\ ONQUEUE \in to_flags[t] /\ Minus(new, ticks) >= Minus(to_time[t], ticks)
           /\ UNCHANGED <<timeout_wheel, timeout_todo>>
  <2>1. armed[t] /\ OnSome(timeout_todo, timeout_wheel, t)
        /\ to_time[t] = (ticks + left[t]) % Modulus
    BY <1>1, <1>5 DEF TimeInv
  <2>2. timeout_wheel \in [Buckets -> Seq(Timeouts)]
    BY <1>1 DEF TypeOK
  <2>3. Links
    BY <1>1, <1>5, <2>1, <2>2 DEF OnSome
  <2>4. ticks \in 0 .. Modulus - 1 /\ left[t] \in -MaxLate .. INT_MAX
    BY <1>1 DEF TypeOK
  <2>5. left[t] \in -INT_MAX .. INT_MAX /\ d \in -INT_MAX .. INT_MAX /\ d + ticks = ticks + d
    <3>1. /\ Modulus \in Nat \ {0} /\ INT_MAX \in Nat \ {0} /\ MaxLate \in 1 .. INT_MAX
      BY Widths
    <3> HIDE DEF INT_MAX, Modulus
    <3> QED BY <2>4, <3>1
  <2>6. Minus(to_time[t], ticks) = left[t]
    BY <2>1, <2>4, <2>5, Distance
  <2>7. Minus(new, ticks) = d
    BY <2>4, <2>5, Distance
  <2>8. left[t] <= d
    BY <1>5, <2>5, <2>6, <2>7, Widths
  <2> QED BY <1>3, <1>5, <2>3, <2>8
<1>6. CASE /\ ONQUEUE \notin to_flags[t]
           /\ timeout_todo' = Append(timeout_todo, t) /\ UNCHANGED timeout_wheel
  <2>1. ~OnSome(timeout_todo, timeout_wheel, t)
    BY <1>1, <1>6 DEF TimeInv
  <2>2. /\ Sound(timeout_todo', timeout_wheel)
        /\ \A x : OnQueue(timeout_todo', x) <=> x = t \/ OnQueue(timeout_todo, x)
    BY <1>1, <1>6, <2>1, Queued
  <2>3. timeout_wheel \in [Buckets -> Seq(Timeouts)]
    BY <1>1 DEF TypeOK
  <2>4. Links
    BY <1>6, <2>2, <2>3 DEF OnSome, Sound
  <2> QED BY <1>3, <1>6, <2>1, <2>4 DEF OnSome
<1> QED BY <1>2, <1>4, <1>5, <1>6 DEF Enqueue

\* The conversions never give more than an int holds.
LEMMA Clamped ==
  ASSUME NEW sec \in Nat, NEW usec \in Nat
  PROVE  TicksOf(sec, usec) \in 0 .. INT_MAX
<1>1. INT_MAX \in Nat /\ hz \in Nat \ {0} /\ tick \in Nat \ {0}
  BY Widths, TimesAssumption
<1> HIDE DEF INT_MAX
<1> DEFINE n == hz * sec + (usec \div tick)
<1>2. hz * sec \in Nat /\ usec \div tick \in Nat
  BY <1>1, Division
<1>3. n \in Nat
  BY <1>2
<1>4. TicksOf(sec, usec) = Min({n, INT_MAX})
  BY DEF TicksOf
<1> HIDE DEF n
<1>5. \E x \in {n, INT_MAX} : \A y \in {n, INT_MAX} : x <= y
  BY <1>1, <1>3
<1>6. Min({n, INT_MAX}) \in {n, INT_MAX} /\ \A y \in {n, INT_MAX} : Min({n, INT_MAX}) <= y
  BY <1>5 DEF Min
<1> QED BY <1>1, <1>3, <1>4, <1>6

LEMMA DelInv ==
  ASSUME IInv, NEW t \in Timeouts, timeout_del(t)
  PROVE  IInv'
<1>1. /\ TypeOK /\ Sound(timeout_todo, timeout_wheel)
      /\ \A u \in Timeouts : TimeInv(u) /\ \A b \in Buckets : Served(u, b)
  BY DEF IInv
<1>1a. /\ timeout_todo' = RemoveFrom(timeout_todo, t)
       /\ timeout_wheel' = [b \in Buckets |-> RemoveFrom(timeout_wheel[b], t)]
  BY DEF timeout_del
<1>2. /\ Sound(timeout_todo', timeout_wheel')
      /\ \A x : OnQueue(timeout_todo', x) <=> OnQueue(timeout_todo, x) /\ x # t
      /\ \A b \in Buckets : \A x :
           OnQueue(timeout_wheel'[b], x) <=> OnQueue(timeout_wheel[b], x) /\ x # t
  BY <1>1, <1>1a, Removed
<1>3. timeout_wheel' \in [Buckets -> Seq(Timeouts)] /\ timeout_todo' \in Seq(Timeouts)
  <2>1. \A b \in Buckets : timeout_wheel'[b] = RemoveFrom(timeout_wheel[b], t)
    BY <1>1a
  <2> QED BY <1>1a, <1>2, <2>1 DEF Sound
<1> USE DEF timeout_del
<1>4. /\ armed' \in [Timeouts -> BOOLEAN] /\ ~armed'[t]
      /\ \A u \in Timeouts : u # t => armed'[u] = armed[u]
  BY <1>1 DEF TypeOK
<1>5. /\ to_flags' \in [Timeouts -> SUBSET {ONQUEUE, TRIGGERED}] /\ to_flags'[t] = {}
      /\ \A u \in Timeouts : u # t => to_flags'[u] = to_flags[u]
  BY <1>1 DEF TypeOK
<1>6. /\ left' \in [Timeouts -> -MaxLate .. INT_MAX]
      /\ to_time' \in [Timeouts -> 0 .. Modulus - 1]
      /\ \A u \in Timeouts : u # t => left'[u] = left[u] /\ to_time'[u] = to_time[u]
  <2>1. 0 \in -MaxLate .. INT_MAX /\ 0 \in 0 .. Modulus - 1
    BY Widths
  <2> HIDE DEF INT_MAX, Modulus
  <2> QED BY <1>1, <2>1 DEF TypeOK
<1>7. TypeOK'
  BY <1>1, <1>3, <1>4, <1>5, <1>6 DEF TypeOK
<1>8. ASSUME NEW u \in Timeouts
      PROVE  TimeInv(u)' /\ \A b \in Buckets : Served(u, b)'
  <2>1. CASE u = t
    BY <1>2, <1>4, <1>5, <2>1 DEF TimeInv, OnSome, Served
  <2>2. CASE u # t
    <3>1. OnSome(timeout_todo', timeout_wheel', u) <=> OnSome(timeout_todo, timeout_wheel, u)
      BY <1>2, <2>2 DEF OnSome
    <3> QED BY <1>1, <1>2, <1>4, <1>5, <1>6, <2>2, <3>1 DEF TimeInv, Served
  <2> QED BY <2>1, <2>2
<1> QED BY <1>2, <1>7, <1>8 DEF IInv

-----------------------------------------------------------------------------
(***************************************************************************)
(* softclock.                                                              *)
(***************************************************************************)

\* While a timeout is on a list its to_time tells how far off it is.
LEMMA Remaining ==
  ASSUME IInv, NEW t \in Timeouts, armed[t]
  PROVE  Minus(to_time[t], ticks) = left[t] /\ left[t] \in -INT_MAX .. INT_MAX
<1>1. /\ ticks \in 0 .. Modulus - 1 /\ left[t] \in -MaxLate .. INT_MAX
      /\ to_time[t] = (ticks + left[t]) % Modulus
  BY DEF IInv, TypeOK, TimeInv
<1>2. left[t] \in -INT_MAX .. INT_MAX
  <2>1. /\ Modulus \in Nat \ {0} /\ INT_MAX \in Nat \ {0} /\ MaxLate \in 1 .. INT_MAX
    BY Widths
  <2> HIDE DEF INT_MAX, Modulus
  <2> QED BY <1>1, <2>1
<1> QED BY <1>1, <1>2, Distance

\* Only what is armed is on the work list.
LEMMA FirstArmed ==
  ASSUME IInv, timeout_todo # <<>>
  PROVE  Head(timeout_todo) \in Timeouts /\ armed[Head(timeout_todo)]
<1>1. Head(timeout_todo) \in Timeouts /\ OnQueue(timeout_todo, Head(timeout_todo))
  BY Taken DEF IInv
<1> QED BY <1>1 DEF IInv, TimeInv, OnSome

LEMMA SortInv ==
  ASSUME IInv, Sort
  PROVE  IInv'
<1> DEFINE t   == Head(timeout_todo)
           rel == Minus(to_time[t], ticks)
           b   == BUCKET(rel, to_time[t])
<1>1. /\ TypeOK /\ Sound(timeout_todo, timeout_wheel)
      /\ \A u \in Timeouts : TimeInv(u) /\ \A c \in Buckets : Served(u, c)
  BY DEF IInv
<1>2. /\ timeout_todo # <<>> /\ rel > 0 /\ timeout_todo' = Tail(timeout_todo)
      /\ timeout_wheel' = [timeout_wheel EXCEPT ![b] = Append(@, t)]
      /\ UNCHANGED <<ticks, to_time, to_flags, softclock, requested, armed, left>>
  BY DEF Sort, history
<1>3. t \in Timeouts /\ armed[t]
  BY <1>2, FirstArmed
<1>4. /\ Sound(Tail(timeout_todo), timeout_wheel)
      /\ ~OnSome(Tail(timeout_todo), timeout_wheel, t) /\ OnQueue(timeout_todo, t)
      /\ \A x : OnQueue(Tail(timeout_todo), x) <=> OnQueue(timeout_todo, x) /\ x # t
  BY <1>1, <1>2, Taken
<1>5. rel = left[t] /\ left[t] \in 1 .. INT_MAX
  <2>1. rel = left[t] /\ left[t] \in -INT_MAX .. INT_MAX /\ INT_MAX \in Nat
    BY <1>3, Remaining, Widths
  <2> HIDE DEF INT_MAX
  <2> QED BY <1>2, <2>1
<1> HIDE DEF t, rel
<1>6. /\ ticks \in 0 .. Modulus - 1 /\ to_time[t] = (ticks + left[t]) % Modulus
  BY <1>1, <1>3 DEF TypeOK, TimeInv
<1>7. b \in Buckets /\ \E d \in 1 .. left[t] : Serves((ticks + d) % Modulus, b)
  BY <1>5, <1>6, InTime
<1> HIDE DEF b
<1>8. timeout_wheel \in [Buckets -> Seq(Timeouts)]
  BY <1>1 DEF TypeOK
<1> DEFINE q == Tail(timeout_todo)
<1>8a. Sound(q, timeout_wheel) /\ ~OnSome(q, timeout_wheel, t) /\ timeout_todo' = q
  BY <1>2, <1>4
<1> HIDE DEF q
<1>8b. /\ timeout_wheel'[b] = Append(timeout_wheel[b], t)
       /\ \A c \in Buckets : c # b => timeout_wheel'[c] = timeout_wheel[c]
       /\ timeout_wheel' = [c \in Buckets |-> timeout_wheel'[c]]
  BY <1>2, <1>7, <1>8
<1>9. /\ Sound(q, timeout_wheel')
      /\ \A c \in Buckets : \A x :
           OnQueue(timeout_wheel'[c], x) <=> OnQueue(timeout_wheel[c], x) \/ (c = b /\ x = t)
  <2> DEFINE w == timeout_wheel'
  <2>1. w[b] = Append(timeout_wheel[b], t) /\ \A c \in Buckets : c # b => w[c] = timeout_wheel[c]
    BY <1>8b
  <2>2. t \in Timeouts /\ b \in Buckets
    BY <1>3, <1>7
  <2> HIDE DEF w
  <2>3. /\ Sound(q, w)
        /\ \A c \in Buckets : \A x :
             OnQueue(w[c], x) <=> OnQueue(timeout_wheel[c], x) \/ (c = b /\ x = t)
    BY <1>8a, <2>1, <2>2, Sorted
  <2> QED BY <2>3 DEF w
<1>9a. timeout_wheel' \in [Buckets -> Seq(Timeouts)]
  BY <1>8b, <1>9 DEF Sound
<1>10. TypeOK'
  BY <1>1, <1>2, <1>8a, <1>9, <1>9a DEF TypeOK, Sound
<1>11. ASSUME NEW u \in Timeouts
       PROVE  TimeInv(u)' /\ \A c \in Buckets : Served(u, c)'
  <2>1. OnSome(timeout_todo', timeout_wheel', u) <=> OnSome(timeout_todo, timeout_wheel, u)
    BY <1>2, <1>4, <1>7, <1>9 DEF OnSome
  <2>2. TimeInv(u)'
    BY <1>1, <1>2, <2>1 DEF TimeInv
  <2>3. \A c \in Buckets : Served(u, c)'
    BY <1>1, <1>2, <1>7, <1>9 DEF Served
  <2> QED BY <2>2, <2>3
<1> QED BY <1>8a, <1>9, <1>10, <1>11 DEF IInv

LEMMA CallInv ==
  ASSUME IInv, Call
  PROVE  IInv'
<1> DEFINE t == Head(timeout_todo)
<1>1. /\ TypeOK /\ Sound(timeout_todo, timeout_wheel)
      /\ \A u \in Timeouts : TimeInv(u) /\ \A c \in Buckets : Served(u, c)
  BY DEF IInv
<1>2. /\ timeout_todo # <<>> /\ timeout_todo' = Tail(timeout_todo)
      /\ to_flags' = [to_flags EXCEPT ![t] = {TRIGGERED}]
      /\ softclock' = "calling"
      /\ armed' = [armed EXCEPT ![t] = FALSE]
      /\ left' = [left EXCEPT ![t] = 0]
      /\ to_time' = [to_time EXCEPT ![t] = 0]
      /\ UNCHANGED <<ticks, timeout_wheel, requested>>
  BY DEF Call
<1>3. /\ Sound(Tail(timeout_todo), timeout_wheel) /\ t \in Timeouts
      /\ ~OnSome(Tail(timeout_todo), timeout_wheel, t)
      /\ \A x : OnQueue(Tail(timeout_todo), x) <=> OnQueue(timeout_todo, x) /\ x # t
  BY <1>1, <1>2, Taken
<1>4. /\ Sound(timeout_todo', timeout_wheel')
      /\ ~OnSome(timeout_todo', timeout_wheel', t)
      /\ \A x : OnQueue(timeout_todo', x) <=> OnQueue(timeout_todo, x) /\ x # t
  BY <1>2, <1>3
<1> HIDE DEF t
<1>5. /\ armed' \in [Timeouts -> BOOLEAN] /\ ~armed'[t]
      /\ \A u \in Timeouts : u # t => armed'[u] = armed[u]
  BY <1>1, <1>2, <1>3 DEF TypeOK
<1>6. /\ to_flags' \in [Timeouts -> SUBSET {ONQUEUE, TRIGGERED}] /\ to_flags'[t] = {TRIGGERED}
      /\ \A u \in Timeouts : u # t => to_flags'[u] = to_flags[u]
  BY <1>1, <1>2, <1>3 DEF TypeOK
<1>7. /\ left' \in [Timeouts -> -MaxLate .. INT_MAX]
      /\ to_time' \in [Timeouts -> 0 .. Modulus - 1]
      /\ \A u \in Timeouts : u # t => left'[u] = left[u] /\ to_time'[u] = to_time[u]
  <2>1. 0 \in -MaxLate .. INT_MAX /\ 0 \in 0 .. Modulus - 1
    BY Widths
  <2> HIDE DEF INT_MAX, Modulus
  <2> QED BY <1>1, <1>2, <1>3, <2>1 DEF TypeOK
<1>8. TypeOK'
  BY <1>1, <1>2, <1>4, <1>5, <1>6, <1>7 DEF TypeOK, Sound
<1>9. ASSUME NEW u \in Timeouts
      PROVE  TimeInv(u)' /\ \A c \in Buckets : Served(u, c)'
  <2>1. CASE u = t
    <3>1. ONQUEUE \notin to_flags'[t]
      BY <1>6 DEF ONQUEUE, TRIGGERED
    <3> QED BY <1>4, <1>5, <2>1, <3>1 DEF TimeInv, OnSome, Served
  <2>2. CASE u # t
    <3>1. OnSome(timeout_todo', timeout_wheel', u) <=> OnSome(timeout_todo, timeout_wheel, u)
      BY <1>2, <1>4, <2>2 DEF OnSome
    <3> QED BY <1>1, <1>2, <1>5, <1>6, <1>7, <2>2, <3>1 DEF TimeInv, Served
  <2> QED BY <2>1, <2>2
<1> QED BY <1>4, <1>8, <1>9 DEF IInv

-----------------------------------------------------------------------------
(***************************************************************************)
(* hardclock.                                                              *)
(***************************************************************************)

\* The four calls of MOVEBUCKET, each for a bucket of its own wheel.
LEMMA Cascade ==
  ASSUME NEW todo, NEW wheel, Sound(todo, wheel),
         NEW b0 \in Buckets, NEW b1 \in Buckets, NEW b2 \in Buckets, NEW b3 \in Buckets,
         b0 # b1, b0 # b2, b0 # b3, b1 # b2, b1 # b3, b2 # b3,
         NEW M,
         NEW w, \A c \in Buckets :
           w[c] = IF (0 \in M /\ c = b0) \/ (1 \in M /\ c = b1) \/ (2 \in M /\ c = b2) \/ (3 \in M /\ c = b3)
                  THEN <<>> ELSE wheel[c]
  PROVE  LET q == todo \o (IF 0 \in M THEN wheel[b0] ELSE <<>>) \o (IF 1 \in M THEN wheel[b1] ELSE <<>>)
                       \o (IF 2 \in M THEN wheel[b2] ELSE <<>>) \o (IF 3 \in M THEN wheel[b3] ELSE <<>>)
         IN /\ Sound(q, w)
            /\ \A x : OnQueue(q, x) <=> \/ OnQueue(todo, x)
                                       \/ (0 \in M /\ OnQueue(wheel[b0], x))
                                       \/ (1 \in M /\ OnQueue(wheel[b1], x))
                                       \/ (2 \in M /\ OnQueue(wheel[b2], x))
                                       \/ (3 \in M /\ OnQueue(wheel[b3], x))
<1> DEFINE w1 == [c \in Buckets |-> IF (0 \in M /\ c = b0) THEN <<>> ELSE wheel[c]]
           w2 == [c \in Buckets |-> IF (1 \in M /\ c = b1) THEN <<>> ELSE w1[c]]
           w3 == [c \in Buckets |-> IF (2 \in M /\ c = b2) THEN <<>> ELSE w2[c]]
           q1 == todo \o (IF 0 \in M THEN wheel[b0] ELSE <<>>)
           q2 == q1 \o (IF 1 \in M THEN wheel[b1] ELSE <<>>)
           q3 == q2 \o (IF 2 \in M THEN wheel[b2] ELSE <<>>)
           q4 == q3 \o (IF 3 \in M THEN wheel[b3] ELSE <<>>)
<1>1. \A c \in Buckets : w1[c] = IF (0 \in M /\ c = b0) THEN <<>> ELSE wheel[c]
  OBVIOUS
<1>2. \A c \in Buckets : w2[c] = IF (1 \in M /\ c = b1) THEN <<>> ELSE w1[c]
  OBVIOUS
<1>3. \A c \in Buckets : w3[c] = IF (2 \in M /\ c = b2) THEN <<>> ELSE w2[c]
  OBVIOUS
<1> HIDE DEF w1, w2, w3
<1>4. \A c \in Buckets : w[c] = IF (3 \in M /\ c = b3) THEN <<>> ELSE w3[c]
  BY <1>1, <1>2, <1>3
<1>5. w1[b1] = wheel[b1] /\ w2[b2] = wheel[b2] /\ w3[b3] = wheel[b3]
  BY <1>1, <1>2, <1>3
<1>6. /\ Sound(q1, w1)
      /\ \A x : OnQueue(q1, x) <=> OnQueue(todo, x) \/ (0 \in M /\ OnQueue(wheel[b0], x))
  BY <1>1, MovedOne
<1> HIDE DEF q1
<1>7. /\ Sound(q2, w2)
      /\ \A x : OnQueue(q2, x) <=> OnQueue(q1, x) \/ (1 \in M /\ OnQueue(wheel[b1], x))
  <2>1. /\ Sound(q1 \o (IF 1 \in M THEN w1[b1] ELSE <<>>), w2)
        /\ \A x : OnQueue(q1 \o (IF 1 \in M THEN w1[b1] ELSE <<>>), x)
                   <=> OnQueue(q1, x) \/ (1 \in M /\ OnQueue(w1[b1], x))
    BY <1>2, <1>6, MovedOne
  <2> QED BY <1>5, <2>1
<1> HIDE DEF q2
<1>8. /\ Sound(q3, w3)
      /\ \A x : OnQueue(q3, x) <=> OnQueue(q2, x) \/ (2 \in M /\ OnQueue(wheel[b2], x))
  <2>1. /\ Sound(q2 \o (IF 2 \in M THEN w2[b2] ELSE <<>>), w3)
        /\ \A x : OnQueue(q2 \o (IF 2 \in M THEN w2[b2] ELSE <<>>), x)
                   <=> OnQueue(q2, x) \/ (2 \in M /\ OnQueue(w2[b2], x))
    BY <1>3, <1>7, MovedOne
  <2> QED BY <1>5, <2>1
<1> HIDE DEF q3
<1>9. /\ Sound(q4, w)
      /\ \A x : OnQueue(q4, x) <=> OnQueue(q3, x) \/ (3 \in M /\ OnQueue(wheel[b3], x))
  <2>1. /\ Sound(q3 \o (IF 3 \in M THEN w3[b3] ELSE <<>>), w)
        /\ \A x : OnQueue(q3 \o (IF 3 \in M THEN w3[b3] ELSE <<>>), x)
                   <=> OnQueue(q3, x) \/ (3 \in M /\ OnQueue(w3[b3], x))
    BY <1>4, <1>8, MovedOne
  <2> QED BY <1>5, <2>1
<1> HIDE DEF q4
<1>10. \A x : OnQueue(q4, x) <=> \/ OnQueue(todo, x)
                                \/ (0 \in M /\ OnQueue(wheel[b0], x))
                                \/ (1 \in M /\ OnQueue(wheel[b1], x))
                                \/ (2 \in M /\ OnQueue(wheel[b2], x))
                                \/ (3 \in M /\ OnQueue(wheel[b3], x))
  BY <1>6, <1>7, <1>8, <1>9
<1> QED BY <1>9, <1>10 DEF q1, q2, q3, q4

\* What hardclock does to the lists.
LEMMA Ticked ==
  ASSUME IInv, hardclock
  PROVE  /\ NextTick \in 0 .. Modulus - 1
         /\ Sound(timeout_todo', timeout_wheel')
         /\ timeout_wheel' \in [Buckets -> Seq(Timeouts)]
         /\ \A x : OnQueue(timeout_todo', x) <=>
              \/ OnQueue(timeout_todo, x)
              \/ \E c \in Buckets : Serves(NextTick, c) /\ OnQueue(timeout_wheel[c], x)
         /\ \A c \in Buckets : \A x : OnQueue(timeout_wheel'[c], x) <=>
              OnQueue(timeout_wheel[c], x) /\ ~Serves(NextTick, c)
<1> DEFINE now == NextTick
           part(w) == IF w \in Moved(now) THEN timeout_wheel[Current(w, now)] ELSE <<>>
<1>1. ticks \in 0 .. Modulus - 1 /\ Sound(timeout_todo, timeout_wheel)
  BY DEF IInv, TypeOK
<1>2. /\ timeout_todo' = timeout_todo \o part(0) \o part(1) \o part(2) \o part(3)
      /\ timeout_wheel' = [c \in Buckets |-> IF Serves(now, c) THEN <<>> ELSE timeout_wheel[c]]
  BY DEF hardclock, Serves
<1>3. now \in 0 .. Modulus - 1 /\ now \in Nat
  <2>1. /\ Modulus \in Nat \ {0} /\ INT_MAX \in Nat \ {0} /\ Modulus = 2 * INT_MAX + 2
    BY Widths
  <2> HIDE DEF Modulus, INT_MAX
  <2> QED BY <1>1, <2>1 DEF NextTick
<1> HIDE DEF now
<1> DEFINE b0 == Current(0, now)
           b1 == Current(1, now)
           b2 == Current(2, now)
           b3 == Current(3, now)
           M  == Moved(now)
<1>4. /\ b0 \in Buckets /\ b1 \in Buckets /\ b2 \in Buckets /\ b3 \in Buckets
      /\ b0 # b1 /\ b0 # b2 /\ b0 # b3 /\ b1 # b2 /\ b1 # b3 /\ b2 # b3
  <2>1. \A v, w \in 0 .. 3 : Current(w, now) \in Buckets /\ (Current(w, now) = Current(v, now) => v = w)
    BY <1>3, Positions
  <2> QED BY <2>1
<1>6. timeout_todo' = timeout_todo \o (IF 0 \in M THEN timeout_wheel[b0] ELSE <<>>)
                       \o (IF 1 \in M THEN timeout_wheel[b1] ELSE <<>>)
                       \o (IF 2 \in M THEN timeout_wheel[b2] ELSE <<>>)
                       \o (IF 3 \in M THEN timeout_wheel[b3] ELSE <<>>)
  BY <1>2
<1>7. \A c : Serves(now, c) <=> (0 \in M /\ c = b0) \/ (1 \in M /\ c = b1) \/ (2 \in M /\ c = b2) \/ (3 \in M /\ c = b3)
  <2>1. \A w : w \in Moved(now) => w \in {0, 1, 2, 3}
    BY DEF Moved
  <2> QED BY <2>1 DEF Serves
<1> HIDE DEF b0, b1, b2, b3, M
<1>8. \A c \in Buckets : timeout_wheel'[c] =
        IF (0 \in M /\ c = b0) \/ (1 \in M /\ c = b1) \/ (2 \in M /\ c = b2) \/ (3 \in M /\ c = b3)
        THEN <<>> ELSE timeout_wheel[c]
  BY <1>2, <1>7
<1> DEFINE q == timeout_todo'
           w == timeout_wheel'
<1>9. /\ Sound(q, w)
      /\ \A x : OnQueue(q, x) <=> \/ OnQueue(timeout_todo, x)
                                 \/ (0 \in M /\ OnQueue(timeout_wheel[b0], x))
                                 \/ (1 \in M /\ OnQueue(timeout_wheel[b1], x))
                                 \/ (2 \in M /\ OnQueue(timeout_wheel[b2], x))
                                 \/ (3 \in M /\ OnQueue(timeout_wheel[b3], x))
  BY <1>1, <1>4, <1>6, <1>8, Cascade
<1>10. \A c \in Buckets : timeout_wheel'[c] = IF Serves(now, c) THEN <<>> ELSE timeout_wheel[c]
  BY <1>2
<1>11. \A c \in Buckets : \A x : OnQueue(timeout_wheel'[c], x) <=>
              OnQueue(timeout_wheel[c], x) /\ ~Serves(now, c)
  <2>1. \A x : ~OnQueue(<<>>, x)
    BY DEF OnQueue
  <2> QED BY <1>10, <2>1
<1>12. timeout_wheel' \in [Buckets -> Seq(Timeouts)]
  BY <1>2, <1>9, <1>10 DEF Sound
<1>13. \A x : OnQueue(timeout_todo', x) <=>
              \/ OnQueue(timeout_todo, x)
              \/ \E c \in Buckets : Serves(now, c) /\ OnQueue(timeout_wheel[c], x)
  BY <1>4, <1>7, <1>9
<1> QED BY <1>3, <1>9, <1>11, <1>12, <1>13 DEF now

LEMMA HardclockInv ==
  ASSUME IInv, hardclock
  PROVE  IInv'
<1>1. /\ TypeOK
      /\ \A u \in Timeouts : TimeInv(u) /\ \A b \in Buckets : Served(u, b)
  BY DEF IInv
<1> DEFINE now == NextTick
<1>2. /\ now \in 0 .. Modulus - 1
      /\ Sound(timeout_todo', timeout_wheel')
      /\ timeout_wheel' \in [Buckets -> Seq(Timeouts)]
      /\ \A x : OnQueue(timeout_todo', x) <=>
           \/ OnQueue(timeout_todo, x)
           \/ \E c \in Buckets : Serves(now, c) /\ OnQueue(timeout_wheel[c], x)
      /\ \A c \in Buckets : \A x : OnQueue(timeout_wheel'[c], x) <=>
           OnQueue(timeout_wheel[c], x) /\ ~Serves(now, c)
  BY Ticked
<1>3. /\ ticks' = now /\ \A t \in Timeouts : armed[t] => left[t] > -MaxLate
      /\ requested' = (requested \/ NeedSoftclock(timeout_todo'))
      /\ left' = [t \in Timeouts |-> IF armed[t] THEN left[t] - 1 ELSE 0]
      /\ UNCHANGED <<to_time, to_flags, softclock, armed>>
  BY DEF hardclock
<1>4. now = (ticks + 1) % Modulus
  BY DEF NextTick
<1> HIDE DEF now
<1>5. ASSUME NEW t \in Timeouts, armed[t]
      PROVE  /\ left'[t] = left[t] - 1 /\ left[t] \in -INT_MAX .. INT_MAX
             /\ left'[t] \in -MaxLate .. INT_MAX
  <2>1. /\ left'[t] = left[t] - 1 /\ left[t] \in -MaxLate .. INT_MAX /\ left[t] > -MaxLate
    BY <1>1, <1>3, <1>5 DEF TypeOK
  <2>2. INT_MAX \in Nat \ {0} /\ MaxLate \in 1 .. INT_MAX
    BY Widths
  <2> HIDE DEF INT_MAX
  <2> QED BY <2>1, <2>2
<1>6. left' \in [Timeouts -> -MaxLate .. INT_MAX]
  <2>1. 0 \in -MaxLate .. INT_MAX
    BY Widths
  <2>2. \A t \in Timeouts : ~armed[t] => left'[t] = 0
    BY <1>3
  <2>3. \A t \in Timeouts : left'[t] \in -MaxLate .. INT_MAX
    BY <1>5, <2>1, <2>2
  <2> HIDE DEF INT_MAX
  <2> QED BY <1>3, <2>3
<1>7. requested' \in BOOLEAN
  BY <1>3
<1>8. TypeOK'
  BY <1>1, <1>2, <1>3, <1>6, <1>7 DEF TypeOK, Sound
<1>9. ASSUME NEW t \in Timeouts
      PROVE  OnSome(timeout_todo', timeout_wheel', t) <=> OnSome(timeout_todo, timeout_wheel, t)
  BY <1>2 DEF OnSome
<1>10. ASSUME NEW t \in Timeouts
       PROVE  TimeInv(t)'
  <2>1. armed[t] => (ticks' + left'[t]) % Modulus = (ticks + left[t]) % Modulus
    <3> HAVE armed[t]
    <3>1. ticks \in 0 .. Modulus - 1
      BY <1>1 DEF TypeOK
    <3>2. (((ticks + 1) % Modulus) + (left[t] - 1)) % Modulus = (ticks + left[t]) % Modulus
      BY <1>5, <3>1, OneTick
    <3> QED BY <1>3, <1>4, <1>5, <3>2
  <2> QED BY <1>1, <1>3, <1>9, <2>1 DEF TimeInv
<1>11. ASSUME NEW t \in Timeouts, NEW b \in Buckets, OnQueue(timeout_wheel'[b], t)
       PROVE  \E d \in 1 .. left'[t] : Serves((ticks' + d) % Modulus, b)
  <2>1. OnQueue(timeout_wheel[b], t) /\ ~Serves(now, b)
    BY <1>2, <1>11
  <2>2. armed[t]
    BY <1>1, <2>1 DEF TimeInv, OnSome
  <2>3. PICK d \in 1 .. left[t] : Serves((ticks + d) % Modulus, b)
    BY <1>1, <2>1 DEF Served
  <2>4. ticks \in 0 .. Modulus - 1 /\ left[t] \in -INT_MAX .. INT_MAX /\ left'[t] = left[t] - 1
    BY <1>1, <1>5, <2>2 DEF TypeOK
  <2>5. d # 1
    BY <1>4, <2>1, <2>3
  <2>6. INT_MAX \in Nat \ {0}
    BY Widths
  <2>7. d - 1 \in 1 .. left'[t] /\ d \in -INT_MAX .. INT_MAX
    <3> HIDE DEF INT_MAX, Modulus
    <3> QED BY <2>3, <2>4, <2>5, <2>6
  <2>8. (((ticks + 1) % Modulus) + (d - 1)) % Modulus = (ticks + d) % Modulus
    BY <2>4, <2>7, OneTick
  <2>9. Serves((ticks' + (d - 1)) % Modulus, b)
    BY <1>3, <1>4, <2>3, <2>8
  <2> QED BY <2>7, <2>9
<1> QED BY <1>2, <1>8, <1>10, <1>11 DEF IInv, Served

-----------------------------------------------------------------------------
(***************************************************************************)
(* The theorems.                                                           *)
(***************************************************************************)

LEMMA InitInv == Init => IInv
<1> SUFFICES ASSUME Init PROVE IInv
  OBVIOUS
<1> USE DEF Init
<1>1. 0 \in 0 .. Modulus - 1 /\ 0 \in -MaxLate .. INT_MAX
  BY Widths
<1>2. \A b \in Buckets : timeout_wheel[b] = <<>>
  OBVIOUS
<1>3. TypeOK
  <2> HIDE DEF Modulus, INT_MAX, Buckets
  <2>1. /\ ticks \in 0 .. Modulus - 1 /\ to_time \in [Timeouts -> 0 .. Modulus - 1]
        /\ left \in [Timeouts -> -MaxLate .. INT_MAX]
    BY <1>1
  <2>2. timeout_wheel \in [Buckets -> Seq(Timeouts)] /\ timeout_todo \in Seq(Timeouts)
    OBVIOUS
  <2>3. /\ to_flags \in [Timeouts -> SUBSET {ONQUEUE, TRIGGERED}]
        /\ armed \in [Timeouts -> BOOLEAN]
    OBVIOUS
  <2> QED BY <2>1, <2>2, <2>3 DEF TypeOK
<1>4. Distinct(<<>>) /\ \A x : ~OnQueue(<<>>, x)
  BY DEF Distinct, OnQueue
<1>5. Sound(timeout_todo, timeout_wheel)
  BY <1>2, <1>4 DEF Sound
<1>6. \A t \in Timeouts : TimeInv(t) /\ \A b \in Buckets : Served(t, b)
  BY <1>2, <1>4 DEF TimeInv, OnSome, Served
<1> QED BY <1>3, <1>5, <1>6 DEF IInv

\* Steps that touch neither lists nor times.
LEMMA Apart ==
  ASSUME IInv, softclock' \in {"idle", "sorting", "calling"}, requested' \in BOOLEAN,
         UNCHANGED <<ticks, to_time, to_flags, timeout_wheel, timeout_todo, armed, left>>
  PROVE  IInv'
<1>1. /\ TypeOK /\ Sound(timeout_todo, timeout_wheel)
      /\ \A u \in Timeouts : TimeInv(u) /\ \A b \in Buckets : Served(u, b)
  BY DEF IInv
<1>2. TypeOK'
  BY <1>1 DEF TypeOK
<1>3. \A u \in Timeouts : TimeInv(u)' /\ \A b \in Buckets : Served(u, b)'
  BY <1>1 DEF TimeInv, Served
<1> QED BY <1>1, <1>2, <1>3 DEF IInv

LEMMA NextInv ==
  ASSUME IInv, [Next]_vars
  PROVE  IInv'
<1>0. softclock \in {"idle", "sorting", "calling"} /\ requested \in BOOLEAN
  BY DEF IInv, TypeOK
<1>1. ASSUME NEW t \in Timeouts, Set(t) PROVE IInv'
  BY <1>1, SetInv
<1>2. ASSUME NEW t \in Timeouts, timeout_add(t) PROVE IInv'
  <2>1. PICK d \in Delays[t] : Add(t, d, d)
    BY <1>2 DEF timeout_add
  <2>2. d \in 0 .. INT_MAX
    BY DelaysAssumption
  <2> QED BY <2>1, <2>2, AddInv
<1>3. ASSUME NEW t \in Timeouts, timeout_add_tv(t) PROVE IInv'
  <2>1. PICK p \in Times[t] : Add(t, TicksOf(p[1], p[2]), TicksOf(p[1], p[2]))
    BY <1>3 DEF timeout_add_tv, TicksOf
  <2>2. p[1] \in Nat /\ p[2] \in Nat
    BY TimesAssumption
  <2> DEFINE d == TicksOf(p[1], p[2])
  <2>3. d \in 0 .. INT_MAX /\ Add(t, d, d)
    BY <2>1, <2>2, Clamped
  <2> HIDE DEF d
  <2> QED BY <2>3, AddInv
<1>4. ASSUME NEW t \in Timeouts, timeout_del(t) PROVE IInv'
  BY <1>4, DelInv
<1>5. CASE Begin
  BY <1>0, <1>5, Apart DEF Begin, history
<1>6. CASE Return
  BY <1>0, <1>6, Apart DEF Return, history
<1>7. CASE Finish
  BY <1>0, <1>7, Apart DEF Finish, history
<1>8. CASE UNCHANGED vars
  BY <1>0, <1>8, Apart DEF vars
<1> QED BY <1>1, <1>2, <1>3, <1>4, <1>5, <1>6, <1>7, <1>8, HardclockInv, SortInv, CallInv
        DEF Next

LEMMA Invariant == Spec => []IInv
<1>1. IInv /\ [Next]_vars => IInv'
  BY NextInv
<1> QED BY InitInv, <1>1, PTL DEF Spec

\* Every variable keeps its type: ticks and to_time stay ints, however often
\* they wrap, and every list a sequence of timeouts.
THEOREM TypeCorrect == Spec => []TypeOK
<1>1. IInv => TypeOK
  BY DEF IInv
<1> QED BY <1>1, Invariant, PTL

\* TIMEOUT_ONQUEUE tells the truth: who has it is on exactly one of the
\* wheels' buckets and the work list, and once, anyone else on none.  So the
\* unlinking by the flag alone in timeout_add and timeout_del is right.
THEOREM FlagsTellLists == Spec => []FlagTellsList
<1>1. IInv => FlagTellsList
  <2> SUFFICES ASSUME IInv, NEW t \in Timeouts
               PROVE  /\ IF ONQUEUE \in to_flags[t] THEN \E pl \in Places(t) : Places(t) = {pl}
                                                    ELSE Places(t) = {}
                      /\ armed[t] <=> ONQUEUE \in to_flags[t]
    BY DEF FlagTellsList
  <2> DEFINE In(q) == {i \in DOMAIN q : q[i] = t}
  <2>1. Sound(timeout_todo, timeout_wheel) /\ TimeInv(t)
    BY DEF IInv
  <2>2. Places(t) = ({-1} \X In(timeout_todo)) \union
                    UNION {{b} \X In(timeout_wheel[b]) : b \in Buckets}
    BY DEF Places
  <2>3. \A q : OnQueue(q, t) <=> In(q) # {}
    BY DEF OnQueue
  <2>4. \A q : Distinct(q) => \A i, j \in In(q) : i = j
    BY DEF Distinct
  <2>5. \A pl : pl \in Places(t) <=>
          \/ \E i \in In(timeout_todo) : pl = <<-1, i>>
          \/ \E b \in Buckets : \E i \in In(timeout_wheel[b]) : pl = <<b, i>>
    BY <2>2
  <2> HIDE DEF In
  <2>6. CASE ONQUEUE \notin to_flags[t]
    <3>1. ~OnSome(timeout_todo, timeout_wheel, t)
      BY <2>1, <2>6 DEF TimeInv
    <3>2. In(timeout_todo) = {} /\ \A b \in Buckets : In(timeout_wheel[b]) = {}
      BY <2>3, <3>1 DEF OnSome
    <3>3. Places(t) = {}
      BY <2>5, <3>2
    <3> QED BY <2>1, <2>6, <3>3 DEF TimeInv
  <2>7. CASE ONQUEUE \in to_flags[t]
    <3>1. armed[t] /\ OnSome(timeout_todo, timeout_wheel, t)
      BY <2>1, <2>7 DEF TimeInv
    <3>2. CASE OnQueue(timeout_todo, t)
      <4>1. PICK i : i \in In(timeout_todo)
        BY <2>3, <3>2
      <4>2. \A b \in Buckets : In(timeout_wheel[b]) = {}
        BY <2>1, <2>3, <3>2 DEF Sound
      <4>3. \A j \in In(timeout_todo) : j = i
        BY <2>1, <2>4, <4>1 DEF Sound
      <4>4. \A pl : pl \in Places(t) <=> pl = <<-1, i>>
        BY <2>5, <4>1, <4>2, <4>3
      <4> DEFINE one == <<-1, i>>
      <4> HIDE DEF one
      <4>6. one \in Places(t) /\ Places(t) = {one}
        BY <4>4 DEF one
      <4> QED BY <2>7, <3>1, <4>6
    <3>3. CASE \E b \in Buckets : OnQueue(timeout_wheel[b], t)
      <4>1. PICK b \in Buckets : OnQueue(timeout_wheel[b], t)
        BY <3>3
      <4>2. PICK i : i \in In(timeout_wheel[b])
        BY <2>3, <4>1
      <4>3. In(timeout_todo) = {} /\ \A c \in Buckets : c # b => In(timeout_wheel[c]) = {}
        BY <2>1, <2>3, <4>1 DEF Sound
      <4>4. \A j \in In(timeout_wheel[b]) : j = i
        BY <2>1, <2>4, <4>2 DEF Sound
      <4>5. \A pl : pl \in Places(t) <=> pl = <<b, i>>
        BY <2>5, <4>2, <4>3, <4>4
      <4> DEFINE one == <<b, i>>
      <4> HIDE DEF one
      <4>6. one \in Places(t) /\ Places(t) = {one}
        BY <4>5 DEF one
      <4> QED BY <2>7, <3>1, <4>6
    <3> QED BY <3>1, <3>2, <3>3 DEF OnSome
  <2> QED BY <2>6, <2>7
<1> QED BY <1>1, Invariant, PTL

\* timeout_hardclock_update looks at no to_time, and still whatever is due is
\* on the work list: the bucket BUCKET chose has been moved by then.
THEOREM DueOnTodo == Spec => []DueIsOnTodo
<1>1. IInv => DueIsOnTodo
  <2> SUFFICES ASSUME IInv, NEW t \in Timeouts, armed[t], left[t] <= 0
               PROVE  OnQueue(timeout_todo, t)
    BY DEF DueIsOnTodo
  <2>1. left[t] \in Int
    BY Widths DEF IInv, TypeOK
  <2>2. \A b \in Buckets : ~OnQueue(timeout_wheel[b], t)
    BY <2>1 DEF IInv, Served
  <2> QED BY <2>2 DEF IInv, TimeInv, OnSome
<1> QED BY <1>1, Invariant, PTL

\* softclock runs only what is armed, and not before its time, although the
\* comparison is between ints that wrap.
THEOREM NothingRunsEarly == Spec => NeverEarly
<1>1. ASSUME IInv, [Next]_vars
      PROVE  [\A t \in Timeouts : (Call /\ t = Head(timeout_todo)) => armed[t] /\ left[t] <= 0]_vars
  <2> SUFFICES ASSUME NEW t \in Timeouts, Call, t = Head(timeout_todo)
               PROVE  armed[t] /\ left[t] <= 0
    OBVIOUS
  <2>1. timeout_todo # <<>> /\ Minus(to_time[t], ticks) <= 0
    BY DEF Call
  <2>2. armed[t]
    BY <1>1, <2>1, FirstArmed
  <2>3. Minus(to_time[t], ticks) = left[t]
    BY <1>1, <2>2, Remaining
  <2> QED BY <2>1, <2>2, <2>3
<1>2. IInv /\ [Next]_vars =>
        [\A t \in Timeouts : (Call /\ t = Head(timeout_todo)) => armed[t] /\ left[t] <= 0]_vars
  BY <1>1
<1> QED BY <1>2, Invariant, PTL DEF Spec, NeverEarly
=============================================================================
