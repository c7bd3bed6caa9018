------------------------------ MODULE Timeout ------------------------------
(***************************************************************************)
(* The timeouts of sys/kern/kern_timeout.c: four wheels of buckets, the    *)
(* work list timeout_todo, hardclock, softclock, and the callers of        *)
(* timeout_add and timeout_del.                                            *)
(*                                                                         *)
(* The code's int has 32 bits and each of the four wheels WHEELSIZE = 2^8  *)
(* buckets; here both widths are parameters, so that every shift, mask,    *)
(* bound and wrap of an int is the code's own at a smaller width.  What    *)
(* the code needs of them is that the last wheel reaches as far as         *)
(* INT_MAX.  An int is held as its residue modulo Modulus.                 *)
(*                                                                         *)
(* The to_time of a timeout that is on no list is never read, and is 0     *)
(* here.                                                                   *)
(*                                                                         *)
(* Everything is done under timeout_mutex, so a caller's operation is one  *)
(* step.  softclock keeps the mutex while it sorts the work list and drops *)
(* it around the call of the timeout's function.                           *)
(***************************************************************************)
EXTENDS Integers, Sequences, FiniteSets, FiniteSetsExt, Queues

CONSTANTS
  Timeouts,   \* the timeout structures
  WHEELBITS,  \* 8 in the code
  INTBITS,    \* 32 in the code
  Delays,     \* arguments of timeout_add, for each timeout
  hz,         \* ticks in a second
  tick,       \* microseconds in a tick
  Times,      \* seconds and microseconds given to timeout_add_tv and its
              \* kin, for each timeout
  MaxLate     \* softclock is never held off for more ticks than this

WHEELSIZE == 2^WHEELBITS
Modulus   == 2^INTBITS
INT_MAX   == Modulus \div 2 - 1

\* An int holds the position in the last wheel, and at most twice the ticks
\* of its whole turn.  (The rest follows from the definitions.)
ASSUME WheelAssumption ==
  /\ WHEELBITS \in Nat \ {0}
  /\ INTBITS \in 4 * WHEELBITS .. 4 * WHEELBITS + 1
  /\ WHEELSIZE \in Nat \ {0} /\ Modulus \in Nat /\ Modulus % 2 = 0

ASSUME DelaysAssumption == Delays \in [Timeouts -> SUBSET (0 .. INT_MAX)]

ASSUME TimesAssumption ==
  /\ DOMAIN Times = Timeouts
  /\ \A t \in Timeouts : Times[t] \subseteq Nat \X Nat
  /\ hz \in Nat \ {0}
  /\ tick \in Nat \ {0}

ASSUME MaxLateAssumption == MaxLate \in 1 .. INT_MAX

VARIABLES
  ticks,
  to_time,
  to_flags,       \* TIMEOUT_ONQUEUE and TIMEOUT_TRIGGERED
  timeout_wheel,
  timeout_todo,
  softclock,      \* "idle", "sorting" (it has the mutex) or "calling"
  requested,      \* hardclock asked for a softclock that has not begun
  \* History: the caller's side of the bargain.
  armed,          \* added, and neither deleted nor run since
  left            \* ticks from now to the time asked for, when armed

vars == <<ticks, to_time, to_flags, timeout_wheel, timeout_todo, softclock,
          requested, armed, left>>

history == <<armed, left>>

ONQUEUE   == "ONQUEUE"
TRIGGERED == "TRIGGERED"
Buckets   == 0 .. 4 * WHEELSIZE - 1

TypeOK ==
  /\ ticks \in 0 .. Modulus - 1
  /\ to_time \in [Timeouts -> 0 .. Modulus - 1]
  /\ to_flags \in [Timeouts -> SUBSET {ONQUEUE, TRIGGERED}]
  /\ timeout_wheel \in [Buckets -> Seq(Timeouts)]
  /\ timeout_todo \in Seq(Timeouts)
  /\ softclock \in {"idle", "sorting", "calling"}
  /\ requested \in BOOLEAN
  /\ armed \in [Timeouts -> BOOLEAN]
  /\ left \in [Timeouts -> -MaxLate .. INT_MAX]

\* timeout_startup, with every timeout prepared by timeout_set.
Init ==
  /\ ticks = 0
  /\ to_time = [t \in Timeouts |-> 0]
  /\ to_flags = [t \in Timeouts |-> {}]
  /\ timeout_wheel = [b \in Buckets |-> <<>>]
  /\ timeout_todo = <<>>
  /\ softclock = "idle"
  /\ requested = FALSE
  /\ armed = [t \in Timeouts |-> FALSE]
  /\ left = [t \in Timeouts |-> 0]

-----------------------------------------------------------------------------
(***************************************************************************)
(* Arithmetic on ints, and the macros.                                     *)
(***************************************************************************)

\* Times compared as they are, without regard to their wrapping.
MinusNaive(a, b) == a - b

\* a - b as a signed int.
Minus(a, b) ==
  LET d == (a - b) % Modulus IN IF d > INT_MAX THEN d - Modulus ELSE d

\* 1 << (wheel * WHEELBITS): the ticks that wheel needs from bucket to bucket.
Span(wheel) ==
  CASE wheel = 0 -> 1
    [] wheel = 1 -> WHEELSIZE
    [] wheel = 2 -> WHEELSIZE * WHEELSIZE
    [] wheel = 3 -> WHEELSIZE * (WHEELSIZE * WHEELSIZE)

MASKWHEEL(wheel, time) == (time \div Span(wheel)) % WHEELSIZE

\* The bucket of a wheel for a time, which is the one MOVEBUCKET moves then.
Current(wheel, time) == MASKWHEEL(wheel, time) + wheel * WHEELSIZE

\* The bucket of the lowest wheel that reaches as far as rel.
BUCKET(rel, abs) ==
  LET wheel == CHOOSE w \in 0 .. 3 :
                 /\ w = 3 \/ rel <= Span(w + 1)
                 /\ \A v \in 0 .. w - 1 : rel > Span(v + 1)
  IN Current(wheel, abs)

\* CIRCQ_REMOVE, from whatever list the timeout is on.
RemoveFrom(q, t) == Without(q, {t})

\* The mutex is free: softclock has it only while it sorts.
MutexFree == softclock # "sorting"

-----------------------------------------------------------------------------
(***************************************************************************)
(* The callers.                                                            *)
(***************************************************************************)

\* timeout_set, which may not be used on a timeout that is scheduled.
Set(t) ==
  /\ ONQUEUE \notin to_flags[t]
  /\ to_flags' = [to_flags EXCEPT ![t] = {}]
  /\ UNCHANGED <<ticks, to_time, timeout_wheel, timeout_todo, softclock,
                 requested, history>>

Requeue(t) ==
  /\ timeout_wheel' = [b \in Buckets |-> RemoveFrom(timeout_wheel[b], t)]
  /\ timeout_todo' = Append(RemoveFrom(timeout_todo, t), t)

\* A timeout is put on the work list even if it is on a list already.
EnqueueAgain(t, new) ==
  timeout_todo' = Append(timeout_todo, t) /\ UNCHANGED timeout_wheel

\* Which list the timeout goes on: moved only if it is now earlier.
Enqueue(t, new) ==
  \/ /\ ONQUEUE \in to_flags[t]
     /\ Minus(new, ticks) < Minus(to_time[t], ticks)
     /\ Requeue(t)
  \/ /\ ONQUEUE \in to_flags[t]
     /\ Minus(new, ticks) >= Minus(to_time[t], ticks)
     /\ UNCHANGED <<timeout_wheel, timeout_todo>>
  \/ /\ ONQUEUE \notin to_flags[t]
     /\ timeout_todo' = Append(timeout_todo, t)
     /\ UNCHANGED timeout_wheel

\* timeout_add(t, to_ticks), for a caller who wants asked ticks.
Add(t, to_ticks, asked) ==
  LET new == (to_ticks + ticks) % Modulus
  IN /\ MutexFree
     /\ to_time' = [to_time EXCEPT ![t] = new]
     /\ to_flags' = [to_flags EXCEPT ![t] = {ONQUEUE}]
     /\ Enqueue(t, new)
     /\ armed' = [armed EXCEPT ![t] = TRUE]
     /\ left' = [left EXCEPT ![t] = asked]
     /\ UNCHANGED <<ticks, softclock, requested>>

timeout_add(t) == \E d \in Delays[t] : Add(t, d, d)

\* The conversion of timeout_add_tv, _ts, _bt and _sec, and, for less than
\* a second, of timeout_add_usec and _nsec: rounded down, and no more than
\* an int holds.
TicksOf(sec, usec) == Min({hz * sec + usec \div tick, INT_MAX})

timeout_add_tv(t) ==
  \E d \in Times[t] :
    Add(t, TicksOf(d[1], d[2]), Min({hz * d[1] + d[2] \div tick, INT_MAX}))

timeout_del(t) ==
  /\ MutexFree
  /\ timeout_wheel' = [b \in Buckets |-> RemoveFrom(timeout_wheel[b], t)]
  /\ timeout_todo' = RemoveFrom(timeout_todo, t)
  /\ to_flags' = [to_flags EXCEPT ![t] = {}]
  /\ armed' = [armed EXCEPT ![t] = FALSE]
  /\ left' = [left EXCEPT ![t] = 0]
  /\ to_time' = [to_time EXCEPT ![t] = 0]
  /\ UNCHANGED <<ticks, softclock, requested>>

-----------------------------------------------------------------------------
(***************************************************************************)
(* The clock.                                                              *)
(***************************************************************************)

\* The cascade stops short of the last wheel.
MovedShort(now) ==
  {w \in 0 .. 2 : \A v \in 0 .. w - 1 : MASKWHEEL(v, now) = 0}

\* The wheels whose current bucket is moved to the work list at time now:
\* a wheel when all the lower ones have come round to 0.
Moved(now) ==
  {w \in 0 .. 3 : \A v \in 0 .. w - 1 : MASKWHEEL(v, now) = 0}

\* The tick of an int that does not wrap.
NextTickUnwrapped == ticks + 1

NextTick == (ticks + 1) % Modulus

\* The softclock asked for when there is nothing left to do.
NeedSoftclockInverted(todo) == todo = <<>>

NeedSoftclock(todo) == todo # <<>>

\* timeout_hardclock_update, and hardclock's request for a softclock.
hardclock ==
  LET now == NextTick
      part(w) == IF w \in Moved(now) THEN timeout_wheel[Current(w, now)] ELSE <<>>
  IN /\ MutexFree
     /\ \A t \in Timeouts : armed[t] => left[t] > -MaxLate
     /\ ticks' = now
     /\ timeout_todo' = timeout_todo \o part(0) \o part(1) \o part(2) \o part(3)
     /\ timeout_wheel' =
          [b \in Buckets |->
             IF \E w \in Moved(now) : b = Current(w, now) THEN <<>> ELSE timeout_wheel[b]]
     /\ requested' = (requested \/ NeedSoftclock(timeout_todo'))
     /\ left' = [t \in Timeouts |-> IF armed[t] THEN left[t] - 1 ELSE 0]
     /\ UNCHANGED <<to_time, to_flags, softclock, armed>>

\* softclock begins.
Begin ==
  /\ requested
  /\ softclock = "idle"
  /\ requested' = FALSE
  /\ softclock' = "sorting"
  /\ UNCHANGED <<ticks, to_time, to_flags, timeout_wheel, timeout_todo, history>>

\* The first timeout of the work list is not due: it goes into a bucket.
Sort ==
  LET t   == Head(timeout_todo)
      rel == Minus(to_time[t], ticks)
  IN /\ softclock = "sorting"
     /\ timeout_todo # <<>>
     /\ rel > 0
     /\ timeout_todo' = Tail(timeout_todo)
     /\ timeout_wheel' = [timeout_wheel EXCEPT ![BUCKET(rel, to_time[t])] = Append(@, t)]
     /\ UNCHANGED <<ticks, to_time, to_flags, softclock, requested, history>>

\* The first timeout of the work list is due: its function is called.
Call ==
  LET t == Head(timeout_todo)
  IN /\ softclock = "sorting"
     /\ timeout_todo # <<>>
     /\ Minus(to_time[t], ticks) <= 0
     /\ timeout_todo' = Tail(timeout_todo)
     /\ to_flags' = [to_flags EXCEPT ![t] = {TRIGGERED}]
     /\ softclock' = "calling"
     /\ armed' = [armed EXCEPT ![t] = FALSE]
     /\ left' = [left EXCEPT ![t] = 0]
     /\ to_time' = [to_time EXCEPT ![t] = 0]
     /\ UNCHANGED <<ticks, timeout_wheel, requested>>

\* The function returns, and the mutex is taken again.
Return ==
  /\ softclock = "calling"
  /\ softclock' = "sorting"
  /\ UNCHANGED <<ticks, to_time, to_flags, timeout_wheel, timeout_todo,
                 requested, history>>

\* The work list is empty.
Finish ==
  /\ softclock = "sorting"
  /\ timeout_todo = <<>>
  /\ softclock' = "idle"
  /\ UNCHANGED <<ticks, to_time, to_flags, timeout_wheel, timeout_todo,
                 requested, history>>

Next ==
  \/ \E t \in Timeouts : Set(t) \/ timeout_add(t) \/ timeout_add_tv(t) \/ timeout_del(t)
  \/ hardclock
  \/ Begin \/ Sort \/ Call \/ Return \/ Finish

Spec == Init /\ [][Next]_vars

\* The clock keeps ticking, a softclock that was asked for runs, and the
\* functions, which may not sleep, return.
FairSpec ==
  /\ Spec
  /\ WF_vars(hardclock)
  /\ WF_vars(Begin) /\ WF_vars(Sort \/ Call \/ Finish) /\ WF_vars(Return)

-----------------------------------------------------------------------------
(***************************************************************************)
(* Properties.                                                             *)
(***************************************************************************)

\* The places where a timeout is linked in: the list, -1 for timeout_todo, and
\* where on it.
Places(t) ==
  LET In(q) == {i \in DOMAIN q : q[i] = t}
  IN ({-1} \X In(timeout_todo)) \union
     UNION {{b} \X In(timeout_wheel[b]) : b \in Buckets}

\* The flags are the truth about the lists: a timeout marked
\* TIMEOUT_ONQUEUE is on exactly one list, once, any other on none, and it
\* is so marked exactly when its caller still expects it to run.
\* (timeout_add and timeout_del unlink by the flag alone: one link too many
\* or too few corrupts two lists.)
FlagTellsList ==
  \A t \in Timeouts :
    /\ IF ONQUEUE \in to_flags[t] THEN \E pl \in Places(t) : Places(t) = {pl} ELSE Places(t) = {}
    /\ armed[t] <=> ONQUEUE \in to_flags[t]

\* softclock calls a timeout's function only if it was added and not deleted
\* since, and never before the ticks asked for in the last timeout_add have
\* passed, although ticks and to_time wrap.
NeverEarly ==
  [][\A t \in Timeouts :
       (Call /\ t = Head(timeout_todo)) => armed[t] /\ left[t] <= 0]_vars

\* The wheels are never late: once the time of a timeout has come, the
\* timeout is on the work list, whichever bucket it was put in, however far
\* ahead, and however often it was moved (timeout_hardclock_update looks at
\* no to_time, it relies on the choice of the bucket).
DueIsOnTodo ==
  \A t \in Timeouts :
    armed[t] /\ left[t] <= 0 => OnQueue(timeout_todo, t)

\* A timeout that is due runs, unless it is put off or deleted.
DueRuns ==
  \A t \in Timeouts :
    (armed[t] /\ left[t] <= 0) ~> (~armed[t] \/ left[t] > 0)
=============================================================================
