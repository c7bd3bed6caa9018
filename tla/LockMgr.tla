------------------------------ MODULE LockMgr ------------------------------
(***************************************************************************)
(* The shared/exclusive lock of lockmgr(), sys/kern/kern_lock.c.           *)
(*                                                                         *)
(* lockmgr runs under the kernel lock and only lets go of it in the tsleep *)
(* of ACQUIRE, so a step is a call up to its return or its first sleep, or *)
(* what a woken process does up to its return or its next sleep.  The lock *)
(* is a record; the steps of a call are operators on it.                   *)
(***************************************************************************)
EXTENDS Naturals, FiniteSets

CONSTANTS
  Procs,
  LK_NOPROC,  \* the holder of a lock that is not held exclusively
  Types,      \* the request types in use, besides LK_RELEASE
  Uses,       \* how the lock is used: for each process the sets of external
              \* flags of its calls, none if it makes none.  CATCH stands for
              \* a lock whose sleeps end with an error: PCATCH in lk_prio, or
              \* an lk_timo
  MaxHold     \* bound: instances of the lock a process takes

ASSUME ProcsAssumption == LK_NOPROC \notin Procs /\ IsFiniteSet(Procs)

ExtFlags == {"NOWAIT", "SLEEPFAIL", "CANRECURSE", "RECURSEFAIL", "CATCH"}

ASSUME FlagsAssumption ==
  /\ Types \subseteq {"SHARED", "EXCLUSIVE", "DRAIN"}
  /\ Uses \subseteq [Procs -> SUBSET SUBSET ExtFlags]
  /\ MaxHold \in Nat \ {0}

VARIABLES
  lk,        \* the struct lock
  at,        \* the ACQUIRE each process is in, or "out"
  sleep,     \* how its tsleep stands
  extflags,  \* the flags of its call
  shared,    \* instances it holds: history, not state of the code
  exclusive,
  panicked,  \* lockmgr has called panic
  uses       \* the member of Uses this lock is about

vars == <<lk, at, sleep, extflags, shared, exclusive, panicked, uses>>

LkFlags == {"WANT_EXCL", "HAVE_EXCL", "WAITDRAIN", "DRAINING", "DRAINED"}

TypeOK ==
  /\ lk \in [flags : SUBSET LkFlags, sharecount : Nat, waitcount : Nat,
             exclusivecount : Nat, lockholder : Procs \union {LK_NOPROC}]
  /\ at \in [Procs -> {"out", "shared", "want", "excl", "drain"}]
  /\ sleep \in [Procs -> {"no", "asleep", "woken", "failed"}]
  /\ extflags \in [Procs -> SUBSET ExtFlags]
  /\ \A p \in Procs : extflags[p] \in uses[p] \union {{}}
  /\ shared \in [Procs -> Nat]
  /\ exclusive \in [Procs -> Nat]
  /\ panicked \in BOOLEAN
  /\ uses \in Uses

\* lockinit.
Init ==
  /\ lk = [flags |-> {}, sharecount |-> 0, waitcount |-> 0,
           exclusivecount |-> 0, lockholder |-> LK_NOPROC]
  /\ at = [p \in Procs |-> "out"]
  /\ sleep = [p \in Procs |-> "no"]
  /\ extflags = [p \in Procs |-> {}]
  /\ shared = [p \in Procs |-> 0]
  /\ exclusive = [p \in Procs |-> 0]
  /\ panicked = FALSE
  /\ uses \in Uses

-----------------------------------------------------------------------------
(***************************************************************************)
(* The struct lock.                                                        *)
(***************************************************************************)
SetFlags(l, fl)   == [l EXCEPT !.flags = @ \union fl]
ClearFlags(l, fl) == [l EXCEPT !.flags = @ \ fl]

\* lk_flags & (LK_HAVE_EXCL | LK_WANT_EXCL)
ExclPending(l) == l.flags \intersect {"HAVE_EXCL", "WANT_EXCL"} # {}

Unused(l) == ~ExclPending(l) /\ l.sharecount = 0 /\ l.waitcount = 0

\* A drain that does not count the processes waiting for the lock.
WantedNoWaiters(l, where) ==
  \/ where \in {"shared", "want"} /\ ExclPending(l)
  \/ where = "excl"  /\ l.sharecount # 0
  \/ where = "drain" /\ (ExclPending(l) \/ l.sharecount # 0)

\* The "wanted" argument of each ACQUIRE: what it waits for to end.
Wanted(l, where) ==
  \/ where \in {"shared", "want"} /\ ExclPending(l)
  \/ where = "excl"  /\ l.sharecount # 0
  \/ where = "drain" /\ ~Unused(l)

\* The lock as it is once p has it.
Granted(l, where, p) ==
  CASE where = "shared" -> [l EXCEPT !.sharecount = @ + 1]
    [] where = "excl"   -> [SetFlags(ClearFlags(l, {"WANT_EXCL"}), {"HAVE_EXCL"})
                              EXCEPT !.lockholder = p, !.exclusivecount = 1]
    [] where = "drain"  -> [SetFlags(l, {"DRAINING", "HAVE_EXCL"})
                              EXCEPT !.lockholder = p, !.exclusivecount = 1]

\* The holder's exclusive instances, and a new one, become shared.
Downgraded(l) ==
  [ClearFlags(l, {"HAVE_EXCL"})
     EXCEPT !.sharecount = @ + 1 + l.exclusivecount,
            !.exclusivecount = 0,
            !.lockholder = LK_NOPROC]

\* Any release of a recursive lock makes it free for others.
ReleasedTooSoon(l) ==
  IF l.exclusivecount > 1
    THEN [ClearFlags(l, {"HAVE_EXCL"}) EXCEPT !.exclusivecount = @ - 1]
  ELSE IF l.exclusivecount = 1
    THEN [ClearFlags(l, {"HAVE_EXCL"})
            EXCEPT !.exclusivecount = 0, !.lockholder = LK_NOPROC]
  ELSE [l EXCEPT !.sharecount = @ - 1]

\* One instance less.
Released(l) ==
  IF l.exclusivecount > 1 THEN [l EXCEPT !.exclusivecount = @ - 1]
  ELSE IF l.exclusivecount = 1
    THEN [ClearFlags(l, {"HAVE_EXCL"})
            EXCEPT !.exclusivecount = 0, !.lockholder = LK_NOPROC]
  ELSE [l EXCEPT !.sharecount = @ - 1]

-----------------------------------------------------------------------------
(***************************************************************************)
(* Sleeping and returning.                                                 *)
(***************************************************************************)
\* The processes asleep on the lock, and on its lk_flags.
Waiters  == {p \in Procs : at[p] \in {"shared", "want", "excl"} /\ sleep[p] = "asleep"}
Drainers == {p \in Procs : at[p] = "drain" /\ sleep[p] = "asleep"}

\* The tsleep of ACQUIRE.
SleepIn(p, where, l, fl) ==
  /\ lk' = IF where = "drain" THEN SetFlags(l, {"WAITDRAIN"})
                              ELSE [l EXCEPT !.waitcount = @ + 1]
  /\ at' = [at EXCEPT ![p] = where]
  /\ sleep' = [sleep EXCEPT ![p] = "asleep"]
  /\ extflags' = [extflags EXCEPT ![p] = fl]
  /\ UNCHANGED <<shared, exclusive, panicked, uses>>

\* lockmgr returns l without a look at LK_WAITDRAIN.
ReturnNoDrain(p, l, woken) ==
  /\ lk' = l
  /\ at' = [at EXCEPT ![p] = "out"]
  /\ extflags' = [extflags EXCEPT ![p] = {}]
  /\ sleep' = [q \in Procs |-> IF q = p THEN "no"
                               ELSE IF q \in woken THEN "woken" ELSE sleep[q]]

\* The end of lockmgr, having called wakeup for the processes in woken: the
\* last one to use the lock wakes the process that drains it.
Return(p, l, woken) ==
  LET drained == "WAITDRAIN" \in l.flags /\ Unused(l)
      roused  == woken \union (IF drained THEN Drainers ELSE {})
  IN /\ lk' = IF drained THEN ClearFlags(l, {"WAITDRAIN"}) ELSE l
     /\ at' = [at EXCEPT ![p] = "out"]
     /\ extflags' = [extflags EXCEPT ![p] = {}]
     /\ sleep' = [q \in Procs |-> IF q = p THEN "no"
                                  ELSE IF q \in roused THEN "woken" ELSE sleep[q]]

\* A release that leaves the wakeup out.
WakeupNobody(l) == {}

\* WAKEUP_WAITER.
WakeupWaiter(l) == IF l.waitcount # 0 THEN Waiters ELSE {}

Failed(p, l) == Return(p, l, {}) /\ UNCHANGED <<shared, exclusive, panicked, uses>>

Panic ==
  /\ panicked' = TRUE
  /\ UNCHANGED <<lk, at, sleep, extflags, shared, exclusive, uses>>

\* p gets the lock and lockmgr returns 0.  There is a panic when an
\* exclusive request finds an exclusive count.
Done(p, where, l) ==
  \/ /\ where = "excl" /\ l.exclusivecount # 0
     /\ Panic
  \/ /\ where # "excl" \/ l.exclusivecount = 0
     /\ Return(p, Granted(l, where, p), {})
     /\ IF where = "shared"
          THEN shared' = [shared EXCEPT ![p] = @ + 1] /\ UNCHANGED exclusive
          ELSE exclusive' = [exclusive EXCEPT ![p] = 1] /\ UNCHANGED shared
     /\ UNCHANGED <<panicked, uses>>

\* The rest of the call from an ACQUIRE on, on the lock l.  An exclusive
\* request waits twice: for LK_WANT_EXCL, and then, with it, for the shared
\* holders to go.
GoOn(p, where, l, fl) ==
  \/ Wanted(l, where) /\ SleepIn(p, where, l, fl)
  \/ ~Wanted(l, where) /\ where # "want" /\ Done(p, where, l)
  \/ /\ ~Wanted(l, where) /\ where = "want"
     /\ LET l2 == SetFlags(l, {"WANT_EXCL"})
        IN \/ Wanted(l2, "excl") /\ SleepIn(p, "excl", l2, fl)
           \/ ~Wanted(l2, "excl") /\ Done(p, "excl", l2)

-----------------------------------------------------------------------------
(***************************************************************************)
(* The calls.  What the callers owe: a process that holds the lock shared  *)
(* only releases it, only one process at a time drains the lock, nobody    *)
(* calls lockmgr once it is drained but the process that drained it, to    *)
(* release it, and nobody drains a lock it holds or recurses unasked.      *)
(***************************************************************************)
Idle(p) == at[p] = "out" /\ ~panicked

Usable == lk.flags \intersect {"DRAINING", "DRAINED"} = {}

HoldsNothing(p) == shared[p] = 0 /\ exclusive[p] = 0

First(type) ==
  IF type = "SHARED" THEN "shared" ELSE IF type = "EXCLUSIVE" THEN "want" ELSE "drain"

\* LK_NOWAIT fails with EBUSY if the request would sleep.
WouldSleep(type) ==
  Wanted(lk, First(type)) \/ (type = "EXCLUSIVE" /\ lk.sharecount # 0)

\* LK_SHARED, LK_EXCLUSIVE or LK_DRAIN by a process that holds nothing.
Request(p, type, fl) ==
  /\ Idle(p) /\ Usable /\ HoldsNothing(p)
  /\ type = "DRAIN" => \A q \in Procs : at[q] # "drain"
  /\ \/ "NOWAIT" \in fl /\ WouldSleep(type) /\ Failed(p, lk)
     \/ ~("NOWAIT" \in fl /\ WouldSleep(type)) /\ GoOn(p, First(type), lk, fl)

\* LK_EXCLUSIVE by the exclusive holder: one more instance, or EDEADLK.
Recurse(p, fl) ==
  /\ Idle(p) /\ Usable /\ lk.lockholder = p
  /\ \/ /\ "CANRECURSE" \in fl /\ exclusive[p] < MaxHold
        /\ Return(p, [lk EXCEPT !.exclusivecount = @ + 1], {})
        /\ exclusive' = [exclusive EXCEPT ![p] = @ + 1]
        /\ UNCHANGED <<shared, panicked, uses>>
     \/ "CANRECURSE" \notin fl /\ "RECURSEFAIL" \in fl /\ Failed(p, lk)

\* LK_SHARED by the exclusive holder.  There is a panic if the holder has no
\* exclusive instance.
Downgrade(p) ==
  /\ Idle(p) /\ Usable /\ lk.lockholder = p
  /\ \/ lk.exclusivecount = 0 /\ Panic
     \/ /\ lk.exclusivecount # 0
        /\ Return(p, Downgraded(lk), WakeupWaiter(lk))
        /\ shared' = [shared EXCEPT ![p] = @ + 1 + exclusive[p]]
        /\ exclusive' = [exclusive EXCEPT ![p] = 0]
        /\ UNCHANGED <<panicked, uses>>

\* LK_RELEASE.  The release of a drained lock marks it decommissioned.
Release(p) ==
  /\ Idle(p) /\ ~HoldsNothing(p)
  /\ LET l == IF "DRAINING" \in lk.flags
                THEN SetFlags(ClearFlags(lk, {"DRAINING"}), {"DRAINED"}) ELSE lk
     IN \/ /\ \/ l.exclusivecount # 0 /\ l.lockholder # p
              \/ l.exclusivecount = 0 /\ l.sharecount = 0
           /\ Panic
        \/ /\ IF l.exclusivecount # 0 THEN l.lockholder = p ELSE l.sharecount # 0
           /\ Return(p, Released(l), WakeupWaiter(l))
           /\ IF exclusive[p] # 0
                THEN exclusive' = [exclusive EXCEPT ![p] = @ - 1] /\ UNCHANGED shared
                ELSE shared' = [shared EXCEPT ![p] = @ - 1] /\ UNCHANGED exclusive
           /\ UNCHANGED <<panicked, uses>>

-----------------------------------------------------------------------------
\* A timeout or a signal ends the tsleep.
SleepFails(p) ==
  /\ ~panicked /\ sleep[p] = "asleep" /\ "CATCH" \in extflags[p]
  /\ sleep' = [sleep EXCEPT ![p] = "failed"]
  /\ UNCHANGED <<lk, at, extflags, shared, exclusive, panicked, uses>>

\* lk_waitcount goes down after the tsleep, whatever its outcome.
Uncounted(p) ==
  IF at[p] = "drain" THEN lk ELSE [lk EXCEPT !.waitcount = @ - 1]

\* An exclusive request that fails and leaves LK_WANT_EXCL set.
FailedWhileWaitingKeepWant(p) == Failed(p, Uncounted(p))

\* An error ends the request; an exclusive one gives up LK_WANT_EXCL.
FailedWhileWaiting(p) ==
  Failed(p, IF at[p] = "excl" THEN ClearFlags(Uncounted(p), {"WANT_EXCL"})
                              ELSE Uncounted(p))

\* tsleep has returned: an error (also, with PCATCH, for a signal that came
\* after the wakeup), ENOLCK for LK_SLEEPFAIL, or around the loop.
Resume(p) ==
  /\ ~panicked /\ sleep[p] \in {"woken", "failed"}
  /\ \/ /\ sleep[p] = "failed" \/ {"SLEEPFAIL", "CATCH"} \intersect extflags[p] # {}
        /\ FailedWhileWaiting(p)
     \/ /\ sleep[p] = "woken" /\ "SLEEPFAIL" \notin extflags[p]
        /\ GoOn(p, at[p], Uncounted(p), extflags[p])

-----------------------------------------------------------------------------
Next ==
  \E p \in Procs :
    \/ \E type \in Types, fl \in uses[p] : Request(p, type, fl)
    \/ \E fl \in uses[p] : Recurse(p, fl)
    \/ "SHARED" \in Types /\ Downgrade(p)
    \/ Release(p)
    \/ SleepFails(p)
    \/ Resume(p)

\* Woken processes run, and nobody keeps the lock for ever.
Fairness == \A p \in Procs : WF_vars(Resume(p)) /\ WF_vars(Release(p))

Spec == Init /\ [][Next]_vars

FairSpec == Spec /\ Fairness

-----------------------------------------------------------------------------
\* lock(9): "Only one exclusive-access lock may exist at a time", and no
\* shared one beside it.  Draining waits "for all activity on the lock to
\* end": once it is granted, no other process is anywhere inside lockmgr.
Exclusion ==
  /\ \A p \in Procs : exclusive[p] # 0 =>
       shared[p] = 0 /\ \A q \in Procs \ {p} : HoldsNothing(q)
  /\ ~Usable => \A p \in Procs : lk.lockholder # p => at[p] = "out"

\* The instances that f counts, one by one.
Instances(f) == UNION {{p} \X (1..f[p]) : p \in Procs}

\* The counts and flags, which are all that releases and waiters have to go
\* by, agree with who holds the lock and who waits for it, also after sleeps
\* that failed.  Were LK_WANT_EXCL or an instance left behind, nobody would
\* ever get the lock again.
CountsExact ==
  /\ TypeOK
  /\ lk.sharecount = Cardinality(Instances(shared))
  /\ lk.exclusivecount = Cardinality(Instances(exclusive))
  /\ lk.waitcount = Cardinality({p \in Procs : at[p] \in {"shared", "want", "excl"}})
  /\ \A p \in Procs : exclusive[p] # 0 <=> lk.lockholder = p
  /\ Cardinality({p \in Procs : at[p] = "excl"}) =
       IF "WANT_EXCL" \in lk.flags THEN 1 ELSE 0

\* None of the panics of lockmgr can be reached by callers that keep to the
\* rules above.
NoPanic == ~panicked

\* "Locks will always succeed" (lock.h): a process sleeps on the lock only
\* while somebody holds it, or somebody who was woken will look at it.
NoStrandedWaiter ==
  Waiters # {} =>
    \/ lk.sharecount # 0 \/ lk.exclusivecount # 0
    \/ \E p \in Procs : sleep[p] \in {"woken", "failed"}

\* No request of any process fails after it has slept.
SleepsSucceed ==
  \A p \in Procs : \A fl \in uses[p] : fl \cap {"SLEEPFAIL", "CATCH"} = {}

\* Whoever sleeps will be woken: a waiter of a lock whose sleeps do not fail
\* by somebody who holds it or will, and the process that drains the lock,
\* whatever fails, because LK_WAITDRAIN is set and somebody uses the lock.
NobodyStranded ==
  /\ SleepsSucceed => NoStrandedWaiter
  /\ Drainers # {} => "WAITDRAIN" \in lk.flags /\ ~Unused(lk)

\* A process asleep on a lock whose sleeps do not fail is eventually woken:
\* every release that finds it in lk_waitcount does so, however many others
\* want the lock.
SleepersWoken ==
  SleepsSucceed => \A p \in Procs : p \in Waiters ~> p \notin Waiters
=============================================================================
