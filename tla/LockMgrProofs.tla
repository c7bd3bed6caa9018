---------------------------- MODULE LockMgrProofs ----------------------------
(***************************************************************************)
(* For any number of processes, any use of the flags and any bound on      *)
(* recursion: lockmgr never panics, its counts are exact, exclusive means  *)
(* exclusive, and nobody sleeps on a lock that nobody will wake it from.   *)
(***************************************************************************)
EXTENDS LockMgr, FiniteSetTheorems, TLAPS

LockRec == [flags : SUBSET LkFlags, sharecount : Nat, waitcount : Nat,
            exclusivecount : Nat, lockholder : Procs \union {LK_NOPROC}]

\* The ACQUIREs whose sleeps lk_waitcount counts.
Queued == {"shared", "want", "excl"}

\* The processes it counts, p left out if it is one of them.
WaitingBut(p) == {q \in Procs \ {p} : at[q] \in Queued}
Waiting       == {q \in Procs : at[q] \in Queued}

\* The holders' side of a lock l, when sh and ex are the instances held.
HoldersOf(l, sh, ex) ==
  /\ l.sharecount = Cardinality(Instances(sh))
  /\ l.exclusivecount = IF l.lockholder = LK_NOPROC THEN 0 ELSE ex[l.lockholder]
  /\ \A p \in Procs : ex[p] # 0 <=> l.lockholder = p
  /\ "HAVE_EXCL" \in l.flags <=> l.lockholder # LK_NOPROC
  /\ "HAVE_EXCL" \in l.flags => l.sharecount = 0 /\ "WANT_EXCL" \notin l.flags

\* What may be held at all: so the instances are finitely many.
HeldTypes(sh, ex) ==
  /\ sh \in [Procs -> 0..(MaxHold + 1)]
  /\ ex \in [Procs -> 0..MaxHold]

UsableLock(l) == l.flags \intersect {"DRAINING", "DRAINED"} = {}

\* The waiters' side: lk_waitcount and LK_WANT_EXCL, and what a process that
\* is inside lockmgr may be and have.
WaitersInv ==
  /\ lk.waitcount = Cardinality(Waiting)
  /\ "WANT_EXCL" \in lk.flags <=> \E p \in Procs : at[p] = "excl"
  /\ \A p, q \in Procs : at[p] = "excl" /\ at[q] = "excl" => p = q
  /\ \A p, q \in Procs : at[p] = "drain" /\ at[q] = "drain" => p = q
  /\ \A p \in Procs : at[p] = "out" <=> sleep[p] = "no"
  /\ \A p \in Procs : at[p] # "out" => HoldsNothing(p)
  /\ \A p \in Procs : sleep[p] = "failed" => "CATCH" \in extflags[p]
  /\ ~Usable => \A p \in Procs : at[p] = "out"

\* An exclusive request asleep with LK_WANT_EXCL has a shared holder to wait
\* for.  Any waiter of a lock whose sleeps do not fail has a holder, or
\* another waiter that is on its way.  A drain has whom it waits for.
SleepersInv ==
  /\ \A p \in Procs : at[p] = "excl" /\ sleep[p] = "asleep" => lk.sharecount # 0
  /\ SleepsSucceed /\ Waiters # {} =>
       \/ lk.sharecount # 0 \/ lk.exclusivecount # 0
       \/ \E p \in Waiting : sleep[p] \in {"woken", "failed"}
  /\ Drainers # {} => "WAITDRAIN" \in lk.flags /\ ~Unused(lk)

IInv ==
  /\ TypeOK /\ HeldTypes(shared, exclusive)
  /\ HoldersOf(lk, shared, exclusive)
  /\ WaitersInv /\ SleepersInv /\ ~panicked

-----------------------------------------------------------------------------
(***************************************************************************)
(* Counting instances and waiters.                                         *)
(***************************************************************************)

\* The members of Instances.
LEMMA InstanceIs ==
  ASSUME NEW f, NEW x
  PROVE  x \in Instances(f) <=> \E p \in Procs : \E i \in 1..f[p] : x = <<p, i>>
BY DEF Instances

\* The library's fact about products, in the form that is used here.
LEMMA ProductCounted ==
  ASSUME NEW S, NEW T, IsFiniteSet(S), IsFiniteSet(T)
  PROVE  /\ IsFiniteSet(S \X T)
         /\ Cardinality(S \X T) = Cardinality(S) * Cardinality(T)
BY FS_Product, Zenon

\* There are finitely many instances.
LEMMA InstancesFinite ==
  ASSUME NEW n \in Nat, NEW f \in [Procs -> 0..n]
  PROVE  IsFiniteSet(Instances(f)) /\ Cardinality(Instances(f)) \in Nat
<1>1. IsFiniteSet(Procs \X (1..n))
  <2>1. IsFiniteSet(1..n)
    BY FS_Interval
  <2> QED BY <2>1, ProcsAssumption, ProductCounted
<1>2. Instances(f) \subseteq Procs \X (1..n)
  <2> SUFFICES ASSUME NEW x \in Instances(f) PROVE x \in Procs \X (1..n)
    OBVIOUS
  <2>1. PICK p \in Procs : \E i \in 1..f[p] : x = <<p, i>>
    BY InstanceIs
  <2>2. PICK i \in 1..f[p] : x = <<p, i>>
    BY <2>1
  <2>3. f[p] \in 0..n
    OBVIOUS
  <2>4. i \in 1..n
    BY <2>3
  <2> QED BY <2>2, <2>4
<1> QED BY <1>1, <1>2, FS_Subset, FS_CardinalityType

\* No instances: nobody holds one.
LEMMA NoInstances ==
  ASSUME NEW n \in Nat, NEW f \in [Procs -> 0..n]
  PROVE  Cardinality(Instances(f)) = 0 <=> \A p \in Procs : f[p] = 0
<1>1. Cardinality(Instances(f)) = 0 <=> Instances(f) = {}
  BY InstancesFinite, FS_EmptySet
<1>2. ASSUME NEW p \in Procs, f[p] # 0
      PROVE  Instances(f) # {}
  <2>1. f[p] \in 0..n
    OBVIOUS
  <2>2. 1 \in 1..f[p]
    BY <1>2, <2>1
  <2> QED BY <2>2, InstanceIs
<1>3. ASSUME \A p \in Procs : f[p] = 0
      PROVE  Instances(f) = {}
  <2> SUFFICES ASSUME NEW x \in Instances(f) PROVE FALSE
    OBVIOUS
  <2>1. PICK p \in Procs : \E i \in 1..f[p] : x = <<p, i>>
    BY InstanceIs
  <2> QED BY <1>3, <2>1
<1> QED BY <1>1, <1>2, <1>3

\* One instance more, or one less.
LEMMA OneMore ==
  ASSUME NEW n \in Nat, NEW f \in [Procs -> 0..n], NEW p \in Procs, NEW g,
         g[p] = f[p] + 1, \A q \in Procs \ {p} : g[q] = f[q]
  PROVE  Cardinality(Instances(g)) = Cardinality(Instances(f)) + 1
<1> DEFINE x == <<p, f[p] + 1>>
<1>0. f[p] \in Nat /\ g[p] = f[p] + 1 /\ \A q \in Procs \ {p} : g[q] = f[q]
  OBVIOUS
<1>1. Instances(g) = Instances(f) \union {x}
  <2>1. ASSUME NEW y \in Instances(g)
        PROVE  y \in Instances(f) \union {x}
    <3>1. PICK q \in Procs : \E i \in 1..g[q] : y = <<q, i>>
      BY <2>1, InstanceIs
    <3>2. PICK i \in 1..g[q] : y = <<q, i>>
      BY <3>1
    <3>3. i \in 1..f[q] \/ (q = p /\ i = f[p] + 1)
      BY <1>0
    <3> QED BY <3>2, <3>3, InstanceIs
  <2>2. ASSUME NEW y \in Instances(f)
        PROVE  y \in Instances(g)
    <3>1. PICK q \in Procs : \E i \in 1..f[q] : y = <<q, i>>
      BY <2>2, InstanceIs
    <3>2. 1..f[q] \subseteq 1..g[q]
      BY <1>0
    <3> QED BY <3>1, <3>2, InstanceIs
  <2>3. x \in Instances(g)
    <3>1. f[p] + 1 \in 1..g[p]
      BY <1>0
    <3> QED BY <3>1, InstanceIs
  <2> QED BY <2>1, <2>2, <2>3
<1>2. x \notin Instances(f)
  <2> SUFFICES ASSUME x \in Instances(f) PROVE FALSE
    OBVIOUS
  <2>1. PICK q \in Procs : \E i \in 1..f[q] : x = <<q, i>>
    BY InstanceIs
  <2>2. f[p] + 1 \in 1..f[p]
    BY <2>1
  <2> QED BY <1>0, <2>2
<1> QED BY <1>1, <1>2, InstancesFinite, FS_AddElement

LEMMA OneLess ==
  ASSUME NEW n \in Nat, NEW f \in [Procs -> 0..n], NEW p \in Procs, NEW g,
         f[p] # 0, g = [f EXCEPT ![p] = f[p] - 1]
  PROVE  Cardinality(Instances(g)) = Cardinality(Instances(f)) - 1
<1>0. f[p] \in 0..n
  OBVIOUS
<1>1. g \in [Procs -> 0..n]
  BY <1>0
<1>2. f[p] = g[p] + 1 /\ \A q \in Procs \ {p} : f[q] = g[q]
  BY <1>0
<1>3. Cardinality(Instances(f)) = Cardinality(Instances(g)) + 1
  BY <1>1, <1>2, OneMore
<1>4. Cardinality(Instances(g)) \in Nat
  BY <1>1, InstancesFinite
<1> QED BY <1>3, <1>4

\* Only one process has instances, n of them.
LEMMA AllWithOne ==
  ASSUME NEW p \in Procs, NEW f, f[p] \in Nat,
         \A q \in Procs \ {p} : f[q] = 0
  PROVE  Cardinality(Instances(f)) = f[p]
<1>1. Instances(f) = {p} \X (1..f[p])
  <2>1. ASSUME NEW x \in Instances(f)
        PROVE  x \in {p} \X (1..f[p])
    <3>1. PICK q \in Procs : \E i \in 1..f[q] : x = <<q, i>>
      BY <2>1, InstanceIs
    <3>2. q = p
      <4> SUFFICES ASSUME q # p PROVE FALSE
        OBVIOUS
      <4>1. f[q] = 0
        OBVIOUS
      <4> QED BY <3>1, <4>1
    <3> QED BY <3>1, <3>2
  <2>2. ASSUME NEW x \in {p} \X (1..f[p])
        PROVE  x \in Instances(f)
    <3>1. PICK i \in 1..f[p] : x = <<p, i>>
      BY <2>2
    <3> QED BY <3>1, InstanceIs
  <2> QED BY <2>1, <2>2
<1>2. IsFiniteSet({p}) /\ Cardinality({p}) = 1
  BY FS_Singleton
<1>3. IsFiniteSet(1..f[p]) /\ Cardinality(1..f[p]) = f[p]
  <2>1. IsFiniteSet(1..f[p]) /\ Cardinality(1..f[p]) = IF 1 > f[p] THEN 0 ELSE f[p] - 1 + 1
    BY FS_Interval
  <2> QED BY <2>1
<1>4. Cardinality({p} \X (1..f[p])) = 1 * f[p]
  <2>1. Cardinality({p} \X (1..f[p])) = Cardinality({p}) * Cardinality(1..f[p])
    BY <1>2, <1>3, ProductCounted, Zenon
  <2> QED BY <1>2, <1>3, <2>1
<1> QED BY <1>1, <1>4

\* The waiters are finitely many; p is one of them or it is not.
LEMMA WaitersCounted ==
  ASSUME NEW p \in Procs
  PROVE  /\ Cardinality(WaitingBut(p)) \in Nat
         /\ at[p] \in Queued => Cardinality(Waiting) = Cardinality(WaitingBut(p)) + 1
         /\ at[p] \notin Queued => Cardinality(Waiting) = Cardinality(WaitingBut(p))
         /\ Cardinality(Waiting) = 0 <=> Waiting = {}
<1>1. IsFiniteSet(WaitingBut(p)) /\ IsFiniteSet(Waiting)
  BY ProcsAssumption, FS_Subset DEF WaitingBut, Waiting
<1>2. at[p] \in Queued => Waiting = WaitingBut(p) \union {p}
  BY DEF Waiting, WaitingBut
<1>3. at[p] \notin Queued => Waiting = WaitingBut(p)
  BY DEF Waiting, WaitingBut
<1>4. p \notin WaitingBut(p)
  BY DEF WaitingBut
<1> QED BY <1>1, <1>2, <1>3, <1>4, FS_AddElement, FS_CardinalityType, FS_EmptySet

\* The same after a step.
LEMMA WaitersCountedAfter ==
  ASSUME NEW p \in Procs, \A q \in Procs \ {p} : at'[q] = at[q]
  PROVE  /\ at'[p] \in Queued => Cardinality(Waiting') = Cardinality(WaitingBut(p)) + 1
         /\ at'[p] \notin Queued => Cardinality(Waiting') = Cardinality(WaitingBut(p))
<1>1. IsFiniteSet(WaitingBut(p))
  BY ProcsAssumption, FS_Subset DEF WaitingBut
<1>2. at'[p] \in Queued => Waiting' = WaitingBut(p) \union {p}
  BY DEF Waiting, WaitingBut, Queued
<1>3. at'[p] \notin Queued => Waiting' = WaitingBut(p)
  BY DEF Waiting, WaitingBut, Queued
<1>4. p \notin WaitingBut(p)
  BY DEF WaitingBut
<1> QED BY <1>1, <1>2, <1>3, <1>4, FS_AddElement

-----------------------------------------------------------------------------
(***************************************************************************)
(* The two ways in which the code lets go of the kernel lock.  In between, *)
(* p has a lock l in which it is not counted as a waiter.                  *)
(***************************************************************************)

\* The part of l that the others determine; want: p has set LK_WANT_EXCL.
Before(p, l, want) ==
  /\ l \in LockRec
  /\ l.waitcount = Cardinality(WaitingBut(p))
  /\ "WANT_EXCL" \in l.flags <=> want \/ \E q \in Procs \ {p} : at[q] = "excl"
  /\ want => \A q \in Procs \ {p} : at[q] # "excl"
  /\ Drainers \ {p} # {} => "WAITDRAIN" \in l.flags

\* A process asleep on the lock is inside lockmgr.
LEMMA Inside ==
  ASSUME IInv
  PROVE  /\ Waiters \subseteq Waiting
         /\ \A p \in Procs : at[p] # "out" => sleep[p] \in {"asleep", "woken", "failed"}
         /\ \A p \in Procs : at[p] \in {"out", "shared", "want", "excl", "drain"}
BY DEF IInv, TypeOK, WaitersInv, Waiters, Waiting, Queued

\* tsleep in ACQUIRE.
LEMMA SleepInKeeps ==
  ASSUME IInv, NEW p \in Procs, NEW where \in {"shared", "want", "excl", "drain"},
         NEW l, NEW fl \in uses[p] \union {{}},
         Before(p, l, where = "excl"), HoldersOf(l, shared, exclusive), UsableLock(l),
         Wanted(l, where), SleepIn(p, where, l, fl), HoldsNothing(p),
         where = "drain" => /\ at[p] \in {"out", "drain"}
                            /\ \A q \in Procs \ {p} : at[q] # "drain"
  PROVE  IInv'
<1>0. /\ TypeOK /\ WaitersInv /\ SleepersInv /\ l \in LockRec
      /\ lk.sharecount = l.sharecount
  BY DEF IInv, Before, HoldersOf
<1>1. /\ lk' \in LockRec
      /\ lk'.sharecount = l.sharecount /\ lk'.exclusivecount = l.exclusivecount
      /\ lk'.lockholder = l.lockholder
      /\ lk'.flags = IF where = "drain" THEN l.flags \union {"WAITDRAIN"} ELSE l.flags
      /\ lk'.waitcount = IF where = "drain" THEN l.waitcount ELSE l.waitcount + 1
  BY <1>0 DEF SleepIn, SetFlags, LockRec, LkFlags
<1>2. /\ at'[p] = where /\ sleep'[p] = "asleep"
      /\ \A q \in Procs \ {p} : at'[q] = at[q] /\ sleep'[q] = sleep[q]
      /\ extflags'[p] = fl /\ \A q \in Procs \ {p} : extflags'[q] = extflags[q]
      /\ UNCHANGED <<shared, exclusive, panicked, uses>>
  BY <1>0 DEF SleepIn, TypeOK
<1>3. TypeOK'
  <2>1. fl \in SUBSET ExtFlags
    BY <1>0, FlagsAssumption DEF TypeOK
  <2>2. /\ at' \in [Procs -> {"out", "shared", "want", "excl", "drain"}]
        /\ sleep' \in [Procs -> {"no", "asleep", "woken", "failed"}]
        /\ extflags' \in [Procs -> SUBSET ExtFlags]
    BY <1>0, <2>1 DEF SleepIn, TypeOK
  <2>3. \A q \in Procs : extflags'[q] \in uses'[q] \union {{}}
    BY <1>0, <1>2 DEF TypeOK
  <2> QED BY <1>0, <1>1, <1>2, <2>2, <2>3 DEF TypeOK, LockRec
<1>4. HoldersOf(lk, shared, exclusive)' /\ HeldTypes(shared, exclusive)'
  BY <1>0, <1>1, <1>2 DEF IInv, HoldersOf, HeldTypes, Instances
<1>5. WaitersInv'
  <2>1. lk'.waitcount = Cardinality(Waiting')
    BY <1>1, <1>2, WaitersCountedAfter DEF Before, Queued
  <2>2. "WANT_EXCL" \in lk'.flags <=> \E q \in Procs : at'[q] = "excl"
    BY <1>1, <1>2 DEF Before
  <2>3. /\ \A q, r \in Procs : at'[q] = "excl" /\ at'[r] = "excl" => q = r
        /\ \A q, r \in Procs : at'[q] = "drain" /\ at'[r] = "drain" => q = r
    BY <1>0, <1>2 DEF Before, WaitersInv
  <2>4. \A q \in Procs : /\ at'[q] = "out" <=> sleep'[q] = "no"
                         /\ at'[q] # "out" => HoldsNothing(q)'
                         /\ sleep'[q] = "failed" => "CATCH" \in extflags'[q]
    BY <1>0, <1>2 DEF WaitersInv, HoldsNothing
  <2>5. Usable'
    BY <1>1 DEF UsableLock, Usable
  <2> QED BY <2>1, <2>2, <2>3, <2>4, <2>5 DEF WaitersInv
<1>6. SleepersInv'
  <2>1. ASSUME NEW q \in Procs, at'[q] = "excl", sleep'[q] = "asleep"
        PROVE  lk'.sharecount # 0
    <3>1. CASE q = p
      BY <1>1, <1>2, <2>1, <3>1 DEF Wanted
    <3>2. CASE q # p
      BY <1>0, <1>1, <1>2, <2>1, <3>2 DEF SleepersInv
    <3> QED BY <3>1, <3>2
  <2>2. ASSUME SleepsSucceed', Waiters' # {}
        PROVE  \/ lk'.sharecount # 0 \/ lk'.exclusivecount # 0
               \/ \E q \in Waiting' : sleep'[q] \in {"woken", "failed"}
    <3>0. SleepsSucceed
      BY <1>2, <2>2 DEF SleepsSucceed
    <3>1. CASE where = "excl"
      BY <1>1, <3>1 DEF Wanted
    <3>2. CASE where \in {"shared", "want"}
      <4>1. ExclPending(l)
        BY <3>2 DEF Wanted
      <4>2. CASE "HAVE_EXCL" \in l.flags
        <5>1. l.lockholder \in Procs /\ l.exclusivecount = exclusive[l.lockholder]
          BY <1>0, <4>2 DEF HoldersOf, LockRec
        <5>2. l.exclusivecount # 0
          BY <5>1 DEF HoldersOf
        <5> QED BY <1>1, <5>2
      <4>3. CASE "WANT_EXCL" \in l.flags
        <5>1. PICK q \in Procs \ {p} : at[q] = "excl"
          BY <3>2, <4>3 DEF Before
        <5>2. CASE sleep[q] = "asleep"
          BY <1>0, <1>1, <5>1, <5>2 DEF SleepersInv
        <5>3. CASE sleep[q] # "asleep"
          BY <1>2, <5>1, <5>3, Inside DEF Waiting, Queued
        <5> QED BY <5>2, <5>3
      <4> QED BY <4>1, <4>2, <4>3 DEF ExclPending
    <3>3. CASE where = "drain"
      <4>1. Waiters # {}
        BY <1>2, <2>2, <3>3 DEF Waiters
      <4>2. CASE lk.sharecount # 0 \/ lk.exclusivecount # 0
        <5>1. /\ lk.lockholder \in Procs \union {LK_NOPROC}
              /\ l.lockholder \in Procs \union {LK_NOPROC}
          BY <1>0 DEF TypeOK, LockRec
        <5>2. lk.lockholder = l.lockholder
          BY <5>1, ProcsAssumption DEF IInv, HoldersOf
        <5>3. lk.exclusivecount = l.exclusivecount
          BY <5>2 DEF IInv, HoldersOf
        <5> QED BY <1>0, <1>1, <4>2, <5>3
      <4>3. CASE \E q \in Waiting : sleep[q] \in {"woken", "failed"}
        BY <1>2, <3>3, <4>3 DEF Waiting, Queued
      <4> QED BY <1>0, <3>0, <4>1, <4>2, <4>3 DEF SleepersInv
    <3> QED BY <3>1, <3>2, <3>3
  <2>3. ASSUME Drainers' # {}
        PROVE  "WAITDRAIN" \in lk'.flags /\ ~Unused(lk')
    <3>1. CASE where = "drain"
      BY <1>1, <3>1 DEF Wanted, Unused, ExclPending
    <3>2. CASE where # "drain"
      <4>1. Drainers \ {p} # {}
        BY <1>2, <2>3, <3>2 DEF Drainers
      <4>2. lk'.waitcount # 0
        BY <1>0, <1>1, <3>2 DEF LockRec
      <4> QED BY <1>1, <4>1, <4>2 DEF Before, Unused
    <3> QED BY <3>1, <3>2
  <2> QED BY <2>1, <2>2, <2>3 DEF SleepersInv
<1> QED BY <1>2, <1>3, <1>4, <1>5, <1>6 DEF IInv

\* The end of lockmgr.
LEMMA ReturnKeeps ==
  ASSUME IInv, NEW p \in Procs, NEW l, NEW woken \in SUBSET Waiters,
         Before(p, l, FALSE), Return(p, l, woken),
         HeldTypes(shared', exclusive'), HoldersOf(l, shared', exclusive'),
         \A q \in Procs \ {p} : shared'[q] = shared[q] /\ exclusive'[q] = exclusive[q],
         UNCHANGED <<panicked, uses>>,
         ~UsableLock(l) => \A q \in Procs \ {p} : at[q] = "out",
         \A q \in Procs \ {p} :
           at[q] = "excl" /\ sleep[q] = "asleep" /\ q \notin woken => l.sharecount # 0,
         SleepsSucceed /\ Waiters \ (woken \union {p}) # {} =>
           \/ l.sharecount # 0 \/ l.exclusivecount # 0
           \/ \E q \in Waiting \ {p} : sleep[q] \in {"woken", "failed"}
  PROVE  IInv'
<1> DEFINE drained == "WAITDRAIN" \in l.flags /\ Unused(l)
           roused  == woken \union (IF drained THEN Drainers ELSE {})
<1>0. TypeOK /\ WaitersInv /\ SleepersInv /\ l \in LockRec
  BY DEF IInv, Before
<1>1. /\ lk' \in LockRec
      /\ lk'.sharecount = l.sharecount /\ lk'.exclusivecount = l.exclusivecount
      /\ lk'.lockholder = l.lockholder /\ lk'.waitcount = l.waitcount
      /\ lk'.flags = IF drained THEN l.flags \ {"WAITDRAIN"} ELSE l.flags
  BY <1>0 DEF Return, ClearFlags, LockRec, LkFlags
<1>2. /\ at'[p] = "out" /\ sleep'[p] = "no"
      /\ \A q \in Procs \ {p} : /\ at'[q] = at[q] /\ extflags'[q] = extflags[q]
                               /\ sleep'[q] = IF q \in roused THEN "woken" ELSE sleep[q]
      /\ extflags'[p] = {}
  BY <1>0 DEF Return, TypeOK
<1>3. TypeOK'
  <2>1. /\ at' \in [Procs -> {"out", "shared", "want", "excl", "drain"}]
        /\ extflags' \in [Procs -> SUBSET ExtFlags]
    BY <1>0 DEF Return, TypeOK
  <2>2. sleep' \in [Procs -> {"no", "asleep", "woken", "failed"}]
    BY <1>0 DEF Return, TypeOK
  <2>3. \A q \in Procs : extflags'[q] \in uses'[q] \union {{}}
    BY <1>0, <1>2 DEF TypeOK
  <2>4. shared' \in [Procs -> Nat] /\ exclusive' \in [Procs -> Nat]
    BY FlagsAssumption DEF HeldTypes
  <2> QED BY <1>0, <1>1, <1>2, <2>1, <2>2, <2>3, <2>4 DEF TypeOK, LockRec
<1>4. HoldersOf(lk, shared, exclusive)' /\ HeldTypes(shared, exclusive)'
  BY <1>1 DEF HoldersOf, HeldTypes, Instances
<1>5. WaitersInv'
  <2>1. lk'.waitcount = Cardinality(Waiting')
    BY <1>1, <1>2, WaitersCountedAfter DEF Before, Queued
  <2>2. "WANT_EXCL" \in lk'.flags <=> \E q \in Procs : at'[q] = "excl"
    BY <1>1, <1>2 DEF Before
  <2>3. /\ \A q, r \in Procs : at'[q] = "excl" /\ at'[r] = "excl" => q = r
        /\ \A q, r \in Procs : at'[q] = "drain" /\ at'[r] = "drain" => q = r
    BY <1>0, <1>2 DEF WaitersInv
  <2>4. roused \subseteq {q \in Procs : at[q] # "out"}
    BY DEF Waiters, Drainers
  <2>5. \A q \in Procs : /\ at'[q] = "out" <=> sleep'[q] = "no"
                         /\ at'[q] # "out" => HoldsNothing(q)'
                         /\ sleep'[q] = "failed" => "CATCH" \in extflags'[q]
    BY <1>0, <1>2, <2>4 DEF WaitersInv, HoldsNothing
  <2>6. ~Usable' => \A q \in Procs : at'[q] = "out"
    BY <1>1, <1>2 DEF UsableLock, Usable
  <2> QED BY <2>1, <2>2, <2>3, <2>5, <2>6 DEF WaitersInv
<1>6. SleepersInv'
  <2>1. ASSUME NEW q \in Procs, at'[q] = "excl", sleep'[q] = "asleep"
        PROVE  lk'.sharecount # 0
    BY <1>1, <1>2, <2>1
  <2>2. ASSUME SleepsSucceed', Waiters' # {}
        PROVE  \/ lk'.sharecount # 0 \/ lk'.exclusivecount # 0
               \/ \E q \in Waiting' : sleep'[q] \in {"woken", "failed"}
    <3>1. SleepsSucceed
      BY <2>2 DEF SleepsSucceed
    <3>2. Waiters \ (woken \union {p}) # {}
      BY <1>2, <2>2 DEF Waiters
    <3>3. ASSUME NEW q \in Waiting \ {p}, sleep[q] \in {"woken", "failed"}
          PROVE  q \in Waiting' /\ sleep'[q] \in {"woken", "failed"}
      BY <1>2, <3>3 DEF Waiting, Queued
    <3> QED BY <1>1, <3>1, <3>2, <3>3
  <2>3. ASSUME Drainers' # {}
        PROVE  "WAITDRAIN" \in lk'.flags /\ ~Unused(lk')
    <3>1. ~drained
      BY <1>2, <2>3 DEF Drainers
    <3>2. Drainers \ {p} # {}
      BY <1>2, <2>3 DEF Drainers
    <3>3. "WAITDRAIN" \in l.flags
      BY <3>2 DEF Before
    <3> QED BY <1>1, <3>1, <3>3 DEF Unused, ExclPending
  <2> QED BY <2>1, <2>2, <2>3 DEF SleepersInv
<1> QED BY <1>3, <1>4, <1>5, <1>6 DEF IInv

-----------------------------------------------------------------------------
(***************************************************************************)
(* Getting the lock.                                                       *)
(***************************************************************************)

\* A lock that is not held exclusively has no exclusive instances, and one
\* with no shared count has no shared ones.
LEMMA NotHeld ==
  ASSUME IInv, NEW l \in LockRec, HoldersOf(l, shared, exclusive)
  PROVE  /\ "HAVE_EXCL" \notin l.flags =>
              /\ l.exclusivecount = 0 /\ l.lockholder = LK_NOPROC
              /\ \A q \in Procs : exclusive[q] = 0
         /\ "HAVE_EXCL" \in l.flags => l.exclusivecount # 0 /\ l.lockholder \in Procs
         /\ l.sharecount = 0 <=> \A q \in Procs : shared[q] = 0
<1>1. MaxHold + 1 \in Nat /\ shared \in [Procs -> 0..(MaxHold + 1)]
  BY FlagsAssumption DEF IInv, HeldTypes
<1>2. l.sharecount = 0 <=> \A q \in Procs : shared[q] = 0
  BY <1>1, NoInstances DEF HoldersOf
<1>3. "HAVE_EXCL" \notin l.flags =>
        /\ l.exclusivecount = 0 /\ l.lockholder = LK_NOPROC
        /\ \A q \in Procs : exclusive[q] = 0
  BY ProcsAssumption DEF HoldersOf
<1>4. "HAVE_EXCL" \in l.flags => l.exclusivecount # 0 /\ l.lockholder \in Procs
  BY DEF HoldersOf, LockRec
<1> QED BY <1>2, <1>3, <1>4

\* p gets what its request waited for.
LEMMA DoneKeeps ==
  ASSUME IInv, NEW p \in Procs, NEW where \in {"shared", "excl", "drain"}, NEW l,
         Before(p, l, where = "excl"), HoldersOf(l, shared, exclusive), UsableLock(l),
         ~Wanted(l, where), where = "excl" => "HAVE_EXCL" \notin l.flags,
         HoldsNothing(p), Done(p, where, l),
         where = "drain" => \A q \in Procs \ {p} : at[q] # "drain"
  PROVE  IInv'
<1> DEFINE g == Granted(l, where, p)
<1>0. TypeOK /\ l \in LockRec /\ HeldTypes(shared, exclusive)
  BY DEF IInv, Before
<1>1. "HAVE_EXCL" \notin l.flags
  BY DEF Wanted, Unused, ExclPending
<1>2. /\ l.exclusivecount = 0 /\ l.lockholder = LK_NOPROC
      /\ \A q \in Procs : exclusive[q] = 0
  BY <1>0, <1>1, NotHeld
<1>3. /\ Return(p, g, {}) /\ UNCHANGED <<panicked, uses>>
      /\ IF where = "shared"
           THEN shared' = [shared EXCEPT ![p] = @ + 1] /\ UNCHANGED exclusive
           ELSE exclusive' = [exclusive EXCEPT ![p] = 1] /\ UNCHANGED shared
  BY <1>2 DEF Done
<1>4. /\ shared[p] = 0 /\ exclusive[p] = 0 /\ MaxHold \in Nat \ {0}
  BY FlagsAssumption DEF HoldsNothing
<1>5. CASE where = "shared"
  <2>1. /\ g \in LockRec /\ g.sharecount = l.sharecount + 1
        /\ g.flags = l.flags /\ g.waitcount = l.waitcount
        /\ g.exclusivecount = l.exclusivecount /\ g.lockholder = l.lockholder
    BY <1>0, <1>5 DEF Granted, LockRec
  <2>2. HeldTypes(shared', exclusive')
    BY <1>0, <1>3, <1>4, <1>5 DEF HeldTypes
  <2>3. Cardinality(Instances(shared')) = Cardinality(Instances(shared)) + 1
    <3>1. shared'[p] = shared[p] + 1 /\ \A q \in Procs \ {p} : shared'[q] = shared[q]
      BY <1>0, <1>3, <1>5 DEF HeldTypes
    <3>2. MaxHold + 1 \in Nat /\ shared \in [Procs -> 0..(MaxHold + 1)]
      BY <1>0, <1>4 DEF HeldTypes
    <3> QED BY <3>1, <3>2, OneMore
  <2>4. HoldersOf(g, shared', exclusive')
    BY <1>1, <1>3, <1>5, <2>1, <2>3 DEF HoldersOf
  <2>5. Before(p, g, FALSE)
    BY <1>5, <2>1 DEF Before
  <2>6. g.sharecount # 0 /\ UsableLock(g)
    BY <1>0, <2>1 DEF LockRec, UsableLock
  <2>7. \A q \in Procs \ {p} : shared'[q] = shared[q] /\ exclusive'[q] = exclusive[q]
    BY <1>0, <1>3, <1>5 DEF HeldTypes
  <2>8. {} \in SUBSET Waiters
    OBVIOUS
  <2> QED BY <1>3, <2>2, <2>4, <2>5, <2>6, <2>7, <2>8, ReturnKeeps
<1>6. CASE where \in {"excl", "drain"}
  <2>1. /\ g \in LockRec /\ g.sharecount = l.sharecount /\ g.waitcount = l.waitcount
        /\ g.exclusivecount = 1 /\ g.lockholder = p
        /\ g.flags = IF where = "excl" THEN (l.flags \ {"WANT_EXCL"}) \union {"HAVE_EXCL"}
                     ELSE l.flags \union {"DRAINING", "HAVE_EXCL"}
    BY <1>0, <1>6 DEF Granted, LockRec, SetFlags, ClearFlags, LkFlags
  <2>2. HeldTypes(shared', exclusive')
    BY <1>0, <1>3, <1>4, <1>6 DEF HeldTypes
  <2>3. /\ exclusive'[p] = 1 /\ \A q \in Procs \ {p} : exclusive'[q] = 0
        /\ shared' = shared
    BY <1>0, <1>2, <1>3, <1>6 DEF HeldTypes
  <2>4. l.sharecount = 0 /\ "WANT_EXCL" \notin g.flags
    BY <1>6, <2>1 DEF Wanted, Unused, ExclPending
  <2>5. HoldersOf(g, shared', exclusive')
    BY <2>1, <2>3, <2>4, ProcsAssumption DEF HoldersOf
  <2>6. Before(p, g, FALSE)
    BY <1>6, <2>1, <2>4 DEF Before
  <2>7. ASSUME ~UsableLock(g), NEW q \in Procs \ {p}
        PROVE  at[q] = "out"
    <3>1. where = "drain" /\ l.waitcount = 0
      BY <1>6, <2>1, <2>7 DEF UsableLock, Wanted, Unused
    <3>2. WaitingBut(p) = {}
      <4>1. IsFiniteSet(WaitingBut(p))
        BY ProcsAssumption, FS_Subset DEF WaitingBut
      <4> QED BY <3>1, <4>1, FS_EmptySet DEF Before
    <3> QED BY <3>1, <3>2, Inside DEF WaitingBut, Queued
  <2>8. \A q \in Procs \ {p} : at[q] # "excl"
    BY <2>4, <2>6 DEF Before
  <2>9. \A q \in Procs \ {p} : shared'[q] = shared[q] /\ exclusive'[q] = exclusive[q]
    BY <1>2, <2>3
  <2>10. {} \in SUBSET Waiters /\ g.exclusivecount # 0
    BY <2>1
  <2> QED BY <1>3, <2>2, <2>5, <2>6, <2>7, <2>8, <2>9, <2>10, ReturnKeeps
<1> QED BY <1>5, <1>6

\* The rest of a request, from its call or from its sleep.
LEMMA GoOnKeeps ==
  ASSUME IInv, NEW p \in Procs, NEW where \in {"shared", "want", "excl", "drain"},
         NEW l, NEW fl \in uses[p] \union {{}},
         Before(p, l, where = "excl"), HoldersOf(l, shared, exclusive), UsableLock(l),
         where = "excl" => "HAVE_EXCL" \notin l.flags,
         HoldsNothing(p), GoOn(p, where, l, fl),
         where = "drain" => /\ at[p] \in {"out", "drain"}
                            /\ \A q \in Procs \ {p} : at[q] # "drain"
  PROVE  IInv'
<1>1. CASE Wanted(l, where) /\ SleepIn(p, where, l, fl)
  BY <1>1, SleepInKeeps
<1>2. CASE ~Wanted(l, where) /\ where # "want" /\ Done(p, where, l)
  BY <1>2, DoneKeeps
<1>3. CASE ~Wanted(l, where) /\ where = "want"
  <2> DEFINE l2 == SetFlags(l, {"WANT_EXCL"})
  <2>0. l \in LockRec
    BY DEF Before
  <2>1. /\ l2 \in LockRec /\ l2.flags = l.flags \union {"WANT_EXCL"}
        /\ l2.sharecount = l.sharecount /\ l2.waitcount = l.waitcount
        /\ l2.exclusivecount = l.exclusivecount /\ l2.lockholder = l.lockholder
    BY <2>0 DEF SetFlags, LockRec, LkFlags
  <2>2. "HAVE_EXCL" \notin l.flags /\ "WANT_EXCL" \notin l.flags
    BY <1>3 DEF Wanted, ExclPending
  <2>3. HoldersOf(l2, shared, exclusive) /\ UsableLock(l2) /\ "HAVE_EXCL" \notin l2.flags
    BY <2>1, <2>2 DEF HoldersOf, UsableLock
  <2>4. Before(p, l2, TRUE)
    BY <1>3, <2>1, <2>2 DEF Before
  <2>5. CASE Wanted(l2, "excl") /\ SleepIn(p, "excl", l2, fl)
    BY <2>3, <2>4, <2>5, SleepInKeeps
  <2>6. CASE ~Wanted(l2, "excl") /\ Done(p, "excl", l2)
    BY <2>3, <2>4, <2>6, DoneKeeps
  <2> QED BY <1>3, <2>5, <2>6 DEF GoOn
<1> QED BY <1>1, <1>2, <1>3 DEF GoOn

-----------------------------------------------------------------------------
(***************************************************************************)
(* The calls.                                                              *)
(***************************************************************************)

\* A process that calls lockmgr is not counted in the lock.
LEMMA Calling ==
  ASSUME IInv, NEW p \in Procs, Idle(p)
  PROVE  Before(p, lk, FALSE) /\ HoldersOf(lk, shared, exclusive) /\ p \notin Waiting
<1>1. at[p] = "out"
  BY DEF Idle
<1>2. lk.waitcount = Cardinality(WaitingBut(p))
  BY <1>1, WaitersCounted DEF IInv, WaitersInv, Queued
<1> QED BY <1>1, <1>2
        DEF IInv, TypeOK, LockRec, WaitersInv, SleepersInv, Before, Waiting, Queued

\* A call that fails leaves everything as it is.
LEMMA FailedCallKeeps ==
  ASSUME IInv, NEW p \in Procs, Idle(p), Usable, Failed(p, lk)
  PROVE  IInv'
<1>1. Before(p, lk, FALSE) /\ HoldersOf(lk, shared, exclusive) /\ p \notin Waiting
  BY Calling
<1>2. Return(p, lk, {}) /\ UNCHANGED <<shared, exclusive, panicked, uses>>
  BY DEF Failed
<1>3. HeldTypes(shared', exclusive') /\ HoldersOf(lk, shared', exclusive')
  BY <1>1, <1>2 DEF IInv, HeldTypes, HoldersOf
<1>4. UsableLock(lk) /\ {} \in SUBSET Waiters
  BY DEF Usable, UsableLock
<1>5. \A q \in Procs : at[q] = "excl" /\ sleep[q] = "asleep" => lk.sharecount # 0
  BY DEF IInv, SleepersInv
<1>6. SleepsSucceed /\ Waiters # {} =>
        \/ lk.sharecount # 0 \/ lk.exclusivecount # 0
        \/ \E q \in Waiting \ {p} : sleep[q] \in {"woken", "failed"}
  BY <1>1 DEF IInv, SleepersInv
<1> QED BY <1>1, <1>2, <1>3, <1>4, <1>5, <1>6, ReturnKeeps

\* LK_SHARED, LK_EXCLUSIVE and LK_DRAIN.
LEMMA RequestKeeps ==
  ASSUME IInv, NEW p \in Procs, NEW type \in Types, NEW fl \in uses[p],
         Request(p, type, fl)
  PROVE  IInv'
<1>1. CASE Failed(p, lk)
  BY <1>1, FailedCallKeeps DEF Request
<1>2. CASE GoOn(p, First(type), lk, fl)
  <2>1. First(type) \in {"shared", "want", "drain"}
    BY DEF First
  <2>2. First(type) = "drain" => \A q \in Procs : at[q] # "drain"
    BY FlagsAssumption DEF Request, First
  <2>3. Idle(p) /\ UsableLock(lk) /\ HoldsNothing(p) /\ at[p] = "out"
    BY DEF Request, Usable, UsableLock, Idle
  <2>4. Before(p, lk, First(type) = "excl") /\ HoldersOf(lk, shared, exclusive)
    BY <2>1, <2>3, Calling DEF Before
  <2> QED BY <1>2, <2>1, <2>2, <2>3, <2>4, GoOnKeeps
<1> QED BY <1>1, <1>2 DEF Request

\* The exclusive holder, when it calls lockmgr.
LEMMA HolderCalls ==
  ASSUME IInv, NEW p \in Procs, lk.lockholder = p
  PROVE  /\ exclusive[p] # 0 /\ exclusive[p] = lk.exclusivecount /\ lk.sharecount = 0
         /\ "HAVE_EXCL" \in lk.flags /\ "WANT_EXCL" \notin lk.flags
         /\ \A q \in Procs : shared[q] = 0 /\ (q # p => exclusive[q] = 0)
         /\ \A q \in Procs : at[q] # "excl"
         /\ lk \in LockRec
<1>1. lk \in LockRec /\ HoldersOf(lk, shared, exclusive)
  BY DEF IInv, TypeOK, LockRec
<1>2. /\ exclusive[p] # 0 /\ exclusive[p] = lk.exclusivecount /\ lk.sharecount = 0
      /\ "HAVE_EXCL" \in lk.flags /\ "WANT_EXCL" \notin lk.flags
      /\ \A q \in Procs : q # p => exclusive[q] = 0
  BY <1>1, ProcsAssumption DEF HoldersOf
<1>3. \A q \in Procs : shared[q] = 0
  BY <1>1, <1>2, NotHeld
<1>4. \A q \in Procs : at[q] # "excl"
  BY <1>2 DEF IInv, WaitersInv
<1> QED BY <1>1, <1>2, <1>3, <1>4

\* LK_EXCLUSIVE by the exclusive holder.
LEMMA RecurseKeeps ==
  ASSUME IInv, NEW p \in Procs, NEW fl \in uses[p], Recurse(p, fl)
  PROVE  IInv'
<1>1. CASE Failed(p, lk)
  BY <1>1, FailedCallKeeps DEF Recurse
<1>2. CASE ~Failed(p, lk)
  <2> DEFINE l == [lk EXCEPT !.exclusivecount = @ + 1]
  <2>0. /\ Idle(p) /\ lk.lockholder = p /\ exclusive[p] < MaxHold /\ Return(p, l, {})
        /\ exclusive' = [exclusive EXCEPT ![p] = @ + 1] /\ shared' = shared
        /\ UNCHANGED <<panicked, uses>> /\ UsableLock(lk)
    BY <1>2 DEF Recurse, Usable, UsableLock
  <2>1. /\ Before(p, lk, FALSE) /\ HoldersOf(lk, shared, exclusive)
        /\ HeldTypes(shared, exclusive) /\ MaxHold \in Nat
    BY <2>0, Calling, FlagsAssumption DEF IInv
  <2>2. /\ exclusive[p] # 0 /\ exclusive[p] = lk.exclusivecount
        /\ \A q \in Procs : shared[q] = 0 /\ (q # p => exclusive[q] = 0)
        /\ \A q \in Procs : at[q] # "excl"
        /\ lk \in LockRec
    BY <2>0, HolderCalls
  <2>3. /\ l \in LockRec /\ l.exclusivecount = lk.exclusivecount + 1
        /\ l.sharecount = lk.sharecount /\ l.waitcount = lk.waitcount
        /\ l.flags = lk.flags /\ l.lockholder = p
    BY <2>0, <2>2 DEF LockRec
  <2>4. /\ exclusive'[p] = exclusive[p] + 1
        /\ \A q \in Procs \ {p} : exclusive'[q] = exclusive[q] /\ shared'[q] = shared[q]
    BY <2>0, <2>1 DEF HeldTypes
  <2>5. HeldTypes(shared', exclusive')
    BY <2>0, <2>1 DEF HeldTypes
  <2>6. exclusive[p] \in Nat
    BY <2>1 DEF HeldTypes
  <2>7. HoldersOf(l, shared', exclusive')
    BY <2>0, <2>1, <2>2, <2>3, <2>4, <2>6, ProcsAssumption DEF HoldersOf
  <2>8. Before(p, l, FALSE) /\ UsableLock(l) /\ l.exclusivecount # 0
    BY <2>0, <2>1, <2>2, <2>3, <2>6 DEF Before, UsableLock
  <2>9. {} \in SUBSET Waiters
    OBVIOUS
  <2> HIDE DEF l
  <2> QED BY <2>0, <2>2, <2>4, <2>5, <2>7, <2>8, <2>9, ReturnKeeps
<1> QED BY <1>1, <1>2

\* WAKEUP_WAITER of a lock with the right lk_waitcount wakes every waiter.
LEMMA WakesAll ==
  ASSUME IInv, NEW p \in Procs, NEW l, l.waitcount = lk.waitcount
  PROVE  WakeupWaiter(l) = Waiters
<1>1. lk.waitcount = Cardinality(Waiting)
  BY DEF IInv, WaitersInv
<1>2. Waiters # {} => Cardinality(Waiting) # 0
  BY Inside, WaitersCounted
<1> QED BY <1>1, <1>2 DEF WakeupWaiter

\* LK_SHARED by the exclusive holder.
LEMMA DowngradeKeeps ==
  ASSUME IInv, NEW p \in Procs, Downgrade(p)
  PROVE  IInv'
<1> DEFINE l == Downgraded(lk)
<1>0. Idle(p) /\ lk.lockholder = p /\ UsableLock(lk)
  BY DEF Downgrade, Usable, UsableLock
<1>1. /\ Before(p, lk, FALSE) /\ HoldersOf(lk, shared, exclusive)
      /\ HeldTypes(shared, exclusive) /\ MaxHold \in Nat
  BY <1>0, Calling, FlagsAssumption DEF IInv
<1>2. /\ exclusive[p] # 0 /\ exclusive[p] = lk.exclusivecount /\ lk.sharecount = 0
      /\ "HAVE_EXCL" \in lk.flags /\ "WANT_EXCL" \notin lk.flags
      /\ \A q \in Procs : shared[q] = 0 /\ (q # p => exclusive[q] = 0)
      /\ \A q \in Procs : at[q] # "excl"
      /\ lk \in LockRec
  BY <1>0, HolderCalls
<1>a. /\ Return(p, l, WakeupWaiter(lk))
      /\ shared' = [shared EXCEPT ![p] = @ + 1 + exclusive[p]]
      /\ exclusive' = [exclusive EXCEPT ![p] = 0]
      /\ UNCHANGED <<panicked, uses>>
  BY <1>2 DEF Downgrade
<1>3. exclusive[p] \in 0..MaxHold /\ exclusive[p] \in Nat
  BY <1>1 DEF HeldTypes
<1>4. /\ l \in LockRec /\ l.exclusivecount = 0 /\ l.lockholder = LK_NOPROC
      /\ l.sharecount = 1 + exclusive[p] /\ l.waitcount = lk.waitcount
      /\ l.flags = lk.flags \ {"HAVE_EXCL"}
  <2>1. /\ l.exclusivecount = 0 /\ l.lockholder = LK_NOPROC
        /\ l.sharecount = lk.sharecount + 1 + lk.exclusivecount
        /\ l.waitcount = lk.waitcount /\ l.flags = lk.flags \ {"HAVE_EXCL"}
    BY <1>2 DEF Downgraded, ClearFlags, LockRec
  <2>2. l.sharecount = 1 + exclusive[p]
    BY <1>2, <1>3, <2>1
  <2>3. lk.sharecount + 1 + lk.exclusivecount \in Nat
    BY <1>2 DEF LockRec
  <2>4. l \in LockRec
    BY <1>2, <2>3 DEF Downgraded, ClearFlags, LockRec, LkFlags
  <2> QED BY <2>1, <2>2, <2>4
<1>5. /\ shared'[p] = 1 + exclusive[p] /\ exclusive'[p] = 0
      /\ \A q \in Procs \ {p} : exclusive'[q] = exclusive[q] /\ shared'[q] = shared[q]
  BY <1>a, <1>1, <1>2, <1>3 DEF HeldTypes
<1>6. HeldTypes(shared', exclusive')
  BY <1>a, <1>1, <1>2, <1>3 DEF HeldTypes
<1>7. Cardinality(Instances(shared')) = 1 + exclusive[p]
  <2>1. shared'[p] \in Nat /\ \A q \in Procs \ {p} : shared'[q] = 0
    BY <1>2, <1>3, <1>5
  <2>2. Cardinality(Instances(shared')) = shared'[p]
    BY <2>1, AllWithOne
  <2> QED BY <1>5, <2>2
<1>8. HoldersOf(l, shared', exclusive')
  BY <1>2, <1>4, <1>5, <1>7, ProcsAssumption DEF HoldersOf
<1>9. Before(p, l, FALSE) /\ UsableLock(l) /\ l.sharecount # 0
  BY <1>0, <1>1, <1>2, <1>3, <1>4 DEF Before, UsableLock
<1>10. WakeupWaiter(lk) \in SUBSET Waiters
  BY DEF WakeupWaiter
<1> QED BY <1>0, <1>a, <1>5, <1>6, <1>8, <1>9, <1>10, ReturnKeeps

\* What LK_RELEASE does to the lock of an exclusive and of a shared holder.
LEMMA ReleasedHolders ==
  ASSUME IInv, NEW p \in Procs, ~HoldsNothing(p), NEW l \in LockRec,
         HoldersOf(l, shared, exclusive),
         IF exclusive[p] # 0
           THEN exclusive' = [exclusive EXCEPT ![p] = @ - 1] /\ UNCHANGED shared
           ELSE shared' = [shared EXCEPT ![p] = @ - 1] /\ UNCHANGED exclusive
  PROVE  /\ Released(l) \in LockRec
         /\ Released(l).waitcount = l.waitcount
         /\ Released(l).flags \in {l.flags, l.flags \ {"HAVE_EXCL"}}
         /\ HoldersOf(Released(l), shared', exclusive')
         /\ HeldTypes(shared', exclusive')
         /\ \A q \in Procs \ {p} : shared'[q] = shared[q] /\ exclusive'[q] = exclusive[q]
<1> DEFINE r == Released(l)
<1>0. HeldTypes(shared, exclusive) /\ MaxHold \in Nat /\ MaxHold + 1 \in Nat
  BY FlagsAssumption DEF IInv
<1>1. CASE exclusive[p] # 0
  <2>1. /\ l.lockholder = p /\ l.exclusivecount = exclusive[p] /\ exclusive[p] \in Nat
        /\ "HAVE_EXCL" \in l.flags /\ l.sharecount = 0
    BY <1>0, <1>1, ProcsAssumption DEF HoldersOf, HeldTypes
  <2>2. /\ exclusive'[p] = exclusive[p] - 1 /\ shared' = shared
        /\ \A q \in Procs \ {p} : exclusive'[q] = exclusive[q]
    BY <1>0, <1>1 DEF HeldTypes
  <2>3. HeldTypes(shared', exclusive')
    BY <1>0, <1>1 DEF HeldTypes
  <2>4. CASE exclusive[p] > 1
    <3>1. r = [l EXCEPT !.exclusivecount = @ - 1]
      BY <2>1, <2>4 DEF Released
    <3>2. /\ r \in LockRec /\ r.exclusivecount = exclusive[p] - 1
          /\ r.lockholder = p /\ r.flags = l.flags
          /\ r.sharecount = l.sharecount /\ r.waitcount = l.waitcount
      BY <2>1, <2>4, <3>1 DEF LockRec
    <3> HIDE DEF r
    <3>3. HoldersOf(r, shared', exclusive')
      <4>1. r.sharecount = Cardinality(Instances(shared'))
        BY <2>2, <3>2 DEF HoldersOf
      <4>2. r.exclusivecount = IF r.lockholder = LK_NOPROC THEN 0 ELSE exclusive'[r.lockholder]
        BY <2>1, <2>2, <2>4, <3>2, ProcsAssumption
      <4>3. \A q \in Procs \ {p} : exclusive'[q] = 0 /\ r.lockholder # q
        BY <2>1, <2>2, <3>2, ProcsAssumption DEF HoldersOf
      <4>4. exclusive'[p] # 0 <=> r.lockholder = p
        BY <2>1, <2>2, <2>4, <3>2, ProcsAssumption
      <4>5. /\ "HAVE_EXCL" \in r.flags <=> r.lockholder # LK_NOPROC
            /\ "HAVE_EXCL" \in r.flags => r.sharecount = 0 /\ "WANT_EXCL" \notin r.flags
        BY <2>1, <3>2, ProcsAssumption DEF HoldersOf
      <4> QED BY <4>1, <4>2, <4>3, <4>4, <4>5 DEF HoldersOf
    <3> USE DEF r
    <3> QED BY <2>2, <2>3, <3>2, <3>3
  <2>5. CASE exclusive[p] = 1
    <3>1. r = [ClearFlags(l, {"HAVE_EXCL"})
                 EXCEPT !.exclusivecount = 0, !.lockholder = LK_NOPROC]
      BY <2>1, <2>5 DEF Released
    <3>2. /\ r \in LockRec /\ r.exclusivecount = 0
          /\ r.lockholder = LK_NOPROC /\ r.flags = l.flags \ {"HAVE_EXCL"}
          /\ r.sharecount = l.sharecount /\ r.waitcount = l.waitcount
      <4> DEFINE c == ClearFlags(l, {"HAVE_EXCL"})
      <4>1. /\ c \in LockRec /\ c.flags = l.flags \ {"HAVE_EXCL"}
            /\ c.sharecount = l.sharecount /\ c.waitcount = l.waitcount
        BY DEF ClearFlags, LockRec
      <4> HIDE DEF c
      <4>2. r = [c EXCEPT !.exclusivecount = 0, !.lockholder = LK_NOPROC]
        BY <3>1 DEF c
      <4> HIDE DEF r
      <4> QED BY <4>1, <4>2 DEF LockRec
    <3> HIDE DEF r
    <3>3. HoldersOf(r, shared', exclusive')
      <4>1. r.sharecount = Cardinality(Instances(shared'))
        BY <2>2, <3>2 DEF HoldersOf
      <4>2. r.exclusivecount = IF r.lockholder = LK_NOPROC THEN 0 ELSE exclusive'[r.lockholder]
        BY <2>1, <2>2, <2>5, <3>2, ProcsAssumption
      <4>3. \A q \in Procs \ {p} : exclusive'[q] = 0 /\ r.lockholder # q
        BY <2>1, <2>2, <3>2, ProcsAssumption DEF HoldersOf
      <4>4. exclusive'[p] # 0 <=> r.lockholder = p
        BY <2>1, <2>2, <2>5, <3>2, ProcsAssumption
      <4>5. /\ "HAVE_EXCL" \in r.flags <=> r.lockholder # LK_NOPROC
            /\ "HAVE_EXCL" \in r.flags => r.sharecount = 0 /\ "WANT_EXCL" \notin r.flags
        BY <2>1, <3>2, ProcsAssumption DEF HoldersOf
      <4> QED BY <4>1, <4>2, <4>3, <4>4, <4>5 DEF HoldersOf
    <3> USE DEF r
    <3> QED BY <2>2, <2>3, <3>2, <3>3
  <2> QED BY <1>1, <2>1, <2>4, <2>5
<1>2. CASE exclusive[p] = 0
  <2>1. shared[p] # 0 /\ shared[p] \in Nat /\ shared \in [Procs -> 0..(MaxHold + 1)]
    BY <1>0, <1>2 DEF HoldsNothing, HeldTypes
  <2>2. l.sharecount # 0
    BY <2>1, NotHeld
  <2>3. l.exclusivecount = 0
    BY <2>2, NotHeld DEF HoldersOf
  <2>4. r = [l EXCEPT !.sharecount = @ - 1]
    BY <2>3 DEF Released
  <2>5. /\ r \in LockRec /\ r.exclusivecount = 0 /\ r.sharecount = l.sharecount - 1
        /\ r.lockholder = l.lockholder /\ r.flags = l.flags /\ r.waitcount = l.waitcount
    BY <2>2, <2>3, <2>4 DEF LockRec
  <2>6. /\ shared' = [shared EXCEPT ![p] = shared[p] - 1] /\ exclusive' = exclusive
        /\ \A q \in Procs \ {p} : shared'[q] = shared[q]
    BY <1>0, <1>2 DEF HeldTypes
  <2>7. HeldTypes(shared', exclusive')
    BY <1>0, <2>1, <2>6 DEF HeldTypes
  <2>8. Cardinality(Instances(shared')) = Cardinality(Instances(shared)) - 1
    BY <1>0, <2>1, <2>6, OneLess
  <2>9. HoldersOf(r, shared', exclusive')
    BY <2>2, <2>5, <2>6, <2>8 DEF HoldersOf
  <2> QED BY <2>5, <2>6, <2>7, <2>9
<1> QED BY <1>1, <1>2

\* LK_RELEASE.
LEMMA ReleaseKeeps ==
  ASSUME IInv, NEW p \in Procs, Release(p)
  PROVE  IInv'
<1> DEFINE l == IF "DRAINING" \in lk.flags
                  THEN SetFlags(ClearFlags(lk, {"DRAINING"}), {"DRAINED"}) ELSE lk
<1>0. Idle(p) /\ ~HoldsNothing(p) /\ lk \in LockRec
  BY DEF Release, IInv, TypeOK, LockRec
<1>1. Before(p, lk, FALSE) /\ HoldersOf(lk, shared, exclusive)
  BY <1>0, Calling
<1>2. /\ l \in LockRec /\ l.sharecount = lk.sharecount /\ l.waitcount = lk.waitcount
      /\ l.exclusivecount = lk.exclusivecount /\ l.lockholder = lk.lockholder
      /\ l.flags = IF "DRAINING" \in lk.flags
                     THEN (lk.flags \ {"DRAINING"}) \union {"DRAINED"} ELSE lk.flags
  BY <1>0 DEF SetFlags, ClearFlags, LockRec, LkFlags
<1>3. HoldersOf(l, shared, exclusive)
  BY <1>1, <1>2 DEF HoldersOf
<1>4. ~(\/ l.exclusivecount # 0 /\ l.lockholder # p
        \/ l.exclusivecount = 0 /\ l.sharecount = 0)
  <2>1. CASE exclusive[p] # 0
    BY <1>3, <2>1, ProcsAssumption DEF HoldersOf
  <2>2. CASE exclusive[p] = 0
    <3>1. l.sharecount # 0
      BY <1>0, <1>2, <1>3, <2>2, NotHeld DEF HoldsNothing
    <3>2. l.exclusivecount = 0
      BY <1>2, <1>3, <3>1, NotHeld DEF HoldersOf
    <3> QED BY <3>1, <3>2
  <2> QED BY <2>1, <2>2
<1>5. /\ Return(p, Released(l), WakeupWaiter(l))
      /\ IF exclusive[p] # 0
           THEN exclusive' = [exclusive EXCEPT ![p] = @ - 1] /\ UNCHANGED shared
           ELSE shared' = [shared EXCEPT ![p] = @ - 1] /\ UNCHANGED exclusive
      /\ UNCHANGED <<panicked, uses>>
  BY <1>4 DEF Release
<1>6. /\ Released(l) \in LockRec
      /\ Released(l).waitcount = l.waitcount
      /\ Released(l).flags \in {l.flags, l.flags \ {"HAVE_EXCL"}}
      /\ HoldersOf(Released(l), shared', exclusive')
      /\ HeldTypes(shared', exclusive')
      /\ \A q \in Procs \ {p} : shared'[q] = shared[q] /\ exclusive'[q] = exclusive[q]
  BY <1>0, <1>2, <1>3, <1>5, ReleasedHolders
<1>7. Before(p, Released(l), FALSE)
  BY <1>1, <1>2, <1>6 DEF Before
<1>8. WakeupWaiter(l) = Waiters
  BY <1>2, WakesAll
<1>9. ~UsableLock(Released(l)) => \A q \in Procs \ {p} : at[q] = "out"
  BY <1>2, <1>6 DEF IInv, WaitersInv, Usable, UsableLock
<1>10. \A q \in Procs : at[q] = "excl" /\ sleep[q] = "asleep" => q \in Waiters
  BY DEF Waiters
<1>11. WakeupWaiter(l) \in SUBSET Waiters /\ Waiters \ (WakeupWaiter(l) \union {p}) = {}
  BY <1>8
<1> HIDE DEF l
<1> QED BY <1>5, <1>6, <1>7, <1>8, <1>9, <1>10, <1>11, ReturnKeeps

-----------------------------------------------------------------------------
\* A timeout or a signal ends a sleep.
LEMMA SleepFailsKeeps ==
  ASSUME IInv, NEW p \in Procs, SleepFails(p)
  PROVE  IInv'
<1>0. TypeOK /\ WaitersInv /\ SleepersInv
  BY DEF IInv
<1>1. /\ sleep[p] = "asleep" /\ sleep'[p] = "failed" /\ "CATCH" \in extflags[p]
      /\ \A q \in Procs \ {p} : sleep'[q] = sleep[q]
      /\ UNCHANGED <<lk, at, extflags, shared, exclusive, panicked, uses>>
  BY <1>0 DEF SleepFails, TypeOK
<1>2. TypeOK'
  BY <1>0 DEF SleepFails, TypeOK
<1>3. (HoldersOf(lk, shared, exclusive) /\ HeldTypes(shared, exclusive))'
  BY <1>1 DEF IInv, HoldersOf, HeldTypes, Instances
<1>4. WaitersInv'
  <2>1. Waiting' = Waiting
    BY <1>1 DEF Waiting
  <2>2. \A q \in Procs : at[q] = "out" <=> sleep'[q] = "no"
    BY <1>0, <1>1 DEF WaitersInv
  <2>3. \A q \in Procs : sleep'[q] = "failed" => "CATCH" \in extflags[q]
    BY <1>0, <1>1 DEF WaitersInv
  <2> QED BY <1>0, <1>1, <2>1, <2>2, <2>3 DEF WaitersInv, HoldsNothing, Usable
<1>5. SleepersInv'
  <2>1. Waiters' \subseteq Waiters /\ Drainers' \subseteq Drainers /\ Waiting' = Waiting
    BY <1>1 DEF Waiters, Drainers, Waiting
  <2>2. \A q \in Waiting : sleep[q] \in {"woken", "failed"} =>
          sleep'[q] \in {"woken", "failed"}
    BY <1>1 DEF Waiting
  <2>3. SleepsSucceed' <=> SleepsSucceed
    BY <1>1 DEF SleepsSucceed
  <2>4. \A q \in Procs : at'[q] = "excl" /\ sleep'[q] = "asleep" => lk'.sharecount # 0
    BY <1>0, <1>1 DEF SleepersInv
  <2> QED BY <1>0, <1>1, <2>1, <2>2, <2>3, <2>4 DEF SleepersInv
<1> QED BY <1>1, <1>2, <1>3, <1>4, <1>5 DEF IInv

\* The lock once a process is back from tsleep: it is not counted, but it
\* has LK_WANT_EXCL if it waited with it.
LEMMA Resuming ==
  ASSUME IInv, NEW p \in Procs, sleep[p] \in {"woken", "failed"}
  PROVE  /\ at[p] \in {"shared", "want", "excl", "drain"}
         /\ Before(p, Uncounted(p), at[p] = "excl")
         /\ HoldersOf(Uncounted(p), shared, exclusive) /\ UsableLock(Uncounted(p))
         /\ Uncounted(p).flags = lk.flags /\ Uncounted(p).sharecount = lk.sharecount
         /\ Uncounted(p).exclusivecount = lk.exclusivecount
         /\ HoldsNothing(p)
         /\ at[p] = "excl" => "HAVE_EXCL" \notin lk.flags
<1> DEFINE l == Uncounted(p)
<1>0. TypeOK /\ WaitersInv /\ SleepersInv /\ HoldersOf(lk, shared, exclusive) /\ lk \in LockRec
  BY DEF IInv, TypeOK, LockRec
<1>1. at[p] \in {"shared", "want", "excl", "drain"}
  BY <1>0 DEF TypeOK, WaitersInv
<1>2. HoldsNothing(p) /\ UsableLock(lk)
  BY <1>0, <1>1 DEF WaitersInv, Usable, UsableLock
<1>3. l.waitcount = Cardinality(WaitingBut(p)) /\ l \in LockRec
  <2>1. CASE at[p] = "drain"
    BY <1>0, <2>1, WaitersCounted DEF Uncounted, WaitersInv, Queued
  <2>2. CASE at[p] # "drain"
    <3>1. lk.waitcount = Cardinality(WaitingBut(p)) + 1 /\ Cardinality(WaitingBut(p)) \in Nat
      BY <1>0, <1>1, <2>2, WaitersCounted DEF WaitersInv, Queued
    <3> QED BY <1>0, <2>2, <3>1 DEF Uncounted, LockRec
  <2> QED BY <2>1, <2>2
<1>4. /\ l.flags = lk.flags /\ l.sharecount = lk.sharecount
      /\ l.exclusivecount = lk.exclusivecount /\ l.lockholder = lk.lockholder
  BY <1>0 DEF Uncounted, LockRec
<1>5. HoldersOf(l, shared, exclusive) /\ UsableLock(l)
  BY <1>0, <1>2, <1>4 DEF HoldersOf, UsableLock
<1>6. Before(p, l, at[p] = "excl")
  <2>1. "WANT_EXCL" \in l.flags <=> at[p] = "excl" \/ \E q \in Procs \ {p} : at[q] = "excl"
    BY <1>0, <1>4 DEF WaitersInv
  <2>2. at[p] = "excl" => \A q \in Procs \ {p} : at[q] # "excl"
    BY <1>0 DEF WaitersInv
  <2>3. Drainers \ {p} # {} => "WAITDRAIN" \in l.flags
    BY <1>0, <1>4 DEF SleepersInv
  <2> QED BY <1>3, <2>1, <2>2, <2>3 DEF Before
<1>7. at[p] = "excl" => "HAVE_EXCL" \notin lk.flags
  BY <1>0 DEF WaitersInv, HoldersOf
<1> QED BY <1>1, <1>2, <1>4, <1>5, <1>6, <1>7

\* The request fails after its sleep.
LEMMA FailedWhileWaitingKeeps ==
  ASSUME IInv, NEW p \in Procs, sleep[p] \in {"woken", "failed"},
         sleep[p] = "failed" \/ {"SLEEPFAIL", "CATCH"} \intersect extflags[p] # {},
         FailedWhileWaiting(p)
  PROVE  IInv'
<1> DEFINE u == Uncounted(p)
           l == IF at[p] = "excl" THEN ClearFlags(u, {"WANT_EXCL"}) ELSE u
<1>0. TypeOK /\ WaitersInv /\ SleepersInv
  BY DEF IInv
<1>1. /\ Before(p, u, at[p] = "excl") /\ HoldersOf(u, shared, exclusive) /\ UsableLock(u)
      /\ u.sharecount = lk.sharecount /\ u \in LockRec
      /\ at[p] = "excl" => "HAVE_EXCL" \notin u.flags
  BY Resuming DEF Before
<1>2. /\ l \in LockRec /\ l.sharecount = lk.sharecount /\ l.waitcount = u.waitcount
      /\ l.exclusivecount = u.exclusivecount /\ l.lockholder = u.lockholder
      /\ l.flags = IF at[p] = "excl" THEN u.flags \ {"WANT_EXCL"} ELSE u.flags
  BY <1>1 DEF ClearFlags, LockRec, LkFlags
<1>3. Before(p, l, FALSE) /\ UsableLock(l)
  BY <1>1, <1>2 DEF Before, UsableLock
<1>4. Return(p, l, {}) /\ UNCHANGED <<shared, exclusive, panicked, uses>>
  BY DEF FailedWhileWaiting, Failed
<1>5. HoldersOf(l, shared', exclusive') /\ HeldTypes(shared', exclusive')
  BY <1>1, <1>2, <1>4 DEF IInv, HoldersOf, HeldTypes
<1>6. ~SleepsSucceed
  <2>1. {"SLEEPFAIL", "CATCH"} \intersect extflags[p] # {}
    BY <1>0 DEF WaitersInv
  <2>2. extflags[p] \in uses[p]
    BY <1>0, <2>1 DEF TypeOK
  <2> QED BY <2>1, <2>2 DEF SleepsSucceed
<1>7. \A q \in Procs : at[q] = "excl" /\ sleep[q] = "asleep" => l.sharecount # 0
  BY <1>0, <1>2 DEF SleepersInv
<1>8. {} \in SUBSET Waiters
  OBVIOUS
<1> QED BY <1>3, <1>4, <1>5, <1>6, <1>7, <1>8, ReturnKeeps

\* tsleep has returned.
LEMMA ResumeKeeps ==
  ASSUME IInv, NEW p \in Procs, Resume(p)
  PROVE  IInv'
<1>1. CASE FailedWhileWaiting(p) /\ (sleep[p] = "failed"
                \/ {"SLEEPFAIL", "CATCH"} \intersect extflags[p] # {})
  BY <1>1, FailedWhileWaitingKeeps DEF Resume
<1>2. CASE GoOn(p, at[p], Uncounted(p), extflags[p])
  <2>1. /\ at[p] \in {"shared", "want", "excl", "drain"}
        /\ Before(p, Uncounted(p), at[p] = "excl")
        /\ HoldersOf(Uncounted(p), shared, exclusive) /\ UsableLock(Uncounted(p))
        /\ HoldsNothing(p)
        /\ at[p] = "excl" => "HAVE_EXCL" \notin Uncounted(p).flags
    BY Resuming DEF Resume
  <2>2. extflags[p] \in uses[p] \union {{}}
    BY DEF IInv, TypeOK
  <2>3. at[p] = "drain" => \A q \in Procs \ {p} : at[q] # "drain"
    BY DEF IInv, WaitersInv
  <2> QED BY <1>2, <2>1, <2>2, <2>3, GoOnKeeps
<1> QED BY <1>1, <1>2 DEF Resume

\* lockinit.
LEMMA InitIInv == Init => IInv
<1> SUFFICES ASSUME Init PROVE IInv
  OBVIOUS
<1>1. TypeOK /\ HeldTypes(shared, exclusive)
  <2>1. lk \in LockRec
    BY DEF Init, LockRec
  <2>2. MaxHold \in Nat /\ 0 \in 0..MaxHold /\ 0 \in 0..(MaxHold + 1)
    BY FlagsAssumption
  <2>3. HeldTypes(shared, exclusive)
    BY <2>2 DEF Init, HeldTypes
  <2> QED BY <2>1, <2>3 DEF Init, TypeOK, LockRec
<1>2. HoldersOf(lk, shared, exclusive)
  <2>1. Cardinality(Instances(shared)) = 0
    BY <1>1, FlagsAssumption, NoInstances DEF Init, HeldTypes
  <2> QED BY <2>1, ProcsAssumption DEF Init, HoldersOf
<1>3. WaitersInv
  <2>1. Waiting = {}
    BY DEF Init, Waiting, Queued
  <2> QED BY <2>1, FS_EmptySet DEF Init, WaitersInv, HoldsNothing, Usable
<1>4. SleepersInv /\ ~panicked
  BY DEF Init, SleepersInv, Waiters, Drainers
<1> QED BY <1>1, <1>2, <1>3, <1>4 DEF IInv

\* Every step keeps the invariant.
LEMMA NextIInv == IInv /\ [Next]_vars => IInv'
<1> SUFFICES ASSUME IInv, [Next]_vars PROVE IInv'
  OBVIOUS
<1>1. CASE UNCHANGED vars
  BY <1>1 DEF vars, IInv, TypeOK, HeldTypes, HoldersOf, Instances, WaitersInv, Waiting,
              HoldsNothing, Usable, SleepersInv, SleepsSucceed, Waiters, Drainers
<1> QED BY <1>1, RequestKeeps, RecurseKeeps, DowngradeKeeps, ReleaseKeeps,
           SleepFailsKeeps, ResumeKeeps DEF Next

LEMMA Inductive == Spec => []IInv
BY InitIInv, NextIInv, PTL DEF Spec

-----------------------------------------------------------------------------
\* No call of panic in lockmgr is reached by processes that keep to the rules
\* of LockMgr, whatever sleeps fail.
THEOREM NeverPanics == Spec => []NoPanic
<1>1. IInv => NoPanic
  BY DEF IInv, NoPanic
<1> QED BY <1>1, Inductive, PTL

\* Exclusive holders are alone, and nobody but its holder is inside lockmgr
\* once a lock is drained.
THEOREM ExclusiveIsAlone == Spec => []Exclusion
<1>1. IInv => Exclusion
  <2> SUFFICES ASSUME IInv PROVE Exclusion
    OBVIOUS
  <2>1. ASSUME NEW p \in Procs, exclusive[p] # 0
        PROVE  shared[p] = 0 /\ \A q \in Procs \ {p} : HoldsNothing(q)
    <3>1. lk.lockholder = p
      BY <2>1 DEF IInv, HoldersOf
    <3> QED BY <3>1, HolderCalls DEF HoldsNothing
  <2>2. ~Usable => \A p \in Procs : at[p] = "out"
    BY DEF IInv, WaitersInv
  <2> QED BY <2>1, <2>2 DEF Exclusion
<1> QED BY <1>1, Inductive, PTL

\* lk_sharecount, lk_exclusivecount, lk_waitcount, lk_lockholder and
\* LK_WANT_EXCL tell exactly who holds the lock and who waits for it.
THEOREM CountsAreExact == Spec => []CountsExact
<1>1. IInv => CountsExact
  <2> SUFFICES ASSUME IInv PROVE CountsExact
    OBVIOUS
  <2>0. TypeOK /\ HoldersOf(lk, shared, exclusive) /\ WaitersInv /\ lk \in LockRec
    BY DEF IInv, TypeOK, LockRec
  <2>1. lk.exclusivecount = Cardinality(Instances(exclusive))
    <3>1. CASE lk.lockholder = LK_NOPROC
      <4>1. \A p \in Procs : exclusive[p] = 0
        BY <2>0, <3>1, ProcsAssumption DEF HoldersOf
      <4>2. MaxHold \in Nat /\ exclusive \in [Procs -> 0..MaxHold]
        BY FlagsAssumption DEF IInv, HeldTypes
      <4> QED BY <2>0, <3>1, <4>1, <4>2, NoInstances DEF HoldersOf
    <3>2. CASE lk.lockholder # LK_NOPROC
      <4>1. PICK p \in Procs : lk.lockholder = p
        BY <2>0, <3>2 DEF LockRec
      <4>2. \A q \in Procs \ {p} : exclusive[q] = 0
        BY <4>1, HolderCalls
      <4>3. exclusive[p] \in Nat /\ lk.exclusivecount = exclusive[p]
        BY <2>0, <4>1, HolderCalls DEF TypeOK
      <4> QED BY <4>2, <4>3, AllWithOne
    <3> QED BY <3>1, <3>2
  <2>2. Waiting = {p \in Procs : at[p] \in {"shared", "want", "excl"}}
    BY DEF Waiting, Queued
  <2>3. Cardinality({p \in Procs : at[p] = "excl"}) =
          IF "WANT_EXCL" \in lk.flags THEN 1 ELSE 0
    <3>1. CASE "WANT_EXCL" \in lk.flags
      <4>1. PICK p \in Procs : at[p] = "excl"
        BY <2>0, <3>1 DEF WaitersInv
      <4>2. {q \in Procs : at[q] = "excl"} = {p}
        BY <2>0, <4>1 DEF WaitersInv
      <4> QED BY <3>1, <4>2, FS_Singleton
    <3>2. CASE "WANT_EXCL" \notin lk.flags
      <4>1. {q \in Procs : at[q] = "excl"} = {}
        BY <2>0, <3>2 DEF WaitersInv
      <4> QED BY <3>2, <4>1, FS_EmptySet
    <3> QED BY <3>1, <3>2
  <2> QED BY <2>0, <2>1, <2>2, <2>3 DEF CountsExact, HoldersOf, WaitersInv
<1> QED BY <1>1, Inductive, PTL

\* A waiter of a lock whose sleeps do not fail has a holder or another
\* waiter to wake it, and the process that drains any lock is not forgotten.
THEOREM SleepersHaveWakers == Spec => []NobodyStranded
<1>1. IInv => NobodyStranded
  BY DEF IInv, SleepersInv, NobodyStranded, NoStrandedWaiter, Waiting
<1> QED BY <1>1, Inductive, PTL
=============================================================================
