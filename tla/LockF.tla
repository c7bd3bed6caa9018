-------------------------------- MODULE LockF -------------------------------
(***************************************************************************)
(* Advisory locks on one file, sys/kern/vfs_lockf.c: the list of byte-range *)
(* locks, the requests that sleep because of one of them, and the search   *)
(* for deadlocks.                                                          *)
(*                                                                         *)
(* The kernel lock makes everything between two sleeps one step.  Memory   *)
(* is there when a lock is split, so that lf_split does not sleep.  A      *)
(* request is known by the process that makes it.  A POSIX lock belongs to *)
(* the process too; every process that uses flock has a file of its own,   *)
(* which owns its locks and goes by the name of the process.               *)
(***************************************************************************)
EXTENDS Integers, Sequences, FiniteSets, FiniteSetsExt, SequencesExt

CONSTANTS
  Posix, Flockers,  \* processes that use fcntl, and flock
  Segments,         \* first and last byte of what fcntl is asked to lock
  LastByte,         \* bytes behind it are never told apart
  maxlockdepth,     \* MAXDEPTH
  maxlocksperuid

EOF == -1
Procs == Posix \union Flockers

ASSUME SegmentsAssumption ==
  /\ LastByte \in Nat /\ maxlockdepth \in Nat /\ maxlocksperuid \in Nat
  /\ Segments \subseteq (0 .. LastByte) \X (0 .. LastByte - 1 \union {EOF})
  /\ \A s \in Segments : s[2] = EOF \/ s[1] <= s[2]
  /\ Posix \cap Flockers = {}

VARIABLES
  lf_list,     \* the locks of the file, *head and on along lf_next
  ui_lockcnt,  \* struct lockf of the user; everybody is the same user
  request,     \* the lock each process is about to set
  pc           \* "idle", "asleep", "woken" or "interrupted"

vars == <<lf_list, ui_lockcnt, request, pc>>

\* lf_blkhd: the processes whose requests wait for the lock; such a request
\* has the lock as its lf_next.
Lock(id, seg, type) ==
  [lf_id |-> id, lf_start |-> seg[1], lf_end |-> seg[2], lf_type |-> type,
   lf_blkhd |-> <<>>]

NoRequest == [lf_id |-> "none"]

TypeOK ==
  LET IsLock(l) ==
        /\ l.lf_id \in Procs /\ l.lf_start \in 0 .. LastByte
        /\ l.lf_end = EOF \/ (l.lf_end \in 0 .. LastByte /\ l.lf_start <= l.lf_end)
        /\ l.lf_type \in {"RDLCK", "WRLCK"} /\ l.lf_blkhd \in Seq(Procs)
  IN /\ \A k \in DOMAIN lf_list : IsLock(lf_list[k])
     /\ pc \in [Procs -> {"idle", "asleep", "woken", "interrupted"}]
     /\ \A p \in Procs : IF pc[p] = "idle" THEN request[p] = NoRequest
                         ELSE IsLock(request[p]) /\ request[p].lf_blkhd = <<>>
     /\ ui_lockcnt \in Nat

Init ==
  /\ lf_list = <<>>
  /\ ui_lockcnt = 0
  /\ request = [p \in Procs |-> NoRequest]
  /\ pc = [p \in Procs |-> "idle"]

-----------------------------------------------------------------------------
(***************************************************************************)
(* Ranges: lf_findoverlap.                                                 *)
(***************************************************************************)

Overlap(l, m) ==
  /\ l.lf_end = EOF \/ m.lf_start <= l.lf_end
  /\ m.lf_end = EOF \/ l.lf_start <= m.lf_end

Conflict(l, m) ==
  l.lf_id # m.lf_id /\ Overlap(l, m) /\ "WRLCK" \in {l.lf_type, m.lf_type}

\* As if EOF were just another last byte.
EndsWithPlain(l, m) == l.lf_end >= m.lf_end

\* l ends no earlier than m.
EndsWith(l, m) == l.lf_end = EOF \/ (m.lf_end # EOF /\ l.lf_end >= m.lf_end)

\* How ov, a lock on the list, overlaps lock.
ovcase(ov, lock) ==
  IF ~Overlap(ov, lock) THEN 0
  ELSE IF ov.lf_start = lock.lf_start /\ ov.lf_end = lock.lf_end THEN 1
  ELSE IF ov.lf_start <= lock.lf_start /\ EndsWith(ov, lock) THEN 2
  ELSE IF lock.lf_start <= ov.lf_start /\ EndsWith(lock, ov) THEN 3
  ELSE IF ov.lf_start < lock.lf_start THEN 4 ELSE 5

\* The search for locks of the same owner ends at one that lies behind lock.
Behind(ov, lock) == lock.lf_end # EOF /\ ov.lf_start > lock.lf_end

\* lf_getblock: the first lock that blocks lock, 0 if there is none.
lf_getblock(list, lock) ==
  LET blocks == {k \in DOMAIN list : Conflict(list[k], lock)}
  IN IF blocks = {} THEN 0 ELSE Min(blocks)

\* What is left of ov before lock, and after it.
Before(ov, lock) == [ov EXCEPT !.lf_end = lock.lf_start - 1]
After(ov, lock)  == [ov EXCEPT !.lf_start = lock.lf_end + 1]

\* lf_split: ov contains lock and is cut into two or three parts, with mid
\* for the part that lock covers.  Only the first part keeps the waiters.
lf_split(ov, lock, mid) ==
  (IF ov.lf_start < lock.lf_start THEN <<Before(ov, lock)>> ELSE <<>>)
  \o mid \o
  (IF ov.lf_end # lock.lf_end THEN <<[After(ov, lock) EXCEPT !.lf_blkhd =
       IF ov.lf_start < lock.lf_start THEN <<>> ELSE @]>> ELSE <<>>)

\* lf_wakelock(ov) leaves ov without waiters.
Woken(ov) == [ov EXCEPT !.lf_blkhd = <<>>]

-----------------------------------------------------------------------------
(***************************************************************************)
(* The walks along the list.  A walk is a fold over the locks; it carries  *)
(* the list so far, where in it the new lock is linked (0: not yet), the   *)
(* processes to wake, the change in struct lockf's in use, and whether it  *)
(* is over.                                                                *)
(***************************************************************************)

Walk == [out |-> <<>>, at |-> 0, wake |-> {}, cnt |-> 0, done |-> FALSE]

Emit(w, locks) == [w EXCEPT !.out = @ \o locks]
Link(w, lock)  == IF w.at # 0 THEN w
                  ELSE [w EXCEPT !.out = Append(@, lock), !.at = Len(w.out) + 1]
Wake(w, ov)    == [w EXCEPT !.wake = @ \union ToSet(ov.lf_blkhd)]
Done(w, n)     == [w EXCEPT !.done = TRUE, !.cnt = @ + n]

\* A lock taken over without its waiters.
TakeOverAlone(w, lock, ov) == Link(w, lock)

\* The new lock takes over the waiters of ov.
TakeOver(w, lock, ov) ==
  LET v == Link(w, lock)
  IN [v EXCEPT !.out[v.at].lf_blkhd = @ \o ov.lf_blkhd]

Downgrade(lock, ov) == lock.lf_type = "RDLCK" /\ ov.lf_type = "WRLCK"

\* One lock on the way of lf_setlock, for an owner that nobody blocks.
SetStep(w, lock, ov) ==
  IF w.done \/ ov.lf_id # lock.lf_id THEN Emit(w, <<ov>>)
  ELSE CASE ovcase(ov, lock) = 0 ->
              IF Behind(ov, lock) THEN Done(Emit(Link(w, lock), <<ov>>), 0)
              ELSE Emit(w, <<ov>>)
         [] ovcase(ov, lock) = 1 ->
              LET new == [ov EXCEPT !.lf_type = lock.lf_type]
              IN IF Downgrade(lock, ov)
                 THEN Done(Emit(Wake(w, ov), <<Woken(new)>>), -1)
                 ELSE Done(Emit(w, <<new>>), -1)
         [] ovcase(ov, lock) = 2 ->
              IF ov.lf_type = lock.lf_type THEN Done(Emit(w, <<ov>>), -1)
              ELSE LET parts == lf_split(Woken(ov), lock, <<lock>>)
                   IN Done(Emit(Wake(w, ov), parts), Len(parts) - 2)
         [] ovcase(ov, lock) = 3 ->
              LET v == [w EXCEPT !.cnt = @ - 1]
              IN IF Downgrade(lock, ov) THEN Link(Wake(v, ov), lock)
                 ELSE TakeOver(v, lock, ov)
         [] ovcase(ov, lock) = 4 ->
              Link(Emit(Wake(w, ov), <<Woken(Before(ov, lock))>>), lock)
         [] ovcase(ov, lock) = 5 ->
              Done(Emit(Wake(Link(w, lock), ov), <<Woken(After(ov, lock))>>), 0)

\* The list once lock is added, and who is woken.
AddLock(list, lock) ==
  LET Pass(w, ov) == SetStep(w, lock, ov)
      w == FoldLeft(Pass, Walk, list)
  IN IF w.done THEN w ELSE Link(w, lock)

\* One lock on the way of lf_clearlock.
ClearStep(w, lock, ov) ==
  IF w.done \/ ov.lf_id # lock.lf_id \/ ovcase(ov, lock) = 0
  THEN IF ov.lf_id = lock.lf_id /\ Behind(ov, lock) THEN Done(Emit(w, <<ov>>), 0)
       ELSE Emit(w, <<ov>>)
  ELSE LET v == Wake(w, ov)
       IN CASE ovcase(ov, lock) = 1 -> Done(v, -1)
            [] ovcase(ov, lock) = 2 ->
                 LET parts == lf_split(Woken(ov), lock, <<>>)
                 IN Done(Emit(v, parts), Len(parts) - 1)
            [] ovcase(ov, lock) = 3 -> [v EXCEPT !.cnt = @ - 1]
            [] ovcase(ov, lock) = 4 -> Emit(v, <<Woken(Before(ov, lock))>>)
            [] ovcase(ov, lock) = 5 -> Done(Emit(v, <<Woken(After(ov, lock))>>), 0)

RemoveRange(list, lock) ==
  LET Pass(w, ov) == ClearStep(w, lock, ov)
  IN FoldLeft(Pass, Walk, list)

-----------------------------------------------------------------------------
(***************************************************************************)
(* Deadlocks.                                                              *)
(***************************************************************************)

\* The lock that p's request waits for, as its place on the list.
BlockOf(p) == CHOOSE k \in DOMAIN lf_list : p \in ToSet(lf_list[k].lf_blkhd)

\* The owner of the lock p is asleep for.
WaitsFor(p) == lf_list[BlockOf(p)].lf_id

\* A search that ends one step early.
EdeadlkEarly(p, owner) ==
  LET next(w) == IF w \in Posix /\ w # p /\ pc[w] = "asleep" THEN WaitsFor(w) ELSE w
      Hop(w, i) == next(w)
  IN /\ p \in Posix /\ owner \in Posix
     /\ FoldLeft(Hop, owner, [i \in 1 .. maxlockdepth - 1 |-> i]) = p

\* From the owner of the lock that blocks p, along the wait channels: does
\* the chain lead back to p within maxlockdepth steps?
Edeadlk(p, owner) ==
  LET next(w) == IF w \in Posix /\ w # p /\ pc[w] = "asleep" THEN WaitsFor(w) ELSE w
      Hop(w, i) == next(w)
  IN /\ p \in Posix /\ owner \in Posix
     /\ FoldLeft(Hop, owner, [i \in 1 .. maxlockdepth |-> i]) = p

-----------------------------------------------------------------------------
(***************************************************************************)
(* Operations.                                                             *)
(***************************************************************************)

\* pc once the processes of wake are woken: an interrupted one is awake.
WakeUp(wake) ==
  [q \in Procs |-> IF q \in wake /\ pc[q] = "asleep" THEN "woken" ELSE pc[q]]

Return(p, wake) ==
  /\ pc' = [WakeUp(wake) EXCEPT ![p] = "idle"]
  /\ request' = [request EXCEPT ![p] = NoRequest]

\* Nobody is in the way: add the lock.
SetNow(p, lock, list, cnt) ==
  LET w == AddLock(list, lock)
  IN /\ lf_getblock(list, lock) = 0
     /\ lf_list' = w.out
     /\ ui_lockcnt' = cnt + w.cnt
     /\ Return(p, w.wake)

\* A request that fails and is not freed.
SetFailsLeaks(p, lock, wait, list, cnt) ==
  LET k == lf_getblock(list, lock)
  IN /\ k # 0
     /\ ~wait \/ Edeadlk(p, list[k].lf_id)
     /\ lf_list' = list
     /\ ui_lockcnt' = cnt
     /\ Return(p, {})

\* EAGAIN or EDEADLK: the request is freed.
SetFails(p, lock, wait, list, cnt) ==
  LET k == lf_getblock(list, lock)
  IN /\ k # 0
     /\ ~wait \/ Edeadlk(p, list[k].lf_id)
     /\ lf_list' = list
     /\ ui_lockcnt' = cnt - 1
     /\ Return(p, {})

\* Wait for the first lock in the way.  A process that upgrades its flock
\* gives up the shared lock before it sleeps.
SetSleeps(p, lock, wait, list, cnt) ==
  LET upgrade == p \in Flockers /\ lock.lf_type = "WRLCK"
      w == IF upgrade THEN RemoveRange(list, lock) ELSE [Walk EXCEPT !.out = list]
      k == lf_getblock(list, lock)
  IN /\ k # 0
     /\ wait /\ ~Edeadlk(p, list[k].lf_id)
     /\ lf_list' = [w.out EXCEPT ![lf_getblock(w.out, lock)].lf_blkhd = Append(@, p)]
     /\ ui_lockcnt' = cnt + w.cnt
     /\ pc' = [WakeUp(w.wake) EXCEPT ![p] = "asleep"]
     /\ request' = [request EXCEPT ![p] = lock]

lf_setlock(p, lock, wait, list, cnt) ==
  \/ SetNow(p, lock, list, cnt)
  \/ SetFails(p, lock, wait, list, cnt)
  \/ SetSleeps(p, lock, wait, list, cnt)

SegmentsOf(p) == IF p \in Posix THEN Segments ELSE {<<0, EOF>>}

\* lf_advlock for F_SETLK, with and without F_WAIT.
Setlk(p) ==
  /\ pc[p] = "idle" /\ ui_lockcnt <= maxlocksperuid
  /\ \E seg \in SegmentsOf(p), type \in {"RDLCK", "WRLCK"}, wait \in BOOLEAN :
       lf_setlock(p, Lock(p, seg, type), wait, lf_list, ui_lockcnt + 1)

\* lf_advlock for F_UNLCK; close, and exit, unlock all of the file.
Unlck(p) ==
  /\ pc[p] = "idle" /\ ui_lockcnt <= 2 * maxlocksperuid
  /\ lf_list # <<>>
  /\ \E seg \in SegmentsOf(p) \union {<<0, EOF>>} :
       LET w == RemoveRange(lf_list, Lock(p, seg, "RDLCK"))
       IN /\ lf_list' = w.out
          /\ ui_lockcnt' = ui_lockcnt + w.cnt
          /\ pc' = WakeUp(w.wake)
  /\ UNCHANGED request

\* The list without p among the waiters.
Without(p) ==
  [k \in DOMAIN lf_list |->
     [lf_list[k] EXCEPT !.lf_blkhd = SelectSeq(@, LAMBDA q : q # p)]]

\* tsleep returns 0: look again.
Retry(p) ==
  /\ pc[p] = "woken"
  /\ lf_setlock(p, request[p], TRUE, Without(p), ui_lockcnt)

\* A signal wakes p; tsleep returns an error when p runs.
Interrupt(p) ==
  /\ pc[p] = "asleep"
  /\ pc' = [pc EXCEPT ![p] = "interrupted"]
  /\ UNCHANGED <<lf_list, ui_lockcnt, request>>

\* tsleep returns an error: the request goes.
SetInterrupted(p) ==
  /\ pc[p] = "interrupted"
  /\ lf_list' = Without(p)
  /\ ui_lockcnt' = ui_lockcnt - 1
  /\ Return(p, {})

Step(p) == Retry(p) \/ SetInterrupted(p)

Next == \E p \in Procs : Setlk(p) \/ Unlck(p) \/ Interrupt(p) \/ Step(p)

Spec == Init /\ [][Next]_vars

-----------------------------------------------------------------------------
(***************************************************************************)
(* Properties.                                                             *)
(***************************************************************************)

\* The list is sound: the locks of one owner are sorted and do not overlap,
\* on which the walks rely, and every struct lockf is on the list or the
\* request of somebody, so that ui_lockcnt does not run up.
ListSound ==
  /\ TypeOK
  /\ \A j, k \in DOMAIN lf_list :
       j < k /\ lf_list[j].lf_id = lf_list[k].lf_id =>
         lf_list[j].lf_end # EOF /\ lf_list[j].lf_end < lf_list[k].lf_start
  /\ ui_lockcnt = Len(lf_list) + Cardinality({p \in Procs : pc[p] # "idle"})

\* Nobody sleeps in vain: a sleeping request is on the lf_blkhd of one lock,
\* that lock is in its way, and nobody else is on such a list but requests
\* that have been interrupted.
SleepersBlocked ==
  \A p \in Procs :
    LET at == {k \in DOMAIN lf_list : p \in ToSet(lf_list[k].lf_blkhd)}
    IN /\ pc[p] = "asleep" =>
            Cardinality(at) = 1 /\ \A k \in at : Conflict(lf_list[k], request[p])
       /\ pc[p] \in {"idle", "woken"} => at = {}

\* Processes that use fcntl are never asleep for each other's locks in a
\* circle.
NoDeadlock ==
  \A S \in SUBSET {p \in Posix : pc[p] = "asleep"} :
    S # {} => \E p \in S : WaitsFor(p) \notin S

\* Every step does to the bytes what RangeLocks allows, so that two owners
\* never hold conflicting locks.
Covers(l, b) == l.lf_start <= b /\ (l.lf_end = EOF \/ b <= l.lf_end)

Held ==
  [p \in Procs |-> [b \in 0 .. LastByte |->
     LET mine == {k \in DOMAIN lf_list : lf_list[k].lf_id = p /\ Covers(lf_list[k], b)}
     IN IF mine = {} THEN "none" ELSE lf_list[Min(mine)].lf_type]]

BytesOf(seg) == {b \in 0 .. LastByte : seg[1] <= b /\ (seg[2] = EOF \/ b <= seg[2])}

Bytes == INSTANCE RangeLocks WITH
  Owners <- Procs, Bytes <- 0 .. LastByte, held <- Held,
  Ranges <- {BytesOf(s) : s \in Segments \union {<<0, EOF>>}}

ImplementsRangeLocks == Bytes!Spec
=============================================================================
