------------------------------- MODULE RwLock -------------------------------
(***************************************************************************)
(* The multiple-reader, single-writer sleeping lock of                     *)
(* sys/kern/kern_rwlock.c.                                                 *)
(*                                                                         *)
(* The whole lock is the word rwl_owner; it is only ever changed by the    *)
(* compare-and-swap rw_cas, and only processes that find it busy touch the *)
(* scheduler.  Every load of the word and every compare-and-swap is a step *)
(* of its own, so that all interleavings of several CPUs are covered.  The *)
(* section from sleep_setup to sleep_finish runs with the scheduler lock   *)
(* held, and wakeup takes that lock: it is one step, and so is wakeup.     *)
(***************************************************************************)
EXTENDS Naturals, FiniteSets

CONSTANTS
  Procs,     \* the processes, as their addresses in units of RWLOCK_READ_INCR
  FlagSets   \* the combinations of RW_INTR, RW_SLEEPFAIL, RW_NOSLEEP in use

ASSUME ProcsAssumption == Procs \subseteq Nat \ {0} /\ IsFiniteSet(Procs)

ASSUME FlagSetsAssumption ==
  FlagSets \subseteq SUBSET {"INTR", "SLEEPFAIL", "NOSLEEP"}

VARIABLES
  rwl_owner, \* the lock word
  pc,        \* where each process is
  call,      \* the flags argument of its call: operation and modifiers
  o,         \* its local copy of the word (o in rw_enter, owner in rw_exit)
  wrlock,    \* the local wrlock of rw_exit
  held       \* what the process holds: history, not state of the code

vars == <<rwl_owner, pc, call, o, wrlock, held>>

(***************************************************************************)
(* The lock word: RWLOCK_WAIT, RWLOCK_WRWANT, RWLOCK_WRLOCK, and above     *)
(* them either the number of readers or the address of the writer.         *)
(***************************************************************************)
Word == [wait : BOOLEAN, wrwant : BOOLEAN, wrlock : BOOLEAN, hi : Nat]

Zero == [wait |-> FALSE, wrwant |-> FALSE, wrlock |-> FALSE, hi |-> 0]

Ops == {"WRITE", "READ", "DOWNGRADE"}

PCs == {"out", "read_cas", "enter", "block", "asleep", "awake", "take",
        "rexit_cas", "wexit_cas", "exit", "exit_load", "exit_cas", "notify"}

TypeOK ==
  /\ rwl_owner \in Word
  /\ pc \in [Procs -> PCs]
  /\ call \in [Procs -> [op : Ops, flags : FlagSets \union {{}}]]
  /\ o \in [Procs -> Word]
  /\ wrlock \in [Procs -> BOOLEAN]
  /\ held \in [Procs -> {"none", "read", "write"}]

-----------------------------------------------------------------------------
(***************************************************************************)
(* The rows of rw_ops, as operators on the word.                           *)
(***************************************************************************)

\* A plausible slip in the table: a reader does not look at RWLOCK_WRLOCK.
BusyNoWrlock(w, how) == how = "WRITE" /\ w # Zero

\* (w & op->check) != 0
Busy(w, how) ==
  \/ how = "WRITE" /\ w # Zero
  \/ how = "READ"  /\ w.wrlock

\* w | op->wait_set
WithWaitSet(w, how) ==
  [w EXCEPT !.wait = TRUE, !.wrwant = @ \/ how = "WRITE"]

\* A downgrade that forgets to put the holder among the readers.
GrantedNoReader(w, how, p) ==
  IF how = "WRITE" THEN [w EXCEPT !.wrlock = TRUE, !.hi = @ + p]
  ELSE IF how = "READ" THEN [w EXCEPT !.hi = @ + 1]
  ELSE [w EXCEPT !.wrlock = FALSE, !.hi = @ - p]

\* A row whose inc is subtracted: the downgraded reader counts as minus one.
GrantedMinusReader(w, how, p) ==
  IF how = "WRITE" THEN [w EXCEPT !.wrlock = TRUE, !.hi = @ + p]
  ELSE IF how = "READ" THEN [w EXCEPT !.hi = @ + 1]
  ELSE [w EXCEPT !.wrlock = FALSE, !.hi = @ - p - 1]

\* w + op->inc + RW_PROC(p) * op->proc_mult
Granted(w, how, p) ==
  IF how = "WRITE" THEN [w EXCEPT !.wrlock = TRUE, !.hi = @ + p]
  ELSE IF how = "READ" THEN [w EXCEPT !.hi = @ + 1]
  ELSE [w EXCEPT !.wrlock = FALSE, !.hi = @ - p + 1]

HeldAfter(how) == IF how = "WRITE" THEN "write" ELSE "read"

\* A release that leaves the waiter bits of the last reader behind.
ReleasedKeepWaiters(w, wr) ==
  IF wr THEN Zero ELSE [w EXCEPT !.hi = @ - 1]

\* What rw_exit stores: 0, or one reader less and no waiter bits.
Released(w, wr) ==
  IF wr THEN Zero
        ELSE [w EXCEPT !.hi = @ - 1, !.wait = FALSE, !.wrwant = FALSE]

-----------------------------------------------------------------------------
\* Control moves inside a call.  The local copy of the word is either loaded
\* or kept, or it is dead (the code will load it again before it reads it).
Goto(p, label) == pc' = [pc EXCEPT ![p] = label]
Load(p)        == o'  = [o EXCEPT ![p] = rwl_owner]
Forget(p)      == o'  = [o EXCEPT ![p] = Zero]

Called(how, fl) == [op |-> how, flags |-> fl]

\* The call returns, and its arguments and locals are gone.
ForgetCall(p) ==
  /\ call' = [call EXCEPT ![p] = Called("READ", {})]
  /\ Forget(p)
  /\ wrlock' = [wrlock EXCEPT ![p] = FALSE]

Return(p) == Goto(p, "out") /\ ForgetCall(p)

\* rw_cas(&rwl_owner, o, new) succeeds.
CasOk(p, new) ==
  /\ rwl_owner = o[p]
  /\ rwl_owner' = new

\* rw_cas(&rwl_owner, o, new) fails and leaves the word alone.
CasFail(p) ==
  /\ rwl_owner # o[p]
  /\ UNCHANGED rwl_owner

Holds(p, what) == held' = [held EXCEPT ![p] = what]

Init ==
  /\ rwl_owner = Zero
  /\ pc = [p \in Procs |-> "out"]
  /\ call = [p \in Procs |-> Called("READ", {})]
  /\ o = [p \in Procs |-> Zero]
  /\ wrlock = [p \in Procs |-> FALSE]
  /\ held = [p \in Procs |-> "none"]

(***************************************************************************)
(* The calls.  A process that holds the lock does not enter it again: the  *)
(* code panics ("locking against myself") or deadlocks if it does.         *)
(***************************************************************************)

\* rw_enter_read loads the word; a writer sends it to rw_enter at once.
CallEnterRead(p) ==
  /\ pc[p] = "out" /\ held[p] = "none"
  /\ \/ rwl_owner.wrlock /\ Goto(p, "enter") /\ UNCHANGED o
     \/ ~rwl_owner.wrlock /\ Goto(p, "read_cas") /\ Load(p)
  /\ UNCHANGED <<rwl_owner, call, wrlock, held>>

\* The compare-and-swap of rw_enter_read, or rw_enter when it fails.
ReadCas(p) ==
  /\ pc[p] = "read_cas"
  /\ \/ CasOk(p, Granted(o[p], "READ", p)) /\ Holds(p, "read") /\ Return(p)
     \/ /\ CasFail(p) /\ Goto(p, "enter") /\ Forget(p)
        /\ UNCHANGED <<call, wrlock, held>>

\* rw_enter_write is a compare-and-swap from 0, or rw_enter when it fails.
CallEnterWrite(p) ==
  /\ pc[p] = "out" /\ held[p] = "none"
  /\ \/ /\ rwl_owner = Zero
        /\ rwl_owner' = Granted(Zero, "WRITE", p)
        /\ Holds(p, "write")
        /\ UNCHANGED <<pc, call>>
     \/ /\ rwl_owner # Zero
        /\ Goto(p, "enter")
        /\ call' = [call EXCEPT ![p] = Called("WRITE", {})]
        /\ UNCHANGED <<rwl_owner, held>>
  /\ UNCHANGED <<o, wrlock>>

\* rw_enter is called for the lock itself, with flags, ...
CallEnter(p, how, fl) ==
  /\ pc[p] = "out" /\ held[p] = "none" /\ how \in {"READ", "WRITE"}
  /\ call' = [call EXCEPT ![p] = Called(how, fl)]
  /\ Goto(p, "enter")
  /\ UNCHANGED <<rwl_owner, o, wrlock, held>>

\* A downgrade made of an exit and an enter.
CallDowngradeByExit(p) ==
  /\ pc[p] = "out" /\ held[p] = "write"
  /\ rwl_owner' = Zero
  /\ Holds(p, "none")
  /\ call' = [call EXCEPT ![p] = Called("DOWNGRADE", {})]
  /\ Goto(p, "enter")
  /\ UNCHANGED <<o, wrlock>>

\* ... or by the writer, to become a reader.
CallDowngrade(p) ==
  /\ pc[p] = "out" /\ held[p] = "write"
  /\ call' = [call EXCEPT ![p] = Called("DOWNGRADE", {})]
  /\ Goto(p, "enter")
  /\ UNCHANGED <<rwl_owner, o, wrlock, held>>

(***************************************************************************)
(* rw_enter.                                                               *)
(***************************************************************************)

\* The condition of the while loop: o = rwl_owner, and the check on it.
\* RW_NOSLEEP returns EBUSY.
EnterLoad(p) ==
  /\ pc[p] = "enter"
  /\ \/ /\ ~Busy(rwl_owner, call[p].op)
        /\ Goto(p, "take") /\ Load(p)
        /\ UNCHANGED <<call, wrlock>>
     \/ /\ Busy(rwl_owner, call[p].op) /\ "NOSLEEP" \notin call[p].flags
        /\ Goto(p, "block") /\ Load(p)
        /\ UNCHANGED <<call, wrlock>>
     \/ /\ Busy(rwl_owner, call[p].op) /\ "NOSLEEP" \in call[p].flags
        /\ Return(p)
  /\ UNCHANGED <<rwl_owner, held>>

\* Sleeping although the compare-and-swap failed.
BlockAnyway(p) ==
  /\ pc[p] = "block"
  /\ CasOk(p, WithWaitSet(o[p], call[p].op)) \/ CasFail(p)
  /\ Goto(p, "asleep") /\ Forget(p)
  /\ UNCHANGED <<call, wrlock, held>>

\* sleep_setup to sleep_finish: the waiter bits go in, and only if that
\* worked does the process sleep.  With RW_INTR, sleep_setup_signal may find
\* a signal (or a wakeup while it was stopped), and then it does not sleep
\* but still tries to set the bits.
Block(p) ==
  /\ pc[p] = "block"
  /\ \/ /\ CasOk(p, WithWaitSet(o[p], call[p].op))
        /\ Goto(p, "asleep") \/ ("INTR" \in call[p].flags /\ Goto(p, "awake"))
     \/ CasFail(p) /\ Goto(p, "awake")
  /\ Forget(p)
  /\ UNCHANGED <<call, wrlock, held>>

\* psignal makes an interruptible sleeper runnable.
Signal(p) ==
  /\ pc[p] = "asleep" /\ "INTR" \in call[p].flags
  /\ Goto(p, "awake")
  /\ UNCHANGED <<rwl_owner, call, o, wrlock, held>>

\* After sleep_finish: an error from a signal, EAGAIN from RW_SLEEPFAIL, or
\* around the loop again.
Awake(p) ==
  /\ pc[p] = "awake"
  /\ \/ {"INTR", "SLEEPFAIL"} \intersect call[p].flags # {} /\ Return(p)
     \/ /\ "SLEEPFAIL" \notin call[p].flags
        /\ Goto(p, "enter")
        /\ UNCHANGED <<call, o, wrlock>>
  /\ UNCHANGED <<rwl_owner, held>>

\* The final compare-and-swap of rw_enter; a downgrade with waiters wakes.
Take(p) ==
  /\ pc[p] = "take"
  /\ \/ /\ CasOk(p, Granted(o[p], call[p].op, p))
        /\ Holds(p, HeldAfter(call[p].op))
        /\ Goto(p, IF o[p].wrlock /\ o[p].wait THEN "notify" ELSE "out")
        /\ ForgetCall(p)
     \/ /\ CasFail(p) /\ Goto(p, "enter") /\ Forget(p)
        /\ UNCHANGED <<call, wrlock, held>>

(***************************************************************************)
(* Leaving the lock.                                                       *)
(***************************************************************************)

\* rw_exit_read and rw_exit_write load the word; waiters need rw_exit.
CallFastExit(p) ==
  /\ pc[p] = "out" /\ held[p] # "none"
  /\ \/ rwl_owner.wait /\ Goto(p, "exit") /\ UNCHANGED o
     \/ /\ ~rwl_owner.wait /\ Load(p)
        /\ Goto(p, IF held[p] = "read" THEN "rexit_cas" ELSE "wexit_cas")
  /\ UNCHANGED <<rwl_owner, call, wrlock, held>>

\* The compare-and-swap of rw_exit_read, or rw_exit when it fails.
ReadExitCas(p) ==
  /\ pc[p] = "rexit_cas"
  /\ \/ CasOk(p, [o[p] EXCEPT !.hi = @ - 1]) /\ Holds(p, "none") /\ Return(p)
     \/ /\ CasFail(p) /\ Goto(p, "exit") /\ Forget(p)
        /\ UNCHANGED <<call, wrlock, held>>

\* The compare-and-swap of rw_exit_write, or rw_exit when it fails.
WriteExitCas(p) ==
  /\ pc[p] = "wexit_cas"
  /\ \/ CasOk(p, Zero) /\ Holds(p, "none") /\ Return(p)
     \/ /\ CasFail(p) /\ Goto(p, "exit") /\ Forget(p)
        /\ UNCHANGED <<call, wrlock, held>>

\* rw_exit may also be called directly.
CallExit(p) ==
  /\ pc[p] = "out" /\ held[p] # "none"
  /\ Goto(p, "exit")
  /\ UNCHANGED <<rwl_owner, call, o, wrlock, held>>

\* rw_exit finds out once whether the lock is write-locked ...
Exit(p) ==
  /\ pc[p] = "exit"
  /\ wrlock' = [wrlock EXCEPT ![p] = rwl_owner.wrlock]
  /\ Goto(p, "exit_load")
  /\ UNCHANGED <<rwl_owner, call, o, held>>

\* ... and loads the word before each compare-and-swap.
ExitLoad(p) ==
  /\ pc[p] = "exit_load"
  /\ Load(p) /\ Goto(p, "exit_cas")
  /\ UNCHANGED <<rwl_owner, call, wrlock, held>>

\* rw_exit without its wakeup.
ExitCasSilent(p) ==
  /\ pc[p] = "exit_cas"
  /\ \/ /\ CasOk(p, Released(o[p], wrlock[p]))
        /\ Holds(p, "none") /\ Return(p)
     \/ /\ CasFail(p) /\ Goto(p, "exit_load") /\ Forget(p)
        /\ UNCHANGED <<call, wrlock, held>>

\* The compare-and-swap of rw_exit: try again, or done and perhaps wakeup.
ExitCas(p) ==
  /\ pc[p] = "exit_cas"
  /\ \/ /\ CasOk(p, Released(o[p], wrlock[p]))
        /\ Holds(p, "none")
        /\ Goto(p, IF o[p].wait THEN "notify" ELSE "out")
        /\ ForgetCall(p)
     \/ /\ CasFail(p) /\ Goto(p, "exit_load") /\ Forget(p)
        /\ UNCHANGED <<call, wrlock, held>>

\* wakeup(rwl): every process asleep on the lock becomes runnable.
Notify(p) ==
  /\ pc[p] = "notify"
  /\ pc' = [q \in Procs |-> IF q = p THEN "out"
                            ELSE IF pc[q] = "asleep" THEN "awake" ELSE pc[q]]
  /\ UNCHANGED <<rwl_owner, call, o, wrlock, held>>

-----------------------------------------------------------------------------
\* What a process decides to do, holding nothing.
Acquire(p) ==
  \/ CallEnterRead(p)
  \/ CallEnterWrite(p)
  \/ \E how \in Ops, fl \in FlagSets : CallEnter(p, how, fl)

\* Letting go of what it holds, or of the exclusive part of it.
LetGo(p) == CallFastExit(p) \/ CallExit(p)

\* The steps inside a call.
Inside(p) ==
  \/ ReadCas(p) \/ EnterLoad(p) \/ Block(p) \/ Awake(p) \/ Take(p)
  \/ ReadExitCas(p) \/ WriteExitCas(p)
  \/ Exit(p) \/ ExitLoad(p) \/ ExitCas(p) \/ Notify(p)

Next ==
  \E p \in Procs :
    Acquire(p) \/ CallDowngrade(p) \/ LetGo(p) \/ Inside(p) \/ Signal(p)

(***************************************************************************)
(* A runnable process is eventually run, and nobody keeps the lock for     *)
(* ever.  Nothing makes a process ask for the lock or send a signal.       *)
(***************************************************************************)
Fairness == \A p \in Procs : WF_vars(Inside(p)) /\ WF_vars(LetGo(p))

Spec == Init /\ [][Next]_vars

FairSpec == Spec /\ Fairness

-----------------------------------------------------------------------------
Readers == {p \in Procs : held[p] = "read"}
Writers == {p \in Procs : held[p] = "write"}
Asleep  == {p \in Procs : pc[p] = "asleep"}

\* rwlock(9): "A write lock, however, can only be acquired when there are no
\* read locks held, granting exclusive access to a single process."
Exclusion ==
  \A p, q \in Procs : held[p] = "write" /\ held[q] # "none" => p = q

\* rwlock(9), all of it: the lock behaves as a readers-writer lock, and
\* RW_DOWNGRADE never lets go of it.
Downgrading == {p \in Procs : call[p].op = "DOWNGRADE"}

Promise == INSTANCE ReadersWriter WITH downgrading <- Downgrading

ImplementsPromise == Promise!Spec

\* The word always says who holds the lock: the address of the writer under
\* RWLOCK_WRLOCK, the number of readers otherwise.  All of rw_exit relies on
\* it, since it subtracts from the word without looking at who calls.
WordTellsHolders ==
  IF rwl_owner.wrlock THEN Writers = {rwl_owner.hi} /\ Readers = {}
  ELSE Writers = {} /\ rwl_owner.hi = Cardinality(Readers)

\* rwlock.h: "it's not possible to have owner/read count unset and waiter
\* bits set".  If it were, rw_enter_write would block on a free lock.
NoOrphanWaiterBits ==
  rwl_owner.hi = 0 => rwl_owner = Zero

\* Nobody sleeps on the lock unless RWLOCK_WAIT is set, so that the holder
\* will wake it, or a process is on its way to wakeup.  This is what the
\* compare-and-swap between sleep_setup and sleep_finish is for.
NoLostWakeup ==
  Asleep # {} => rwl_owner.wait \/ \E p \in Procs : pc[p] = "notify"

(***************************************************************************)
(* The facts about the waiter bits and about each process's position and   *)
(* locals that make the invariants above inductive.                        *)
(***************************************************************************)
WantImpliesWait == rwl_owner.wrwant => rwl_owner.wait

\* Where a process stands inside rw_enter and its fast paths.
Entering == {"read_cas", "enter", "block", "asleep", "awake", "take"}

\* Where it stands inside rw_exit and its fast paths, before the release.
Leaving == {"rexit_cas", "wexit_cas", "exit", "exit_load", "exit_cas"}

LocalsInv ==
  \A p \in Procs :
    /\ pc[p] \in Leaving => held[p] # "none"
    /\ pc[p] \in Entering /\ call[p].op # "DOWNGRADE" => held[p] = "none"
    /\ call[p].op = "DOWNGRADE" => pc[p] \in {"enter", "take"} /\ held[p] = "write"
    /\ pc[p] = "read_cas" => ~o[p].wrlock
    /\ pc[p] = "take" => ~Busy(o[p], call[p].op)
    /\ pc[p] = "block" => Busy(o[p], call[p].op)
    /\ pc[p] = "rexit_cas" => held[p] = "read" /\ ~o[p].wait
    /\ pc[p] = "wexit_cas" => held[p] = "write" /\ ~o[p].wait
    /\ pc[p] \in {"exit_load", "exit_cas"} => wrlock[p] = (held[p] = "write")

IInv ==
  /\ TypeOK
  /\ WordTellsHolders
  /\ NoOrphanWaiterBits
  /\ WantImpliesWait
  /\ LocalsInv

\* A process asleep on the lock is eventually made runnable: a stream of
\* readers that come and go cannot keep the wakeup away.
SleepersWoken ==
  \A p \in Procs : pc[p] = "asleep" ~> pc[p] # "asleep"
=============================================================================
