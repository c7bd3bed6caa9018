-------------------------------- MODULE Sleep -------------------------------
(***************************************************************************)
(* Sleeping, sys/kern/kern_synch.c, against what may happen to a sleeping  *)
(* process: wakeups, the timeout of the sleep, and signals that interrupt, *)
(* stop, continue or kill it, sys/kern/kern_sig.c.                         *)
(*                                                                         *)
(* A process holds the scheduler lock from sleep_setup until mi_switch has *)
(* taken it off its CPU, and an interrupt handler takes the lock for all   *)
(* it does, so a step below goes from one mi_switch, or one release of the *)
(* lock, to the next.  Every process has a CPU to run on.  Wakeups and     *)
(* signals come from interrupt handlers and from processes that are not    *)
(* part of the model.                                                      *)
(*                                                                         *)
(* The processes are neither traced nor init.  error "EINTR" stands for    *)
(* ERESTART too.                                                           *)
(***************************************************************************)
EXTENDS Naturals, Sequences, FiniteSets, FiniteSetsExt, Queues

CONSTANTS
  Procs,
  Idents,    \* wait channels; their hashes collide
  Signals,   \* signals that are sent
  Targets,   \* the processes they are sent to
  Sleeps,    \* for every process, the ident, PCATCH and timo of its sleeps
  Acts       \* for every process, the ways it may have set up its signals

SIGKILL == 9
SIGSTOP == 17
SIGTSTP == 18
SIGCONT == 19
SIGUSR1 == 30

StopSigs == {SIGSTOP, SIGTSTP}   \* SA_STOP
TtyStop  == {SIGTSTP}            \* SA_TTYSTOP

\* Handlers, the ignored signals and the mask cannot name SIGKILL and SIGSTOP;
\* orphan: pg_jobc is 0; ppwait: P_PPWAIT, a vfork child of a waiting parent.
ASSUME ActsAssumption ==
  /\ IsFiniteSet(Procs)
  /\ Signals \subseteq {SIGKILL, SIGSTOP, SIGTSTP, SIGCONT, SIGUSR1}
  /\ Targets \subseteq Procs
  /\ \A p \in Procs : Sleeps[p] \subseteq Idents \X BOOLEAN \X BOOLEAN
  /\ \A p \in Procs : \A a \in Acts[p] :
       /\ DOMAIN a = {"catch", "ignore", "mask", "orphan", "ppwait"}
       /\ a.catch \union a.mask \union a.ignore \subseteq {SIGTSTP, SIGCONT, SIGUSR1}
       /\ a.catch \cap a.ignore = {} /\ SIGCONT \notin a.ignore
       /\ a.orphan \in BOOLEAN /\ a.ppwait \in BOOLEAN

NoIdent == "0"
ASSUME IdentsAssumption == NoIdent \notin Idents

VARIABLES
  act,        \* the signal set-up of each process
  p_stat, p_wchan, p_flag, p_siglist,
  slpque,     \* the sleep queue all Idents hash to
  p_sleep_to, \* p_sleep_to is pending
  pc,         \* where in tsleep a process is, "user" if it is not
  sls_catch, sls_sig,
  error,      \* what tsleep returned, or is about to
  woken,      \* history: this sleep was ended by a wakeup
  expired     \* history: this sleep was ended by its timeout

queue == <<p_wchan, slpque>>
sls   == <<sls_catch, sls_sig>>
hist  == <<woken, expired>>
vars  == <<act, p_stat, queue, p_flag, p_siglist, p_sleep_to, pc,
           sls, error, hist>>

TypeOK ==
  /\ act \in [Procs -> UNION {Acts[p] : p \in Procs}]
  /\ p_stat \in [Procs -> {"SONPROC", "SRUN", "SSLEEP", "SSTOP", "SZOMB"}]
  /\ p_wchan \in [Procs -> Idents \union {NoIdent}]
  /\ p_flag \in [Procs -> SUBSET {"SINTR", "TIMEOUT", "CONTINUED"}]
  /\ p_siglist \in [Procs -> SUBSET Signals]
  /\ slpque \in Seq(Procs) /\ Len(slpque) <= Cardinality(Procs)
  /\ p_sleep_to \in [Procs -> BOOLEAN]
  /\ pc \in [Procs -> {"user", "setup", "switch", "finish", "finish_signal"}]
  /\ sls_catch \in [Procs -> BOOLEAN] /\ sls_sig \in [Procs -> Signals \union {0}]
  /\ error \in [Procs -> {"0", "EWOULDBLOCK", "EINTR"}]
  /\ woken \in [Procs -> BOOLEAN] /\ expired \in [Procs -> BOOLEAN]

Init ==
  /\ act \in [Procs -> UNION {Acts[p] : p \in Procs}]
  /\ \A p \in Procs : act[p] \in Acts[p]
  /\ p_stat = [p \in Procs |-> "SONPROC"]
  /\ p_wchan = [p \in Procs |-> NoIdent]
  /\ p_flag = [p \in Procs |-> {}]
  /\ p_siglist = [p \in Procs |-> {}]
  /\ slpque = <<>>
  /\ p_sleep_to = [p \in Procs |-> FALSE]
  /\ pc = [p \in Procs |-> "user"]
  /\ sls_catch = [p \in Procs |-> FALSE]
  /\ sls_sig = [p \in Procs |-> 0]
  /\ error = [p \in Procs |-> "0"]
  /\ woken = [p \in Procs |-> TRUE]
  /\ expired = [p \in Procs |-> FALSE]

-----------------------------------------------------------------------------
(***************************************************************************)
(* Signals as the process itself looks at them.                            *)
(***************************************************************************)

\* The signals issignal does not pass over.
Deliverable(p) ==
  (p_siglist[p] \ act[p].mask) \ (IF act[p].ppwait THEN StopSigs ELSE {})

\* What issignal makes of a signal: "keep" leaves it for postsig, "stop"
\* stops the process and "drop" forgets it.
Disposition(p, s) ==
  IF s \in act[p].ignore THEN "drop"
  ELSE IF s \in act[p].catch THEN "keep"
  ELSE IF s \in StopSigs
       THEN IF act[p].orphan /\ s \in TtyStop THEN "drop" ELSE "stop"
  ELSE IF s = SIGCONT THEN "drop" ELSE "keep"

\* issignal up to its return or its next stop: the lowest signal that is not
\* dropped decides.  A signal that is kept stays on the list.
issignal(p) ==
  LET todo == {s \in Deliverable(p) : Disposition(p, s) # "drop"}
      sig  == IF todo = {} THEN 0 ELSE Min(todo)
      left == p_siglist[p] \ {s \in Deliverable(p) : s \notin todo /\ (sig = 0 \/ s < sig)}
      stop == sig # 0 /\ Disposition(p, sig) = "stop"
  IN [sig |-> IF stop THEN 0 ELSE sig, stop |-> stop,
      list |-> IF stop THEN left \ {sig} ELSE left]

SetSiglist(p, l) == p_siglist' = [p_siglist EXCEPT ![p] = l]

\* proc_stop.  Telling the parent, by proc_stop_sweep, is left out.
proc_stop(p) == p_stat' = [p_stat EXCEPT ![p] = "SSTOP"]

unsleep(p) ==
  /\ p_wchan' = [p_wchan EXCEPT ![p] = NoIdent]
  /\ slpque' = Without(slpque, {p})

-----------------------------------------------------------------------------
(***************************************************************************)
(* tsleep.                                                                 *)
(***************************************************************************)

Goto(p, place) == pc' = [pc EXCEPT ![p] = place]

\* sleep_finish, whether it slept or not, from where it clears SINTR.
Awake(p) ==
  /\ p_stat' = [p_stat EXCEPT ![p] = "SONPROC"]
  /\ p_flag' = [p_flag EXCEPT ![p] = @ \ {"SINTR"}]
  /\ Goto(p, "finish")

\* sleep_setup_signal from CURSIG on, and sleep_finish up to its mi_switch,
\* when p waits for chan and the sleep queue is q: stop in issignal; or do
\* not sleep, for a signal or because a wakeup came during a stop; or sleep.
SetupSignal(p, chan, q) ==
  LET r == issignal(p)
      Blocked(place) ==
        /\ p_flag' = [p_flag EXCEPT ![p] = @ \union {"SINTR"}]
        /\ Goto(p, place)
        /\ p_wchan' = [p_wchan EXCEPT ![p] = chan] /\ slpque' = q
  IN /\ SetSiglist(p, r.list)
     /\ sls_sig' = [sls_sig EXCEPT ![p] = r.sig]
     /\ sls_catch' = [sls_catch EXCEPT ![p] = r.stop \/ r.sig # 0 \/ chan # NoIdent]
     /\ \/ /\ r.stop
           /\ proc_stop(p) /\ Blocked("setup")
        \/ /\ ~r.stop /\ (r.sig # 0 \/ chan = NoIdent)
           /\ p_wchan' = [p_wchan EXCEPT ![p] = NoIdent] /\ slpque' = Without(q, {p})
           /\ Awake(p)
        \/ /\ ~r.stop /\ r.sig = 0 /\ chan # NoIdent
           /\ p_stat' = [p_stat EXCEPT ![p] = "SSLEEP"] /\ Blocked("switch")

\* sleep_setup, sleep_setup_timeout and sleep_setup_signal.
tsleep(p) ==
  /\ pc[p] = "user" /\ p_stat[p] = "SONPROC"
  /\ \E ident \in Idents, catch, timo \in BOOLEAN :
       /\ <<ident, catch, timo>> \in Sleeps[p]
       /\ p_sleep_to' = [p_sleep_to EXCEPT ![p] = timo]
       /\ \/ catch /\ SetupSignal(p, ident, Append(slpque, p))
          \/ /\ ~catch
             /\ p_wchan' = [p_wchan EXCEPT ![p] = ident]
             /\ slpque' = Append(slpque, p)
             /\ p_stat' = [p_stat EXCEPT ![p] = "SSLEEP"]
             /\ Goto(p, "switch")
             /\ sls_catch' = [sls_catch EXCEPT ![p] = FALSE]
             /\ sls_sig' = [sls_sig EXCEPT ![p] = 0]
             /\ UNCHANGED <<p_flag, p_siglist>>
  /\ error' = [error EXCEPT ![p] = "0"]
  /\ woken' = [woken EXCEPT ![p] = FALSE]
  /\ expired' = [expired EXCEPT ![p] = FALSE]
  /\ UNCHANGED act

\* issignal goes on after a stop in sleep_setup_signal.
SetupResumed(p) ==
  /\ pc[p] = "setup" /\ p_stat[p] = "SRUN"
  /\ SetupSignal(p, p_wchan[p], slpque)
  /\ UNCHANGED <<act, p_sleep_to, error, hist>>

\* mi_switch returns in sleep_finish.
SwitchedTo(p) ==
  /\ pc[p] = "switch" /\ p_stat[p] = "SRUN"
  /\ Awake(p)
  /\ UNCHANGED <<act, queue, p_siglist, p_sleep_to, sls, error, hist>>

sleep_finish_timeout(p) ==
  /\ pc[p] = "finish" /\ p_stat[p] = "SONPROC"
  /\ \/ /\ "TIMEOUT" \in p_flag[p]
        /\ p_flag' = [p_flag EXCEPT ![p] = @ \ {"TIMEOUT"}]
        /\ error' = [error EXCEPT ![p] = "EWOULDBLOCK"]
        /\ UNCHANGED p_sleep_to
     \/ /\ "TIMEOUT" \notin p_flag[p]
        /\ p_sleep_to' = [p_sleep_to EXCEPT ![p] = FALSE]
        /\ UNCHANGED <<p_flag, error>>
  /\ Goto(p, "finish_signal")
  /\ UNCHANGED <<act, p_stat, queue, p_siglist, sls, hist>>

\* sleep_finish_signal, also after a stop in its CURSIG, and the return.
sleep_finish_signal(p) ==
  LET r == issignal(p)
      Return(e) ==
        /\ p_stat' = [p_stat EXCEPT ![p] = "SONPROC"]
        /\ error' = [error EXCEPT ![p] = e]
        /\ Goto(p, "user")
        /\ sls_catch' = [sls_catch EXCEPT ![p] = FALSE]
        /\ sls_sig' = [sls_sig EXCEPT ![p] = 0]
  IN /\ pc[p] = "finish_signal" /\ p_stat[p] \in {"SONPROC", "SRUN"}
     /\ \/ ~sls_catch[p] /\ Return(error[p]) /\ UNCHANGED p_siglist
        \/ sls_catch[p] /\ sls_sig[p] # 0 /\ Return("EINTR") /\ UNCHANGED p_siglist
        \/ /\ sls_catch[p] /\ sls_sig[p] = 0
           /\ SetSiglist(p, r.list)
           /\ \/ r.stop /\ proc_stop(p) /\ UNCHANGED <<error, pc, sls>>
              \/ ~r.stop /\ Return(IF r.sig # 0 THEN "EINTR" ELSE error[p])
     /\ UNCHANGED <<act, queue, p_flag, p_sleep_to, hist>>

\* userret: "while (signum = CURSIG(p)) postsig(signum)", on the way out of
\* a system call or an AST.  The default action of a kept signal is to exit.
userret(p) ==
  LET r == issignal(p)
  IN /\ pc[p] = "user" /\ p_stat[p] \in {"SONPROC", "SRUN"}
     /\ p_stat[p] = "SRUN" \/ Deliverable(p) # {}
     /\ \/ /\ r.stop
           /\ SetSiglist(p, r.list)
           /\ proc_stop(p)
        \/ /\ ~r.stop /\ r.sig \in act[p].catch \union {0}
           /\ SetSiglist(p, r.list \ {r.sig})
           /\ p_stat' = [p_stat EXCEPT ![p] = "SONPROC"]
        \/ /\ r.sig \notin act[p].catch \union {0}
           /\ SetSiglist(p, {})
           /\ p_stat' = [p_stat EXCEPT ![p] = "SZOMB"]
     /\ UNCHANGED <<act, queue, p_flag, p_sleep_to, pc, sls, error, hist>>

-----------------------------------------------------------------------------
(***************************************************************************)
(* What happens to a sleep.                                                *)
(***************************************************************************)

\* setrunnable, from SSLEEP or SSTOP.
setrunnable(p) ==
  /\ unsleep(p)
  /\ p_stat' = [p_stat EXCEPT ![p] = "SRUN"]

\* The processes that wakeup(ident), or wakeup_one(ident), takes off the queue.
Wakes(ident, one) ==
  LET hits == {i \in DOMAIN slpque : p_wchan[slpque[i]] = ident}
  IN {slpque[i] : i \in {h \in hits : one => \A j \in hits : h <= j}}

\* A stopped process is off the queue but stays stopped.
wakeup_n(ident, one) ==
  LET W == Wakes(ident, one)
  IN /\ W # {}
     /\ p_wchan' = [p \in Procs |-> IF p \in W THEN NoIdent ELSE p_wchan[p]]
     /\ slpque' = Without(slpque, W)
     /\ p_stat' = [p \in Procs |->
                     IF p \in W /\ p_stat[p] = "SSLEEP" THEN "SRUN" ELSE p_stat[p]]
     /\ woken' = [p \in Procs |-> (p \in W /\ p_wchan[p] = ident) \/ woken[p]]
     /\ UNCHANGED <<act, p_flag, p_siglist, p_sleep_to, pc, sls,
                    error, expired>>

\* endtsleep that runs the process even if it is stopped.
endtsleepRuns(p) ==
  /\ p_sleep_to[p]
  /\ p_sleep_to' = [p_sleep_to EXCEPT ![p] = FALSE]
  /\ \/ /\ p_wchan[p] # NoIdent
        /\ setrunnable(p)
        /\ p_flag' = [p_flag EXCEPT ![p] = @ \union {"TIMEOUT"}]
        /\ expired' = [expired EXCEPT ![p] = TRUE]
     \/ p_wchan[p] = NoIdent /\ UNCHANGED <<queue, p_stat, p_flag, expired>>
  /\ UNCHANGED <<act, p_siglist, pc, sls, error, woken>>

\* endtsleep that does not look whether the process is still asleep.
endtsleepLate(p) ==
  /\ p_sleep_to[p]
  /\ p_sleep_to' = [p_sleep_to EXCEPT ![p] = FALSE]
  /\ IF p_stat[p] = "SSLEEP" THEN setrunnable(p) ELSE unsleep(p) /\ UNCHANGED p_stat
  /\ p_flag' = [p_flag EXCEPT ![p] = @ \union {"TIMEOUT"}]
  /\ expired' = [expired EXCEPT ![p] = p_wchan[p] # NoIdent]
  /\ UNCHANGED <<act, p_siglist, pc, sls, error, woken>>

endtsleep(p) ==
  /\ p_sleep_to[p]
  /\ p_sleep_to' = [p_sleep_to EXCEPT ![p] = FALSE]
  /\ \/ /\ p_wchan[p] # NoIdent
        /\ \/ p_stat[p] = "SSLEEP" /\ setrunnable(p)
           \/ p_stat[p] # "SSLEEP" /\ unsleep(p) /\ UNCHANGED p_stat
        /\ p_flag' = [p_flag EXCEPT ![p] = @ \union {"TIMEOUT"}]
        /\ expired' = [expired EXCEPT ![p] = TRUE]
     \/ p_wchan[p] = NoIdent /\ UNCHANGED <<queue, p_stat, p_flag, expired>>
  /\ UNCHANGED <<act, p_siglist, pc, sls, error, woken>>

\* The action of a signal as psignal sees it.
Action(p, s) ==
  IF s \in act[p].mask THEN "HOLD" ELSE IF s \in act[p].catch THEN "CATCH" ELSE "DFL"

\* The signals pending once s is posted: stops and SIGCONT cancel each other.
Posted(p, s) ==
  (p_siglist[p] \ (IF s = SIGCONT THEN StopSigs
                   ELSE IF s \in StopSigs THEN {SIGCONT} ELSE {})) \union {s}

\* A SIGCONT that always puts the process back to sleep.
ContinueAsleep(p, s) ==
  /\ p_stat' = [p_stat EXCEPT ![p] = "SSLEEP"]
  /\ UNCHANGED queue

\* SIGCONT for a stopped process, which runs unless it has an event to wait for.
Continue(p, s) ==
  \/ /\ Action(p, s) = "CATCH" \/ p_wchan[p] = NoIdent
     /\ setrunnable(p)
  \/ /\ Action(p, s) # "CATCH" /\ p_wchan[p] # NoIdent
     /\ p_stat' = [p_stat EXCEPT ![p] = "SSLEEP"]
     /\ UNCHANGED queue

\* psignal to a sleeping process: nothing if the sleep is uninterruptible,
\* or the signal is SIGCONT by default, or a stop a vfork child is spared.
SignalAsleep(p, s) ==
  LET dfl == Action(p, s) = "DFL"
  IN \/ /\ "SINTR" \in p_flag[p] /\ dfl /\ s \in StopSigs /\ ~act[p].ppwait
        /\ proc_stop(p)
        /\ UNCHANGED queue
     \/ /\ "SINTR" \in p_flag[p] /\ ~(dfl /\ s \in StopSigs \union {SIGCONT})
        /\ setrunnable(p)
     \/ /\ \/ "SINTR" \notin p_flag[p]
           \/ dfl /\ (s = SIGCONT \/ (s \in StopSigs /\ act[p].ppwait))
        /\ UNCHANGED <<p_stat, queue>>

\* A signal for a stopped process that leaves it on its channel.
SignalStoppedKept(p, s) ==
  \/ s = SIGKILL /\ setrunnable(p)
  \/ s = SIGCONT /\ Continue(p, s)
  \/ s \notin {SIGKILL, SIGCONT} /\ UNCHANGED <<p_stat, queue>>

\* psignal to a stopped process.  Other signals simulate a wakeup, so that
\* the process looks at them when it is continued.
SignalStopped(p, s) ==
  \/ s = SIGKILL /\ setrunnable(p)
  \/ s = SIGCONT /\ Continue(p, s)
  \/ s \in StopSigs /\ UNCHANGED <<p_stat, queue>>
  \/ /\ s \notin StopSigs \union {SIGKILL, SIGCONT}
     /\ IF "SINTR" \in p_flag[p] THEN unsleep(p) ELSE UNCHANGED queue
     /\ UNCHANGED p_stat

\* Acted on at once, the signal does not stay on the list.
Consumed(p, s) ==
  \/ /\ p_stat[p] = "SSLEEP" /\ "SINTR" \in p_flag[p] /\ Action(p, s) = "DFL"
     /\ s = SIGCONT \/ (s \in StopSigs /\ ~act[p].ppwait)
  \/ /\ p_stat[p] = "SSTOP"
     /\ s \in StopSigs \/ (s = SIGCONT /\ Action(p, s) = "DFL")

\* Ignored signals, and the default tty stop of an orphaned process group,
\* are discarded.  A held signal is only recorded, except SIGCONT to a stopped
\* process.
psignal(p, s) ==
  LET deferred == Action(p, s) = "HOLD" /\ (s # SIGCONT \/ p_stat[p] # "SSTOP")
  IN /\ p_stat[p] # "SZOMB" /\ s \notin act[p].ignore
     /\ ~(Action(p, s) = "DFL" /\ s \in TtyStop /\ act[p].orphan)
     /\ SetSiglist(p, Posted(p, s) \ (IF ~deferred /\ Consumed(p, s) THEN {s} ELSE {}))
     /\ p_flag' = [p_flag EXCEPT ![p] =
                     IF s \in StopSigs THEN @ \ {"CONTINUED"}
                     ELSE IF s = SIGCONT /\ p_stat[p] = "SSTOP" THEN @ \union {"CONTINUED"}
                     ELSE @]
     /\ \/ ~deferred /\ p_stat[p] = "SSLEEP" /\ SignalAsleep(p, s)
        \/ ~deferred /\ p_stat[p] = "SSTOP" /\ SignalStopped(p, s)
        \/ /\ deferred \/ p_stat[p] \in {"SRUN", "SONPROC"}
           /\ UNCHANGED <<p_stat, queue>>
     /\ UNCHANGED <<act, p_sleep_to, pc, sls, error, hist>>

-----------------------------------------------------------------------------
Step(p) ==
  \/ SetupResumed(p) \/ SwitchedTo(p) \/ sleep_finish_timeout(p)
  \/ sleep_finish_signal(p)

Next ==
  \/ \E p \in Procs : tsleep(p) \/ Step(p) \/ userret(p) \/ endtsleep(p)
  \/ \E p \in Targets, s \in Signals : psignal(p, s)
  \/ \E ident \in Idents, one \in BOOLEAN : wakeup_n(ident, one)

Spec == Init /\ [][Next]_vars

\* A runnable process runs, softclock runs timeouts that are due, and no
\* process stays in one system call for ever, so that it passes userret
\* again and again.
FairSpec ==
  /\ Spec
  /\ \A p \in Procs : WF_vars(Step(p)) /\ SF_vars(userret(p)) /\ WF_vars(endtsleep(p))

-----------------------------------------------------------------------------
(***************************************************************************)
(* Properties.                                                             *)
(***************************************************************************)

\* The sleep queue and the processes agree: those on it, once each, are those
\* with a wait channel; they are asleep or stopped, or wakeup_n panics; and
\* whoever is asleep is on it, or no wakeup can reach it.
QueueTellsSleepers ==
  /\ TypeOK
  /\ Distinct(slpque)
  /\ \A p \in Procs :
       /\ p_wchan[p] # NoIdent <=> OnQueue(slpque, p)
       /\ p_wchan[p] # NoIdent => p_stat[p] \in {"SSLEEP", "SSTOP"}
       /\ p_stat[p] = "SSLEEP" => p_wchan[p] # NoIdent

\* The signals that end a sleep and call a handler.
Caught(p) == act[p].catch \ act[p].mask

\* A signal that ended a sleep of p may be cancelled before p looks at it:
\* a caught stop by a SIGCONT that is not caught, a caught SIGCONT by a stop
\* that is blocked, and either by a stop that a vfork child is spared.
MayCancel(p) ==
  \/ SIGTSTP \in Caught(p) /\ SIGCONT \notin Caught(p)
  \/ SIGCONT \in Caught(p) /\ SIGTSTP \in act[p].mask
  \/ act[p].ppwait /\ {SIGTSTP, SIGCONT} \cap Caught(p) # {}

\* What tsleep returns is what happened.  0: a wakeup on its channel,
\* whatever stops, continues and signals came in between ("Returns 0 if
\* awakened"), unless the process has set up its signals so that one that
\* ended the sleep may be cancelled.  EWOULDBLOCK: this sleep timed out, no
\* wakeup came first.  And of its timeout nothing is left that would cut the
\* next sleep short.
ErrorTellsCause ==
  \A p \in Procs : pc[p] = "user" =>
    /\ error[p] = "0" => woken[p] \/ MayCancel(p)
    /\ error[p] = "EWOULDBLOCK" => expired[p] /\ ~woken[p]
    /\ ~p_sleep_to[p] /\ "TIMEOUT" \notin p_flag[p]

\* A stopped process stays stopped, whatever wakeups, timeouts and other
\* signals come, until SIGCONT or SIGKILL.
StaysStopped ==
  [][\A p \in Procs : p_stat[p] = "SSTOP" /\ p_stat'[p] # "SSTOP" =>
       \/ "CONTINUED" \in p_flag'[p]
       \/ SIGKILL \in p_siglist'[p]]_vars

\* The pending signals that nothing can cancel and that end a system call.
Demanding(p) == Deliverable(p) \ (StopSigs \union {SIGCONT} \union act[p].ignore)

Uninterruptible(p) == p_stat[p] = "SSLEEP" /\ "SINTR" \notin p_flag[p]

\* CURSIG stopped p when it was on the queue but had not switched yet, and
\* SIGCONT put it to sleep there: it has not looked at the signals above the
\* one that stopped it.
ContinuedInSetup(p) == p_stat[p] = "SSLEEP" /\ pc[p] = "setup"

\* Sleeps end.  SIGKILL ends a process unless it sleeps uninterruptibly.  Any
\* other signal that terminates the process or is caught ends an interruptible
\* sleep, also if it came during a stop: when it is continued the process
\* looks at the signal and does not sleep on, unless the stop was in CURSIG.
\* And a sleep with a timeout is over some time, or the process is stopped.
SleepsEnd ==
  /\ \A p \in Targets :
       /\ SIGKILL \in p_siglist[p] ~> p_stat[p] = "SZOMB" \/ Uninterruptible(p)
       /\ Demanding(p) # {} ~>
            \/ pc[p] = "user" \/ p_stat[p] = "SSTOP"
            \/ Uninterruptible(p) \/ ContinuedInSetup(p)
  /\ \A p \in Procs : p_sleep_to[p] ~> pc[p] = "user" \/ p_stat[p] = "SSTOP"
=============================================================================
