----------------------------- MODULE SleepProofs -----------------------------
(***************************************************************************)
(* For any processes, wait channels, sleeps and signal set-ups: the sleep  *)
(* queue and the processes agree, tsleep returns what happened, and a      *)
(* stopped process stays stopped until SIGCONT or SIGKILL.                 *)
(***************************************************************************)
EXTENDS Sleep, QueueProofs

-----------------------------------------------------------------------------
(***************************************************************************)
(* The inductive invariant.                                                *)
(***************************************************************************)

\* The wait channels w and the queue q name the same processes.
Agree(w, q) ==
  /\ q \in Seq(Procs) /\ Distinct(q)
  /\ \A p \in Procs : w[p] # NoIdent <=> OnQueue(q, p)

\* TypeOK but for the queue.
TypeInv ==
  /\ act \in [Procs -> UNION {Acts[p] : p \in Procs}]
  /\ p_stat \in [Procs -> {"SONPROC", "SRUN", "SSLEEP", "SSTOP", "SZOMB"}]
  /\ p_wchan \in [Procs -> Idents \union {NoIdent}]
  /\ p_flag \in [Procs -> SUBSET {"SINTR", "TIMEOUT", "CONTINUED"}]
  /\ p_siglist \in [Procs -> SUBSET Signals]
  /\ p_sleep_to \in [Procs -> BOOLEAN]
  /\ pc \in [Procs -> {"user", "setup", "switch", "finish", "finish_signal"}]
  /\ sls_catch \in [Procs -> BOOLEAN] /\ sls_sig \in [Procs -> Signals \union {0}]
  /\ error \in [Procs -> {"0", "EWOULDBLOCK", "EINTR"}]
  /\ woken \in [Procs -> BOOLEAN] /\ expired \in [Procs -> BOOLEAN]

\* Where in tsleep a process is, the state it may be in, and its SINTR.
PlaceInv(p) ==
  /\ act[p] \in Acts[p]
  /\ pc[p] = "user" => p_stat[p] # "SSLEEP"
  /\ pc[p] = "finish" => p_stat[p] = "SONPROC"
  /\ pc[p] = "finish_signal" => p_stat[p] \in {"SONPROC", "SRUN", "SSTOP"}
  /\ pc[p] \in {"setup", "switch"} => p_stat[p] \in {"SSLEEP", "SRUN", "SSTOP"}
  /\ p_wchan[p] # NoIdent => p_stat[p] \in {"SSLEEP", "SSTOP"} /\ pc[p] \in {"setup", "switch"}
  /\ p_stat[p] = "SSLEEP" => p_wchan[p] # NoIdent
  /\ "SINTR" \in p_flag[p] => pc[p] \in {"setup", "switch"} /\ sls_catch[p]
  /\ pc[p] = "setup" => "SINTR" \in p_flag[p] /\ sls_sig[p] = 0
  /\ pc[p] = "switch" /\ p_stat[p] = "SSTOP" => "SINTR" \in p_flag[p]

\* The timeout of a sleep, and what it leaves behind.
TimeoutInv(p) ==
  /\ p_wchan[p] # NoIdent => ~woken[p] /\ ~expired[p]
  /\ ~(woken[p] /\ expired[p])
  /\ "TIMEOUT" \in p_flag[p] => expired[p] /\ ~p_sleep_to[p]
  /\ error[p] = "EWOULDBLOCK" => expired[p]
  /\ pc[p] \in {"finish_signal", "user"} => ~p_sleep_to[p] /\ "TIMEOUT" \notin p_flag[p]

\* A signal that issignal will find, or one of which only a stop is left,
\* pending or in force, that a caught SIGCONT must end.
SignalAhead(p) ==
  \/ \E s \in Deliverable(p) : Disposition(p, s) = "keep"
  \/ /\ SIGCONT \in Caught(p)
     /\ p_stat[p] = "SSTOP" \/ \E s \in Deliverable(p) : Disposition(p, s) = "stop"

\* Why a process that slept does not any more.
CauseInv(p) ==
  p_wchan[p] = NoIdent /\ error[p] = "0" =>
    \/ woken[p] \/ MayCancel(p)
    \/ pc[p] # "user" /\ "TIMEOUT" \in p_flag[p]
    \/ pc[p] # "user" /\ sls_catch[p] /\ (sls_sig[p] # 0 \/ SignalAhead(p))

ProcInv(p) == PlaceInv(p) /\ TimeoutInv(p) /\ CauseInv(p)

IInv ==
  /\ TypeInv
  /\ Agree(p_wchan, slpque)
  /\ \A p \in Procs : ProcInv(p)

-----------------------------------------------------------------------------
(***************************************************************************)
(* The sleep queue.                                                        *)
(***************************************************************************)

\* p joins the queue with wait channel chan.
LEMMA Joins ==
  ASSUME Agree(p_wchan, slpque), NEW p \in Procs, p_wchan[p] = NoIdent, NEW chan, chan # NoIdent,
         NEW w, w[p] = chan, \A x \in Procs : x # p => w[x] = p_wchan[x]
  PROVE  Agree(w, Append(slpque, p))
<1>1. ~OnQueue(slpque, p) /\ slpque \in Seq(Procs) /\ Distinct(slpque)
  BY DEF Agree
<1>2. /\ Append(slpque, p) \in Seq(Procs) /\ Distinct(Append(slpque, p))
      /\ \A x : OnQueue(Append(slpque, p), x) <=> x = p \/ OnQueue(slpque, x)
  BY <1>1, Appended
<1> QED BY <1>2 DEF Agree

\* The processes of S leave the queue.
LEMMA Leave ==
  ASSUME NEW v, NEW q, Agree(v, q), NEW S,
         NEW w, \A x \in Procs : w[x] = IF x \in S THEN NoIdent ELSE v[x]
  PROVE  Agree(w, Without(q, S))
<1>1. q \in Seq(Procs) /\ Distinct(q)
  BY DEF Agree
<1>2. /\ Without(q, S) \in Seq(Procs) /\ Distinct(Without(q, S))
      /\ \A x : OnQueue(Without(q, S), x) <=> OnQueue(q, x) /\ x \notin S
  BY <1>1, Unlinked
<1> QED BY <1>2 DEF Agree

-----------------------------------------------------------------------------
(***************************************************************************)
(* Signals.                                                                *)
(***************************************************************************)

\* The set-up of a process that sees its signals.
LEMMA SetUp ==
  ASSUME NEW p \in Procs, act[p] \in Acts[p]
  PROVE  /\ act[p].catch \subseteq {SIGTSTP, SIGCONT, SIGUSR1}
         /\ act[p].mask \subseteq {SIGTSTP, SIGCONT, SIGUSR1}
         /\ act[p].ignore \subseteq {SIGTSTP, SIGUSR1}
         /\ act[p].catch \cap act[p].ignore = {}
         /\ act[p].orphan \in BOOLEAN /\ act[p].ppwait \in BOOLEAN
BY ActsAssumption DEF SIGTSTP, SIGCONT, SIGUSR1

\* A non-empty set of signals has a least one.
LEMMA Lowest ==
  ASSUME NEW S \in SUBSET Signals, S # {}
  PROVE  Min(S) \in S /\ Min(S) \in Signals /\ Min(S) # 0
<1>1. S \subseteq {9, 17, 18, 19, 30}
  BY ActsAssumption DEF SIGKILL, SIGSTOP, SIGTSTP, SIGCONT, SIGUSR1
<1>2. \E x \in S : \A y \in S : x <= y
  <2>1. CASE 9 \in S
    BY <1>1, <2>1
  <2>2. CASE 9 \notin S /\ 17 \in S
    BY <1>1, <2>2
  <2>3. CASE 9 \notin S /\ 17 \notin S /\ 18 \in S
    BY <1>1, <2>3
  <2>4. CASE 9 \notin S /\ 17 \notin S /\ 18 \notin S /\ 19 \in S
    BY <1>1, <2>4
  <2>5. CASE 9 \notin S /\ 17 \notin S /\ 18 \notin S /\ 19 \notin S
    <3>1. \A x \in S : x = 30
      BY <1>1, <2>5
    <3> QED BY <3>1
  <2> QED BY <2>1, <2>2, <2>3, <2>4, <2>5
<1>3. Min(S) \in S
  BY <1>2 DEF Min
<1>4. \A x \in S : x \in Signals /\ x # 0
  BY <1>1
<1> HIDE DEF Min
<1> QED BY <1>3, <1>4

\* What issignal returns and leaves on the list.
LEMMA Looked ==
  ASSUME TypeInv, NEW p \in Procs
  PROVE  LET r == issignal(p)
         IN /\ r.stop \in BOOLEAN /\ r.sig \in Signals \union {0}
            /\ r.list \in SUBSET Signals /\ r.list \subseteq p_siglist[p]
            /\ r.stop => r.sig = 0
            /\ r.sig # 0 => r.sig \in Deliverable(p) /\ Disposition(p, r.sig) = "keep"
            /\ ~r.stop /\ r.sig = 0 => \A s \in Deliverable(p) : Disposition(p, s) = "drop"
            /\ \A s \in Deliverable(p) : Disposition(p, s) = "keep" => s \in r.list
<1> DEFINE todo == {s \in Deliverable(p) : Disposition(p, s) # "drop"}
           sig  == IF todo = {} THEN 0 ELSE Min(todo)
           left == p_siglist[p] \ {s \in Deliverable(p) : s \notin todo /\ (sig = 0 \/ s < sig)}
           stop == sig # 0 /\ Disposition(p, sig) = "stop"
           r == issignal(p)
<1>1. /\ r.sig = (IF stop THEN 0 ELSE sig) /\ r.stop = stop
      /\ r.list = (IF stop THEN left \ {sig} ELSE left)
  BY DEF issignal
<1>2. p_siglist[p] \in SUBSET Signals /\ Deliverable(p) \subseteq p_siglist[p]
  BY DEF TypeInv, Deliverable
<1>3. \A s : Disposition(p, s) \in {"drop", "keep", "stop"}
  BY DEF Disposition
<1>4. todo # {} => Min(todo) \in todo /\ Min(todo) \in Signals /\ Min(todo) # 0
  BY <1>2, Lowest
<1> HIDE DEF r
<1>5. todo = {} => sig = 0
  OBVIOUS
<1>6. todo # {} => sig \in todo /\ sig \in Signals /\ sig # 0
  BY <1>4
<1> HIDE DEF sig
<1>7. left \subseteq p_siglist[p] /\ \A s \in todo : s \in left
  BY <1>2
<1>8. /\ \A s \in todo : s \in Deliverable(p) /\ Disposition(p, s) \in {"keep", "stop"}
      /\ \A s \in Deliverable(p) : Disposition(p, s) = "keep" => s \in todo
      /\ todo = {} => \A s \in Deliverable(p) : Disposition(p, s) = "drop"
  BY <1>3
<1> HIDE DEF todo, left
<1>9. r.stop => sig # 0 /\ sig \in todo /\ Disposition(p, sig) = "stop" /\ r.sig = 0
  BY <1>1, <1>5, <1>6
<1>10. ~r.stop => r.sig = sig /\ r.list = left
  BY <1>1
<1>11. r.stop \in BOOLEAN /\ r.list \subseteq left
  BY <1>1
<1>12. \A s \in Deliverable(p) : Disposition(p, s) = "keep" => s \in r.list
  BY <1>1, <1>7, <1>8, <1>9, <1>10
<1>13. ~r.stop /\ sig # 0 => sig \in Deliverable(p) /\ Disposition(p, sig) = "keep"
  BY <1>1, <1>5, <1>8, <1>6
<1>14. sig = 0 => todo = {}
  BY <1>6
<1> QED BY <1>2, <1>5, <1>6, <1>7, <1>8, <1>9, <1>10, <1>11, <1>12, <1>13, <1>14 DEF r

-----------------------------------------------------------------------------
(***************************************************************************)
(* The steps of the processes.                                             *)
(***************************************************************************)

\* Nothing that concerns q changes.
Undisturbed(q) ==
  /\ act'[q] = act[q] /\ p_stat'[q] = p_stat[q] /\ p_wchan'[q] = p_wchan[q]
  /\ p_flag'[q] = p_flag[q] /\ p_siglist'[q] = p_siglist[q] /\ p_sleep_to'[q] = p_sleep_to[q]
  /\ pc'[q] = pc[q] /\ sls_catch'[q] = sls_catch[q] /\ sls_sig'[q] = sls_sig[q]
  /\ error'[q] = error[q] /\ woken'[q] = woken[q] /\ expired'[q] = expired[q]

LEMMA Elsewhere ==
  ASSUME NEW q \in Procs, ProcInv(q), Undisturbed(q)
  PROVE  ProcInv(q)'
<1>1. Deliverable(q)' = Deliverable(q) /\ Caught(q)' = Caught(q)
  BY DEF Undisturbed, Deliverable, Caught
<1>2. \A s : Disposition(q, s)' = Disposition(q, s)
  BY DEF Undisturbed, Disposition
<1>3. SignalAhead(q)' <=> SignalAhead(q)
  BY <1>1, <1>2 DEF Undisturbed, SignalAhead
<1>4. MayCancel(q)' <=> MayCancel(q)
  BY <1>1 DEF Undisturbed, MayCancel
<1> QED BY <1>3, <1>4 DEF Undisturbed, ProcInv, PlaceInv, TimeoutInv, CauseInv

\* Only p is concerned.
LEMMA OnlyOne ==
  ASSUME IInv, TypeInv', Agree(p_wchan, slpque)', NEW p \in Procs, ProcInv(p)',
         \A q \in Procs : q # p => Undisturbed(q)
  PROVE  IInv'
<1>1. \A q \in Procs : ProcInv(q)'
  BY Elsewhere DEF IInv
<1> QED BY <1>1 DEF IInv

LEMMA SwitchedToInv ==
  ASSUME IInv, NEW p \in Procs, SwitchedTo(p)
  PROVE  IInv'
<1> USE DEF SwitchedTo, Awake, Goto, queue, sls, hist
<1>1. TypeInv /\ Agree(p_wchan, slpque) /\ ProcInv(p)
  BY DEF IInv
<1>2. TypeInv' /\ \A q \in Procs : q # p => Undisturbed(q)
  BY <1>1 DEF TypeInv, Undisturbed
<1>3. Agree(p_wchan, slpque)'
  BY <1>1
<1>4. /\ p_wchan[p] = NoIdent /\ pc'[p] = "finish" /\ p_stat'[p] = "SONPROC"
      /\ p_flag'[p] = p_flag[p] \ {"SINTR"}
  BY <1>1 DEF TypeInv, ProcInv, PlaceInv
<1>5. PlaceInv(p)' /\ TimeoutInv(p)'
  BY <1>1, <1>4 DEF ProcInv, PlaceInv, TimeoutInv
<1>6. SignalAhead(p) => SignalAhead(p)'
  BY <1>1 DEF SignalAhead, Deliverable, Disposition, Caught
<1>7. CauseInv(p)'
  BY <1>1, <1>4, <1>6 DEF ProcInv, CauseInv, MayCancel, Caught
<1> QED BY <1>2, <1>3, <1>5, <1>7, OnlyOne DEF ProcInv

LEMMA FinishTimeoutInv ==
  ASSUME IInv, NEW p \in Procs, sleep_finish_timeout(p)
  PROVE  IInv'
<1> USE DEF sleep_finish_timeout, Goto, queue, sls, hist
<1>1. TypeInv /\ Agree(p_wchan, slpque) /\ ProcInv(p)
  BY DEF IInv
<1>2. \A q \in Procs : q # p => Undisturbed(q)
  BY <1>1 DEF TypeInv, Undisturbed
<1>2a. /\ p_flag' \in [Procs -> SUBSET {"SINTR", "TIMEOUT", "CONTINUED"}]
       /\ p_sleep_to' \in [Procs -> BOOLEAN]
       /\ error' \in [Procs -> {"0", "EWOULDBLOCK", "EINTR"}]
  <2>1. CASE "TIMEOUT" \in p_flag[p]
    <3>1. p_flag' = [p_flag EXCEPT ![p] = @ \ {"TIMEOUT"}] /\ p_sleep_to' = p_sleep_to
      BY <2>1
    <3>2. error' = [error EXCEPT ![p] = "EWOULDBLOCK"]
      BY <2>1
    <3>3. p_flag' \in [Procs -> SUBSET {"SINTR", "TIMEOUT", "CONTINUED"}]
      BY <1>1, <3>1 DEF TypeInv
    <3>4. error' \in [Procs -> {"0", "EWOULDBLOCK", "EINTR"}]
      BY <1>1, <3>2 DEF TypeInv
    <3> QED BY <1>1, <3>1, <3>3, <3>4 DEF TypeInv
  <2>2. CASE "TIMEOUT" \notin p_flag[p]
    BY <1>1, <2>2 DEF TypeInv
  <2> QED BY <2>1, <2>2
<1>2b. TypeInv'
  BY <1>1, <1>2a DEF TypeInv
<1>3. Agree(p_wchan, slpque)'
  BY <1>1
<1>4. /\ pc[p] = "finish" /\ pc'[p] = "finish_signal"
      /\ \/ /\ "TIMEOUT" \in p_flag[p] /\ error'[p] = "EWOULDBLOCK"
            /\ p_flag'[p] = p_flag[p] \ {"TIMEOUT"} /\ p_sleep_to'[p] = p_sleep_to[p]
         \/ /\ "TIMEOUT" \notin p_flag[p] /\ error'[p] = error[p]
            /\ p_flag'[p] = p_flag[p] /\ ~p_sleep_to'[p]
  BY <1>1 DEF TypeInv
<1>5. PlaceInv(p)' /\ TimeoutInv(p)'
  BY <1>1, <1>4 DEF ProcInv, PlaceInv, TimeoutInv
<1>6. SignalAhead(p) => SignalAhead(p)'
  BY <1>1 DEF SignalAhead, Deliverable, Disposition, Caught
<1>7. CauseInv(p)'
  BY <1>1, <1>4, <1>6 DEF ProcInv, CauseInv, MayCancel, Caught
<1> QED BY <1>2, <1>2b, <1>3, <1>5, <1>7, OnlyOne DEF ProcInv

LEMMA UserretInv ==
  ASSUME IInv, NEW p \in Procs, userret(p)
  PROVE  IInv'
<1> USE DEF userret, SetSiglist, proc_stop, queue, sls, hist
<1>1. TypeInv /\ Agree(p_wchan, slpque) /\ ProcInv(p)
  BY DEF IInv
<1>2. issignal(p).list \in SUBSET Signals
  BY <1>1, Looked
<1>3. \A q \in Procs : q # p => Undisturbed(q)
  BY <1>1 DEF TypeInv, Undisturbed
<1>4. /\ pc[p] = "user" /\ p_stat'[p] \in {"SSTOP", "SONPROC", "SZOMB"}
      /\ p_stat' \in [Procs -> {"SONPROC", "SRUN", "SSLEEP", "SSTOP", "SZOMB"}]
      /\ p_siglist' \in [Procs -> SUBSET Signals]
  BY <1>1, <1>2 DEF TypeInv
<1>5. TypeInv'
  BY <1>1, <1>4 DEF TypeInv
<1>6. Agree(p_wchan, slpque)'
  BY <1>1
<1>7. PlaceInv(p)' /\ TimeoutInv(p)'
  BY <1>1, <1>4 DEF ProcInv, PlaceInv, TimeoutInv
<1>8. CauseInv(p)'
  BY <1>1, <1>4 DEF ProcInv, CauseInv, MayCancel, Caught
<1> QED BY <1>3, <1>5, <1>6, <1>7, <1>8, OnlyOne DEF ProcInv

LEMMA FinishSignalInv ==
  ASSUME IInv, NEW p \in Procs, sleep_finish_signal(p)
  PROVE  IInv'
<1> DEFINE r == issignal(p)
<1> USE DEF SetSiglist, proc_stop, Goto, queue, sls, hist
<1>1. TypeInv /\ Agree(p_wchan, slpque) /\ ProcInv(p)
  BY DEF IInv
<1>2. /\ r.stop \in BOOLEAN /\ r.sig \in Signals \union {0}
      /\ r.list \in SUBSET Signals /\ r.list \subseteq p_siglist[p]
      /\ ~r.stop /\ r.sig = 0 => \A s \in Deliverable(p) : Disposition(p, s) = "drop"
      /\ \A s \in Deliverable(p) : Disposition(p, s) = "keep" => s \in r.list
  BY <1>1, Looked
<1>3. Agree(p_wchan, slpque)' /\ p_wchan[p] = NoIdent /\ p_wchan' = p_wchan
  BY <1>1 DEF sleep_finish_signal, ProcInv, PlaceInv
<1>4. CASE /\ p_stat' = [p_stat EXCEPT ![p] = "SSTOP"] /\ p_siglist' = [p_siglist EXCEPT ![p] = r.list]
           /\ sls_catch[p] /\ UNCHANGED <<error, pc, sls>>
  <2>1. TypeInv'
    BY <1>1, <1>2, <1>4 DEF TypeInv, sleep_finish_signal
  <2>2. \A q \in Procs : q # p => Undisturbed(q)
    BY <1>1, <1>4 DEF TypeInv, Undisturbed, sleep_finish_signal
  <2>3. pc[p] = "finish_signal" /\ p_stat'[p] = "SSTOP" /\ p_siglist'[p] = r.list
    BY <1>1, <1>4 DEF TypeInv, sleep_finish_signal
  <2>4. PlaceInv(p)' /\ TimeoutInv(p)'
    BY <1>1, <1>4, <2>3 DEF ProcInv, PlaceInv, TimeoutInv, sleep_finish_signal
  <2>5. act'[p] = act[p] /\ p_stat[p] \in {"SONPROC", "SRUN"}
    BY DEF sleep_finish_signal
  <2>6. \A s \in Deliverable(p) : s \in r.list => s \in Deliverable(p)'
    BY <2>3, <2>5 DEF Deliverable
  <2>7. /\ \A s : Disposition(p, s)' = Disposition(p, s)
        /\ Caught(p)' = Caught(p) /\ MayCancel(p)' = MayCancel(p)
    BY <2>5 DEF Disposition, Caught, MayCancel
  <2>8. SignalAhead(p) => SignalAhead(p)'
    BY <1>2, <2>3, <2>6, <2>7 DEF SignalAhead
  <2>9. CauseInv(p)'
    BY <1>1, <1>4, <2>3, <2>7, <2>8 DEF ProcInv, CauseInv, sleep_finish_signal
  <2> QED BY <1>3, <2>1, <2>2, <2>4, <2>9, OnlyOne DEF ProcInv
<1>5. ASSUME NEW e \in {"EINTR", error[p]},
             /\ p_stat' = [p_stat EXCEPT ![p] = "SONPROC"]
             /\ error' = [error EXCEPT ![p] = e]
             /\ pc' = [pc EXCEPT ![p] = "user"]
             /\ sls_catch' = [sls_catch EXCEPT ![p] = FALSE]
             /\ sls_sig' = [sls_sig EXCEPT ![p] = 0],
             NEW l \in SUBSET Signals, p_siglist' = [p_siglist EXCEPT ![p] = l],
             e = "EINTR" \/ ~sls_catch[p] \/ (sls_sig[p] = 0 /\ ~r.stop /\ r.sig = 0)
      PROVE  IInv'
  <2>0. e \in {"0", "EWOULDBLOCK", "EINTR"}
    BY <1>1, <1>5 DEF TypeInv
  <2>1. TypeInv'
    BY <1>1, <1>5, <2>0 DEF TypeInv, sleep_finish_signal
  <2>2. \A q \in Procs : q # p => Undisturbed(q)
    BY <1>1, <1>5 DEF TypeInv, Undisturbed, sleep_finish_signal
  <2>3. /\ pc[p] = "finish_signal" /\ pc'[p] = "user" /\ p_stat'[p] = "SONPROC"
        /\ error'[p] = e
    BY <1>1, <1>5 DEF TypeInv, sleep_finish_signal
  <2>4. PlaceInv(p)' /\ TimeoutInv(p)'
    BY <1>1, <1>3, <1>5, <2>3 DEF ProcInv, PlaceInv, TimeoutInv, sleep_finish_signal
  <2>5. act'[p] = act[p] /\ p_stat[p] \in {"SONPROC", "SRUN"} /\ woken' = woken
    BY DEF sleep_finish_signal
  <2>6. ~r.stop /\ r.sig = 0 => ~SignalAhead(p)
    BY <1>2, <2>5 DEF SignalAhead
  <2>7. MayCancel(p)' = MayCancel(p)
    BY <2>5 DEF Caught, MayCancel
  <2>8. "TIMEOUT" \notin p_flag[p]
    BY <1>1, <2>3 DEF ProcInv, TimeoutInv
  <2>9. e = "0" => woken[p] \/ MayCancel(p)
    BY <1>1, <1>3, <1>5, <2>6, <2>8 DEF ProcInv, CauseInv
  <2>10. CauseInv(p)'
    BY <2>3, <2>5, <2>7, <2>9 DEF CauseInv
  <2> QED BY <1>3, <2>1, <2>2, <2>4, <2>10, OnlyOne DEF ProcInv
<1>6. p_siglist[p] \in SUBSET Signals /\ p_siglist = [p_siglist EXCEPT ![p] = p_siglist[p]]
  BY <1>1 DEF TypeInv
<1>7. CASE ~sls_catch[p] /\ UNCHANGED p_siglist
  BY <1>5, <1>6, <1>7 DEF sleep_finish_signal
<1>8. CASE sls_catch[p] /\ sls_sig[p] # 0 /\ UNCHANGED p_siglist
  BY <1>5, <1>6, <1>8 DEF sleep_finish_signal
<1>9. CASE sls_catch[p] /\ sls_sig[p] = 0
  BY <1>2, <1>4, <1>5, <1>9 DEF sleep_finish_signal
<1> QED BY <1>7, <1>8, <1>9 DEF sleep_finish_signal

\* unsleep keeps wait channels and queue in agreement.
LEMMA Unslept ==
  ASSUME TypeInv, Agree(p_wchan, slpque), NEW p \in Procs, unsleep(p)
  PROVE  /\ Agree(p_wchan, slpque)'
         /\ p_wchan' \in [Procs -> Idents \union {NoIdent}]
         /\ p_wchan'[p] = NoIdent /\ \A q \in Procs : q # p => p_wchan'[q] = p_wchan[q]
<1>1. /\ p_wchan' \in [Procs -> Idents \union {NoIdent}]
      /\ p_wchan'[p] = NoIdent /\ \A q \in Procs : q # p => p_wchan'[q] = p_wchan[q]
  BY DEF TypeInv, unsleep
<1>2. Agree(p_wchan', Without(slpque, {p}))
  BY <1>1, Leave
<1> QED BY <1>1, <1>2 DEF Agree, unsleep

LEMMA EndtsleepInv ==
  ASSUME IInv, NEW p \in Procs, endtsleep(p)
  PROVE  IInv'
<1> USE DEF queue, sls
<1>1. TypeInv /\ Agree(p_wchan, slpque) /\ ProcInv(p)
  BY DEF IInv
<1>2. CASE p_wchan[p] = NoIdent
  <2>1. p_sleep_to' = [p_sleep_to EXCEPT ![p] = FALSE] /\ UNCHANGED <<queue, p_stat, p_flag, expired>>
    BY <1>2 DEF endtsleep
  <2>2. TypeInv'
    BY <1>1, <2>1 DEF TypeInv, endtsleep
  <2>3. \A q \in Procs : q # p => Undisturbed(q)
    BY <1>1, <2>1 DEF TypeInv, Undisturbed, endtsleep
  <2>4. Agree(p_wchan, slpque)' /\ ~p_sleep_to'[p]
    BY <1>1, <2>1 DEF TypeInv
  <2>5. PlaceInv(p)' /\ TimeoutInv(p)'
    BY <1>1, <2>1, <2>4 DEF ProcInv, PlaceInv, TimeoutInv, endtsleep
  <2>6. (SignalAhead(p) => SignalAhead(p)') /\ (MayCancel(p) => MayCancel(p)')
    BY <2>1 DEF SignalAhead, Deliverable, Disposition, Caught, MayCancel, endtsleep
  <2>7. CauseInv(p)'
    BY <1>1, <2>1, <2>6 DEF ProcInv, CauseInv, endtsleep
  <2> QED BY <2>2, <2>3, <2>4, <2>5, <2>7, OnlyOne DEF ProcInv
<1>3. CASE p_wchan[p] # NoIdent
  <2>1. /\ p_sleep_to' = [p_sleep_to EXCEPT ![p] = FALSE]
        /\ p_flag' = [p_flag EXCEPT ![p] = @ \union {"TIMEOUT"}]
        /\ expired' = [expired EXCEPT ![p] = TRUE]
        /\ unsleep(p)
    BY <1>3 DEF endtsleep, setrunnable
  <2>2. /\ p_stat' \in [Procs -> {"SONPROC", "SRUN", "SSLEEP", "SSTOP", "SZOMB"}]
        /\ p_stat'[p] = IF p_stat[p] = "SSLEEP" THEN "SRUN" ELSE p_stat[p]
        /\ \A q \in Procs : q # p => p_stat'[q] = p_stat[q]
    BY <1>1, <1>3 DEF TypeInv, endtsleep, setrunnable
  <2>3. /\ Agree(p_wchan, slpque)'
        /\ p_wchan' \in [Procs -> Idents \union {NoIdent}]
        /\ p_wchan'[p] = NoIdent /\ \A q \in Procs : q # p => p_wchan'[q] = p_wchan[q]
    BY <1>1, <2>1, Unslept
  <2>4. /\ ~p_sleep_to'[p] /\ p_flag'[p] = p_flag[p] \union {"TIMEOUT"} /\ expired'[p]
        /\ \A q \in Procs : q # p => /\ p_sleep_to'[q] = p_sleep_to[q]
                                     /\ p_flag'[q] = p_flag[q] /\ expired'[q] = expired[q]
    BY <1>1, <2>1 DEF TypeInv
  <2>5. /\ p_flag' \in [Procs -> SUBSET {"SINTR", "TIMEOUT", "CONTINUED"}]
        /\ p_sleep_to' \in [Procs -> BOOLEAN]
        /\ expired' \in [Procs -> BOOLEAN]
    BY <1>1, <2>1 DEF TypeInv
  <2>6. TypeInv'
    BY <1>1, <2>2, <2>3, <2>5 DEF TypeInv, endtsleep
  <2>7. \A q \in Procs : q # p => Undisturbed(q)
    BY <2>2, <2>3, <2>4 DEF Undisturbed, endtsleep
  <2>8. PlaceInv(p)' /\ TimeoutInv(p)'
    BY <1>1, <1>3, <2>2, <2>3, <2>4 DEF ProcInv, PlaceInv, TimeoutInv, endtsleep
  <2>9. CauseInv(p)'
    BY <1>1, <1>3, <2>4 DEF ProcInv, PlaceInv, CauseInv, endtsleep
  <2> QED BY <2>3, <2>6, <2>7, <2>8, <2>9, OnlyOne DEF ProcInv
<1> QED BY <1>2, <1>3

LEMMA WakeupInv ==
  ASSUME IInv, NEW ident \in Idents, NEW one \in BOOLEAN, wakeup_n(ident, one)
  PROVE  IInv'
<1> DEFINE W == Wakes(ident, one)
<1> USE DEF sls
<1>1. TypeInv /\ Agree(p_wchan, slpque)
  BY DEF IInv
<1>2. \A x \in W : p_wchan[x] = ident
  BY DEF Wakes
<1>3. Agree(p_wchan', Without(slpque, W))
  BY <1>1, Leave DEF wakeup_n
<1>4. Agree(p_wchan, slpque)'
  BY <1>3 DEF wakeup_n, Agree
<1> HIDE DEF W
<1>5. /\ p_wchan' = [p \in Procs |-> IF p \in W THEN NoIdent ELSE p_wchan[p]]
      /\ p_stat' = [p \in Procs |->
                     IF p \in W /\ p_stat[p] = "SSLEEP" THEN "SRUN" ELSE p_stat[p]]
      /\ woken' = [p \in Procs |-> (p \in W /\ p_wchan[p] = ident) \/ woken[p]]
  BY DEF wakeup_n, W
<1>6. /\ p_wchan' \in [Procs -> Idents \union {NoIdent}]
      /\ p_stat' \in [Procs -> {"SONPROC", "SRUN", "SSLEEP", "SSTOP", "SZOMB"}]
  BY <1>1, <1>5 DEF TypeInv
<1>7. woken' \in [Procs -> BOOLEAN]
  BY <1>1, <1>5 DEF TypeInv
<1>8. TypeInv'
  BY <1>1, <1>6, <1>7 DEF TypeInv, wakeup_n
<1>9. ASSUME NEW p \in Procs
      PROVE  ProcInv(p)'
  <2>1. ProcInv(p)
    BY DEF IInv
  <2>2. CASE p \notin W
    <3>1. p_wchan'[p] = p_wchan[p] /\ p_stat'[p] = p_stat[p]
      BY <1>5, <2>2
    <3>2. woken'[p] = woken[p]
      BY <1>1, <1>5, <2>2 DEF TypeInv
    <3> QED BY <2>1, <3>1, <3>2, Elsewhere DEF Undisturbed, wakeup_n
  <2>3. CASE p \in W
    <3>1. p_wchan[p] # NoIdent
      BY <1>2, <2>3, IdentsAssumption
    <3>2. /\ p_wchan'[p] = NoIdent
          /\ p_stat'[p] = IF p_stat[p] = "SSLEEP" THEN "SRUN" ELSE p_stat[p]
      BY <1>5, <2>3
    <3>3. woken'[p]
      BY <1>2, <1>5, <2>3
    <3>4. PlaceInv(p)' /\ TimeoutInv(p)'
      BY <2>1, <3>1, <3>2, <3>3 DEF ProcInv, PlaceInv, TimeoutInv, wakeup_n
    <3>5. CauseInv(p)'
      BY <3>3 DEF CauseInv
    <3> QED BY <3>4, <3>5 DEF ProcInv
  <2> QED BY <2>2, <2>3
<1> QED BY <1>4, <1>8, <1>9 DEF IInv

\* sleep_setup_signal and what follows, for a process with channel chan when
\* the queue is q and the channels are w: nothing but p is concerned, and what
\* p knows of why it does not sleep is kept.
LEMMA SetupSignalInv ==
  ASSUME IInv, NEW p \in Procs, NEW chan \in Idents \union {NoIdent}, NEW q,
         SetupSignal(p, chan, q),
         NEW w, Agree(w, q), w[p] = chan, \A x \in Procs : x # p => w[x] = p_wchan[x],
         p_stat[p] \in {"SONPROC", "SRUN"},
         act' = act,
         p_sleep_to' \in [Procs -> BOOLEAN], error' \in [Procs -> {"0", "EWOULDBLOCK", "EINTR"}],
         woken' \in [Procs -> BOOLEAN], expired' \in [Procs -> BOOLEAN],
         \A x \in Procs : x # p =>
           /\ p_sleep_to'[x] = p_sleep_to[x] /\ error'[x] = error[x]
           /\ woken'[x] = woken[x] /\ expired'[x] = expired[x],
         chan # NoIdent => ~woken'[p] /\ ~expired'[p],
         ~(woken'[p] /\ expired'[p]),
         "TIMEOUT" \in p_flag[p] => expired'[p] /\ ~p_sleep_to'[p],
         error'[p] = "EWOULDBLOCK" => expired'[p],
         chan = NoIdent /\ error'[p] = "0" =>
           woken'[p] \/ MayCancel(p) \/ "TIMEOUT" \in p_flag[p] \/ SignalAhead(p)
  PROVE  IInv'
<1> DEFINE r == issignal(p)
<1>1. TypeInv /\ ProcInv(p)
  BY DEF IInv
<1>2. /\ r.stop \in BOOLEAN /\ r.sig \in Signals \union {0}
      /\ r.list \in SUBSET Signals /\ r.list \subseteq p_siglist[p]
      /\ r.stop => r.sig = 0
      /\ ~r.stop /\ r.sig = 0 => \A s \in Deliverable(p) : Disposition(p, s) = "drop"
      /\ \A s \in Deliverable(p) : Disposition(p, s) = "keep" => s \in r.list
  BY <1>1, Looked
<1>3. /\ p_siglist' = [p_siglist EXCEPT ![p] = r.list]
      /\ sls_sig' = [sls_sig EXCEPT ![p] = r.sig]
      /\ sls_catch' = [sls_catch EXCEPT ![p] = r.stop \/ r.sig # 0 \/ chan # NoIdent]
  BY DEF SetupSignal, SetSiglist
<1>4. /\ p_siglist' \in [Procs -> SUBSET Signals]
      /\ sls_sig' \in [Procs -> Signals \union {0}]
      /\ p_siglist'[p] = r.list /\ sls_sig'[p] = r.sig
      /\ \A x \in Procs : x # p => p_siglist'[x] = p_siglist[x] /\ sls_sig'[x] = sls_sig[x]
  BY <1>1, <1>2, <1>3 DEF TypeInv
<1>5. /\ sls_catch' \in [Procs -> BOOLEAN]
      /\ sls_catch'[p] = (r.stop \/ r.sig # 0 \/ chan # NoIdent)
      /\ \A x \in Procs : x # p => sls_catch'[x] = sls_catch[x]
  BY <1>1, <1>2, <1>3 DEF TypeInv
<1> HIDE DEF r
<1>6. /\ act'[p] = act[p] /\ Caught(p)' = Caught(p) /\ MayCancel(p)' = MayCancel(p)
      /\ \A s : Disposition(p, s)' = Disposition(p, s)
  BY DEF Caught, MayCancel, Disposition
<1>7. \A s \in Deliverable(p) : s \in r.list => s \in Deliverable(p)'
  BY <1>4 DEF Deliverable
<1>8. ASSUME NEW st \in {"SONPROC", "SSLEEP", "SSTOP"}, p_stat' = [p_stat EXCEPT ![p] = st],
             NEW fl \in SUBSET {"SINTR", "TIMEOUT", "CONTINUED"}, p_flag' = [p_flag EXCEPT ![p] = fl],
             NEW place \in {"setup", "switch", "finish"}, pc' = [pc EXCEPT ![p] = place],
             NEW c \in {chan, NoIdent}, p_wchan' = [p_wchan EXCEPT ![p] = c],
             Agree(p_wchan, slpque)',
             "TIMEOUT" \in fl <=> "TIMEOUT" \in p_flag[p],
             \/ /\ r.stop /\ st = "SSTOP" /\ place = "setup" /\ "SINTR" \in fl /\ c = chan
             \/ /\ ~r.stop /\ (r.sig # 0 \/ chan = NoIdent)
                /\ st = "SONPROC" /\ place = "finish" /\ "SINTR" \notin fl /\ c = NoIdent
             \/ /\ ~r.stop /\ r.sig = 0 /\ chan # NoIdent
                /\ st = "SSLEEP" /\ place = "switch" /\ "SINTR" \in fl /\ c = chan
      PROVE  IInv'
  <2>1. TypeInv'
    BY <1>1, <1>4, <1>5, <1>8 DEF TypeInv
  <2>2. /\ p_stat'[p] = st /\ p_flag'[p] = fl /\ pc'[p] = place /\ p_wchan'[p] = c
        /\ \A x \in Procs : x # p => /\ p_stat'[x] = p_stat[x] /\ p_flag'[x] = p_flag[x]
                                     /\ pc'[x] = pc[x] /\ p_wchan'[x] = p_wchan[x]
    BY <1>1, <1>8 DEF TypeInv
  <2>3. \A x \in Procs : x # p => Undisturbed(x)
    BY <1>4, <1>5, <2>2 DEF Undisturbed
  <2>4. PlaceInv(p)'
    BY <1>1, <1>2, <1>4, <1>5, <1>8, <2>2 DEF ProcInv, PlaceInv
  <2>5. TimeoutInv(p)'
    BY <1>1, <1>8, <2>2 DEF ProcInv, TimeoutInv
  <2>6. r.stop /\ SignalAhead(p) => SignalAhead(p)'
    BY <1>2, <1>6, <1>7, <1>8, <2>2 DEF SignalAhead
  <2>7. ~r.stop /\ r.sig = 0 => ~SignalAhead(p)
    BY <1>2 DEF SignalAhead
  <2>8. ASSUME c = NoIdent, error'[p] = "0"
        PROVE  \/ woken'[p] \/ MayCancel(p)
               \/ place # "user" /\ "TIMEOUT" \in fl
               \/ place # "user" /\ sls_catch'[p] /\ (sls_sig'[p] # 0 \/ SignalAhead(p)')
    <3>1. CASE r.stop
      BY <1>4, <1>5, <1>8, <2>6, <2>8, <3>1
    <3>2. CASE ~r.stop /\ r.sig # 0
      BY <1>4, <1>5, <1>8, <3>2
    <3>3. CASE ~r.stop /\ r.sig = 0
      BY <1>8, <2>7, <2>8, <3>3
    <3> QED BY <3>1, <3>2, <3>3
  <2>9. CauseInv(p)'
    BY <1>6, <2>2, <2>8 DEF CauseInv
  <2> QED BY <1>8, <2>1, <2>3, <2>4, <2>5, <2>9, OnlyOne DEF ProcInv
<1>9. ASSUME p_wchan' = [p_wchan EXCEPT ![p] = chan], slpque' = q
      PROVE  Agree(p_wchan, slpque)'
  <2>1. \A x \in Procs : p_wchan'[x] = w[x]
    BY <1>1, <1>9 DEF TypeInv
  <2> QED BY <1>9, <2>1 DEF Agree
<1>10. ASSUME p_wchan' = [p_wchan EXCEPT ![p] = NoIdent], slpque' = Without(q, {p})
       PROVE  Agree(p_wchan, slpque)'
  <2>1. \A x \in Procs : p_wchan'[x] = IF x \in {p} THEN NoIdent ELSE w[x]
    BY <1>1, <1>10 DEF TypeInv
  <2>2. Agree(p_wchan', Without(q, {p}))
    BY <2>1, Leave
  <2> QED BY <1>10, <2>2 DEF Agree
<1>11. /\ p_flag[p] \union {"SINTR"} \in SUBSET {"SINTR", "TIMEOUT", "CONTINUED"}
       /\ p_flag[p] \ {"SINTR"} \in SUBSET {"SINTR", "TIMEOUT", "CONTINUED"}
  BY <1>1 DEF TypeInv
<1> USE DEF proc_stop, Awake, Goto
<1>12. CASE r.stop
  <2>1. /\ p_stat' = [p_stat EXCEPT ![p] = "SSTOP"]
        /\ p_flag' = [p_flag EXCEPT ![p] = p_flag[p] \union {"SINTR"}]
        /\ pc' = [pc EXCEPT ![p] = "setup"]
        /\ p_wchan' = [p_wchan EXCEPT ![p] = chan] /\ slpque' = q
    BY <1>12 DEF SetupSignal, r
  <2>2. Agree(p_wchan, slpque)'
    BY <1>9, <2>1
  <2> QED BY <1>8, <1>11, <1>12, <2>1, <2>2
<1>13. CASE ~r.stop /\ (r.sig # 0 \/ chan = NoIdent)
  <2>1. /\ p_stat' = [p_stat EXCEPT ![p] = "SONPROC"]
        /\ p_flag' = [p_flag EXCEPT ![p] = p_flag[p] \ {"SINTR"}]
        /\ pc' = [pc EXCEPT ![p] = "finish"]
        /\ p_wchan' = [p_wchan EXCEPT ![p] = NoIdent] /\ slpque' = Without(q, {p})
    BY <1>13 DEF SetupSignal, r
  <2>2. Agree(p_wchan, slpque)'
    BY <1>10, <2>1
  <2> QED BY <1>8, <1>11, <1>13, <2>1, <2>2
<1>14. CASE ~r.stop /\ r.sig = 0 /\ chan # NoIdent
  <2>1. /\ p_stat' = [p_stat EXCEPT ![p] = "SSLEEP"]
        /\ p_flag' = [p_flag EXCEPT ![p] = p_flag[p] \union {"SINTR"}]
        /\ pc' = [pc EXCEPT ![p] = "switch"]
        /\ p_wchan' = [p_wchan EXCEPT ![p] = chan] /\ slpque' = q
    BY <1>14 DEF SetupSignal, r
  <2>2. Agree(p_wchan, slpque)'
    BY <1>9, <2>1
  <2> QED BY <1>8, <1>11, <1>14, <2>1, <2>2
<1> QED BY <1>2, <1>12, <1>13, <1>14

LEMMA SetupResumedInv ==
  ASSUME IInv, NEW p \in Procs, SetupResumed(p)
  PROVE  IInv'
<1>1. TypeInv /\ Agree(p_wchan, slpque) /\ ProcInv(p)
  BY DEF IInv
<1>2. /\ pc[p] = "setup" /\ p_stat[p] = "SRUN" /\ SetupSignal(p, p_wchan[p], slpque)
      /\ act' = act /\ p_sleep_to' = p_sleep_to /\ error' = error /\ woken' = woken
      /\ expired' = expired
  BY DEF SetupResumed, hist
<1>3. p_wchan[p] = NoIdent /\ sls_sig[p] = 0
  BY <1>1, <1>2 DEF ProcInv, PlaceInv
<1>4. SetupSignal(p, NoIdent, slpque)
  BY <1>2, <1>3
<1>5. /\ "TIMEOUT" \in p_flag[p] => expired'[p] /\ ~p_sleep_to'[p]
      /\ error'[p] = "EWOULDBLOCK" => expired'[p]
      /\ ~(woken'[p] /\ expired'[p])
  BY <1>1, <1>2 DEF ProcInv, TimeoutInv
<1>6. error'[p] = "0" => woken'[p] \/ MayCancel(p) \/ "TIMEOUT" \in p_flag[p] \/ SignalAhead(p)
  BY <1>1, <1>2, <1>3 DEF ProcInv, CauseInv
<1>7. /\ p_sleep_to' \in [Procs -> BOOLEAN] /\ error' \in [Procs -> {"0", "EWOULDBLOCK", "EINTR"}]
      /\ woken' \in [Procs -> BOOLEAN] /\ expired' \in [Procs -> BOOLEAN]
  BY <1>1, <1>2 DEF TypeInv
<1>8. \A x \in Procs : x # p =>
           /\ p_sleep_to'[x] = p_sleep_to[x] /\ error'[x] = error[x]
           /\ woken'[x] = woken[x] /\ expired'[x] = expired[x]
  BY <1>2
<1> QED BY <1>1, <1>2, <1>3, <1>4, <1>5, <1>6, <1>7, <1>8, SetupSignalInv

LEMMA TsleepInv ==
  ASSUME IInv, NEW p \in Procs, tsleep(p)
  PROVE  IInv'
<1>1. TypeInv /\ Agree(p_wchan, slpque) /\ ProcInv(p)
  BY DEF IInv
<1>2. PICK ident \in Idents, catch \in BOOLEAN, timo \in BOOLEAN :
        /\ p_sleep_to' = [p_sleep_to EXCEPT ![p] = timo]
        /\ \/ catch /\ SetupSignal(p, ident, Append(slpque, p))
           \/ /\ ~catch
              /\ p_wchan' = [p_wchan EXCEPT ![p] = ident]
              /\ slpque' = Append(slpque, p)
              /\ p_stat' = [p_stat EXCEPT ![p] = "SSLEEP"]
              /\ Goto(p, "switch")
              /\ sls_catch' = [sls_catch EXCEPT ![p] = FALSE]
              /\ sls_sig' = [sls_sig EXCEPT ![p] = 0]
              /\ UNCHANGED <<p_flag, p_siglist>>
  BY DEF tsleep
<1>3. /\ pc[p] = "user" /\ p_stat[p] = "SONPROC" /\ act' = act
      /\ error' = [error EXCEPT ![p] = "0"]
      /\ woken' = [woken EXCEPT ![p] = FALSE]
      /\ expired' = [expired EXCEPT ![p] = FALSE]
  BY DEF tsleep
<1>4. /\ p_sleep_to' \in [Procs -> BOOLEAN] /\ error' \in [Procs -> {"0", "EWOULDBLOCK", "EINTR"}]
      /\ woken' \in [Procs -> BOOLEAN] /\ expired' \in [Procs -> BOOLEAN]
      /\ error'[p] = "0" /\ ~woken'[p] /\ ~expired'[p]
      /\ \A x \in Procs : x # p =>
           /\ p_sleep_to'[x] = p_sleep_to[x] /\ error'[x] = error[x]
           /\ woken'[x] = woken[x] /\ expired'[x] = expired[x]
  BY <1>1, <1>2, <1>3 DEF TypeInv
<1>5. /\ p_wchan[p] = NoIdent /\ ident # NoIdent /\ "TIMEOUT" \notin p_flag[p]
      /\ "SINTR" \notin p_flag[p]
  BY <1>1, <1>3, IdentsAssumption DEF ProcInv, PlaceInv, TimeoutInv
<1> DEFINE w == [p_wchan EXCEPT ![p] = ident]
<1>6. /\ w[p] = ident /\ \A x \in Procs : x # p => w[x] = p_wchan[x]
      /\ w \in [Procs -> Idents \union {NoIdent}]
  BY <1>1 DEF TypeInv
<1> HIDE DEF w
<1>7. Agree(w, Append(slpque, p))
  BY <1>1, <1>5, <1>6, Joins
<1>8. CASE SetupSignal(p, ident, Append(slpque, p))
  <2> DEFINE q == Append(slpque, p)
  <2>1. SetupSignal(p, ident, q) /\ Agree(w, q)
    BY <1>7, <1>8
  <2> HIDE DEF q
  <2>2. ident \in Idents \union {NoIdent} /\ p_stat[p] \in {"SONPROC", "SRUN"} /\ act' = act
    BY <1>3
  <2>3. /\ ident # NoIdent => ~woken'[p] /\ ~expired'[p]
        /\ ~(woken'[p] /\ expired'[p])
        /\ "TIMEOUT" \in p_flag[p] => expired'[p] /\ ~p_sleep_to'[p]
        /\ error'[p] = "EWOULDBLOCK" => expired'[p]
        /\ ident = NoIdent /\ error'[p] = "0" =>
             woken'[p] \/ MayCancel(p) \/ "TIMEOUT" \in p_flag[p] \/ SignalAhead(p)
    BY <1>4, <1>5
  <2> QED BY <1>4, <1>6, <2>1, <2>2, <2>3, SetupSignalInv
<1>9. CASE ~catch
  <2>1. /\ p_wchan' = w /\ slpque' = Append(slpque, p)
        /\ p_stat' = [p_stat EXCEPT ![p] = "SSLEEP"]
        /\ pc' = [pc EXCEPT ![p] = "switch"]
        /\ sls_catch' = [sls_catch EXCEPT ![p] = FALSE]
        /\ sls_sig' = [sls_sig EXCEPT ![p] = 0]
        /\ UNCHANGED <<p_flag, p_siglist>>
    BY <1>2, <1>9 DEF w, Goto
  <2>2. Agree(p_wchan, slpque)'
    BY <1>7, <2>1 DEF Agree
  <2>3. TypeInv'
    BY <1>1, <1>3, <1>4, <1>6, <2>1 DEF TypeInv
  <2>4. /\ p_wchan'[p] = ident /\ p_stat'[p] = "SSLEEP" /\ pc'[p] = "switch"
        /\ \A x \in Procs : x # p =>
             /\ p_wchan'[x] = p_wchan[x] /\ p_stat'[x] = p_stat[x] /\ pc'[x] = pc[x]
             /\ sls_catch'[x] = sls_catch[x] /\ sls_sig'[x] = sls_sig[x]
    BY <1>1, <1>6, <2>1 DEF TypeInv
  <2>5. \A x \in Procs : x # p => Undisturbed(x)
    BY <1>3, <1>4, <2>1, <2>4 DEF Undisturbed
  <2>6. PlaceInv(p)'
    BY <1>1, <1>3, <1>5, <2>1, <2>4 DEF ProcInv, PlaceInv
  <2>7. TimeoutInv(p)' /\ CauseInv(p)'
    BY <1>4, <1>5, <2>1, <2>4 DEF TimeoutInv, CauseInv
  <2> QED BY <2>2, <2>3, <2>5, <2>6, <2>7, OnlyOne DEF ProcInv
<1> QED BY <1>2, <1>8, <1>9

-----------------------------------------------------------------------------
(***************************************************************************)
(* psignal.                                                                *)
(***************************************************************************)

\* What psignal does to a process: it may be made to run or stop, and leave
\* the sleep queue, but nothing else of it changes.
LEMMA Signalled ==
  ASSUME IInv, NEW p \in Procs, NEW s \in Signals, psignal(p, s)
  PROVE  /\ TypeInv' /\ Agree(p_wchan, slpque)'
         /\ \A q \in Procs : q # p => Undisturbed(q)
         /\ p_wchan'[p] \in {p_wchan[p], NoIdent}
<1> USE DEF queue, sls, hist
<1>1. TypeInv /\ Agree(p_wchan, slpque)
  BY DEF IInv
<1>2. unsleep(p) \/ UNCHANGED queue
  BY DEF psignal, SignalAsleep, SignalStopped, Continue, setrunnable
<1>3. \E st \in {"SRUN", "SSLEEP", "SSTOP", p_stat[p]} : p_stat' = [p_stat EXCEPT ![p] = st]
  <2>1. p_stat = [p_stat EXCEPT ![p] = p_stat[p]]
    BY <1>1 DEF TypeInv
  <2> QED BY <2>1 DEF psignal, SignalAsleep, SignalStopped, Continue, setrunnable, proc_stop
<1>4. /\ p_stat' \in [Procs -> {"SONPROC", "SRUN", "SSLEEP", "SSTOP", "SZOMB"}]
      /\ \A q \in Procs : q # p => p_stat'[q] = p_stat[q]
  BY <1>1, <1>3 DEF TypeInv
<1>5. /\ Agree(p_wchan, slpque)'
      /\ p_wchan' \in [Procs -> Idents \union {NoIdent}]
      /\ p_wchan'[p] \in {p_wchan[p], NoIdent} /\ \A q \in Procs : q # p => p_wchan'[q] = p_wchan[q]
  <2>1. CASE unsleep(p)
    BY <1>1, <2>1, Unslept
  <2>2. CASE UNCHANGED queue
    BY <1>1, <2>2 DEF TypeInv, Agree
  <2> QED BY <1>2, <2>1, <2>2
<1>6. \E l \in SUBSET Signals : p_siglist' = [p_siglist EXCEPT ![p] = l]
  <2>1. Posted(p, s) \in SUBSET Signals
    BY <1>1 DEF TypeInv, Posted
  <2> QED BY <2>1 DEF psignal, SetSiglist
<1>7. /\ p_siglist' \in [Procs -> SUBSET Signals]
      /\ \A q \in Procs : q # p => p_siglist'[q] = p_siglist[q]
  BY <1>1, <1>6 DEF TypeInv
<1>8. PICK fl \in SUBSET {"SINTR", "TIMEOUT", "CONTINUED"} : p_flag' = [p_flag EXCEPT ![p] = fl]
  <2>1. /\ p_flag[p] \in SUBSET {"SINTR", "TIMEOUT", "CONTINUED"}
        /\ p_flag[p] \ {"CONTINUED"} \in SUBSET {"SINTR", "TIMEOUT", "CONTINUED"}
        /\ p_flag[p] \union {"CONTINUED"} \in SUBSET {"SINTR", "TIMEOUT", "CONTINUED"}
    BY <1>1 DEF TypeInv
  <2> QED BY <2>1 DEF psignal
<1>9. /\ p_flag' \in [Procs -> SUBSET {"SINTR", "TIMEOUT", "CONTINUED"}]
      /\ \A q \in Procs : q # p => p_flag'[q] = p_flag[q]
  BY <1>1, <1>8 DEF TypeInv
<1>10. UNCHANGED <<act, p_sleep_to, pc, sls, error, hist>>
  BY DEF psignal
<1>11. TypeInv'
  BY <1>1, <1>4, <1>5, <1>7, <1>9, <1>10 DEF TypeInv, sls, hist
<1>12. \A q \in Procs : q # p => Undisturbed(q)
  BY <1>4, <1>5, <1>7, <1>9, <1>10 DEF Undisturbed
<1> QED BY <1>5, <1>11, <1>12

\* The ways psignal can go, for the process itself.
LEMMA Ways ==
  ASSUME IInv, NEW p \in Procs, NEW s \in Signals, psignal(p, s)
  PROVE  LET deferred == Action(p, s) = "HOLD" /\ (s # SIGCONT \/ p_stat[p] # "SSTOP")
             same == p_stat'[p] = p_stat[p] /\ p_wchan'[p] = p_wchan[p]
         IN \/ /\ p_stat[p] = "SSLEEP" /\ "SINTR" \in p_flag[p] /\ Action(p, s) = "DFL"
               /\ s \in StopSigs /\ p_stat'[p] = "SSTOP" /\ p_wchan'[p] = p_wchan[p]
            \/ /\ p_stat[p] = "SSLEEP" /\ "SINTR" \in p_flag[p] /\ ~deferred
               /\ ~(Action(p, s) = "DFL" /\ s \in StopSigs \union {SIGCONT})
               /\ p_stat'[p] = "SRUN" /\ p_wchan'[p] = NoIdent
            \/ p_stat[p] # "SSTOP" /\ same
            \/ p_stat[p] = "SSTOP" /\ s \notin {SIGCONT, SIGKILL} /\ same
            \/ p_stat[p] = "SSTOP" /\ s = SIGKILL /\ p_stat'[p] = "SRUN" /\ p_wchan'[p] = NoIdent
            \/ p_stat[p] = "SSTOP" /\ s = SIGKILL /\ Action(p, s) = "HOLD" /\ same
            \/ /\ p_stat[p] = "SSTOP" /\ s = SIGCONT
               /\ Action(p, s) = "CATCH" \/ p_wchan[p] = NoIdent
               /\ p_stat'[p] = "SRUN" /\ p_wchan'[p] = NoIdent
            \/ /\ p_stat[p] = "SSTOP" /\ s = SIGCONT
               /\ p_wchan[p] # NoIdent
               /\ p_stat'[p] = "SSLEEP" /\ p_wchan'[p] = p_wchan[p]
            \/ /\ p_stat[p] = "SSTOP" /\ s \notin StopSigs \union {SIGKILL, SIGCONT} /\ ~deferred
               /\ "SINTR" \in p_flag[p] /\ p_stat'[p] = "SSTOP" /\ p_wchan'[p] = NoIdent
<1> USE DEF queue
<1>1. TypeInv
  BY DEF IInv
<1>2. unsleep(p) => p_wchan'[p] = NoIdent
  BY <1>1 DEF TypeInv, unsleep
<1>3. UNCHANGED queue => p_wchan'[p] = p_wchan[p]
  OBVIOUS
<1>4. /\ setrunnable(p) => unsleep(p) /\ p_stat'[p] = "SRUN"
      /\ proc_stop(p) => p_stat'[p] = "SSTOP"
      /\ p_stat' = [p_stat EXCEPT ![p] = "SSLEEP"] => p_stat'[p] = "SSLEEP"
      /\ UNCHANGED p_stat => p_stat'[p] = p_stat[p]
  BY <1>1 DEF TypeInv, setrunnable, proc_stop
<1> DEFINE deferred == Action(p, s) = "HOLD" /\ (s # SIGCONT \/ p_stat[p] # "SSTOP")
<1>5. \/ ~deferred /\ p_stat[p] = "SSLEEP" /\ SignalAsleep(p, s)
      \/ ~deferred /\ p_stat[p] = "SSTOP" /\ SignalStopped(p, s)
      \/ /\ deferred \/ p_stat[p] \in {"SRUN", "SONPROC"}
         /\ UNCHANGED <<p_stat, queue>>
  BY DEF psignal
<1>6. CASE ~deferred /\ p_stat[p] = "SSLEEP" /\ SignalAsleep(p, s)
  BY <1>2, <1>3, <1>4, <1>6 DEF SignalAsleep
<1>7. CASE ~deferred /\ p_stat[p] = "SSTOP" /\ SignalStopped(p, s)
  <2>1. SIGCONT \notin StopSigs /\ SIGKILL \notin StopSigs /\ SIGCONT # SIGKILL
    BY DEF StopSigs, SIGCONT, SIGKILL, SIGSTOP, SIGTSTP
  <2>2. CASE s = SIGKILL
    BY <1>2, <1>3, <1>4, <1>7, <2>1, <2>2 DEF SignalStopped
  <2>3. CASE s = SIGCONT
    BY <1>2, <1>3, <1>4, <1>7, <2>1, <2>3 DEF SignalStopped, Continue
  <2>4. CASE s \in StopSigs
    BY <1>2, <1>3, <1>4, <1>7, <2>1, <2>4 DEF SignalStopped
  <2>5. CASE s \notin StopSigs \union {SIGKILL, SIGCONT}
    BY <1>2, <1>3, <1>4, <1>7, <2>1, <2>5 DEF SignalStopped
  <2> QED BY <2>2, <2>3, <2>4, <2>5
<1>8. CASE (deferred \/ p_stat[p] \in {"SRUN", "SONPROC"}) /\ UNCHANGED <<p_stat, queue>>
  <2>1. p_stat'[p] = p_stat[p] /\ p_wchan'[p] = p_wchan[p]
    BY <1>8
  <2> QED BY <1>8, <2>1
<1> QED BY <1>5, <1>6, <1>7, <1>8

\* The signals pending after psignal: the new one, unless it was acted on,
\* and those before but for a SIGCONT or the stops that it cancels.
LEMMA Pending ==
  ASSUME IInv, NEW p \in Procs, NEW s \in Signals, psignal(p, s)
  PROVE  /\ \A k \in p_siglist[p] :
              \/ k \in p_siglist'[p]
              \/ k = s
              \/ s = SIGCONT /\ k \in StopSigs
              \/ s \in StopSigs /\ k = SIGCONT
         /\ \/ s \in p_siglist'[p]
            \/ /\ p_stat[p] = "SSLEEP" /\ Action(p, s) = "DFL"
               /\ s = SIGCONT \/ (s \in StopSigs /\ ~act[p].ppwait)
            \/ /\ p_stat[p] = "SSTOP"
               /\ s \in StopSigs \/ (s = SIGCONT /\ Action(p, s) = "DFL")
<1> DEFINE deferred == Action(p, s) = "HOLD" /\ (s # SIGCONT \/ p_stat[p] # "SSTOP")
<1>1. p_siglist'[p] = Posted(p, s) \ (IF ~deferred /\ Consumed(p, s) THEN {s} ELSE {})
  BY DEF psignal, SetSiglist, IInv, TypeInv
<1>2. s \in p_siglist'[p] \/ Consumed(p, s)
  BY <1>1 DEF Posted
<1>3. \A k \in p_siglist[p] : k # s /\ k \in Posted(p, s) => k \in p_siglist'[p]
  BY <1>1
<1> HIDE DEF deferred
<1> QED BY <1>2, <1>3 DEF Posted, Consumed

LEMMA PsignalInv ==
  ASSUME IInv, NEW p \in Procs, NEW s \in Signals, psignal(p, s)
  PROVE  IInv'
<1> USE DEF sls, hist
<1>1. TypeInv /\ ProcInv(p)
  BY DEF IInv
<1>2. /\ TypeInv' /\ Agree(p_wchan, slpque)'
      /\ \A q \in Procs : q # p => Undisturbed(q)
      /\ p_wchan'[p] \in {p_wchan[p], NoIdent}
  BY Signalled
<1>3. UNCHANGED <<act, p_sleep_to, pc, sls, error, hist>> /\ p_stat[p] # "SZOMB"
      /\ s \notin act[p].ignore
      /\ ~(Action(p, s) = "DFL" /\ s \in TtyStop /\ act[p].orphan)
  BY DEF psignal
<1>4. "SINTR" \in p_flag'[p] <=> "SINTR" \in p_flag[p]
  BY <1>1 DEF psignal, TypeInv
<1>5. "TIMEOUT" \in p_flag'[p] <=> "TIMEOUT" \in p_flag[p]
  BY <1>1 DEF psignal, TypeInv
<1>6. PlaceInv(p)'
  BY <1>1, <1>3, <1>4, Ways DEF ProcInv, PlaceInv
<1>7. TimeoutInv(p)'
  BY <1>1, <1>2, <1>3, <1>5 DEF ProcInv, TimeoutInv
<1>8. /\ Caught(p)' = Caught(p) /\ MayCancel(p)' = MayCancel(p)
      /\ \A k : Disposition(p, k)' = Disposition(p, k)
      /\ \A k \in p_siglist'[p] : k \in Deliverable(p) => k \in Deliverable(p)'
  BY <1>3 DEF Caught, MayCancel, Disposition, Deliverable
<1> USE DEF SIGKILL, SIGSTOP, SIGTSTP, SIGCONT, SIGUSR1, StopSigs, TtyStop
<1>9. s \in {9, 17, 18, 19, 30} /\ p_siglist[p] \subseteq {9, 17, 18, 19, 30}
  BY <1>1, ActsAssumption DEF TypeInv
<1>10. /\ act[p].catch \subseteq {18, 19, 30} /\ act[p].mask \subseteq {18, 19, 30}
       /\ act[p].ignore \subseteq {18, 30} /\ act[p].catch \cap act[p].ignore = {}
  BY <1>1, SetUp DEF ProcInv, PlaceInv
\* The new signal is one that issignal will find, if it may look at it.
<1>11. ASSUME s \in p_siglist'[p], s \notin act[p].mask, ~(act[p].ppwait /\ s \in StopSigs)
       PROVE  /\ s \in Deliverable(p)'
              /\ s \in StopSigs => Disposition(p, s) \in {"keep", "stop"}
              /\ s \in act[p].catch \/ s \notin StopSigs \union {SIGCONT} =>
                   Disposition(p, s) = "keep"
  <2>1. s \in Deliverable(p)'
    BY <1>3, <1>11 DEF Deliverable
  <2> QED BY <1>3, <1>9, <1>10, <1>11, <2>1 DEF Disposition, Action
<1>12. ASSUME SIGCONT \in Caught(p), s = SIGCONT
       PROVE  SignalAhead(p)'
  <2>1. Action(p, s) = "CATCH" /\ s \notin act[p].mask /\ s \in act[p].catch
    BY <1>12 DEF Action, Caught
  <2>2. s \in p_siglist'[p]
    BY <1>12, <2>1, Pending
  <2> QED BY <1>8, <1>11, <1>12, <2>1, <2>2 DEF SignalAhead
<1>13. ASSUME s = SIGKILL
       PROVE  SignalAhead(p)'
  <2>1. s \in p_siglist'[p] /\ s \notin act[p].mask
    BY <1>10, <1>13, Pending
  <2> QED BY <1>8, <1>11, <1>13, <2>1 DEF SignalAhead
<1>14. p_stat[p] = "SSTOP" /\ s \notin {SIGCONT, SIGKILL} => p_stat'[p] = "SSTOP"
  BY Ways
<1>15. ASSUME SignalAhead(p), ~MayCancel(p), p_wchan[p] = NoIdent
       PROVE  SignalAhead(p)'
  <2>1. p_stat[p] # "SSLEEP"
    BY <1>1, <1>15 DEF ProcInv, PlaceInv
  <2>2. s \in StopSigs /\ SIGCONT \in Caught(p) => SignalAhead(p)'
    <3>1. CASE p_stat[p] = "SSTOP"
      BY <1>8, <1>14, <3>1 DEF SignalAhead
    <3>2. CASE p_stat[p] # "SSTOP" /\ s \in StopSigs /\ SIGCONT \in Caught(p)
      <4>1. s \in p_siglist'[p]
        BY <2>1, <3>2, Pending
      <4>2. s \notin act[p].mask /\ ~(act[p].ppwait /\ s \in StopSigs)
        BY <1>10, <1>15, <3>2 DEF MayCancel
      <4> QED BY <1>8, <1>11, <3>2, <4>1, <4>2 DEF SignalAhead
    <3> QED BY <3>1, <3>2
  <2>3. ASSUME NEW k \in Deliverable(p), Disposition(p, k) = "keep"
        PROVE  SignalAhead(p)'
    <3>1. k \in p_siglist[p] /\ k \notin act[p].mask /\ k \in {9, 17, 18, 19, 30}
      BY <1>9 DEF Deliverable
    <3>2. CASE k \in p_siglist'[p]
      BY <1>8, <2>3, <3>2 DEF SignalAhead
    <3>3. k \in StopSigs => SIGCONT \in Caught(p)
      BY <1>10, <1>15, <2>3, <3>1 DEF Disposition, MayCancel, Caught
    <3>4. k = SIGCONT => SIGCONT \in Caught(p)
      BY <1>10, <2>3, <3>1 DEF Disposition, Caught
    <3>5. CASE k = s /\ s \notin p_siglist'[p]
      <4>1. s \in StopSigs \union {SIGCONT}
        BY <2>1, <3>5, Pending
      <4> QED BY <1>12, <2>2, <3>3, <3>4, <3>5, <4>1
    <3>6. CASE s = SIGCONT /\ k \in StopSigs
      BY <1>12, <3>3, <3>6
    <3>7. CASE s \in StopSigs /\ k = SIGCONT
      BY <2>2, <3>4, <3>7
    <3> QED BY <3>1, <3>2, <3>5, <3>6, <3>7, Pending
  <2>4. ASSUME SIGCONT \in Caught(p), p_stat[p] = "SSTOP"
        PROVE  SignalAhead(p)'
    <3>1. CASE s \in {SIGCONT, SIGKILL}
      BY <1>12, <1>13, <2>4, <3>1
    <3>2. CASE s \notin {SIGCONT, SIGKILL}
      BY <1>8, <1>14, <2>4, <3>2 DEF SignalAhead
    <3> QED BY <3>1, <3>2
  <2>5. ASSUME SIGCONT \in Caught(p), NEW k \in Deliverable(p), Disposition(p, k) = "stop"
        PROVE  SignalAhead(p)'
    <3>1. k \in p_siglist[p] /\ k \in StopSigs
      BY <2>5 DEF Deliverable, Disposition
    <3>2. CASE k \in p_siglist'[p]
      BY <1>8, <2>5, <3>2 DEF SignalAhead
    <3>3. CASE s = SIGCONT
      BY <1>12, <2>5, <3>3
    <3>4. CASE s \in StopSigs
      BY <2>2, <2>5, <3>4
    <3> QED BY <3>1, <3>2, <3>3, <3>4, Pending
  <2> QED BY <1>15, <2>3, <2>4, <2>5 DEF SignalAhead
<1>16. ASSUME p_wchan[p] # NoIdent, p_wchan'[p] = NoIdent, ~MayCancel(p)
       PROVE  pc[p] # "user" /\ sls_catch[p] /\ SignalAhead(p)'
  <2>1. p_stat[p] \in {"SSLEEP", "SSTOP"} /\ pc[p] \in {"setup", "switch"}
    BY <1>1, <1>16 DEF ProcInv, PlaceInv
  <2>2. "SINTR" \in p_flag[p]
    BY <1>1, <1>16, <2>1, Ways DEF ProcInv, PlaceInv
  <2>3. sls_catch[p]
    BY <1>1, <2>2 DEF ProcInv, PlaceInv
  <2>4. CASE s = SIGKILL
    BY <1>13, <2>1, <2>3, <2>4
  <2>5. CASE s # SIGKILL
    <3>1. /\ Action(p, s) # "HOLD" \/ (s = SIGCONT /\ p_stat[p] = "SSTOP")
          /\ p_stat[p] = "SSLEEP" => ~(Action(p, s) = "DFL" /\ s \in StopSigs \union {SIGCONT})
          /\ p_stat[p] = "SSTOP" => \/ s \notin StopSigs \union {SIGCONT}
                                    \/ s = SIGCONT /\ Action(p, s) = "CATCH"
      BY <1>16, <2>1, <2>5, Ways
    <3>2. s \notin act[p].mask
      BY <3>1 DEF Action
    <3>3. s \in act[p].catch \/ s \notin StopSigs \union {SIGCONT}
      BY <2>1, <3>1, <3>2 DEF Action
    <3>4. s \in p_siglist'[p]
      BY <2>1, <3>1, Pending
    <3>5. ~(act[p].ppwait /\ s \in StopSigs)
      BY <1>10, <1>16, <3>2, <3>3 DEF MayCancel, Caught
    <3> QED BY <1>8, <1>11, <2>1, <2>3, <3>2, <3>3, <3>4, <3>5 DEF SignalAhead
  <2> QED BY <2>4, <2>5
<1>17. CauseInv(p)'
  <2>1. CASE p_wchan[p] # NoIdent
    BY <1>3, <1>8, <1>16, <2>1 DEF CauseInv
  <2>2. CASE p_wchan[p] = NoIdent
    BY <1>1, <1>3, <1>5, <1>8, <1>15, <2>2 DEF ProcInv, CauseInv
  <2> QED BY <2>1, <2>2
<1> QED BY <1>2, <1>6, <1>7, <1>17, OnlyOne DEF ProcInv

-----------------------------------------------------------------------------
(***************************************************************************)
(* The theorems.                                                           *)
(***************************************************************************)

LEMMA InitInv == Init => IInv
<1> SUFFICES ASSUME Init PROVE IInv
  OBVIOUS
<1>1. TypeInv
  BY DEF Init, TypeInv
<1>2. slpque \in Seq(Procs) /\ DOMAIN slpque = {}
  BY DEF Init
<1>3. Agree(p_wchan, slpque)
  BY <1>2 DEF Init, Agree, Distinct, OnQueue
<1>4. \A p \in Procs : ProcInv(p)
  BY DEF Init, ProcInv, PlaceInv, TimeoutInv, CauseInv
<1> QED BY <1>1, <1>3, <1>4 DEF IInv

LEMMA NextInv == IInv /\ [Next]_vars => IInv'
<1> SUFFICES ASSUME IInv, [Next]_vars PROVE IInv'
  OBVIOUS
<1>1. CASE UNCHANGED vars
  <2>1. \A p \in Procs : ProcInv(p)'
    BY <1>1, Elsewhere DEF IInv, Undisturbed, vars, queue, sls, hist
  <2> QED BY <1>1, <2>1 DEF IInv, TypeInv, Agree, vars, queue, sls, hist
<1>2. ASSUME NEW p \in Procs, tsleep(p) \/ Step(p) \/ userret(p) \/ endtsleep(p)
      PROVE  IInv'
  BY <1>2, TsleepInv, SetupResumedInv, SwitchedToInv, FinishTimeoutInv, FinishSignalInv,
     UserretInv, EndtsleepInv DEF Step
<1>3. ASSUME NEW p \in Targets, NEW s \in Signals, psignal(p, s)
      PROVE  IInv'
  BY <1>3, PsignalInv, ActsAssumption
<1>4. ASSUME NEW ident \in Idents, NEW one \in BOOLEAN, wakeup_n(ident, one)
      PROVE  IInv'
  BY <1>4, WakeupInv
<1> QED BY <1>1, <1>2, <1>3, <1>4 DEF Next

LEMMA Consequences == IInv => QueueTellsSleepers /\ ErrorTellsCause
<1> SUFFICES ASSUME IInv PROVE QueueTellsSleepers /\ ErrorTellsCause
  OBVIOUS
<1>1. slpque \in Seq(Procs) /\ Distinct(slpque) /\ Len(slpque) <= Cardinality(Procs)
  BY Bounded, ActsAssumption DEF IInv, Agree
<1>2. TypeOK
  BY <1>1 DEF IInv, TypeInv, TypeOK
<1>3. \A p \in Procs :
        /\ p_wchan[p] # NoIdent <=> OnQueue(slpque, p)
        /\ p_wchan[p] # NoIdent => p_stat[p] \in {"SSLEEP", "SSTOP"}
        /\ p_stat[p] = "SSLEEP" => p_wchan[p] # NoIdent
  BY DEF IInv, Agree, ProcInv, PlaceInv
<1>4. QueueTellsSleepers
  BY <1>1, <1>2, <1>3 DEF QueueTellsSleepers, Distinct, OnQueue
<1>5. ErrorTellsCause
  BY DEF IInv, ProcInv, PlaceInv, TimeoutInv, CauseInv, ErrorTellsCause
<1> QED BY <1>4, <1>5

LEMMA Invariance == Spec => []IInv
BY InitInv, NextInv, PTL DEF Spec

\* The sleep queue and the wait channels name the same processes, each once;
\* who is on the queue is asleep or stopped, so that wakeup_n never panics, and
\* who is asleep is on it, so that a wakeup finds it.
THEOREM QueueAgrees == Spec => []QueueTellsSleepers
BY Invariance, Consequences, PTL

\* tsleep returns 0 only after a wakeup on its channel, unless the process has
\* set up its signals so that one of them may be cancelled after it ended the
\* sleep; EWOULDBLOCK only if this sleep timed out before any wakeup; and it
\* leaves neither a pending timeout nor P_TIMEOUT for the next sleep.
THEOREM ErrorIsCause == Spec => []ErrorTellsCause
BY Invariance, Consequences, PTL

\* Only SIGCONT and SIGKILL make a stopped process run: no wakeup, timeout or
\* other signal does.
THEOREM StoppedStays == Spec => StaysStopped
<1>1. ASSUME IInv, [Next]_vars
      PROVE  [\A p \in Procs : p_stat[p] = "SSTOP" /\ p_stat'[p] # "SSTOP" =>
                \/ "CONTINUED" \in p_flag'[p]
                \/ SIGKILL \in p_siglist'[p]]_vars
  <2> SUFFICES ASSUME Next, NEW p \in Procs, p_stat[p] = "SSTOP", p_stat'[p] # "SSTOP"
               PROVE  "CONTINUED" \in p_flag'[p] \/ SIGKILL \in p_siglist'[p]
    BY <1>1
  <2>1. TypeInv
    BY <1>1 DEF IInv
  <2>2. ASSUME NEW q \in Procs, tsleep(q) \/ Step(q) \/ userret(q) \/ endtsleep(q)
        PROVE  FALSE
    <3>1. CASE tsleep(q)
      BY <2>1, <3>1 DEF tsleep, SetupSignal, Awake, proc_stop, TypeInv
    <3>2. CASE Step(q)
      BY <2>1, <1>1, <3>2 DEF Step, SetupResumed, SetupSignal, SwitchedTo, Awake, proc_stop,
         sleep_finish_timeout, sleep_finish_signal, TypeInv
    <3>3. CASE userret(q)
      BY <2>1, <3>3 DEF userret, proc_stop, TypeInv
    <3>4. CASE endtsleep(q)
      BY <2>1, <3>4 DEF endtsleep, setrunnable, queue, TypeInv
    <3> QED BY <2>2, <3>1, <3>2, <3>3, <3>4
  <2>3. ASSUME NEW ident \in Idents, NEW one \in BOOLEAN, wakeup_n(ident, one)
        PROVE  FALSE
    BY <2>1, <2>3 DEF wakeup_n
  <2>4. ASSUME NEW q \in Targets, NEW s \in Signals, psignal(q, s)
        PROVE  "CONTINUED" \in p_flag'[p] \/ SIGKILL \in p_siglist'[p]
    <3>1. q \in Procs
      BY ActsAssumption
    <3>2. q = p
      BY <1>1, <2>4, <3>1, Signalled DEF Undisturbed
    <3>3. s \in {SIGCONT, SIGKILL}
      BY <1>1, <2>4, <3>2, Ways
    <3>4. CASE s = SIGKILL
      <4>1. SIGKILL \notin StopSigs /\ SIGKILL # SIGCONT
        BY DEF SIGKILL, SIGSTOP, SIGTSTP, SIGCONT, StopSigs
      <4> QED BY <1>1, <2>4, <3>2, <3>4, <4>1, Pending
    <3>5. CASE s = SIGCONT
      <4>1. SIGCONT \notin StopSigs
        BY DEF SIGSTOP, SIGTSTP, SIGCONT, StopSigs
      <4> QED BY <2>1, <2>4, <3>2, <3>5, <4>1 DEF psignal, TypeInv
    <3> QED BY <3>3, <3>4, <3>5
  <2> QED BY <2>2, <2>3, <2>4 DEF Next
<1> QED BY <1>1, Invariance, PTL DEF Spec, StaysStopped
=============================================================================
