------------------------------- MODULE MCSleep ------------------------------
(***************************************************************************)
(* Sleep for TLC: the signal set-ups of the processes.                     *)
(***************************************************************************)
EXTENDS Sleep

DefaultAct == [catch |-> {}, ignore |-> {}, mask |-> {}, orphan |-> FALSE, ppwait |-> FALSE]

\* p1: everything default; a shell that catches what it may; an editor that
\* catches SIGTSTP; SIGCONT and SIGUSR1 blocked; SIGCONT caught and SIGTSTP
\* blocked; a process of an orphaned group that ignores SIGUSR1; vfork children
\* that catch SIGUSR1, and SIGCONT.  The others get no signals.
CONSTANT p1

MCActs == [p \in Procs |->
  IF p # p1 THEN {DefaultAct}
  ELSE {DefaultAct,
        [DefaultAct EXCEPT !.catch = {SIGTSTP, SIGCONT, SIGUSR1}],
        [DefaultAct EXCEPT !.catch = {SIGTSTP}],
        [DefaultAct EXCEPT !.mask = {SIGCONT, SIGUSR1}],
        [DefaultAct EXCEPT !.catch = {SIGCONT}, !.mask = {SIGTSTP}],
        [DefaultAct EXCEPT !.orphan = TRUE, !.ignore = {SIGUSR1}],
        [DefaultAct EXCEPT !.ppwait = TRUE, !.catch = {SIGUSR1}],
        [DefaultAct EXCEPT !.ppwait = TRUE, !.catch = {SIGCONT}]}]

\* The others wait for either channel, uninterruptibly.
MCSleeps == [p \in Procs |->
  IF p = p1 THEN {"a"} \X BOOLEAN \X BOOLEAN ELSE Idents \X {FALSE} \X {FALSE}]
=============================================================================
