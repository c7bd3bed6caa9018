-------------------------------- MODULE Descr -------------------------------
(***************************************************************************)
(* File descriptor tables and open files, sys/kern/kern_descrip.c with     *)
(* sys/sys/file.h: processes that share a table, or files, open, close,    *)
(* duplicate and use descriptors.                                          *)
(*                                                                         *)
(* The kernel lock makes everything between two sleeps one step, so that a *)
(* step is a function of the whole state k of tables, files and processes. *)
(* Tables have their final size: fdexpand works under the table's lock,    *)
(* and the call it delays starts again.                                    *)
(***************************************************************************)
EXTENDS Integers, FiniteSets, FiniteSetsExt

CONSTANTS
  NULL,
  Procs, Tables, Files,
  Fds,         \* descriptors the resource limit allows, 0 and up
  first,       \* the process there is at the beginning
  Programs,    \* what the processes do: for each the calls it may make
  MaxCount     \* LONG_MAX - 2

Calls == {"open", "close", "dup", "dup2", "io", "accept", "flock",
          "fork", "rfork", "exit"}

ASSUME DescrAssumption ==
  /\ first \in Procs /\ 0 \in Fds /\ Fds \subseteq Nat /\ MaxCount \in Nat
  /\ IsFiniteSet(Procs) /\ IsFiniteSet(Tables) /\ IsFiniteSet(Fds)
  /\ NULL \notin Procs \union Tables \union Files
  /\ Programs \subseteq [Procs -> SUBSET Calls]

VARIABLES
  tab,      \* struct filedesc
  file,     \* struct file; one that is not on filehead is free
  proc,     \* processes: p_fd, and the system call they are in
  program   \* the member of Programs that is run

vars == <<tab, file, proc, program>>

EmptyTable ==
  [fd_ofiles |-> [i \in Fds |-> NULL], fd_map |-> {}, fd_freefile |-> 0,
   fd_lastfile |-> 0, fd_lock |-> NULL, fd_refcnt |-> 0]

FreeFile ==
  [open |-> FALSE, f_count |-> 0, f_usecount |-> 0, f_iflags |-> {}]

\* fd: the descriptor the call is about; fp: the file it has looked up;
\* new: the file it makes or closes; wchan: the file whose f_usecount it
\* sleeps on.
Idle(t) ==
  [p_fd |-> t, pc |-> "idle", call |-> "none", fd |-> 0, fp |-> NULL,
   new |-> NULL, wchan |-> NULL]
NoProc == [Idle(NULL) EXCEPT !.pc = "none"]

Init ==
  \E t \in Tables :
    /\ tab = [u \in Tables |-> IF u = t THEN [EmptyTable EXCEPT !.fd_refcnt = 1]
                               ELSE EmptyTable]
    /\ file = [f \in Files |-> FreeFile]
    /\ proc = [p \in Procs |-> IF p = first THEN Idle(t) ELSE NoProc]
    /\ program \in Programs

System == [tab |-> tab, file |-> file, proc |-> proc]

Becomes(k) ==
  tab' = k.tab /\ file' = k.file /\ proc' = k.proc /\ UNCHANGED program

-----------------------------------------------------------------------------
(***************************************************************************)
(* References to a file, and the table's hints.                            *)
(***************************************************************************)

FREF(k, f) == [k EXCEPT !.file[f].f_usecount = @ + 1]

\* A reference dropped without a wakeup.
FRELEquiet(k, f) == [k EXCEPT !.file[f].f_usecount = @ - 1]

FRELE(k, f) ==
  [k EXCEPT !.file[f].f_usecount = @ - 1,
            !.proc = IF "WANTCLOSE" \notin k.file[f].f_iflags THEN @
                     ELSE [p \in Procs |->
                             [k.proc[p] EXCEPT !.wchan = IF @ = f THEN NULL ELSE @]]]

FILE_SET_MATURE(k, f) ==
  FRELE([k EXCEPT !.file[f].f_iflags = @ \ {"LARVAL"}], f)

\* The file of descriptor i of process p, if it may be used.
fd_getfile(k, p, i) ==
  LET f == k.tab[k.proc[p].p_fd].fd_ofiles[i]
  IN IF f # NULL /\ k.file[f].f_iflags = {} THEN f ELSE NULL

fd_used(t, i) ==
  [t EXCEPT !.fd_map = @ \union {i},
            !.fd_lastfile = IF i > @ THEN i ELSE @]

find_last_set(t, last) ==
  LET below == {j \in Fds : j < last /\ t.fd_ofiles[j] # NULL}
  IN IF below = {} THEN 0 ELSE Max(below)

fd_unused(t, i) ==
  [t EXCEPT !.fd_freefile = IF i < @ THEN i ELSE @,
            !.fd_map = @ \ {i},
            !.fd_lastfile = IF i = @ THEN find_last_set(t, i) ELSE @]

fdremove(t, i) == fd_unused([t EXCEPT !.fd_ofiles[i] = NULL], i)

\* Where fdalloc looks: from the hint on, or from want if that is higher.
Candidates(t, want) ==
  {i \in Fds : i >= t.fd_freefile /\ i >= want /\ i \notin t.fd_map}

\* The hint moves to whatever was found.
fdallocMoves(t, want) ==
  LET i == Min(Candidates(t, want)) IN fd_used([t EXCEPT !.fd_freefile = i], i)

\* The hint may only move when there was nothing to skip below want.
fdalloc(t, want) ==
  LET i == Min(Candidates(t, want))
  IN fd_used([t EXCEPT !.fd_freefile = IF want <= @ THEN i ELSE @], i)

fdpunlock(k, p) == [k EXCEPT !.tab[k.proc[p].p_fd].fd_lock = NULL]

Return(k, p) == [k EXCEPT !.proc[p] = Idle(@.p_fd)]

-----------------------------------------------------------------------------
(***************************************************************************)
(* closef.                                                                 *)
(***************************************************************************)

\* What comes after closef in the call that process p is in.
AfterClosef(k, p) ==
  CASE k.proc[p].call = "exit" -> [k EXCEPT !.proc[p].pc = "fdfree"]
    [] k.proc[p].call = "accept" ->
         Return(FRELE(fdpunlock(k, p), k.proc[p].fp), p)
    [] OTHER -> Return(fdpunlock(k, p), p)

\* p sleeps as long as anybody else uses the file, and then calls fo_close,
\* which may sleep too.
ClosefWait(k, p, f) ==
  LET busy == k.file[f].f_usecount > 1
  IN [k EXCEPT !.proc[p].pc = IF busy THEN "closef" ELSE "fo_close",
               !.proc[p].new = f,
               !.proc[p].wchan = IF busy THEN f ELSE NULL]

\* The caller has called FREF(f) and taken away the descriptor.
closef(k, p, f) ==
  IF "WANTCLOSE" \in k.file[f].f_iflags THEN AfterClosef(FRELE(k, f), p)
  ELSE LET l == [k EXCEPT !.file[f].f_count = @ - 1]
       IN IF l.file[f].f_count > 0 THEN AfterClosef(FRELE(l, f), p)
          ELSE ClosefWait([l EXCEPT !.file[f].f_iflags = @ \union {"WANTCLOSE"}],
                          p, f)

\* Woken: look again.
Closef(p) ==
  /\ proc[p].pc = "closef" /\ proc[p].wchan = NULL
  /\ Becomes(ClosefWait(System, p, proc[p].new))

\* The rest of closef: the file leaves filehead and goes back to its pool.
Freed(k, p, f) == [k EXCEPT !.file[f] = FreeFile, !.proc[p].new = NULL]

\* fo_close is done.
FoClosed(p) ==
  /\ proc[p].pc = "fo_close"
  /\ Becomes(AfterClosef(Freed(System, p, proc[p].new), p))

-----------------------------------------------------------------------------
(***************************************************************************)
(* What the calls do once they have the table's lock.                      *)
(***************************************************************************)

\* The duplicate is counted only if it takes a free slot.
finishdupOver(k, p, f, new) ==
  LET t == k.proc[p].p_fd
      old == k.tab[t].fd_ofiles[new]
      m == IF old = NULL THEN k ELSE FREF(k, old)
      l == FRELE([m EXCEPT !.tab[t].fd_ofiles[new] = f,
                           !.file[f].f_count = IF old = NULL THEN @ + 1 ELSE @,
                           !.proc[p].fp = NULL], f)
  IN IF old = NULL
     THEN Return(fdpunlock([l EXCEPT !.tab[t] = fd_used(@, new)], p), p)
     ELSE closef(l, p, old)

finishdup(k, p, f, new) ==
  LET t == k.proc[p].p_fd
      old == k.tab[t].fd_ofiles[new]
      m == IF old = NULL THEN k ELSE FREF(k, old)
      l == FRELE([m EXCEPT !.tab[t].fd_ofiles[new] = f,
                           !.file[f].f_count = @ + 1,
                           !.proc[p].fp = NULL], f)
  IN IF k.file[f].f_count = MaxCount THEN Return(fdpunlock(FRELE(k, f), p), p)
     ELSE IF old = NULL
     THEN Return(fdpunlock([l EXCEPT !.tab[t] = fd_used(@, new)], p), p)
     ELSE closef(l, p, old)

\* A descriptor found closed leaves the table locked.
fdreleaseLocked(k, p, i) ==
  LET t == k.proc[p].p_fd
      f == k.tab[t].fd_ofiles[i]
  IN IF f = NULL THEN Return(k, p)
     ELSE closef(FREF([k EXCEPT !.tab[t] = fdremove(@, i)], f), p, f)

\* fdrelease and the end of sys_close.
fdrelease(k, p, i) ==
  LET t == k.proc[p].p_fd
      f == k.tab[t].fd_ofiles[i]
  IN IF f = NULL THEN AfterClosef(k, p)
     ELSE closef(FREF([k EXCEPT !.tab[t] = fdremove(@, i)], f), p, f)

\* A new file, LARVAL and with a reference for its maker, who now sleeps in
\* vn_open, or in soaccept for a connection.  The memory is there: pool_get
\* does not sleep between fdalloc and the filling of the slot.
falloc(k, p) ==
  LET t == k.proc[p].p_fd
      i == Min(Candidates(k.tab[t], 0))
      unused == {f \in Files : ~k.file[f].open}
      f == CHOOSE g \in unused : TRUE
  IN IF Candidates(k.tab[t], 0) = {} THEN AfterClosef(k, p)
     ELSE IF unused = {}
     THEN AfterClosef([k EXCEPT !.tab[t] = fd_unused(fdalloc(@, 0), i)], p)
     ELSE [k EXCEPT !.tab[t] = [fdalloc(@, 0) EXCEPT !.fd_ofiles[i] = f],
                    !.file[f] = [open |-> TRUE, f_count |-> 1,
                                 f_usecount |-> 1, f_iflags |-> {"LARVAL"}],
                    !.proc[p].pc = "making", !.proc[p].new = f,
                    !.proc[p].fd = i]

\* dup and F_DUPFD: the file has been looked up and referenced; fd is the
\* least descriptor that will do.
DupLocked(k, p) ==
  LET t == k.proc[p].p_fd
      f == k.proc[p].fp
      want == k.proc[p].fd
  IN IF Candidates(k.tab[t], want) = {} THEN Return(fdpunlock(FRELE(k, f), p), p)
     ELSE finishdup([k EXCEPT !.tab[t] = fdalloc(@, want)], p, f,
                    Min(Candidates(k.tab[t], want)))

Locked(k, p) ==
  CASE k.proc[p].call \in {"open", "accept"} -> falloc(k, p)
    [] k.proc[p].call = "close" -> fdrelease(k, p, k.proc[p].fd)
    [] k.proc[p].call = "dup" -> DupLocked(k, p)
    [] k.proc[p].call = "dup2" -> finishdup(k, p, k.proc[p].fp, k.proc[p].fd)

\* fdplock, and on if nobody holds the lock.
fdplock(k, p) ==
  LET t == k.proc[p].p_fd
  IN IF k.tab[t].fd_lock = NULL
     THEN Locked([k EXCEPT !.tab[t].fd_lock = p], p)
     ELSE [k EXCEPT !.proc[p].pc = "fdplock"]

\* The lock is free again.
Fdplock(p) ==
  /\ proc[p].pc = "fdplock" /\ tab[proc[p].p_fd].fd_lock = NULL
  /\ Becomes(fdplock(System, p))

-----------------------------------------------------------------------------
(***************************************************************************)
(* The system calls.                                                       *)
(***************************************************************************)

Begins(p, call) ==
  /\ proc[p].pc = "idle"
  /\ call \in program[p]

\* The state in which process p has started call for fd, with file f.
Started(p, call, fd, f) ==
  [System EXCEPT !.proc[p].call = call, !.proc[p].fd = fd, !.proc[p].fp = f]

\* The lock is kept throughout vn_open; that of a portal, which gives it up
\* while it receives, is left out.
sys_open(p) ==
  /\ Begins(p, "open")
  /\ Becomes(fdplock(Started(p, "open", 0, NULL), p))

sys_close(p, fd) ==
  /\ Begins(p, "close") /\ fd_getfile(System, p, fd) # NULL
  /\ Becomes(fdplock(Started(p, "close", fd, NULL), p))

\* sys_dup, with newmin = 0, and fcntl(F_DUPFD).
sys_dup(p, old, newmin) ==
  LET f == fd_getfile(System, p, old)
  IN /\ Begins(p, "dup") /\ f # NULL
     /\ Becomes(fdplock(FREF(Started(p, "dup", newmin, f), f), p))

sys_dup2(p, old, new) ==
  LET f == fd_getfile(System, p, old)
  IN /\ Begins(p, "dup2") /\ f # NULL /\ old # new
     /\ Becomes(fdplock(FREF(Started(p, "dup2", new, f), f), p))

\* A use of the file without a reference to it.
sys_ioUnheld(p, fd) ==
  LET f == fd_getfile(System, p, fd)
  IN /\ Begins(p, "io") /\ f # NULL
     /\ Becomes([Started(p, "io", fd, f) EXCEPT !.proc[p].pc = "io"])

\* read, write and all the other calls that sleep with a reference.
sys_io(p, fd) ==
  LET f == fd_getfile(System, p, fd)
  IN /\ Begins(p, "io") /\ f # NULL
     /\ Becomes([FREF(Started(p, "io", fd, f), f) EXCEPT !.proc[p].pc = "io"])

IoDone(p) ==
  /\ proc[p].pc = "io"
  /\ Becomes(Return(FRELE(System, proc[p].fp), p))

\* flock has no reference to the file while it sleeps.
sys_flock(p, fd) ==
  LET f == fd_getfile(System, p, fd)
  IN /\ Begins(p, "flock") /\ f # NULL
     /\ Becomes([Started(p, "flock", fd, f) EXCEPT !.proc[p].pc = "flock"])

FlockDone(p) ==
  /\ proc[p].pc = "flock"
  /\ Becomes(Return(System, p))

sys_accept(p, fd) ==
  LET f == fd_getfile(System, p, fd)
  IN /\ Begins(p, "accept") /\ f # NULL
     /\ Becomes([FREF(Started(p, "accept", fd, f), f) EXCEPT
                   !.proc[p].pc = "accept"])

\* There is a connection.
Connection(p) ==
  /\ proc[p].pc = "accept"
  /\ Becomes(fdplock(System, p))

\* No connection and SS_NBIO, a signal, an error of the socket: goto bad,
\* which gives up the table's lock too.
AcceptBad(p) ==
  /\ proc[p].pc = "accept"
  /\ Becomes(AfterClosef(System, p))

\* vn_open or soaccept has succeeded.
Made(p) ==
  /\ proc[p].pc = "making"
  /\ Becomes(AfterClosef(FILE_SET_MATURE(System, proc[p].new), p))

\* It has failed.
MakeFailed(p) ==
  /\ proc[p].pc = "making"
  /\ Becomes(closef([System EXCEPT !.tab[proc[p].p_fd] = fdremove(@, proc[p].fd)],
                    p, proc[p].new))

\* dupfdopen for ENODEV, /dev/fd/dfd: the slot of the new file becomes a
\* duplicate of dfd.
OpenedFd(p, dfd) ==
  LET f == fd_getfile(System, p, dfd)
      i == proc[p].fd
  IN /\ proc[p].pc = "making" /\ proc[p].call = "open"
     /\ f # NULL /\ file[f].f_count # MaxCount
     /\ Becomes(closef([System EXCEPT
                          !.tab[proc[p].p_fd] = fd_used([@ EXCEPT
                             !.fd_ofiles[i] = f], i),
                          !.file[f].f_count = @ + 1], p, proc[p].new))

\* dupfdopen for ENXIO: the slot takes the file of dfd.
StoleFd(p, dfd) ==
  LET f == fd_getfile(System, p, dfd)
      i == proc[p].fd
  IN /\ proc[p].pc = "making" /\ proc[p].call = "open" /\ f # NULL
     /\ Becomes(closef([System EXCEPT
                          !.tab[proc[p].p_fd] = fd_unused(fd_used([@ EXCEPT
                             !.fd_ofiles[i] = f, !.fd_ofiles[dfd] = NULL], i),
                             dfd)], p, proc[p].new))

-----------------------------------------------------------------------------
(***************************************************************************)
(* Processes and their tables.                                             *)
(***************************************************************************)

\* The slots of table t that the loop of fdcopy leaves out of the copy: a file
\* gets one more descriptor for each slot of its own, from the lowest on, until
\* it has as many as can be.
Uncopied(t) ==
  {i \in Fds : /\ i <= t.fd_lastfile /\ t.fd_ofiles[i] # NULL
               /\ LET f == t.fd_ofiles[i]
                      before == {j \in Fds : j < i /\ t.fd_ofiles[j] = f}
                  IN file[f].f_count + Cardinality(before) >= MaxCount}

\* The copy, after an fdremove for each of these; no file is a kqueue, which
\* fdcopy would remove as well.
CopyOf(t) ==
  LET out  == Uncopied(t)
      copy == [t EXCEPT !.fd_ofiles = [i \in Fds |-> IF i \in out THEN NULL ELSE @[i]],
                        !.fd_map = @ \ out,
                        !.fd_freefile = Min(out \union {@}),
                        !.fd_refcnt = 1]
  IN IF t.fd_lastfile \in out
     THEN [copy EXCEPT !.fd_lastfile = find_last_set(copy, @)]
     ELSE copy

\* The slots of table t with file f that are copied.
Copied(t, f) ==
  {i \in Fds \ Uncopied(t) : i <= t.fd_lastfile /\ t.fd_ofiles[i] = f}

FreeTables == {t \in Tables : \A p \in Procs : proc[p].p_fd # t}

\* fork: a copy of the whole structure, the lock included.
fdcopy(p, q) ==
  LET old == tab[proc[p].p_fd]
  IN \E t \in FreeTables :
       /\ tab' = [tab EXCEPT ![t] = CopyOf(old)]
       /\ file' = [f \in Files |->
                     [file[f] EXCEPT !.f_count = @ + Cardinality(Copied(old, f))]]
       /\ proc' = [proc EXCEPT ![q] = Idle(t)]
       /\ UNCHANGED program

fork(p, q) ==
  /\ Begins(p, "fork") /\ proc[q].pc = "none"
  /\ fdcopy(p, q)

\* rfork without RFFDG: fdshare.
fdshare(p, q) ==
  /\ Begins(p, "rfork") /\ proc[q].pc = "none"
  /\ tab' = [tab EXCEPT ![proc[p].p_fd].fd_refcnt = @ + 1]
  /\ proc' = [proc EXCEPT ![q] = Idle(proc[p].p_fd)]
  /\ UNCHANGED <<file, program>>

\* exit1 and fdfree: the last process of the table closes what is open.
exit(p) ==
  LET t == proc[p].p_fd
  IN /\ Begins(p, "exit")
     /\ tab' = [tab EXCEPT ![t].fd_refcnt = @ - 1]
     /\ proc' = [proc EXCEPT ![p] =
                   IF tab[t].fd_refcnt > 1 THEN NoProc
                   ELSE [@ EXCEPT !.pc = "fdfree", !.call = "exit"]]
     /\ UNCHANGED <<file, program>>

\* One round of the loop of fdfree, or its end.
fdfree(p) ==
  LET t == proc[p].p_fd
      open == {i \in Fds : i <= tab[t].fd_lastfile /\ tab[t].fd_ofiles[i] # NULL}
      i == Min(open)
      f == tab[t].fd_ofiles[i]
  IN /\ proc[p].pc = "fdfree"
     /\ IF open = {}
        THEN Becomes([System EXCEPT !.tab[t] = EmptyTable, !.proc[p] = NoProc])
        ELSE Becomes(closef(FREF([System EXCEPT !.tab[t].fd_ofiles[i] = NULL],
                                 f), p, f))

-----------------------------------------------------------------------------
Next ==
  \E p \in Procs :
    \/ sys_open(p) \/ Made(p) \/ MakeFailed(p)
    \/ Fdplock(p) \/ Closef(p) \/ FoClosed(p)
    \/ IoDone(p) \/ FlockDone(p) \/ Connection(p) \/ AcceptBad(p)
    \/ exit(p) \/ fdfree(p)
    \/ \E fd \in Fds :
         \/ sys_close(p, fd) \/ sys_io(p, fd)
         \/ sys_flock(p, fd) \/ sys_accept(p, fd)
         \/ OpenedFd(p, fd) \/ StoleFd(p, fd)
         \/ \E new \in Fds : sys_dup(p, fd, new) \/ sys_dup2(p, fd, new)
    \/ \E q \in Procs : fork(p, q) \/ fdshare(p, q)

Spec == Init /\ [][Next]_vars

-----------------------------------------------------------------------------
(***************************************************************************)
(* Properties.                                                             *)
(***************************************************************************)

\* The variables have the values their C types and the calls allow; no count
\* of a file falls below zero ("closef: count < 0").
TypeOK ==
  /\ \A t \in Tables :
       /\ tab[t].fd_ofiles \in [Fds -> Files \union {NULL}]
       /\ tab[t].fd_map \subseteq Fds
       /\ tab[t].fd_freefile \in Fds /\ tab[t].fd_lastfile \in Fds
       /\ tab[t].fd_lock \in Procs \union {NULL} /\ tab[t].fd_refcnt \in Nat
  /\ file \in [Files -> [open : BOOLEAN, f_count : Nat, f_usecount : Nat,
                         f_iflags : SUBSET {"WANTCLOSE", "LARVAL"}]]
  /\ proc \in [Procs ->
       [p_fd : Tables \union {NULL}, call : Calls \union {"none"}, fd : Fds,
        pc : {"none", "idle", "fdplock", "closef", "fo_close", "making", "io",
              "flock", "accept", "fdfree"},
        fp : Files \union {NULL}, new : Files \union {NULL},
        wchan : Files \union {NULL}]]
  /\ program \in Programs

Slots(f) == {s \in Tables \X Fds : tab[s[1]].fd_ofiles[s[2]] = f}
Users(f) == {p \in Procs : proc[p].fp = f /\ proc[p].call # "flock"}
Makers(f) == {p \in Procs : proc[p].new = f}

\* f_count is the number of descriptors of the file, in all tables, and
\* f_usecount the number of calls that work with it: whatever open, dup2
\* over an open descriptor, close, fork and exit do to it in any order.
CountsExact ==
  /\ TypeOK
  /\ \A f \in Files : file[f].open =>
       /\ file[f].f_count = Cardinality(Slots(f))
       /\ file[f].f_usecount = Cardinality(Users(f)) + Cardinality(Makers(f))

\* closef frees no file that a descriptor leads to or a sleeping call works
\* with (file.9: "the file is not freed in one process while some other
\* process is still accessing it").
NoUseAfterFree ==
  \A f \in Files : ~file[f].open =>
    Slots(f) = {} /\ \A p \in Procs : f \notin {proc[p].fp, proc[p].new}

\* The bitmap tells the descriptors that are taken; no free descriptor lies
\* below fd_freefile, so that dup and open return the lowest one; and no open
\* one lies above fd_lastfile, so that fork copies and exit closes all.
HintsHold ==
  \A t \in Tables : tab[t].fd_refcnt > 0 =>
    /\ tab[t].fd_map = {i \in Fds : tab[t].fd_ofiles[i] # NULL}
    /\ \A i \in Fds \ tab[t].fd_map : i >= tab[t].fd_freefile
    /\ tab[t].fd_lastfile = Max(tab[t].fd_map \union {0})

\* A process that sleeps in closef has somebody to wait for: the last FRELE
\* wakes it.
CloserWoken ==
  \A p \in Procs :
    proc[p].wchan # NULL => file[proc[p].wchan].f_usecount > 1

\* Processes between fdplock and fdpunlock.
Holders(t) ==
  {p \in Procs : /\ proc[p].p_fd = t
                 /\ \/ proc[p].pc = "making"
                    \/ /\ proc[p].pc \in {"closef", "fo_close"}
                       /\ proc[p].call # "exit"}

\* The lock of a table is held when, and by whom, a call says: no path leaves
\* the table locked, none gives up the lock of another process.
LockTellsHolder ==
  \A t \in Tables : Holders(t) = {tab[t].fd_lock} \ {NULL}

\* fd_lock is a write lock, which grants "exclusive access to a single
\* process" (rwlock.9).
TableExclusion == \A t \in Tables : Cardinality(Holders(t)) <= 1
=============================================================================
