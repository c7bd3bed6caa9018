-------------------------------- MODULE Pipe --------------------------------
(***************************************************************************)
(* One direction of a pipe, sys/kern/sys_pipe.c: its readers, its writers, *)
(* processes that poll it, and the closing of its two ends.                *)
(*                                                                         *)
(* The code runs under the kernel lock, so a process gives way to others   *)
(* only where it sleeps: in tsleep, and in uiomove, which may fault.       *)
(* curproc is the process that is between two such places.  Everything     *)
(* sleeps on one channel, the address of the struct pipe, and wakeup       *)
(* wakes all of it.                                                        *)
(***************************************************************************)
EXTENDS Naturals, Sequences, FiniteSets, FiniteSetsExt

CONSTANTS
  Readers, Writers,  \* processes that use the read end and the write end
  Pollers,           \* processes that poll either end
  PIPE_SIZE, BIG_PIPE_SIZE, PIPE_BUF,
  LIMITBIGPIPES,
  BigPipes,          \* how many big pipes there are besides this one
  ReadSizes, WriteSizes,
  MaxWrites,         \* writes made by each writer
  Nonblock,          \* TRUE: fcntl may make the files FNONBLOCK, and undo it
  Faults             \* TRUE: uiomove may fail with EFAULT

ASSUME SizesAssumption ==
  /\ PIPE_SIZE \in Nat /\ BIG_PIPE_SIZE \in Nat /\ PIPE_BUF \in Nat \ {0}
  /\ PIPE_SIZE >= 3 /\ PIPE_SIZE < BIG_PIPE_SIZE
  /\ PIPE_BUF + PIPE_SIZE \div 3 <= PIPE_SIZE
  /\ ReadSizes \subseteq Nat \ {0} /\ WriteSizes \subseteq Nat \ {0}
  /\ LIMITBIGPIPES \in Nat /\ BigPipes \subseteq 0 .. LIMITBIGPIPES
  /\ MaxWrites \in Nat /\ Nonblock \in BOOLEAN /\ Faults \in BOOLEAN

VARIABLES
  \* struct pipe of the read end
  pipe_state, pipe_busy, cnt, in, out, size, buffer,
  nbigpipe,
  rend,      \* the read end: "open", "closing" or "freed"
  wend,      \* the write end: "open" or "freed"
  curproc,   \* {} or the process that has the kernel lock
  pc,
  sleeping,  \* the processes asleep on the pipe
  resid,     \* uio_resid of each call
  length,    \* orig_resid, the length asked for
  amount,    \* space, then size: what the call is about to move
  writes,    \* calls each writer has made
  polling,   \* what each poller sleeps for
  others,    \* the big pipes that are not this one
  sent, got  \* history: the bytes put into the pipe, and taken out of it

buf    == <<cnt, in, out, size, buffer>>
ends   == <<rend, wend>>
uio    == <<resid, length, amount>>
hist   == <<others, sent, got>>
vars   == <<pipe_state, pipe_busy, buf, nbigpipe, ends, curproc, pc, sleeping,
            uio, writes, polling, hist>>

Closer == "closer"   \* the process that closes the read end
Procs  == Readers \union Writers \union {Closer}

ASSUME ProcsAssumption ==
  IsFiniteSet(Readers) /\ IsFiniteSet(Writers) /\ Closer \notin Readers \union Writers

MINPIPESIZE == PIPE_SIZE \div 3

\* A byte: who wrote it, in a write of what length, and its place there.
Bytes == Writers \X WriteSizes \X Nat
NoByte == <<>>

LockSleeps == {"lk_read", "lk_reread", "lk_resize", "lk_write"}
Pcs == LockSleeps \union
       {"idle", "r_loop", "r_copy", "r_unlock", "r_exit", "piperd",
        "resize", "w_early", "w_loop", "w_locked", "w_copy", "w_exit", "pipewr",
        "pipecl"}

\* The places where PIPE_LOCK is held.
Locked == {"r_loop", "r_copy", "r_unlock", "resize", "w_locked", "w_copy"}

Flags == {"WANTR", "WANTW", "WANT", "SEL", "EOF", "LOCK", "LWANT"}

TypeOK ==
  /\ pipe_state \subseteq Flags
  /\ pipe_busy \in 0 .. Cardinality(Procs)
  /\ size \in {PIPE_SIZE, BIG_PIPE_SIZE}
  /\ cnt \in 0 .. size /\ in \in 0 .. size - 1 /\ out \in 0 .. size - 1
  /\ buffer \in [0 .. size - 1 -> Bytes \union {NoByte}]
  /\ nbigpipe \in Nat
  /\ rend \in {"open", "closing", "freed"} /\ wend \in {"open", "freed"}
  /\ curproc \subseteq Procs
  /\ pc \in [Procs -> Pcs]
  /\ sleeping \subseteq Procs
  /\ resid \in [Procs -> Nat] /\ length \in [Procs -> Nat] /\ amount \in [Procs -> Nat]
  /\ writes \in [Writers -> 0 .. MaxWrites]
  /\ polling \in [Pollers -> {"no", "in", "out"}]
  /\ sent \in Seq(Bytes) /\ got \in Seq(Bytes) /\ others \in BigPipes

\* pipe_create, for both ends.
Init ==
  /\ pipe_state = {}
  /\ pipe_busy = 0
  /\ size = PIPE_SIZE
  /\ cnt = 0 /\ in = 0 /\ out = 0
  /\ buffer = [i \in 0 .. PIPE_SIZE - 1 |-> NoByte]
  /\ others \in BigPipes /\ nbigpipe = others
  /\ rend = "open" /\ wend = "open"
  /\ curproc = {}
  /\ pc = [p \in Procs |-> "idle"]
  /\ sleeping = {}
  /\ resid = [p \in Procs |-> 0]
  /\ length = [p \in Procs |-> 0]
  /\ amount = [p \in Procs |-> 0]
  /\ writes = [w \in Writers |-> 0]
  /\ polling = [p \in Pollers |-> "no"]
  /\ sent = <<>> /\ got = <<>>

-----------------------------------------------------------------------------
(***************************************************************************)
(* Running, sleeping and waking up.                                        *)
(***************************************************************************)

\* p is at place and may run.
At(p, place) == pc[p] = place /\ p \notin sleeping /\ curproc \subseteq {p}

Go(p, place) == pc' = [pc EXCEPT ![p] = place]

\* p goes on at place without giving way.
Continue(p, place) == Go(p, place) /\ curproc' = {p}

\* p gives way, and goes on at place when it runs again.
GiveWay(p, place) == Go(p, place) /\ curproc' = {}

\* The system call returns.
Leave(p) ==
  /\ GiveWay(p, "idle")
  /\ resid' = [resid EXCEPT ![p] = 0]
  /\ length' = [length EXCEPT ![p] = 0]
  /\ amount' = [amount EXCEPT ![p] = 0]

\* From flags, the flags of want are cleared, and if one of them was up
\* everybody asleep on the pipe is woken.  If sel, pipeselwakeup: every
\* poller on record looks again.
Notify(flags, want, sel) ==
  /\ pipe_state' = flags \ (want \union (IF sel THEN {"SEL"} ELSE {}))
  /\ sleeping' = IF flags \cap want # {} THEN {} ELSE sleeping
  /\ polling' = IF sel /\ "SEL" \in flags THEN [p \in Pollers |-> "no"] ELSE polling

\* pipelock.  The first lock of a read is taken before the reader counts as
\* busy: its file reference keeps the pipe until then.
AfterLock == [lk_read   |-> "r_loop",
              lk_reread |-> "r_loop",
              lk_resize |-> "resize",
              lk_write  |-> "w_locked"]

pipelock(p) ==
  /\ \E l \in LockSleeps : At(p, l)
  /\ \/ /\ "LOCK" \in pipe_state
        /\ pipe_state' = pipe_state \union {"LWANT"}
        /\ sleeping' = sleeping \union {p}
        /\ GiveWay(p, pc[p])
        /\ UNCHANGED pipe_busy
     \/ /\ "LOCK" \notin pipe_state
        /\ pipe_state' = pipe_state \union {"LOCK"}
        /\ Continue(p, AfterLock[pc[p]])
        /\ pipe_busy' = IF pc[p] = "lk_read" THEN pipe_busy + 1 ELSE pipe_busy
        /\ UNCHANGED sleeping
  /\ UNCHANGED <<buf, nbigpipe, ends, uio, writes, polling, hist>>

\* pipeunlock, from the flags as they are now.
pipeunlock == Notify(pipe_state \ {"LOCK"}, {"LWANT"}, FALSE)

\* A signal ends a sleep: tsleep with PCATCH returns an error.
AfterSignal == [lk_reread |-> "r_exit", piperd |-> "r_exit",
                lk_resize |-> "w_early", lk_write |-> "w_exit", pipewr |-> "w_exit"]

Signal(p) ==
  /\ p \in sleeping
  /\ sleeping' = sleeping \ {p}
  /\ \/ /\ pc[p] \in DOMAIN AfterSignal
        /\ Go(p, AfterSignal[pc[p]])
        /\ UNCHANGED uio
     \/ /\ pc[p] = "lk_read"
        /\ Go(p, "idle")
        /\ resid' = [resid EXCEPT ![p] = 0]
        /\ length' = [length EXCEPT ![p] = 0]
        /\ amount' = [amount EXCEPT ![p] = 0]
  /\ UNCHANGED <<pipe_state, pipe_busy, buf, nbigpipe, ends, curproc, writes,
                 polling, hist>>

-----------------------------------------------------------------------------
(***************************************************************************)
(* pipe_read.                                                              *)
(***************************************************************************)

pipe_read(p) ==
  /\ At(p, "idle") /\ curproc = {}
  /\ rend = "open"
  /\ \E n \in ReadSizes :
       /\ resid' = [resid EXCEPT ![p] = n]
       /\ length' = [length EXCEPT ![p] = n]
  /\ Continue(p, "lk_read")
  /\ UNCHANGED <<pipe_state, pipe_busy, buf, nbigpipe, ends, sleeping, amount,
                 writes, polling, hist>>

\* There are characters: uiomove the first contiguous run of them.
ReadStart(p) ==
  /\ At(p, "r_loop")
  /\ resid[p] > 0 /\ cnt > 0
  /\ amount' = [amount EXCEPT ![p] = Min({size - out, cnt, resid[p]})]
  /\ GiveWay(p, "r_copy")
  /\ UNCHANGED <<pipe_state, pipe_busy, buf, nbigpipe, ends, sleeping, resid,
                 length, writes, polling, hist>>

\* in and out when n characters have been read: back to the beginning when
\* the pipe is empty.
PointersKeptIn(n) ==
  /\ cnt' = cnt - n
  /\ out' = (IF cnt = n THEN 0 ELSE IF out + n >= size THEN 0 ELSE out + n)
  /\ in' = in

Pointers(n) ==
  /\ cnt' = cnt - n
  /\ out' = (IF cnt = n THEN 0 ELSE IF out + n >= size THEN 0 ELSE out + n)
  /\ in' = (IF cnt = n THEN 0 ELSE in)

\* uiomove returns.
ReadCopied(p) ==
  LET n == amount[p]
  IN /\ At(p, "r_copy")
     /\ \/ /\ Pointers(n)
           /\ got' = got \o [i \in 1 .. n |-> buffer[out + i - 1]]
           /\ resid' = [resid EXCEPT ![p] = @ - n]
           /\ Continue(p, "r_loop")
        \/ /\ Faults
           /\ UNCHANGED <<cnt, in, out, got, resid>>
           /\ Continue(p, "r_unlock")
     /\ amount' = [amount EXCEPT ![p] = 0]
     /\ UNCHANGED <<pipe_state, pipe_busy, size, buffer, nbigpipe, ends, sleeping,
                    length, writes, polling, others, sent>>

\* The read is done: it has all it asked for, or it has some and the pipe is
\* empty, or the pipe is empty and at EOF.  A blocked writer is woken unless
\* it is EOF.
ReadDone(p) ==
  /\ At(p, "r_loop")
  /\ \/ resid[p] = 0 /\ Notify(pipe_state, {}, FALSE)
     \/ /\ resid[p] > 0 /\ cnt = 0 /\ "EOF" \in pipe_state
        /\ Notify(pipe_state, {}, FALSE)
     \/ /\ resid[p] > 0 /\ cnt = 0 /\ "EOF" \notin pipe_state
        /\ resid[p] < length[p]
        /\ Notify(pipe_state, {"WANTW"}, FALSE)
  /\ Continue(p, "r_unlock")
  /\ UNCHANGED <<pipe_busy, buf, nbigpipe, ends, uio, writes, hist>>

ReadUnlock(p) ==
  /\ At(p, "r_unlock")
  /\ pipeunlock
  /\ Continue(p, "r_exit")
  /\ UNCHANGED <<pipe_busy, buf, nbigpipe, ends, uio, writes, hist>>

\* Nothing to read and nothing read: wake the writers, unlock, and sleep or
\* fail with EAGAIN.
ReadWait(p) ==
  LET woken == pipe_state \cap {"WANTW", "LWANT"} # {}
      flags == pipe_state \ {"WANTW", "LOCK", "LWANT"}
      awake == IF woken THEN {} ELSE sleeping
  IN /\ At(p, "r_loop")
     /\ resid[p] > 0 /\ cnt = 0 /\ "EOF" \notin pipe_state
     /\ resid[p] = length[p]
     /\ \/ /\ Nonblock
           /\ pipe_state' = flags
           /\ sleeping' = awake
           /\ Continue(p, "r_exit")
        \/ /\ pipe_state' = flags \union {"WANTR"}
           /\ sleeping' = awake \union {p}
           /\ GiveWay(p, "piperd")
     /\ UNCHANGED <<pipe_busy, buf, nbigpipe, ends, uio, writes, polling, hist>>

\* tsleep returns 0.
ReadWoken(p) ==
  /\ At(p, "piperd")
  /\ Continue(p, "lk_reread")
  /\ UNCHANGED <<pipe_state, pipe_busy, buf, nbigpipe, ends, sleeping, uio,
                 writes, polling, hist>>

ReadSel == size - cnt >= PIPE_BUF

\* Whom a read wakes as it leaves: the process that closes the pipe when it
\* was the last one busy, else writers, once there is room enough.
ReadWake ==
  IF pipe_busy = 1 /\ "WANT" \in pipe_state THEN {"WANT", "WANTW"}
  ELSE IF cnt < MINPIPESIZE THEN {"WANTW"} ELSE {}

ReadExit(p) ==
  /\ At(p, "r_exit")
  /\ pipe_busy' = pipe_busy - 1
  /\ Notify(pipe_state, ReadWake, ReadSel)
  /\ Leave(p)
  /\ UNCHANGED <<buf, nbigpipe, ends, writes, hist>>

-----------------------------------------------------------------------------
(***************************************************************************)
(* pipe_write.                                                             *)
(***************************************************************************)

\* It is advantageous to resize the pipe.
WorthResizing(n) ==
  n > PIPE_SIZE /\ nbigpipe < LIMITBIGPIPES /\ size <= PIPE_SIZE /\ cnt = 0

\* Without a reader the call returns EPIPE and changes nothing.
pipe_write(p) ==
  /\ At(p, "idle") /\ curproc = {}
  /\ wend = "open" /\ writes[p] < MaxWrites
  /\ rend # "freed" /\ "EOF" \notin pipe_state
  /\ pipe_busy' = pipe_busy + 1
  /\ writes' = [writes EXCEPT ![p] = @ + 1]
  /\ \E n \in WriteSizes :
       /\ resid' = [resid EXCEPT ![p] = n]
       /\ length' = [length EXCEPT ![p] = n]
       /\ Continue(p, IF WorthResizing(n) THEN "lk_resize" ELSE "w_loop")
  /\ UNCHANGED <<pipe_state, buf, nbigpipe, ends, sleeping, amount, polling, hist>>

\* nbigpipe after pipe_free_kmem.
nbigpipeFreed == IF size > PIPE_SIZE THEN nbigpipe - 1 ELSE nbigpipe

\* pipespace succeeds and starts an empty buffer, or fails and leaves the
\* old one.
Resize(p) ==
  /\ At(p, "resize")
  /\ \/ /\ size' = BIG_PIPE_SIZE
        /\ buffer' = [i \in 0 .. BIG_PIPE_SIZE - 1 |-> NoByte]
        /\ in' = 0 /\ out' = 0 /\ cnt' = 0
        /\ nbigpipe' = nbigpipeFreed + 1
     \/ UNCHANGED <<buf, nbigpipe>>
  /\ pipeunlock
  /\ Continue(p, "w_loop")
  /\ UNCHANGED <<pipe_busy, ends, uio, writes, hist>>

\* An interrupted resize that stays busy.
WriteEarlyBusy(p) ==
  /\ At(p, "w_early")
  /\ Notify(pipe_state, {}, FALSE)
  /\ Leave(p)
  /\ UNCHANGED <<pipe_busy, buf, nbigpipe, ends, writes, hist>>

\* The resize was interrupted.
WriteEarly(p) ==
  /\ At(p, "w_early")
  /\ pipe_busy' = pipe_busy - 1
  /\ Notify(pipe_state,
            IF pipe_busy = 1 /\ "WANT" \in pipe_state THEN {"WANT", "WANTR"} ELSE {},
            FALSE)
  /\ Leave(p)
  /\ UNCHANGED <<buf, nbigpipe, ends, writes, hist>>

\* Any free space will do, however short the write.
SpaceAny(p) == size - cnt

\* Writes of no more than PIPE_BUF bytes need all of their space.
Space(p) ==
  IF size - cnt < resid[p] /\ length[p] <= PIPE_BUF THEN 0 ELSE size - cnt

WriteDone(p) ==
  /\ At(p, "w_loop")
  /\ resid[p] = 0 \/ "EOF" \in pipe_state
  /\ Continue(p, "w_exit")
  /\ UNCHANGED <<pipe_state, pipe_busy, buf, nbigpipe, ends, sleeping, uio,
                 writes, polling, hist>>

WriteSome(p) ==
  /\ At(p, "w_loop")
  /\ resid[p] > 0 /\ "EOF" \notin pipe_state
  /\ Space(p) > 0
  /\ amount' = [amount EXCEPT ![p] = Space(p)]
  /\ Continue(p, "lk_write")
  /\ UNCHANGED <<pipe_state, pipe_busy, buf, nbigpipe, ends, sleeping, resid,
                 length, writes, polling, hist>>

\* No space: wake the readers, and fail with EAGAIN or tell the pollers and
\* sleep.
WriteWait(p) ==
  /\ At(p, "w_loop")
  /\ resid[p] > 0 /\ "EOF" \notin pipe_state
  /\ Space(p) = 0
  /\ \/ /\ Nonblock
        /\ Notify(pipe_state, {"WANTR"}, FALSE)
        /\ Continue(p, "w_exit")
     \/ /\ LET wake == "WANTR" \in pipe_state
           IN /\ pipe_state' = (pipe_state \ {"WANTR", "SEL"}) \union {"WANTW"}
              /\ sleeping' = (IF wake THEN {} ELSE sleeping) \union {p}
              /\ polling' = IF "SEL" \in pipe_state
                               THEN [q \in Pollers |-> "no"] ELSE polling
        /\ GiveWay(p, "pipewr")
  /\ UNCHANGED <<pipe_busy, buf, nbigpipe, ends, uio, writes, hist>>

\* tsleep returns 0: the reader may be gone.
WriteWoken(p) ==
  /\ At(p, "pipewr")
  /\ Continue(p, IF "EOF" \in pipe_state THEN "w_exit" ELSE "w_loop")
  /\ UNCHANGED <<pipe_state, pipe_busy, buf, nbigpipe, ends, sleeping, uio,
                 writes, polling, hist>>

\* There is less space than before pipelock, which may have slept.
Stale(p) == amount[p] > size - cnt

\* With the lock: start again, or begin to uiomove.
WriteStart(p) ==
  /\ At(p, "w_locked")
  /\ \/ /\ Stale(p)
        /\ pipeunlock
        /\ amount' = [amount EXCEPT ![p] = 0]
        /\ Continue(p, "w_loop")
     \/ /\ ~Stale(p)
        /\ amount' = [amount EXCEPT ![p] = Min({@, resid[p]})]
        /\ GiveWay(p, "w_copy")
        /\ UNCHANGED <<pipe_state, sleeping, polling>>
  /\ UNCHANGED <<pipe_busy, buf, nbigpipe, ends, resid, length, writes, hist>>

\* in after n more characters; it wraps around with what did not fit.
InAfter(n) == IF in + n >= size THEN in + n - size ELSE in + n

\* uiomove returns, for both segments; or one of them faults, and nothing
\* is added.
WriteCopied(p) ==
  LET n == amount[p]
      byte(k) == <<p, length[p], length[p] - resid[p] + k>>
      place(i) == IF i >= in THEN i - in + 1 ELSE i + size - in + 1
  IN /\ At(p, "w_copy")
     /\ \/ /\ buffer' = [i \in 0 .. size - 1 |->
                           IF place(i) <= n THEN byte(place(i)) ELSE buffer[i]]
           /\ in' = InAfter(n)
           /\ cnt' = cnt + n
           /\ sent' = sent \o [k \in 1 .. n |-> byte(k)]
           /\ resid' = [resid EXCEPT ![p] = @ - n]
           /\ Continue(p, "w_loop")
        \/ /\ Faults
           /\ UNCHANGED <<buffer, in, cnt, sent, resid>>
           /\ Continue(p, "w_exit")
     /\ pipeunlock
     /\ amount' = [amount EXCEPT ![p] = 0]
     /\ UNCHANGED <<pipe_busy, out, size, nbigpipe, ends, length, writes, others, got>>

\* Whom a write wakes as it leaves.
WriteWakeClose ==
  IF pipe_busy = 1 /\ "WANT" \in pipe_state THEN {"WANT", "WANTR"} ELSE {}

WriteWake ==
  IF pipe_busy = 1 /\ "WANT" \in pipe_state THEN {"WANT", "WANTR"}
  ELSE IF cnt > 0 THEN {"WANTR"} ELSE {}

WriteExit(p) ==
  /\ At(p, "w_exit")
  /\ pipe_busy' = pipe_busy - 1
  /\ Notify(pipe_state, WriteWake, cnt > 0)
  /\ Leave(p)
  /\ UNCHANGED <<buf, nbigpipe, ends, writes, hist>>

-----------------------------------------------------------------------------
(***************************************************************************)
(* pipe_poll, by a process that sleeps for one event at one end.           *)
(***************************************************************************)

Readable == cnt > 0 \/ "EOF" \in pipe_state \/ wend = "freed"
Writable == size - cnt >= PIPE_BUF \/ "EOF" \in pipe_state \/ rend = "freed"

pipe_poll(p) ==
  /\ curproc = {} /\ polling[p] = "no"
  /\ \/ rend = "open" /\ ~Readable /\ polling' = [polling EXCEPT ![p] = "in"]
     \/ wend = "open" /\ ~Writable /\ polling' = [polling EXCEPT ![p] = "out"]
  /\ pipe_state' = pipe_state \union {"SEL"}
  /\ UNCHANGED <<pipe_busy, buf, nbigpipe, ends, curproc, pc, sleeping, uio,
                 writes, hist>>

-----------------------------------------------------------------------------
(***************************************************************************)
(* pipeclose.  closef calls it when the last reference to the end is gone  *)
(* and nobody is in a call on that end.                                    *)
(***************************************************************************)

\* Closing the read end, up to the wait for the writers.
CloseRead ==
  /\ rend = "open" /\ curproc = {}
  /\ \A r \in Readers : pc[r] = "idle"
  /\ rend' = "closing"
  /\ Notify(pipe_state \union {"EOF"}, {}, TRUE)
  /\ Continue(Closer, "pipecl")
  /\ UNCHANGED <<pipe_busy, buf, nbigpipe, wend, uio, writes, hist>>

\* A close that asks nobody to wake it.
PipeclNoWant ==
  /\ At(Closer, "pipecl") /\ rend = "closing"
  /\ pipe_busy > 0
  /\ sleeping' = {Closer}
  /\ GiveWay(Closer, "pipecl")
  /\ UNCHANGED <<pipe_state, pipe_busy, buf, nbigpipe, ends, uio, writes, polling, hist>>

\* The wait: everybody is woken, and the last to leave wakes the closer.
Pipecl ==
  /\ At(Closer, "pipecl") /\ rend = "closing"
  /\ pipe_busy > 0
  /\ pipe_state' = pipe_state \union {"WANT"}
  /\ sleeping' = {Closer}
  /\ GiveWay(Closer, "pipecl")
  /\ UNCHANGED <<pipe_busy, buf, nbigpipe, ends, uio, writes, polling, hist>>

RunDown == pipe_busy = 0

\* Nobody is left: disconnect from the peer and free the pipe.
FreePipe ==
  /\ At(Closer, "pipecl") /\ rend = "closing"
  /\ RunDown
  /\ rend' = "freed"
  /\ nbigpipe' = nbigpipeFreed
  /\ Leave(Closer)
  /\ UNCHANGED <<pipe_state, pipe_busy, buf, wend, sleeping, writes, polling, hist>>

\* Closing the write end: the read end, if it is still there, is at EOF.
CloseWrite ==
  /\ wend = "open" /\ curproc = {}
  /\ \A w \in Writers : pc[w] = "idle"
  /\ wend' = "freed"
  /\ \/ /\ rend # "freed"
        /\ pipe_state' = (pipe_state \ {"SEL"}) \union {"EOF"}
        /\ sleeping' = {}
        /\ polling' = IF "SEL" \in pipe_state
                         THEN [p \in Pollers |-> "no"] ELSE polling
     \/ rend = "freed" /\ UNCHANGED <<pipe_state, sleeping, polling>>
  /\ UNCHANGED <<pipe_busy, buf, nbigpipe, rend, curproc, pc, uio, writes, hist>>

-----------------------------------------------------------------------------
ReadStep(p) ==
  \/ ReadStart(p) \/ ReadCopied(p) \/ ReadDone(p) \/ ReadUnlock(p)
  \/ ReadWait(p) \/ ReadWoken(p) \/ ReadExit(p) \/ pipelock(p)

WriteStep(p) ==
  \/ Resize(p) \/ WriteEarly(p) \/ WriteDone(p) \/ WriteSome(p) \/ WriteWait(p)
  \/ WriteWoken(p) \/ WriteStart(p) \/ WriteCopied(p) \/ WriteExit(p)
  \/ pipelock(p)

Next ==
  \/ \E r \in Readers : pipe_read(r) \/ ReadStep(r)
  \/ \E w \in Writers : pipe_write(w) \/ WriteStep(w)
  \/ \E p \in Readers \union Writers : Signal(p)
  \/ \E p \in Pollers : pipe_poll(p)
  \/ CloseRead \/ Pipecl \/ FreePipe \/ CloseWrite

Spec == Init /\ [][Next]_vars

\* A process that is awake in the kernel gets to run; uiomove ends.
FairSpec ==
  /\ Spec
  /\ \A r \in Readers : WF_vars(ReadStep(r))
  /\ \A w \in Writers : WF_vars(WriteStep(w))
  /\ WF_vars(Pipecl \/ FreePipe)

-----------------------------------------------------------------------------
(***************************************************************************)
(* Properties.                                                             *)
(***************************************************************************)

Contents == [i \in 1 .. cnt |-> buffer[(out + i - 1) % size]]

\* What was written is what is read: until the read end is freed, the bytes
\* delivered and the bytes in the buffer are those that writers put in, each
\* once and in order, across wraparound, resets of the pointers and sleeps
\* in uiomove.
NothingLost == rend # "freed" => got \o Contents = sent

\* There is no room for another big pipe: this one keeps its size.
KeepsSize == others = LIMITBIGPIPES

\* NothingLost for a pipe that keeps its size.
NothingLostUnresized == KeepsSize => NothingLost

\* "Writes of size <= PIPE_BUF must be atomic": the bytes of a short write
\* are never apart in the pipe.
ShortWritesWhole ==
  \A i \in DOMAIN sent :
    sent[i][2] <= PIPE_BUF /\ sent[i][3] > 1 =>
      i > 1 /\ sent[i - 1] = <<sent[i][1], sent[i][2], sent[i][3] - 1>>

\* pipe_busy counts the processes that are at work on the pipe, so that
\* pipeclose frees it only when the last of them is gone, one at a time has
\* PIPE_LOCK, and nbigpipe counts the big pipes: a count left behind would
\* keep others from growing for ever.
BusyCounts ==
  LET inside  == {p \in Procs : pc[p] \notin {"idle", "lk_read", "pipecl"}}
      holders == {p \in Procs : pc[p] \in Locked}
  IN /\ TypeOK
     /\ pipe_busy = Cardinality(inside)
     /\ Cardinality(holders) = (IF "LOCK" \in pipe_state THEN 1 ELSE 0)
     /\ nbigpipe - others = (IF rend # "freed" /\ size > PIPE_SIZE THEN 1 ELSE 0)
     /\ rend = "freed" => \A p \in Procs : pc[p] = "idle"

\* Everybody is asleep or out of the kernel.
Quiet == \A p \in Procs : p \in sleeping \/ pc[p] = "idle"

\* When nothing moves any more, those who sleep have a reason to: a reader
\* that there is nothing to read, a writer that the pipe holds so much that
\* the next read wakes it (MINPIPESIZE bytes, and at least one), and neither
\* that the other end is closed; nobody sleeps for the lock, and pipeclose
\* not for nobody.  Nor does a poller sleep although what it waits for has
\* come.  (A resize that loses what is in the pipe also leaves its writers
\* asleep, so this too is about a pipe that keeps its size.)
NoLostWakeup ==
  Quiet /\ KeepsSize =>
    /\ \A p \in sleeping :
         \/ pc[p] = "piperd" /\ cnt = 0 /\ "EOF" \notin pipe_state
         \/ pc[p] = "pipewr" /\ cnt >= MINPIPESIZE /\ cnt > 0 /\ "EOF" \notin pipe_state
    /\ \A p \in Pollers :
         /\ polling[p] = "in" => ~Readable
         /\ polling[p] = "out" => ~Writable

\* A close of the read end comes to its end, whatever the writers are at.
CloseReturns == rend = "closing" ~> rend = "freed"
=============================================================================
