----------------------------- MODULE PipeProofs -----------------------------
(***************************************************************************)
(* For any readers, writers and pollers, any sizes of buffer and of calls: *)
(* pipe_busy and PIPE_LOCK are exact, what is written is what is read,     *)
(* short writes stay whole, and no wakeup is lost.                         *)
(*                                                                         *)
(* The invariant has four layers, each inductive given those before it.    *)
(***************************************************************************)
EXTENDS Pipe, SequenceTheorems, FiniteSetTheorems, TLAPS

-----------------------------------------------------------------------------
(***************************************************************************)
(* The first layer: who is where.                                          *)
(***************************************************************************)

ReaderPcs == {"lk_read", "lk_reread", "r_loop", "r_copy", "r_unlock", "r_exit", "piperd"}

\* The places where pipe_busy does not count a process.
Outside == {"idle", "lk_read", "pipecl"}
Busy    == {p \in Procs : pc[p] \notin Outside}

CtlTypes ==
  /\ pipe_state \subseteq Flags /\ pipe_busy \in Nat
  /\ rend \in {"open", "closing", "freed"} /\ wend \in {"open", "freed"}
  /\ curproc \subseteq Procs /\ sleeping \subseteq Procs
  /\ pc \in [Procs -> Pcs]

LockInv ==
  /\ "LOCK" \in pipe_state <=> \E p \in Procs : pc[p] \in Locked
  /\ \A p, q \in Procs : pc[p] \in Locked /\ pc[q] \in Locked => p = q

EndsInv ==
  /\ pc[Closer] = IF rend = "closing" THEN "pipecl" ELSE "idle"
  /\ \A p \in Procs : pc[p] = "pipecl" => p = Closer
  /\ "EOF" \notin pipe_state => rend = "open" /\ wend = "open"
  /\ \A p \in Procs : pc[p] \in ReaderPcs => p \in Readers /\ rend = "open"
  /\ rend = "freed" => \A p \in Procs : pc[p] = "idle"

Ctl ==
  /\ CtlTypes
  /\ pipe_busy = Cardinality(Busy)
  /\ LockInv
  /\ EndsInv

LEMMA Finite ==
  /\ IsFiniteSet(Procs) /\ Closer \in Procs
  /\ Readers \subseteq Procs \ {Closer} /\ Writers \subseteq Procs \ {Closer}
<1>1. IsFiniteSet(Readers \union Writers)
  BY ProcsAssumption, FS_Union
<1>2. IsFiniteSet({Closer})
  BY FS_Singleton
<1>3. IsFiniteSet((Readers \union Writers) \union {Closer})
  BY <1>1, <1>2, FS_Union
<1> QED BY <1>3, ProcsAssumption DEF Procs

\* One process comes or goes, and the count with it.
LEMMA Counted ==
  ASSUME NEW S, IsFiniteSet(S), NEW p, NEW T,
         \/ T = S
         \/ p \notin S /\ T = S \union {p}
         \/ p \in S /\ T = S \ {p}
  PROVE  /\ Cardinality(S) \in Nat /\ Cardinality(T) \in Nat
         /\ T = S => Cardinality(T) = Cardinality(S)
         /\ p \notin S /\ T = S \union {p} => Cardinality(T) = Cardinality(S) + 1
         /\ p \in S /\ T = S \ {p} => Cardinality(T) = Cardinality(S) - 1
<1>1. Cardinality(S) \in Nat
  BY FS_CardinalityType
<1>2. CASE T = S
  BY <1>1, <1>2
<1>3. CASE p \notin S /\ T = S \union {p}
  BY <1>1, <1>3, FS_AddElement
<1>4. CASE p \in S /\ T = S \ {p}
  BY <1>1, <1>4, FS_RemoveElement, FS_CardinalityType
<1> QED BY <1>2, <1>3, <1>4

\* Process p goes from one place to another.  What the first layer asks of
\* such a step: pipe_busy and LOCK follow it.
Moves(p, a, b) ==
  /\ pc[p] = a /\ pc' = [pc EXCEPT ![p] = b]
  /\ a # "pipecl" /\ b \in Pcs \ {"pipecl"}
  /\ UNCHANGED ends /\ rend # "freed"
  /\ b \in ReaderPcs => a \in ReaderPcs \/ (p \in Readers /\ rend = "open")

Follows(a, b) ==
  /\ pipe_state' \subseteq Flags /\ sleeping' \subseteq Procs /\ curproc' \subseteq Procs
  /\ a \in Outside /\ b \in Outside => pipe_busy' = pipe_busy
  /\ a \notin Outside /\ b \notin Outside => pipe_busy' = pipe_busy
  /\ a \in Outside /\ b \notin Outside => pipe_busy' = pipe_busy + 1
  /\ a \notin Outside /\ b \in Outside => pipe_busy' = pipe_busy - 1
  /\ b \in Locked => "LOCK" \in pipe_state'
  /\ b \in Locked /\ a \notin Locked => "LOCK" \notin pipe_state
  /\ b \notin Locked /\ a \in Locked => "LOCK" \notin pipe_state'
  /\ b \notin Locked /\ a \notin Locked => ("LOCK" \in pipe_state' <=> "LOCK" \in pipe_state)
  /\ "EOF" \in pipe_state' <=> "EOF" \in pipe_state

LEMMA Move ==
  ASSUME Ctl, NEW p \in Procs, p # Closer, NEW a, NEW b, Moves(p, a, b), Follows(a, b)
  PROVE  Ctl'
<1>1. /\ pc[p] = a /\ pc'[p] = b /\ \A q \in Procs : q # p => pc'[q] = pc[q]
      /\ pc' \in [Procs -> Pcs]
  BY DEF Ctl, CtlTypes, Moves
<1>2. CtlTypes' /\ pipe_busy' = Cardinality(Busy')
  <2> DEFINE S == Busy
             T == Busy'
  <2>1. IsFiniteSet(S)
    BY Finite, FS_Subset DEF Busy
  <2>2. /\ a \in Outside <=> p \notin S
        /\ b \in Outside <=> p \notin T
        /\ \A q \in Procs : q # p => (q \in S <=> q \in T)
        /\ S \subseteq Procs /\ T \subseteq Procs
    BY <1>1 DEF Busy
  <2>3. /\ a \in Outside /\ b \notin Outside => p \notin S /\ T = S \union {p}
        /\ a \notin Outside /\ b \in Outside => p \in S /\ T = S \ {p}
        /\ (a \in Outside <=> b \in Outside) => T = S
    BY <2>2
  <2> HIDE DEF S, T
  <2>4. /\ Cardinality(S) \in Nat /\ Cardinality(T) \in Nat
        /\ T = S => Cardinality(T) = Cardinality(S)
        /\ p \notin S /\ T = S \union {p} => Cardinality(T) = Cardinality(S) + 1
        /\ p \in S /\ T = S \ {p} => Cardinality(T) = Cardinality(S) - 1
    BY <2>1, <2>3, Counted
  <2>5. pipe_busy = Cardinality(S)
    BY DEF Ctl, S
  <2>6. pipe_busy' = Cardinality(T)
    BY <2>3, <2>4, <2>5 DEF Follows
  <2>7. pipe_busy' \in Nat
    BY <2>4, <2>6
  <2> QED BY <1>1, <2>6, <2>7 DEF T, Ctl, CtlTypes, Moves, Follows, ends
<1>3. LockInv'
  BY <1>1 DEF Ctl, LockInv, Follows
<1>4. EndsInv'
  <2>1. Closer \in Procs /\ pc'[Closer] = pc[Closer] /\ rend' = rend /\ wend' = wend
    BY <1>1, Finite DEF Moves, ends
  <2>2. b # "pipecl" /\ rend # "freed"
    BY DEF Moves
  <2>3. \A q \in Procs : pc'[q] \in ReaderPcs => q \in Readers /\ rend = "open"
    BY <1>1 DEF Ctl, EndsInv, Moves
  <2> QED BY <1>1, <2>1, <2>2, <2>3 DEF Ctl, EndsInv, Follows
<1> QED BY <1>2, <1>3, <1>4 DEF Ctl

\* Reading and writing: the places each step leads to.
LEMMA Simple ==
  ASSUME Ctl, NEW p \in Procs, p # Closer, NEW a, NEW b \in Pcs \ {"pipecl"},
         pc[p] = a, a \notin {"idle", "pipecl"}, pc' = [pc EXCEPT ![p] = b],
         UNCHANGED ends, curproc' \in {{}, {p}},
         b \in ReaderPcs => a \in ReaderPcs, Follows(a, b)
  PROVE  Ctl'
<1>1. rend # "freed"
  BY DEF Ctl, EndsInv
<1>2. Moves(p, a, b)
  BY <1>1 DEF Moves
<1> QED BY <1>2, Move

LEMMA LockCtl ==
  ASSUME Ctl, NEW p \in Procs, p # Closer, pipelock(p)
  PROVE  Ctl'
<1> USE DEF Ctl, CtlTypes, Flags, Pcs, LockSleeps, Locked, Outside, ReaderPcs
<1>1. /\ p \in Procs /\ pc[p] \in LockSleeps /\ UNCHANGED ends
      /\ \/ /\ "LOCK" \in pipe_state /\ pipe_state' = pipe_state \union {"LWANT"}
            /\ sleeping' = sleeping \union {p} /\ UNCHANGED pipe_busy
            /\ pc' = [pc EXCEPT ![p] = pc[p]] /\ curproc' = {}
         \/ /\ "LOCK" \notin pipe_state /\ pipe_state' = pipe_state \union {"LOCK"}
            /\ pc' = [pc EXCEPT ![p] = AfterLock[pc[p]]] /\ curproc' = {p}
            /\ pipe_busy' = IF pc[p] = "lk_read" THEN pipe_busy + 1 ELSE pipe_busy
            /\ UNCHANGED sleeping
  BY DEF pipelock, At, Go, GiveWay, Continue
<1>2. /\ AfterLock["lk_read"] = "r_loop" /\ AfterLock["lk_reread"] = "r_loop"
      /\ AfterLock["lk_resize"] = "resize" /\ AfterLock["lk_write"] = "w_locked"
  BY DEF AfterLock
<1>3. CASE "LOCK" \in pipe_state
  <2>1. Follows(pc[p], pc[p])
    BY <1>1, <1>3 DEF Follows
  <2> QED BY <1>1, <1>3, <2>1, Simple
<1>4. CASE "LOCK" \notin pipe_state
  <2> DEFINE b == AfterLock[pc[p]]
  <2>1. /\ b \in Pcs \ {"pipecl"} /\ b \in Locked
        /\ b \in ReaderPcs => pc[p] \in ReaderPcs
    BY <1>1, <1>2
  <2>2. Follows(pc[p], b)
    BY <1>1, <1>4, <2>1 DEF Follows
  <2> QED BY <1>1, <1>4, <2>1, <2>2, Simple
<1> QED BY <1>3, <1>4

LEMMA ReadCtl ==
  ASSUME Ctl, NEW p \in Procs, p # Closer,
         \/ ReadStart(p) \/ ReadCopied(p) \/ ReadDone(p) \/ ReadUnlock(p)
         \/ ReadWait(p) \/ ReadWoken(p) \/ ReadExit(p)
  PROVE  Ctl'
<1> USE DEF Ctl, CtlTypes, Flags, Pcs, LockSleeps, Locked, Outside, ReaderPcs, At, Go, GiveWay,
            Continue, Leave, Notify, pipeunlock
<1>0. pc[p] \in Locked => "LOCK" \in pipe_state
  BY DEF LockInv
<1> HIDE DEF Ctl
<1>00. CtlTypes
  BY DEF Ctl
<1>1. CASE ReadStart(p)
  <2>1. pc[p] = "r_loop" /\ pc' = [pc EXCEPT ![p] = "r_copy"] /\ UNCHANGED ends /\ curproc' \in {{}, {p}}
    BY <1>1 DEF ReadStart
  <2>2. Follows("r_loop", "r_copy")
    BY <1>0, <1>00, <1>1, <2>1 DEF ReadStart, Follows
  <2> QED BY <2>1, <2>2, Simple
<1>2. CASE ReadCopied(p)
  <2>1. CASE pc' = [pc EXCEPT ![p] = "r_loop"]
    <3>1. pc[p] = "r_copy" /\ UNCHANGED ends /\ curproc' \in {{}, {p}}
      BY <1>2 DEF ReadCopied
    <3>2. pc'[p] = "r_loop"
      BY <1>00, <2>1
    <3>3. Follows("r_copy", "r_loop")
      BY <1>0, <1>00, <1>2, <3>1, <3>2 DEF ReadCopied, Follows
    <3> QED BY <2>1, <3>1, <3>3, Simple
  <2>2. CASE pc' = [pc EXCEPT ![p] = "r_unlock"]
    <3>1. pc[p] = "r_copy" /\ UNCHANGED ends /\ curproc' \in {{}, {p}}
      BY <1>2 DEF ReadCopied
    <3>2. pc'[p] = "r_unlock"
      BY <1>00, <2>2
    <3>3. Follows("r_copy", "r_unlock")
      BY <1>0, <1>00, <1>2, <3>1, <3>2 DEF ReadCopied, Follows
    <3> QED BY <2>2, <3>1, <3>3, Simple
  <2> QED BY <1>2, <2>1, <2>2 DEF ReadCopied
<1>3. CASE ReadDone(p)
  <2>1. pc[p] = "r_loop" /\ pc' = [pc EXCEPT ![p] = "r_unlock"] /\ UNCHANGED ends /\ curproc' \in {{}, {p}}
    BY <1>3 DEF ReadDone
  <2>2. Follows("r_loop", "r_unlock")
    BY <1>0, <1>00, <1>3, <2>1 DEF ReadDone, Follows
  <2> QED BY <2>1, <2>2, Simple
<1>4. CASE ReadUnlock(p)
  <2>1. pc[p] = "r_unlock" /\ pc' = [pc EXCEPT ![p] = "r_exit"] /\ UNCHANGED ends /\ curproc' \in {{}, {p}}
    BY <1>4 DEF ReadUnlock
  <2>2. Follows("r_unlock", "r_exit")
    BY <1>0, <1>00, <1>4, <2>1 DEF ReadUnlock, Follows
  <2> QED BY <2>1, <2>2, Simple
<1>5. CASE ReadWait(p)
  <2>1. CASE pc' = [pc EXCEPT ![p] = "r_exit"]
    <3>1. pc[p] = "r_loop" /\ UNCHANGED ends /\ curproc' \in {{}, {p}}
      BY <1>5 DEF ReadWait
    <3>2. pc'[p] = "r_exit"
      BY <1>00, <2>1
    <3>3. Follows("r_loop", "r_exit")
      BY <1>0, <1>00, <1>5, <3>1, <3>2 DEF ReadWait, Follows
    <3> QED BY <2>1, <3>1, <3>3, Simple
  <2>2. CASE pc' = [pc EXCEPT ![p] = "piperd"]
    <3>1. pc[p] = "r_loop" /\ UNCHANGED ends /\ curproc' \in {{}, {p}}
      BY <1>5 DEF ReadWait
    <3>2. pc'[p] = "piperd"
      BY <1>00, <2>2
    <3>3. Follows("r_loop", "piperd")
      BY <1>0, <1>00, <1>5, <3>1, <3>2 DEF ReadWait, Follows
    <3> QED BY <2>2, <3>1, <3>3, Simple
  <2> QED BY <1>5, <2>1, <2>2 DEF ReadWait
<1>6. CASE ReadWoken(p)
  <2>1. pc[p] = "piperd" /\ pc' = [pc EXCEPT ![p] = "lk_reread"] /\ UNCHANGED ends /\ curproc' \in {{}, {p}}
    BY <1>6 DEF ReadWoken
  <2>2. Follows("piperd", "lk_reread")
    BY <1>0, <1>00, <1>6, <2>1 DEF ReadWoken, Follows
  <2> QED BY <2>1, <2>2, Simple
<1>7. CASE ReadExit(p)
  <2>1. pc[p] = "r_exit" /\ pc' = [pc EXCEPT ![p] = "idle"] /\ UNCHANGED ends /\ curproc' \in {{}, {p}}
    BY <1>7 DEF ReadExit
  <2>2. Follows("r_exit", "idle")
    BY <1>0, <1>00, <1>7, <2>1 DEF ReadExit, Follows, ReadWake
  <2> QED BY <2>1, <2>2, Simple
<1> QED BY <1>1, <1>2, <1>3, <1>4, <1>5, <1>6, <1>7

LEMMA WriteCtl ==
  ASSUME Ctl, NEW p \in Procs, p # Closer,
         \/ Resize(p) \/ WriteEarly(p) \/ WriteDone(p) \/ WriteSome(p) \/ WriteWait(p)
         \/ WriteWoken(p) \/ WriteStart(p) \/ WriteCopied(p) \/ WriteExit(p)
  PROVE  Ctl'
<1> USE DEF Ctl, CtlTypes, Flags, Pcs, LockSleeps, Locked, Outside, ReaderPcs, At, Go, GiveWay,
            Continue, Leave, Notify, pipeunlock
<1>0. pc[p] \in Locked => "LOCK" \in pipe_state
  BY DEF LockInv
<1> HIDE DEF Ctl
<1>00. CtlTypes
  BY DEF Ctl
<1>1. CASE Resize(p)
  <2>1. pc[p] = "resize" /\ pc' = [pc EXCEPT ![p] = "w_loop"] /\ UNCHANGED ends /\ curproc' \in {{}, {p}}
    BY <1>1 DEF Resize
  <2>2. Follows("resize", "w_loop")
    BY <1>0, <1>00, <1>1, <2>1 DEF Resize, Follows
  <2> QED BY <2>1, <2>2, Simple
<1>2. CASE WriteEarly(p)
  <2>1. pc[p] = "w_early" /\ pc' = [pc EXCEPT ![p] = "idle"] /\ UNCHANGED ends /\ curproc' \in {{}, {p}}
    BY <1>2 DEF WriteEarly
  <2>2. Follows("w_early", "idle")
    BY <1>0, <1>00, <1>2, <2>1 DEF WriteEarly, Follows
  <2> QED BY <2>1, <2>2, Simple
<1>3. CASE WriteDone(p)
  <2>1. pc[p] = "w_loop" /\ pc' = [pc EXCEPT ![p] = "w_exit"] /\ UNCHANGED ends /\ curproc' \in {{}, {p}}
    BY <1>3 DEF WriteDone
  <2>2. Follows("w_loop", "w_exit")
    BY <1>0, <1>00, <1>3, <2>1 DEF WriteDone, Follows
  <2> QED BY <2>1, <2>2, Simple
<1>4. CASE WriteSome(p)
  <2>1. pc[p] = "w_loop" /\ pc' = [pc EXCEPT ![p] = "lk_write"] /\ UNCHANGED ends /\ curproc' \in {{}, {p}}
    BY <1>4 DEF WriteSome
  <2>2. Follows("w_loop", "lk_write")
    BY <1>0, <1>00, <1>4, <2>1 DEF WriteSome, Follows
  <2> QED BY <2>1, <2>2, Simple
<1>5. CASE WriteWait(p)
  <2>1. CASE pc' = [pc EXCEPT ![p] = "w_exit"]
    <3>1. pc[p] = "w_loop" /\ UNCHANGED ends /\ curproc' \in {{}, {p}}
      BY <1>5 DEF WriteWait
    <3>2. pc'[p] = "w_exit"
      BY <1>00, <2>1
    <3>3. Follows("w_loop", "w_exit")
      BY <1>0, <1>00, <1>5, <3>1, <3>2 DEF WriteWait, Follows
    <3> QED BY <2>1, <3>1, <3>3, Simple
  <2>2. CASE pc' = [pc EXCEPT ![p] = "pipewr"]
    <3>1. pc[p] = "w_loop" /\ UNCHANGED ends /\ curproc' \in {{}, {p}}
      BY <1>5 DEF WriteWait
    <3>2. pc'[p] = "pipewr"
      BY <1>00, <2>2
    <3>3. Follows("w_loop", "pipewr")
      BY <1>0, <1>00, <1>5, <3>1, <3>2 DEF WriteWait, Follows
    <3> QED BY <2>2, <3>1, <3>3, Simple
  <2> QED BY <1>5, <2>1, <2>2 DEF WriteWait
<1>6. CASE WriteWoken(p)
  <2>1. CASE pc' = [pc EXCEPT ![p] = "w_exit"]
    <3>1. pc[p] = "pipewr" /\ UNCHANGED ends /\ curproc' \in {{}, {p}}
      BY <1>6 DEF WriteWoken
    <3>2. pc'[p] = "w_exit"
      BY <1>00, <2>1
    <3>3. Follows("pipewr", "w_exit")
      BY <1>0, <1>00, <1>6, <3>1, <3>2 DEF WriteWoken, Follows
    <3> QED BY <2>1, <3>1, <3>3, Simple
  <2>2. CASE pc' = [pc EXCEPT ![p] = "w_loop"]
    <3>1. pc[p] = "pipewr" /\ UNCHANGED ends /\ curproc' \in {{}, {p}}
      BY <1>6 DEF WriteWoken
    <3>2. pc'[p] = "w_loop"
      BY <1>00, <2>2
    <3>3. Follows("pipewr", "w_loop")
      BY <1>0, <1>00, <1>6, <3>1, <3>2 DEF WriteWoken, Follows
    <3> QED BY <2>2, <3>1, <3>3, Simple
  <2> QED BY <1>6, <2>1, <2>2 DEF WriteWoken
<1>7. CASE WriteStart(p)
  <2>1. CASE pc' = [pc EXCEPT ![p] = "w_loop"]
    <3>1. pc[p] = "w_locked" /\ UNCHANGED ends /\ curproc' \in {{}, {p}}
      BY <1>7 DEF WriteStart
    <3>2. pc'[p] = "w_loop"
      BY <1>00, <2>1
    <3>3. Follows("w_locked", "w_loop")
      BY <1>0, <1>00, <1>7, <3>1, <3>2 DEF WriteStart, Follows
    <3> QED BY <2>1, <3>1, <3>3, Simple
  <2>2. CASE pc' = [pc EXCEPT ![p] = "w_copy"]
    <3>1. pc[p] = "w_locked" /\ UNCHANGED ends /\ curproc' \in {{}, {p}}
      BY <1>7 DEF WriteStart
    <3>2. pc'[p] = "w_copy"
      BY <1>00, <2>2
    <3>3. Follows("w_locked", "w_copy")
      BY <1>0, <1>00, <1>7, <3>1, <3>2 DEF WriteStart, Follows
    <3> QED BY <2>2, <3>1, <3>3, Simple
  <2> QED BY <1>7, <2>1, <2>2 DEF WriteStart
<1>8. CASE WriteCopied(p)
  <2>1. CASE pc' = [pc EXCEPT ![p] = "w_loop"]
    <3>1. pc[p] = "w_copy" /\ UNCHANGED ends /\ curproc' \in {{}, {p}}
      BY <1>8 DEF WriteCopied
    <3>2. pc'[p] = "w_loop"
      BY <1>00, <2>1
    <3>3. Follows("w_copy", "w_loop")
      BY <1>0, <1>00, <1>8, <3>1, <3>2 DEF WriteCopied, Follows
    <3> QED BY <2>1, <3>1, <3>3, Simple
  <2>2. CASE pc' = [pc EXCEPT ![p] = "w_exit"]
    <3>1. pc[p] = "w_copy" /\ UNCHANGED ends /\ curproc' \in {{}, {p}}
      BY <1>8 DEF WriteCopied
    <3>2. pc'[p] = "w_exit"
      BY <1>00, <2>2
    <3>3. Follows("w_copy", "w_exit")
      BY <1>0, <1>00, <1>8, <3>1, <3>2 DEF WriteCopied, Follows
    <3> QED BY <2>2, <3>1, <3>3, Simple
  <2> QED BY <1>8, <2>1, <2>2 DEF WriteCopied
<1>9. CASE WriteExit(p)
  <2>1. pc[p] = "w_exit" /\ pc' = [pc EXCEPT ![p] = "idle"] /\ UNCHANGED ends /\ curproc' \in {{}, {p}}
    BY <1>9 DEF WriteExit
  <2>2. Follows("w_exit", "idle")
    BY <1>0, <1>00, <1>9, <2>1 DEF WriteExit, Follows, WriteWake
  <2> QED BY <2>1, <2>2, Simple
<1> QED BY <1>1, <1>2, <1>3, <1>4, <1>5, <1>6, <1>7, <1>8, <1>9

\* The calls, signals, polling and closing.
LEMMA OtherCtl ==
  ASSUME Ctl,
         \/ \E p \in Readers : pipe_read(p)
         \/ \E p \in Writers : pipe_write(p)
         \/ \E p \in Readers \union Writers : Signal(p)
         \/ \E p \in Pollers : pipe_poll(p)
  PROVE  Ctl'
<1> USE DEF CtlTypes, Flags, Pcs, LockSleeps, Locked, Outside, ReaderPcs, At, Go, GiveWay, Continue
<1>0. CtlTypes /\ EndsInv
  BY DEF Ctl
<1>1. ASSUME NEW p \in Readers, pipe_read(p) PROVE Ctl'
  <2>1. p \in Procs /\ p # Closer
    BY Finite
  <2>2. Moves(p, "idle", "lk_read") /\ Follows("idle", "lk_read")
    BY <1>0, <1>1, <2>1 DEF pipe_read, Moves, Follows
  <2> QED BY <2>1, <2>2, Move
<1>2. ASSUME NEW p \in Writers, pipe_write(p) PROVE Ctl'
  <2>1. p \in Procs /\ p # Closer
    BY Finite
  <2>2. rend # "freed"
    BY <1>2 DEF pipe_write
  <2>3. PICK b \in {"lk_resize", "w_loop"} : pc' = [pc EXCEPT ![p] = b]
    BY <1>2 DEF pipe_write
  <2>4. Moves(p, "idle", b) /\ Follows("idle", b)
    BY <1>0, <1>2, <2>1, <2>2, <2>3 DEF pipe_write, Moves, Follows
  <2> QED BY <2>1, <2>4, Move
<1>3. ASSUME NEW p \in Readers \union Writers, Signal(p) PROVE Ctl'
  <2>1. p \in Procs /\ p # Closer
    BY Finite
  <2>2. /\ AfterSignal["lk_reread"] = "r_exit" /\ AfterSignal["piperd"] = "r_exit"
        /\ AfterSignal["lk_resize"] = "w_early" /\ AfterSignal["lk_write"] = "w_exit"
        /\ AfterSignal["pipewr"] = "w_exit"
        /\ DOMAIN AfterSignal = {"lk_reread", "piperd", "lk_resize", "lk_write", "pipewr"}
    BY DEF AfterSignal
  <2>3. PICK b : /\ pc' = [pc EXCEPT ![p] = b]
                 /\ \/ pc[p] \in {"lk_reread", "piperd"} /\ b = "r_exit"
                    \/ pc[p] = "lk_resize" /\ b = "w_early"
                    \/ pc[p] \in {"lk_write", "pipewr"} /\ b = "w_exit"
                    \/ pc[p] = "lk_read" /\ b = "idle"
    BY <1>3, <2>2 DEF Signal
  <2>4. rend # "freed"
    BY <1>0, <2>1, <2>3 DEF EndsInv
  <2>5. Moves(p, pc[p], b) /\ Follows(pc[p], b)
    BY <1>0, <1>3, <2>1, <2>3, <2>4 DEF Signal, Moves, Follows
  <2> QED BY <2>1, <2>5, Move
<1>4. ASSUME NEW p \in Pollers, pipe_poll(p) PROVE Ctl'
  <2>1. /\ pipe_state' = pipe_state \union {"SEL"}
        /\ UNCHANGED <<pipe_busy, rend, wend, curproc, pc, sleeping>>
    BY <1>4 DEF pipe_poll, ends
  <2> QED BY <2>1 DEF Ctl, Busy, LockInv, EndsInv
<1> QED BY <1>1, <1>2, <1>3, <1>4

LEMMA CloseCtl ==
  ASSUME Ctl, CloseRead \/ Pipecl \/ FreePipe \/ CloseWrite
  PROVE  Ctl'
<1> USE DEF CtlTypes, Flags, Pcs, LockSleeps, Locked, Outside, ReaderPcs, At, Go, GiveWay, Continue
<1>0. CtlTypes /\ EndsInv /\ LockInv /\ pipe_busy = Cardinality(Busy) /\ Closer \in Procs
  BY Finite DEF Ctl
<1>1. ASSUME pc' = [pc EXCEPT ![Closer] = pc'[Closer]], pc[Closer] \in {"idle", "pipecl"},
             pc'[Closer] \in {"idle", "pipecl"}, UNCHANGED pipe_busy,
             "LOCK" \in pipe_state' <=> "LOCK" \in pipe_state
      PROVE  /\ pc' \in [Procs -> Pcs] /\ pipe_busy' = Cardinality(Busy') /\ LockInv'
             /\ \A p \in Procs : p # Closer => pc'[p] = pc[p]
  <2>1. /\ pc' \in [Procs -> Pcs] /\ \A p \in Procs : p # Closer => pc'[p] = pc[p]
    BY <1>0, <1>1
  <2>2. Busy' = Busy
    BY <1>0, <1>1, <2>1 DEF Busy
  <2>3. LockInv'
    BY <1>0, <1>1, <2>1 DEF LockInv
  <2> QED BY <1>0, <1>1, <2>1, <2>2, <2>3
<1>2. CASE CloseRead
  <2>1. /\ pc' = [pc EXCEPT ![Closer] = "pipecl"] /\ curproc' = {Closer} /\ rend' = "closing"
        /\ pipe_state' = (pipe_state \union {"EOF"}) \ {"SEL"} /\ rend = "open"
        /\ sleeping' = sleeping /\ wend' = wend /\ pipe_busy' = pipe_busy
        /\ \A r \in Readers : pc[r] = "idle"
    BY <1>2 DEF CloseRead, Notify
  <2>2. pc[Closer] = "idle" /\ pc'[Closer] = "pipecl"
    BY <1>0, <2>1 DEF EndsInv
  <2>3. /\ pc' \in [Procs -> Pcs] /\ pipe_busy' = Cardinality(Busy') /\ LockInv'
        /\ \A p \in Procs : p # Closer => pc'[p] = pc[p]
    BY <1>1, <2>1, <2>2
  <2>4. CtlTypes'
    BY <1>0, <2>1, <2>3
  <2>5. EndsInv'
    BY <1>0, <2>1, <2>2, <2>3 DEF EndsInv
  <2> QED BY <2>3, <2>4, <2>5 DEF Ctl
<1>3. CASE Pipecl
  <2>1. /\ pc' = [pc EXCEPT ![Closer] = "pipecl"] /\ pc[Closer] = "pipecl" /\ curproc' = {}
        /\ pipe_state' = pipe_state \union {"WANT"} /\ rend' = rend /\ rend = "closing"
        /\ sleeping' = {Closer} /\ wend' = wend /\ pipe_busy' = pipe_busy
    BY <1>3 DEF Pipecl, ends
  <2>2. pc'[Closer] = "pipecl"
    BY <1>0, <2>1
  <2>3. /\ pc' \in [Procs -> Pcs] /\ pipe_busy' = Cardinality(Busy') /\ LockInv'
        /\ \A p \in Procs : p # Closer => pc'[p] = pc[p]
    BY <1>1, <2>1, <2>2
  <2>4. CtlTypes'
    BY <1>0, <2>1, <2>3
  <2>5. EndsInv'
    BY <1>0, <2>1, <2>2, <2>3 DEF EndsInv
  <2> QED BY <2>3, <2>4, <2>5 DEF Ctl
<1>4. CASE FreePipe
  <2>1. /\ pc' = [pc EXCEPT ![Closer] = "idle"] /\ pc[Closer] = "pipecl" /\ curproc' = {}
        /\ pipe_state' = pipe_state /\ rend' = "freed" /\ rend = "closing"
        /\ sleeping' = sleeping /\ wend' = wend /\ pipe_busy' = pipe_busy /\ pipe_busy = 0
    BY <1>4 DEF FreePipe, Leave, RunDown
  <2>2. pc'[Closer] = "idle"
    BY <1>0, <2>1
  <2>3. /\ pc' \in [Procs -> Pcs] /\ pipe_busy' = Cardinality(Busy') /\ LockInv'
        /\ \A p \in Procs : p # Closer => pc'[p] = pc[p]
    BY <1>1, <2>1, <2>2
  <2>4. CtlTypes'
    BY <1>0, <2>1, <2>3
  <2>5. Busy = {}
    <3>1. IsFiniteSet(Busy)
      BY Finite, FS_Subset DEF Busy
    <3> QED BY <1>0, <2>1, <3>1, FS_EmptySet
  <2>6. \A p \in Procs : pc[p] \in {"idle", "pipecl"}
    BY <1>0, <2>1, <2>5 DEF Busy, EndsInv
  <2>7. \A p \in Procs : pc'[p] = "idle"
    BY <1>0, <2>2, <2>3, <2>6 DEF EndsInv
  <2>8. EndsInv'
    BY <1>0, <2>1, <2>7 DEF EndsInv
  <2> QED BY <2>3, <2>4, <2>8 DEF Ctl
<1>5. CASE CloseWrite
  <2>1. /\ UNCHANGED <<pipe_busy, rend, curproc, pc>> /\ wend' = "freed"
        /\ \/ rend # "freed" /\ pipe_state' = (pipe_state \ {"SEL"}) \union {"EOF"} /\ sleeping' = {}
           \/ rend = "freed" /\ UNCHANGED <<pipe_state, sleeping>>
    BY <1>5 DEF CloseWrite
  <2>2. CtlTypes' /\ LockInv' /\ pipe_busy' = Cardinality(Busy')
    BY <1>0, <2>1 DEF LockInv, Busy
  <2>3. EndsInv'
    BY <1>0, <2>1 DEF EndsInv
  <2> QED BY <2>2, <2>3 DEF Ctl
<1> QED BY <1>2, <1>3, <1>4, <1>5

LEMMA CtlStep ==
  ASSUME Ctl, [Next]_vars
  PROVE  Ctl'
<1>1. ASSUME NEW p \in Readers, ReadStep(p) PROVE Ctl'
  BY <1>1, Finite, ReadCtl, LockCtl DEF ReadStep
<1>2. ASSUME NEW p \in Writers, WriteStep(p) PROVE Ctl'
  BY <1>2, Finite, WriteCtl, LockCtl DEF WriteStep
<1>3. CASE UNCHANGED vars
  BY <1>3 DEF vars, ends, Ctl, CtlTypes, Busy, LockInv, EndsInv
<1> QED BY <1>1, <1>2, <1>3, OtherCtl, CloseCtl DEF Next

LEMMA CtlInit == Init => Ctl
<1> SUFFICES ASSUME Init PROVE Ctl
  OBVIOUS
<1>1. /\ pc = [p \in Procs |-> "idle"] /\ pipe_state = {} /\ pipe_busy = 0 /\ curproc = {}
      /\ sleeping = {} /\ rend = "open" /\ wend = "open" /\ Closer \in Procs
  BY Finite DEF Init
<1>2. CtlTypes
  BY <1>1 DEF CtlTypes, Pcs
<1>3. Busy = {}
  BY <1>1 DEF Busy, Outside
<1>4. LockInv /\ EndsInv
  BY <1>1 DEF LockInv, Locked, EndsInv, ReaderPcs
<1> QED BY <1>1, <1>2, <1>3, <1>4, FS_EmptySet DEF Ctl

-----------------------------------------------------------------------------
(***************************************************************************)
(* The second layer: the buffer and the calls' sizes.                      *)
(***************************************************************************)

WriterPcs == {"lk_resize", "resize", "w_early", "w_loop", "lk_write", "w_locked",
              "w_copy", "w_exit", "pipewr"}
Resizing  == {"lk_resize", "resize", "w_early"}

\* Where in the buffer the character is that k others will be read before.
Place(k) == IF out + k < size THEN out + k ELSE out + k - size

DataTypes ==
  /\ size \in {PIPE_SIZE, BIG_PIPE_SIZE}
  /\ cnt \in 0 .. size /\ in \in 0 .. size - 1 /\ out \in 0 .. size - 1
  /\ buffer \in [0 .. size - 1 -> Bytes \union {NoByte}]
  /\ nbigpipe \in Nat /\ others \in BigPipes
  /\ resid \in [Procs -> Nat] /\ length \in [Procs -> Nat] /\ amount \in [Procs -> Nat]
  /\ writes \in [Writers -> 0 .. MaxWrites]
  /\ polling \in [Pollers -> {"no", "in", "out"}]
  /\ sent \in Seq(Bytes) /\ got \in Seq(Bytes)

\* What is in the pipe lies between out and in, and is what writers put there.
RingInv ==
  /\ in = Place(cnt)
  /\ \A k \in 0 .. cnt - 1 : buffer[Place(k)] \in Bytes

\* What a process is about to move is there, and there is room for it.  A
\* short write is still whole, or done.
UioInv(p) ==
  /\ resid[p] <= length[p]
  /\ pc[p] \in WriterPcs => length[p] \in WriteSizes
  /\ pc[p] = "r_copy" =>
       amount[p] \in 1 .. cnt /\ amount[p] <= size - out /\ amount[p] <= resid[p]
  /\ pc[p] \in {"lk_write", "w_locked"} => amount[p] > 0 /\ resid[p] > 0
  /\ pc[p] = "w_copy" => amount[p] \in 1 .. resid[p] /\ amount[p] <= size - cnt
  /\ pc[p] \in WriterPcs /\ length[p] <= PIPE_BUF =>
       /\ resid[p] \in {0, length[p]}
       /\ pc[p] \in {"lk_write", "w_locked"} => amount[p] >= length[p]
       /\ pc[p] = "w_copy" => amount[p] = length[p]

BigInv == nbigpipe = others + (IF rend # "freed" /\ size > PIPE_SIZE THEN 1 ELSE 0)

KeepInv == KeepsSize => size = PIPE_SIZE /\ \A p \in Procs : pc[p] \notin Resizing

Data ==
  /\ DataTypes /\ RingInv /\ BigInv /\ KeepInv
  /\ \A p \in Procs : UioInv(p)

LEMMA Sizes ==
  /\ PIPE_SIZE \in Nat /\ BIG_PIPE_SIZE \in Nat /\ PIPE_BUF \in Nat \ {0}
  /\ PIPE_SIZE >= 3 /\ PIPE_SIZE < BIG_PIPE_SIZE
  /\ MINPIPESIZE \in Nat \ {0} /\ PIPE_BUF + MINPIPESIZE <= PIPE_SIZE
  /\ WriteSizes \subseteq Nat \ {0} /\ ReadSizes \subseteq Nat \ {0}
  /\ LIMITBIGPIPES \in Nat /\ BigPipes \subseteq 0 .. LIMITBIGPIPES /\ MaxWrites \in Nat
BY SizesAssumption DEF MINPIPESIZE

\* Processes that do not move keep what they have, unless p, who has the
\* lock, changes the buffer: then nobody else copies.
LEMMA Others ==
  ASSUME NEW p, \A q \in Procs : UioInv(q),
         \A q \in Procs : q # p => /\ pc'[q] = pc[q] /\ resid'[q] = resid[q]
                                   /\ length'[q] = length[q] /\ amount'[q] = amount[q],
         \/ UNCHANGED <<cnt, out, size>>
         \/ \A q \in Procs : q # p => pc[q] \notin {"r_copy", "w_copy"}
  PROVE  \A q \in Procs : q # p => UioInv(q)'
BY DEF UioInv

\* A step of p that leaves the data alone.
LEMMA Still ==
  ASSUME Data, pc \in [Procs -> Pcs], NEW p \in Procs, NEW b, pc' = [pc EXCEPT ![p] = b],
         UNCHANGED <<cnt, in, out, size, buffer, nbigpipe, resid, length, amount, writes,
                     others, sent, got>>,
         polling' \in [Pollers -> {"no", "in", "out"}],
         rend = "freed" <=> rend' = "freed",
         b \in WriterPcs => pc[p] \in WriterPcs,
         b \in {"r_copy", "w_copy"} => b = pc[p],
         b \in {"lk_write", "w_locked"} => pc[p] \in {"lk_write", "w_locked"},
         b \in Resizing => pc[p] \in Resizing
  PROVE  Data'
<1>1. pc'[p] = b /\ \A q \in Procs : q # p => pc'[q] = pc[q]
  OBVIOUS
<1>2. DataTypes' /\ RingInv' /\ BigInv'
  BY DEF Data, DataTypes, RingInv, Place, BigInv
<1>3. KeepInv'
  BY <1>1 DEF Data, KeepInv, KeepsSize
<1>4. \A q \in Procs : q # p => UioInv(q)'
  BY <1>1, Others DEF Data
<1>5. UioInv(p)'
  BY <1>1 DEF Data, UioInv
<1> QED BY <1>2, <1>3, <1>4, <1>5 DEF Data

\* The call is over.
LEMMA Left ==
  ASSUME Data, pc \in [Procs -> Pcs], NEW p \in Procs, Leave(p),
         UNCHANGED <<cnt, in, out, size, buffer, writes, others, sent, got>>,
         polling' \in [Pollers -> {"no", "in", "out"}], BigInv', nbigpipe' \in Nat
  PROVE  Data'
<1>0. /\ pc' = [pc EXCEPT ![p] = "idle"] /\ resid' = [resid EXCEPT ![p] = 0]
      /\ length' = [length EXCEPT ![p] = 0] /\ amount' = [amount EXCEPT ![p] = 0]
  BY DEF Leave, GiveWay, Go
<1>1. /\ pc'[p] = "idle" /\ resid'[p] = 0 /\ length'[p] = 0 /\ amount'[p] = 0
      /\ \A q \in Procs : q # p => /\ pc'[q] = pc[q] /\ resid'[q] = resid[q]
                                   /\ length'[q] = length[q] /\ amount'[q] = amount[q]
      /\ resid' \in [Procs -> Nat] /\ length' \in [Procs -> Nat] /\ amount' \in [Procs -> Nat]
  BY <1>0 DEF Data, DataTypes
<1>2. DataTypes' /\ RingInv'
  BY <1>1 DEF Data, DataTypes, RingInv, Place
<1>3. KeepInv'
  BY <1>1 DEF Data, KeepInv, KeepsSize, Resizing
<1>4. \A q \in Procs : q # p => UioInv(q)'
  BY <1>1, Others DEF Data
<1>5. UioInv(p)'
  BY <1>1 DEF UioInv, WriterPcs
<1> QED BY <1>2, <1>3, <1>4, <1>5 DEF Data

\* The steps that move no data, and the ends of calls.
LEMMA QuietData ==
  ASSUME Ctl, Data, NEW p \in Procs,
         \/ pipelock(p) \/ ReadDone(p) \/ ReadUnlock(p) \/ ReadWait(p) \/ ReadWoken(p)
         \/ ReadExit(p) \/ WriteEarly(p) \/ WriteDone(p) \/ WriteWait(p) \/ WriteWoken(p)
         \/ WriteExit(p) \/ Signal(p)
  PROVE  Data'
<1> USE DEF WriterPcs, Resizing, At, Go, GiveWay, Continue, Notify, pipeunlock, buf, ends, uio, hist
<1>0. /\ pc \in [Procs -> Pcs] /\ polling \in [Pollers -> {"no", "in", "out"}]
      /\ [q \in Pollers |-> "no"] \in [Pollers -> {"no", "in", "out"}]
  BY DEF Ctl, CtlTypes, Data, DataTypes
<1>1. CASE pipelock(p)
  <2>1. /\ AfterLock["lk_read"] = "r_loop" /\ AfterLock["lk_reread"] = "r_loop"
        /\ AfterLock["lk_resize"] = "resize" /\ AfterLock["lk_write"] = "w_locked"
    BY DEF AfterLock
  <2>2. PICK b : /\ pc' = [pc EXCEPT ![p] = b]
                 /\ \/ b = pc[p]
                    \/ pc[p] \in {"lk_read", "lk_reread"} /\ b = "r_loop"
                    \/ pc[p] = "lk_resize" /\ b = "resize"
                    \/ pc[p] = "lk_write" /\ b = "w_locked"
    BY <1>1, <2>1 DEF pipelock, LockSleeps
  <2>3. UNCHANGED <<buf, nbigpipe, ends, uio, writes, polling, hist>>
    BY <1>1 DEF pipelock
  <2> QED BY <1>0, <2>2, <2>3, Still
<1>2. CASE ReadDone(p)
  <2>1. pc[p] = "r_loop" /\ pc' = [pc EXCEPT ![p] = "r_unlock"]
        /\ UNCHANGED <<buf, nbigpipe, ends, uio, writes, polling, hist>>
    BY <1>2 DEF ReadDone
  <2> QED BY <1>0, <2>1, Still
<1>3. CASE ReadUnlock(p)
  <2>1. pc[p] = "r_unlock" /\ pc' = [pc EXCEPT ![p] = "r_exit"]
        /\ UNCHANGED <<buf, nbigpipe, ends, uio, writes, polling, hist>>
    BY <1>3 DEF ReadUnlock
  <2> QED BY <1>0, <2>1, Still
<1>4. CASE ReadWait(p)
  <2>1. PICK b \in {"r_exit", "piperd"} : pc[p] = "r_loop" /\ pc' = [pc EXCEPT ![p] = b]
    BY <1>4 DEF ReadWait
  <2>2. UNCHANGED <<buf, nbigpipe, ends, uio, writes, polling, hist>>
    BY <1>4 DEF ReadWait
  <2> QED BY <1>0, <2>1, <2>2, Still
<1>5. CASE ReadWoken(p)
  <2>1. pc[p] = "piperd" /\ pc' = [pc EXCEPT ![p] = "lk_reread"]
        /\ UNCHANGED <<buf, nbigpipe, ends, uio, writes, polling, hist>>
    BY <1>5 DEF ReadWoken
  <2> QED BY <1>0, <2>1, Still
<1>6. CASE ReadExit(p) \/ WriteEarly(p) \/ WriteExit(p)
  <2>1. Leave(p) /\ UNCHANGED <<buf, nbigpipe, ends, writes, hist>>
    BY <1>6 DEF ReadExit, WriteEarly, WriteExit
  <2>2. polling' \in [Pollers -> {"no", "in", "out"}]
    BY <1>0, <1>6 DEF ReadExit, WriteEarly, WriteExit
  <2>3. BigInv' /\ nbigpipe' \in Nat
    BY <2>1 DEF Data, DataTypes, BigInv
  <2> QED BY <1>0, <2>1, <2>2, <2>3, Left
<1>7. CASE WriteDone(p)
  <2>1. pc[p] = "w_loop" /\ pc' = [pc EXCEPT ![p] = "w_exit"]
        /\ UNCHANGED <<buf, nbigpipe, ends, uio, writes, polling, hist>>
    BY <1>7 DEF WriteDone
  <2> QED BY <1>0, <2>1, Still
<1>8. CASE WriteWait(p)
  <2>1. PICK b \in {"w_exit", "pipewr"} : pc[p] = "w_loop" /\ pc' = [pc EXCEPT ![p] = b]
    BY <1>8 DEF WriteWait
  <2>2. UNCHANGED <<buf, nbigpipe, ends, uio, writes, hist>>
    BY <1>8 DEF WriteWait
  <2>3. polling' \in [Pollers -> {"no", "in", "out"}]
    BY <1>0, <1>8 DEF WriteWait
  <2> QED BY <1>0, <2>1, <2>2, <2>3, Still
<1>9. CASE WriteWoken(p)
  <2>1. PICK b \in {"w_exit", "w_loop"} : pc[p] = "pipewr" /\ pc' = [pc EXCEPT ![p] = b]
    BY <1>9 DEF WriteWoken
  <2>2. UNCHANGED <<buf, nbigpipe, ends, uio, writes, polling, hist>>
    BY <1>9 DEF WriteWoken
  <2> QED BY <1>0, <2>1, <2>2, Still
<1>10. CASE Signal(p)
  <2>1. /\ AfterSignal["lk_reread"] = "r_exit" /\ AfterSignal["piperd"] = "r_exit"
        /\ AfterSignal["lk_resize"] = "w_early" /\ AfterSignal["lk_write"] = "w_exit"
        /\ AfterSignal["pipewr"] = "w_exit"
        /\ DOMAIN AfterSignal = {"lk_reread", "piperd", "lk_resize", "lk_write", "pipewr"}
    BY DEF AfterSignal
  <2>2. UNCHANGED <<buf, nbigpipe, ends, writes, polling, hist>>
    BY <1>10 DEF Signal
  <2>3. CASE pc[p] = "lk_read"
    <3>1. /\ pc' = [pc EXCEPT ![p] = "idle"] /\ resid' = [resid EXCEPT ![p] = 0]
          /\ length' = [length EXCEPT ![p] = 0] /\ amount' = [amount EXCEPT ![p] = 0]
      BY <1>10, <2>1, <2>3 DEF Signal
    <3>2. /\ pc'[p] = "idle" /\ resid'[p] = 0 /\ length'[p] = 0 /\ amount'[p] = 0
          /\ \A q \in Procs : q # p => /\ pc'[q] = pc[q] /\ resid'[q] = resid[q]
                                       /\ length'[q] = length[q] /\ amount'[q] = amount[q]
          /\ resid' \in [Procs -> Nat] /\ length' \in [Procs -> Nat] /\ amount' \in [Procs -> Nat]
      BY <1>0, <3>1 DEF Data, DataTypes
    <3>3. DataTypes' /\ RingInv' /\ BigInv'
      BY <2>2, <3>2 DEF Data, DataTypes, RingInv, Place, BigInv
    <3>4. KeepInv'
      BY <2>2, <3>2 DEF Data, KeepInv, KeepsSize
    <3>5. \A q \in Procs : q # p => UioInv(q)'
      BY <2>2, <3>2, Others DEF Data
    <3>6. UioInv(p)'
      BY <3>2 DEF UioInv
    <3> QED BY <3>3, <3>4, <3>5, <3>6 DEF Data
  <2>4. CASE pc[p] # "lk_read"
    <3>1. PICK b : /\ pc' = [pc EXCEPT ![p] = b]
                   /\ \/ pc[p] \in {"lk_reread", "piperd"} /\ b = "r_exit"
                      \/ pc[p] = "lk_resize" /\ b = "w_early"
                      \/ pc[p] \in {"lk_write", "pipewr"} /\ b = "w_exit"
      BY <1>10, <2>1, <2>4 DEF Signal
    <3>2. UNCHANGED uio
      BY <1>10, <2>4 DEF Signal
    <3> QED BY <1>0, <2>2, <3>1, <3>2, Still
  <2> QED BY <2>3, <2>4
<1> QED BY <1>1, <1>2, <1>3, <1>4, <1>5, <1>6, <1>7, <1>8, <1>9, <1>10

\* Polling and closing.
LEMMA CloseData ==
  ASSUME Ctl, Data, (\E p \in Pollers : pipe_poll(p)) \/ CloseRead \/ Pipecl \/ FreePipe \/ CloseWrite
  PROVE  Data'
<1> USE DEF WriterPcs, Resizing, At, Go, GiveWay, Continue, Notify, buf, ends, uio, hist
<1>0. /\ pc \in [Procs -> Pcs] /\ polling \in [Pollers -> {"no", "in", "out"}]
      /\ [q \in Pollers |-> "no"] \in [Pollers -> {"no", "in", "out"}] /\ Closer \in Procs
  BY Finite DEF Ctl, CtlTypes, Data, DataTypes
<1>1. ASSUME NEW p \in Pollers, pipe_poll(p) PROVE Data'
  <2>1. pc' = [pc EXCEPT ![Closer] = pc[Closer]] /\ UNCHANGED <<buf, nbigpipe, ends, uio, writes, hist>>
    BY <1>0, <1>1 DEF pipe_poll
  <2>2. polling' \in [Pollers -> {"no", "in", "out"}]
    BY <1>0, <1>1 DEF pipe_poll
  <2> QED BY <1>0, <2>1, <2>2, Still
<1>2. CASE CloseRead
  <2>1. /\ pc' = [pc EXCEPT ![Closer] = "pipecl"] /\ rend' = "closing" /\ rend = "open"
        /\ UNCHANGED <<buf, nbigpipe, uio, writes, hist>>
    BY <1>2 DEF CloseRead
  <2>2. polling' \in [Pollers -> {"no", "in", "out"}]
    BY <1>0, <1>2 DEF CloseRead
  <2> QED BY <1>0, <2>1, <2>2, Still
<1>3. CASE Pipecl
  <2>1. /\ pc' = [pc EXCEPT ![Closer] = "pipecl"]
        /\ UNCHANGED <<buf, nbigpipe, ends, uio, writes, polling, hist>>
    BY <1>3 DEF Pipecl
  <2> QED BY <1>0, <2>1, Still
<1>4. CASE FreePipe
  <2>1. /\ Leave(Closer) /\ UNCHANGED <<buf, writes, polling, hist>>
        /\ rend = "closing" /\ rend' = "freed" /\ nbigpipe' = nbigpipeFreed
    BY <1>4 DEF FreePipe
  <2>2. nbigpipe = others + (IF size > PIPE_SIZE THEN 1 ELSE 0) /\ others \in Nat /\ nbigpipe \in Nat
    BY <2>1, Sizes DEF Data, DataTypes, BigInv
  <2>3. BigInv' /\ nbigpipe' \in Nat
    BY <2>1, <2>2 DEF BigInv, nbigpipeFreed
  <2> QED BY <1>0, <2>1, <2>3, Left
<1>5. CASE CloseWrite
  <2>1. /\ pc' = [pc EXCEPT ![Closer] = pc[Closer]]
        /\ UNCHANGED <<buf, nbigpipe, rend, uio, writes, hist>>
    BY <1>0, <1>5 DEF CloseWrite
  <2>2. polling' \in [Pollers -> {"no", "in", "out"}]
    BY <1>0, <1>5 DEF CloseWrite
  <2> QED BY <1>0, <2>1, <2>2, Still
<1> QED BY <1>1, <1>2, <1>3, <1>4, <1>5

LEMMA Least ==
  ASSUME NEW a \in Nat, NEW b \in Nat, NEW c \in Nat
  PROVE  /\ Min({a, b, c}) \in {a, b, c}
         /\ Min({a, b, c}) <= a /\ Min({a, b, c}) <= b /\ Min({a, b, c}) <= c
         /\ Min({a, b}) \in {a, b} /\ Min({a, b}) <= a /\ Min({a, b}) <= b
<1>1. \E x \in {a, b, c} : \A y \in {a, b, c} : x <= y
  OBVIOUS
<1>2. Min({a, b, c}) \in {a, b, c} /\ \A y \in {a, b, c} : Min({a, b, c}) <= y
  BY <1>1 DEF Min
<1>3. \E x \in {a, b} : \A y \in {a, b} : x <= y
  OBVIOUS
<1>4. Min({a, b}) \in {a, b} /\ \A y \in {a, b} : Min({a, b}) <= y
  BY <1>3 DEF Min
<1> QED BY <1>2, <1>4

\* A step of p that changes only what its call is about.
LEMMA Changed ==
  ASSUME Data, NEW p \in Procs, NEW b,
         pc' = [pc EXCEPT ![p] = b], pc \in [Procs -> Pcs],
         resid' \in [Procs -> Nat], length' \in [Procs -> Nat], amount' \in [Procs -> Nat],
         \A q \in Procs : q # p =>
           resid'[q] = resid[q] /\ length'[q] = length[q] /\ amount'[q] = amount[q],
         writes' \in [Writers -> 0 .. MaxWrites],
         polling' \in [Pollers -> {"no", "in", "out"}],
         UNCHANGED <<cnt, in, out, size, buffer, nbigpipe, rend, others, sent, got>>,
         b \in Resizing => ~KeepsSize,
         pc'[p] = b => UioInv(p)'
  PROVE  Data'
<1>1. pc'[p] = b /\ \A q \in Procs : q # p => pc'[q] = pc[q]
  OBVIOUS
<1>2. DataTypes' /\ RingInv' /\ BigInv'
  BY DEF Data, DataTypes, RingInv, Place, BigInv
<1>3. KeepInv'
  BY <1>1 DEF Data, KeepInv, KeepsSize
<1>4. \A q \in Procs : q # p => UioInv(q)'
  BY <1>1, Others DEF Data
<1> QED BY <1>1, <1>2, <1>3, <1>4 DEF Data

LEMMA StartData ==
  ASSUME Ctl, Data, NEW p \in Procs,
         \/ pipe_read(p) \/ (p \in Writers /\ pipe_write(p)) \/ ReadStart(p) \/ WriteSome(p)
         \/ WriteStart(p)
  PROVE  Data'
<1> USE DEF WriterPcs, Resizing, At, Go, GiveWay, Continue, Notify, pipeunlock, buf, ends, uio, hist
<1>0. /\ pc \in [Procs -> Pcs] /\ polling \in [Pollers -> {"no", "in", "out"}]
      /\ [q \in Pollers |-> "no"] \in [Pollers -> {"no", "in", "out"}]
      /\ writes \in [Writers -> 0 .. MaxWrites]
      /\ resid \in [Procs -> Nat] /\ length \in [Procs -> Nat] /\ amount \in [Procs -> Nat]
  BY DEF Ctl, CtlTypes, Data, DataTypes
<1>00. /\ cnt \in 0 .. size /\ out \in 0 .. size - 1 /\ size \in Nat /\ UioInv(p)
  BY Sizes DEF Data, DataTypes
<1>1. CASE pipe_read(p)
  <2>1. PICK n \in ReadSizes : /\ resid' = [resid EXCEPT ![p] = n] /\ length' = [length EXCEPT ![p] = n]
    BY <1>1 DEF pipe_read
  <2>2. /\ pc' = [pc EXCEPT ![p] = "lk_read"]
        /\ UNCHANGED <<buf, nbigpipe, ends, amount, writes, polling, hist>>
    BY <1>1 DEF pipe_read
  <2>3. n \in Nat
    BY Sizes
  <2>4. /\ resid' \in [Procs -> Nat] /\ length' \in [Procs -> Nat] /\ amount' \in [Procs -> Nat]
        /\ resid'[p] = n /\ length'[p] = n
        /\ \A q \in Procs : q # p =>
             resid'[q] = resid[q] /\ length'[q] = length[q] /\ amount'[q] = amount[q]
    BY <1>0, <2>1, <2>2, <2>3
  <2>5. pc'[p] = "lk_read" => UioInv(p)'
    BY <2>3, <2>4 DEF UioInv
  <2> QED BY <1>0, <2>2, <2>4, <2>5, Changed
<1>2. CASE p \in Writers /\ pipe_write(p)
  <2>1. PICK n \in WriteSizes :
          /\ resid' = [resid EXCEPT ![p] = n] /\ length' = [length EXCEPT ![p] = n]
          /\ pc' = [pc EXCEPT ![p] = IF WorthResizing(n) THEN "lk_resize" ELSE "w_loop"]
    BY <1>2 DEF pipe_write
  <2> DEFINE b == IF WorthResizing(n) THEN "lk_resize" ELSE "w_loop"
  <2>2. /\ UNCHANGED <<buf, nbigpipe, ends, amount, polling, hist>>
        /\ writes' = [writes EXCEPT ![p] = @ + 1] /\ writes[p] < MaxWrites
    BY <1>2 DEF pipe_write
  <2>3. n \in Nat \ {0}
    BY Sizes
  <2>4. /\ resid' \in [Procs -> Nat] /\ length' \in [Procs -> Nat] /\ amount' \in [Procs -> Nat]
        /\ resid'[p] = n /\ length'[p] = n
        /\ \A q \in Procs : q # p =>
             resid'[q] = resid[q] /\ length'[q] = length[q] /\ amount'[q] = amount[q]
    BY <1>0, <2>1, <2>2, <2>3
  <2>5. writes' \in [Writers -> 0 .. MaxWrites]
    BY <1>0, <1>2, <2>2, Sizes
  <2>6. b \in Resizing => ~KeepsSize
    <3>1. nbigpipe \in Nat /\ others \in Nat /\ nbigpipe >= others
      BY Sizes DEF Data, DataTypes, BigInv
    <3> QED BY <3>1, Sizes DEF WorthResizing, KeepsSize
  <2>7. b \in {"lk_resize", "w_loop"} /\ (pc'[p] = b => UioInv(p)')
    BY <2>3, <2>4 DEF UioInv
  <2>8. pc' = [pc EXCEPT ![p] = b]
    BY <2>1
  <2> HIDE DEF b
  <2> QED BY <1>0, <2>2, <2>4, <2>5, <2>6, <2>7, <2>8, Changed
<1>3. CASE ReadStart(p)
  <2> DEFINE n == Min({size - out, cnt, resid[p]})
  <2>1. /\ pc' = [pc EXCEPT ![p] = "r_copy"] /\ amount' = [amount EXCEPT ![p] = n]
        /\ resid[p] > 0 /\ cnt > 0
        /\ UNCHANGED <<buf, nbigpipe, ends, resid, length, writes, polling, hist>>
    BY <1>3 DEF ReadStart
  <2>2. size - out \in Nat /\ size - out > 0 /\ cnt \in Nat /\ resid[p] \in Nat
    BY <1>0, <1>00
  <2>3. n \in {size - out, cnt, resid[p]} /\ n <= size - out /\ n <= cnt /\ n <= resid[p]
    BY <2>2, Least
  <2> HIDE DEF n
  <2>4. n \in 1 .. cnt /\ n \in Nat
    BY <2>1, <2>2, <2>3
  <2>5. /\ resid' \in [Procs -> Nat] /\ length' \in [Procs -> Nat] /\ amount' \in [Procs -> Nat]
        /\ amount'[p] = n
        /\ \A q \in Procs : q # p =>
             resid'[q] = resid[q] /\ length'[q] = length[q] /\ amount'[q] = amount[q]
    BY <1>0, <2>1, <2>4
  <2>6. pc'[p] = "r_copy" => UioInv(p)'
    BY <1>00, <2>1, <2>3, <2>4, <2>5 DEF UioInv
  <2> QED BY <1>0, <2>1, <2>5, <2>6, Changed
<1>4. CASE WriteSome(p)
  <2> DEFINE n == Space(p)
  <2>1. /\ pc[p] = "w_loop"
        /\ pc' = [pc EXCEPT ![p] = "lk_write"] /\ amount' = [amount EXCEPT ![p] = n]
        /\ resid[p] > 0 /\ n > 0
        /\ UNCHANGED <<buf, nbigpipe, ends, resid, length, writes, polling, hist>>
    BY <1>4 DEF WriteSome
  <2>2. n \in Nat /\ (length[p] <= PIPE_BUF => n >= resid[p])
    BY <1>0, <1>00, <2>1, Sizes DEF Space
  <2> HIDE DEF n
  <2>5. /\ resid' \in [Procs -> Nat] /\ length' \in [Procs -> Nat] /\ amount' \in [Procs -> Nat]
        /\ amount'[p] = n
        /\ \A q \in Procs : q # p =>
             resid'[q] = resid[q] /\ length'[q] = length[q] /\ amount'[q] = amount[q]
    BY <1>0, <2>1, <2>2
  <2>6. pc'[p] = "lk_write" => UioInv(p)'
    BY <1>0, <1>00, <2>1, <2>2, <2>5 DEF UioInv
  <2> QED BY <1>0, <2>1, <2>5, <2>6, Changed
<1>5. CASE WriteStart(p)
  <2>1. /\ pc[p] = "w_locked" /\ UNCHANGED <<buf, nbigpipe, ends, resid, length, writes, polling, hist>>
    BY <1>5 DEF WriteStart
  <2>2. CASE Stale(p)
    <3>1. /\ pc' = [pc EXCEPT ![p] = "w_loop"] /\ amount' = [amount EXCEPT ![p] = 0]
      BY <1>5, <2>2 DEF WriteStart
    <3>2. /\ amount' \in [Procs -> Nat] /\ \A q \in Procs : q # p => amount'[q] = amount[q]
      BY <1>0, <3>1
    <3>3. pc'[p] = "w_loop" => UioInv(p)'
      BY <1>00, <2>1 DEF UioInv
    <3> QED BY <1>0, <2>1, <3>1, <3>2, <3>3, Changed
  <2>3. CASE ~Stale(p)
    <3> DEFINE n == Min({amount[p], resid[p]})
    <3>1. /\ pc' = [pc EXCEPT ![p] = "w_copy"] /\ amount' = [amount EXCEPT ![p] = n]
          /\ ~(amount[p] > size - cnt)
      BY <1>5, <2>3 DEF WriteStart, Stale
    <3>2. amount[p] \in Nat /\ resid[p] \in Nat
      BY <1>0
    <3>3. n \in {amount[p], resid[p]} /\ n <= amount[p] /\ n <= resid[p]
      BY <3>2, Least
    <3> HIDE DEF n
    <3>4. n \in 1 .. resid[p] /\ n <= size - cnt
      BY <1>00, <2>1, <3>1, <3>2, <3>3 DEF UioInv
    <3>5. /\ amount' \in [Procs -> Nat] /\ amount'[p] = n
          /\ \A q \in Procs : q # p => amount'[q] = amount[q]
      BY <1>0, <3>1, <3>4
    <3>6. length[p] <= PIPE_BUF => n = length[p]
      BY <1>0, <1>00, <2>1, <3>2, <3>3 DEF UioInv
    <3>7. pc'[p] = "w_copy" => UioInv(p)'
      BY <1>00, <2>1, <3>4, <3>5, <3>6 DEF UioInv
    <3> QED BY <1>0, <2>1, <3>1, <3>5, <3>7, Changed
  <2> QED BY <2>2, <2>3
<1> QED BY <1>1, <1>2, <1>3, <1>4, <1>5

\* Characters are taken from the front of the ring.
LEMMA ReadRing ==
  ASSUME DataTypes, RingInv, NEW n \in 1 .. cnt, n <= size - out, Pointers(n),
         UNCHANGED <<size, buffer>>
  PROVE  /\ cnt' = cnt - n /\ cnt' \in 0 .. size' /\ in' \in 0 .. size' - 1 /\ out' \in 0 .. size' - 1
         /\ \A k \in 0 .. cnt - n - 1 : Place(k)' = Place(k + n)
         /\ \A i \in 1 .. n : Place(i - 1) = out + i - 1
         /\ RingInv'
<1>1. /\ size \in Nat /\ size > 0 /\ cnt \in Nat /\ cnt <= size /\ in \in 0 .. size - 1
      /\ out \in 0 .. size - 1 /\ n \in Nat
  BY Sizes DEF DataTypes
<1>2. /\ cnt' = cnt - n /\ size' = size
      /\ cnt = n => out' = 0 /\ in' = 0
      /\ cnt # n => in' = in /\ out' = IF out + n >= size THEN 0 ELSE out + n
  BY DEF Pointers
<1>3. /\ cnt' \in 0 .. size' /\ in' \in 0 .. size' - 1 /\ out' \in 0 .. size' - 1
  BY <1>1, <1>2
<1>4. ASSUME NEW k \in 0 .. cnt - n, cnt # n PROVE Place(k)' = Place(k + n)
  BY <1>1, <1>2, <1>4 DEF Place
<1>5. \A i \in 1 .. n : Place(i - 1) = out + i - 1
  BY <1>1 DEF Place
<1>6. in' = Place(cnt)'
  <2>1. CASE cnt = n
    BY <1>1, <1>2, <2>1 DEF Place
  <2>2. CASE cnt # n
    <3>1. in = Place(cnt) /\ cnt - n \in 0 .. cnt - n /\ (cnt - n) + n = cnt
      BY <1>1 DEF RingInv
    <3>2. \A k \in 0 .. cnt - n : Place(k)' = Place(k + n)
      BY <1>4, <2>2
    <3>3. Place(cnt)' = IF out' + cnt' < size' THEN out' + cnt' ELSE out' + cnt' - size'
      BY DEF Place
    <3> QED BY <1>1, <1>2, <2>2, <3>1, <3>3 DEF Place
  <2> QED BY <2>1, <2>2
<1>7. \A k \in 0 .. cnt - n - 1 : Place(k)' = Place(k + n)
  <2>1. CASE cnt = n
    BY <1>1, <2>1
  <2>2. CASE cnt # n
    BY <1>1, <1>4, <2>2
  <2> QED BY <2>1, <2>2
<1>8. \A k \in 0 .. cnt' - 1 : buffer'[Place(k)'] \in Bytes
  <2>1. \A k \in 0 .. cnt - n - 1 : k + n \in 0 .. cnt - 1
    BY <1>1
  <2> QED BY <1>2, <1>7, <2>1 DEF RingInv
<1> QED BY <1>2, <1>3, <1>5, <1>6, <1>7, <1>8 DEF RingInv

\* Places on a ring of s, of which c are taken from o on: counted from the
\* first free one, i, the free ones come first.
OnRing(o, s, k) == IF o + k < s THEN o + k ELSE o + k - s
From(i, s, j)   == IF j >= i THEN j - i + 1 ELSE j + s - i + 1

LEMMA Around ==
  ASSUME NEW s \in Nat, NEW o \in 0 .. s - 1, NEW c \in 0 .. s, NEW n \in Nat, n > 0, n <= s - c,
         NEW i \in Nat, i = OnRing(o, s, c)
  PROVE  /\ \A k \in 0 .. c - 1 :
              OnRing(o, s, k) \in 0 .. s - 1 /\ From(i, s, OnRing(o, s, k)) = s - c + k + 1
         /\ \A k \in 1 .. n :
              OnRing(o, s, c + k - 1) \in 0 .. s - 1 /\ From(i, s, OnRing(o, s, c + k - 1)) = k
         /\ (IF i + n >= s THEN i + n - s ELSE i + n) = OnRing(o, s, c + n)
BY DEF OnRing, From

\* Characters are added at the back of it.
LEMMA WriteRing ==
  ASSUME DataTypes, RingInv, NEW n \in Nat, n > 0, n <= size - cnt, NEW b \in [1 .. n -> Bytes],
         \A i \in 0 .. size - 1 :
           LET place == IF i >= in THEN i - in + 1 ELSE i + size - in + 1
           IN buffer'[i] = IF place <= n THEN b[place] ELSE buffer[i],
         buffer' = [i \in 0 .. size - 1 |-> buffer'[i]],
         in' = InAfter(n), cnt' = cnt + n, UNCHANGED <<out, size>>
  PROVE  /\ cnt' \in 0 .. size' /\ in' \in 0 .. size' - 1
         /\ buffer' \in [0 .. size' - 1 -> Bytes \union {NoByte}]
         /\ \A k \in 0 .. cnt - 1 : buffer'[Place(k)] = buffer[Place(k)]
         /\ \A k \in 1 .. n : buffer'[Place(cnt + k - 1)] = b[k]
         /\ RingInv'
<1>1. /\ size \in Nat /\ size > 0 /\ cnt \in Nat /\ cnt <= size /\ in \in 0 .. size - 1
      /\ out \in 0 .. size - 1 /\ in = Place(cnt)
  BY Sizes DEF DataTypes, RingInv
<1> DEFINE place(i) == From(in, size, i)
<1>2. \A i \in 0 .. size - 1 : buffer'[i] = IF place(i) <= n THEN b[place(i)] ELSE buffer[i]
  BY DEF From
<1>3. cnt \in 0 .. size /\ in \in Nat /\ \A k : Place(k) = OnRing(out, size, k)
  BY <1>1 DEF Place, OnRing
<1>4. /\ \A k \in 0 .. cnt - 1 : Place(k) \in 0 .. size - 1 /\ place(Place(k)) = size - cnt + k + 1
      /\ \A k \in 1 .. n : Place(cnt + k - 1) \in 0 .. size - 1 /\ place(Place(cnt + k - 1)) = k
      /\ InAfter(n) = Place(cnt + n)
  BY <1>1, <1>3, Around DEF InAfter
<1>5. \A i \in 0 .. size - 1 : place(i) \in Nat /\ place(i) >= 1
  BY <1>1 DEF From
<1> HIDE DEF place
<1>6. \A k \in 0 .. cnt - 1 : buffer'[Place(k)] = buffer[Place(k)]
  <2> TAKE k \in 0 .. cnt - 1
  <2>1. ~(place(Place(k)) <= n)
    BY <1>1, <1>4
  <2> QED BY <1>2, <1>4, <2>1
<1>7. \A k \in 1 .. n : buffer'[Place(cnt + k - 1)] = b[k]
  <2> TAKE k \in 1 .. n
  <2>1. place(Place(cnt + k - 1)) <= n
    BY <1>4
  <2> QED BY <1>2, <1>4, <2>1
<1>8. \A i \in 0 .. size - 1 : buffer'[i] \in Bytes \union {NoByte}
  <2> TAKE i \in 0 .. size - 1
  <2>1. place(i) <= n => place(i) \in 1 .. n
    BY <1>5
  <2>2. buffer[i] \in Bytes \union {NoByte}
    BY DEF DataTypes
  <2> QED BY <1>2, <2>1, <2>2
<1>9. cnt' \in 0 .. size' /\ in' \in 0 .. size' - 1
  BY <1>1 DEF InAfter
<1>10. in' = Place(cnt)'
  <2>1. Place(cnt)' = Place(cnt + n)
    BY DEF Place
  <2> QED BY <1>4, <2>1
<1>11. \A k \in 0 .. cnt' - 1 : buffer'[Place(k)'] \in Bytes
  <2> TAKE k \in 0 .. cnt' - 1
  <2>1. Place(k)' = Place(k)
    BY DEF Place
  <2>2. CASE k < cnt
    <3>1. k \in 0 .. cnt - 1
      BY <1>1, <2>2
    <3> QED BY <1>6, <2>1, <3>1 DEF RingInv
  <2>3. CASE ~(k < cnt)
    <3>1. k - cnt + 1 \in 1 .. n /\ cnt + (k - cnt + 1) - 1 = k
      BY <1>1, <2>3
    <3>2. buffer'[Place(cnt + (k - cnt + 1) - 1)] = b[k - cnt + 1]
      BY <1>7, <3>1
    <3> QED BY <2>1, <3>1, <3>2
  <2> QED BY <2>2, <2>3
<1>12. buffer' \in [0 .. size' - 1 -> Bytes \union {NoByte}]
  BY <1>8
<1> QED BY <1>6, <1>7, <1>9, <1>10, <1>11, <1>12 DEF RingInv

LEMMA AsSeq ==
  ASSUME NEW S, NEW n \in Nat, NEW f \in [1 .. n -> S]
  PROVE  f \in Seq(S) /\ Len(f) = n /\ DOMAIN f = 1 .. n
<1>1. f \in Seq(S)
  BY SeqDef
<1> QED BY <1>1, LenProperties

\* The holder of the lock changes the buffer: nobody else is copying.
LEMMA Moved ==
  ASSUME Ctl, Data, NEW p \in Procs, NEW b, pc[p] \in Locked, pc' = [pc EXCEPT ![p] = b],
         b \notin Resizing,
         \A q \in Procs : q # p =>
           resid'[q] = resid[q] /\ length'[q] = length[q] /\ amount'[q] = amount[q],
         DataTypes', RingInv', BigInv', others' = others, KeepsSize => size' = size,
         pc'[p] = b => UioInv(p)'
  PROVE  Data'
<1>1. pc'[p] = b /\ \A q \in Procs : q # p => pc'[q] = pc[q]
  BY DEF Ctl, CtlTypes
<1>2. \A q \in Procs : q # p => pc[q] \notin {"r_copy", "w_copy"}
  BY DEF Ctl, LockInv, Locked
<1>3. KeepInv'
  BY <1>1 DEF Data, KeepInv, KeepsSize
<1>4. \A q \in Procs : q # p => UioInv(q)'
  BY <1>1, <1>2, Others DEF Data
<1> QED BY <1>1, <1>3, <1>4 DEF Data

\* What ReadCopied and WriteCopied move.
LEMMA ReadMoves ==
  ASSUME Ctl, Data, NEW p \in Procs, ReadCopied(p), pc'[p] # "r_unlock"
  PROVE  LET n == amount[p]
         IN /\ n \in 1 .. cnt /\ n <= size - out /\ n <= resid[p] /\ n \in Nat
            /\ pc[p] = "r_copy" /\ pc' = [pc EXCEPT ![p] = "r_loop"]
            /\ Pointers(n) /\ UNCHANGED <<size, buffer>>
            /\ resid' = [resid EXCEPT ![p] = @ - n]
            /\ got' = got \o [i \in 1 .. n |-> buffer[out + i - 1]]
            /\ [i \in 1 .. n |-> buffer[out + i - 1]] \in [1 .. n -> Bytes]
<1> DEFINE n == amount[p]
<1>1. pc \in [Procs -> Pcs] /\ pc[p] = "r_copy" /\ UioInv(p)
  BY DEF Ctl, CtlTypes, Data, ReadCopied, At
<1>2. n \in 1 .. cnt /\ n <= size - out /\ n <= resid[p] /\ n \in Nat /\ cnt \in Nat
  BY <1>1 DEF UioInv, Data, DataTypes
<1>3. /\ Pointers(n) /\ got' = got \o [i \in 1 .. n |-> buffer[out + i - 1]]
      /\ resid' = [resid EXCEPT ![p] = @ - n] /\ pc' = [pc EXCEPT ![p] = "r_loop"]
      /\ UNCHANGED <<size, buffer>>
  BY <1>1 DEF ReadCopied, Continue, Go
<1>4. \A i \in 1 .. n : Place(i - 1) = out + i - 1 /\ i - 1 \in 0 .. cnt - 1
  BY <1>2, <1>3, ReadRing DEF Data
<1>5. \A i \in 1 .. n : buffer[out + i - 1] \in Bytes
  BY <1>4 DEF Data, RingInv
<1> QED BY <1>1, <1>2, <1>3, <1>5

LEMMA ReadCopiedData ==
  ASSUME Ctl, Data, NEW p \in Procs, ReadCopied(p)
  PROVE  Data'
<1> USE DEF At, Go, GiveWay, Continue, ends
<1>0. /\ pc \in [Procs -> Pcs] /\ resid \in [Procs -> Nat] /\ length \in [Procs -> Nat]
      /\ amount \in [Procs -> Nat] /\ UioInv(p)
  BY DEF Ctl, CtlTypes, Data, DataTypes
<1>1. /\ pc[p] = "r_copy" /\ amount' = [amount EXCEPT ![p] = 0]
      /\ UNCHANGED <<size, buffer, nbigpipe, rend, length, writes, polling, others, sent>>
  BY DEF ReadCopied
<1>2. /\ amount' \in [Procs -> Nat] /\ \A q \in Procs : q # p => amount'[q] = amount[q]
  BY <1>0, <1>1
<1>3. CASE pc'[p] = "r_unlock"
  <2>1. /\ pc' = [pc EXCEPT ![p] = "r_unlock"] /\ UNCHANGED <<cnt, in, out, got, resid>>
    BY <1>0, <1>3 DEF ReadCopied
  <2>2. pc'[p] = "r_unlock" => UioInv(p)'
    BY <1>0, <1>1, <2>1 DEF UioInv, WriterPcs
  <2> QED BY <1>0, <1>1, <1>2, <2>1, <2>2, Changed DEF Data, DataTypes, Resizing
<1>4. CASE pc'[p] # "r_unlock"
  <2> DEFINE n == amount[p]
             f == [i \in 1 .. n |-> buffer[out + i - 1]]
  <2>1. /\ n \in 1 .. cnt /\ n <= size - out /\ n <= resid[p] /\ n \in Nat
        /\ pc' = [pc EXCEPT ![p] = "r_loop"] /\ Pointers(n)
        /\ resid' = [resid EXCEPT ![p] = @ - n] /\ got' = got \o f /\ f \in [1 .. n -> Bytes]
    BY <1>4, ReadMoves
  <2> HIDE DEF n, f
  <2>2. /\ resid' \in [Procs -> Nat] /\ resid'[p] = resid[p] - n
        /\ \A q \in Procs : q # p => resid'[q] = resid[q]
    BY <1>0, <2>1
  <2>3. got' \in Seq(Bytes)
    BY <2>1, AsSeq, ConcatProperties DEF Data, DataTypes
  <2>4. /\ cnt' \in 0 .. size' /\ in' \in 0 .. size' - 1 /\ out' \in 0 .. size' - 1 /\ RingInv'
    BY <1>1, <2>1, ReadRing DEF Data
  <2>5. DataTypes' /\ BigInv'
    BY <1>1, <1>2, <2>2, <2>3, <2>4 DEF Data, DataTypes, BigInv
  <2>6. pc'[p] = "r_loop" => UioInv(p)'
    BY <1>0, <1>1, <2>1, <2>2 DEF UioInv, WriterPcs
  <2> QED BY <1>1, <1>2, <2>1, <2>2, <2>4, <2>5, <2>6, Moved DEF Locked, Resizing
<1> QED BY <1>3, <1>4

LEMMA WriteMoves ==
  ASSUME Ctl, Data, NEW p \in Writers, WriteCopied(p), pc'[p] # "w_exit"
  PROVE  LET n == amount[p]
             b == [k \in 1 .. n |-> <<p, length[p], length[p] - resid[p] + k>>]
         IN /\ n \in 1 .. resid[p] /\ n <= size - cnt /\ n \in Nat /\ n > 0
            /\ b \in [1 .. n -> Bytes]
            /\ pc[p] = "w_copy" /\ pc' = [pc EXCEPT ![p] = "w_loop"]
            /\ \A i \in 0 .. size - 1 :
                 LET place == IF i >= in THEN i - in + 1 ELSE i + size - in + 1
                 IN buffer'[i] = IF place <= n THEN b[place] ELSE buffer[i]
            /\ buffer' = [i \in 0 .. size - 1 |-> buffer'[i]]
            /\ in' = InAfter(n) /\ cnt' = cnt + n /\ UNCHANGED <<out, size, got>>
            /\ sent' = sent \o b /\ resid' = [resid EXCEPT ![p] = @ - n]
<1> DEFINE n == amount[p]
           b == [k \in 1 .. n |-> <<p, length[p], length[p] - resid[p] + k>>]
           byte(k) == <<p, length[p], length[p] - resid[p] + k>>
           place(i) == IF i >= in THEN i - in + 1 ELSE i + size - in + 1
<1>0. p \in Procs
  BY Finite
<1>1. /\ pc \in [Procs -> Pcs] /\ pc[p] = "w_copy" /\ UioInv(p)
      /\ resid[p] \in Nat /\ length[p] \in Nat /\ amount[p] \in Nat
  BY <1>0 DEF Ctl, CtlTypes, Data, DataTypes, WriteCopied, At
<1>2. /\ n \in 1 .. resid[p] /\ n <= size - cnt /\ n > 0 /\ length[p] \in WriteSizes
      /\ resid[p] <= length[p]
  BY <1>1 DEF UioInv, WriterPcs
<1>3. /\ buffer' = [i \in 0 .. size - 1 |-> IF place(i) <= n THEN byte(place(i)) ELSE buffer[i]]
      /\ in' = InAfter(n) /\ cnt' = cnt + n /\ sent' = sent \o b
      /\ resid' = [resid EXCEPT ![p] = @ - n] /\ pc' = [pc EXCEPT ![p] = "w_loop"]
      /\ UNCHANGED <<out, size, got>>
  BY <1>0, <1>1 DEF WriteCopied, Continue, Go
<1>4. \A k \in 1 .. n : length[p] - resid[p] + k \in Nat
  BY <1>1, <1>2
<1>5. b \in [1 .. n -> Bytes]
  BY <1>2, <1>4 DEF Bytes
<1>6. /\ size \in Nat /\ in \in 0 .. size - 1
  BY Sizes DEF Data, DataTypes
<1>7. \A i \in 0 .. size - 1 : place(i) \in Nat /\ place(i) >= 1
  BY <1>6
<1>8. \A i \in 0 .. size - 1 : place(i) <= n => byte(place(i)) = b[place(i)]
  BY <1>1, <1>7
<1>9. \A i \in 0 .. size - 1 : buffer'[i] = IF place(i) <= n THEN b[place(i)] ELSE buffer[i]
  <2> HIDE DEF place, byte, b
  <2> QED BY <1>3, <1>8
<1>10. buffer' = [i \in 0 .. size - 1 |-> buffer'[i]]
  <2> HIDE DEF place, byte, b
  <2> QED BY <1>3
<1> QED BY <1>1, <1>2, <1>3, <1>5, <1>9, <1>10

LEMMA WriteCopiedData ==
  ASSUME Ctl, Data, NEW p \in Writers, WriteCopied(p)
  PROVE  Data'
<1> USE DEF At, Go, GiveWay, Continue, Notify, pipeunlock, ends
<1>0. /\ p \in Procs /\ pc \in [Procs -> Pcs] /\ resid \in [Procs -> Nat] /\ length \in [Procs -> Nat]
      /\ amount \in [Procs -> Nat] /\ UioInv(p)
  BY Finite DEF Ctl, CtlTypes, Data, DataTypes
<1>1. /\ pc[p] = "w_copy" /\ amount' = [amount EXCEPT ![p] = 0]
      /\ UNCHANGED <<out, size, nbigpipe, rend, length, writes, polling, others, got>>
  BY DEF WriteCopied
<1>2. /\ amount' \in [Procs -> Nat] /\ \A q \in Procs : q # p => amount'[q] = amount[q]
  BY <1>0, <1>1
<1>3. CASE pc'[p] = "w_exit"
  <2>1. /\ pc' = [pc EXCEPT ![p] = "w_exit"] /\ UNCHANGED <<buffer, in, cnt, sent, resid>>
    BY <1>0, <1>3 DEF WriteCopied
  <2>2. pc'[p] = "w_exit" => UioInv(p)'
    BY <1>0, <1>1, <2>1 DEF UioInv, WriterPcs
  <2> QED BY <1>0, <1>1, <1>2, <2>1, <2>2, Changed DEF Data, DataTypes, Resizing
<1>4. CASE pc'[p] # "w_exit"
  <2> DEFINE n == amount[p]
             b == [k \in 1 .. n |-> <<p, length[p], length[p] - resid[p] + k>>]
  <2>1. /\ n \in 1 .. resid[p] /\ n <= size - cnt /\ n \in Nat /\ n > 0
        /\ b \in [1 .. n -> Bytes] /\ pc' = [pc EXCEPT ![p] = "w_loop"]
        /\ \A i \in 0 .. size - 1 :
             LET place == IF i >= in THEN i - in + 1 ELSE i + size - in + 1
             IN buffer'[i] = IF place <= n THEN b[place] ELSE buffer[i]
        /\ buffer' = [i \in 0 .. size - 1 |-> buffer'[i]]
        /\ in' = InAfter(n) /\ cnt' = cnt + n
        /\ sent' = sent \o b /\ resid' = [resid EXCEPT ![p] = @ - n]
    BY <1>4, WriteMoves, Zenon
  <2>2. length[p] <= PIPE_BUF => n = length[p]
    BY <1>0, <1>1 DEF UioInv, WriterPcs
  <2> HIDE DEF n, b
  <2>3. /\ resid' \in [Procs -> Nat] /\ resid'[p] = resid[p] - n
        /\ \A q \in Procs : q # p => resid'[q] = resid[q]
    BY <1>0, <2>1
  <2>4. sent' \in Seq(Bytes)
    BY <2>1, AsSeq, ConcatProperties DEF Data, DataTypes
  <2>5. /\ cnt' \in 0 .. size' /\ in' \in 0 .. size' - 1 /\ RingInv'
        /\ buffer' \in [0 .. size' - 1 -> Bytes \union {NoByte}]
    <3>1. DataTypes /\ RingInv /\ UNCHANGED <<out, size>>
      BY <1>1 DEF Data
    <3> QED BY <2>1, <3>1, WriteRing
  <2>6. DataTypes' /\ BigInv'
    BY <1>1, <1>2, <2>3, <2>4, <2>5 DEF Data, DataTypes, BigInv
  <2>7. pc'[p] = "w_loop" => UioInv(p)'
    BY <1>0, <1>1, <2>1, <2>2, <2>3 DEF UioInv, WriterPcs
  <2>8. /\ pc' = [pc EXCEPT ![p] = "w_loop"] /\ pc[p] \in Locked /\ "w_loop" \notin Resizing
        /\ \A q \in Procs : q # p =>
             resid'[q] = resid[q] /\ length'[q] = length[q] /\ amount'[q] = amount[q]
        /\ others' = others /\ (KeepsSize => size' = size)
    BY <1>1, <1>2, <2>1, <2>3 DEF Locked, Resizing
  <2> QED BY <1>0, <2>5, <2>6, <2>7, <2>8, Moved
<1> QED BY <1>3, <1>4

LEMMA ResizeData ==
  ASSUME Ctl, Data, NEW p \in Procs, Resize(p)
  PROVE  Data'
<1> USE DEF At, Go, Continue, Notify, pipeunlock, ends, uio, hist, buf
<1>1. /\ pc[p] = "resize" /\ pc' = [pc EXCEPT ![p] = "w_loop"]
      /\ UNCHANGED <<rend, resid, length, amount, writes, polling, others, sent, got>>
  BY DEF Resize
<1>2. /\ pc \in [Procs -> Pcs] /\ rend # "freed" /\ ~KeepsSize /\ UioInv(p)
  BY <1>1 DEF Ctl, CtlTypes, EndsInv, Data, KeepInv, Resizing
<1>3. pc'[p] = "w_loop" => UioInv(p)'
  BY <1>1, <1>2 DEF UioInv, WriterPcs
<1>4. CASE UNCHANGED <<buf, nbigpipe>>
  BY <1>1, <1>2, <1>3, <1>4, Changed DEF Data, DataTypes, Resizing
<1>5. CASE ~UNCHANGED <<buf, nbigpipe>>
  <2>1. /\ size' = BIG_PIPE_SIZE /\ buffer' = [i \in 0 .. BIG_PIPE_SIZE - 1 |-> NoByte]
        /\ in' = 0 /\ out' = 0 /\ cnt' = 0 /\ nbigpipe' = nbigpipeFreed + 1
    BY <1>5 DEF Resize
  <2>2. nbigpipe = others + (IF size > PIPE_SIZE THEN 1 ELSE 0) /\ others \in Nat
    BY <1>2, Sizes DEF Data, DataTypes, BigInv
  <2>3. nbigpipe' = others + 1
    BY <2>1, <2>2 DEF nbigpipeFreed
  <2>4. BigInv' /\ RingInv'
    BY <1>1, <1>2, <2>1, <2>3, Sizes DEF BigInv, RingInv, Place
  <2>5. DataTypes'
    BY <1>1, <2>1, <2>2, <2>3, Sizes DEF Data, DataTypes
  <2>6. pc[p] \in Locked /\ "w_loop" \notin Resizing
    BY <1>1 DEF Locked, Resizing
  <2> QED BY <1>1, <1>2, <1>3, <2>4, <2>5, <2>6, Moved
<1> QED BY <1>4, <1>5

LEMMA DataStep ==
  ASSUME Ctl, Data, [Next]_vars
  PROVE  Data'
<1>1. ASSUME NEW p \in Readers, pipe_read(p) \/ ReadStep(p) PROVE Data'
  BY <1>1, Finite, StartData, QuietData, ReadCopiedData DEF ReadStep
<1>2. ASSUME NEW p \in Writers, pipe_write(p) \/ WriteStep(p) PROVE Data'
  BY <1>2, Finite, StartData, QuietData, WriteCopiedData, ResizeData DEF WriteStep
<1>3. ASSUME NEW p \in Readers \union Writers, Signal(p) PROVE Data'
  BY <1>3, Finite, QuietData
<1>4. CASE UNCHANGED vars
  BY <1>4 DEF vars, ends, buf, uio, hist, Data, DataTypes, RingInv, Place, BigInv, KeepInv,
              KeepsSize, UioInv
<1> QED BY <1>1, <1>2, <1>3, <1>4, CloseData DEF Next

LEMMA DataInit == Init => Data
<1> SUFFICES ASSUME Init PROVE Data
  OBVIOUS
<1>1. DataTypes
  BY Sizes, EmptySeq DEF Init, DataTypes
<1>2. RingInv /\ BigInv
  BY Sizes, <1>1 DEF Init, RingInv, Place, BigInv, DataTypes
<1>3. KeepInv /\ \A p \in Procs : UioInv(p)
  BY DEF Init, KeepInv, Resizing, UioInv, WriterPcs
<1> QED BY <1>1, <1>2, <1>3 DEF Data

\* BusyCounts: pipe_busy, PIPE_LOCK and nbigpipe are exact at every step of
\* pipe_read, pipe_write and pipeclose, so the pipe is freed, in FreePipe,
\* only when nobody is in it.
THEOREM BusyCounted == Spec => []BusyCounts
<1>1. Ctl /\ Data => BusyCounts
  <2> SUFFICES ASSUME Ctl, Data PROVE BusyCounts
    OBVIOUS
  <2> DEFINE inside  == {p \in Procs : pc[p] \notin {"idle", "lk_read", "pipecl"}}
             holders == {p \in Procs : pc[p] \in Locked}
  <2>1. inside = Busy
    BY DEF Busy, Outside
  <2>2. pipe_busy = Cardinality(inside) /\ pipe_busy \in 0 .. Cardinality(Procs)
    <3>1. inside \subseteq Procs
      OBVIOUS
    <3>2. IsFiniteSet(inside) /\ Cardinality(inside) <= Cardinality(Procs)
      BY <3>1, Finite, FS_Subset
    <3>3. Cardinality(Procs) \in Nat
      BY Finite, FS_CardinalityType
    <3> QED BY <2>1, <3>2, <3>3 DEF Ctl, CtlTypes
  <2>3. TypeOK
    BY <2>2 DEF TypeOK, Ctl, CtlTypes, Data, DataTypes
  <2>4. Cardinality(holders) = (IF "LOCK" \in pipe_state THEN 1 ELSE 0)
    <3>1. CASE "LOCK" \in pipe_state
      <4>1. PICK p \in Procs : pc[p] \in Locked
        BY <3>1 DEF Ctl, LockInv
      <4>2. holders = {p}
        BY <4>1 DEF Ctl, LockInv
      <4>3. Cardinality({p}) = 1
        BY FS_Singleton
      <4> QED BY <3>1, <4>2, <4>3
    <3>2. CASE "LOCK" \notin pipe_state
      <4>1. holders = {}
        BY <3>2 DEF Ctl, LockInv
      <4> QED BY <3>2, <4>1, FS_EmptySet
    <3> QED BY <3>1, <3>2
  <2>5. nbigpipe - others = (IF rend # "freed" /\ size > PIPE_SIZE THEN 1 ELSE 0)
    BY Sizes DEF Data, DataTypes, BigInv
  <2>6. rend = "freed" => \A p \in Procs : pc[p] = "idle"
    BY DEF Ctl, EndsInv
  <2> QED BY <2>2, <2>3, <2>4, <2>5, <2>6 DEF BusyCounts
<1>2. Ctl /\ Data /\ [Next]_vars => Ctl' /\ Data'
  BY CtlStep, DataStep
<1>3. Init => Ctl /\ Data
  BY CtlInit, DataInit
<1> QED BY <1>1, <1>2, <1>3, PTL DEF Spec

-----------------------------------------------------------------------------
(***************************************************************************)
(* The third layer: the stream of characters.                              *)
(***************************************************************************)

Stream == KeepsSize => got \o Contents = sent

LEMMA Wrap ==
  ASSUME NEW s \in Nat, NEW a \in Nat, s > 0, a < 2 * s
  PROVE  a % s = IF a < s THEN a ELSE a - s
OBVIOUS

ContentsFit ==
  /\ Contents = [i \in 1 .. cnt |-> buffer[Place(i - 1)]]
  /\ Contents \in Seq(Bytes) /\ Len(Contents) = cnt

LEMMA ContentsAre == Data => ContentsFit
<1> SUFFICES ASSUME DataTypes, RingInv PROVE ContentsFit
  BY DEF Data
<1>1. /\ size \in Nat /\ size > 0 /\ cnt \in Nat /\ cnt <= size /\ out \in 0 .. size - 1
  BY Sizes DEF DataTypes
<1>2. \A i \in 1 .. cnt : (out + i - 1) % size = Place(i - 1) /\ i - 1 \in 0 .. cnt - 1
  <2> SUFFICES ASSUME NEW i \in 1 .. cnt
               PROVE  (out + i - 1) % size = Place(i - 1) /\ i - 1 \in 0 .. cnt - 1
    OBVIOUS
  <2> DEFINE a == out + i - 1
  <2>1. a \in Nat /\ a < 2 * size /\ a = out + (i - 1)
    BY <1>1
  <2>2. a % size = IF a < size THEN a ELSE a - size
    <3> HIDE DEF a
    <3> QED BY <1>1, <2>1, Wrap
  <2> QED BY <1>1, <2>1, <2>2 DEF Place
<1>3. Contents = [i \in 1 .. cnt |-> buffer[Place(i - 1)]]
  BY <1>2 DEF Contents
<1>4. \A i \in 1 .. cnt : buffer[Place(i - 1)] \in Bytes
  BY <1>2 DEF RingInv
<1>5. Contents \in [1 .. cnt -> Bytes]
  BY <1>3, <1>4
<1> QED BY <1>1, <1>3, <1>5, AsSeq DEF ContentsFit

LEMMA ContentsNext == Data' => ContentsFit'
BY ContentsAre, PTL

\* A read takes its characters from the front of Contents.
LEMMA ReadStream ==
  ASSUME Ctl, Data, Data', Stream, NEW p \in Procs, ReadCopied(p)
  PROVE  Stream'
<1>1. UNCHANGED <<size, buffer, others, sent>>
  BY DEF ReadCopied
<1>2. CASE pc'[p] = "r_unlock"
  <2>1. UNCHANGED <<cnt, out, got>>
    <3>1. pc \in [Procs -> Pcs]
      BY DEF Ctl, CtlTypes
    <3> QED BY <1>2, <3>1 DEF ReadCopied, Continue, Go
  <2> QED BY <1>1, <2>1 DEF Stream, KeepsSize, Contents
<1>3. CASE pc'[p] # "r_unlock"
  <2> DEFINE n == amount[p]
             f == [i \in 1 .. n |-> buffer[out + i - 1]]
             C == Contents
  <2>1. /\ n \in 1 .. cnt /\ n <= size - out /\ n \in Nat /\ Pointers(n)
        /\ got' = got \o f /\ f \in [1 .. n -> Bytes]
    BY <1>3, ReadMoves
  <2>2. /\ cnt' = cnt - n /\ \A k \in 0 .. cnt - n - 1 : Place(k)' = Place(k + n)
        /\ \A i \in 1 .. n : Place(i - 1) = out + i - 1
    BY <1>1, <2>1, ReadRing DEF Data
  <2>3. /\ C = [i \in 1 .. cnt |-> buffer[Place(i - 1)]] /\ C \in Seq(Bytes) /\ Len(C) = cnt
    BY ContentsAre DEF ContentsFit
  <2>4. PICK D : /\ D = Contents' /\ D = [i \in 1 .. cnt' |-> buffer'[Place(i - 1)']]
                 /\ D \in Seq(Bytes) /\ Len(D) = cnt'
    BY ContentsNext DEF ContentsFit
  <2>5. f \in Seq(Bytes) /\ Len(f) = n
    BY <2>1, AsSeq
  <2>6. cnt \in Nat /\ got \in Seq(Bytes)
    BY DEF Data, DataTypes
  <2>7. \A i \in 1 .. n : f[i] = C[i]
    BY <2>1, <2>2, <2>3, <2>6
  <2>8. \A i \in 1 .. cnt - n : D[i] = C[i + n]
    <3> SUFFICES ASSUME NEW i \in 1 .. cnt - n PROVE D[i] = C[i + n]
      OBVIOUS
    <3>1. i - 1 \in 0 .. cnt - n - 1 /\ (i - 1) + n = (i + n) - 1 /\ i + n \in 1 .. cnt
      BY <2>1, <2>6
    <3>2. D[i] = buffer[Place(i - 1)']
      BY <1>1, <2>2, <2>4
    <3>3. Place(i - 1)' = Place((i + n) - 1)
      BY <2>2, <3>1
    <3>4. C[i + n] = buffer[Place((i + n) - 1)]
      BY <2>3, <3>1
    <3> QED BY <3>2, <3>3, <3>4
  <2> HIDE DEF f, C, n
  <2>12. f \in Seq(Bytes) /\ D \in Seq(Bytes) /\ got \in Seq(Bytes)
    BY <2>4, <2>5, <2>6
  <2>9. f \o D = C
    <3>0. /\ f \o D \in Seq(Bytes) /\ Len(f \o D) = Len(f) + Len(D)
          /\ \A i \in 1 .. Len(f) + Len(D) :
               (f \o D)[i] = IF i <= Len(f) THEN f[i] ELSE D[i - Len(f)]
      BY <2>12, ConcatProperties
    <3>1. /\ f \o D \in Seq(Bytes) /\ Len(f \o D) = n + (cnt - n)
          /\ \A i \in 1 .. n + (cnt - n) : (f \o D)[i] = IF i <= n THEN f[i] ELSE D[i - n]
      BY <2>2, <2>4, <2>5, <3>0
    <3>2. Len(f \o D) = cnt
      BY <2>1, <2>6, <3>1
    <3>3. ASSUME NEW i \in 1 .. cnt PROVE (f \o D)[i] = C[i]
      <4>1. (f \o D)[i] = IF i <= n THEN f[i] ELSE D[i - n]
        BY <2>1, <2>6, <3>1
      <4>2. CASE i <= n
        BY <2>1, <2>7, <4>1, <4>2
      <4>3. CASE ~(i <= n)
        <5>1. i - n \in 1 .. cnt - n /\ (i - n) + n = i
          BY <2>1, <2>6, <4>3
        <5>2. D[i - n] = C[(i - n) + n]
          BY <2>8, <5>1
        <5> QED BY <4>1, <4>3, <5>1, <5>2
      <4> QED BY <4>2, <4>3
    <3> QED BY <2>3, <3>1, <3>2, <3>3, SeqEqual
  <2>10. (got \o f) \o D = got \o (f \o D)
    BY <2>12, ConcatAssociative
  <2>11. KeepsSize' => KeepsSize
    BY <1>1 DEF KeepsSize
  <2> QED BY <1>1, <2>1, <2>4, <2>9, <2>10, <2>11 DEF Stream, C
<1> QED BY <1>2, <1>3

\* A write adds its characters at the end of Contents.
LEMMA WriteStream ==
  ASSUME Ctl, Data, Data', Stream, NEW p \in Writers, WriteCopied(p)
  PROVE  Stream'
<1>1. UNCHANGED <<out, size, others, got>>
  BY DEF WriteCopied
<1>2. CASE pc'[p] = "w_exit"
  <2>1. UNCHANGED <<buffer, cnt, sent>>
    <3>1. pc \in [Procs -> Pcs] /\ p \in Procs
      BY Finite DEF Ctl, CtlTypes
    <3> QED BY <1>2, <3>1 DEF WriteCopied, Continue, Go
  <2> QED BY <1>1, <2>1 DEF Stream, KeepsSize, Contents
<1>3. CASE pc'[p] # "w_exit"
  <2> DEFINE n == amount[p]
             b == [k \in 1 .. n |-> <<p, length[p], length[p] - resid[p] + k>>]
             C == Contents
  <2>1. /\ n <= size - cnt /\ n \in Nat /\ n > 0 /\ b \in [1 .. n -> Bytes]
        /\ \A i \in 0 .. size - 1 :
             LET place == IF i >= in THEN i - in + 1 ELSE i + size - in + 1
             IN buffer'[i] = IF place <= n THEN b[place] ELSE buffer[i]
        /\ buffer' = [i \in 0 .. size - 1 |-> buffer'[i]]
        /\ in' = InAfter(n) /\ cnt' = cnt + n /\ sent' = sent \o b
    BY <1>3, WriteMoves, Zenon
  <2> HIDE DEF n, b
  <2>2. /\ \A k \in 0 .. cnt - 1 : buffer'[Place(k)] = buffer[Place(k)]
        /\ \A k \in 1 .. n : buffer'[Place(cnt + k - 1)] = b[k]
    <3>1. DataTypes /\ RingInv
      BY DEF Data
    <3> QED BY <1>1, <2>1, <3>1, WriteRing
  <2>3. /\ C = [i \in 1 .. cnt |-> buffer[Place(i - 1)]] /\ C \in Seq(Bytes) /\ Len(C) = cnt
    BY ContentsAre DEF ContentsFit
  <2>4. PICK D : /\ D = Contents' /\ D = [i \in 1 .. cnt' |-> buffer'[Place(i - 1)']]
                 /\ D \in Seq(Bytes) /\ Len(D) = cnt'
    BY ContentsNext DEF ContentsFit
  <2>5. b \in Seq(Bytes) /\ Len(b) = n
    BY <2>1, AsSeq
  <2>6. cnt \in Nat /\ got \in Seq(Bytes) /\ cnt' = cnt + n /\ n \in Nat
    BY <2>1 DEF Data, DataTypes
  <2>7. \A i \in 1 .. cnt + n : D[i] = buffer'[Place(i - 1)]
    <3>1. \A k : Place(k)' = Place(k)
      BY <1>1 DEF Place
    <3> QED BY <2>4, <2>6, <3>1
  <2> HIDE DEF C
  <2>8. C \o b = D
    <3>0. C \in Seq(Bytes) /\ b \in Seq(Bytes) /\ Len(C) = cnt /\ Len(b) = n
      BY <2>3, <2>5
    <3>1. /\ C \o b \in Seq(Bytes) /\ Len(C \o b) = cnt + n
          /\ \A i \in 1 .. cnt + n : (C \o b)[i] = IF i <= cnt THEN C[i] ELSE b[i - cnt]
      BY <3>0, ConcatProperties
    <3>2. ASSUME NEW i \in 1 .. cnt + n PROVE (C \o b)[i] = D[i]
      <4>1. CASE i <= cnt
        <5>1. i \in 1 .. cnt /\ i - 1 \in 0 .. cnt - 1
          BY <2>6, <4>1
        <5> QED BY <2>2, <2>3, <2>7, <3>1, <4>1, <5>1
      <4>2. CASE ~(i <= cnt)
        <5>1. i - cnt \in 1 .. n /\ cnt + (i - cnt) - 1 = i - 1
          BY <2>6, <4>2
        <5>2. buffer'[Place(cnt + (i - cnt) - 1)] = b[i - cnt]
          BY <2>2, <5>1
        <5> QED BY <2>7, <3>1, <4>2, <5>1, <5>2
      <4> QED BY <4>1, <4>2
    <3> QED BY <2>4, <2>6, <3>1, <3>2, SeqEqual
  <2>9. (got \o C) \o b = got \o (C \o b)
    BY <2>3, <2>5, <2>6, ConcatAssociative
  <2>10. KeepsSize' => KeepsSize
    BY <1>1 DEF KeepsSize
  <2>11. sent' = sent \o b
    BY <2>1
  <2> QED BY <1>1, <2>4, <2>8, <2>9, <2>10, <2>11 DEF Stream, C
<1> QED BY <1>2, <1>3

LEMMA StreamStep ==
  ASSUME Ctl, Data, Data', Stream, [Next]_vars
  PROVE  Stream'
<1> USE DEF buf, hist
<1>1. CASE UNCHANGED <<buf, hist>>
  BY <1>1 DEF Stream, KeepsSize, Contents
<1>2. ASSUME NEW p \in Readers, pipe_read(p) \/ ReadStep(p) PROVE Stream'
  <2>1. CASE ReadCopied(p)
    BY <2>1, ReadStream, Finite
  <2>2. CASE ~ReadCopied(p)
    BY <1>1, <1>2, <2>2 DEF pipe_read, ReadStep, ReadStart, ReadDone, ReadUnlock, ReadWait, ReadWoken,
                            ReadExit, pipelock
  <2> QED BY <2>1, <2>2
<1>3. ASSUME NEW p \in Writers, pipe_write(p) \/ WriteStep(p) PROVE Stream'
  <2>1. CASE WriteCopied(p)
    BY <2>1, WriteStream
  <2>2. CASE Resize(p)
    <3>1. p \in Procs /\ pc[p] \in Resizing /\ UNCHANGED others
      BY <2>2, Finite DEF Resize, At, Resizing
    <3> QED BY <3>1 DEF Data, KeepInv, KeepsSize, Stream
  <2>3. CASE ~WriteCopied(p) /\ ~Resize(p)
    BY <1>1, <1>3, <2>3 DEF pipe_write, WriteStep, WriteEarly, WriteDone, WriteSome, WriteWait, WriteWoken,
                            WriteStart, WriteExit, pipelock
  <2> QED BY <2>1, <2>2, <2>3
<1>4. CASE UNCHANGED vars
  BY <1>1, <1>4 DEF vars
<1> QED BY <1>1, <1>2, <1>3, <1>4 DEF Next, Signal, pipe_poll, CloseRead, Pipecl, FreePipe, CloseWrite

\* NothingLostUnresized: what pipe_write puts into a pipe that keeps its size
\* is what pipe_read takes out of it, each byte once and in order, for any
\* size of the ring and any transfers that wrap around its end.
THEOREM StreamKept == Spec => []NothingLostUnresized
<1>1. Ctl /\ Data /\ Stream /\ [Next]_vars => Ctl' /\ Data' /\ Stream'
  BY CtlStep, DataStep, StreamStep
<1>2. Init => Ctl /\ Data /\ Stream
  <2>1. Init => Stream
    BY ConcatEmptySeq DEF Init, Stream, Contents
  <2> QED BY <2>1, CtlInit, DataInit
<1>3. Stream => NothingLostUnresized
  BY DEF Stream, NothingLostUnresized, NothingLost
<1> QED BY <1>1, <1>2, <1>3, PTL DEF Spec

LEMMA WholeStep ==
  ASSUME Ctl, Data, ShortWritesWhole, [Next]_vars
  PROVE  ShortWritesWhole'
<1> USE DEF hist
<1>1. CASE UNCHANGED sent
  BY <1>1 DEF ShortWritesWhole
<1>2. ASSUME NEW p \in Readers, pipe_read(p) \/ ReadStep(p) PROVE ShortWritesWhole'
  BY <1>1, <1>2 DEF pipe_read, ReadStep, ReadStart, ReadCopied, ReadDone, ReadUnlock, ReadWait, ReadWoken,
                    ReadExit, pipelock
<1>3. ASSUME NEW p \in Writers, WriteCopied(p), pc'[p] # "w_exit" PROVE ShortWritesWhole'
  <2> DEFINE n == amount[p]
             b == [k \in 1 .. n |-> <<p, length[p], length[p] - resid[p] + k>>]
  <2>1. n \in Nat /\ b \in [1 .. n -> Bytes] /\ sent' = sent \o b /\ n \in 1 .. resid[p] /\ pc[p] = "w_copy"
    BY <1>3, WriteMoves, Zenon
  <2>2. /\ resid[p] \in Nat /\ length[p] \in Nat /\ UioInv(p) /\ sent \in Seq(Bytes)
    BY Finite DEF Data, DataTypes
  <2>3. length[p] <= PIPE_BUF => resid[p] = length[p] /\ n = length[p]
    BY <2>1, <2>2 DEF UioInv, WriterPcs
  <2>4. \A k \in 1 .. n : b[k] = <<p, length[p], length[p] - resid[p] + k>>
    OBVIOUS
  <2>5. ASSUME NEW k \in 1 .. n, length[p] <= PIPE_BUF, k > 1
        PROVE  /\ b[k] = <<p, length[p], k>> /\ k - 1 \in 1 .. n
               /\ b[k - 1] = <<p, length[p], k - 1>>
    <3>1. length[p] - resid[p] + k = k /\ k - 1 \in 1 .. n /\ length[p] - resid[p] + (k - 1) = k - 1
      BY <2>1, <2>2, <2>3, <2>5
    <3> QED BY <2>4, <3>1
  <2>6. ASSUME NEW k \in 1 .. n, length[p] <= PIPE_BUF PROVE b[k][2] = length[p] /\ b[k][3] = k
    <3>1. length[p] - resid[p] + k = k
      BY <2>1, <2>2, <2>3, <2>6
    <3> QED BY <2>4, <3>1
  <2>7. \A k \in 1 .. n : b[k][2] = length[p]
    BY <2>4
  <2>8. b \in Seq(Bytes) /\ Len(b) = n /\ Len(sent) \in Nat /\ DOMAIN sent = 1 .. Len(sent)
    BY <2>1, <2>2, AsSeq, LenProperties
  <2> HIDE DEF b, n
  <2>9. /\ sent' \in Seq(Bytes) /\ Len(sent') = Len(sent) + n
        /\ \A i \in 1 .. Len(sent) + n : sent'[i] = IF i <= Len(sent) THEN sent[i] ELSE b[i - Len(sent)]
    BY <2>1, <2>2, <2>8, ConcatProperties
  <2>10. DOMAIN sent' = 1 .. Len(sent) + n
    BY <2>9, LenProperties
  <2>11. ASSUME NEW i \in 1 .. Len(sent) + n, sent'[i][2] <= PIPE_BUF, sent'[i][3] > 1
         PROVE  i > 1 /\ sent'[i - 1] = <<sent'[i][1], sent'[i][2], sent'[i][3] - 1>>
    <3>1. CASE i <= Len(sent)
      <4>1. sent'[i] = sent[i] /\ i \in DOMAIN sent
        BY <2>8, <2>9, <3>1
      <4>2. i > 1 /\ sent[i - 1] = <<sent[i][1], sent[i][2], sent[i][3] - 1>>
        BY <2>11, <4>1 DEF ShortWritesWhole
      <4>3. sent'[i - 1] = sent[i - 1]
        BY <2>1, <2>8, <2>9, <3>1, <4>2
      <4> QED BY <4>1, <4>2, <4>3
    <3>2. CASE ~(i <= Len(sent))
      <4> DEFINE k == i - Len(sent)
      <4>1. k \in 1 .. n /\ sent'[i] = b[k]
        BY <2>1, <2>8, <2>9, <3>2
      <4>2. length[p] <= PIPE_BUF
        BY <2>7, <2>11, <4>1
      <4>3. b[k][3] = k /\ k > 1
        BY <2>6, <2>11, <4>1, <4>2
      <4>4. b[k] = <<p, length[p], k>> /\ k - 1 \in 1 .. n /\ b[k - 1] = <<p, length[p], k - 1>>
        BY <2>5, <4>1, <4>2, <4>3
      <4>5. i > 1 /\ i - 1 \in 1 .. Len(sent) + n /\ ~(i - 1 <= Len(sent)) /\ (i - 1) - Len(sent) = k - 1
        BY <2>1, <2>8, <3>2, <4>1, <4>3
      <4>6. sent'[i - 1] = b[k - 1]
        BY <2>9, <4>5
      <4> HIDE DEF k
      <4> QED BY <4>1, <4>4, <4>5, <4>6
    <3> QED BY <3>1, <3>2
  <2> QED BY <2>10, <2>11 DEF ShortWritesWhole
<1>4. ASSUME NEW p \in Writers, pipe_write(p) \/ WriteStep(p) PROVE ShortWritesWhole'
  <2>1. CASE WriteCopied(p)
    <3>1. p \in Procs /\ pc \in [Procs -> Pcs]
      BY Finite DEF Ctl, CtlTypes
    <3>2. pc'[p] = "w_exit" => UNCHANGED sent
      BY <2>1, <3>1 DEF WriteCopied, Continue, Go
    <3> QED BY <1>1, <1>3, <2>1, <3>2
  <2>2. CASE ~WriteCopied(p)
    BY <1>1, <1>4, <2>2 DEF pipe_write, WriteStep, Resize, WriteEarly, WriteDone, WriteSome, WriteWait,
                            WriteWoken, WriteStart, WriteExit, pipelock
  <2> QED BY <2>1, <2>2
<1>5. CASE UNCHANGED vars
  BY <1>1, <1>5 DEF vars
<1> QED BY <1>1, <1>2, <1>4, <1>5 DEF Next, Signal, pipe_poll, CloseRead, Pipecl, FreePipe, CloseWrite

\* "Writes of size <= PIPE_BUF must be atomic": pipe_write waits for all of
\* the space and looks again after it slept for the lock, so that the bytes
\* of a short write are never apart, whatever other writers do.
THEOREM ShortWrites == Spec => []ShortWritesWhole
<1>1. Ctl /\ Data /\ ShortWritesWhole /\ [Next]_vars => Ctl' /\ Data' /\ ShortWritesWhole'
  BY CtlStep, DataStep, WholeStep
<1>2. Init => Ctl /\ Data /\ ShortWritesWhole
  <2>1. Init => ShortWritesWhole
    BY DEF Init, ShortWritesWhole
  <2> QED BY <2>1, CtlInit, DataInit
<1> QED BY <1>1, <1>2, PTL DEF Spec

-----------------------------------------------------------------------------
(***************************************************************************)
(* The fourth layer: who sleeps is on record, and as long as there is a    *)
(* reason to wake him there is somebody on his way who will.               *)
(***************************************************************************)

Asleep(p, place) == p \in sleeping /\ pc[p] = place

\* A writer here looks for readers to wake before it leaves or sleeps, ...
Writing  == {"w_loop", "lk_write", "w_locked", "w_copy", "w_exit"}
\* ... and a reader here that has read something, for writers.
ReadWork == {"r_loop", "r_copy", "r_unlock", "r_exit"}

SleepPlaces == \A p \in sleeping : pc[p] \in LockSleeps \union {"piperd", "pipewr", "pipecl"}

FlagsUp ==
  \A p \in sleeping :
    /\ pc[p] \in LockSleeps => {"LOCK", "LWANT"} \subseteq pipe_state
    /\ pc[p] = "piperd" => "WANTR" \in pipe_state
    /\ pc[p] = "pipewr" => "WANTW" \in pipe_state
    /\ pc[p] = "pipecl" => "WANT" \in pipe_state /\ pipe_busy > 0

\* At EOF nobody is left asleep, but for the moment before the closer's
\* first sleep wakes them.
EofTold ==
  "EOF" \in pipe_state =>
    /\ (\E p \in sleeping : pc[p] \in {"piperd", "pipewr"}) =>
         curproc = {Closer} /\ pc[Closer] = "pipecl" /\ Closer \notin sleeping
    /\ \A q \in Pollers : polling[q] = "no"

SelUp == \A q \in Pollers : polling[q] # "no" => "SEL" \in pipe_state

ReadersTold ==
  cnt > 0 /\ ((\E r \in Procs : Asleep(r, "piperd")) \/ (\E q \in Pollers : polling[q] = "in")) =>
    \E w \in Writers : pc[w] \in Writing \/ (pc[w] = "pipewr" /\ w \notin sleeping)

WritersTold ==
  KeepsSize /\
    (\/ cnt < MINPIPESIZE /\ \E w \in Procs : Asleep(w, "pipewr")
     \/ size - cnt >= PIPE_BUF /\ \E q \in Pollers : polling[q] = "out") =>
      \E r \in Readers : pc[r] \in ReadWork /\ resid[r] < length[r]

Wake == SleepPlaces /\ FlagsUp /\ EofTold /\ SelUp /\ ReadersTold /\ WritersTold

\* What a step that takes p to place b does to the sleepers and pollers.
AllTold == \A q \in Pollers : polling'[q] = "no"

SleepEffect(p, b) ==
  /\ pc' = [pc EXCEPT ![p] = b] /\ sleeping' \subseteq sleeping \union {p}
  /\ p \in sleeping' =>
       \/ b \in LockSleeps /\ {"LOCK", "LWANT"} \subseteq pipe_state'
       \/ b = "piperd" /\ "WANTR" \in pipe_state' /\ "EOF" \notin pipe_state'
       \/ b = "pipewr" /\ "WANTW" \in pipe_state' /\ "EOF" \notin pipe_state'
  /\ "LWANT" \in pipe_state /\ ("LOCK" \notin pipe_state' \/ "LWANT" \notin pipe_state') /\ "LOCK" \in pipe_state =>
       sleeping' \subseteq {p}
  /\ \A f \in {"WANTR", "WANTW", "WANT"} :
       f \in pipe_state /\ f \notin pipe_state' => sleeping' \subseteq {p}
  /\ "WANT" \in pipe_state' /\ pipe_busy > 0 => pipe_busy' > 0
  /\ "EOF" \in pipe_state' => "EOF" \in pipe_state
  /\ \A q \in Pollers : polling'[q] # "no" =>
       polling'[q] = polling[q] /\ ("SEL" \in pipe_state => "SEL" \in pipe_state')

ReadEffect(p, b) ==
  /\ cnt' > 0 => cnt > 0 \/ (p \in Writers /\ b \in Writing)
  /\ p \in sleeping' /\ b = "piperd" => cnt' = 0
  /\ pc[p] \in Writing \union {"pipewr"} /\ b \notin Writing /\ cnt' > 0 =>
       /\ "WANTR" \in pipe_state => sleeping' \subseteq {p}
       /\ "SEL" \in pipe_state => AllTold

WriteEffect(p, b) ==
  /\ others' = others /\ (KeepsSize => size' = size)
  /\ \A q \in Procs : q # p => resid'[q] = resid[q] /\ length'[q] = length[q]
  /\ cnt' < cnt /\ KeepsSize => p \in Readers /\ b \in ReadWork /\ resid'[p] < length'[p]
  /\ p \in sleeping' /\ b = "pipewr" /\ KeepsSize => ~(cnt' < MINPIPESIZE)
  /\ pc[p] \in ReadWork /\ resid[p] < length[p] /\ ~(b \in ReadWork /\ resid'[p] < length'[p]) =>
       /\ "WANTW" \in pipe_state /\ cnt' < MINPIPESIZE => sleeping' \subseteq {p}
       /\ "SEL" \in pipe_state /\ size' - cnt' >= PIPE_BUF => AllTold

LEMMA WakeMove ==
  ASSUME Ctl, Data, cnt' \in Nat, Wake, NEW p \in Procs, p # Closer, NEW b,
         curproc \subseteq {p} \/ (curproc' = curproc /\ p \notin sleeping'),
         SleepEffect(p, b), ReadEffect(p, b), WriteEffect(p, b)
  PROVE  Wake'
<1>1. /\ pc'[p] = b /\ (\A q \in Procs : q # p => pc'[q] = pc[q]) /\ sleeping \subseteq Procs
      /\ Closer \in Procs /\ pipe_busy \in Nat
  BY Finite DEF Ctl, CtlTypes, SleepEffect
<1>2. \A q \in sleeping' : q # p => q \in sleeping /\ pc'[q] = pc[q] /\ q \in Procs
  BY <1>1 DEF SleepEffect
<1>3. SleepPlaces'
  BY <1>1, <1>2 DEF SleepPlaces, Wake, SleepEffect
<1>4. FlagsUp'
  <2> SUFFICES ASSUME NEW q \in sleeping'
               PROVE  /\ pc'[q] \in LockSleeps => {"LOCK", "LWANT"} \subseteq pipe_state'
                      /\ pc'[q] = "piperd" => "WANTR" \in pipe_state'
                      /\ pc'[q] = "pipewr" => "WANTW" \in pipe_state'
                      /\ pc'[q] = "pipecl" => "WANT" \in pipe_state' /\ pipe_busy' > 0
    BY DEF FlagsUp
  <2>1. CASE q = p
    BY <1>1, <2>1 DEF SleepEffect, LockSleeps
  <2>2. CASE q # p
    <3>1. q \in sleeping /\ pc'[q] = pc[q] /\ ~(sleeping' \subseteq {p})
      BY <1>2, <2>2
    <3>2. /\ pc[q] \in LockSleeps => {"LOCK", "LWANT"} \subseteq pipe_state
          /\ pc[q] = "piperd" => "WANTR" \in pipe_state
          /\ pc[q] = "pipewr" => "WANTW" \in pipe_state
          /\ pc[q] = "pipecl" => "WANT" \in pipe_state /\ pipe_busy > 0
      BY <3>1 DEF Wake, FlagsUp
    <3> QED BY <3>1, <3>2 DEF SleepEffect
  <2> QED BY <2>1, <2>2
<1>5. SelUp'
  BY DEF Wake, SelUp, SleepEffect
<1>6. EofTold'
  <2> SUFFICES ASSUME "EOF" \in pipe_state' PROVE
         /\ (\E q \in sleeping' : pc'[q] \in {"piperd", "pipewr"}) =>
              curproc' = {Closer} /\ pc'[Closer] = "pipecl" /\ Closer \notin sleeping'
         /\ \A q \in Pollers : polling'[q] = "no"
    BY DEF EofTold
  <2>1. "EOF" \in pipe_state
    BY DEF SleepEffect
  <2>2. \A q \in Pollers : polling'[q] = "no"
    BY <2>1 DEF Wake, EofTold, SleepEffect
  <2>3. ASSUME NEW q \in sleeping', pc'[q] \in {"piperd", "pipewr"}
        PROVE  curproc' = {Closer} /\ pc'[Closer] = "pipecl" /\ Closer \notin sleeping'
    <3>1. q # p
      BY <1>1, <2>3 DEF SleepEffect, LockSleeps
    <3>2. curproc = {Closer} /\ pc[Closer] = "pipecl" /\ Closer \notin sleeping
      BY <1>2, <2>1, <2>3, <3>1 DEF Wake, EofTold
    <3> QED BY <1>1, <1>2, <3>2
  <2> QED BY <2>2, <2>3
<1>7. ReadersTold'
  <2> SUFFICES ASSUME cnt' > 0,
                      (\E r \in Procs : r \in sleeping' /\ pc'[r] = "piperd")
                        \/ (\E q \in Pollers : polling'[q] = "in")
               PROVE  \E w \in Writers : pc'[w] \in Writing \/ (pc'[w] = "pipewr" /\ w \notin sleeping')
    BY DEF ReadersTold, Asleep
  <2>1. CASE p \in Writers /\ b \in Writing
    BY <1>1, <2>1
  <2>2. CASE ~(p \in Writers /\ b \in Writing)
    <3>1. cnt > 0
      BY <2>2 DEF ReadEffect
    <3>2. \/ \E r \in Procs : Asleep(r, "piperd") /\ r \in sleeping' /\ r # p /\ "WANTR" \in pipe_state
          \/ \E q \in Pollers : polling[q] = "in" /\ polling'[q] # "no" /\ "SEL" \in pipe_state
      <4>1. ASSUME NEW r \in Procs, r \in sleeping', pc'[r] = "piperd"
            PROVE  Asleep(r, "piperd") /\ r # p /\ "WANTR" \in pipe_state
        BY <1>1, <1>2, <4>1 DEF ReadEffect, Asleep, Wake, FlagsUp
      <4>2. ASSUME NEW q \in Pollers, polling'[q] = "in"
            PROVE  polling[q] = "in" /\ polling'[q] # "no" /\ "SEL" \in pipe_state
        BY <4>2 DEF SleepEffect, Wake, SelUp
      <4> QED BY <4>1, <4>2
    <3>3. PICK w \in Writers : pc[w] \in Writing \/ (pc[w] = "pipewr" /\ w \notin sleeping)
      BY <3>1, <3>2 DEF Wake, ReadersTold
    <3>4. w # p
      BY <2>2, <3>2, <3>3 DEF ReadEffect, AllTold
    <3> QED BY <1>1, <1>2, <3>3, <3>4, Finite
  <2> QED BY <2>1, <2>2
<1>8. WritersTold'
  <2> SUFFICES ASSUME KeepsSize',
                      \/ cnt' < MINPIPESIZE /\ \E w \in Procs : w \in sleeping' /\ pc'[w] = "pipewr"
                      \/ size' - cnt' >= PIPE_BUF /\ \E q \in Pollers : polling'[q] = "out"
               PROVE  \E r \in Readers : pc'[r] \in ReadWork /\ resid'[r] < length'[r]
    BY DEF WritersTold, Asleep
  <2>0. KeepsSize /\ size' = size /\ cnt \in Nat /\ size \in Nat /\ MINPIPESIZE \in Nat /\ PIPE_BUF \in Nat
    BY Sizes DEF KeepsSize, WriteEffect, Data, DataTypes
  <2>1. CASE cnt' < cnt
    BY <1>1, <2>0, <2>1 DEF WriteEffect
  <2>2. CASE ~(cnt' < cnt)
    <3>2. \/ /\ cnt' < MINPIPESIZE /\ "WANTW" \in pipe_state
             /\ \E w \in Procs : Asleep(w, "pipewr") /\ w \in sleeping' /\ w # p
          \/ /\ size' - cnt' >= PIPE_BUF /\ "SEL" \in pipe_state
             /\ \E q \in Pollers : polling[q] = "out" /\ polling'[q] # "no"
      <4>1. ASSUME NEW w \in Procs, w \in sleeping', pc'[w] = "pipewr", cnt' < MINPIPESIZE
            PROVE  Asleep(w, "pipewr") /\ w # p /\ "WANTW" \in pipe_state
        BY <1>1, <1>2, <2>0, <4>1 DEF WriteEffect, Asleep, Wake, FlagsUp
      <4>2. ASSUME NEW q \in Pollers, polling'[q] = "out"
            PROVE  polling[q] = "out" /\ polling'[q] # "no" /\ "SEL" \in pipe_state
        BY <4>2 DEF SleepEffect, Wake, SelUp
      <4> QED BY <4>1, <4>2
    <3>3. \/ cnt < MINPIPESIZE /\ \E w \in Procs : Asleep(w, "pipewr")
          \/ size - cnt >= PIPE_BUF /\ \E q \in Pollers : polling[q] = "out"
      BY <2>0, <2>2, <3>2
    <3>4. PICK r \in Readers : pc[r] \in ReadWork /\ resid[r] < length[r]
      BY <2>0, <3>3 DEF Wake, WritersTold
    <3>5. CASE r # p
      BY <1>1, <3>4, <3>5, Finite DEF WriteEffect
    <3>6. CASE r = p
      BY <1>1, <3>2, <3>4, <3>6 DEF WriteEffect, AllTold
    <3> QED BY <3>5, <3>6
  <2> QED BY <2>1, <2>2
<1> QED BY <1>3, <1>4, <1>5, <1>6, <1>7, <1>8 DEF Wake

LEMMA Known ==
  ASSUME Ctl, Data, Data'
  PROVE  /\ pc \in [Procs -> Pcs] /\ sleeping \subseteq Procs /\ pipe_busy \in Nat
         /\ resid \in [Procs -> Nat] /\ length \in [Procs -> Nat] /\ cnt \in Nat /\ cnt' \in Nat
         /\ polling \in [Pollers -> {"no", "in", "out"}] /\ size \in Nat
<1>1. cnt' \in Nat
  BY DEF Data, DataTypes
<1>2. DataTypes
  BY DEF Data
<1> QED BY <1>1, <1>2, Sizes DEF Ctl, CtlTypes, DataTypes

LEMMA ReadWakes ==
  ASSUME Ctl, Data, Data', Wake, NEW p \in Readers, pipe_read(p) \/ ReadStep(p), ~pipelock(p)
  PROVE  Wake'
<1> USE DEF At, Go, GiveWay, Continue, Leave, Notify, pipeunlock, LockSleeps, Writing, ReadWork, AllTold,
            buf, ends, uio, hist
<1>1. /\ p \in Procs /\ p # Closer /\ pc \in [Procs -> Pcs] /\ sleeping \subseteq Procs /\ pipe_busy \in Nat
      /\ resid \in [Procs -> Nat] /\ length \in [Procs -> Nat] /\ cnt \in Nat /\ cnt' \in Nat
      /\ polling \in [Pollers -> {"no", "in", "out"}] /\ size \in Nat
  BY Known, Finite
<1>2. CASE pipe_read(p)
  <2>1. SleepEffect(p, "lk_read")
    BY <1>1, <1>2 DEF pipe_read, SleepEffect
  <2>2. ReadEffect(p, "lk_read")
    BY <1>1, <1>2 DEF pipe_read, ReadEffect
  <2>3. WriteEffect(p, "lk_read")
    BY <1>1, <1>2 DEF pipe_read, WriteEffect, KeepsSize
  <2> QED BY <1>1, <1>2, <2>1, <2>2, <2>3, WakeMove DEF pipe_read
<1>3. CASE ReadStart(p)
  <2>1. SleepEffect(p, "r_copy")
    BY <1>1, <1>3 DEF ReadStart, SleepEffect
  <2>2. ReadEffect(p, "r_copy")
    BY <1>1, <1>3 DEF ReadStart, ReadEffect
  <2>3. WriteEffect(p, "r_copy")
    BY <1>1, <1>3 DEF ReadStart, WriteEffect, KeepsSize
  <2> QED BY <1>1, <1>3, <2>1, <2>2, <2>3, WakeMove DEF ReadStart
<1>4. CASE ReadCopied(p)
  <2>0. /\ pc[p] = "r_copy" /\ curproc \subseteq {p} /\ p \notin sleeping
        /\ UNCHANGED <<pipe_state, pipe_busy, size, sleeping, length, polling, others>>
    BY <1>4 DEF ReadCopied
  <2>1. CASE pc'[p] = "r_unlock"
    <3>0. pc' = [pc EXCEPT ![p] = "r_unlock"] /\ UNCHANGED <<cnt, resid>>
      BY <1>1, <1>4, <2>1 DEF ReadCopied
    <3>1. SleepEffect(p, "r_unlock")
      BY <1>1, <2>0, <3>0 DEF SleepEffect
    <3>2. ReadEffect(p, "r_unlock")
      BY <1>1, <2>0, <3>0 DEF ReadEffect
    <3>3. WriteEffect(p, "r_unlock")
      BY <1>1, <2>0, <3>0 DEF WriteEffect, KeepsSize
    <3> QED BY <1>1, <2>0, <3>1, <3>2, <3>3, WakeMove
  <2>2. CASE pc'[p] # "r_unlock"
    <3> DEFINE n == amount[p]
    <3>0. /\ n \in 1 .. cnt /\ n <= resid[p] /\ n \in Nat /\ pc' = [pc EXCEPT ![p] = "r_loop"]
          /\ Pointers(n) /\ resid' = [resid EXCEPT ![p] = @ - n]
      BY <1>1, <1>4, <2>2, ReadMoves
    <3> HIDE DEF n
    <3>1. SleepEffect(p, "r_loop")
      BY <1>1, <2>0, <3>0 DEF SleepEffect
    <3>2. cnt' = cnt - n
      BY <3>0 DEF Pointers
    <3>3. ReadEffect(p, "r_loop")
      BY <1>1, <2>0, <3>0, <3>2 DEF ReadEffect
    <3>4. resid'[p] < length'[p] /\ \A q \in Procs : q # p => resid'[q] = resid[q]
      <4>1. resid[p] <= length[p]
        BY <1>1 DEF Data, UioInv
      <4> QED BY <1>1, <2>0, <3>0, <4>1
    <3>5. WriteEffect(p, "r_loop")
      BY <1>1, <2>0, <3>0, <3>2, <3>4 DEF WriteEffect, KeepsSize
    <3> QED BY <1>1, <2>0, <3>1, <3>3, <3>5, WakeMove
  <2> QED BY <2>1, <2>2
<1>5. CASE ReadDone(p)
  <2>1. SleepEffect(p, "r_unlock")
    BY <1>1, <1>5 DEF ReadDone, SleepEffect
  <2>2. ReadEffect(p, "r_unlock")
    BY <1>1, <1>5 DEF ReadDone, ReadEffect
  <2>3. WriteEffect(p, "r_unlock")
    BY <1>1, <1>5 DEF ReadDone, WriteEffect, KeepsSize
  <2> QED BY <1>1, <1>5, <2>1, <2>2, <2>3, WakeMove DEF ReadDone
<1>6. CASE ReadUnlock(p)
  <2>1. SleepEffect(p, "r_exit")
    BY <1>1, <1>6 DEF ReadUnlock, SleepEffect
  <2>2. ReadEffect(p, "r_exit")
    BY <1>1, <1>6 DEF ReadUnlock, ReadEffect
  <2>3. WriteEffect(p, "r_exit")
    BY <1>1, <1>6 DEF ReadUnlock, WriteEffect, KeepsSize
  <2> QED BY <1>1, <1>6, <2>1, <2>2, <2>3, WakeMove DEF ReadUnlock
<1>7. CASE ReadWait(p)
  <2>0. PICK b \in {"r_exit", "piperd"} :
          /\ pc' = [pc EXCEPT ![p] = b]
          /\ b = "r_exit" => p \notin sleeping'
          /\ b = "piperd" => "WANTR" \in pipe_state'
    BY <1>1, <1>7 DEF ReadWait
  <2>1. SleepEffect(p, b)
    BY <1>1, <1>7, <2>0 DEF ReadWait, SleepEffect
  <2>2. ReadEffect(p, b)
    BY <1>1, <1>7, <2>0 DEF ReadWait, ReadEffect
  <2>3. WriteEffect(p, b)
    BY <1>1, <1>7, <2>0 DEF ReadWait, WriteEffect, KeepsSize
  <2> QED BY <1>1, <1>7, <2>1, <2>2, <2>3, WakeMove DEF ReadWait
<1>8. CASE ReadWoken(p)
  <2>1. SleepEffect(p, "lk_reread")
    BY <1>1, <1>8 DEF ReadWoken, SleepEffect
  <2>2. ReadEffect(p, "lk_reread")
    BY <1>1, <1>8 DEF ReadWoken, ReadEffect
  <2>3. WriteEffect(p, "lk_reread")
    BY <1>1, <1>8 DEF ReadWoken, WriteEffect, KeepsSize
  <2> QED BY <1>1, <1>8, <2>1, <2>2, <2>3, WakeMove DEF ReadWoken
<1>9. CASE ReadExit(p)
  <2>1. SleepEffect(p, "idle")
    BY <1>1, <1>9 DEF ReadExit, ReadWake, ReadSel, SleepEffect
  <2>2. ReadEffect(p, "idle")
    BY <1>1, <1>9 DEF ReadExit, ReadEffect
  <2>3. WriteEffect(p, "idle")
    BY <1>1, <1>9 DEF ReadExit, ReadWake, ReadSel, WriteEffect, KeepsSize
  <2> QED BY <1>1, <1>9, <2>1, <2>2, <2>3, WakeMove DEF ReadExit
<1> QED BY <1>2, <1>3, <1>4, <1>5, <1>6, <1>7, <1>8, <1>9 DEF ReadStep

LEMMA WriteWakes ==
  ASSUME Ctl, Data, Data', Wake, NEW p \in Writers, pipe_write(p) \/ WriteStep(p), ~pipelock(p)
  PROVE  Wake'
<1> USE DEF At, Go, GiveWay, Continue, Leave, Notify, pipeunlock, LockSleeps, Writing, ReadWork, AllTold,
            buf, ends, uio, hist
<1>1. /\ p \in Procs /\ p # Closer /\ pc \in [Procs -> Pcs] /\ sleeping \subseteq Procs /\ pipe_busy \in Nat
      /\ resid \in [Procs -> Nat] /\ length \in [Procs -> Nat] /\ cnt \in Nat /\ cnt' \in Nat
      /\ polling \in [Pollers -> {"no", "in", "out"}] /\ size \in Nat
  BY Known, Finite
<1>2. CASE pipe_write(p)
  <2>0. PICK b \in {"lk_resize", "w_loop"} :
          pc' = [pc EXCEPT ![p] = b]
    BY <1>1, <1>2 DEF pipe_write
  <2>1. SleepEffect(p, b)
    <3>1. /\ p \notin sleeping /\ pipe_busy' = pipe_busy + 1
          /\ UNCHANGED <<pipe_state, sleeping, polling>>
      BY <1>2 DEF pipe_write
    <3> QED BY <1>1, <2>0, <3>1 DEF SleepEffect
  <2>2. ReadEffect(p, b)
    BY <1>1, <1>2, <2>0 DEF pipe_write, ReadEffect
  <2>3. WriteEffect(p, b)
    BY <1>1, <1>2, <2>0 DEF pipe_write, WriteEffect, KeepsSize
  <2> QED BY <1>1, <1>2, <2>1, <2>2, <2>3, WakeMove DEF pipe_write
<1>3. CASE Resize(p)
  <2>1. SleepEffect(p, "w_loop")
    BY <1>1, <1>3 DEF Resize, SleepEffect
  <2>2. ReadEffect(p, "w_loop")
    BY <1>1, <1>3 DEF Resize, ReadEffect
  <2>3. ~KeepsSize
    BY <1>1, <1>3 DEF Resize, Data, KeepInv, Resizing
  <2>4. WriteEffect(p, "w_loop")
    BY <1>1, <1>3, <2>3 DEF Resize, WriteEffect
  <2> QED BY <1>1, <1>3, <2>1, <2>2, <2>4, WakeMove DEF Resize
<1>4. CASE WriteEarly(p)
  <2>1. SleepEffect(p, "idle")
    BY <1>1, <1>4 DEF WriteEarly, SleepEffect
  <2>2. ReadEffect(p, "idle")
    BY <1>1, <1>4 DEF WriteEarly, ReadEffect
  <2>3. WriteEffect(p, "idle")
    BY <1>1, <1>4 DEF WriteEarly, WriteEffect, KeepsSize
  <2> QED BY <1>1, <1>4, <2>1, <2>2, <2>3, WakeMove DEF WriteEarly
<1>5. CASE WriteDone(p)
  <2>1. SleepEffect(p, "w_exit")
    BY <1>1, <1>5 DEF WriteDone, SleepEffect
  <2>2. ReadEffect(p, "w_exit")
    BY <1>1, <1>5 DEF WriteDone, ReadEffect
  <2>3. WriteEffect(p, "w_exit")
    BY <1>1, <1>5 DEF WriteDone, WriteEffect, KeepsSize
  <2> QED BY <1>1, <1>5, <2>1, <2>2, <2>3, WakeMove DEF WriteDone
<1>6. CASE WriteSome(p)
  <2>1. SleepEffect(p, "lk_write")
    BY <1>1, <1>6 DEF WriteSome, SleepEffect
  <2>2. ReadEffect(p, "lk_write")
    BY <1>1, <1>6 DEF WriteSome, ReadEffect
  <2>3. WriteEffect(p, "lk_write")
    BY <1>1, <1>6 DEF WriteSome, WriteEffect, KeepsSize
  <2> QED BY <1>1, <1>6, <2>1, <2>2, <2>3, WakeMove DEF WriteSome
<1>7. CASE WriteWait(p)
  <2>0. PICK b \in {"w_exit", "pipewr"} :
          /\ pc' = [pc EXCEPT ![p] = b]
          /\ b = "w_exit" => p \notin sleeping'
          /\ b = "pipewr" => "WANTW" \in pipe_state' /\ "EOF" \notin pipe_state'
          /\ b = "pipewr" /\ "WANTR" \in pipe_state => sleeping' \subseteq {p}
          /\ b = "pipewr" /\ "SEL" \in pipe_state => AllTold
    BY <1>1, <1>7 DEF WriteWait
  <2>1. SleepEffect(p, b)
    BY <1>1, <1>7, <2>0 DEF WriteWait, SleepEffect
  <2>2. ReadEffect(p, b)
    BY <1>1, <1>7, <2>0 DEF WriteWait, ReadEffect
  <2>3. KeepsSize => cnt' = cnt /\ ~(cnt < MINPIPESIZE)
    <3>1. /\ cnt' = cnt /\ Space(p) = 0 /\ resid[p] > 0
      BY <1>7 DEF WriteWait
    <3>2. /\ resid[p] <= length[p] /\ (KeepsSize => size = PIPE_SIZE)
      BY <1>1 DEF Data, KeepInv, UioInv
    <3>3. cnt \in 0 .. size
      BY DEF Data, DataTypes
    <3> QED BY <1>1, <3>1, <3>2, <3>3, Sizes DEF Space
  <2>4. WriteEffect(p, b)
    BY <1>1, <1>7, <2>0, <2>3 DEF WriteWait, WriteEffect, KeepsSize
  <2> QED BY <1>1, <1>7, <2>1, <2>2, <2>4, WakeMove DEF WriteWait
<1>8. CASE WriteWoken(p)
  <2>0. PICK b \in {"w_exit", "w_loop"} :
          pc' = [pc EXCEPT ![p] = b]
    BY <1>1, <1>8 DEF WriteWoken
  <2>1. SleepEffect(p, b)
    BY <1>1, <1>8, <2>0 DEF WriteWoken, SleepEffect
  <2>2. ReadEffect(p, b)
    BY <1>1, <1>8, <2>0 DEF WriteWoken, ReadEffect
  <2>3. WriteEffect(p, b)
    BY <1>1, <1>8, <2>0 DEF WriteWoken, WriteEffect, KeepsSize
  <2> QED BY <1>1, <1>8, <2>1, <2>2, <2>3, WakeMove DEF WriteWoken
<1>9. CASE WriteStart(p)
  <2>0. PICK b \in {"w_loop", "w_copy"} :
          pc' = [pc EXCEPT ![p] = b]
    BY <1>1, <1>9 DEF WriteStart
  <2>1. SleepEffect(p, b)
    BY <1>1, <1>9, <2>0 DEF WriteStart, SleepEffect
  <2>2. ReadEffect(p, b)
    BY <1>1, <1>9, <2>0 DEF WriteStart, ReadEffect
  <2>3. WriteEffect(p, b)
    BY <1>1, <1>9, <2>0 DEF WriteStart, WriteEffect, KeepsSize
  <2> QED BY <1>1, <1>9, <2>1, <2>2, <2>3, WakeMove DEF WriteStart
<1>10. CASE WriteCopied(p)
  <2>0. PICK b \in {"w_exit", "w_loop"} :
          /\ pc' = [pc EXCEPT ![p] = b]
          /\ pc[p] = "w_copy" /\ curproc \subseteq {p} /\ p \notin sleeping
          /\ UNCHANGED <<pipe_busy, size, length, others>>
          /\ Notify(pipe_state \ {"LOCK"}, {"LWANT"}, FALSE)
          /\ cnt' \in {cnt, cnt + amount[p]}
          /\ \A q \in Procs : q # p => resid'[q] = resid[q]
    BY <1>1, <1>10 DEF WriteCopied
  <2>1. SleepEffect(p, b)
    BY <1>1, <2>0 DEF SleepEffect
  <2>2. ReadEffect(p, b)
    BY <1>1, <2>0 DEF ReadEffect
  <2>3. amount[p] \in Nat
    BY <1>1 DEF Data, DataTypes
  <2>4. WriteEffect(p, b)
    BY <1>1, <2>0, <2>3 DEF WriteEffect, KeepsSize
  <2> QED BY <1>1, <2>0, <2>1, <2>2, <2>4, WakeMove
<1>11. CASE WriteExit(p)
  <2>1. SleepEffect(p, "idle")
    BY <1>1, <1>11 DEF WriteExit, SleepEffect, WriteWake
  <2>2. ReadEffect(p, "idle")
    BY <1>1, <1>11 DEF WriteExit, ReadEffect, WriteWake
  <2>3. WriteEffect(p, "idle")
    BY <1>1, <1>11 DEF WriteExit, WriteEffect, KeepsSize
  <2> QED BY <1>1, <1>11, <2>1, <2>2, <2>3, WakeMove DEF WriteExit
<1> QED BY <1>2, <1>3, <1>4, <1>5, <1>6, <1>7, <1>8, <1>9, <1>10, <1>11 DEF WriteStep

LEMMA LockWakes ==
  ASSUME Ctl, Data, Data', Wake, NEW p \in Procs, p # Closer, pipelock(p)
  PROVE  Wake'
<1> USE DEF At, Go, GiveWay, Continue, LockSleeps, Writing, ReadWork, AllTold, buf, ends, uio, hist
<1>1. /\ pc \in [Procs -> Pcs] /\ sleeping \subseteq Procs /\ pipe_busy \in Nat
      /\ resid \in [Procs -> Nat] /\ length \in [Procs -> Nat] /\ cnt \in Nat /\ cnt' \in Nat
      /\ polling \in [Pollers -> {"no", "in", "out"}] /\ size \in Nat
  BY Known
<1>2. /\ AfterLock["lk_read"] = "r_loop" /\ AfterLock["lk_reread"] = "r_loop"
      /\ AfterLock["lk_resize"] = "resize" /\ AfterLock["lk_write"] = "w_locked"
  BY DEF AfterLock
<1>3. PICK b :
        /\ pc' = [pc EXCEPT ![p] = b] /\ pc[p] \in LockSleeps /\ curproc \subseteq {p} /\ p \notin sleeping
        /\ \/ b = pc[p] /\ "LOCK" \in pipe_state /\ pipe_state' = pipe_state \union {"LWANT"}
              /\ sleeping' = sleeping \union {p} /\ UNCHANGED pipe_busy
           \/ /\ pipe_state' = pipe_state \union {"LOCK"} /\ UNCHANGED sleeping
              /\ "LOCK" \notin pipe_state /\ pipe_busy' \in {pipe_busy, pipe_busy + 1}
              /\ \/ pc[p] \in {"lk_read", "lk_reread"} /\ b = "r_loop"
                 \/ pc[p] = "lk_resize" /\ b = "resize"
                 \/ pc[p] = "lk_write" /\ b = "w_locked"
  BY <1>1, <1>2 DEF pipelock
<1>4. UNCHANGED <<cnt, size, resid, length, polling, others>>
  BY DEF pipelock
<1>5. SleepEffect(p, b)
  BY <1>1, <1>3, <1>4 DEF SleepEffect
<1>6. ReadEffect(p, b)
  BY <1>1, <1>3, <1>4 DEF ReadEffect
<1>7. WriteEffect(p, b)
  BY <1>1, <1>3, <1>4 DEF WriteEffect, KeepsSize
<1> QED BY <1>1, <1>3, <1>5, <1>6, <1>7, WakeMove

LEMMA SignalWakes ==
  ASSUME Ctl, Data, Data', Wake, NEW p \in Procs, p # Closer, Signal(p)
  PROVE  Wake'
<1> USE DEF Go, LockSleeps, Writing, ReadWork, AllTold, buf, ends, uio, hist
<1>1. /\ pc \in [Procs -> Pcs] /\ sleeping \subseteq Procs /\ pipe_busy \in Nat
      /\ resid \in [Procs -> Nat] /\ length \in [Procs -> Nat] /\ cnt \in Nat /\ cnt' \in Nat
      /\ polling \in [Pollers -> {"no", "in", "out"}] /\ size \in Nat
  BY Known
<1>2. /\ AfterSignal["lk_reread"] = "r_exit" /\ AfterSignal["piperd"] = "r_exit"
      /\ AfterSignal["lk_resize"] = "w_early" /\ AfterSignal["lk_write"] = "w_exit"
      /\ AfterSignal["pipewr"] = "w_exit"
      /\ DOMAIN AfterSignal = {"lk_reread", "piperd", "lk_resize", "lk_write", "pipewr"}
  BY DEF AfterSignal
<1>3. PICK b :
        /\ pc' = [pc EXCEPT ![p] = b] /\ sleeping' = sleeping \ {p} /\ pc[p] \notin ReadWork
        /\ \A q \in Procs : q # p => resid'[q] = resid[q] /\ length'[q] = length[q]
        /\ pc[p] \in Writing \union {"pipewr"} => b \in Writing
        /\ UNCHANGED <<pipe_state, pipe_busy, curproc, cnt, size, polling, others>>
  BY <1>1, <1>2 DEF Signal
<1>4. SleepEffect(p, b)
  BY <1>1, <1>3 DEF SleepEffect
<1>5. ReadEffect(p, b)
  BY <1>1, <1>3 DEF ReadEffect
<1>6. WriteEffect(p, b)
  BY <1>1, <1>3 DEF WriteEffect, KeepsSize
<1> QED BY <1>1, <1>3, <1>4, <1>5, <1>6, WakeMove

LEMMA CloseWakes ==
  ASSUME Ctl, Data, Data', Wake,
         (\E p \in Pollers : pipe_poll(p)) \/ CloseRead \/ Pipecl \/ FreePipe \/ CloseWrite
  PROVE  Wake'
<1> USE DEF At, Go, GiveWay, Continue, Leave, Notify, Writing, ReadWork, Asleep, buf, ends, uio, hist
<1>1. /\ pc \in [Procs -> Pcs] /\ sleeping \subseteq Procs /\ pipe_busy \in Nat
      /\ resid \in [Procs -> Nat] /\ length \in [Procs -> Nat] /\ cnt \in Nat /\ cnt' \in Nat
      /\ polling \in [Pollers -> {"no", "in", "out"}] /\ size \in Nat /\ Closer \in Procs
      /\ Readers \subseteq Procs \ {Closer} /\ Writers \subseteq Procs \ {Closer}
  BY Known, Finite
<1>2. /\ SleepPlaces /\ FlagsUp /\ EofTold /\ SelUp /\ ReadersTold /\ WritersTold /\ EndsInv
  BY DEF Wake, Ctl
<1>3. ASSUME NEW p \in Pollers, pipe_poll(p) PROVE Wake'
  <2>1. /\ UNCHANGED <<pipe_busy, cnt, size, pc, sleeping, curproc, resid, length, others>>
        /\ pipe_state' = pipe_state \union {"SEL"} /\ polling[p] = "no"
        /\ \/ ~Readable /\ polling' = [polling EXCEPT ![p] = "in"]
           \/ ~Writable /\ polling' = [polling EXCEPT ![p] = "out"]
    BY <1>3 DEF pipe_poll
  <2>2. "EOF" \notin pipe_state /\ "EOF" \notin pipe_state'
    BY <2>1 DEF Readable, Writable
  <2>3. SleepPlaces' /\ FlagsUp' /\ EofTold' /\ SelUp'
    BY <1>1, <1>2, <2>1, <2>2 DEF SleepPlaces, FlagsUp, EofTold, SelUp
  <2>4. \A q \in Pollers : /\ polling'[q] = "in" => polling[q] = "in" \/ ~(cnt > 0)
                           /\ polling'[q] = "out" => polling[q] = "out" \/ ~(size - cnt >= PIPE_BUF)
    BY <1>1, <2>1 DEF Readable, Writable
  <2>5. ReadersTold'
    BY <1>2, <2>1, <2>4 DEF ReadersTold
  <2>6. WritersTold'
    BY <1>2, <2>1, <2>4 DEF WritersTold, KeepsSize
  <2> QED BY <2>3, <2>5, <2>6 DEF Wake
<1>4. CASE CloseRead
  <2>1. /\ UNCHANGED <<pipe_busy, cnt, size, sleeping, resid, length, others>> /\ rend = "open"
        /\ pc' = [pc EXCEPT ![Closer] = "pipecl"] /\ curproc' = {Closer}
        /\ pipe_state' = (pipe_state \union {"EOF"}) \ {"SEL"}
        /\ polling' = IF "SEL" \in pipe_state THEN [p \in Pollers |-> "no"] ELSE polling
    BY <1>4 DEF CloseRead
  <2>2. \A q \in Pollers : polling'[q] = "no"
    BY <1>1, <1>2, <2>1 DEF SelUp
  <2>3. Closer \notin sleeping
    BY <1>2, <2>1 DEF EndsInv, SleepPlaces, LockSleeps
  <2>4. pc'[Closer] = "pipecl" /\ \A q \in Procs : q # Closer => pc'[q] = pc[q]
    BY <1>1, <2>1
  <2>5. SleepPlaces' /\ FlagsUp' /\ SelUp'
    BY <1>1, <1>2, <2>1, <2>2, <2>3, <2>4 DEF SleepPlaces, FlagsUp, SelUp
  <2>6. EofTold'
    BY <2>1, <2>2, <2>3, <2>4 DEF EofTold
  <2>7. ReadersTold'
    BY <1>1, <1>2, <2>1, <2>2, <2>3, <2>4 DEF ReadersTold
  <2>8. WritersTold'
    BY <1>1, <1>2, <2>1, <2>2, <2>3, <2>4 DEF WritersTold, KeepsSize
  <2> QED BY <2>5, <2>6, <2>7, <2>8 DEF Wake
<1>5. CASE Pipecl
  <2>1. /\ UNCHANGED <<pipe_busy, polling>> /\ pipe_busy > 0
        /\ pipe_state' = pipe_state \union {"WANT"} /\ sleeping' = {Closer}
        /\ pc[Closer] = "pipecl" /\ pc' = [pc EXCEPT ![Closer] = "pipecl"] /\ rend = "closing"
    BY <1>5 DEF Pipecl
  <2>2. pc'[Closer] = "pipecl"
    BY <1>1, <2>1
  <2>3. "EOF" \in pipe_state
    BY <1>2, <2>1 DEF EndsInv
  <2>4. \A q \in Pollers : polling'[q] = "no"
    BY <1>2, <2>1, <2>3 DEF EofTold
  <2>5. SleepPlaces' /\ FlagsUp' /\ EofTold' /\ SelUp' /\ ReadersTold' /\ WritersTold'
    BY <2>1, <2>2, <2>4 DEF SleepPlaces, FlagsUp, EofTold, SelUp, ReadersTold, WritersTold, LockSleeps
  <2> QED BY <2>5 DEF Wake
<1>6. CASE FreePipe
  <2>1. /\ UNCHANGED <<pipe_state, pipe_busy, sleeping, polling>> /\ pipe_busy = 0 /\ rend = "closing"
        /\ pc' = [pc EXCEPT ![Closer] = "idle"] /\ Closer \notin sleeping
    BY <1>6 DEF FreePipe, RunDown
  <2>2. Busy = {}
    <3>1. IsFiniteSet(Busy)
      BY Finite, FS_Subset DEF Busy
    <3> QED BY <2>1, <3>1, FS_EmptySet DEF Ctl
  <2>3. \A q \in Procs : q # Closer => pc'[q] = pc[q]
    BY <1>1, <2>1
  <2>4. \A q \in sleeping : pc[q] \in {"lk_read"} /\ pc'[q] = pc[q]
    BY <1>1, <1>2, <2>1, <2>2, <2>3 DEF Busy, Outside, EndsInv, SleepPlaces, LockSleeps
  <2>5. "EOF" \in pipe_state
    BY <1>2, <2>1 DEF EndsInv
  <2>6. \A q \in Pollers : polling'[q] = "no"
    BY <1>2, <2>1, <2>5 DEF EofTold
  <2>7. SleepPlaces' /\ FlagsUp' /\ EofTold' /\ SelUp'
    BY <1>2, <2>1, <2>4, <2>6 DEF SleepPlaces, FlagsUp, EofTold, SelUp, LockSleeps
  <2>8. ReadersTold' /\ WritersTold'
    BY <2>1, <2>4, <2>6 DEF ReadersTold, WritersTold
  <2> QED BY <2>7, <2>8 DEF Wake
<1>7. CASE CloseWrite
  <2>1. /\ UNCHANGED <<pipe_busy, cnt, size, pc, curproc, resid, length, others>>
    BY <1>7 DEF CloseWrite
  <2>2. CASE rend # "freed"
    <3>1. /\ pipe_state' = (pipe_state \ {"SEL"}) \union {"EOF"} /\ sleeping' = {}
          /\ polling' = IF "SEL" \in pipe_state THEN [p \in Pollers |-> "no"] ELSE polling
      BY <1>7, <2>2 DEF CloseWrite
    <3>2. \A q \in Pollers : polling'[q] = "no"
      BY <1>1, <1>2, <3>1 DEF SelUp
    <3>3. SleepPlaces' /\ FlagsUp' /\ EofTold' /\ SelUp' /\ ReadersTold' /\ WritersTold'
      BY <3>1, <3>2 DEF SleepPlaces, FlagsUp, EofTold, SelUp, ReadersTold, WritersTold
    <3> QED BY <3>3 DEF Wake
  <2>3. CASE rend = "freed"
    <3>1. UNCHANGED <<pipe_state, sleeping, polling>>
      BY <1>7, <2>3 DEF CloseWrite
    <3> QED BY <1>2, <2>1, <3>1 DEF Wake, SleepPlaces, FlagsUp, EofTold, SelUp, ReadersTold, WritersTold,
                                    KeepsSize
  <2> QED BY <2>2, <2>3
<1> QED BY <1>3, <1>4, <1>5, <1>6, <1>7

LEMMA WakeStep ==
  ASSUME Ctl, Data, Data', Wake, [Next]_vars
  PROVE  Wake'
<1>1. ASSUME NEW p \in Readers, pipe_read(p) \/ ReadStep(p) PROVE Wake'
  BY <1>1, Finite, ReadWakes, LockWakes
<1>2. ASSUME NEW p \in Writers, pipe_write(p) \/ WriteStep(p) PROVE Wake'
  BY <1>2, Finite, WriteWakes, LockWakes
<1>3. ASSUME NEW p \in Readers \union Writers, Signal(p) PROVE Wake'
  BY <1>3, Finite, SignalWakes
<1>4. CASE UNCHANGED vars
  BY <1>4 DEF vars, buf, uio, hist, Wake, SleepPlaces, FlagsUp, EofTold, SelUp, ReadersTold, WritersTold,
              Asleep, KeepsSize
<1> QED BY <1>1, <1>2, <1>3, <1>4, CloseWakes DEF Next

\* NoLostWakeup: with one channel for everybody and a flag for each kind of
\* sleeper, no order of sleeps, wakeups, signals, faults and closes leaves a
\* reader, a writer, a poller or pipeclose asleep for what has already come.
THEOREM NobodyForgotten == Spec => []NoLostWakeup
<1>1. Ctl /\ Data /\ Wake => NoLostWakeup
  <2> SUFFICES ASSUME Ctl, Data, Wake, Quiet, KeepsSize
               PROVE  /\ \A p \in sleeping :
                           \/ pc[p] = "piperd" /\ cnt = 0 /\ "EOF" \notin pipe_state
                           \/ /\ pc[p] = "pipewr" /\ cnt >= MINPIPESIZE /\ cnt > 0
                              /\ "EOF" \notin pipe_state
                      /\ \A p \in Pollers : /\ polling[p] = "in" => ~Readable
                                            /\ polling[p] = "out" => ~Writable
    BY DEF NoLostWakeup
  <2>0. /\ cnt \in Nat /\ size \in Nat /\ MINPIPESIZE \in Nat \ {0} /\ sleeping \subseteq Procs
        /\ Closer \in Procs /\ Writers \subseteq Procs /\ Readers \subseteq Procs
    BY Sizes, Finite DEF Ctl, CtlTypes, Data, DataTypes
  <2>1. "LOCK" \notin pipe_state
    <3>1. \A p \in Procs : pc[p] \notin Locked
      BY DEF Quiet, Wake, SleepPlaces, LockSleeps, Locked
    <3> QED BY <3>1 DEF Ctl, LockInv
  <2>2. \A p \in Procs : \/ pc[p] = "idle" \/ (p \in sleeping /\ pc[p] \in {"piperd", "pipewr", "pipecl"})
    BY <2>1 DEF Quiet, Wake, SleepPlaces, FlagsUp
  <2>3. "EOF" \in pipe_state => \A p \in sleeping : pc[p] \notin {"piperd", "pipewr"}
    BY <2>0, <2>2 DEF Wake, EofTold
  <2>4. Closer \notin sleeping
    <3> SUFFICES ASSUME Closer \in sleeping PROVE FALSE
      OBVIOUS
    <3>1. pc[Closer] = "pipecl" /\ rend = "closing" /\ "EOF" \in pipe_state /\ pipe_busy > 0
      BY <2>0, <2>1 DEF Ctl, EndsInv, Wake, SleepPlaces, FlagsUp, LockSleeps
    <3>2. Busy = {}
      BY <2>2, <2>3, <3>1 DEF Busy, Outside
    <3> QED BY <3>1, <3>2, FS_EmptySet DEF Ctl
  <2>5. \A p \in sleeping : pc[p] \in {"piperd", "pipewr"}
    BY <2>0, <2>1, <2>4 DEF Ctl, EndsInv, Wake, SleepPlaces, FlagsUp
  <2>6. ~(\E w \in Writers : pc[w] \in Writing \/ (pc[w] = "pipewr" /\ w \notin sleeping))
    BY <2>0, <2>2 DEF Writing
  <2>7. ~(\E r \in Readers : pc[r] \in ReadWork)
    BY <2>0, <2>2 DEF ReadWork
  <2>8. ASSUME NEW p \in sleeping
        PROVE  \/ pc[p] = "piperd" /\ cnt = 0 /\ "EOF" \notin pipe_state
               \/ pc[p] = "pipewr" /\ cnt >= MINPIPESIZE /\ cnt > 0 /\ "EOF" \notin pipe_state
    <3>1. CASE pc[p] = "piperd"
      BY <2>0, <2>3, <2>6, <3>1 DEF Wake, ReadersTold, Asleep
    <3>2. CASE pc[p] = "pipewr"
      <4>1. ~(cnt < MINPIPESIZE)
        BY <2>0, <2>7, <3>2 DEF Wake, WritersTold, Asleep
      <4> QED BY <2>0, <2>3, <3>2, <4>1
    <3> QED BY <2>5, <3>1, <3>2
  <2>9. ASSUME NEW p \in Pollers
        PROVE  /\ polling[p] = "in" => ~Readable
               /\ polling[p] = "out" => ~Writable
    <3>1. polling[p] # "no" => "EOF" \notin pipe_state /\ wend = "open" /\ rend = "open"
      BY DEF Wake, EofTold, Ctl, EndsInv
    <3>2. polling[p] = "in" => ~(cnt > 0)
      BY <2>6 DEF Wake, ReadersTold
    <3>3. polling[p] = "out" => ~(size - cnt >= PIPE_BUF)
      BY <2>7 DEF Wake, WritersTold
    <3> QED BY <3>1, <3>2, <3>3 DEF Readable, Writable
  <2> QED BY <2>8, <2>9
<1>2. Ctl /\ Data /\ Wake /\ [Next]_vars => Ctl' /\ Data' /\ Wake'
  BY CtlStep, DataStep, WakeStep
<1>3. Init => Ctl /\ Data /\ Wake
  <2>1. Init => Wake
    BY DEF Init, Wake, SleepPlaces, FlagsUp, EofTold, SelUp, ReadersTold, WritersTold, Asleep
  <2> QED BY <2>1, CtlInit, DataInit
<1> QED BY <1>1, <1>2, <1>3, PTL DEF Spec

=============================================================================
