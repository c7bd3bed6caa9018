---------------------------- MODULE RwLockProofs ----------------------------
(***************************************************************************)
(* For any number of processes: the lock word is exact, readers and        *)
(* writers exclude each other, no wakeup is lost, and the lock implements  *)
(* the readers-writer lock of ReadersWriter.                               *)
(***************************************************************************)
EXTENDS RwLock, FiniteSetTheorems, TLAPS

\* The word's arithmetic counts Readers, which is a finite set.
LEMMA ReadersFinite == IsFiniteSet(Readers) /\ Cardinality(Readers) \in Nat
<1>1. IsFiniteSet(Readers)
  BY ProcsAssumption, FS_Subset DEF Readers
<1> QED BY <1>1, FS_CardinalityType

\* A process that gets or gives up the lock joins or leaves the readers and
\* the writers, and nobody else does.
LEMMA HoldsMoves ==
  ASSUME TypeOK, NEW p \in Procs, NEW what, Holds(p, what)
  PROVE  /\ Readers' = IF what = "read" THEN Readers \union {p} ELSE Readers \ {p}
         /\ Writers' = IF what = "write" THEN Writers \union {p} ELSE Writers \ {p}
BY DEF TypeOK, Holds, Readers, Writers

\* A zero word means that nobody holds the lock.
LEMMA ZeroIsFree ==
  ASSUME WordTellsHolders, rwl_owner = Zero
  PROVE  Readers = {} /\ Writers = {}
<1>1. Cardinality(Readers) = 0 /\ Writers = {}
  BY DEF WordTellsHolders, Zero
<1> QED BY <1>1, ReadersFinite, FS_EmptySet

\* A process that holds the lock is told by the word.
LEMMA HolderKnown ==
  ASSUME TypeOK, WordTellsHolders, NEW p \in Procs
  PROVE  /\ held[p] = "write" => rwl_owner.wrlock /\ rwl_owner.hi = p
         /\ held[p] = "read" => ~rwl_owner.wrlock /\ rwl_owner.hi > 0
<1>1. ASSUME held[p] = "write"
      PROVE  rwl_owner.wrlock /\ rwl_owner.hi = p
  BY <1>1 DEF WordTellsHolders, Writers
<1>2. ASSUME held[p] = "read"
      PROVE  ~rwl_owner.wrlock /\ rwl_owner.hi > 0
  <2>1. p \in Readers
    BY <1>2 DEF Readers
  <2>2. ~rwl_owner.wrlock /\ rwl_owner.hi = Cardinality(Readers)
    BY <2>1 DEF WordTellsHolders
  <2>3. Cardinality(Readers) # 0
    BY <2>1, ReadersFinite, FS_EmptySet
  <2> QED BY <2>2, <2>3, ReadersFinite
<1> QED BY <1>1, <1>2

\* The three ways the holders and the word change together.
LEMMA ReaderJoins ==
  ASSUME TypeOK, WordTellsHolders, NEW p \in Procs,
         held[p] = "none", ~rwl_owner.wrlock,
         Holds(p, "read"), rwl_owner' = Granted(rwl_owner, "READ", p)
  PROVE  WordTellsHolders'
<1>1. Readers' = Readers \union {p} /\ Writers' = Writers \ {p}
  BY HoldsMoves
<1>2. p \notin Readers
  BY DEF Readers
<1>3. Cardinality(Readers') = Cardinality(Readers) + 1
  BY <1>1, <1>2, ReadersFinite, FS_AddElement
<1>4. rwl_owner'.hi = rwl_owner.hi + 1 /\ ~rwl_owner'.wrlock
  BY DEF Granted, TypeOK, Word
<1> QED BY <1>1, <1>3, <1>4 DEF WordTellsHolders

LEMMA ReaderLeaves ==
  ASSUME TypeOK, WordTellsHolders, NEW p \in Procs, held[p] = "read",
         Holds(p, "none"), rwl_owner'.hi = rwl_owner.hi - 1,
         rwl_owner'.wrlock = rwl_owner.wrlock
  PROVE  WordTellsHolders'
<1>1. Readers' = Readers \ {p} /\ Writers' = Writers \ {p}
  BY HoldsMoves
<1>2. p \in Readers
  BY DEF Readers
<1>3. Cardinality(Readers') = Cardinality(Readers) - 1
  BY <1>1, <1>2, ReadersFinite, FS_RemoveElement
<1>4. ~rwl_owner.wrlock
  BY HolderKnown
<1> QED BY <1>1, <1>3, <1>4 DEF WordTellsHolders

LEMMA WriterJoins ==
  ASSUME TypeOK, WordTellsHolders, NEW p \in Procs, rwl_owner = Zero,
         Holds(p, "write"), rwl_owner' = Granted(Zero, "WRITE", p)
  PROVE  WordTellsHolders'
<1>1. Readers' = {} /\ Writers' = {p}
  BY HoldsMoves, ZeroIsFree
<1>2. rwl_owner'.wrlock /\ rwl_owner'.hi = p
  BY ProcsAssumption DEF Granted, Zero
<1> QED BY <1>1, <1>2 DEF WordTellsHolders

LEMMA WriterLeaves ==
  ASSUME TypeOK, WordTellsHolders, NEW p \in Procs, held[p] = "write",
         Holds(p, "none"), rwl_owner' = Zero
  PROVE  WordTellsHolders'
<1>1. Writers = {p} /\ Readers = {}
  BY HolderKnown DEF WordTellsHolders
<1>2. Readers' = {} /\ Writers' = {}
  BY <1>1, HoldsMoves
<1>3. Cardinality(Readers') = 0
  BY <1>2, FS_EmptySet
<1> QED BY <1>2, <1>3 DEF WordTellsHolders, Zero

LEMMA WriterDowngrades ==
  ASSUME TypeOK, WordTellsHolders, NEW p \in Procs, held[p] = "write",
         Holds(p, "read"), rwl_owner' = Granted(rwl_owner, "DOWNGRADE", p)
  PROVE  WordTellsHolders' /\ rwl_owner'.hi = 1
<1>1. Writers = {p} /\ Readers = {} /\ rwl_owner.hi = p
  BY HolderKnown DEF WordTellsHolders
<1>2. Readers' = {p} /\ Writers' = {}
  BY <1>1, HoldsMoves
<1>3. Cardinality(Readers') = 1
  BY <1>2, FS_Singleton
<1>4. rwl_owner'.hi = 1 /\ ~rwl_owner'.wrlock
  BY <1>1, ProcsAssumption DEF Granted, TypeOK, Word
<1> QED BY <1>2, <1>3, <1>4 DEF WordTellsHolders

-----------------------------------------------------------------------------
\* A returned call leaves well-typed locals.
LEMMA IdleTypes ==
  /\ Called("READ", {}) \in [op : Ops, flags : FlagSets \union {{}}]
  /\ Zero \in Word
BY DEF Called, Ops, Zero, Word

LEMMA ReturnTypes ==
  ASSUME TypeOK, NEW p \in Procs, ForgetCall(p)
  PROVE  /\ call' \in [Procs -> [op : Ops, flags : FlagSets \union {{}}]]
         /\ o' \in [Procs -> Word]
         /\ wrlock' \in [Procs -> BOOLEAN]
BY IdleTypes DEF TypeOK, ForgetCall, Forget

\* The initial word is zero, and every process is outside.
LEMMA InitIInv == Init => IInv /\ NoLostWakeup
<1> SUFFICES ASSUME Init PROVE IInv /\ NoLostWakeup
  OBVIOUS
<1>1. TypeOK
  BY DEF Init, TypeOK, Word, Zero, PCs, Ops, Called
<1>2. Readers = {} /\ Writers = {} /\ Asleep = {}
  BY DEF Init, Readers, Writers, Asleep
<1>3. WordTellsHolders
  BY <1>2, FS_EmptySet DEF Init, WordTellsHolders, Zero
<1>4. NoOrphanWaiterBits /\ WantImpliesWait /\ NoLostWakeup
  BY <1>2 DEF Init, NoOrphanWaiterBits, WantImpliesWait, NoLostWakeup, Zero
<1>5. LocalsInv
  BY DEF Init, LocalsInv, Called, Leaving, Entering
<1> QED BY <1>1, <1>3, <1>4, <1>5 DEF IInv

\* A step that leaves the word and the holders alone keeps the invariants
\* that speak of nothing else.
LEMMA WordUntouched ==
  ASSUME IInv, UNCHANGED <<rwl_owner, held>>
  PROVE  WordTellsHolders' /\ NoOrphanWaiterBits' /\ WantImpliesWait'
BY DEF IInv, WordTellsHolders, Readers, Writers, NoOrphanWaiterBits,
       WantImpliesWait, Zero

\* The calls, the loads, and the steps of a sleeper touch only the process's
\* own position and locals.
LEMMA QuietStep ==
  ASSUME IInv, NEW p \in Procs,
         \/ CallEnterRead(p)
         \/ \E how \in Ops, fl \in FlagSets : CallEnter(p, how, fl)
         \/ CallDowngrade(p) \/ EnterLoad(p) \/ Signal(p) \/ Awake(p)
         \/ CallFastExit(p) \/ CallExit(p) \/ Exit(p) \/ ExitLoad(p)
  PROVE  IInv' /\ UNCHANGED <<rwl_owner, held>>
<1> USE DEF IInv, Goto, Load, Return, Called
<1>1. CASE CallEnterRead(p)
  <2>1. TypeOK' /\ UNCHANGED <<rwl_owner, held>>
    BY <1>1 DEF CallEnterRead, TypeOK, PCs
  <2>2. LocalsInv'
    BY <1>1 DEF CallEnterRead, TypeOK, LocalsInv, Leaving, Entering
  <2> QED BY <2>1, <2>2, WordUntouched
<1>2. CASE \E how \in Ops, fl \in FlagSets : CallEnter(p, how, fl)
  <2>1. TypeOK' /\ UNCHANGED <<rwl_owner, held>>
    BY <1>2 DEF CallEnter, TypeOK, PCs, Ops
  <2>2. LocalsInv'
    BY <1>2 DEF CallEnter, TypeOK, LocalsInv, Leaving, Entering
  <2> QED BY <2>1, <2>2, WordUntouched
<1>3. CASE CallDowngrade(p)
  <2>1. TypeOK' /\ UNCHANGED <<rwl_owner, held>>
    BY <1>3 DEF CallDowngrade, TypeOK, PCs, Ops
  <2>2. LocalsInv'
    BY <1>3 DEF CallDowngrade, TypeOK, LocalsInv, Leaving, Entering
  <2> QED BY <2>1, <2>2, WordUntouched
<1>4. CASE EnterLoad(p)
  <2>1. TypeOK' /\ UNCHANGED <<rwl_owner, held>>
    BY <1>4, ReturnTypes DEF EnterLoad, TypeOK, PCs
  <2>2. LocalsInv'
    BY <1>4 DEF EnterLoad, TypeOK, LocalsInv, Leaving, Entering, Busy,
                ForgetCall, Forget
  <2> QED BY <2>1, <2>2, WordUntouched
<1>5. CASE Signal(p)
  <2>1. TypeOK' /\ UNCHANGED <<rwl_owner, held>>
    BY <1>5 DEF Signal, TypeOK, PCs
  <2>2. LocalsInv'
    BY <1>5 DEF Signal, TypeOK, LocalsInv, Leaving, Entering
  <2> QED BY <2>1, <2>2, WordUntouched
<1>6. CASE Awake(p)
  <2>1. TypeOK' /\ UNCHANGED <<rwl_owner, held>>
    BY <1>6, ReturnTypes DEF Awake, TypeOK, PCs
  <2>2. LocalsInv'
    BY <1>6 DEF Awake, TypeOK, LocalsInv, Leaving, Entering, ForgetCall, Forget
  <2> QED BY <2>1, <2>2, WordUntouched
<1>7. CASE CallFastExit(p)
  <2>1. TypeOK' /\ UNCHANGED <<rwl_owner, held>>
    BY <1>7 DEF CallFastExit, TypeOK, PCs
  <2>2. LocalsInv'
    BY <1>7 DEF CallFastExit, TypeOK, LocalsInv, Leaving, Entering
  <2> QED BY <2>1, <2>2, WordUntouched
<1>8. CASE CallExit(p)
  <2>1. TypeOK' /\ UNCHANGED <<rwl_owner, held>>
    BY <1>8 DEF CallExit, TypeOK, PCs
  <2>2. LocalsInv'
    BY <1>8 DEF CallExit, TypeOK, LocalsInv, Leaving, Entering
  <2> QED BY <2>1, <2>2, WordUntouched
<1>9. CASE Exit(p)
  <2>1. TypeOK' /\ UNCHANGED <<rwl_owner, held>>
    BY <1>9 DEF Exit, TypeOK, PCs, Word
  <2>2. rwl_owner.wrlock = (held[p] = "write")
    BY <1>9, HolderKnown DEF Exit, LocalsInv, Leaving, TypeOK, Word
  <2>3. LocalsInv'
    BY <1>9, <2>2 DEF Exit, TypeOK, LocalsInv, Leaving, Entering
  <2> QED BY <2>1, <2>3, WordUntouched
<1>10. CASE ExitLoad(p)
  <2>1. TypeOK' /\ UNCHANGED <<rwl_owner, held>>
    BY <1>10 DEF ExitLoad, TypeOK, PCs
  <2>2. LocalsInv'
    BY <1>10 DEF ExitLoad, TypeOK, LocalsInv, Leaving, Entering
  <2> QED BY <2>1, <2>2, WordUntouched
<1> QED BY <1>1, <1>2, <1>3, <1>4, <1>5, <1>6, <1>7, <1>8, <1>9, <1>10

\* The process goes into or comes out of the waiting state: only the waiter
\* bits of a word that is not free change.
LEMMA BlockStep ==
  ASSUME IInv, NEW p \in Procs, Block(p)
  PROVE  IInv'
<1> USE DEF IInv, Goto
<1>1. CASE CasFail(p)
  <2>1. TypeOK' /\ UNCHANGED <<rwl_owner, held>>
    BY <1>1, IdleTypes DEF Block, CasFail, CasOk, TypeOK, PCs, Forget
  <2>2. LocalsInv'
    BY <1>1 DEF Block, CasFail, CasOk, TypeOK, LocalsInv, Leaving, Entering, Forget
  <2> QED BY <2>1, <2>2, WordUntouched
<1>2. CASE CasOk(p, WithWaitSet(o[p], call[p].op))
  <2>1. /\ rwl_owner' \in Word
        /\ rwl_owner'.wait
        /\ rwl_owner'.hi = rwl_owner.hi /\ rwl_owner'.wrlock = rwl_owner.wrlock
    BY <1>2 DEF CasOk, WithWaitSet, TypeOK, Word
  <2>2. TypeOK' /\ UNCHANGED held
    BY <1>2, <2>1, IdleTypes DEF Block, CasFail, CasOk, TypeOK, PCs, Forget
  <2>3. Busy(rwl_owner, call[p].op)
    BY <1>2 DEF Block, CasOk, LocalsInv
  <2>4. rwl_owner.hi # 0
    BY <2>3 DEF Busy, NoOrphanWaiterBits, Zero
  <2>5. WordTellsHolders'
    BY <2>1, <2>2 DEF WordTellsHolders, Readers, Writers
  <2>6. NoOrphanWaiterBits' /\ WantImpliesWait'
    BY <2>1, <2>4 DEF NoOrphanWaiterBits, WantImpliesWait
  <2>7. LocalsInv'
    BY <1>2 DEF Block, CasFail, CasOk, TypeOK, LocalsInv, Leaving, Entering, Forget
  <2> QED BY <2>2, <2>5, <2>6, <2>7
<1> QED BY <1>1, <1>2 DEF Block

\* A failed compare-and-swap sends the process back, and changes nothing
\* that others can see.
LEMMA RetryStep ==
  ASSUME IInv, NEW p \in Procs, CasFail(p), Forget(p),
         UNCHANGED <<call, wrlock, held>>,
         \/ pc[p] \in {"read_cas", "take"} /\ Goto(p, "enter")
         \/ pc[p] \in {"rexit_cas", "wexit_cas"} /\ Goto(p, "exit")
         \/ pc[p] = "exit_cas" /\ Goto(p, "exit_load")
  PROVE  IInv' /\ UNCHANGED <<rwl_owner, held>>
<1>1. TypeOK' /\ UNCHANGED <<rwl_owner, held>>
  BY IdleTypes DEF IInv, CasFail, TypeOK, PCs, Forget, Goto
<1>2. LocalsInv'
  BY DEF IInv, TypeOK, LocalsInv, Leaving, Entering, Forget, Goto
<1> QED BY <1>1, <1>2, WordUntouched DEF IInv

\* A call that ends, with the lock or without it, on its way to wakeup or
\* out, leaves the locals of every process in order.
LEMMA EndOfCall ==
  ASSUME IInv, NEW p \in Procs, NEW what \in {"none", "read", "write"},
         ForgetCall(p), Holds(p, what),
         \E label \in {"out", "notify"} : Goto(p, label)
  PROVE  LocalsInv' /\ (rwl_owner' \in Word => TypeOK')
<1>1. PICK label \in {"out", "notify"} : Goto(p, label)
  OBVIOUS
<1>2. LocalsInv'
  <2>1. /\ pc'[p] = label /\ call'[p].op = "READ"
        /\ \A q \in Procs \ {p} :
             /\ pc'[q] = pc[q] /\ call'[q] = call[q] /\ o'[q] = o[q]
             /\ wrlock'[q] = wrlock[q] /\ held'[q] = held[q]
    BY <1>1 DEF IInv, TypeOK, Forget, ForgetCall, Goto, Holds, Called
  <2> QED BY <2>1 DEF IInv, LocalsInv, Leaving, Entering
<1>3. rwl_owner' \in Word => TypeOK'
  BY <1>1, ReturnTypes DEF IInv, TypeOK, Holds, Goto, PCs
<1> QED BY <1>2, <1>3

\* A grant leaves the waiter bits alone, and the word says that the lock is
\* held; a reader's release clears them and takes one reader away.
LEMMA GrantedFields ==
  ASSUME NEW w \in Word, NEW how \in Ops, NEW p \in Procs,
         how = "DOWNGRADE" => w.hi = p
  PROVE  /\ Granted(w, how, p) \in Word
         /\ Granted(w, how, p).wait = w.wait
         /\ Granted(w, how, p).wrwant = w.wrwant
         /\ Granted(w, how, p).hi # 0
<1>0. p \in Nat /\ p # 0
  BY ProcsAssumption
<1>1. Granted(w, how, p) \in Word
  <2>1. CASE how = "WRITE"
    <3>1. w.hi + p \in Nat
      BY <1>0 DEF Word
    <3> QED BY <2>1, <3>1 DEF Granted, Word
  <2>2. CASE how = "READ"
    BY <2>2 DEF Granted, Word
  <2>3. CASE how = "DOWNGRADE"
    <3>1. w.hi - p + 1 \in Nat
      BY <1>0, <2>3
    <3> QED BY <2>3, <3>1 DEF Granted, Word
  <2> QED BY <2>1, <2>2, <2>3 DEF Ops
<1>2. Granted(w, how, p).wait = w.wait
  BY DEF Granted, Word
<1>3. Granted(w, how, p).wrwant = w.wrwant
  BY DEF Granted, Word
<1>4. Granted(w, how, p).hi # 0
  BY <1>0 DEF Granted, Word, Ops
<1> QED BY <1>1, <1>2, <1>3, <1>4

LEMMA ReleasedFields ==
  ASSUME NEW w \in Word, w.hi > 0
  PROVE  /\ [w EXCEPT !.hi = @ - 1] \in Word
         /\ Released(w, FALSE) \in Word
         /\ ~Released(w, FALSE).wait /\ ~Released(w, FALSE).wrwant
         /\ Released(w, FALSE).hi = w.hi - 1
         /\ Released(w, FALSE).wrlock = w.wrlock
<1>1. w.hi - 1 \in Nat
  BY DEF Word
<1> QED BY <1>1 DEF Released, Word

\* The compare-and-swap of rw_enter_read.
LEMMA ReadCasStep ==
  ASSUME IInv, NEW p \in Procs, ReadCas(p)
  PROVE  IInv'
<1>1. CASE CasFail(p)
  BY <1>1, RetryStep DEF ReadCas, CasFail, CasOk
<1>2. CASE CasOk(p, Granted(o[p], "READ", p))
  <2>1. /\ Holds(p, "read") /\ ForgetCall(p) /\ Goto(p, "out")
        /\ rwl_owner' = Granted(rwl_owner, "READ", p)
        /\ held[p] = "none" /\ ~rwl_owner.wrlock
    BY <1>2 DEF ReadCas, CasOk, CasFail, Return, IInv, LocalsInv, Entering
  <2>2. WordTellsHolders'
    BY <2>1, ReaderJoins DEF IInv
  <2>3. rwl_owner' \in Word /\ NoOrphanWaiterBits' /\ WantImpliesWait'
    BY <2>1 DEF IInv, TypeOK, Word, Granted, NoOrphanWaiterBits, WantImpliesWait
  <2> QED BY <2>1, <2>2, <2>3, EndOfCall DEF IInv
<1> QED BY <1>1, <1>2 DEF ReadCas

\* The compare-and-swap of rw_enter_write.
LEMMA EnterWriteStep ==
  ASSUME IInv, NEW p \in Procs, CallEnterWrite(p)
  PROVE  IInv'
<1>1. CASE rwl_owner # Zero
  <2>1. TypeOK' /\ UNCHANGED <<rwl_owner, held>>
    BY <1>1 DEF CallEnterWrite, IInv, TypeOK, PCs, Ops, Goto, Called
  <2>2. LocalsInv'
    BY <1>1 DEF CallEnterWrite, IInv, TypeOK, LocalsInv, Leaving, Entering,
                Goto, Called
  <2> QED BY <2>1, <2>2, WordUntouched DEF IInv
<1>2. CASE rwl_owner = Zero
  <2>1. /\ Holds(p, "write") /\ rwl_owner' = Granted(Zero, "WRITE", p)
        /\ pc[p] = "out" /\ UNCHANGED <<pc, call, o, wrlock>>
    BY <1>2 DEF CallEnterWrite
  <2>2. WordTellsHolders'
    BY <1>2, <2>1, WriterJoins DEF IInv
  <2>3. rwl_owner' \in Word /\ NoOrphanWaiterBits' /\ WantImpliesWait'
    BY <1>2, <2>1, GrantedFields DEF IInv, TypeOK, Ops, NoOrphanWaiterBits,
                                     WantImpliesWait
  <2>4. TypeOK'
    BY <2>1, <2>3 DEF IInv, TypeOK, Holds
  <2>5. LocalsInv'
    BY <2>1 DEF IInv, TypeOK, LocalsInv, Leaving, Entering, Holds
  <2> QED BY <2>2, <2>3, <2>4, <2>5 DEF IInv
<1> QED BY <1>1, <1>2

\* The compare-and-swap of rw_enter, for each row of rw_ops.
LEMMA TakeStep ==
  ASSUME IInv, NEW p \in Procs, Take(p)
  PROVE  IInv'
<1>1. CASE CasFail(p)
  BY <1>1, RetryStep DEF Take, CasFail, CasOk
<1>2. CASE CasOk(p, Granted(o[p], call[p].op, p))
  <2>1. /\ Holds(p, HeldAfter(call[p].op)) /\ ForgetCall(p)
        /\ \E label \in {"out", "notify"} : Goto(p, label)
        /\ rwl_owner' = Granted(rwl_owner, call[p].op, p)
        /\ ~Busy(rwl_owner, call[p].op)
        /\ call[p].op = "DOWNGRADE" => held[p] = "write"
        /\ call[p].op # "DOWNGRADE" => held[p] = "none"
    BY <1>2 DEF Take, CasOk, CasFail, IInv, LocalsInv, Entering
  <2>2. WordTellsHolders' /\ rwl_owner' \in Word /\ NoOrphanWaiterBits'
        /\ WantImpliesWait'
    <3>1. CASE call[p].op = "READ"
      <4>1. WordTellsHolders'
        BY <2>1, <3>1, ReaderJoins DEF IInv, Busy, HeldAfter
      <4>2. rwl_owner' \in Word /\ NoOrphanWaiterBits' /\ WantImpliesWait'
        BY <2>1, <3>1 DEF IInv, TypeOK, Word, Granted, NoOrphanWaiterBits,
                          WantImpliesWait
      <4> QED BY <4>1, <4>2
    <3>2. CASE call[p].op = "WRITE"
      <4>0. rwl_owner = Zero
        BY <2>1, <3>2 DEF Busy
      <4>1. WordTellsHolders'
        BY <2>1, <3>2, <4>0, WriterJoins DEF IInv, HeldAfter
      <4>2. rwl_owner' \in Word /\ NoOrphanWaiterBits' /\ WantImpliesWait'
        BY <2>1, <3>2, GrantedFields
           DEF IInv, TypeOK, Ops, NoOrphanWaiterBits, WantImpliesWait
      <4> QED BY <4>1, <4>2
    <3>3. CASE call[p].op = "DOWNGRADE"
      <4>1. WordTellsHolders' /\ rwl_owner'.hi = 1
        BY <2>1, <3>3, WriterDowngrades DEF IInv, HeldAfter
      <4>2. rwl_owner' \in Word /\ NoOrphanWaiterBits' /\ WantImpliesWait'
        <5>1. rwl_owner.hi = p /\ rwl_owner \in Word /\ "DOWNGRADE" \in Ops
          BY <2>1, <3>3, HolderKnown DEF IInv, TypeOK, Ops
        <5> QED BY <2>1, <3>3, <5>1, GrantedFields
                DEF IInv, NoOrphanWaiterBits, WantImpliesWait
      <4> QED BY <4>1, <4>2
    <3> QED BY <3>1, <3>2, <3>3 DEF IInv, TypeOK, Ops
  <2>3. HeldAfter(call[p].op) \in {"none", "read", "write"}
    BY DEF HeldAfter
  <2> QED BY <2>1, <2>2, <2>3, EndOfCall DEF IInv
<1> QED BY <1>1, <1>2 DEF Take

\* The three compare-and-swaps that give the lock up.
LEMMA ReleaseStep ==
  ASSUME IInv, NEW p \in Procs,
         ReadExitCas(p) \/ WriteExitCas(p) \/ ExitCas(p)
  PROVE  IInv'
<1>1. CASE CasFail(p)
  BY <1>1, RetryStep DEF ReadExitCas, WriteExitCas, ExitCas, CasFail, CasOk
<1>2. CASE ~CasFail(p)
  <2>1. /\ Holds(p, "none") /\ ForgetCall(p)
        /\ \E label \in {"out", "notify"} : Goto(p, label)
    BY <1>2 DEF ReadExitCas, WriteExitCas, ExitCas, Return
  <2>2. \/ held[p] = "write" /\ rwl_owner' = Zero
        \/ /\ held[p] = "read"
           /\ \/ ~rwl_owner.wait /\ rwl_owner' = [rwl_owner EXCEPT !.hi = @ - 1]
              \/ rwl_owner' = Released(rwl_owner, FALSE)
    <3>1. CASE ReadExitCas(p)
      BY <1>2, <3>1 DEF ReadExitCas, CasOk, IInv, LocalsInv
    <3>2. CASE WriteExitCas(p)
      BY <1>2, <3>2 DEF WriteExitCas, CasOk, IInv, LocalsInv
    <3>3. CASE ExitCas(p)
      BY <1>2, <3>3 DEF ExitCas, CasOk, IInv, LocalsInv, Leaving, TypeOK, Released
    <3> QED BY <3>1, <3>2, <3>3
  <2>3. WordTellsHolders' /\ rwl_owner' \in Word /\ NoOrphanWaiterBits'
        /\ WantImpliesWait'
    <3>1. CASE held[p] = "write" /\ rwl_owner' = Zero
      <4>1. WordTellsHolders'
        BY <2>1, <3>1, WriterLeaves DEF IInv
      <4>2. rwl_owner' \in Word /\ NoOrphanWaiterBits' /\ WantImpliesWait'
        BY <3>1 DEF Word, Zero, NoOrphanWaiterBits, WantImpliesWait
      <4> QED BY <4>1, <4>2
    <3>2. CASE held[p] = "read"
      <4>1. /\ rwl_owner' \in Word /\ ~rwl_owner'.wait /\ ~rwl_owner'.wrwant
            /\ rwl_owner'.hi = rwl_owner.hi - 1
            /\ rwl_owner'.wrlock = rwl_owner.wrlock /\ ~rwl_owner.wrlock
        <5>1. rwl_owner \in Word /\ rwl_owner.hi > 0 /\ ~rwl_owner.wrlock
          BY <3>2, HolderKnown DEF IInv, TypeOK
        <5>2. CASE rwl_owner' = Released(rwl_owner, FALSE)
          BY <5>1, <5>2, ReleasedFields
        <5>3. CASE ~rwl_owner.wait /\ rwl_owner' = [rwl_owner EXCEPT !.hi = @ - 1]
          <6>1. ~rwl_owner.wrwant
            BY <5>3 DEF IInv, WantImpliesWait
          <6>2. rwl_owner' \in Word
            BY <5>1, <5>3, ReleasedFields
          <6> QED BY <5>1, <5>3, <6>1, <6>2 DEF Word
        <5> QED BY <2>2, <3>2, <5>2, <5>3
      <4>2. WordTellsHolders'
        BY <2>1, <3>2, <4>1, ReaderLeaves DEF IInv
      <4>3. NoOrphanWaiterBits' /\ WantImpliesWait'
        BY <4>1 DEF Word, Zero, NoOrphanWaiterBits, WantImpliesWait
      <4> QED BY <4>1, <4>2, <4>3
    <3> QED BY <2>2, <3>1, <3>2
  <2> QED BY <2>1, <2>3, EndOfCall DEF IInv
<1> QED BY <1>1, <1>2

\* wakeup moves sleepers, and nothing else.
LEMMA NotifyStep ==
  ASSUME IInv, NEW p \in Procs, Notify(p)
  PROVE  IInv'
<1>1. TypeOK' /\ UNCHANGED <<rwl_owner, held>>
  BY DEF Notify, IInv, TypeOK, PCs
<1>2. LocalsInv'
  BY DEF Notify, IInv, TypeOK, LocalsInv, Leaving, Entering
<1> QED BY <1>1, <1>2, WordUntouched DEF IInv

\* IInv is inductive.
LEMMA NextIInv == IInv /\ [Next]_vars => IInv'
<1> SUFFICES ASSUME IInv, [Next]_vars PROVE IInv'
  OBVIOUS
<1>1. CASE UNCHANGED vars
  BY <1>1 DEF vars, IInv, TypeOK, WordTellsHolders, Readers, Writers,
              NoOrphanWaiterBits, WantImpliesWait, LocalsInv
<1>2. ASSUME NEW p \in Procs,
             Acquire(p) \/ CallDowngrade(p) \/ LetGo(p) \/ Inside(p) \/ Signal(p)
      PROVE  IInv'
  BY <1>2, QuietStep, BlockStep, ReadCasStep, EnterWriteStep, TakeStep,
     ReleaseStep, NotifyStep DEF Acquire, LetGo, Inside
<1> QED BY <1>1, <1>2 DEF Next

\* The lock word is exact and everything else of IInv holds, always.
THEOREM Inductive == Spec => []IInv
<1>1. Init => IInv
  BY InitIInv
<1> QED BY <1>1, NextIInv, PTL DEF Spec

-----------------------------------------------------------------------------
\* The locals and the lock word keep their types; in particular the reader
\* count that rw_exit decrements never goes below zero.
THEOREM TypeCorrect == Spec => []TypeOK
BY Inductive, PTL DEF IInv

\* The lock word always tells who holds the lock.
THEOREM WordExact == Spec => []WordTellsHolders
BY Inductive, PTL DEF IInv

\* Waiter bits are never left on a free lock.
THEOREM NoOrphanBits == Spec => []NoOrphanWaiterBits
BY Inductive, PTL DEF IInv

\* A writer excludes everybody, whatever the number of processes.
THEOREM MutualExclusion == Spec => []Exclusion
<1>1. IInv => Exclusion
  BY DEF IInv, WordTellsHolders, Exclusion, Readers, Writers, TypeOK
<1> QED BY <1>1, Inductive, PTL

-----------------------------------------------------------------------------
\* No step forgets a sleeper: the waiter bit is set in the same section that
\* sleeps, and whoever clears it goes on to wakeup.
LEMMA NextNoLostWakeup == IInv /\ NoLostWakeup /\ [Next]_vars => NoLostWakeup'
<1> SUFFICES ASSUME IInv, NoLostWakeup, [Next]_vars PROVE NoLostWakeup'
  OBVIOUS
<1> USE DEF NoLostWakeup, Asleep
<1>1. CASE UNCHANGED vars
  BY <1>1 DEF vars
<1>2. ASSUME NEW p \in Procs,
             Acquire(p) \/ CallDowngrade(p) \/ LetGo(p) \/ Inside(p) \/ Signal(p)
      PROVE  NoLostWakeup'
  <2>0. rwl_owner \in Word /\ pc \in [Procs -> PCs] /\ call[p].op \in Ops
    BY DEF IInv, TypeOK
  <2>1. CASE Notify(p)
    BY <2>0, <2>1 DEF Notify
  <2>2. CASE Block(p)
    <3>1. CASE CasOk(p, WithWaitSet(o[p], call[p].op))
      BY <3>1 DEF CasOk, WithWaitSet, IInv, TypeOK, Word
    <3>2. CASE CasFail(p)
      <4>1. UNCHANGED rwl_owner /\ Goto(p, "awake")
        BY <2>2, <3>2 DEF Block, CasFail, CasOk
      <4> QED BY <2>0, <2>2, <4>1 DEF Goto, Block
    <3> QED BY <2>2, <3>1, <3>2 DEF Block
  <2>3. ASSUME UNCHANGED rwl_owner, pc[p] # "notify",
               NEW label \in PCs \ {"asleep"}, Goto(p, label)
        PROVE  NoLostWakeup'
    BY <2>0, <2>3 DEF Goto
  <2>4. ASSUME rwl_owner'.wait = rwl_owner.wait, pc[p] # "notify",
               NEW label \in PCs \ {"asleep"}, Goto(p, label)
        PROVE  NoLostWakeup'
    BY <2>0, <2>4 DEF Goto
  <2>5. CASE Take(p)
    <3>1. CASE CasFail(p)
      BY <2>3, <2>5, <3>1 DEF Take, CasFail, CasOk, PCs
    <3>2. CASE ~CasFail(p)
      <4>1. rwl_owner' = Granted(rwl_owner, call[p].op, p)
        BY <2>5, <3>2 DEF Take, CasOk
      <4>2. rwl_owner'.wait = rwl_owner.wait
        BY <2>0, <4>1 DEF Granted, Word, Ops
      <4>3. PICK label \in {"out", "notify"} : Goto(p, label)
        BY <2>5, <3>2 DEF Take
      <4> QED BY <2>4, <2>5, <4>2, <4>3 DEF Take, PCs
    <3> QED BY <3>1, <3>2
  <2>6. CASE ReadCas(p)
    <3>1. CASE CasFail(p)
      BY <2>3, <2>6, <3>1 DEF ReadCas, CasFail, CasOk, PCs
    <3>2. CASE ~CasFail(p)
      <4>1. rwl_owner' = Granted(rwl_owner, "READ", p) /\ Goto(p, "out")
        BY <2>6, <3>2 DEF ReadCas, CasOk, Return
      <4>2. rwl_owner'.wait = rwl_owner.wait
        BY <2>0, <4>1 DEF Granted, Word
      <4> QED BY <2>4, <2>6, <4>1, <4>2 DEF ReadCas, PCs
    <3> QED BY <3>1, <3>2
  <2>7. CASE CallEnterWrite(p)
    <3>1. CASE rwl_owner # Zero
      BY <2>3, <2>7, <3>1 DEF CallEnterWrite, PCs
    <3>2. CASE rwl_owner = Zero
      BY <2>7, <3>2 DEF CallEnterWrite, Granted, Zero
    <3> QED BY <3>1, <3>2
  <2>8. CASE ExitCas(p)
    <3>1. CASE CasFail(p)
      BY <2>3, <2>8, <3>1 DEF ExitCas, CasFail, CasOk, PCs
    <3>2. CASE ~CasFail(p) /\ rwl_owner.wait
      BY <2>0, <2>8, <3>2 DEF ExitCas, CasOk, Goto
    <3>3. CASE ~CasFail(p) /\ ~rwl_owner.wait
      BY <2>0, <2>8, <3>3 DEF ExitCas, CasOk, Goto
    <3> QED BY <3>1, <3>2, <3>3
  <2>9. CASE ReadExitCas(p) \/ WriteExitCas(p)
    <3>1. CASE CasFail(p)
      BY <2>3, <2>9, <3>1 DEF ReadExitCas, WriteExitCas, CasFail, CasOk, PCs
    <3>2. CASE ~CasFail(p)
      BY <2>0, <2>9, <3>2 DEF ReadExitCas, WriteExitCas, CasOk, Goto, Return,
                              IInv, LocalsInv
    <3> QED BY <3>1, <3>2
  <2>10. CASE \/ CallEnterRead(p)
              \/ \E how \in Ops, fl \in FlagSets : CallEnter(p, how, fl)
              \/ CallDowngrade(p) \/ EnterLoad(p) \/ Signal(p) \/ Awake(p)
              \/ CallFastExit(p) \/ CallExit(p) \/ Exit(p) \/ ExitLoad(p)
    <3>1. /\ UNCHANGED rwl_owner /\ pc[p] # "notify"
          /\ \E label \in PCs \ {"asleep"} : Goto(p, label)
      BY <2>10 DEF CallEnterRead, CallEnter, CallDowngrade, EnterLoad, Signal,
                   Awake, CallFastExit, CallExit, Exit, ExitLoad, Return, PCs
    <3> QED BY <2>3, <3>1
  <2> QED BY <1>2, <2>1, <2>2, <2>5, <2>6, <2>7, <2>8, <2>9, <2>10
          DEF Acquire, LetGo, Inside
<1> QED BY <1>1, <1>2 DEF Next

\* A process asleep on the lock always has somebody who will wake it.
THEOREM NoWakeupLost == Spec => []NoLostWakeup
<1>1. Init => NoLostWakeup
  BY InitIInv
<1> QED BY <1>1, NextNoLostWakeup, Inductive, PTL DEF Spec

-----------------------------------------------------------------------------
\* Every step of the lock is a step of the readers-writer lock it promises
\* to be, or changes nothing its callers can see.
LEMMA NextPromise == IInv /\ [Next]_vars => [Promise!Next]_(Promise!vars)
<1> SUFFICES ASSUME IInv, [Next]_vars PROVE Promise!Next \/ UNCHANGED Promise!vars
  OBVIOUS
<1>0. TypeOK /\ WordTellsHolders /\ LocalsInv
  BY DEF IInv
<1>1. CASE UNCHANGED vars
  BY <1>1 DEF vars, Promise!vars, Downgrading
<1>2. ASSUME NEW p \in Procs,
             Acquire(p) \/ CallDowngrade(p) \/ LetGo(p) \/ Inside(p) \/ Signal(p)
      PROVE  Promise!Next \/ UNCHANGED Promise!vars
  <2>1. p \in Downgrading <=> call[p].op = "DOWNGRADE"
    BY DEF Downgrading
  <2>2. ASSUME held[p] = "none", ~rwl_owner.wrlock, Holds(p, "read"),
               UNCHANGED Downgrading
        PROVE  Promise!GetRead(p)
    BY <1>0, <2>2 DEF WordTellsHolders, Writers, Holds, Promise!GetRead
  <2>3. ASSUME rwl_owner = Zero, Holds(p, "write"), UNCHANGED Downgrading
        PROVE  Promise!GetWrite(p)
    <3>1. Readers = {} /\ Writers = {}
      BY <1>0, <2>3, ZeroIsFree
    <3>2. \A q \in Procs : held[q] = "none"
      BY <1>0, <3>1 DEF Readers, Writers, TypeOK
    <3> QED BY <2>3, <3>2 DEF Holds, Promise!GetWrite
  <2>4. ASSUME held[p] # "none", Holds(p, "none"), p \notin Downgrading,
               UNCHANGED Downgrading
        PROVE  Promise!Release(p)
    BY <2>4 DEF Holds, Promise!Release
  <2>5. ASSUME ForgetCall(p), p \notin Downgrading
        PROVE  UNCHANGED Downgrading
    BY <1>0, <2>5 DEF ForgetCall, Called, Downgrading, TypeOK
  <2>6. CASE ReadCas(p)
    <3>1. held[p] = "none" /\ ~o[p].wrlock /\ p \notin Downgrading
      BY <1>0, <2>1, <2>6 DEF ReadCas, LocalsInv, Entering
    <3>2. CASE CasFail(p)
      BY <2>6, <3>2 DEF ReadCas, CasFail, CasOk, Promise!vars, Downgrading
    <3>3. CASE ~CasFail(p)
      <4>1. Holds(p, "read") /\ ForgetCall(p) /\ ~rwl_owner.wrlock
        BY <2>6, <3>1, <3>3 DEF ReadCas, CasOk, Return
      <4> QED BY <2>2, <2>5, <3>1, <4>1 DEF Promise!Next
    <3> QED BY <3>2, <3>3
  <2>7. CASE CallEnterWrite(p)
    <3>1. CASE rwl_owner = Zero
      <4>1. Holds(p, "write") /\ UNCHANGED Downgrading
        BY <2>7, <3>1 DEF CallEnterWrite, Downgrading
      <4> QED BY <2>3, <3>1, <4>1 DEF Promise!Next
    <3>2. CASE rwl_owner # Zero
      <4>1. UNCHANGED held /\ call' = [call EXCEPT ![p] = Called("WRITE", {})]
        BY <2>7, <3>2 DEF CallEnterWrite
      <4>2. p \notin Downgrading
        BY <1>0, <2>1, <2>7 DEF CallEnterWrite, LocalsInv
      <4>3. UNCHANGED Downgrading
        BY <1>0, <4>1, <4>2 DEF Called, Downgrading, TypeOK
      <4> QED BY <4>1, <4>3 DEF Promise!vars
    <3> QED BY <3>1, <3>2
  <2>8. CASE CallDowngrade(p)
    <3>1. /\ UNCHANGED held /\ held[p] = "write"
          /\ call' = [call EXCEPT ![p] = Called("DOWNGRADE", {})]
      BY <2>8 DEF CallDowngrade
    <3>2. Downgrading' = Downgrading \union {p}
      BY <1>0, <3>1 DEF Called, Downgrading, TypeOK
    <3> QED BY <3>1, <3>2 DEF Promise!Next, Promise!AskDowngrade
  <2>9. CASE Take(p)
    <3>1. CASE CasFail(p)
      BY <2>9, <3>1 DEF Take, CasFail, CasOk, Promise!vars, Downgrading
    <3>2. CASE ~CasFail(p)
      <4>1. /\ Holds(p, HeldAfter(call[p].op)) /\ ForgetCall(p)
            /\ ~Busy(rwl_owner, call[p].op)
        BY <1>0, <2>9, <3>2 DEF Take, CasOk, LocalsInv
      <4>2. CASE call[p].op = "READ"
        BY <1>0, <2>1, <2>2, <2>5, <2>9, <4>1, <4>2
           DEF Take, LocalsInv, Entering, HeldAfter, Busy, Promise!Next
      <4>3. CASE call[p].op = "WRITE"
        BY <2>1, <2>3, <2>5, <4>1, <4>3 DEF HeldAfter, Busy, Promise!Next
      <4>4. CASE call[p].op = "DOWNGRADE"
        <5>1. held[p] = "write" /\ Holds(p, "read") /\ p \in Downgrading
          BY <1>0, <2>1, <4>1, <4>4 DEF LocalsInv, HeldAfter
        <5>2. Downgrading' = Downgrading \ {p}
          BY <1>0, <4>1 DEF ForgetCall, Called, Downgrading, TypeOK
        <5> QED BY <5>1, <5>2 DEF Holds, Promise!Next, Promise!Downgrade
      <4> QED BY <1>0, <4>2, <4>3, <4>4 DEF TypeOK, Ops
    <3> QED BY <3>1, <3>2
  <2>10. CASE ReadExitCas(p) \/ WriteExitCas(p) \/ ExitCas(p)
    <3>1. CASE CasFail(p)
      BY <2>10, <3>1 DEF ReadExitCas, WriteExitCas, ExitCas, CasFail, CasOk,
                         Promise!vars, Downgrading
    <3>2. CASE ~CasFail(p)
      <4>1. Holds(p, "none") /\ ForgetCall(p)
        BY <2>10, <3>2 DEF ReadExitCas, WriteExitCas, ExitCas, Return
      <4>2. held[p] # "none" /\ p \notin Downgrading
        BY <1>0, <2>1, <2>10
           DEF ReadExitCas, WriteExitCas, ExitCas, LocalsInv, Leaving
      <4> QED BY <2>4, <2>5, <4>1, <4>2 DEF Promise!Next
    <3> QED BY <3>1, <3>2
  <2>11. CASE \E how \in Ops, fl \in FlagSets : CallEnter(p, how, fl)
    <3>1. PICK how \in {"READ", "WRITE"}, fl \in FlagSets : CallEnter(p, how, fl)
      BY <2>11 DEF CallEnter
    <3>2. p \notin Downgrading
      BY <1>0, <2>1, <3>1 DEF CallEnter, LocalsInv
    <3>3. UNCHANGED Downgrading
      BY <1>0, <3>1, <3>2 DEF CallEnter, Called, Downgrading, TypeOK
    <3> QED BY <3>1, <3>3 DEF CallEnter, Promise!vars
  <2>12. CASE EnterLoad(p) \/ Awake(p)
    <3>1. UNCHANGED held /\ (UNCHANGED call \/ ForgetCall(p))
      BY <2>12 DEF EnterLoad, Awake, Return
    <3>2. ForgetCall(p) /\ ~UNCHANGED call => p \notin Downgrading
      BY <1>0, <2>1, <2>12 DEF EnterLoad, Awake, LocalsInv, Busy
    <3> QED BY <2>5, <3>1, <3>2 DEF Promise!vars, Downgrading
  <2>13. CASE \/ CallEnterRead(p) \/ Block(p) \/ Signal(p) \/ CallFastExit(p)
              \/ CallExit(p) \/ Exit(p) \/ ExitLoad(p) \/ Notify(p)
    BY <2>13 DEF CallEnterRead, Block, Signal, CallFastExit, CallExit, Exit,
                 ExitLoad, Notify, Promise!vars, Downgrading
  <2> QED BY <1>2, <2>6, <2>7, <2>8, <2>9, <2>10, <2>11, <2>12, <2>13
          DEF Acquire, LetGo, Inside
<1> QED BY <1>1, <1>2 DEF Next

\* kern_rwlock.c implements the lock that rwlock(9) describes.
THEOREM Implements == Spec => ImplementsPromise
<1>1. Init => Promise!Init
  BY DEF Init, Promise!Init, Downgrading, Called
<1> QED BY <1>1, NextPromise, Inductive, PTL
        DEF Spec, ImplementsPromise, Promise!Spec
=============================================================================
