----------------------------- MODULE WorkQProofs -----------------------------
(***************************************************************************)
(* For any set of tasks: no task is lost, run twice or left on the list of *)
(* a sleeping thread, and a queue that is not made during autoconf is not  *)
(* freed under its thread.                                                 *)
(***************************************************************************)
EXTENDS WorkQ, SequenceTheorems, TLAPS

\* The thread runs a task function exactly while it is counted in wq_busy
\* and has one task in hand.
ThreadInv ==
  /\ wq_busy = IF thread = "in_func" THEN 1 ELSE 0
  /\ IF thread = "in_func" THEN \E t \in Tasks : current = {t} ELSE current = {}

\* There is at most one request for a thread, and it comes before the thread.
CreateInv ==
  /\ queue = "none" => ~deferred /\ thread = "none"
  /\ deferred => thread = "none"
  /\ kind = "driver" => kthread_create_now /\ ~deferred

\* workq_destroy frees the queue as its last step, and nobody destroys the
\* system queue.
DestroyInv ==
  /\ queue = "none" => destroy = "not_called"
  /\ queue = "live" => destroy # "returned"
  /\ queue = "freed" => destroy = "returned"
  /\ kind = "system" => destroy = "not_called"

\* Of the queues made during autoconf only those of drivers can be freed
\* before their thread is made.
FreedLast == kind # "early" => NoUseAfterFree

IInv ==
  /\ TypeOK /\ TasksAccounted /\ NoStrandedTask
  /\ ThreadInv /\ CreateInv /\ DestroyInv /\ FreedLast

\* What TasksAccounted says of the list: it holds the queued tasks, once each.
Listed ==
  /\ \A t \in Tasks :
       task[t] = "queued" <=> \E i \in DOMAIN wq_tasklist : wq_tasklist[i] = t
  /\ \A i, j \in DOMAIN wq_tasklist : wq_tasklist[i] = wq_tasklist[j] => i = j

-----------------------------------------------------------------------------
\* A task that was not queued joins the list.
LEMMA ListGrows ==
  ASSUME TypeOK, Listed, NEW t \in Tasks, task[t] # "queued",
         wq_tasklist' = Append(wq_tasklist, t),
         task' = [task EXCEPT ![t] = "queued"]
  PROVE  wq_tasklist' \in Seq(Tasks) /\ Listed'
<1> DEFINE n == Len(wq_tasklist)
<1>1. /\ wq_tasklist \in Seq(Tasks) /\ n \in Nat
      /\ task \in [Tasks -> TaskStates]
  BY DEF TypeOK
<1>2. /\ wq_tasklist' \in Seq(Tasks)
      /\ Len(wq_tasklist') = n + 1
      /\ \A i \in 1..n : wq_tasklist'[i] = wq_tasklist[i]
      /\ wq_tasklist'[n + 1] = t
  BY <1>1, AppendProperties
<1>3. DOMAIN wq_tasklist = 1..n /\ DOMAIN wq_tasklist' = 1..(n + 1)
  BY <1>1, <1>2, LenProperties
<1>4. \A i \in 1..n : wq_tasklist[i] # t
  BY <1>3 DEF Listed
<1>5. \A u \in Tasks : task'[u] = IF u = t THEN "queued" ELSE task[u]
  BY <1>1
<1>6. \A i \in 1..(n + 1) : i \in 1..n \/ i = n + 1
  BY <1>1
<1>7. \A u \in Tasks :
        task'[u] = "queued" <=> \E i \in 1..(n + 1) : wq_tasklist'[i] = u
  <2> TAKE u \in Tasks
  <2>0. n + 1 \in 1..(n + 1) /\ 1..n \subseteq 1..(n + 1)
    BY <1>1
  <2>1. CASE u = t
    BY <1>2, <1>5, <2>0, <2>1
  <2>2. CASE u # t
    BY <1>2, <1>3, <1>5, <1>6, <2>0, <2>2 DEF Listed
  <2> QED BY <2>1, <2>2
<1>8. \A i, j \in 1..(n + 1) : wq_tasklist'[i] = wq_tasklist'[j] => i = j
  BY <1>2, <1>3, <1>4, <1>6 DEF Listed
<1> QED BY <1>2, <1>3, <1>7, <1>8 DEF Listed

\* The first task leaves the list, and no other does.
LEMMA ListShrinks ==
  ASSUME TypeOK, Listed, wq_tasklist # <<>>,
         wq_tasklist' = Tail(wq_tasklist), task'[Head(wq_tasklist)] # "queued",
         \A u \in Tasks \ {Head(wq_tasklist)} :
            task'[u] = "queued" <=> task[u] = "queued"
  PROVE  wq_tasklist' \in Seq(Tasks) /\ Listed'
<1> DEFINE n == Len(wq_tasklist)
           h == Head(wq_tasklist)
<1>1. /\ wq_tasklist \in Seq(Tasks) /\ n \in Nat \ {0}
      /\ task \in [Tasks -> TaskStates]
  BY EmptySeq DEF TypeOK
<1>2. /\ h \in Tasks /\ wq_tasklist' \in Seq(Tasks)
      /\ Len(wq_tasklist') = n - 1
      /\ \A i \in 1..(n - 1) : wq_tasklist'[i] = wq_tasklist[i + 1]
  BY <1>1, HeadTailProperties
<1>3. DOMAIN wq_tasklist = 1..n /\ DOMAIN wq_tasklist' = 1..(n - 1)
  BY <1>1, <1>2, LenProperties
<1>4. h = wq_tasklist[1] /\ 1 \in 1..n
  BY <1>1
<1>5. /\ \A i \in 1..(n - 1) : i + 1 \in 1..n /\ i + 1 # 1
      /\ \A i \in 1..n : i = 1 \/ (i - 1 \in 1..(n - 1) /\ (i - 1) + 1 = i)
      /\ \A i, j \in 1..(n - 1) : i + 1 = j + 1 => i = j
  BY <1>1
<1>6. \A u \in Tasks :
        task'[u] = "queued" <=> \E i \in 1..(n - 1) : wq_tasklist'[i] = u
  <2> TAKE u \in Tasks
  <2>1. CASE u = h
    <3>1. \A i \in 1..(n - 1) : wq_tasklist'[i] # h
      BY <1>2, <1>3, <1>4, <1>5 DEF Listed
    <3> QED BY <2>1, <3>1
  <2>2. CASE u # h
    <3>1. task'[u] = "queued" <=> \E i \in 1..n : wq_tasklist[i] = u
      BY <1>3, <2>2 DEF Listed
    <3>2. ASSUME NEW i \in 1..n, wq_tasklist[i] = u
          PROVE  \E j \in 1..(n - 1) : wq_tasklist'[j] = u
      <4>1. i # 1
        BY <1>4, <2>2, <3>2
      <4>2. i - 1 \in 1..(n - 1) /\ (i - 1) + 1 = i
        BY <1>5, <4>1
      <4> QED BY <1>2, <3>2, <4>2
    <3>3. ASSUME NEW j \in 1..(n - 1), wq_tasklist'[j] = u
          PROVE  \E i \in 1..n : wq_tasklist[i] = u
      BY <1>2, <1>5, <3>3
    <3> QED BY <3>1, <3>2, <3>3
  <2> QED BY <2>1, <2>2
<1>7. \A i, j \in 1..(n - 1) : wq_tasklist'[i] = wq_tasklist'[j] => i = j
  BY <1>2, <1>3, <1>5 DEF Listed
<1> QED BY <1>2, <1>3, <1>6, <1>7 DEF Listed

-----------------------------------------------------------------------------
\* Nothing has been made yet.
LEMMA InitIInv == Init => IInv
<1> SUFFICES ASSUME Init PROVE IInv
  OBVIOUS
<1>1. TypeOK
  BY EmptySeq DEF Init, TypeOK, ThreadStates, TaskStates, CallStates
<1>2. TasksAccounted
  <2>1. DOMAIN wq_tasklist = {}
    BY DEF Init
  <2>2. current = {t \in Tasks : task[t] = "running"}
    BY DEF Init
  <2> QED BY <2>1, <2>2 DEF Init, TasksAccounted
<1>3. NoStrandedTask /\ ThreadInv /\ CreateInv /\ DestroyInv /\ FreedLast
  BY DEF Init, NoStrandedTask, ThreadInv, CreateInv, DestroyInv, FreedLast,
         NoUseAfterFree
<1> QED BY <1>1, <1>2, <1>3 DEF IInv

\* A step that leaves the list and the tasks alone keeps them accounted for.
LEMMA SameTasks ==
  ASSUME IInv, UNCHANGED <<wq_tasklist, current, task>>,
         wq_running' = IF thread' \in {"ready", "in_func", "bored"} THEN 1 ELSE 0
  PROVE  TasksAccounted' /\ current' \in SUBSET Tasks
BY DEF IInv, TasksAccounted, TypeOK

\* workq_create.
LEMMA CreateKeeps == IInv /\ Create => IInv'
<1> SUFFICES ASSUME IInv, Create PROVE IInv'
  OBVIOUS
<1>0. TypeOK /\ wq_running = 0 /\ thread = "none"
  BY DEF IInv, Create, CreateInv, TasksAccounted
<1>1. TasksAccounted'
  BY <1>0, SameTasks DEF Create, CreateThread
<1>2. TypeOK'
  <2>1. wq_flags' \in BOOLEAN /\ deferred' \in BOOLEAN /\ kthread_create_now' \in BOOLEAN
    BY <1>0 DEF Create, TypeOK
  <2>2. wq_running' \in Nat /\ thread' \in ThreadStates
    BY <1>0 DEF Create, CreateThread, TypeOK, ThreadStates
  <2> QED BY <1>0, <2>1, <2>2 DEF Create, TypeOK
<1>3. (NoStrandedTask /\ ThreadInv /\ CreateInv /\ DestroyInv /\ FreedLast)'
  BY DEF IInv, Create, CreateThread, NoStrandedTask, ThreadInv, CreateInv,
         DestroyInv, FreedLast, NoUseAfterFree
<1> QED BY <1>1, <1>2, <1>3 DEF IInv

\* kthread_run_deferred_queue.
LEMMA RunDeferredKeeps == IInv /\ RunDeferred => IInv'
<1> SUFFICES ASSUME IInv, RunDeferred PROVE IInv'
  OBVIOUS
<1>0. TypeOK /\ (deferred => wq_running = 0 /\ thread = "none")
  BY DEF IInv, CreateInv, TasksAccounted
<1>1. TasksAccounted'
  <2>1. wq_running' = IF thread' \in {"ready", "in_func", "bored"} THEN 1 ELSE 0
    BY <1>0 DEF IInv, TasksAccounted, RunDeferred, CreateThread
  <2> QED BY <2>1, SameTasks DEF RunDeferred
<1>2. TypeOK'
  <2>1. wq_flags' \in BOOLEAN /\ deferred' \in BOOLEAN /\ kthread_create_now' \in BOOLEAN
    BY <1>0 DEF RunDeferred, TypeOK
  <2>2. wq_running' \in Nat /\ thread' \in ThreadStates
    BY <1>0 DEF RunDeferred, CreateThread, TypeOK, ThreadStates
  <2> QED BY <1>0, <2>1, <2>2 DEF RunDeferred, TypeOK
<1>3. FreedLast'
  <2>1. CASE kind = "system"
    BY <2>1 DEF IInv, RunDeferred, TypeOK, DestroyInv, FreedLast, NoUseAfterFree
  <2>2. CASE kind = "driver"
    BY <2>2 DEF IInv, RunDeferred, CreateInv, FreedLast, NoUseAfterFree
  <2>3. CASE kind = "early"
    BY <2>3 DEF RunDeferred, FreedLast
  <2> QED BY <1>0, <2>1, <2>2, <2>3, QueuesAssumption DEF TypeOK, QueueKinds
<1>4. (NoStrandedTask /\ ThreadInv /\ CreateInv /\ DestroyInv)'
  BY <1>0 DEF IInv, RunDeferred, CreateThread, NoStrandedTask, ThreadInv,
              CreateInv, DestroyInv
<1> QED BY <1>1, <1>2, <1>3, <1>4 DEF IInv

\* SIMPLEQ_INSERT_TAIL and the wakeup, from either caller.
LEMMA InsertKeeps ==
  ASSUME IInv, NEW t \in Tasks, task[t] \in {"new", "pool_get"}, Insert(t),
         UNCHANGED <<kind, queue, wq_flags, wq_running, wq_busy,
                     kthread_create_now, deferred, current, destroy>>
  PROVE  IInv'
<1>0. TypeOK /\ TasksAccounted /\ Listed
  BY DEF IInv, TasksAccounted, Listed
<1>1. wq_tasklist' \in Seq(Tasks) /\ Listed'
  BY <1>0, ListGrows DEF Insert
<1>2. TasksAccounted'
  <2>1. {u \in Tasks : task'[u] = "running"} = {u \in Tasks : task[u] = "running"}
    BY <1>0 DEF Insert, TypeOK
  <2> QED BY <1>0, <1>1, <2>1 DEF Insert, TasksAccounted, Listed
<1>3. TypeOK'
  BY <1>0, <1>1 DEF Insert, TypeOK, ThreadStates, TaskStates
<1>4. (NoStrandedTask /\ ThreadInv /\ CreateInv /\ DestroyInv /\ FreedLast)'
  BY DEF IInv, Insert, NoStrandedTask, ThreadInv, CreateInv, DestroyInv,
         FreedLast, NoUseAfterFree
<1> QED BY <1>2, <1>3, <1>4 DEF IInv

\* workq_add_task up to its return or its sleep in pool_get.
LEMMA AddTaskKeeps ==
  ASSUME IInv, NEW t \in Tasks, AddTask(t)
  PROVE  IInv'
<1>1. CASE Insert(t)
  BY <1>1, InsertKeeps DEF AddTask
<1>2. ASSUME NEW what \in {"pool_get", "refused"},
             task' = [task EXCEPT ![t] = what], UNCHANGED <<wq_tasklist, thread>>
      PROVE  IInv'
  <2>0. TypeOK /\ task[t] = "new"
    BY DEF IInv, AddTask
  <2>1. \A u \in Tasks : task'[u] = task[u] \/ (u = t /\ task'[u] = what)
    BY <1>2, <2>0 DEF TypeOK
  <2>2. \A u \in Tasks : task'[u] = "queued" <=> task[u] = "queued"
    BY <2>0, <2>1
  <2>3. {u \in Tasks : task'[u] = "running"} = {u \in Tasks : task[u] = "running"}
    BY <2>0, <2>1
  <2>4. TasksAccounted'
    BY <1>2, <2>2, <2>3 DEF IInv, AddTask, TasksAccounted
  <2>5. TypeOK'
    BY <1>2, <2>0 DEF AddTask, TypeOK, TaskStates
  <2>6. (NoStrandedTask /\ ThreadInv /\ CreateInv /\ DestroyInv /\ FreedLast)'
    BY <1>2 DEF IInv, AddTask, NoStrandedTask, ThreadInv, CreateInv, DestroyInv,
                FreedLast, NoUseAfterFree
  <2> QED BY <2>4, <2>5, <2>6 DEF IInv
<1> QED BY <1>1, <1>2 DEF AddTask

\* The thread takes the first task from the list, having finished the tasks
\* in done: those it had in hand.
LEMMA TakeKeeps ==
  ASSUME IInv, wq_tasklist # <<>>, wq_tasklist' = Tail(wq_tasklist),
         current' = {Head(wq_tasklist)}, thread' = "in_func", wq_busy' = 1,
         thread \in {"ready", "in_func"},
         task' = [u \in Tasks |-> IF u = Head(wq_tasklist) THEN "running"
                                  ELSE IF u \in current THEN "done" ELSE task[u]],
         UNCHANGED <<kind, queue, wq_flags, wq_running, kthread_create_now,
                     deferred, destroy>>
  PROVE  IInv'
<1> DEFINE h == Head(wq_tasklist)
<1>0. TypeOK /\ TasksAccounted /\ Listed
  BY DEF IInv, TasksAccounted, Listed
<1>1. h \in Tasks
  BY <1>0, HeadTailProperties DEF TypeOK
<1>2. wq_tasklist' \in Seq(Tasks) /\ Listed'
  <2>1. task'[h] = "running"
    BY <1>1
  <2>2. \A u \in Tasks \ {h} : task'[u] = "queued" <=> task[u] = "queued"
    BY <1>0 DEF TasksAccounted
  <2> QED BY <1>0, <2>1, <2>2, ListShrinks
<1>3. TasksAccounted'
  <2>1. {u \in Tasks : task'[u] = "running"} = {h}
    BY <1>0, <1>1 DEF TasksAccounted
  <2> QED BY <1>0, <1>2, <2>1 DEF TasksAccounted, Listed
<1>4. TypeOK'
  BY <1>0, <1>1, <1>2 DEF TypeOK, ThreadStates, TaskStates
<1>5. (NoStrandedTask /\ ThreadInv /\ CreateInv /\ DestroyInv /\ FreedLast)'
  BY <1>1 DEF IInv, NoStrandedTask, ThreadInv, CreateInv, DestroyInv, FreedLast,
              NoUseAfterFree
<1> QED BY <1>3, <1>4, <1>5 DEF IInv

\* The top of workq_thread's outer loop.
LEMMA ThreadLoopKeeps == IInv /\ ThreadLoop => IInv'
<1> SUFFICES ASSUME IInv, ThreadLoop PROVE IInv'
  OBVIOUS
<1>0. /\ TypeOK /\ thread = "ready" /\ current = {} /\ wq_busy = 0
      /\ wq_running = 1
  BY DEF IInv, ThreadLoop, ThreadInv, TasksAccounted
<1>1. CASE TakeTask
  <2>1. task' = [u \in Tasks |-> IF u = Head(wq_tasklist) THEN "running"
                                  ELSE IF u \in current THEN "done" ELSE task[u]]
    BY <1>0, <1>1 DEF TakeTask, TypeOK
  <2>2. wq_busy' = 1
    BY <1>0, <1>1 DEF TakeTask
  <2> QED BY <1>0, <1>1, <2>1, <2>2, TakeKeeps DEF TakeTask
<1>2. CASE GetBored
  <2>1. TasksAccounted'
    BY <1>0, <1>2, SameTasks DEF GetBored
  <2>2. TypeOK'
    BY <1>0, <1>2 DEF GetBored, TypeOK, ThreadStates
  <2>3. (NoStrandedTask /\ ThreadInv /\ CreateInv /\ DestroyInv /\ FreedLast)'
    BY <1>0, <1>2 DEF IInv, GetBored, NoStrandedTask, ThreadInv, CreateInv,
                      DestroyInv, FreedLast, NoUseAfterFree
  <2> QED BY <2>1, <2>2, <2>3 DEF IInv
<1>3. CASE Leave
  <2>1. TasksAccounted'
    BY <1>0, <1>3, SameTasks DEF Leave
  <2>2. TypeOK'
    BY <1>0, <1>3 DEF Leave, TypeOK, ThreadStates, CallStates
  <2>3. (NoStrandedTask /\ ThreadInv /\ CreateInv /\ DestroyInv /\ FreedLast)'
    BY <1>0, <1>3 DEF IInv, Leave, NoStrandedTask, ThreadInv, CreateInv,
                      DestroyInv, FreedLast, NoUseAfterFree
  <2> QED BY <2>1, <2>2, <2>3 DEF IInv
<1> QED BY <1>1, <1>2, <1>3 DEF ThreadLoop

\* A task function returns, and the inner loop goes on or ends.
LEMMA FuncReturnsKeeps == IInv /\ FuncReturns => IInv'
<1> SUFFICES ASSUME IInv, FuncReturns PROVE IInv'
  OBVIOUS
<1>0. TypeOK /\ TasksAccounted /\ thread = "in_func" /\ wq_busy = 1
  BY DEF IInv, FuncReturns, ThreadInv
<1>1. PICK t \in Tasks : current = {t}
  BY <1>0 DEF IInv, ThreadInv
<1>2. CASE wq_tasklist # <<>>
  <2>1. /\ wq_tasklist' = Tail(wq_tasklist)
        /\ current' = {Head(wq_tasklist)}
        /\ task' = [task EXCEPT ![t] = "done", ![Head(wq_tasklist)] = "running"]
        /\ UNCHANGED <<wq_busy, thread>>
    BY <1>1, <1>2 DEF FuncReturns
  <2>2. task' = [u \in Tasks |-> IF u = Head(wq_tasklist) THEN "running"
                                  ELSE IF u \in current THEN "done" ELSE task[u]]
    BY <1>0, <1>1, <2>1 DEF TypeOK
  <2> QED BY <1>0, <1>2, <2>1, <2>2, TakeKeeps DEF FuncReturns
<1>3. CASE wq_tasklist = <<>>
  <2>1. /\ wq_busy' = wq_busy - 1 /\ current' = {} /\ thread' = "bored"
        /\ task' = [task EXCEPT ![t] = "done"] /\ UNCHANGED wq_tasklist
    BY <1>1, <1>3 DEF FuncReturns
  <2>2. \A u \in Tasks : task'[u] = IF u = t THEN "done" ELSE task[u]
    BY <1>0, <2>1 DEF TypeOK
  <2>3. task[t] = "running" /\ \A u \in Tasks : task[u] = "running" => u = t
    BY <1>0, <1>1 DEF TasksAccounted
  <2>4. {u \in Tasks : task'[u] = "running"} = {}
    BY <2>2, <2>3
  <2>5. TasksAccounted'
    BY <1>0, <2>1, <2>2, <2>3, <2>4 DEF FuncReturns, TasksAccounted
  <2>6. TypeOK'
    BY <1>0, <2>1 DEF FuncReturns, TypeOK, ThreadStates, TaskStates
  <2>7. (NoStrandedTask /\ ThreadInv /\ CreateInv /\ DestroyInv /\ FreedLast)'
    BY <1>0, <1>3, <2>1 DEF IInv, FuncReturns, NoStrandedTask, ThreadInv,
                      CreateInv, DestroyInv, FreedLast, NoUseAfterFree
  <2> QED BY <2>5, <2>6, <2>7 DEF IInv
<1> QED BY <1>2, <1>3

\* workq_destroy, from its call or around its loop: while wq_running counts
\* the thread, the queue stays.
LEMMA DestroyKeeps ==
  ASSUME IInv, DestroyTest, kind # "system", queue = "live",
         wq_flags' \in BOOLEAN,
         UNCHANGED <<wq_running, wq_busy, wq_tasklist, kind, kthread_create_now,
                     deferred, current, task>>
  PROVE  IInv'
<1>0. TypeOK
  BY DEF IInv
<1>1. TasksAccounted'
  <2>1. wq_running' = IF thread' \in {"ready", "in_func", "bored"} THEN 1 ELSE 0
    BY DEF IInv, TasksAccounted, DestroyTest
  <2> QED BY <2>1, SameTasks
<1>2. TypeOK'
  BY <1>0 DEF DestroyTest, TypeOK, ThreadStates, CallStates
<1>3. FreedLast'
  BY DEF IInv, TypeOK, ThreadStates, TasksAccounted, DestroyTest, FreedLast,
         NoUseAfterFree
<1>4. (NoStrandedTask /\ ThreadInv /\ CreateInv /\ DestroyInv)'
  BY DEF IInv, DestroyTest, NoStrandedTask, ThreadInv, CreateInv, DestroyInv
<1> QED BY <1>1, <1>2, <1>3, <1>4 DEF IInv

\* Every step keeps the invariant.
LEMMA NextIInv == IInv /\ [Next]_vars => IInv'
<1> SUFFICES ASSUME IInv, [Next]_vars PROVE IInv'
  OBVIOUS
<1>1. CASE UNCHANGED vars
  BY <1>1 DEF vars, IInv, TypeOK, TasksAccounted, NoStrandedTask, ThreadInv,
              CreateInv, DestroyInv, FreedLast, NoUseAfterFree
<1>2. ASSUME NEW t \in Tasks, AddTaskResume(t)
      PROVE  IInv'
  BY <1>2, InsertKeeps DEF AddTaskResume
<1>3. CASE Destroy
  BY <1>3, DestroyKeeps DEF Destroy
<1>4. CASE DestroyLoop
  <2>1. kind # "system" /\ queue = "live" /\ wq_flags' \in BOOLEAN
    BY <1>4 DEF IInv, DestroyInv, DestroyLoop, TypeOK
  <2> QED BY <1>4, <2>1, DestroyKeeps DEF DestroyLoop
<1> QED BY <1>1, <1>2, <1>3, <1>4, CreateKeeps, RunDeferredKeeps, AddTaskKeeps,
           ThreadLoopKeeps, FuncReturnsKeeps DEF Next

LEMMA Inductive == Spec => []IInv
BY InitIInv, NextIInv, PTL DEF Spec

-----------------------------------------------------------------------------
\* The variables of kern_workq.c keep their types; in particular wq_running
\* and wq_busy, which the thread takes down, never wrap below 0.
THEOREM TypeCorrect == Spec => []TypeOK
<1>1. IInv => TypeOK
  BY DEF IInv
<1> QED BY <1>1, Inductive, PTL

\* The thread never sleeps in tsleep(wq) with a task on the list.
THEOREM NoTaskStranded == Spec => []NoStrandedTask
<1>1. IInv => NoStrandedTask
  BY DEF IInv
<1> QED BY <1>1, Inductive, PTL

\* Every task is on the list, in the thread's hands or done, as its history
\* says, and wq_running counts the thread while it can touch the queue.
THEOREM EveryTaskAccounted == Spec => []TasksAccounted
<1>1. IInv => TasksAccounted
  BY DEF IInv
<1> QED BY <1>1, Inductive, PTL

\* workq_destroy does not free a queue that was not made during autoconf
\* while workq_thread may still touch it.
THEOREM FreedAfterThread == Spec => [](kind # "early" => NoUseAfterFree)
<1>1. IInv => (kind # "early" => NoUseAfterFree)
  BY DEF IInv, FreedLast
<1> QED BY <1>1, Inductive, PTL

\* So if no queue is made during autoconf and destroyed later, no thread
\* works on a queue that was freed.
THEOREM NeverUsedAfterFree ==
  ASSUME "early" \notin Queues
  PROVE  Spec => []NoUseAfterFree
<1>1. IInv => NoUseAfterFree
  BY DEF IInv, FreedLast, TypeOK
<1> QED BY <1>1, Inductive, PTL
=============================================================================
