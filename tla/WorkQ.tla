------------------------------- MODULE WorkQ -------------------------------
(***************************************************************************)
(* The work queues of sys/kern/kern_workq.c: one queue, its thread, the    *)
(* callers that add tasks to it, and the one that destroys it.             *)
(*                                                                         *)
(* All of this code runs under the kernel lock, and interrupts are held    *)
(* off by splhigh, so a step is what runs between two sleeps.  The places  *)
(* that can sleep are the task function, tsleep, and pool_get with         *)
(* WQ_WAITOK.  The thread's sleep is on the queue (channel wq), that of    *)
(* workq_destroy on &wq->wq_running.                                       *)
(***************************************************************************)
EXTENDS Naturals, Sequences

CONSTANTS
  Tasks,       \* the tasks callers may add, each once
  Queues       \* which queues to look at, of those in QueueKinds

\* workq_syswq, made during autoconf and never destroyed; a driver's queue
\* made after autoconf; a driver's queue made during autoconf.
QueueKinds == {"system", "driver", "early"}

ASSUME QueuesAssumption == Queues \subseteq QueueKinds

VARIABLES
  kind,               \* which of Queues it is
  queue,              \* "none", "live" or "freed": the struct workq
  wq_flags,           \* WQ_F_RUNNING
  wq_running,
  wq_busy,
  wq_tasklist,
  kthread_create_now, \* false while autoconf runs
  deferred,           \* workq_create_thread is in the deferred queue
  thread,             \* where workq_thread is
  current,            \* the tasks it is running: none or one
  task,               \* what became of each task
  destroy             \* where workq_destroy is

vars == <<kind, queue, wq_flags, wq_running, wq_busy, wq_tasklist,
          kthread_create_now, deferred, thread, current, task, destroy>>

ThreadStates == {"none", "ready", "in_func", "bored", "exited"}
TaskStates   == {"new", "pool_get", "queued", "running", "done", "refused"}
CallStates   == {"not_called", "loop", "wqdestroy", "returned"}

TypeOK ==
  /\ kind \in Queues
  /\ queue \in {"none", "live", "freed"}
  /\ wq_flags \in BOOLEAN
  /\ wq_running \in Nat
  /\ wq_busy \in Nat
  /\ wq_tasklist \in Seq(Tasks)
  /\ kthread_create_now \in BOOLEAN
  /\ deferred \in BOOLEAN
  /\ thread \in ThreadStates
  /\ current \in SUBSET Tasks
  /\ task \in [Tasks -> TaskStates]
  /\ destroy \in CallStates

Init ==
  /\ kind \in Queues
  /\ queue = "none"
  /\ wq_flags = FALSE
  /\ wq_running = 0
  /\ wq_busy = 0
  /\ wq_tasklist = <<>>
  /\ kthread_create_now = (kind = "driver")
  /\ deferred = FALSE
  /\ thread = "none"
  /\ current = {}
  /\ task = [t \in Tasks |-> "new"]
  /\ destroy = "not_called"

-----------------------------------------------------------------------------
(***************************************************************************)
(* Creating the queue and its thread.                                      *)
(***************************************************************************)

\* workq_create_thread: the thread is made and counted, or fork1 fails and
\* the queue has no thread.  For the system queue, workq_init_syswq panics
\* instead, and there is no next state.
CreateThread ==
  \/ /\ thread' = "ready"
     /\ wq_running' = wq_running + 1
  \/ kind # "system" /\ UNCHANGED <<thread, wq_running>>

\* workq_create.  Once the system is up kthread_create_deferred makes the
\* thread at once; during autoconf it queues the request.
Create ==
  /\ queue = "none"
  /\ queue' = "live"
  /\ wq_flags' = TRUE
  /\ \/ kthread_create_now /\ CreateThread /\ UNCHANGED deferred
     \/ ~kthread_create_now /\ deferred' = TRUE /\ UNCHANGED <<thread, wq_running>>
  /\ UNCHANGED <<wq_busy, wq_tasklist, kind, kthread_create_now, current, task, destroy>>

\* The requests queued during autoconf are forgotten.
RunDeferredForgets ==
  /\ ~kthread_create_now
  /\ kthread_create_now' = TRUE
  /\ deferred' = FALSE
  /\ UNCHANGED <<kind, queue, wq_flags, wq_running, wq_busy, wq_tasklist, thread,
                 current, task, destroy>>

\* kthread_run_deferred_queue, at the end of autoconf.
RunDeferred ==
  /\ ~kthread_create_now
  /\ kthread_create_now' = TRUE
  /\ deferred' = FALSE
  /\ \/ deferred /\ CreateThread
     \/ ~deferred /\ UNCHANGED <<thread, wq_running>>
  /\ UNCHANGED <<kind, queue, wq_flags, wq_busy, wq_tasklist, current, task, destroy>>

-----------------------------------------------------------------------------
(***************************************************************************)
(* workq_add_task.  Callers do not add to a queue they are destroying, and *)
(* do not destroy it while they are in workq_add_task.                     *)
(***************************************************************************)

\* An add that never wakes the thread.
InsertNoWakeup(t) ==
  /\ wq_tasklist' = Append(wq_tasklist, t)
  /\ task' = [task EXCEPT ![t] = "queued"]
  /\ UNCHANGED thread

\* SIMPLEQ_INSERT_TAIL and wakeup_one(wq).
Insert(t) ==
  /\ wq_tasklist' = Append(wq_tasklist, t)
  /\ task' = [task EXCEPT ![t] = "queued"]
  /\ thread' = IF thread = "bored" THEN "ready" ELSE thread

\* pool_get succeeds at once; or, with WQ_WAITOK, sleeps first; or, without
\* it, fails, and the caller gets ENOMEM.
AddTask(t) ==
  /\ queue = "live" /\ destroy = "not_called"
  /\ task[t] = "new"
  /\ \/ Insert(t)
     \/ /\ task' = [task EXCEPT ![t] = "pool_get"]
        /\ UNCHANGED <<wq_tasklist, thread>>
     \/ /\ task' = [task EXCEPT ![t] = "refused"]
        /\ UNCHANGED <<wq_tasklist, thread>>
  /\ UNCHANGED <<queue, wq_flags, wq_running, wq_busy, kind, kthread_create_now,
                 deferred, current, destroy>>

\* pool_get has slept, and returns a task.
AddTaskResume(t) ==
  /\ task[t] = "pool_get"
  /\ Insert(t)
  /\ UNCHANGED <<queue, wq_flags, wq_running, wq_busy, kind, kthread_create_now,
                 deferred, current, destroy>>

-----------------------------------------------------------------------------
(***************************************************************************)
(* workq_thread.                                                           *)
(***************************************************************************)

\* SIMPLEQ_REMOVE_HEAD is missing: the task stays on the list.
TakeTaskKeep ==
  /\ wq_tasklist # <<>>
  /\ wq_busy' = wq_busy + 1
  /\ current' = {Head(wq_tasklist)}
  /\ task' = [task EXCEPT ![Head(wq_tasklist)] = "running"]
  /\ thread' = "in_func"
  /\ UNCHANGED <<queue, wq_flags, wq_running, wq_tasklist, kind, kthread_create_now,
                 deferred, destroy>>

\* The inner loop takes the first task and calls its function.
TakeTask ==
  /\ wq_tasklist # <<>>
  /\ wq_tasklist' = Tail(wq_tasklist)
  /\ wq_busy' = wq_busy + 1
  /\ current' = {Head(wq_tasklist)}
  /\ task' = [task EXCEPT ![Head(wq_tasklist)] = "running"]
  /\ thread' = "in_func"
  /\ UNCHANGED <<queue, wq_flags, wq_running, kind, kthread_create_now, deferred, destroy>>

\* There is no task: tsleep(wq, PWAIT, "bored", 0).
GetBored ==
  /\ wq_tasklist = <<>>
  /\ thread' = "bored"
  /\ UNCHANGED <<queue, wq_flags, wq_running, wq_busy, wq_tasklist,
                 kind, kthread_create_now, deferred, current, task, destroy>>

\* WQ_F_RUNNING is clear: wakeup(&wq->wq_running), and kthread_exit.
Leave ==
  /\ wq_running' = wq_running - 1
  /\ thread' = "exited"
  /\ destroy' = IF destroy = "wqdestroy" THEN "loop" ELSE destroy
  /\ UNCHANGED <<queue, wq_flags, wq_busy, wq_tasklist,
                 kind, kthread_create_now, deferred, current, task>>

\* The top of the outer loop, at the start and after tsleep: the only place
\* where WQ_F_RUNNING is looked at.
ThreadLoop ==
  /\ thread = "ready"
  /\ \/ wq_flags /\ (TakeTask \/ GetBored)
     \/ ~wq_flags /\ Leave

\* The counter is taken down for every task but up only for the first.
FuncReturnsUncounted ==
  /\ thread = "in_func"
  /\ wq_busy' = wq_busy - 1
  /\ \E t \in current :
       \/ /\ wq_tasklist # <<>>
          /\ wq_tasklist' = Tail(wq_tasklist)
          /\ current' = {Head(wq_tasklist)}
          /\ task' = [task EXCEPT ![t] = "done", ![Head(wq_tasklist)] = "running"]
          /\ UNCHANGED thread
       \/ /\ wq_tasklist = <<>>
          /\ current' = {}
          /\ task' = [task EXCEPT ![t] = "done"]
          /\ thread' = "bored"
          /\ UNCHANGED wq_tasklist
  /\ UNCHANGED <<queue, wq_flags, wq_running, kind, kthread_create_now, deferred, destroy>>

\* The task function returns; the inner loop goes on without a look at
\* WQ_F_RUNNING.
FuncReturns ==
  /\ thread = "in_func"
  /\ \E t \in current :
       \/ /\ wq_tasklist # <<>>
          /\ wq_tasklist' = Tail(wq_tasklist)
          /\ current' = {Head(wq_tasklist)}
          /\ task' = [task EXCEPT ![t] = "done", ![Head(wq_tasklist)] = "running"]
          /\ UNCHANGED <<wq_busy, thread>>
       \/ /\ wq_tasklist = <<>>
          /\ wq_busy' = wq_busy - 1
          /\ current' = {}
          /\ task' = [task EXCEPT ![t] = "done"]
          /\ thread' = "bored"
          /\ UNCHANGED wq_tasklist
  /\ UNCHANGED <<queue, wq_flags, wq_running, kind, kthread_create_now, deferred, destroy>>

-----------------------------------------------------------------------------
(***************************************************************************)
(* workq_destroy.                                                          *)
(***************************************************************************)

\* A destroy that does not wait for the thread.
DestroyTestNoWait ==
  /\ queue' = "freed"
  /\ destroy' = "returned"
  /\ UNCHANGED thread

\* While wq_running is not 0 it wakes the thread and sleeps; then it frees
\* the queue.
DestroyTest ==
  \/ /\ wq_running # 0
     /\ thread' = IF thread = "bored" THEN "ready" ELSE thread
     /\ destroy' = "wqdestroy"
     /\ UNCHANGED queue
  \/ /\ wq_running = 0
     /\ queue' = "freed"
     /\ destroy' = "returned"
     /\ UNCHANGED thread

\* The call clears WQ_F_RUNNING and enters the loop, ...
Destroy ==
  /\ kind # "system" /\ queue = "live" /\ destroy = "not_called"
  /\ \A t \in Tasks : task[t] # "pool_get"
  /\ wq_flags' = FALSE
  /\ DestroyTest
  /\ UNCHANGED <<wq_running, wq_busy, wq_tasklist, kind, kthread_create_now,
                 deferred, current, task>>

\* ... and comes around it when the thread has woken it.
DestroyLoop ==
  /\ destroy = "loop"
  /\ DestroyTest
  /\ UNCHANGED <<wq_flags, wq_running, wq_busy, wq_tasklist, kind, kthread_create_now,
                 deferred, current, task>>

-----------------------------------------------------------------------------
Next ==
  \/ Create \/ RunDeferred \/ Destroy
  \/ ThreadLoop \/ FuncReturns \/ DestroyLoop
  \/ \E t \in Tasks : AddTask(t) \/ AddTaskResume(t)

\* Runnable threads run, task functions return, and autoconf ends.
Fairness ==
  /\ WF_vars(ThreadLoop) /\ WF_vars(FuncReturns) /\ WF_vars(DestroyLoop)
  /\ WF_vars(RunDeferred)

Spec == Init /\ [][Next]_vars

FairSpec == Spec /\ Fairness
-----------------------------------------------------------------------------
\* The thread never sleeps on a list with a task in it: the add that put it
\* there woke the thread, or the thread saw the task before it slept.
NoStrandedTask == thread = "bored" => wq_tasklist = <<>>

\* A task is in exactly the place that its history says: it is never lost
\* between the list and the thread, and never run twice.  And wq_running,
\* which workq_destroy waits on, counts the thread as long as it can still
\* look at the queue, whether its creation succeeded, failed or was deferred.
TasksAccounted ==
  /\ wq_running = IF thread \in {"ready", "in_func", "bored"} THEN 1 ELSE 0
  /\ \A t \in Tasks :
       task[t] = "queued" <=> \E i \in DOMAIN wq_tasklist : wq_tasklist[i] = t
  /\ \A i, j \in DOMAIN wq_tasklist : wq_tasklist[i] = wq_tasklist[j] => i = j
  /\ current = {t \in Tasks : task[t] = "running"}

\* No thread works on a queue that workq_destroy has freed.
NoUseAfterFree == queue = "freed" => thread \in {"none", "exited"}

\* A task added to the system queue runs to its end.
TasksRun ==
  \A t \in Tasks : kind = "system" /\ task[t] = "queued" ~> task[t] = "done"

\* workq_add_task(9): workq_destroy "will wait till all the tasks in the work
\* queue are completed before returning", so it does return.
DestroyReturns == destroy = "wqdestroy" ~> destroy = "returned"
=============================================================================
