# Synchronisation and blocking in the aerieBSD kernel

This directory specifies, checks and in part proves how processes of the aerieBSD kernel (`sys/kern`)
block on each other: the sleep queues with the signals that interrupt, stop and continue a sleeper,
and what is built on them, namely the rwlock, the lock manager, the work queues, the timeouts, the
pipes, the advisory file locks, and the descriptor tables with the reference counts of open files.
They were chosen out of a whole operating system because nearly all other kernel code blocks through
them, because they are small enough to be modelled completely, and because what can go wrong in them
(a lost wakeup, a flag left behind by a failed request, a value read before a sleep and used after it,
a count that one of many paths forgets) is what a regression test hardly ever meets.

`PROJECT.json` holds the machine-readable side: components, runs, the source lines of every
definition, a mutation per property, findings, hazards, theorems.

## 1. The system

### How the kernel blocks

A process sleeps on a *wait channel*, an address (`tsleep`, or `sleep_setup` .. `sleep_finish`), and
`wakeup` makes every process on that channel runnable; nothing is remembered when nobody sleeps there.
A woken process must test its condition again. Code in process context holds the kernel lock and loses
it only where it sleeps, so between two sleeps it is atomic with respect to other processes: in the
models *one step is what runs from one sleep to the next*. Three components do not live by that rule:

* `kern_rwlock.c` changes its word with compare-and-swap only. Its steps are single loads and single
  compare-and-swaps, so that all interleavings of several CPUs are covered.
* `kern_timeout.c` is entered from the clock interrupt and protected by `timeout_mutex`. Its steps
  are the sections under that mutex.
* `kern_synch.c` and `kern_sig.c` are entered from interrupts under the scheduler lock. Their steps go
  from one release of that lock, or one `mi_switch`, to the next.

The components meet in these places:

| from | to | how |
|---|---|---|
| rwlock, lockmgr, workq, pipe, lockf, closef | sleep queues | `tsleep`, `sleep_setup`, `wakeup` on their own address |
| sleep queues | timeouts | the limit of a sleep (`endtsleep`), hence `CATCH` failures in lockmgr |
| signals | sleep queues | an interruptible sleep ends with `EINTR`/`ERESTART`; a stop takes the process off its CPU but not off its channel |
| descriptors | rwlock | `fdplock` is `rw_enter_write` on the table's `fd_lock` |
| lockf | sleep queues | the deadlock search reads the wait channels of other processes |
| descriptors | lockf | `flock` waits in `lf_advlock`; `closef` unlocks |
| workq | kthread | the thread's creation is deferred while autoconf runs |
| pipe | descriptors | `closef` waits for the users of a file, so a file's own reads and writes are over when `pipe_close` is called; the *other* end's are not |
| pipe | select/poll | `selrecord` when nothing is ready, `selwakeup` on every change |

### Components, their state, operations and hard behaviour

| component | state | operations | what is hard | what makes it correct |
|---|---|---|---|---|
| rwlocks `kern_rwlock.c` | one word: writer or reader count, three bits | `rw_enter*`, `rw_exit*`, downgrade | CAS interleavings; the window between the check and the sleep | exclusion, an exact word, no lost wakeup, atomic downgrade |
| lock manager `kern_lock.c` | flags, share/exclusive/wait counts, holder | shared, exclusive, downgrade, release, drain, with flags | failing sleeps, woken but not yet run waiters, recursion, drain against everyone | exclusion, exact counts, nobody stranded, drained means alone |
| work queues `kern_workq.c`, `kern_kthread.c` | task list, running/busy counts, `WQ_F_RUNNING` | create, deferred thread, add, loop, destroy | destroy at any point of the thread's loop; creation failing or deferred | no task lost or run twice, no use after free, tasks run, destroy returns |
| timeouts `kern_timeout.c` | four wheels, `timeout_todo`, flags, `ticks` | set, add (all units), del, hardclock, softclock | integer wrap, bucket edges, moving a queued timeout, changes while softclock has dropped the mutex | never early, never late, flags agree with lists |
| pipes `sys_pipe.c` | ring buffer, state flags, busy count | read, write, poll, close of each end, growth | faults in `uiomove`, several writers, signals, closing under sleepers | bytes once and in order, short writes whole, no lost wakeup, close ends |
| sleep queues, signals `kern_synch.c`, `kern_sig.c` | `p_stat`, `p_flag`, `p_wchan`, `p_siglist`, the queue | `tsleep`, `wakeup`, `endtsleep`, `psignal`, `issignal` | stop, continue, wakeup and timeout racing | the queue holds the sleepers, a sleep ends for the reason it returns, stopped means stopped, sleeps that must end do |
| advisory locks `vfs_lockf.c` | list of ranges, blocked requests of each, `ui_lockcnt` | set, clear, split, upgrade | splits and merges under waiters, deadlock detection, `EOF` | byte ranges as fcntl(2) promises, nobody waits in vain, no circle |
| descriptors and files `kern_descrip.c`, `file.h` | tables with bitmap and hints, `fd_lock`, `f_count`, `f_usecount`, `f_iflags` | open, close, dup, dup2, `F_DUPFD`, `/dev/fd`, read, accept, flock, fork, rfork, exit | close while another process reads, lock and counts on many error paths | exact counts, no use after free, hints right, closer woken, lock held by whom the code says |
| semaphores `sysv_sem.c` | values, undo lists | `semop`, `semctl`, exit | removal under sleepers, partial operations rolled back | all or nothing, undo adds up |
| kqueue, select | knotes, `selinfo` | register, scan, activate | scan sleeping with a marker in the list | no event lost |
| process life cycle, buffer cache, vnodes, local sockets | reference counts, busy bits | fork/exit/wait, `getblk`/`brelse`, `vget`/`vrele`, descriptor passing | recycling under sleepers, garbage collection | no use after recycling |
| uvm, network, file systems, drivers, machine code, libraries, userland | | | | see section 8 |

## 2. Modules

| module | what it is |
|---|---|
| `RwLock` | `kern_rwlock.c` at the grain of loads and compare-and-swaps |
| `ReadersWriter` | the abstract lock that rwlock(9) promises |
| `LockMgr` | `lockmgr()` |
| `WorkQ` | one work queue, its thread, its callers |
| `Timeout` | the wheels, `hardclock`, `softclock`, the callers |
| `Pipe` | one direction of a pipe |
| `Sleep` | `tsleep` and `wakeup` with timeouts, signals, stops and `SIGCONT` |
| `LockF` | the advisory locks of one file |
| `RangeLocks` | what fcntl(2) promises of them, byte by byte |
| `Descr` | descriptor tables and open files |
| `Queues` | lists linked by their elements: membership and unlinking, for `Sleep` and `Timeout` |
| `RwLockProofs`, `WorkQProofs`, `LockMgrProofs`, `SleepProofs`, `TimeoutProofs`, `PipeProofs`, `DescrProofs` | the theorems about the module of that name; `RwLockProofs` includes that it implements `ReadersWriter` |
| `QueueProofs` | the lemmas about `Queues` |
| `MCLockMgr`, `MCTimeout`, `MCSleep`, `MCLockF`, `MCDescr` | the instances that are more than a set of names: how processes use a lock, delays, signal set-ups, segments, programs; symmetry |

Every module is parameterised by its `CONSTANTS` alone; where plain sets do, its `.cfg` file
instantiates it directly. A definition whose name extends that of the definition after it (`BusyNoWrlock`
before `Busy`, `InsertNoWakeup` before `Insert`) is a deliberately wrong variant of it; no specification uses it. It
serves to show that the properties notice the mistake.

### RwLock

The word is a record: the bits `wait`, `wrwant`, `wrlock`, and `hi`, which is the number of readers or
the writer's address (in units of `RWLOCK_READ_INCR`, hence processes are positive numbers). The rows
of the table `rw_ops` are the operators `Busy` (check), `WithWaitSet` and `Granted` (increment and
`proc_mult`). `o[p]` is the local copy a process compares with, `wrlock[p]` the local of `rw_exit`.

| action | code |
|---|---|
| `CallEnterRead`, `ReadCas`, `CallEnterWrite` | the fast paths |
| `CallEnter`, `CallDowngrade`, `EnterLoad`, `Block`, `Awake`, `Take` | `rw_enter` |
| `CallFastExit`, `ReadExitCas`, `WriteExitCas` | `rw_exit_read`, `rw_exit_write` |
| `CallExit`, `Exit`, `ExitLoad`, `ExitCas`, `Notify` | `rw_exit` and `wakeup` |
| `Signal` | a signal to a sleeper with `RW_INTR` |

`Block` is one step because the section from `sleep_setup` to `sleep_finish` holds the scheduler lock,
which `wakeup` takes too. `held` is history: it lets the properties speak about who has the lock. The
model's callers release what they hold and do not enter a lock they hold (the code panics or hangs).
The `DIAGNOSTIC` assertions change no state and are not in the model.

### LockMgr

`lk` is the `struct lock`; `at[p]` names the `ACQUIRE` a process is in (`shared`; `want` and `excl`
for the two of `LK_EXCLUSIVE`; `drain`), `sleep[p]` whether it sleeps, was woken, or its sleep failed.
A call up to its first sleep is one step (`Request`, `Recurse`, `Downgrade`, `Release`), and what a
woken process does up to its next sleep or its return is another (`Resume`). `Return` includes the
test that wakes a drainer, `Wanted`/`Granted`/`Released`/`Downgraded` are the updates of the record.
`CATCH` stands for a lock with `PCATCH` in `lk_prio` or with an `lk_timo`. `uses` is the member of
`Uses` a behaviour is about: for each process the flags of its requests. `panicked` records that a
`panic` was reached: that of an exclusive request that finds an exclusive count, of a release of a lock
that is free or somebody else's, and of a downgrade without an exclusive instance. The panics for callers that
break the rules (locking or draining against oneself, a call after the drain) are excluded by the guards.

### WorkQ

One queue of a kind: `system` (made before threads can be made, never destroyed), `driver` (made
after autoconf, may be destroyed), `early` (made during autoconf by a driver that may destroy it).
Steps: `Create`, `RunDeferred` (`kthread_run_deferred_queue`), `AddTask` and `AddTaskResume` (when
`pool_get` slept), `ThreadLoop` (one of take a task, get bored, leave), `FuncReturns`, `Destroy`,
`DestroyLoop`. The creation of a driver's thread may fail, and so may the
allocation of a task.

### Timeout

`WHEELBITS` is 8 in the code and ints have 32 bits; in the model `WHEELBITS` and `INTBITS` are
parameters, so every shift, mask, comparison by the sign of a
difference and wrap is the code's own at another width. `ticks` and `to_time` wrap. The history
variable `left` is the number of ticks until a timeout is due, counted without wrapping, and `armed`
says whether its caller expects it to run; the properties compare the code's arithmetic with these.
Steps: `Set`, `timeout_add`, `timeout_add_tv` (which stands for the whole family of conversions
`timeout_add_sec`, `_msec`, ...), `timeout_del`, `hardclock` (with `timeout_hardclock_update`), and
`softclock` as `Begin`, `Sort`, `Call`, `Return`, `Finish`: between `Call` and `Return` the mutex is
free and anything may happen, to the running timeout too.

### Pipe

The `struct pipe` of the read end, with the ring buffer byte by byte. A byte is the writer, the
length of the write and its place in it: what `NothingLost` and `ShortWritesWhole` need and no more.
`curproc` is the process that has the kernel lock; a process gives it up only at the end of a step
that can sleep (`tsleep`, `uiomove`, return), so long stretches of code are several actions but still
atomic. `AfterLock` and `AfterSignal` say where each of the sleeps of `pipelock` and of the loops
continues. `pipe_state` holds `LOCK`, `LWANT`, `WANTR`, `WANTW`, `WANT`, `SEL`, `EOF` (without the
prefix `PIPE_`). History: `sent` and `got`.

### Sleep

`p_stat`, `p_wchan`, `p_flag`, `p_siglist` and the queue are the fields of `struct proc` and `slpque`;
all channels hash to one queue. `pc` says where in `tsleep` a process is: stopped in the `CURSIG` of
`sleep_setup_signal` (`setup`), switched away (`switch`), or past `sleep_finish` (`finish`,
`finish_signal`). `act` is the signal set-up of a process, fixed in a behaviour: caught, ignored and
masked signals, whether its group is orphaned, whether it is a vfork child.

| action | code |
|---|---|
| `tsleep`, `SetupResumed`, `SwitchedTo`, `sleep_finish_timeout`, `sleep_finish_signal` | `tsleep` from switch to switch |
| `wakeup_n`, `endtsleep` | the same |
| `psignal` with `SignalAsleep`, `SignalStopped`, `Continue` | its switch on `p_stat` |
| `userret` | the loop that takes signals on the way to user mode; `issignal` and `proc_stop` are operators |

`woken` and `expired` are history: what happened to the sleep, to be compared with what it returns.

### LockF and RangeLocks

`lf_list` is the list along `lf_next`, each lock with the processes on its `lf_blkhd`. The walks of
`lf_setlock` and `lf_clearlock` are folds over the list (`SetStep`, `ClearStep`) with the six overlap
cases of `lf_findoverlap` (`ovcase`); a fold carries what the C code keeps in `prev`, `needtolink` and
the wakeups. `Setlk` and `Unlck` are `lf_advlock`, `Retry` and `SetInterrupted` what a request does
after its `tsleep`. `RangeLocks` has nothing but a mode per owner and byte, and one action; `LockF` is
shown to implement it with `Held`, the mode that the list gives a byte.

### Descr

A step is a function from a state record `k` (tables, files, processes) to the next, so that the
operators carry the names and the call structure of the C functions: `closef` ends in
`AfterClosef`, which is what the calling system call does next. A process in a call is at `fdplock`
(waiting for the table), `making` (in `vn_open` or `soaccept`, with a larval file), `closef` (waiting
for the users of a file), `fo_close` (closing it; the file is freed by a step of its own, `FoClosed`), `io`, `flock`, `accept` or `fdfree`. `program` says which calls each process
makes in a behaviour; it is what separates the instances below. The loop of `fdcopy` is stated slot by slot:
`Uncopied` are the slots that its `fdremove` leaves out, `Copied` those that count.

## 3. What the runs check

| run | instance | properties | what it shows |
|---|---|---|---|
| `rwlock` | 3 processes, flags none / `INTR`+`SLEEPFAIL` / `NOSLEEP`, fair | `TypeOK` `Exclusion` `WordTellsHolders` `NoOrphanWaiterBits` `NoLostWakeup` `ImplementsPromise` `SleepersWoken` | any interleaving is a readers-writer lock with an atomic downgrade; sleepers are made runnable again |
| `workq` | 4 tasks, system and driver queue, fair | `TypeOK` `NoStrandedTask` `TasksAccounted` `NoUseAfterFree` `TasksRun` | no task lost, run twice or slept on; a queue is freed after its thread |
| `workq_hang` | 2 tasks, driver queue, fair | `DestroyReturns` | *violated*, finding 1 |
| `lockmgr` | 4 processes whose sleeps do not fail, or 3 whose sleeps may, fair | `NoPanic` `Exclusion` `CountsExact` `NobodyStranded` `SleepersWoken` | exclusion (a drained lock included), bookkeeping and progress with recursion, polling, failures and drains |
| `lockmgr_strand` | 3 processes, sleeps fail | `NoStrandedWaiter` | *violated*, finding 2 |
| `timeout` | 2 timeouts, 5-bit ints, 4 wheels of 2 buckets, fair | `TypeOK` `FlagTellsList` `DueIsOnTodo` `NeverEarly` `DueRuns` | timeouts through add, move, delete at any moment of the two clocks, over the edges of the wheels and the clamp at `INT_MAX` |
| `pipe` | 1 reader, 2 writers, 1 poller, growth possible or not, fair | `NothingLostUnresized` `ShortWritesWhole` `BusyCounts` `NoLostWakeup` `CloseReturns` | bytes, wakeups, counts and closing, with signals, faults and non-blocking I/O |
| `pipe_resize` | the same without faults | `NothingLost` | *violated*, finding 3 |
| `sleep` | a process with 8 signal set-ups and 5 signals, and one more on the same queue, fair | `QueueTellsSleepers` `ErrorTellsCause` `StaysStopped` `SleepsEnd` | whatever comes in whatever order, a sleep ends for the reason it returns, and once; SIGKILL, other deadly or caught signals and timeouts do end it |
| `lockf` | 2 processes with fcntl and 1 with flock, 4 segments | `ListSound` `SleepersBlocked` `NoDeadlock` `ImplementsRangeLocks` | the lists implement byte locks; nobody sleeps in vain or in a circle |
| `descr` | 3 processes, 2 tables, 2 files, 3 descriptors | `CountsExact` `NoUseAfterFree` `HintsHold` `CloserWoken` `LockTellsHolder` | counts, hints, lock and wakeups over every path of the calls |
| `descr_accept` | the same, one shared table, accept | `TableExclusion` | *violated*, finding 4 |

Each property of a passing run has a mutation in `PROJECT.json`: a plausible slip in one definition
under which that property fails.

### Bounds, and why they are enough

* **Three processes** on an rwlock: a holder, a process between its load and its compare-and-swap, and
  one asleep are the parties of every race in the code; the theorems of section 5 lift the safety
  part to any number, here and for the next four points. **Four** for `lockmgr`: a holder, a holder of
  `LK_WANT_EXCL`, a plain waiter and a drainer can be there together. With failing sleeps three keep the state space small; the
  failing request, the waiter it leaves behind and the holder are three.
* **`MaxHold` = 2**: the second instance is the first to be recursive, and the first for which the
  order of releases and a downgrade of several instances matter.
* **4 tasks**: one running, one queued, one in `pool_get` and one that arrives late.
* **`WHEELBITS` 1, `INTBITS` 5**: four wheels of two buckets, whose edges are at 2, 4 and 8 ticks, and
  ints from -16 to 15 that wrap often. One timeout is added with 2, 3, 5 and 9 ticks, on both sides of
  every edge, with a time that rounds to 0 ticks and one of 20 ticks, beyond `INT_MAX`; the other is
  always near.
* **`MaxLate`**: how many ticks softclock can be held off. Without a limit an int difference could
  change sign while a timeout waits on the work list; in the code that takes 2^31 ticks (248 days at
  `hz` = 100). The difference of `to_time`
  and `ticks` stays between -`MaxLate` and `INT_MAX`, so its sign means what the code takes it to mean.
* **Pipe**: `PIPE_SIZE` 3, `PIPE_BUF` 2, writes of 1, 2 and 4 bytes: shorter than, equal to and longer
  than `PIPE_BUF` and longer than the pipe, so the buffer wraps, fills, and forces short writes to
  wait. `BIG_PIPE_SIZE` 5; there is room for one big pipe, or none because another took it. One write
  per writer (`MaxWrites`), any number of reads. One direction: the other runs the same code on the
  other `struct pipe`.
* **Sleep**: one process gets all the signals, since they act on one process each; the other shares
  the queue and both channels, for collisions of the hash and `wakeup_one`. The five signals are one of
  each property in `sigprop`: kill, stop, tty stop, continue, plain.
* **LockF**: a file of three bytes, the last of which stands for all behind it. The segments contain,
  begin, end and cut each other, so all six overlap cases and splits in three occur.
  With `maxlockdepth` 1 the chain of two fcntl processes is just within reach of the search (50 in the
  code). `maxlocksperuid` 3 is reached.
* **Descr**: the three processes are the closer, the user of the file and one that waits for the table.
  Two files and three descriptors suffice for a dup2 over an open descriptor, a full table and a full
  file table. `MaxCount`, `LONG_MAX - 2` in the code, is out of reach. In `descr` the processes either
  have tables of their own (and fork, accept, flock) or share one (and do none of these): the other
  combinations break as finding 4 and the observations say; section 5 has theorems for any number of
  processes, tables, files and descriptors for both.
* **Symmetry** is used for fcntl processes in `LockF` and for tables and unborn processes in `Descr`,
  in runs whose properties name none of them and are no liveness properties.
* `CHECK_DEADLOCK FALSE` where the system may come to rest: a drained lock, a queue whose tasks have
  all been added, a pipe with both ends closed, dead processes. In the rwlock and timeout runs deadlock
  is checked.

### Fairness, and why the code justifies it

Weak fairness with one exception, always of steps that the kernel itself takes:

* a process that is runnable inside a call goes on (the scheduler runs every runnable process);
* in `RwLock` and `LockMgr`, a holder lets go: without it no waiter of any lock makes progress, and
  a caller that never does is at fault, not the lock;
* in `WorkQ`, task functions return and autoconf ends (`RunDeferred`);
* in `Timeout`, the clock ticks, a softclock that was requested runs (a software interrupt), and the
  functions, which may not sleep, return;
* in `Pipe`, a process that is awake in the kernel runs, and `uiomove` ends. Nothing makes a reader
  read or a process close its end.

* in `Sleep`, a runnable process runs, softclock calls `endtsleep`, and a process passes `userret` again
  and again (strong fairness, because it may sleep in between: no process stays in one system call for
  ever). Nothing makes a wakeup or a `SIGCONT` come.

`LockF` and `Descr` have safety properties only: what their liveness rests on, that the owner of a lock
unlocks and that the user of a file comes back, is up to programs. `SleepersBlocked` and `CloserWoken`
say that when that happens somebody is there to be woken.

No fairness is assumed of callers' requests, of signals, or of failures. `SleepersWoken` says that a
sleeper is woken, not that it gets the lock: neither lock promises that (see the first observation).

## 4. Findings

1. **`workq_destroy` can hang** (`workq_hang`, `sys/kern/kern_workq.c:188`). The thread looks at
   `WQ_F_RUNNING` only after a sleep. Destroy while a task is running: the wakeup finds nobody asleep, the
   task returns, the thread finds the list empty and sleeps, and both sleep for ever.
   workq_add_task(9) says that destroy "will wait till all the tasks in the work queue are completed
   before returning".
2. **A failing exclusive request strands a shared one** (`lockmgr_strand`, `sys/kern/kern_lock.c:316`).
   P1 holds the lock shared; P2 asks for it exclusively with `LK_SLEEPFAIL`, sets `LK_WANT_EXCL` and
   sleeps; P1 releases and wakes P2; before P2 runs, P3 asks for it shared, sees the bit and sleeps; P2
   fails, clears the bit and wakes nobody. P3 sleeps on a free lock. `lock.h` says "Locks will always
   succeed unless one of the following is true", and nothing that follows is true of P3. Few callers
   let exclusive requests fail in their sleep: `ntfs_subr.c` with `LK_SLEEPFAIL`, the i80321 I2C
   driver with `PCATCH`.
3. **Growing a pipe can lose data** (`pipe_resize`, `sys/kern/sys_pipe.c:406`). A long write sees an
   empty pipe, sleeps in `pipelock` while another writer is in `uiomove`, and then replaces the
   buffer without looking again: bytes whose `write` returned success are gone. The comment on
   `pipespace` says "safely". The same race can leave a writer asleep on an empty pipe.
4. **A failing accept unlocks somebody else's descriptor table** (`descr_accept`,
   `sys/kern/uipc_syscalls.c:245`). The errors of `sys_accept` that come before its `fdplock` (not
   listening, `EWOULDBLOCK`, a signal, an error of the socket) go to the same label as the later ones, and
   there is an `fdpunlock`. `rw_exit_write` does not look whose lock it is. A process that shares the
   table and sleeps in `open` loses its lock, and a third one gets in beside it; rwlock(9) says that a
   write lock grants "exclusive access to a single process".

Observations the models make visible that have no run of their own:

* `rw_enter(RW_READ)` does not yield to waiting writers, although the comment in `kern_rwlock.c:47`
  says that for `RW_READ` "`RWLOCK_WRLOCK|RWLOCK_WRWANT` may not be set": the table checks
  `RWLOCK_WRLOCK` only, so a stream of readers can starve a writer. The model has the table.
* With `Queues = {"early"}`, `NoUseAfterFree` fails: a queue destroyed during autoconf, before its
  thread's deferred creation, is freed, and the thread is started on it later.
* `workq_destroy` drops the tasks still queued when the thread wakes up, against the sentence of
  workq_add_task(9) quoted above.
* `timeout_add(t, 0)` can run before the next tick, when softclock is already in its loop; timeout(9)
  says that 0 is treated as 1.
* Other programs for `Descr` show: `flock` keeps no reference while it sleeps, so that in a shared table
  the file can be freed under it (`kern_descrip.c:1138`; file(9) asks for `FREF`); `dup` and `dup2` take
  their reference before they wait for the table's lock, while `close` holds the lock and waits for
  the references, so that both sleep for ever (`:215`, `:264`); `fdcopy` copies `fd_lock` with the rest,
  so that a child forked while another process of the table is in `open` has a table that is locked
  for ever (`:887`); and at `LONG_MAX - 2` descriptors of one file `dup` leaves a bit in `fd_map` (`:505`).
* The proof about `Descr` met one more: P1 and P3 share a table and P2 has a copy of it. P3's `dup` of file F
  takes its reference and waits for the table's lock, which P1 has in `open`; P1 ends and closes its descriptor of
  F; P2 closes the last one, so `closef` marks F and waits for P3's reference; P3 gets the lock, `finishdup` makes a
  new descriptor of F, and its `FRELE` wakes P2, which frees F under that descriptor (`kern_descrip.c:215`, `:264`,
  `:1061`; a `DIAGNOSTIC` kernel panics with "closef: count"). It takes a table that is shared *and* copied, which
  no program of the runs has. With the table shared, or copied, and not both, `descr` has the race and its properties
  hold.
* Read in the code, not modelled: `fdcopy` of a big table sleeps in `malloc` after it has copied
  `fd_lastfile`; `fdexpand` frees the old array before a `malloc` that may sleep; `fdcloseexec` calls
  `fdrelease` without the lock; the `pool_get` of `falloc` (`:810`) may sleep when the bit of the new descriptor is
  set and its slot still empty, so that a fork of a shared table copies a descriptor that is in use for ever;
  `portal_open` gives up the table's lock inside `vn_open` and takes it again (`portal_vnops.c:370`), while
  `sys_open` goes on as if it had had it all the time.
* A process that catches `SIGTSTP` and not `SIGCONT`: the first ends its sleep, the second, before it
  has run, takes the first off the list, and `tsleep` returns 0 although nobody called `wakeup`. The
  comment at `kern_synch.c:96` says "Returns 0 if awakened". The same can happen with a caught `SIGCONT` and
  a blocked `SIGTSTP`, and to a vfork child that catches either. `ErrorTellsCause` excepts these (`MayCancel`).
* A process enters `tsleep` with `PCATCH` while a stop and a signal of a higher number that ends it or is caught are
  both pending. `CURSIG` in `sleep_setup_signal` takes the lower number first and stops the process, which is on its
  queue already; `SIGCONT` then sees `p_wchan` set and marks it `SSLEEP` without looking at the other signal, and it
  sleeps on until a wakeup, a timeout or another signal. The comment at `kern_synch.c:95` says that "signals are
  checked before and after sleeping"; the one in `sleep_setup_signal` knows that `SIGCONT` does not resume the
  process. `SleepsEnd` excepts this state (`ContinuedInSetup`).
* A `wakeup_one` may go to a process that returns `EINTR` for a signal that came later, and wakes
  nobody else.
* `msleep` writes `MUTEX_OLDIPL(mtx)` at `kern_synch.c:168` whether or not there is a mutex.
* The comment at `vfs_lockf.c:254`, that flock style locks have "no chance for deadlock", is true of one
  file and not of two. A circle longer than `maxlockdepth` is not found. The `pool_get` of `lf_split` may
  sleep (`:706`), in the middle of a change of the list, after the test for blocking locks.

## 5. What is proved

TLAPS checks 37 theorems, for *every* value of the constants that the named assumptions allow. The
runs of section 3 show the same properties on one instance each, with the mutations that break them.

| module | theorem | statement |
|---|---|---|
| `RwLockProofs` | `Inductive` | `Spec => []IInv` |
| | `TypeCorrect` | `Spec => []TypeOK`; in particular the reader count never goes below zero |
| | `WordExact` | `Spec => []WordTellsHolders` |
| | `NoOrphanBits` | `Spec => []NoOrphanWaiterBits` |
| | `MutualExclusion` | `Spec => []Exclusion` |
| | `NoWakeupLost` | `Spec => []NoLostWakeup` |
| | `Implements` | `Spec => ImplementsPromise`, refinement of `ReadersWriter` |
| `WorkQProofs` | `TypeCorrect` | `Spec => []TypeOK` |
| | `NoTaskStranded` | `Spec => []NoStrandedTask` |
| | `EveryTaskAccounted` | `Spec => []TasksAccounted` |
| | `FreedAfterThread` | `Spec => [](kind # "early" => NoUseAfterFree)` |
| | `NeverUsedAfterFree` | the same without the condition, when `"early"` is no member of `Queues` |
| `LockMgrProofs` | `NeverPanics` | `Spec => []NoPanic` |
| | `ExclusiveIsAlone` | `Spec => []Exclusion` |
| | `CountsAreExact` | `Spec => []CountsExact` |
| | `SleepersHaveWakers` | `Spec => []NobodyStranded` |
| `SleepProofs` | `QueueAgrees` | `Spec => []QueueTellsSleepers` |
| | `ErrorIsCause` | `Spec => []ErrorTellsCause` |
| | `StoppedStays` | `Spec => StaysStopped`, an action property |
| `TimeoutProofs` | `TypeCorrect` | `Spec => []TypeOK` |
| | `FlagsTellLists` | `Spec => []FlagTellsList` |
| | `DueOnTodo` | `Spec => []DueIsOnTodo` |
| | `NothingRunsEarly` | `Spec => NeverEarly`, an action property |
| `PipeProofs` | `BusyCounted` | `Spec => []BusyCounts` |
| | `StreamKept` | `Spec => []NothingLostUnresized` |
| | `ShortWrites` | `Spec => []ShortWritesWhole` |
| | `NobodyForgotten` | `Spec => []NoLostWakeup` |
| `DescrProofs` | `PrivateTables` | `Spec => [](CountsExact /\ NoUseAfterFree /\ CloserWoken /\ LockTellsHolder)`, for programs without rfork |
| | `PrivateHints` | `Spec => []HintsHold`, for the same |
| | `CommonTable`, `CommonHints` | the same two, for programs without fork, accept and flock |
| | `Invariance` | `Spec /\ [][Careful]_vars => []Inv`, for all programs |
| | `SharedCounts`, `SharedWoken`, `SharedLock`, `HintsInvariant` | from it `CountsExact`, `CloserWoken`, `LockTellsHolder`, `HintsHold` |
| | `SharedUse` | from it `NoUseAfterFree`, where nobody is in flock |

Every one rests on an inductive invariant, which TLC checked on a small instance before it was proved.
The assumptions, and where the code justifies them:

| assumption | says | because |
|---|---|---|
| `RwLock!ProcsAssumption`, `FlagSetsAssumption` | processes are positive numbers, finitely many; flags are modifier flags | an address is not null |
| `WorkQ!QueuesAssumption` | queues are of the three kinds | |
| `LockMgr!ProcsAssumption`, `FlagsAssumption` | finitely many processes, none is `LK_NOPROC`; `MaxHold` is a bound on recursion, any one | a process holds finitely many instances |
| `Sleep!ActsAssumption`, `IdentsAssumption` | signal set-ups are made of the five kinds of signal; no channel is 0 | `sleep_setup` panics of a null ident |
| `Timeout!WheelAssumption` | an int has four times the bits of a wheel, or one more | 32 and 8 in `kern_timeout.c` |
| `Timeout!DelaysAssumption`, `TimesAssumption`, `MaxLateAssumption` | delays are ints and not negative; times are natural; softclock is not held off for `INT_MAX` ticks | `timeout_add` panics of a negative delay |
| `Pipe!SizesAssumption` | `PIPE_SIZE` is at least 3, `PIPE_BUF` and a third of `PIPE_SIZE` fit into `PIPE_SIZE`, the big size is bigger | 16384, 512 and 65536 |
| `Pipe!ProcsAssumption` | finitely many processes; who closes is not who reads or writes | `closef` waits for the file's own readers and writers |
| `Descr!DescrAssumption` | finitely many processes, tables and descriptors; descriptors are numbers, 0 one of them; none is `NULL` | limits of processes and of open files |
| `Roomy`, of the theorems on hints only | a file's count has room for every slot of every table | `LONG_MAX - 2` slots do not fit into memory; at the limit the conclusion is false |
| `NoSharing`, `NoCopying`, of the theorems that say so | which calls the programs make | they name the two programs of the run `descr`; other mixtures need `Careful` |

### RwLock

`Exclusion` is not inductive: nothing in it stops a compare-and-swap that was prepared
on a word the lock no longer deserves. What makes it so is that the word is *exact*
(`WordTellsHolders`): it names the writer, or counts the readers. A compare-and-swap that succeeds
finds the word equal to the local copy, so what was tested on the copy is true of the word, hence of
the holders. To carry that through a call the invariant needs `LocalsInv`: at each position, what the
process has established about its copy (`read_cas`, `take`: not busy; `rexit_cas`, `wexit_cas`: no
waiters), and that it holds what the release assumes, in particular that `wrlock`, read once at the
start of `rw_exit`, still tells reader from writer. `NoOrphanWaiterBits` and `WantImpliesWait` are
needed for each other: a release clears both bits or finds none. `NoLostWakeup` is then inductive
relative to `IInv`: bits are cleared only by a step that goes to `notify`, or by one whose copy had no
`wait` bit, and nobody sleeps without setting it.

The lemmas are organised by what a step does to the word: `QuietStep` (nothing but the process's own
locals), `BlockStep` (waiter bits), `ReadCasStep`, `EnterWriteStep`, `TakeStep` (a holder joins or
downgrades), `ReleaseStep` (a holder leaves), `NotifyStep`. `ReaderJoins` .. `WriterDowngrades` are
the facts about the cardinality of the readers. For the refinement the abstract `downgrading` is
mapped to the processes whose call is a downgrade, so `AskDowngrade` is the call and `Downgrade` the
compare-and-swap.

### WorkQ

The invariant adds to the three properties who is where: the thread has one task in hand exactly while
`wq_busy` is 1 (`ThreadInv`), at most one request for a thread is outstanding and it precedes the thread
(`CreateInv`), and freeing is the last thing destroy does (`DestroyInv`). `ListGrows` and `ListShrinks`
say what appending to and taking the head of a list without repetitions does to the set of its members.
`FreedAfterThread` has the condition it needs: with queues made during autoconf the conclusion is false
(see the observations), and the step that would break it is `RunDeferred`.

### LockMgr

The heart is `HoldersOf`: `lk_sharecount` is the number of *instances* held (pairs of a process and a
number, so that recursion is counted by cardinality and no sum over processes is needed),
`lk_exclusivecount` the holder's own, and `LK_HAVE_EXCL` says that there is a holder. `WaitersInv` ties
`lk_waitcount` and `LK_WANT_EXCL` to the places where processes sleep: at most one is past the first
`ACQUIRE` of an exclusive request, and it owns the bit. `SleepersInv` says for each kind of sleeper who
will wake it. Each is lost without the others: a release may wake only if the counts are exact, and the
counts stay exact only if whoever leaves by an error undoes what it did. Of waiters `NobodyStranded` speaks
only where no request fails in its sleep, because of finding 2; of a drain always.

### Sleep

`Agree` (the queue holds whom a channel names, once each), `PlaceInv` (what `p_stat` may be at each
place in `tsleep`), `TimeoutInv` and `CauseInv`. The last is the delicate one: a process off the queue
without an error must have been woken, or still carry the reason with it, a `P_TIMEOUT`, a signal
that `issignal` found before the switch, or one that it *will* find (`SignalAhead`): pending signals can be
taken away again by a `SIGCONT` or a stop before the process runs. The attempt at this proof found that
`ErrorTellsCause` as it was stated first, with an exception for a caught `SIGTSTP` and no other, is false for
set-ups the run did not have: a caught `SIGCONT` is cancelled by a blocked `SIGTSTP`, and either by a stop
that a vfork child is spared. `MayCancel` says for which set-ups a sleep can return 0 without a wakeup.

`QueueProofs` holds what both this module and `Timeout` need of lists: what the membership of a list
without repetitions is after an append, an unlink, and the concatenation of a bucket to the work list.

### Timeout

The invariant relates the wrapped `to_time` to the unwrapped distance `left` (`TimeInv`), the flag to the
lists (`Sound`, `OnSome`), and each bucket to the time it is served (`Served`: among the next `left` ticks
there is one at which `hardclock` moves that bucket). `DueIsOnTodo` follows, because a timeout with
`left` 0 can be in no bucket. The arithmetic: `Distance` (the sign of a difference of wrapped ints is the
sign of the distance), `WheelOf` and `InTime` (the bucket that `BUCKET` chooses for a delay is served
before the delay is over, for all four wheels and all alignments of the present time), `Aligned` (when
`hardclock` moves wheel *w* all lower wheels are at 0), and `Cascade` (moving at most four buckets onto the
work list). `Span` is the number of ticks of a bucket, a product of `WHEELSIZE`s instead of a power, which
the provers can reason about. `Aligned` needs that the four wheels use no more bits than an int has; that
the last wheel reaches as far as `INT_MAX`, so that no delay takes more than one turn of it, is the other
half of the assumption on `INTBITS`.

### Pipe

Four invariants on top of each other, each proved with the ones below:

1. `Ctl`: places and flags. `pipe_busy` is the number of processes inside (`Busy`), `PIPE_LOCK` has one
   holder exactly when the flag is up (`LockInv`), and the ends are closed in order (`EndsInv`).
2. `Data`: the ring. `in` is `cnt` places behind `out`, around the end (`RingInv`); what a process in
   `uiomove` is about to move still fits, because it has the lock (`UioInv`); `nbigpipe` (`BigInv`); and a
   pipe that cannot grow keeps its size (`KeepInv`).
3. `Stream`: `got \o Contents = sent`, and with it `ShortWritesWhole`: a short write is copied in at most two
   pieces between which it keeps the lock.
4. `Wake`: a sleeper's flag is up (`FlagsUp`), it sleeps for a reason or somebody is at a place from which
   it will look (`ReadersTold`, `WritersTold`, `EofTold`, `SelUp`).

`WritersTold` is where the sizes matter: a reader wakes writers when less than a third of the pipe
is full, and a short write sleeps until it fits as a whole. If `PIPE_BUF` and that third did not
fit together, a short writer could sleep on a pipe that the reader considers full enough. The assumption
is as weak as this argument allows, and the header's 16384 and 512 satisfy it.

### Descr

A system call is one step, put together from the C functions as operators on a state record, and the counts are
wrong while it runs: `dup2` has counted a descriptor it has not yet put in its slot, `closef` has taken one out
that is still counted. So the invariant is stated *in the middle of a call*: `Mid(k, p, h, u, x, y)` says of a
state `k` in which `p` is at work that everything is exact once one adds what `p` has in hand, namely whether it
has the table's lock (`h`), its references to `u` and to `x`, and the descriptor of `y` that is in no slot. `FREF`, `FRELE`,
`fdplock`, `fdpunlock`, `fd_used`, `fd_unused`, `fdremove`, `fdalloc`, `falloc`, `finishdup`, `fdrelease` and
`closef` have a lemma each that says how these parameters change (`closef` from `x = f`, `y = f` to nothing), and an
action is a chain of them from `Rest`, where nobody has anything in hand, back to `Rest`.

`Mid` itself has four parts. `FileInv`: `f_count` is the number of slots and `f_usecount` the number of calls, a
file has `WANTCLOSE` exactly when its last descriptor is gone, and then somebody is in `closef` for it; nothing
leads to a file that is free. `TabInv`: the bitmap and `fd_lastfile` cover the slots in use, `fd_lock` is its
holder, `fd_refcnt` counts the processes, and who has begun `fdfree` is alone. `Place`: what a process has at
each place; a closer that sleeps has another reference to wait for, and one in `fo_close` has the only reference, which
is what the panic "closef: count" of a `DIAGNOSTIC` kernel tests afterwards. And no two processes make the same file. They need each
other: `closef` may free the file only because the counts are exact, and they stay exact when the file is used again
only because nothing led to it.

This invariant is false for some mixtures of calls, and the attempt to prove it shows for which: exactly three
steps break it, an accept that fails while another process has the table's lock (finding 4), a fork of a
table that is locked, and a dup that gets the lock when its file has lost its last descriptor (observations).
`Careful` excludes these three, where they would do harm and nowhere else. `PrivateTables` and `CommonTable` need no
such condition: without shared tables nobody ever waits for a table's lock (`Private`), and with one table for all the
closer of the last descriptor has the lock that the dup waits for (`CommonDup`). For flock, which has no
reference, `Private` adds that its descriptor stays open while it sleeps; in a shared table that is false.

The hints need the slots of the whole table, not only of the one that a call is about, and are proved in a second
layer on top: `Exact` says what the hints are, `Near` the same but for one slot, between `fdalloc` and the filling of
the slot, or between its emptying and `fd_unused`. `Works` says what a call may change at all: its own table's
slots, its own place and the counts. Least and greatest members of a set of descriptors
(`HasMin`, `HasMax`) come from the well-foundedness of the natural numbers.

## 6. What is only model-checked

* Liveness everywhere (`SleepersWoken`, `TasksRun`, `DueRuns`, `CloseReturns`, `SleepsEnd`): fairness and
  `ENABLED` are outside what the prover handles.
* `LockF` and its refinement of `RangeLocks`: the walks of `lf_setlock` and `lf_clearlock` are folds over
  lists of any length, and what a fold computes needs induction over data, which is out of reach as well.
* `Descr` for mixtures of calls outside the conditions of its theorems: there its properties are false, as
  finding 4 and the observations say, and no run has them.

## 7. Plan

1. **Proofs**: `RangeLocks` (its exclusion, and with it that of every implementation).
2. **Models** that would come next: `Sem` (`semop` with undo and removal), the garbage collector of
   `uipc_usrreq.c`, kqueue's scan, `getblk`. Runs stay one per question.
3. **Composition**: `Pipe` over `Descr` (close against the file's own readers), `Sleep` over `Timeout`.
4. **Abstract specifications**: a FIFO with end-of-file for `Pipe` in the instance without growth; a
   set of deadlines for `Timeout`; a bag of tasks for `WorkQ`.

## 8. What is not modelled, and why

* Of `sys_pipe.c`: kqueue filters, `pipe_ioctl` beyond the non-blocking flag, `SIGIO`, `pipe_stat`, and
  the allocation failures of `pipe_create`. Of `kern_lock.c`: the `LOCKDEBUG` bookkeeping. Of
  `kern_kthread.c`: the fork itself. DDB commands everywhere.
* `SPL` levels and `simple_lock`: they are what makes the steps atomic.
* Of `kern_synch.c`: `msleep` and `sys_thrsleep`/`sys_thrwakeup`. Of `kern_sig.c`: ptrace, the report of
  a stop to the parent, the system calls that change handlers and masks, delivery and core dumps.
* Of `vfs_lockf.c`: `F_GETLK`, which changes nothing, and a shortage of memory in `lf_split`.
* Of `kern_descrip.c`: `fdexpand` (tables have their final size), `fdcloseexec`, `closefrom`, the rest of
  `fcntl`, the advisory unlocks in `closef`, knotes and kqueue files, which `fdcopy` removes from the copy
  (`:937`-`:946`), and a shortage of memory: `falloc` is one step, because its `pool_get` sleeps only then, with
  the table locked. Of the opens that of a portal, the only one that gives up the table's lock on the way.
* System V IPC, kqueue, process life cycle, buffer cache: section 7.
* Virtual memory, the network stack, file systems, sockets: large systems with state machines of
  their own, each worth a project.
* Device drivers and machine-dependent code: their other half, the hardware, is not in the
  repository.
* Libraries, userland, third-party code (Kerberos, the compilers), build files and data: sequential
  programs, or no program logic of the kernel's.
