# TLA+ models of the POSIX test suite programs

The repository is a set of independent POSIX conformance programs. Each one
starts a few threads (or a forked child), drives a primitive of the platform
(semaphore, read-write lock, mutex, scheduler, asynchronous I/O, message queue)
through a scenario, and ends the process with `PTS_PASS`, `PTS_FAIL` or
`PTS_UNRESOLVED`. The programs synchronise through shared status words, busy-wait
flags, `sleep()` calls and signals. Their hard part is the interleaving of those
threads with the platform, and the question every model asks is the same:

* **soundness**: does the program report PASS only on a platform that has the
  property under test?
* **no false failure**: does it never report FAIL on a platform that has it?
* **termination**: does it always end?

## How a program is modelled

* One module per test program. Each thread (and `main`) has a program counter in
  `pc`, and each block of code between two points where another thread can
  matter is one action, named after what it does in the source.
* `verdict` is the process exit code: `"none"` while the process runs. Every
  action is guarded by `Running`, because `exit()` from any thread ends them all.
  The `Exited` disjunct lets the finished process stutter, so an ended process
  is not a deadlock.
* The **platform** is not code of this repository. Its freedom is a variable
  chosen in `Init` from a CONSTANT set: which waiter `sem_post` releases
  (`policy`), whether the rwlock honours writer preference (`kind`), whether
  `SCHED_RR` may be used (`privileged`).
* **Timing**: each `sleep()` exists to make something true first (e.g. "all
  children block in sem_wait"). The variable `sleptEnough` says whether it did.
  When it is TRUE, the step after the sleep is guarded by that condition. When
  it is FALSE, the step is free to happen early.
* **Busy-wait loops** are explicit stuttering actions (`Rd1Spin`). A lost
  hand-over is then a liveness violation, not a TLC deadlock.
* **Fairness**: weak fairness of each thread's steps. The threads run on a
  multiprocessor with default or real-time scheduling, and none of them blocks
  except in the primitives modelled. The exceptions are strong fairness in
  FifoEqual and no fairness on the AIO engine's start, both explained below.

## Modules and runs

### SemPrioWake (src/functional/semaphores/1-1.c)

Main creates SCHED_RR threads A, B and C with rising priority, and all three
wait on a semaphore of value 0. Main sleeps and posts once; C must wake first
and post, then B, then A. State:

* `status` is `thread_a/b/c_status`;
* `sem` is the semaphore's value;
* `waiters` are the threads blocked in `sem_wait`;
* the history variable `inverted` records whether any post released a waiter
  while a higher-priority one waited.

Runs:

* `sem_orders` (pass) covers both wake policies, both privilege cases and both
  timings (208 states). It checks:
  * `VerdictSound`: PASS implies no inversion happened;
  * `NoFalseFailure`: no FAIL on a conforming platform when the sleep holds.
* Without the sleep assumption a conforming semaphore can FAIL, because a
  late child takes the unit main posted (the `sleptEnough = FALSE` states of
  `sem_orders` reach it). No run asks this, since the test states the
  assumption itself.

### RWLockPreferWriter (src/conformance/interfaces/pthread_rwlock_rdlock/2-4.c)

Reader 1 holds the read lock and spins on `rd_1_pause`. The writer blocks.
Reader 2 must get EBUSY from `tryrdlock`, releases reader 1 and blocks. The
writer must then get the lock before reader 2. The lock is modelled as:

* `readers`, `writer`, `wrWaiting` and `rdWaiting`;
* `CanRead`, which holds a reader back while a writer waits only when
  `kind = "prefer_writer"`.

Runs:

* `rwlock_pref` (pass) covers both lock kinds and both timings. It checks:
  * `PassImpliesWriterPreferred` (under honoured sleeps);
  * `Termination` (under honoured sleeps).
* `rwlock_unlock_race` (violation): `fn_wr` sets `wr_thread_state` to EXITING
  only after unlocking. Reader 2 can get the lock in between and FAIL a
  conforming lock. This is a real bug of the test.

### PrioInherit (pthread_mutexattr_setprotocol/4-1.c, threads/schedule/1-3.c)

The two programs are the same scenario and differ in one place. `variant`
selects the file:

* 1-3 skips `set_cpu_affinity` on a single CPU;
* 4-1 always calls it, and exits UNRESOLVED when CPU 1 does not exist.

The scenario: B (low priority) takes a `PTHREAD_PRIO_INHERIT` mutex and spins
on `is_thread_c_pause`. A (high) blocks on the mutex. C (middle) counts and
then sets `c_thread_status = RUN_DONE`. After `sleep(1)` main releases B, and B
fails the test if C already finished.

How the platform is modelled:

* CPU 1 is a fixed-priority processor. `EffPrio` raises the mutex owner to the
  highest waiter's priority when `protocol = "inherit"`. `MayRun` lets a thread
  pinned to CPU 1 run only when no ready thread there has a higher priority.
* `cpus` says whether the machine has several processors or one.
* `throttle` says whether real-time throttling lets the SCHED_OTHER main run
  beside spinning FIFO threads.
* `inverted` is a history variable. It records that C finished on CPU 1 while
  A was blocked on the mutex, which is the priority inversion the test hunts.
* `privileged` says whether the process may create SCHED_FIFO threads. Without
  the privilege, the first `pthread_create` returns EPERM, and `create_thread`
  exits PTS_FAIL rather than UNRESOLVED.

Runs:

* `pi_sched` (pass) covers every variant, protocol, CPU count, throttle and
  timing. It checks:
  * `VerdictSound`: with the sleep honoured, PASS means no inversion happened;
  * `Termination`, when main can run.
* `pi_start_race` (violation, `NoFalseFailure`). On an inheriting mutex, C can
  pin itself and finish while A is still starting on another CPU. B is then not
  yet boosted, and its check FAILs a correct platform. Nothing in 4-1.c orders
  A's lock before C's arrival on CPU 1.

### FifoEqual (functional/threads/schedule/1-4.c)

Main creates two SCHED_FIFO threads of equal priority, A then B. Each pins
itself to CPU 1, counts, and checks the other's status. CPU 1 is a FIFO run
queue `queue`: its head runs, and a thread that becomes ready joins the tail.

* The 2^32-iteration loop is `Iterations` (2) steps. That is enough for a
  rotation to fall strictly inside a loop.
* `slicing` is a platform that, against SCHED_FIFO, rotates the head of the
  queue between two loop steps (`Slice`). `rotated` records that this
  happened.
* `arrival` records the order in which the tasks reached CPU 1.
* `privileged`, as in PrioInherit: without it, creating A fails with EPERM,
  and the test exits PTS_FAIL.
* The tasks have strong fairness. A time-slicing scheduler returns the CPU to
  a task it preempted, so a task that is repeatedly at the head of the queue
  runs. Weak fairness would allow endless rotation with neither task ever
  stepping, which no scheduler does.

Runs:

* `fifo_order` (pass) checks:
  * `FailExplained`: in a privileged run, a FAIL happens only after a
    mid-loop rotation, or when B reached CPU 1 first;
  * `Termination`.
* Not kept as a run: a property "PASS implies no mid-loop rotation" fails.
  The test's checks compare only completion. Under slicing, A can finish its
  loop first while B ran in the middle of it, and the test reports PASS.

### MqOpenExcl (conformance/interfaces/mq_open/16-1.c)

The parent forks. The child blocks SIGUSR1 and sigwaits for it. The parent
sends SIGUSR1, then both call `mq_open(O_CREAT|O_EXCL)` on the same name.

* `succeeded` is a function from process to count, because `fork` gave each
  process its own copy.
* `atomic` says whether the check and the creation are one step.
* `sleptEnough` says whether the child blocked SIGUSR1 before the kill.

Run:

* `mq_child_wins` (violation, `VerdictMatchesCreations`). The checks at
  lines 102-110 mean to fail exactly when the queue was not created by exactly
  one process. Because `fork` copied `succeeded`, both directions break:
  * On an atomic implementation the child can win the creation. The parent
    then sees its own `succeeded == 0` and returns FAIL, against the header's
    "no false negatives". This is TLC's trace.
  * On a non-atomic one both processes can create the queue, and the parent
    still counts 1 and reports PASS. I checked this as a separate 9-step trace
    with `AtomicCases = {FALSE}`.

There is no pass run. The module's whole state space is below a hundred
states, and what the checks are for is the property that fails.

### AioCancelNotify (conformance/interfaces/aio_cancel/3-1.c)

Main allocates and `aio_write`s BUF_NB requests, each with a SIGRTMIN+1
notification. It then calls `aio_cancel(fd, NULL)` and `close(fd)`, and spins
`while (countdown)`. The handler:

* counts the ECANCELED requests in `canceled`;
* calls `aio_return`;
* frees the buffer and the aiocb;
* decrements `countdown`.

How it is modelled:

* `st` follows each request: unborn, queued, in progress, done or canceled,
  then freed by its handler.
* The AIO engine (`AioStart`, `AioComplete`) is platform behaviour. It may
  start queued requests in any order. A request it has started cannot be
  cancelled.
* `Notify` queues one pending signal per completion or cancellation, up to
  `sigLimit`. Notifications beyond that are lost.
* The handler is one atomic step on main's thread. SIGRTMIN+1 is blocked while
  it runs, so it cannot nest. It may fire between any two steps of main,
  including while main is inside `malloc()` (`pc = "inmalloc"`).
* `cancelled` records which requests aio_cancel really cancelled.
* Fairness:
  * the engine completes what it started;
  * a pending signal is delivered;
  * `AioStart` has none, since whether a request starts before aio_cancel is
    the race the test is about.

Runs:

* `aio_cancel_notify` (pass; BUF_NB = 3; signal queue of 2 or 3) checks:
  * `RefinesAsyncNotification`: the test implements the abstract
    specification `AsyncNotification` (see below);
  * `Termination` when the queue holds BUF_NB signals. With a smaller queue the
    spin is endless, as the header warns.
* `aio_free_in_malloc` (violation, `NoFreeInMalloc`). A request that completes
  during the allocation loop has its handler call `free()` while main is inside
  `malloc()`. Neither function is async-signal-safe.

#### AsyncNotification, the abstract specification

`AsyncNotification` states what 3-1.c relies on, with no threads or signals:

* each request is open until it completes or is cancelled;
* one cancellation of the descriptor ends some of the open requests, and
  nothing else cancels;
* the end of each request is noticed at most once;
* the verdict comes after every request has been noticed, and is PASS
  exactly when one was cancelled.

AioCancelNotify instantiates it `WITH` a refinement mapping:

* `outcome`: unborn, queued and in-progress requests are open. A freed request
  keeps the end its handler saw, recorded by the history `cancelled`.
* `seen`: the freed requests.
* `cancelIssued`: main has passed `aio_cancel`.

The run checks `Abstract!Spec` as a property. Each step of the code is then
either a step of the abstract specification or a stutter of it.

### AioSuspendList (conformance/interfaces/aio_suspend/8-1.c)

Main submits NUM_AIOCBS reads with `lio_listio(LIO_NOWAIT)`. Signals report the
completions:

* SIGRTMIN+1 for each request; `sigrt1_handler` sets `received_selected` for
  WAIT_FOR_AIOCB;
* SIGRTMIN+2 for the whole list; `sigrt2_handler` sets `received_all`.

Main then:

1. FAILs if the selected request has already completed;
2. calls `aio_suspend` on it and FAILs if that returns -1;
3. checks the request;
4. sleeps until `received_all`;
5. checks the others.

How it is modelled:

* The engine (`AioComplete`) completes every request correctly, in any order.
  It sends SIGRTMIN+2 with the last one.
* Handlers run between any two steps of main.
* `intr` is the platform's POSIX-allowed choice to end an interrupted
  aio_suspend with EINTR.
* NUM_AIOCBS = 3 and WAIT_FOR_AIOCB = 1. With these, another request can
  complete before and after the selected one.

Run:

* `aio_suspend_false_fail` (violation, `NoFalseFailure`). On this correct
  platform the test can still FAIL in two ways:
  * The selected request completes between `lio_listio` and the check at
    line 169. This is TLC's trace.
  * Another request's SIGRTMIN+1 interrupts `aio_suspend`, which returns
    EINTR. SA_RESTART does not restart it.

  Both come from timing the test does not control. There is no pass run,
  because no property of this program holds that the test's verdict depends
  on.

### AioReturnOnce (conformance/interfaces/aio_return/2-1.c)

Main:

1. queues one `aio_write`;
2. closes `fd` at once;
3. polls `aio_error` until the request is no longer EINPROGRESS;
4. calls `aio_return` twice. The first must give BUF_SIZE and the second -1.

How it is modelled:

* `st` is the request's state. The engine moves it from queued to in
  progress (`AioStart`) and then to done (`AioComplete`).
* `closeCancels` is a platform choice. POSIX says `close` "may" cancel an
  outstanding request that can still be cancelled. A request that is not
  cancelled completes as if the close had not happened.
* `secondReturn` is a platform choice. After the first `aio_return`, POSIX
  says a repeated call "may" return an error; it may instead repeat the
  status.
* glibc's engine, which writes after the close and gets EBADF, does neither
  and is not modelled.

Run:

* `aio_return_close` (violation, `NoFalseFailure`). Every platform in the
  model is one POSIX allows, yet the test can FAIL in two ways:
  * `close` cancels the still-queued write, and the first `aio_return` gives
    -1 (line 94). This is TLC's 4-step trace.
  * The platform repeats BUF_SIZE on the second `aio_return` (line 103).

### PthreadCancelSignals (conformance/interfaces/pthread_cancel/5-2.c)

The test checks that pthread_cancel never returns EINTR. Its threads:

* The worker `test` starts `testth`, which spins on `do_it` with
  `sched_yield`. The worker then unblocks SIGUSR1 and SIGUSR2 and calls
  `pthread_cancel(testth)` while `do_it` is set.
* Two `sendsig` threads `kill()` the process with SIGUSR1 or SIGUSR2 while
  `do_it` is set.
* Main clears `do_it` after `sleep(1)` and joins everyone.

The two builds are both modelled (`build`):

* In the WITH_SYNCHRO build, each sender `sem_wait`s before each `kill`, and
  the signal's handler `sem_post`s.
* Under Emscripten (issue 14892) the semaphores are compiled out.

How it is modelled:

* The worker is the only thread with the signals unblocked: testth and the
  senders inherit main's blocked mask. The handlers therefore run on the
  worker.
* `pend` is one bit per signal, since standard signals do not queue.
* A worker step requires that no signal is pending (`Delivered`). The kernel
  runs the handler before the thread's next instruction, whether the thread
  is running, preempted or blocked. Once the worker has exited, a signal
  stays pending.
* `esrch` and `eintr` are the platform's answers of pthread_cancel: ESRCH for
  an exited, unjoined thread (glibc before 2.34), and EINTR (non-conforming).
* testth never acts on a cancel request, because `sched_yield` is not a
  cancellation point.

Run:

* `cancel_signals` (pass; both builds, all platform answers; 4280 states)
  checks:
  * `Termination`. A sender waiting in `sem_wait` is always released, because
    its last signal was handled before the worker could see `do_it` cleared
    and exit.
  * `OneSignalInFlight`. In the WITH_SYNCHRO build each sender has exactly
    one signal out: its semaphore's unit, the `kill` it is about to make, or
    its signal pending for the worker. Standard signals do not queue, so a
    `kill` that met its own pending signal would be merged with it. The
    handler's single `sem_post` would then leave the sender blocked for good.
    The mutant `SenderLoopNoSynchro` skips the `sem_wait` and breaks it.

  With `esrch`, the test can exit UNRESOLVED when `pthread_cancel` meets the
  returned testth during shutdown. No property is about that exit.

A first version delivered a pending signal only at the worker's system calls.
That version let a sender hang on a signal stranded by the worker's exit. The
kernel kicks the target thread, so that hang is not reachable on a real system.
The model follows the kernel.

## Bounds

Every program has a fixed number of threads, so the state spaces are finite
without artificial bounds. The constant sets list every platform behaviour and
timing case the properties distinguish. There are two named bounds:

* `Iterations = 2` in FifoEqual. A rotation needs a loop step on each side of
  it.
* `BufNb = 3` in AioCancelNotify. With three requests, aio_cancel can find any
  mix of done, in-progress and queued requests. Two of them can also fill a
  signal queue of 2 and leave the third notification lost.

## Mutants

Every property of a passing run is shown to be violated by a plausible bug of
the modelled code. The mutants are the operators marked `Mutant:` in the
modules, and PROJECT.json lists which definition each replaces.

## Not modelled (yet)

* Early-exit error paths (a failing `open`, `sigaction`, `malloc` or
  `pthread_create` other than the EPERM case) only return a code and are left
  out.
* `pthread_getschedparam/1-1.c` is a single call of the main thread and a
  comparison.
* `pthread_getcpuclockid/1-1.c` has two threads. Main reads the thread's
  result (`should_fail`) only after `pthread_join`, which orders the two, so
  no interleaving is left for a model to explore.
* The remaining error checks of the scheduling tests cannot fire with the
  arguments they are given:
  * the `pthread_*attr*` calls;
  * `pthread_getschedparam` on the calling thread;
  * lock and unlock of a valid mutex;
  * `pthread_join`.
* The ordering harness that `spec.md` describes is not in the repository.
