# SynergyLib in TLA+

SynergyLib is a coroutine library in C++: fibers on `ucontext_t` (`Piber`), a
scheduler that runs fibers on a pool of threads (`Scheduler`), timers
(`Timer`, `TimerManager`), and the beginnings of an epoll scheduler
(`IOManager`) with hooked system calls (`hook`). This directory holds models of
it for TLC and proofs for TLAPS.

## 1. Inventory

| Component | State | Operations | Hard about it | Correct means |
|---|---|---|---|---|
| **Piber** `synergy/Piber.*` | per fiber: `m_state`, `m_ctx`, stack, `m_cb`, `m_runInScheduler`; per thread: `t_piber`, `t_thread_piber`, `t_scheduler_piber` (in `Scheduler.cc`) | constructors, `resume`, `yield`, `reset`, `GetThis`, `MainFunc` | two shared slots (the main fiber's and the scheduler fiber's `m_ctx`) hold everybody's way back; no check that a slot is the right one; `m_state` is written apart from the switch it announces | a suspended fiber continues where it stopped; control given up returns to the resumer; `m_state` and `t_piber` tell the truth |
| **Scheduler** `synergy/Scheduler.*` | `m_tasks`, `m_mutex`, `m_stopping`, two atomic counters, threads, root fiber | `schedule`, `start`, `stop`, `run`, `idle`, `stopping` | many threads scan one list, with entries for named threads and fibers that are still running; counters and flag change outside the mutex; the caller thread becomes a worker inside `stop()` | each submission is run once, by one thread at a time; `stop()` returns, and only when nothing is left |
| **Timer, TimerManager** `common/Timer.*` | `m_timers` ordered by `m_next`, `m_tickled`, `m_previouseTime`; per timer `m_next`, `m_ms`, `m_recurring`, `m_cb` | `addTimer`, `cancel`, `refresh`, `reset`, `getNextTimer`, `listExpiredCb` | the key of an ordered set is changed in place; the clock is read before the lock; one flag decides whether a sleeper is told; unsigned time | nothing early, nothing after `cancel()`, no expiry slept through |
| **Thread** `common/thread.*` | `m_thread`, `m_id`, semaphore | constructor (waits until the thread runs), `run`, `join`, destructor (detaches) | the creator holds the scheduler's mutex while it waits | the handshake ends; every thread is joined |
| **Semaphore, ScopeMutex, Mutex, RWMutex** `common/mutex.*` | pthread objects, a "locked" flag per guard | lock, unlock, wait, notify | `ScopeMutex` unlocks in its destructor whether or not `unlock()` was called, the other two guards do not | exclusion |
| **IOManager, FdContext** `synergy/iomanager.*` | epoll set, tickle pipe, `m_pendingEventCount`, a context per fd with a reader and a writer | `addEvent`, `delEvent`, `cancelEvent`, `cancelAll`, `idle`, `tickle`, `stopping` | registration, cancellation and arrival of one event on three threads | a registered event wakes its fiber once; the count is exact |
| **hook** `synergy/hook.*` | per call: `timer_info.cancelled`, a timer, an event | `sleep` and its kin, `do_io`, `connect_with_timeout`, `fcntl`, `setsockopt` | a fiber registers itself and yields later; a timeout races the event | a blocked call returns once with the right verdict |
| **util** `common/util.*` | none | thread id, clock, byte order | | |
| **tests, build** `testcase/`, `Makefile` | | | | |

Who calls whom: the program calls `schedule`, `start`, `stop`; `start` makes
`Thread`s that execute `Scheduler::run`; `run` resumes fibers and is resumed by
their `yield` through the scheduler fiber's slot; fibers call `schedule`
from inside. `IOManager` is a `Scheduler` and a `TimerManager`; its events and
timers schedule fibers. `hook` turns blocking calls into `addEvent` /
`addTimer` and `yield`.

`iomanager.cc` and `hook.cc` do not compile at this commit: `contextResize`,
`triggerEvent` and `resetEventContext` have no definition, `stopping` and the
`SYLAR_` macros no declaration, `fd_manager` and namespace `sylar` are missing,
and `IOManager` overrides functions of `Scheduler` that are not virtual.
What they rest on (`Piber`, `Scheduler`, `TimerManager`, `Thread`) is modelled as it is;
of `iomanager.cc` and `hook.cc` what their text determines: `FdEvents` and, over it, `HookIO` and `IOLoop`.

The hazards, what in this code is hard to test, are listed with their lines and
the properties that watch them in `PROJECT.json`.

## 2. Modules

| Module | What it is |
|---|---|
| `Piber` | the coroutine class on one thread, at the level of contexts |
| `PiberProofs` | its inductive invariant and theorems |
| `TaskPool` | what a user of the scheduler relies on: submissions, dispatch, finish, release, close |
| `Scheduler` | all threads in `run`, the owner of the scheduler, the fibers they run; implements `TaskPool` |
| `SchedulerProofs` | its inductive invariant and theorems |
| `SchedulerPoolProofs` | who holds a fiber, and the proof that `Scheduler` implements `TaskPool` |
| `Timer` | timers, `TimerManager` and the threads that sleep by it |
| `TimerProofs` | that the set and the timers agree; what a sleeper has been told; the theorems that follow from each |
| `FdEvents` | one descriptor of `IOManager`: registration, cancellation and the event loop |
| `FdEventsProofs` | its inductive invariant and theorems |
| `HookIO` | the calls of `hook.cc` on one socket, with their timers; extends `FdEvents` |
| `HookIOProofs` | its inductive invariant and theorems; that it does to an open socket what `FdEvents` allows |
| `IOLoop` | the threads of an `IOManager`: the task list, the tickle pipe, `idle()`, `stopping()`; extends `FdEvents` |
| `IOLoopProofs` | the proof that `IOLoop` does to the descriptor what `FdEvents` allows, and where its fibers and threads are |
| `ThreadSync` | `Thread` and its handshake, and the callers of `start()` and `stop()` that own the threads |
| `ThreadSyncProofs` | its inductive invariant, in two parts, and theorems |
| `MCPiber`, `MCScheduler`, `MCTimer`, `MCFdEvents`, `MCHookIO`, `MCIOLoop`, `MCThreadSync` | the small sets TLC runs them on |

How they compose. `HookIO` EXTENDS `FdEvents` and takes its steps as parts of its own:
`Register` is `addEvent` and the yield behind it, `Late` is `cancelEvent`, `close` is
`cancelAll`. `IOLoop` EXTENDS it too: `FiberWaits` is `addEvent`, `Poll` is `epoll_wait` over the
descriptor and the pipe, `Serve` is `Handle` with the scheduling that `triggerEvent` stands for, and a
task that is taken is `Run`; that this is so is `IOLoopProofs!LoopImplementsFd`, and `HookIOProofs!HookImplementsFd` for the calls. `Scheduler` implements `TaskPool` (an `INSTANCE` with a refinement
mapping). `Scheduler` and `ThreadSync` meet at `start()` and `stop()`: `ThreadSync`
looks inside the loops that make and join threads and takes `run()` for something that locks
`m_mutex` again and again and may end once `m_stopping` is set, which is what
`Scheduler!StopReturns` shows; `Scheduler` takes `start()` for one step, which is what
`ThreadSync!StartAtomic` shows.

### Piber

A `ucontext_t` is a *continuation*: which fiber's code it continues, and at which
of that code's suspension points (`at` counts them). `Switch(save, load)` is
`swapcontext`: save "here" in one slot, load what the other one holds, stale or
not. `cpu` is whose code is really executing; `t_piber` is what the code
believes. `Resume`, `Yield`, `Finish` (the end of `MainFunc`), `Reset`,
`GetThis` and `EnterScheduler` are the functions of those names; the last is
`Scheduler`'s constructor for a caller thread, or the head of `run` for a
worker. `Slots(p)` is the pair of branches on `m_runInScheduler`, which the
private constructor leaves uninitialised: for `Main` both branches are possible.

`Disciplined` is the assumption about callers: a fiber is resumed by the fiber
that it yields to, and only when READY. `Scheduler::run`, `Scheduler::stop` and
`PiberTest` keep to it; the class does not enforce it. With
`Disciplined = FALSE` any code may resume any fiber, in any state, and nothing that is
checked here holds: a fiber that resumes another one from its callback has its continuation saved over
its resumer's (`Piber.cc:103`).

### Scheduler

`pc[t]` is where thread `t` is: `scan` and `locked` (the loop over the list, under
the mutex), `taken` and `back` (around `resume()`), `exec`, `resched`, `yield`
and `end` (in the fiber), `noTask`, `idle`, `leaveIdle` (the idle branch), `gone`.
`main` is where the owner is: `open` while it schedules and starts, then the
stations of `stop()`. The scan is one step per entry because it reads `m_state`,
which other threads write without the mutex. `yield()` is two steps, the write of
`m_state` and the switch, because `run()` reads the first to decide about the
second; everything else between two visible effects is one step.

The owner and the fibers keep to these rules, which the code does not check:
`start()` is called once, and before `stop()` when there is no caller thread;
`stop()` is called once; nothing is scheduled after it; a fiber is
scheduled when it is READY and not already queued, and a finished one is not
scheduled again; a fiber that schedules itself then yields, as
`SchedulerTest.cc:18` demands; a named thread is one that exists.
`Migrate = FALSE` adds that a fiber that has run on a thread is scheduled for that
thread only; without it the race of section 4 appears.

A callback task stands for the fiber that `run()` makes of it; the model does
not tell the two kinds of task apart, since `cb_piber` is dropped after each use
and behaves as a fiber taken for the first time. A callback that yields on
itself after scheduling `GetThis()` is such a fiber as well.

`TaskPool` is abstract: sets of queued, running and finished fibers and a flag that
`stop()` has returned. Under the refinement, `running` is what a thread has
taken and is not yet off the stack of: `Take` is `Dispatch`, `SwapOut` is
`Release`, the last step of `stop()` is `Close`.

### Timer

`m_timers` is a set of (`next`, timer) pairs: an element of the `std::set` is found
by the `m_next` it was inserted with, so a timer whose `m_next` changes while it is
in the set would not be found, and the model would show that. What happens under the
manager's lock is one step; `ReadClock` (before the lock), `Make` (the constructor,
before the lock) and `Notify` (`onTimerInsertedAtFront`, after it) are steps of
their own. `reset()` reads `m_ms` before it locks; that look is part of its
step. All threads in `Lister` collect; those in `Sleeper` do so in a loop: such a one asks `getNextTimer`, sleeps that long or until it is announced,
and collects. `fate` is history: whether a `cancel()` has returned true or the callback was handed out for good. `HeldUp`
bounds how long a thread may be between its reading of the clock and the lock. Only a sleeper can sleep through a timer, so a run needs one, and a second thread that
collects to make the clock readings cross. There is no such loop in the repository that compiles:
`WakeUp` is what `getNextTimer` and `onTimerInsertedAtFront` are for. `Wrap` stands
for 2^64 and `Hour` for the hour of `detectClockRollover`, with the unsigned
subtraction as it is.

### FdEvents

One `FdContext` with its entry in the epoll set. Descriptors share only the counter,
and every race on it is a race on one descriptor, so one is modelled. All functions
hold the context's mutex from their look at `events` to their end and are one step
each; `idle()` is `epoll_wait` and `Handle`, because the report is worked off later.
epoll is edge-triggered (`EPOLLET`): `armed` says that the descriptor is on
epoll's ready list, a report takes it off, an arrival or an `epoll_ctl` that finds it
ready puts it on; a report holds all that is ready and watched, with a
hang-up in any case. `triggerEvent` has no body in the repository. That it
schedules the waiter and clears the event and its context follows from its users: `cancelEvent`
and `cancelAll` leave that to it, `cancelAll` asserts `events == 0` afterwards, and
`addEvent` asserts an empty context. On an empty context it is taken to do nothing.
`addEvent` is called for an event that is not registered (the comment at
`iomanager.cc:147`). `epoll_ctl` succeeds: what makes it fail is a descriptor that was closed
without `cancelAll`. `IOManager::idle` hides `Scheduler::idle`, which is not virtual; the
model is of the function as written, as if it were called.

### HookIO

`call[w]` is the hooked call fiber `w` is in, `pc[w]` where: at the system call (`try`), in the kernel (`held`), between
the timer and `addEvent()` (`add`), suspended (`wait`), between a `connect()`'s look at the mark and `getsockopt` (`ask`).
The steps of a fiber end where another thread can see something half done. `ticking`, `handed`, `marking`, `cancelled` and
`late` follow one timer: it is in the manager, its callback was collected, the callback has locked `timer_info` and found it
unmarked, it has marked it, it is about to call `cancelEvent()`. These are the five places between which other threads can step.
`Return` drops the `shared_ptr` to `timer_info`, so a callback that has not locked its
`weak_ptr` does nothing (`hook.cc:117`); one that has goes on to mark, and to `cancelEvent()`, whatever
is registered by then, also for the fiber's next call. `timer_info::cancelled` is a plain `int` that two threads share; a look at
it is taken to see the last write.

A program may call `connect()` on a socket as often as it likes. `ConnectAtOnce` is what `connect_f` answers by itself: success,
failure, "already", "connected", the error of an attempt that nobody has asked about; `ConnectInProgress` is EINPROGRESS, after
which the hook waits. `clean` is history: the `connect()`s that began with no callback of an earlier call about to cancel and no report
fetched and not worked off. `expired` is history too.

`raw` is `do_io` passed through to the system call: the socket is closed, or the user asked for
O_NONBLOCK. `nonblock` is the kernel's flag, `userNonblock` what `FdMgr` notes. `FdMgr` is not in the
repository; it is what its users here expect: an entry per open socket, with O_NONBLOCK set in the
kernel, dropped by `close()`. `close()` is two steps (`cancelAll`, then `close_f`), because a fiber can
register in between; such a fiber waits for ever, which is why `ReadyCallReturns` is about a socket that stays open.
`ioctl(FIONBIO)` with 0 takes the kernel's flag off (`hook.cc:448`), and the thread of the next call that cannot be served stays in the
kernel: `held`, which ends when the socket is ready (`Held`), or perhaps by the socket's own timeout or by `close_f` (`KernelGivesUp`).
The threads in `Idler` are others, so somebody is always left in `idle()`.
Programs read and write a socket once it is connected. `MaxLate`
bounds how many callbacks of one fiber are collected and not yet through `cancelEvent()`.

Somebody has to collect timers. `IOManager::idle()` does not (it sleeps five seconds and asks
nobody, `iomanager.cc:53`); `Expire` stands for the loop that `TimerManager` is written for.

### IOLoop

`pc[t]` is where a thread is: `scan`, `taken` (before `resume()`), `exec` and `yield` (in a fiber that has registered or scheduled itself
and is about to yield), `switch` (between the write of READY and `swapcontext`), `back` (behind `resume()`),
`noTask` (between the scan and `++m_idleThreadCount`), `idle` and `ask` (between the two looks of `stopping()`), `poll`
(in `epoll_wait`), `loop` (over the report), `ended` (the idle fiber is over), `gone`. `tickling` holds who is about to call `tickle()`: the look at
`m_idleThreadCount` comes after the lock on the list is released. The pipe is a flag, as a report of it
empties it; each `write` arms it anew. `Poll` may return at any time: `epoll_wait` waits five seconds at most.
`ended` are the threads whose idle fiber is over; such a thread scans once more.

`idle()` schedules the fibers it wakes for any thread, so nothing pins them as `Migrate = FALSE` does in `Scheduler`, and the race of
`sched_race` is open here: a second thread that finds `m_state` READY takes a fiber from the list before the first one has
saved it (`switch`). To resume it there is undefined behaviour; the model sets `broken` and ends. If the switch comes first, all is
well, and the first thread's way back through `run()` overlaps with the second one's `resume()`.

The scan is one step here: what can go wrong inside it is `Scheduler`'s subject.
`epoll_wait` does not fail. EINTR takes a thread back to the head of `idle()` and so from `poll` to `idle` without a scan; how
often signals come is not known, and with the bound on them that fairness then needs the run would take longer than it is worth. Other errors end
`idle()` and need a bad descriptor or buffer.
The owner schedules, and calls `stop()` once, with threads that exist. Fibers wait for READ only, so that the
counter is exact and what `fd_count` finds plays no part. The manager does not use the caller's thread.

### ThreadSync

Callers that share one scheduler, its `m_threads`, and the threads. The constructor of `Thread` is
`pthread_create` and, while it succeeds, `wait`: the creator holds `m_mutex` all the while, which is what the
new thread will want next. `pthread_create` may fail, which throws out of `start()` with the mutex released
and the rest of `m_threads` null; `stop()` then joins a null pointer and the process dies: `crashed`, where
everything ends. Nothing keeps a caller from starting twice: the entries are overwritten,
~Thread detaches the threads that are still running, and `stop()` knows nothing of them. The caller thread of
`use_caller` is left out: it joins nothing and is not a `Thread`.

## 3. What holds, and where it was checked

| Run | Instance | Shows |
|---|---|---|
| `piber` | 3 fibers (2 in the scheduler), main and root fiber, 4 suspensions each | types; `ContextsCurrent`, `RunningKnown`, `NeverExits`, `YieldReturnsToResumer` |
| `sched_caller` | 2 workers and the caller, 2 fibers, 4 `schedule` calls, any thread argument | types; `CountersExact`, `IdleEndsDrained`, `ExclusiveStack`, `StopDrains`, refinement of `TaskPool`, `stop()` returns |
| `timer` | 2 timers, 1 thread that sleeps and collects and 1 that collects, booted an `Hour` before, the clock runs for 2 more, 1 refresh or reset | types; `FiledWhileArmed`, `NoMissedFront`, `NeverEarly`, `CancelIsFinal` |
| `fd_events` | 2 readers, 1 writer, 2 threads in `idle()`; all states, the counter modulo 4 | types; `WaitersAccounted`, `NothingMissed`, `AddFindsFree`, `ReadyIsServed` |
| `hook_io` | a fiber that connects, writes and sleeps, 2 threads in `idle()`, 2 of its callbacks under way | types; `FibersAccounted`, `ConnectTrue`, `TimeoutHonest`, `TimeoutEndsCall`, `ReadyCallReturns` |
| `io_loop` | 2 threads, 2 fibers that read, 2 calls of `schedule()`, for any thread or a named one | types; `FibersOnce`; up to the race of `sched_race`, `TasksTaken` and `LoopStops` |
| `thread_sync` | 2 callers, a pool of 2, 3 threads to be had, `pthread_create` may fail each time | types; `ObjectOutlivesUse`, `StartAtomic`, `OwnedOnce`, `StopLeavesNothing`, `StartReturns`, `StopReturns` |

Why the bounds are enough. A slot is misused by the second fiber that comes by it
and seen to be by the third switch; four suspensions of each of three fibers
leave room for both, with a reset in between. In the scheduler the interesting
meetings are of two threads (a pair at one fiber, at the list, at the
counter), and the caller, which joins as a third late; two fibers are one that runs and one that waits
for another thread, or is skipped; four calls let a fiber come back and be waited for. Two timers have a
front and a rest, with equal expiries and with a recurring one that comes back
before the other; the two threads can read the clock in one order and lock in the other. `Hour`, `HeldUp` and the shorter interval
are one tick, so that a run spans several hours and the subtraction of `detectClockRollover` is at its edge; in
`timer_rollover` the hour is longer than the run.
A descriptor has two events; a second reader is what
a stale report can hit, a second thread in `idle()` is what makes reports overlap. What a late callback of `HookIO` can hit is
the same fiber's next call, for `addEvent` takes one fiber per direction and each cancels its own: so one fiber
with two callbacks under way, which also connects a second time while one of the first attempt is late (`hook_timeout` has the second fiber as well). In `IOLoop` a task can be passed over, announced to
nobody, or taken by the thread that is about to leave: two threads and two fibers; as a fiber may wait again and again,
two calls of `schedule()` are enough to set both going. Three threads for a pool of two let
a second `start()` replace one thread and fail at the next.

Deadlock is checked for the scheduler, where only the owner's state `stopped` ends all, for `FdEvents`, which never
stops, `IOLoop`, where the network always goes on, and for `ThreadSync`, where only a crash does. `Piber` stops when its bound on suspensions is reached, or because all its
fibers finished; `Timer` because its clock ends; `HookIO` when a fiber registers between the `cancelAll()`
and the `close_f()` of a `close()` and waits for ever. Their configurations turn the
deadlock check off for that.

**Fairness** of `FdEvents` is weak fairness of `epoll_wait` and of the loop over its
report for each thread in `idle()`: a thread with nothing to run is in `idle()`, and
`epoll_wait` returns what is ready. `ReadyIsServed` needs no more, since any idle thread will do.

**Fairness** of `HookIO` is that, and weak fairness of each fiber's own steps (a scheduled fiber is run, a
running one runs on, a system call that can return does), of a timer's expiry, its callback and that callback's `cancelEvent()`, and of the second half of
`close()`. Nothing is asked of the network or of those who begin calls. `hook_timeout` is a counterexample under all of that.

**Fairness** of `IOLoop` is weak fairness of each thread, which includes the return of `epoll_wait` after its timeout, and of what
the owner does once it is in `stop()`. `TasksTaken` needs the timeout: with a thread between its scan and
`++m_idleThreadCount` a `schedule()` finds nobody idle and writes nothing (the mutant of that property). Once a fiber is resumed that is not saved
nothing more is claimed: both properties end in `\/ broken`. Nothing is asked of the
network; `LoopStops` is about a `stop()` for which nothing is registered any more.

**Fairness** of `Scheduler`. `Fairness` is strong fairness of
each thread and of `stop()`. Behind it: the operating system runs every thread,
and `pthread_mutex_lock` does not starve a thread for ever. Weak fairness would not do,
because idle threads take and release the mutex in a loop and so disable a
waiter over and over. A callback returns or yields, and does not yield and reschedule
itself for ever (`MaxSchedule`). `StopReturns` is conditional on these; a callback
that loops keeps `stop()` waiting in the code too.

**Fairness** of `ThreadSync` is the same: weak fairness where a caller or a thread needs nobody, strong where it
needs `m_mutex`, and strong fairness of the end of `run()` once `m_stopping` is set.

## 4. Where the code and what is said of it differ

| Run | Finding |
|---|---|
| `sched_race` | A fiber that schedules itself for any thread and then yields, the use `SchedulerTest` demonstrates, can be taken by another worker between `m_state = READY` (`Piber.cc:124`) and `swapcontext` (`Piber.cc:130`): two threads on one stack. |
| `timer_rollover` | On a machine up for less than an hour, two threads in `listExpiredCb` make the clock seem to run backwards and every timer is handed out at once (`Timer.cc:175`, `Timer.cc:220`), which `Timer.cc:189` calls impossible. |
| `fd_count` | `idle()` counts an event that was taken back between `epoll_wait` and the lock once more (`iomanager.cc:105`): the counter wraps, and is zero with a waiter registered after the next `addEvent`, against `iomanager.cc:339`. |
| `hook_timeout` | A `connect()` whose timer expires after `addConditionTimer` (`hook.cc:239`) and before `addEvent` (`hook.cc:249`) is marked as timed out, has nothing to cancel, and then waits without a timer. |
| `io_loop_end` | `stopping()` reads the counter of events and the state of the scheduler at two moments (`iomanager.cc:340`). A fiber that registers and yields in between is seen by neither look; when that happens to both threads in turn, all of them leave with an event registered, against `iomanager.cc:339`. |

Also met, and too plain for a run: a fiber that another fiber resumes does not return control to its resumer in general, `README.md:20` of the library notwithstanding
(`Piber.cc:103`). On a caller thread `GetThis()` names the main fiber while the root fiber
executes (`Piber.cc:121`). After a failed `start()`, `stop()` joins a null pointer (`ThreadSync!join`). A `connect()` that follows a failed one on the same socket may be woken
by the earlier call's `cancelEvent()`, or by a report fetched before, finds itself unmarked and SO_ERROR zero, and returns 0 while it is in progress
(`hook.cc:266`): `ConnectTrue` is about the others. After `ioctl(FIONBIO)` with 0 a hooked call keeps its thread in the kernel (`hook.cc:448`).
The idle branch of `run()` is entered with tasks in the
list when all are meant for other threads or RUNING, contrary to the comment at
`Scheduler.cc:147`; the thread polls again, so nothing is lost (`StopReturns`).

## 5. What is proved

`PiberProofs`, for every set of fibers, every choice of `InScheduler` and any number of
switches, under `Disciplined`:

* The invariant is `IInv`. `ContextsCurrent` alone is not inductive: one must also
  know that the slot the next switch loads belongs to the fiber meant, and that this
  fiber has not finished. `IInv` therefore adds that a suspended fiber's
  continuation is behind its last yield exactly when it is TERM (`AllSaved`), that
  the two fibers others fall back on are alive (`MainAlive`, `RootAlive`), and that
  a running user fiber is the one `t_piber` names and was resumed by the only fiber it
  can give control to (`UserKnown`). `SwitchInOrder` is the lemma about
  `swapcontext`: saving the running fiber in its own slot and loading a suspended one
  that has not finished continues exactly that one, where it stopped.
* Theorems: `PiberInvariant`, `PiberTypeOK`, `PiberContextsCurrent`,
  `PiberRunning`, `PiberNeverExits`, `PiberYieldReturns`.

`SchedulerProofs`, for every number of threads and fibers, with or without a caller
thread, for both values of `Migrate`:

* `CountInv`: types, that a thread that counts as active holds a task, and that the
  counters equal the cardinalities of the sets of threads in the corresponding
  places. `MoveCounts` is its lemma: how those cardinalities change when one
  thread changes its place.
* `DrainInv`: an ended idle fiber means *drained*: flag set, list empty, nobody active.
  That must survive every step, and does because with nobody active nobody can schedule
  (`DrainedStays`), because the owner is past scheduling once the flag is set
  (`FlagByStop`), and because threads leave only through their ended idle fiber
  (`GoneThroughIdle`, `ScanStarted`, `CallerInStop`).
* Theorems: `SchedulerInvariant`, `SchedulerTypeOK`, `SchedulerCounters`,
  `SchedulerIdleEnds`, `SchedulerStopDrains`.

The assumptions of all proofs are the named `ASSUME`s of the modules, about distinct values, finite sets of
threads and the types of numbers; where a theorem needs more, its statement says so (`Disciplined`,
`~Migrate`, `Settled`, `OneConnector`).

The run of the scheduler has a caller thread and keeps fibers on their threads; the theorems hold without
the one and without the other restriction as well.

`SchedulerPoolProofs`, for every number of threads and fibers, under `~Migrate`:

* `PInv` says who has a fiber: it is held by the thread it first ran on (`HeldAtHome`), is not in the list
  while a thread has taken it and not resumed it (`TakenOnce`), is in the list once (`QueuedOnce`) and for its home
  (`QueuedForHome`), and `m_state` tells which of these it is (`StateOfHeld`, `QueuedAlive`).
  `ExclusiveStack` alone is not inductive: it is the pin in the list entry that keeps a second thread off a fiber whose
  `m_state` is READY already and whose context is not saved yet. `RemoveAtElements` is its lemma, about what is left of a list when
  one entry is taken out of its middle.
* `SchedulerImplementsPool` maps each action to a step of `TaskPool` or to a stutter: `schedule` to `Submit`,
  `Take` to `Dispatch`, `Finish` and `SwapOut` to theirs, the end of `stop()` to `Close`, which needs `StopDrains`.
* Theorems: `SchedulerHeldInvariant`, `SchedulerExclusiveStack`, `SchedulerImplementsPool`.

`FdEventsProofs`, for every number of waiters and of threads in `idle()` and every width of the counter:

* `FInv`: a context names a fiber exactly when its event is registered, and one that waits for that event
  (`Contexts`); a fiber is to be woken exactly when it waits and no context names it (`DueWhenTaken`); epoll watches what is
  registered (`InterestCurrent`). `WaitersAccounted` follows, and is too weak to be inductive: it counts
  one for a fiber that is registered under the wrong event. `NothingMissed` needs `InterestCurrent`, as a report holds
  what is watched.
* Theorems: `FdInvariant`, `FdTypeOK`, `FdWaitersAccounted`, `FdNothingMissed`, `FdAddFindsFree`.

`IOLoopProofs`, for every number of threads, fibers and calls of `schedule()`:

* `LoopImplementsFd`: the loop's steps on the descriptor are steps of `FdEvents`, with what `epoll_wait` returns
  split between the descriptor and the pipe, and a fiber that is taken from the list in place of one that
  is due. `LInv` adds to `FInv` the types of the list and of what threads hold, so that a thread only runs a fiber it was given.
* `LoopWaitersAccounted` carries what is proved of `FdEvents` over to the loop.
* `CountInv` adds that the two counters are the cardinalities of the sets of threads in the corresponding places. `LoopTypeOK`
  needs that: it is what keeps a counter from going below zero.
* `FiberInv` says where a fiber is. `FibersOnce` alone is not inductive: a fiber that is taken or runs must also be known to be neither in the
  list nor waiting (`ExecAlone`), or what it schedules or registers next would be its second entry, and a thread has a
  fiber exactly while it counts as active (`TaskHeld`). From the moment a fiber is scheduled to its yield it is
  on a thread and in the list; that it is RUNING (`StateTold`), and that `Eligible` looks at that, is all that keeps a second thread off.
  From the write of READY on nothing does: the second thread may have the fiber while the first is at `switch` or `back`, and that is what
  `FibersOnce` says, no more. The step after which `broken` holds is one of these.
  What `Scan` takes out of the middle of the list is `RestOfList`, what `Serve` appends to it the lemmas behind.
* Theorems: `LoopImplementsFd`, `LoopWaitersAccounted`, `LoopTypesOK`, `LoopCountersExact`, `LoopFibersOnce`.

`HookIOProofs`, for every number of fibers, of threads in `idle()` and of callbacks under way, any width of the counter and
any mix of calls, with a socket that connects, fills, hangs up and is closed at any time:

* `HInv`. `FibersAccounted` counts wake-ups; that every step keeps the count needs to be known where each wake-up comes from.
  A context names a fiber exactly when its event is registered, and a fiber that waits in `do_io` or `connect` on that event, no
  sleeper (`CallContexts`: the difference from `FdEvents`, where whoever waits waits for its event). The rest is said of each call
  (`CallOK`): which places it has (`Placed`); it is scheduled
  exactly when the event, or the sleep's timer, is gone from where it was (`WokenOnce`); a timer, collected or not, belongs to the call
  under way, and a sleep has one of these at a time (`TimersOwn`); the callbacks under way, wherever they are, are no more than `MaxLate`
  (`LateBounded`). `SocketWatched` says what is left of epoll's side once the socket is closed.
* A callback that is late may end a wait of the fiber's next call: `HInv` does not exclude it, and neither does the code. What is
  proved is that this wakes the fiber once, like the event it takes the place of.
* `HookConnectTrue`: `connect_with_timeout` returns 0 when it is woken, its call is not marked and SO_ERROR is zero,
  so before the socket is connected or refused nothing but its own timer may wake it. `Unmade` says what cannot exist before the
  connection is up: another call that waits, a late callback of anybody but the connector, readiness. `CleanWait` says that a clean call stays
  so: no report, and no callback about to cancel that has not marked this call. Both need one fiber that connects (`OneConnector`): of two, one
  takes the SO_ERROR of the other's attempt. A call that is not clean is not covered, and returns 0 too early in the code
  (section 4). `HookTimeoutHonest` needs `TimersOwn`.
* `HookImplementsFd`: while the socket is open each step of the calls, the timers, `close()` and `idle()` is a step of `FdEvents`, or
  none. The mapping takes the sleepers out: `waits` is those that wait in `do_io` or `connect`, and what a sleeper is due counts as none. After
  `close_f` the descriptor is not in epoll any more, without `delEvent`, and no step of `FdEvents` does that.
* Theorems: `HookInvariant`, `HookTypesOK`, `HookFibersAccounted`, `HookNothingMissed`, `HookConnectTrue`,
  `HookTimeoutHonest`, `HookImplementsFd`.

`TimerProofs`, for every number of timers and threads, every set of intervals, any width of time and any clock:

* `TInv`: what is in `m_timers` is each timer that has been added and has its callback, under the `m_next` it has now
  (`Filed`). This is what makes the `find` of `refresh()`, `reset()` and `cancel()` work although the key of an ordered set
  is changed in place. A timer that was cancelled, or whose callback was handed out for good, has none left and never gets it back
  (`SettledIdle`): so neither comes after the other, or twice (`TimerCancelIsFinal`).
* Theorems: `TimerInvariant`, `TimerTypeOK`, `TimerFiledWhileArmed`, `TimerCancelIsFinal`.

The second half of `TimerProofs` is about when callbacks come. It assumes `Settled`: one thread sleeps by `getNextTimer()`
(`m_tickled` suppresses all announcements but the first, so a second sleeper is not told), the machine was up for an hour when the
manager was made (`Hour <= Boot`), no thread is held up for more than an hour between its reading of the clock and the lock
(`HeldUp <= Hour`), and the clock plus an interval stays below the end of the word. How long the manager lives is not limited. The run `timer`
satisfies `Settled`. `TimerNoRollover` shows that `detectClockRollover` then never fires: readings cross, but by less than an hour. Where the
clock seems to run back (`timer_rollover`, on a machine that was up for less) all timers are handed out, early.

* `WInv`: while `m_tickled` is set a wake-up is under way or has arrived (`Told`); a sleeper that has not been woken sleeps until
  no later than each timer in the set, or past the present (`Awaited`); clock readings are past (`ClockOrder`), one in use by
  at most `HeldUp` (`Recent`), and
  a timer's expiry is its interval after a moment that is past (`StartedBefore`).
* Theorems: `TimerSleepInvariant`, `TimerNoMissedFront`, `TimerNeverEarly`, `TimerNoRollover`.

`ThreadSyncProofs`, for every number of callers, threads to be had and pool sizes, with every failure of `pthread_create`:

* `SyncInv` is about the handshake: a thread that has not come to `notify()` has a constructor waiting for it (`Young`), its semaphore holds one
  exactly between `notify()` and the end of that wait (`Posted`), who is in `start()` has the mutex (`MutexHeld`), so that
  the threads made so far are `running` and get no further (`Filled`).
* `OwnInv` is about ownership: a Thread object lives exactly when a constructor, the vector or a `stop()` has it, and one only
  (`OneOwner`); only a `stop()` that joins has a vector of its own (`HandsEmpty`); once the flag is set, a vector that is not empty has
  a `stop()` about to take it (`ToBeTaken`), which is why `stop()` may set the flag without the mutex.
* Theorems: `ThreadInvariant`, `ThreadTypeOK`, `ThreadObjectOutlivesUse`, `ThreadIdsKnown`, `ThreadStartAtomic`,
  `ThreadOwnedOnce`, `ThreadStopLeavesNothing`.

Only model-checked: every liveness property, which is out of the prover's reach (`StopReturns` of `Scheduler` and of `ThreadSync`,
`ReadyIsServed`, `TimeoutEndsCall`, `ReadyCallReturns`, `TasksTaken`, `LoopStops`, `StartReturns`). Every safety property of a
passing run is a theorem, `ConnectTrue` under `OneConnector`, `NoMissedFront` and `NeverEarly` under `Settled`, the others of section 5 under what is named there.

## 6. Plan

1. `Piber`, `Scheduler`, `TaskPool`, the proofs of the first two; `Timer`. *Done.*
2. `FdEvents`; `HookIO` over it; `ThreadSync`. *Done.*
3. `IOLoop`: the tickle pipe, `idle`, `stopping` and the counter, with `Scheduler`'s list beside it. *Done.*
4. Proofs for `Timer`, `FdEvents`, `HookIO`, `IOLoop` and `ThreadSync`, and of the refinement of `TaskPool`. *Done.*
   Left: that `IOLoop` with its scan taken apart implements a pool like `TaskPool`, with tasks that come back.
5. `PiberLifetime`: reference counts and stacks, what `MainFunc` drops before its last yield. The reuse
   of a descriptor's number between `close_f` and a late callback, in `HookIO`.

## 7. Not modelled

Output, logging and names; the destructor of `Piber` and the lifetime of fibers and
stacks; statistics (`s_piber_count`, ids); `hasTimer`, byte order helpers.
Of `IOManager` the table of contexts and its growth (`contextResize` has no body), construction and
destruction; that `Scheduler` would not call its `tickle` and `idle`, which are not virtual, is left aside: they are modelled as if it did. Of `hook` the reuse of a descriptor's number, calls with hooks
switched off, commands of `fcntl` and `ioctl` that are passed through, `socket` and `accept` beyond the state they leave
a socket in. `ScopeMutex` unlocks again in its destructor after `unlock()`; nobody calls `unlock()` on one. `RWMutex` and its guards
appear as the atomicity of the steps of `Timer` and `FdEvents`. A `sem_wait` that a signal
interrupts throws (`mutex.cc`), and is not modelled. Memory is sequentially
consistent in all models: `m_state` and `m_stopping` are plain fields that threads
share, so the code may do worse than the models, never better.
