----------------------------- MODULE Scheduler -----------------------------
(***************************************************************************)
(* The scheduler of synergy/Scheduler.cc: threads that all execute         *)
(* Scheduler::run over one list of tasks, the program that owns the        *)
(* scheduler and calls schedule(), start() and stop(), and the fibers that *)
(* the threads run, which schedule themselves and each other.              *)
(*                                                                         *)
(* A step is what happens between two points where another thread can see  *)
(* a difference.  A critical section that only pushes a task or only reads *)
(* is one step taken while the mutex is free; the scan of the task list is *)
(* one step per entry, since it reads the state of fibers that other       *)
(* threads change without the mutex.  Piber::yield is two steps, the write *)
(* of m_state and the save of the context, because run() looks at the      *)
(* first to decide about the second.                                       *)
(***************************************************************************)
EXTENDS Naturals, Sequences, FiniteSets, SequencesExt

CONSTANTS
  Worker,       (* the threads start() makes                                 *)
  Caller,       (* the thread that constructs the scheduler and stops it     *)
  UseCaller,    (* constructor argument: Caller runs tasks too, in stop()    *)
  Piber,        (* the fibers; a callback stands for the fiber run() will
                   make of it                                                *)
  None,
  AnyThread,    (* the thread argument -1                                    *)
  Migrate,      (* TRUE: a fiber that has run may be scheduled for any
                   thread, as SchedulerTest does; FALSE: only for the thread
                   it first ran on                                           *)
  MaxSchedule   (* bound: calls of schedule()                                *)

Runner == Worker \cup (IF UseCaller THEN {Caller} ELSE {})

ASSUME SchedulerAssumption ==
  /\ IsFiniteSet(Worker) /\ Caller \notin Worker
  /\ UseCaller \in BOOLEAN /\ Migrate \in BOOLEAN
  /\ None \notin Piber \cup Runner /\ AnyThread \notin Runner \cup {None}
  /\ MaxSchedule \in Nat

Task == [piber : Piber, thread : Runner \cup {AnyThread}]

VARIABLES
  m_tasks, m_mutex, m_stopping, m_activeThreadCount, m_idleThreadCount,
  m_state,       (* READY, RUNING or TERM of every fiber                     *)
  home,          (* the thread a fiber first ran on, None before             *)
  pc,            (* where in run(), or in the fiber it resumed, a thread is  *)
  task,          (* run()'s local                                            *)
  it,            (* run()'s iterator, used by the owner of the mutex only    *)
  idle_piber,    (* the state of run()'s local idle fiber                    *)
  main,          (* where the program that owns the scheduler is             *)
  calls          (* calls of schedule() so far                               *)

queueVars  == <<m_tasks, calls>>
threadVars == <<pc, task>>
countVars  == <<m_activeThreadCount, m_idleThreadCount>>
fiberVars  == <<m_state, home>>
ownerVars  == <<main, m_stopping>>
scanVars   == <<m_mutex, it>>
vars == <<queueVars, threadVars, countVars, fiberVars, ownerVars, scanVars,
          idle_piber>>

-----------------------------------------------------------------------------

Init ==
  /\ m_tasks = <<>> /\ m_mutex = None /\ m_stopping = FALSE
  /\ m_activeThreadCount = 0 /\ m_idleThreadCount = 0
  /\ m_state = [f \in Piber |-> "READY"]
  /\ home = [f \in Piber |-> None]
  /\ pc = [t \in Runner |-> "off"]
  /\ task = [t \in Runner |-> None]
  /\ it = 0
  /\ idle_piber = [t \in Runner |-> "READY"]
  /\ main = "open"
  /\ calls = 0

Goto(t, label) == pc' = [pc EXCEPT ![t] = label]

(* Where a thread stands while it counts as active, and where it stands while
   it executes on the stack of the fiber it has taken.                       *)
OnStack == {"exec", "resched", "yield", "end"}
ActivePc == OnStack \cup {"taken", "back"}

Queued == {m_tasks[i].piber : i \in 1..Len(m_tasks)}
Taken == {task[t] : t \in {u \in Runner : pc[u] = "taken"}}

(* Mutant: stopping() looks at the flag and the counter, not at the list.    *)
StoppingWithTasks == m_stopping /\ m_activeThreadCount = 0

(* stopping(), evaluated under the mutex.                                    *)
stopping == m_stopping /\ m_tasks = <<>> /\ m_activeThreadCount = 0

-----------------------------------------------------------------------------
(* schedule() *)

(* The threads a task for f can be meant for: those that exist, any of them,
   or the thread the fiber is tied to.                                       *)
Pin(f) ==
  IF ~Migrate /\ home[f] # None THEN {home[f]}
  ELSE {t \in Runner : t = Caller \/ pc[t] # "off"} \cup {AnyThread}

(* schedule(f, thread) for a fiber that exists; tickle() does nothing.       *)
schedule(f, thread) ==
  /\ m_mutex = None /\ calls < MaxSchedule
  /\ m_tasks' = Append(m_tasks, [piber |-> f, thread |-> thread])
  /\ calls' = calls + 1

(* What the code calling schedule() on another fiber keeps to: the fiber is
   new or gave up control, has not finished, and is not waiting already.     *)
Schedulable(f) == m_state[f] = "READY" /\ f \notin Queued \cup Taken

(* The owner schedules a fiber or a callback.                                *)
OwnerSchedules ==
  /\ main = "open"
  /\ \E f \in {g \in Piber : Schedulable(g)} : \E thread \in Pin(f) : schedule(f, thread)
  /\ UNCHANGED <<threadVars, countVars, fiberVars, ownerVars, scanVars, idle_piber>>

(* A running fiber schedules another one.                                    *)
FiberSchedules(t) ==
  /\ pc[t] = "exec"
  /\ \E f \in {g \in Piber : Schedulable(g)} : \E thread \in Pin(f) : schedule(f, thread)
  /\ UNCHANGED <<threadVars, countVars, fiberVars, ownerVars, scanVars, idle_piber>>

(* schedule(Piber::GetThis()), to be followed by a yield.                    *)
FiberSchedulesItself(t) ==
  /\ pc[t] = "exec" /\ task[t] \notin Queued
  /\ \E thread \in Pin(task[t]) : schedule(task[t], thread)
  /\ Goto(t, "resched")
  /\ UNCHANGED <<task, countVars, fiberVars, ownerVars, scanVars, idle_piber>>

-----------------------------------------------------------------------------
(* run() *)

Lock(t) ==
  /\ pc[t] = "scan" /\ m_mutex = None
  /\ m_mutex' = t /\ it' = 1
  /\ task' = [task EXCEPT ![t] = None]
  /\ Goto(t, "locked")
  /\ UNCHANGED <<queueVars, countVars, fiberVars, ownerVars, idle_piber>>

Scanning(t) == pc[t] = "locked" /\ it <= Len(m_tasks)

(* Mutant: the thread a task is meant for is ignored.                        *)
EligibleOnAnyThread(t, e) == m_state[e.piber] # "RUNING"

(* The two conditions under which the scan passes over a task.               *)
Eligible(t, e) ==
  /\ e.thread \in {AnyThread, t}
  /\ m_state[e.piber] # "RUNING"

Skip(t) ==
  /\ Scanning(t) /\ ~Eligible(t, m_tasks[it])
  /\ it' = it + 1
  /\ UNCHANGED <<queueVars, threadVars, countVars, fiberVars, ownerVars, m_mutex, idle_piber>>

(* Mutant: the scan takes *it and drops the head of the list.                *)
TakeDroppingHead(t) ==
  /\ Scanning(t) /\ Eligible(t, m_tasks[it])
  /\ task' = [task EXCEPT ![t] = m_tasks[it].piber]
  /\ m_tasks' = Tail(m_tasks)
  /\ m_activeThreadCount' = m_activeThreadCount + 1
  /\ m_mutex' = None
  /\ Goto(t, "taken")
  /\ UNCHANGED <<calls, m_idleThreadCount, fiberVars, ownerVars, it, idle_piber>>

Take(t) ==
  /\ Scanning(t) /\ Eligible(t, m_tasks[it])
  /\ task' = [task EXCEPT ![t] = m_tasks[it].piber]
  /\ m_tasks' = RemoveAt(m_tasks, it)
  /\ m_activeThreadCount' = m_activeThreadCount + 1
  /\ m_mutex' = None
  /\ Goto(t, "taken")
  /\ UNCHANGED <<calls, m_idleThreadCount, fiberVars, ownerVars, it, idle_piber>>

(* The iterator reached the end: the thread turns to its idle fiber.         *)
EndScan(t) ==
  /\ pc[t] = "locked" /\ it > Len(m_tasks)
  /\ m_mutex' = None
  /\ Goto(t, "noTask")
  /\ UNCHANGED <<queueVars, task, countVars, fiberVars, ownerVars, it, idle_piber>>

(* resume() of the task, of a fiber made for it when it is a callback.       *)
Resume(t) ==
  /\ pc[t] = "taken"
  /\ m_state' = [m_state EXCEPT ![task[t]] = "RUNING"]
  /\ home' = [home EXCEPT ![task[t]] = IF @ = None THEN t ELSE @]
  /\ Goto(t, "exec")
  /\ UNCHANGED <<queueVars, task, countVars, ownerVars, scanVars, idle_piber>>

(* yield() up to its write of m_state.                                       *)
Yield(t) ==
  /\ pc[t] \in {"exec", "resched"}
  /\ m_state' = [m_state EXCEPT ![task[t]] = "READY"]
  /\ Goto(t, "yield")
  /\ UNCHANGED <<queueVars, task, countVars, home, ownerVars, scanVars, idle_piber>>

(* The callback returned: MainFunc marks the fiber and yields.               *)
Finish(t) ==
  /\ pc[t] = "exec"
  /\ m_state' = [m_state EXCEPT ![task[t]] = "TERM"]
  /\ Goto(t, "end")
  /\ UNCHANGED <<queueVars, task, countVars, home, ownerVars, scanVars, idle_piber>>

(* swapcontext: the fiber is saved and off its stack, the thread is back in
   run().                                                                    *)
SwapOut(t) ==
  /\ pc[t] \in {"yield", "end"}
  /\ Goto(t, "back")
  /\ UNCHANGED <<queueVars, task, countVars, fiberVars, ownerVars, scanVars, idle_piber>>

(* Mutant: run() comes back from a task that finished and does not count it. *)
BackCountingYields(t) ==
  /\ pc[t] = "back"
  /\ m_activeThreadCount' =
       IF m_state[task[t]] = "TERM" THEN m_activeThreadCount ELSE m_activeThreadCount - 1
  /\ task' = [task EXCEPT ![t] = None]
  /\ Goto(t, "scan")
  /\ UNCHANGED <<queueVars, m_idleThreadCount, fiberVars, ownerVars, scanVars, idle_piber>>

Back(t) ==
  /\ pc[t] = "back"
  /\ m_activeThreadCount' = m_activeThreadCount - 1
  /\ task' = [task EXCEPT ![t] = None]
  /\ Goto(t, "scan")
  /\ UNCHANGED <<queueVars, m_idleThreadCount, fiberVars, ownerVars, scanVars, idle_piber>>

(* No task found: leave run() when the idle fiber has ended, else resume it. *)
GoIdle(t) ==
  /\ pc[t] = "noTask"
  /\ IF idle_piber[t] = "TERM"
     THEN Goto(t, "gone") /\ UNCHANGED m_idleThreadCount
     ELSE Goto(t, "idle") /\ m_idleThreadCount' = m_idleThreadCount + 1
  /\ UNCHANGED <<queueVars, task, m_activeThreadCount, fiberVars, ownerVars, scanVars, idle_piber>>

(* idle() from where it was suspended to its next yield or its end: one call
   of stopping().                                                            *)
IdlePoll(t) ==
  /\ pc[t] = "idle" /\ m_mutex = None
  /\ idle_piber' = [idle_piber EXCEPT ![t] = IF stopping THEN "TERM" ELSE "READY"]
  /\ Goto(t, "leaveIdle")
  /\ UNCHANGED <<queueVars, task, countVars, fiberVars, ownerVars, scanVars>>

(* Mutant: the wrong counter goes down.                                      *)
LeaveIdleAsActive(t) ==
  /\ pc[t] = "leaveIdle"
  /\ m_activeThreadCount' = m_activeThreadCount - 1
  /\ Goto(t, "scan")
  /\ UNCHANGED <<queueVars, task, m_idleThreadCount, fiberVars, ownerVars, scanVars, idle_piber>>

LeaveIdle(t) ==
  /\ pc[t] = "leaveIdle"
  /\ m_idleThreadCount' = m_idleThreadCount - 1
  /\ Goto(t, "scan")
  /\ UNCHANGED <<queueVars, task, m_activeThreadCount, fiberVars, ownerVars, scanVars, idle_piber>>

-----------------------------------------------------------------------------
(* start() and stop(), called once each, start() first where the scheduler
   has no other thread to run tasks on                                       *)

Started == \E t \in Worker : pc[t] # "off"

start ==
  /\ main = "open" /\ ~Started /\ Worker # {}
  /\ m_mutex = None /\ ~m_stopping
  /\ pc' = [t \in Runner |-> IF t \in Worker THEN "scan" ELSE pc[t]]
  /\ UNCHANGED <<queueVars, task, countVars, fiberVars, ownerVars, scanVars, idle_piber>>

(* stop() asks stopping() whether there is anything to do.                   *)
StopAsks ==
  /\ main = "open" /\ m_mutex = None
  /\ Started \/ UseCaller
  /\ main' = IF stopping THEN "stopped" ELSE "stopping"
  /\ UNCHANGED <<queueVars, threadVars, countVars, fiberVars, m_stopping, scanVars, idle_piber>>

(* Mutant: stop() waits for the threads and does not tell them.              *)
StopSetsNothing ==
  /\ main = "stopping"
  /\ main' = IF UseCaller THEN "root" ELSE "collect"
  /\ pc' = [t \in Runner |-> IF UseCaller /\ t = Caller THEN "scan" ELSE pc[t]]
  /\ UNCHANGED <<queueVars, task, countVars, fiberVars, m_stopping, scanVars, idle_piber>>

(* The flag is set without the mutex; the root fiber is resumed on Caller.   *)
StopSets ==
  /\ main = "stopping"
  /\ m_stopping' = TRUE
  /\ main' = IF UseCaller THEN "root" ELSE "collect"
  /\ pc' = [t \in Runner |-> IF UseCaller /\ t = Caller THEN "scan" ELSE pc[t]]
  /\ UNCHANGED <<queueVars, task, countVars, fiberVars, scanVars, idle_piber>>

(* run() ended on the root fiber, whose MainFunc yields to the caller.       *)
RootEnds ==
  /\ main = "root" /\ pc[Caller] = "gone"
  /\ main' = "collect"
  /\ UNCHANGED <<queueVars, threadVars, countVars, fiberVars, m_stopping, scanVars, idle_piber>>

(* m_threads is emptied under the mutex, then every thread is joined.        *)
Collect ==
  /\ main = "collect" /\ m_mutex = None
  /\ main' = "join"
  /\ UNCHANGED <<queueVars, threadVars, countVars, fiberVars, m_stopping, scanVars, idle_piber>>

(* Mutant: the join of the threads is forgotten.                             *)
JoinNobody ==
  /\ main = "join"
  /\ main' = "stopped"
  /\ UNCHANGED <<queueVars, threadVars, countVars, fiberVars, m_stopping, scanVars, idle_piber>>

Join ==
  /\ main = "join"
  /\ \A t \in Worker : pc[t] \in {"off", "gone"}
  /\ main' = "stopped"
  /\ UNCHANGED <<queueVars, threadVars, countVars, fiberVars, m_stopping, scanVars, idle_piber>>

(* After stop() the program may end.                                         *)
Ended == main = "stopped" /\ UNCHANGED vars

ThreadStep(t) ==
  \/ Lock(t) \/ Skip(t) \/ Take(t) \/ EndScan(t)
  \/ Resume(t) \/ FiberSchedules(t) \/ FiberSchedulesItself(t)
  \/ Yield(t) \/ Finish(t) \/ SwapOut(t) \/ Back(t)
  \/ GoIdle(t) \/ IdlePoll(t) \/ LeaveIdle(t)

StopStep == StopSets \/ RootEnds \/ Collect \/ Join

Next ==
  \/ \E t \in Runner : ThreadStep(t)
  \/ OwnerSchedules \/ start \/ StopAsks \/ StopStep
  \/ Ended

Spec == Init /\ [][Next]_vars

(* The operating system runs every thread, callbacks return or yield, and a
   thread that keeps asking for the mutex gets it: strong fairness, because
   idle threads take and release it over and over.                           *)
Fairness == SF_vars(StopStep) /\ \A t \in Runner : SF_vars(ThreadStep(t))

FairSpec == Spec /\ Fairness

-----------------------------------------------------------------------------
Label == OnStack \cup {"off", "scan", "locked", "taken", "back", "noTask",
                       "idle", "leaveIdle", "gone"}

TypeOK ==
  /\ m_tasks \in Seq(Task)
  /\ m_mutex \in Runner \cup {None}
  /\ m_stopping \in BOOLEAN
  /\ m_activeThreadCount \in Nat
  /\ m_idleThreadCount \in Nat
  /\ m_state \in [Piber -> {"READY", "RUNING", "TERM"}]
  /\ home \in [Piber -> Runner \cup {None}]
  /\ pc \in [Runner -> Label]
  /\ task \in [Runner -> Piber \cup {None}]
  /\ it \in Nat
  /\ idle_piber \in [Runner -> {"READY", "TERM"}]
  /\ main \in {"open", "stopping", "root", "collect", "join", "stopped"}
  /\ calls \in Nat

ActiveThreads == {t \in Runner : pc[t] \in ActivePc}
IdleThreads == {t \in Runner : pc[t] \in {"idle", "leaveIdle"}}

(* The two counters, changed outside the mutex on the way down, always tell
   how many threads hold a task and how many are in their idle fiber.
   stopping() decides by the first.                                          *)
CountersExact ==
  /\ m_activeThreadCount = Cardinality(ActiveThreads)
  /\ m_idleThreadCount = Cardinality(IdleThreads)

(* Nothing is left to do, and nobody is left who could add to it.            *)
Drained == m_stopping /\ m_tasks = <<>> /\ ActiveThreads = {}

(* A thread that has seen its idle fiber end can leave for good: the order to
   stop has been given, no task waits and none is running, in any thread.    *)
IdleEndsDrained == \A t \in Runner : idle_piber[t] = "TERM" => Drained

(* stop() returns when every task that was scheduled has been run, every
   thread that was started has left run(), and only then.                    *)
StopDrains ==
  main = "stopped" =>
    /\ Drained
    /\ \A t \in Runner : pc[t] \in {"off", "gone"}

(* No two threads ever execute on the stack of one fiber.                    *)
ExclusiveStack ==
  \A t, u \in Runner :
    t # u /\ pc[t] \in OnStack /\ pc[u] \in OnStack => task[t] # task[u]

Pool == INSTANCE TaskPool WITH
  queued   <- Queued,
  running  <- {task[t] : t \in {u \in Runner : pc[u] \in OnStack \cup {"taken"}}},
  finished <- {f \in Piber : m_state[f] = "TERM"},
  closed   <- (main = "stopped")

(* The threads together behave like one pool of tasks: see TaskPool.         *)
ImplementsPool == Pool!Spec

(* stop() returns.                                                           *)
StopReturns == main = "stopping" ~> main = "stopped"
=============================================================================
