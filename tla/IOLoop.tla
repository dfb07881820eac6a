------------------------------- MODULE IOLoop -------------------------------
(***************************************************************************)
(* The loop of an IOManager: its threads take tasks from the scheduler's   *)
(* list and, when they find none, block in epoll_wait over the descriptor  *)
(* of FdEvents and the pipe that tickle() writes to.  schedule() tickles   *)
(* when the list was empty and somebody is idle; stop() sets its flag and  *)
(* tickles; a thread ends when stopping() finds nothing registered and     *)
(* nothing to run.                                                         *)
(*                                                                         *)
(* As in FdEvents, tickle(), idle() and stopping() are modelled as they    *)
(* read, as if Scheduler's, which they hide, were virtual.  A step is what *)
(* happens under one lock, or up to the next read or write of something    *)
(* that other threads change.                                              *)
(*                                                                         *)
(* idle() schedules a fiber for any thread, often before it has yielded.   *)
(* A thread may take it once yield() has written READY, and resume it      *)
(* before swapcontext() has saved it.  What the program does from there on *)
(* is undefined, and the model ends: broken.                               *)
(***************************************************************************)
EXTENDS FdEvents, Sequences, SequencesExt

CONSTANTS
  MaxSchedule   (* bound: calls of schedule() by fibers and by the owner     *)

ASSUME LoopAssumption ==
  /\ Idler # {} /\ IsFiniteSet(Idler) /\ None \notin Idler
  /\ MaxSchedule \in Nat

VARIABLES
  m_tasks,              (* tasks: a waiter, and a thread or None for any     *)
  m_stopping, m_activeThreadCount, m_idleThreadCount,
  m_state,              (* READY or RUNING, of every fiber; TERM is READY    *)
  broken,               (* a fiber was resumed that is not saved             *)
  pc,                   (* where in run() and idle() a thread is             *)
  task,                 (* run()'s local                                     *)
  ended,                (* the threads whose idle fiber has ended            *)
  pipe,                 (* there is something in the pipe                    *)
  pipeArmed,            (* and epoll has yet to report it                    *)
  told,                 (* the threads whose report has the pipe in it       *)
  tickling,             (* who is about to call tickle(); None is the owner  *)
  main,                 (* the owner: "open", "join", "stopped"              *)
  calls                 (* calls of schedule() so far                        *)

fdVars == vars
countVars == <<m_activeThreadCount, m_idleThreadCount>>
pipeVars == <<pipe, pipeArmed, told>>
runVars == <<pc, task, ended, m_state, broken>>
queueVars == <<m_tasks, calls>>
ownerVars == <<main, m_stopping>>
loopVars == <<fdVars, countVars, pipeVars, runVars, queueVars, ownerVars, tickling>>

LoopInit ==
  /\ Init
  /\ m_tasks = <<>> /\ m_stopping = FALSE
  /\ m_activeThreadCount = 0 /\ m_idleThreadCount = 0
  /\ m_state = [w \in Waiter |-> "READY"] /\ broken = FALSE
  /\ pc = [t \in Idler |-> "scan"]
  /\ task = [t \in Idler |-> None]
  /\ ended = {}
  /\ pipe = FALSE /\ pipeArmed = FALSE /\ told = {}
  /\ tickling = {}
  /\ main = "open" /\ calls = 0

fiberVars == <<m_state, broken>>

(* A thread at a place in run(), with no tickle() to do first, goes on.      *)
At(t, label) == ~broken /\ pc[t] = label /\ t \notin tickling
Goto(t, label) == pc' = [pc EXCEPT ![t] = label]

Running == {task[t] : t \in Idler} \ {None}
Queued == {m_tasks[i].piber : i \in 1 .. Len(m_tasks)}

-----------------------------------------------------------------------------
(* schedule() and tickle()                                                   *)

(* write() to the pipe.                                                      *)
Write == pipe' = TRUE /\ pipeArmed' = TRUE

(* Nobody is told when nobody is idle.                                       *)
tickle(c) ==
  /\ ~broken /\ c \in tickling
  /\ tickling' = tickling \ {c}
  /\ IF m_idleThreadCount > 0 THEN Write ELSE UNCHANGED <<pipe, pipeArmed>>
  /\ UNCHANGED <<fdVars, countVars, told, runVars, queueVars, ownerVars>>

(* schedule(f, thread) by c, who is to tickle when the list was empty.       *)
schedule(c, f, thread) ==
  /\ calls < MaxSchedule
  /\ m_tasks' = Append(m_tasks, [piber |-> f, thread |-> thread])
  /\ tickling' = IF m_tasks = <<>> THEN tickling \cup {c} ELSE tickling
  /\ calls' = calls + 1

(* A fiber that waits for nothing: it is new, or finished and made anew.     *)
Free(f) == f \notin waits \cup Queued \cup Running

OwnerSchedules ==
  /\ ~broken /\ main = "open" /\ None \notin tickling
  /\ \E f \in Waiter, thread \in Idler \cup {None} : Free(f) /\ schedule(None, f, thread)
  /\ UNCHANGED <<fdVars, countVars, pipeVars, runVars, ownerVars>>

(* A running fiber schedules another one, or itself before it yields.         *)
FiberSchedules(t) ==
  /\ At(t, "exec")
  /\ \E f \in Waiter, thread \in Idler \cup {None} :
       /\ Free(f) \/ f = task[t]
       /\ schedule(t, f, thread)
       /\ Goto(t, IF f = task[t] THEN "yield" ELSE "exec")
  /\ UNCHANGED <<fdVars, countVars, pipeVars, task, ended, fiberVars, ownerVars>>

-----------------------------------------------------------------------------
(* run()                                                                     *)

(* Mutant: the look at the fiber's state is left out.                         *)
EligibleRunning(t, e) == e.thread \in {None, t}

Eligible(t, e) == e.thread \in {None, t} /\ m_state[e.piber] # "RUNING"

(* The scan of the list, which takes the first task that the thread may run,
   and tells the others if it passed over a task of theirs or leaves some.   *)
Scan(t) ==
  /\ At(t, "scan")
  /\ LET i == SelectInSeq(m_tasks, LAMBDA e : Eligible(t, e))
         passed == 1 .. (IF i = 0 THEN Len(m_tasks) ELSE i - 1)
         tickle_me == \/ \E j \in passed : m_tasks[j].thread \notin {None, t}
                      \/ i \in 1 .. Len(m_tasks) - 1
     IN  /\ tickling' = IF tickle_me THEN tickling \cup {t} ELSE tickling
         /\ IF i = 0
            THEN /\ Goto(t, "noTask")
                 /\ UNCHANGED <<fdVars, m_tasks, task, m_activeThreadCount>>
            ELSE /\ Goto(t, "taken")
                 /\ task' = [task EXCEPT ![t] = m_tasks[i].piber]
                 /\ m_tasks' = RemoveAt(m_tasks, i)
                 /\ m_activeThreadCount' = m_activeThreadCount + 1
                 /\ IF m_tasks[i].piber \in waits THEN Run(m_tasks[i].piber) ELSE UNCHANGED fdVars
  /\ UNCHANGED <<m_idleThreadCount, pipeVars, ended, fiberVars, calls, ownerVars>>

(* resume(): the fiber of another thread that has yet to save it is not fit
   to run.                                                                    *)
Resume(t) ==
  /\ At(t, "taken")
  /\ m_state' = [m_state EXCEPT ![task[t]] = "RUNING"]
  /\ broken' = (\E u \in Idler : pc[u] = "switch" /\ task[u] = task[t])
  /\ Goto(t, "exec")
  /\ UNCHANGED <<fdVars, countVars, pipeVars, task, ended, queueVars, ownerVars, tickling>>

(* The fiber registers for its event, and has yet to yield.                   *)
FiberWaits(t) ==
  /\ At(t, "exec")
  /\ addEvent(task[t])
  /\ Goto(t, "yield")
  /\ UNCHANGED <<countVars, pipeVars, task, ended, fiberVars, queueVars, ownerVars, tickling>>

(* yield() up to its write of m_state, by the fiber or at the callback's end.  *)
Yield(t) ==
  /\ At(t, "exec") \/ At(t, "yield")
  /\ m_state' = [m_state EXCEPT ![task[t]] = "READY"]
  /\ Goto(t, "switch")
  /\ UNCHANGED <<fdVars, countVars, pipeVars, task, ended, broken, queueVars, ownerVars, tickling>>

(* swapcontext: the fiber is saved, the thread is back in run().             *)
SwapOut(t) ==
  /\ At(t, "switch")
  /\ Goto(t, "back")
  /\ UNCHANGED <<fdVars, countVars, pipeVars, task, ended, fiberVars, queueVars, ownerVars, tickling>>

Back(t) ==
  /\ At(t, "back")
  /\ m_activeThreadCount' = m_activeThreadCount - 1
  /\ task' = [task EXCEPT ![t] = None]
  /\ Goto(t, "scan")
  /\ UNCHANGED <<fdVars, m_idleThreadCount, pipeVars, ended, fiberVars, queueVars, ownerVars, tickling>>

(* No task: the thread leaves run() when its idle fiber has ended.           *)
GoIdle(t) ==
  /\ At(t, "noTask")
  /\ IF t \in ended
     THEN Goto(t, "gone") /\ UNCHANGED m_idleThreadCount
     ELSE Goto(t, "idle") /\ m_idleThreadCount' = m_idleThreadCount + 1
  /\ UNCHANGED <<fdVars, m_activeThreadCount, pipeVars, task, ended, fiberVars, queueVars, ownerVars, tickling>>

-----------------------------------------------------------------------------
(* idle()                                                                    *)

(* stopping(): the counter first ...                                         *)
AskEvents(t) ==
  /\ At(t, "idle")
  /\ Goto(t, IF m_pendingEventCount = 0 THEN "ask" ELSE "poll")
  /\ UNCHANGED <<fdVars, countVars, pipeVars, task, ended, fiberVars, queueVars, ownerVars, tickling>>

(* ... and Scheduler::stopping(), under its mutex; true ends the idle fiber.  *)
AskTasks(t) ==
  /\ At(t, "ask")
  /\ IF m_stopping /\ m_tasks = <<>> /\ m_activeThreadCount = 0
     THEN Goto(t, "ended") /\ ended' = ended \cup {t}
     ELSE Goto(t, "poll") /\ UNCHANGED ended
  /\ UNCHANGED <<fdVars, countVars, pipeVars, task, fiberVars, queueVars, ownerVars, tickling>>

PipeReady == pipe /\ pipeArmed
FdReady == armed /\ Reported(interest) # {}

(* Mutant: epoll_wait has no timeout.                                        *)
PollForEver(t) ==
  /\ At(t, "poll") /\ (FdReady \/ PipeReady)
  /\ IF FdReady THEN epoll_wait(t) ELSE UNCHANGED fdVars
  /\ told' = IF PipeReady THEN told \cup {t} ELSE told
  /\ pipeArmed' = FALSE
  /\ Goto(t, "loop")
  /\ UNCHANGED <<countVars, pipe, task, ended, fiberVars, queueVars, ownerVars, tickling>>

(* epoll_wait returns what is ready of the two, once; after five seconds it
   returns with nothing.  Left out is EINTR, after which idle() begins anew
   without a look at the list; the other errors, which end idle(), need a
   descriptor or a buffer that the manager has not got.                      *)
Poll(t) ==
  /\ At(t, "poll")
  /\ IF FdReady THEN epoll_wait(t) ELSE UNCHANGED fdVars
  /\ told' = IF PipeReady THEN told \cup {t} ELSE told
  /\ pipeArmed' = FALSE
  /\ Goto(t, "loop")
  /\ UNCHANGED <<countVars, pipe, task, ended, fiberVars, queueVars, ownerVars, tickling>>

(* The loop over the report: the pipe is emptied ...                         *)
Drain(t) ==
  /\ At(t, "loop") /\ t \in told
  /\ told' = told \ {t}
  /\ pipe' = FALSE
  /\ UNCHANGED <<fdVars, countVars, pipeArmed, runVars, queueVars, ownerVars, tickling>>

(* ... and what waits on the descriptor is scheduled for any thread, with a
   tickle(), which finds this thread idle.                                   *)
Serve(t) ==
  /\ At(t, "loop") /\ fetched[t] # {}
  /\ Handle(t)
  /\ LET fired(e) == IF e \in events \ events' THEN <<[piber |-> piber[e], thread |-> None]>> ELSE <<>>
     IN  m_tasks' = m_tasks \o fired("READ") \o fired("WRITE")
  /\ IF events' # events /\ m_tasks = <<>> THEN Write ELSE UNCHANGED <<pipe, pipeArmed>>
  /\ UNCHANGED <<countVars, told, runVars, calls, ownerVars, tickling>>

(* The idle fiber yields, the report worked off, or has ended.               *)
OutOfIdle(t) ==
  At(t, "ended") \/ (At(t, "loop") /\ t \notin told /\ fetched[t] = {})

(* Mutant: the wrong counter goes down.                                      *)
LeaveIdleAsActive(t) ==
  /\ OutOfIdle(t)
  /\ m_activeThreadCount' = m_activeThreadCount - 1
  /\ Goto(t, "scan")
  /\ UNCHANGED <<fdVars, m_idleThreadCount, pipeVars, task, ended, fiberVars, queueVars, ownerVars, tickling>>

(* run() goes on.                                                            *)
LeaveIdle(t) ==
  /\ OutOfIdle(t)
  /\ m_idleThreadCount' = m_idleThreadCount - 1
  /\ Goto(t, "scan")
  /\ UNCHANGED <<fdVars, m_activeThreadCount, pipeVars, task, ended, fiberVars, queueVars, ownerVars, tickling>>

-----------------------------------------------------------------------------
(* stop(), of a manager that does not use the caller's thread                *)

(* The flag, and a tickle for each thread: the pipe keeps but one.           *)
stop ==
  /\ ~broken /\ main = "open" /\ None \notin tickling
  /\ m_stopping' = TRUE
  /\ tickling' = tickling \cup {None}
  /\ main' = "join"
  /\ UNCHANGED <<fdVars, countVars, pipeVars, runVars, queueVars>>

Join ==
  /\ ~broken /\ main = "join" /\ None \notin tickling
  /\ \A t \in Idler : pc[t] = "gone"
  /\ main' = "stopped"
  /\ UNCHANGED <<fdVars, countVars, pipeVars, runVars, queueVars, m_stopping, tickling>>

(* Data or room arrives, or somebody takes it.                               *)
World ==
  /\ ~broken
  /\ \E e \in {Of(w) : w \in Waiter} : Arrive(e) \/ Consume(e)
  /\ UNCHANGED <<countVars, pipeVars, runVars, queueVars, ownerVars, tickling>>

LoopStep(t) ==
  \/ Scan(t) \/ Resume(t) \/ FiberSchedules(t) \/ FiberWaits(t)
  \/ Yield(t) \/ SwapOut(t) \/ Back(t) \/ GoIdle(t)
  \/ AskEvents(t) \/ AskTasks(t) \/ Poll(t) \/ Drain(t) \/ Serve(t)
  \/ LeaveIdle(t) \/ tickle(t)

StopStep == Join \/ tickle(None)

LoopNext ==
  \/ \E t \in Idler : LoopStep(t)
  \/ OwnerSchedules \/ stop \/ StopStep \/ World
  \/ broken /\ UNCHANGED loopVars

(* Threads run, fibers yield or return, and epoll_wait waits five seconds.   *)
LoopFairness ==
  /\ \A t \in Idler : WF_loopVars(LoopStep(t))
  /\ WF_loopVars(StopStep)

LoopSpec == LoopInit /\ [][LoopNext]_loopVars /\ LoopFairness

-----------------------------------------------------------------------------
LoopTypeOK ==
  /\ TypeOK
  /\ m_tasks \in Seq([piber : Waiter, thread : Idler \cup {None}])
  /\ m_stopping \in BOOLEAN
  /\ m_activeThreadCount \in 0 .. Cardinality(Idler)
  /\ m_idleThreadCount \in 0 .. Cardinality(Idler)
  /\ m_state \in [Waiter -> {"READY", "RUNING"}] /\ broken \in BOOLEAN
  /\ pc \in [Idler -> {"scan", "taken", "exec", "yield", "switch", "back", "noTask",
                       "idle", "ask", "poll", "loop", "ended", "gone"}]
  /\ task \in [Idler -> Waiter \cup {None}]
  /\ ended \subseteq Idler /\ told \subseteq Idler
  /\ pipe \in BOOLEAN /\ pipeArmed \in BOOLEAN
  /\ tickling \subseteq Idler \cup {None}
  /\ main \in {"open", "join", "stopped"}
  /\ calls \in 0 .. MaxSchedule

(* Of two threads that have one fiber, one has given it up and is on its way
   back to run().  A fiber is in the list once, and one that waits for its
   event is there exactly when idle() has triggered it, be it that it has yet
   to yield; a thread that takes it may run it.                              *)
FibersOnce ==
  /\ \A t, u \in Idler :
       task[t] = task[u] /\ task[t] # None /\ t # u => {pc[t], pc[u]} \cap {"switch", "back"} # {}
  /\ \A i, j \in 1 .. Len(m_tasks) : m_tasks[i].piber = m_tasks[j].piber => i = j
  /\ \A w \in waits : w \in Queued <=> due[w] = 1

(* When all threads are gone nothing is left: no task, no registered event.   *)
ServedToTheEnd ==
  (\A t \in Idler : pc[t] = "gone") => m_tasks = <<>> /\ events = {}

(* A task that may run on any thread is taken.                               *)
TasksTaken ==
  \A w \in Waiter :
    (\E i \in 1 .. Len(m_tasks) : m_tasks[i] = [piber |-> w, thread |-> None])
      ~> w \notin Queued \/ broken

(* Tasks for a thread that has left.                                         *)
Lost == {i \in 1 .. Len(m_tasks) : m_tasks[i].thread # None /\ pc[m_tasks[i].thread] = "gone"}

(* stop() returns once nothing is registered for good.                       *)
LoopStops ==
  <>[](events = {} /\ Lost = {}) => (main = "join" ~> main = "stopped" \/ broken)
=============================================================================
