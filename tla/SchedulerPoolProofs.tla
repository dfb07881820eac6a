------------------------ MODULE SchedulerPoolProofs ------------------------
(***************************************************************************)
(* As long as a fiber that has run is scheduled for its own thread only    *)
(* (~Migrate), any number of threads share any number of fibers without    *)
(* two of them meeting on one stack, and together they are a TaskPool:     *)
(* nothing that is submitted is lost, run twice, or run after it ended.    *)
(***************************************************************************)
EXTENDS SchedulerProofs

(* The thread that holds a fiber is the one the fiber is tied to; between
   Take and Resume, the one it will be tied to.                              *)
HeldAtHome ==
  \A t \in Runner :
    /\ pc[t] \in OnStack => home[task[t]] = t
    /\ pc[t] = "taken" => home[task[t]] \in {None, t}

(* A fiber that is taken is not waiting as well, nor taken twice.            *)
TakenOnce ==
  \A t \in Runner : pc[t] = "taken" =>
    /\ task[t] \notin Queued
    /\ \A u \in Runner \ {t} : pc[u] = "taken" => task[u] # task[t]

(* A task for a fiber that has run is meant for the fiber's thread.          *)
QueuedForHome ==
  \A i \in 1 .. Len(m_tasks) :
    home[m_tasks[i].piber] # None => m_tasks[i].thread = home[m_tasks[i].piber]

QueuedOnce ==
  \A i, j \in 1 .. Len(m_tasks) : m_tasks[i].piber = m_tasks[j].piber => i = j

(* m_state tells where the fiber is that a thread holds; one that has not
   scheduled itself is not waiting.                                          *)
StateOfHeld ==
  \A t \in Runner :
    /\ pc[t] = "taken" => m_state[task[t]] = "READY"
    /\ pc[t] \in {"exec", "resched"} => m_state[task[t]] = "RUNING"
    /\ pc[t] = "exec" => task[t] \notin Queued

QueuedAlive == \A f \in Queued : m_state[f] # "TERM"

PInv ==
  /\ HeldAtHome
  /\ TakenOnce
  /\ QueuedForHome
  /\ QueuedOnce
  /\ StateOfHeld
  /\ QueuedAlive

-----------------------------------------------------------------------------
LEMMA QueuedPibers ==
  ASSUME TypeOK
  PROVE  \A i \in 1 .. Len(m_tasks) : m_tasks[i].piber \in Piber \cap Queued
<1> SUFFICES ASSUME NEW i \in 1 .. Len(m_tasks) PROVE m_tasks[i].piber \in Piber \cap Queued
  OBVIOUS
<1>1. m_tasks[i] \in Task
  BY ElementOfSeq DEF TypeOK
<1> QED
  BY <1>1 DEF Task, Queued

(* Which elements are left when one is taken out.                            *)
LEMMA RemoveAtElements ==
  ASSUME NEW S, NEW s \in Seq(S), NEW i \in 1 .. Len(s)
  PROVE  /\ Len(RemoveAt(s, i)) = Len(s) - 1
         /\ \A j \in 1 .. Len(s) - 1 : RemoveAt(s, i)[j] = IF j < i THEN s[j] ELSE s[j + 1]
<1> DEFINE left  == SubSeq(s, 1, i - 1)
           right == SubSeq(s, i + 1, Len(s))
<1>1. Len(s) \in Nat /\ \A j \in 1 .. Len(s) : s[j] \in S
  OBVIOUS
<1>2. /\ left \in Seq(S) /\ Len(left) = i - 1
      /\ \A j \in 1 .. i - 1 : left[j] = s[j]
  BY <1>1, SubSeqProperties
<1>3. /\ right \in Seq(S) /\ Len(right) = Len(s) - i
      /\ \A j \in 1 .. Len(s) - i : right[j] = s[i + j]
  BY <1>1, SubSeqProperties
<1> HIDE DEF left, right
<1>4. \A j \in 1 .. Len(s) - 1 : (left \o right)[j] = IF j <= i - 1 THEN left[j] ELSE right[j - (i - 1)]
  BY <1>1, <1>2, <1>3, ConcatProperties
<1>5. RemoveAt(s, i) = left \o right
  BY DEF RemoveAt, left, right
<1>6. \A j \in 1 .. Len(s) - 1 : (left \o right)[j] = IF j < i THEN s[j] ELSE s[j + 1]
  <2> SUFFICES ASSUME NEW j \in 1 .. Len(s) - 1
               PROVE  (left \o right)[j] = IF j < i THEN s[j] ELSE s[j + 1]
    OBVIOUS
  <2>1. CASE j < i
    BY <1>1, <1>2, <1>4, <2>1
  <2>2. CASE ~(j < i)
    <3>1. j - (i - 1) \in 1 .. Len(s) - i /\ i + (j - (i - 1)) = j + 1
      BY <1>1, <2>2
    <3>2. ~(j <= i - 1)
      BY <1>1, <2>2
    <3>3. (left \o right)[j] = right[j - (i - 1)]
      BY <1>4, <3>2
    <3>4. right[j - (i - 1)] = s[j + 1]
      BY <1>3, <3>1
    <3> QED
      BY <2>2, <3>3, <3>4
  <2> QED
    BY <2>1, <2>2
<1> QED
  BY <1>5, <1>6, RemoveAtType

(* The task list after the scan has taken entry i of it.                     *)
LEMMA TakenOut ==
  ASSUME TypeOK, QueuedOnce, QueuedForHome, NEW i \in 1 .. Len(m_tasks),
         m_tasks' = RemoveAt(m_tasks, i), home' = home
  PROVE  /\ Queued' = Queued \ {m_tasks[i].piber}
         /\ m_tasks[i].piber \in Queued
         /\ QueuedOnce' /\ QueuedForHome'
<1>1. m_tasks \in Seq(Task) /\ Len(m_tasks) \in Nat
  BY DEF TypeOK
<1>2. /\ Len(m_tasks') = Len(m_tasks) - 1
      /\ \A j \in 1 .. Len(m_tasks) - 1 : m_tasks'[j] = IF j < i THEN m_tasks[j] ELSE m_tasks[j + 1]
  BY <1>1, RemoveAtElements
<1> DEFINE old(j) == IF j < i THEN j ELSE j + 1
<1>3. \A j \in 1 .. Len(m_tasks') : old(j) \in 1 .. Len(m_tasks) \ {i} /\ m_tasks'[j] = m_tasks[old(j)]
  BY <1>1, <1>2
<1>4. \A k \in 1 .. Len(m_tasks) \ {i} : \E j \in 1 .. Len(m_tasks') : k = old(j)
  <2> SUFFICES ASSUME NEW k \in 1 .. Len(m_tasks) \ {i}
               PROVE  \E j \in 1 .. Len(m_tasks') : k = old(j)
    OBVIOUS
  <2>1. CASE k < i
    BY <1>1, <1>2, <2>1
  <2>2. CASE k > i
    <3>1. k - 1 \in 1 .. Len(m_tasks') /\ k = old(k - 1)
      BY <1>1, <1>2, <2>2
    <3> QED
      BY <3>1
  <2> QED
    BY <1>1, <2>1, <2>2
<1>5. \A j, k \in 1 .. Len(m_tasks') : old(j) = old(k) => j = k
  BY <1>1, <1>2
<1> HIDE DEF old
<1>6. Queued' = Queued \ {m_tasks[i].piber}
  <2>1. ASSUME NEW f \in Queued' PROVE f \in Queued \ {m_tasks[i].piber}
    BY <1>3, <2>1 DEF Queued, QueuedOnce
  <2>2. ASSUME NEW f \in Queued \ {m_tasks[i].piber} PROVE f \in Queued'
    <3>1. PICK k \in 1 .. Len(m_tasks) : f = m_tasks[k].piber
      BY <2>2 DEF Queued
    <3>2. k # i
      BY <2>2, <3>1
    <3> QED
      BY <1>3, <1>4, <3>1, <3>2 DEF Queued
  <2> QED
    BY <2>1, <2>2
<1>7. QueuedOnce'
  BY <1>3, <1>5 DEF QueuedOnce
<1>8. QueuedForHome'
  BY <1>3 DEF QueuedForHome
<1> QED
  BY <1>6, <1>7, <1>8 DEF Queued

(* The task list after a call of schedule().                                 *)
LEMMA PutIn ==
  ASSUME TypeOK, NEW f \in Piber, NEW thread \in Pin(f), schedule(f, thread)
  PROVE  /\ Queued' = Queued \cup {f}
         /\ Len(m_tasks') = Len(m_tasks) + 1
         /\ m_tasks'[Len(m_tasks) + 1] = [piber |-> f, thread |-> thread]
         /\ \A i \in 1 .. Len(m_tasks) : m_tasks'[i] = m_tasks[i]
<1>1. thread \in Runner \cup {AnyThread}
  BY DEF Pin, TypeOK
<1>2. [piber |-> f, thread |-> thread] \in Task /\ m_tasks \in Seq(Task) /\ Len(m_tasks) \in Nat
  BY <1>1 DEF Task, TypeOK
<1>3. /\ Len(m_tasks') = Len(m_tasks) + 1
      /\ m_tasks'[Len(m_tasks) + 1] = [piber |-> f, thread |-> thread]
      /\ \A i \in 1 .. Len(m_tasks) : m_tasks'[i] = m_tasks[i]
  BY <1>2, AppendProperties DEF schedule
<1>4. Queued' = Queued \cup {f}
  <2>1. ASSUME NEW g \in Queued' PROVE g \in Queued \cup {f}
    BY <1>2, <1>3, <2>1 DEF Queued
  <2>2. ASSUME NEW g \in Queued PROVE g \in Queued'
    BY <1>2, <1>3, <2>2 DEF Queued
  <2>3. f \in Queued'
    BY <1>2, <1>3 DEF Queued
  <2> QED
    BY <2>1, <2>2, <2>3
<1> QED
  BY <1>3, <1>4

-----------------------------------------------------------------------------
(* The invariant, group by group of steps *)

LEMMA InitPInv == Init => PInv
BY DEF Init, PInv, HeldAtHome, TakenOnce, QueuedForHome, QueuedOnce, StateOfHeld, QueuedAlive,
       OnStack, Queued

(* Steps that touch neither fibers nor the list, and in which a thread lets go
   of a fiber or has none.                                                   *)
LEMMA OtherStepsPInv ==
  ASSUME PInv, UNCHANGED <<m_tasks, m_state, home>>,
         \A u \in Runner : pc'[u] \in OnStack \cup {"taken"} => pc'[u] = pc[u] /\ task'[u] = task[u]
  PROVE  PInv'
<1>1. Queued' = Queued
  BY DEF Queued
<1>2. HeldAtHome'
  BY DEF PInv, HeldAtHome
<1>3. TakenOnce'
  BY <1>1 DEF PInv, TakenOnce
<1>4. StateOfHeld'
  BY <1>1 DEF PInv, StateOfHeld, OnStack
<1>5. QueuedForHome' /\ QueuedOnce' /\ QueuedAlive'
  BY <1>1 DEF PInv, QueuedForHome, QueuedOnce, QueuedAlive
<1> QED
  BY <1>2, <1>3, <1>4, <1>5 DEF PInv

(* A call of schedule() for a fiber that neither waits nor is taken, by
   whichever thread.                                                         *)
LEMMA SchedulePInv ==
  ASSUME ~Migrate, TypeOK, PInv, NEW f \in Piber, NEW thread \in Pin(f), schedule(f, thread),
         f \notin Queued \cup Taken, m_state[f] # "TERM",
         UNCHANGED <<task, m_state, home>>,
         \A u \in Runner : pc'[u] = pc[u] \/ (pc[u] = "exec" /\ pc'[u] = "resched"),
         \A u \in Runner : pc'[u] = "exec" => task[u] # f
  PROVE  PInv'
<1>1. /\ Queued' = Queued \cup {f}
      /\ Len(m_tasks') = Len(m_tasks) + 1
      /\ m_tasks'[Len(m_tasks) + 1] = [piber |-> f, thread |-> thread]
      /\ \A i \in 1 .. Len(m_tasks) : m_tasks'[i] = m_tasks[i]
  BY PutIn
<1>2. Len(m_tasks) \in Nat
  BY DEF TypeOK
<1>3. \A i \in 1 .. Len(m_tasks') : i \in 1 .. Len(m_tasks) \/ i = Len(m_tasks) + 1
  BY <1>1, <1>2
<1>4. HeldAtHome'
  BY DEF PInv, HeldAtHome, OnStack
<1>5. TakenOnce'
  <2>1. \A u \in Runner : pc'[u] = "taken" => pc[u] = "taken" /\ task[u] # f
    BY DEF Taken
  <2> QED
    BY <1>1, <2>1 DEF PInv, TakenOnce
<1>6. QueuedForHome'
  <2>1. home[f] # None => thread = home[f]
    BY DEF Pin
  <2> QED
    BY <1>1, <1>3, <2>1 DEF PInv, QueuedForHome
<1>7. QueuedOnce'
  <2>1. \A i \in 1 .. Len(m_tasks) : m_tasks[i].piber # f
    BY DEF Queued
  <2> QED
    BY <1>1, <1>3, <2>1 DEF PInv, QueuedOnce
<1>8. StateOfHeld'
  BY <1>1 DEF PInv, StateOfHeld
<1>9. QueuedAlive'
  BY <1>1 DEF PInv, QueuedAlive
<1> QED
  BY <1>4, <1>5, <1>6, <1>7, <1>8, <1>9 DEF PInv

LEMMA OwnerSchedulesPInv == ~Migrate /\ TypeOK /\ PInv /\ OwnerSchedules => PInv'
<1> SUFFICES ASSUME ~Migrate, TypeOK, PInv, OwnerSchedules PROVE PInv'
  OBVIOUS
<1>1. PICK f \in {g \in Piber : Schedulable(g)} : \E thread \in Pin(f) : schedule(f, thread)
  BY DEF OwnerSchedules
<1>2. UNCHANGED <<pc, task, m_state, home>>
  BY DEF OwnerSchedules, threadVars, fiberVars
<1>3. \A u \in Runner : pc'[u] = "exec" => task[u] # f
  BY <1>1, <1>2 DEF Schedulable, PInv, StateOfHeld
<1> QED
  BY <1>1, <1>2, <1>3, SchedulePInv DEF Schedulable

LEMMA FiberSchedulesPInv ==
  ASSUME ~Migrate, TypeOK, PInv, NEW t \in Runner, FiberSchedules(t)
  PROVE  PInv'
<1>1. PICK f \in {g \in Piber : Schedulable(g)} : \E thread \in Pin(f) : schedule(f, thread)
  BY DEF FiberSchedules
<1>2. UNCHANGED <<pc, task, m_state, home>>
  BY DEF FiberSchedules, threadVars, fiberVars
<1>3. \A u \in Runner : pc'[u] = "exec" => task[u] # f
  BY <1>1, <1>2 DEF Schedulable, PInv, StateOfHeld
<1> QED
  BY <1>1, <1>2, <1>3, SchedulePInv DEF Schedulable

LEMMA FiberSchedulesItselfPInv ==
  ASSUME ~Migrate, TypeOK, TaskHeld, PInv, NEW t \in Runner, FiberSchedulesItself(t)
  PROVE  PInv'
<1>1. PICK thread \in Pin(task[t]) : schedule(task[t], thread)
  BY DEF FiberSchedulesItself
<1>2. /\ pc[t] = "exec" /\ task[t] \notin Queued
      /\ pc' = [pc EXCEPT ![t] = "resched"]
      /\ UNCHANGED <<task, m_state, home>>
  BY DEF FiberSchedulesItself, Goto, fiberVars
<1>3. task[t] \in Piber /\ home[task[t]] = t /\ m_state[task[t]] = "RUNING"
  BY <1>2 DEF TaskHeld, ActivePc, OnStack, PInv, HeldAtHome, StateOfHeld
<1>4. task[t] \notin Taken
  BY <1>2, <1>3, SchedulerAssumption DEF Taken, PInv, StateOfHeld
<1>5. \A u \in Runner : pc'[u] = pc[u] \/ (pc[u] = "exec" /\ pc'[u] = "resched")
  BY <1>2 DEF TypeOK
<1>6. \A u \in Runner : pc'[u] = "exec" => task[u] # task[t]
  BY <1>2, <1>3 DEF TypeOK, PInv, HeldAtHome, OnStack
<1> QED
  BY <1>1, <1>2, <1>3, <1>4, <1>5, <1>6, SchedulePInv

(* What thread t finds when it takes a task: a fiber that nobody holds and
   that is tied to nobody else.                                              *)
LEMMA TakeFinds ==
  ASSUME TypeOK, ScanStarted, PInv, NEW t \in Runner, Take(t)
  PROVE  LET f == m_tasks[it].piber IN
           /\ it \in 1 .. Len(m_tasks)
           /\ f \in Piber /\ task' = [task EXCEPT ![t] = f]
           /\ f \in Queued /\ Queued' = Queued \ {f}
           /\ home[f] \in {None, t} /\ m_state[f] = "READY"
           /\ \A u \in Runner : pc[u] \in OnStack \cup {"taken"} => u # t /\ task[u] # f
           /\ QueuedOnce' /\ QueuedForHome'
<1> DEFINE f == m_tasks[it].piber
<1>1. /\ pc[t] = "locked" /\ Eligible(t, m_tasks[it])
      /\ task' = [task EXCEPT ![t] = f] /\ m_tasks' = RemoveAt(m_tasks, it) /\ home' = home
  BY DEF Take, Scanning, fiberVars
<1>2. it \in 1 .. Len(m_tasks)
  BY <1>1 DEF Take, Scanning, ScanStarted, TypeOK
<1>3. m_tasks[it] \in Task
  BY <1>2, ElementOfSeq DEF TypeOK
<1>4. f \in Piber /\ m_tasks[it].thread \in {AnyThread, t}
  BY <1>1, <1>3 DEF Task, Eligible
<1>5. f \in Queued /\ Queued' = Queued \ {f} /\ QueuedOnce' /\ QueuedForHome'
  BY <1>1, <1>2, TakenOut DEF PInv
<1>6. home[f] \in {None, t}
  <2>1. home[f] \in Runner \cup {None}
    BY <1>4 DEF TypeOK
  <2>2. home[f] # None => m_tasks[it].thread = home[f]
    BY <1>2 DEF PInv, QueuedForHome
  <2> QED
    BY <1>4, <2>1, <2>2, SchedulerAssumption
<1>7. m_state[f] = "READY"
  <2>1. m_state[f] \in {"READY", "RUNING", "TERM"} /\ m_state[f] # "TERM"
    BY <1>4, <1>5 DEF TypeOK, PInv, QueuedAlive
  <2> QED
    BY <1>1, <2>1 DEF Eligible
<1>8. ASSUME NEW u \in Runner, pc[u] \in OnStack \cup {"taken"}
      PROVE  u # t /\ task[u] # f
  <2>1. u # t
    BY <1>1, <1>8 DEF OnStack
  <2>2. CASE pc[u] \in OnStack
    BY <1>6, <2>1, <2>2, SchedulerAssumption DEF PInv, HeldAtHome
  <2>3. CASE pc[u] = "taken"
    BY <1>5, <2>1, <2>3 DEF PInv, TakenOnce
  <2> QED
    BY <1>8, <2>1, <2>2, <2>3
<1> QED
  BY <1>1, <1>2, <1>4, <1>5, <1>6, <1>7, <1>8

LEMMA TakePInv ==
  ASSUME TypeOK, ScanStarted, PInv, NEW t \in Runner, Take(t)
  PROVE  PInv'
<1> DEFINE f == m_tasks[it].piber
<1>1. /\ f \in Piber /\ task' = [task EXCEPT ![t] = f]
      /\ Queued' = Queued \ {f}
      /\ home[f] \in {None, t} /\ m_state[f] = "READY"
      /\ \A u \in Runner : pc[u] \in OnStack \cup {"taken"} => u # t /\ task[u] # f
      /\ QueuedOnce' /\ QueuedForHome'
  BY TakeFinds
<1>2. pc' = [pc EXCEPT ![t] = "taken"] /\ UNCHANGED <<m_state, home>>
  BY DEF Take, Goto, fiberVars
<1> HIDE DEF f
<1>3. /\ pc'[t] = "taken" /\ task'[t] = f
      /\ \A u \in Runner \ {t} : pc'[u] = pc[u] /\ task'[u] = task[u]
  BY <1>1, <1>2 DEF TypeOK
<1>4. HeldAtHome'
  BY <1>1, <1>2, <1>3 DEF PInv, HeldAtHome, OnStack
<1>5. TakenOnce'
  BY <1>1, <1>2, <1>3 DEF PInv, TakenOnce
<1>6. StateOfHeld'
  BY <1>1, <1>2, <1>3 DEF PInv, StateOfHeld
<1>7. QueuedAlive'
  BY <1>1, <1>2 DEF PInv, QueuedAlive
<1> QED
  BY <1>1, <1>4, <1>5, <1>6, <1>7 DEF PInv

(* Nobody else holds the fiber that a thread holds.                          *)
LEMMA HeldOnce ==
  ASSUME PInv, NEW t \in Runner, NEW u \in Runner \ {t},
         pc[t] \in OnStack \cup {"taken"}, pc[u] \in OnStack \cup {"taken"}
  PROVE  task[u] # task[t]
<1> USE SchedulerAssumption DEF PInv, HeldAtHome, TakenOnce
<1>1. CASE pc[t] = "taken" /\ pc[u] = "taken"
  BY <1>1
<1>2. CASE pc[t] \in OnStack \/ pc[u] \in OnStack
  BY <1>2
<1> QED
  BY <1>1, <1>2

LEMMA ResumePInv ==
  ASSUME TypeOK, TaskHeld, PInv, NEW t \in Runner, Resume(t)
  PROVE  PInv'
<1>1. /\ pc[t] = "taken" /\ task[t] \in Piber /\ task[t] \notin Queued
      /\ home[task[t]] \in {None, t} /\ home'[task[t]] = t
      /\ m_state'[task[t]] = "RUNING"
      /\ \A f \in Piber \ {task[t]} : home'[f] = home[f] /\ m_state'[f] = m_state[f]
      /\ pc'[t] = "exec" /\ task' = task /\ m_tasks' = m_tasks /\ Queued' = Queued
      /\ \A u \in Runner \ {t} : pc'[u] = pc[u]
  BY DEF Resume, Goto, TypeOK, TaskHeld, ActivePc, PInv, HeldAtHome, TakenOnce, Queued, queueVars
<1>2. ASSUME NEW u \in Runner \ {t}, pc[u] \in OnStack \cup {"taken"}
      PROVE  /\ task[u] \in Piber
             /\ task[u] # task[t] /\ home'[task[u]] = home[task[u]]
             /\ m_state'[task[u]] = m_state[task[u]]
  BY <1>1, <1>2, HeldOnce DEF TaskHeld, ActivePc
<1>3. HeldAtHome'
  BY <1>1, <1>2 DEF PInv, HeldAtHome
<1>4. TakenOnce'
  BY <1>1 DEF PInv, TakenOnce
<1>5. \A i \in 1 .. Len(m_tasks) : m_tasks[i].piber \in Piber \ {task[t]}
  BY <1>1, QueuedPibers
<1>6. QueuedForHome' /\ QueuedOnce'
  BY <1>1, <1>5 DEF PInv, QueuedForHome, QueuedOnce
<1>7. StateOfHeld'
  BY <1>1, <1>2 DEF PInv, StateOfHeld, OnStack
<1>8. QueuedAlive'
  BY <1>1, <1>5 DEF PInv, QueuedAlive, Queued
<1> QED
  BY <1>3, <1>4, <1>6, <1>7, <1>8 DEF PInv

(* yield() and the end of MainFunc, up to the write of m_state.              *)
LEMMA LeavesPInv ==
  ASSUME TypeOK, TaskHeld, PInv, NEW t \in Runner, Yield(t) \/ Finish(t)
  PROVE  PInv'
<1>1. /\ pc[t] \in {"exec", "resched"} /\ pc'[t] \in {"yield", "end"}
      /\ task[t] \in Piber
      /\ m_state'[task[t]] # "TERM" \/ (m_state'[task[t]] = "TERM" /\ pc[t] = "exec")
      /\ \A f \in Piber \ {task[t]} : m_state'[f] = m_state[f]
      /\ UNCHANGED <<task, m_tasks, home, Queued>>
      /\ \A u \in Runner \ {t} : pc'[u] = pc[u]
  BY DEF Yield, Finish, Goto, TypeOK, TaskHeld, ActivePc, OnStack, Queued, queueVars
<1>2. ASSUME NEW u \in Runner \ {t}, pc[u] \in OnStack \cup {"taken"}
      PROVE  task[u] \in Piber /\ m_state'[task[u]] = m_state[task[u]]
  BY <1>1, <1>2, HeldOnce DEF TaskHeld, ActivePc, OnStack
<1>3. HeldAtHome'
  BY <1>1 DEF PInv, HeldAtHome, OnStack
<1>4. TakenOnce'
  BY <1>1 DEF PInv, TakenOnce
<1>5. QueuedForHome' /\ QueuedOnce'
  BY <1>1 DEF PInv, QueuedForHome, QueuedOnce
<1>6. StateOfHeld'
  BY <1>1, <1>2 DEF PInv, StateOfHeld, OnStack
<1>7. QueuedAlive'
  <2>1. Queued \subseteq Piber
    BY QueuedPibers DEF Queued
  <2>2. pc[t] = "exec" => task[t] \notin Queued
    BY DEF PInv, StateOfHeld
  <2> QED
    BY <1>1, <2>1, <2>2 DEF PInv, QueuedAlive
<1> QED
  BY <1>3, <1>4, <1>5, <1>6, <1>7 DEF PInv

LEMMA NextPInv ==
  ASSUME ~Migrate, SInv, PInv, [Next]_vars
  PROVE  PInv'
<1>0. TypeOK /\ TaskHeld /\ ScanStarted /\ CallerInStop
  BY DEF SInv, CountInv, DrainInv
<1>1. ASSUME NEW t \in Runner, ThreadStep(t) PROVE PInv'
  <2>1. CASE Lock(t) \/ Skip(t) \/ EndScan(t) \/ SwapOut(t) \/ Back(t) \/ GoIdle(t)
             \/ IdlePoll(t) \/ LeaveIdle(t)
    <3>1. UNCHANGED <<m_tasks, m_state, home>>
      BY <2>1 DEF Lock, Skip, EndScan, SwapOut, Back, GoIdle, IdlePoll, LeaveIdle,
                  queueVars, fiberVars
    <3>2. \A u \in Runner : pc'[u] \in OnStack \cup {"taken"} => pc'[u] = pc[u] /\ task'[u] = task[u]
      BY <1>0, <2>1 DEF Lock, Skip, Scanning, EndScan, SwapOut, Back, GoIdle, IdlePoll, LeaveIdle,
                        Goto, OnStack, TypeOK, threadVars
    <3> QED
      BY <3>1, <3>2, OtherStepsPInv
  <2> QED
    BY <1>0, <1>1, <2>1, TakePInv, ResumePInv, LeavesPInv, FiberSchedulesPInv,
       FiberSchedulesItselfPInv
    DEF ThreadStep
<1>2. CASE start \/ StopAsks \/ StopStep \/ Ended \/ UNCHANGED vars
  <2>1. UNCHANGED <<m_tasks, m_state, home, task>>
    BY <1>2 DEF start, StopAsks, StopStep, StopSets, RootEnds, Collect, Join, Ended, vars,
                queueVars, threadVars, fiberVars
  <2>2. \A u \in Runner : pc'[u] \in OnStack \cup {"taken"} => pc'[u] = pc[u]
    BY <1>2 DEF start, StopAsks, StopStep, StopSets, RootEnds, Collect, Join, Ended, vars,
                threadVars, OnStack
  <2> QED
    BY <2>1, <2>2, OtherStepsPInv
<1> QED
  BY <1>0, <1>1, <1>2, OwnerSchedulesPInv DEF Next

(* Under ~Migrate, the invariant of fibers and the list.                     *)
THEOREM SchedulerHeldInvariant ==
  ASSUME ~Migrate PROVE Spec => [](SInv /\ PInv)
<1>1. Init => PInv
  BY InitPInv
<1>2. SInv /\ PInv /\ [Next]_vars => PInv'
  BY NextPInv
<1> QED
  BY <1>1, <1>2, SchedulerInvariant, PTL DEF Spec

(* No two threads ever execute on one fiber's stack, whoever schedules whom,
   as long as a fiber that has run is scheduled for its own thread.          *)
THEOREM SchedulerExclusiveStack ==
  ASSUME ~Migrate PROVE Spec => []ExclusiveStack
<1>1. PInv => ExclusiveStack
  BY DEF PInv, HeldAtHome, ExclusiveStack
<1> QED
  BY <1>1, SchedulerHeldInvariant, PTL

-----------------------------------------------------------------------------
(* The refinement: which step of TaskPool a step is *)

Running == {task[t] : t \in {u \in Runner : pc[u] \in OnStack \cup {"taken"}}}
Finished == {f \in Piber : m_state[f] = "TERM"}
Closed == main = "stopped"

LEMMA InitPool == Init => Pool!Init
BY DEF Init, Pool!Init, Queued, OnStack

(* A step that none of the four can tell.                                    *)
LEMMA PoolStutters ==
  ASSUME UNCHANGED <<Queued, Running, Finished, Closed>>
  PROVE  UNCHANGED Pool!vars
BY DEF Pool!vars, Running, Finished, Closed

(* Threads that hold nothing come and go.                                    *)
LEMMA RunningKept ==
  ASSUME \A u \in Runner :
           /\ pc'[u] \in OnStack \cup {"taken"} <=> pc[u] \in OnStack \cup {"taken"}
           /\ pc[u] \in OnStack \cup {"taken"} => task'[u] = task[u]
  PROVE  Running' = Running
BY DEF Running

LEMMA SubmitStep ==
  ASSUME TypeOK, NEW f \in Piber, NEW thread \in Pin(f), schedule(f, thread),
         f \notin Queued, m_state[f] # "TERM", main # "stopped",
         UNCHANGED <<Running, m_state, main>>
  PROVE  Pool!Next
<1>1. Queued' = Queued \cup {f}
  BY PutIn
<1>2. Pool!Submit(f)
  BY <1>1 DEF Pool!Submit, Running
<1> QED
  BY <1>2 DEF Pool!Next

LEMMA OwnerSchedulesPool ==
  ASSUME TypeOK, OwnerSchedules
  PROVE  Pool!Next
<1>1. PICK f \in {g \in Piber : Schedulable(g)} : \E thread \in Pin(f) : schedule(f, thread)
  BY DEF OwnerSchedules
<1>2. UNCHANGED <<Running, m_state, main>> /\ main # "stopped"
  BY DEF OwnerSchedules, threadVars, fiberVars, ownerVars, Running
<1> QED
  BY <1>1, <1>2, SubmitStep DEF Schedulable

(* Nobody schedules from a fiber once stop() has returned.                   *)
LEMMA NobodyRunsWhenStopped ==
  ASSUME SInv, NEW t \in Runner, pc[t] \in ActivePc
  PROVE  main # "stopped"
BY DEF SInv, DrainInv, CallerInStop, ActivePc, OnStack

LEMMA FiberSchedulesPool ==
  ASSUME SInv, NEW t \in Runner, FiberSchedules(t)
  PROVE  Pool!Next
<1>1. PICK f \in {g \in Piber : Schedulable(g)} : \E thread \in Pin(f) : schedule(f, thread)
  BY DEF FiberSchedules
<1>2. UNCHANGED <<Running, m_state, main>> /\ pc[t] \in ActivePc
  BY DEF FiberSchedules, threadVars, fiberVars, ownerVars, Running, ActivePc, OnStack
<1> QED
  BY <1>1, <1>2, SubmitStep, NobodyRunsWhenStopped DEF Schedulable, SInv, CountInv

LEMMA FiberSchedulesItselfPool ==
  ASSUME SInv, PInv, NEW t \in Runner, FiberSchedulesItself(t)
  PROVE  Pool!Next
<1>1. PICK thread \in Pin(task[t]) : schedule(task[t], thread)
  BY DEF FiberSchedulesItself
<1>2. /\ pc[t] = "exec" /\ task[t] \notin Queued
      /\ pc' = [pc EXCEPT ![t] = "resched"]
      /\ UNCHANGED <<task, m_state, main>>
  BY DEF FiberSchedulesItself, Goto, fiberVars, ownerVars
<1>3. /\ TypeOK /\ task[t] \in Piber /\ m_state[task[t]] # "TERM"
      /\ main # "stopped"
  BY <1>2, NobodyRunsWhenStopped
  DEF SInv, CountInv, TaskHeld, ActivePc, OnStack, PInv, StateOfHeld
<1>4. Running' = Running
  BY <1>2, <1>3, RunningKept DEF TypeOK, OnStack
<1> QED
  BY <1>1, <1>2, <1>3, <1>4, SubmitStep

LEMMA TakePool ==
  ASSUME SInv, PInv, NEW t \in Runner, Take(t)
  PROVE  Pool!Next
<1>1. PICK f \in Piber :
        /\ task' = [task EXCEPT ![t] = f]
        /\ f \in Queued /\ Queued' = Queued \ {f}
        /\ m_state[f] = "READY"
        /\ \A u \in Runner : pc[u] \in OnStack \cup {"taken"} => u # t /\ task[u] # f
  BY TakeFinds DEF SInv, CountInv, DrainInv
<1>2. pc' = [pc EXCEPT ![t] = "taken"] /\ UNCHANGED <<m_state, main>>
  BY DEF Take, Goto, fiberVars, ownerVars
<1>3. /\ pc'[t] = "taken" /\ task'[t] = f
      /\ \A u \in Runner \ {t} : pc'[u] = pc[u] /\ task'[u] = task[u]
  BY <1>1, <1>2 DEF SInv, CountInv, TypeOK
<1>4. Running' = Running \cup {f} /\ f \notin Running
  BY <1>1, <1>3 DEF Running
<1>5. Pool!Dispatch(f)
  BY <1>1, <1>2, <1>4 DEF Pool!Dispatch, Running
<1> QED
  BY <1>1, <1>5 DEF Pool!Next

LEMMA ResumePool ==
  ASSUME SInv, PInv, NEW t \in Runner, Resume(t)
  PROVE  UNCHANGED Pool!vars
<1>1. /\ pc[t] = "taken" /\ pc' = [pc EXCEPT ![t] = "exec"] /\ pc \in [Runner -> Label]
      /\ task' = task /\ Queued' = Queued /\ main' = main
      /\ m_state' = [m_state EXCEPT ![task[t]] = "RUNING"]
      /\ m_state \in [Piber -> {"READY", "RUNING", "TERM"}]
      /\ m_state[task[t]] = "READY"
  BY DEF Resume, Goto, SInv, CountInv, TypeOK, PInv, StateOfHeld, Queued, queueVars, ownerVars
<1>2. Running' = Running
  BY <1>1, RunningKept DEF OnStack
<1>3. Finished' = Finished
  BY <1>1 DEF Finished
<1> QED
  BY <1>1, <1>2, <1>3, PoolStutters DEF Closed

LEMMA YieldPool ==
  ASSUME SInv, PInv, NEW t \in Runner, Yield(t)
  PROVE  UNCHANGED Pool!vars
<1>1. /\ pc[t] \in {"exec", "resched"} /\ pc' = [pc EXCEPT ![t] = "yield"]
      /\ pc \in [Runner -> Label]
      /\ task' = task /\ Queued' = Queued /\ main' = main
      /\ m_state' = [m_state EXCEPT ![task[t]] = "READY"]
      /\ m_state \in [Piber -> {"READY", "RUNING", "TERM"}]
      /\ m_state[task[t]] = "RUNING"
  BY DEF Yield, Goto, SInv, CountInv, TypeOK, PInv, StateOfHeld, Queued, queueVars, ownerVars
<1>2. Running' = Running
  BY <1>1, RunningKept DEF OnStack
<1>3. Finished' = Finished
  BY <1>1 DEF Finished
<1> QED
  BY <1>1, <1>2, <1>3, PoolStutters DEF Closed

LEMMA FinishPool ==
  ASSUME SInv, PInv, NEW t \in Runner, Finish(t)
  PROVE  Pool!Next
<1>1. /\ pc[t] = "exec" /\ pc' = [pc EXCEPT ![t] = "end"] /\ pc \in [Runner -> Label]
      /\ task' = task /\ Queued' = Queued /\ main' = main
      /\ task[t] \in Piber /\ task[t] \notin Queued
      /\ m_state' = [m_state EXCEPT ![task[t]] = "TERM"]
      /\ m_state \in [Piber -> {"READY", "RUNING", "TERM"}]
      /\ m_state[task[t]] = "RUNING"
  BY DEF Finish, Goto, SInv, CountInv, TypeOK, TaskHeld, ActivePc, OnStack, PInv, StateOfHeld,
         Queued, queueVars, ownerVars
<1>2. Running' = Running /\ task[t] \in Running
  BY <1>1, RunningKept DEF Running, OnStack
<1>3. Finished' = Finished \cup {task[t]} /\ task[t] \notin Finished
  BY <1>1 DEF Finished
<1>4. PICK f \in Piber : f = task[t]
  BY <1>1
<1>5. Pool!Finish(f)
  BY <1>1, <1>2, <1>3, <1>4 DEF Pool!Finish, Running, Finished
<1> QED
  BY <1>5 DEF Pool!Next

LEMMA SwapOutPool ==
  ASSUME SInv, PInv, NEW t \in Runner, SwapOut(t)
  PROVE  Pool!Next
<1>1. /\ pc[t] \in {"yield", "end"} /\ pc' = [pc EXCEPT ![t] = "back"] /\ pc \in [Runner -> Label]
      /\ UNCHANGED <<task, Queued, main, m_state>>
      /\ task[t] \in Piber
  BY DEF SwapOut, Goto, SInv, CountInv, TypeOK, TaskHeld, ActivePc, OnStack, Queued, queueVars,
         ownerVars, fiberVars
<1>2. \A u \in Runner \ {t} : pc[u] \in OnStack \cup {"taken"} => task[u] # task[t]
  BY <1>1, HeldOnce DEF OnStack
<1>3. Running' = Running \ {task[t]} /\ task[t] \in Running
  BY <1>1, <1>2 DEF Running, OnStack
<1>4. PICK f \in Piber : f = task[t]
  BY <1>1
<1>5. Pool!Release(f)
  BY <1>1, <1>3, <1>4 DEF Pool!Release, Running
<1> QED
  BY <1>5 DEF Pool!Next

LEMMA StoppedDrainedNext == SInv' => StopDrains'
BY StoppedDrained, PTL

LEMMA JoinPool ==
  ASSUME SInv', Join
  PROVE  Pool!Next
<1>1. main' = "stopped" /\ main # "stopped" /\ UNCHANGED <<m_tasks, m_state, Queued, Running>>
  BY DEF Join, queueVars, threadVars, fiberVars, Queued, Running
<1>2. Drained'
  BY <1>1, StoppedDrainedNext DEF StopDrains
<1>3. Queued' = {}
  BY <1>2 DEF Drained, Queued
<1>4. Running' = {}
  BY <1>2 DEF Drained, Running, ActiveThreads, ActivePc
<1>5. Pool!Close
  BY <1>1, <1>3, <1>4 DEF Pool!Close, Running
<1> QED
  BY <1>5 DEF Pool!Next

(* The steps of threads without a fiber, and of start() and stop().          *)
LEMMA OtherStepsPool ==
  ASSUME SInv,
         \/ \E t \in Runner : \/ Lock(t) \/ Skip(t) \/ EndScan(t) \/ Back(t)
                            \/ GoIdle(t) \/ IdlePoll(t) \/ LeaveIdle(t)
         \/ start \/ StopAsks \/ StopSets \/ RootEnds \/ Collect \/ Ended \/ UNCHANGED vars
  PROVE  UNCHANGED Pool!vars
<1>1. UNCHANGED <<m_tasks, m_state>>
  BY DEF Lock, Skip, EndScan, Back, GoIdle, IdlePoll, LeaveIdle, start, StopAsks, StopSets,
         RootEnds, Collect, Ended, vars, queueVars, fiberVars
<1>2. Running' = Running
  <2>1. ASSUME NEW t \in Runner,
               \/ Lock(t) \/ Skip(t) \/ EndScan(t) \/ Back(t)
               \/ GoIdle(t) \/ IdlePoll(t) \/ LeaveIdle(t)
        PROVE  Running' = Running
    <3>1. \A u \in Runner :
            /\ pc'[u] \in OnStack \cup {"taken"} <=> pc[u] \in OnStack \cup {"taken"}
            /\ pc[u] \in OnStack \cup {"taken"} => task'[u] = task[u]
      BY <2>1 DEF Lock, Skip, Scanning, EndScan, Back, GoIdle, IdlePoll, LeaveIdle, Goto, OnStack,
                  threadVars, SInv, CountInv, TypeOK
    <3> QED
      BY <3>1, RunningKept
  <2>2. CASE start \/ StopSets
    <3>1. \A u \in Runner :
            /\ pc'[u] \in OnStack \cup {"taken"} <=> pc[u] \in OnStack \cup {"taken"}
            /\ task' = task
      BY <2>2 DEF start, Started, StopSets, SInv, DrainInv, CallerInStop, OnStack
    <3> QED
      BY <3>1, RunningKept
  <2>3. CASE StopAsks \/ RootEnds \/ Collect \/ Ended \/ UNCHANGED vars
    BY <2>3 DEF StopAsks, RootEnds, Collect, Ended, vars, threadVars, Running
  <2> QED
    BY <2>1, <2>2, <2>3
<1>3. Closed' = Closed
  <2>1. StopAsks => main = "open" /\ main' = "stopping"
    BY DEF StopAsks, stopping, SInv, DrainInv, FlagByStop
  <2> QED
    BY <2>1 DEF Lock, Skip, EndScan, Back, GoIdle, IdlePoll, LeaveIdle, start, StopSets,
                RootEnds, Collect, Ended, vars, ownerVars, Closed
<1> QED
  BY <1>1, <1>2, <1>3, PoolStutters DEF Queued, Finished

LEMMA NextPool ==
  ASSUME SInv, PInv, SInv', [Next]_vars
  PROVE  [Pool!Next]_(Pool!vars)
<1>0. TypeOK
  BY DEF SInv, CountInv
<1>1. ASSUME NEW t \in Runner, ThreadStep(t) PROVE Pool!Next \/ UNCHANGED Pool!vars
  BY <1>1, TakePool, ResumePool, FiberSchedulesPool, FiberSchedulesItselfPool, YieldPool,
     FinishPool, SwapOutPool, OtherStepsPool
  DEF ThreadStep
<1>2. CASE OwnerSchedules \/ Join
  BY <1>0, <1>2, OwnerSchedulesPool, JoinPool
<1>3. CASE start \/ StopAsks \/ StopSets \/ RootEnds \/ Collect \/ Ended \/ UNCHANGED vars
  BY <1>3, OtherStepsPool
<1> QED
  BY <1>1, <1>2, <1>3 DEF Next, StopStep

(* Under ~Migrate the threads, the list and stop() implement TaskPool: every
   submission is dispatched once, to one thread at a time, and stop() returns
   when none is left.                                                        *)
THEOREM SchedulerImplementsPool ==
  ASSUME ~Migrate PROVE Spec => ImplementsPool
<1>1. Init => Pool!Init
  BY InitPool
<1>2. SInv /\ PInv /\ (SInv /\ PInv)' /\ [Next]_vars => [Pool!Next]_(Pool!vars)
  BY NextPool
<1>3. Spec => Pool!Spec
  BY <1>1, <1>2, SchedulerHeldInvariant, PTL DEF Spec, Pool!Spec
<1> QED
  BY <1>3 DEF ImplementsPool
=============================================================================
