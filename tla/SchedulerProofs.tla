-------------------------- MODULE SchedulerProofs --------------------------
(***************************************************************************)
(* What the scheduler promises for any number of threads, fibers and calls *)
(* of schedule(), whether or not the caller is a scheduling thread: the    *)
(* counters are exact, and stop() returns with nothing left to do.         *)
(***************************************************************************)
EXTENDS Scheduler, FiniteSetTheorems, SequenceTheorems, TLAPS

(* Threads of run() end through their idle fiber only.                       *)
GoneThroughIdle == \A t \in Runner : pc[t] = "gone" => idle_piber[t] = "TERM"

(* A scan is inside the list or behind its end.                              *)
ScanStarted == \A t \in Runner : pc[t] = "locked" => it >= 1

(* The flag follows stop().                                                  *)
FlagByStop == m_stopping <=> main \notin {"open", "stopping"}

(* The caller scans between the start of stop() and its wait for the threads,
   and without it there are threads to wait for.                             *)
CallerInStop ==
  /\ UseCaller /\ main \in {"open", "stopping"} => pc[Caller] = "off"
  /\ UseCaller /\ main \in {"collect", "join", "stopped"} => pc[Caller] = "gone"
  /\ ~UseCaller /\ main # "open" => Started
  /\ main = "stopped" => \A t \in Runner : pc[t] \in {"off", "gone"}

(* A thread that counts as active holds a task.                              *)
TaskHeld == \A t \in Runner : pc[t] \in ActivePc => task[t] \in Piber

CountInv == TypeOK /\ TaskHeld /\ CountersExact

DrainInv ==
  /\ IdleEndsDrained
  /\ GoneThroughIdle
  /\ ScanStarted
  /\ FlagByStop
  /\ CallerInStop

SInv == CountInv /\ DrainInv

-----------------------------------------------------------------------------
(* Taking an element out of a sequence leaves a sequence of the same kind,
   one shorter.                                                              *)
LEMMA RemoveAtType ==
  ASSUME NEW S, NEW s \in Seq(S), NEW i \in 1 .. Len(s)
  PROVE  RemoveAt(s, i) \in Seq(S) /\ Len(RemoveAt(s, i)) = Len(s) - 1
<1> DEFINE left  == SubSeq(s, 1, i - 1)
           right == SubSeq(s, i + 1, Len(s))
<1>1. Len(s) \in Nat /\ \A j \in 1 .. Len(s) : s[j] \in S
  OBVIOUS
<1>2. left \in Seq(S) /\ Len(left) = i - 1
  BY <1>1, SubSeqProperties
<1>3. right \in Seq(S) /\ Len(right) = Len(s) - i
  BY <1>1, SubSeqProperties
<1> HIDE DEF left, right
<1>4. left \o right \in Seq(S) /\ Len(left \o right) = Len(left) + Len(right)
  BY <1>2, <1>3, ConcatProperties
<1>5. RemoveAt(s, i) = left \o right
  BY DEF RemoveAt, left, right
<1>6. (i - 1) + (Len(s) - i) = Len(s) - 1
  BY <1>1
<1>7. Len(left \o right) = Len(s) - 1
  BY <1>2, <1>3, <1>4, <1>6
<1> QED
  BY <1>4, <1>5, <1>7

LEMMA RunnerFinite == IsFiniteSet(Runner)
<1>1. IsFiniteSet(Worker \cup {Caller})
  BY SchedulerAssumption, FS_AddElement
<1>2. Runner \in SUBSET (Worker \cup {Caller})
  BY DEF Runner
<1> QED
  BY <1>1, <1>2, FS_Subset

LEMMA CountsFinite ==
  /\ IsFiniteSet(ActiveThreads) /\ Cardinality(ActiveThreads) \in Nat
  /\ IsFiniteSet(IdleThreads) /\ Cardinality(IdleThreads) \in Nat
<1>1. ActiveThreads \in SUBSET Runner /\ IdleThreads \in SUBSET Runner
  BY DEF ActiveThreads, IdleThreads
<1> QED
  BY <1>1, RunnerFinite, FS_Subset, FS_CardinalityType

(* How one thread's move changes the two counts.                             *)
LEMMA MoveCounts ==
  ASSUME TypeOK, NEW t \in Runner, NEW label \in Label, Goto(t, label)
  PROVE  /\ Cardinality(ActiveThreads') =
              Cardinality(ActiveThreads)
                + (IF label \in ActivePc THEN 1 ELSE 0) - (IF pc[t] \in ActivePc THEN 1 ELSE 0)
         /\ Cardinality(IdleThreads') =
              Cardinality(IdleThreads)
                + (IF label \in {"idle", "leaveIdle"} THEN 1 ELSE 0)
                - (IF pc[t] \in {"idle", "leaveIdle"} THEN 1 ELSE 0)
<1>1. pc' = [pc EXCEPT ![t] = label] /\ pc \in [Runner -> Label]
  BY DEF Goto, TypeOK
<1>2. ActiveThreads' = IF label \in ActivePc THEN ActiveThreads \cup {t} ELSE ActiveThreads \ {t}
  BY <1>1 DEF ActiveThreads
<1>3. IdleThreads' = IF label \in {"idle", "leaveIdle"}
                     THEN IdleThreads \cup {t} ELSE IdleThreads \ {t}
  BY <1>1 DEF IdleThreads
<1>4. t \in ActiveThreads <=> pc[t] \in ActivePc
  BY DEF ActiveThreads
<1>5. t \in IdleThreads <=> pc[t] \in {"idle", "leaveIdle"}
  BY DEF IdleThreads
<1>6. /\ Cardinality(ActiveThreads \cup {t}) =
           IF t \in ActiveThreads THEN Cardinality(ActiveThreads) ELSE Cardinality(ActiveThreads) + 1
      /\ Cardinality(ActiveThreads \ {t}) =
           IF t \in ActiveThreads THEN Cardinality(ActiveThreads) - 1 ELSE Cardinality(ActiveThreads)
      /\ Cardinality(IdleThreads \cup {t}) =
           IF t \in IdleThreads THEN Cardinality(IdleThreads) ELSE Cardinality(IdleThreads) + 1
      /\ Cardinality(IdleThreads \ {t}) =
           IF t \in IdleThreads THEN Cardinality(IdleThreads) - 1 ELSE Cardinality(IdleThreads)
  BY CountsFinite, FS_AddElement, FS_RemoveElement
<1>7. Cardinality(ActiveThreads) \in Nat /\ Cardinality(IdleThreads) \in Nat
  BY CountsFinite
<1>8. Cardinality(ActiveThreads') =
        Cardinality(ActiveThreads)
          + (IF label \in ActivePc THEN 1 ELSE 0) - (IF pc[t] \in ActivePc THEN 1 ELSE 0)
  BY <1>2, <1>4, <1>6, <1>7
<1>9. Cardinality(IdleThreads') =
        Cardinality(IdleThreads)
          + (IF label \in {"idle", "leaveIdle"} THEN 1 ELSE 0)
          - (IF pc[t] \in {"idle", "leaveIdle"} THEN 1 ELSE 0)
  BY <1>3, <1>5, <1>6, <1>7
<1> QED
  BY <1>8, <1>9

(* stopping() sees a drained pool: with the counter exact, no thread holds a
   task when it is zero.                                                     *)
LEMMA StoppingDrained ==
  ASSUME CountersExact, stopping
  PROVE  Drained
BY CountsFinite, FS_EmptySet DEF CountersExact, stopping, Drained

-----------------------------------------------------------------------------
(* The types and the counters *)

LEMMA InitCountInv == Init => CountInv
<1> SUFFICES ASSUME Init PROVE CountInv
  OBVIOUS
<1>1. m_tasks \in Seq(Task)
  BY EmptySeq DEF Init
<1>2. TypeOK
  BY <1>1, SchedulerAssumption DEF Init, TypeOK, Label
<1>3. ActiveThreads = {} /\ IdleThreads = {} /\ TaskHeld
  BY DEF Init, ActiveThreads, IdleThreads, ActivePc, OnStack, TaskHeld
<1> QED
  BY <1>2, <1>3, FS_EmptySet DEF Init, CountInv, CountersExact

(* A thread's move that changes no counter and counts as it did before.      *)
LEMMA MoveKeepsCounts ==
  ASSUME CountInv, NEW t \in Runner, NEW label \in Label, Goto(t, label),
         label \in ActivePc <=> pc[t] \in ActivePc,
         label \in {"idle", "leaveIdle"} <=> pc[t] \in {"idle", "leaveIdle"},
         UNCHANGED countVars
  PROVE  CountersExact'
<1>1. Cardinality(ActiveThreads') = Cardinality(ActiveThreads)
      /\ Cardinality(IdleThreads') = Cardinality(IdleThreads)
  BY MoveCounts, CountsFinite DEF CountInv
<1> QED
  BY <1>1 DEF CountInv, CountersExact, countVars

LEMMA LabelsApart ==
  /\ OnStack \subseteq ActivePc /\ ActivePc \subseteq Label
  /\ {"taken", "back"} \subseteq ActivePc
  /\ {"off", "scan", "locked", "noTask", "idle", "leaveIdle", "gone"} \subseteq Label \ ActivePc
BY DEF OnStack, ActivePc, Label

(* A call of schedule() for a thread Pin() allows.                           *)
LEMMA ScheduleType ==
  ASSUME TypeOK, NEW f \in Piber, NEW thread \in Pin(f), schedule(f, thread)
  PROVE  m_tasks' \in Seq(Task) /\ calls' \in Nat
<1>1. thread \in Runner \cup {AnyThread}
  BY DEF Pin, TypeOK
<1>2. [piber |-> f, thread |-> thread] \in Task
  BY <1>1 DEF Task
<1> QED
  BY <1>2 DEF schedule, TypeOK

LEMMA OwnerSchedulesCount == CountInv /\ OwnerSchedules => CountInv'
<1> SUFFICES ASSUME CountInv, OwnerSchedules PROVE CountInv'
  OBVIOUS
<1>1. PICK f \in Piber : \E thread \in Pin(f) : schedule(f, thread)
  BY DEF OwnerSchedules
<1>2. m_tasks' \in Seq(Task) /\ calls' \in Nat
  BY <1>1, ScheduleType DEF CountInv
<1> QED
  BY <1>2 DEF OwnerSchedules, CountInv, TypeOK, TaskHeld, CountersExact, ActiveThreads, IdleThreads,
              threadVars, countVars, fiberVars, ownerVars, scanVars

LEMMA FiberSchedulesCount ==
  ASSUME CountInv, NEW t \in Runner, FiberSchedules(t)
  PROVE  CountInv'
<1>1. PICK f \in Piber : \E thread \in Pin(f) : schedule(f, thread)
  BY DEF FiberSchedules
<1>2. m_tasks' \in Seq(Task) /\ calls' \in Nat
  BY <1>1, ScheduleType DEF CountInv
<1> QED
  BY <1>2 DEF FiberSchedules, CountInv, TypeOK, TaskHeld, CountersExact, ActiveThreads, IdleThreads,
              threadVars, countVars, fiberVars, ownerVars, scanVars

LEMMA FiberSchedulesItselfCount ==
  ASSUME CountInv, NEW t \in Runner, FiberSchedulesItself(t)
  PROVE  CountInv'
<1> USE LabelsApart DEF FiberSchedulesItself
<1>1. task[t] \in Piber
  BY DEF CountInv, TaskHeld, OnStack, ActivePc
<1>2. m_tasks' \in Seq(Task) /\ calls' \in Nat
  BY <1>1, ScheduleType DEF CountInv
<1>3. CountersExact'
  BY MoveKeepsCounts DEF OnStack, ActivePc, Label
<1>4. TypeOK'
  BY <1>2 DEF CountInv, TypeOK, Goto, Label, OnStack, countVars, fiberVars, ownerVars, scanVars
<1>5. TaskHeld'
  BY <1>1 DEF CountInv, TypeOK, TaskHeld, Goto
<1> QED
  BY <1>3, <1>4, <1>5 DEF CountInv

LEMMA LockCount ==
  ASSUME CountInv, NEW t \in Runner, Lock(t)
  PROVE  CountInv'
<1> USE LabelsApart DEF Lock
<1>1. CountersExact'
  BY MoveKeepsCounts DEF OnStack, ActivePc, Label
<1>2. TypeOK'
  BY DEF CountInv, TypeOK, Goto, Label, OnStack, queueVars, countVars, fiberVars,
         ownerVars, scanVars
<1>3. TaskHeld'
  BY DEF CountInv, TypeOK, TaskHeld, Goto, ActivePc, OnStack
<1> QED
  BY <1>1, <1>2, <1>3 DEF CountInv

LEMMA EndScanCount ==
  ASSUME CountInv, NEW t \in Runner, EndScan(t)
  PROVE  CountInv'
<1> USE LabelsApart DEF EndScan
<1>1. CountersExact'
  BY MoveKeepsCounts DEF OnStack, ActivePc, Label
<1>2. TypeOK'
  BY DEF CountInv, TypeOK, Goto, Label, OnStack, queueVars, countVars, fiberVars,
         ownerVars, scanVars
<1>3. TaskHeld'
  BY DEF CountInv, TypeOK, TaskHeld, Goto, ActivePc, OnStack
<1> QED
  BY <1>1, <1>2, <1>3 DEF CountInv

LEMMA ResumeCount ==
  ASSUME CountInv, NEW t \in Runner, Resume(t)
  PROVE  CountInv'
<1> USE LabelsApart DEF Resume
<1>1. CountersExact'
  BY MoveKeepsCounts DEF OnStack, ActivePc, Label
<1>2. TypeOK'
  BY DEF CountInv, TypeOK, Goto, Label, OnStack, queueVars, countVars, fiberVars,
         ownerVars, scanVars
<1>3. TaskHeld'
  BY DEF CountInv, TypeOK, TaskHeld, Goto, ActivePc, OnStack
<1> QED
  BY <1>1, <1>2, <1>3 DEF CountInv

LEMMA YieldCount ==
  ASSUME CountInv, NEW t \in Runner, Yield(t)
  PROVE  CountInv'
<1> USE LabelsApart DEF Yield
<1>1. CountersExact'
  BY MoveKeepsCounts DEF OnStack, ActivePc, Label
<1>2. TypeOK'
  BY DEF CountInv, TypeOK, Goto, Label, OnStack, queueVars, countVars, fiberVars,
         ownerVars, scanVars
<1>3. TaskHeld'
  BY DEF CountInv, TypeOK, TaskHeld, Goto, ActivePc, OnStack
<1> QED
  BY <1>1, <1>2, <1>3 DEF CountInv

LEMMA FinishCount ==
  ASSUME CountInv, NEW t \in Runner, Finish(t)
  PROVE  CountInv'
<1> USE LabelsApart DEF Finish
<1>1. CountersExact'
  BY MoveKeepsCounts DEF OnStack, ActivePc, Label
<1>2. TypeOK'
  BY DEF CountInv, TypeOK, Goto, Label, OnStack, queueVars, countVars, fiberVars,
         ownerVars, scanVars
<1>3. TaskHeld'
  BY DEF CountInv, TypeOK, TaskHeld, Goto, ActivePc, OnStack
<1> QED
  BY <1>1, <1>2, <1>3 DEF CountInv

LEMMA SwapOutCount ==
  ASSUME CountInv, NEW t \in Runner, SwapOut(t)
  PROVE  CountInv'
<1> USE LabelsApart DEF SwapOut
<1>1. CountersExact'
  BY MoveKeepsCounts DEF OnStack, ActivePc, Label
<1>2. TypeOK'
  BY DEF CountInv, TypeOK, Goto, Label, OnStack, queueVars, countVars, fiberVars,
         ownerVars, scanVars
<1>3. TaskHeld'
  BY DEF CountInv, TypeOK, TaskHeld, Goto, ActivePc, OnStack
<1> QED
  BY <1>1, <1>2, <1>3 DEF CountInv

LEMMA IdlePollCount ==
  ASSUME CountInv, NEW t \in Runner, IdlePoll(t)
  PROVE  CountInv'
<1> USE LabelsApart DEF IdlePoll
<1>1. CountersExact'
  BY MoveKeepsCounts DEF OnStack, ActivePc, Label
<1>2. TypeOK'
  BY DEF CountInv, TypeOK, Goto, Label, OnStack, queueVars, countVars, fiberVars,
         ownerVars, scanVars
<1>3. TaskHeld'
  BY DEF CountInv, TypeOK, TaskHeld, Goto, ActivePc, OnStack
<1> QED
  BY <1>1, <1>2, <1>3 DEF CountInv

LEMMA SkipCount ==
  ASSUME CountInv, NEW t \in Runner, Skip(t)
  PROVE  CountInv'
BY DEF Skip, Scanning, CountInv, TypeOK, TaskHeld, CountersExact, ActiveThreads, IdleThreads,
       queueVars, threadVars, countVars, fiberVars, ownerVars

LEMMA TakeCount ==
  ASSUME CountInv, ScanStarted, NEW t \in Runner, Take(t)
  PROVE  CountInv'
<1> USE LabelsApart DEF Take, Scanning
<1>1. it \in 1 .. Len(m_tasks)
  BY DEF CountInv, TypeOK, ScanStarted
<1>2. m_tasks' \in Seq(Task) /\ m_tasks[it].piber \in Piber
  <2>1. m_tasks[it] \in Task
    BY <1>1, ElementOfSeq DEF CountInv, TypeOK
  <2> QED
    BY <1>1, <2>1, RemoveAtType DEF CountInv, TypeOK, Task
<1>3. /\ Cardinality(ActiveThreads') = Cardinality(ActiveThreads) + 1
      /\ Cardinality(IdleThreads') = Cardinality(IdleThreads)
  <2>1. /\ Goto(t, "taken") /\ "taken" \in ActivePc
        /\ pc[t] = "locked" /\ "locked" \notin ActivePc
    OBVIOUS
  <2>2. /\ Cardinality(ActiveThreads') = Cardinality(ActiveThreads) + 1 - 0
        /\ Cardinality(IdleThreads') = Cardinality(IdleThreads) + 0 - 0
    BY <2>1, MoveCounts DEF CountInv
  <2> QED
    BY <2>2, CountsFinite
<1>4. TypeOK'
  BY <1>2 DEF CountInv, TypeOK, Goto, Label, fiberVars, ownerVars
<1>5. TaskHeld'
  BY <1>2 DEF CountInv, TypeOK, TaskHeld, Goto
<1> QED
  BY <1>3, <1>4, <1>5 DEF CountInv, CountersExact

LEMMA BackCount ==
  ASSUME CountInv, NEW t \in Runner, Back(t)
  PROVE  CountInv'
<1> USE LabelsApart DEF Back
<1>1. /\ Cardinality(ActiveThreads') = Cardinality(ActiveThreads) - 1
      /\ Cardinality(IdleThreads') = Cardinality(IdleThreads)
  BY MoveCounts, CountsFinite DEF CountInv
<1>2. Cardinality(ActiveThreads') \in Nat
  <2>1. ActiveThreads' \in SUBSET Runner
    BY DEF ActiveThreads
  <2> QED
    BY <2>1, RunnerFinite, FS_Subset, FS_CardinalityType
<1>3. CountersExact' /\ m_activeThreadCount' \in Nat
  BY <1>1, <1>2 DEF CountInv, CountersExact
<1>4. TypeOK'
  BY <1>3 DEF CountInv, TypeOK, Goto, Label, queueVars, fiberVars, ownerVars, scanVars
<1>5. TaskHeld'
  BY DEF CountInv, TypeOK, TaskHeld, Goto
<1> QED
  BY <1>3, <1>4, <1>5 DEF CountInv

LEMMA GoIdleCount ==
  ASSUME CountInv, NEW t \in Runner, GoIdle(t)
  PROVE  CountInv'
<1> USE LabelsApart DEF GoIdle
<1>1. CountersExact'
  <2>1. CASE idle_piber[t] = "TERM"
    BY <2>1, MoveKeepsCounts DEF countVars
  <2>2. CASE idle_piber[t] # "TERM"
    <3>1. /\ Cardinality(ActiveThreads') = Cardinality(ActiveThreads)
          /\ Cardinality(IdleThreads') = Cardinality(IdleThreads) + 1
      BY <2>2, MoveCounts, CountsFinite DEF CountInv
    <3> QED
      BY <2>2, <3>1 DEF CountInv, CountersExact
  <2> QED
    BY <2>1, <2>2
<1>2. TypeOK'
  BY DEF CountInv, TypeOK, Goto, Label, queueVars, fiberVars, ownerVars, scanVars
<1>3. TaskHeld'
  BY DEF CountInv, TypeOK, TaskHeld, Goto
<1> QED
  BY <1>1, <1>2, <1>3 DEF CountInv

LEMMA LeaveIdleCount ==
  ASSUME CountInv, NEW t \in Runner, LeaveIdle(t)
  PROVE  CountInv'
<1> USE LabelsApart DEF LeaveIdle
<1>1. /\ Cardinality(ActiveThreads') = Cardinality(ActiveThreads)
      /\ Cardinality(IdleThreads') = Cardinality(IdleThreads) - 1
  BY MoveCounts, CountsFinite DEF CountInv
<1>2. Cardinality(IdleThreads') \in Nat
  <2>1. IdleThreads' \in SUBSET Runner
    BY DEF IdleThreads
  <2> QED
    BY <2>1, RunnerFinite, FS_Subset, FS_CardinalityType
<1>3. CountersExact' /\ m_idleThreadCount' \in Nat
  BY <1>1, <1>2 DEF CountInv, CountersExact
<1>4. TypeOK'
  BY <1>3 DEF CountInv, TypeOK, Goto, Label, queueVars, fiberVars, ownerVars, scanVars
<1>5. TaskHeld'
  BY DEF CountInv, TypeOK, TaskHeld, Goto
<1> QED
  BY <1>3, <1>4, <1>5 DEF CountInv

(* start() and stop() move threads that were off, or none.                   *)
LEMMA OwnerCount ==
  ASSUME CountInv, CallerInStop, start \/ StopAsks \/ StopStep
  PROVE  CountInv'
<1> USE LabelsApart
<1>1. ActiveThreads' = ActiveThreads /\ IdleThreads' = IdleThreads
  <2>1. CASE start
    <3> SUFFICES ASSUME NEW t \in Runner
                 PROVE  /\ pc'[t] \in ActivePc <=> pc[t] \in ActivePc
                        /\ pc'[t] \in {"idle", "leaveIdle"} <=> pc[t] \in {"idle", "leaveIdle"}
      BY DEF ActiveThreads, IdleThreads
    <3> QED
      BY <2>1 DEF start, Started
  <2>2. CASE StopSets
    <3> SUFFICES ASSUME NEW t \in Runner
                 PROVE  /\ pc'[t] \in ActivePc <=> pc[t] \in ActivePc
                        /\ pc'[t] \in {"idle", "leaveIdle"} <=> pc[t] \in {"idle", "leaveIdle"}
      BY DEF ActiveThreads, IdleThreads
    <3> QED
      BY <2>2 DEF StopSets, CallerInStop
  <2>3. CASE StopAsks \/ RootEnds \/ Collect \/ Join
    BY <2>3 DEF StopAsks, RootEnds, Collect, Join, ActiveThreads, IdleThreads, threadVars
  <2> QED
    BY <2>1, <2>2, <2>3 DEF StopStep
<1>2. UNCHANGED <<m_activeThreadCount, m_idleThreadCount>>
  BY DEF start, StopAsks, StopStep, StopSets, RootEnds, Collect, Join, countVars
<1>3. TypeOK'
  <2>1. CASE start
    BY <2>1 DEF start, CountInv, TypeOK, queueVars, countVars, fiberVars, ownerVars, scanVars
  <2>2. CASE StopAsks
    BY <2>2 DEF StopAsks, CountInv, TypeOK, queueVars, threadVars, countVars, fiberVars, scanVars
  <2>3. CASE StopSets
    BY <2>3 DEF StopSets, CountInv, TypeOK, queueVars, countVars, fiberVars, scanVars
  <2>4. CASE RootEnds \/ Collect \/ Join
    BY <2>4 DEF RootEnds, Collect, Join, CountInv, TypeOK, queueVars, threadVars, countVars,
                fiberVars, scanVars
  <2> QED
    BY <2>1, <2>2, <2>3, <2>4 DEF StopStep
<1>4. TaskHeld'
  <2>1. task' = task
    BY DEF start, StopAsks, StopStep, StopSets, RootEnds, Collect, Join, threadVars
  <2>2. \A t \in Runner : pc'[t] \in ActivePc => pc[t] \in ActivePc
    BY <1>1 DEF ActiveThreads
  <2> QED
    BY <2>1, <2>2 DEF CountInv, TaskHeld
<1> QED
  BY <1>1, <1>2, <1>3, <1>4 DEF CountInv, CountersExact

LEMMA NextCountInv ==
  ASSUME CountInv, ScanStarted, CallerInStop, [Next]_vars
  PROVE  CountInv'
<1>1. CASE UNCHANGED vars
  BY <1>1 DEF vars, CountInv, TypeOK, TaskHeld, CountersExact, ActiveThreads, IdleThreads,
              queueVars, threadVars, countVars, fiberVars, ownerVars, scanVars
<1>2. ASSUME NEW t \in Runner, ThreadStep(t) PROVE CountInv'
  BY <1>2, LockCount, SkipCount, TakeCount, EndScanCount, ResumeCount, FiberSchedulesCount,
     FiberSchedulesItselfCount, YieldCount, FinishCount, SwapOutCount, BackCount, GoIdleCount,
     IdlePollCount, LeaveIdleCount
  DEF ThreadStep
<1>3. CASE Next
  BY <1>1, <1>2, <1>3, OwnerSchedulesCount, OwnerCount DEF Next, Ended
<1> QED
  BY <1>1, <1>3

-----------------------------------------------------------------------------
(* The end *)

LEMMA InitDrainInv == Init => DrainInv
BY DEF Init, DrainInv, IdleEndsDrained, GoneThroughIdle, ScanStarted, FlagByStop, CallerInStop,
       Runner

(* A drained pool stays drained: whatever could add a task or take one is at
   an end.                                                                   *)
LEMMA DrainedStays ==
  ASSUME SInv, Drained, Next
  PROVE  Drained'
<1> USE LabelsApart DEF SInv, DrainInv, CountInv
<1>1. /\ m_stopping /\ m_tasks = <<>>
      /\ \A t \in Runner : pc[t] \notin ActivePc
  BY DEF Drained, ActiveThreads
<1>2. main \notin {"open", "stopping"}
  BY <1>1 DEF FlagByStop
<1>3. ASSUME NEW t \in Runner, NEW label \in Label \ ActivePc, Goto(t, label),
             UNCHANGED <<m_tasks, m_stopping>>
      PROVE  Drained'
  BY <1>1, <1>3 DEF Drained, ActiveThreads, Goto, TypeOK
<1>4. ASSUME NEW t \in Runner, ThreadStep(t) PROVE Drained'
  <2>1. CASE Lock(t)
    BY <1>3, <2>1 DEF Lock, queueVars, ownerVars
  <2>2. CASE Skip(t)
    BY <1>1, <2>2 DEF Skip, Drained, ActiveThreads, queueVars, ownerVars, threadVars
  <2>3. CASE Take(t)
    BY <1>1, <2>3 DEF Take, Scanning, ScanStarted, TypeOK
  <2>4. CASE EndScan(t)
    BY <1>3, <2>4 DEF EndScan, queueVars, ownerVars
  <2>5. CASE \/ Resume(t) \/ FiberSchedules(t) \/ FiberSchedulesItself(t) \/ Yield(t)
             \/ Finish(t) \/ SwapOut(t) \/ Back(t)
    BY <1>1, <2>5 DEF Resume, FiberSchedules, FiberSchedulesItself, Yield, Finish, SwapOut, Back,
                      ActivePc, OnStack
  <2>6. CASE GoIdle(t)
    BY <1>3, <2>6 DEF GoIdle, queueVars, ownerVars
  <2>7. CASE IdlePoll(t)
    BY <1>3, <2>7 DEF IdlePoll, queueVars, ownerVars
  <2>8. CASE LeaveIdle(t)
    BY <1>3, <2>8 DEF LeaveIdle, queueVars, ownerVars
  <2> QED
    BY <1>4, <2>1, <2>2, <2>3, <2>4, <2>5, <2>6, <2>7, <2>8 DEF ThreadStep
<1>5. CASE OwnerSchedules \/ start \/ StopAsks \/ StopSets
  BY <1>2, <1>5 DEF OwnerSchedules, start, StopAsks, StopSets
<1>6. CASE RootEnds \/ Collect \/ Join
  BY <1>1, <1>6 DEF RootEnds, Collect, Join, Drained, ActiveThreads, queueVars, threadVars
<1>7. CASE Ended
  BY <1>7 DEF Ended, vars, Drained, ActiveThreads, queueVars, threadVars, ownerVars
<1> QED
  BY <1>4, <1>5, <1>6, <1>7 DEF Next, StopStep

(* The idle fiber of a thread ends when stopping() answered yes.             *)
LEMMA NextIdleEndsDrained ==
  ASSUME SInv, Next
  PROVE  IdleEndsDrained'
<1> USE LabelsApart DEF SInv, DrainInv, CountInv
<1> SUFFICES ASSUME NEW t \in Runner, idle_piber'[t] = "TERM" PROVE Drained'
  BY DEF IdleEndsDrained
<1>1. CASE idle_piber[t] = "TERM"
  BY <1>1, DrainedStays DEF IdleEndsDrained
<1>2. CASE idle_piber[t] # "TERM"
  <2>1. PICK u \in Runner : IdlePoll(u)
    <3>1. idle_piber' # idle_piber
      BY <1>2
    <3> QED
      BY <3>1 DEF Next, ThreadStep, Lock, Skip, Take, EndScan, Resume, FiberSchedules,
                  FiberSchedulesItself, Yield, Finish, SwapOut, Back, GoIdle, LeaveIdle,
                  OwnerSchedules, start, StopAsks, StopStep, StopSets, RootEnds, Collect, Join,
                  Ended, vars
  <2>2. stopping
    BY <1>2, <2>1 DEF IdlePoll, TypeOK
  <2>3. Drained
    BY <2>2, StoppingDrained
  <2> QED
    BY <2>3, DrainedStays
<1> QED
  BY <1>1, <1>2

LEMMA NextGoneThroughIdle ==
  ASSUME SInv, Next
  PROVE  GoneThroughIdle'
<1> USE DEF SInv, DrainInv, CountInv, GoneThroughIdle, TypeOK
<1>1. ASSUME NEW t \in Runner, ThreadStep(t) PROVE GoneThroughIdle'
  <2>1. CASE GoIdle(t)
    BY <2>1 DEF GoIdle, Goto
  <2>2. CASE IdlePoll(t)
    BY <2>2 DEF IdlePoll, Goto
  <2>3. CASE ~GoIdle(t) /\ ~IdlePoll(t)
    BY <1>1, <2>3 DEF ThreadStep, Lock, Skip, Take, EndScan, Resume, FiberSchedules,
                      FiberSchedulesItself, Yield, Finish, SwapOut, Back, LeaveIdle, Goto,
                      threadVars
  <2> QED
    BY <2>1, <2>2, <2>3
<1>2. CASE start \/ StopSets
  BY <1>2 DEF start, StopSets
<1>3. CASE OwnerSchedules \/ StopAsks \/ RootEnds \/ Collect \/ Join \/ Ended
  BY <1>3 DEF OwnerSchedules, StopAsks, RootEnds, Collect, Join, Ended, vars, threadVars
<1> QED
  BY <1>1, <1>2, <1>3 DEF Next, StopStep

LEMMA NextScanStarted ==
  ASSUME SInv, Next
  PROVE  ScanStarted'
<1> USE DEF SInv, DrainInv, CountInv, ScanStarted, TypeOK
<1>1. ASSUME NEW t \in Runner, ThreadStep(t) PROVE ScanStarted'
  BY <1>1 DEF ThreadStep, Lock, Skip, Take, EndScan, Resume, FiberSchedules,
              FiberSchedulesItself, Yield, Finish, SwapOut, Back, GoIdle, IdlePoll, LeaveIdle,
              Goto, Scanning, threadVars, scanVars
<1>2. CASE start \/ StopSets
  BY <1>2 DEF start, StopSets, scanVars
<1>3. CASE OwnerSchedules \/ StopAsks \/ RootEnds \/ Collect \/ Join \/ Ended
  BY <1>3 DEF OwnerSchedules, StopAsks, RootEnds, Collect, Join, Ended, vars, threadVars, scanVars
<1> QED
  BY <1>1, <1>2, <1>3 DEF Next, StopStep

LEMMA NextFlagByStop ==
  ASSUME SInv, Next
  PROVE  FlagByStop'
<1> USE DEF SInv, DrainInv, CountInv, FlagByStop, TypeOK
<1>1. ASSUME NEW t \in Runner, ThreadStep(t) PROVE FlagByStop'
  BY <1>1 DEF ThreadStep, Lock, Skip, Take, EndScan, Resume, FiberSchedules,
              FiberSchedulesItself, Yield, Finish, SwapOut, Back, GoIdle, IdlePoll, LeaveIdle,
              ownerVars
<1>2. CASE OwnerSchedules \/ start \/ Ended
  BY <1>2 DEF OwnerSchedules, start, Ended, vars, ownerVars
<1>3. CASE StopAsks
  BY <1>3 DEF StopAsks, stopping
<1>4. CASE StopStep
  BY <1>4 DEF StopStep, StopSets, RootEnds, Collect, Join
<1> QED
  BY <1>1, <1>2, <1>3, <1>4 DEF Next

(* What a step of a scheduling thread leaves alone: threads that are off, gone
   or have not started, and the program.                                     *)
LEMMA ThreadStepKeeps ==
  ASSUME TypeOK, NEW t \in Runner, ThreadStep(t)
  PROVE  /\ main' = main
         /\ pc[t] \notin {"off", "gone"} /\ pc'[t] # "off"
         /\ \A u \in Runner \ {t} : pc'[u] = pc[u]
BY DEF TypeOK, ThreadStep, Lock, Skip, Take, EndScan, Resume, FiberSchedules,
       FiberSchedulesItself, Yield, Finish, SwapOut, Back, GoIdle, IdlePoll, LeaveIdle,
       Goto, Scanning, threadVars, ownerVars, OnStack, Label

LEMMA NextCallerInStop ==
  ASSUME SInv, Next
  PROVE  CallerInStop'
<1> USE DEF SInv, DrainInv, CountInv, CallerInStop
<1>0. UseCaller => Caller \in Runner
  BY DEF Runner
<1>1. ASSUME NEW t \in Runner, ThreadStep(t) PROVE CallerInStop'
  <2>1. /\ main' = main
        /\ pc[t] \notin {"off", "gone"} /\ pc'[t] # "off"
        /\ \A u \in Runner \ {t} : pc'[u] = pc[u]
    BY <1>1, ThreadStepKeeps
  <2>2. Started => Started'
    BY <2>1 DEF Started, Runner
  <2> QED
    BY <1>0, <2>1, <2>2
<1>2. CASE start
  BY <1>0, <1>2, SchedulerAssumption DEF start, ownerVars, Runner
<1>3. CASE StopAsks
  <2>1. main' = "stopping"
    BY <1>3 DEF StopAsks, stopping, FlagByStop
  <2> QED
    BY <1>3, <2>1 DEF StopAsks, threadVars, Started
<1>4. CASE StopSets
  BY <1>4, SchedulerAssumption DEF StopSets, Started, Runner
<1>5. CASE RootEnds
  BY <1>5 DEF RootEnds, threadVars, Started
<1>6. CASE Collect
  BY <1>6 DEF Collect, threadVars, Started
<1>7. CASE Join
  <2>1. \A t \in Runner : t \in Worker \/ (UseCaller /\ t = Caller)
    BY DEF Runner
  <2> QED
    BY <1>7, <2>1 DEF Join, threadVars, Started
<1>8. CASE OwnerSchedules \/ Ended
  BY <1>8 DEF OwnerSchedules, Ended, vars, threadVars, ownerVars, Started
<1> QED
  BY <1>1, <1>2, <1>3, <1>4, <1>5, <1>6, <1>7, <1>8 DEF Next, StopStep

(* When stop() has returned, some thread left run(), through its idle fiber. *)
LEMMA StoppedDrained == SInv => StopDrains
<1> SUFFICES ASSUME SInv, main = "stopped" PROVE Drained /\ \A t \in Runner : pc[t] \in {"off", "gone"}
  BY DEF StopDrains
<1>1. \A t \in Runner : pc[t] \in {"off", "gone"}
  BY DEF SInv, DrainInv, CallerInStop
<1>2. PICK t \in Runner : pc[t] = "gone"
  <2>1. CASE UseCaller
    BY <2>1 DEF SInv, DrainInv, CallerInStop, Runner
  <2>2. CASE ~UseCaller
    <3>1. PICK w \in Worker : pc[w] # "off"
      BY <2>2 DEF SInv, DrainInv, CallerInStop, Started
    <3> QED
      BY <1>1, <3>1 DEF Runner
  <2> QED
    BY <2>1, <2>2
<1> QED
  BY <1>1, <1>2 DEF SInv, DrainInv, GoneThroughIdle, IdleEndsDrained

-----------------------------------------------------------------------------
(* The inductive invariant.                                                  *)
THEOREM SchedulerInvariant == Spec => []SInv
<1>1. Init => SInv
  BY InitCountInv, InitDrainInv DEF SInv
<1>2. SInv /\ [Next]_vars => SInv'
  <2> SUFFICES ASSUME SInv, [Next]_vars PROVE SInv'
    OBVIOUS
  <2>1. CountInv'
    BY NextCountInv DEF SInv, DrainInv
  <2>2. CASE Next
    BY <2>1, <2>2, NextIdleEndsDrained, NextGoneThroughIdle, NextScanStarted, NextFlagByStop,
       NextCallerInStop
    DEF SInv, DrainInv
  <2>3. CASE UNCHANGED vars
    BY <2>1, <2>3
    DEF SInv, DrainInv, IdleEndsDrained, GoneThroughIdle, ScanStarted, FlagByStop, CallerInStop,
        Drained, ActiveThreads, Started, vars, queueVars, threadVars, countVars, fiberVars,
        ownerVars, scanVars
  <2> QED
    BY <2>2, <2>3
<1> QED
  BY <1>1, <1>2, PTL DEF Spec

(* Every variable keeps its type.                                            *)
THEOREM SchedulerTypeOK == Spec => []TypeOK
<1>1. SInv => TypeOK
  BY DEF SInv, CountInv
<1> QED
  BY <1>1, SchedulerInvariant, PTL

(* m_activeThreadCount and m_idleThreadCount count, at every moment and with
   any number of threads, exactly the threads they stand for.                *)
THEOREM SchedulerCounters == Spec => []CountersExact
<1>1. SInv => CountersExact
  BY DEF SInv, CountInv
<1> QED
  BY <1>1, SchedulerInvariant, PTL

(* A thread's idle fiber ends only in a drained pool, which is then drained
   for ever.                                                                 *)
THEOREM SchedulerIdleEnds == Spec => []IdleEndsDrained
<1>1. SInv => IdleEndsDrained
  BY DEF SInv, DrainInv
<1> QED
  BY <1>1, SchedulerInvariant, PTL

(* stop() returns only when no task waits or runs and no thread is in run(). *)
THEOREM SchedulerStopDrains == Spec => []StopDrains
<1> QED
  BY StoppedDrained, SchedulerInvariant, PTL
=============================================================================
