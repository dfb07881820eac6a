---------------------------- MODULE IOLoopProofs ----------------------------
(***************************************************************************)
(* The threads of an IOManager do to the descriptor what FdEvents allows   *)
(* and nothing else: every step of the loop is a step of FdEvents or does  *)
(* not touch the descriptor, for any number of threads, fibers and calls.  *)
(* What is proved of registrations holds while the loop runs.  The         *)
(* counters that stopping() and tickle() read are exact, and a fiber is on *)
(* one thread besides those that are done with it.                         *)
(***************************************************************************)
EXTENDS IOLoop, FdEventsProofs, SequenceTheorems, WellFoundedInduction

Entry == [piber : Waiter, thread : Idler \cup {None}]

(* The places in run() where a thread counts as active, and in idle().       *)
ActivePc == {"taken", "exec", "yield", "switch", "back"}
IdlePc == {"idle", "ask", "poll", "loop", "ended"}

(* A thread that executes a fiber has one, which nothing but the list gave it. *)
TasksKnown ==
  /\ m_tasks \in Seq(Entry)
  /\ task \in [Idler -> Waiter \cup {None}]
  /\ m_state \in [Waiter -> {"READY", "RUNING"}]
  /\ pc \in [Idler -> ActivePc \cup IdlePc \cup {"scan", "noTask", "gone"}]
  /\ \A t \in Idler : pc[t] \in {"taken", "exec", "yield"} => task[t] \in Waiter

LInv == FInv /\ TasksKnown

-----------------------------------------------------------------------------
(* Where the scan of the list stops: at an entry, or at none.                *)
Stop(t) == SelectInSeq(m_tasks, LAMBDA e : Eligible(t, e))

LEMMA ScanStops ==
  ASSUME TasksKnown, NEW t \in Idler
  PROVE  Stop(t) \in 0 .. Len(m_tasks) /\ (Stop(t) # 0 => Eligible(t, m_tasks[Stop(t)]))
<1> DEFINE I == {i \in 1 .. Len(m_tasks) : Eligible(t, m_tasks[i])}
<1>1. Len(m_tasks) \in Nat
  BY DEF TasksKnown
<1>2. CASE I = {}
  BY <1>1, <1>2 DEF Stop, SelectInSeq
<1>3. CASE I # {}
  <2>1. I \in SUBSET Nat
    BY <1>1
  <2>2. \E n \in I : \A m \in I : <<m, n>> \notin OpToRel(<, Nat)
    BY <1>3, <2>1, NatLessThanWellFounded, WFMin
  <2>3. \A n \in I, m \in I : <<m, n>> \notin OpToRel(<, Nat) => n <= m
    BY <2>1 DEF OpToRel
  <2>4. \E n \in I : \A m \in I : n <= m
    BY <2>2, <2>3
  <2>5. Min(I) \in I
    BY <2>4 DEF Min
  <2> QED
    BY <1>3, <2>5 DEF Stop, SelectInSeq
<1> QED
  BY <1>2, <1>3

(* Which entries are left when one is taken out.                             *)
LEMMA RestOfList ==
  ASSUME NEW S, NEW s \in Seq(S), NEW i \in 1 .. Len(s)
  PROVE  /\ RemoveAt(s, i) \in Seq(S)
         /\ Len(RemoveAt(s, i)) = Len(s) - 1
         /\ \A j \in 1 .. Len(s) - 1 : RemoveAt(s, i)[j] = IF j < i THEN s[j] ELSE s[j + 1]
<1> DEFINE left  == SubSeq(s, 1, i - 1)
           right == SubSeq(s, i + 1, Len(s))
<1>1. Len(s) \in Nat /\ \A j \in 1 .. Len(s) : s[j] \in S
  OBVIOUS
<1>2. /\ left \in Seq(S) /\ Len(left) = i - 1
      /\ \A j \in 1 .. i - 1 : left[j] = s[j]
  BY <1>1, SubSeqProperties
<1>3. /\ right \in Seq(S) /\ Len(right) = Len(s) - i
      /\ \A j \in 1 .. Len(s) - i : right[j] = s[i + j]
  BY <1>1, SubSeqProperties
<1> HIDE DEF left, right
<1>4. /\ left \o right \in Seq(S) /\ Len(left \o right) = Len(s) - 1
      /\ \A j \in 1 .. Len(s) - 1 : (left \o right)[j] = IF j <= i - 1 THEN left[j] ELSE right[j - (i - 1)]
  <2>1. (i - 1) + (Len(s) - i) = Len(s) - 1
    BY <1>1
  <2>2. left \o right \in Seq(S) /\ Len(left \o right) = Len(left) + Len(right)
    BY <1>2, <1>3, ConcatProperties
  <2>3. \A j \in 1 .. Len(left) + Len(right) :
          (left \o right)[j] = IF j <= Len(left) THEN left[j] ELSE right[j - Len(left)]
    BY <1>2, <1>3, ConcatProperties
  <2> QED
    BY <1>2, <1>3, <2>1, <2>2, <2>3
<1>5. ASSUME NEW j \in 1 .. Len(s) - 1
      PROVE  (left \o right)[j] = IF j < i THEN s[j] ELSE s[j + 1]
  <2>1. CASE j < i
    BY <1>1, <1>2, <1>4, <2>1
  <2>2. CASE ~(j < i)
    <3>1. j - (i - 1) \in 1 .. Len(s) - i /\ i + (j - (i - 1)) = j + 1 /\ ~(j <= i - 1)
      BY <1>1, <2>2
    <3>2. (left \o right)[j] = right[j - (i - 1)]
      BY <1>4, <3>1
    <3>3. right[j - (i - 1)] = s[j + 1]
      BY <1>3, <3>1
    <3> QED
      BY <2>2, <3>2, <3>3
  <2> QED
    BY <2>1, <2>2
<1> QED
  BY <1>4, <1>5 DEF RemoveAt, left, right

-----------------------------------------------------------------------------
(* The steps that touch the descriptor.                                      *)
LEMMA ScanFd ==
  ASSUME LInv, NEW t \in Idler, Scan(t)
  PROVE  [Next]_fdVars /\ TasksKnown'
<1> USE DEF LInv
<1> DEFINE i == Stop(t)
<1>1. i \in 0 .. Len(m_tasks) /\ Len(m_tasks) \in Nat
  BY ScanStops DEF TasksKnown
<1>2. CASE i = 0
  <2>1. UNCHANGED <<fdVars, m_tasks, task, m_state>> /\ pc' = [pc EXCEPT ![t] = "noTask"]
    BY <1>2 DEF Scan, Goto, Stop, fiberVars
  <2> QED
    BY <2>1 DEF TasksKnown
<1>3. CASE i # 0
  <2>1. /\ pc' = [pc EXCEPT ![t] = "taken"] /\ UNCHANGED m_state
        /\ task' = [task EXCEPT ![t] = m_tasks[i].piber]
        /\ m_tasks' = RemoveAt(m_tasks, i)
        /\ IF m_tasks[i].piber \in waits THEN Run(m_tasks[i].piber) ELSE UNCHANGED fdVars
    BY <1>3 DEF Scan, Goto, Stop, fiberVars
  <2> HIDE DEF i
  <2>2. i \in 1 .. Len(m_tasks)
    BY <1>1, <1>3
  <2>3. m_tasks[i].piber \in Waiter
    <3>1. m_tasks[i] \in Entry
      BY <2>2 DEF TasksKnown
    <3> QED
      BY <3>1 DEF Entry
  <2>4. TasksKnown'
    <3>1. m_tasks' \in Seq(Entry)
      BY <2>1, <2>2, RestOfList DEF TasksKnown
    <3> QED
      BY <2>1, <2>3, <3>1 DEF TasksKnown, ActivePc
  <2>5. [Next]_fdVars
    BY <2>1, <2>3 DEF Next
  <2> QED
    BY <2>4, <2>5
<1> QED
  BY <1>2, <1>3

LEMMA WaitsFd ==
  ASSUME LInv, NEW t \in Idler, FiberWaits(t)
  PROVE  [Next]_fdVars /\ TasksKnown'
<1>1. task[t] \in Waiter /\ addEvent(task[t])
  BY DEF FiberWaits, At, LInv, TasksKnown
<1>2. Next
  BY <1>1 DEF Next
<1>3. TasksKnown'
  BY DEF FiberWaits, At, Goto, LInv, TasksKnown, ActivePc, fiberVars, queueVars
<1> QED
  BY <1>2, <1>3

LEMMA PollFd ==
  ASSUME LInv, NEW t \in Idler, Poll(t)
  PROVE  [Next]_fdVars /\ TasksKnown'
<1>1. [Next]_fdVars
  BY DEF Poll, Next
<1>2. TasksKnown'
  BY DEF Poll, Goto, LInv, TasksKnown, IdlePc, fiberVars, queueVars
<1> QED
  BY <1>1, <1>2

LEMMA ServeFd ==
  ASSUME LInv, NEW t \in Idler, Serve(t)
  PROVE  [Next]_fdVars /\ TasksKnown'
<1> USE DEF LInv
<1> DEFINE fired(e) == IF e \in events \ events' THEN <<[piber |-> piber[e], thread |-> None]>> ELSE <<>>
<1>1. Next
  BY DEF Serve, Next
<1>2. ASSUME NEW e \in Event PROVE fired(e) \in Seq(Entry)
  <2>1. e \in events => piber[e] \in Waiter
    BY DEF FInv, Contexts, TypeOK
  <2>2. e \in events \ events' => [piber |-> piber[e], thread |-> None] \in Entry
    BY <2>1 DEF Entry
  <2> QED
    BY <2>2
<1>3. m_tasks' = m_tasks \o fired("READ") \o fired("WRITE")
  BY DEF Serve
<1> HIDE DEF fired
<1>4. fired("READ") \in Seq(Entry) /\ fired("WRITE") \in Seq(Entry)
  BY <1>2 DEF Event
<1>5. m_tasks' \in Seq(Entry)
  BY <1>3, <1>4 DEF TasksKnown
<1>6. TasksKnown'
  BY <1>5 DEF Serve, TasksKnown, runVars
<1> QED
  BY <1>1, <1>6

LEMMA WorldFd ==
  ASSUME LInv, World
  PROVE  [Next]_fdVars /\ TasksKnown'
<1>1. Next
  BY OfEvent DEF World, Next
<1>2. TasksKnown'
  BY DEF World, LInv, TasksKnown, runVars, queueVars
<1> QED
  BY <1>1, <1>2

-----------------------------------------------------------------------------
(* The steps that do not.                                                    *)
LEMMA ScheduleKnown ==
  ASSUME TasksKnown, NEW c, NEW f \in Waiter, NEW thread \in Idler \cup {None}, schedule(c, f, thread)
  PROVE  m_tasks' \in Seq(Entry)
<1>1. [piber |-> f, thread |-> thread] \in Entry
  BY DEF Entry
<1> QED
  BY <1>1 DEF schedule, TasksKnown

LEMMA OtherSteps ==
  ASSUME LInv,
         \/ \E t \in Idler :
              \/ FiberSchedules(t) \/ Resume(t) \/ Yield(t) \/ SwapOut(t) \/ Back(t)
              \/ GoIdle(t) \/ AskEvents(t) \/ AskTasks(t)
              \/ Drain(t) \/ LeaveIdle(t) \/ tickle(t)
         \/ OwnerSchedules \/ stop \/ StopStep
  PROVE  UNCHANGED fdVars /\ TasksKnown'
<1> USE DEF LInv
<1>1. ASSUME NEW t \in Idler, FiberSchedules(t) PROVE UNCHANGED fdVars /\ TasksKnown'
  <2>1. m_tasks' \in Seq(Entry)
    BY <1>1, ScheduleKnown DEF FiberSchedules
  <2>2. \E p \in {"exec", "yield"} : pc' = [pc EXCEPT ![t] = p]
    BY <1>1 DEF FiberSchedules, Goto
  <2>3. pc[t] = "exec"
    BY <1>1 DEF FiberSchedules, At
  <2> QED
    BY <1>1, <2>1, <2>2, <2>3 DEF FiberSchedules, TasksKnown, ActivePc, fiberVars
<1>2. ASSUME NEW t \in Idler, Resume(t) \/ Yield(t) PROVE UNCHANGED fdVars /\ TasksKnown'
  <2>1. task[t] \in Waiter
    BY <1>2 DEF Resume, Yield, At, TasksKnown
  <2>2. \E x \in {"READY", "RUNING"} : m_state' = [m_state EXCEPT ![task[t]] = x]
    BY <1>2 DEF Resume, Yield
  <2>3. UNCHANGED <<fdVars, m_tasks, task>> /\ \E p \in {"exec", "switch"} : pc' = [pc EXCEPT ![t] = p]
    BY <1>2 DEF Resume, Yield, Goto, queueVars
  <2> QED
    BY <2>1, <2>2, <2>3 DEF TasksKnown, ActivePc
<1>3. ASSUME NEW t \in Idler, SwapOut(t) \/ Back(t) \/ GoIdle(t) \/ AskEvents(t) \/ AskTasks(t) \/ LeaveIdle(t)
      PROVE  UNCHANGED fdVars /\ TasksKnown'
  <2>1. UNCHANGED <<fdVars, m_tasks, m_state>> /\ task' \in [Idler -> Waiter \cup {None}]
    BY <1>3 DEF SwapOut, Back, GoIdle, AskEvents, AskTasks, LeaveIdle, fiberVars, queueVars, TasksKnown
  <2>2. \A u \in Idler : u # t => task'[u] = task[u]
    BY <1>3 DEF SwapOut, Back, GoIdle, AskEvents, AskTasks, LeaveIdle, TasksKnown
  <2>3. \E p \in {"back", "gone", "idle", "ask", "poll", "ended", "scan"} : pc' = [pc EXCEPT ![t] = p]
    BY <1>3 DEF SwapOut, Back, GoIdle, AskEvents, AskTasks, LeaveIdle, Goto
  <2> QED
    BY <2>1, <2>2, <2>3 DEF TasksKnown, ActivePc, IdlePc
<1>4. ASSUME NEW t \in Idler, Drain(t) PROVE UNCHANGED fdVars /\ TasksKnown'
  BY <1>4 DEF Drain, TasksKnown, runVars, queueVars
<1>5. ASSUME NEW c, tickle(c) PROVE UNCHANGED fdVars /\ TasksKnown'
  BY <1>5 DEF tickle, TasksKnown, runVars, queueVars
<1>6. CASE OwnerSchedules
  <2>1. m_tasks' \in Seq(Entry)
    BY <1>6, ScheduleKnown DEF OwnerSchedules
  <2> QED
    BY <1>6, <2>1 DEF OwnerSchedules, TasksKnown, runVars
<1>7. CASE stop \/ Join
  BY <1>7 DEF stop, Join, TasksKnown, runVars, queueVars
<1> QED
  BY <1>1, <1>2, <1>3, <1>4, <1>5, <1>6, <1>7 DEF StopStep

LEMMA InitLInv == LoopInit => LInv
<1> SUFFICES ASSUME LoopInit PROVE LInv
  OBVIOUS
<1>1. FInv
  BY InitFInv DEF LoopInit
<1>2. TasksKnown
  BY DEF LoopInit, TasksKnown, ActivePc
<1> QED
  BY <1>1, <1>2 DEF LInv

LEMMA NextLInv == LInv /\ [LoopNext]_loopVars => LInv' /\ [Next]_fdVars
<1> SUFFICES ASSUME LInv, [LoopNext]_loopVars PROVE LInv' /\ [Next]_fdVars
  OBVIOUS
<1>1. [Next]_fdVars /\ TasksKnown'
  <2>1. CASE UNCHANGED loopVars
    BY <2>1 DEF loopVars, LInv, TasksKnown, runVars, queueVars
  <2>2. CASE LoopNext /\ ~UNCHANGED loopVars
    BY <2>2, ScanFd, WaitsFd, PollFd, ServeFd, WorldFd, OtherSteps DEF LoopNext, LoopStep
  <2> QED
    BY <2>1, <2>2
<1>2. FInv'
  BY <1>1, NextFInv DEF LInv, fdVars
<1> QED
  BY <1>1, <1>2 DEF LInv

-----------------------------------------------------------------------------
(* The counters, which stopping() and tickle() go by                         *)

ActiveThreads == {t \in Idler : pc[t] \in ActivePc}
IdleThreads == {t \in Idler : pc[t] \in IdlePc}

(* Each counts the threads between the place where it goes up and the one
   where it goes down.                                                       *)
CountersExact ==
  /\ m_activeThreadCount = Cardinality(ActiveThreads)
  /\ m_idleThreadCount = Cardinality(IdleThreads)

(* The types of what no other part of the invariant speaks of.               *)
RestKnown ==
  /\ m_stopping \in BOOLEAN
  /\ ended \subseteq Idler /\ told \subseteq Idler
  /\ pipe \in BOOLEAN /\ pipeArmed \in BOOLEAN
  /\ tickling \subseteq Idler \cup {None}
  /\ main \in {"open", "join", "stopped"}
  /\ calls \in 0 .. MaxSchedule /\ broken \in BOOLEAN

CountInv == LInv /\ RestKnown /\ CountersExact

LEMMA CountsFinite ==
  /\ IsFiniteSet(ActiveThreads) /\ IsFiniteSet(IdleThreads)
  /\ Cardinality(ActiveThreads) \in 0 .. Cardinality(Idler)
  /\ Cardinality(IdleThreads) \in 0 .. Cardinality(Idler)
<1>1. IsFiniteSet(Idler)
  BY LoopAssumption
<1>2. ActiveThreads \in SUBSET Idler /\ IdleThreads \in SUBSET Idler
  BY DEF ActiveThreads, IdleThreads
<1>3. \A S \in SUBSET Idler : IsFiniteSet(S) /\ Cardinality(S) <= Cardinality(Idler)
  BY <1>1, FS_Subset
<1>4. \A S \in SUBSET Idler : Cardinality(S) \in Nat
  BY <1>3, FS_CardinalityType
<1>5. Cardinality(Idler) \in Nat
  BY <1>1, FS_CardinalityType
<1> QED
  BY <1>2, <1>3, <1>4, <1>5

(* How a thread's move changes the two counts.                               *)
LEMMA MoveCounts ==
  ASSUME TasksKnown, NEW t \in Idler, NEW label, Goto(t, label)
  PROVE  /\ Cardinality(ActiveThreads') =
              Cardinality(ActiveThreads)
                + (IF label \in ActivePc THEN 1 ELSE 0)
                - (IF pc[t] \in ActivePc THEN 1 ELSE 0)
         /\ Cardinality(IdleThreads') =
              Cardinality(IdleThreads)
                + (IF label \in IdlePc THEN 1 ELSE 0)
                - (IF pc[t] \in IdlePc THEN 1 ELSE 0)
<1>1. pc'[t] = label /\ \A u \in Idler : u # t => pc'[u] = pc[u]
  BY DEF Goto, TasksKnown
<1>2. /\ ActiveThreads' = IF label \in ActivePc THEN ActiveThreads \cup {t} ELSE ActiveThreads \ {t}
      /\ t \in ActiveThreads <=> pc[t] \in ActivePc
  BY <1>1 DEF ActiveThreads
<1>3. /\ IdleThreads' = IF label \in IdlePc
                        THEN IdleThreads \cup {t} ELSE IdleThreads \ {t}
      /\ t \in IdleThreads <=> pc[t] \in IdlePc
  BY <1>1 DEF IdleThreads
<1>4. /\ Cardinality(ActiveThreads \cup {t}) =
           IF t \in ActiveThreads THEN Cardinality(ActiveThreads) ELSE Cardinality(ActiveThreads) + 1
      /\ Cardinality(ActiveThreads \ {t}) =
           IF t \in ActiveThreads THEN Cardinality(ActiveThreads) - 1 ELSE Cardinality(ActiveThreads)
      /\ Cardinality(IdleThreads \cup {t}) =
           IF t \in IdleThreads THEN Cardinality(IdleThreads) ELSE Cardinality(IdleThreads) + 1
      /\ Cardinality(IdleThreads \ {t}) =
           IF t \in IdleThreads THEN Cardinality(IdleThreads) - 1 ELSE Cardinality(IdleThreads)
  BY CountsFinite, FS_AddElement, FS_RemoveElement
<1>5. Cardinality(ActiveThreads) \in Nat /\ Cardinality(IdleThreads) \in Nat
  BY CountsFinite, FS_CardinalityType
<1>6. Cardinality(ActiveThreads') =
        Cardinality(ActiveThreads)
          + (IF label \in ActivePc THEN 1 ELSE 0)
          - (IF pc[t] \in ActivePc THEN 1 ELSE 0)
  BY <1>2, <1>4, <1>5
<1>7. Cardinality(IdleThreads') =
        Cardinality(IdleThreads)
          + (IF label \in IdlePc THEN 1 ELSE 0)
          - (IF pc[t] \in IdlePc THEN 1 ELSE 0)
  BY <1>3, <1>4, <1>5
<1> QED
  BY <1>6, <1>7

(* A thread that stays where it counts as it did.                            *)
LEMMA StayCounts ==
  ASSUME CountInv, NEW t \in Idler, NEW label, Goto(t, label), UNCHANGED countVars,
         label \in ActivePc <=> pc[t] \in ActivePc,
         label \in IdlePc
           <=> pc[t] \in IdlePc
  PROVE  CountersExact'
<1>1. /\ Cardinality(ActiveThreads') = Cardinality(ActiveThreads)
      /\ Cardinality(IdleThreads') = Cardinality(IdleThreads)
  <2>1. Cardinality(ActiveThreads) \in Nat /\ Cardinality(IdleThreads) \in Nat
    BY CountsFinite, FS_CardinalityType
  <2>2. /\ Cardinality(ActiveThreads') = Cardinality(ActiveThreads)
              + (IF label \in ActivePc THEN 1 ELSE 0)
              - (IF pc[t] \in ActivePc THEN 1 ELSE 0)
        /\ Cardinality(IdleThreads') = Cardinality(IdleThreads)
              + (IF label \in IdlePc THEN 1 ELSE 0)
              - (IF pc[t] \in IdlePc THEN 1 ELSE 0)
    BY MoveCounts DEF CountInv, LInv
  <2> QED
    BY <2>1, <2>2
<1> QED
  BY <1>1 DEF CountInv, CountersExact, countVars

LEMMA ScanCounts ==
  ASSUME CountInv, NEW t \in Idler, Scan(t)
  PROVE  CountersExact'
<1> DEFINE i == Stop(t)
<1>1. pc[t] = "scan"
  BY DEF Scan, At
<1>2. CASE i = 0
  <2>1. Goto(t, "noTask") /\ UNCHANGED countVars
    BY <1>2 DEF Scan, Stop, countVars
  <2> QED
    BY <1>1, <2>1, StayCounts DEF ActivePc, IdlePc
<1>3. CASE i # 0
  <2>1. Goto(t, "taken") /\ m_activeThreadCount' = m_activeThreadCount + 1 /\ UNCHANGED m_idleThreadCount
    BY <1>3 DEF Scan, Stop
  <2>2. /\ Cardinality(ActiveThreads') = Cardinality(ActiveThreads) + 1 - 0
        /\ Cardinality(IdleThreads') = Cardinality(IdleThreads) + 0 - 0
    BY <1>1, <2>1, MoveCounts DEF CountInv, LInv, ActivePc, IdlePc
  <2> QED
    BY <2>1, <2>2, CountsFinite DEF CountInv, CountersExact
<1> QED
  BY <1>2, <1>3

LEMMA BackCounts ==
  ASSUME CountInv, NEW t \in Idler, Back(t)
  PROVE  CountersExact'
<1>1. pc[t] = "back" /\ Goto(t, "scan")
  BY DEF Back, At
<1>2. /\ Cardinality(ActiveThreads') = Cardinality(ActiveThreads) + 0 - 1
      /\ Cardinality(IdleThreads') = Cardinality(IdleThreads) + 0 - 0
  BY <1>1, MoveCounts DEF CountInv, LInv, ActivePc, IdlePc
<1> QED
  BY <1>2, CountsFinite DEF Back, CountInv, CountersExact

LEMMA GoIdleCounts ==
  ASSUME CountInv, NEW t \in Idler, GoIdle(t)
  PROVE  CountersExact'
<1>1. pc[t] = "noTask"
  BY DEF GoIdle, At
<1>2. CASE t \in ended
  BY <1>1, <1>2, StayCounts DEF GoIdle, countVars, ActivePc, IdlePc
<1>3. CASE t \notin ended
  <2>1. Goto(t, "idle") /\ m_idleThreadCount' = m_idleThreadCount + 1 /\ UNCHANGED m_activeThreadCount
    BY <1>3 DEF GoIdle
  <2>2. /\ Cardinality(ActiveThreads') = Cardinality(ActiveThreads) + 0 - 0
        /\ Cardinality(IdleThreads') = Cardinality(IdleThreads) + 1 - 0
    BY <1>1, <2>1, MoveCounts DEF CountInv, LInv, ActivePc, IdlePc
  <2> QED
    BY <2>1, <2>2, CountsFinite DEF CountInv, CountersExact
<1> QED
  BY <1>2, <1>3

LEMMA LeaveIdleCounts ==
  ASSUME CountInv, NEW t \in Idler, LeaveIdle(t)
  PROVE  CountersExact'
<1>1. pc[t] \in {"loop", "ended"} /\ Goto(t, "scan")
  BY DEF LeaveIdle, OutOfIdle, At
<1>2. /\ Cardinality(ActiveThreads') = Cardinality(ActiveThreads) + 0 - 0
      /\ Cardinality(IdleThreads') = Cardinality(IdleThreads) + 0 - 1
  BY <1>1, MoveCounts DEF CountInv, LInv, ActivePc, IdlePc
<1> QED
  BY <1>2, CountsFinite DEF LeaveIdle, CountInv, CountersExact

(* The steps inside idle(), and those of a thread that has a fiber.          *)
LEMMA InnerCounts ==
  ASSUME CountInv, NEW t \in Idler,
         \/ AskEvents(t) \/ AskTasks(t) \/ Poll(t)
         \/ Resume(t) \/ FiberSchedules(t) \/ FiberWaits(t) \/ Yield(t) \/ SwapOut(t)
  PROVE  CountersExact'
<1>1. CASE Resume(t) \/ FiberSchedules(t) \/ FiberWaits(t) \/ Yield(t) \/ SwapOut(t)
  <2>1. /\ pc[t] \in {"taken", "exec", "yield", "switch"} /\ UNCHANGED countVars
        /\ \E label \in {"exec", "yield", "switch", "back"} : Goto(t, label)
    BY <1>1 DEF Resume, FiberSchedules, FiberWaits, Yield, SwapOut, At
  <2> QED
    BY <2>1, StayCounts DEF ActivePc, IdlePc
<1>2. CASE AskEvents(t) \/ AskTasks(t) \/ Poll(t)
  <2>1. /\ pc[t] \in {"idle", "ask", "poll"} /\ UNCHANGED countVars
        /\ \E label \in {"ask", "poll", "loop", "ended"} : Goto(t, label)
    BY <1>2 DEF AskEvents, AskTasks, Poll, At
  <2> QED
    BY <2>1, StayCounts DEF ActivePc, IdlePc
<1> QED
  BY <1>1, <1>2

LEMMA NextCountInv == CountInv /\ [LoopNext]_loopVars => CountInv'
<1> SUFFICES ASSUME CountInv, [LoopNext]_loopVars PROVE CountInv'
  OBVIOUS
<1>1. LInv'
  BY NextLInv DEF CountInv
<1>2. ASSUME UNCHANGED <<pc, countVars>> PROVE CountersExact'
  <2>1. ActiveThreads' = ActiveThreads /\ IdleThreads' = IdleThreads
    BY <1>2 DEF ActiveThreads, IdleThreads
  <2> QED
    BY <1>2, <2>1 DEF CountInv, CountersExact, countVars
<1>3. ASSUME ~UNCHANGED <<pc, countVars>> PROVE CountersExact'
  <2>1. ~UNCHANGED loopVars /\ ~OwnerSchedules /\ ~stop /\ ~StopStep /\ ~World
    BY <1>3 DEF OwnerSchedules, stop, StopStep, Join, tickle, World, loopVars, runVars
  <2>2. \A t \in Idler : ~Drain(t) /\ ~Serve(t) /\ ~tickle(t)
    BY <1>3 DEF Drain, Serve, tickle, runVars
  <2>3. PICK t \in Idler :
          \/ Scan(t) \/ Resume(t) \/ FiberSchedules(t) \/ FiberWaits(t)
          \/ Yield(t) \/ SwapOut(t) \/ Back(t) \/ GoIdle(t)
          \/ AskEvents(t) \/ AskTasks(t) \/ Poll(t) \/ LeaveIdle(t)
    BY <1>3, <2>1, <2>2 DEF LoopNext, LoopStep, loopVars, runVars
  <2> QED
    BY <2>3, ScanCounts, BackCounts, GoIdleCounts, LeaveIdleCounts, InnerCounts
<1>4. CountersExact'
  BY <1>2, <1>3
<1>5. RestKnown'
  <2> USE DEF CountInv, RestKnown
  <2>1. CASE UNCHANGED loopVars
    BY <2>1 DEF loopVars, pipeVars, runVars, queueVars, ownerVars
  <2>2. CASE \E t \in Idler : Scan(t) \/ FiberWaits(t) \/ SwapOut(t) \/ Back(t) \/ GoIdle(t) \/ LeaveIdle(t)
    BY <2>2 DEF Scan, FiberWaits, SwapOut, Back, GoIdle, LeaveIdle, fiberVars, pipeVars, queueVars, ownerVars
  <2>3. CASE \E t \in Idler : Resume(t) \/ Yield(t) \/ AskEvents(t) \/ AskTasks(t) \/ Poll(t)
    BY <2>3 DEF Resume, Yield, AskEvents, AskTasks, Poll, fiberVars, pipeVars, queueVars, ownerVars
  <2>4. CASE \E t \in Idler : Drain(t) \/ Serve(t)
    BY <2>4 DEF Drain, Serve, Write, runVars, queueVars, ownerVars
  <2>5. CASE (\E t \in Idler : tickle(t)) \/ StopStep \/ stop \/ World
    BY <2>5 DEF tickle, StopStep, stop, Join, World, Write, pipeVars, runVars, queueVars, ownerVars
  <2>6. ASSUME NEW c \in Idler \cup {None}, NEW f, NEW thread, schedule(c, f, thread)
        PROVE  calls' \in 0 .. MaxSchedule /\ tickling' \subseteq Idler \cup {None}
    BY <2>6, LoopAssumption DEF schedule
  <2>7. CASE OwnerSchedules
    <3>1. calls' \in 0 .. MaxSchedule /\ tickling' \subseteq Idler \cup {None}
      BY <2>6, <2>7 DEF OwnerSchedules
    <3> QED
      BY <2>7, <3>1 DEF OwnerSchedules, pipeVars, runVars, ownerVars
  <2>8. CASE \E t \in Idler : FiberSchedules(t)
    <3>1. calls' \in 0 .. MaxSchedule /\ tickling' \subseteq Idler \cup {None}
      BY <2>6, <2>8 DEF FiberSchedules
    <3> QED
      BY <2>8, <3>1 DEF FiberSchedules, fiberVars, pipeVars, ownerVars
  <2> QED
    BY <2>1, <2>2, <2>3, <2>4, <2>5, <2>7, <2>8 DEF LoopNext, LoopStep
<1> QED
  BY <1>1, <1>4, <1>5 DEF CountInv

LEMMA InitCountInv == LoopInit => CountInv
<1> SUFFICES ASSUME LoopInit PROVE CountInv
  OBVIOUS
<1>1. ActiveThreads = {} /\ IdleThreads = {}
  BY DEF LoopInit, ActiveThreads, IdleThreads, ActivePc, IdlePc
<1>2. CountersExact
  BY <1>1, FS_EmptySet DEF LoopInit, CountersExact
<1>3. RestKnown
  <2>1. 0 \in 0 .. MaxSchedule
    BY LoopAssumption
  <2> QED
    BY <2>1 DEF LoopInit, RestKnown
<1> QED
  BY <1>2, <1>3, InitLInv DEF CountInv

-----------------------------------------------------------------------------
(* Where a fiber is                                                          *)

(* A thread has a fiber from when it takes it until it forgets it.           *)
TaskHeld == \A t \in Idler : task[t] \in Waiter <=> pc[t] \in ActivePc

(* A fiber is RUNING while it executes, which is what the scan looks at.     *)
StateTold == \A t \in Idler : pc[t] \in {"exec", "yield"} => m_state[task[t]] = "RUNING"

(* A fiber that is about to run or runs on, and has not begun to wait or
   scheduled itself, is not in the list and not waiting.                     *)
ExecAlone == \A t \in Idler : pc[t] \in {"taken", "exec"} => task[t] \notin Queued \cup waits

FiberInv == LInv /\ TaskHeld /\ StateTold /\ FibersOnce /\ ExecAlone

(* Of the threads that have one fiber all but one have given it up.          *)
OneExecutes ==
  \A t, u \in Idler :
    task[t] = task[u] /\ task[t] # None /\ t # u => {pc[t], pc[u]} \cap {"switch", "back"} # {}

Listed(s) == {s[k].piber : k \in 1 .. Len(s)}

ListedOnce(s) == \A j, k \in 1 .. Len(s) : s[j].piber = s[k].piber => j = k

LEMMA FibersOnceParts ==
  /\ Queued = Listed(m_tasks)
  /\ FibersOnce <=> /\ OneExecutes
                    /\ ListedOnce(m_tasks)
                    /\ \A w \in waits : w \in Queued <=> due[w] = 1
BY DEF Queued, Listed, FibersOnce, ListedOnce, OneExecutes

(* Two threads that have one fiber, of which one has not given it up.        *)
LEMMA OthersLeave ==
  ASSUME FibersOnce, TaskHeld, NEW t \in Idler, pc[t] \in {"taken", "exec", "yield"}
  PROVE  \A u \in Idler : u # t /\ task[u] = task[t] => pc[u] \in {"switch", "back"}
<1>1. task[t] # None
  BY FdAssumption DEF TaskHeld, ActivePc
<1> QED
  BY <1>1 DEF FibersOnce

(* The list without the entry that is taken.                                 *)
LEMMA TakenOut ==
  ASSUME NEW S, NEW s \in Seq(S), NEW i \in 1 .. Len(s), ListedOnce(s)
  PROVE  /\ ListedOnce(RemoveAt(s, i))
         /\ Listed(RemoveAt(s, i)) = Listed(s) \ {s[i].piber}
<1> DEFINE r == RemoveAt(s, i)
           old(j) == IF j < i THEN j ELSE j + 1
<1>1. Len(s) \in Nat
  OBVIOUS
<1>2. Len(r) = Len(s) - 1 /\ \A j \in 1 .. Len(s) - 1 : r[j] = IF j < i THEN s[j] ELSE s[j + 1]
  BY RestOfList
<1> HIDE DEF r
<1>3. \A j \in 1 .. Len(r) : old(j) \in 1 .. Len(s) \ {i} /\ r[j] = s[old(j)]
  BY <1>1, <1>2
<1>4. \A k \in 1 .. Len(s) \ {i} : \E j \in 1 .. Len(r) : k = old(j)
  <2> SUFFICES ASSUME NEW k \in 1 .. Len(s) \ {i}
               PROVE  \E j \in 1 .. Len(r) : k = old(j)
    OBVIOUS
  <2>1. CASE k < i
    BY <1>1, <1>2, <2>1
  <2>2. CASE k > i
    <3>1. k - 1 \in 1 .. Len(r) /\ k = old(k - 1)
      BY <1>1, <1>2, <2>2
    <3> QED
      BY <3>1
  <2> QED
    BY <1>1, <2>1, <2>2
<1>5. \A j, k \in 1 .. Len(r) : old(j) = old(k) => j = k
  BY <1>1, <1>2
<1> HIDE DEF old
<1>6. Listed(r) = Listed(s) \ {s[i].piber}
  <2>1. ASSUME NEW f \in Listed(r) PROVE f \in Listed(s) \ {s[i].piber}
    BY <1>3, <2>1 DEF Listed, ListedOnce
  <2>2. ASSUME NEW f \in Listed(s) \ {s[i].piber} PROVE f \in Listed(r)
    <3>1. PICK k \in 1 .. Len(s) : f = s[k].piber
      BY <2>2 DEF Listed
    <3>2. k # i
      BY <2>2, <3>1
    <3> QED
      BY <1>3, <1>4, <3>1, <3>2 DEF Listed
  <2> QED
    BY <2>1, <2>2
<1>7. ListedOnce(r)
  BY <1>3, <1>5 DEF ListedOnce
<1> QED
  BY <1>6, <1>7 DEF r

(* The list with one more entry at its end.                                  *)
LEMMA PutIn ==
  ASSUME NEW S, NEW s \in Seq(S), NEW x \in S, ListedOnce(s), x.piber \notin Listed(s)
  PROVE  ListedOnce(Append(s, x)) /\ Listed(Append(s, x)) = Listed(s) \cup {x.piber}
<1> DEFINE r == Append(s, x)
<1>1. /\ Len(s) \in Nat /\ Len(r) = Len(s) + 1 /\ r[Len(s) + 1] = x
      /\ \A k \in 1 .. Len(s) : r[k] = s[k]
  OBVIOUS
<1> HIDE DEF r
<1>2. \A k \in 1 .. Len(r) : k \in 1 .. Len(s) \/ k = Len(s) + 1
  BY <1>1
<1>3. \A k \in 1 .. Len(s) : k \in 1 .. Len(r) /\ s[k].piber # x.piber
  BY <1>1 DEF Listed
<1>4. Len(s) + 1 \in 1 .. Len(r)
  BY <1>1
<1>5. ListedOnce(r)
  BY <1>1, <1>2, <1>3 DEF ListedOnce
<1>6. Listed(r) = Listed(s) \cup {x.piber}
  BY <1>1, <1>2, <1>3, <1>4 DEF Listed
<1> QED
  BY <1>5, <1>6 DEF r

LEMMA ScanFiber ==
  ASSUME FiberInv, NEW t \in Idler, Scan(t)
  PROVE  FiberInv'
<1> USE DEF FiberInv
<1> DEFINE i == Stop(t)
<1>1. i \in 0 .. Len(m_tasks) /\ Len(m_tasks) \in Nat /\ (i # 0 => Eligible(t, m_tasks[i]))
  BY ScanStops DEF LInv, TasksKnown
<1>2. LInv' /\ pc[t] = "scan"
  BY NextLInv DEF LoopNext, LoopStep, Scan, At
<1>3. CASE i = 0
  <2>1. UNCHANGED <<fdVars, m_tasks, task, m_state>> /\ pc' = [pc EXCEPT ![t] = "noTask"]
    BY <1>3 DEF Scan, Goto, Stop, fiberVars
  <2>2. pc'[t] = "noTask" /\ \A u \in Idler : u # t => pc'[u] = pc[u]
    BY <2>1 DEF LInv, TasksKnown
  <2>3. TaskHeld' /\ ExecAlone' /\ StateTold'
    BY <1>2, <2>1, <2>2 DEF TaskHeld, ExecAlone, StateTold, ActivePc, Queued, fdVars, vars
  <2>4. task[t] = None
    BY <1>2 DEF TaskHeld, LInv, TasksKnown, ActivePc
  <2>5. FibersOnce'
    BY <2>1, <2>2, <2>4 DEF FibersOnce, Queued, fdVars, vars
  <2> QED
    BY <1>2, <2>3, <2>5
<1>4. CASE i # 0
  <2> DEFINE f == m_tasks[i].piber
  <2>1. /\ pc' = [pc EXCEPT ![t] = "taken"] /\ UNCHANGED m_state
        /\ task' = [task EXCEPT ![t] = f]
        /\ m_tasks' = RemoveAt(m_tasks, i)
        /\ IF f \in waits THEN Run(f) ELSE UNCHANGED fdVars
    BY <1>4 DEF Scan, Goto, Stop, fiberVars
  <2> HIDE DEF i
  <2>2. i \in 1 .. Len(m_tasks)
    BY <1>1, <1>4
  <2>3. f \in Waiter /\ f \in Queued /\ m_state[f] # "RUNING"
    <3>1. m_tasks[i] \in Entry
      BY <2>2 DEF LInv, TasksKnown
    <3> QED
      BY <1>1, <1>4, <2>2, <3>1 DEF Entry, Eligible, Queued
  <2>4. Queued' = Queued \ {f} /\ ListedOnce(m_tasks')
    <3>1. m_tasks \in Seq(Entry) /\ ListedOnce(m_tasks) /\ Queued = Listed(m_tasks)
      BY FibersOnceParts DEF LInv, TasksKnown
    <3>2. /\ ListedOnce(RemoveAt(m_tasks, i))
          /\ Listed(RemoveAt(m_tasks, i)) = Listed(m_tasks) \ {f}
      BY <2>2, <3>1, TakenOut
    <3>3. Queued' = Listed(m_tasks')
      BY DEF Queued, Listed
    <3> QED
      BY <2>1, <3>1, <3>2, <3>3
  <2> HIDE DEF f
  <2>5. waits' = waits \ {f} /\ \A w \in waits : w # f => due'[w] = due[w]
    BY <2>1 DEF Run, LInv, FInv, TypeOK, fdVars, vars
  <2>6. /\ pc'[t] = "taken" /\ task'[t] = f
        /\ \A u \in Idler : u # t => pc'[u] = pc[u] /\ task'[u] = task[u]
    BY <2>1 DEF LInv, TasksKnown
  <2>7. \A u \in Idler : task[u] = f => pc[u] \in {"switch", "back"}
    BY <2>3 DEF TaskHeld, StateTold, ExecAlone, ActivePc
  <2>8. TaskHeld'
    BY <2>3, <2>6 DEF TaskHeld, ActivePc
  <2>9. StateTold'
    BY <2>1, <2>6 DEF StateTold
  <2>10. ExecAlone'
    <3>1. f \notin Queued' \cup waits'
      BY <2>4, <2>5
    <3>2. \A u \in Idler : u # t /\ pc'[u] \in {"taken", "exec"} => task'[u] \notin Queued' \cup waits'
      BY <2>4, <2>5, <2>6 DEF ExecAlone
    <3> QED
      BY <2>6, <3>1, <3>2 DEF ExecAlone
  <2>11. FibersOnce'
    <3>1. OneExecutes'
      <4> SUFFICES ASSUME NEW u \in Idler, NEW v \in Idler,
                          task'[u] = task'[v], task'[u] # None, u # v
                   PROVE  {pc'[u], pc'[v]} \cap {"switch", "back"} # {}
        BY DEF OneExecutes
      <4>1. CASE u = t \/ v = t
        BY <2>6, <2>7, <4>1
      <4>2. CASE u # t /\ v # t
        BY <2>6, <4>2, FibersOnceParts DEF OneExecutes
      <4> QED
        BY <4>1, <4>2
    <3>2. \A w \in waits' : w \in Queued' <=> due'[w] = 1
      BY <2>4, <2>5, FibersOnceParts
    <3> QED
      BY <2>4, <3>1, <3>2, FibersOnceParts DEF FibersOnce, ListedOnce, OneExecutes
  <2> QED
    BY <1>2, <2>8, <2>9, <2>10, <2>11
<1> QED
  BY <1>3, <1>4

(* schedule() of a fiber that is nowhere in the list and waits for nothing.   *)
LEMMA ScheduleLists ==
  ASSUME LInv, ListedOnce(m_tasks), NEW c, NEW f \in Waiter, NEW thread \in Idler \cup {None},
         schedule(c, f, thread), f \notin Queued
  PROVE  Queued' = Queued \cup {f} /\ ListedOnce(m_tasks')
<1> DEFINE x == [piber |-> f, thread |-> thread]
<1>1. x \in Entry /\ x.piber = f /\ m_tasks \in Seq(Entry) /\ m_tasks' = Append(m_tasks, x)
  BY DEF Entry, schedule, LInv, TasksKnown
<1> HIDE DEF x
<1>2. ListedOnce(Append(m_tasks, x)) /\ Listed(Append(m_tasks, x)) = Listed(m_tasks) \cup {f}
  BY <1>1, PutIn, FibersOnceParts
<1>3. Queued = Listed(m_tasks) /\ Queued' = Listed(m_tasks')
  BY DEF Queued, Listed
<1> QED
  BY <1>1, <1>2, <1>3

LEMMA OwnerSchedulesFiber ==
  ASSUME FiberInv, OwnerSchedules
  PROVE  FiberInv'
<1> USE DEF FiberInv
<1>1. LInv'
  BY NextLInv DEF LoopNext
<1>2. PICK f \in Waiter : Free(f) /\ \E thread \in Idler \cup {None} : schedule(None, f, thread)
  BY DEF OwnerSchedules
<1>3. UNCHANGED <<fdVars, pc, task, m_state>>
  BY DEF OwnerSchedules, runVars
<1>4. Queued' = Queued \cup {f} /\ ListedOnce(m_tasks')
  BY <1>2, ScheduleLists, FibersOnceParts DEF Free
<1>5. TaskHeld' /\ StateTold'
  BY <1>3 DEF TaskHeld, StateTold
<1>6. ExecAlone'
  <2>1. \A u \in Idler : task[u] # f
    BY <1>2, FdAssumption DEF Free, Running
  <2> QED
    BY <1>3, <1>4, <2>1 DEF ExecAlone, fdVars, vars
<1>7. FibersOnce'
  BY <1>2, <1>3, <1>4, FibersOnceParts DEF FibersOnce, ListedOnce, Free, fdVars, vars
<1> QED
  BY <1>1, <1>5, <1>6, <1>7

LEMMA FiberSchedulesFiber ==
  ASSUME FiberInv, NEW t \in Idler, FiberSchedules(t)
  PROVE  FiberInv'
<1> USE DEF FiberInv
<1>1. LInv' /\ pc[t] = "exec"
  BY NextLInv DEF LoopNext, LoopStep, FiberSchedules, At
<1>2. PICK f \in Waiter :
        /\ Free(f) \/ f = task[t]
        /\ \E thread \in Idler \cup {None} : schedule(t, f, thread)
        /\ Goto(t, IF f = task[t] THEN "yield" ELSE "exec")
  BY DEF FiberSchedules
<1>3. UNCHANGED <<fdVars, task, m_state>>
  BY DEF FiberSchedules, fiberVars
<1>4. f \notin Queued /\ f \notin waits
  BY <1>1, <1>2 DEF Free, ExecAlone
<1>5. Queued' = Queued \cup {f} /\ ListedOnce(m_tasks')
  BY <1>2, <1>4, ScheduleLists, FibersOnceParts
<1>6. /\ pc'[t] = (IF f = task[t] THEN "yield" ELSE "exec")
      /\ \A u \in Idler : u # t => pc'[u] = pc[u]
  BY <1>2 DEF Goto, LInv, TasksKnown
<1>7. TaskHeld' /\ StateTold'
  BY <1>1, <1>3, <1>6 DEF TaskHeld, StateTold, ActivePc
<1>8. ExecAlone'
  <2> SUFFICES ASSUME NEW u \in Idler, pc'[u] \in {"taken", "exec"}
               PROVE  task'[u] \notin Queued' \cup waits'
    BY DEF ExecAlone
  <2>1. pc[u] \in {"taken", "exec"} /\ task[u] \in Waiter /\ task[u] \notin Queued \cup waits
    BY <1>1, <1>6 DEF TaskHeld, ExecAlone, ActivePc
  <2>2. task[u] # f
    <3>1. CASE f = task[t]
      <4>1. u # t
        BY <1>6, <3>1
      <4> QED
        BY <1>1, <2>1, <3>1, <4>1, OthersLeave
    <3>2. CASE Free(f)
      BY <2>1, <3>2, FdAssumption DEF Free, Running
    <3> QED
      BY <1>2, <3>1, <3>2
  <2> QED
    BY <1>3, <1>5, <2>1, <2>2 DEF fdVars, vars
<1>9. OneExecutes'
  BY <1>1, <1>3, <1>6, FibersOnceParts DEF OneExecutes
<1>10. FibersOnce'
  BY <1>3, <1>4, <1>5, <1>9, FibersOnceParts DEF FibersOnce, ListedOnce, OneExecutes, fdVars, vars
<1> QED
  BY <1>1, <1>7, <1>8, <1>10

LEMMA FiberWaitsFiber ==
  ASSUME FiberInv, NEW t \in Idler, FiberWaits(t)
  PROVE  FiberInv'
<1> USE DEF FiberInv
<1>1. LInv' /\ pc[t] = "exec" /\ addEvent(task[t])
  BY NextLInv DEF LoopNext, LoopStep, FiberWaits, At
<1>2. UNCHANGED <<task, m_tasks, due, m_state>> /\ waits' = waits \cup {task[t]} /\ pc' = [pc EXCEPT ![t] = "yield"]
  BY DEF FiberWaits, addEvent, Goto, queueVars, fiberVars
<1>3. task[t] \in Waiter /\ task[t] \notin Queued /\ due[task[t]] # 1
  BY <1>1 DEF TaskHeld, ExecAlone, ActivePc, LInv, FInv, DueWhenTaken
<1>4. Queued' = Queued
  BY <1>2 DEF Queued
<1>5. pc'[t] = "yield" /\ \A u \in Idler : u # t => pc'[u] = pc[u]
  BY <1>2 DEF LInv, TasksKnown
<1>6. TaskHeld' /\ StateTold'
  BY <1>1, <1>2, <1>5 DEF TaskHeld, StateTold, ActivePc
<1>7. \A u \in Idler : u # t /\ task[u] = task[t] => pc[u] \in {"switch", "back"}
  BY <1>1, OthersLeave
<1>8. ExecAlone'
  BY <1>2, <1>4, <1>5, <1>7 DEF ExecAlone
<1>9. OneExecutes'
  BY <1>1, <1>2, <1>5, FibersOnceParts DEF OneExecutes
<1>10. FibersOnce'
  BY <1>2, <1>3, <1>4, <1>9, FibersOnceParts DEF FibersOnce, ListedOnce, OneExecutes
<1> QED
  BY <1>1, <1>6, <1>8, <1>10

(* resume(), and yield() up to swapcontext: they touch nothing but the state. *)
LEMMA StateFiber ==
  ASSUME FiberInv, NEW t \in Idler, Resume(t) \/ Yield(t) \/ SwapOut(t)
  PROVE  FiberInv'
<1> USE DEF FiberInv
<1>1. LInv'
  BY NextLInv DEF LoopNext, LoopStep
<1>2. /\ UNCHANGED <<fdVars, m_tasks, task>>
      /\ pc[t] \in {"taken", "exec", "yield", "switch"}
      /\ \E p \in {"exec", "switch", "back"} : pc' = [pc EXCEPT ![t] = p]
  BY DEF Resume, Yield, SwapOut, At, Goto, queueVars
<1>3. /\ pc'[t] \in {"exec", "switch", "back"} /\ pc'[t] = "exec" => pc[t] = "taken"
      /\ pc[t] \in {"exec", "yield"} => pc'[t] = "switch"
      /\ pc[t] = "switch" => pc'[t] = "back"
      /\ \A u \in Idler : u # t => pc'[u] = pc[u]
  BY DEF Resume, Yield, SwapOut, At, Goto, LInv, TasksKnown
<1>4. TaskHeld' /\ ExecAlone'
  BY <1>2, <1>3 DEF TaskHeld, ExecAlone, ActivePc, Queued, fdVars, vars
<1>5. StateTold'
  <2>1. CASE Resume(t)
    <3>1. m_state' = [m_state EXCEPT ![task[t]] = "RUNING"] /\ task[t] \in Waiter
      BY <2>1 DEF Resume, At, LInv, TasksKnown
    <3>2. \A w \in Waiter : m_state'[w] = IF w = task[t] THEN "RUNING" ELSE m_state[w]
      BY <3>1 DEF LInv, TasksKnown
    <3>3. \A u \in Idler : pc[u] \in {"exec", "yield"} => task[u] \in Waiter
      BY DEF LInv, TasksKnown
    <3> QED
      BY <1>2, <1>3, <3>1, <3>2, <3>3 DEF StateTold
  <2>2. CASE Yield(t)
    <3>1. m_state' = [m_state EXCEPT ![task[t]] = "READY"] /\ pc[t] \in {"exec", "yield"} /\ pc'[t] = "switch"
      BY <1>3, <2>2 DEF Yield, At
    <3>2. \A u \in Idler : u # t /\ pc[u] \in {"exec", "yield"} => task[u] # task[t]
      BY <3>1, OthersLeave
    <3> QED
      BY <1>2, <1>3, <3>1, <3>2 DEF StateTold, LInv, TasksKnown
  <2>3. CASE SwapOut(t)
    BY <1>2, <1>3, <2>3 DEF SwapOut, At, StateTold, fiberVars
  <2> QED
    BY <2>1, <2>2, <2>3
<1>6. OneExecutes'
  BY <1>2, <1>3, FibersOnceParts DEF OneExecutes
<1>7. FibersOnce'
  BY <1>2, <1>6 DEF FibersOnce, OneExecutes, Queued, fdVars, vars
<1> QED
  BY <1>1, <1>4, <1>5, <1>7

LEMMA BackFiber ==
  ASSUME FiberInv, NEW t \in Idler, Back(t)
  PROVE  FiberInv'
<1> USE DEF FiberInv
<1>1. LInv'
  BY NextLInv DEF LoopNext, LoopStep
<1>2. UNCHANGED <<fdVars, m_tasks, m_state>> /\ task' = [task EXCEPT ![t] = None] /\ pc' = [pc EXCEPT ![t] = "scan"]
  BY DEF Back, Goto, queueVars, fiberVars
<1>3. /\ task'[t] = None /\ pc'[t] = "scan"
      /\ \A u \in Idler : u # t => pc'[u] = pc[u] /\ task'[u] = task[u]
  BY <1>2 DEF LInv, TasksKnown
<1>4. TaskHeld' /\ ExecAlone' /\ StateTold'
  BY <1>2, <1>3, FdAssumption DEF TaskHeld, ExecAlone, StateTold, ActivePc, Queued, fdVars, vars
<1>5. OneExecutes'
  BY <1>3, FibersOnceParts DEF OneExecutes
<1>6. FibersOnce'
  BY <1>2, <1>5 DEF FibersOnce, OneExecutes, Queued, fdVars, vars
<1> QED
  BY <1>1, <1>4, <1>6

(* What the loop over a report schedules for an event.                        *)
Fired(e) == IF e \in events \ events' THEN <<[piber |-> piber[e], thread |-> None]>> ELSE <<>>

FiredFiber(e) == {piber[x] : x \in {e} \cap (events \ events')}

LEMMA FiredLists ==
  ASSUME LInv, NEW s \in Seq(Entry), ListedOnce(s), NEW e \in Event,
         e \in events \ events' => piber[e] \notin Listed(s)
  PROVE  /\ s \o Fired(e) \in Seq(Entry) /\ ListedOnce(s \o Fired(e))
         /\ Listed(s \o Fired(e)) = Listed(s) \cup FiredFiber(e)
<1>1. CASE e \in events \ events'
  <2> DEFINE x == [piber |-> piber[e], thread |-> None]
  <2>1. piber[e] \in Waiter
    BY <1>1 DEF LInv, FInv, Contexts, TypeOK
  <2>2. x \in Entry /\ x.piber = piber[e] /\ Fired(e) = <<x>>
    BY <1>1, <2>1 DEF Entry, Fired
  <2>3. FiredFiber(e) = {piber[e]}
    BY <1>1 DEF FiredFiber
  <2> HIDE DEF x
  <2>4. s \o Fired(e) = Append(s, x)
    BY <2>2
  <2>5. /\ ListedOnce(Append(s, x)) /\ Listed(Append(s, x)) = Listed(s) \cup {piber[e]}
        /\ Append(s, x) \in Seq(Entry)
    BY <1>1, <2>2, PutIn
  <2> QED
    BY <2>3, <2>4, <2>5
<1>2. CASE e \notin events \ events'
  <2>1. FiredFiber(e) = {} /\ s \o Fired(e) = s
    BY <1>2 DEF Fired, FiredFiber
  <2> QED
    BY <2>1
<1> QED
  BY <1>1, <1>2

LEMMA ServeFiber ==
  ASSUME FiberInv, NEW t \in Idler, Serve(t)
  PROVE  FiberInv'
<1> USE DEF FiberInv
<1>1. LInv'
  BY NextLInv DEF LoopNext, LoopStep
<1>2. UNCHANGED <<task, pc, waits, m_state>> /\ m_tasks' = m_tasks \o Fired("READ") \o Fired("WRITE")
  BY DEF Serve, Handle, Fired, runVars
<1>3. \A e \in Event : piber'[e] = IF e \in events \ events' THEN None ELSE piber[e]
  <2>1. UNCHANGED <<events, piber>> \/ \E set \in SUBSET Event : triggerEvent(set)
    BY DEF Serve, Handle, real_events, LInv, FInv, TypeOK
  <2> QED
    BY <2>1 DEF triggerEvent, LInv, FInv, Contexts
<1>4. \A e \in events : piber[e] \in waits /\ Of(piber[e]) = e
  BY DEF LInv, FInv, Contexts, TypeOK
<1>5. \A e \in events : piber[e] \notin Queued
  <2>1. \A e \in events : due[piber[e]] = 0
    BY <1>4 DEF LInv, FInv, DueWhenTaken, TypeOK
  <2> QED
    BY <1>4, <2>1, FibersOnceParts
<1>6. ListedOnce(m_tasks') /\ Listed(m_tasks') = Queued \cup FiredFiber("READ") \cup FiredFiber("WRITE")
  <2>1. m_tasks \in Seq(Entry) /\ ListedOnce(m_tasks) /\ Queued = Listed(m_tasks)
    BY FibersOnceParts DEF LInv, TasksKnown
  <2>2. "READ" \in Event /\ "WRITE" \in Event
    BY DEF Event
  <2> DEFINE s == m_tasks \o Fired("READ")
  <2>3. s \in Seq(Entry) /\ ListedOnce(s) /\ Listed(s) = Queued \cup FiredFiber("READ")
    BY <1>5, <2>1, <2>2, FiredLists
  <2> HIDE DEF s
  <2>4. "WRITE" \in events \ events' => piber["WRITE"] \notin Listed(s)
    BY <1>4, <1>5, <2>3 DEF FiredFiber
  <2>5. ListedOnce(s \o Fired("WRITE")) /\ Listed(s \o Fired("WRITE")) = Listed(s) \cup FiredFiber("WRITE")
    BY <2>2, <2>3, <2>4, FiredLists
  <2> QED
    BY <1>2, <2>3, <2>5 DEF s
<1>7. Queued' = Listed(m_tasks')
  BY DEF Queued, Listed
<1>8. \A w \in Waiter : w \in Queued' <=> w \in Queued \/ \E e \in events \ events' : piber[e] = w
  BY <1>6, <1>7 DEF FiredFiber, LInv, FInv, TypeOK, Event
<1>9. TaskHeld' /\ StateTold'
  BY <1>2 DEF TaskHeld, StateTold
<1>10. ExecAlone'
  <2>1. \A u \in Idler : pc[u] \in {"taken", "exec"} => task[u] \in Waiter
    BY DEF LInv, TasksKnown
  <2> QED
    BY <1>2, <1>4, <1>8, <2>1 DEF ExecAlone
<1>11. \A w \in waits' : w \in Queued' <=> due'[w] = 1
  <2> SUFFICES ASSUME NEW w \in waits PROVE w \in Queued' <=> due'[w] = 1
    BY <1>2
  <2>1. w \in Waiter /\ w \in waits'
    BY <1>2 DEF LInv, FInv, TypeOK
  <2>2. due[w] = 1 <=> piber[Of(w)] # w
    BY <2>1 DEF LInv, FInv, DueWhenTaken
  <2>3. due'[w] = 1 <=> piber'[Of(w)] # w
    BY <1>1, <2>1 DEF LInv, FInv, DueWhenTaken, Of
  <2>4. piber'[Of(w)] = w <=> piber[Of(w)] = w /\ Of(w) \notin events \ events'
    BY <1>3, <2>1, OfEvent, FdAssumption
  <2>5. (\E e \in events \ events' : piber[e] = w) <=> Of(w) \in events \ events' /\ piber[Of(w)] = w
    BY <1>4
  <2>6. w \in Queued <=> due[w] = 1
    BY FibersOnceParts
  <2> QED
    BY <1>8, <2>1, <2>2, <2>3, <2>4, <2>5, <2>6
<1>12. FibersOnce'
  BY <1>2, <1>6, <1>11, FibersOnceParts DEF FibersOnce, ListedOnce
<1> QED
  BY <1>1, <1>9, <1>10, <1>12

(* Steps that move no fiber: a thread without one goes on, or the world does. *)
LEMMA OtherFiber ==
  ASSUME FiberInv, LInv',
         UNCHANGED <<task, m_tasks, waits, due, m_state>>,
         UNCHANGED pc \/ \E t \in Idler : /\ pc[t] \notin ActivePc
                                          /\ \E label \in {"gone", "idle", "ask", "poll", "loop", "ended", "scan"} :
                                               Goto(t, label)
  PROVE  FiberInv'
<1> USE DEF FiberInv
<1>1. \A t \in Idler : /\ pc'[t] \in ActivePc <=> pc[t] \in ActivePc
                       /\ pc'[t] \in ActivePc => pc'[t] = pc[t]
  BY DEF Goto, LInv, TasksKnown, ActivePc
<1>2. TaskHeld' /\ ExecAlone' /\ StateTold'
  <2>1. TaskHeld'
    BY <1>1 DEF TaskHeld
  <2>2. ExecAlone' /\ StateTold'
    BY <1>1 DEF ExecAlone, StateTold, ActivePc, Queued
  <2> QED
    BY <2>1, <2>2
<1>3. \A t \in Idler : task[t] # None => pc'[t] = pc[t]
  BY <1>1 DEF TaskHeld, LInv, TasksKnown
<1>4. FibersOnce'
  BY <1>3 DEF FibersOnce, Queued
<1> QED
  BY <1>2, <1>4

LEMMA NextFiberInv == FiberInv /\ [LoopNext]_loopVars => FiberInv'
<1> SUFFICES ASSUME FiberInv, [LoopNext]_loopVars PROVE FiberInv'
  OBVIOUS
<1>1. LInv'
  BY NextLInv DEF FiberInv
<1>2. CASE UNCHANGED loopVars
  BY <1>1, <1>2, OtherFiber DEF loopVars, fdVars, vars, runVars, queueVars
<1>3. CASE \E t \in Idler : GoIdle(t) \/ AskEvents(t) \/ AskTasks(t) \/ LeaveIdle(t)
  <2>1. PICK t \in Idler : GoIdle(t) \/ AskEvents(t) \/ AskTasks(t) \/ LeaveIdle(t)
    BY <1>3
  <2>2. UNCHANGED <<task, m_tasks, waits, due, m_state>> /\ pc[t] \notin ActivePc
    BY <2>1 DEF GoIdle, AskEvents, AskTasks, LeaveIdle, OutOfIdle, At, ActivePc, fdVars, vars, queueVars, fiberVars
  <2>3. \E label \in {"gone", "idle", "ask", "poll", "loop", "ended", "scan"} : Goto(t, label)
    BY <2>1 DEF GoIdle, AskEvents, AskTasks, LeaveIdle
  <2> QED
    BY <1>1, <2>2, <2>3, OtherFiber
<1>4. CASE \E t \in Idler : Poll(t)
  <2>1. PICK t \in Idler : Poll(t)
    BY <1>4
  <2>2. UNCHANGED <<task, m_tasks, waits, due, m_state>> /\ pc[t] = "poll" /\ Goto(t, "loop")
    BY <2>1 DEF Poll, epoll_wait, At, fdVars, vars, queueVars, fiberVars
  <2> QED
    BY <1>1, <2>2, OtherFiber DEF ActivePc
<1>5. CASE (\E t \in Idler : Drain(t) \/ tickle(t)) \/ StopStep \/ stop
  <2>1. UNCHANGED <<task, m_tasks, waits, due, m_state, pc>>
    BY <1>5 DEF Drain, tickle, StopStep, Join, stop, fdVars, vars, runVars, queueVars
  <2> QED
    BY <1>1, <2>1, OtherFiber
<1>6. CASE World
  <2>1. UNCHANGED <<task, m_tasks, waits, due, m_state, pc>>
    BY <1>6 DEF World, Arrive, Consume, runVars, queueVars
  <2> QED
    BY <1>1, <2>1, OtherFiber
<1> QED
  BY <1>2, <1>3, <1>4, <1>5, <1>6, ScanFiber, OwnerSchedulesFiber, FiberSchedulesFiber,
     FiberWaitsFiber, StateFiber, BackFiber, ServeFiber
  DEF LoopNext, LoopStep

LEMMA InitFiberInv == LoopInit => FiberInv
<1> SUFFICES ASSUME LoopInit PROVE FiberInv
  OBVIOUS
<1>1. Queued = {} /\ waits = {}
  BY DEF LoopInit, Init, Queued
<1>2. TaskHeld /\ ExecAlone /\ StateTold
  BY FdAssumption DEF LoopInit, TaskHeld, ExecAlone, StateTold, ActivePc
<1>3. FibersOnce
  BY <1>1 DEF LoopInit, FibersOnce
<1> QED
  BY <1>2, <1>3, InitLInv DEF FiberInv

-----------------------------------------------------------------------------
(* The threads of the manager treat the descriptor as FdEvents describes it:
   the loop implements that module's initial states and steps.               *)
THEOREM LoopImplementsFd == LoopSpec => Init /\ [][Next]_fdVars
<1>1. LoopInit => Init
  BY DEF LoopInit
<1> QED
  BY <1>1, InitLInv, NextLInv, PTL DEF LoopSpec

(* While the loop runs a waiter is registered or triggered, once, as long as it
   waits, and an event that is ready and registered is not missed.           *)
THEOREM LoopWaitersAccounted == LoopSpec => [](WaitersAccounted /\ NothingMissed)
<1>1. FInv => WaitersAccounted /\ NothingMissed
  BY FInvAccounts DEF FInv
<1>2. LInv => FInv
  BY DEF LInv
<1> QED
  BY <1>1, <1>2, InitLInv, NextLInv, PTL DEF LoopSpec

(* Every variable of the loop keeps its type: the counters stay between zero
   and the number of threads, whoever comes and goes.                        *)
THEOREM LoopTypesOK == LoopSpec => []LoopTypeOK
<1>1. CountInv => LoopTypeOK
  <2> SUFFICES ASSUME CountInv PROVE LoopTypeOK
    OBVIOUS
  <2>1. /\ m_activeThreadCount \in 0 .. Cardinality(Idler)
        /\ m_idleThreadCount \in 0 .. Cardinality(Idler)
    BY CountsFinite DEF CountInv, CountersExact
  <2> QED
    BY <2>1 DEF LoopTypeOK, CountInv, LInv, FInv, TasksKnown, ActivePc, IdlePc, Entry, RestKnown
<1> QED
  BY <1>1, InitCountInv, NextCountInv, PTL DEF LoopSpec

(* What stopping() reads is how many threads hold a task, and what tickle()
   reads how many are in idle(), at every moment and for any pool.           *)
THEOREM LoopCountersExact == LoopSpec => []CountersExact
<1>1. CountInv => CountersExact
  BY DEF CountInv
<1> QED
  BY <1>1, InitCountInv, NextCountInv, PTL DEF LoopSpec

(* Of the threads that have one fiber all but one have given it up; a fiber is
   in the list once, and one that waits is there from when idle() triggers it
   until a thread takes it.                                                  *)
THEOREM LoopFibersOnce == LoopSpec => []FibersOnce
<1>1. FiberInv => FibersOnce
  BY DEF FiberInv
<1> QED
  BY <1>1, InitFiberInv, NextFiberInv, PTL DEF LoopSpec
=============================================================================
