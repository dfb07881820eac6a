---------------------------- MODULE TimerProofs ----------------------------
(***************************************************************************)
(* Timers and their manager, for any number of timers, of threads that     *)
(* collect, of clocks and intervals, with unsigned time of any width: the  *)
(* set and the timers agree on every expiry, so that every timer that has  *)
(* its callback is found, and no cancelled one is handed out.  With one    *)
(* sleeper and a clock that behaves, nothing comes early or is slept past. *)
(***************************************************************************)
EXTENDS Timer, WellFoundedInduction, TLAPS

Armed(t) == stage[t] = "added" /\ m_cb[t]

(* What is in the set is each armed timer, under the expiry it has now.      *)
Filed ==
  \A n \in Time, t \in Handle : [next |-> n, timer |-> t] \in m_timers <=> n = m_next[t] /\ Armed(t)

(* A timer has its callback until that is cancelled or handed out for good.  *)
SettledIdle == \A t \in Handle : fate[t] # "pending" => stage[t] = "added" /\ ~m_cb[t]

MadeArmed == \A t \in Handle : stage[t] = "made" => m_cb[t]

TInv == TypeOK /\ Filed /\ SettledIdle /\ MadeArmed

-----------------------------------------------------------------------------
LEMMA PlusTime == ASSUME NEW a \in Int, NEW b \in Int PROVE Plus(a, b) \in Time
<1>1. Wrap \in Int /\ Wrap > 0 /\ a + b \in Int
  BY TimerAssumption
<1> QED
  BY <1>1 DEF Plus, Time

LEMMA TimeNat == Time \subseteq Nat /\ Wrap \in Nat /\ 0 \in Time
BY TimerAssumption DEF Time

LEMMA TimeInt == \A n \in Time : n \in Int
BY DEF Time

(* An element of the set is its two fields.                                  *)
LEMMA EntryFields ==
  ASSUME NEW S \in SUBSET [next : Time, timer : Handle], NEW k \in S
  PROVE  k.next \in Time /\ k.timer \in Handle /\ k = [next |-> k.next, timer |-> k.timer]
OBVIOUS

(* The first expiry of a set that is not empty.                              *)
LEMMA FrontFirst ==
  ASSUME TypeOK, m_timers # {}
  PROVE  Front \in m_timers /\ \A k \in m_timers : Front.next <= k.next
<1> DEFINE nexts == {k.next : k \in m_timers}
<1>1. nexts \in SUBSET Nat /\ nexts # {}
  BY TimeNat DEF TypeOK
<1>2. PICK n \in nexts : \A m \in nexts : n <= m
  <2>1. \E n \in nexts : \A m \in nexts : <<m, n>> \notin OpToRel(<, Nat)
    BY <1>1, NatLessThanWellFounded, WFMin
  <2>2. \A n \in nexts, m \in nexts : <<m, n>> \notin OpToRel(<, Nat) => n <= m
    BY <1>1 DEF OpToRel
  <2> QED
    BY <2>1, <2>2
<1>3. \E k \in m_timers : \A other \in m_timers : k.next <= other.next
  BY <1>2
<1> QED
  BY <1>3 DEF Front

(* A timer that moves is in the set under its new expiry, and no more under
   the one it had.                                                           *)
LEMMA MovedFiled ==
  ASSUME TInv, NEW t \in Handle, NEW n \in Time, Armed(t),
         m_next' = [m_next EXCEPT ![t] = n],
         m_timers' = (m_timers \ {Key(t)}) \cup {[next |-> n, timer |-> t]},
         UNCHANGED <<stage, m_cb>>
  PROVE  Filed' /\ m_timers' \in SUBSET [next : Time, timer : Handle]
<1>1. m_timers' \in SUBSET [next : Time, timer : Handle]
  BY DEF TInv, TypeOK
<1>2. ASSUME NEW m \in Time, NEW u \in Handle
      PROVE  [next |-> m, timer |-> u] \in m_timers' <=> m = m_next'[u] /\ Armed(u)'
  <2>1. [next |-> m, timer |-> u] = Key(t) <=> m = m_next[t] /\ u = t
    BY DEF Key
  <2>2. [next |-> m, timer |-> u] = [next |-> n, timer |-> t] <=> m = n /\ u = t
    OBVIOUS
  <2>3. m_next'[u] = IF u = t THEN n ELSE m_next[u]
    BY DEF TInv, TypeOK
  <2>4. [next |-> m, timer |-> u] \in m_timers <=> m = m_next[u] /\ Armed(u)
    BY DEF TInv, Filed
  <2> QED
    BY <2>1, <2>2, <2>3, <2>4 DEF Armed
<1> QED
  BY <1>1, <1>2 DEF Filed

-----------------------------------------------------------------------------
LEMMA InitTInv == Init => TInv
<1> SUFFICES ASSUME Init PROVE TInv
  OBVIOUS
<1>1. m_next \in [Handle -> Time] /\ m_ms \in [Handle -> Time]
  BY TimeNat DEF Init
<1>2. now_ms \in [Lister -> Time] /\ until \in [Lister -> Nat \cup {Never}]
  BY TimerAssumption DEF Init
<1>3. TypeOK
  BY <1>1, <1>2, TimerAssumption DEF Init, TypeOK, Between
<1> QED
  BY <1>3 DEF Init, TInv, Filed, SettledIdle, MadeArmed, Armed

(* Steps that leave the timers and the set alone.                            *)
LEMMA SameTimers ==
  ASSUME TInv, TypeOK', UNCHANGED <<timerVars, m_timers>>
  PROVE  TInv'
BY DEF TInv, Filed, SettledIdle, MadeArmed, Armed, timerVars

LEMMA ListerSteps ==
  ASSUME TInv, NEW l \in Lister,
         getNextTimer(l) \/ WakeUp(l) \/ ReadClock(l) \/ CheckEmpty(l)
  PROVE  TInv'
<1> USE DEF TInv
<1>1. CASE getNextTimer(l)
  <2>1. m_timers # {} => Front.next \in Nat
    BY FrontFirst, EntryFields, TimeNat DEF TypeOK
  <2> DEFINE answer == IF m_timers = {} THEN Never
                       ELSE clock + (IF clock >= Front.next THEN 0 ELSE Front.next - clock)
  <2>2. answer \in Nat \cup {Never}
    <3>1. clock \in Nat
      BY TimeNat DEF TypeOK
    <3>2. CASE m_timers = {}
      BY <3>2
    <3>3. CASE m_timers # {}
      <4>1. PICK first \in Nat : first = Front.next
        BY <2>1, <3>3
      <4> QED
        BY <3>1, <3>3, <4>1
    <3> QED
      BY <3>2, <3>3
  <2>4. until' = [until EXCEPT ![l] = answer]
    BY <1>1 DEF getNextTimer
  <2> HIDE DEF answer
  <2>5. until' \in [Lister -> Nat \cup {Never}]
    BY <2>2, <2>4 DEF TypeOK
  <2>3. TypeOK'
    BY <1>1, <2>5 DEF getNextTimer, TypeOK, timerVars, wakeVars
  <2> QED
    BY <1>1, <2>3, SameTimers DEF getNextTimer
<1>2. CASE WakeUp(l)
  <2>1. TypeOK'
    BY <1>2 DEF WakeUp, TypeOK, timerVars, managerVars
  <2> QED
    BY <1>2, <2>1, SameTimers DEF WakeUp, managerVars
<1>3. CASE ReadClock(l)
  <2>1. TypeOK'
    BY <1>3 DEF ReadClock, TypeOK, timerVars, managerVars, wakeVars
  <2> QED
    BY <1>3, <2>1, SameTimers DEF ReadClock, managerVars
<1>4. CASE CheckEmpty(l)
  <2>1. TypeOK'
    BY <1>4 DEF CheckEmpty, Between, TypeOK, timerVars, managerVars, wakeVars
  <2> QED
    BY <1>4, <2>1, SameTimers DEF CheckEmpty, managerVars
<1> QED
  BY <1>1, <1>2, <1>3, <1>4

LEMMA TickNotify ==
  ASSUME TInv, Tick \/ Notify
  PROVE  TInv'
<1> USE DEF TInv
<1>1. clock' \in Time
  BY TimerAssumption DEF Tick, Notify, TypeOK, Time
<1>2. notices' \in Nat
  BY DEF Tick, Notify, TypeOK, wakeVars
<1>3. TypeOK'
  BY <1>1, <1>2 DEF Tick, Notify, TypeOK, timerVars, managerVars, wakeVars, listerVars
<1> QED
  BY <1>3, SameTimers DEF Tick, Notify, managerVars

LEMMA MakeTInv ==
  ASSUME TInv, NEW t \in Handle, Make(t)
  PROVE  TInv'
<1> USE DEF TInv
<1>1. PICK ms \in Delay, recurring \in BOOLEAN :
        /\ m_ms' = [m_ms EXCEPT ![t] = ms]
        /\ m_recurring' = [m_recurring EXCEPT ![t] = recurring]
        /\ m_next' = [m_next EXCEPT ![t] = Plus(clock, ms)]
  BY DEF Make
<1>2. ms \in Time /\ clock \in Time
  BY TimerAssumption DEF TypeOK
<1>3. Plus(clock, ms) \in Time
  BY <1>2, PlusTime, TimeNat
<1>4. TypeOK'
  BY <1>1, <1>2, <1>3 DEF Make, TypeOK, managerVars, wakeVars, listerVars
<1>5. ASSUME NEW m \in Time, NEW u \in Handle
      PROVE  [next |-> m, timer |-> u] \in m_timers' <=> m = m_next'[u] /\ Armed(u)'
  <2>1. [next |-> m, timer |-> u] \in m_timers <=> m = m_next[u] /\ Armed(u)
    BY DEF Filed
  <2>2. UNCHANGED m_timers
    BY DEF Make, managerVars
  <2>3. CASE u = t
    BY <2>1, <2>2, <2>3 DEF Make, Armed, TypeOK
  <2>4. CASE u # t
    BY <1>1, <2>1, <2>2, <2>4 DEF Make, Armed, TypeOK
  <2> QED
    BY <2>3, <2>4
<1>6. SettledIdle' /\ MadeArmed'
  BY DEF Make, SettledIdle, MadeArmed, TypeOK
<1> QED
  BY <1>4, <1>5, <1>6 DEF Filed

LEMMA InsertTypes ==
  ASSUME TypeOK, NEW rest, NEW key, Insert(rest, key)
  PROVE  m_timers' = rest \cup {key} /\ m_tickled' \in BOOLEAN /\ notices' \in Nat
BY DEF Insert, TypeOK

LEMMA AddTInv ==
  ASSUME TInv, NEW t \in Handle, Add(t)
  PROVE  TInv'
<1> USE DEF TInv
<1>1. m_timers' = m_timers \cup {Key(t)} /\ m_tickled' \in BOOLEAN /\ notices' \in Nat
  BY InsertTypes DEF Add
<1>2. Key(t) \in [next : Time, timer : Handle]
  BY DEF Key, TypeOK
<1>3. TypeOK'
  BY <1>1, <1>2 DEF Add, TypeOK, listerVars
<1>4. ASSUME NEW m \in Time, NEW u \in Handle
      PROVE  [next |-> m, timer |-> u] \in m_timers' <=> m = m_next'[u] /\ Armed(u)'
  <2>1. [next |-> m, timer |-> u] = Key(t) <=> m = m_next[t] /\ u = t
    BY DEF Key
  <2>2. [next |-> m, timer |-> u] \in m_timers <=> m = m_next[u] /\ Armed(u)
    BY DEF Filed
  <2>3. CASE u = t
    <3>1. stage'[t] = "added" /\ m_cb'[t] /\ m_next' = m_next
      BY DEF Add, MadeArmed, TypeOK
    <3> QED
      BY <1>1, <2>1, <2>2, <2>3, <3>1 DEF Armed
  <2>4. CASE u # t
    BY <1>1, <2>1, <2>2, <2>4 DEF Add, Armed, TypeOK
  <2> QED
    BY <2>3, <2>4
<1> QED
  BY <1>3, <1>4 DEF Add, Filed, SettledIdle, MadeArmed, TypeOK

LEMMA CancelTInv ==
  ASSUME TInv, NEW t \in Handle, Cancel(t)
  PROVE  TInv'
<1> USE DEF TInv
<1>1. TypeOK'
  BY DEF Cancel, TypeOK, wakeVars, listerVars
<1>2. ASSUME NEW m \in Time, NEW u \in Handle
      PROVE  [next |-> m, timer |-> u] \in m_timers' <=> m = m_next'[u] /\ Armed(u)'
  <2>1. [next |-> m, timer |-> u] = Key(t) <=> m = m_next[t] /\ u = t
    BY DEF Key
  <2>2. [next |-> m, timer |-> u] \in m_timers <=> m = m_next[u] /\ Armed(u)
    BY DEF Filed
  <2> QED
    BY <2>1, <2>2 DEF Cancel, Armed, TypeOK
<1> QED
  BY <1>1, <1>2 DEF Cancel, Filed, SettledIdle, MadeArmed, TypeOK

LEMMA RefreshTInv ==
  ASSUME TInv, NEW t \in Handle, Refresh(t)
  PROVE  TInv'
<1> USE DEF TInv
<1> DEFINE n == Plus(clock, m_ms[t])
<1>1. n \in Time
  <2>1. clock \in Int /\ m_ms[t] \in Int
    <3>1. clock \in Time /\ m_ms[t] \in Time
      BY DEF TypeOK
    <3> QED
      BY <3>1, TimeInt
  <2> QED
    BY <2>1, PlusTime
<1>2. m_next' = [m_next EXCEPT ![t] = n] /\ m_next'[t] = n
  BY DEF Refresh, TypeOK
<1> HIDE DEF n
<1>3. m_timers' = (m_timers \ {Key(t)}) \cup {[next |-> n, timer |-> t]}
  BY <1>2 DEF Refresh
<1>4. Filed' /\ m_timers' \in SUBSET [next : Time, timer : Handle]
  BY <1>1, <1>2, <1>3, MovedFiled DEF Refresh, Armed
<1>5. TypeOK'
  BY <1>1, <1>2, <1>4 DEF Refresh, Change, TypeOK, wakeVars, listerVars
<1> QED
  BY <1>4, <1>5 DEF Refresh, SettledIdle, MadeArmed

LEMMA ResetTInv ==
  ASSUME TInv, NEW t \in Handle, NEW ms \in Delay, NEW from_now \in BOOLEAN, Reset(t, ms, from_now)
  PROVE  TInv'
<1> USE DEF TInv
<1> DEFINE begin == IF from_now THEN clock ELSE (m_next[t] - m_ms[t]) % Wrap
           n == Plus(begin, ms)
<1>1. ms \in Time /\ ms \in Int
  BY TimerAssumption, TimeNat
<1>2. begin \in Int
  <2>1. m_next[t] \in Int /\ m_ms[t] \in Int /\ clock \in Int /\ Wrap \in Int /\ Wrap > 0
    <3>1. m_next[t] \in Time /\ m_ms[t] \in Time /\ clock \in Time
      BY DEF TypeOK
    <3>2. Wrap \in Int /\ Wrap > 0
      BY TimerAssumption
    <3> QED
      BY <3>1, <3>2, TimeInt
  <2> QED
    BY <2>1
<1> HIDE DEF begin
<1>3. n \in Time
  BY <1>1, <1>2, PlusTime
<1>4. m_next' = [m_next EXCEPT ![t] = n] /\ m_next'[t] = n
  BY DEF Reset, TypeOK, begin
<1> HIDE DEF n
<1>5. /\ m_timers' = (m_timers \ {Key(t)}) \cup {[next |-> n, timer |-> t]}
      /\ m_tickled' \in BOOLEAN /\ notices' \in Nat
  BY <1>4, InsertTypes DEF Reset
<1>6. Filed' /\ m_timers' \in SUBSET [next : Time, timer : Handle]
  BY <1>3, <1>4, <1>5, MovedFiled DEF Reset, Armed
<1>7. TypeOK'
  BY <1>1, <1>3, <1>4, <1>5, <1>6 DEF Reset, Change, TypeOK, listerVars
<1> QED
  BY <1>6, <1>7 DEF Reset, SettledIdle, MadeArmed

-----------------------------------------------------------------------------
(* listExpiredCb: what is expired, by the set and by the timers.             *)
Due(t, now) == Armed(t) /\ (detectClockRollover(now) \/ m_next[t] <= now)

LEMMA ExpiredDue ==
  ASSUME TInv, NEW now \in Time
  PROVE  /\ \A n \in Time, t \in Handle :
              [next |-> n, timer |-> t] \in Expired(now) <=> n = m_next[t] /\ Due(t, now)
         /\ \A t \in Handle : t \in {k.timer : k \in Expired(now)} <=> Due(t, now)
         /\ \A k \in Expired(now) : k.timer \in Handle
<1> USE DEF TInv
<1>1. \A n \in Time, t \in Handle :
        [next |-> n, timer |-> t] \in Expired(now) <=> n = m_next[t] /\ Due(t, now)
  BY DEF Expired, Due, Filed
<1>2. \A k \in Expired(now) : k.timer \in Handle /\ k.next \in Time /\ k = [next |-> k.next, timer |-> k.timer]
  BY EntryFields DEF Expired, TypeOK
<1>3. \A t \in Handle : t \in {k.timer : k \in Expired(now)} => Due(t, now)
  BY <1>1, <1>2
<1>4. \A t \in Handle : Due(t, now) => t \in {k.timer : k \in Expired(now)}
  <2> SUFFICES ASSUME NEW t \in Handle, Due(t, now)
               PROVE  \E k \in Expired(now) : t = k.timer
    OBVIOUS
  <2>1. m_next[t] \in Time
    BY DEF TypeOK
  <2>2. [next |-> m_next[t], timer |-> t] \in Expired(now)
    BY <1>1, <2>1
  <2> QED
    BY <2>2
<1> QED
  BY <1>1, <1>2, <1>3, <1>4

LEMMA listExpiredCbTInv ==
  ASSUME TInv, NEW l \in Lister, listExpiredCb(l)
  PROVE  TInv'
<1> USE DEF TInv
<1> DEFINE now == now_ms[l]
           expired == {k.timer : k \in Expired(now)}
           again == {t \in expired : m_recurring[t]}
<1>1. now \in Time
  BY DEF TypeOK
<1>2. \A t \in Handle : t \in expired <=> Due(t, now)
  BY <1>1, ExpiredDue
<1>3. expired \subseteq Handle
  BY <1>1, ExpiredDue
<1>4. /\ m_next' = [t \in Handle |-> IF t \in again THEN Plus(now, m_ms[t]) ELSE m_next[t]]
      /\ m_cb' = [t \in Handle |-> m_cb[t] /\ t \notin expired \ again]
      /\ fate' = [t \in Handle |-> IF t \in expired \ again THEN "fired" ELSE fate[t]]
      /\ m_timers' = (m_timers \ Expired(now)) \cup {[next |-> m_next'[t], timer |-> t] : t \in again}
  BY DEF listExpiredCb
<1>5. UNCHANGED <<clock, changes, m_ms, m_recurring, stage, m_tickled, wakeVars, until>>
  BY DEF listExpiredCb
<1> HIDE DEF expired, now
<1>6. m_next' \in [Handle -> Time]
  <2>1. ASSUME NEW t \in Handle PROVE Plus(now, m_ms[t]) \in Time
    <3>1. now \in Int /\ m_ms[t] \in Int
      <4>1. m_ms[t] \in Time
        BY DEF TypeOK
      <4> QED
        BY <1>1, <4>1, TimeInt
    <3> QED
      BY <3>1, PlusTime
  <2> QED
    BY <1>4, <2>1 DEF TypeOK
<1>7. m_cb' \in [Handle -> BOOLEAN]
  BY <1>4 DEF TypeOK
<1>8. m_timers' \in SUBSET [next : Time, timer : Handle]
  BY <1>3, <1>4, <1>6 DEF TypeOK
<1>9. /\ m_previouseTime' \in Time
      /\ now_ms' \in [Lister -> Time]
      /\ pc' \in [Lister -> {"ask", "asleep", "read", "check", "list"}]
  BY TimerAssumption DEF listExpiredCb, TypeOK, Between
<1>10. TypeOK'
  BY <1>4, <1>5, <1>6, <1>7, <1>8, <1>9 DEF TypeOK, wakeVars
<1>11. ASSUME NEW m \in Time, NEW u \in Handle
       PROVE  [next |-> m, timer |-> u] \in m_timers' <=> m = m_next'[u] /\ Armed(u)'
  <2>1. [next |-> m, timer |-> u] \in m_timers \ Expired(now) <=> m = m_next[u] /\ Armed(u) /\ ~Due(u, now)
    BY <1>1, ExpiredDue DEF Filed
  <2>2. [next |-> m, timer |-> u] \in {[next |-> m_next'[t], timer |-> t] : t \in again}
          <=> u \in again /\ m = m_next'[u]
    OBVIOUS
  <2>3. u \in again <=> Due(u, now) /\ m_recurring[u]
    BY <1>2
  <2>4. m_next'[u] = IF u \in again THEN Plus(now, m_ms[u]) ELSE m_next[u]
    BY <1>4
  <2>5. Armed(u)' <=> Armed(u) /\ (u \in expired => u \in again)
    BY <1>4, <1>5, <1>7 DEF Armed, TypeOK
  <2>6. Due(u, now) => Armed(u)
    BY DEF Due
  <2> QED
    BY <1>2, <1>4, <2>1, <2>2, <2>3, <2>4, <2>5, <2>6
<1>12. SettledIdle'
  BY <1>2, <1>4, <1>5 DEF SettledIdle, Due, Armed
<1>13. MadeArmed'
  <2>1. \A t \in Handle : stage[t] = "made" => t \notin expired
    BY <1>2 DEF Due, Armed
  <2> QED
    BY <1>4, <1>5, <2>1 DEF MadeArmed
<1> QED
  BY <1>10, <1>11, <1>12, <1>13 DEF Filed

LEMMA NextTInv == TInv /\ [Next]_vars => TInv'
<1> SUFFICES ASSUME TInv, [Next]_vars PROVE TInv'
  OBVIOUS
<1>1. CASE UNCHANGED vars
  <2>1. TypeOK'
    BY <1>1 DEF vars, TInv, TypeOK, timerVars, managerVars, wakeVars, listerVars
  <2> QED
    BY <1>1, <2>1, SameTimers DEF vars, managerVars
<1>2. CASE Next
  BY <1>2, TickNotify, MakeTInv, AddTInv, CancelTInv, RefreshTInv, ResetTInv, ListerSteps,
     listExpiredCbTInv
  DEF Next
<1> QED
  BY <1>1, <1>2

-----------------------------------------------------------------------------
(* The invariant of the timer set: its entries are the armed timers.          *)
THEOREM TimerInvariant == Spec => []TInv
BY InitTInv, NextTInv, PTL DEF Spec

(* Every variable keeps its type; times stay unsigned words.                  *)
THEOREM TimerTypeOK == Spec => []TypeOK
<1>1. TInv => TypeOK
  BY DEF TInv
<1> QED
  BY <1>1, TimerInvariant, PTL

(* A timer with its callback is in the set once, under the expiry it has: the
   iterator that cancel() erases without a look is valid.                     *)
THEOREM TimerFiledWhileArmed == Spec => []FiledWhileArmed
<1>1. ASSUME TInv PROVE FiledWhileArmed
  <2> SUFFICES ASSUME NEW t \in Handle
               PROVE  {k \in m_timers : k.timer = t}
                        = IF stage[t] = "added" /\ m_cb[t] THEN {Key(t)} ELSE {}
    BY DEF FiledWhileArmed
  <2>1. \A k \in m_timers : k.next \in Time /\ k = [next |-> k.next, timer |-> k.timer]
    BY <1>1, EntryFields DEF TInv, TypeOK
  <2>2. \A k \in m_timers : k.timer = t => k = Key(t) /\ Armed(t)
    BY <1>1, <2>1 DEF TInv, Filed, Key
  <2>3. Armed(t) => Key(t) \in m_timers /\ Key(t).timer = t
    BY <1>1 DEF TInv, TypeOK, Filed, Key
  <2> QED
    BY <2>2, <2>3 DEF Armed
<1> QED
  BY <1>1, TimerInvariant, PTL

(* A callback is handed out for good or reported as cancelled, once and not
   both.                                                                      *)
THEOREM TimerCancelIsFinal == Spec => CancelIsFinal
<1>1. ASSUME TInv, NEW l \in Lister, listExpiredCb(l), NEW k \in Expired(now_ms[l])
      PROVE  fate[k.timer] = "pending"
  <2>1. now_ms[l] \in Time
    BY <1>1 DEF TInv, TypeOK
  <2>2. k.timer \in Handle /\ Due(k.timer, now_ms[l])
    BY <1>1, <2>1, ExpiredDue
  <2> QED
    BY <1>1, <2>2 DEF Due, Armed, TInv, SettledIdle
<1>2. ASSUME TInv, NEW t \in Handle, Cancel(t)
      PROVE  fate[t] = "pending"
  BY <1>2 DEF TInv, SettledIdle, Cancel
<1>3. TInv /\ [Next]_vars =>
        [/\ \A l \in Lister : listExpiredCb(l) =>
              \A k \in Expired(now_ms[l]) : fate[k.timer] = "pending"
         /\ \A t \in Handle : Cancel(t) => fate[t] = "pending"]_vars
  BY <1>1, <1>2
<1> QED
  BY <1>3, TimerInvariant, PTL DEF Spec, CancelIsFinal

-----------------------------------------------------------------------------
(* When callbacks come: no expiry is slept through and none comes early, for
   as long as the manager lives, where the clock cannot seem to run backwards:
   the machine was up for an hour when the manager was made, and no thread that
   has read the clock is held up for more than an hour before it has the lock. *)

(* What the theorems below assume: that, one thread that sleeps, and a clock
   that stays below the end of its word.                                     *)
Settled ==
  /\ \A a \in Sleeper, b \in Sleeper : a = b
  /\ HeldUp <= Hour /\ Hour <= Boot /\ Boot <= MaxClock
  /\ \A ms \in Delay : MaxClock + ms < Wrap

ClockOrder ==
  /\ Boot <= clock /\ clock <= MaxClock
  /\ Boot <= m_previouseTime /\ m_previouseTime <= clock
  /\ \A l \in Lister : Boot <= now_ms[l] /\ now_ms[l] <= clock

(* A reading of the clock that is in use is not older than a thread may be
   held up.                                                                  *)
Recent == \A l \in Lister : pc[l] \in {"check", "list"} => clock - now_ms[l] <= HeldUp

(* A timer was last set at some time that is past.                           *)
StartedBefore ==
  \A t \in Handle :
    stage[t] # "unborn" =>
      m_ms[t] \in Delay /\ m_ms[t] <= m_next[t] /\ m_next[t] - m_ms[t] <= clock

OnlySleepers == \A l \in Lister : pc[l] \in {"ask", "asleep"} => l \in Sleeper

ToBeWoken == notices > 0 \/ woken

(* While m_tickled suppresses announcements, one is on its way.              *)
Told == \A l \in Lister : pc[l] = "asleep" /\ m_tickled => ToBeWoken

(* A sleeper that asked answers for an expiry.                               *)
InTime(l, n) == until[l] # Never /\ (until[l] <= n \/ until[l] <= clock)

Awaited == \A l \in Lister : pc[l] = "asleep" => ToBeWoken \/ \A k \in m_timers : InTime(l, k.next)

WInv == TInv /\ ClockOrder /\ Recent /\ StartedBefore /\ OnlySleepers /\ Told /\ Awaited

-----------------------------------------------------------------------------
LEMMA Times ==
  ASSUME TypeOK
  PROVE  /\ Boot \in Int /\ Hour \in Int /\ HeldUp \in Int /\ MaxClock \in Int /\ Wrap \in Int
         /\ 0 <= Hour /\ 0 < Wrap /\ MaxClock < Wrap
         /\ clock \in Int /\ m_previouseTime \in Int /\ notices \in Nat
         /\ \A l \in Lister : now_ms[l] \in Int
         /\ \A t \in Handle : m_next[t] \in Int /\ m_ms[t] \in Int /\ 0 <= m_ms[t]
         /\ \A ms \in Delay : ms \in Int /\ 0 <= ms
<1>1. \A n \in Time : n \in Int /\ 0 <= n /\ n < Wrap
  BY TimerAssumption DEF Time
<1>2. Wrap \in Int /\ 0 < Wrap
  BY TimerAssumption
<1>3. clock \in Time /\ m_previouseTime \in Time /\ notices \in Nat
  BY DEF TypeOK
<1>4. \A l \in Lister : now_ms[l] \in Time
  BY DEF TypeOK
<1>5. \A t \in Handle : m_next[t] \in Time /\ m_ms[t] \in Time
  BY DEF TypeOK
<1> QED
  BY <1>1, <1>2, <1>3, <1>4, <1>5, TimerAssumption

LEMMA SmallPlus ==
  ASSUME NEW a \in Int, NEW b \in Int, 0 <= a + b, a + b < Wrap
  PROVE  Plus(a, b) = a + b
<1>1. Wrap \in Int /\ 0 < Wrap
  BY TimerAssumption
<1> QED
  BY <1>1 DEF Plus

LEMMA EntryTimer ==
  ASSUME TInv, NEW k \in m_timers
  PROVE  /\ k.timer \in Handle /\ k.next \in Int
         /\ k.next = m_next[k.timer] /\ Armed(k.timer) /\ k = Key(k.timer)
<1>1. k.next \in Time /\ k.timer \in Handle /\ k = [next |-> k.next, timer |-> k.timer]
  BY EntryFields DEF TInv, TypeOK
<1>2. k.next = m_next[k.timer] /\ Armed(k.timer)
  BY <1>1 DEF TInv, Filed
<1> QED
  BY <1>1, <1>2, TimeInt DEF Key

(* The clock is never seen to run backwards.                                 *)
LEMMA NoRollback ==
  ASSUME Settled, TypeOK, ClockOrder, Recent, NEW l \in Lister, pc[l] = "list"
  PROVE  ~detectClockRollover(now_ms[l])
<1> DEFINE d == m_previouseTime - Hour
<1>1. d \in Int /\ 0 <= d /\ d < Wrap /\ d <= now_ms[l]
  BY Times DEF Settled, ClockOrder, Recent
<1>2. Wrap \in Int /\ 0 < Wrap /\ now_ms[l] \in Int
  BY Times
<1> HIDE DEF d
<1>3. d % Wrap = d
  BY <1>1, <1>2
<1>4. ~(now_ms[l] < d % Wrap)
  BY <1>1, <1>2, <1>3
<1> QED
  BY <1>4 DEF detectClockRollover, d

LEMMA InitWInv == Settled /\ Init => WInv
<1> SUFFICES ASSUME Settled, Init PROVE WInv
  OBVIOUS
<1>1. TInv
  BY InitTInv
<1>2. ClockOrder
  BY <1>1, Times DEF TInv, Init, Settled, ClockOrder
<1>3. StartedBefore
  BY DEF Init, StartedBefore
<1>4. Recent /\ OnlySleepers /\ Told /\ Awaited
  BY DEF Init, Recent, OnlySleepers, Told, Awaited, Between
<1> QED
  BY <1>1, <1>2, <1>3, <1>4 DEF WInv

(* A step that leaves the listers alone, and after which every entry is there
   already, or is no earlier than one that was, or is announced.             *)
LEMMA StillAwaited ==
  ASSUME WInv, TypeOK', UNCHANGED <<pc, until>>, clock <= clock',
         ToBeWoken => ToBeWoken',
         m_tickled' => m_tickled \/ ToBeWoken',
         \/ ToBeWoken'
         \/ \E l \in Lister : pc[l] = "asleep" /\ m_tickled
         \/ \A k \in m_timers' : \E old \in m_timers : old.next <= k.next
  PROVE  OnlySleepers' /\ Told' /\ Awaited'
<1> USE DEF WInv
<1>1. OnlySleepers' /\ Told'
  BY DEF OnlySleepers, Told
<1>2. ASSUME NEW l \in Lister, pc'[l] = "asleep", ~ToBeWoken', NEW k \in m_timers'
      PROVE  InTime(l, k.next)'
  <2>1. pc[l] = "asleep" /\ ~ToBeWoken /\ ~m_tickled
    BY <1>2 DEF Told
  <2>2. \A w \in Lister : ~(pc[w] = "asleep" /\ m_tickled)
    BY <2>1
  <2>3. PICK old \in m_timers : old.next <= k.next
    BY <1>2, <2>2
  <2>4. InTime(l, old.next)
    BY <2>1 DEF Awaited
  <2>5. old.next \in Int
    BY EntryTimer
  <2>6. k.next \in Int
    <3>1. k.next \in Time
      BY <1>2, EntryFields DEF TypeOK
    <3> QED
      BY <3>1, TimeInt
  <2>7. until[l] \in Nat
    <3>1. until[l] \in Nat \cup {Never}
      BY DEF TInv, TypeOK
    <3> QED
      BY <2>4, <3>1 DEF InTime
  <2>8. clock \in Int /\ clock' \in Int
    BY Times, TimeInt DEF TInv, TypeOK
  <2> QED
    BY <2>3, <2>4, <2>5, <2>6, <2>7, <2>8 DEF InTime
<1> QED
  BY <1>1, <1>2 DEF Awaited

(* An inserted entry is announced, or is no earlier than another one.        *)
LEMMA InsertAnnounces ==
  ASSUME TypeOK, NEW rest \in SUBSET m_timers, NEW key, Insert(rest, key), UNCHANGED woken
  PROVE  /\ ToBeWoken => ToBeWoken'
         /\ m_tickled' => m_tickled \/ ToBeWoken'
         /\ ToBeWoken' \/ m_tickled \/ \E old \in rest : ~(key.next < old.next)
         /\ m_timers' = rest \cup {key}
<1>1. notices \in Nat
  BY DEF TypeOK
<1> QED
  BY <1>1 DEF Insert, ToBeWoken

(* The premises of StillAwaited after an insertion.                          *)
LEMMA InsertAwaited ==
  ASSUME WInv, TypeOK', NEW rest \in SUBSET m_timers, NEW n \in Time, NEW t \in Handle,
         Insert(rest, [next |-> n, timer |-> t]), UNCHANGED <<pc, until, clock, woken>>
  PROVE  OnlySleepers' /\ Told' /\ Awaited'
<1> DEFINE key == [next |-> n, timer |-> t]
<1> USE DEF WInv, TInv
<1>1. /\ ToBeWoken => ToBeWoken'
      /\ m_tickled' => m_tickled \/ ToBeWoken'
      /\ ToBeWoken' \/ m_tickled \/ \E old \in rest : ~(key.next < old.next)
      /\ m_timers' = rest \cup {key}
  BY InsertAnnounces
<1>2. clock <= clock'
  BY Times
<1>3. \A k \in m_timers : k.next \in Int
  BY EntryTimer
<1>4. key.next = n /\ n \in Int
  BY TimeInt
<1>5. CASE ToBeWoken'
  BY <1>1, <1>2, <1>5, StillAwaited
<1>6. CASE \E l \in Lister : pc[l] = "asleep" /\ m_tickled
  BY <1>1, <1>2, <1>6, StillAwaited
<1>7. CASE ~ToBeWoken' /\ ~(\E l \in Lister : pc[l] = "asleep" /\ m_tickled)
  <2>1. CASE m_tickled
    <3>1. \A l \in Lister : pc'[l] # "asleep"
      BY <1>7, <2>1
    <3> QED
      BY <3>1 DEF OnlySleepers, Told, Awaited
  <2>2. CASE ~m_tickled
    <3>1. PICK old \in rest : ~(key.next < old.next)
      BY <1>1, <1>7, <2>2
    <3>2. old \in m_timers /\ old.next <= key.next
      BY <1>3, <1>4, <3>1
    <3>3. \A k \in m_timers' : \E other \in m_timers : other.next <= k.next
      <4> SUFFICES ASSUME NEW k \in m_timers' PROVE \E other \in m_timers : other.next <= k.next
        OBVIOUS
      <4>1. CASE k = key
        BY <3>2, <4>1
      <4>2. CASE k \in m_timers
        BY <1>3, <4>2
      <4> QED
        BY <1>1, <4>1, <4>2
    <3> QED
      BY <1>1, <1>2, <3>3, StillAwaited
  <2> QED
    BY <2>1, <2>2
<1> QED
  BY <1>5, <1>6, <1>7

-----------------------------------------------------------------------------
(* Steps under which the set of timers only gets smaller or stays.           *)
LEMMA NothingInserted ==
  ASSUME WInv, TypeOK', UNCHANGED <<pc, until>>, clock <= clock', ToBeWoken => ToBeWoken',
         m_tickled' = m_tickled, m_timers' \subseteq m_timers
  PROVE  OnlySleepers' /\ Told' /\ Awaited'
<1>1. \A k \in m_timers : k.next <= k.next
  BY EntryTimer DEF WInv
<1>2. \A k \in m_timers' : \E old \in m_timers : old.next <= k.next
  BY <1>1
<1> QED
  BY <1>2, StillAwaited

LEMMA TickWInv ==
  ASSUME Settled, WInv, TInv', Tick
  PROVE  WInv'
<1> USE DEF WInv, TInv
<1>1. clock' = clock + 1 /\ clock < MaxClock /\ clock \in Int /\ MaxClock \in Int
  BY Times DEF Tick
<1>2. UNCHANGED <<m_timers, m_tickled, m_previouseTime, m_next, m_ms, stage, notices, woken, pc,
                  now_ms, until>>
  BY DEF Tick, timerVars, managerVars, wakeVars, listerVars
<1>3. ClockOrder'
  <2>1. Boot \in Int /\ \A l \in Lister : now_ms[l] \in Int
    BY Times
  <2>2. m_previouseTime \in Int
    BY Times
  <2> QED
    BY <1>1, <1>2, <2>1, <2>2 DEF ClockOrder
<1>4. StartedBefore'
  <2>1. \A t \in Handle : m_next[t] \in Int /\ m_ms[t] \in Int
    BY Times
  <2> QED
    BY <1>1, <1>2, <2>1 DEF StartedBefore
<1>5. OnlySleepers' /\ Told' /\ Awaited'
  <2>1. clock <= clock'
    BY <1>1
  <2> QED
    BY <1>2, <2>1, NothingInserted DEF ToBeWoken
<1>6. Recent'
  <2>1. HeldUp \in Int /\ \A l \in Lister : now_ms[l] \in Int
    BY Times
  <2> QED
    BY <1>1, <1>2, <2>1 DEF Recent, Tick
<1> QED
  BY <1>3, <1>4, <1>5, <1>6

LEMMA NotifyWInv ==
  ASSUME WInv, TInv', Notify
  PROVE  WInv'
<1> USE DEF WInv, TInv
<1>1. UNCHANGED <<clock, m_timers, m_tickled, m_previouseTime, m_next, m_ms, stage, pc, now_ms, until>>
  BY DEF Notify, timerVars, managerVars, listerVars
<1>2. ClockOrder' /\ Recent' /\ StartedBefore' /\ OnlySleepers'
  BY <1>1 DEF ClockOrder, Recent, StartedBefore, OnlySleepers
<1>3. ToBeWoken'
  BY DEF Notify, ToBeWoken
<1> QED
  BY <1>2, <1>3 DEF Told, Awaited

LEMMA MakeWInv ==
  ASSUME Settled, WInv, TInv', NEW t \in Handle, Make(t)
  PROVE  WInv'
<1> USE DEF WInv, TInv
<1>1. PICK ms \in Delay :
        m_ms' = [m_ms EXCEPT ![t] = ms] /\ m_next' = [m_next EXCEPT ![t] = Plus(clock, ms)]
  BY DEF Make
<1>2. UNCHANGED <<clock, m_timers, m_tickled, m_previouseTime, notices, woken, pc, now_ms, until>>
  BY DEF Make, managerVars, wakeVars, listerVars
<1>3. Plus(clock, ms) = clock + ms /\ clock \in Int /\ ms \in Int
  <2>1. clock \in Int /\ ms \in Int /\ 0 <= ms /\ MaxClock \in Int /\ Wrap \in Int
    BY Times
  <2>2. 0 <= clock /\ clock <= MaxClock /\ MaxClock + ms < Wrap
    BY Times DEF Settled, ClockOrder
  <2> QED
    BY <2>1, <2>2, SmallPlus
<1>4. StartedBefore'
  <2> SUFFICES ASSUME NEW u \in Handle, stage'[u] # "unborn"
               PROVE  m_ms'[u] \in Delay /\ m_ms'[u] <= m_next'[u] /\ m_next'[u] - m_ms'[u] <= clock'
    BY DEF StartedBefore
  <2>1. CASE u = t
    <3>1. m_ms'[u] = ms /\ m_next'[u] = clock + ms
      BY <1>1, <1>3, <2>1 DEF TypeOK
    <3>2. 0 <= clock
      BY Times DEF Settled, ClockOrder
    <3> QED
      BY <1>2, <1>3, <3>1, <3>2
  <2>2. CASE u # t
    BY <1>1, <1>2, <2>2 DEF Make, StartedBefore, TypeOK
  <2> QED
    BY <2>1, <2>2
<1>5. ClockOrder' /\ Recent'
  BY <1>2 DEF ClockOrder, Recent
<1>6. OnlySleepers' /\ Told' /\ Awaited'
  <2>1. clock <= clock'
    BY <1>2, Times
  <2> QED
    BY <1>2, <2>1, NothingInserted DEF ToBeWoken
<1> QED
  BY <1>4, <1>5, <1>6

LEMMA AddWInv ==
  ASSUME WInv, TInv', NEW t \in Handle, Add(t)
  PROVE  WInv'
<1> USE DEF WInv, TInv
<1>1. UNCHANGED <<clock, m_previouseTime, m_next, m_ms, woken, pc, now_ms, until>>
  BY DEF Add, listerVars
<1>2. ClockOrder' /\ Recent'
  BY <1>1 DEF ClockOrder, Recent
<1>3. StartedBefore'
  BY <1>1 DEF StartedBefore, Add, TypeOK
<1>4. m_next[t] \in Time /\ Insert(m_timers, [next |-> m_next[t], timer |-> t])
  BY DEF Add, Key, TypeOK
<1>5. OnlySleepers' /\ Told' /\ Awaited'
  BY <1>1, <1>4, InsertAwaited
<1> QED
  BY <1>2, <1>3, <1>5

LEMMA CancelWInv ==
  ASSUME WInv, TInv', NEW t \in Handle, Cancel(t)
  PROVE  WInv'
<1> USE DEF WInv, TInv
<1>1. UNCHANGED <<clock, m_tickled, m_previouseTime, m_next, m_ms, stage, notices, woken, pc, now_ms, until>>
  BY DEF Cancel, wakeVars, listerVars
<1>2. ClockOrder' /\ Recent' /\ StartedBefore'
  BY <1>1 DEF ClockOrder, Recent, StartedBefore
<1>3. OnlySleepers' /\ Told' /\ Awaited'
  <2>1. clock <= clock' /\ m_timers' \subseteq m_timers
    BY <1>1, Times DEF Cancel
  <2> QED
    BY <1>1, <2>1, NothingInserted DEF ToBeWoken
<1> QED
  BY <1>2, <1>3

(* A timer keeps its place or goes to a later one.                           *)
LEMMA RefreshWInv ==
  ASSUME Settled, WInv, TInv', NEW t \in Handle, Refresh(t)
  PROVE  WInv'
<1> USE DEF WInv, TInv
<1>1. UNCHANGED <<clock, m_tickled, m_previouseTime, m_ms, stage, notices, woken, pc, now_ms, until>>
  BY DEF Refresh, wakeVars, listerVars
<1>2. /\ clock \in Int /\ m_next[t] \in Int /\ m_ms[t] \in Int /\ 0 <= m_ms[t] /\ 0 <= clock
      /\ m_ms[t] \in Delay /\ m_ms[t] <= m_next[t] /\ m_next[t] - m_ms[t] <= clock
  <2>1. 0 <= clock
    BY Times DEF Settled, ClockOrder
  <2>2. stage[t] # "unborn"
    BY DEF Refresh
  <2>3. m_ms[t] \in Delay /\ m_ms[t] <= m_next[t] /\ m_next[t] - m_ms[t] <= clock
    BY <2>2 DEF StartedBefore
  <2> QED
    BY <2>1, <2>3, Times
<1>3. Plus(clock, m_ms[t]) = clock + m_ms[t]
  <2>1. clock <= MaxClock /\ MaxClock + m_ms[t] < Wrap /\ MaxClock \in Int /\ Wrap \in Int
    BY <1>2, Times DEF Settled, ClockOrder
  <2> QED
    BY <1>2, <2>1, SmallPlus
<1>4. m_next' = [m_next EXCEPT ![t] = clock + m_ms[t]] /\ m_next'[t] = clock + m_ms[t]
  BY <1>3 DEF Refresh, TypeOK
<1>5. ClockOrder' /\ Recent'
  BY <1>1 DEF ClockOrder, Recent
<1>6. StartedBefore'
  <2> SUFFICES ASSUME NEW u \in Handle, stage[u] # "unborn"
               PROVE  m_ms[u] \in Delay /\ m_ms[u] <= m_next'[u] /\ m_next'[u] - m_ms[u] <= clock
    BY <1>1 DEF StartedBefore
  <2>1. CASE u = t
    BY <1>2, <1>4, <2>1
  <2>2. CASE u # t
    BY <1>4, <2>2 DEF StartedBefore, TypeOK
  <2> QED
    BY <2>1, <2>2
<1>7. \A k \in m_timers' : \E old \in m_timers : old.next <= k.next
  <2> SUFFICES ASSUME NEW k \in m_timers' PROVE \E old \in m_timers : old.next <= k.next
    OBVIOUS
  <2>1. CASE k \in m_timers
    BY <2>1, EntryTimer
  <2>2. CASE k = [next |-> m_next'[t], timer |-> t]
    <3>1. Key(t) \in m_timers /\ Key(t).next = m_next[t] /\ k.next = clock + m_ms[t]
      BY <1>4, <2>2 DEF Refresh, Found, Key
    <3>2. m_next[t] <= clock + m_ms[t]
      BY <1>2
    <3> QED
      BY <3>1, <3>2
  <2> QED
    BY <2>1, <2>2 DEF Refresh
<1>8. clock <= clock'
  BY <1>1, <1>2
<1>9. OnlySleepers' /\ Told' /\ Awaited'
  BY <1>1, <1>7, <1>8, StillAwaited DEF ToBeWoken
<1> QED
  BY <1>5, <1>6, <1>9

LEMMA ResetWInv ==
  ASSUME Settled, WInv, TInv', NEW t \in Handle, NEW ms \in Delay, NEW from_now \in BOOLEAN,
         Reset(t, ms, from_now)
  PROVE  WInv'
<1> USE DEF WInv, TInv
<1> DEFINE begin == IF from_now THEN clock ELSE (m_next[t] - m_ms[t]) % Wrap
<1>1. UNCHANGED <<clock, m_previouseTime, stage, woken, pc, now_ms, until>>
  BY DEF Reset, listerVars
<1>2. begin \in Int /\ 0 <= begin /\ begin <= clock
  <2>1. clock \in Int /\ 0 <= clock /\ clock < Wrap /\ Wrap \in Int /\ 0 < Wrap
    BY Times DEF Settled, ClockOrder
  <2>2. CASE from_now
    BY <2>1, <2>2
  <2>3. CASE ~from_now
    <3> DEFINE d == m_next[t] - m_ms[t]
    <3>1. d \in Int /\ 0 <= d /\ d <= clock
      <4>1. stage[t] # "unborn"
        BY DEF Reset
      <4>2. m_ms[t] <= m_next[t] /\ m_next[t] - m_ms[t] <= clock
        BY <4>1 DEF StartedBefore
      <4> QED
        BY <4>2, Times
    <3>2. begin = d % Wrap
      BY <2>3
    <3> HIDE DEF d, begin
    <3>3. d % Wrap = d
      BY <2>1, <3>1
    <3> QED
      BY <3>1, <3>2, <3>3
  <2> QED
    BY <2>2, <2>3
<1> HIDE DEF begin
<1>3. Plus(begin, ms) = begin + ms /\ ms \in Int /\ 0 <= ms /\ clock \in Int
  <2>1. ms \in Int /\ 0 <= ms /\ MaxClock \in Int /\ Wrap \in Int /\ clock \in Int
    BY Times
  <2>2. clock <= MaxClock /\ MaxClock + ms < Wrap
    BY DEF Settled, ClockOrder
  <2> QED
    BY <1>2, <2>1, <2>2, SmallPlus
<1>4. m_next' = [m_next EXCEPT ![t] = begin + ms] /\ m_ms' = [m_ms EXCEPT ![t] = ms]
  BY <1>3 DEF Reset, begin
<1>5. m_next'[t] = begin + ms /\ m_ms'[t] = ms
  BY <1>4 DEF TypeOK
<1>6. ClockOrder' /\ Recent'
  BY <1>1 DEF ClockOrder, Recent
<1>7. StartedBefore'
  <2> SUFFICES ASSUME NEW u \in Handle, stage[u] # "unborn"
               PROVE  m_ms'[u] \in Delay /\ m_ms'[u] <= m_next'[u] /\ m_next'[u] - m_ms'[u] <= clock
    BY <1>1 DEF StartedBefore
  <2>1. CASE u = t
    BY <1>2, <1>3, <1>5, <2>1
  <2>2. CASE u # t
    BY <1>4, <2>2 DEF StartedBefore, TypeOK
  <2> QED
    BY <2>1, <2>2
<1>8. /\ m_next'[t] \in Time
      /\ Insert(m_timers \ {Key(t)}, [next |-> m_next'[t], timer |-> t])
  BY DEF Reset, TypeOK
<1>9. OnlySleepers' /\ Told' /\ Awaited'
  <2>1. PICK n \in Time : n = m_next'[t]
    BY <1>8
  <2>2. Insert(m_timers \ {Key(t)}, [next |-> n, timer |-> t])
    BY <1>8, <2>1
  <2> QED
    BY <1>1, <2>2, InsertAwaited
<1> QED
  BY <1>6, <1>7, <1>9

-----------------------------------------------------------------------------
(* The sleeper asks: what it is told is the first expiry, or a time past.    *)
LEMMA getNextTimerWInv ==
  ASSUME Settled, WInv, TInv', NEW l \in Lister, getNextTimer(l)
  PROVE  WInv'
<1> USE DEF WInv, TInv
<1>1. UNCHANGED <<clock, m_timers, m_previouseTime, m_next, m_ms, stage, notices, woken, now_ms>>
  BY DEF getNextTimer, timerVars, wakeVars
<1>2. ClockOrder' /\ StartedBefore'
  BY <1>1 DEF ClockOrder, StartedBefore
<1>3. pc[l] = "ask" /\ pc' = [pc EXCEPT ![l] = "asleep"] /\ ~m_tickled'
  BY DEF getNextTimer
<1>4. Recent' /\ OnlySleepers' /\ Told'
  BY <1>1, <1>3 DEF Recent, OnlySleepers, Told, TypeOK
<1>5. \A w \in Lister : pc'[w] = "asleep" => w = l
  BY <1>3 DEF OnlySleepers, TypeOK, Settled
<1>6. ASSUME NEW k \in m_timers PROVE InTime(l, k.next)'
  <2>1. Front \in m_timers /\ Front.next <= k.next
    BY <1>6, FrontFirst
  <2>2. PICK first \in Time : first = Front.next
    BY <2>1, EntryFields DEF TypeOK
  <2>3. until' = [until EXCEPT ![l] = clock + (IF clock >= first THEN 0 ELSE first - clock)]
    BY <1>6, <2>2 DEF getNextTimer
  <2>4. until'[l] = clock + (IF clock >= first THEN 0 ELSE first - clock)
    BY <2>3 DEF TypeOK
  <2>5. clock \in Time
    BY DEF TypeOK
  <2>6. first \in Int /\ clock \in Int
    BY <2>2, <2>5, TimeInt
  <2>7. (until'[l] = clock \/ until'[l] = first) /\ (until'[l] <= first \/ until'[l] <= clock)
    BY <2>4, <2>6
  <2>8. until'[l] # Never
    BY <2>2, <2>5, <2>7, TimerAssumption
  <2>9. k.next \in Int /\ first <= k.next
    BY <2>1, <2>2, EntryTimer
  <2> QED
    BY <1>1, <2>6, <2>7, <2>8, <2>9 DEF InTime
<1>7. Awaited'
  BY <1>1, <1>5, <1>6 DEF Awaited
<1> QED
  BY <1>2, <1>4, <1>7

LEMMA WakeUpWInv ==
  ASSUME Settled, WInv, TInv', NEW l \in Lister, WakeUp(l)
  PROVE  WInv'
<1> USE DEF WInv, TInv
<1>1. UNCHANGED <<clock, m_timers, m_previouseTime, m_next, m_ms, stage, now_ms>>
  BY DEF WakeUp, timerVars, managerVars
<1>2. ClockOrder' /\ StartedBefore'
  BY <1>1 DEF ClockOrder, StartedBefore
<1>3. pc[l] = "asleep" /\ pc' = [pc EXCEPT ![l] = "read"]
  BY DEF WakeUp
<1>4. Recent' /\ OnlySleepers' /\ \A w \in Lister : pc'[w] # "asleep"
  BY <1>1, <1>3 DEF Recent, OnlySleepers, TypeOK, Settled
<1> QED
  BY <1>2, <1>4 DEF Told, Awaited

LEMMA ReadWInv ==
  ASSUME Settled, WInv, TInv', NEW l \in Lister, ReadClock(l) \/ CheckEmpty(l)
  PROVE  WInv'
<1> USE DEF WInv, TInv
<1>1. UNCHANGED <<clock, m_timers, m_tickled, m_previouseTime, m_next, m_ms, stage, notices, woken, until>>
  BY DEF ReadClock, CheckEmpty, timerVars, managerVars, wakeVars
<1>2. StartedBefore'
  BY <1>1 DEF StartedBefore
<1>3. ClockOrder'
  <2>1. \A w \in Lister : now_ms'[w] = now_ms[w] \/ now_ms'[w] = clock
    BY DEF ReadClock, CheckEmpty, TypeOK
  <2>2. clock \in Int
    BY Times
  <2> QED
    BY <1>1, <2>1, <2>2 DEF ClockOrder
<1>4. /\ \A w \in Lister : pc'[w] = "asleep" => pc[w] = "asleep"
      /\ OnlySleepers'
  BY DEF ReadClock, CheckEmpty, Between, OnlySleepers, TypeOK
<1>5. Recent'
  <2> SUFFICES ASSUME NEW w \in Lister, pc'[w] \in {"check", "list"}
               PROVE  clock - now_ms'[w] <= HeldUp
    BY <1>1 DEF Recent
  <2>1. \/ now_ms'[w] = clock
        \/ pc[w] \in {"check", "list"} /\ now_ms'[w] = now_ms[w]
    BY DEF ReadClock, CheckEmpty, Between, TypeOK
  <2>2. clock \in Int /\ HeldUp \in Int /\ 0 <= HeldUp
    BY Times, TimerAssumption
  <2> QED
    BY <2>1, <2>2 DEF Recent
<1> QED
  BY <1>1, <1>2, <1>3, <1>4, <1>5 DEF Told, Awaited, ToBeWoken, InTime

(* A collector that has no rollback before it takes what is due; a recurring
   timer comes back behind the expiry it had.                                *)
LEMMA listExpiredCbWInv ==
  ASSUME Settled, WInv, TInv', NEW l \in Lister, listExpiredCb(l)
  PROVE  WInv'
<1> USE DEF WInv, TInv
<1> DEFINE now == now_ms[l]
           expired == {k.timer : k \in Expired(now)}
           again == {t \in expired : m_recurring[t]}
<1>1. UNCHANGED <<clock, m_ms, stage, m_tickled, notices, woken, until>>
  BY DEF listExpiredCb, wakeVars
<1>2. /\ m_next' = [t \in Handle |-> IF t \in again THEN Plus(now, m_ms[t]) ELSE m_next[t]]
      /\ m_timers' = (m_timers \ Expired(now)) \cup {[next |-> m_next'[t], timer |-> t] : t \in again}
      /\ m_previouseTime' = IF m_timers = {} THEN m_previouseTime ELSE now
      /\ now_ms' = [now_ms EXCEPT ![l] = Boot]
      /\ pc[l] = "list" /\ pc' = [pc EXCEPT ![l] = Between(l)]
  BY DEF listExpiredCb
<1>3. now \in Int /\ Boot <= now /\ now <= clock /\ 0 <= now /\ clock \in Int
  BY Times DEF ClockOrder, Settled
<1>4. ClockOrder'
  <2>1. \A w \in Lister : now_ms'[w] = now_ms[w] \/ now_ms'[w] = Boot
    BY <1>2 DEF TypeOK
  <2>2. Boot \in Int /\ Boot <= clock
    BY Times DEF ClockOrder
  <2>3. Boot <= now /\ now <= clock
    BY <1>3
  <2> QED
    BY <1>1, <1>2, <2>1, <2>2, <2>3 DEF ClockOrder
<1>5. \A k \in m_timers : k \in Expired(now) => k.next <= now
  BY <1>2, NoRollback DEF Expired
<1>6. ASSUME NEW t \in again
      PROVE  /\ t \in Handle /\ Key(t) \in m_timers /\ m_next[t] <= now
             /\ m_next'[t] = now + m_ms[t] /\ m_ms[t] \in Delay
             /\ m_ms[t] \in Int /\ 0 <= m_ms[t]
  <2>1. PICK k \in Expired(now) : k.timer = t
    OBVIOUS
  <2>2. k \in m_timers
    BY DEF Expired
  <2>3. t \in Handle /\ Key(t) = k /\ k.next = m_next[t] /\ Armed(t)
    BY <2>1, <2>2, EntryTimer
  <2>4. m_ms[t] \in Delay
    BY <2>3 DEF StartedBefore, Armed
  <2>5. m_ms[t] \in Int /\ 0 <= m_ms[t]
    BY <2>3, Times
  <2>6. Plus(now, m_ms[t]) = now + m_ms[t]
    <3>1. now <= MaxClock /\ MaxClock + m_ms[t] < Wrap /\ MaxClock \in Int /\ Wrap \in Int
      BY <1>3, <2>4, Times DEF Settled, ClockOrder
    <3> QED
      BY <1>3, <2>5, <3>1, SmallPlus
  <2> QED
    BY <1>2, <1>5, <2>2, <2>3, <2>4, <2>5, <2>6
<1> HIDE DEF expired, now
<1>7. StartedBefore'
  <2> SUFFICES ASSUME NEW t \in Handle, stage[t] # "unborn"
               PROVE  m_ms[t] \in Delay /\ m_ms[t] <= m_next'[t] /\ m_next'[t] - m_ms[t] <= clock
    BY <1>1 DEF StartedBefore
  <2>1. CASE t \in again
    BY <1>3, <1>6, <2>1
  <2>2. CASE t \notin again
    BY <1>2, <2>2 DEF StartedBefore
  <2> QED
    BY <2>1, <2>2
<1>8. ASSUME NEW k \in m_timers' PROVE \E old \in m_timers : old.next <= k.next
  <2>1. CASE k \in m_timers
    BY <2>1, EntryTimer
  <2>2. ASSUME NEW t \in again, k = [next |-> m_next'[t], timer |-> t]
        PROVE  \E old \in m_timers : old.next <= k.next
    <3>1. Key(t) \in m_timers /\ Key(t).next = m_next[t] /\ k.next = now + m_ms[t]
      BY <1>6, <2>2 DEF Key
    <3>2. m_next[t] \in Int
      BY <1>6, Times
    <3>3. m_next[t] <= now + m_ms[t]
      BY <1>3, <1>6, <3>2
    <3> QED
      BY <3>1, <3>3
  <2> QED
    BY <1>2, <2>1, <2>2
<1>9. /\ \A w \in Lister : pc'[w] = "asleep" => pc[w] = "asleep"
      /\ OnlySleepers'
  BY <1>2 DEF Between, OnlySleepers, TypeOK
<1>10. Told'
  BY <1>1, <1>9 DEF Told, ToBeWoken
<1>11. ASSUME NEW w \in Lister, pc'[w] = "asleep", ~ToBeWoken', NEW k \in m_timers'
       PROVE  InTime(w, k.next)'
  <2>1. PICK old \in m_timers : old.next <= k.next
    BY <1>8
  <2>2. InTime(w, old.next)
    BY <1>1, <1>9, <1>11 DEF Awaited, ToBeWoken
  <2>3. old.next \in Int /\ clock \in Int
    BY EntryTimer, Times
  <2>4. k.next \in Int
    <3>1. k.next \in Time
      BY EntryFields DEF TypeOK
    <3> QED
      BY <3>1, TimeInt
  <2>5. until[w] \in Nat
    <3>1. until[w] \in Nat \cup {Never}
      BY DEF TypeOK
    <3> QED
      BY <2>2, <3>1 DEF InTime
  <2> QED
    BY <1>1, <2>1, <2>2, <2>3, <2>4, <2>5 DEF InTime
<1>12. Awaited'
  BY <1>11 DEF Awaited
<1>13. Recent'
  BY <1>1, <1>2 DEF Recent, Between, TypeOK
<1> QED
  BY <1>4, <1>7, <1>9, <1>10, <1>12, <1>13

LEMMA NextWInv == Settled /\ WInv /\ [Next]_vars => WInv'
<1> SUFFICES ASSUME Settled, WInv, [Next]_vars PROVE WInv'
  OBVIOUS
<1>1. TInv'
  BY NextTInv DEF WInv
<1>2. CASE UNCHANGED vars
  BY <1>1, <1>2
  DEF vars, timerVars, managerVars, wakeVars, listerVars, WInv, ClockOrder, Recent,
      StartedBefore, OnlySleepers, Told, Awaited, InTime, ToBeWoken
<1>3. CASE Next
  BY <1>1, <1>3, TickWInv, NotifyWInv, MakeWInv, AddWInv, CancelWInv, RefreshWInv, ResetWInv,
     getNextTimerWInv, WakeUpWInv, ReadWInv, listExpiredCbWInv
  DEF Next
<1> QED
  BY <1>2, <1>3

-----------------------------------------------------------------------------
(* The invariant of the threads that use the timers: a sleeper's answer is good
   for every entry of the set, or a notice is on its way.                     *)
THEOREM TimerSleepInvariant ==
  ASSUME Settled
  PROVE  Spec => []WInv
<1>1. Init => WInv
  BY InitWInv
<1>2. WInv /\ [Next]_vars => WInv'
  BY NextWInv
<1> QED
  BY <1>1, <1>2, PTL DEF Spec

(* m_tickled, which suppresses announcements, never leaves the sleeper counting
   on a later expiry than the first one in the set.                           *)
THEOREM TimerNoMissedFront ==
  ASSUME Settled
  PROVE  Spec => []NoMissedFront
<1>1. ASSUME WInv PROVE NoMissedFront
  <2> SUFFICES ASSUME NEW l \in Sleeper, pc[l] = "asleep", m_timers # {}, ~ToBeWoken
               PROVE  until[l] # Never /\ (until[l] <= Front.next \/ until[l] <= clock)
    BY DEF NoMissedFront, ToBeWoken
  <2>1. l \in Lister
    BY TimerAssumption
  <2>2. Front \in m_timers
    BY <1>1, FrontFirst DEF WInv, TInv
  <2> QED
    BY <1>1, <2>1, <2>2 DEF WInv, Awaited, InTime
<1>2. Spec => []WInv
  BY TimerSleepInvariant
<1> QED
  BY <1>1, <1>2, PTL

(* What listExpiredCb's comment says of the monotonic clock: it is never seen to
   have gone back, by whatever thread collects.                               *)
THEOREM TimerNoRollover ==
  ASSUME Settled
  PROVE  Spec => NoRollover
<1>1. WInv /\ [Next]_vars =>
        [\A l \in Lister : listExpiredCb(l) /\ m_timers # {} => ~detectClockRollover(now_ms[l])]_vars
  BY NoRollback DEF listExpiredCb, WInv, TInv
<1>2. Spec => []WInv
  BY TimerSleepInvariant
<1> QED
  BY <1>1, <1>2, PTL DEF Spec, NoRollover

(* No callback is handed out before the time it was set for.                  *)
THEOREM TimerNeverEarly ==
  ASSUME Settled
  PROVE  Spec => NeverEarly
<1>1. ASSUME WInv, NEW l \in Lister, listExpiredCb(l), NEW k \in Expired(now_ms[l])
      PROVE  k.next <= clock
  <2>1. k \in m_timers /\ k.next <= now_ms[l]
    BY <1>1, NoRollback DEF Expired, listExpiredCb, WInv, TInv
  <2>2. k.next \in Int
    BY <1>1, <2>1, EntryTimer DEF WInv
  <2>3. now_ms[l] \in Int /\ clock \in Int /\ now_ms[l] <= clock
    BY <1>1, Times DEF WInv, TInv, ClockOrder
  <2> QED
    BY <2>1, <2>2, <2>3
<1>2. WInv /\ [Next]_vars =>
        [\A l \in Lister : listExpiredCb(l) => \A k \in Expired(now_ms[l]) : k.next <= clock]_vars
  BY <1>1
<1>3. Spec => []WInv
  BY TimerSleepInvariant
<1> QED
  BY <1>2, <1>3, PTL DEF Spec, NeverEarly
=============================================================================
