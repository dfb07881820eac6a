------------------------------- MODULE Timer -------------------------------
(***************************************************************************)
(* Timer and TimerManager of common/Timer.cc: timers added, cancelled,     *)
(* refreshed and reset by any thread, and threads that ask how long they   *)
(* may sleep (getNextTimer), sleep, and collect what has expired           *)
(* (listExpiredCb).                                                        *)
(*                                                                         *)
(* m_timers is a std::set ordered by (m_next, address): an element is      *)
(* found again only through the m_next it was inserted with, so the model  *)
(* keeps that key beside the timer.  Everything done under the manager's   *)
(* lock is one step; what is read before the lock, the clock above all,    *)
(* and onTimerInsertedAtFront, called after it, are steps of their own.    *)
(* Times are unsigned: arithmetic is modulo Wrap.                          *)
(***************************************************************************)
EXTENDS Integers, FiniteSets

CONSTANTS
  Handle,     (* the Timer objects                                           *)
  Lister,     (* the threads that sleep and collect                          *)
  Sleeper,    (* those of them that sleep by getNextTimer                    *)
  Delay,      (* the intervals a timer is given                              *)
  Never,      (* ~0ull: nothing to wait for                                  *)
  Wrap,       (* 2^64                                                        *)
  Hour,       (* 60 * 60 * 1000                                              *)
  Boot,       (* the clock when the manager is constructed: time since boot  *)
  HeldUp,     (* bound: how long a thread that has read the clock may wait   *)
              (* for the lock                                                *)
  MaxClock,   (* bound: how far the clock goes                               *)
  MaxChange   (* bound: refresh() and reset() calls                          *)

Time == 0 .. Wrap - 1

ASSUME TimerAssumption ==
  /\ Wrap \in Nat \ {0} /\ Hour \in Time /\ Boot \in Time /\ MaxClock \in Time
  /\ HeldUp \in Nat /\ MaxChange \in Nat
  /\ Delay \subseteq Time /\ Sleeper \subseteq Lister
  /\ Never \notin Time

VARIABLES
  clock,             (* CLOCK_MONOTONIC_RAW in milliseconds                  *)
  m_timers, m_tickled, m_previouseTime,
  m_next, m_ms, m_recurring,
  m_cb,              (* whether the timer still has its callback             *)
  stage,             (* a timer is "unborn", "made" by addTimer, "added"     *)
  notices,           (* calls of onTimerInsertedAtFront about to be made     *)
  woken,             (* that call was made and no sleeper has noticed        *)
  pc, now_ms,        (* of the listers                                       *)
  until,             (* when a sleep by getNextTimer's answer ends, at best  *)
  fate,              (* history: "pending" until cancel() returns true or    *)
                     (* the callback is handed out for good                  *)
  changes            (* refresh() and reset() calls so far                   *)

timerVars   == <<m_next, m_ms, m_recurring, m_cb, stage, fate>>
managerVars == <<m_timers, m_tickled, m_previouseTime>>
wakeVars    == <<notices, woken>>
listerVars  == <<pc, now_ms, until>>
vars == <<clock, changes, timerVars, managerVars, wakeVars, listerVars>>

Between(l) == IF l \in Sleeper THEN "ask" ELSE "read"

Init ==
  /\ clock = Boot /\ m_previouseTime = Boot
  /\ m_timers = {} /\ m_tickled = FALSE
  /\ m_next = [t \in Handle |-> 0] /\ m_ms = [t \in Handle |-> 0]
  /\ m_recurring = [t \in Handle |-> FALSE] /\ m_cb = [t \in Handle |-> FALSE]
  /\ stage = [t \in Handle |-> "unborn"] /\ fate = [t \in Handle |-> "pending"]
  /\ notices = 0 /\ woken = FALSE
  /\ pc = [l \in Lister |-> Between(l)]
  /\ now_ms = [l \in Lister |-> Boot]
  /\ until = [l \in Lister |-> Never]
  /\ changes = 0

(* No thread is held up for longer between its reading of the clock and the
   lock, in listExpiredCb.                                                   *)
Tick ==
  /\ clock < MaxClock
  /\ \A l \in Lister : pc[l] \in {"check", "list"} => clock - now_ms[l] < HeldUp
  /\ clock' = clock + 1
  /\ UNCHANGED <<changes, timerVars, managerVars, wakeVars, listerVars>>

-----------------------------------------------------------------------------
(* Timer *)

(* Where a timer is looked for, and whether it is found there.               *)
Key(t) == [next |-> m_next[t], timer |-> t]
Found(t) == Key(t) \in m_timers

Plus(a, b) == (a + b) % Wrap

(* The constructor, outside the lock.                                        *)
Make(t) ==
  /\ stage[t] = "unborn"
  /\ \E ms \in Delay, recurring \in BOOLEAN :
       /\ m_ms' = [m_ms EXCEPT ![t] = ms]
       /\ m_recurring' = [m_recurring EXCEPT ![t] = recurring]
       /\ m_next' = [m_next EXCEPT ![t] = Plus(clock, ms)]
  /\ m_cb' = [m_cb EXCEPT ![t] = TRUE]
  /\ stage' = [stage EXCEPT ![t] = "made"]
  /\ UNCHANGED <<clock, changes, fate, managerVars, wakeVars, listerVars>>

(* TimerManager::addTimer(val, lock): insert, and announce a new front unless
   one has been announced since getNextTimer was last called.  Between timers
   with one expiry the addresses decide which is in front.                   *)
Insert(rest, key) ==
  \E front \in BOOLEAN :
    /\ front => \A k \in rest : key.next <= k.next
    /\ (\A k \in rest : key.next < k.next) => front
    /\ m_timers' = rest \cup {key}
    /\ m_tickled' = (m_tickled \/ front)
    /\ notices' = IF front /\ ~m_tickled THEN notices + 1 ELSE notices

Add(t) ==
  /\ stage[t] = "made"
  /\ Insert(m_timers, Key(t))
  /\ stage' = [stage EXCEPT ![t] = "added"]
  /\ UNCHANGED <<clock, changes, m_next, m_ms, m_recurring, m_cb, fate,
                 m_previouseTime, woken, listerVars>>

(* Mutant: it is called whether or not the timer came to the front.          *)
NotifyAlways ==
  /\ notices' = notices - 1
  /\ woken' = TRUE
  /\ UNCHANGED <<clock, changes, timerVars, managerVars, listerVars>>

(* onTimerInsertedAtFront(), after the lock is released.                     *)
Notify ==
  /\ notices > 0
  /\ notices' = notices - 1
  /\ woken' = TRUE
  /\ UNCHANGED <<clock, changes, timerVars, managerVars, listerVars>>

(* cancel(), when it returns true: it erases what find() returns.            *)
Cancel(t) ==
  /\ stage[t] = "added" /\ m_cb[t]
  /\ m_cb' = [m_cb EXCEPT ![t] = FALSE]
  /\ m_timers' = m_timers \ {Key(t)}
  /\ fate' = [fate EXCEPT ![t] = "cancelled"]
  /\ UNCHANGED <<clock, changes, m_next, m_ms, m_recurring, stage, m_tickled, m_previouseTime,
                 wakeVars, listerVars>>

Change == changes < MaxChange /\ changes' = changes + 1

(* Mutant: refresh() moves the expiry before it looks the timer up, and does
   not find it.                                                              *)
RefreshFirst(t) ==
  /\ Change
  /\ stage[t] = "added" /\ m_cb[t]
  /\ m_next' = [m_next EXCEPT ![t] = Plus(clock, m_ms[t])]
  /\ UNCHANGED <<clock, m_ms, m_recurring, m_cb, stage, fate, managerVars,
                 wakeVars, listerVars>>

(* refresh(), when it returns true; nobody is told.                          *)
Refresh(t) ==
  /\ Change
  /\ stage[t] = "added" /\ m_cb[t] /\ Found(t)
  /\ m_next' = [m_next EXCEPT ![t] = Plus(clock, m_ms[t])]
  /\ m_timers' = (m_timers \ {Key(t)}) \cup {[next |-> m_next'[t], timer |-> t]}
  /\ UNCHANGED <<clock, m_ms, m_recurring, m_cb, stage, fate, m_tickled,
                 m_previouseTime, wakeVars, listerVars>>

(* Mutant: reset() inserts by itself, as refresh() does.                     *)
ResetUnannounced(t, ms, from_now) ==
  /\ Change
  /\ stage[t] = "added" /\ m_cb[t] /\ Found(t)
  /\ ms # m_ms[t] \/ from_now
  /\ m_ms' = [m_ms EXCEPT ![t] = ms]
  /\ LET start == IF from_now THEN clock ELSE (m_next[t] - m_ms[t]) % Wrap
     IN  m_next' = [m_next EXCEPT ![t] = Plus(start, ms)]
  /\ m_timers' = (m_timers \ {Key(t)}) \cup {[next |-> m_next'[t], timer |-> t]}
  /\ UNCHANGED <<clock, m_recurring, m_cb, stage, fate, m_tickled, m_previouseTime,
                 wakeVars, listerVars>>

(* reset(ms, from_now), when it changes anything.                            *)
Reset(t, ms, from_now) ==
  /\ Change
  /\ stage[t] = "added" /\ m_cb[t] /\ Found(t)
  /\ ms # m_ms[t] \/ from_now
  /\ m_ms' = [m_ms EXCEPT ![t] = ms]
  /\ LET start == IF from_now THEN clock ELSE (m_next[t] - m_ms[t]) % Wrap
     IN  m_next' = [m_next EXCEPT ![t] = Plus(start, ms)]
  /\ Insert(m_timers \ {Key(t)}, [next |-> m_next'[t], timer |-> t])
  /\ UNCHANGED <<clock, m_recurring, m_cb, stage, fate, m_previouseTime,
                 woken, listerVars>>

-----------------------------------------------------------------------------
(* TimerManager, as a thread that sleeps until the next timer uses it        *)

Front == CHOOSE k \in m_timers : \A other \in m_timers : k.next <= other.next

(* The distance to the first expiry.                                         *)
getNextTimer(l) ==
  /\ pc[l] = "ask"
  /\ m_tickled' = FALSE
  /\ until' = [until EXCEPT ![l] =
       IF m_timers = {} THEN Never
       ELSE clock + (IF clock >= Front.next THEN 0 ELSE Front.next - clock)]
  /\ pc' = [pc EXCEPT ![l] = "asleep"]
  /\ UNCHANGED <<clock, changes, timerVars, m_timers, m_previouseTime, wakeVars, now_ms>>

(* The sleep, an epoll_wait with that timeout, ends: it began after the answer
   was given, so at that time or at any later one, or by the announcement.   *)
WakeUp(l) ==
  /\ pc[l] = "asleep"
  /\ woken \/ (until[l] # Never /\ clock >= until[l])
  /\ woken' = FALSE
  /\ until' = [until EXCEPT ![l] = Never]
  /\ pc' = [pc EXCEPT ![l] = "read"]
  /\ UNCHANGED <<clock, changes, timerVars, managerVars, notices, now_ms>>

(* listExpiredCb: the clock is read before the lock is taken.                *)
ReadClock(l) ==
  /\ pc[l] = "read"
  /\ now_ms' = [now_ms EXCEPT ![l] = clock]
  /\ pc' = [pc EXCEPT ![l] = "check"]
  /\ UNCHANGED <<clock, changes, timerVars, managerVars, wakeVars, until>>

(* The look under the read lock, which only saves the write lock.            *)
CheckEmpty(l) ==
  /\ pc[l] = "check"
  /\ pc' = [pc EXCEPT ![l] = IF m_timers = {} THEN Between(l) ELSE "list"]
  /\ UNCHANGED <<clock, changes, timerVars, managerVars, wakeVars, now_ms, until>>

(* Mutant: a clock that was seen to go back at all has rolled over.          *)
RolledBack(now) == now < m_previouseTime

(* detectClockRollover: the subtraction is unsigned.                         *)
detectClockRollover(now) ==
  now < m_previouseTime /\ now < (m_previouseTime - Hour) % Wrap

(* What lower_bound and the walk over equal expiries leave behind them.      *)
Expired(now) == {k \in m_timers : detectClockRollover(now) \/ k.next <= now}

(* Mutant: a timer that is not recurring keeps its callback.                 *)
listExpiredCbKeeping(l) ==
  /\ pc[l] = "list"
  /\ LET expired == {k.timer : k \in Expired(now_ms[l])}
         again   == {t \in expired : m_recurring[t]}
     IN  /\ m_next' = [t \in Handle |-> IF t \in again THEN Plus(now_ms[l], m_ms[t]) ELSE m_next[t]]
         /\ m_timers' = (m_timers \ Expired(now_ms[l]))
                           \cup {[next |-> m_next'[t], timer |-> t] : t \in again}
  /\ fate' = [t \in Handle |-> IF \E k \in Expired(now_ms[l]) : k.timer = t /\ ~m_recurring[t]
                               THEN "fired" ELSE fate[t]]
  /\ m_previouseTime' = IF m_timers = {} THEN m_previouseTime ELSE now_ms[l]
  /\ now_ms' = [now_ms EXCEPT ![l] = Boot]
  /\ pc' = [pc EXCEPT ![l] = Between(l)]
  /\ UNCHANGED <<clock, changes, m_ms, m_recurring, m_cb, stage, m_tickled, wakeVars, until>>

(* The rest of listExpiredCb, under the write lock: expired timers leave the
   set; the recurring ones come back with a new expiry, the others lose their
   callback.                                                                 *)
listExpiredCb(l) ==
  /\ pc[l] = "list"
  /\ LET expired == {k.timer : k \in Expired(now_ms[l])}
         again   == {t \in expired : m_recurring[t]}
     IN  /\ m_next' = [t \in Handle |-> IF t \in again THEN Plus(now_ms[l], m_ms[t]) ELSE m_next[t]]
         /\ m_cb' = [t \in Handle |-> m_cb[t] /\ t \notin expired \ again]
         /\ fate' = [t \in Handle |-> IF t \in expired \ again THEN "fired" ELSE fate[t]]
         /\ m_timers' = (m_timers \ Expired(now_ms[l]))
                           \cup {[next |-> m_next'[t], timer |-> t] : t \in again}
  /\ m_previouseTime' = IF m_timers = {} THEN m_previouseTime ELSE now_ms[l]
  /\ now_ms' = [now_ms EXCEPT ![l] = Boot]
  /\ pc' = [pc EXCEPT ![l] = Between(l)]
  /\ UNCHANGED <<clock, changes, m_ms, m_recurring, stage, m_tickled, wakeVars, until>>

Next ==
  \/ Tick \/ Notify
  \/ \E t \in Handle :
       \/ Make(t) \/ Add(t) \/ Cancel(t) \/ Refresh(t)
       \/ \E ms \in Delay, from_now \in BOOLEAN : Reset(t, ms, from_now)
  \/ \E l \in Lister :
       getNextTimer(l) \/ WakeUp(l) \/ ReadClock(l) \/ CheckEmpty(l)
         \/ listExpiredCb(l)

Spec == Init /\ [][Next]_vars

-----------------------------------------------------------------------------
TypeOK ==
  /\ {clock, m_previouseTime} \subseteq Time
  /\ m_timers \subseteq [next : Time, timer : Handle]
  /\ m_next \in [Handle -> Time] /\ m_ms \in [Handle -> Time]
  /\ {m_recurring, m_cb} \subseteq [Handle -> BOOLEAN]
  /\ fate \in [Handle -> {"pending", "cancelled", "fired"}]
  /\ {m_tickled, woken} \subseteq BOOLEAN
  /\ stage \in [Handle -> {"unborn", "made", "added"}]
  /\ notices \in Nat
  /\ pc \in [Lister -> {"ask", "asleep", "read", "check", "list"}]
  /\ now_ms \in [Lister -> Time]
  /\ until \in [Lister -> Nat \cup {Never}]
  /\ changes \in Nat

(* A timer that was added has its callback exactly as long as it is in the
   set, once, under the expiry it has now.  cancel() erases the iterator
   find() returns without looking at it, and rests on this.                  *)
FiledWhileArmed ==
  \A t \in Handle :
    {k \in m_timers : k.timer = t} = IF stage[t] = "added" /\ m_cb[t] THEN {Key(t)} ELSE {}

(* listExpiredCb hands out no callback before the time it was set for.       *)
NeverEarly ==
  [][\A l \in Lister : listExpiredCb(l) => \A k \in Expired(now_ms[l]) : k.next <= clock]_vars

(* The callback of a timer is handed out for good or cancel() reports it as
   cancelled, once and not both: listExpiredCb hands out none that was
   cancelled or is gone already, and cancel() reports none that was handed out
   for good or cancelled before.                                             *)
CancelIsFinal ==
  [][/\ \A l \in Lister : listExpiredCb(l) =>
          \A k \in Expired(now_ms[l]) : fate[k.timer] = "pending"
     /\ \A t \in Handle : Cancel(t) => fate[t] = "pending"]_vars

(* With one sleeper, and threads that collect beside it: a sleeper that counts
   on a later expiry than the first one in the set is about to be woken.
   m_tickled suppresses announcements, and refresh(), listExpiredCb() and
   cancel() make none.                                                       *)
NoMissedFront ==
  \A l \in Sleeper :
    pc[l] = "asleep" /\ m_timers # {}
      => \/ until[l] # Never /\ (until[l] <= Front.next \/ until[l] <= clock)
         \/ notices > 0 \/ woken

(* What the comment in listExpiredCb says: the clock is monotonic, so it is
   never seen to go back.  False within the first hour after boot.           *)
NoRollover ==
  [][\A l \in Lister : listExpiredCb(l) /\ m_timers # {} => ~detectClockRollover(now_ms[l])]_vars
=============================================================================
