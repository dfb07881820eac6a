---------------------------- MODULE HookIOProofs ----------------------------
(***************************************************************************)
(* The calls of hook.cc, for any number of fibers, of threads in idle()    *)
(* and of callbacks under way: what wakes a fiber is meant for the wait it *)
(* is in, a call that reports a timeout has had one, connect() tells the   *)
(* truth unless an earlier connect() left something behind, and beside its *)
(* sleepers the socket is one of FdEvents.                                 *)
(***************************************************************************)
EXTENDS HookIO, FdEventsProofs

(* A fiber that has yielded to wait for an event.                             *)
InIO(w) == call[w] \in {"io", "connect"} /\ pc[w] = "wait"

(* A registered event has its waiter in its context, and it has yielded.      *)
CallContexts ==
  \A e \in Event :
    IF e \in events
    THEN piber[e] \in Waiter /\ Of(piber[e]) = e /\ InIO(piber[e])
    ELSE piber[e] = None

(* Which places a call has.                                                  *)
Placed(w) ==
  /\ call[w] = "none" => pc[w] = "try"
  /\ call[w] = "raw" => pc[w] \in {"try", "held"}
  /\ call[w] = "io" => pc[w] \in {"try", "held", "add", "wait"}
  /\ call[w] = "connect" => w \in Connector /\ pc[w] \in {"held", "add", "wait", "ask"}
  /\ call[w] = "sleep" => pc[w] = "wait"
  /\ w \in waits <=> pc[w] = "wait"

(* A fiber is scheduled once, when what it waits for is over.                 *)
WokenOnce(w) ==
  due[w] = IF pc[w] = "wait" /\ (IF call[w] = "sleep" THEN w \notin ticking /\ handed[w] = 0
                                                     ELSE piber[Of(w)] # w)
           THEN 1 ELSE 0

(* Timers are those of calls under way; a marked call has had its timer
   expire; a sleep has one timer, and it fires once.                         *)
TimersOwn(w) ==
  /\ w \in ticking \cup cancelled => call[w] \in {"io", "connect", "sleep"}
  /\ handed[w] > 0 \/ marking[w] > 0 => call[w] \in {"io", "connect", "sleep"}
  /\ w \in cancelled \/ marking[w] > 0 => call[w] # "sleep"
  /\ w \in cancelled \/ handed[w] > 0 \/ marking[w] > 0 => w \in expired
  /\ call[w] = "sleep" =>
       /\ w \in ticking \/ w \in expired
       /\ handed[w] <= 1 /\ ~(w \in ticking /\ handed[w] > 0)
  /\ w \in clean => call[w] = "connect"

(* The callbacks of a fiber that are under way, wherever they are.            *)
LateBounded(w) == handed[w] + marking[w] + late[w] <= MaxLate

CallOK(w) == Placed(w) /\ WokenOnce(w) /\ TimersOwn(w) /\ LateBounded(w)

(* epoll knows what is registered, of a socket that is open.                  *)
SocketWatched ==
  /\ closing => open
  /\ open => interest = events
  /\ ~open => level = {}

HInv ==
  /\ HookTypeOK /\ CallContexts /\ SocketWatched /\ NothingMissed
  /\ \A w \in Waiter : CallOK(w)

-----------------------------------------------------------------------------
(* Types, where they are not what the assignment says.                       *)
LEMMA addEventTypes ==
  ASSUME TypeOK, NEW w \in Waiter, addEvent(w)
  PROVE  TypeOK'
<1>1. (events \cup {Of(w)}) \in SUBSET Event
  BY OfEvent DEF TypeOK
<1>2. m_pendingEventCount' \in 0 .. Wrap - 1
  BY ModWidth DEF addEvent, TypeOK
<1> QED
  BY <1>1, <1>2, CtlTypes DEF addEvent, TypeOK

LEMMA CountedTypes ==
  ASSUME TypeOK, NEW n \in Int, m_pendingEventCount' = Less(n)
  PROVE  m_pendingEventCount' \in 0 .. Wrap - 1
BY ModWidth DEF Less, TypeOK

LEMMA TriggerTypes ==
  ASSUME TypeOK, NEW set \in SUBSET Event, triggerEvent(set)
  PROVE  /\ events' \in SUBSET Event /\ piber' \in [Event -> Waiter \cup {None}]
         /\ due' \in [Waiter -> Nat]
<1>1. \A w \in Waiter : Cardinality({e \in set : piber[e] = w}) \in Nat
  BY EventSubsets
<1>2. \A w \in Waiter : due[w] + Cardinality({e \in set : piber[e] = w}) \in Nat
  BY <1>1 DEF TypeOK
<1> QED
  BY <1>2 DEF triggerEvent, TypeOK

LEMMA RunTypes ==
  ASSUME TypeOK, NEW w \in Waiter, Run(w)
  PROVE  TypeOK' /\ due'[w] = due[w] - 1 /\ \A v \in Waiter : v # w => due'[v] = due[v]
<1>1. due[w] - 1 \in Nat
  BY DEF Run, TypeOK
<1>2. due' \in [Waiter -> Nat]
  BY <1>1 DEF Run, TypeOK
<1> QED
  BY <1>2 DEF Run, TypeOK, kernelVars

LEMMA HookNames ==
  /\ None \notin Waiter /\ Connector \subseteq Waiter
  /\ MaxLate \in Nat /\ 0 < MaxLate
BY FdAssumption, HookAssumption


(* The callbacks under way are counted.                                      *)
LEMMA CountsAre ==
  ASSUME HookTypeOK
  PROVE  /\ handed \in [Waiter -> 0 .. MaxLate]
         /\ marking \in [Waiter -> 0 .. MaxLate]
         /\ late \in [Waiter -> 0 .. MaxLate]
         /\ \A w \in Waiter : handed[w] \in Nat /\ marking[w] \in Nat /\ late[w] \in Nat
<1>1. /\ handed \in [Waiter -> 0 .. MaxLate]
      /\ marking \in [Waiter -> 0 .. MaxLate]
      /\ late \in [Waiter -> 0 .. MaxLate]
  BY DEF HookTypeOK
<1>2. \A n \in 0 .. MaxLate : n \in Nat
  BY HookNames
<1> QED
  BY <1>1, <1>2

LEMMA CountsTyped ==
  ASSUME handed' \in [Waiter -> 0 .. MaxLate], marking' \in [Waiter -> 0 .. MaxLate],
         late' \in [Waiter -> 0 .. MaxLate]
  PROVE  {handed', marking', late'} \subseteq [Waiter -> 0 .. MaxLate]
OBVIOUS

-----------------------------------------------------------------------------
(* A step of one call leaves the others as they are.                         *)
LEMMA OthersOK ==
  ASSUME HookTypeOK, \A v \in Waiter : CallOK(v), NEW w \in Waiter,
         \A v \in Waiter : v # w =>
           /\ call'[v] = call[v] /\ pc'[v] = pc[v] /\ due'[v] = due[v]
           /\ handed'[v] = handed[v] /\ marking'[v] = marking[v] /\ late'[v] = late[v]
           /\ v \in waits' <=> v \in waits
           /\ v \in ticking' <=> v \in ticking
           /\ v \in cancelled' <=> v \in cancelled
           /\ v \in expired' <=> v \in expired
           /\ v \in clean' <=> v \in clean
           /\ piber'[Of(v)] = v <=> piber[Of(v)] = v
  PROVE  \A v \in Waiter : v # w => CallOK(v)'
<1> SUFFICES ASSUME NEW v \in Waiter, v # w PROVE CallOK(v)'
  OBVIOUS
<1>1. CallOK(v)
  OBVIOUS
<1>2. Placed(v)' /\ WokenOnce(v)' /\ LateBounded(v)'
  BY <1>1 DEF CallOK, Placed, WokenOnce, LateBounded, Of
<1>3. TimersOwn(v)'
  BY <1>1 DEF CallOK, TimersOwn
<1> QED
  BY <1>2, <1>3 DEF CallOK

(* What ends registrations schedules who is registered, and no other.        *)
LEMMA TriggerCalls ==
  ASSUME HInv, NEW set \in SUBSET Event, triggerEvent(set),
         UNCHANGED <<waits, call, pc, clean, ticking, handed, marking, cancelled, expired>>
  PROVE  /\ CallContexts'
         /\ \A w \in Waiter : Placed(w)' /\ WokenOnce(w)' /\ TimersOwn(w)'
         /\ \A w \in Waiter :
              due'[w] = due[w] + (IF Of(w) \in set /\ piber[Of(w)] = w THEN 1 ELSE 0)
<1>1. OwnContext
  BY HookNames DEF HInv, CallContexts, OwnContext
<1>2. \A w \in Waiter : due'[w] = due[w] + (IF Of(w) \in set /\ piber[Of(w)] = w THEN 1 ELSE 0)
  BY <1>1, NamedCount DEF triggerEvent
<1>3. CallContexts'
  BY DEF triggerEvent, HInv, CallContexts, InIO
<1>4. \A w \in Waiter : Placed(w)' /\ TimersOwn(w)'
  BY DEF HInv, CallOK, Placed, TimersOwn
<1>5. ASSUME NEW w \in Waiter PROVE WokenOnce(w)'
  <2>1. piber'[Of(w)] = IF Of(w) \in set THEN None ELSE piber[Of(w)]
    BY OfEvent DEF triggerEvent
  <2>2. piber[Of(w)] = w => pc[w] = "wait" /\ call[w] # "sleep"
    BY OfEvent, HookNames DEF HInv, CallContexts, InIO
  <2>3. WokenOnce(w)
    BY DEF HInv, CallOK
  <2> QED
    BY <1>2, <2>1, <2>2, <2>3, HookNames DEF WokenOnce
<1> QED
  BY <1>2, <1>3, <1>4, <1>5

-----------------------------------------------------------------------------
LEMMA InitHInv == HookInit => HInv
<1> SUFFICES ASSUME HookInit PROVE HInv
  OBVIOUS
<1>1. HookTypeOK
  <2>1. TypeOK
    BY InitFInv DEF HookInit, FInv
  <2>2. 0 \in 0 .. MaxLate
    BY HookNames
  <2>3. {handed, marking, late} \subseteq [Waiter -> 0 .. MaxLate]
    BY <2>2 DEF HookInit
  <2> QED
    BY <2>1, <2>3 DEF HookInit, HookTypeOK
<1>2. CallContexts /\ SocketWatched /\ NothingMissed
  BY DEF HookInit, Init, CallContexts, SocketWatched, NothingMissed
<1>3. \A w \in Waiter : CallOK(w)
  BY OfEvent, HookNames DEF HookInit, Init, CallOK, Placed, WokenOnce, TimersOwn, LateBounded
<1> QED
  BY <1>1, <1>2, <1>3 DEF HInv

-----------------------------------------------------------------------------
(* A call returns: whatever woke it is used up, its timers are gone, and a
   callback that has not marked it yet goes on to cancelEvent().             *)
LEMMA ReturnHInv ==
  ASSUME HInv, NEW w \in Waiter, NEW r \in {"ok", "error", "ETIMEDOUT"}, Return(w, r),
         UNCHANGED <<events, piber>>, TypeOK',
         open' \in BOOLEAN, closing' \in BOOLEAN, conn' \in {"none", "progress", "up", "refused"},
         userNonblock' \in BOOLEAN, nonblock' \in BOOLEAN,
         piber[Of(w)] # w, w \notin waits', due'[w] = 0,
         \A v \in Waiter : v # w => due'[v] = due[v] /\ (v \in waits' <=> v \in waits)
  PROVE  /\ HookTypeOK' /\ CallContexts'
         /\ \A v \in Waiter : CallOK(v)'
<1> USE DEF HInv, Return
<1>1. /\ handed[w] \in Nat /\ marking[w] \in Nat /\ late[w] \in Nat
      /\ handed \in [Waiter -> 0 .. MaxLate] /\ marking \in [Waiter -> 0 .. MaxLate]
      /\ late \in [Waiter -> 0 .. MaxLate] /\ 0 \in 0 .. MaxLate
  BY CountsAre, HookNames
<1>2. late[w] + marking[w] \in 0 .. MaxLate
  BY <1>1, HookNames DEF CallOK, LateBounded
<1>3. /\ handed' \in [Waiter -> 0 .. MaxLate] /\ marking' \in [Waiter -> 0 .. MaxLate]
      /\ late' \in [Waiter -> 0 .. MaxLate]
      /\ handed'[w] = 0 /\ marking'[w] = 0 /\ late'[w] = late[w] + marking[w]
      /\ \A v \in Waiter : v # w => /\ handed'[v] = handed[v] /\ marking'[v] = marking[v]
                                    /\ late'[v] = late[v]
  BY <1>1, <1>2
<1>4. /\ call'[w] = "none" /\ pc'[w] = "try"
      /\ \A v \in Waiter : v # w => call'[v] = call[v] /\ pc'[v] = pc[v]
  BY DEF HookTypeOK
<1>5. HookTypeOK'
  BY <1>3, CountsTyped DEF HookTypeOK
<1>6. CallContexts'
  BY <1>4 DEF CallContexts, InIO, Of
<1>7. CallOK(w)'
  <2>1. Placed(w)' /\ WokenOnce(w)'
    BY <1>4 DEF Placed, WokenOnce
  <2>2. TimersOwn(w)'
    BY <1>3, <1>4 DEF TimersOwn
  <2>3. LateBounded(w)'
    BY <1>2, <1>3, HookNames DEF LateBounded
  <2> QED
    BY <2>1, <2>2, <2>3 DEF CallOK
<1>8. \A v \in Waiter : v # w => CallOK(v)'
  BY <1>3, <1>4, OthersOK
<1> QED
  BY <1>5, <1>6, <1>7, <1>8

(* A call that begins has nothing left over from the one before, but perhaps
   callbacks on their way to cancelEvent().                                  *)
LEMMA EnterFacts ==
  ASSUME HInv, NEW w \in Waiter, NEW c, NEW p, Enter(w, c, p)
  PROVE  /\ call[w] = "none" /\ call'[w] = c /\ pc'[w] = p
         /\ \A v \in Waiter : v # w => call'[v] = call[v] /\ pc'[v] = pc[v]
         /\ timed' \in SUBSET Waiter /\ outcome' \in [Waiter -> {"none", "ok", "error", "ETIMEDOUT"}]
         /\ due[w] = 0 /\ w \notin waits /\ w \notin clean
         /\ w \notin ticking \cup cancelled /\ handed[w] = 0 /\ marking[w] = 0
         /\ \A e \in Event : piber[e] # w
<1> USE DEF HInv
<1>1. call[w] = "none" /\ pc[w] = "try"
  BY DEF Enter, CallOK, Placed
<1>2. \A e \in Event : piber[e] # w
  BY <1>1, HookNames DEF CallContexts, InIO
<1>3. due[w] = 0 /\ w \notin waits /\ w \notin ticking \cup cancelled /\ w \notin clean
  BY <1>1 DEF CallOK, Placed, WokenOnce, TimersOwn
<1>4. handed[w] = 0 /\ marking[w] = 0
  BY <1>1, CountsAre DEF CallOK, TimersOwn
<1>5. /\ call'[w] = c /\ pc'[w] = p
      /\ \A v \in Waiter : v # w => call'[v] = call[v] /\ pc'[v] = pc[v]
      /\ timed' \in SUBSET Waiter /\ outcome' \in [Waiter -> {"none", "ok", "error", "ETIMEDOUT"}]
  BY DEF Enter, setsockopt, HookTypeOK
<1> QED
  BY <1>1, <1>2, <1>3, <1>4, <1>5

LEMMA do_ioHInv ==
  ASSUME HInv, NEW w \in Waiter, do_io(w)
  PROVE  HInv'
<1> DEFINE c == IF known /\ ~userNonblock THEN "io" ELSE "raw"
<1> USE DEF HInv, do_io
<1>1. Enter(w, c, "try")
  OBVIOUS
<1>2. /\ call[w] = "none" /\ call'[w] = c /\ pc'[w] = "try"
      /\ \A v \in Waiter : v # w => call'[v] = call[v] /\ pc'[v] = pc[v]
      /\ timed' \in SUBSET Waiter /\ outcome' \in [Waiter -> {"none", "ok", "error", "ETIMEDOUT"}]
      /\ due[w] = 0 /\ w \notin waits /\ w \notin clean
      /\ w \notin ticking \cup cancelled /\ handed[w] = 0 /\ marking[w] = 0
      /\ \A e \in Event : piber[e] # w
  BY <1>1, EnterFacts
<1>3. c \in {"io", "raw"}
  OBVIOUS
<1> HIDE DEF c
<1>4. HookTypeOK'
  BY <1>1, <1>2, <1>3 DEF HookTypeOK, Enter, TypeOK, vars, kernelVars, socketVars, timerVars
<1>5. CallContexts' /\ SocketWatched' /\ NothingMissed'
  BY <1>2 DEF CallContexts, InIO, Of, SocketWatched, NothingMissed, vars, kernelVars, socketVars
<1>6. CallOK(w)'
  BY <1>2, <1>3 DEF CallOK, Placed, WokenOnce, TimersOwn, LateBounded, vars, timerVars
<1>7. \A v \in Waiter : v # w => CallOK(v)'
  BY <1>2, OthersOK DEF vars, timerVars
<1> QED
  BY <1>4, <1>5, <1>6, <1>7

LEMMA sleepHInv ==
  ASSUME HInv, NEW w \in Waiter, sleep(w)
  PROVE  HInv'
<1> USE DEF HInv, sleep
<1>1. Enter(w, "sleep", "wait")
  OBVIOUS
<1>2. /\ call[w] = "none" /\ call'[w] = "sleep" /\ pc'[w] = "wait"
      /\ \A v \in Waiter : v # w => call'[v] = call[v] /\ pc'[v] = pc[v]
      /\ timed' \in SUBSET Waiter /\ outcome' \in [Waiter -> {"none", "ok", "error", "ETIMEDOUT"}]
      /\ due[w] = 0 /\ w \notin waits /\ w \notin clean
      /\ w \notin ticking \cup cancelled /\ handed[w] = 0 /\ marking[w] = 0
      /\ \A e \in Event : piber[e] # w
  BY <1>1, EnterFacts
<1>3. HookTypeOK'
  BY <1>1, <1>2 DEF HookTypeOK, Enter, TypeOK, kernelVars, socketVars
<1>4. CallContexts' /\ SocketWatched' /\ NothingMissed'
  BY <1>2 DEF CallContexts, InIO, Of, SocketWatched, NothingMissed, kernelVars, socketVars
<1>5. CallOK(w)'
  BY <1>2 DEF CallOK, Placed, WokenOnce, TimersOwn, LateBounded
<1>6. \A v \in Waiter : v # w => CallOK(v)'
  BY <1>2, OthersOK
<1> QED
  BY <1>3, <1>4, <1>5, <1>6

(* A socket that becomes less ready, or is connected anew.                    *)
LEMMA LessReady ==
  ASSUME HInv, level' \in SUBSET level, UNCHANGED <<events, interest, armed, fetched, open, closing>>
  PROVE  SocketWatched' /\ NothingMissed'
BY DEF HInv, SocketWatched, NothingMissed

LEMMA connectHInv ==
  ASSUME HInv, NEW w \in Connector, connect_with_timeout(w)
  PROVE  HInv'
<1> USE DEF HInv
<1>1. /\ w \in Waiter /\ level' \in SUBSET level /\ conn' \in {"none", "progress", "up", "refused"}
      /\ UNCHANGED <<events, piber, m_pendingEventCount, interest, armed, fetched, waits, due,
                     open, closing, userNonblock, nonblock, handed, marking, cancelled, late, expired>>
  BY HookNames DEF connect_with_timeout, ConnectAtOnce, ConnectInProgress, HookTypeOK
<1>2. SocketWatched' /\ NothingMissed'
  BY <1>1, LessReady
<1>3. CASE ConnectAtOnce(w)
  <2>1. /\ UNCHANGED <<call, pc, timed, clean, ticking>>
        /\ outcome' \in [Waiter -> {"none", "ok", "error", "ETIMEDOUT"}]
    BY <1>3 DEF ConnectAtOnce, HookTypeOK
  <2>2. HookTypeOK'
    BY <1>1, <2>1 DEF HookTypeOK, TypeOK
  <2>3. CallContexts'
    BY <1>1, <2>1 DEF CallContexts, InIO, Of
  <2>4. \A v \in Waiter : CallOK(v)'
    BY <1>1, <2>1 DEF CallOK, Placed, WokenOnce, TimersOwn, LateBounded, Of
  <2> QED
    BY <1>2, <2>2, <2>3, <2>4
<1>4. CASE ConnectInProgress(w)
  <2>1. PICK p \in {"add", "held"} :
          /\ Enter(w, "connect", p)
          /\ ticking' \in {ticking, ticking \cup {w}}
          /\ clean' \in {clean, clean \cup {w}}
    BY <1>4 DEF ConnectInProgress
  <2>2. /\ call[w] = "none" /\ call'[w] = "connect" /\ pc'[w] = p
        /\ \A v \in Waiter : v # w => call'[v] = call[v] /\ pc'[v] = pc[v]
        /\ timed' \in SUBSET Waiter /\ outcome' \in [Waiter -> {"none", "ok", "error", "ETIMEDOUT"}]
        /\ due[w] = 0 /\ w \notin waits /\ w \notin clean
        /\ w \notin ticking \cup cancelled /\ handed[w] = 0 /\ marking[w] = 0
        /\ \A e \in Event : piber[e] # w
    BY <1>1, <2>1, EnterFacts
  <2>3. HookTypeOK'
    BY <1>1, <2>1, <2>2 DEF HookTypeOK, Enter, TypeOK
  <2>4. CallContexts'
    BY <1>1, <2>2 DEF CallContexts, InIO, Of
  <2>5. CallOK(w)'
    BY <1>1, <2>1, <2>2 DEF CallOK, Placed, WokenOnce, TimersOwn, LateBounded
  <2>6. \A v \in Waiter : v # w => CallOK(v)'
    BY <1>1, <2>1, <2>2, OthersOK
  <2> QED
    BY <1>2, <2>3, <2>4, <2>5, <2>6
<1> QED
  BY <1>3, <1>4 DEF connect_with_timeout

(* A call moves on, from one place that waits for nothing to another, perhaps
   with a timer, perhaps without the one it had.                             *)
LEMMA MovesHInv ==
  ASSUME HInv, NEW w \in Waiter, NEW p \in {"try", "held", "add", "ask"},
         pc' = [pc EXCEPT ![w] = p],
         ticking' \in {ticking, ticking \cup {w}, ticking \ {w}},
         UNCHANGED <<call, timed, outcome, clean, handed, marking, cancelled, late, expired, socketVars>>,
         UNCHANGED <<events, piber>>, TypeOK',
         \/ call[w] = "raw" /\ p \in {"try", "held"} /\ ticking' = ticking
         \/ call[w] = "io" /\ p \in {"try", "held", "add"}
         \/ call[w] = "connect" /\ p \in {"held", "add", "ask"},
         piber[Of(w)] # w, w \notin waits', due'[w] = 0,
         \A v \in Waiter : v # w => due'[v] = due[v] /\ (v \in waits' <=> v \in waits)
  PROVE  /\ HookTypeOK' /\ CallContexts'
         /\ \A v \in Waiter : CallOK(v)'
<1> USE DEF HInv
<1>1. pc'[w] = p /\ \A v \in Waiter : v # w => pc'[v] = pc[v]
  BY DEF HookTypeOK
<1>2. HookTypeOK'
  BY DEF HookTypeOK, socketVars
<1>3. CallContexts'
  BY <1>1 DEF CallContexts, InIO, Of
<1>4. CallOK(w)'
  BY <1>1 DEF CallOK, Placed, WokenOnce, TimersOwn, LateBounded
<1>5. \A v \in Waiter : v # w => CallOK(v)'
  BY <1>1, OthersOK
<1> QED
  BY <1>2, <1>3, <1>4, <1>5

(* A fiber that is not waiting is not registered, nor scheduled.              *)
LEMMA Outside ==
  ASSUME HInv, NEW w \in Waiter, pc[w] # "wait"
  PROVE  piber[Of(w)] # w /\ w \notin waits /\ due[w] = 0
BY OfEvent, HookNames DEF HInv, CallContexts, InIO, CallOK, Placed, WokenOnce

LEMMA TryHInv ==
  ASSUME HInv, NEW w \in Waiter, Try(w)
  PROVE  HInv'
<1> USE DEF HInv
<1>1. call[w] \in {"io", "raw"} /\ pc[w] = "try"
  BY DEF Try
<1>2. piber[Of(w)] # w /\ w \notin waits /\ due[w] = 0
  BY <1>1, Outside
<1>3. level' \in SUBSET level /\ UNCHANGED <<events, piber, m_pendingEventCount, interest, armed,
                                            fetched, waits, due, socketVars>>
  BY DEF Try
<1>4. TypeOK'
  BY <1>3 DEF HookTypeOK, TypeOK
<1>5. SocketWatched' /\ NothingMissed'
  BY <1>3, LessReady DEF socketVars
<1>6. CASE \E r \in {"ok", "error"} : Return(w, r)
  BY <1>2, <1>3, <1>4, <1>5, <1>6, ReturnHInv DEF socketVars, HookTypeOK
<1>7. CASE /\ call[w] = "io" /\ addConditionTimer(w)
           /\ pc' = [pc EXCEPT ![w] = "add"]
           /\ UNCHANGED <<call, timed, outcome, clean, handed, marking, cancelled, late, expired>>
  BY <1>2, <1>3, <1>4, <1>5, <1>7, MovesHInv DEF addConditionTimer
<1>8. CASE /\ pc' = [pc EXCEPT ![w] = "held"]
           /\ UNCHANGED <<call, timed, outcome, clean, timerVars>>
  BY <1>1, <1>2, <1>3, <1>4, <1>5, <1>8, MovesHInv DEF timerVars
<1> QED
  BY <1>6, <1>7, <1>8 DEF Try

LEMMA HeldHInv ==
  ASSUME HInv, NEW w \in Waiter, Held(w)
  PROVE  HInv'
<1> USE DEF HInv
<1>1. piber[Of(w)] # w /\ w \notin waits /\ due[w] = 0
  BY Outside DEF Held
<1>2. level' \in SUBSET level /\ conn' \in {"none", "progress", "up", "refused"}
      /\ UNCHANGED <<events, piber, m_pendingEventCount, interest, armed, fetched, waits, due,
                     open, closing, userNonblock, nonblock>>
  BY DEF Held, HookTypeOK
<1>3. TypeOK'
  BY <1>2 DEF HookTypeOK, TypeOK
<1>4. SocketWatched' /\ NothingMissed'
  BY <1>2, LessReady
<1>5. PICK r \in {"ok", "error"} : Return(w, r)
  BY DEF Held
<1> QED
  BY <1>1, <1>2, <1>3, <1>4, <1>5, ReturnHInv DEF HookTypeOK

LEMMA KernelGivesUpHInv ==
  ASSUME HInv, NEW w \in Waiter, KernelGivesUp(w)
  PROVE  HInv'
<1> USE DEF HInv
<1>1. piber[Of(w)] # w /\ w \notin waits /\ due[w] = 0
  BY Outside DEF KernelGivesUp
<1>2. UNCHANGED <<events, piber, m_pendingEventCount, interest, armed, level, fetched, waits, due, socketVars>>
  BY DEF KernelGivesUp, vars, kernelVars
<1>3. TypeOK'
  BY <1>2 DEF HookTypeOK, TypeOK
<1>4. SocketWatched' /\ NothingMissed'
  BY <1>2, LessReady DEF socketVars
<1>5. CASE \E r \in {"ok", "error"} : Return(w, r)
  BY <1>1, <1>2, <1>3, <1>4, <1>5, ReturnHInv DEF socketVars, HookTypeOK
<1>6. CASE /\ call[w] \in {"io", "connect"}
           /\ addConditionTimer(w)
           /\ pc' = [pc EXCEPT ![w] = "add"]
           /\ UNCHANGED <<call, timed, outcome, clean, handed, marking, cancelled, late, expired>>
  BY <1>1, <1>2, <1>3, <1>4, <1>6, MovesHInv DEF addConditionTimer
<1> QED
  BY <1>5, <1>6 DEF KernelGivesUp

LEMMA RegisterHInv ==
  ASSUME HInv, NEW w \in Waiter, Register(w)
  PROVE  HInv'
<1> USE DEF HInv
<1>1. call[w] \in {"io", "connect"} /\ pc[w] = "add" /\ UNCHANGED socketVars
  BY DEF Register
<1>2. w \notin waits /\ due[w] = 0 /\ piber[Of(w)] # w
  BY <1>1, Outside
<1>3. CASE open /\ addEvent(w) /\ pc' = [pc EXCEPT ![w] = "wait"]
           /\ UNCHANGED <<call, timed, outcome, clean, timerVars>>
  <2> USE <1>3 DEF timerVars
  <2>1. pc'[w] = "wait" /\ \A v \in Waiter : v # w => pc'[v] = pc[v]
    BY DEF HookTypeOK
  <2>2. Of(w) \in Event /\ Of(w) \notin events /\ piber[Of(w)] = None
    BY OfEvent DEF addEvent, CallContexts
  <2>3. events \cup {Of(w)} \in SUBSET Event /\ events' = events \cup {Of(w)}
    BY <2>2 DEF addEvent, HookTypeOK, TypeOK
  <2>4. /\ piber'[Of(w)] = w
        /\ \A e \in Event : e # Of(w) => piber'[e] = piber[e]
    BY <2>2 DEF addEvent, HookTypeOK, TypeOK
  <2>5. HookTypeOK'
    <3>1. TypeOK'
      BY addEventTypes DEF HookTypeOK
    <3> QED
      BY <1>1, <3>1 DEF HookTypeOK, socketVars
  <2>6. CallContexts'
    <3> SUFFICES ASSUME NEW e \in Event
                 PROVE  IF e \in events'
                        THEN /\ piber'[e] \in Waiter /\ Of(piber'[e]) = e
                             /\ call'[piber'[e]] \in {"io", "connect"} /\ pc'[piber'[e]] = "wait"
                        ELSE piber'[e] = None
      BY DEF CallContexts, InIO, Of
    <3>1. CASE e = Of(w)
      BY <1>1, <2>1, <2>3, <2>4, <3>1
    <3>2. CASE e # Of(w)
      <4>1. piber'[e] = piber[e] /\ (e \in events' <=> e \in events)
        BY <2>3, <2>4, <3>2
      <4>2. e \in events => piber[e] # w
        BY <1>1 DEF CallContexts, InIO
      <4> QED
        BY <2>1, <4>1, <4>2 DEF CallContexts, InIO
    <3> QED
      BY <3>1, <3>2
  <2>7. SocketWatched' /\ NothingMissed'
    BY <1>1, <2>3, CtlMisses DEF addEvent, SocketWatched, InterestCurrent, socketVars
  <2>8. CallOK(w)'
    BY <1>1, <1>2, <2>1, <2>4 DEF addEvent, CallOK, Placed, WokenOnce, TimersOwn, LateBounded, Of
  <2>9. \A v \in Waiter : v # w => (piber'[Of(v)] = v <=> piber[Of(v)] = v)
    BY <2>2, <2>4, OfEvent, HookNames
  <2>10. \A v \in Waiter : v # w => CallOK(v)'
    BY <2>1, <2>9, OthersOK DEF addEvent
  <2> QED
    BY <2>5, <2>6, <2>7, <2>8, <2>10
<1>4. ASSUME UNCHANGED vars
      PROVE  TypeOK' /\ SocketWatched' /\ NothingMissed'
             /\ UNCHANGED <<events, piber, waits, due>>
  BY <1>1, <1>4 DEF HookTypeOK, TypeOK, vars, kernelVars, SocketWatched, NothingMissed, socketVars
<1>5. CASE UNCHANGED vars /\ Return(w, "error")
  BY <1>1, <1>2, <1>4, <1>5, ReturnHInv DEF socketVars, HookTypeOK
<1>6. CASE /\ call[w] = "connect" /\ UNCHANGED vars
           /\ pc' = [pc EXCEPT ![w] = "ask"]
           /\ ticking' = ticking \ {w}
           /\ UNCHANGED <<call, timed, outcome, clean, handed, marking, cancelled, late, expired>>
  BY <1>1, <1>2, <1>4, <1>6, MovesHInv
<1> QED
  BY <1>3, <1>5, <1>6 DEF Register

(* A fiber that is scheduled is registered no more, and it is scheduled once. *)
LEMMA RunFacts ==
  ASSUME HInv, NEW w \in Waiter, Run(w)
  PROVE  /\ piber[Of(w)] # w /\ (\A e \in Event : piber[e] # w) /\ due[w] = 1 /\ pc[w] = "wait"
         /\ call[w] = "sleep" => w \notin ticking /\ handed[w] = 0
         /\ TypeOK' /\ w \notin waits' /\ due'[w] = 0
         /\ UNCHANGED <<events, piber, level, fetched, interest, armed>>
         /\ \A v \in Waiter : v # w => due'[v] = due[v] /\ (v \in waits' <=> v \in waits)
<1> USE DEF HInv
<1>1. w \in waits /\ due[w] > 0 /\ due[w] \in Nat
  BY DEF Run, HookTypeOK, TypeOK
<1>2. due[w] = 1 /\ pc[w] = "wait" /\ piber[Of(w)] # w
  BY <1>1, HookNames, OfEvent DEF CallOK, WokenOnce, Placed, CallContexts, InIO
<1>3. call[w] = "sleep" => w \notin ticking /\ handed[w] = 0
  BY <1>1 DEF CallOK, WokenOnce
<1>4. \A e \in Event : piber[e] # w
  BY <1>2, HookNames DEF CallContexts
<1>5. TypeOK' /\ due'[w] = 0 /\ \A v \in Waiter : v # w => due'[v] = due[v]
  BY <1>2, RunTypes DEF HookTypeOK
<1> QED
  BY <1>2, <1>3, <1>4, <1>5 DEF Run, kernelVars

LEMMA WakeHInv ==
  ASSUME HInv, NEW w \in Waiter, Wake(w)
  PROVE  HInv'
<1> USE DEF HInv
<1>1. call[w] \in {"io", "connect"} /\ UNCHANGED socketVars /\ Run(w)
  BY DEF Wake
<1>2. /\ piber[Of(w)] # w
      /\ TypeOK' /\ w \notin waits' /\ due'[w] = 0
      /\ UNCHANGED <<events, piber, level, fetched, interest, armed>>
      /\ \A v \in Waiter : v # w => due'[v] = due[v] /\ (v \in waits' <=> v \in waits)
  BY <1>1, RunFacts
<1>3. SocketWatched' /\ NothingMissed'
  BY <1>1, <1>2, LessReady DEF socketVars
<1>4. CASE Return(w, "ETIMEDOUT")
  BY <1>1, <1>2, <1>3, <1>4, ReturnHInv DEF socketVars, HookTypeOK
<1>5. CASE /\ pc' = [pc EXCEPT ![w] = IF call[w] = "io" THEN "try" ELSE "ask"]
           /\ ticking' = ticking \ {w}
           /\ UNCHANGED <<call, timed, outcome, clean, handed, marking, cancelled, late, expired>>
  <2>1. CASE call[w] = "io"
    BY <1>1, <1>2, <1>3, <1>5, <2>1, MovesHInv
  <2>2. CASE call[w] = "connect"
    BY <1>1, <1>2, <1>3, <1>5, <2>2, MovesHInv
  <2> QED
    BY <1>1, <2>1, <2>2
<1> QED
  BY <1>4, <1>5 DEF Wake

LEMMA AskErrorHInv ==
  ASSUME HInv, NEW w \in Waiter, AskError(w)
  PROVE  HInv'
<1> USE DEF HInv
<1>1. piber[Of(w)] # w /\ w \notin waits /\ due[w] = 0
  BY Outside DEF AskError
<1>2. /\ UNCHANGED <<vars, open, closing, userNonblock, nonblock>>
      /\ conn' \in {"none", "progress", "up", "refused"}
  BY DEF AskError, HookTypeOK
<1>3. TypeOK' /\ SocketWatched' /\ NothingMissed' /\ UNCHANGED <<events, piber, waits, due>>
  BY <1>2 DEF HookTypeOK, TypeOK, vars, kernelVars, SocketWatched, NothingMissed
<1>4. PICK r \in {"ok", "error"} : Return(w, r)
  BY DEF AskError
<1> QED
  BY <1>1, <1>2, <1>3, <1>4, ReturnHInv DEF HookTypeOK

LEMMA SleepEndsHInv ==
  ASSUME HInv, NEW w \in Waiter, SleepEnds(w)
  PROVE  HInv'
<1> USE DEF HInv
<1>1. UNCHANGED socketVars /\ Run(w) /\ Return(w, "ok")
  BY DEF SleepEnds
<1>2. /\ piber[Of(w)] # w /\ TypeOK' /\ w \notin waits' /\ due'[w] = 0
      /\ UNCHANGED <<events, piber, level, fetched, interest, armed>>
      /\ \A v \in Waiter : v # w => due'[v] = due[v] /\ (v \in waits' <=> v \in waits)
  BY <1>1, RunFacts
<1>3. SocketWatched' /\ NothingMissed'
  BY <1>1, <1>2, LessReady DEF socketVars
<1> QED
  BY <1>1, <1>2, <1>3, ReturnHInv DEF socketVars, HookTypeOK

-----------------------------------------------------------------------------
(* A callback of a fiber goes from one place to the next; who waits for what,
   and who is scheduled, stays as it is.                                     *)
LEMMA CountedHInv ==
  ASSUME HInv, NEW w \in Waiter,
         NEW a \in Nat, NEW b \in Nat, NEW c \in Nat, a + b + c <= MaxLate,
         handed' = [handed EXCEPT ![w] = a], marking' = [marking EXCEPT ![w] = b],
         late' = [late EXCEPT ![w] = c],
         ticking' \in SUBSET Waiter, cancelled' \in SUBSET Waiter, expired' \in SUBSET Waiter,
         \A v \in Waiter : v # w => /\ v \in ticking' <=> v \in ticking
                                    /\ v \in cancelled' <=> v \in cancelled
                                    /\ v \in expired' <=> v \in expired,
         call[w] = "sleep" => (w \notin ticking' /\ a = 0 <=> w \notin ticking /\ handed[w] = 0),
         UNCHANGED <<vars, socketVars, callVars>>,
         TimersOwn(w)'
  PROVE  HInv'
<1> USE DEF HInv, vars, callVars
<1>1. /\ handed \in [Waiter -> 0 .. MaxLate] /\ marking \in [Waiter -> 0 .. MaxLate]
      /\ late \in [Waiter -> 0 .. MaxLate] /\ MaxLate \in Nat
  BY CountsAre, HookNames
<1>2. a \in 0 .. MaxLate /\ b \in 0 .. MaxLate /\ c \in 0 .. MaxLate
  BY <1>1
<1>3. /\ handed' \in [Waiter -> 0 .. MaxLate] /\ marking' \in [Waiter -> 0 .. MaxLate]
      /\ late' \in [Waiter -> 0 .. MaxLate]
      /\ handed'[w] = a /\ marking'[w] = b /\ late'[w] = c
      /\ \A v \in Waiter : v # w => /\ handed'[v] = handed[v] /\ marking'[v] = marking[v]
                                    /\ late'[v] = late[v]
  BY <1>1, <1>2
<1>4. HookTypeOK'
  BY <1>3, CountsTyped DEF HookTypeOK, TypeOK, kernelVars, socketVars
<1>5. CallContexts' /\ SocketWatched' /\ NothingMissed'
  BY DEF CallContexts, InIO, Of, SocketWatched, NothingMissed, kernelVars, socketVars
<1>6. CallOK(w)'
  BY <1>3 DEF CallOK, Placed, WokenOnce, LateBounded, Of
<1>7. \A v \in Waiter : v # w => CallOK(v)'
  BY <1>3, OthersOK
<1> QED
  BY <1>4, <1>5, <1>6, <1>7

LEMMA ExpireHInv ==
  ASSUME HInv, NEW w \in Waiter, Expire(w)
  PROVE  HInv'
<1> USE DEF HInv
<1>1. handed[w] \in Nat /\ marking[w] \in Nat /\ late[w] \in Nat /\ MaxLate \in Nat
  BY CountsAre, HookNames
<1>2. /\ handed' = [handed EXCEPT ![w] = handed[w] + 1]
      /\ marking' = [marking EXCEPT ![w] = marking[w]]
      /\ late' = [late EXCEPT ![w] = late[w]]
  BY CountsAre DEF Expire
<1>3. handed[w] + 1 \in Nat /\ handed[w] + 1 + marking[w] + late[w] <= MaxLate
  BY <1>1 DEF Expire
<1>4. TimersOwn(w)'
  <2>1. handed'[w] = handed[w] + 1 /\ marking'[w] = marking[w]
    BY <1>2, CountsAre
  <2> QED
    BY <1>1, <2>1 DEF Expire, CallOK, TimersOwn, callVars
<1>5. /\ ticking' \in SUBSET Waiter /\ cancelled' \in SUBSET Waiter /\ expired' \in SUBSET Waiter
      /\ \A v \in Waiter : v # w =>
           /\ v \in ticking' <=> v \in ticking
           /\ v \in cancelled' <=> v \in cancelled
           /\ v \in expired' <=> v \in expired
  <2>1. ticking \in SUBSET Waiter /\ cancelled \in SUBSET Waiter /\ expired \in SUBSET Waiter
    BY DEF HookTypeOK
  <2>2. ticking' = ticking \ {w} /\ expired' = expired \cup {w} /\ cancelled' = cancelled
    BY DEF Expire
  <2> QED
    BY <2>1, <2>2
<1>6. call[w] = "sleep" =>
        (w \notin ticking' /\ handed[w] + 1 = 0 <=> w \notin ticking /\ handed[w] = 0)
  BY <1>1 DEF Expire
<1>7. UNCHANGED <<vars, socketVars, callVars>>
  BY DEF Expire
<1> HIDE DEF HInv
<1> QED
  BY <1>1, <1>2, <1>3, <1>4, <1>5, <1>6, <1>7, CountedHInv

LEMMA MarkHInv ==
  ASSUME HInv, NEW w \in Waiter, Mark(w)
  PROVE  HInv'
<1> USE DEF HInv
<1>1. handed[w] \in Nat /\ marking[w] \in Nat /\ late[w] \in Nat /\ MaxLate \in Nat
  BY CountsAre, HookNames
<1>2. /\ handed' = [handed EXCEPT ![w] = handed[w]]
      /\ marking' = [marking EXCEPT ![w] = marking[w] - 1]
      /\ late' = [late EXCEPT ![w] = late[w] + 1]
  BY CountsAre DEF Mark
<1>3. /\ marking[w] > 0 /\ marking[w] - 1 \in Nat /\ late[w] + 1 \in Nat
      /\ handed[w] + (marking[w] - 1) + (late[w] + 1) <= MaxLate
  BY <1>1 DEF Mark, CallOK, LateBounded
<1>4. TimersOwn(w)'
  <2>1. handed'[w] = handed[w] /\ marking'[w] = marking[w] - 1
    BY <1>2, CountsAre
  <2> QED
    BY <1>1, <1>3, <2>1 DEF Mark, CallOK, TimersOwn, callVars
<1>5. /\ ticking' \in SUBSET Waiter /\ cancelled' \in SUBSET Waiter /\ expired' \in SUBSET Waiter
      /\ \A v \in Waiter : v # w =>
           /\ v \in ticking' <=> v \in ticking
           /\ v \in cancelled' <=> v \in cancelled
           /\ v \in expired' <=> v \in expired
  <2>1. ticking \in SUBSET Waiter /\ cancelled \in SUBSET Waiter /\ expired \in SUBSET Waiter
    BY DEF HookTypeOK
  <2>2. ticking' = ticking /\ cancelled' = cancelled \cup {w} /\ expired' = expired
    BY DEF Mark
  <2> QED
    BY <2>1, <2>2
<1>6. call[w] = "sleep" =>
        (w \notin ticking' /\ handed[w] = 0 <=> w \notin ticking /\ handed[w] = 0)
  BY <1>1 DEF Mark
<1>7. UNCHANGED <<vars, socketVars, callVars>>
  BY DEF Mark
<1> HIDE DEF HInv
<1> QED
  BY <1>1, <1>2, <1>3, <1>4, <1>5, <1>6, <1>7, CountedHInv

LEMMA CallbackHInv ==
  ASSUME HInv, NEW w \in Waiter, Callback(w)
  PROVE  HInv'
<1> USE DEF HInv
<1>1. /\ handed[w] \in Nat /\ marking[w] \in Nat /\ late[w] \in Nat /\ MaxLate \in Nat
      /\ handed \in [Waiter -> 0 .. MaxLate] /\ marking \in [Waiter -> 0 .. MaxLate]
  BY CountsAre, HookNames
<1>2. /\ handed[w] > 0 /\ handed' = [handed EXCEPT ![w] = handed[w] - 1]
      /\ call[w] \in {"io", "connect", "sleep"}
      /\ UNCHANGED <<events, piber, m_pendingEventCount, kernelVars, fetched, waits,
                     socketVars, callVars, ticking, cancelled, late, expired>>
  BY DEF Callback, CallOK, TimersOwn
<1>3. /\ handed[w] - 1 \in 0 .. MaxLate /\ handed'[w] = handed[w] - 1
      /\ handed' \in [Waiter -> 0 .. MaxLate]
      /\ \A v \in Waiter : v # w => handed'[v] = handed[v]
  BY <1>1, <1>2
<1>4. CASE call[w] = "sleep"
  <2>1. UNCHANGED marking /\ due' = [due EXCEPT ![w] = @ + 1]
    BY <1>4 DEF Callback
  <2>2. due' \in [Waiter -> Nat] /\ due'[w] = due[w] + 1 /\ \A v \in Waiter : v # w => due'[v] = due[v]
    BY <2>1 DEF HookTypeOK, TypeOK
  <2>3. HookTypeOK'
    <3>1. TypeOK'
      BY <1>2, <2>2 DEF HookTypeOK, TypeOK, kernelVars
    <3>2. {handed', marking', late'} \subseteq [Waiter -> 0 .. MaxLate]
      BY <1>1, <1>2, <1>3, <2>1, CountsAre
    <3> QED
      BY <1>2, <3>1, <3>2 DEF HookTypeOK, socketVars, callVars
  <2>4. CallContexts' /\ SocketWatched' /\ NothingMissed'
    BY <1>2 DEF CallContexts, InIO, Of, SocketWatched, NothingMissed, kernelVars, socketVars, callVars
  <2>5. CallOK(w)'
    BY <1>1, <1>2, <1>3, <1>4, <2>1, <2>2 DEF CallOK, Placed, WokenOnce, TimersOwn, LateBounded, callVars, Of
  <2>6. \A v \in Waiter : v # w => CallOK(v)'
    BY <1>2, <1>3, <2>1, <2>2, OthersOK DEF callVars
  <2> QED
    BY <2>3, <2>4, <2>5, <2>6
<1>5. CASE call[w] # "sleep"
  <2>1. UNCHANGED vars
    BY <1>2, <1>5 DEF Callback, vars
  <2>2. PICK b \in {marking[w], marking[w] + 1} : marking' = [marking EXCEPT ![w] = b]
    BY <1>1, <1>5 DEF Callback
  <2>3. /\ b \in Nat /\ handed[w] - 1 \in Nat /\ (handed[w] - 1) + b + late[w] <= MaxLate
        /\ late' = [late EXCEPT ![w] = late[w]]
    BY <1>1, <1>2, CountsAre DEF CallOK, LateBounded
  <2>4. TimersOwn(w)'
    <3>1. marking'[w] = b
      BY <1>1, <2>2
    <3> QED
      BY <1>1, <1>2, <1>3, <1>5, <3>1 DEF CallOK, TimersOwn, callVars
  <2> QED
    BY <1>1, <1>2, <1>5, <2>1, <2>2, <2>3, <2>4, CountedHInv DEF HookTypeOK
<1> QED
  BY <1>4, <1>5

-----------------------------------------------------------------------------
(* cancelEvent(), cancelAll() and idle() end registrations in the same way.   *)
LEMMA EndedHInv ==
  ASSUME HInv, NEW set \in SUBSET Event, NEW n \in Int,
         epoll_ctl(events \ set), triggerEvent(set), m_pendingEventCount' = Less(n),
         fetched' \in [Idler -> SUBSET (Event \cup {"HUP"})],
         UNCHANGED <<waits, callVars, ticking, handed, marking, cancelled, expired>>
  PROVE  /\ TypeOK' /\ CallContexts' /\ interest' = events' /\ level' = level /\ NothingMissed'
         /\ \A w \in Waiter : Placed(w)' /\ WokenOnce(w)' /\ TimersOwn(w)'
         /\ \A w \in Waiter :
              due'[w] = due[w] + (IF Of(w) \in set /\ piber[Of(w)] = w THEN 1 ELSE 0)
<1>1. (events \ set) \in SUBSET Event /\ events' = events \ set /\ level' = level
  BY DEF HInv, HookTypeOK, TypeOK, triggerEvent, epoll_ctl
<1>2. interest' = events' /\ NothingMissed'
  BY <1>1, CtlMisses DEF InterestCurrent
<1>3. TypeOK'
  BY <1>1, CountedTypes, CtlTypes, TriggerTypes DEF HInv, HookTypeOK, TypeOK
<1> QED
  BY <1>1, <1>2, <1>3, TriggerCalls DEF callVars

LEMMA LateHInv ==
  ASSUME HInv, NEW w \in Waiter, Late(w)
  PROVE  HInv'
<1> USE DEF HInv
<1>1. /\ late[w] > 0 /\ late' = [late EXCEPT ![w] = @ - 1]
      /\ UNCHANGED <<socketVars, callVars, ticking, handed, marking, cancelled, expired>>
  BY DEF Late
<1>2. /\ handed \in [Waiter -> 0 .. MaxLate] /\ marking \in [Waiter -> 0 .. MaxLate]
      /\ late \in [Waiter -> 0 .. MaxLate] /\ MaxLate \in Nat
      /\ handed[w] \in Nat /\ marking[w] \in Nat /\ late[w] \in Nat
  BY CountsAre, HookNames
<1>3. handed[w] + marking[w] + late[w] <= MaxLate
  BY DEF CallOK, LateBounded
<1>4. late[w] - 1 \in 0 .. MaxLate /\ handed[w] + marking[w] + (late[w] - 1) <= MaxLate
  BY <1>1, <1>2, <1>3
<1>5. /\ late' \in [Waiter -> 0 .. MaxLate] /\ late'[w] = late[w] - 1
      /\ \A v \in Waiter : v # w => late'[v] = late[v]
  BY <1>1, <1>2, <1>4
<1>6. \A v \in Waiter : LateBounded(v)'
  BY <1>1, <1>4, <1>5 DEF CallOK, LateBounded
<1>7. CASE UNCHANGED vars
  <2>1. /\ handed' = [handed EXCEPT ![w] = handed[w]]
        /\ marking' = [marking EXCEPT ![w] = marking[w]]
        /\ late' = [late EXCEPT ![w] = late[w] - 1]
        /\ late[w] - 1 \in Nat
    BY <1>1, <1>2
  <2>2. TimersOwn(w)'
    BY <1>1 DEF CallOK, TimersOwn, callVars
  <2>3. ticking \in SUBSET Waiter /\ cancelled \in SUBSET Waiter /\ expired \in SUBSET Waiter
    BY DEF HookTypeOK
  <2> HIDE DEF HInv
  <2> QED
    BY <1>1, <1>2, <1>4, <1>7, <2>1, <2>2, <2>3, CountedHInv
<1>8. CASE open /\ Of(w) \in events /\ cancelEvent(Of(w))
  <2>1. {Of(w)} \in SUBSET Event
    BY OfEvent
  <2>2. /\ TypeOK' /\ CallContexts' /\ interest' = events' /\ level' = level /\ NothingMissed'
        /\ \A v \in Waiter : Placed(v)' /\ WokenOnce(v)' /\ TimersOwn(v)'
    BY <1>1, <1>8, <2>1, EndedHInv DEF cancelEvent, HookTypeOK, TypeOK
  <2>3. HookTypeOK'
    BY <1>1, <1>2, <1>5, <2>2, CountsTyped DEF HookTypeOK, socketVars, callVars
  <2>4. SocketWatched'
    BY <1>1, <2>2 DEF SocketWatched, socketVars
  <2> QED
    BY <1>6, <2>2, <2>3, <2>4 DEF CallOK
<1> QED
  BY <1>7, <1>8 DEF Late

(* Steps that touch the socket, and neither registrations nor calls.          *)
LEMMA SocketStep ==
  ASSUME HInv, UNCHANGED <<events, piber, m_pendingEventCount, fetched, waits, due, callVars, timerVars>>,
         interest' \in SUBSET Event, armed' \in BOOLEAN, level' \in SUBSET (Event \cup {"HUP"}),
         open' \in BOOLEAN, closing' \in BOOLEAN, conn' \in {"none", "progress", "up", "refused"},
         userNonblock' \in BOOLEAN, nonblock' \in BOOLEAN
  PROVE  HookTypeOK' /\ CallContexts' /\ \A v \in Waiter : CallOK(v)'
<1> USE DEF callVars, timerVars
<1>1. HookTypeOK'
  BY DEF HInv, HookTypeOK, TypeOK
<1>2. CallContexts'
  BY DEF HInv, CallContexts, InIO, Of
<1>3. \A v \in Waiter : CallOK(v)'
  BY DEF HInv, CallOK, Placed, WokenOnce, TimersOwn, LateBounded, Of
<1> QED
  BY <1>1, <1>2, <1>3

LEMMA closeHInv ==
  ASSUME HInv, close
  PROVE  HInv'
<1> USE DEF HInv
<1>1. /\ open /\ closing' /\ closing' \in BOOLEAN
      /\ UNCHANGED <<open, conn, userNonblock, nonblock, callVars, timerVars>>
  BY DEF close, known
<1>2. CASE UNCHANGED vars
  <2>1. HookTypeOK' /\ CallContexts' /\ \A v \in Waiter : CallOK(v)'
    BY <1>1, <1>2, SocketStep DEF vars, kernelVars, HookTypeOK, TypeOK
  <2>2. SocketWatched' /\ NothingMissed'
    BY <1>1, <1>2 DEF SocketWatched, NothingMissed, vars, kernelVars
  <2> QED
    BY <2>1, <2>2
<1>3. CASE cancelAll
  <2>1. events \in SUBSET Event /\ events \ events = {}
    BY DEF HookTypeOK, TypeOK
  <2>2. Cardinality(events) \in Int
    BY <2>1, EventSubsets
  <2>3. /\ TypeOK' /\ CallContexts' /\ interest' = events' /\ level' = level /\ NothingMissed'
        /\ \A v \in Waiter : Placed(v)' /\ WokenOnce(v)' /\ TimersOwn(v)'
    BY <1>1, <1>3, <2>1, <2>2, EndedHInv DEF cancelAll, HookTypeOK, TypeOK, timerVars
  <2>4. \A v \in Waiter : LateBounded(v)'
    BY <1>1 DEF CallOK, LateBounded, timerVars
  <2>5. HookTypeOK'
    BY <1>1, <2>3 DEF HookTypeOK, callVars, timerVars
  <2>6. SocketWatched'
    BY <1>1, <2>3 DEF SocketWatched
  <2> QED
    BY <2>3, <2>4, <2>5, <2>6 DEF CallOK
<1> QED
  BY <1>2, <1>3 DEF close

LEMMA close_fHInv ==
  ASSUME HInv, close_f
  PROVE  HInv'
<1>1. HookTypeOK' /\ CallContexts' /\ \A v \in Waiter : CallOK(v)'
  BY SocketStep DEF close_f
<1> QED
  BY <1>1 DEF close_f, HInv, SocketWatched, NothingMissed

(* fcntl() and ioctl().                                                      *)
LEMMA FlagHInv ==
  ASSUME HInv, NEW b \in BOOLEAN, fcntl(b) \/ ioctl(b)
  PROVE  HInv'
<1> USE DEF HInv
<1>1. UNCHANGED <<vars, open, closing, conn, callVars, timerVars>> /\ userNonblock' = b /\ nonblock' \in BOOLEAN
  BY DEF fcntl, ioctl
<1>2. HookTypeOK' /\ CallContexts' /\ \A v \in Waiter : CallOK(v)'
  BY <1>1, SocketStep DEF vars, kernelVars, HookTypeOK, TypeOK
<1>3. SocketWatched' /\ NothingMissed'
  BY <1>1 DEF SocketWatched, NothingMissed, vars, kernelVars
<1> QED
  BY <1>2, <1>3

LEMMA NetworkHInv ==
  ASSUME HInv, Network
  PROVE  HInv'
<1> USE DEF HInv
<1>1. PICK x \in Event \cup {"HUP"} : Arrive(x)
  BY DEF Network, Event
<1>2. /\ open /\ conn' \in {"up", "refused"}
      /\ UNCHANGED <<open, closing, userNonblock, nonblock, callVars, timerVars>>
  BY DEF Network
<1>3. HookTypeOK' /\ CallContexts' /\ \A v \in Waiter : CallOK(v)'
  BY <1>1, <1>2, SocketStep DEF Arrive, HookTypeOK, TypeOK
<1>4. SocketWatched'
  BY <1>1, <1>2 DEF Arrive, SocketWatched
<1>5. NothingMissed'
  BY <1>1, <1>2 DEF Arrive, NothingMissed, SocketWatched
<1> QED
  BY <1>3, <1>4, <1>5

(* There is something to report of an open socket only.                      *)
LEMMA IdleWaitsHInv ==
  ASSUME HInv, NEW l \in Idler, IdleWaits(l)
  PROVE  HInv'
<1> USE DEF HInv
<1>1. /\ epoll_wait(l) /\ level # {}
      /\ UNCHANGED <<socketVars, callVars, timerVars>>
  BY DEF IdleWaits, epoll_wait, Reported
<1>2. open /\ interest = events
  BY <1>1 DEF SocketWatched
<1>3. HookTypeOK'
  BY <1>1 DEF epoll_wait, Reported, HookTypeOK, TypeOK, socketVars, callVars, timerVars
<1>4. CallContexts' /\ SocketWatched'
  BY <1>1 DEF epoll_wait, CallContexts, InIO, Of, SocketWatched, socketVars, callVars
<1>5. fetched'[l] = level \cap (events \cup {"HUP"})
  BY <1>1, <1>2 DEF epoll_wait, Reported, HookTypeOK, TypeOK
<1>6. NothingMissed'
  BY <1>1, <1>5 DEF epoll_wait, NothingMissed
<1>7. \A v \in Waiter : CallOK(v)'
  BY <1>1 DEF epoll_wait, CallOK, Placed, WokenOnce, TimersOwn, LateBounded, Of, callVars, timerVars
<1> QED
  BY <1>3, <1>4, <1>6, <1>7

LEMMA IdleHandlesHInv ==
  ASSUME HInv, NEW l \in Idler, IdleHandles(l)
  PROVE  HInv'
<1> USE DEF HInv
<1>1. /\ fetched[l] # {} /\ UNCHANGED <<socketVars, callVars, timerVars, waits>>
      /\ fetched' = [fetched EXCEPT ![l] = {}]
  BY DEF IdleHandles, Handle
<1>2. fetched' \in [Idler -> SUBSET (Event \cup {"HUP"})]
  BY <1>1 DEF HookTypeOK, TypeOK
<1>3. CASE /\ UNCHANGED <<events, piber, m_pendingEventCount, kernelVars, due>>
           /\ open => events \cap real_events(l) = {}
  <2> USE <1>1, <1>3 DEF kernelVars
  <2>1. HookTypeOK'
    BY <1>2 DEF HookTypeOK, TypeOK, socketVars, callVars, timerVars
  <2>2. CallContexts' /\ SocketWatched'
    BY DEF CallContexts, InIO, Of, SocketWatched, socketVars, callVars
  <2>3. \A v \in Waiter : CallOK(v)'
    BY DEF CallOK, Placed, WokenOnce, TimersOwn, LateBounded, Of, callVars, timerVars
  <2>4. NothingMissed'
    <3>1. CASE ~open
      BY <3>1 DEF SocketWatched, NothingMissed
    <3>2. CASE open
      <4>1. \A e \in events : {e, "HUP"} \cap fetched[l] = {}
        BY <3>2 DEF real_events, HookTypeOK, TypeOK, Event
      <4>2. \A k \in Idler : k # l => fetched'[k] = fetched[k]
        BY DEF HookTypeOK, TypeOK
      <4> QED
        BY <4>1, <4>2 DEF NothingMissed
    <3> QED
      BY <3>1, <3>2
  <2> QED
    BY <2>1, <2>2, <2>3, <2>4
<1>4. CASE /\ open /\ epoll_ctl(events \ real_events(l)) /\ triggerEvent(real_events(l))
           /\ m_pendingEventCount' = Less(Cardinality(real_events(l)))
  <2>1. real_events(l) \in SUBSET Event
    BY DEF real_events, HookTypeOK, TypeOK
  <2>2. Cardinality(real_events(l)) \in Int
    BY <2>1, EventSubsets
  <2>3. /\ TypeOK' /\ CallContexts' /\ interest' = events' /\ level' = level /\ NothingMissed'
        /\ \A v \in Waiter : Placed(v)' /\ WokenOnce(v)' /\ TimersOwn(v)'
    BY <1>1, <1>2, <1>4, <2>1, <2>2, EndedHInv DEF timerVars
  <2>4. \A v \in Waiter : LateBounded(v)'
    BY <1>1 DEF CallOK, LateBounded, timerVars
  <2>5. HookTypeOK'
    BY <1>1, <2>3 DEF HookTypeOK, socketVars, callVars, timerVars
  <2>6. SocketWatched'
    BY <1>1, <1>4, <2>3 DEF SocketWatched, socketVars
  <2> QED
    BY <2>3, <2>4, <2>5, <2>6 DEF CallOK
<1> QED
  BY <1>3, <1>4 DEF IdleHandles, Handle

LEMMA HookNextHInv == HInv /\ [HookNext]_hookVars => HInv'
<1> SUFFICES ASSUME HInv, [HookNext]_hookVars PROVE HInv'
  OBVIOUS
<1>1. CASE UNCHANGED hookVars
  <2> USE <1>1 DEF hookVars, vars, kernelVars, socketVars, callVars, timerVars, HInv
  <2>1. HookTypeOK'
    BY DEF HookTypeOK, TypeOK
  <2>2. CallContexts' /\ SocketWatched' /\ NothingMissed'
    BY DEF CallContexts, InIO, Of, SocketWatched, NothingMissed
  <2>3. \A w \in Waiter : CallOK(w)'
    BY DEF CallOK, Placed, WokenOnce, TimersOwn, LateBounded, Of
  <2> QED
    BY <2>1, <2>2, <2>3
<1>2. CASE \E w \in Waiter : do_io(w) \/ sleep(w) \/ FiberStep(w) \/ KernelGivesUp(w)
  BY <1>2, do_ioHInv, sleepHInv, TryHInv, HeldHInv, KernelGivesUpHInv, RegisterHInv, WakeHInv,
     AskErrorHInv, SleepEndsHInv DEF FiberStep
<1>3. CASE \E w \in Connector : connect_with_timeout(w)
  BY <1>3, connectHInv
<1>4. CASE \E w \in Waiter : TimerStep(w)
  BY <1>4, ExpireHInv, CallbackHInv, MarkHInv, LateHInv DEF TimerStep
<1>5. CASE close \/ close_f
  BY <1>5, closeHInv, close_fHInv
<1>6. CASE \E b \in BOOLEAN : fcntl(b) \/ ioctl(b)
  BY <1>6, FlagHInv
<1>7. CASE Network
  BY <1>7, NetworkHInv
<1>8. CASE \E l \in Idler : IdleStep(l)
  BY <1>8, IdleWaitsHInv, IdleHandlesHInv DEF IdleStep
<1> QED
  BY <1>1, <1>2, <1>3, <1>4, <1>5, <1>6, <1>7, <1>8 DEF HookNext

-----------------------------------------------------------------------------
(* What the invariant says of a fiber, as a count.                           *)
LEMMA HInvAccounts == HInv => FibersAccounted
<1> SUFFICES ASSUME HInv, NEW w \in Waiter
             PROVE  Registered(w) + SleepTimers(w) + due[w] = IF pc[w] = "wait" THEN 1 ELSE 0
  BY DEF FibersAccounted
<1> USE DEF HInv
<1>1. events \in SUBSET Event /\ OwnContext
  BY HookNames DEF HookTypeOK, TypeOK, CallContexts, OwnContext
<1>2. Registered(w) = IF Of(w) \in events /\ piber[Of(w)] = w THEN 1 ELSE 0
  BY <1>1, NamedCount DEF Registered
<1>3. piber[Of(w)] = w => Of(w) \in events /\ InIO(w)
  BY OfEvent, HookNames DEF CallContexts
<1>4. SleepTimers(w) = IF call[w] = "sleep" /\ (w \in ticking \/ handed[w] # 0) THEN 1 ELSE 0
  <2>1. handed[w] \in Nat /\ (call[w] = "sleep" => handed[w] <= 1 /\ ~(w \in ticking /\ handed[w] > 0))
    BY CountsAre DEF CallOK, TimersOwn
  <2> QED
    BY <2>1 DEF SleepTimers
<1>5. call[w] = "sleep" => pc[w] = "wait" /\ piber[Of(w)] # w
  BY <1>3 DEF InIO, CallOK, Placed
<1> QED
  BY <1>2, <1>3, <1>4, <1>5 DEF InIO, CallOK, WokenOnce

(* The invariant of the hooked calls: whatever wakes a fiber is meant for the
   wait it is in, and no fiber has more callbacks under way than are counted. *)
THEOREM HookInvariant == HookSpec => []HInv
BY InitHInv, HookNextHInv, PTL DEF HookSpec

(* Every variable of the calls, the timers and the socket keeps its type; a
   callback that gets from one place to the next takes no room of another.   *)
THEOREM HookTypesOK == HookSpec => []HookTypeOK
<1>1. HInv => HookTypeOK
  BY DEF HInv
<1> QED
  BY <1>1, HookInvariant, PTL

(* A fiber that has yielded inside read, write, connect or sleep is registered,
   or has a timer, or is scheduled, one of them and once; nothing left over
   from one wait, as a callback that comes late, wakes the fiber in the next. *)
THEOREM HookFibersAccounted == HookSpec => []FibersAccounted
<1>1. HInv => FibersAccounted
  BY HInvAccounts
<1> QED
  BY <1>1, HookInvariant, PTL

(* EPOLLET tells once, and still what is ready and registered is going to be
   noticed, though close() cuts in between a report and its handling.        *)
THEOREM HookNothingMissed == HookSpec => []NothingMissed
<1>1. HInv => NothingMissed
  BY DEF HInv
<1> QED
  BY <1>1, HookInvariant, PTL

-----------------------------------------------------------------------------
(* The connection                                                            *)

(* Before the connection is up nobody reads or writes, and nothing but a
   refusal makes the socket ready; a callback under way is a connect()'s.     *)
Unmade ==
  open /\ conn # "up" =>
    /\ level \subseteq {"HUP"} /\ (conn = "progress" => level = {})
    /\ \A w \in Waiter : /\ call[w] \in {"none", "sleep", "connect"}
                         /\ w \notin Connector => late[w] = 0
                         /\ call[w] = "connect" => conn # "none"

(* While it is being made, a connect() that found nothing left over is woken by
   its own timer, and by nothing else.                                       *)
CleanWait ==
  open /\ ~closing /\ conn = "progress" =>
    \A w \in clean :
      /\ \A l \in Idler : fetched[l] = {}
      /\ pc[w] # "ask"
      /\ w \notin cancelled => late[w] = 0 /\ due[w] = 0

OneConnector == \A u, v \in Connector : u = v

(* No callback of a fiber that has not called but sleep() will mark a call.   *)
LEMMA UnmadeMarks ==
  ASSUME HInv, Unmade, open, conn # "up", NEW w \in Waiter, w \notin Connector
  PROVE  call[w] \in {"none", "sleep"} /\ marking[w] = 0 /\ late[w] = 0
<1>1. call[w] \in {"none", "sleep"} /\ late[w] = 0
  BY DEF Unmade, HInv, CallOK, Placed
<1>2. marking[w] \in Nat
  BY CountsAre DEF HInv
<1> QED
  BY <1>1, <1>2 DEF HInv, CallOK, TimersOwn

LEMMA UnmadeConnect ==
  ASSUME HInv, Unmade, OneConnector, NEW w \in Connector, connect_with_timeout(w)
  PROVE  Unmade'
<1>1. w \in Waiter /\ call[w] = "none"
  BY HookNames DEF connect_with_timeout, ConnectAtOnce, ConnectInProgress, Enter
<1>2. open /\ UNCHANGED <<open, late>>
  BY DEF connect_with_timeout, known
<1>3. conn # "up" \/ conn' = "up"
  BY DEF connect_with_timeout, ConnectAtOnce, ConnectInProgress
<1>4. ASSUME conn' # "up"
      PROVE  /\ level' \subseteq {"HUP"} /\ (conn' = "progress" => level' = {})
             /\ \A v \in Waiter : /\ call'[v] \in {"none", "sleep", "connect"}
                                  /\ v \notin Connector => late'[v] = 0
                                  /\ call'[v] = "connect" => conn' # "none"
  <2>1. conn # "up" /\ level \subseteq {"HUP"} /\ (conn = "progress" => level = {})
    BY <1>2, <1>3, <1>4 DEF Unmade
  <2>2. level' \subseteq {"HUP"} /\ (conn' = "progress" => level' = {})
    BY <1>4, <2>1 DEF connect_with_timeout, ConnectAtOnce, ConnectInProgress
  <2>3. ASSUME NEW v \in Waiter, v # w
        PROVE  /\ call'[v] = call[v] /\ call[v] \in {"none", "sleep"}
               /\ v \notin Connector => late[v] = 0
    <3>1. call'[v] = call[v]
      BY <1>1, <2>3 DEF connect_with_timeout, ConnectAtOnce, ConnectInProgress, Enter, HInv, HookTypeOK
    <3>2. call[v] \in {"none", "sleep", "connect"} /\ (v \notin Connector => late[v] = 0)
      BY <1>2, <2>1 DEF Unmade
    <3>3. call[v] # "connect"
      BY <2>3 DEF OneConnector, HInv, CallOK, Placed
    <3> QED
      BY <3>1, <3>2, <3>3
  <2>4. call'[w] = "none" \/ (call'[w] = "connect" /\ conn' = "progress")
    BY <1>1 DEF connect_with_timeout, ConnectAtOnce, ConnectInProgress, Enter, HInv, HookTypeOK
  <2> QED
    BY <1>2, <2>2, <2>3, <2>4
<1> QED
  BY <1>2, <1>4 DEF Unmade

(* The steps inside a call, before the connection is up.                      *)
LEMMA UnmadeFiber ==
  ASSUME HInv, Unmade, OneConnector, NEW w \in Waiter, open, conn # "up",
         do_io(w) \/ sleep(w) \/ FiberStep(w) \/ KernelGivesUp(w)
  PROVE  /\ level' = level /\ \A v \in Waiter \ {w} : call'[v] = call[v] /\ late'[v] = late[v]
         /\ call'[w] \in {"none", "sleep", "connect"}
         /\ w \notin Connector => late'[w] = 0
         /\ call'[w] = "connect" => call[w] = "connect" /\ conn' = conn
         /\ conn' = conn \/ (conn' = "none" /\ call[w] = "connect" /\ conn = "refused")
<1> USE DEF HInv
<1>1. call[w] \in {"none", "sleep", "connect"} /\ (w \notin Connector => marking[w] = 0 /\ late[w] = 0)
  BY UnmadeMarks DEF Unmade
<1>2. late \in [Waiter -> 0 .. MaxLate] /\ late[w] \in Nat /\ marking[w] \in Nat
  BY CountsAre
<1>3. ~do_io(w) /\ ~Try(w)
  BY <1>1 DEF do_io, Try
<1>4. CASE sleep(w)
  BY <1>1, <1>4 DEF sleep, Enter, kernelVars, socketVars, HookTypeOK
<1>5. ASSUME NEW r, Return(w, r)
      PROVE  /\ \A v \in Waiter \ {w} : call'[v] = call[v] /\ late'[v] = late[v]
             /\ call'[w] = "none" /\ (w \notin Connector => late'[w] = 0)
  BY <1>1, <1>2, <1>5 DEF Return, HookTypeOK
<1>6. CASE Held(w)
  <2>1. call[w] = "connect" /\ conn \in {"refused", "none"}
    BY <1>1, <1>6 DEF Held, HookTypeOK, CallOK, Placed
  <2>2. call[w] = "connect" /\ conn = "refused"
    BY <2>1 DEF Unmade
  <2> QED
    BY <1>5, <1>6, <2>2 DEF Held
<1>7. CASE AskError(w)
  <2>1. call[w] = "connect" /\ UNCHANGED level
    BY <1>1, <1>7 DEF AskError, CallOK, Placed, vars, kernelVars
  <2> QED
    BY <1>5, <1>7, <2>1 DEF AskError
<1>8. CASE KernelGivesUp(w)
  <2>1. call[w] = "connect" /\ UNCHANGED <<conn, level>>
    BY <1>1, <1>8 DEF KernelGivesUp, CallOK, Placed, vars, kernelVars, socketVars
  <2> QED
    BY <1>1, <1>5, <1>8, <2>1 DEF KernelGivesUp
<1>9. CASE Register(w) \/ Wake(w) \/ SleepEnds(w)
  <2>1. UNCHANGED <<conn, level>>
    BY <1>9 DEF Register, Wake, SleepEnds, Run, addEvent, epoll_ctl, vars, kernelVars, socketVars
  <2>2. CASE \E r : Return(w, r)
    BY <1>5, <2>1, <2>2
  <2>3. CASE UNCHANGED <<call, late>>
    BY <1>1, <2>1, <2>3
  <2> QED
    BY <1>9, <2>2, <2>3 DEF Register, Wake, SleepEnds, timerVars
<1> QED
  BY <1>3, <1>4, <1>6, <1>7, <1>8, <1>9 DEF FiberStep

(* The steps outside: what a timer, a flag or a thread in idle() does.        *)
LEMMA UnmadeOutside ==
  ASSUME HInv, Unmade, open, conn # "up",
         \/ \E w \in Waiter : TimerStep(w)
         \/ close \/ \E b \in BOOLEAN : fcntl(b) \/ ioctl(b)
         \/ \E l \in Idler : IdleStep(l)
         \/ UNCHANGED hookVars
  PROVE  /\ UNCHANGED <<conn, call>> /\ level' = level
         /\ \A v \in Waiter : v \notin Connector => late'[v] = 0
<1> USE DEF HInv, socketVars, callVars, timerVars
<1>1. UNCHANGED <<conn, call>>
  BY DEF TimerStep, Expire, Callback, Mark, Late, close, fcntl, ioctl, IdleStep, IdleWaits, IdleHandles, hookVars
<1>2. level' = level
  BY DEF TimerStep, Expire, Callback, Mark, Late, cancelEvent, close, cancelAll, fcntl, ioctl, IdleStep,
         IdleWaits, epoll_wait, IdleHandles, Handle, epoll_ctl, hookVars, vars, kernelVars
<1>3. \A v \in Waiter : v \notin Connector => marking[v] = 0 /\ late[v] = 0
  BY UnmadeMarks
<1>4. ASSUME NEW w \in Waiter, TimerStep(w)
      PROVE  \A v \in Waiter : v \notin Connector => late'[v] = 0
  <2>1. late \in [Waiter -> 0 .. MaxLate]
    BY CountsAre
  <2>2. \/ UNCHANGED late
        \/ (marking[w] > 0 \/ late[w] > 0) /\ \E n : late' = [late EXCEPT ![w] = n]
    BY <1>4 DEF TimerStep, Expire, Callback, Mark, Late
  <2>3. w \notin Connector => ~(marking[w] > 0 \/ late[w] > 0)
    BY <1>3
  <2> QED
    BY <1>3, <2>1, <2>2, <2>3
<1>5. CASE UNCHANGED late
  BY <1>1, <1>2, <1>3, <1>5
<1>6. (\E w \in Waiter : TimerStep(w)) \/ UNCHANGED late
  BY DEF close, fcntl, ioctl, IdleStep, IdleWaits, IdleHandles, hookVars
<1> QED
  BY <1>1, <1>2, <1>4, <1>5, <1>6

LEMMA UnmadeNext == HInv /\ Unmade /\ OneConnector /\ [HookNext]_hookVars => Unmade'
<1> SUFFICES ASSUME HInv, Unmade, OneConnector, [HookNext]_hookVars, open', conn' # "up"
             PROVE  Unmade'
  BY DEF Unmade
<1>1. CASE \E w \in Connector : connect_with_timeout(w)
  BY <1>1, UnmadeConnect
<1>2. CASE close_f
  BY <1>2 DEF close_f
<1>3. ASSUME ~(\E w \in Connector : connect_with_timeout(w)), ~close_f
      PROVE  open /\ conn # "up"
  <2> USE DEF socketVars, callVars
  <2>1. CASE \E w \in Waiter : do_io(w) \/ sleep(w) \/ FiberStep(w) \/ KernelGivesUp(w)
    BY <2>1 DEF do_io, sleep, FiberStep, KernelGivesUp, Try, Held, Register, Wake, AskError, SleepEnds
  <2>2. CASE \E w \in Waiter : TimerStep(w)
    BY <2>2 DEF TimerStep, Expire, Callback, Mark, Late
  <2>3. CASE close \/ (\E b \in BOOLEAN : fcntl(b) \/ ioctl(b)) \/ Network
    BY <2>3 DEF close, fcntl, ioctl, Network
  <2>4. CASE (\E l \in Idler : IdleStep(l)) \/ UNCHANGED hookVars
    BY <2>4 DEF IdleStep, IdleWaits, IdleHandles, hookVars
  <2> QED
    BY <1>3, <2>1, <2>2, <2>3, <2>4 DEF HookNext
<1>4. ASSUME NEW w \in Waiter, do_io(w) \/ sleep(w) \/ FiberStep(w) \/ KernelGivesUp(w),
             open, conn # "up"
      PROVE  Unmade'
  <2>1. /\ level' = level /\ \A v \in Waiter \ {w} : call'[v] = call[v] /\ late'[v] = late[v]
        /\ call'[w] \in {"none", "sleep", "connect"}
        /\ w \notin Connector => late'[w] = 0
        /\ call'[w] = "connect" => call[w] = "connect" /\ conn' = conn
        /\ conn' = conn \/ (conn' = "none" /\ call[w] = "connect" /\ conn = "refused")
    BY <1>4, UnmadeFiber
  <2>2. conn' # conn => \A v \in Waiter : v # w => call[v] # "connect"
    BY <2>1 DEF OneConnector, HInv, CallOK, Placed
  <2> QED
    BY <1>4, <2>1, <2>2 DEF Unmade
<1>5. ASSUME open, conn # "up",
             \/ \E w \in Waiter : TimerStep(w)
             \/ close \/ \E b \in BOOLEAN : fcntl(b) \/ ioctl(b)
             \/ \E l \in Idler : IdleStep(l)
             \/ UNCHANGED hookVars
      PROVE  Unmade'
  BY <1>5, UnmadeOutside DEF Unmade
<1>6. CASE Network
  <2>1. open /\ conn = "progress" /\ conn' = "refused" /\ Arrive("HUP") /\ UNCHANGED <<callVars, timerVars>>
    BY <1>6 DEF Network
  <2> QED
    BY <2>1 DEF Arrive, Unmade, callVars, timerVars
<1> QED
  BY <1>1, <1>2, <1>3, <1>4, <1>5, <1>6 DEF HookNext

(* What CleanWait says of one connect().                                     *)
Undisturbed(w) ==
  /\ \A l \in Idler : fetched[l] = {}
  /\ pc[w] # "ask"
  /\ w \notin cancelled => late[w] = 0 /\ due[w] = 0

(* The connect() that waits, with sleepers about it.                          *)
Alone(w) ==
  /\ w \in Connector /\ w \in clean /\ call[w] = "connect" /\ Undisturbed(w)
  /\ open /\ ~closing /\ conn = "progress" /\ level = {}
  /\ \A v \in Waiter : v # w => call[v] \in {"none", "sleep"} /\ late[v] = 0

LEMMA CleanBegins ==
  ASSUME HInv, OneConnector, NEW v \in Connector, connect_with_timeout(v),
         NEW w \in clean'
  PROVE  Undisturbed(w)'
<1> USE DEF HInv
<1>1. /\ v \in Waiter /\ call[v] = "none" /\ UNCHANGED <<fetched, late, due, cancelled>>
      /\ due[v] = 0 /\ v \notin clean
  <2>1. v \in Waiter /\ call[v] = "none" /\ UNCHANGED <<fetched, late, due, cancelled>>
    BY HookNames DEF connect_with_timeout, ConnectAtOnce, ConnectInProgress, Enter
  <2>2. pc[v] # "wait"
    BY <2>1 DEF CallOK, Placed
  <2> QED
    BY <2>1, <2>2, Outside DEF CallOK, TimersOwn
<1>2. \A u \in clean : u = v
  BY DEF OneConnector, HookTypeOK, CallOK, Placed, TimersOwn
<1>3. ConnectInProgress(v) /\ NothingLeft(v) /\ w = v
  BY <1>1, <1>2 DEF connect_with_timeout, ConnectAtOnce, ConnectInProgress
<1>4. pc'[v] \in {"add", "held"}
  BY <1>1, <1>3 DEF ConnectInProgress, Enter, HookTypeOK
<1> QED
  BY <1>1, <1>3, <1>4 DEF NothingLeft, Undisturbed

LEMMA AloneBefore ==
  ASSUME HInv, Unmade, CleanWait, OneConnector, NEW w \in clean,
         open, ~closing, conn = "progress"
  PROVE  Alone(w)
<1> USE DEF HInv
<1>1. w \in Waiter /\ call[w] = "connect" /\ w \in Connector
  BY DEF HookTypeOK, CallOK, TimersOwn, Placed
<1>2. \A v \in Waiter : v # w => v \notin Connector
  BY <1>1 DEF OneConnector
<1>3. \A v \in Waiter : v # w => call[v] # "connect"
  BY <1>2 DEF CallOK, Placed
<1>4. \A v \in Waiter : v # w => call[v] \in {"none", "sleep"} /\ late[v] = 0
  BY <1>2, <1>3 DEF Unmade
<1>5. level = {} /\ Undisturbed(w)
  BY DEF Unmade, CleanWait, Undisturbed
<1> QED
  BY <1>1, <1>4, <1>5 DEF Alone

(* Its own steps, and those of the sleepers.                                  *)
LEMMA AloneFiber ==
  ASSUME HInv, NEW w \in Waiter, Alone(w), NEW v \in Waiter, w \in clean',
         do_io(v) \/ sleep(v) \/ FiberStep(v) \/ KernelGivesUp(v)
  PROVE  Undisturbed(w)'
<1> USE DEF HInv
<1>1. /\ call[w] = "connect" /\ conn = "progress" /\ open /\ pc[w] # "ask"
      /\ w \notin cancelled => due[w] = 0
  BY DEF Alone, Undisturbed
<1>2. ~do_io(v)
  BY <1>1 DEF do_io
<1>3. CASE v = w
  <2>1. ~sleep(w) /\ ~Try(w) /\ ~Held(w) /\ ~AskError(w) /\ ~SleepEnds(w)
    BY <1>1 DEF sleep, Enter, Try, Held, AskError, SleepEnds
  <2>2. CASE Wake(w)
    BY <1>1, <2>2 DEF Wake, Run, Return
  <2>3. CASE KernelGivesUp(w) \/ Register(w)
    <3>1. UNCHANGED <<fetched, due, cancelled, late>> /\ pc'[w] \in {"add", "wait"}
      BY <1>1, <2>3 DEF KernelGivesUp, Register, addEvent, vars, timerVars, HookTypeOK
    <3> QED
      BY <3>1 DEF Alone, Undisturbed
  <2> QED
    BY <1>2, <1>3, <2>1, <2>2, <2>3 DEF FiberStep
<1>4. CASE v # w
  <2>1. call[v] \in {"none", "sleep"} /\ pc[v] \in {"try", "wait"}
    BY <1>4 DEF Alone, CallOK, Placed
  <2>2. ~Try(v) /\ ~Held(v) /\ ~KernelGivesUp(v) /\ ~Register(v) /\ ~Wake(v) /\ ~AskError(v)
    BY <2>1 DEF Try, Held, KernelGivesUp, Register, Wake, AskError
  <2>3. CASE sleep(v)
    <3>1. UNCHANGED <<fetched, due, cancelled, late>> /\ pc'[w] = pc[w]
      BY <1>4, <2>3 DEF sleep, Enter, HookTypeOK
    <3> QED
      BY <3>1 DEF Alone, Undisturbed
  <2>4. CASE SleepEnds(v)
    <3>1. UNCHANGED fetched /\ due'[w] = due[w] /\ pc'[w] = pc[w]
      BY <1>4, <2>4, RunFacts DEF SleepEnds, Return, HookTypeOK
    <3>2. late'[w] = late[w] /\ (w \in cancelled' <=> w \in cancelled)
      BY <1>4, <2>4, CountsAre DEF SleepEnds, Return
    <3> QED
      BY <3>1, <3>2 DEF Alone, Undisturbed
  <2> QED
    BY <1>2, <2>2, <2>3, <2>4 DEF FiberStep
<1> QED
  BY <1>3, <1>4

(* Steps of timers: the only callback that gets as far as cancelEvent() is its
   own, and has marked it.                                                   *)
LEMMA AloneTimer ==
  ASSUME HInv, NEW w \in Waiter, Alone(w), NEW v \in Waiter, TimerStep(v)
  PROVE  Undisturbed(w)'
<1> USE DEF HInv
<1>1. call[w] = "connect" /\ late \in [Waiter -> 0 .. MaxLate] /\ due \in [Waiter -> Nat]
  BY CountsAre DEF Alone, HookTypeOK, TypeOK
<1>2. pc' = pc
  BY DEF TimerStep, Expire, Callback, Mark, Late, callVars
<1>3. CASE Expire(v)
  BY <1>2, <1>3 DEF Expire, vars, Alone, Undisturbed
<1>4. CASE Callback(v)
  <2>1. due'[w] = due[w] /\ UNCHANGED <<fetched, cancelled, late>>
    BY <1>1, <1>4 DEF Callback
  <2> QED
    BY <1>2, <2>1 DEF Alone, Undisturbed
<1>5. CASE Mark(v)
  <2>1. UNCHANGED <<fetched, due>> /\ cancelled' = cancelled \cup {v} /\ (v # w => late'[w] = late[w])
    BY <1>1, <1>5 DEF Mark, vars
  <2> QED
    BY <1>2, <2>1 DEF Alone, Undisturbed
<1>6. CASE Late(v)
  <2>1. v = w /\ w \in cancelled
    BY <1>6 DEF Late, Alone, Undisturbed
  <2>2. UNCHANGED <<fetched, cancelled>>
    BY <1>6 DEF Late, cancelEvent, vars
  <2> QED
    BY <1>2, <2>1, <2>2 DEF Alone, Undisturbed
<1> QED
  BY <1>3, <1>4, <1>5, <1>6 DEF TimerStep

LEMMA CleanWaitNext ==
  HInv /\ Unmade /\ CleanWait /\ OneConnector /\ [HookNext]_hookVars => CleanWait'
<1> SUFFICES ASSUME HInv, Unmade, CleanWait, OneConnector, [HookNext]_hookVars,
                    open', ~closing', conn' = "progress", NEW w \in clean'
             PROVE  Undisturbed(w)'
  BY DEF CleanWait, Undisturbed
<1> USE DEF socketVars, callVars
<1>1. CASE \E v \in Connector : connect_with_timeout(v)
  BY <1>1, CleanBegins
<1>2. CASE \E v \in Waiter : do_io(v) \/ sleep(v) \/ FiberStep(v) \/ KernelGivesUp(v)
  <2>1. PICK v \in Waiter : do_io(v) \/ sleep(v) \/ FiberStep(v) \/ KernelGivesUp(v)
    BY <1>2
  <2>2. UNCHANGED <<open, closing>> /\ (conn' = conn \/ conn' = "none" \/ conn' = "up")
    BY <2>1 DEF do_io, sleep, FiberStep, KernelGivesUp, Try, Held, Register, Wake, AskError, SleepEnds
  <2>3. clean' \in {clean, clean \ {v}}
    BY <2>1 DEF do_io, sleep, FiberStep, KernelGivesUp, Try, Held, Register, Wake, AskError,
                SleepEnds, Return
  <2>4. w \in Waiter /\ Alone(w)
    BY <2>2, <2>3, AloneBefore DEF HInv, HookTypeOK
  <2> QED
    BY <2>1, <2>4, AloneFiber
<1>3. CASE \E v \in Waiter : TimerStep(v)
  <2>1. UNCHANGED <<open, closing, conn, clean>>
    BY <1>3 DEF TimerStep, Expire, Callback, Mark, Late
  <2>2. w \in Waiter /\ Alone(w)
    BY <2>1, AloneBefore DEF HInv, HookTypeOK
  <2> QED
    BY <1>3, <2>2, AloneTimer
<1>4. ~(close \/ close_f \/ Network)
  BY DEF close, close_f, Network
<1>5. CASE \/ \E b \in BOOLEAN : fcntl(b) \/ ioctl(b)
           \/ \E l \in Idler : IdleStep(l)
           \/ UNCHANGED hookVars
  <2>1. UNCHANGED <<open, closing, conn, clean>>
    BY <1>5 DEF fcntl, ioctl, IdleStep, IdleWaits, IdleHandles, hookVars
  <2>2. w \in Waiter /\ Alone(w)
    BY <2>1, AloneBefore DEF HInv, HookTypeOK
  <2>3. ~(\E l \in Idler : IdleStep(l))
    BY <2>2 DEF Alone, Undisturbed, IdleStep, IdleWaits, epoll_wait, Reported, IdleHandles, Handle
  <2>4. UNCHANGED <<fetched, pc, cancelled, late, due>>
    BY <1>5, <2>3 DEF fcntl, ioctl, hookVars, vars, timerVars
  <2> QED
    BY <2>2, <2>4 DEF Alone, Undisturbed
<1> QED
  BY <1>1, <1>2, <1>3, <1>4, <1>5 DEF HookNext

(* With one fiber that connects, its connect() is woken by its own timer or by
   the connection, if nothing was left over when it began.                    *)
LEMMA HookConnects ==
  ASSUME OneConnector
  PROVE  HookSpec => [](HInv /\ Unmade /\ CleanWait)
<1>1. HookInit => Unmade /\ CleanWait
  <2> SUFFICES ASSUME HookInit PROVE Unmade /\ CleanWait
    OBVIOUS
  <2>1. Unmade
    BY DEF HookInit, Init, Unmade
  <2>2. CleanWait
    BY DEF HookInit, CleanWait
  <2> QED
    BY <2>1, <2>2
<1>2. HInv /\ Unmade /\ CleanWait /\ [HookNext]_hookVars => Unmade' /\ CleanWait'
  BY UnmadeNext, CleanWaitNext
<1> QED
  BY <1>1, <1>2, InitHInv, HookNextHInv, PTL DEF HookSpec

-----------------------------------------------------------------------------
(* A call that is over was ended by one of these steps.                      *)
LEMMA Returns ==
  ASSUME HInv, HookNext, NEW w \in Waiter, call[w] # "none", call'[w] = "none"
  PROVE  FiberStep(w) \/ KernelGivesUp(w)
<1> USE DEF HInv
<1>1. ASSUME NEW v \in Waiter, v # w, do_io(v) \/ sleep(v) \/ FiberStep(v) \/ KernelGivesUp(v)
      PROVE  call'[w] = call[w]
  <2>1. CASE do_io(v) \/ sleep(v)
    BY <1>1, <2>1 DEF do_io, sleep, Enter, HookTypeOK
  <2>2. CASE FiberStep(v) \/ KernelGivesUp(v)
    <3>1. UNCHANGED call \/ \E r : Return(v, r)
      BY <2>2 DEF FiberStep, Try, Held, Register, Wake, AskError, SleepEnds, KernelGivesUp
    <3> QED
      BY <1>1, <3>1 DEF Return, HookTypeOK
  <2> QED
    BY <1>1, <2>1, <2>2
<1>2. ~(do_io(w) \/ sleep(w))
  BY DEF do_io, sleep, Enter
<1>3. ASSUME NEW v \in Connector, connect_with_timeout(v)
      PROVE  call'[w] # "none"
  BY <1>3, HookNames DEF connect_with_timeout, ConnectAtOnce, ConnectInProgress, Enter, HookTypeOK
<1>4. ASSUME \/ \E v \in Waiter : TimerStep(v)
             \/ close \/ close_f \/ Network
             \/ \E b \in BOOLEAN : fcntl(b) \/ ioctl(b)
             \/ \E l \in Idler : IdleStep(l)
      PROVE  UNCHANGED call
  BY <1>4 DEF TimerStep, Expire, Callback, Mark, Late, close, close_f, fcntl, ioctl, Network,
              IdleStep, IdleWaits, IdleHandles, callVars
<1> QED
  BY <1>1, <1>2, <1>3, <1>4 DEF HookNext

LEMMA Outcome ==
  ASSUME HInv, NEW w \in Waiter, NEW r, Return(w, r)
  PROVE  outcome'[w] = r
BY DEF Return, HInv, HookTypeOK

(* If one fiber connects the socket, its connect() returns 0 only on a
   connection that is up, or is being closed, whoever scheduled the fiber and
   whenever its timer expired, unless an earlier call had left something.  Of
   two that connect, one may take the SO_ERROR the other is to see.          *)
THEOREM HookConnectTrue ==
  ASSUME OneConnector
  PROVE  HookSpec => ConnectTrue
<1> DEFINE A == \A w \in Connector :
                  w \in clean /\ call'[w] = "none" /\ outcome'[w] = "ok"
                    => conn = "up" \/ closing \/ ~open
<1>1. HInv /\ Unmade /\ CleanWait /\ [HookNext]_hookVars => [A]_hookVars
  <2> SUFFICES ASSUME HInv, Unmade, CleanWait, HookNext, NEW w \in Connector,
                      w \in clean, call'[w] = "none", outcome'[w] = "ok", open, ~closing
               PROVE  conn = "up"
    OBVIOUS
  <2> USE DEF HInv
  <2>1. w \in Waiter /\ call[w] = "connect"
    BY HookNames DEF CallOK, TimersOwn
  <2>2. FiberStep(w) \/ KernelGivesUp(w)
    BY <2>1, Returns
  <2>3. ~Try(w) /\ ~SleepEnds(w)
    BY <2>1 DEF Try, SleepEnds
  <2>4. ~KernelGivesUp(w) /\ ~Register(w)
    BY <2>1 DEF KernelGivesUp, Register
  <2>5. ~Wake(w)
    BY <2>1, Outcome DEF Wake
  <2>6. CASE Held(w)
    BY <2>1, <2>6, Outcome DEF Held
  <2>7. CASE AskError(w)
    <3>1. conn # "refused"
      BY <2>1, <2>7, Outcome DEF AskError
    <3>2. conn # "none"
      BY <2>1 DEF Unmade
    <3>3. conn # "progress"
      BY <2>7 DEF AskError, CleanWait
    <3> QED
      BY <3>1, <3>2, <3>3 DEF HookTypeOK
  <2> QED
    BY <2>2, <2>3, <2>4, <2>5, <2>6, <2>7 DEF FiberStep
<1>2. HookSpec => [](HInv /\ Unmade /\ CleanWait)
  BY HookConnects
<1> QED
  BY <1>1, <1>2, PTL DEF HookSpec, ConnectTrue

(* A call that reports ETIMEDOUT has had a timer of its own expire, and sleep()
   does not return before its timer: no callback of an earlier call does it.  *)
THEOREM HookTimeoutHonest == HookSpec => TimeoutHonest
<1> DEFINE A == \A w \in Waiter :
                  /\ call[w] # "none" /\ call'[w] = "none"
                  /\ outcome'[w] = "ETIMEDOUT" \/ call[w] = "sleep"
                  => w \in expired
<1>1. HInv /\ [HookNext]_hookVars => [A]_hookVars
  <2> SUFFICES ASSUME HInv, HookNext, NEW w \in Waiter,
                      call[w] # "none", call'[w] = "none",
                      outcome'[w] = "ETIMEDOUT" \/ call[w] = "sleep"
               PROVE  w \in expired
    OBVIOUS
  <2>1. FiberStep(w) \/ KernelGivesUp(w)
    BY Returns
  <2>2. CASE Try(w) \/ Held(w) \/ KernelGivesUp(w) \/ Register(w) \/ AskError(w)
    <3>1. (\E r \in {"ok", "error"} : Return(w, r)) \/ UNCHANGED call
      BY <2>2 DEF Try, Held, KernelGivesUp, Register, AskError
    <3>2. outcome'[w] # "ETIMEDOUT"
      BY <3>1, Outcome
    <3>3. call[w] # "sleep"
      BY <2>2 DEF Try, Held, KernelGivesUp, Register, AskError, HInv, CallOK, Placed
    <3> QED
      BY <3>2, <3>3
  <2>3. CASE Wake(w)
    <3>1. w \in cancelled
      BY <2>3 DEF Wake
    <3> QED
      BY <3>1 DEF HInv, CallOK, TimersOwn
  <2>4. CASE SleepEnds(w)
    <3>1. w \notin ticking /\ call[w] = "sleep"
      BY <2>4, RunFacts DEF SleepEnds
    <3> QED
      BY <3>1 DEF HInv, CallOK, TimersOwn
  <2> QED
    BY <2>1, <2>2, <2>3, <2>4 DEF FiberStep
<1> QED
  BY <1>1, HookInvariant, PTL DEF HookSpec, TimeoutHonest

-----------------------------------------------------------------------------
(* FdEvents, as the calls of hook.cc use it                                  *)

(* Those that wait for an event, and what they have coming; a sleeper waits
   for its timer.                                                            *)
ioWaits == {w \in waits : call[w] # "sleep"}

ioDue == [w \in Waiter |-> IF call[w] = "sleep" THEN 0 ELSE due[w]]

Fd == INSTANCE FdEvents WITH waits <- ioWaits, due <- ioDue

LEMMA SameNames ==
  /\ Fd!Event = Event
  /\ \A w \in Waiter : Fd!Of(w) = Of(w)
  /\ \A n : Fd!Less(n) = Less(n)
  /\ \A set : Fd!epoll_ctl(set) <=> epoll_ctl(set)
  /\ \A l \in Idler : Fd!real_events(l) = real_events(l)
BY DEF Event, Fd!Event, Of, Fd!Of, Less, Fd!Less, epoll_ctl, Fd!epoll_ctl, Reported, Fd!Reported,
       real_events, Fd!real_events

LEMMA SameCount == \A S : Fd!Cardinality(S) = Cardinality(S)
BY DEF Cardinality, Fd!Cardinality

(* Nobody's wait for an event changes.                                       *)
LEMMA WaitsKept ==
  ASSUME waits \in SUBSET Waiter, waits' \in SUBSET Waiter,
         \A v \in Waiter :
           /\ v \in waits' /\ call'[v] # "sleep" <=> v \in waits /\ call[v] # "sleep"
           /\ (IF call'[v] = "sleep" THEN 0 ELSE due'[v]) = (IF call[v] = "sleep" THEN 0 ELSE due[v])
  PROVE  ioWaits' = ioWaits /\ ioDue' = ioDue
<1>1. ioWaits' = ioWaits
  BY DEF ioWaits
<1>2. ioDue' = ioDue
  BY DEF ioDue
<1> QED
  BY <1>1, <1>2

(* The ends of registrations schedule fibers, and no sleeper.                *)
LEMMA TriggerMaps ==
  ASSUME HInv, NEW set \in SUBSET Event, triggerEvent(set), UNCHANGED <<waits, call>>
  PROVE  Fd!triggerEvent(set) /\ ioWaits' = ioWaits
<1>1. \A w \in Waiter : call[w] = "sleep" => {e \in set : piber[e] = w} = {}
  BY HookNames DEF HInv, CallContexts, InIO
<1>2. \A w \in Waiter : call[w] = "sleep" => Cardinality({e \in set : piber[e] = w}) = 0
  BY <1>1, FS_EmptySet
<1>3. ioDue' = [w \in Waiter |-> ioDue[w] + Cardinality({e \in set : piber[e] = w})]
  BY <1>2 DEF ioDue, triggerEvent
<1>4. ioWaits' = ioWaits
  BY DEF ioWaits
<1> QED
  BY <1>3, <1>4, SameNames, SameCount DEF triggerEvent, Fd!triggerEvent

LEMMA CallMaps ==
  ASSUME HInv, HInv', NEW w \in Waiter, do_io(w) \/ sleep(w) \/ SleepEnds(w)
  PROVE  UNCHANGED Fd!vars
<1>1. waits \in SUBSET Waiter /\ waits' \in SUBSET Waiter
  BY DEF HInv, HookTypeOK, TypeOK
<1>2. \A v \in Waiter : v # w => call'[v] = call[v] /\ due'[v] = due[v] /\ (v \in waits' <=> v \in waits)
  BY RunFacts DEF do_io, sleep, SleepEnds, Enter, Return, vars, HInv, HookTypeOK
<1>3. /\ w \in waits' /\ call'[w] # "sleep" <=> w \in waits /\ call[w] # "sleep"
      /\ (IF call'[w] = "sleep" THEN 0 ELSE due'[w]) = (IF call[w] = "sleep" THEN 0 ELSE due[w])
  <2>1. CASE do_io(w)
    <3>1. call[w] = "none" /\ UNCHANGED <<waits, due>>
      BY <2>1 DEF do_io, Enter, vars
    <3> QED
      BY <3>1 DEF HInv, CallOK, Placed, WokenOnce
  <2>2. CASE sleep(w)
    BY <2>2, EnterFacts DEF sleep
  <2>3. CASE SleepEnds(w)
    BY <2>3, RunFacts DEF SleepEnds
  <2> QED
    BY <2>1, <2>2, <2>3
<1>4. ioWaits' = ioWaits /\ ioDue' = ioDue
  BY <1>1, <1>2, <1>3, WaitsKept
<1>5. UNCHANGED <<events, piber, m_pendingEventCount, kernelVars, fetched>>
  BY DEF do_io, sleep, SleepEnds, Run, vars
<1> QED
  BY <1>4, <1>5 DEF Fd!vars, Fd!kernelVars, kernelVars

(* Reading, writing and connecting make the socket less ready.                *)
LEMMA ReadyMaps ==
  ASSUME HInv, HInv', UNCHANGED <<waits, due>>,
         \A v \in Waiter : call'[v] = "sleep" <=> call[v] = "sleep",
         UNCHANGED <<events, piber, m_pendingEventCount, interest, armed, fetched>>,
         NEW e \in Event \cup {"HUP"}, level' \in {level, level \ {e}}
  PROVE  Fd!Next \/ UNCHANGED Fd!vars
<1>1. waits \in SUBSET Waiter /\ waits' \in SUBSET Waiter
  BY DEF HInv, HookTypeOK, TypeOK
<1>2. ioWaits' = ioWaits /\ ioDue' = ioDue
  BY <1>1, WaitsKept
<1>3. CASE level' = level
  BY <1>2, <1>3 DEF Fd!vars, Fd!kernelVars
<1>4. CASE level' # level
  <2>1. level' = level \ {e} /\ e \in level
    BY <1>4
  <2>2. Fd!Consume(e)
    BY <1>2, <2>1 DEF Fd!Consume
  <2> QED
    BY <2>2, SameNames DEF Fd!Next
<1> QED
  BY <1>3, <1>4

LEMMA TryMaps ==
  ASSUME HInv, HInv', NEW w \in Waiter, Try(w) \/ Held(w) \/ KernelGivesUp(w) \/ AskError(w)
  PROVE  Fd!Next \/ UNCHANGED Fd!vars
<1>1. /\ UNCHANGED <<waits, due, events, piber, m_pendingEventCount, interest, armed, fetched>>
      /\ level' \in {level, level \ {Of(w)}}
  BY DEF Try, Held, KernelGivesUp, AskError, vars, kernelVars
<1>2. call[w] # "sleep"
  BY DEF Try, Held, KernelGivesUp, AskError, HInv, CallOK, Placed
<1>3. UNCHANGED call \/ \E r : Return(w, r)
  BY DEF Try, Held, KernelGivesUp, AskError
<1>4. \A v \in Waiter : call'[v] = "sleep" <=> call[v] = "sleep"
  BY <1>2, <1>3 DEF Return, HInv, HookTypeOK
<1> QED
  BY <1>1, <1>4, OfEvent, ReadyMaps

LEMMA connectMaps ==
  ASSUME HInv, HInv', NEW w \in Connector, connect_with_timeout(w)
  PROVE  Fd!Next \/ UNCHANGED Fd!vars
<1>1. /\ UNCHANGED <<waits, due, events, piber, m_pendingEventCount, interest, armed, fetched>>
      /\ level' \in {level, level \ {"HUP"}} /\ w \in Waiter
  BY HookNames DEF connect_with_timeout, ConnectAtOnce, ConnectInProgress
<1>2. \A v \in Waiter : call'[v] = "sleep" <=> call[v] = "sleep"
  BY DEF connect_with_timeout, ConnectAtOnce, ConnectInProgress, Enter, HInv, HookTypeOK
<1> QED
  BY <1>1, <1>2, ReadyMaps

LEMMA RegisterMaps ==
  ASSUME HInv, HInv', NEW w \in Waiter, Register(w)
  PROVE  Fd!Next \/ UNCHANGED Fd!vars
<1>1. waits \in SUBSET Waiter /\ waits' \in SUBSET Waiter /\ call[w] \in {"io", "connect"}
  BY DEF Register, HInv, HookTypeOK, TypeOK
<1>2. CASE addEvent(w) /\ UNCHANGED call
  <2>1. ioWaits' = ioWaits \cup {w} /\ w \notin ioWaits /\ ioDue' = ioDue
    BY <1>1, <1>2 DEF addEvent, ioWaits, ioDue
  <2>2. Fd!addEvent(w)
    BY <1>2, <2>1, SameNames DEF addEvent, Fd!addEvent
  <2> QED
    BY <2>2 DEF Fd!Next
<1>3. CASE UNCHANGED vars /\ (Return(w, "error") \/ UNCHANGED call)
  <2>1. \A v \in Waiter : call'[v] = "sleep" <=> call[v] = "sleep"
    BY <1>1, <1>3 DEF Return, HInv, HookTypeOK
  <2>2. ioWaits' = ioWaits /\ ioDue' = ioDue
    BY <1>1, <1>3, <2>1, WaitsKept DEF vars
  <2> QED
    BY <1>3, <2>2 DEF vars, kernelVars, Fd!vars, Fd!kernelVars
<1> QED
  BY <1>2, <1>3 DEF Register

LEMMA WakeMaps ==
  ASSUME HInv, HInv', NEW w \in Waiter, Wake(w)
  PROVE  Fd!Next
<1>1. waits \in SUBSET Waiter /\ call[w] \in {"io", "connect"} /\ Run(w) /\ due \in [Waiter -> Nat]
  BY DEF Wake, HInv, HookTypeOK, TypeOK
<1>2. \A v \in Waiter : call'[v] = "sleep" <=> call[v] = "sleep"
  BY <1>1 DEF Wake, Return, HInv, HookTypeOK
<1>3. ioWaits' = ioWaits \ {w} /\ w \in ioWaits
  BY <1>1, <1>2 DEF Run, ioWaits
<1>4. ioDue[w] > 0 /\ ioDue' = [ioDue EXCEPT ![w] = @ - 1]
  BY <1>1, <1>2 DEF Run, ioDue
<1>5. Fd!Run(w)
  BY <1>1, <1>3, <1>4 DEF Run, kernelVars, Fd!Run, Fd!kernelVars
<1> QED
  BY <1>5 DEF Fd!Next

LEMMA LateMaps ==
  ASSUME HInv, NEW w \in Waiter, Late(w)
  PROVE  Fd!Next \/ UNCHANGED Fd!vars
<1>1. CASE UNCHANGED vars
  <2>1. ioWaits' = ioWaits /\ ioDue' = ioDue
    BY <1>1 DEF Late, callVars, vars, ioWaits, ioDue
  <2> QED
    BY <1>1, <2>1 DEF vars, kernelVars, Fd!vars, Fd!kernelVars
<1>2. CASE cancelEvent(Of(w))
  <2>1. {Of(w)} \in SUBSET Event
    BY OfEvent
  <2>2. Fd!triggerEvent({Of(w)}) /\ ioWaits' = ioWaits
    BY <1>2, <2>1, TriggerMaps DEF Late, cancelEvent, callVars
  <2>3. Fd!cancelEvent(Of(w))
    BY <1>2, <2>2, SameNames DEF cancelEvent, Fd!cancelEvent
  <2> QED
    BY <2>1, <2>3, SameNames DEF Fd!Next
<1> QED
  BY <1>1, <1>2 DEF Late

LEMMA closeMaps ==
  ASSUME HInv, close
  PROVE  Fd!Next \/ UNCHANGED Fd!vars
<1>1. CASE UNCHANGED vars
  <2>1. ioWaits' = ioWaits /\ ioDue' = ioDue
    BY <1>1 DEF close, callVars, vars, ioWaits, ioDue
  <2> QED
    BY <1>1, <2>1 DEF vars, kernelVars, Fd!vars, Fd!kernelVars
<1>2. CASE cancelAll
  <2>1. events \in SUBSET Event
    BY DEF HInv, HookTypeOK, TypeOK
  <2>2. Fd!triggerEvent(events) /\ ioWaits' = ioWaits
    BY <1>2, <2>1, TriggerMaps DEF close, cancelAll, callVars
  <2>3. Fd!cancelAll
    BY <1>2, <2>2, SameNames, SameCount DEF cancelAll, Fd!cancelAll
  <2> QED
    BY <2>3 DEF Fd!Next
<1> QED
  BY <1>1, <1>2 DEF close

(* Steps of timers, of flags and of the network wake nobody who waits for an
   event, and a sleeper is none of FdEvents' waiters.                        *)
LEMMA OtherMaps ==
  ASSUME HInv, \/ \E w \in Waiter : Expire(w) \/ Callback(w) \/ Mark(w)
               \/ \E b \in BOOLEAN : fcntl(b) \/ ioctl(b)
               \/ Network
  PROVE  Fd!Next \/ UNCHANGED Fd!vars
<1>1. UNCHANGED <<waits, call>> /\ \A v \in Waiter : call[v] = "sleep" \/ due'[v] = due[v]
  BY DEF Expire, Callback, Mark, fcntl, ioctl, Network, Arrive, vars, callVars, HInv, HookTypeOK, TypeOK
<1>2. ioWaits' = ioWaits /\ ioDue' = ioDue
  BY <1>1 DEF ioWaits, ioDue
<1>3. CASE Network
  <2>1. PICK x \in Event \cup {"HUP"} : Arrive(x)
    BY <1>3 DEF Network, Event
  <2>2. Fd!Arrive(x)
    BY <1>2, <2>1 DEF Arrive, Fd!Arrive
  <2> QED
    BY <2>2, SameNames DEF Fd!Next
<1>4. CASE ~Network
  <2>1. UNCHANGED <<events, piber, m_pendingEventCount, kernelVars, fetched>>
    BY <1>4 DEF Expire, Callback, Mark, fcntl, ioctl, vars
  <2> QED
    BY <1>2, <2>1 DEF kernelVars, Fd!vars, Fd!kernelVars
<1> QED
  BY <1>3, <1>4

LEMMA IdleMaps ==
  ASSUME HInv, open, NEW l \in Idler, IdleStep(l)
  PROVE  Fd!Next
<1>1. CASE epoll_wait(l) /\ UNCHANGED callVars
  <2>1. ioWaits' = ioWaits /\ ioDue' = ioDue
    BY <1>1 DEF epoll_wait, callVars, ioWaits, ioDue
  <2>2. Fd!epoll_wait(l)
    BY <1>1, <2>1 DEF epoll_wait, Fd!epoll_wait, Reported, Fd!Reported
  <2> QED
    BY <2>2 DEF Fd!Next
<1>2. CASE Handle(l) /\ UNCHANGED callVars
  <2>1. CASE events \cap real_events(l) = {}
    <3>1. ioWaits' = ioWaits /\ ioDue' = ioDue
      BY <1>2, <2>1 DEF Handle, callVars, ioWaits, ioDue
    <3>2. Fd!Handle(l)
      BY <1>2, <2>1, <3>1, SameNames DEF Handle, Fd!Handle, kernelVars, Fd!kernelVars
    <3> QED
      BY <3>2 DEF Fd!Next
  <2>2. CASE events \cap real_events(l) # {}
    <3>1. real_events(l) \in SUBSET Event
      BY DEF real_events, HInv, HookTypeOK, TypeOK
    <3>2. Fd!triggerEvent(real_events(l)) /\ ioWaits' = ioWaits
      BY <1>2, <2>2, <3>1, TriggerMaps DEF Handle, callVars
    <3>3. Fd!Handle(l)
      BY <1>2, <2>2, <3>2, SameNames, SameCount DEF Handle, Fd!Handle
    <3> QED
      BY <3>3 DEF Fd!Next
  <2> QED
    BY <2>1, <2>2
<1> QED
  BY <1>1, <1>2 DEF IdleStep, IdleWaits, IdleHandles

(* As long as the socket is open, what the calls, the timers and close() do to
   its registrations, beside those who sleep, is what FdEvents allows: its
   callers of addEvent(), cancelEvent() and cancelAll() are these.           *)
THEOREM HookImplementsFd == HookSpec => Fd!Init /\ [][open' => Fd!Next]_(Fd!vars)
<1>1. HookInit => Fd!Init
  <2> SUFFICES ASSUME HookInit PROVE Fd!Init
    OBVIOUS
  <2>1. ioWaits = {} /\ ioDue = [w \in Waiter |-> 0]
    BY DEF HookInit, Init, ioWaits, ioDue
  <2> QED
    BY <2>1, SameNames DEF HookInit, Init, Fd!Init
<1>2. HInv /\ HInv' /\ [HookNext]_hookVars => [open' => Fd!Next]_(Fd!vars)
  <2> SUFFICES ASSUME HInv, HInv', [HookNext]_hookVars, open'
               PROVE  Fd!Next \/ UNCHANGED Fd!vars
    OBVIOUS
  <2>1. CASE UNCHANGED hookVars
    <3>1. ioWaits' = ioWaits /\ ioDue' = ioDue
      BY <2>1 DEF hookVars, callVars, vars, ioWaits, ioDue
    <3> QED
      BY <2>1, <3>1 DEF hookVars, vars, kernelVars, Fd!vars, Fd!kernelVars
  <2>2. CASE \E w \in Waiter : do_io(w) \/ sleep(w) \/ FiberStep(w) \/ KernelGivesUp(w)
    BY <2>2, CallMaps, TryMaps, RegisterMaps, WakeMaps DEF FiberStep
  <2>3. CASE \E w \in Connector : connect_with_timeout(w)
    BY <2>3, connectMaps
  <2>4. CASE \E w \in Waiter : TimerStep(w)
    BY <2>4, OtherMaps, LateMaps DEF TimerStep
  <2>5. CASE close \/ close_f
    BY <2>5, closeMaps DEF close_f
  <2>6. CASE Network \/ \E b \in BOOLEAN : fcntl(b) \/ ioctl(b)
    BY <2>6, OtherMaps
  <2>7. CASE \E l \in Idler : IdleStep(l)
    <3>1. open
      BY <2>7 DEF IdleStep, IdleWaits, IdleHandles, socketVars
    <3> QED
      BY <2>7, <3>1, IdleMaps
  <2> QED
    BY <2>1, <2>2, <2>3, <2>4, <2>5, <2>6, <2>7 DEF HookNext
<1> QED
  BY <1>1, <1>2, HookInvariant, PTL DEF HookSpec
=============================================================================
