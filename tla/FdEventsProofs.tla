--------------------------- MODULE FdEventsProofs ---------------------------
(***************************************************************************)
(* The registrations of one descriptor, for any number of waiters and of   *)
(* threads in idle() and any width of the counter: a waiter is registered  *)
(* or triggered, exactly once, as long as it waits, and what is ready is   *)
(* known to epoll or to a thread that is about to work it off.             *)
(***************************************************************************)
EXTENDS FdEvents, FiniteSetTheorems, TLAPS

(* A registered event has its waiter in its context, one that waits and is not
   triggered; an event that is not registered has an empty context.          *)
Contexts ==
  \A e \in Event :
    IF e \in events THEN piber[e] \in waits /\ Of(piber[e]) = e ELSE piber[e] = None

(* A waiter is triggered when it waits and is registered no more.            *)
DueWhenTaken ==
  \A w \in Waiter : due[w] = IF w \in waits /\ piber[Of(w)] # w THEN 1 ELSE 0

(* epoll watches what is registered.                                         *)
InterestCurrent == interest = events

FInv == TypeOK /\ Contexts /\ DueWhenTaken /\ InterestCurrent /\ NothingMissed

-----------------------------------------------------------------------------
(* The counter, whatever is counted down, stays within its width.            *)
LEMMA ModWidth ==
  ASSUME NEW n \in Int
  PROVE  n % Wrap \in 0 .. Wrap - 1
<1>1. Wrap \in Int /\ Wrap > 0
  BY FdAssumption
<1> QED
  BY <1>1

LEMMA OfEvent == \A w \in Waiter : Of(w) \in Event
BY DEF Of, Event

(* A context only names a waiter for its event.                              *)
OwnContext == \A e \in Event, w \in Waiter : piber[e] = w => e = Of(w)

LEMMA ContextsOwn == Contexts => OwnContext
BY FdAssumption DEF Contexts, OwnContext

(* So at most one context of a set of events names a given waiter.           *)
LEMMA NamedCount ==
  ASSUME OwnContext, NEW set \in SUBSET Event, NEW w \in Waiter
  PROVE  Cardinality({e \in set : piber[e] = w}) = IF Of(w) \in set /\ piber[Of(w)] = w THEN 1 ELSE 0
<1>1. CASE Of(w) \in set /\ piber[Of(w)] = w
  <2>1. {e \in set : piber[e] = w} = {Of(w)}
    BY <1>1 DEF OwnContext
  <2>2. Cardinality({Of(w)}) = 1
    BY FS_Singleton
  <2> QED
    BY <1>1, <2>1, <2>2
<1>2. CASE ~(Of(w) \in set /\ piber[Of(w)] = w)
  <2>1. {e \in set : piber[e] = w} = {}
    BY <1>2 DEF OwnContext
  <2> QED
    BY <1>2, <2>1, FS_EmptySet
<1> QED
  BY <1>1, <1>2

(* What epoll_ctl is told, it watches, and it reports what is ready.         *)
LEMMA CtlMisses ==
  ASSUME NEW set \in SUBSET Event, epoll_ctl(set), events' = set
  PROVE  InterestCurrent' /\ NothingMissed'
BY DEF epoll_ctl, Reported, InterestCurrent, NothingMissed

LEMMA CtlTypes ==
  ASSUME TypeOK, NEW set \in SUBSET Event, epoll_ctl(set)
  PROVE  interest' \in SUBSET Event /\ armed' \in BOOLEAN /\ level' \in SUBSET (Event \cup {"HUP"})
BY DEF epoll_ctl, TypeOK

(* Triggering a set of events keeps contexts and wake-ups in step.           *)
LEMMA TriggerAccounts ==
  ASSUME FInv, NEW set \in SUBSET Event, triggerEvent(set), UNCHANGED waits
  PROVE  /\ events' \in SUBSET Event
         /\ piber' \in [Event -> Waiter \cup {None}]
         /\ due' \in [Waiter -> Nat]
         /\ Contexts' /\ DueWhenTaken'
<1> USE DEF FInv
<1>1. \A w \in Waiter : due'[w] = due[w] + (IF Of(w) \in set /\ piber[Of(w)] = w THEN 1 ELSE 0)
  BY ContextsOwn, NamedCount DEF triggerEvent
<1>2. /\ events' \in SUBSET Event
      /\ piber' \in [Event -> Waiter \cup {None}]
  BY DEF triggerEvent, TypeOK
<1>3. Contexts'
  BY DEF triggerEvent, Contexts
<1>4. DueWhenTaken'
  <2> SUFFICES ASSUME NEW w \in Waiter
               PROVE  due'[w] = IF w \in waits' /\ piber'[Of(w)] # w THEN 1 ELSE 0
    BY DEF DueWhenTaken
  <2>1. piber[Of(w)] = w => w \in waits /\ due[w] = 0
    BY OfEvent, FdAssumption DEF Contexts, DueWhenTaken
  <2>2. piber'[Of(w)] = IF Of(w) \in set THEN None ELSE piber[Of(w)]
    BY OfEvent DEF triggerEvent
  <2>3. due[w] = IF w \in waits /\ piber[Of(w)] # w THEN 1 ELSE 0
    BY DEF DueWhenTaken
  <2> QED
    BY <1>1, <2>1, <2>2, <2>3, FdAssumption
<1>5. due' \in [Waiter -> Nat]
  BY <1>1 DEF triggerEvent, TypeOK
<1> QED
  BY <1>2, <1>3, <1>4, <1>5

-----------------------------------------------------------------------------
LEMMA InitFInv == Init => FInv
<1> SUFFICES ASSUME Init PROVE FInv
  OBVIOUS
<1>1. TypeOK
  <2>1. 0 \in 0 .. Wrap - 1 /\ 0 \in Nat
    BY FdAssumption
  <2>2. fetched \in [Idler -> SUBSET (Event \cup {"HUP"})] /\ due \in [Waiter -> Nat]
    BY DEF Init
  <2> QED
    BY <2>1, <2>2 DEF Init, TypeOK
<1> QED
  BY <1>1 DEF Init, FInv, Contexts, DueWhenTaken, InterestCurrent, NothingMissed

LEMMA ArriveFInv ==
  ASSUME FInv, NEW x \in Event \cup {"HUP"}, Arrive(x)
  PROVE  FInv'
<1> USE DEF FInv
<1>1. TypeOK'
  BY DEF Arrive, TypeOK
<1>2. (Contexts /\ DueWhenTaken /\ InterestCurrent)'
  BY DEF Arrive, Contexts, DueWhenTaken, InterestCurrent
<1>3. NothingMissed'
  BY DEF Arrive, NothingMissed, InterestCurrent
<1> QED
  BY <1>1, <1>2, <1>3

LEMMA addEventFInv ==
  ASSUME FInv, NEW w \in Waiter, addEvent(w)
  PROVE  FInv'
<1> USE DEF FInv
<1>1. Of(w) \in Event /\ Of(w) \notin events /\ w \notin waits
  BY OfEvent DEF addEvent
<1>2. (events \cup {Of(w)}) \in SUBSET Event
  BY <1>1 DEF TypeOK
<1>3. (InterestCurrent /\ NothingMissed)'
  BY <1>2, CtlMisses DEF addEvent
<1>4. m_pendingEventCount' \in 0 .. Wrap - 1
  BY ModWidth DEF addEvent, TypeOK
<1>5. TypeOK'
  BY <1>1, <1>2, <1>4, CtlTypes DEF addEvent, TypeOK
<1>6. Contexts'
  BY <1>1 DEF addEvent, Contexts, TypeOK
<1>7. DueWhenTaken'
  <2> SUFFICES ASSUME NEW v \in Waiter
               PROVE  due'[v] = IF v \in waits' /\ piber'[Of(v)] # v THEN 1 ELSE 0
    BY DEF DueWhenTaken
  <2>1. CASE v = w
    BY <1>1, <2>1 DEF addEvent, DueWhenTaken, TypeOK
  <2>2. CASE v # w
    <3>1. piber[Of(w)] = None
      BY <1>1 DEF Contexts
    <3> QED
      BY <1>1, <2>2, <3>1, OfEvent, FdAssumption DEF addEvent, DueWhenTaken, TypeOK
  <2> QED
    BY <2>1, <2>2
<1> QED
  BY <1>3, <1>5, <1>6, <1>7

LEMMA delEventFInv ==
  ASSUME FInv, NEW x \in Event, delEvent(x)
  PROVE  FInv'
<1> USE DEF FInv
<1>1. piber[x] \in waits /\ Of(piber[x]) = x
  BY DEF delEvent, Contexts
<1>2. (InterestCurrent /\ NothingMissed)'
  BY CtlMisses DEF delEvent, TypeOK
<1>3. m_pendingEventCount' \in 0 .. Wrap - 1
  BY ModWidth DEF delEvent, Less, TypeOK
<1>4. TypeOK'
  BY <1>3, CtlTypes DEF delEvent, TypeOK
<1>5. Contexts'
  BY <1>1 DEF delEvent, Contexts, TypeOK
<1>6. DueWhenTaken'
  BY <1>1, OfEvent, FdAssumption DEF delEvent, DueWhenTaken, Contexts, TypeOK
<1> QED
  BY <1>2, <1>4, <1>5, <1>6

(* cancelEvent, cancelAll and idle() end registrations the same way.         *)
LEMMA EndedFInv ==
  ASSUME FInv, NEW set \in SUBSET Event, NEW n \in Int,
         epoll_ctl(events \ set), triggerEvent(set),
         m_pendingEventCount' = Less(n),
         fetched' \in [Idler -> SUBSET (Event \cup {"HUP"})], UNCHANGED waits
  PROVE  FInv'
<1> USE DEF FInv
<1>1. (events \ set) \in SUBSET Event /\ events' = events \ set
  BY DEF TypeOK, triggerEvent
<1>2. (InterestCurrent /\ NothingMissed)'
  BY <1>1, CtlMisses
<1>3. m_pendingEventCount' \in 0 .. Wrap - 1
  BY ModWidth DEF Less, TypeOK
<1>4. TypeOK'
  BY <1>1, <1>3, CtlTypes, TriggerAccounts DEF TypeOK
<1> QED
  BY <1>2, <1>4, TriggerAccounts

LEMMA EventSubsets == \A set \in SUBSET Event : Cardinality(set) \in Nat
<1>1. IsFiniteSet({"READ"} \cup {"WRITE"})
  BY FS_Singleton, FS_Union
<1>2. IsFiniteSet(Event)
  BY <1>1 DEF Event
<1> QED
  BY <1>2, FS_Subset, FS_CardinalityType

LEMMA cancelEventFInv ==
  ASSUME FInv, NEW x \in Event, cancelEvent(x)
  PROVE  FInv'
BY EndedFInv DEF cancelEvent, FInv, TypeOK

LEMMA cancelAllFInv ==
  ASSUME FInv, cancelAll
  PROVE  FInv'
<1>1. events \in SUBSET Event /\ events \ events = {}
  BY DEF FInv, TypeOK
<1>2. Cardinality(events) \in Int
  BY <1>1, EventSubsets
<1> QED
  BY <1>1, <1>2, EndedFInv DEF cancelAll, FInv, TypeOK

LEMMA RunFInv ==
  ASSUME FInv, NEW w \in Waiter, Run(w)
  PROVE  FInv'
<1> USE DEF FInv
<1>1. piber[Of(w)] # w /\ due[w] = 1
  BY DEF Run, DueWhenTaken, TypeOK
<1>2. TypeOK'
  BY <1>1 DEF Run, TypeOK, kernelVars
<1>3. \A e \in events : piber[e] # w
  BY <1>1 DEF Contexts, TypeOK
<1>4. Contexts'
  BY <1>3 DEF Run, Contexts, kernelVars, TypeOK
<1>5. DueWhenTaken'
  BY <1>1 DEF Run, DueWhenTaken, TypeOK, kernelVars
<1>6. (InterestCurrent /\ NothingMissed)'
  BY DEF Run, InterestCurrent, NothingMissed, kernelVars
<1> QED
  BY <1>2, <1>4, <1>5, <1>6

LEMMA ConsumeFInv ==
  ASSUME FInv, NEW e \in Event \cup {"HUP"}, Consume(e)
  PROVE  FInv'
<1> USE DEF FInv
<1>1. (TypeOK /\ Contexts /\ DueWhenTaken /\ InterestCurrent)'
  BY DEF Consume, TypeOK, Contexts, DueWhenTaken, InterestCurrent
<1>2. NothingMissed'
  BY DEF Consume, NothingMissed
<1> QED
  BY <1>1, <1>2

LEMMA epoll_waitFInv ==
  ASSUME FInv, NEW l \in Idler, epoll_wait(l)
  PROVE  FInv'
<1> USE DEF FInv
<1>1. (TypeOK /\ Contexts /\ DueWhenTaken /\ InterestCurrent)'
  BY DEF epoll_wait, Reported, TypeOK, Contexts, DueWhenTaken, InterestCurrent
<1>2. fetched'[l] = level \cap (events \cup {"HUP"})
  BY DEF epoll_wait, Reported, InterestCurrent, TypeOK
<1>3. NothingMissed'
  BY <1>2 DEF epoll_wait, NothingMissed
<1> QED
  BY <1>1, <1>3

(* A report that is dropped concerned nothing that is registered.            *)
LEMMA HandleFInv ==
  ASSUME FInv, NEW l \in Idler, Handle(l)
  PROVE  FInv'
<1> USE DEF FInv
<1>1. real_events(l) \in SUBSET Event
  BY DEF real_events, TypeOK
<1>2. fetched' \in [Idler -> SUBSET (Event \cup {"HUP"})]
  BY DEF Handle, TypeOK
<1>3. CASE events \cap real_events(l) = {}
  <2>1. UNCHANGED <<events, piber, m_pendingEventCount, kernelVars, waits, due>>
    BY <1>3 DEF Handle
  <2>2. (TypeOK /\ Contexts /\ DueWhenTaken /\ InterestCurrent)'
    BY <1>2, <2>1 DEF TypeOK, Contexts, DueWhenTaken, InterestCurrent, kernelVars
  <2>3. \A e \in events : {e, "HUP"} \cap fetched[l] = {}
    BY <1>3 DEF real_events, TypeOK, Event
  <2>4. \A k \in Idler : k # l => fetched'[k] = fetched[k]
    BY DEF Handle, TypeOK
  <2>5. NothingMissed'
    BY <2>1, <2>3, <2>4 DEF NothingMissed, kernelVars
  <2> QED
    BY <2>2, <2>5
<1>4. CASE events \cap real_events(l) # {}
  <2>1. Cardinality(real_events(l)) \in Int
    BY <1>1, EventSubsets
  <2> QED
    BY <1>1, <1>2, <1>4, <2>1, EndedFInv DEF Handle
<1> QED
  BY <1>3, <1>4

LEMMA NextFInv == FInv /\ [Next]_vars => FInv'
<1> SUFFICES ASSUME FInv, [Next]_vars PROVE FInv'
  OBVIOUS
<1>1. CASE UNCHANGED vars
  BY <1>1 DEF vars, kernelVars, FInv, TypeOK, Contexts, DueWhenTaken, InterestCurrent, NothingMissed
<1>2. CASE Next
  BY <1>2, ArriveFInv, addEventFInv, RunFInv, delEventFInv, cancelEventFInv, ConsumeFInv,
     cancelAllFInv, epoll_waitFInv, HandleFInv
  DEF Next
<1> QED
  BY <1>1, <1>2

(* What the invariant says of a waiter, as a count.                          *)
LEMMA FInvAccounts == FInv => WaitersAccounted
<1> SUFFICES ASSUME FInv, NEW w \in Waiter
             PROVE  Cardinality({e \in events : piber[e] = w}) + due[w] = IF w \in waits THEN 1 ELSE 0
  BY DEF WaitersAccounted
<1>1. Cardinality({e \in events : piber[e] = w}) = IF Of(w) \in events /\ piber[Of(w)] = w THEN 1 ELSE 0
  BY ContextsOwn, NamedCount DEF FInv, TypeOK
<1>2. piber[Of(w)] = w => Of(w) \in events /\ w \in waits
  BY OfEvent, FdAssumption DEF FInv, Contexts
<1> QED
  BY <1>1, <1>2 DEF FInv, DueWhenTaken

-----------------------------------------------------------------------------
(* The invariant of a descriptor's registrations: contexts, wake-ups and the
   epoll set agree, whatever is added, deleted, cancelled or reported.       *)
THEOREM FdInvariant == Spec => []FInv
BY InitFInv, NextFInv, PTL DEF Spec

(* Every variable keeps its type; the counter wraps and stays a size_t.      *)
THEOREM FdTypeOK == Spec => []TypeOK
<1>1. FInv => TypeOK
  BY DEF FInv
<1> QED
  BY <1>1, FdInvariant, PTL

(* A waiter that waits is registered or triggered, once; one that does not is
   neither: no wake-up is lost or left over.                                 *)
THEOREM FdWaitersAccounted == Spec => []WaitersAccounted
<1>1. FInv => WaitersAccounted
  BY FInvAccounts
<1> QED
  BY <1>1, FdInvariant, PTL

(* What is ready and registered is going to be reported, or is in a report
   that a thread in idle() has yet to work off, though epoll tells once.     *)
THEOREM FdNothingMissed == Spec => []NothingMissed
<1>1. FInv => NothingMissed
  BY DEF FInv
<1> QED
  BY <1>1, FdInvariant, PTL

(* The assertion in addEvent holds: the context it fills is empty.           *)
THEOREM FdAddFindsFree == Spec => AddFindsFree
<1>1. FInv /\ [Next]_vars => [\A w \in Waiter : addEvent(w) => piber[Of(w)] = None]_vars
  BY OfEvent DEF addEvent, FInv, Contexts
<1> QED
  BY <1>1, FdInvariant, PTL DEF Spec, AddFindsFree
=============================================================================
