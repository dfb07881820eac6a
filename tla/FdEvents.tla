------------------------------ MODULE FdEvents ------------------------------
(***************************************************************************)
(* One file descriptor of synergy/iomanager.cc: its FdContext, its entry   *)
(* in the epoll set, the users that register for its events and cancel     *)
(* them, and the threads that are in IOManager::idle.                      *)
(*                                                                         *)
(* Every function holds the context's mutex from its first look at events  *)
(* to its end and is one step.  idle() is two: epoll_wait returns a copy   *)
(* of what is ready, and the copy is worked off later, under the mutex,    *)
(* when the registrations may have changed.  idle() is modelled as it      *)
(* reads, as if Scheduler::idle, which it hides, were virtual.             *)
(***************************************************************************)
EXTENDS Integers, FiniteSets

CONSTANTS
  Waiter,   (* fibers or callbacks that wait for an event                    *)
  Reader,   (* those that wait for READ; the others wait for WRITE           *)
  Idler,    (* threads in idle()                                             *)
  None,
  Wrap      (* 2^w for the counter, a size_t                                 *)

ASSUME FdAssumption ==
  /\ Reader \subseteq Waiter /\ None \notin Waiter
  /\ Wrap \in Nat /\ Wrap > 2

Event == {"READ", "WRITE"}

VARIABLES
  events,              (* FdContext::events                                  *)
  piber,               (* EventContext::piber or cb, of each event           *)
  m_pendingEventCount,
  interest,            (* what epoll watches; {} when the fd is not in it    *)
  armed,               (* the fd is on epoll's list of ready descriptors     *)
  level,               (* what the fd is ready for, and "HUP"                *)
  fetched,             (* what epoll_wait told an idler, "HUP" among it      *)
  waits,               (* the waiters that expect to be triggered            *)
  due                  (* history: triggered and not run yet, how often      *)

kernelVars == <<interest, armed, level>>
vars == <<events, piber, m_pendingEventCount, kernelVars, fetched, waits, due>>

Init ==
  /\ events = {}
  /\ piber = [e \in Event |-> None]
  /\ m_pendingEventCount = 0
  /\ interest = {} /\ armed = FALSE /\ level = {}
  /\ fetched = [l \in Idler |-> {}]
  /\ waits = {}
  /\ due = [w \in Waiter |-> 0]

-----------------------------------------------------------------------------
(* epoll, with EPOLLET                                                       *)

Reported(set) == level \cap (set \cup {"HUP"})

(* EPOLL_CTL_ADD and EPOLL_CTL_MOD report at once what is ready already;
   EPOLL_CTL_DEL, for an empty set, forgets the descriptor.                  *)
epoll_ctl(set) ==
  /\ interest' = set
  /\ armed' = (set # {} /\ Reported(set) # {})
  /\ UNCHANGED level

(* Data or room arrives, or the peer hangs up.                               *)
Arrive(e) ==
  /\ level' = level \cup {e}
  /\ armed' = (armed \/ (interest # {} /\ e \in interest \cup {"HUP"}))
  /\ UNCHANGED <<events, piber, m_pendingEventCount, interest, fetched, waits, due>>

-----------------------------------------------------------------------------
(* FdContext                                                                 *)

Of(w) == IF w \in Reader THEN "READ" ELSE "WRITE"

(* Mutant: the counter never goes down.                                      *)
LessNothing(n) == m_pendingEventCount

(* Mutant: the counter is signed.                                            *)
LessSigned(n) == m_pendingEventCount - n

Less(n) == (m_pendingEventCount - n) % Wrap

(* triggerEvent of each event of a set: the waiter is scheduled, the event and
   its context are cleared; a context that is empty has nobody to schedule.  *)
triggerEvent(set) ==
  /\ events' = events \ set
  /\ piber' = [e \in Event |-> IF e \in set THEN None ELSE piber[e]]
  /\ due' = [w \in Waiter |-> due[w] + Cardinality({e \in set : piber[e] = w})]

(* Mutant: epoll is told of the new event only.                              *)
addEventAlone(w) ==
  /\ w \notin waits /\ Of(w) \notin events
  /\ epoll_ctl({Of(w)})
  /\ m_pendingEventCount' = (m_pendingEventCount + 1) % Wrap
  /\ events' = events \cup {Of(w)}
  /\ piber' = [piber EXCEPT ![Of(w)] = w]
  /\ waits' = waits \cup {w}
  /\ UNCHANGED <<fetched, due>>

(* addEvent, which may be called once for an event of a descriptor.          *)
addEvent(w) ==
  /\ w \notin waits /\ Of(w) \notin events
  /\ epoll_ctl(events \cup {Of(w)})
  /\ m_pendingEventCount' = (m_pendingEventCount + 1) % Wrap
  /\ events' = events \cup {Of(w)}
  /\ piber' = [piber EXCEPT ![Of(w)] = w]
  /\ waits' = waits \cup {w}
  /\ UNCHANGED <<fetched, due>>

(* Mutant: resetEventContext is left out.                                    *)
delEventKeeping(e) ==
  /\ e \in events
  /\ epoll_ctl(events \ {e})
  /\ m_pendingEventCount' = Less(1)
  /\ events' = events \ {e}
  /\ waits' = waits \ {piber[e]}
  /\ UNCHANGED <<piber, fetched, due>>

(* delEvent: whoever calls it knows that the waiter waits no longer.         *)
delEvent(e) ==
  /\ e \in events
  /\ epoll_ctl(events \ {e})
  /\ m_pendingEventCount' = Less(1)
  /\ events' = events \ {e}
  /\ piber' = [piber EXCEPT ![e] = None]
  /\ waits' = waits \ {piber[e]}
  /\ UNCHANGED <<fetched, due>>

(* Mutant: cancelEvent clears the registration and triggers nothing.         *)
cancelEventSilently(e) ==
  /\ e \in events
  /\ epoll_ctl(events \ {e})
  /\ events' = events \ {e}
  /\ piber' = [piber EXCEPT ![e] = None]
  /\ m_pendingEventCount' = Less(1)
  /\ UNCHANGED <<fetched, waits, due>>

cancelEvent(e) ==
  /\ e \in events
  /\ epoll_ctl(events \ {e})
  /\ triggerEvent({e})
  /\ m_pendingEventCount' = Less(1)
  /\ UNCHANGED <<fetched, waits>>

cancelAll ==
  /\ events # {}
  /\ epoll_ctl({})
  /\ triggerEvent(events)
  /\ m_pendingEventCount' = Less(Cardinality(events))
  /\ UNCHANGED <<fetched, waits>>

(* The waiter runs: as a fiber that tries its system call again, or as a
   callback.                                                                 *)
Run(w) ==
  /\ w \in waits /\ due[w] > 0
  /\ due' = [due EXCEPT ![w] = @ - 1]
  /\ waits' = waits \ {w}
  /\ UNCHANGED <<events, piber, m_pendingEventCount, kernelVars, fetched>>

(* Somebody takes all the data there is, or fills all the room, or connects
   the socket anew and ends its hang-up.                                     *)
Consume(e) ==
  /\ e \in level
  /\ level' = level \ {e}
  /\ UNCHANGED <<events, piber, m_pendingEventCount, interest, armed, fetched, waits, due>>

-----------------------------------------------------------------------------
(* IOManager::idle                                                           *)

epoll_wait(l) ==
  /\ fetched[l] = {}
  /\ armed /\ Reported(interest) # {}
  /\ fetched' = [fetched EXCEPT ![l] = Reported(interest)]
  /\ armed' = FALSE
  /\ UNCHANGED <<events, piber, m_pendingEventCount, interest, level, waits, due>>

(* Mutant: an error or a hang-up stands for itself.                          *)
real_eventsPlain(l) == fetched[l] \ {"HUP"}

(* An error or a hang-up stands for every event that is registered.          *)
real_events(l) ==
  (fetched[l] \ {"HUP"}) \cup (IF "HUP" \in fetched[l] THEN events ELSE {})

(* Mutant: the descriptor is always deleted from epoll.                      *)
HandleDeleting(l) ==
  /\ fetched[l] # {}
  /\ fetched' = [fetched EXCEPT ![l] = {}]
  /\ LET real == real_events(l)
     IN  IF events \cap real = {}
         THEN UNCHANGED <<events, piber, m_pendingEventCount, kernelVars, due>>
         ELSE /\ epoll_ctl({})
              /\ triggerEvent(real)
              /\ m_pendingEventCount' = Less(Cardinality(real))
  /\ UNCHANGED waits

(* One round of the loop over what epoll_wait returned: every bit of
   real_events is triggered and counted, registered or not.                  *)
Handle(l) ==
  /\ fetched[l] # {}
  /\ fetched' = [fetched EXCEPT ![l] = {}]
  /\ LET real == real_events(l)
     IN  IF events \cap real = {}
         THEN UNCHANGED <<events, piber, m_pendingEventCount, kernelVars, due>>
         ELSE /\ epoll_ctl(events \ real)
              /\ triggerEvent(real)
              /\ m_pendingEventCount' = Less(Cardinality(real))
  /\ UNCHANGED waits

Next ==
  \/ \E e \in Event \cup {"HUP"} : Arrive(e) \/ Consume(e)
  \/ \E w \in Waiter : addEvent(w) \/ Run(w)
  \/ \E e \in Event : delEvent(e) \/ cancelEvent(e)
  \/ cancelAll
  \/ \E l \in Idler : epoll_wait(l) \/ Handle(l)

(* A thread in idle() is not left there: epoll_wait returns what is ready and
   the loop over it ends.                                                    *)
Spec == Init /\ [][Next]_vars /\ \A l \in Idler : WF_vars(epoll_wait(l)) /\ WF_vars(Handle(l))

-----------------------------------------------------------------------------
TypeOK ==
  /\ events \subseteq Event
  /\ piber \in [Event -> Waiter \cup {None}]
  /\ m_pendingEventCount \in 0 .. Wrap - 1
  /\ interest \subseteq Event
  /\ armed \in BOOLEAN
  /\ level \subseteq Event \cup {"HUP"}
  /\ fetched \in [Idler -> SUBSET (Event \cup {"HUP"})]
  /\ waits \subseteq Waiter
  /\ due \in [Waiter -> Nat]

(* A waiter is registered or triggered, once, as long as it waits, and neither
   afterwards: no wake-up is lost, and none is left over for its next wait.  *)
WaitersAccounted ==
  \A w \in Waiter :
    Cardinality({e \in events : piber[e] = w}) + due[w] = IF w \in waits THEN 1 ELSE 0

(* What the fd is ready for and somebody is registered for is going to be
   noticed: epoll has yet to report it, or a thread in idle() holds the report.
   With EPOLLET nobody is told a second time.                                *)
NothingMissed ==
  \A e \in events :
    {e, "HUP"} \cap level # {}
      => armed \/ \E l \in Idler : {e, "HUP"} \cap fetched[l] # {}

(* The assertion in addEvent: the context it fills is empty.                 *)
AddFindsFree == [][\A w \in Waiter : addEvent(w) => piber[Of(w)] = None]_vars

(* An event that is ready is triggered, unless it is taken back.             *)
ReadyIsServed ==
  \A e \in Event : e \in events /\ e \in level ~> e \notin events \/ e \notin level

(* What the comment in stopping() says: a manager whose counter is zero waits
   for nothing.  False: idle() counts events that are reported and no longer
   registered.                                                               *)
StopWaitsForEvents == m_pendingEventCount = 0 => events = {}
=============================================================================
