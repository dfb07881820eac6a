------------------------------- MODULE HookIO -------------------------------
(***************************************************************************)
(* synergy/hook.cc: fibers that call read, write, connect and sleep on one *)
(* socket as if they blocked.  A call that cannot be served puts a timer   *)
(* into the TimerManager, registers with FdEvents, yields, and tries again *)
(* when it is scheduled; the timer's callback, on any thread, marks the    *)
(* call as timed out and cancels its event.  Another fiber may close the   *)
(* socket.                                                                 *)
(*                                                                         *)
(* What a fiber does between two visible effects is one step.  The windows *)
(* that remain are those in which another thread sees something half done: *)
(* a timer without its event, a callback that has looked and not yet       *)
(* marked, or has marked and not yet cancelled, a connect() that has       *)
(* looked for a mark and not yet for SO_ERROR, a socket that is cancelled  *)
(* and not yet closed.                                                     *)
(***************************************************************************)
EXTENDS FdEvents

CONSTANTS
  Connector,   (* the waiters for WRITE that may connect the socket          *)
  MaxLate      (* bound on callbacks under way, of one fiber                 *)

ASSUME HookAssumption ==
  /\ Connector \subseteq Waiter \ Reader
  /\ MaxLate \in Nat \ {0}

VARIABLES
  open,          (* close_f has not been called                              *)
  closing,       (* close() is between cancelAll() and close_f()             *)
  conn,          (* the connection: "none", "progress", "up", "refused"      *)
  userNonblock,  (* FdCtx: the user wants O_NONBLOCK                         *)
  nonblock,      (* O_NONBLOCK in the kernel                                 *)
  call,          (* what each fiber is in: "none", "io", "raw", "connect",
                    "sleep"                                                  *)
  pc,            (* where in it: "try", "held" in the kernel, "add", "wait",
                    "ask"                                                    *)
  timed,         (* calls that have a timeout                                *)
  ticking,       (* calls whose timer is in the TimerManager                 *)
  handed,        (* callbacks of each that were collected and have yet to run*)
  marking,       (* those that have found the call unmarked and will mark it *)
  cancelled,     (* calls whose timer_info is marked                         *)
  late,          (* callbacks that are about to call cancelEvent()           *)
  expired,       (* history: calls a timer of which has expired              *)
  clean,         (* history: connect()s that found nothing left over from
                    earlier calls                                            *)
  outcome        (* what the latest call returned: "none", "ok", "error" or
                    "ETIMEDOUT"                                              *)

socketVars == <<open, closing, conn, userNonblock, nonblock>>
callVars == <<call, pc, timed, outcome, clean>>
timerVars == <<ticking, handed, marking, cancelled, late, expired>>
hookVars == <<vars, socketVars, callVars, timerVars>>

(* The socket is accepted and connected, or new and to be connected.         *)
HookInit ==
  /\ Init
  /\ open = TRUE /\ closing = FALSE
  /\ conn \in {"none", "up"}
  /\ userNonblock = FALSE /\ nonblock = TRUE
  /\ call = [w \in Waiter |-> "none"] /\ pc = [w \in Waiter |-> "try"]
  /\ timed = {} /\ ticking = {} /\ cancelled = {} /\ expired = {} /\ clean = {}
  /\ handed = [w \in Waiter |-> 0] /\ marking = [w \in Waiter |-> 0]
  /\ late = [w \in Waiter |-> 0]
  /\ outcome = [w \in Waiter |-> "none"]

-----------------------------------------------------------------------------
(* Calls, what they have in common                                           *)

(* FdMgr has the descriptor.                                                 *)
known == open /\ ~closing

Ready(w) == {Of(w), "HUP"} \cap level # {}

(* A call finds a timeout for its direction, or none: programs set it for a
   descriptor at any time, the connect timeout for all of them.              *)
setsockopt(w) == timed' \in {timed \cup {w}, timed \ {w}}

(* A call begins, at p, with a timer_info of its own.                        *)
Enter(w, c, p) ==
  /\ call[w] = "none"
  /\ call' = [call EXCEPT ![w] = c] /\ pc' = [pc EXCEPT ![w] = p]
  /\ setsockopt(w)
  /\ outcome' = [outcome EXCEPT ![w] = "none"]

(* Mutant: a callback that was collected finds the next call's timer_info.   *)
ReturnKeepingCallbacks(w, r) ==
  /\ call' = [call EXCEPT ![w] = "none"] /\ pc' = [pc EXCEPT ![w] = "try"]
  /\ outcome' = [outcome EXCEPT ![w] = r]
  /\ ticking' = ticking \ {w} /\ cancelled' = cancelled \ {w}
  /\ timed' = timed \ {w} /\ expired' = expired \ {w} /\ clean' = clean \ {w}
  /\ UNCHANGED <<handed, marking, late>>

(* It returns.  The timer_info goes, and with it every callback that has not
   locked its weak pointer; one that has goes on to cancelEvent(), and its mark
   is on nothing that anybody looks at.                                      *)
Return(w, r) ==
  /\ call' = [call EXCEPT ![w] = "none"] /\ pc' = [pc EXCEPT ![w] = "try"]
  /\ outcome' = [outcome EXCEPT ![w] = r]
  /\ ticking' = ticking \ {w} /\ cancelled' = cancelled \ {w}
  /\ timed' = timed \ {w} /\ expired' = expired \ {w} /\ clean' = clean \ {w}
  /\ handed' = [handed EXCEPT ![w] = 0]
  /\ marking' = [marking EXCEPT ![w] = 0]
  /\ late' = [late EXCEPT ![w] = @ + marking[w]]

addConditionTimer(w) ==
  ticking' = IF w \in timed THEN ticking \cup {w} ELSE ticking

-----------------------------------------------------------------------------
(* do_io                                                                     *)

(* Programs do not read or write before the connection is up.                *)
do_io(w) ==
  /\ conn = "up"
  /\ Enter(w, IF known /\ ~userNonblock THEN "io" ELSE "raw", "try")
  /\ UNCHANGED <<vars, socketVars, timerVars, clean>>

(* The system call, up to the addConditionTimer() that follows EAGAIN.  If the
   kernel's flag is off the thread stays in it.                              *)
Try(w) ==
  /\ call[w] \in {"io", "raw"} /\ pc[w] = "try"
  /\ \/ /\ open /\ Ready(w)
        /\ level' \in {level, level \ {Of(w)}}
        /\ Return(w, "ok")
     \/ /\ ~open \/ (~Ready(w) /\ nonblock /\ call[w] = "raw")
        /\ Return(w, "error")
        /\ UNCHANGED level
     \/ /\ open /\ ~Ready(w) /\ nonblock /\ call[w] = "io"
        /\ addConditionTimer(w)
        /\ pc' = [pc EXCEPT ![w] = "add"]
        /\ UNCHANGED <<level, call, timed, outcome, clean, handed, marking, cancelled, late, expired>>
     \/ /\ open /\ ~Ready(w) /\ ~nonblock
        /\ pc' = [pc EXCEPT ![w] = "held"]
        /\ UNCHANGED <<level, call, timed, outcome, clean, timerVars>>
  /\ UNCHANGED <<events, piber, m_pendingEventCount, interest, armed, fetched, waits, due, socketVars>>

(* What a thread waits for in the kernel happens.                            *)
Held(w) ==
  /\ pc[w] = "held" /\ open
  /\ \/ /\ call[w] # "connect" /\ Ready(w)
        /\ level' \in {level, level \ {Of(w)}}
        /\ Return(w, "ok")
        /\ UNCHANGED conn
     \/ /\ call[w] = "connect" /\ conn # "progress"
        /\ Return(w, IF conn = "up" THEN "ok" ELSE "error")
        /\ conn' = IF conn = "up" THEN "up" ELSE "none"
        /\ UNCHANGED level
  /\ UNCHANGED <<events, piber, m_pendingEventCount, interest, armed, fetched, waits, due,
                 open, closing, userNonblock, nonblock>>

(* Or it does not: the socket's own SO_RCVTIMEO or SO_SNDTIMEO ends the system
   call, with EAGAIN or EINPROGRESS, and the hook goes on from there; or the
   socket was closed and what the call returns is anybody's guess.           *)
KernelGivesUp(w) ==
  /\ pc[w] = "held"
  /\ \/ /\ open
        /\ (call[w] = "io" /\ w \in timed) \/ call[w] = "connect"
        /\ addConditionTimer(w)
        /\ pc' = [pc EXCEPT ![w] = "add"]
        /\ UNCHANGED <<call, timed, outcome, clean, handed, marking, cancelled, late, expired>>
     \/ /\ ~open \/ (call[w] = "raw" /\ w \in timed)
        /\ \E r \in {"ok", "error"} : Return(w, r)
  /\ UNCHANGED <<vars, socketVars>>

(* addEvent() and yield(), of do_io and of connect.  When epoll_ctl refuses, as
   it does a descriptor that is closed, do_io gives up; connect cancels its
   timer and asks for SO_ERROR nevertheless.                                 *)
Register(w) ==
  /\ call[w] \in {"io", "connect"} /\ pc[w] = "add"
  /\ \/ /\ open
        /\ addEvent(w)
        /\ pc' = [pc EXCEPT ![w] = "wait"]
        /\ UNCHANGED <<call, timed, outcome, clean, timerVars>>
     \/ /\ ~open /\ call[w] = "io"
        /\ Return(w, "error")
        /\ UNCHANGED vars
     \/ /\ ~open /\ call[w] = "connect"
        /\ pc' = [pc EXCEPT ![w] = "ask"]
        /\ ticking' = ticking \ {w}
        /\ UNCHANGED <<vars, call, timed, outcome, clean, handed, marking, cancelled, late, expired>>
  /\ UNCHANGED socketVars

(* The fiber continues, cancels its timer, and looks for the mark; do_io tries
   again, connect goes on to ask for SO_ERROR.                               *)
Wake(w) ==
  /\ call[w] \in {"io", "connect"} /\ pc[w] = "wait"
  /\ Run(w)
  /\ \/ /\ w \in cancelled
        /\ Return(w, "ETIMEDOUT")
     \/ /\ w \notin cancelled
        /\ pc' = [pc EXCEPT ![w] = IF call[w] = "io" THEN "try" ELSE "ask"]
        /\ ticking' = ticking \ {w}
        /\ UNCHANGED <<call, timed, outcome, clean, handed, marking, cancelled, late, expired>>
  /\ UNCHANGED socketVars

-----------------------------------------------------------------------------
(* connect_with_timeout, sleep                                               *)

(* connect_f returns at once: it connects or fails then and there, it did so
   before, it is under way by another call, or the user wants no waiting.    *)
ConnectAtOnce(w) ==
  /\ call[w] = "none"
  /\ \/ /\ conn = "none"
        /\ \/ conn' = "up" /\ outcome' = [outcome EXCEPT ![w] = "ok"]
           \/ /\ conn' \in {"none"} \cup (IF userNonblock THEN {"progress"} ELSE {})
              /\ outcome' = [outcome EXCEPT ![w] = "error"]
        /\ level' = IF conn' = "none" THEN level ELSE level \ {"HUP"}
     \/ /\ conn = "progress" /\ nonblock
        /\ outcome' = [outcome EXCEPT ![w] = "error"]
        /\ UNCHANGED <<conn, level>>
     \/ /\ conn = "up"
        /\ \E r \in {"ok", "error"} : outcome' = [outcome EXCEPT ![w] = r]
        /\ UNCHANGED <<conn, level>>
     \/ /\ conn = "refused" /\ conn' = "none"
        /\ outcome' = [outcome EXCEPT ![w] = "error"]
        /\ UNCHANGED level
  /\ UNCHANGED <<call, pc, timed, clean, ticking>>

(* Nothing is left over: no callback that will cancel the event, and no report
   that was fetched and not worked off.                                      *)
NothingLeft(w) == late[w] = 0 /\ \A l \in Idler : fetched[l] = {}

(* It is on its way, and the hook waits, as in do_io; or, with the kernel's flag
   off, the thread does.  A socket may be connected again when that failed.  *)
ConnectInProgress(w) ==
  /\ \/ /\ conn = "none" /\ nonblock /\ ~userNonblock
        /\ Enter(w, "connect", "add")
        /\ ticking' = IF w \in timed' THEN ticking \cup {w} ELSE ticking
     \/ /\ conn \in {"none", "progress"} /\ ~nonblock
        /\ Enter(w, "connect", "held")
        /\ UNCHANGED ticking
  /\ conn' = "progress" /\ level' = level \ {"HUP"}
  /\ clean' = IF NothingLeft(w) THEN clean \cup {w} ELSE clean

connect_with_timeout(w) ==
  /\ known
  /\ ConnectAtOnce(w) \/ ConnectInProgress(w)
  /\ UNCHANGED <<events, piber, m_pendingEventCount, interest, armed, fetched, waits, due,
                 open, closing, userNonblock, nonblock, handed, marking, cancelled, late, expired>>

(* getsockopt(SO_ERROR), which takes the error.                              *)
AskError(w) ==
  /\ pc[w] = "ask"
  /\ Return(w, IF open /\ conn # "refused" THEN "ok" ELSE "error")
  /\ conn' = IF conn = "refused" THEN "none" ELSE conn
  /\ UNCHANGED <<vars, open, closing, userNonblock, nonblock>>

(* sleep, usleep and nanosleep: a timer that schedules the fiber.            *)
sleep(w) ==
  /\ Enter(w, "sleep", "wait")
  /\ ticking' = ticking \cup {w}
  /\ waits' = waits \cup {w}
  /\ UNCHANGED <<events, piber, m_pendingEventCount, kernelVars, fetched, due,
                 socketVars, clean, handed, marking, cancelled, late, expired>>

SleepEnds(w) ==
  /\ call[w] = "sleep"
  /\ Run(w)
  /\ Return(w, "ok")
  /\ UNCHANGED socketVars

-----------------------------------------------------------------------------
(* The timers, as whoever collects them runs them                            *)

(* listExpiredCb() hands out the callback.                                   *)
Expire(w) ==
  /\ w \in ticking
  /\ handed[w] + marking[w] + late[w] < MaxLate
  /\ ticking' = ticking \ {w}
  /\ handed' = [handed EXCEPT ![w] = @ + 1]
  /\ expired' = expired \cup {w}
  /\ UNCHANGED <<vars, socketVars, callVars, marking, cancelled, late>>

(* Mutant: the callback can be run again and again, as if its timer recurred. *)
CallbackAgain(w) ==
  /\ handed[w] > 0
  /\ IF call[w] = "sleep"
     THEN due' = [due EXCEPT ![w] = @ + 1] /\ UNCHANGED marking
     ELSE /\ marking' = IF w \in cancelled THEN marking ELSE [marking EXCEPT ![w] = @ + 1]
          /\ UNCHANGED due
  /\ UNCHANGED <<events, piber, m_pendingEventCount, kernelVars, fetched, waits,
                 socketVars, callVars, ticking, handed, cancelled, late, expired>>

(* The callback, to where it has locked the timer_info and found it unmarked;
   it does nothing for a call that is marked already.  That of sleep()
   schedules the fiber.                                                      *)
Callback(w) ==
  /\ handed[w] > 0
  /\ handed' = [handed EXCEPT ![w] = @ - 1]
  /\ IF call[w] = "sleep"
     THEN due' = [due EXCEPT ![w] = @ + 1] /\ UNCHANGED marking
     ELSE /\ marking' = IF w \in cancelled THEN marking ELSE [marking EXCEPT ![w] = @ + 1]
          /\ UNCHANGED due
  /\ UNCHANGED <<events, piber, m_pendingEventCount, kernelVars, fetched, waits,
                 socketVars, callVars, ticking, cancelled, late, expired>>

(* Mutant: it cancels the event and marks nothing.                           *)
MarkNothing(w) ==
  /\ marking[w] > 0
  /\ marking' = [marking EXCEPT ![w] = @ - 1]
  /\ late' = [late EXCEPT ![w] = @ + 1]
  /\ UNCHANGED <<vars, socketVars, callVars, ticking, handed, cancelled, expired>>

(* It marks the call.                                                        *)
Mark(w) ==
  /\ marking[w] > 0
  /\ marking' = [marking EXCEPT ![w] = @ - 1]
  /\ cancelled' = cancelled \cup {w}
  /\ late' = [late EXCEPT ![w] = @ + 1]
  /\ UNCHANGED <<vars, socketVars, callVars, ticking, handed, expired>>

(* Mutant: the callback marks the call and does not wake it.                 *)
LateSilent(w) ==
  /\ late[w] > 0
  /\ late' = [late EXCEPT ![w] = @ - 1]
  /\ UNCHANGED <<vars, socketVars, callVars, ticking, handed, marking, cancelled, expired>>

(* Mutant: the callback schedules the fiber itself.                          *)
LateScheduling(w) ==
  /\ late[w] > 0
  /\ late' = [late EXCEPT ![w] = @ - 1]
  /\ due' = [due EXCEPT ![w] = @ + 1]
  /\ UNCHANGED <<events, piber, m_pendingEventCount, kernelVars, fetched, waits,
                 socketVars, callVars, ticking, handed, marking, cancelled, expired>>

(* Its cancelEvent(), on whatever is registered by now.                      *)
Late(w) ==
  /\ late[w] > 0
  /\ late' = [late EXCEPT ![w] = @ - 1]
  /\ IF open /\ Of(w) \in events THEN cancelEvent(Of(w)) ELSE UNCHANGED vars
  /\ UNCHANGED <<socketVars, callVars, ticking, handed, marking, cancelled, expired>>

-----------------------------------------------------------------------------
(* close, fcntl, ioctl, and the rest of the world                            *)

(* close() by some other fiber: cancelAll() and FdMgr's entry ...            *)
close ==
  /\ known
  /\ closing' = TRUE
  /\ IF events # {} THEN cancelAll ELSE UNCHANGED vars
  /\ UNCHANGED <<open, conn, userNonblock, nonblock, callVars, timerVars>>

(* ... and close_f: the socket is gone, epoll forgets it, and so did FdMgr.   *)
close_f ==
  /\ closing
  /\ closing' = FALSE /\ open' = FALSE
  /\ interest' = {} /\ armed' = FALSE /\ level' = {}
  /\ conn' = "none" /\ userNonblock' = FALSE /\ nonblock' = TRUE
  /\ UNCHANGED <<events, piber, m_pendingEventCount, fetched, waits, due, callVars, timerVars>>

(* F_SETFL: the user's flag is noted, the kernel's stays on.                 *)
fcntl(b) ==
  /\ known
  /\ userNonblock' = b /\ nonblock' = TRUE
  /\ UNCHANGED <<vars, open, closing, conn, callVars, timerVars>>

(* FIONBIO: the user's flag is noted and the kernel's set likewise.          *)
ioctl(b) ==
  /\ known
  /\ userNonblock' = b /\ nonblock' = b
  /\ UNCHANGED <<vars, open, closing, conn, callVars, timerVars>>

(* The connection is made or refused, or data, room or a hang-up arrive.     *)
Network ==
  /\ open
  /\ \/ /\ conn = "progress" /\ conn' = "up" /\ Arrive("WRITE")
     \/ /\ conn = "progress" /\ conn' = "refused" /\ Arrive("HUP")
     \/ /\ conn = "up" /\ \E e \in Event \cup {"HUP"} : Arrive(e)
        /\ UNCHANGED conn
  /\ UNCHANGED <<open, closing, userNonblock, nonblock, callVars, timerVars>>

(* A report that is worked off after close_f is dropped: its context is empty,
   or epoll_ctl fails.                                                       *)
IdleHandles(l) ==
  /\ IF open
     THEN Handle(l)
     ELSE /\ fetched[l] # {}
          /\ fetched' = [fetched EXCEPT ![l] = {}]
          /\ UNCHANGED <<events, piber, m_pendingEventCount, kernelVars, waits, due>>
  /\ UNCHANGED <<socketVars, callVars, timerVars>>

IdleWaits(l) == epoll_wait(l) /\ UNCHANGED <<socketVars, callVars, timerVars>>

FiberStep(w) == Try(w) \/ Held(w) \/ Register(w) \/ Wake(w) \/ AskError(w) \/ SleepEnds(w)

TimerStep(w) == Expire(w) \/ Callback(w) \/ Mark(w) \/ Late(w)

IdleStep(l) == IdleWaits(l) \/ IdleHandles(l)

HookNext ==
  \/ \E w \in Waiter : do_io(w) \/ sleep(w) \/ FiberStep(w) \/ KernelGivesUp(w)
  \/ \E w \in Connector : connect_with_timeout(w)
  \/ \E w \in Waiter : TimerStep(w)
  \/ close \/ close_f
  \/ \E b \in BOOLEAN : fcntl(b) \/ ioctl(b)
  \/ Network
  \/ \E l \in Idler : IdleStep(l)

(* Scheduled fibers run, system calls that can return do, expired timers are
   collected and their callbacks run, and threads are in idle().             *)
HookFairness ==
  /\ \A w \in Waiter : WF_hookVars(FiberStep(w)) /\ WF_hookVars(TimerStep(w))
  /\ WF_hookVars(close_f)
  /\ \A l \in Idler : WF_hookVars(IdleStep(l))

HookSpec == HookInit /\ [][HookNext]_hookVars /\ HookFairness

-----------------------------------------------------------------------------
HookTypeOK ==
  /\ TypeOK
  /\ open \in BOOLEAN /\ closing \in BOOLEAN
  /\ conn \in {"none", "progress", "up", "refused"}
  /\ userNonblock \in BOOLEAN /\ nonblock \in BOOLEAN
  /\ call \in [Waiter -> {"none", "io", "raw", "connect", "sleep"}]
  /\ pc \in [Waiter -> {"try", "held", "add", "wait", "ask"}]
  /\ timed \subseteq Waiter /\ ticking \subseteq Waiter /\ clean \subseteq Waiter
  /\ cancelled \subseteq Waiter /\ expired \subseteq Waiter
  /\ {handed, marking, late} \subseteq [Waiter -> 0 .. MaxLate]
  /\ outcome \in [Waiter -> {"none", "ok", "error", "ETIMEDOUT"}]

Registered(w) == Cardinality({e \in events : piber[e] = w})

(* What sleep() has under way to wake its fiber.                             *)
SleepTimers(w) ==
  IF call[w] = "sleep" THEN handed[w] + (IF w \in ticking THEN 1 ELSE 0) ELSE 0

(* A fiber that has yielded inside a call is registered, or has its sleep's
   timer, or is scheduled: one of them, once.  A fiber that is on its way, or
   in no call, is none of these, so that nothing left over from one wait wakes
   the next one.                                                             *)
FibersAccounted ==
  \A w \in Waiter :
    Registered(w) + SleepTimers(w) + due[w] = IF pc[w] = "wait" THEN 1 ELSE 0

(* A connect() that found nothing left over from earlier calls returns 0 only
   on a connected socket, however often and by whom its fiber was scheduled,
   unless the socket is being closed.  One that follows a connect() which
   failed may find that call's cancelEvent() or report, and return 0 while it
   is in progress.                                                           *)
ConnectTrue ==
  [][\A w \in Connector :
       w \in clean /\ call'[w] = "none" /\ outcome'[w] = "ok"
         => conn = "up" \/ closing \/ ~open]_hookVars

(* A call times out only if a timer of that very call has expired, and sleep()
   does not end before.                                                      *)
TimeoutHonest ==
  [][\A w \in Waiter :
       /\ call[w] # "none" /\ call'[w] = "none"
       /\ outcome'[w] = "ETIMEDOUT" \/ call[w] = "sleep"
       => w \in expired]_hookVars

(* A call whose timer expires while it waits returns, and so does a sleep.   *)
TimeoutEndsCall ==
  \A w \in Waiter :
    /\ pc[w] = "wait" /\ w \in cancelled /\ late[w] > 0 ~> call[w] = "none" \/ ~known
    /\ call[w] = "sleep" ~> call[w] = "none"

(* A call that can be served returns, with or without a timeout and whether it
   waits in the hook or, after FIONBIO with 0, in the kernel: what arrives
   between the system call and addEvent() is not missed.                     *)
ReadyCallReturns ==
  \A w \in Waiter :
    call[w] \in {"io", "raw", "connect"} /\ Ready(w) ~> call[w] = "none" \/ ~known

(* "tcp connect timeout" (hook.cc:12): a connect() that has started its timer
   gives up after it.  False: the timer may expire before addEvent() has been
   called.                                                                   *)
ConnectTimesOut ==
  \A w \in Connector :
    call[w] = "connect" /\ pc[w] = "add" /\ w \in ticking ~> call[w] # "connect" \/ ~known
=============================================================================
