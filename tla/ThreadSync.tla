----------------------------- MODULE ThreadSync -----------------------------
(***************************************************************************)
(* The pool of threads of a scheduler without a caller thread:             *)
(* common/thread.cc with its semaphore, and start() and stop() of          *)
(* Scheduler.cc, which any number of callers may call at any time.         *)
(*                                                                         *)
(* start() keeps m_mutex while each Thread it makes waits for its thread's *)
(* notify(); that thread needs m_mutex for everything run() does.  stop()  *)
(* sets m_stopping without m_mutex, takes the vector out under it, and     *)
(* joins outside.  Module Scheduler has start() as one step and joins      *)
(* every worker; this module shows what that rests on.                     *)
(***************************************************************************)
EXTENDS Naturals, Sequences, FiniteSets

CONSTANTS
  Caller,         (* threads outside of the pool that call start() and stop() *)
  Thread,         (* bound: the threads pthread_create can make               *)
  m_threadCount,
  None

Slot == 1 .. m_threadCount

ASSUME ThreadSyncAssumption ==
  /\ m_threadCount \in Nat \ {0}
  /\ None \notin Thread \cup Caller
  /\ Thread \cap Caller = {}
  /\ IsFiniteSet(Thread) /\ IsFiniteSet(Caller)

VARIABLES
  m_mutex,       (* who holds it                                             *)
  m_stopping,
  m_threads,     (* <<>>, or a Thread or nullptr for every slot              *)
  m_threadIds,   (* as a set; None stands for the initial -1 of m_id         *)
  object,        (* a Thread object: "none", "alive", "gone"                 *)
  m_id,          (* whether it has been set                                  *)
  m_semaphore,
  pthread,       (* a thread is "none", "joinable", "joined", "detached"     *)
  at,            (* where its code is: "unborn", "created", "named",
                    "running" (in cb), "inside" (with m_mutex), "ended"      *)
  pc,            (* where a caller is: "out", "create", "wait", "set",
                    "swap", "join", "crashed"                                *)
  i,             (* its position in the loop                                 *)
  made,          (* the Thread whose constructor it is in                    *)
  thrs,          (* stop(): the vector it took out                           *)
  failed         (* history: pthread_create has failed                       *)

poolVars == <<m_mutex, m_stopping, m_threads, m_threadIds>>
threadVars == <<object, m_id, m_semaphore, pthread, at>>
callerVars == <<pc, i, made, thrs>>
vars == <<poolVars, threadVars, callerVars, failed>>

(* Mutant: the semaphore begins with one.                                     *)
InitPosted ==
  /\ m_mutex = None /\ m_stopping = FALSE /\ m_threads = <<>> /\ m_threadIds = {}
  /\ object = [t \in Thread |-> "none"] /\ m_id = [t \in Thread |-> FALSE]
  /\ m_semaphore = [t \in Thread |-> 1]
  /\ pthread = [t \in Thread |-> "none"] /\ at = [t \in Thread |-> "unborn"]
  /\ pc = [c \in Caller |-> "out"] /\ i = [c \in Caller |-> 1]
  /\ made = [c \in Caller |-> None] /\ thrs = [c \in Caller |-> <<>>]
  /\ failed = FALSE

Init ==
  /\ m_mutex = None /\ m_stopping = FALSE /\ m_threads = <<>> /\ m_threadIds = {}
  /\ object = [t \in Thread |-> "none"] /\ m_id = [t \in Thread |-> FALSE]
  /\ m_semaphore = [t \in Thread |-> 0]
  /\ pthread = [t \in Thread |-> "none"] /\ at = [t \in Thread |-> "unborn"]
  /\ pc = [c \in Caller |-> "out"] /\ i = [c \in Caller |-> 1]
  /\ made = [c \in Caller |-> None] /\ thrs = [c \in Caller |-> <<>>]
  /\ failed = FALSE

Go(c, p) == pc' = [pc EXCEPT ![c] = p]

-----------------------------------------------------------------------------
(* start()                                                                   *)

(* Mutant: nobody looks at m_stopping.                                       *)
startAnyway(c) ==
  /\ pc[c] = "out" /\ m_mutex = None
  /\ m_mutex' = c
  /\ m_threads' = IF m_threads = <<>> THEN [s \in Slot |-> None] ELSE m_threads
  /\ i' = [i EXCEPT ![c] = 1]
  /\ Go(c, "create")
  /\ UNCHANGED <<m_stopping, m_threadIds, threadVars, made, thrs, failed>>

(* Mutant: the lock covers no more than the look at m_stopping.              *)
startUnlocked(c) ==
  /\ pc[c] = "out" /\ m_mutex = None
  /\ ~m_stopping
  /\ m_threads' = IF m_threads = <<>> THEN [s \in Slot |-> None] ELSE m_threads
  /\ i' = [i EXCEPT ![c] = 1]
  /\ Go(c, "create")
  /\ UNCHANGED <<m_mutex, m_stopping, m_threadIds, threadVars, made, thrs, failed>>

(* Up to the loop; it returns at once where the scheduler is stopping.       *)
start(c) ==
  /\ pc[c] = "out" /\ m_mutex = None
  /\ ~m_stopping
  /\ m_mutex' = c
  /\ m_threads' = IF m_threads = <<>> THEN [s \in Slot |-> None] ELSE m_threads
  /\ i' = [i EXCEPT ![c] = 1]
  /\ Go(c, "create")
  /\ UNCHANGED <<m_stopping, m_threadIds, threadVars, made, thrs, failed>>

(* Mutant: on failure it tries again, with the mutex.                         *)
pthread_createRetrying(c) ==
  /\ pc[c] = "create"
  /\ \/ \E t \in Thread :
          /\ at[t] = "unborn"
          /\ at' = [at EXCEPT ![t] = "created"]
          /\ object' = [object EXCEPT ![t] = "alive"]
          /\ pthread' = [pthread EXCEPT ![t] = "joinable"]
          /\ made' = [made EXCEPT ![c] = t]
          /\ Go(c, "wait")
          /\ UNCHANGED <<m_mutex, failed>>
     \/ /\ failed' = TRUE
        /\ UNCHANGED <<m_mutex, pc, at, object, pthread, made>>
  /\ UNCHANGED <<m_stopping, m_threads, m_threadIds, m_id, m_semaphore, i, thrs>>

(* Thread::Thread: a new thread; or none, and the exception leaves start().  *)
pthread_create(c) ==
  /\ pc[c] = "create"
  /\ \/ \E t \in Thread :
          /\ at[t] = "unborn"
          /\ at' = [at EXCEPT ![t] = "created"]
          /\ object' = [object EXCEPT ![t] = "alive"]
          /\ pthread' = [pthread EXCEPT ![t] = "joinable"]
          /\ made' = [made EXCEPT ![c] = t]
          /\ Go(c, "wait")
          /\ UNCHANGED <<m_mutex, failed>>
     \/ /\ m_mutex' = None
        /\ failed' = TRUE
        /\ Go(c, "out")
        /\ UNCHANGED <<at, object, pthread, made>>
  /\ UNCHANGED <<m_stopping, m_threads, m_threadIds, m_id, m_semaphore, i, thrs>>

(* Thread::~Thread, of those Threads in ts that are.                         *)
Destroy(ts) ==
  /\ object' = [t \in Thread |-> IF t \in ts THEN "gone" ELSE object[t]]
  /\ pthread' = [t \in Thread |->
       IF t \in ts /\ pthread[t] = "joinable" THEN "detached" ELSE pthread[t]]

(* The constructor returns, m_threads[i] is reset, its id is noted.          *)
Store(c, t) ==
  /\ m_threads' = [m_threads EXCEPT ![i[c]] = t]
  /\ Destroy({m_threads[i[c]]})
  /\ m_threadIds' = m_threadIds \cup {IF m_id[t] THEN t ELSE None}
  /\ made' = [made EXCEPT ![c] = None]
  /\ i' = [i EXCEPT ![c] = @ + 1]
  /\ IF i[c] = m_threadCount
     THEN Go(c, "out") /\ m_mutex' = None
     ELSE Go(c, "create") /\ UNCHANGED m_mutex

(* Mutant: the constructor does not wait.                                    *)
waitNot(c) ==
  /\ pc[c] = "wait"
  /\ Store(c, made[c])
  /\ UNCHANGED <<m_stopping, m_id, m_semaphore, at, thrs, failed>>

(* The end of the constructor, and of the loop's body.                       *)
wait(c) ==
  /\ pc[c] = "wait"
  /\ m_semaphore[made[c]] > 0
  /\ m_semaphore' = [m_semaphore EXCEPT ![made[c]] = @ - 1]
  /\ Store(c, made[c])
  /\ UNCHANGED <<m_stopping, m_id, at, thrs, failed>>

-----------------------------------------------------------------------------
(* The threads                                                               *)

(* Thread::run, up to its callback ...                                       *)
run(t) ==
  /\ at[t] = "created"
  /\ m_id' = [m_id EXCEPT ![t] = TRUE]
  /\ at' = [at EXCEPT ![t] = "named"]
  /\ UNCHANGED <<poolVars, object, m_semaphore, pthread, callerVars, failed>>

(* ... and, with the callback in a local, on to cb().                        *)
notify(t) ==
  /\ at[t] = "named"
  /\ m_semaphore' = [m_semaphore EXCEPT ![t] = @ + 1]
  /\ at' = [at EXCEPT ![t] = "running"]
  /\ UNCHANGED <<poolVars, object, m_id, pthread, callerVars, failed>>

(* cb() is Scheduler::run: it takes m_mutex again and again, and may end once
   m_stopping is set.                                                        *)
Lock(t) ==
  /\ at[t] = "running" /\ m_mutex = None
  /\ m_mutex' = t
  /\ at' = [at EXCEPT ![t] = "inside"]
  /\ UNCHANGED <<m_stopping, m_threads, m_threadIds, object, m_id, m_semaphore, pthread,
                 callerVars, failed>>

Unlock(t, next) ==
  /\ at[t] = "inside"
  /\ m_mutex' = None
  /\ at' = [at EXCEPT ![t] = next]
  /\ UNCHANGED <<m_stopping, m_threads, m_threadIds, object, m_id, m_semaphore, pthread,
                 callerVars, failed>>

End(t) == m_stopping /\ Unlock(t, "ended")

-----------------------------------------------------------------------------
(* stop()                                                                    *)

(* stopping() is false; where it is true, stop() returns at once.            *)
stop(c) ==
  /\ pc[c] = "out" /\ m_mutex = None
  /\ Go(c, "set")
  /\ UNCHANGED <<poolVars, threadVars, i, made, thrs, failed>>

(* Mutant: the flag is forgotten.                                            *)
StopSetsNothing(c) ==
  /\ pc[c] = "set"
  /\ Go(c, "swap")
  /\ UNCHANGED <<poolVars, threadVars, i, made, thrs, failed>>

StopSets(c) ==
  /\ pc[c] = "set"
  /\ m_stopping' = TRUE
  /\ Go(c, "swap")
  /\ UNCHANGED <<m_mutex, m_threads, m_threadIds, threadVars, i, made, thrs, failed>>

(* Mutant: the vector is copied.                                             *)
SwapCopying(c) ==
  /\ pc[c] = "swap" /\ m_mutex = None
  /\ thrs' = [thrs EXCEPT ![c] = m_threads]
  /\ i' = [i EXCEPT ![c] = 1]
  /\ Go(c, "join")
  /\ UNCHANGED <<poolVars, threadVars, made, failed>>

Swap(c) ==
  /\ pc[c] = "swap" /\ m_mutex = None
  /\ thrs' = [thrs EXCEPT ![c] = m_threads]
  /\ m_threads' = <<>>
  /\ i' = [i EXCEPT ![c] = 1]
  /\ Go(c, "join")
  /\ UNCHANGED <<m_mutex, m_stopping, m_threadIds, threadVars, made, failed>>

(* Thread::join; on the nullptr that a failed start() left it is fatal.      *)
join(c) ==
  /\ pc[c] = "join" /\ i[c] <= Len(thrs[c])
  /\ LET t == thrs[c][i[c]] IN
       IF t = None
       THEN Go(c, "crashed") /\ UNCHANGED <<i, pthread>>
       ELSE /\ at[t] = "ended"
            /\ pthread' = [pthread EXCEPT ![t] = "joined"]
            /\ i' = [i EXCEPT ![c] = @ + 1]
            /\ UNCHANGED pc
  /\ UNCHANGED <<poolVars, object, m_id, m_semaphore, at, made, thrs, failed>>

(* The vector goes out of scope.                                             *)
StopEnds(c) ==
  /\ pc[c] = "join" /\ i[c] > Len(thrs[c])
  /\ Destroy({thrs[c][s] : s \in DOMAIN thrs[c]})
  /\ thrs' = [thrs EXCEPT ![c] = <<>>]
  /\ Go(c, "out")
  /\ UNCHANGED <<poolVars, m_id, m_semaphore, at, i, made, failed>>

crashed == \E c \in Caller : pc[c] = "crashed"

InStart(c) == pthread_create(c) \/ wait(c)
InStop(c) == StopSets(c) \/ join(c) \/ StopEnds(c)
Step(t) == run(t) \/ notify(t) \/ Unlock(t, "running")

Next ==
  \/ /\ ~crashed
     /\ \/ \E c \in Caller : start(c) \/ InStart(c) \/ stop(c) \/ InStop(c) \/ Swap(c)
        \/ \E t \in Thread : Step(t) \/ Lock(t) \/ End(t)
  \/ crashed /\ UNCHANGED vars

(* Threads and callers run and nobody waits for ever for m_mutex; run() ends
   after stop() has asked it to, as Scheduler!StopReturns shows.             *)
Fairness ==
  /\ \A c \in Caller : WF_vars(~crashed /\ (InStart(c) \/ InStop(c))) /\ SF_vars(~crashed /\ Swap(c))
  /\ \A t \in Thread : /\ WF_vars(~crashed /\ Step(t))
                       /\ SF_vars(~crashed /\ Lock(t)) /\ SF_vars(~crashed /\ End(t))

Spec == Init /\ [][Next]_vars /\ Fairness

-----------------------------------------------------------------------------
TypeOK ==
  /\ m_mutex \in Caller \cup Thread \cup {None} /\ m_stopping \in BOOLEAN
  /\ m_threads \in {<<>>} \cup [Slot -> Thread \cup {None}]
  /\ m_threadIds \subseteq Thread \cup {None}
  /\ object \in [Thread -> {"none", "alive", "gone"}]
  /\ m_id \in [Thread -> BOOLEAN] /\ m_semaphore \in [Thread -> 0 .. 1]
  /\ pthread \in [Thread -> {"none", "joinable", "joined", "detached"}]
  /\ at \in [Thread -> {"unborn", "created", "named", "running", "inside", "ended"}]
  /\ pc \in [Caller -> {"out", "create", "wait", "set", "swap", "join", "crashed"}]
  /\ i \in [Caller -> 1 .. m_threadCount + 1]
  /\ made \in [Caller -> Thread \cup {None}]
  /\ thrs \in [Caller -> {<<>>} \cup [Slot -> Thread \cup {None}]]
  /\ failed \in BOOLEAN

(* A thread that still works on its Thread object, up to notify(), finds it
   alive: whoever may destroy the object has waited.  A second start() does
   destroy the objects of the first one's threads, while they run.           *)
ObjectOutlivesUse == \A t \in Thread : at[t] \in {"created", "named"} => object[t] = "alive"

(* getId() of a Thread that has been constructed is the thread's id.         *)
IdsKnown == None \notin m_threadIds

(* While start() is under way no thread it has made gets at the scheduler's
   tasks: to the pool it is one step.                                        *)
StartAtomic ==
  \A c \in Caller : pc[c] \in {"create", "wait"} =>
    /\ \A s \in 1 .. i[c] - 1 : at[m_threads[s]] = "running"
    /\ pc[c] = "wait" => at[made[c]] \in {"created", "named", "running"}

Owners(t) ==
  {<<"m_threads", s>> : s \in {s \in DOMAIN m_threads : m_threads[s] = t}}
    \cup {<<c, s>> : c \in {c \in Caller : made[c] = t}, s \in {0}}
    \cup UNION {{<<c, s>> : s \in {s \in DOMAIN thrs[c] : thrs[c][s] = t}} : c \in Caller}

(* A Thread has one owner as long as it lives, however many callers start and
   stop: nobody joins a thread twice, or one that has been detached.         *)
OwnedOnce ==
  \A t \in Thread :
    /\ Cardinality(Owners(t)) = IF object[t] = "alive" THEN 1 ELSE 0
    /\ object[t] = "alive" /\ pthread[t] # "joinable" => at[t] = "ended"

(* When stop() has been called and every call has returned, the threads have
   ended and are joined, and there will be no others; except those that a
   second start() detached, which stop() knows nothing of.                   *)
StopLeavesNothing ==
  m_stopping /\ (\A c \in Caller : pc[c] = "out") =>
    \A t \in Thread : at[t] = "unborn" \/ pthread[t] = "detached"
                        \/ (at[t] = "ended" /\ pthread[t] = "joined")

(* start() returns, though it holds what its threads need for all they do.   *)
StartReturns == \A c \in Caller : pc[c] \in {"create", "wait"} ~> pc[c] = "out" \/ crashed

(* stop() returns, or the process dies of what a failed start() left.        *)
StopReturns ==
  \A c \in Caller : pc[c] \in {"set", "swap", "join"} ~> pc[c] = "out" \/ (crashed /\ failed)
=============================================================================
