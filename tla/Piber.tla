------------------------------- MODULE Piber -------------------------------
(***************************************************************************)
(* The coroutine class of synergy/Piber.cc on one thread.  Everything the  *)
(* class keeps apart from the fiber objects is thread_local, so one thread *)
(* is the whole story as long as fibers do not migrate; fibers handed from *)
(* thread to thread are the subject of Scheduler.tla.                      *)
(*                                                                         *)
(* The model follows the contexts.  A ucontext_t in memory is a            *)
(* continuation: whose code it continues, and at which of that code's      *)
(* suspension points.  swapcontext saves "here" in one ucontext_t and      *)
(* loads whatever another one holds, stale or not; nothing in the class    *)
(* checks that the slot it loads was meant for it.                         *)
(***************************************************************************)
EXTENDS Naturals

CONSTANTS
  UserPiber,    (* fibers created with a callback                            *)
  InScheduler,  (* those of them with m_runInScheduler = true                *)
  Main,         (* t_thread_piber, the fiber of the thread's own stack       *)
  Root,         (* m_rootPiber, which runs Scheduler::run on a caller thread *)
  None,         (* nullptr                                                   *)
  Exited,       (* what executes once MainFunc has returned: uc_link is null *)
  Disciplined,  (* TRUE: a fiber is resumed only by the fiber it yields to
                   and only when it is READY, the way run() uses the class
                   when no finished fiber is queued, and the way the test
                   does; FALSE: by any code, in any state, as it allows      *)
  MaxSwitch     (* bound: suspensions and resets of one fiber                *)

AllPiber == UserPiber \cup {Main, Root}

ASSUME PiberAssumption ==
  /\ Main \notin UserPiber /\ Root \notin UserPiber /\ Main # Root
  /\ None \notin AllPiber /\ Exited \notin AllPiber
  /\ InScheduler \subseteq UserPiber
  /\ Disciplined \in BOOLEAN
  /\ MaxSwitch \in Nat

State == {"READY", "RUNING", "TERM"}

(* What a ucontext_t holds: resuming it continues the code of fiber "code"
   at its suspension point number "at"; "over" when that point is behind the
   last yield of MainFunc, where nothing is left but to return.              *)
Continuation == [code : AllPiber, at : Nat, over : BOOLEAN]

VARIABLES
  t_piber,            (* thread_local: what GetThis() answers                *)
  t_scheduler_piber,  (* thread_local: what GetMainPiber() answers           *)
  m_state,
  m_ctx,
  cpu,                (* the fiber whose code the thread is executing        *)
  at,                 (* how often each fiber's code has been suspended      *)
  resumer             (* history: who called resume() on a fiber last        *)

vars == <<t_piber, t_scheduler_piber, m_state, m_ctx, cpu, at, resumer>>

-----------------------------------------------------------------------------

(* makecontext with MainFunc as the entry, or getcontext for Main.           *)
Entry(p, n) == [code |-> p, at |-> n, over |-> FALSE]

Init ==
  /\ t_piber = None
  /\ t_scheduler_piber = None
  /\ m_state = [p \in AllPiber |-> "READY"]
  /\ m_ctx = [p \in AllPiber |-> Entry(p, 0)]
  /\ cpu = Main
  /\ at = [p \in AllPiber |-> 0]
  /\ resumer = [p \in AllPiber |-> None]

(* The fiber whose m_ctx a resume() of p saves into and a yield() of p loads.
   The private constructor leaves m_runInScheduler of Main uninitialised, so
   Main goes either way.  Empty when that fiber is a null pointer.           *)
Slots(p) ==
  (IF p = Main THEN {Main, t_scheduler_piber}
   ELSE IF p \in InScheduler THEN {t_scheduler_piber}
   ELSE {Main}) \ {None}

(* swapcontext(save, load) executed by the code of cpu: the save comes first,
   the continuation loaded may belong to any fiber, and continuing at an old
   point takes that fiber's code back there.                                 *)
Switch(save, load, over) ==
  LET here  == [code |-> cpu, at |-> at[cpu] + 1, over |-> over]
      saved == [m_ctx EXCEPT ![save] = here]
      next  == saved[load]
  IN  /\ m_ctx' = saved
      /\ cpu' = IF next.over THEN Exited ELSE next.code
      /\ at' = [at EXCEPT ![cpu] = @ + 1, ![next.code] = next.at]

Running == t_piber # None /\ cpu \in AllPiber /\ at[cpu] < MaxSwitch

(* First GetThis() of the thread: it makes the main fiber.                   *)
GetThis ==
  /\ t_piber = None
  /\ t_piber' = Main
  /\ m_state' = [m_state EXCEPT ![Main] = "RUNING"]
  /\ UNCHANGED <<t_scheduler_piber, m_ctx, cpu, at, resumer>>

(* Mutant: the scheduler fiber is whatever fiber runs in the thread.         *)
EnterSchedulerAnywhere ==
  /\ t_piber # None /\ t_scheduler_piber = None
  /\ t_scheduler_piber' \in {cpu, Root}
  /\ UNCHANGED <<t_piber, m_state, m_ctx, cpu, at, resumer>>

(* The thread becomes a scheduling thread: a worker runs Scheduler::run on
   its main fiber, the caller of Scheduler's constructor gets a root fiber.  *)
EnterScheduler ==
  /\ t_piber = Main /\ cpu = Main /\ t_scheduler_piber = None
  /\ t_scheduler_piber' \in {Main, Root}
  /\ UNCHANGED <<t_piber, m_state, m_ctx, cpu, at, resumer>>

Resumable == UserPiber \cup ({Root} \cap {t_scheduler_piber})

(* Mutant: resume() saves the resumer in the thread's main fiber always.     *)
ResumeSavingInMain(g) ==
  /\ Running
  /\ g \in Resumable
  /\ \E slot \in Slots(g) :
       /\ Disciplined => cpu = slot /\ m_state[g] = "READY"
       /\ Switch(Main, g, FALSE)
  /\ t_piber' = g
  /\ m_state' = [m_state EXCEPT ![g] = "RUNING"]
  /\ resumer' = [resumer EXCEPT ![g] = cpu]
  /\ UNCHANGED t_scheduler_piber

Resume(g) ==
  /\ Running
  /\ g \in Resumable
  /\ \E slot \in Slots(g) :
       /\ Disciplined => cpu = slot /\ m_state[g] = "READY"
       /\ Switch(slot, g, FALSE)
  /\ t_piber' = g
  /\ m_state' = [m_state EXCEPT ![g] = "RUNING"]
  /\ resumer' = [resumer EXCEPT ![g] = cpu]
  /\ UNCHANGED t_scheduler_piber

(* Mutant: yield() goes back to the thread's main fiber always, the exchange
   error that README.md records as the cause of threads that ended.          *)
YieldOnToMain(y, over) ==
  /\ t_piber' = Main
  /\ Switch(y, Main, over)
  /\ UNCHANGED <<t_scheduler_piber, resumer>>

(* Piber::yield() called on the object y.                                    *)
YieldOn(y, over) ==
  /\ t_piber' = Main
  /\ \E slot \in Slots(y) : Switch(y, slot, over)
  /\ UNCHANGED <<t_scheduler_piber, resumer>>

(* Mutant: yield() leaves m_state alone.                                     *)
YieldWithoutReady ==
  /\ Running
  /\ cpu \in UserPiber \/ ~Disciplined
  /\ YieldOn(t_piber, FALSE)
  /\ UNCHANGED m_state

(* Code says Piber::GetThis()->yield(): the object is the one t_piber names,
   which need not be the fiber whose code says it.                           *)
Yield ==
  /\ Running
  /\ cpu \in UserPiber \/ ~Disciplined
  /\ m_state' = [m_state EXCEPT ![t_piber] = IF @ = "TERM" THEN @ ELSE "READY"]
  /\ YieldOn(t_piber, FALSE)

(* Mutant: MainFunc forgets TERM, the final yield makes the fiber READY.     *)
FinishWithoutTerm ==
  /\ Running
  /\ cpu # Main
  /\ m_state' = [m_state EXCEPT ![cpu] = "READY"]
  /\ YieldOn(cpu, TRUE)

(* The callback returns: MainFunc marks the fiber it has run from the start
   as TERM and yields on it.                                                 *)
Finish ==
  /\ Running
  /\ cpu # Main
  /\ m_state' = [m_state EXCEPT ![cpu] = "TERM"]
  /\ YieldOn(cpu, TRUE)

(* reset(cb) of a fiber that is not executing: its stack starts over, and a
   suspension it was in is forgotten.                                        *)
Reset(g) ==
  /\ Running
  /\ g # cpu /\ at[g] < MaxSwitch
  /\ at' = [at EXCEPT ![g] = @ + 1]
  /\ m_ctx' = [m_ctx EXCEPT ![g] = Entry(g, at[g] + 1)]
  /\ m_state' = [m_state EXCEPT ![g] = "READY"]
  /\ UNCHANGED <<t_piber, t_scheduler_piber, cpu, resumer>>

Next ==
  \/ GetThis
  \/ EnterScheduler
  \/ \E g \in UserPiber \cup {Root} : Resume(g)
  \/ Yield
  \/ Finish
  \/ \E g \in UserPiber : Reset(g)

Spec == Init /\ [][Next]_vars

-----------------------------------------------------------------------------

TypeOK ==
  /\ t_piber \in AllPiber \cup {None}
  /\ t_scheduler_piber \in {Main, Root, None}
  /\ m_state \in [AllPiber -> State]
  /\ m_ctx \in [AllPiber -> Continuation]
  /\ cpu \in AllPiber \cup {Exited}
  /\ at \in [AllPiber -> Nat]
  /\ resumer \in [AllPiber -> AllPiber \cup {None}]

(* A suspended fiber's own m_ctx holds that fiber's latest suspension: whoever
   loads it continues that fiber, exactly where it stopped.  This is what the
   two slots shared by all fibers of a thread, the main fiber's and the
   scheduler fiber's, put at risk.                                           *)
ContextsCurrent ==
  \A p \in AllPiber \ {cpu} : m_ctx[p].code = p /\ m_ctx[p].at = at[p]

(* RUNING, as run() reads it to decide whether a queued fiber may be taken,
   means that the fiber is executing, and nothing else.                      *)
StateTellsRunning ==
  \A f \in UserPiber : m_state[f] = "RUNING" <=> cpu = f

(* A user fiber that asks who it is gets the right answer, so that
   GetThis()->yield() suspends the fiber that says it.                       *)
UserSeesItself == cpu \in UserPiber => t_piber = cpu

(* Who executes is known to all who ask: by m_state, and by t_piber.          *)
RunningKnown == StateTellsRunning /\ UserSeesItself

(* The thread never runs off the end of MainFunc.                            *)
NeverExits == cpu # Exited

(* The asymmetric model: control given up by a fiber, by yielding or by
   finishing, goes to the fiber that resumed it.                             *)
YieldReturnsToResumer ==
  [][Yield \/ Finish => cpu' = resumer[cpu]]_vars
=============================================================================
