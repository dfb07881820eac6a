---------------------------- MODULE PiberProofs ----------------------------
(***************************************************************************)
(* What Piber promises when fibers are resumed by the fiber they yield to  *)
(* and only while they are READY, proved for any number of fibers of both  *)
(* kinds and with no bound on how often they are switched.                 *)
(***************************************************************************)
EXTENDS Piber, TLAPS

(* Suspended: the slot continues its own fiber at its latest suspension, and
   that is behind the last yield of MainFunc exactly for finished fibers.    *)
Saved(p) ==
  /\ m_ctx[p].code = p
  /\ m_ctx[p].at = at[p]
  /\ m_ctx[p].over <=> m_state[p] = "TERM"

AllSaved == \A p \in AllPiber \ {cpu} : Saved(p)

(* The two fibers others fall back on are alive when they may be needed.     *)
MainAlive == m_state[Main] # "TERM"

RootAlive ==
  /\ cpu = Root => t_scheduler_piber = Root
  /\ t_scheduler_piber = Root /\ cpu \in InScheduler \cup {Root}
       => resumer[Root] = Main /\ m_state[Root] = "RUNING"

(* The fiber that runs knows itself, and was resumed by the one fiber it can
   give control to.                                                          *)
UserKnown == cpu \in UserPiber => t_piber = cpu /\ Slots(cpu) = {resumer[cpu]}

IInv ==
  /\ TypeOK
  /\ cpu \in AllPiber
  /\ AllSaved
  /\ MainAlive
  /\ RootAlive
  /\ UserKnown
  /\ StateTellsRunning

-----------------------------------------------------------------------------

(* What a switch does when the code that runs saves itself in its own slot
   and loads a suspended fiber that has not finished: exactly the loaded fiber
   continues, where it stopped.                                              *)
LEMMA SwitchInOrder ==
  ASSUME TypeOK, cpu \in AllPiber, AllSaved,
         NEW load \in AllPiber \ {cpu}, NEW over \in BOOLEAN,
         m_state[load] # "TERM",
         Switch(cpu, load, over)
  PROVE  /\ m_ctx' = [m_ctx EXCEPT ![cpu] = [code |-> cpu, at |-> at[cpu] + 1, over |-> over]]
         /\ cpu' = load
         /\ at' = [at EXCEPT ![cpu] = at[cpu] + 1]
<1> DEFINE saved == [m_ctx EXCEPT ![cpu] = [code |-> cpu, at |-> at[cpu] + 1, over |-> over]]
<1>1. m_ctx' = saved /\ cpu' = (IF saved[load].over THEN Exited ELSE saved[load].code)
      /\ at' = [at EXCEPT ![cpu] = @ + 1, ![saved[load].code] = saved[load].at]
  BY DEF Switch
<1>2. saved[load] = m_ctx[load]
  BY DEF TypeOK
<1>3. m_ctx[load].code = load /\ m_ctx[load].at = at[load] /\ ~m_ctx[load].over
  BY DEF AllSaved, Saved, TypeOK, Continuation
<1>4. at' = [at EXCEPT ![cpu] = at[cpu] + 1]
  BY <1>1, <1>2, <1>3 DEF TypeOK
<1> QED
  BY <1>1, <1>2, <1>3, <1>4

(* The slots of a fiber, one at most but for the main fiber.                 *)
LEMMA SlotFacts ==
  ASSUME TypeOK
  PROVE  /\ \A p \in AllPiber : Slots(p) \subseteq {Main, t_scheduler_piber} \ {None}
         /\ \A p \in AllPiber \ InScheduler : p # Main => Slots(p) = {Main}
         /\ \A f \in InScheduler : Slots(f) = {t_scheduler_piber} \ {None}
BY PiberAssumption DEF TypeOK, Slots, AllPiber

(* The initial state.                                                        *)
LEMMA InitIInv == Init => IInv
<1> SUFFICES ASSUME Init PROVE IInv
  OBVIOUS
<1> USE PiberAssumption DEF Init, AllPiber
<1>1. TypeOK /\ cpu \in AllPiber
  BY DEF TypeOK, State, Continuation, Entry
<1>2. AllSaved /\ MainAlive
  BY DEF AllSaved, Saved, MainAlive, Entry
<1>3. RootAlive /\ UserKnown /\ StateTellsRunning
  BY DEF RootAlive, UserKnown, StateTellsRunning
<1> QED
  BY <1>1, <1>2, <1>3 DEF IInv

(* Where a yield goes: to the one slot of the fiber that runs, whose owner is
   suspended and alive.                                                      *)
LEMMA YieldTarget ==
  ASSUME IInv, cpu # Main, NEW slot \in Slots(cpu)
  PROVE  /\ slot \in AllPiber \ {cpu}
         /\ slot \in {Main, Root}
         /\ slot = Root => t_scheduler_piber = Root /\ cpu \in InScheduler
         /\ m_state[slot] # "TERM"
         /\ slot = resumer[cpu]
<1>1. cpu \in UserPiber \cup {Root} /\ t_scheduler_piber \in {Main, Root, None}
  BY DEF IInv, AllPiber, TypeOK
<1>2. slot \in {Main, t_scheduler_piber} \ {None}
  BY SlotFacts DEF IInv
<1>3. CASE cpu = Root
  <2>1. slot = Main
    BY <1>3, SlotFacts, PiberAssumption DEF IInv
  <2> QED
    BY <1>3, <2>1, PiberAssumption DEF IInv, MainAlive, RootAlive, AllPiber
<1>4. CASE cpu \in UserPiber
  <2>1. slot = resumer[cpu]
    BY <1>4 DEF IInv, UserKnown
  <2>2. slot = Root => t_scheduler_piber = Root /\ cpu \in InScheduler
    <3>1. cpu \notin InScheduler => slot = Main
      BY <1>4, SlotFacts, PiberAssumption DEF IInv
    <3> QED
      BY <1>2, <3>1, PiberAssumption
  <2> QED
    BY <1>1, <1>2, <1>4, <2>1, <2>2, PiberAssumption DEF IInv, MainAlive, RootAlive, AllPiber
<1> QED
  BY <1>1, <1>3, <1>4

-----------------------------------------------------------------------------
LEMMA GetThisIInv == IInv /\ GetThis => IInv'
<1> SUFFICES ASSUME IInv, GetThis PROVE IInv'
  OBVIOUS
<1> USE PiberAssumption DEF GetThis
<1>1. TypeOK' /\ cpu' \in AllPiber'
  BY DEF IInv, TypeOK, AllPiber, State
<1>2. \A p \in AllPiber \ {Main} : m_state'[p] = m_state[p]
  BY DEF IInv, TypeOK
<1>3. m_state'[Main] = "RUNING"
  BY DEF IInv, TypeOK, AllPiber
<1>4. AllSaved' /\ MainAlive'
  BY <1>2, <1>3 DEF IInv, AllSaved, Saved, MainAlive, AllPiber
<1>5. RootAlive'
  BY <1>2 DEF IInv, RootAlive, AllPiber
<1>6. UserKnown'
  BY DEF IInv, UserKnown, AllPiber
<1>7. StateTellsRunning'
  BY <1>2 DEF IInv, StateTellsRunning, AllPiber
<1> QED
  BY <1>1, <1>4, <1>5, <1>6, <1>7 DEF IInv

LEMMA EnterSchedulerIInv == IInv /\ EnterScheduler => IInv'
BY PiberAssumption
DEF EnterScheduler, IInv, TypeOK, AllPiber, AllSaved, Saved, MainAlive, RootAlive, UserKnown,
    StateTellsRunning

(* resume(): the code that runs is in the slot of the fiber it resumes.      *)
LEMMA ResumeIInv ==
  ASSUME Disciplined, IInv, NEW g \in UserPiber \cup {Root}, Resume(g)
  PROVE  IInv'
<1> USE PiberAssumption
<1>1. PICK slot \in Slots(g) : cpu = slot /\ m_state[g] = "READY" /\ Switch(slot, g, FALSE)
  BY DEF Resume
<1>2. /\ t_piber' = g /\ t_scheduler_piber' = t_scheduler_piber
      /\ m_state' = [m_state EXCEPT ![g] = "RUNING"]
      /\ resumer' = [resumer EXCEPT ![g] = cpu]
  BY DEF Resume
<1>3. g \in AllPiber /\ g # Main
  BY DEF AllPiber
<1>4. cpu \in {Main, Root} /\ cpu # g
  <2>1. cpu \in {Main, t_scheduler_piber} \ {None}
    BY <1>1, <1>3, SlotFacts DEF IInv
  <2>2. CASE g = Root
    BY <1>1, <1>3, <2>2, SlotFacts DEF IInv
  <2>3. CASE g \in UserPiber
    BY <2>1, <2>3 DEF IInv, TypeOK
  <2> QED
    BY <2>1, <2>2, <2>3 DEF IInv, TypeOK
<1>5. /\ m_ctx' = [m_ctx EXCEPT ![cpu] = [code |-> cpu, at |-> at[cpu] + 1, over |-> FALSE]]
      /\ cpu' = g
      /\ at' = [at EXCEPT ![cpu] = at[cpu] + 1]
  BY <1>1, <1>3, <1>4, SwitchInOrder DEF IInv
<1>6. m_state[cpu] # "TERM"
  <2>1. CASE cpu = Main
    BY <2>1 DEF IInv, MainAlive
  <2>2. CASE cpu = Root
    BY <2>2 DEF IInv, RootAlive
  <2> QED
    BY <1>4, <2>1, <2>2
<1>7. TypeOK' /\ cpu' \in AllPiber'
  BY <1>2, <1>3, <1>5 DEF IInv, TypeOK, State, Continuation, AllPiber
<1>8. AllSaved'
  <2> SUFFICES ASSUME NEW p \in AllPiber \ {g} PROVE Saved(p)'
    BY <1>5 DEF AllSaved, AllPiber
  <2>1. m_state'[p] = m_state[p]
    BY <1>2 DEF IInv, TypeOK
  <2>2. CASE p = cpu
    BY <1>5, <1>6, <2>1, <2>2 DEF IInv, TypeOK, Saved
  <2>3. CASE p # cpu
    BY <1>5, <2>1, <2>3 DEF IInv, TypeOK, AllSaved, Saved
  <2> QED
    BY <2>2, <2>3
<1>9. MainAlive'
  BY <1>2, <1>3 DEF IInv, TypeOK, MainAlive, AllPiber
<1>10. RootAlive'
  <2>1. CASE g = Root
    <3>1. cpu = Main
      BY <1>4, <2>1
    <3>2. t_scheduler_piber = Root
      BY <2>1 DEF Resume, Resumable
    <3> QED
      BY <1>2, <1>3, <1>5, <2>1, <3>1, <3>2 DEF IInv, TypeOK, RootAlive
  <2>2. CASE g # Root
    <3>1. resumer'[Root] = resumer[Root] /\ m_state'[Root] = m_state[Root]
      BY <1>2, <2>2 DEF IInv, TypeOK, AllPiber
    <3>2. g \in InScheduler /\ t_scheduler_piber = Root => cpu = Root
      BY <1>1, SlotFacts DEF IInv
    <3> QED
      BY <1>2, <1>5, <2>2, <3>1, <3>2 DEF IInv, RootAlive
  <2> QED
    BY <2>1, <2>2
<1>11. UserKnown'
  <2>1. resumer'[g] = cpu /\ (g \in UserPiber => Slots(g) = {cpu})
    BY <1>1, <1>2, <1>3, SlotFacts DEF IInv, TypeOK, AllPiber
  <2>2. Slots(g)' = Slots(g)
    BY <1>2 DEF Slots
  <2> QED
    BY <1>2, <1>5, <2>1, <2>2 DEF UserKnown, Slots
<1>12. StateTellsRunning'
  BY <1>2, <1>4, <1>5 DEF IInv, TypeOK, StateTellsRunning, AllPiber
<1> QED
  BY <1>7, <1>8, <1>9, <1>10, <1>11, <1>12 DEF IInv

(* yield(), by a fiber that goes on later ("READY") or never ("TERM").       *)
LEMMA GiveUpIInv ==
  ASSUME IInv, cpu # Main, NEW over \in BOOLEAN, NEW s \in {"READY", "TERM"},
         over <=> s = "TERM",
         m_state' = [m_state EXCEPT ![cpu] = s], YieldOn(cpu, over)
  PROVE  IInv' /\ cpu' = resumer[cpu]
<1> USE PiberAssumption
<1>1. PICK slot \in Slots(cpu) : Switch(cpu, slot, over)
  BY DEF YieldOn
<1>2. t_piber' = Main /\ t_scheduler_piber' = t_scheduler_piber /\ resumer' = resumer
  BY DEF YieldOn
<1>3. /\ slot \in AllPiber \ {cpu} /\ slot \in {Main, Root}
      /\ slot = Root => t_scheduler_piber = Root /\ cpu \in InScheduler
      /\ m_state[slot] # "TERM"
      /\ slot = resumer[cpu]
  BY YieldTarget
<1>4. /\ m_ctx' = [m_ctx EXCEPT ![cpu] = [code |-> cpu, at |-> at[cpu] + 1, over |-> over]]
      /\ cpu' = slot
      /\ at' = [at EXCEPT ![cpu] = at[cpu] + 1]
  BY <1>1, <1>3, SwitchInOrder DEF IInv
<1>5. TypeOK' /\ cpu' \in AllPiber'
  BY <1>2, <1>3, <1>4 DEF IInv, TypeOK, State, Continuation, AllPiber
<1>6. AllSaved'
  <2> SUFFICES ASSUME NEW p \in AllPiber \ {slot} PROVE Saved(p)'
    BY <1>4 DEF AllSaved, AllPiber
  <2>1. CASE p = cpu
    BY <1>4, <2>1 DEF IInv, TypeOK, Saved
  <2>2. CASE p # cpu
    BY <1>4, <2>2 DEF IInv, TypeOK, AllSaved, Saved
  <2> QED
    BY <2>1, <2>2
<1>7. MainAlive'
  BY DEF IInv, TypeOK, MainAlive, AllPiber
<1>8. RootAlive'
  <2>1. cpu' = Main => cpu' \notin InScheduler \cup {Root}
    BY DEF AllPiber
  <2>2. cpu' = Root => cpu # Root /\ resumer[Root] = Main /\ m_state[Root] = "RUNING"
    BY <1>3, <1>4 DEF IInv, RootAlive
  <2> QED
    BY <1>2, <1>3, <1>4, <2>1, <2>2 DEF IInv, TypeOK, RootAlive, AllPiber
<1>9. UserKnown'
  BY <1>3, <1>4 DEF UserKnown
<1>10. StateTellsRunning'
  BY <1>3, <1>4 DEF IInv, TypeOK, StateTellsRunning, AllPiber
<1> QED
  BY <1>3, <1>4, <1>5, <1>6, <1>7, <1>8, <1>9, <1>10 DEF IInv

LEMMA YieldIInv ==
  ASSUME Disciplined, IInv, Yield
  PROVE  IInv' /\ cpu' = resumer[cpu]
<1>1. cpu \in UserPiber /\ t_piber = cpu
  BY DEF Yield, IInv, UserKnown
<1>2. m_state[cpu] = "RUNING" /\ cpu # Main
  BY <1>1, PiberAssumption DEF IInv, StateTellsRunning
<1>3. m_state' = [m_state EXCEPT ![cpu] = "READY"] /\ YieldOn(cpu, FALSE)
  BY <1>1, <1>2 DEF Yield
<1> QED
  BY <1>2, <1>3, GiveUpIInv

LEMMA FinishIInv ==
  ASSUME IInv, Finish
  PROVE  IInv' /\ cpu' = resumer[cpu]
BY GiveUpIInv DEF Finish

LEMMA ResetIInv ==
  ASSUME IInv, NEW g \in UserPiber, Reset(g)
  PROVE  IInv'
<1> USE PiberAssumption DEF Reset
<1>1. g \in AllPiber /\ g # Main /\ g # Root /\ g # cpu
  BY DEF AllPiber
<1>2. TypeOK' /\ cpu' \in AllPiber'
  BY <1>1 DEF IInv, TypeOK, State, Continuation, AllPiber, Entry
<1>3. AllSaved'
  <2> SUFFICES ASSUME NEW p \in AllPiber \ {cpu} PROVE Saved(p)'
    BY DEF AllSaved, AllPiber
  <2>1. CASE p = g
    BY <1>1, <2>1 DEF IInv, TypeOK, Saved, Entry
  <2>2. CASE p # g
    BY <1>1, <2>2 DEF IInv, TypeOK, AllSaved, Saved
  <2> QED
    BY <2>1, <2>2
<1>4. MainAlive' /\ RootAlive'
  BY <1>1 DEF IInv, TypeOK, MainAlive, RootAlive, AllPiber
<1>5. UserKnown'
  BY DEF IInv, UserKnown, Slots
<1>6. StateTellsRunning'
  BY <1>1 DEF IInv, TypeOK, StateTellsRunning, AllPiber
<1> QED
  BY <1>2, <1>3, <1>4, <1>5, <1>6 DEF IInv

LEMMA NextIInv ==
  ASSUME Disciplined, IInv, [Next]_vars
  PROVE  IInv' /\ (Yield \/ Finish => cpu' = resumer[cpu])
<1>1. CASE UNCHANGED vars
  <2>1. IInv'
    BY <1>1 DEF vars, IInv, TypeOK, AllSaved, Saved, MainAlive, RootAlive, UserKnown, Slots,
                StateTellsRunning
  <2>2. ASSUME Yield PROVE cpu' = resumer[cpu]
    BY <2>2, YieldIInv
  <2>3. ASSUME Finish PROVE cpu' = resumer[cpu]
    BY <2>3, FinishIInv
  <2> QED
    BY <2>1, <2>2, <2>3
<1>2. Yield \/ Finish => cpu' = resumer[cpu]
  BY YieldIInv, FinishIInv
<1>3. ASSUME NEW g \in UserPiber \cup {Root}, Resume(g) PROVE IInv'
  BY <1>3, ResumeIInv
<1>4. ASSUME NEW g \in UserPiber, Reset(g) PROVE IInv'
  BY <1>4, ResetIInv
<1>5. ASSUME Next PROVE IInv'
  BY <1>3, <1>4, <1>5, GetThisIInv, EnterSchedulerIInv, YieldIInv, FinishIInv DEF Next
<1> QED
  BY <1>1, <1>2, <1>5

-----------------------------------------------------------------------------
(* The inductive invariant holds throughout a disciplined use of the class.  *)
THEOREM PiberInvariant ==
  ASSUME Disciplined
  PROVE  Spec => []IInv
<1>1. IInv /\ [Next]_vars => IInv'
  BY NextIInv
<1> QED
  BY <1>1, InitIInv, PTL DEF Spec

(* Every variable keeps its type.                                            *)
THEOREM PiberTypeOK ==
  ASSUME Disciplined
  PROVE  Spec => []TypeOK
<1>1. IInv => TypeOK
  BY DEF IInv
<1> QED
  BY <1>1, PiberInvariant, PTL

(* No stale continuation is ever left in a slot: every suspended fiber, and
   the two fibers whose slots all others share, continue where they stopped. *)
THEOREM PiberContextsCurrent ==
  ASSUME Disciplined
  PROVE  Spec => []ContextsCurrent
<1>1. IInv => ContextsCurrent
  BY DEF IInv, AllSaved, Saved, ContextsCurrent
<1> QED
  BY <1>1, PiberInvariant, PTL

(* RUNING marks exactly the fiber that executes, and a user fiber that runs is
   the one GetThis() names.                                                  *)
THEOREM PiberRunning ==
  ASSUME Disciplined
  PROVE  Spec => []RunningKnown
<1>1. IInv => RunningKnown
  BY PiberAssumption DEF IInv, UserKnown, UserSeesItself, RunningKnown
<1> QED
  BY <1>1, PiberInvariant, PTL

(* No fiber that has finished is resumed once more: the thread never runs off
   the end of MainFunc.                                                      *)
THEOREM PiberNeverExits ==
  ASSUME Disciplined
  PROVE  Spec => []NeverExits
<1>1. IInv => NeverExits
  BY PiberAssumption DEF IInv, NeverExits
<1> QED
  BY <1>1, PiberInvariant, PTL

(* Control goes back to the fiber that gave it, whichever fiber gives it up. *)
THEOREM PiberYieldReturns ==
  ASSUME Disciplined
  PROVE  Spec => YieldReturnsToResumer
<1>1. IInv /\ [Next]_vars => [Yield \/ Finish => cpu' = resumer[cpu]]_vars
  BY NextIInv
<1> QED
  BY <1>1, PiberInvariant, PTL DEF Spec, YieldReturnsToResumer
=============================================================================
