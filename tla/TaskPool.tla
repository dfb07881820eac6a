------------------------------ MODULE TaskPool ------------------------------
(***************************************************************************)
(* What a user of Scheduler relies on, with no threads, lock or counters:  *)
(* a set of fibers that wait, a set of fibers that run, and a stop() that  *)
(* returns only when both are empty.  A submission is run exactly once.  A *)
(* fiber may be submitted while it runs (it does so to be continued after  *)
(* its next yield), but it is not run by two threads at a time, and a      *)
(* fiber that has finished is never run again.                             *)
(***************************************************************************)
CONSTANT Piber

VARIABLES
  queued,    (* submitted and not yet taken                                  *)
  running,   (* taken by a thread that has not come back from it             *)
  finished,
  closed     (* stop() has returned                                          *)

vars == <<queued, running, finished, closed>>

TypeOK ==
  /\ queued \subseteq Piber
  /\ running \subseteq Piber
  /\ finished \subseteq Piber
  /\ closed \in BOOLEAN

Init ==
  /\ queued = {}
  /\ running = {}
  /\ finished = {}
  /\ closed = FALSE

Submit(f) ==
  /\ ~closed
  /\ f \notin queued \cup finished
  /\ queued' = queued \cup {f}
  /\ UNCHANGED <<running, finished, closed>>

Dispatch(f) ==
  /\ f \in queued \ (running \cup finished)
  /\ queued' = queued \ {f}
  /\ running' = running \cup {f}
  /\ UNCHANGED <<finished, closed>>

Finish(f) ==
  /\ f \in running \ (queued \cup finished)
  /\ finished' = finished \cup {f}
  /\ UNCHANGED <<queued, running, closed>>

Release(f) ==
  /\ f \in running
  /\ running' = running \ {f}
  /\ UNCHANGED <<queued, finished, closed>>

Close ==
  /\ ~closed /\ queued = {} /\ running = {}
  /\ closed' = TRUE
  /\ UNCHANGED <<queued, running, finished>>

Next ==
  \/ \E f \in Piber : Submit(f) \/ Dispatch(f) \/ Finish(f) \/ Release(f)
  \/ Close

Spec == Init /\ [][Next]_vars
=============================================================================
