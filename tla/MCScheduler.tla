---------------------------- MODULE MCScheduler ----------------------------
(***************************************************************************)
(* Scheduler with two workers, and with the caller's thread beside them or *)
(* without it, and two fibers.                                             *)
(***************************************************************************)
EXTENDS Scheduler

CONSTANTS w1, w2, f, g

TwoWorkers == {w1, w2}
TwoFibers == {f, g}
=============================================================================
