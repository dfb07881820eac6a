------------------------------ MODULE MCTimer ------------------------------
(***************************************************************************)
(* Timer with up to two timers and two threads that collect, one of which  *)
(* sleeps in between.                                                      *)
(***************************************************************************)
EXTENDS Timer, TLC

CONSTANTS t1, t2, l1, l2

OneTimer == {t1}
TwoTimers == {t1, t2}
OneLister == {l1}
TwoListers == {l1, l2}
ShortDelays == {1, 2}
EitherTimer == Permutations(TwoTimers)
=============================================================================
