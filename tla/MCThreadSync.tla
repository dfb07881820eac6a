---------------------------- MODULE MCThreadSync ----------------------------
(***************************************************************************)
(* ThreadSync with two callers and a pool of two, and one thread more than *)
(* that, so that a second start() replaces one and fails at the next.      *)
(***************************************************************************)
EXTENDS ThreadSync

CONSTANTS c1, c2, t1, t2, t3

TwoCallers == {c1, c2}
ThreeThreads == {t1, t2, t3}
=============================================================================
