------------------------------ MODULE MCPiber ------------------------------
(***************************************************************************)
(* Piber with two fibers that run in a scheduler and one that does not.    *)
(***************************************************************************)
EXTENDS Piber

CONSTANTS a, b, c

MCUserPiber == {a, b, c}
MCInScheduler == {a, b}
=============================================================================
