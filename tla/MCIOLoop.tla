------------------------------ MODULE MCIOLoop ------------------------------
(***************************************************************************)
(* IOLoop with two threads and two fibers that read from one descriptor.   *)
(***************************************************************************)
EXTENDS IOLoop

CONSTANTS r1, r2, i1, i2

TwoReaders == {r1, r2}
TwoIdlers == {i1, i2}
=============================================================================
