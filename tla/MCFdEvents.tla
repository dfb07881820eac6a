----------------------------- MODULE MCFdEvents -----------------------------
(***************************************************************************)
(* FdEvents with two readers and a writer that use one descriptor.         *)
(***************************************************************************)
EXTENDS FdEvents

CONSTANTS r1, r2, w, i1, i2

TwoReaders == {r1, r2}
ThreeWaiters == {r1, r2, w}
TwoIdlers == {i1, i2}
=============================================================================
