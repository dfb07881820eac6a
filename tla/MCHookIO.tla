------------------------------ MODULE MCHookIO ------------------------------
(***************************************************************************)
(* HookIO with one fiber that connects, writes and sleeps and two threads  *)
(* in idle(); or with a fiber that reads beside it, and one thread.        *)
(***************************************************************************)
EXTENDS HookIO

CONSTANTS r, c, i1, i2

ReaderAndWriter == {r, c}
OneReader == {r}
NoReader == {}
OneConnector == {c}
OneIdler == {i1}
TwoIdlers == {i1, i2}
=============================================================================
