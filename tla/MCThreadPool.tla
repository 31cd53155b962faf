---------------------------- MODULE MCThreadPool ----------------------------
(***************************************************************************)
(* Pools for TLC: two workers and two callers, and the single worker that  *)
(* a Statechart has (Statechart.cpp:58).                                   *)
(***************************************************************************)
EXTENDS ThreadPool, TLC

CONSTANTS c1, c2

TwoCallers == {c1, c2}
OneCaller == {c1}
=============================================================================
