---------------------------- MODULE MCThreadPool ----------------------------
(***************************************************************************)
(* Values of the constants of ThreadPool for TLC.                          *)
(***************************************************************************)
EXTENDS ThreadPool

CONSTANTS w1, w2, t1, t2, t3

TwoWorkers == {w1, w2}
ThreeTasks == {t1, t2, t3}
=============================================================================
