-------------------------- MODULE MCBacktestJobs --------------------------
(* Finite instances of BacktestJobs for TLC. *)
EXTENDS BacktestJobs, TLC

CONSTANTS p1, w1, w2

(* One process with two workers (backtest_worker_count = 2). *)
OneProcess == {p1}
TwoWorkers == {w1, w2}
BothOnOne == (w1 :> p1) @@ (w2 :> p1)
=============================================================================
