----------------------------- MODULE MCWorkPool -----------------------------
(* Workers and tasks of a small pool.                                      *)
EXTENDS WorkPool

CONSTANTS w1, w2, t1, t2

TwoWorkers == {w1, w2}
TwoTasks   == {t1, t2}
=============================================================================
