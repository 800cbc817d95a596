---------------------------- MODULE MCThreadPool ----------------------------
(* Model-checking instance of ThreadPool.                                  *)
EXTENDS ThreadPool
CONSTANTS o1, w1, w2, t1, t2, t3
MCWorker == {w1, w2}
MCTask == {t1, t2, t3}
=============================================================================
