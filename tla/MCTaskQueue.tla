----------------------------- MODULE MCTaskQueue -----------------------------
(* Model-checking instance of TaskQueue.                                    *)
EXTENDS TaskQueue
CONSTANTS o1, o2, w1, w2, d1, t1, t2, t3
MCOutsider == {o1, o2}
MCWorker == {w1, w2}
MCDelayer == {d1}
MCTask == {t1, t2, t3}
=============================================================================
