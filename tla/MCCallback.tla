----------------------------- MODULE MCCallback -----------------------------
(* Model-checking instance of Callback.                                    *)
EXTENDS Callback
CONSTANTS th1, th2, th3, r1, r2, r3
MCThread == {th1, th2, th3}
MCRef == {r1, r2, r3}
=============================================================================
