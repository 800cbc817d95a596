--------------------------- MODULE MCRunningPlan ---------------------------
(***************************************************************************)
(* Two sources feed two pipelines that share a third: a join.              *)
(***************************************************************************)
EXTENDS RunningPlan, TLC

CONSTANTS s1, s2, left, right, join, w1, w2

MCSource == {s1, s2}
MCNode == {left, right, join}
MCSuccessors ==
  s1 :> {left} @@ s2 :> {right} @@ left :> {join} @@ right :> {join} @@ join :> {}
TwoTasks == {w1, w2}
=============================================================================
