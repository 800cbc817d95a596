---------------------------- MODULE MCQueryStart ----------------------------
(***************************************************************************)
(* Two pipelines; the configurations choose who interferes with the start. *)
(***************************************************************************)
EXTENDS QueryStart

CONSTANTS n1, n2

MCNode == {n1, n2}
AllActors == {Stopper, Failer, Terminator}
OnlyStopper == {Stopper}
=============================================================================
