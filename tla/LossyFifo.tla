----------------------------- MODULE LossyFifo ------------------------------
(***************************************************************************)
(* What a network channel promises across lost connections: every buffer   *)
(* arrives at most once and in the order in which it was accepted.  Nothing*)
(* is sent a second time, so buffers may be missing.                       *)
(***************************************************************************)
EXTENDS Naturals, Sequences, SequencesExt

CONSTANT Buffer

VARIABLES transit, delivered

fifoVars == <<transit, delivered>>

Init == transit = <<>> /\ delivered = {}

Accept(b) ==
  /\ transit' = Append(transit, b)
  /\ UNCHANGED delivered

Lose ==
  /\ \E kept \in SUBSET DOMAIN transit :
       LET index == SetToSortSeq(kept, <)
       IN  transit' = [i \in DOMAIN index |-> transit[index[i]]]
  /\ UNCHANGED delivered

Deliver ==
  /\ transit # <<>> /\ Head(transit) \notin delivered
  /\ delivered' = delivered \cup {Head(transit)}
  /\ transit' = Tail(transit)

Next == (\E b \in Buffer : Accept(b)) \/ Lose \/ Deliver

Spec == Init /\ [][Next]_fifoVars
=============================================================================
