--------------------------- MODULE QueryLifecycle ---------------------------
(***************************************************************************)
(* What the catalog promises about the state of a query: the states of     *)
(* QueryCatalog::State and the transitions that the functions which touch  *)
(* it allow (nes-query-engine/QueryEngine.cpp).  QueryStart and            *)
(* RunningPlan implement it.                                               *)
(***************************************************************************)

CONSTANT InitialState

VARIABLE state

State == {"Reserved", "Starting", "Running", "Stopping", "Stopped", "Failed"}

Init == state = InitialState

\* QueryCatalog::start
Start == state = "Reserved" /\ state' = "Starting"

\* onRunning
Run == state = "Starting" /\ state' = "Running"

\* stopQuery
Stop == state \in {"Starting", "Running"} /\ state' = "Stopping"

\* onDestruction
Terminate == state \in {"Starting", "Running", "Stopping"} /\ state' = "Stopped"

\* onFailure
Fail == state' = "Failed"

Next == Start \/ Run \/ Stop \/ Terminate \/ Fail

Spec == Init /\ [][Next]_state
=============================================================================
