--------------------------- MODULE MCQueryManager ---------------------------
(***************************************************************************)
(* One query over two hosts: a second query would share no more than the   *)
(* queues of the engines with it.                                          *)
(***************************************************************************)
EXTENDS QueryManager

CONSTANTS q1, h1, h2

MCQuery == {q1}
MCHost == {h1, h2}
=============================================================================
