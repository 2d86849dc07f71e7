---------------------------- MODULE MCQueryExec ----------------------------
(* QueryExec for TLC: rows hold 1 or 2. *)
EXTENDS QueryExec

QueryVals == {1, 2}
=============================================================================
