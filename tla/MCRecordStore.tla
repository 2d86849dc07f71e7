---------------------------- MODULE MCRecordStore ----------------------------
(***************************************************************************)
(* The record handle over the pool for TLC, and its refinement of         *)
(* AbstractTable: the bytes of the set slots are the table's rows.         *)
(***************************************************************************)
EXTENDS RecordStore

CONSTANTS v1, v2

MCVals == {v1, v2}

Table == INSTANCE AbstractTable WITH table <- Content(rm)

(* Every call of the handle, whether it returns or throws part-way for    *)
(* want of a frame, is an insert, delete or update of one row of the      *)
(* abstract table, or leaves its rows alone: no call loses, doubles or    *)
(* corrupts another row, even with get_record's pins exhausting the pool. *)
TableRefinement == Table!Spec
=============================================================================
