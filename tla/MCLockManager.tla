---------------------------- MODULE MCLockManager ----------------------------
(* Three transactions, two tables whose files take fds 0..1 (table and     *)
(* index files together), and one record, for the lock manager alone and   *)
(* under the catalog's DDL.                                                *)
EXTENDS Catalog

CONSTANTS t1, t2, t3, rec1, n1, n2

MCTxns == {t1, t2, t3}
MCFds == 0..1
MCRecordLocks == {rec1}
MCNames == {n1, n2}
MCSymmetry == Permutations(MCTxns) \cup Permutations(MCNames)
=============================================================================
