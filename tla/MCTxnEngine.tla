---------------------------- MODULE MCTxnEngine ----------------------------
(* TxnEngine instantiated for TLC: two or three transactions, one table of *)
(* small pages, two record images.                                         *)
EXTENDS TxnEngine

CONSTANTS t1, t2, t3, tab, v1, v2

MCTxns == {t1, t2}
MCTxns3 == {t1, t2, t3}
\* One inserting client: two inserters race on a slot (MCTxnInsertRace.cfg).
MCInserters == {t1}
MCTableLocks == {tab}
MCVals == {v1, v2}
\* The index states: no index; an open, empty index; an index whose handle
\* open_db did not reopen.
MCNoIndex == {NoIndex}
MCIndexOpen == {[k \in MCVals |-> NoRid]}
MCIndexNoneOrMissing == {NoIndex, NoHandle}

\* Transactions are interchangeable; record images are too.
MCSymmetry == Permutations(MCTxns) \cup Permutations(MCVals)
MCSymmetry3 == Permutations(MCTxns3) \cup Permutations(MCVals)
=============================================================================
