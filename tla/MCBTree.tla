------------------------------- MODULE MCBTree -------------------------------
(***************************************************************************)
(* The B+ tree for TLC, and its refinement of AbstractIndex: the entries  *)
(* of the reachable leaves are the abstract index's entries.               *)
(***************************************************************************)
EXTENDS BTree

\* Eight keys: enough leaves (two entries each after a split) to fill a
\* root of max_size 4 and split it, and to merge internal nodes (internal
\* redistribution needs ten keys and is not reached).
DeepKeys == 1..8

\* Condition values: a key inside the first leaf and one past the middle.
MCCondVals == {3, 6}

\* The tree with the pages nothing points to blanked: release_node_handle
\* frees no page and create_node never hands one out again, so their stale
\* contents are never read (LeafChainExact and TreeShape say nothing points
\* to them) and two states that differ only there behave alike.
LiveView == [ix EXCEPT !.node = [p \in NodePages |->
                 IF p \in LiveNodes(ix) \cup {LeafHeaderPage} THEN @[p] ELSE ZeroNode]]

AI == INSTANCE AbstractIndex WITH Rids <- Keys, entries <- Entries(ix)

(* Every insert_entry and delete_entry step is an insert-if-absent or a   *)
(* delete of the abstract index (or leaves the entries alone): splits,    *)
(* merges and redistributions never lose, duplicate or invent an entry.  *)
IndexRefines == AI!AISpec
=============================================================================
