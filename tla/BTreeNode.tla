------------------------------ MODULE BTreeNode ------------------------------
(***************************************************************************)
(* The node-local primitives of IxNodeHandle (src/index/ix_index_handle.cpp)*)
(* on one node, a record                                                    *)
(*   [leaf, keys, vals, parent, prev, next]                                 *)
(* with keys and vals (rids of leaves, child page numbers of internal      *)
(* nodes) as sequences.  Slot positions are 0-based as in the code: slot i *)
(* is element i + 1.  Keys are integers, compared as ix_compare does.      *)
(***************************************************************************)
EXTENDS Integers, Sequences

\* Mutant of BinarySearch: the interval is closed on the right, so the
\* probe may read one slot past the node's last key.
RECURSIVE BinarySearchClosed(_, _, _, _, _)
BinarySearchClosed(keys, target, strict, left, right) ==
    IF left > right THEN left
    ELSE LET mid == left + (right - left) \div 2
             k   == IF mid < Len(keys) THEN keys[mid + 1] ELSE 0
             goRight == IF strict THEN k <= target ELSE k < target
         IN  IF goRight THEN BinarySearchClosed(keys, target, strict, mid + 1, right)
             ELSE BinarySearchClosed(keys, target, strict, left, mid - 1)

(* lower_bound / upper_bound: the binary search of the code over          *)
(* [left, right), moving right when the key at mid is below the target     *)
(* (lower) or not above it (upper).                                        *)
RECURSIVE BinarySearch(_, _, _, _, _)
BinarySearch(keys, target, strict, left, right) ==
    IF left >= right THEN left
    ELSE LET mid == left + (right - left) \div 2
             goRight == IF strict THEN keys[mid + 1] <= target ELSE keys[mid + 1] < target
         IN  IF goRight THEN BinarySearch(keys, target, strict, mid + 1, right)
             ELSE BinarySearch(keys, target, strict, left, mid)

LowerBound(n, target) == BinarySearch(n.keys, target, FALSE, 0, Len(n.keys))
UpperBound(n, target) == BinarySearch(n.keys, target, TRUE, 0, Len(n.keys))

(* leaf_lookup: the slot lower_bound finds, if it holds the key. *)
LeafLookup(n, key) ==
    LET pos == LowerBound(n, key) IN
    IF pos < Len(n.keys) /\ n.keys[pos + 1] = key
    THEN [found |-> TRUE, rid |-> n.vals[pos + 1]]
    ELSE [found |-> FALSE, rid |-> 0]

\* Mutant of InternalLookup: descends by lower_bound, so a key equal to a
\* separator goes to the child left of it.
InternalLookupLower(n, key) ==
    LET pos == LowerBound(n, key) IN
    n.vals[(IF pos > 0 THEN pos - 1 ELSE pos) + 1]

(* internal_lookup: the child left of upper_bound (the first child if the *)
(* key is below every key).                                                *)
InternalLookup(n, key) ==
    LET pos == UpperBound(n, key) IN
    n.vals[(IF pos > 0 THEN pos - 1 ELSE pos) + 1]

(* insert_pairs(pos, keys, rids, n): shift the slots from pos right and   *)
(* copy the new pairs in.                                                  *)
InsertPairs(n, pos, ks, vs) ==
    [n EXCEPT !.keys = SubSeq(@, 1, pos) \o ks \o SubSeq(@, pos + 1, Len(@)),
              !.vals = SubSeq(@, 1, pos) \o vs \o SubSeq(@, pos + 1, Len(@))]

(* insert(key, value): at lower_bound, unless the key is already there. *)
Insert(n, key, val) ==
    LET pos == LowerBound(n, key) IN
    IF pos < Len(n.keys) /\ n.keys[pos + 1] = key THEN n
    ELSE InsertPairs(n, pos, <<key>>, <<val>>)

\* Mutant of ErasePair: the keys are shifted, the rids are not.
ErasePairKeysOnly(n, pos) ==
    [n EXCEPT !.keys = SubSeq(@, 1, pos) \o SubSeq(@, pos + 2, Len(@))]

(* erase_pair(pos): shift the slots after pos left. *)
ErasePair(n, pos) ==
    [n EXCEPT !.keys = SubSeq(@, 1, pos) \o SubSeq(@, pos + 2, Len(@)),
              !.vals = SubSeq(@, 1, pos) \o SubSeq(@, pos + 2, Len(@))]

(* remove(key): erase the slot lower_bound finds, if it holds the key. *)
Remove(n, key) ==
    LET pos == LowerBound(n, key) IN
    IF pos < Len(n.keys) /\ n.keys[pos + 1] = key THEN ErasePair(n, pos) ELSE n

(* find_child: the slot whose value is the child's page number. *)
FindChild(n, child) == CHOOSE i \in 0..(Len(n.vals) - 1) : n.vals[i + 1] = child

=============================================================================
