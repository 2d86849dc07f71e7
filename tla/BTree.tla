-------------------------------- MODULE BTree --------------------------------
(***************************************************************************)
(* The B+ tree of src/index/ix_index_handle.cpp (IxIndexHandle).  The tree *)
(* is one record `ix': the file header (root, first and last leaf,         *)
(* num_pages), the disk manager's next page number, and every page's node. *)
(* Page 1 is the leaf-chain sentinel (IX_LEAF_HEADER_PAGE): its prev and    *)
(* next name the last and first leaves.                                     *)
(*                                                                         *)
(* insert_entry and delete_entry are each one step (the caller serialises  *)
(* them; the tree has no latch of its own).  Their helpers are operators   *)
(* from a tree to a tree, the code's loops and recursions as RECURSIVE     *)
(* operators.  A leaf entry's rid is the key itself: the property that a   *)
(* key and its rid stay paired is then that they stay equal.  `fault'      *)
(* records a dereference of a null or undefined node.                      *)
(***************************************************************************)
EXTENDS Integers, SequencesExt, FiniteSets

CONSTANTS
    Keys,          \* the keys inserted and deleted (integers)
    MaxSize,       \* get_max_size(): a node splits when it reaches it
    MinSize,       \* get_min_size()
    MaxNodePage,   \* bound: highest page number the index file may reach
    CondVals       \* the values the index scan's conditions compare with

Node == INSTANCE BTreeNode

NoPage == -1                 \* IX_NO_PAGE, also INVALID_PAGE_ID
LeafHeaderPage == 1          \* IX_LEAF_HEADER_PAGE
InitRootPage == 2            \* IX_INIT_ROOT_PAGE
\* Room for the pages one insert_entry may create (a leaf split, one
\* internal split and a new root) before the step is checked against the bound.
NodePages == 0..(MaxNodePage + 3)

\* A page fresh from new_page: zeroed.
ZeroNode == [leaf |-> FALSE, keys |-> << >>, vals |-> << >>, parent |-> 0,
             prev |-> 0, next |-> 0]

VARIABLE ix

\* create_index: an empty leaf as the root at page 2, chained to the
\* sentinel both ways; three pages (header, sentinel, root).
IxInit ==
    ix = [root |-> InitRootPage, firstLeaf |-> InitRootPage, lastLeaf |-> InitRootPage,
          numPages |-> 3, nextPage |-> 3, fault |-> FALSE,
          node |-> [p \in NodePages |->
                      CASE p = LeafHeaderPage ->
                             [ZeroNode EXCEPT !.prev = InitRootPage, !.next = InitRootPage]
                        [] p = InitRootPage ->
                             [ZeroNode EXCEPT !.leaf = TRUE, !.parent = NoPage,
                                              !.prev = LeafHeaderPage,
                                              !.next = LeafHeaderPage]
                        [] OTHER -> ZeroNode]]

Size(t, p) == Len(t.node[p].keys)
Key0(t, p) == t.node[p].keys[1]
IsRoot(t, p) == t.node[p].parent = NoPage
Fault(t) == [t EXCEPT !.fault = TRUE]

(* create_node: num_pages++, and new_page's page number from the disk     *)
(* manager's counter, zeroed.                                              *)
CreateNode(t) ==
    [t EXCEPT !.numPages = @ + 1, !.nextPage = @ + 1, !.node[t.nextPage] = ZeroNode]

(* release_node_handle: only num_pages--; the page is not freed. *)
ReleaseNodeHandle(t) == [t EXCEPT !.numPages = @ - 1]

(* maintain_child: the child in slot i of internal node p gets p as parent. *)
MaintainChild(t, p, i) ==
    IF t.node[p].leaf THEN t
    ELSE [t EXCEPT !.node[t.node[p].vals[i + 1]].parent = p]

\* maintain_child for every slot from i to the node's last.
RECURSIVE MaintainChildrenFrom(_, _, _)
MaintainChildrenFrom(t, p, i) ==
    IF i >= Size(t, p) THEN t ELSE MaintainChildrenFrom(MaintainChild(t, p, i), p, i + 1)

(* maintain_parent: walk up while the parent's key for this child differs *)
(* from the child's first key, copying it in.  A child with no key has no *)
(* first key to read (a fault).                                            *)
RECURSIVE MaintainParent(_, _)
MaintainParent(t, c) ==
    LET par  == t.node[c].parent
        rank == Node!FindChild(t.node[par], c)
    IN  IF par = NoPage THEN t
        ELSE IF Size(t, c) = 0 THEN Fault(t)
        ELSE IF t.node[par].keys[rank + 1] = Key0(t, c) THEN t
        ELSE MaintainParent([t EXCEPT !.node[par].keys[rank + 1] = Key0(t, c)], par)

(* find_leaf_page: descend from the root by internal_lookup. *)
RECURSIVE Descend(_, _, _)
Descend(t, p, key) ==
    IF t.node[p].leaf THEN p ELSE Descend(t, Node!InternalLookup(t.node[p], key), key)

FindLeafPage(t, key) == Descend(t, t.root, key)

IsEmpty(t) == t.root = NoPage

(* get_value: the rid of the key in its leaf, if there. *)
GetValue(t, key) ==
    IF IsEmpty(t) THEN [found |-> FALSE, rid |-> 0]
    ELSE Node!LeafLookup(t.node[FindLeafPage(t, key)], key)

(***************************************************************************)
(* The iterator positions (Iid: a leaf page and a slot in it).            *)
(***************************************************************************)
Iid(p, s) == [page |-> p, slot |-> s]

\* get_rid: the rid in the slot; the slot is below the size (else it throws
\* IndexEntryNotFoundError, which the scan below never provokes).
GetRid(t, iid) == t.node[iid.page].vals[iid.slot + 1]

\* leaf_end: one past the last slot of the last leaf.
LeafEnd(t) == Iid(t.lastLeaf, Size(t, t.lastLeaf))

\* leaf_begin: the first slot of the first leaf.
LeafBegin(t) == Iid(t.firstLeaf, 0)

\* Mutant of IxLowerBound: positions by the leaf's upper_bound.
IxLowerBoundStrict(t, key) ==
    IF IsEmpty(t) THEN Iid(NoPage, NoPage)
    ELSE LET leaf == FindLeafPage(t, key)
         IN  Iid(leaf, Node!UpperBound(t.node[leaf], key))

\* lower_bound: find_leaf_page, then the leaf's lower_bound; the slot may
\* be the leaf's size.  {-1, -1} when the tree is empty.
IxLowerBound(t, key) ==
    IF IsEmpty(t) THEN Iid(NoPage, NoPage)
    ELSE LET leaf == FindLeafPage(t, key)
         IN  Iid(leaf, Node!LowerBound(t.node[leaf], key))

\* upper_bound: find_leaf_page, then the leaf's upper_bound; a position
\* past the leaf's last slot becomes leaf_end, whichever leaf it is in, and
\* so does the empty tree.
IxUpperBound(t, key) ==
    IF IsEmpty(t) THEN LeafEnd(t)
    ELSE LET leaf == FindLeafPage(t, key)
             pos  == Node!UpperBound(t.node[leaf], key)
         IN  IF pos = Size(t, leaf) THEN LeafEnd(t) ELSE Iid(leaf, pos)

(* IxScan (its code is not in the repository; modelled from the spec): the *)
(* rids from `iid' up to `end', in leaf-chain order: it stops at `end' or   *)
(* when the chain is exhausted (no page, the sentinel, or past the last     *)
(* leaf), and moves to the next leaf at the end of one.                    *)
RECURSIVE ScanFrom(_, _, _, _)
ScanFrom(t, iid, end, fuel) ==
    IF iid = end \/ fuel = 0 \/ iid.page \in {NoPage, LeafHeaderPage} THEN << >>
    ELSE IF iid.slot >= Size(t, iid.page)
         THEN IF iid.page = t.lastLeaf THEN << >>
              ELSE ScanFrom(t, Iid(t.node[iid.page].next, 0), end, fuel - 1)
    ELSE <<GetRid(t, iid)>> \o ScanFrom(t, Iid(iid.page, iid.slot + 1), end, fuel - 1)

\* Bound: a scan visits at most four positions per page.
ScanFuel == 4 * MaxNodePage

IxScan(t, lower, upper) == ScanFrom(t, lower, upper, ScanFuel)

(* eval_cond of a condition `col op val' on an int column: compare_value's *)
(* three-way comparison, then the operator.                                *)
EvalCond(c, v) ==
    CASE c.op = "EQ" -> v = c.val  [] c.op = "NE" -> v # c.val
      [] c.op = "LT" -> v < c.val  [] c.op = "GT" -> v > c.val
      [] c.op = "LE" -> v <= c.val [] c.op = "GE" -> v >= c.val

\* eval_conds: every condition holds.
EvalConds(conds, v) == \A i \in 1..Len(conds) : EvalCond(conds[i], v)

(* beginTuple's key: a zeroed buffer into which the value of the first    *)
(* equality condition on the index column is copied; with none it stays   *)
(* zero.                                                                   *)
ScanKey(conds) ==
    LET eq == SelectSeq(conds, LAMBDA c : c.op = "EQ")
    IN  IF eq = << >> THEN 0 ELSE eq[1].val

(* IndexScanExecutor, beginTuple and nextTuple together: the scan runs    *)
(* from lower_bound(key) to upper_bound(key), and every rid whose record  *)
(* fails eval_conds is skipped (the record of rid r has key r).           *)
IndexScanExec(t, conds) ==
    LET key == ScanKey(conds)
    IN  SelectSeq(IxScan(t, IxLowerBound(t, key), IxUpperBound(t, key)),
                  LAMBDA r : EvalConds(conds, r))

\* Mutant of Split: a tail split leaves the sentinel's prev on the old leaf.
SplitKeepsSentinel(t, p) ==
    LET q     == t.nextPage
        n     == t.node[p]
        total == Len(n.keys)
        sp    == total \div 2
        t1    == CreateNode(t)
        t2    == [t1 EXCEPT !.node[q] = Node!InsertPairs(
                                 [@ EXCEPT !.leaf = n.leaf, !.parent = n.parent], 0,
                                 SubSeq(n.keys, sp + 1, total), SubSeq(n.vals, sp + 1, total)),
                            !.node[p].keys = SubSeq(n.keys, 1, sp),
                            !.node[p].vals = SubSeq(n.vals, 1, sp)]
        t3    == [t2 EXCEPT !.node[q].next = n.next, !.node[q].prev = p, !.node[p].next = q]
        nxt   == n.next
        t4    == IF nxt # LeafHeaderPage
                 THEN [t3 EXCEPT !.node[nxt].prev = q]
                 ELSE t3
    IN  [tree |-> IF n.leaf THEN t4 ELSE MaintainChildrenFrom(t2, q, 0), new |-> q]

(* split(node): a new node q right of p takes p's slots from size/2 on,   *)
(* with p's leaf flag and parent.  A leaf q is linked after p (the next   *)
(* leaf's prev, or the sentinel's prev, set to q); an internal q's        *)
(* children are reparented.  Returns the tree and q.                       *)
Split(t, p) ==
    LET q     == t.nextPage
        n     == t.node[p]
        total == Len(n.keys)
        sp    == total \div 2
        t1    == CreateNode(t)
        t2    == [t1 EXCEPT !.node[q] = Node!InsertPairs(
                                 [@ EXCEPT !.leaf = n.leaf, !.parent = n.parent], 0,
                                 SubSeq(n.keys, sp + 1, total), SubSeq(n.vals, sp + 1, total)),
                            !.node[p].keys = SubSeq(n.keys, 1, sp),
                            !.node[p].vals = SubSeq(n.vals, 1, sp)]
        t3    == [t2 EXCEPT !.node[q].next = n.next, !.node[q].prev = p, !.node[p].next = q]
        nxt   == n.next
        t4    == IF nxt # LeafHeaderPage
                 THEN [t3 EXCEPT !.node[nxt].prev = q]
                 ELSE [t3 EXCEPT !.node[LeafHeaderPage].prev = q]
    IN  [tree |-> IF n.leaf THEN t4 ELSE MaintainChildrenFrom(t2, q, 0), new |-> q]

(* insert_into_parent(old, key, new): a root old gets a new root over     *)
(* (old's first key, old) and (key, new); otherwise (key, new) goes into  *)
(* old's parent, the parent's keys are maintained from old, and a parent  *)
(* that is now full is split and inserted into its own parent.            *)
RECURSIVE InsertIntoParent(_, _, _, _)
InsertIntoParent(t, old, key, new) ==
    IF IsRoot(t, old)
    THEN LET r  == t.nextPage
             t1 == CreateNode(t)
         IN  [t1 EXCEPT !.node[r] = [@ EXCEPT !.leaf = FALSE, !.parent = NoPage,
                                              !.keys = <<Key0(t, old), key>>,
                                              !.vals = <<old, new>>],
                        !.node[old].parent = r, !.node[new].parent = r, !.root = r]
    ELSE LET par == t.node[old].parent
             t1  == [t EXCEPT !.node[par] = Node!Insert(@, key, new),
                              !.node[new].parent = par]
             t2  == MaintainParent(t1, old)
             s   == Split(t2, par)
         IN  IF Size(t2, par) = MaxSize
             THEN InsertIntoParent(s.tree, par, Key0(s.tree, s.new), s.new)
             ELSE t2

(* insert_entry: into the leaf; nothing more if the key was there; else   *)
(* maintain the parents, or split at max_size and insert into the parent, *)
(* moving last_leaf to the new leaf if the old one was last.  On an empty *)
(* tree find_leaf_page returns nullptr, which insert_entry dereferences.  *)
InsertEntry(t, key, rid) ==
    LET leaf == FindLeafPage(t, key)
        t1   == [t EXCEPT !.node[leaf] = Node!Insert(@, key, rid)]
        s    == Split(t1, leaf)
        t2   == InsertIntoParent(s.tree, leaf, Key0(s.tree, s.new), s.new)
    IN  IF IsEmpty(t) THEN Fault(t)
        ELSE IF Size(t1, leaf) = Size(t, leaf) THEN t
        ELSE IF Size(t1, leaf) # MaxSize THEN MaintainParent(t1, leaf)
        ELSE IF leaf = t.lastLeaf THEN [t2 EXCEPT !.lastLeaf = s.new]
        ELSE t2

(* adjust_root: an internal root left with one child hands the root to    *)
(* that child; a leaf root left empty empties the tree.  Either way the   *)
(* old root's page is released (num_pages--).                              *)
AdjustRoot(t, p) ==
    LET child == t.node[p].vals[1] IN
    IF ~t.node[p].leaf /\ Size(t, p) = 1
    THEN ReleaseNodeHandle([t EXCEPT !.node[p].keys = << >>, !.node[p].vals = << >>,
                                     !.node[child].parent = NoPage, !.root = child])
    ELSE IF t.node[p].leaf /\ Size(t, p) = 0
    THEN [ReleaseNodeHandle(t) EXCEPT !.root = NoPage]
    ELSE t

\* Mutant of Redistribute: from a left neighbor, slot 0 is erased instead
\* of the last slot, the one moved.
RedistributeErasesFirst(t, nb, p, index) ==
    LET m  == t.node[nb]
        l  == Len(m.keys)
    IN  IF index = 0
        THEN LET t1 == [t EXCEPT !.node[p] = Node!Insert(@, m.keys[1], m.vals[1]),
                                 !.node[nb] = Node!ErasePair(@, 0)]
             IN  MaintainParent(MaintainChild(t1, p, Size(t1, p) - 1), nb)
        ELSE LET t1 == [t EXCEPT !.node[p] = Node!InsertPairs(@, 0, <<m.keys[l]>>, <<m.vals[l]>>),
                                 !.node[nb] = Node!ErasePair(@, 0)]
             IN  MaintainParent(MaintainChild(t1, p, 0), p)

(* redistribute(neighbor, node, parent, index): one entry moves from the  *)
(* neighbor's near edge to the node: the right neighbor's first (index 0) *)
(* by insert, or the left neighbor's last to slot 0; a moved child is     *)
(* reparented, and the parent keys of the side whose first key changed    *)
(* are maintained.                                                         *)
Redistribute(t, nb, p, index) ==
    LET m  == t.node[nb]
        l  == Len(m.keys)
    IN  IF index = 0
        THEN LET t1 == [t EXCEPT !.node[p] = Node!Insert(@, m.keys[1], m.vals[1]),
                                 !.node[nb] = Node!ErasePair(@, 0)]
             IN  MaintainParent(MaintainChild(t1, p, Size(t1, p) - 1), nb)
        ELSE LET t1 == [t EXCEPT !.node[p] = Node!InsertPairs(@, 0, <<m.keys[l]>>, <<m.vals[l]>>),
                                 !.node[nb] = Node!ErasePair(@, l - 1)]
             IN  MaintainParent(MaintainChild(t1, p, 0), p)

\* Mutant of Coalesce: the moved children keep the right node as parent.
CoalesceNoReparent(t, nb, p, index) ==
    LET left  == IF index = 0 THEN p ELSE nb
        right == IF index = 0 THEN nb ELSE p
        slot  == IF index = 0 THEN 1 ELSE index
        ls    == Size(t, left)
        r     == t.node[right]
        par   == t.node[p].parent
        t1    == [t EXCEPT !.node[left] = Node!InsertPairs(@, ls, r.keys, r.vals)]
        rn    == r.next
        t2    == [t1 EXCEPT !.node[left].next = rn]
        t3    == IF rn # LeafHeaderPage THEN [t2 EXCEPT !.node[rn].prev = left]
                 ELSE [t2 EXCEPT !.node[LeafHeaderPage].prev = left]
        t4    == [t3 EXCEPT !.firstLeaf = IF right = @ THEN left ELSE @,
                            !.lastLeaf = IF right = @ THEN left ELSE @]
        t5    == IF t.node[left].leaf THEN t4 ELSE t1
    IN  [tree |-> ReleaseNodeHandle([t5 EXCEPT !.node[par] = Node!ErasePair(@, slot)]),
         left |-> left]

(* coalesce(neighbor, node, parent, index): the left of the two (the node *)
(* itself when it is child 0) takes all of the right's entries, children   *)
(* reparented; a right leaf is unlinked from the chain (the next leaf's    *)
(* prev or the sentinel's, first_leaf and last_leaf); the parent loses    *)
(* the right's slot and the right's page is released.  Returns the tree    *)
(* and the left node.                                                      *)
Coalesce(t, nb, p, index) ==
    LET left  == IF index = 0 THEN p ELSE nb
        right == IF index = 0 THEN nb ELSE p
        slot  == IF index = 0 THEN 1 ELSE index
        ls    == Size(t, left)
        r     == t.node[right]
        par   == t.node[p].parent
        t1    == MaintainChildrenFrom(
                    [t EXCEPT !.node[left] = Node!InsertPairs(@, ls, r.keys, r.vals)],
                    left, ls)
        rn    == r.next
        t2    == [t1 EXCEPT !.node[left].next = rn]
        t3    == IF rn # LeafHeaderPage THEN [t2 EXCEPT !.node[rn].prev = left]
                 ELSE [t2 EXCEPT !.node[LeafHeaderPage].prev = left]
        t4    == [t3 EXCEPT !.firstLeaf = IF right = @ THEN left ELSE @,
                            !.lastLeaf = IF right = @ THEN left ELSE @]
        t5    == IF t.node[left].leaf THEN t4 ELSE t1
    IN  [tree |-> ReleaseNodeHandle([t5 EXCEPT !.node[par] = Node!ErasePair(@, slot)]),
         left |-> left]

\* Mutant of CoalesceOrRedistribute: always the right sibling, which the
\* last child does not have.
RECURSIVE CoalesceOrRedistributeRight(_, _)
CoalesceOrRedistributeRight(t, p) ==
    LET par   == t.node[p].parent
        idx   == Node!FindChild(t.node[par], p)
        nidx  == idx + 1
        nb    == t.node[par].vals[nidx + 1]
        c     == Coalesce(t, nb, p, idx)
        t1    == MaintainParent(c.tree, c.left)
        t2    == IF Size(t1, par) > 0 THEN MaintainParent(t1, par) ELSE t1
    IN  IF IsRoot(t, p) THEN AdjustRoot(t, p)
        ELSE IF Size(t, p) >= MinSize THEN t
        ELSE IF nidx >= Size(t, par) THEN Fault(t)
        ELSE IF Size(t, p) + Size(t, nb) >= 2 * MinSize
        THEN MaintainParent(MaintainParent(Redistribute(t, nb, p, idx), nb), p)
        ELSE IF Size(c.tree, par) < MinSize THEN CoalesceOrRedistributeRight(t2, par)
        ELSE t1

(* coalesce_or_redistribute(node): a root is adjusted; a node at min_size *)
(* or more is left alone; otherwise its left sibling (the right one for   *)
(* child 0) lends an entry if the two hold 2 * min_size or more, else the *)
(* two are merged, and a parent left under min_size is handled in turn.   *)
RECURSIVE CoalesceOrRedistribute(_, _)
CoalesceOrRedistribute(t, p) ==
    LET par   == t.node[p].parent
        idx   == Node!FindChild(t.node[par], p)
        nidx  == IF idx = 0 THEN 1 ELSE idx - 1
        nb    == t.node[par].vals[nidx + 1]
        c     == Coalesce(t, nb, p, idx)
        t1    == MaintainParent(c.tree, c.left)
        t2    == IF Size(t1, par) > 0 THEN MaintainParent(t1, par) ELSE t1
    IN  IF IsRoot(t, p) THEN AdjustRoot(t, p)
        ELSE IF Size(t, p) >= MinSize THEN t
        ELSE IF nidx >= Size(t, par) THEN Fault(t)
        ELSE IF Size(t, p) + Size(t, nb) >= 2 * MinSize
        THEN MaintainParent(MaintainParent(Redistribute(t, nb, p, idx), nb), p)
        ELSE IF Size(c.tree, par) < MinSize THEN CoalesceOrRedistribute(t2, par)
        ELSE t1

(* delete_entry: out of its leaf; nothing more if it was not there (or the *)
(* tree is empty); else maintain the parents of a leaf that still has     *)
(* keys, and handle a leaf left under min_size.                            *)
DeleteEntry(t, key) ==
    LET leaf == FindLeafPage(t, key)
        t1   == [t EXCEPT !.node[leaf] = Node!Remove(@, key)]
        t2   == IF Size(t1, leaf) > 0 THEN MaintainParent(t1, leaf) ELSE t1
    IN  IF IsEmpty(t) THEN t
        ELSE IF Size(t1, leaf) = Size(t, leaf) THEN t
        ELSE IF Size(t1, leaf) < MinSize THEN CoalesceOrRedistribute(t2, leaf)
        ELSE t2

-----------------------------------------------------------------------------
(***************************************************************************)
(* The index as the executors drive it: insert_entry and delete_entry of  *)
(* one key at a time (rid = key).  Pages are never reused (release_node_  *)
(* handle frees nothing, create_node always takes the disk manager's next *)
(* page), so a step that would pass MaxNodePage is not taken.  With       *)
(* ReinsertAfterEmpty FALSE no key is inserted once the tree is empty.    *)
(***************************************************************************)
CONSTANT ReinsertAfterEmpty

IxTypeOK ==
    /\ ix.root \in NodePages \cup {NoPage}
    /\ {ix.firstLeaf, ix.lastLeaf} \subseteq NodePages
    /\ ix.numPages \in Nat /\ ix.nextPage \in Nat /\ ix.fault \in BOOLEAN
    /\ \A p \in NodePages :
         /\ ix.node[p].leaf \in BOOLEAN
         /\ ix.node[p].keys \in Seq(Keys) /\ Len(ix.node[p].vals) = Len(ix.node[p].keys)
         /\ {ix.node[p].parent, ix.node[p].prev, ix.node[p].next} \subseteq NodePages \cup {NoPage}

Fits(t) == t.nextPage <= MaxNodePage + 1

InsertKey(k) ==
    /\ ~ix.fault
    /\ ReinsertAfterEmpty \/ ~IsEmpty(ix)
    /\ Fits(InsertEntry(ix, k, k))
    /\ ix' = InsertEntry(ix, k, k)

DeleteKey(k) ==
    /\ ~ix.fault
    /\ ix' = DeleteEntry(ix, k)

IxNext == \E k \in Keys : InsertKey(k) \/ DeleteKey(k)

IxSpec == IxInit /\ [][IxNext]_ix

-----------------------------------------------------------------------------
(***************************************************************************)
(* The tree as it should be                                                *)
(***************************************************************************)

\* The pages reachable from p through child pointers.
RECURSIVE Subtree(_, _, _)
Subtree(t, p, fuel) ==
    IF t.node[p].leaf \/ fuel = 0 THEN {p}
    ELSE {p} \cup UNION {Subtree(t, t.node[p].vals[i], fuel - 1) : i \in 1..Size(t, p)}

LiveNodes(t) == IF IsEmpty(t) THEN {} ELSE Subtree(t, t.root, MaxNodePage)
LiveLeaves(t) == {p \in LiveNodes(t) : t.node[p].leaf}

\* The key/rid pairs the leaves hold.
Entries(t) == UNION {{<<t.node[p].keys[i], t.node[p].vals[i]>> : i \in 1..Size(t, p)} :
                     p \in LiveLeaves(t)}

\* The leaf pages met following next from the sentinel, at most `fuel'.
RECURSIVE ChainFrom(_, _, _)
ChainFrom(t, p, fuel) ==
    IF p = LeafHeaderPage \/ fuel = 0 THEN << >>
    ELSE <<p>> \o ChainFrom(t, t.node[p].next, fuel - 1)

LeafChain(t) == ChainFrom(t, t.node[LeafHeaderPage].next, MaxNodePage)

RECURSIVE Depth(_, _, _)
Depth(t, p, fuel) ==
    IF t.node[p].leaf \/ fuel = 0 THEN 0 ELSE 1 + Depth(t, t.node[p].vals[1], fuel - 1)

\* The number of internal levels above p.
RECURSIVE ParentDepth(_, _, _)
ParentDepth(t, p, fuel) ==
    IF IsRoot(t, p) \/ fuel = 0 THEN 0 ELSE 1 + ParentDepth(t, t.node[p].parent, fuel - 1)

\* Search targets on, between and around the keys.
Probes == {k - 1 : k \in Keys} \cup Keys \cup {k + 1 : k \in Keys}

\* The first slot of n whose key satisfies P, or the size when none does.
FirstSlot(n, P(_)) ==
    LET hits == {i \in 0..(Len(n.keys) - 1) : P(n.keys[i + 1])}
    IN  IF hits = {} THEN Len(n.keys) ELSE CHOOSE i \in hits : \A j \in hits : i <= j

SortedSeq(s) == \A i \in 1..(Len(s) - 1) : s[i] < s[i + 1]

(* The leaf chain: following next from the sentinel visits every leaf of  *)
(* the tree once, left to right, back to the sentinel; prev mirrors next; *)
(* the sentinel and the file header name the same first and last leaf;   *)
(* and the keys read along the chain ascend.  split, coalesce and the     *)
(* insert path each patch a different part of this (the neighbour's prev, *)
(* the sentinel's prev, first_leaf, last_leaf) by hand, and a range scan  *)
(* (IxScan) walks exactly this chain.                                      *)
LeafChainExact ==
    ~IsEmpty(ix) =>
      LET c == LeafChain(ix)
          n == Len(c)
      IN  /\ n = Cardinality(LiveLeaves(ix))
          /\ {c[i] : i \in 1..n} = LiveLeaves(ix)
          /\ ix.node[c[n]].next = LeafHeaderPage
          /\ \A i \in 1..n : ix.node[c[i]].prev = IF i = 1 THEN LeafHeaderPage ELSE c[i - 1]
          /\ ix.firstLeaf = c[1] /\ ix.lastLeaf = c[n]
          /\ ix.node[LeafHeaderPage].prev = c[n]
          /\ SortedSeq(FlattenSeq([i \in 1..n |-> ix.node[c[i]].keys]))

(* The shape of a B+ tree: every node's keys ascend; each child of an     *)
(* internal node names it as parent, and the node's key for it is the     *)
(* child's first key (the least key of its subtree); all leaves lie at    *)
(* one depth; and nodes other than the root hold from min_size up to      *)
(* max_size - 1 entries, an internal root at least two.  maintain_parent, *)
(* maintain_child, redistribute and coalesce keep this together over      *)
(* several nodes, in an order that differs from path to path.             *)
TreeShape ==
    \A p \in LiveNodes(ix) :
      LET n == ix.node[p] IN
      /\ SortedSeq(n.keys)
      /\ ~n.leaf => \A i \in 1..Len(n.keys) :
                      /\ ix.node[n.vals[i]].parent = p
                      /\ Size(ix, n.vals[i]) > 0
                      /\ n.keys[i] = Key0(ix, n.vals[i])
                      /\ i < Len(n.keys) => \A k \in Range(ix.node[n.vals[i]].keys) : k < n.keys[i + 1]
      /\ n.leaf => ParentDepth(ix, p, MaxNodePage) = Depth(ix, ix.root, MaxNodePage)
      /\ p # ix.root => Len(n.keys) \in MinSize..(MaxSize - 1)
      /\ p = ix.root /\ ~n.leaf => Len(n.keys) >= 2

(* get_value finds exactly the keys the leaves hold, with their rids: the *)
(* descent by internal_lookup over the separators always reaches the leaf *)
(* a key was put in.                                                       *)
LookupExact ==
    \A k \in Keys : GetValue(ix, k) = IF <<k, k>> \in Entries(ix) THEN [found |-> TRUE, rid |-> k]
                                      ELSE [found |-> FALSE, rid |-> 0]

(* lower_bound and upper_bound, on every node of every tree reached, find *)
(* the first slot not below and the first slot above the target: their    *)
(* halving of [left, right) neither reads past the last key nor stops one *)
(* slot short, on full nodes, one-key nodes and the empty root alike.    *)
SearchesExact ==
    \A p \in LiveNodes(ix), t \in Probes :
      /\ Node!LowerBound(ix.node[p], t) = FirstSlot(ix.node[p], LAMBDA k : k >= t)
      /\ Node!UpperBound(ix.node[p], t) = FirstSlot(ix.node[p], LAMBDA k : k > t)

\* The keys of the tree's entries, and those between lo and hi.
AllKeys(t) == {e[1] : e \in Entries(t)}
KeysIn(t, lo, hi) == {k \in AllKeys(t) : lo <= k /\ k <= hi}

\* s holds exactly the keys of S, ascending.
SortedAs(s, S) == SortedSeq(s) /\ Range(s) = S

\* The conditions of an index scan on the index column: one or two, each
\* `col op val'; and whether one of them is an equality.
CondOps == {"EQ", "NE", "LT", "GT", "LE", "GE"}
Conds == [op : CondOps, val : CondVals]
ExecConds == {<<[op |-> "EQ", val |-> k]>> : k \in Probes}
             \cup {<<c>> : c \in Conds} \cup {<<c, d>> : c, d \in Conds}
HasEq(conds) == \E i \in 1..Len(conds) : conds[i].op = "EQ"

(* Scans over the index.  IxScan(leaf_begin, leaf_end) yields every key,  *)
(* ascending (spec 8, "scan equals sort"); a range scan from              *)
(* lower_bound(a) to upper_bound(b), with the keys outside [a, b] dropped, *)
(* yields exactly the keys in [a, b]; and the index scan executor yields  *)
(* ascending rids of rows that satisfy all its conditions, and every such *)
(* row when one condition is an equality (its key is then the probe).     *)
(* lower_bound may stop at the size of a leaf that is not the last, and   *)
(* upper_bound turns a position past any leaf's end into leaf_end, so a   *)
(* scan must cross leaves without losing a key at either end.             *)
IndexScanExact ==
    /\ SortedAs(IxScan(ix, LeafBegin(ix), LeafEnd(ix)), AllKeys(ix))
    /\ \A a, b \in Probes :
         a < b =>
           SortedAs(SelectSeq(IxScan(ix, IxLowerBound(ix, a), IxUpperBound(ix, b)),
                              LAMBDA k : a <= k /\ k <= b),
                    KeysIn(ix, a, b))
    /\ \A conds \in ExecConds :
         LET out  == IndexScanExec(ix, conds)
             want == {k \in AllKeys(ix) : EvalConds(conds, k)}
         IN  /\ SortedSeq(out) /\ Range(out) \subseteq want
             /\ HasEq(conds) => Range(out) = want

(* No step dereferences a null node: in particular insert_entry on a tree *)
(* that delete_entry emptied (root IX_NO_PAGE).                            *)
NoFault == ~ix.fault
=============================================================================
