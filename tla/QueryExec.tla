------------------------------ MODULE QueryExec ------------------------------
(***************************************************************************)
(* The read side of the executors (src/execution): a ProjectionExecutor    *)
(* over a NestedLoopJoinExecutor over two SeqScanExecutors, driven by the  *)
(* caller of the iterator interface (the planner's portal, not in the      *)
(* repository): beginTuple, then Next and nextTuple while not is_end.      *)
(*                                                                         *)
(* Each table is the sequence of its live rows in rid order, as RmScan    *)
(* visits them; a row is its join column's value.  The scans hold S on    *)
(* their tables, so the rows do not change during the query.  Each scan   *)
(* has no condition or one `col op val'; the join has one condition      *)
(* `left op right', or none.  Every call is one step.                     *)
(***************************************************************************)
EXTENDS Integers, SequencesExt

CONSTANTS
    Vals,       \* the values a row's column may hold (integers)
    MaxRows,    \* bound: rows in a table
    NoRec       \* model value: a unique_ptr<RmRecord> never assigned

Ops == {"EQ", "NE", "LT", "GT", "LE", "GE"}
NoCond == "none"      \* fed_conds_ empty
Cols == {"l", "r"}    \* the left and the right table's column

Tables == UNION {[1..n -> Vals] : n \in 0..MaxRows}

\* A scan's conditions: none, or one comparison with a value.
CondLists == {<< >>} \cup {<<c>> : c \in [op : Ops, val : Vals]}

VARIABLES
    left, right,    \* the two tables' rows, in rid order
    lconds, rconds, \* each scan's fed_conds_
    jop,            \* the join condition's operator, or NoCond
    sel,            \* the columns the projection selects
    lpos, rpos,     \* each scan's rid_: a row index, 0 for Rid{-1, -1}
    isend, lrec, rrec,  \* the join's isend, left_rec_ and right_rec_
    out,            \* the records the caller received
    pc,             \* the caller: "begin", "loop", "next", "done", "crashed"
    fault           \* a null record was dereferenced

input == <<left, right, lconds, rconds, jop, sel>>
vars == <<input, lpos, rpos, isend, lrec, rrec, out, pc, fault>>

-----------------------------------------------------------------------------
(* SeqScanExecutor.  beginTuple and nextTuple walk the scan until a row   *)
(* passes eval_conds, and set rid_ to Rid{-1, -1} when there is none.     *)
(* RmScan::next on an ended scan starts again from the first page, so     *)
(* nextTuple at the end (rid_ 0) walks from row 1.                        *)

\* eval_cond of `col op val', both ints: ix_compare, then the operator.
SeqEvalCond(c, v) ==
    CASE c.op = "EQ" -> v = c.val  [] c.op = "NE" -> v # c.val
      [] c.op = "LT" -> v < c.val  [] c.op = "GT" -> v > c.val
      [] c.op = "LE" -> v <= c.val [] c.op = "GE" -> v >= c.val

\* eval_conds: all_of the conditions.
SeqEvalConds(conds, v) == \A i \in 1..Len(conds) : SeqEvalCond(conds[i], v)

\* The first row at or after i that the conditions accept, or 0.
SeqFrom(tab, conds, i) ==
    LET hits == {j \in i..Len(tab) : SeqEvalConds(conds, tab[j])}
    IN  IF hits = {} THEN 0 ELSE Min(hits)

SeqBegin(tab, conds) == SeqFrom(tab, conds, 1)
SeqNextTuple(tab, conds, pos) == SeqFrom(tab, conds, pos + 1)
SeqIsEnd(pos) == pos = 0

-----------------------------------------------------------------------------
(* NestedLoopJoinExecutor. *)

\* eval_conds: no condition holds trivially; else compare left to right.
JoinEvalConds(op, l, r) ==
    CASE op = NoCond -> TRUE
      [] op = "EQ" -> l = r  [] op = "NE" -> l # r
      [] op = "LT" -> l < r  [] op = "GT" -> l > r
      [] op = "LE" -> l <= r [] op = "GE" -> l >= r

\* beginTuple: both children begin; the join ends only if the left is empty,
\* and takes both current records only if neither child is at its end.
JoinBegin(j) ==
    LET l == SeqBegin(left, lconds)
        r == SeqBegin(right, rconds)
    IN  [j EXCEPT !.l = l, !.r = r, !.isend = SeqIsEnd(l),
                  !.lrec = IF ~SeqIsEnd(l) /\ ~SeqIsEnd(r) THEN left[l] ELSE @,
                  !.rrec = IF ~SeqIsEnd(l) /\ ~SeqIsEnd(r) THEN right[r] ELSE @]

\* Bound: one nextTuple call loops at most once per pair of rows.
JoinFuel == (MaxRows + 1) * (MaxRows + 1)

(* One turn of nextTuple's loop: advance the right child; at its end    *)
(* advance the left one and begin the right one again, ending the join    *)
(* when either is exhausted.                                               *)
JoinStep(j) ==
    LET r  == SeqNextTuple(right, rconds, j.r)
        l  == SeqNextTuple(left, lconds, j.l)
        r0 == SeqBegin(right, rconds)
    IN  IF ~SeqIsEnd(r) THEN [j EXCEPT !.r = r, !.rrec = right[r]]
        ELSE IF SeqIsEnd(l) THEN [j EXCEPT !.l = l, !.r = r, !.isend = TRUE]
        ELSE IF SeqIsEnd(r0) THEN [j EXCEPT !.l = l, !.r = r0, !.isend = TRUE]
        ELSE [j EXCEPT !.l = l, !.r = r0, !.rrec = right[r0], !.lrec = left[l]]

\* nextTuple: turn until the join ends or its pair satisfies the conditions.
RECURSIVE JoinLoop(_, _)
JoinLoop(j, fuel) ==
    LET k == JoinStep(j)
    IN  IF fuel = 0 \/ k.isend \/ JoinEvalConds(jop, k.lrec, k.rrec) THEN k
        ELSE JoinLoop(k, fuel - 1)

JoinNextTuple(j) == IF j.isend THEN j ELSE JoinLoop(j, JoinFuel)

\* The join's state as one record, and its write-back.
Join == [l |-> lpos, r |-> rpos, isend |-> isend, lrec |-> lrec, rrec |-> rrec]
SetJoin(j) ==
    /\ lpos' = j.l /\ rpos' = j.r /\ isend' = j.isend
    /\ lrec' = j.lrec /\ rrec' = j.rrec

-----------------------------------------------------------------------------
(* ProjectionExecutor: beginTuple, nextTuple and is_end are the child's;   *)
(* Next copies the selected columns of the child's record, which is the    *)
(* join's left_rec_ followed by right_rec_.                                *)
Project(l, r) == [c \in sel |-> IF c = "l" THEN l ELSE r]

-----------------------------------------------------------------------------
(* The caller's loop. *)

Init ==
    /\ left \in Tables /\ right \in Tables
    /\ lconds \in CondLists /\ rconds \in CondLists
    /\ jop \in Ops \cup {NoCond}
    /\ sel \in SUBSET Cols \ {{}}
    /\ lpos = 0 /\ rpos = 0 /\ isend = FALSE
    /\ lrec = NoRec /\ rrec = NoRec
    /\ out = << >> /\ pc = "begin" /\ fault = FALSE

\* beginTuple of the projection.
QueryBegin ==
    /\ pc = "begin"
    /\ SetJoin(JoinBegin(Join))
    /\ pc' = "loop"
    /\ UNCHANGED <<input, out, fault>>

\* Next of the projection, while not is_end: the join's Next reads both
\* current records, a null one being a crash.
QueryNext ==
    /\ pc = "loop" /\ ~isend
    /\ IF lrec = NoRec \/ rrec = NoRec
       THEN fault' = TRUE /\ pc' = "crashed" /\ out' = out
       ELSE fault' = fault /\ pc' = "next" /\ out' = Append(out, Project(lrec, rrec))
    /\ UNCHANGED <<input, lpos, rpos, isend, lrec, rrec>>

\* nextTuple of the projection.
QueryNextTuple ==
    /\ pc = "next"
    /\ SetJoin(JoinNextTuple(Join))
    /\ pc' = "loop"
    /\ UNCHANGED <<input, out, fault>>

\* is_end: the caller stops.
QueryEnd ==
    /\ pc = "loop" /\ isend
    /\ pc' = "done"
    /\ UNCHANGED <<input, lpos, rpos, isend, lrec, rrec, out, fault>>

Next == QueryBegin \/ QueryNext \/ QueryNextTuple \/ QueryEnd

Spec == Init /\ [][Next]_vars

-----------------------------------------------------------------------------
\* The reference: every pair of accepted rows, left-major, that satisfies
\* the join condition, projected.
Expected ==
    LET L == SelectSeq(left, LAMBDA v : SeqEvalConds(lconds, v))
        R == SelectSeq(right, LAMBDA v : SeqEvalConds(rconds, v))
        row(i) == SelectSeq([k \in 1..Len(R) |-> <<L[i], R[k]>>],
                            LAMBDA p : JoinEvalConds(jop, p[1], p[2]))
        pairs == FlattenSeq([i \in 1..Len(L) |-> row(i)])
    IN  [n \in 1..Len(pairs) |-> Project(pairs[n][1], pairs[n][2])]

(* A select over a join returns exactly the joined rows: the caller never *)
(* reads a null record, and when is_end stops it, it has received each     *)
(* pair of rows both scans accept and the join condition holds for, in    *)
(* left-major order, once.  It is about beginTuple taking the first pair  *)
(* without evaluating the condition, and about a join whose right side is *)
(* empty.                                                                  *)
JoinExact ==
    /\ ~fault
    /\ pc = "done" => out = Expected
=============================================================================
