---------------------------- MODULE AbstractTable ----------------------------
(***************************************************************************)
(* What a record file promises its callers (spec sections 3 and 4.2): a   *)
(* table from rids to records.  An insert gives the record a rid no live   *)
(* record has; delete and update act on a live rid and on nothing else.    *)
(***************************************************************************)
CONSTANTS Rids, Vals

VARIABLE table   \* a function from the live rids to their records

Init == table = [r \in {} |-> CHOOSE v \in Vals : TRUE]

Insert(v) ==
    \E r \in Rids \ DOMAIN table :
        table' = [x \in DOMAIN table \cup {r} |-> IF x = r THEN v ELSE table[x]]

Delete(r) ==
    /\ r \in DOMAIN table
    /\ table' = [x \in DOMAIN table \ {r} |-> table[x]]

Update(r, v) ==
    /\ r \in DOMAIN table
    /\ table' = [table EXCEPT ![r] = v]

Next ==
    \/ \E v \in Vals : Insert(v)
    \/ \E r \in Rids : Delete(r) \/ \E v \in Vals : Update(r, v)

Spec == Init /\ [][Next]_table
=============================================================================
