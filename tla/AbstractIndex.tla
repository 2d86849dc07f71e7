---------------------------- MODULE AbstractIndex ----------------------------
(***************************************************************************)
(* What an index handle promises its executors: a set of (key, rid)        *)
(* entries with at most one entry per key.  insert_entry adds an entry    *)
(* unless its key is present; delete_entry removes the key's entry, if    *)
(* any.  get_value answers from this set.                                 *)
(***************************************************************************)
CONSTANTS Keys, Rids

VARIABLE entries

AITypeOK == entries \subseteq Keys \X Rids

AIInit == entries = {}

HasKey(k) == \E e \in entries : e[1] = k

AIInsert(k, r) ==
    entries' = IF HasKey(k) THEN entries ELSE entries \cup {<<k, r>>}

AIDelete(k) ==
    entries' = {e \in entries : e[1] # k}

AINext == \E k \in Keys : (\E r \in Rids : AIInsert(k, r)) \/ AIDelete(k)

AISpec == AIInit /\ [][AINext]_entries
=============================================================================
