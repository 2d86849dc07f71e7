--------------------------- MODULE AbstractCatalog ---------------------------
(***************************************************************************)
(* What the system manager promises its clients: a catalog of tables,     *)
(* each with or without its index, changed by one DDL call at a time.     *)
(* create_table adds a table not yet there; drop_table removes a table    *)
(* and its index; create_index and drop_index add and remove the index of *)
(* a table.  Closing and reopening the database leaves the catalog as it  *)
(* was.                                                                    *)
(***************************************************************************)
CONSTANT Names

VARIABLES tables, indexed

ACInit == tables = {} /\ indexed = {}

ACCreateTable(n) ==
    /\ n \notin tables
    /\ tables' = tables \cup {n}
    /\ UNCHANGED indexed

ACDropTable(n) ==
    /\ n \in tables
    /\ tables' = tables \ {n}
    /\ indexed' = indexed \ {n}

ACCreateIndex(n) ==
    /\ n \in tables \ indexed
    /\ indexed' = indexed \cup {n}
    /\ UNCHANGED tables

ACDropIndex(n) ==
    /\ n \in indexed
    /\ indexed' = indexed \ {n}
    /\ UNCHANGED tables

ACNext ==
    \E n \in Names :
        ACCreateTable(n) \/ ACDropTable(n) \/ ACCreateIndex(n) \/ ACDropIndex(n)

ACSpec == ACInit /\ [][ACNext]_<<tables, indexed>>
=============================================================================
