------------------------------- MODULE Catalog -------------------------------
(***************************************************************************)
(* The DDL of src/system/sm_manager.cpp (SmManager) over the lock manager. *)
(* The catalog is db_ (which tables exist and which of them list their     *)
(* index), the open file handles fhs_ and index handles ihs_, each open    *)
(* handle holding a file descriptor, and the metadata file flush_meta      *)
(* writes.  Table locks are keyed by fd (LockDataId(fd, TABLE)), and the  *)
(* fd of a closed file is handed out again: open(2) returns the lowest fd  *)
(* not in use.  Each table has at most one index (one column set), named  *)
(* after the table.  File contents and the metadata format are left out.  *)
(*                                                                         *)
(* Each DDL call is one step, taken by a GROWING transaction; a call that  *)
(* throws TableExistsError or TableNotFoundError before any lock or change *)
(* is a stutter and left out.                                              *)
(***************************************************************************)
EXTENDS LockManager, Integers, FiniteSetsExt

CONSTANTS
    Names,   \* table names
    NoFd     \* model value: no handle open

\* The fds the process may open: the table lock ids.
Fds == TableLocks

VARIABLES
    tabs,    \* db_.tabs_: the tables of the catalog
    ixs,     \* the tables whose TabMeta lists the index
    fhs,     \* fhs_: the fd of each table's open file handle, or NoFd
    ihs,     \* ihs_: the fd of each table's open index handle, or NoFd
    meta,    \* the catalog as flush_meta last wrote it
    leaked,  \* fds of index handles close_db dropped without closing
    dbOpen   \* between open_db and close_db

catVars == <<tabs, ixs, fhs, ihs, meta, leaked, dbOpen>>
vars == <<lmVars, catVars>>

CatTypeOK ==
    /\ LMTypeOK
    /\ tabs \subseteq Names /\ ixs \subseteq Names
    /\ fhs \in [Names -> Fds \cup {NoFd}] /\ ihs \in [Names -> Fds \cup {NoFd}]
    /\ meta \in [tabs : SUBSET Names, ixs : SUBSET Names]
    /\ leaked \subseteq Fds /\ dbOpen \in BOOLEAN

CatInit ==
    /\ LMInit
    /\ tabs = {} /\ ixs = {}
    /\ fhs = [n \in Names |-> NoFd] /\ ihs = [n \in Names |-> NoFd]
    /\ meta = [tabs |-> {}, ixs |-> {}]
    /\ leaked = {} /\ dbOpen = TRUE

\* The fds in use, and the one the next open(2) returns.
InUse == (({fhs[n] : n \in Names} \cup {ihs[n] : n \in Names}) \ {NoFd}) \cup leaked
CanOpen == Fds \ InUse # {}
LowestFree == Min(Fds \ InUse)

\* flush_meta: db_ as it is after the step.
FlushMeta == meta' = [tabs |-> tabs', ixs |-> ixs']

\* A lock request of a DDL call: granted, or refused (ABORTED, throw).
Granted(t, f, k) == Grant(t, f, k) /\ UNCHANGED <<txnState, ended>>
Refused(t, f, k) == Refuse(t, f, k) /\ UNCHANGED <<catVars, ended>>

-----------------------------------------------------------------------------
(* create_table: create and open the file and add the table to db_ and    *)
(* fhs_, then ask for X on the new fd; a refusal throws before flush_meta. *)
CreateTable(t, n) ==
    LET f == LowestFree IN
    /\ dbOpen /\ txnState[t] = "GROWING"
    /\ n \notin tabs
    /\ CanOpen
    /\ tabs' = tabs \cup {n}
    /\ fhs' = [fhs EXCEPT ![n] = f]
    /\ UNCHANGED <<ixs, ihs, leaked, dbOpen>>
    /\ \/ Granted(t, f, "lock_exclusive_on_table") /\ FlushMeta
       \/ Refuse(t, f, "lock_exclusive_on_table") /\ UNCHANGED <<meta, ended>>

(* drop_table: X on the table's fd, then close the file, destroy it and   *)
(* erase the table (with its index) from db_.  The index handle and file  *)
(* are left as they are.                                                   *)
DropTable(t, n) ==
    LET f == fhs[n] IN
    /\ dbOpen /\ txnState[t] = "GROWING"
    /\ n \in tabs
    /\ \/ Refused(t, f, "lock_exclusive_on_table")
       \/ /\ Granted(t, f, "lock_exclusive_on_table")
          /\ fhs' = [fhs EXCEPT ![n] = NoFd]
          /\ tabs' = tabs \ {n} /\ ixs' = ixs \ {n}
          /\ UNCHANGED <<ihs, leaked, dbOpen>>
          /\ FlushMeta

(* create_index: S on the table's fd; IndexExistsError if db_ lists the   *)
(* index, and a throw if no fd is free for the index file; else create    *)
(* and open it, list it, and put its handle in ihs_.  A handle drop_table *)
(* left there is destroyed without close_index, so its fd stays in use.   *)
CreateIndex(t, n) ==
    LET f == fhs[n] IN
    /\ dbOpen /\ txnState[t] = "GROWING"
    /\ n \in tabs
    /\ \/ Refused(t, f, "lock_shared_on_table")
       \/ /\ Granted(t, f, "lock_shared_on_table")
          /\ IF n \in ixs \/ ~CanOpen THEN UNCHANGED catVars
             ELSE /\ ixs' = ixs \cup {n}
                  /\ ihs' = [ihs EXCEPT ![n] = LowestFree]
                  /\ leaked' = leaked \cup ({ihs[n]} \ {NoFd})
                  /\ UNCHANGED <<tabs, fhs, dbOpen>>
                  /\ FlushMeta

(* drop_index: S on the table's fd; IndexNotFoundError unless db_ lists   *)
(* the index; else close the handle if ihs_ has one, destroy the file and *)
(* erase the index from the TabMeta.                                       *)
DropIndex(t, n) ==
    LET f == fhs[n] IN
    /\ dbOpen /\ txnState[t] = "GROWING"
    /\ n \in tabs
    /\ \/ Refused(t, f, "lock_shared_on_table")
       \/ /\ Granted(t, f, "lock_shared_on_table")
          /\ IF n \notin ixs THEN UNCHANGED catVars
             ELSE /\ ihs' = [ihs EXCEPT ![n] = NoFd]
                  /\ ixs' = ixs \ {n}
                  /\ UNCHANGED <<tabs, fhs, leaked, dbOpen>>
                  /\ FlushMeta

\* Mutant of CloseDb: the handles closed without flush_meta.
CloseDbNoFlush ==
    /\ dbOpen
    /\ \A id \in LockIds, t \in Txns : lockTable[id][t] = NoLock
    /\ leaked' = leaked \cup ({ihs[n] : n \in Names} \ {NoFd})
    /\ fhs' = [n \in Names |-> NoFd] /\ ihs' = [n \in Names |-> NoFd]
    /\ dbOpen' = FALSE
    /\ UNCHANGED <<lmVars, tabs, ixs, meta>>

(* close_db, at shutdown with no lock held: flush_meta, close every table *)
(* file, and clear fhs_ and ihs_; the index handles are not closed, so     *)
(* their fds stay in use.  db_ is kept until the next open_db.             *)
CloseDb ==
    /\ dbOpen
    /\ \A id \in LockIds, t \in Txns : lockTable[id][t] = NoLock
    /\ meta' = [tabs |-> tabs, ixs |-> ixs]
    /\ leaked' = leaked \cup ({ihs[n] : n \in Names} \ {NoFd})
    /\ fhs' = [n \in Names |-> NoFd] /\ ihs' = [n \in Names |-> NoFd]
    /\ dbOpen' = FALSE
    /\ UNCHANGED <<lmVars, tabs, ixs>>

\* The k lowest fds of a set.
LowestOf(S, k) == {f \in S : Cardinality({g \in S : g < f}) < k}

(* open_db: read db_ from the metadata file and open a file handle for    *)
(* each of its tables (in name order, each open(2) taking the lowest free  *)
(* fd); ihs_ is left empty.  An open_file that fails throws UnixError      *)
(* mid-loop; that case is left out.                                        *)
OpenDb ==
    /\ ~dbOpen
    /\ Cardinality(meta.tabs) <= Cardinality(Fds \ InUse)
    /\ tabs' = meta.tabs /\ ixs' = meta.ixs
    /\ \E g \in [meta.tabs -> LowestOf(Fds \ InUse, Cardinality(meta.tabs))] :
          /\ IsInjective(g)
          /\ fhs' = [n \in Names |-> IF n \in meta.tabs THEN g[n] ELSE NoFd]
    /\ ihs' = [n \in Names |-> NoFd]
    /\ dbOpen' = TRUE
    /\ UNCHANGED <<lmVars, meta, leaked>>

(* The lock calls of the executors: on the fd of a table of the catalog,  *)
(* on a record, and commit and abort.                                      *)
StmtLocks(t) ==
    \/ \E n \in tabs, k \in TableRequests : Request(t, fhs[n], k)
    \/ \E id \in RecordLocks, k \in RecordRequests : Request(t, id, k)
    \/ Commit(t)
    \/ Abort(t)

CatNext ==
    \/ CloseDb
    \/ OpenDb
    \/ \E t \in Txns :
       \/ dbOpen /\ StmtLocks(t) /\ UNCHANGED catVars
       \/ \E n \in Names :
             \/ CreateTable(t, n) \/ DropTable(t, n)
             \/ CreateIndex(t, n) \/ DropIndex(t, n)

CatSpec == CatInit /\ [][CatNext]_vars

-----------------------------------------------------------------------------
(* The catalog as clients see it: db_ while the database is open, and the *)
(* metadata file while it is closed.                                       *)
AC == INSTANCE AbstractCatalog
        WITH tables  <- IF dbOpen THEN tabs ELSE meta.tabs,
             indexed <- IF dbOpen THEN ixs ELSE meta.ixs

(* The catalog changes only by whole DDL calls, and close_db followed by   *)
(* open_db gives back the catalog as it was.  It is about close_db's      *)
(* flush_meta catching up with the tables a refused create_table left in  *)
(* db_ and not in the file, open_db reading db_ back, and drop_table      *)
(* erasing the table's index with it.                                      *)
CatalogRefines == AC!ACSpec
=============================================================================
