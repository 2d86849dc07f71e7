\* Three transactions calling the lock manager's request functions on the
\* fds of the catalog's tables and one record, and create_table, drop_table,
\* create_index and drop_index on two table names.  Two fds for the table
\* and index files together: a dropped table's fd is reused, and the fds
\* run out.
CONSTANTS
    t1 = t1
    t2 = t2
    t3 = t3
    rec1 = rec1
    n1 = n1
    n2 = n2
    NoLock = NoLock
    NoFd = NoFd
    Txns <- MCTxns
    TableLocks <- MCFds
    RecordLocks <- MCRecordLocks
    Names <- MCNames
SYMMETRY MCSymmetry
INIT CatInit
NEXT CatNext

INVARIANT GrantedCompatible
INVARIANT NoLockAfterEnd
PROPERTY HeldModesOnlyGrow
PROPERTY CatalogRefines
\* Every run ends with all transactions committed or aborted: the system stops.
CHECK_DEADLOCK FALSE
