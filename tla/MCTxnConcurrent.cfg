\* Three concurrent transactions, two statements each, on a table with no
\* index or with an index whose handle is missing; every thread scheduled.  One of them inserts (two inserters race on a slot, which
\* MCTxnInsertRace.cfg shows); all three delete and update.
CONSTANTS
    t1 = t1
    t2 = t2
    t3 = t3
    tab = tab
    v1 = v1
    v2 = v2
    Zero = Zero
    NoLock = NoLock
    NoRid = NoRid
    NoImage = NoImage
    Txns <- MCTxns3
    TableLocks <- MCTableLocks
    TableLock = tab
    RecordLocks <- Rids
    Vals <- MCVals
    PerPage = 2
    MaxPages = 2
    Inserters <- MCInserters
    MaxStmts = 2
    IndexInit <- MCIndexNoneOrMissing
    NoIndex = NoIndex
    NoHandle = NoHandle
    Serial = FALSE

SPECIFICATION TxnSpec
INVARIANT TxnTypeOK
PROPERTIES
    AbortRestores
    WritesIsolated
    EveryTxnEnds
\* Every run ends with all transactions committed or aborted: the system stops.
CHECK_DEADLOCK FALSE
