\* Three concurrent transactions, one statement each: abort after a refused delete.
CONSTANTS
    t1 = t1
    t2 = t2
    t3 = t3
    tab = tab
    v1 = v1
    v2 = v2
    Zero = Zero
    NoLock = NoLock
    NoRid = NoRid
    NoImage = NoImage
    Txns <- MCTxns3
    TableLocks <- MCTableLocks
    TableLock = tab
    RecordLocks <- Rids
    Vals <- MCVals
    PerPage = 2
    MaxPages = 2
    Inserters <- MCTxns3
    MaxStmts = 1
    IndexInit <- MCNoIndex
    NoIndex = NoIndex
    NoHandle = NoHandle
    Serial = FALSE

INIT TxnInit
NEXT TxnNext
SYMMETRY MCSymmetry3
INVARIANT UndoUnderOwnX
\* Every run ends with all transactions committed or aborted: the system stops.
CHECK_DEADLOCK FALSE
