\* Serial transactions: the page record count after an abort.
CONSTANTS
    t1 = t1
    t2 = t2
    t3 = t3
    tab = tab
    v1 = v1
    v2 = v2
    Zero = Zero
    NoLock = NoLock
    NoRid = NoRid
    NoImage = NoImage
    Txns <- MCTxns
    TableLocks <- MCTableLocks
    TableLock = tab
    RecordLocks <- Rids
    Vals <- MCVals
    PerPage = 2
    MaxPages = 2
    Inserters <- MCTxns
    MaxStmts = 2
    IndexInit <- MCNoIndex
    NoIndex = NoIndex
    NoHandle = NoHandle
    Serial = TRUE

INIT TxnInit
NEXT TxnNext
SYMMETRY MCSymmetry
INVARIANT NumRecordsMatchBitmap
\* Every run ends with all transactions committed or aborted: the system stops.
CHECK_DEADLOCK FALSE
