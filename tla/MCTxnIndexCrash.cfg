\* Serial transactions on a table with an index: abort of an insert.
CONSTANTS
    t1 = t1
    t2 = t2
    t3 = t3
    tab = tab
    v1 = v1
    v2 = v2
    Zero = Zero
    NoLock = NoLock
    NoRid = NoRid
    NoImage = NoImage
    Txns <- MCTxns
    TableLocks <- MCTableLocks
    TableLock = tab
    RecordLocks <- Rids
    Vals <- MCVals
    PerPage = 2
    MaxPages = 2
    Inserters <- MCTxns
    MaxStmts = 2
    IndexInit <- MCIndexOpen
    NoIndex = NoIndex
    NoHandle = NoHandle
    Serial = TRUE

INIT TxnInit
NEXT TxnNext
SYMMETRY MCSymmetry
INVARIANT AbortNeverFaults
\* Every run ends with all transactions committed or aborted: the system stops.
CHECK_DEADLOCK FALSE
