\* As MCRecordStore.cfg with one record image: callers read rows by
\* get_record, as every scan and write executor does, and it never unpins.
CONSTANTS
    v1 = v1
    v2 = v2
    PerPage = 2
    MaxPages = 2
    Vals = {v1}
    Zero = Zero
    NumFrames = 1
    GetRecords = TRUE
    MaxLeaks = 1

INIT RSInit
NEXT RSNext
INVARIANT InsertSucceeds
