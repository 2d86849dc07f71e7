\* Two slots per page, up to two record pages, two record images, one frame:
\* the pool holds fewer pages than the file, so the handle's calls evict and
\* re-read pages; get_record may leave one pin behind, after which calls
\* needing another page fail part-way for want of a frame.
CONSTANTS
    v1 = v1
    v2 = v2
    PerPage = 2
    MaxPages = 2
    Vals <- MCVals
    Zero = Zero
    NumFrames = 1
    GetRecords = TRUE
    MaxLeaks = 1

INIT RSInit
NEXT RSNext
INVARIANTS
    PinsReleased
    HandleWritesKept
    NumRecordsMatchBitmap
    FreeListExact
PROPERTIES
    TableRefinement
