\* A projection over a join of two scans: tables of up to two rows over the
\* values 1 and 2, every pair of scan conditions, every join operator.
CONSTANTS
    Vals <- QueryVals
    MaxRows = 2
    NoRec = NoRec
INIT Init
NEXT Next
INVARIANT JoinExact
\* The caller stops at is_end, or when a query crashes.
CHECK_DEADLOCK FALSE
