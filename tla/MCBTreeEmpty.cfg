\* An index whose last entry is deleted (root set to IX_NO_PAGE by
\* adjust_root), then given a key again: the update executor does exactly
\* this when it changes the indexed column of the only row
\* (delete_entry(old_key) then insert_entry(new_key)).
CONSTANTS
    Keys = {1, 2}
    MaxSize = 4
    MinSize = 2
    CondVals <- MCCondVals
    MaxNodePage = 4
    ReinsertAfterEmpty = TRUE
INIT IxInit
NEXT IxNext
INVARIANT NoFault
