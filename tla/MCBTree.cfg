\* insert_entry / delete_entry on keys 1..8 with max_size 4 (min_size 2).
\* Leaves split at four entries into two and two, so eight keys fill a root
\* of four children and split it: a three-level tree, with internal splits,
\* internal merges, leaf redistributions and root collapses (not internal
\* redistribution, which needs ten keys).  Pages up to 12
\* let such trees be built, torn down and rebuilt.  Inserting into an
\* emptied tree is the subject of MCBTreeEmpty.cfg.
CONSTANTS
    Keys <- DeepKeys
    MaxSize = 4
    MinSize = 2
    CondVals <- MCCondVals
    MaxNodePage = 12
    ReinsertAfterEmpty = FALSE
VIEW LiveView
INIT IxInit
NEXT IxNext
INVARIANTS
    IxTypeOK
    LeafChainExact
    TreeShape
    LookupExact
    SearchesExact
    NoFault
    IndexScanExact
PROPERTIES
    IndexRefines
