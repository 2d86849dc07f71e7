----------------------------- MODULE RecordFile -----------------------------
(***************************************************************************)
(* The record file of src/record/rm_file_handle.cpp: slotted pages with a  *)
(* per-page free bitmap and a record count, and a chain of pages that have *)
(* a free slot rooted in the file header (first_free_page_no, linked by    *)
(* each page's next_free_page_no, ended by RM_NO_PAGE).                    *)
(*                                                                         *)
(* The whole file is one record `rm'.  Each statement block of the handle  *)
(* is an operator from a file state to a file state, so that a composing   *)
(* module can cut a handler at its lock calls and run the blocks as        *)
(* separate steps.  Pinning is left to the BufferPool module: here a page  *)
(* is always readable.  Record bytes are a value of Vals; a page fresh     *)
(* from new_page is zeroed (Zero).                                          *)
(***************************************************************************)
EXTENDS Integers, Sequences, FiniteSetsExt

CONSTANTS
    PerPage,   \* file_hdr_.num_records_per_page
    MaxPages,  \* bound: highest record page number the file may allocate
    Vals,      \* record images
    Zero       \* model value: the bytes of a slot of a zeroed page

ASSUME PerPage \in Nat \ {0} /\ MaxPages \in Nat \ {0}

NoPage == -1            \* RM_NO_PAGE
FirstRecordPage == 1    \* RM_FIRST_RECORD_PAGE; page 0 is the file header
Pages == FirstRecordPage..MaxPages
Slots == 0..(PerPage - 1)
Rids == Pages \X Slots

VARIABLE rm

RMTypeOK ==
    rm \in [numPages   : FirstRecordPage..(MaxPages + 1),
            firstFree  : Pages \cup {NoPage},
            nextFree   : [Pages -> Pages \cup {NoPage}],
            numRecords : [Pages -> Int],
            bitmap     : [Pages -> SUBSET Slots],
            slots      : [Pages -> [Slots -> Vals \cup {Zero}]]]

\* A freshly created file: only the header page, no free page.
RMInit ==
    rm = [numPages   |-> FirstRecordPage,
          firstFree  |-> NoPage,
          nextFree   |-> [p \in Pages |-> NoPage],
          numRecords |-> [p \in Pages |-> 0],
          bitmap     |-> [p \in Pages |-> {}],
          slots      |-> [p \in Pages |-> [s \in Slots |-> Zero]]]

Allocated(f) == FirstRecordPage..(f.numPages - 1)
HasClearBit(f, p) == f.bitmap[p] # Slots

\* The pages met walking the free chain from p, at most `fuel' of them.
RECURSIVE ChainFrom(_, _, _)
ChainFrom(f, p, fuel) ==
    IF p = NoPage \/ fuel = 0 THEN <<>>
    ELSE <<p>> \o ChainFrom(f, f.nextFree[p], fuel - 1)

\* The free chain from the header; longer than MaxPages only if it cycles.
FreeChain(f) == ChainFrom(f, f.firstFree, MaxPages + 1)

-----------------------------------------------------------------------------
(***************************************************************************)
(* create_page_handle: walk the chain to the first page with a clear bit   *)
(* (skipping pages that report full), else create_new_page_handle.        *)
(***************************************************************************)
FreePageOf(f) ==
    LET c    == FreeChain(f)
        hits == {i \in 1..Len(c) : HasClearBit(f, c[i])}
    IN  IF hits # {} THEN c[Min(hits)] ELSE NoPage

\* The walk ends: it finds a page, or reaches RM_NO_PAGE (not a cycle).
CreatePageHandleReturns(f) ==
    FreePageOf(f) # NoPage \/ Len(FreeChain(f)) <= MaxPages

\* create_new_page_handle: a zeroed page numbered num_pages (the disk
\* manager's counter, set from num_pages when the file is opened), pushed
\* on the free chain.
CreateNewPage(f) ==
    LET p == f.numPages IN
    [f EXCEPT !.numPages = p + 1, !.firstFree = p,
              !.nextFree[p] = f.firstFree, !.numRecords[p] = 0,
              !.bitmap[p] = {}, !.slots[p] = [s \in Slots |-> Zero]]

CanCreatePage(f) == FreePageOf(f) # NoPage \/ f.numPages <= MaxPages

AfterCreatePageHandle(f) ==
    IF FreePageOf(f) # NoPage THEN f ELSE CreateNewPage(f)

\* The rid insert_record picks: the page found, and its first clear bit.
PickedRid(f) ==
    LET g == AfterCreatePageHandle(f)
        p == IF FreePageOf(f) # NoPage THEN FreePageOf(f) ELSE f.numPages
    IN  <<p, Min(Slots \ g.bitmap[p])>>

\* release_page_handle: unlink p from the chain (head, or the first page
\* on the chain whose next is p), then clear p's link.
ReleasePageHandle(f, p) ==
    LET c     == FreeChain(f)
        preds == {i \in 1..Len(c) : f.nextFree[c[i]] = p}
    IN  IF f.firstFree = p
        THEN [f EXCEPT !.firstFree = f.nextFree[p], !.nextFree[p] = NoPage]
        ELSE IF preds = {}
             THEN [f EXCEPT !.nextFree[p] = NoPage]
             ELSE [f EXCEPT !.nextFree[c[Min(preds)]] = f.nextFree[p],
                            !.nextFree[p] = NoPage]

\* Set the bit, count the record, copy the bytes.
SetSlot(f, rid, v) ==
    [f EXCEPT !.bitmap[rid[1]] = @ \cup {rid[2]}, !.numRecords[rid[1]] = @ + 1,
              !.slots[rid[1]][rid[2]] = v]

\* insert_record(rid, buf), the undo path: fill the slot, and unlink the
\* page once the count says it is full.
InsertRecordAt(f, rid, v) ==
    LET g == SetSlot(f, rid, v) IN
    IF g.numRecords[rid[1]] = PerPage THEN ReleasePageHandle(g, rid[1]) ELSE g

\* The tail of insert_record(buf, context), after the slot is chosen and
\* locked: the same statements as the undo path, in another order.
FillSlot(f, rid, v) == InsertRecordAt(f, rid, v)

\* Mutant of DeleteSlot: the push tests the new count against the page size.
DeleteSlotTestsNewCount(f, rid) ==
    LET p == rid[1]
        g == [f EXCEPT !.bitmap[p] = @ \ {rid[2]}, !.numRecords[p] = @ - 1]
    IN  IF g.numRecords[p] = PerPage
        THEN [g EXCEPT !.nextFree[p] = g.firstFree, !.firstFree = p]
        ELSE g

\* delete_record after its lock calls: clear the bit, count down, and push
\* the page on the chain if the count says it was full.
DeleteSlot(f, rid) ==
    LET p == rid[1]
        g == [f EXCEPT !.bitmap[p] = @ \ {rid[2]}, !.numRecords[p] = @ - 1]
    IN  IF g.numRecords[p] + 1 = PerPage
        THEN [g EXCEPT !.nextFree[p] = g.firstFree, !.firstFree = p]
        ELSE g

\* Mutant of UpdateSlot: the copy runs over into the next slot.
UpdateSlotOverruns(f, rid, v) ==
    [f EXCEPT !.slots[rid[1]] =
        [s \in Slots |-> IF s \in {rid[2], rid[2] + 1} THEN v ELSE @[s]]]

\* update_record after its lock calls: overwrite the slot.
UpdateSlot(f, rid, v) == [f EXCEPT !.slots[rid[1]][rid[2]] = v]

\* The records the file holds: set bits of allocated pages.
Live(f) == {r \in Rids : r[1] \in Allocated(f) /\ r[2] \in f.bitmap[r[1]]}
Content(f) == [r \in Live(f) |-> f.slots[r[1]][r[2]]]

\* The bytes get_record copies out (whether or not the bit is set).
SlotValue(f, rid) == f.slots[rid[1]][rid[2]]

-----------------------------------------------------------------------------
(***************************************************************************)
(* Properties                                                              *)
(***************************************************************************)

(* The page header's record count equals the number of set bits.  Insert, *)
(* delete and the undo path all keep the count by increments and          *)
(* decrements, never by recounting, and the free-chain decisions are made *)
(* on the count: one unmatched increment or decrement makes every later   *)
(* decision on that page wrong.                                            *)
NumRecordsMatchBitmap ==
    \A p \in Allocated(rm) : rm.numRecords[p] = Cardinality(rm.bitmap[p])

(* The free chain has no page twice (so it ends), and holds exactly the          *)
(* allocated pages with a free slot.  A page on it twice, or a cycle,     *)
(* makes create_page_handle or release_page_handle loop; a full page on   *)
(* it is skipped; a page with a free slot left off it is never used again *)
(* (its space leaks and the file grows).  Pages join the chain only in    *)
(* delete_record and create_new_page_handle and leave it only in          *)
(* release_page_handle, each on a decision taken from the record count.   *)
FreeListExact ==
    LET c == FreeChain(rm) IN
    /\ IsInjective(c)
    /\ Range(c) = {p \in Allocated(rm) : HasClearBit(rm, p)}
=============================================================================
