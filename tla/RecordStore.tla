----------------------------- MODULE RecordStore -----------------------------
(***************************************************************************)
(* The record file handle over the buffer pool: the functions of           *)
(* src/record/rm_file_handle.cpp and rm_scan.cpp with every fetch_page,    *)
(* new_page and unpin_page call they make.  The file's pages live in the   *)
(* pool's frames: a handler that changes a page writes the page's next     *)
(* version into its frame, and must unpin it dirty for the change to reach *)
(* the disk.  A fetch that finds no frame makes fetch_page_handle throw    *)
(* PageNotExistError (new_page: InternalError); the handler stops there,   *)
(* keeping what it already changed and the pins it already took.           *)
(*                                                                         *)
(* One client thread calls the handle (the handle has no latch), so each   *)
(* call is one step.  A call is computed on a record s:                    *)
(*   ok  - no exception yet;  b - the pool;  f - the file (RecordFile's     *)
(*   rm);  mod - pages changed;  pg - the page handle returned;             *)
(*   pos - the scan's rid_.                                                 *)
(* Page versions are a bit (0/1): a lost write leaves the disk one version *)
(* behind, which is all the pool's NoLostWrite has to see.                 *)
(***************************************************************************)
EXTENDS RecordFile

CONSTANTS
    NumFrames,   \* pool_size
    GetRecords,  \* whether callers read rows by get_record (TRUE) or not
    MaxLeaks     \* bound: pins get_record leaves on one frame

VARIABLES
    bp,          \* the buffer pool (BufferPool's record)
    version,     \* ghost: the newest version bit of each page
    scan,        \* one RmScan's rid_, or NoScan before it is opened
    insertThrew, \* ghost: whether the latest insert_record threw
    leaks        \* ghost: pins get_record has taken on each page and not released

NoScan == <<NoPage, -2>>
EndScan == <<NoPage, -1>>   \* is_end(): page_no == RM_NO_PAGE
PageNos == 0..MaxPages      \* page 0 is the file header, read by the disk manager

BP == INSTANCE BufferPool
        WITH InitPages <- FirstRecordPage, MaxPage <- MaxPages, MaxPins <- 1,
             MaxVersion <- 1, held <- [p \in PageNos |-> 0], latest <- version

rsVars == <<rm, bp, version, scan, insertThrew, leaks>>

RSTypeOK ==
    /\ RMTypeOK
    /\ version \in [PageNos -> {0, 1}]
    /\ scan \in Rids \cup {NoScan, EndScan}
    /\ insertThrew \in BOOLEAN
    /\ leaks \in [PageNos -> 0..MaxLeaks]

RSInit ==
    /\ RMInit
    /\ bp = BP!InitPool
    /\ version = [p \in PageNos |-> 0]
    /\ scan = NoScan
    /\ insertThrew = FALSE
    /\ leaks = [p \in PageNos |-> 0]

Start == [ok |-> TRUE, b |-> bp, f |-> rm, mod |-> {}, pg |-> NoPage, pos |-> scan]

Throw(s) == [s EXCEPT !.ok = FALSE]

\* The handler changes page p through its pinned frame.
Write(s, p) ==
    [s EXCEPT !.b.data[s.b.pageTable[p]] = (version[p] + 1) % 2,
              !.mod = @ \cup {p}]

Unpin(s, p, dirty) == [s EXCEPT !.b = BP!Unpin(@, p, dirty).b]

(* fetch_page_handle: fetch_page, or throw PageNotExistError on nullptr. *)
FetchPageHandle(s, p) ==
    LET r == BP!Fetch(s.b, p) IN
    IF r.ok THEN [s EXCEPT !.b = r.b] ELSE Throw(s)

(* create_new_page_handle: new_page or throw; the page's header written  *)
(* into the frame, then num_pages and first_free_page_no.                *)
CreateNewPageHandle(s) ==
    LET r == BP!New(s.b) IN
    IF ~r.ok THEN Throw(s)
    ELSE Write([s EXCEPT !.b = r.b, !.f = CreateNewPage(@), !.pg = r.page], r.page)

(* create_page_handle's loop: fetch each page of the chain, return it      *)
(* pinned if it has a clear bit, else unpin it clean and go on.  `fuel'   *)
(* only bounds the recursion: callers first check the walk ends.          *)
RECURSIVE CreatePageHandle(_, _, _)
CreatePageHandle(s, p, fuel) ==
    IF p = NoPage \/ fuel = 0 THEN CreateNewPageHandle(s)
    ELSE LET t == FetchPageHandle(s, p) IN
         IF ~t.ok THEN t
         ELSE IF HasClearBit(t.f, p) THEN [t EXCEPT !.pg = p]
         ELSE CreatePageHandle(Unpin(t, p, FALSE), t.f.nextFree[p], fuel - 1)

(* release_page_handle's loop: fetch each page of the chain from the head; *)
(* the one whose next is p takes p's next and is unpinned dirty; others   *)
(* are unpinned clean.                                                     *)
RECURSIVE ReleaseWalk(_, _, _, _)
ReleaseWalk(s, prev, p, fuel) ==
    IF prev = NoPage \/ fuel = 0 THEN s
    ELSE LET t == FetchPageHandle(s, prev) IN
         IF ~t.ok THEN t
         ELSE IF t.f.nextFree[prev] = p
              THEN Unpin(Write([t EXCEPT !.f.nextFree[prev] = t.f.nextFree[p]], prev),
                         prev, TRUE)
              ELSE ReleaseWalk(Unpin(t, prev, FALSE), t.f.nextFree[prev], p, fuel - 1)

(* release_page_handle(ph) for the pinned page p. *)
ReleasePage(s, p) ==
    IF s.f.firstFree = p
    THEN [s EXCEPT !.f.firstFree = s.f.nextFree[p], !.f.nextFree[p] = NoPage]
    ELSE LET t == ReleaseWalk(s, s.f.firstFree, p, MaxPages) IN
         IF ~t.ok THEN t ELSE [t EXCEPT !.f.nextFree[p] = NoPage]

-----------------------------------------------------------------------------
(* get_record: fetch the page and copy the slot out.  The page handle is   *)
(* never unpinned.                                                         *)
GetRecord(s, rid) == FetchPageHandle(s, rid[1])

\* Mutant of Insert: the record always goes to the page's slot 0.
InsertFirstSlot(s, v) ==
    LET h == CreatePageHandle(s, s.f.firstFree, MaxPages + 1)
        p == h.pg
        g == Write([h EXCEPT !.f = SetSlot(@, <<p, 0>>, v)], p)
        r == IF g.f.numRecords[p] = PerPage THEN ReleasePage(g, p) ELSE g
    IN  IF ~h.ok THEN h ELSE IF ~r.ok THEN r ELSE Unpin(r, p, TRUE)

(* insert_record(buf): a page with a free slot, its first clear bit        *)
(* filled, the page released from the chain once full, unpinned dirty.    *)
Insert(s, v) ==
    LET h == CreatePageHandle(s, s.f.firstFree, MaxPages + 1)
        p == h.pg
        g == Write([h EXCEPT !.f = SetSlot(@, <<p, Min(Slots \ h.f.bitmap[p])>>, v)], p)
        r == IF g.f.numRecords[p] = PerPage THEN ReleasePage(g, p) ELSE g
    IN  IF ~h.ok THEN h ELSE IF ~r.ok THEN r ELSE Unpin(r, p, TRUE)

\* Mutant of Delete: the page unpinned clean after the bit is cleared.
DeleteClean(s, rid) ==
    LET t == FetchPageHandle(s, rid[1]) IN
    IF ~t.ok THEN t
    ELSE Unpin(Write([t EXCEPT !.f = DeleteSlot(@, rid)], rid[1]), rid[1], FALSE)

(* delete_record: fetch, clear the bit (pushing the page on the chain),   *)
(* unpin dirty.                                                            *)
Delete(s, rid) ==
    LET t == FetchPageHandle(s, rid[1]) IN
    IF ~t.ok THEN t
    ELSE Unpin(Write([t EXCEPT !.f = DeleteSlot(@, rid)], rid[1]), rid[1], TRUE)

(* update_record: fetch, overwrite the slot, unpin dirty. *)
Update(s, rid, v) ==
    LET t == FetchPageHandle(s, rid[1]) IN
    IF ~t.ok THEN t
    ELSE Unpin(Write([t EXCEPT !.f = UpdateSlot(@, rid, v)], rid[1]), rid[1], TRUE)

\* Mutant of ScanFrom: the page handle not unpinned.
RECURSIVE ScanFromKeepsPin(_, _, _)
ScanFromKeepsPin(s, page, slot) ==
    LET t == FetchPageHandle(s, page)
        bits == {x \in t.f.bitmap[page] : x > slot}
    IN  IF page >= s.f.numPages THEN [s EXCEPT !.pos = EndScan]
        ELSE IF ~t.ok THEN t
        ELSE IF bits # {} THEN [t EXCEPT !.pos = <<page, Min(bits)>>]
        ELSE ScanFromKeepsPin(t, page + 1, -1)

(* RmScan::next's loop from (page, slot): fetch the page, find the next   *)
(* set bit after slot, unpin clean; stop there, or go on from the next    *)
(* page's start; past num_pages the scan is at its end.                   *)
RECURSIVE ScanFrom(_, _, _)
ScanFrom(s, page, slot) ==
    LET t == FetchPageHandle(s, page)
        bits == {x \in t.f.bitmap[page] : x > slot}
    IN  IF page >= s.f.numPages THEN [s EXCEPT !.pos = EndScan]
        ELSE IF ~t.ok THEN t
        ELSE IF bits # {} THEN [Unpin(t, page, FALSE) EXCEPT !.pos = <<page, Min(bits)>>]
        ELSE ScanFrom(Unpin(t, page, FALSE), page + 1, -1)

-----------------------------------------------------------------------------
(***************************************************************************)
(* The calls a client makes.  A call whose fetch fails still leaves what  *)
(* it changed and pinned before the throw.  Delete and update are given   *)
(* rids a scan returned (live ones); so is get_record.                     *)
(***************************************************************************)
Done(s, call) ==
    /\ rm' = s.f
    /\ bp' = s.b
    /\ version' = [p \in PageNos |-> IF p \in s.mod THEN (version[p] + 1) % 2
                                                    ELSE version[p]]
    /\ scan' = s.pos
    /\ insertThrew' = IF call = "insert" THEN ~s.ok ELSE insertThrew

HandleInsert(v) ==
    /\ CreatePageHandleReturns(rm)
    /\ CanCreatePage(rm)
    /\ Done(Insert(Start, v), "insert")
    /\ UNCHANGED leaks

HandleDelete(rid) ==
    rid \in Live(rm) /\ Done(Delete(Start, rid), "delete") /\ UNCHANGED leaks

HandleUpdate(rid, v) ==
    rid \in Live(rm) /\ Done(Update(Start, rid, v), "update") /\ UNCHANGED leaks

HandleGet(rid) ==
    /\ GetRecords
    /\ rid \in Live(rm)
    /\ BP!Cached(bp, rid[1]) => bp.pinCount[bp.pageTable[rid[1]]] < MaxLeaks
    /\ LET s == GetRecord(Start, rid) IN
         /\ Done(s, "get")
         /\ leaks' = IF s.ok THEN [leaks EXCEPT ![rid[1]] = @ + 1] ELSE leaks

\* The constructor: rid_ = (RM_NO_PAGE, -1), then next() from the first page.
OpenScan ==
    /\ scan \notin Rids
    /\ Done(ScanFrom(Start, FirstRecordPage, -1), "scan")
    /\ UNCHANGED leaks

NextScan ==
    /\ scan \in Rids
    /\ Done(ScanFrom(Start, scan[1], scan[2]), "scan")
    /\ UNCHANGED leaks

RSNext ==
    \/ \E v \in Vals : HandleInsert(v)
    \/ \E rid \in Rids : HandleDelete(rid) \/ HandleGet(rid)
    \/ \E rid \in Rids, v \in Vals : HandleUpdate(rid, v)
    \/ OpenScan
    \/ NextScan

RSSpec == RSInit /\ [][RSNext]_rsVars

-----------------------------------------------------------------------------
(***************************************************************************)
(* Properties                                                              *)
(***************************************************************************)

(* Between calls the only pins are those get_record took (it never        *)
(* unpins; see InsertSucceeds): every fetch_page and new_page the other    *)
(* calls make is matched by an unpin_page on every path, including         *)
(* create_page_handle's walk past full pages, the scan's loop and the      *)
(* exceptions a failed fetch throws.  A leaked pin keeps its frame from    *)
(* ever being a victim; enough of them and every fetch of another page     *)
(* fails.                                                                  *)
PinsReleased ==
    \A p \in PageNos :
      IF BP!Cached(bp, p) THEN bp.pinCount[bp.pageTable[p]] = leaks[p] ELSE leaks[p] = 0

(* Every change the handle makes to a page reaches the disk or is still in *)
(* a dirty frame: the pool's NoLostWrite, with the page versions the       *)
(* handle's writes produce.  It is about the dirty flags the handle passes *)
(* to unpin_page after changing a page.                                    *)
HandleWritesKept == BP!NoLostWrite

(* An insert_record made while the file may still grow (its chain ends   *)
(* and a new page is within bounds) returns a rid rather than throwing:    *)
(* the pool always has a frame for create_page_handle's fetches and        *)
(* new_page.  It is about the pins the handle's callers leave behind:      *)
(* every frame left pinned is one the pool can no longer give to the file. *)
InsertSucceeds == ~insertThrew
=============================================================================
