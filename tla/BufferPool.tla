----------------------------- MODULE BufferPool -----------------------------
(***************************************************************************)
(* The buffer pool of src/storage/buffer_pool_manager.cpp with the LRU     *)
(* replacer of src/replacer/lru_replacer.cpp, for the pages of one file.   *)
(* Every public function holds the pool's latch for its whole body, so     *)
(* each call is one step.                                                  *)
(*                                                                         *)
(* The pool is one record `bp' and each public function an operator from  *)
(* a pool to a result and a pool, so that a caller's handler that makes   *)
(* several calls (RecordStore) can chain them.  Page contents are          *)
(* abstracted to a version number per page: a caller that writes into a    *)
(* pinned frame makes the next version (the ghost `latest' remembers the   *)
(* newest).  The pins the callers hold are counted in `held'.              *)
(***************************************************************************)
EXTENDS Naturals, Sequences, FiniteSetsExt, SequencesExt

CONSTANTS
    NumFrames,   \* pool_size
    InitPages,   \* pages the file holds when the pool starts
    MaxPage,     \* bound: highest page number allocate_page may return
    MaxPins,     \* bound: pins callers hold on one page
    MaxVersion   \* bound: versions a page goes through

Frames == 0..(NumFrames - 1)
PageNos == 0..MaxPage
NoFrame == -1
InvalidPage == -1    \* INVALID_PAGE_ID

VARIABLES
    bp,          \* the pool: page_table_, pages_[f] (id_, pin_count_,
                 \* is_dirty_, data_), free_list_, the replacer's LRUlist_,
                 \* the pages on disk and the disk manager's page counter
    held,        \* pins the callers hold on each page
    latest       \* ghost: the newest version written of each page

bpVars == <<bp, held, latest>>

BPTypeOK ==
    /\ bp \in [pageTable : [PageNos -> Frames \cup {NoFrame}],
               frameId   : [Frames -> PageNos \cup {InvalidPage}],
               pinCount  : [Frames -> Nat],
               isDirty   : [Frames -> BOOLEAN],
               data      : [Frames -> 0..MaxVersion],
               freeList  : Seq(Frames),
               lru       : Seq(Frames),
               disk      : [PageNos -> 0..MaxVersion],
               nextPage  : InitPages..(MaxPage + 1)]
    /\ held \in [PageNos -> 0..MaxPins]
    /\ latest \in [PageNos -> 0..MaxVersion]

\* The constructor: every frame free, in order; nothing cached.
InitPool ==
    [pageTable |-> [p \in PageNos |-> NoFrame],
     frameId   |-> [f \in Frames |-> InvalidPage],
     pinCount  |-> [f \in Frames |-> 0],
     isDirty   |-> [f \in Frames |-> FALSE],
     data      |-> [f \in Frames |-> 0],
     freeList  |-> [i \in 1..NumFrames |-> i - 1],
     lru       |-> << >>,
     disk      |-> [p \in PageNos |-> 0],
     nextPage  |-> InitPages]

BPInit ==
    /\ bp = InitPool
    /\ held = [p \in PageNos |-> 0]
    /\ latest = [p \in PageNos |-> 0]

Cached(b, p) == b.pageTable[p] # NoFrame

-----------------------------------------------------------------------------
(* The replacer.  victim: the least recently unpinned frame, off the back. *)
LruVictim(l) == [ok |-> l # << >>, fid |-> IF l = << >> THEN NoFrame ELSE Last(l),
                 rest |-> IF l = << >> THEN l ELSE Front(l)]

\* pin: drop the frame if it is there.
LruPin(l, f) == SelectSeq(l, LAMBDA g : g # f)

\* unpin: push to the front, unless there already or the list is full.
LruUnpin(l, f) ==
    IF f \in Range(l) \/ Len(l) >= NumFrames THEN l ELSE <<f>> \o l

(* find_victim_page: the free list first, then the replacer.              *)
FindVictim(b) ==
    IF b.freeList # << >>
    THEN [ok |-> TRUE, fid |-> Head(b.freeList),
          b |-> [b EXCEPT !.freeList = Tail(@)]]
    ELSE LET v == LruVictim(b.lru) IN
         [ok |-> v.ok, fid |-> v.fid, b |-> [b EXCEPT !.lru = v.rest]]

\* Mutant of WriteBack: the dirty frame dropped without a write.
WriteBackSkipped(b, f) == b

\* Before a frame is reused: write it back if dirty.
WriteBack(b, f) ==
    IF b.isDirty[f]
    THEN [b EXCEPT !.disk[b.frameId[f]] = b.data[f], !.isDirty[f] = FALSE]
    ELSE b

\* Mutant of Remap: the old page id left in the page table.
RemapKeepsOld(b, f, p) == [b.pageTable EXCEPT ![p] = f]

\* page_table_.erase(old id) then page_table_[p] = f.
Remap(b, f, p) ==
    [q \in PageNos |-> CASE q = p -> f
                         [] q = b.frameId[f] -> NoFrame
                         [] OTHER -> b.pageTable[q]]

\* A victim frame f, written back, given to page p with one pin and the
\* version v in its buffer.
Install(b, f, p, v) ==
    LET w == WriteBack(b, f) IN
    [w EXCEPT !.pageTable = Remap(w, f, p), !.frameId[f] = p, !.pinCount[f] = 1,
              !.isDirty[f] = FALSE, !.data[f] = v, !.lru = LruPin(@, f)]

-----------------------------------------------------------------------------
\* Mutant of FetchHit: the replacer not told of the new pin.
FetchHitSkipsReplacer(b, p) ==
    [b EXCEPT !.pinCount[b.pageTable[p]] = @ + 1]

(* fetch_page, hit: pin in the replacer, count the pin. *)
FetchHit(b, p) ==
    LET f == b.pageTable[p] IN
    [b EXCEPT !.lru = LruPin(@, f), !.pinCount[f] = @ + 1]

(* fetch_page: a hit; else a victim frame, written back if dirty,        *)
(* remapped to p with one pin, read from disk; no victim: nullptr.        *)
Fetch(b, p) ==
    IF Cached(b, p) THEN [ok |-> TRUE, b |-> FetchHit(b, p)]
    ELSE LET v == FindVictim(b) IN
         IF ~v.ok THEN [ok |-> FALSE, b |-> b]
         ELSE [ok |-> TRUE,
               b |-> Install(v.b, v.fid, p, WriteBack(v.b, v.fid).disk[p])]

(* unpin_page: not cached or not pinned is false; else OR the dirty flag *)
(* in, count down, and hand the frame to the replacer at zero.            *)
Unpin(b, p, dirty) ==
    LET f == b.pageTable[p] IN
    IF ~Cached(b, p) \/ b.pinCount[f] <= 0 THEN [ok |-> FALSE, b |-> b]
    ELSE [ok |-> TRUE,
          b |-> [b EXCEPT !.isDirty[f] = @ \/ dirty, !.pinCount[f] = @ - 1,
                          !.lru = IF b.pinCount[f] = 1 THEN LruUnpin(@, f) ELSE @]]

(* flush_page: write the frame out whatever its flag, clear the flag. *)
Flush(b, p) ==
    LET f == b.pageTable[p] IN
    IF ~Cached(b, p) THEN b
    ELSE [b EXCEPT !.disk[p] = b.data[f], !.isDirty[f] = FALSE]

(* new_page: a victim frame, written back if dirty, the next page number *)
(* from the disk manager, one pin, clean and zeroed.                     *)
New(b) ==
    LET v == FindVictim(b) IN
    IF ~v.ok THEN [ok |-> FALSE, page |-> InvalidPage, b |-> b]
    ELSE [ok |-> TRUE, page |-> b.nextPage,
          b |-> [Install(v.b, v.fid, b.nextPage, 0) EXCEPT !.nextPage = @ + 1]]

\* Mutant of Delete: a pinned page deleted too.
DeleteIgnoresPins(b, p) ==
    LET f == b.pageTable[p]
        w == WriteBack(b, f)
    IN  IF ~Cached(b, p) THEN [ok |-> TRUE, b |-> b]
        ELSE [ok |-> TRUE,
              b |-> [w EXCEPT !.pageTable[p] = NoFrame, !.frameId[f] = InvalidPage,
                              !.pinCount[f] = 0, !.freeList = Append(@, f)]]

(* delete_page: not cached is true; pinned is false; else write back if  *)
(* dirty, unmap, reset the frame and append it to the free list.  The    *)
(* replacer is not told.                                                  *)
Delete(b, p) ==
    LET f == b.pageTable[p]
        w == WriteBack(b, f)
    IN  IF ~Cached(b, p) THEN [ok |-> TRUE, b |-> b]
        ELSE IF b.pinCount[f] > 0 THEN [ok |-> FALSE, b |-> b]
        ELSE [ok |-> TRUE,
              b |-> [w EXCEPT !.pageTable[p] = NoFrame, !.frameId[f] = InvalidPage,
                              !.pinCount[f] = 0, !.freeList = Append(@, f)]]

(* flush_all_pages: write back every dirty cached frame, clear the flags. *)
FlushAll(b) ==
    LET mapped == {b.pageTable[p] : p \in {q \in PageNos : Cached(b, q)}} IN
    [b EXCEPT !.disk = [p \in PageNos |->
                          IF Cached(b, p) /\ b.isDirty[b.pageTable[p]]
                          THEN b.data[b.pageTable[p]] ELSE @[p]],
              !.isDirty = [f \in Frames |-> IF f \in mapped THEN FALSE ELSE @[f]]]

-----------------------------------------------------------------------------
(***************************************************************************)
(* Stand-alone specification: callers fetch pages of the file, write into *)
(* the frames they pin, unpin what they pinned, create, delete and flush.  *)
(***************************************************************************)
FetchPage(p) ==
    LET r == Fetch(bp, p) IN
    /\ p < bp.nextPage
    /\ held[p] < MaxPins
    /\ r.ok
    /\ bp' = r.b
    /\ held' = [held EXCEPT ![p] = @ + 1]
    /\ UNCHANGED latest

\* A caller that only read the page.
UnpinClean(p) ==
    /\ held[p] > 0
    /\ bp' = Unpin(bp, p, FALSE).b
    /\ held' = [held EXCEPT ![p] = @ - 1]
    /\ UNCHANGED latest

\* A caller that wrote the next version into the frame, unpinning dirty.
UnpinDirty(p) ==
    /\ held[p] > 0
    /\ latest[p] < MaxVersion
    /\ bp' = Unpin([bp EXCEPT !.data[bp.pageTable[p]] = latest[p] + 1], p, TRUE).b
    /\ held' = [held EXCEPT ![p] = @ - 1]
    /\ latest' = [latest EXCEPT ![p] = @ + 1]

FlushPage(p) ==
    /\ Cached(bp, p)
    /\ bp' = Flush(bp, p)
    /\ UNCHANGED <<held, latest>>

NewPage ==
    LET r == New(bp) IN
    /\ bp.nextPage <= MaxPage
    /\ r.ok
    /\ bp' = r.b
    /\ held' = [held EXCEPT ![r.page] = @ + 1]
    /\ UNCHANGED latest

DeletePage(p) ==
    /\ Cached(bp, p)
    /\ Delete(bp, p).ok
    /\ bp' = Delete(bp, p).b
    /\ UNCHANGED <<held, latest>>

FlushAllPages ==
    /\ bp' = FlushAll(bp)
    /\ UNCHANGED <<held, latest>>

BPNext ==
    \/ \E p \in PageNos : FetchPage(p) \/ UnpinClean(p) \/ UnpinDirty(p)
                          \/ FlushPage(p) \/ DeletePage(p)
    \/ NewPage
    \/ FlushAllPages

BPSpec == BPInit /\ [][BPNext]_bpVars

-----------------------------------------------------------------------------
(***************************************************************************)
(* Properties                                                              *)
(***************************************************************************)

(* A page stays in its frame while a caller holds a pin on it, and the pin  *)
(* count of its frame is exactly the pins callers hold.  It is about        *)
(* fetch_page, unpin_page and delete_page together with the replacer: a     *)
(* pinned frame that reaches the replacer, or a pin counted twice or not    *)
(* at all, lets a page be evicted or deleted under a caller's pointer.      *)
PinsMatchHolders ==
    \A p \in PageNos :
        IF Cached(bp, p) THEN bp.pinCount[bp.pageTable[p]] = held[p] ELSE held[p] = 0

(* One frame holds one page: the page table maps distinct pages to         *)
(* distinct frames, each frame's id names the page mapping to it, and no   *)
(* mapped frame is on the free list.  It is about the erase and insert of   *)
(* fetch_page and new_page on a reused frame, and delete_page handing the   *)
(* frame to the free list while leaving it in the replacer.                 *)
FrameOwnership ==
    /\ \A p \in PageNos : Cached(bp, p) =>
           /\ bp.frameId[bp.pageTable[p]] = p
           /\ bp.pageTable[p] \notin Range(bp.freeList)
    /\ \A p, q \in PageNos :
           (p # q /\ Cached(bp, p)) => bp.pageTable[q] # bp.pageTable[p]
    /\ IsInjective(bp.freeList)

(* The replacer holds only unpinned frames, and every cached page nobody    *)
(* pins is in it.  A pinned frame in the list can be evicted; an unpinned   *)
(* cached frame missing from it can never be reused (the pool shrinks).     *)
(* It is about replacer pin/unpin calls in fetch_page, new_page and         *)
(* unpin_page, and unpin's size check.                                     *)
ReplacerExact ==
    /\ \A f \in Range(bp.lru) : bp.pinCount[f] = 0
    /\ \A p \in PageNos : (Cached(bp, p) /\ bp.pinCount[bp.pageTable[p]] = 0)
                              => bp.pageTable[p] \in Range(bp.lru)

(* No write is lost: the newest version of every page is in its frame if   *)
(* cached, else on disk, and a cached frame that is not dirty matches the  *)
(* disk.  It is about the dirty flag unpin_page ORs in and the write-back   *)
(* of fetch_page, new_page, delete_page and the flushes.                    *)
NoLostWrite ==
    \A p \in 0..(bp.nextPage - 1) :
        IF Cached(bp, p)
        THEN /\ bp.data[bp.pageTable[p]] = latest[p]
             /\ ~bp.isDirty[bp.pageTable[p]] => bp.disk[p] = latest[p]
        ELSE bp.disk[p] = latest[p]
=============================================================================
