# TLA+ models of rmdb's storage and transaction layers

This directory holds TLA+ models of the C++ sources under `src/src/`, the TLC
configurations that check them, and `PROJECT.json`. `PROJECT.json` records every
component, run, mutant and hazard, and maps each TLA+ definition to the source
lines it models.

## The system

The parts that hold shared state and how they interact:

| Part | Source | State | Operations |
|---|---|---|---|
| Lock manager | `transaction/concurrency/lock_manager.cpp` | `lock_table_`: one request queue per LockDataId (table or record); each transaction's `lock_set_` | Six request functions (S/X on a record; S, X, IS, IX on a table), `unlock`. Each call holds `latch_` for its whole body. No-wait: a conflict sets ABORTED and throws. |
| Transaction manager | `transaction/transaction_manager.cpp` | `txn_map`, each transaction's state, write set and lock set | `begin`; `commit` (unlock a copy of the lock set); `abort` (undo the write set from last to first with a null context, then unlock). |
| Record file | `record/rm_file_handle.cpp`, `rm_scan.cpp` | File header (`num_pages`, `first_free_page_no`); per page `num_records`, `next_free_page_no`, bitmap, slots | `get_record`, `insert_record` (with a context and, for undo, at a rid), `delete_record`, `update_record`, and the free-chain helpers `create_page_handle`, `create_new_page_handle`, `release_page_handle`. |
| Write executors | `execution/executor_{insert,delete,update}.h` | none of their own | They call the record file and the index, and append their own write records. |
| Scan executors | `execution/executor_seq_scan.h`, `executor_index_scan.h` | the cursor | S on the table, then `get_record` (IS on the table, S on the row) for each row, until `eval_conds` accepts one. The index scan walks from `lower_bound` to `upper_bound` of its equality key. |
| Join and projection | `execution/executor_nestedloop_join.h`, `executor_projection.h` | the join's current left and right records, its `isend` | `beginTuple`, `nextTuple`, `Next`, `is_end`, each delegating to the children. |
| B+ tree index | `index/ix_index_handle.cpp` | the node pages, the file header (root, first/last leaf, page count) | `insert_entry` (a present key is ignored), `delete_entry` (by key), split, coalesce, redistribute, adjust_root. No latch. |
| Buffer pool | `storage/buffer_pool_manager.cpp`, `replacer/lru_replacer.cpp` | page table, frames with pin count and dirty flag, free list, LRU list | fetch, unpin, new, delete, flush. |
| System manager | `system/sm_manager.cpp` | catalog `db_`, open file and index handles `fhs_`/`ihs_`, the metadata file | DDL (each taking a table lock on the table's fd) and database open/close. |

A client thread runs one transaction at a time. A DELETE or UPDATE first scans:
it takes S on the table and S on each row it reads. The executor then logs the
write, updates the index and calls the record file. That call asks for IX on
the table (S becomes SIX) and X on the row (S becomes X), and only then changes
the page. An INSERT asks the record file for IX and chooses a free slot. Only
then does it take X on that rid and write the slot.

Nothing serialises a whole statement. The lock manager's latch covers one lock
call, so the statements between two lock calls of different threads
interleave. When a lock call is refused, the executor layer calls `abort`.
`abort` undoes the write records without taking locks, and it relies on the
transaction still holding X on every row it wrote.

## Modules

| Module | Models | State | Actions |
|---|---|---|---|
| `LockManager` | lock manager, plus commit/abort's release loop | `lockTable[id][t]` (mode or NoLock), `lockSet[t]`, `txnState[t]`, `ended` | `Request(t, id, k)` for each request function `k`, `Commit`, `Abort` |
| `RecordFile` | the page-level statement blocks of the record file handle | `rm`, a record of the file header and all pages | none of its own: operators from file state to file state, used by `RecordStore` and `TxnEngine` |
| `AbstractTable` | what the record file promises: a table of rows keyed by rid, a new row at a rid not in use | `table` | `Insert`, `Delete`, `Update` |
| `BufferPool` | buffer pool manager with the LRU replacer | `bp`, one record: page table, frames (id, pin count, dirty flag, page version), free list, LRU list, disk versions, next page number; plus the callers' pins `held` and ghost `latest` | one pure operator per public function (`Fetch`, `Unpin`, `New`, `Delete`, `Flush`, `FlushAll`), and thin actions over them |
| `RecordStore` | record file handle and `RmScan` over `BufferPool` (instanced as `BP`) | `rm`, `bp`, ghost `version` (a bit per page), `scan` (one scan's `rid_`), ghost `insertThrew` (whether the latest `insert_record` threw), ghost `leaks` (pins `get_record` took, per page) | `HandleInsert`, `HandleDelete`, `HandleUpdate`, `HandleGet`, `OpenScan`, `NextScan` |
| `BTreeNode` | the node primitives of `IxNodeHandle` | none: operators on one node `[leaf, keys, vals, parent, prev, next]` | `LowerBound`/`UpperBound` (one RECURSIVE `BinarySearch`), `LeafLookup`, `InternalLookup`, `InsertPairs`, `Insert`, `ErasePair`, `Remove` |
| `BTree` | the B+ tree of `IxIndexHandle` | `ix`: root, first/last leaf, `num_pages`, the disk manager's next page number, every page's node, and a `fault` flag | `InsertKey` (`insert_entry`), `DeleteKey` (`delete_entry`) |
| `QueryExec` | a projection over a nested-loop join over two sequential scans, driven by the caller's iterator loop | the two tables (their rows in rid order) and each scan's condition list, the join operator, the projected columns (all fixed by `Init`); each scan's `rid_` (`lpos`, `rpos`), the join's `isend`, `lrec`, `rrec`; the caller's `out`, `pc` and a `fault` flag | `QueryBegin`, `QueryNext`, `QueryNextTuple`, `QueryEnd` |
| `AbstractIndex` | what an index handle promises: a set of (key, rid) entries, one per key | `entries` | `AIInsert` (if the key is absent), `AIDelete` |
| `AbstractCatalog` | what the system manager promises: a set of tables, each with or without its index, changed one whole DDL call at a time | `tables`, `indexed` | `ACCreateTable`, `ACDropTable` (with its index), `ACCreateIndex`, `ACDropIndex` |
| `Catalog` | the DDL and `open_db`/`close_db` of `sm_manager.cpp`, over `LockManager` | the lock manager's state plus `tabs` (`db_`'s tables), `ixs` (tables whose `TabMeta` lists the index), `fhs`/`ihs` (the fd of each open file/index handle), `meta` (what `flush_meta` last wrote), `leaked` (fds of index handles destroyed unclosed), `dbOpen` | `CreateTable`, `DropTable`, `CreateIndex`, `DropIndex`, `CloseDb`, `OpenDb`, and `StmtLocks` (the executors' lock calls on the fd of a catalog table) |
| `TxnEngine` | transactions running the insert/delete/update executors over `RecordFile` and `LockManager`, with the write set and abort's undo loop, and the index: none, listed with its handle missing from `ihs_`, or open (a key -> rid map) | the above plus `writeSet`, `index`, `pc`, `cur`, `undoPos`, `stmts`, `crashed`, ghost `before` | one action per piece of a handler between lock calls (see below), `TxnCommit`, `Rollback`, `UndoWrite`, `UndoEnd` |

How `Catalog` maps to the code:
- Table locks are `LockDataId(fd, TABLE)`, so the table lock ids are the fds
  the process may open. `LowestFree` is open(2): the lowest fd not held by a
  handle in `fhs_`/`ihs_` or by a leaked index handle. It stands for
  `RmManager::open_file` and `IxManager::open_index`, which are not in the
  repository.
- Each DDL call is one step of a GROWING transaction. Its lock call is
  `Granted` or `Refused` (the transaction turns ABORTED and the call throws).
  `create_table` opens the file and changes `db_` and `fhs_` before its X
  call, so its refused disjunct changes `tabs`/`fhs` and not `meta`.
- `drop_table` keeps `ihs_`. `create_index` puts a new handle in `ihs_`, and
  a handle left there is destroyed without `close_index`: its fd joins
  `leaked`. `close_db` closes the table files and clears `ihs_` without
  closing it. `open_db` reloads `db_` from `meta` and reopens the tables only.
  Both run when no lock is held.
- Errors thrown before any lock or change (`TableExistsError`, ...) are
  stutters. Column metadata is left out, and each table has at most one index.
- `AC` instances `AbstractCatalog` with the catalog clients see: `db_`
  (`tabs`, `ixs`) while the database is open, the metadata file (`meta`)
  while it is closed. `CatalogRefines` checks that `Catalog` implements it.

How `LockManager` maps to the code:
- A request queue becomes a function from transaction to mode. Each request
  function first looks for the caller's own request, so a transaction has at
  most one entry per queue.
- Each request function is a record of data (`ReqSharedOnRecord`, …,
  `ReqIXOnTable`). The record gives the modes that return at once
  (reentrant), the upgrades and the modes of other holders that refuse each,
  and the modes that refuse a fresh request.
- `Outcome` is the shared control flow of those functions.

How `RecordFile` maps to the code:
- Every statement block is an operator from file state to file state:
  `SetSlot`, `FillSlot`, `DeleteSlot`, `UpdateSlot`, `InsertRecordAt`,
  `ReleasePageHandle`, `CreateNewPage`. This lets `TxnEngine` run them as separate
  steps.
- The free chain is computed by walking `nextFree` from `firstFree`
  (`FreeChain`). `create_page_handle`'s loop is `FreePageOf`.

How `TxnEngine` maps to the code. Each thread's `pc` walks the handler:
- INSERT: `InsIX` (IX on the table), `InsPick` (create_page_handle and
  first_bit), `InsX` (X on the chosen rid), `InsFill` (the handle's INSERT
  write record without a record, then the slot), `InsExec` (the executor's
  INSERT write record with the record, then the index).
- DELETE and UPDATE: `ScanTab` (S on the table) and `ScanRec` (S on a live
  row). Then `DelExec`/`UpdExec` (the executor's write record and index
  change), `DelIX`/`UpdIX`, `DelX`/`UpdX`, and `DelSlot`/`UpdSlot` (the
  handle's write record and the page change). UPDATE ends with `UpdIndex`.
- Every lock call goes through `LockCall`. A refusal enters abort. So does a
  new page beyond the page bound, which stands for `new_page` failing and
  throwing InternalError.
- `UndoAt` is the loop body of `abort`, and `UndoWrite` is its loop, from the
  last write record down.
- `index` is `NoIndex` (no index), `NoHandle` (the index is in `db_` but
  `open_db` did not put a handle in `ihs_`) or the open index. With
  `NoHandle`, `InsExec`, `DelExec` and `UpdIndex` log their write, throw at
  `ihs_.at` and enter abort, and abort's loop skips the index before it builds
  the key. So the null record of the handle's INSERT write record is only
  read with an open handle.

How `BufferPool` maps to the code:
- Each public function holds `latch_` for its whole body, so each is one
  step. Each is written as an operator from a pool to a result and a pool, so
  that `RecordStore` can chain the calls one handler makes.
- Page contents are a version number. A caller that writes into a pinned
  frame stores the page's next version there. `NoLostWrite` compares frames
  and disk with the newest version.
- `delete_page` hands the frame to the free list but leaves it in the LRU
  list, as the code does. `FindVictim` always prefers the free list.

How `BTree` maps to the code:
- Each helper of `IxIndexHandle` is an operator from a tree to a tree:
  `CreateNode`, `ReleaseNodeHandle`, `MaintainChild`, `MaintainParent`,
  `Split` (with the new page), `InsertIntoParent`, `Redistribute`,
  `Coalesce`, `CoalesceOrRedistribute`, `AdjustRoot`. The code's loops and
  its recursion into parents are RECURSIVE operators. `InsertEntry` and
  `DeleteEntry` compose them in the code's order, so each public call is one
  step. The tree has no latch; the callers run one call at a time per thread.
- A leaf entry's rid is the key itself, so keys and rids stay paired exactly
  when the leaves hold pairs `<<k, k>>`.
- Pages are never reused: `release_node_handle` only decrements `num_pages`,
  and `create_node` takes the disk manager's counter (`nextPage`). The model
  keeps both counters.
- A read of a node that does not exist sets `fault`: the null leaf that
  `find_leaf_page` returns on an emptied tree, a sibling slot past the
  parent's size, or the first key of an empty node.
- Pins are left out: the tree reads its pages directly. Unpin errors are
  listed as hazards.
- The iterator functions are operators on an iterator position
  `Iid(page, slot)`: `IxLowerBound`, `IxUpperBound` (a position past the end
  of any leaf becomes `LeafEnd`, as in the code), `LeafBegin`, `LeafEnd`
  and `GetRid`. `IxScan`'s code is not in the repository; `ScanFrom`
  follows the spec: it yields rids along the leaf chain until the end
  position or the end of the chain, moving to the next leaf at the end of
  one. `IndexScanExec` is the index scan executor's `beginTuple` and
  `nextTuple` together. `ScanKey` is the key `beginTuple` builds: a zeroed
  buffer that takes the value of the first equality condition on the index
  column, so it stays 0 when there is no equality. The scan runs from
  `lower_bound(key)` to `upper_bound(key)`. `EvalConds` (`compare_value` on
  an int column, then the operator) drops every rid whose row a condition
  rejects.

How `QueryExec` maps to the code:
- The caller of the iterator interface (the planner's portal) is not in the
  repository; its loop follows the spec's interface: `beginTuple`, then
  `Next` and `nextTuple` while not `is_end`. Each call is one step.
- `SeqBegin`, `SeqNextTuple` and `SeqIsEnd` are the sequential scan's
  functions: the scan moves to the next live row that `SeqEvalConds`
  accepts, or to `Rid{-1, -1}` (0). `SeqEvalCond` is `eval_cond` on an int
  column against a value, with each of the six operators. `nextTuple` on an
  ended scan starts again from row 1, as `RmScan::next` does from
  `RM_NO_PAGE`. Its S locks are left out: a query alone has no writer to
  conflict with.
- `JoinBegin` and `JoinNextTuple` are the join's functions, the latter's
  `while (true)` loop as the RECURSIVE `JoinLoop` over `JoinStep`. A
  record the join never assigned is the model value `NoRec`, and `Next`
  on it is a crash (`fault`).
- `Project` is the projection's column selection; its `beginTuple`,
  `nextTuple` and `is_end` are the join's.
- `Expected`, the reference, lists every accepted left row against every
  accepted right row, keeps the pairs that satisfy the join condition, and
  projects them.

How `RecordStore` maps to the code:
- A call is computed on a record `s` holding the pool, the file and an `ok`
  flag. `FetchPageHandle` throws (clears `ok`) when `fetch_page` finds no
  frame; the rest of the call is skipped, and what it already changed or
  pinned stays.
- `CreatePageHandle`, `ReleaseWalk` and `ScanFrom` are the loops of
  `create_page_handle`, `release_page_handle` and `RmScan::next`, written as
  recursion with every fetch and unpin.
- A page the handle changes gets the next version bit in its frame
  (`Write`), and reaches disk only if the frame is unpinned dirty.
- `GetRecord` fetches and never unpins, as `get_record` does. The constant
  `GetRecords` says whether callers read rows that way. `MaxLeaks` bounds the
  pins it leaves on one frame. The ghost `leaks` counts them, so
  `PinsReleased` can say that every other pin is released.

## Runs

| Run | Config | Expect | What it shows |
|---|---|---|---|
| lock_manager | `MCLockManager.cfg` | pass | Three transactions make any sequence of requests on the fds of the catalog's tables and on one record, and run `create_table`, `drop_table`, `create_index`, `drop_index`, with `close_db`/`open_db` between them, over two fds that are reused. Held modes stay pairwise compatible (`GrantedCompatible`), a held mode only grows until the end (`HeldModesOnlyGrow`), and nothing is held after commit/abort (`NoLockAfterEnd`). The catalog, `db_` while open and the metadata file while closed, implements `AbstractCatalog` (`CatalogRefines`). So `close_db` then `open_db` gives back the catalog clients saw, including a table whose `create_table` was refused. |
| record_store | `MCRecordStore.cfg` | pass | Insert, delete, update, `get_record` and the scan run over a one-frame pool. Once `get_record` has left its pin behind, later calls throw part-way for want of a frame. Every pin except `get_record`'s is released on every path (`PinsReleased`). Every page they change is unpinned dirty, so no change is lost through eviction (`HandleWritesKept`). `num_records` equals the set bits (`NumRecordsMatchBitmap`). The free chain is exactly the pages with a free slot, with no repeats (`FreeListExact`). The file implements `AbstractTable` under `table <- Content(rm)` (`TableRefinement`). |
| record_store_leak | `MCRecordStoreLeak.cfg` | violation | After `get_record` has pinned the only frame, `insert_record` throws (`InsertSucceeds`) although the file may still grow: the pin leak makes the table unwritable. |
| buffer_pool | `MCBufferPool.cfg` | pass | Callers fetch, write, unpin, create, delete and flush pages of a file larger than the pool. Pin counts equal the pins callers hold (`PinsMatchHolders`). Each frame holds one page (`FrameOwnership`). The LRU list holds exactly the unpinned cached frames (`ReplacerExact`). No write is lost (`NoLostWrite`). |
| btree | `MCBTree.cfg` | pass | Any sequence of `insert_entry` and `delete_entry` over keys 1..8 builds and tears down trees of up to three levels. The leaf chain visits every leaf in key order, with `prev`, the sentinel and `first_leaf`/`last_leaf` agreeing (`LeafChainExact`). Separators equal the children's first keys, parent pointers match, all leaves are at one depth and sizes stay in bounds (`TreeShape`). `get_value` finds exactly the stored entries (`LookupExact`). `lower_bound`/`upper_bound` match their definitions on every node (`SearchesExact`). The full scan from `leaf_begin` to `leaf_end` yields every key in order; a range scan from `lower_bound(a)` to `upper_bound(b)`, filtered to `[a, b]`, yields exactly those keys; and the index scan executor, under one or two conditions of any of the six operators on values 3 and 6, returns ascending rows that satisfy them all. When one condition is an equality it returns every such row (`IndexScanExact`). Without an equality the probe key is 0, and the executor returns only what lies at key 0; this is listed as a hazard. The filter matters: `upper_bound`'s `leaf_end` lets a scan run past `b` to the end of the index. No null or out-of-range node is read (`NoFault`). The tree implements `AbstractIndex` under `entries <- Entries(ix)` (`IndexRefines`). |
| query_join | `MCQueryExec.cfg` | violation | Tables of up to two rows over {1, 2}, every pair of scan conditions and every join operator: the select does not return exactly the joined rows (`JoinExact`). TLC's shortest trace has an empty right table: `beginTuple` leaves both records null, `is_end` is false, and `Next` dereferences them. The same property also fails with a right row: `beginTuple` takes the first pair without checking the condition, so left `<<1>>`, right `<<1>>` with `left <> right` returns `(1, 1)`. |
| btree_empty | `MCBTreeEmpty.cfg` | violation | Delete the only key, then insert one: `adjust_root` has set the root to `IX_NO_PAGE`, and `insert_entry` dereferences the null leaf (`NoFault`). The update executor does exactly this when it changes the indexed column of a table's only row. |
| txn_concurrent | `MCTxnConcurrent.cfg` | pass | Three concurrent transactions, every thread scheduled; one client inserts and all delete and update. The table has no index, or has one whose handle `open_db` did not reopen, so every insert and delete throws part-way and is rolled back. Abort puts back every row the transaction wrote, whatever the others did meanwhile (`AbortRestores`). No step of one transaction changes a row that another, still running, transaction has written (`WritesIsolated`): strict 2PL, with the table's SIX and IX excluding every other scanner; abort's loop index stays within the write set (`TxnTypeOK`); each transaction commits or aborts (`EveryTxnEnds`): no-wait locking never waits. With two inserters `AbortRestores` fails: that is txn_insert_race. |
| txn_count_abort | `MCTxnCountAbort.cfg` | violation | Rolling back one INSERT leaves `num_records` at -1. The handle and the executor both log the insert, so abort deletes twice. |
| txn_index_crash | `MCTxnIndexCrash.cfg` | violation | On an indexed table, the first rollback of an insert reads the key through the null record of the handle's write record. |
| txn_insert_race | `MCTxnInsertRace.cfg` | violation | Two inserters choose the same free slot under the shared IX lock. The second overwrites the first's committed row, and its abort deletes that row. |
| txn_delete_partial | `MCTxnDeletePartial.cfg` | violation | A DELETE logs the row before `delete_record`'s IX upgrade. If the upgrade is refused because another scanner holds S, abort re-inserts a row it holds only S on. |

Every property of a passing run has a mutant in `PROJECT.json`: a plausible bug
in the mapped code (a missing mode in a conflict set, an off-by-one in the free
chain push, undo in forward order, a lock call that waits, a split that forgets the sentinel, a merge that does not reparent, a lock call whose false return is not checked, a close_db without flush_meta) under which TLC finds
that property violated.

## Bounds, symmetry and fairness

- **Record file:** 2 slots per page and up to 3 record pages (2 in the
  transaction runs). This is enough to fill a page, leave the chain, come back
  on a delete, and chain several pages.
- **Record values:** 2 record values, so a wrong slot or a lost restore is
  visible.
- **Buffer pool:** 2 frames for up to 4 pages in `buffer_pool`, 2 pins per
  page and 2 versions per page. The pool fills, evicts, reuses deleted frames
  and runs out. The `RecordStore` runs use 1 frame for 2 record pages, so
  every call that touches another page evicts, and one leaked pin takes the
  whole pool. `record_store` uses 2 record values, so the table refinement
  sees an update; the leak run uses one.
- **B+ tree:** `max_size` 4 and `min_size` 2. Leaves split 2+2, so 8 keys
  fill a root of four children and split it: internal splits, internal
  merges with reparenting, leaf redistribution from both sides, and root
  collapse all happen. Internal-node redistribution is not reached: it needs
  five leaves of at least two keys under an underfull internal node, so at
  least ten keys, and the eight-key run already takes over three minutes.
  The moved child's `maintain_child` in `redistribute` is therefore checked
  only for leaves. `max_size` 3 is not used: there a parent can keep a
  single child, and the code's `value_at(1)` on it is undefined, so the
  neighbour read past the size (`ix_index_handle.cpp:490`) is not reached. Pages go up to 12, because pages are never
  reused. The run uses a `VIEW` (`LiveView`) that blanks pages nothing points
  to. This is sound because released pages are never read again, and
  `LeafChainExact` and `TreeShape` check that nothing points to them. Keys
  are ordered, so there is no symmetry. In the pass run no key is inserted
  once the tree is empty (`ReinsertAfterEmpty = FALSE`); that case is
  `btree_empty`.
  The index scan executor is checked under every list of one or two
  conditions `op v`, with each of the six operators and v in {3, 6}, and
  under every single equality on a probe key. With 3 and 6, one bound falls
  inside a leaf and one near a leaf's end, and two conditions can be
  contradictory (`= 3` and `= 6`) or bound a range from both sides.
- **Transactions:** 2, each running at most 2 statements (`MaxStmts`). This is
  enough for an insert, a second statement on the same row, and a rollback.
  The pass run `txn_concurrent` uses 3 transactions with 2 statements each,
  and lets only one client insert (`Inserters`): with two inserters the
  slot race of `txn_insert_race` breaks `AbortRestores` at once, and the
  other runs let every transaction insert.
  The partial-delete run needs a committed row and two concurrent scanners,
  so it uses 3 transactions with 1 statement each.
- **Query:** tables of 0 to 2 rows over the values {1, 2} (`MaxRows`),
  no condition or one `col op v` (any operator, v in {1, 2}) on each scan, each comparison or no
  join condition. Both defects need only one row on a side; two rows a side
  let the join's loop restart the right scan and skip rejected pairs.
  `JoinFuel` bounds one `nextTuple` loop by the pairs of rows.
- **Catalog:** 2 table names and 2 fds, 3 transactions, 1 record lock. Two
  fds suffice for fd reuse (drop a table, create another on its fd) and for
  running out (a table plus a leaked index handle). With 3 fds the state
  space is beyond five minutes.
- **Symmetry:** transactions and record values are interchangeable, so the
  safety runs use symmetry over them. The runs that check liveness or use
  `TxnSpec` do not.
- **Fairness:** `TxnSpec` assumes weak fairness for each transaction's
  thread. The OS schedules every thread, and no step of the model waits: a
  lock call either grants or refuses. That is the no-wait policy of
  `lock_manager.cpp`.
- **Deadlock checking:** the transaction runs set `CHECK_DEADLOCK FALSE`
  because the system really stops once every transaction has ended. The
  lock-manager run does the same for the same reason.

## Not modelled (yet), and the plan

The modules in their planned order:

1. `LockManager`, `RecordFile` + `AbstractTable`, `TxnEngine`. Done.
2. `BufferPool` with the LRU replacer, and `RecordStore`, the record file
   over it. Done (`is_record` leaks like `get_record` but has no caller). Left: the
   pool under transactions, where abort's `insert_record(rid, buf)` takes
   `release_page_handle`'s walk and a failed fetch there leaves a full page
   on the free chain.
3. `BTreeNode`, `BTree` + `AbstractIndex`: the node structure of
   `ix_index_handle.cpp`, with the iterator functions and the index scan
   executor's scan. Done. Left are two calls interleaving inside the tree, which has no latch.
   Cutting each call at every `fetch_node` is beyond TLC's reach on
   three-level trees.
4. Index consistency in `TxnEngine`: the index holds exactly the live rows'
   keys. The missing handle after `open_db` is modelled (`NoHandle`, in
   `txn_concurrent`). With an open handle every rollback of an insert dies
   (`txn_index_crash`), and an index property fails as soon as two rows share a
   key: `insert_entry` ignores the second, because the executors do not
   enforce uniqueness. The spec rules out equal keys in one tree, so the
   property must first be limited to tables with distinct keys.

Left out:
- **System manager, partly:** `Catalog` models the DDL and
  `open_db`/`close_db` as above. `create_db`/`drop_db` (directories),
  `show_tables`/`desc_table` (output), column metadata and the metadata format
  are left out. So are an `open_file` failing inside `open_db`'s loop, and the
  disk manager (file I/O). The model reaches four catalog defects, listed as
  hazards with no run of their own:
  - Table locks are keyed by fd, and `drop_table` leaves its X lock on the
    closed fd. A refused `create_table` on that reused fd still puts the
    new table in `db_`, so the dropper holds X on a table it never asked
    for. A property that every held table lock was granted for the table
    its fd now names would be violated. The `ihs_` entry `drop_table`
    leaves is read by no code under `src/`: `create_index` overwrites it.
  - `create_table`'s refused X call leaves `db_` ahead of the metadata file.
    An invariant `meta = [tabs |-> tabs, ixs |-> ixs]` fails in three steps:
    one transaction creates a table and drops it, keeping X on its fd; a
    second creates a table on the reused fd and is refused.
    A clean `close_db` flushes the whole catalog, so `open_db` keeps the table
    (`CatalogRefines`). A process death before the next flush loses the
    table while its file exists. The code has no recovery, and the model has
    no crash.
  - `close_db` and `create_index` drop index handles without closing them.
    The leaked fds pile up until `CreateTable` is disabled.
  - `open_db` does not reopen `ihs_`. Its effect on the executors is
    checked in `txn_concurrent`.

  Each would need a violation run of its own, and the twelve runs are all
  spent on findings in the other parts.
- **The undo path's `insert_record(rid, buf)` over the pool:** `RecordStore`
  checks it with one frame, so adding it to the `record_store` run would
  break `PinsReleased` and `FreeListExact` through the failed walk of
  `release_page_handle` (hazard at `rm_file_handle.cpp:186`). It shows the
  same frame exhaustion as `record_store_leak`.
  The buffer pool's constructor is in a header that is not in the
  repository, so `InitPool` follows the specification.
- **Abstracted:** predicate evaluation and the index scan inside
  `TxnEngine` (the scan itself is checked in `BTree`). A scan chooses one
  live row and S-locks only that row. The code S-locks every row the scan
  reads, but with S held on the table no other transaction can hold X on any
  row, so the extra S locks change nothing.
