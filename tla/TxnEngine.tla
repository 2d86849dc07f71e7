------------------------------ MODULE TxnEngine ------------------------------
(***************************************************************************)
(* Transactions running the write executors over one table: the insert,   *)
(* delete and update executors (src/execution/executor_*.h), the record    *)
(* file handle they call (src/record/rm_file_handle.cpp), the lock manager *)
(* (LockManager) and TransactionManager::commit / abort with its undo loop *)
(* (src/transaction/transaction_manager.cpp).                              *)
(*                                                                         *)
(* Each client thread runs one transaction.  Nothing serialises a whole    *)
(* executor or record-file call: only the lock manager's latch (one step   *)
(* per lock call) and the buffer pool's.  So a handler is cut into steps   *)
(* at its lock calls, and the statements between two calls are one step.   *)
(* The table may have one index on the whole record.  Its handle in ihs_  *)
(* is open, or missing (open_db does not reopen index handles), and the    *)
(* open index is abstracted to a map from key to rid with insert_entry     *)
(* ignoring a key already present.                                         *)
(***************************************************************************)
EXTENDS LockManager, RecordFile

CONSTANTS
    TableLock,  \* the table's LockDataId
    IndexInit,  \* the index states the table may start in
    NoIndex,    \* model value: the table has no index
    NoHandle,   \* model value: the index is in db_ but not in ihs_
    Serial,     \* whether transactions run one after another
    MaxStmts,   \* bound: statements one transaction runs
    Inserters,  \* the transactions whose clients issue INSERT statements
    NoRid,      \* model value: no rid (Rid{-1,-1})
    NoImage     \* model value: a WriteRecord built without a record

ASSUME Serial \in BOOLEAN /\ MaxStmts \in Nat /\ Inserters \subseteq Txns

VARIABLES
    writeSet,   \* Transaction::write_set_, a sequence of WriteRecords
    index,      \* NoIndex, NoHandle, or the open index: key -> rid, or NoRid
    pc,         \* where each transaction's thread is
    cur,        \* the running statement's locals: kind, rid, new and old image
    undoPos,    \* abort's loop index i, counting down from the write set size
    stmts,      \* statements each transaction has started
    crashed,    \* the process died on undefined behaviour in abort
    before      \* ghost: each rid a transaction wrote, as it was before

vars == <<rm, lockTable, lockSet, txnState, ended, writeSet, index, pc, cur,
          undoPos, stmts, crashed, before>>

Absent == "absent"   \* a rid with no record, in `before'
Kinds == {"insert", "delete", "update"}
WriteRecords == [type : {"INSERT", "DELETE", "UPDATE"}, rid : Rids,
                 image : Vals \cup {Zero, NoImage}]
Steps == {"none", "idle", "ins_ix", "ins_pick", "ins_x", "ins_fill", "ins_exec",
          "scan_tab", "scan_rec", "del_exec", "del_ix", "del_x", "del_slot",
          "upd_exec", "upd_ix", "upd_x", "upd_slot", "upd_index", "undo", "done"}

TxnTypeOK ==
    /\ RMTypeOK
    /\ lockTable \in [LockIds -> [Txns -> Modes \cup {NoLock}]]
    /\ lockSet \in [Txns -> SUBSET LockIds]
    /\ txnState \in [Txns -> {"DEFAULT", "GROWING", "ABORTED", "COMMITTED"}]
    /\ ended \subseteq Txns
    /\ writeSet \in [Txns -> Seq(WriteRecords)]
    /\ index \in [Vals -> Rids \cup {NoRid}] \cup {NoIndex, NoHandle}
    /\ pc \in [Txns -> Steps]
    /\ cur \in [Txns -> [kind : Kinds, rid : Rids \cup {NoRid},
                         val : Vals \cup {NoImage}, old : Vals \cup {Zero, NoImage}]]
    /\ \A t \in Txns : undoPos[t] \in 0..Len(writeSet[t])
    /\ stmts \in [Txns -> 0..MaxStmts]
    /\ crashed \in BOOLEAN

-----------------------------------------------------------------------------
(* The index, as IxIndexHandle::insert_entry and delete_entry use it.  A *)
(* table without an index, or whose handle is missing, has no tree to     *)
(* change (abort's loop skips a missing handle).                          *)
HandleOpen == index \notin {NoIndex, NoHandle}
IndexInsert(ix, k, r) ==
    IF ix \in {NoIndex, NoHandle} \/ ix[k] # NoRid THEN ix ELSE [ix EXCEPT ![k] = r]
IndexDelete(ix, k) == IF ix \in {NoIndex, NoHandle} THEN ix ELSE [ix EXCEPT ![k] = NoRid]

\* The rid's record in the file, or Absent.
RecordAt(f, r) == IF r \in Live(f) THEN SlotValue(f, r) ELSE Absent

LogWrite(t, type, r, img) ==
    writeSet' = [writeSet EXCEPT ![t] = @ \o <<[type |-> type, rid |-> r, image |-> img]>>]

\* Ghost: note how r was before t's first write to it.
Remember(t, r) ==
    before' = [before EXCEPT ![t] =
                 IF r \in DOMAIN @ THEN @ ELSE @ @@ (r :> RecordAt(rm, r))]

SetPc(t, s) == pc' = [pc EXCEPT ![t] = s]

\* Mutant of StartAbort: the loop starts one past the last write record.
StartAbortPastEnd(t) ==
    /\ SetPc(t, "undo")
    /\ undoPos' = [undoPos EXCEPT ![t] = Len(writeSet[t]) + 1]

\* Enter TransactionManager::abort: the loop starts at the write set's end.
StartAbort(t) ==
    /\ SetPc(t, "undo")
    /\ undoPos' = [undoPos EXCEPT ![t] = Len(writeSet[t])]

\* Mutant of LockCall: a refused request waits for the holder instead.
LockCallWaits(t, next, id, k) ==
    /\ Grant(t, id, k)
    /\ SetPc(t, next)
    /\ UNCHANGED <<txnState, undoPos>>
    /\ UNCHANGED <<rm, writeSet, index, stmts, ended, crashed, before>>

\* Mutant of LockCall: a false return not checked; the handler goes on.
LockCallUnchecked(t, next, id, k) ==
    /\ \/ Grant(t, id, k) /\ UNCHANGED txnState
       \/ Refuse(t, id, k)
    /\ SetPc(t, next)
    /\ UNCHANGED <<undoPos, rm, writeSet, index, stmts, ended, crashed, before>>

(***************************************************************************)
(* One lock call of a handler: granted, the thread goes on to `next';     *)
(* refused, the manager marks the transaction ABORTED, the exception       *)
(* unwinds the executor and the executor layer calls abort.                *)
(***************************************************************************)
LockCall(t, next, id, k) ==
    /\ \/ /\ Grant(t, id, k)
          /\ SetPc(t, next)
          /\ UNCHANGED <<txnState, undoPos>>
       \/ /\ Refuse(t, id, k)
          /\ StartAbort(t)
    /\ UNCHANGED <<rm, writeSet, index, stmts, ended, crashed, before>>

-----------------------------------------------------------------------------
(* TransactionManager::begin in 2PL mode. *)
Begin(t) ==
    /\ pc[t] = "none"
    /\ Serial => \A u \in Txns \ {t} : pc[u] \in {"none", "done"}
    /\ SetPc(t, "idle")
    /\ txnState' = [txnState EXCEPT ![t] = "GROWING"]
    /\ UNCHANGED <<rm, lockTable, lockSet, ended, writeSet, index, cur, undoPos,
                   stmts, crashed, before>>

\* The client issues a statement: INSERT of v, or DELETE / UPDATE (to v)
\* of a row its scan finds.  Only the clients of Inserters insert.
StartStmt(t, k, v) ==
    /\ pc[t] = "idle"
    /\ stmts[t] < MaxStmts
    /\ k = "insert" => t \in Inserters
    /\ SetPc(t, IF k = "insert" THEN "ins_ix" ELSE "scan_tab")
    /\ cur' = [cur EXCEPT ![t] = [kind |-> k, rid |-> NoRid, old |-> NoImage,
                                  val |-> IF k = "delete" THEN NoImage ELSE v]]
    /\ stmts' = [stmts EXCEPT ![t] = @ + 1]
    /\ UNCHANGED <<rm, lockTable, lockSet, txnState, ended, writeSet, index,
                   undoPos, crashed, before>>

(* InsertExecutor::Next -> insert_record(buf, context) *)
InsIX(t) ==
    /\ pc[t] = "ins_ix"
    /\ LockCall(t, "ins_pick", TableLock, "lock_IX_on_table")
    /\ UNCHANGED cur

\* create_page_handle and first_bit.  A new page needs a frame: when the
\* page bound is reached new_page is taken to fail, and InternalError
\* aborts the transaction.  A cycle in the free chain hangs the thread.
InsPick(t) ==
    /\ pc[t] = "ins_pick"
    /\ CreatePageHandleReturns(rm)
    /\ \/ /\ CanCreatePage(rm)
          /\ rm' = AfterCreatePageHandle(rm)
          /\ cur' = [cur EXCEPT ![t].rid = PickedRid(rm)]
          /\ SetPc(t, "ins_x")
          /\ UNCHANGED undoPos
       \/ /\ ~CanCreatePage(rm)
          /\ StartAbort(t)
          /\ UNCHANGED <<rm, cur>>
    /\ UNCHANGED <<lockTable, lockSet, txnState, ended, writeSet, index, stmts,
                   crashed, before>>

InsX(t) ==
    /\ pc[t] = "ins_x"
    /\ LockCall(t, "ins_fill", cur[t].rid, "lock_exclusive_on_record")
    /\ UNCHANGED cur

\* The handle appends an INSERT write record without the record, then
\* writes the slot.
InsFill(t) ==
    /\ pc[t] = "ins_fill"
    /\ LogWrite(t, "INSERT", cur[t].rid, NoImage)
    /\ rm' = FillSlot(rm, cur[t].rid, cur[t].val)
    /\ Remember(t, cur[t].rid)
    /\ SetPc(t, "ins_exec")
    /\ UNCHANGED <<lockTable, lockSet, txnState, ended, index, cur, undoPos,
                   stmts, crashed>>

\* Back in the executor: a second INSERT write record, with the record,
\* then the index entry; ihs_.at throws if the handle is missing, and the
\* executor layer calls abort.
InsExec(t) ==
    /\ pc[t] = "ins_exec"
    /\ LogWrite(t, "INSERT", cur[t].rid, cur[t].val)
    /\ index' = IndexInsert(index, cur[t].val, cur[t].rid)
    /\ IF index = NoHandle THEN StartAbort(t)
                           ELSE SetPc(t, "idle") /\ UNCHANGED undoPos
    /\ UNCHANGED <<rm, lockTable, lockSet, txnState, ended, cur, stmts,
                   crashed, before>>

(* The scan that yields the rid: SeqScanExecutor::beginTuple takes S on  *)
(* the table, then get_record takes IS (held already) and S on the row.  *)
ScanTab(t) ==
    /\ pc[t] = "scan_tab"
    /\ LockCall(t, "scan_rec", TableLock, "lock_shared_on_table")
    /\ UNCHANGED cur

ScanRec(t) ==
    /\ pc[t] = "scan_rec"
    /\ \/ /\ Live(rm) = {}
          /\ SetPc(t, "idle")
          /\ UNCHANGED <<rm, lockTable, lockSet, txnState, ended, writeSet,
                         index, cur, undoPos, stmts, crashed, before>>
       \/ \E r \in Live(rm) :
            /\ cur' = [cur EXCEPT ![t].rid = r]
            /\ LockCall(t, IF cur[t].kind = "delete" THEN "del_exec" ELSE "upd_exec",
                        r, "lock_shared_on_record")

(* DeleteExecutor::Next: get_record (locks held), a DELETE write record  *)
(* with the old record, the index entry deleted, then delete_record.     *)
DelExec(t) ==
    LET r == cur[t].rid IN
    /\ pc[t] = "del_exec"
    /\ LogWrite(t, "DELETE", r, SlotValue(rm, r))
    /\ index' = IndexDelete(index, SlotValue(rm, r))
    /\ IF index = NoHandle THEN StartAbort(t)
                           ELSE SetPc(t, "del_ix") /\ UNCHANGED undoPos
    /\ UNCHANGED <<rm, lockTable, lockSet, txnState, ended, cur, stmts,
                   crashed, before>>

DelIX(t) ==
    /\ pc[t] = "del_ix"
    /\ LockCall(t, "del_x", TableLock, "lock_IX_on_table")
    /\ UNCHANGED cur

DelX(t) ==
    /\ pc[t] = "del_x"
    /\ LockCall(t, "del_slot", cur[t].rid, "lock_exclusive_on_record")
    /\ UNCHANGED cur

\* delete_record after its locks: its own DELETE write record, then the slot.
DelSlot(t) ==
    LET r == cur[t].rid IN
    /\ pc[t] = "del_slot"
    /\ LogWrite(t, "DELETE", r, SlotValue(rm, r))
    /\ rm' = DeleteSlot(rm, r)
    /\ Remember(t, r)
    /\ SetPc(t, "idle")
    /\ UNCHANGED <<lockTable, lockSet, txnState, ended, index, cur, undoPos,
                   stmts, crashed>>

(* UpdateExecutor::Next: get_record (locks held), an UPDATE write record  *)
(* with the old record, update_record, then the index.                    *)
UpdExec(t) ==
    LET r == cur[t].rid IN
    /\ pc[t] = "upd_exec"
    /\ LogWrite(t, "UPDATE", r, SlotValue(rm, r))
    /\ cur' = [cur EXCEPT ![t].old = SlotValue(rm, r)]
    /\ SetPc(t, "upd_ix")
    /\ UNCHANGED <<rm, lockTable, lockSet, txnState, ended, index, undoPos, stmts,
                   crashed, before>>

UpdIX(t) ==
    /\ pc[t] = "upd_ix"
    /\ LockCall(t, "upd_x", TableLock, "lock_IX_on_table")
    /\ UNCHANGED cur

UpdX(t) ==
    /\ pc[t] = "upd_x"
    /\ LockCall(t, "upd_slot", cur[t].rid, "lock_exclusive_on_record")
    /\ UNCHANGED cur

\* update_record after its locks: its own UPDATE write record (the slot
\* still holds the old record), then the new bytes.
UpdSlot(t) ==
    LET r == cur[t].rid IN
    /\ pc[t] = "upd_slot"
    /\ LogWrite(t, "UPDATE", r, SlotValue(rm, r))
    /\ rm' = UpdateSlot(rm, r, cur[t].val)
    /\ Remember(t, r)
    /\ SetPc(t, "upd_index")
    /\ UNCHANGED <<lockTable, lockSet, txnState, ended, index, cur, undoPos,
                   stmts, crashed>>

\* The SET column is the indexed one: delete the old key, insert the new
\* (ihs_.at throws if the handle is missing).
UpdIndex(t) ==
    /\ pc[t] = "upd_index"
    /\ index' = IndexInsert(IndexDelete(index, cur[t].old), cur[t].val, cur[t].rid)
    /\ IF index = NoHandle THEN StartAbort(t)
                           ELSE SetPc(t, "idle") /\ UNCHANGED undoPos
    /\ UNCHANGED <<rm, lockTable, lockSet, txnState, ended, writeSet, cur,
                   stmts, crashed, before>>

-----------------------------------------------------------------------------
(* TransactionManager::commit: unlock a copy of the lock set, COMMITTED. *)
TxnCommit(t) ==
    /\ pc[t] = "idle"
    /\ ReleaseAll(t)
    /\ txnState' = [txnState EXCEPT ![t] = "COMMITTED"]
    /\ ended' = ended \cup {t}
    /\ SetPc(t, "done")
    /\ UNCHANGED <<rm, lockSet, writeSet, index, cur, undoPos, stmts, crashed,
                   before>>

\* The client's ROLLBACK between statements.
Rollback(t) ==
    /\ pc[t] = "idle"
    /\ StartAbort(t)
    /\ UNCHANGED <<rm, lockTable, lockSet, txnState, ended, writeSet, index, cur,
                   stmts, crashed, before>>

(***************************************************************************)
(* The body of abort's loop, for write record i, with a null context *)
(* (no locks, no new write records).  INSERT: delete the key built from    *)
(* the record, then delete_record.  DELETE: insert_record(rid, buf), then  *)
(* the key.  UPDATE: read the current record, delete its key, write the   *)
(* old record back, insert the old key.  An INSERT record built without a *)
(* record has a null data pointer: with an open index handle, building   *)
(* the key reads through it and the process dies.  A missing handle is    *)
(* skipped before the key is built.                                        *)
(***************************************************************************)
UndoAt(t, i) ==
    LET wr  == writeSet[t][i]
        now == SlotValue(rm, wr.rid)
    IN
    /\ \/ /\ wr.type = "INSERT"
          /\ HandleOpen /\ wr.image = NoImage
          /\ crashed' = TRUE
          /\ UNCHANGED <<rm, index>>
       \/ /\ wr.type = "INSERT"
          /\ ~(HandleOpen /\ wr.image = NoImage)
          /\ index' = IndexDelete(index, wr.image)
          /\ rm' = DeleteSlot(rm, wr.rid)
          /\ UNCHANGED crashed
       \/ /\ wr.type = "DELETE"
          /\ rm' = InsertRecordAt(rm, wr.rid, wr.image)
          /\ index' = IndexInsert(index, wr.image, wr.rid)
          /\ UNCHANGED crashed
       \/ /\ wr.type = "UPDATE"
          /\ index' = IndexInsert(IndexDelete(index, now), wr.image, wr.rid)
          /\ rm' = UpdateSlot(rm, wr.rid, wr.image)
          /\ UNCHANGED crashed
    /\ UNCHANGED <<lockTable, lockSet, txnState, ended, writeSet, pc, cur, stmts,
                   before>>

\* Mutant of UndoWrite: the write set undone from the first record on.
UndoWriteForward(t) ==
    /\ pc[t] = "undo"
    /\ undoPos[t] > 0
    /\ UndoAt(t, Len(writeSet[t]) - undoPos[t] + 1)
    /\ undoPos' = [undoPos EXCEPT ![t] = @ - 1]

\* abort's loop, from the last write record down to the first.
UndoWrite(t) ==
    /\ pc[t] = "undo"
    /\ undoPos[t] > 0
    /\ UndoAt(t, undoPos[t])
    /\ undoPos' = [undoPos EXCEPT ![t] = @ - 1]

\* After the loop: unlock a copy of the lock set, ABORTED.
UndoEnd(t) ==
    /\ pc[t] = "undo"
    /\ undoPos[t] = 0
    /\ ReleaseAll(t)
    /\ txnState' = [txnState EXCEPT ![t] = "ABORTED"]
    /\ ended' = ended \cup {t}
    /\ SetPc(t, "done")
    /\ UNCHANGED <<rm, lockSet, writeSet, index, cur, undoPos, stmts, crashed,
                   before>>

-----------------------------------------------------------------------------
TxnInit ==
    /\ RMInit
    /\ lockTable = [id \in LockIds |-> [t \in Txns |-> NoLock]]
    /\ lockSet = [t \in Txns |-> {}]
    /\ txnState = [t \in Txns |-> "DEFAULT"]
    /\ ended = {}
    /\ writeSet = [t \in Txns |-> <<>>]
    /\ index \in IndexInit
    /\ pc = [t \in Txns |-> "none"]
    /\ cur = [t \in Txns |-> [kind |-> "insert", rid |-> NoRid, val |-> NoImage,
                              old |-> NoImage]]
    /\ undoPos = [t \in Txns |-> 0]
    /\ stmts = [t \in Txns |-> 0]
    /\ crashed = FALSE
    /\ before = [t \in Txns |-> << >>]

\* The steps of transaction t's thread.
TxnStep(t) ==
    \/ Begin(t)
    \/ \E k \in Kinds, v \in Vals : StartStmt(t, k, v)
    \/ InsIX(t) \/ InsPick(t) \/ InsX(t) \/ InsFill(t) \/ InsExec(t)
    \/ ScanTab(t) \/ ScanRec(t)
    \/ DelExec(t) \/ DelIX(t) \/ DelX(t) \/ DelSlot(t)
    \/ UpdExec(t) \/ UpdIX(t) \/ UpdX(t) \/ UpdSlot(t) \/ UpdIndex(t)
    \/ TxnCommit(t) \/ Rollback(t) \/ UndoWrite(t) \/ UndoEnd(t)

TxnNext == ~crashed /\ \E t \in Txns : TxnStep(t)

\* Each thread keeps running while it can: the OS schedules every thread.
TxnFairness == \A t \in Txns : WF_vars(TxnStep(t))

TxnSpec == TxnInit /\ [][TxnNext]_vars /\ TxnFairness

-----------------------------------------------------------------------------
(***************************************************************************)
(* Properties                                                              *)
(***************************************************************************)

(* Abort puts back every record the transaction wrote: when abort's loop  *)
(* and release are done, each rid the transaction wrote holds what it held *)
(* before the transaction's first write to it (the record, or none).  It  *)
(* is about the write records the handle and the executors each append,  *)
(* the reverse undo loop, and the locks that are to keep other writers    *)
(* off those rids meanwhile.                                               *)
AbortRestores ==
    [][\A t \in Txns :
         (pc[t] = "undo" /\ pc'[t] = "done") =>
             \A r \in DOMAIN before[t] : RecordAt(rm', r) = before[t][r]]_vars

(* Abort never dies: every write record the undo loop meets can be undone. *)
(* It is about the INSERT write record the record handle appends without  *)
(* a record, read when the table has an index.                            *)
AbortNeverFaults == ~crashed

(* Undo writes only rows the transaction holds X on.  Abort runs without  *)
(* locks, on the promise that the owning transaction still holds them; it *)
(* is about the executors appending a write record before delete_record / *)
(* update_record take their IX and X locks.                                *)
UndoUnderOwnX ==
    \A t \in Txns :
        (pc[t] = "undo" /\ undoPos[t] > 0) =>
            lockTable[writeSet[t][undoPos[t]].rid][t] = "X"

(* Strict two-phase locking isolates writes: while a transaction runs,    *)
(* no step of another transaction changes a row it has written.  It is    *)
(* about the S-then-X upgrade of the scanned row in delete_record and      *)
(* update_record, the X lock insert_record takes on its chosen slot, the   *)
(* locks being kept until commit or abort's release, and the undo loop     *)
(* writing only rids its own write records name.                          *)
WritesIsolated ==
    [][\A t \in Txns, r \in Rids :
         (r \in DOMAIN before[t] /\ t \notin ended /\ RecordAt(rm', r) # RecordAt(rm, r))
             => (pc'[t] # pc[t] \/ undoPos'[t] # undoPos[t])]_vars

(* Every transaction ends: no-wait locking refuses instead of blocking, so *)
(* with every thread scheduled each transaction commits or aborts.  It is *)
(* about the lock calls never waiting and the free-chain walk of          *)
(* create_page_handle ending.                                              *)
EveryTxnEnds == \A t \in Txns : <>(t \in ended)
=============================================================================
