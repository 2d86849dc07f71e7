----------------------------- MODULE LockManager -----------------------------
(***************************************************************************)
(* The multi-granularity lock manager of src/transaction/concurrency/      *)
(* lock_manager.cpp.  Every request function holds the manager's latch for *)
(* its whole body, so each call is one atomic step.  All requests are      *)
(* granted at once or refused at once (no-wait): a refusal marks the       *)
(* transaction ABORTED and throws TransactionAbortException.               *)
(*                                                                         *)
(* A transaction has at most one request in a queue: every function looks *)
(* for the caller's own request first.  So a queue is modelled as a        *)
(* function from transactions to the mode held (or NoLock), and the        *)
(* `granted_' flag, always TRUE, is left out.                              *)
(***************************************************************************)
EXTENDS FiniteSets, TLC

CONSTANTS
    Txns,         \* transaction ids
    TableLocks,   \* LockDataId of type TABLE, one per table fd
    RecordLocks,  \* LockDataId of type RECORD, one per (fd, rid)
    NoLock        \* model value: the transaction has no request in the queue

LockIds == TableLocks \cup RecordLocks
Modes == {"IS", "IX", "S", "SIX", "X"}

VARIABLES
    lockTable,    \* lock_table_: lockTable[id][t] is t's mode on id, or NoLock
    lockSet,      \* Transaction::lock_set_ of each transaction
    txnState      \* Transaction::state_, written by the manager on refusal

(***************************************************************************)
(* The six request functions, as data.  For each: the mode a fresh request *)
(* is granted; the held modes that make the call return at once; the       *)
(* upgrades, from a held mode to a new one, with the modes of other        *)
(* holders that refuse the upgrade; and the modes of other holders that    *)
(* refuse a fresh request.                                                 *)
(***************************************************************************)
NoUpgrade == [m \in {} |-> NoLock]

ReqSharedOnRecord ==
    [mode |-> "S", reentrant |-> {"S", "X"}, upgrade |-> NoUpgrade,
     refusedBy |-> {"X"}]

ReqExclusiveOnRecord ==
    [mode |-> "X", reentrant |-> {"X"},
     upgrade |-> [m \in {"S"} |-> [to |-> "X", refusedBy |-> Modes]],
     refusedBy |-> Modes]

ReqSharedOnTable ==
    [mode |-> "S", reentrant |-> {"S", "X", "SIX"},
     upgrade |-> ("IX" :> [to |-> "SIX", refusedBy |-> Modes \ {"IS"}]) @@
                 ("IS" :> [to |-> "S", refusedBy |-> {"X", "IX", "SIX"}]),
     refusedBy |-> {"X", "IX", "SIX"}]

ReqExclusiveOnTable ==
    [mode |-> "X", reentrant |-> {"X"},
     upgrade |-> [m \in Modes \ {"X"} |-> [to |-> "X", refusedBy |-> Modes]],
     refusedBy |-> Modes]

ReqISOnTable ==
    [mode |-> "IS", reentrant |-> Modes, upgrade |-> NoUpgrade, refusedBy |-> {"X"}]

\* Mutants of ReqIXOnTable: the IS -> IX upgrade not refused by S; the
\* S upgrade granting IX instead of SIX.
ReqIXOnTableIgnoresS ==
    [mode |-> "IX", reentrant |-> {"IX", "X", "SIX"},
     upgrade |-> ("S" :> [to |-> "SIX", refusedBy |-> Modes \ {"IS"}]) @@
                 ("IS" :> [to |-> "IX", refusedBy |-> {"X", "SIX"}]),
     refusedBy |-> {"S", "X", "SIX"}]
ReqIXOnTableSToIX ==
    [mode |-> "IX", reentrant |-> {"IX", "X", "SIX"},
     upgrade |-> ("S" :> [to |-> "IX", refusedBy |-> Modes \ {"IS"}]) @@
                 ("IS" :> [to |-> "IX", refusedBy |-> {"S", "X", "SIX"}]),
     refusedBy |-> {"S", "X", "SIX"}]

ReqIXOnTable ==
    [mode |-> "IX", reentrant |-> {"IX", "X", "SIX"},
     upgrade |-> ("S" :> [to |-> "SIX", refusedBy |-> Modes \ {"IS"}]) @@
                 ("IS" :> [to |-> "IX", refusedBy |-> {"S", "X", "SIX"}]),
     refusedBy |-> {"S", "X", "SIX"}]

Req ==
    [lock_shared_on_record    |-> ReqSharedOnRecord,
     lock_exclusive_on_record |-> ReqExclusiveOnRecord,
     lock_shared_on_table     |-> ReqSharedOnTable,
     lock_exclusive_on_table  |-> ReqExclusiveOnTable,
     lock_IS_on_table         |-> ReqISOnTable,
     lock_IX_on_table         |-> ReqIXOnTable]

TableRequests  == {"lock_shared_on_table", "lock_exclusive_on_table",
                   "lock_IS_on_table", "lock_IX_on_table"}
RecordRequests == {"lock_shared_on_record", "lock_exclusive_on_record"}

\* Modes other transactions hold on id.
OthersModes(t, id) == {lockTable[id][u] : u \in Txns \ {t}} \ {NoLock}

(***************************************************************************)
(* The outcome of request k by t on id: granted with a mode (and whether   *)
(* it was a fresh request, the only path that inserts into the lock set),  *)
(* or refused with a reason.                                               *)
(***************************************************************************)
Outcome(t, id, k) ==
    LET r    == Req[k]
        held == lockTable[id][t]
        free(refusers) == OthersModes(t, id) \cap refusers = {}
    IN  CASE held \in r.reentrant ->
               [ok |-> TRUE, mode |-> held, fresh |-> FALSE, reason |-> "NONE"]
          [] held \in DOMAIN r.upgrade ->
               IF free(r.upgrade[held].refusedBy)
               THEN [ok |-> TRUE, mode |-> r.upgrade[held].to, fresh |-> FALSE,
                     reason |-> "NONE"]
               ELSE [ok |-> FALSE, mode |-> held, fresh |-> FALSE,
                     reason |-> "UPGRADE_CONFLICT"]
          [] OTHER ->
               IF free(r.refusedBy)
               THEN [ok |-> TRUE, mode |-> r.mode, fresh |-> TRUE, reason |-> "NONE"]
               ELSE [ok |-> FALSE, mode |-> held, fresh |-> FALSE,
                     reason |-> "DEADLOCK_PREVENTION"]

\* Mutant of Grant: a fresh grant not recorded in the lock set.
GrantForgetsLockSet(t, id, k) ==
    LET o == Outcome(t, id, k) IN
    /\ o.ok
    /\ lockTable' = [lockTable EXCEPT ![id][t] = o.mode]
    /\ lockSet' = lockSet

\* The granting half of a request function: the queue entry and the lock set.
Grant(t, id, k) ==
    LET o == Outcome(t, id, k) IN
    /\ o.ok
    /\ lockTable' = [lockTable EXCEPT ![id][t] = o.mode]
    /\ lockSet' = IF o.fresh THEN [lockSet EXCEPT ![t] = @ \cup {id}] ELSE lockSet

\* The refusing half: set_state(ABORTED) and throw.
Refuse(t, id, k) ==
    /\ ~Outcome(t, id, k).ok
    /\ txnState' = [txnState EXCEPT ![t] = "ABORTED"]
    /\ UNCHANGED <<lockTable, lockSet>>

\* The loop of TransactionManager::commit / abort over a copy of the lock
\* set, calling LockManager::unlock on each id.  The lock set is not cleared.
ReleaseAll(t) ==
    lockTable' = [id \in LockIds |->
                    IF id \in lockSet[t] THEN [lockTable[id] EXCEPT ![t] = NoLock]
                                         ELSE lockTable[id]]

-----------------------------------------------------------------------------
(***************************************************************************)
(* Stand-alone specification: transactions call any request function on   *)
(* any lock id, in any order, and end by commit or abort.  The manager     *)
(* does not check that intention locks precede record locks, so neither   *)
(* does this spec.                                                         *)
(***************************************************************************)
VARIABLE ended   \* transactions whose commit or abort has run

lmVars == <<lockTable, lockSet, txnState, ended>>

LMTypeOK ==
    /\ lockTable \in [LockIds -> [Txns -> Modes \cup {NoLock}]]
    /\ lockSet \in [Txns -> SUBSET LockIds]
    /\ txnState \in [Txns -> {"GROWING", "ABORTED", "COMMITTED"}]
    /\ ended \subseteq Txns

LMInit ==
    /\ lockTable = [id \in LockIds |-> [t \in Txns |-> NoLock]]
    /\ lockSet = [t \in Txns |-> {}]
    /\ txnState = [t \in Txns |-> "GROWING"]
    /\ ended = {}

Request(t, id, k) ==
    /\ txnState[t] = "GROWING"
    /\ \/ Grant(t, id, k) /\ UNCHANGED txnState
       \/ Refuse(t, id, k)
    /\ UNCHANGED ended

Commit(t) ==
    /\ txnState[t] = "GROWING"
    /\ ReleaseAll(t)
    /\ txnState' = [txnState EXCEPT ![t] = "COMMITTED"]
    /\ ended' = ended \cup {t}
    /\ UNCHANGED lockSet

Abort(t) ==
    /\ t \notin ended
    /\ txnState[t] \in {"GROWING", "ABORTED"}
    /\ ReleaseAll(t)
    /\ txnState' = [txnState EXCEPT ![t] = "ABORTED"]
    /\ ended' = ended \cup {t}
    /\ UNCHANGED lockSet

LMNext ==
    \E t \in Txns :
        \/ \E id \in TableLocks, k \in TableRequests : Request(t, id, k)
        \/ \E id \in RecordLocks, k \in RecordRequests : Request(t, id, k)
        \/ Commit(t)
        \/ Abort(t)

LMSpec == LMInit /\ [][LMNext]_lmVars

-----------------------------------------------------------------------------
(***************************************************************************)
(* Properties                                                              *)
(***************************************************************************)

\* The compatibility matrix of the specification (section 4.4), written out
\* independently of the request functions above.
Compatible(a, b) ==
    <<a, b>> \in { <<"IS", "IS">>, <<"IS", "IX">>, <<"IS", "S">>, <<"IS", "SIX">>,
                   <<"IX", "IS">>, <<"IX", "IX">>,
                   <<"S", "IS">>, <<"S", "S">>,
                   <<"SIX", "IS">> }

\* The lattice X > SIX > {S, IX} > IS, as the set of modes at least m.
AtLeast(m) ==
    CASE m = "IS"  -> Modes
      [] m = "IX"  -> {"IX", "SIX", "X"}
      [] m = "S"   -> {"S", "SIX", "X"}
      [] m = "SIX" -> {"SIX", "X"}
      [] m = "X"   -> {"X"}

(* Whatever sequence of requests, upgrades and releases the transactions   *)
(* make, the modes two different transactions hold on one lock id are      *)
(* compatible.  It is about the conflict checks of all six request         *)
(* functions together: an upgrade check that forgets one mode lets a later *)
(* fresh request or upgrade of another transaction pile onto it.           *)
GrantedCompatible ==
    \A id \in LockIds : \A t, u \in Txns :
        (t # u /\ lockTable[id][t] # NoLock /\ lockTable[id][u] # NoLock)
            => Compatible(lockTable[id][t], lockTable[id][u])

(* A lock never outlives its transaction: once commit or abort has run,    *)
(* the transaction holds nothing anywhere.  It is about the lock set the   *)
(* request functions keep and the release loop of commit/abort that walks  *)
(* only that set.                                                          *)
NoLockAfterEnd ==
    \A t \in ended : \A id \in LockIds : lockTable[id][t] = NoLock

(* Strict two-phase locking: while a transaction runs, a mode it holds on  *)
(* an id only ever grows in the lattice; it is never weakened, moved       *)
(* sideways (S to IX) or dropped before commit or abort.  It is about the  *)
(* upgrade branches of the request functions.                              *)
HeldModesOnlyGrow ==
    [][\A t \in Txns \ ended' : \A id \in LockIds :
          lockTable[id][t] # NoLock =>
              lockTable'[id][t] \in AtLeast(lockTable[id][t])]_lmVars
=============================================================================
