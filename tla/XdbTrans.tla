------------------------------- MODULE XdbTrans -------------------------------
(***************************************************************************)
(* Transactions and row changes: core/xdb_trans.c, the row operations of   *)
(* core/xdb_crud.c and the statement dispatch of core/xdb_sql.c.           *)
(*                                                                         *)
(* A row is a block with a control byte.  A transaction writes new         *)
(* versions beside the old ones (TRANS) and remembers, per table, the rows *)
(* it added and the committed rows it will delete; readers look at the     *)
(* control byte and at their own two sets.  Commit walks the sets row by   *)
(* row, under the table's write lock but without its storage lock.         *)
(*                                                                         *)
(* Every table has a unique primary index.  A statement changes one row    *)
(* (a DELETE any number); a longer one is a sequence of those.             *)
(***************************************************************************)
EXTENDS Naturals, FiniteSets

CONSTANTS
    Conns,          \* connections, one thread each
    NoConn,
    Tables,         \* table ids
    NoTable,
    MemTables,      \* the tables with ENGINE=MEMORY
    Rows,           \* row ids; a table cannot grow beyond them
    Keys, Vals,     \* values of the primary key and of the other columns
    Junk,           \* content of a row that was freed: its head is a list link
    OrderedAccess   \* whether clients first touch tables in increasing order

ASSUME TransAssumption ==
    /\ NoConn \notin Conns /\ NoTable \notin Tables
    /\ Tables \subseteq Nat /\ Rows \subseteq Nat
    /\ IsFiniteSet(Tables) /\ IsFiniteSet(Rows)
    /\ MemTables \subseteq Tables
    /\ OrderedAccess \in BOOLEAN

Records == [key : Keys, val : Vals]
ASSUME JunkAssumption == Junk \notin Records

VARIABLES
    ctrl,       \* control byte of every row of every table
    row,        \* content of every row
    idx,        \* rows in the primary index of every table
    tblLock,    \* tbl_lock: the connection that holds it, or NoConn
    readers,    \* stg_lock: the connections that read under it
    inTrans,    \* bInTrans
    autoTrans,  \* bAutoTrans: the transaction is one statement's own
    wrLocks,    \* tbl_wrlocks: tables this connection locked
    tblRows,    \* tbl_rows: tables with rows in the two sets below
    newRows,    \* new_rows: versions added by the transaction
    delRows,    \* del_rows: committed versions it replaces or deletes
    pc,         \* what the connection is doing
    stmt,       \* table of the statement in execution
    todo,       \* commit, rollback: tables not yet done
    toNew,      \* ... rows of new_rows not yet visited
    toDel,      \* ... rows of del_rows not yet visited
    again       \* a BEGIN inside a transaction: commit, then begin

rowVars == <<ctrl, row, idx>>
setVars == <<tblRows, newRows, delRows>>
walkVars == <<todo, toNew, toDel, again>>
connVars == <<inTrans, autoTrans>>
lockVars == <<tblLock, wrLocks>>
vars == <<rowVars, setVars, walkVars, connVars, lockVars, readers, pc, stmt>>

FREE == "free"
COMMIT == "commit"
TRANS == "trans"

Empty == [t \in Tables |-> {}]
Least(x, S) == x \in S /\ \A y \in S : x <= y

Init ==
    /\ ctrl = [t \in Tables |-> [r \in Rows |-> FREE]]
    /\ row = [t \in Tables |-> [r \in Rows |-> Junk]]
    /\ idx = Empty
    /\ tblLock = [t \in Tables |-> NoConn]
    /\ readers = [t \in Tables |-> {}]
    /\ inTrans = [c \in Conns |-> FALSE]
    /\ autoTrans = [c \in Conns |-> FALSE]
    /\ wrLocks = [c \in Conns |-> {}]
    /\ tblRows = [c \in Conns |-> {}]
    /\ newRows = [c \in Conns |-> Empty]
    /\ delRows = [c \in Conns |-> Empty]
    /\ pc = [c \in Conns |-> "idle"]
    /\ stmt = [c \in Conns |-> NoTable]
    /\ todo = [c \in Conns |-> {}]
    /\ toNew = [c \in Conns |-> Empty]
    /\ toDel = [c \in Conns |-> Empty]
    /\ again = [c \in Conns |-> FALSE]

-------------------------------------------------------------------------------
(* What a connection sees.                                                  *)

\* xdb_row_valid
Valid(c, t, r) ==
    \/ ctrl[t][r] = COMMIT /\ r \notin delRows[c][t]
    \/ ctrl[t][r] = TRANS /\ r \in newRows[c][t]

ValidRows(c, t) == {r \in Rows : Valid(c, t, r)}

\* mutant: the unique check sees only committed rows
M_Taken(c, t, S, k) == \E r \in idx[t] \ S : row[t][r].key = k /\ ctrl[t][r] = COMMIT

\* the unique index finds a row with key k that c sees, other than those in S
Taken(c, t, S, k) == \E r \in idx[t] \ S : row[t][r].key = k /\ Valid(c, t, r)

\* bMemory && bAutoTrans: no table lock, no transaction, changes at once
Fast(c, t) == t \in MemTables /\ autoTrans[c]

FreeRows(t) == {r \in Rows : ctrl[t][r] = FREE}

-------------------------------------------------------------------------------
(* Mutants of the operations below.                                         *)

\* a version of the own transaction that is deleted stays in new_rows
M_Apply(c, t, gone, used, rec) ==
    LET now == {r \in gone : Fast(c, t) \/ ctrl[t][r] = TRANS}
        logged == (used # {} /\ ~Fast(c, t)) \/ gone # now
    IN  /\ ctrl' = [ctrl EXCEPT ![t] = [r \in Rows |->
                       IF r \in used THEN IF Fast(c, t) THEN COMMIT ELSE TRANS
                       ELSE IF r \in now THEN FREE ELSE ctrl[t][r]]]
        /\ row' = [row EXCEPT ![t] = [r \in Rows |->
                       IF r \in used THEN rec ELSE IF r \in now THEN Junk ELSE row[t][r]]]
        /\ idx' = [idx EXCEPT ![t] = (@ \ now) \union used]
        /\ newRows' = [newRows EXCEPT ![c][t] = IF Fast(c, t) THEN @ ELSE @ \union used]
        /\ delRows' = [delRows EXCEPT ![c][t] = @ \union (gone \ now)]
        /\ tblRows' = [tblRows EXCEPT ![c] = IF logged THEN @ \union {t} ELSE @]

\* a committed row is deleted from the table although it is still in the index
M_CommitDel(c, t, r) ==
    /\ pc[c] = "commit"
    /\ Least(t, todo[c])
    /\ toNew[c][t] = {}
    /\ Least(r, toDel[c][t])
    /\ toDel' = [toDel EXCEPT ![c][t] = @ \ {r}]
    /\ ctrl' = [ctrl EXCEPT ![t][r] = FREE]
    /\ row' = [row EXCEPT ![t][r] = Junk]
    /\ UNCHANGED <<idx, setVars, todo, toNew, again, connVars, lockVars, readers, pc, stmt>>

\* rollback walks the deleted rows instead of the new ones
M_Rollback(c) ==
    /\ pc[c] = "idle" /\ inTrans[c]
    /\ pc' = [pc EXCEPT ![c] = "rollback"]
    /\ todo' = [todo EXCEPT ![c] = tblRows[c]]
    /\ toNew' = [toNew EXCEPT ![c] = delRows[c]]
    /\ UNCHANGED <<rowVars, setVars, toDel, again, connVars, lockVars, readers, stmt>>

\* a new row that was committed is visited again
M_CommitNew(c, t, r) ==
    /\ pc[c] = "commit"
    /\ Least(t, todo[c])
    /\ Least(r, toNew[c][t])
    /\ ctrl' = [ctrl EXCEPT ![t][r] = COMMIT]
    /\ UNCHANGED <<row, idx, setVars, walkVars, connVars, lockVars, readers, pc, stmt>>

\* the locks go before the rows are done
M_MayUnlock(c) == pc[c] \in {"commit", "rollback"}

\* a row that is removed gets the control byte of a fresh block
M_FreeRow(t, r) ==
    /\ idx' = [idx EXCEPT ![t] = @ \ {r}]
    /\ ctrl' = [ctrl EXCEPT ![t][r] = "dirty"]
    /\ row' = [row EXCEPT ![t][r] = Junk]

\* a connection waits for a lock it holds
M_MayLock(c, t) == tblLock[t] = NoConn

-------------------------------------------------------------------------------
(* One statement: xdb_stmt_exec.                                            *)

\* BEGIN, xdb_begin2: an open transaction is committed first.
Begin(c) ==
    /\ pc[c] = "idle"
    /\ \/ /\ ~inTrans[c]
          /\ inTrans' = [inTrans EXCEPT ![c] = TRUE]
          /\ autoTrans' = [autoTrans EXCEPT ![c] = FALSE]
          /\ UNCHANGED <<walkVars, pc>>
       \/ /\ inTrans[c]
          /\ again' = [again EXCEPT ![c] = TRUE]
          /\ pc' = [pc EXCEPT ![c] = "commit"]
          /\ todo' = [todo EXCEPT ![c] = tblRows[c]]
          /\ toNew' = [toNew EXCEPT ![c] = newRows[c]]
          /\ toDel' = [toDel EXCEPT ![c] = delRows[c]]
          /\ UNCHANGED connVars
    /\ UNCHANGED <<rowVars, setVars, lockVars, readers, stmt>>

\* INSERT, UPDATE, DELETE or REPLACE on table t; outside a transaction it
\* becomes one of its own.
Statement(c, t) ==
    /\ pc[c] = "idle"
    /\ OrderedAccess => \A u \in wrLocks[c] : u <= t
    /\ stmt' = [stmt EXCEPT ![c] = t]
    /\ inTrans' = [inTrans EXCEPT ![c] = TRUE]
    /\ autoTrans' = [autoTrans EXCEPT ![c] = IF inTrans[c] THEN @ ELSE TRUE]
    /\ pc' = [pc EXCEPT ![c] = IF t \in MemTables /\ ~inTrans[c] THEN "exec" ELSE "lock"]
    /\ UNCHANGED <<rowVars, setVars, walkVars, lockVars, readers>>

\* xdb_wrlock_table: the lock is kept to the end of the transaction, and the
\* connection that has it passes.
MayLock(c, t) == t \in wrLocks[c] \/ tblLock[t] = NoConn

LockTable(c, t) ==
    /\ pc[c] = "lock" /\ stmt[c] = t
    /\ MayLock(c, t)
    /\ \/ t \in wrLocks[c] /\ UNCHANGED lockVars
       \/ /\ t \notin wrLocks[c]
          /\ tblLock' = [tblLock EXCEPT ![t] = c]
          /\ wrLocks' = [wrLocks EXCEPT ![c] = @ \union {t}]
    /\ pc' = [pc EXCEPT ![c] = "exec"]
    /\ UNCHANGED <<rowVars, setVars, walkVars, connVars, readers, stmt>>

-------------------------------------------------------------------------------
(* The row operations, under the storage write lock.                        *)

\* The rows in gone disappear for c, and rec goes into the free row in used
\* (at most one).  Versions of the own transaction, and any row of a fast
\* statement, are freed now (xdb_row_delete, xdb_row_updDel); others wait in
\* del_rows.  A new version is TRANS and in new_rows, or COMMIT at once.
Apply(c, t, gone, used, rec) ==
    LET now == {r \in gone : Fast(c, t) \/ ctrl[t][r] = TRANS}
        logged == (used # {} /\ ~Fast(c, t)) \/ gone # now
    IN  /\ ctrl' = [ctrl EXCEPT ![t] = [r \in Rows |->
                       IF r \in used THEN IF Fast(c, t) THEN COMMIT ELSE TRANS
                       ELSE IF r \in now THEN FREE ELSE ctrl[t][r]]]
        /\ row' = [row EXCEPT ![t] = [r \in Rows |->
                       IF r \in used THEN rec ELSE IF r \in now THEN Junk ELSE row[t][r]]]
        /\ idx' = [idx EXCEPT ![t] = (@ \ now) \union used]
        /\ newRows' = [newRows EXCEPT ![c][t] =
                          IF Fast(c, t) THEN @ ELSE (@ \ now) \union used]
        /\ delRows' = [delRows EXCEPT ![c][t] = @ \union (gone \ now)]
        /\ tblRows' = [tblRows EXCEPT ![c] = IF logged THEN @ \union {t} ELSE @]

\* xdb_row_insert; a duplicate key or a full table leaves no trace (NoChange)
Insert(c, t) ==
    \E rec \in Records, q \in FreeRows(t) :
        ~Taken(c, t, {}, rec.key) /\ Apply(c, t, {}, {q}, rec)

\* xdb_row_delete of the rows the filter found
Delete(c, t) ==
    \E S \in SUBSET ValidRows(c, t) : S # {} /\ Apply(c, t, S, {}, Junk)

\* xdb_row_update through a new version.  When the new one cannot be inserted
\* (no free row, or its key is taken) the old one is gone all the same.
Replace(c, t, r, rec) ==
    \/ ~Taken(c, t, {r}, rec.key) /\ \E q \in FreeRows(t) : Apply(c, t, {r}, {q}, rec)
    \/ /\ FreeRows(t) = {} \/ Taken(c, t, {r}, rec.key)
       /\ Apply(c, t, {r}, {}, Junk)

\* UPDATE that sets the key, or REPLACE of an existing row (which sets every
\* column): the unique check runs before anything changes.
UpdateKey(c, t) ==
    \E r \in ValidRows(c, t), rec \in Records :
        ~Taken(c, t, {r}, rec.key) /\ Replace(c, t, r, rec)

\* UPDATE of other columns: no unique check.  In place when nobody else may see
\* the version and the row has no part outside the block.
UpdateVal(c, t) ==
    \E r \in ValidRows(c, t), v \in Vals :
        \/ /\ Fast(c, t) \/ ctrl[t][r] = TRANS
           /\ row' = [row EXCEPT ![t][r].val = v]
           /\ UNCHANGED <<ctrl, idx, setVars>>
        \/ Replace(c, t, r, [key |-> row[t][r].key, val |-> v])

NoChange(c, t) == UNCHANGED <<rowVars, setVars>>

Exec(c, t) ==
    /\ pc[c] = "exec" /\ stmt[c] = t
    /\ readers[t] = {}
    /\ \/ Insert(c, t) \/ Delete(c, t) \/ UpdateKey(c, t) \/ UpdateVal(c, t)
       \/ NoChange(c, t)
    /\ pc' = [pc EXCEPT ![c] = "done"]
    /\ UNCHANGED <<walkVars, connVars, lockVars, readers, stmt>>

-------------------------------------------------------------------------------
(* Commit and rollback.                                                     *)

\* Start to walk: xdb_commit, after the WAL is written
StartCommit(c) ==
    /\ pc' = [pc EXCEPT ![c] = "commit"]
    /\ todo' = [todo EXCEPT ![c] = tblRows[c]]
    /\ toNew' = [toNew EXCEPT ![c] = newRows[c]]
    /\ toDel' = [toDel EXCEPT ![c] = delRows[c]]
    /\ UNCHANGED again

\* End of a statement: one that is its own transaction commits, unless it was
\* a fast one, which has nothing to commit.
EndStatement(c) ==
    /\ pc[c] = "done"
    /\ stmt' = [stmt EXCEPT ![c] = NoTable]
    /\ \/ /\ ~autoTrans[c]
          /\ pc' = [pc EXCEPT ![c] = "idle"]
          /\ UNCHANGED <<walkVars, connVars>>
       \/ /\ Fast(c, stmt[c])
          /\ pc' = [pc EXCEPT ![c] = "idle"]
          /\ inTrans' = [inTrans EXCEPT ![c] = FALSE]
          /\ autoTrans' = [autoTrans EXCEPT ![c] = FALSE]
          /\ UNCHANGED walkVars
       \/ /\ autoTrans[c] /\ ~Fast(c, stmt[c])
          /\ StartCommit(c)
          /\ UNCHANGED connVars
    /\ UNCHANGED <<rowVars, setVars, lockVars, readers>>

\* COMMIT
Commit(c) ==
    /\ pc[c] = "idle" /\ inTrans[c]
    /\ StartCommit(c)
    /\ UNCHANGED <<rowVars, setVars, connVars, lockVars, readers, stmt>>

\* ROLLBACK, or the connection is closed
Rollback(c) ==
    /\ pc[c] = "idle" /\ inTrans[c]
    /\ pc' = [pc EXCEPT ![c] = "rollback"]
    /\ todo' = [todo EXCEPT ![c] = tblRows[c]]
    /\ toNew' = [toNew EXCEPT ![c] = newRows[c]]
    /\ UNCHANGED <<rowVars, setVars, toDel, again, connVars, lockVars, readers, stmt>>

\* xdb_trans_newrow_commit
CommitNew(c, t, r) ==
    /\ pc[c] = "commit"
    /\ Least(t, todo[c])
    /\ Least(r, toNew[c][t])
    /\ toNew' = [toNew EXCEPT ![c][t] = @ \ {r}]
    /\ ctrl' = [ctrl EXCEPT ![t][r] = COMMIT]
    /\ UNCHANGED <<row, idx, setVars, todo, toDel, again, connVars, lockVars, readers, pc, stmt>>

\* xdb_idx_remRow and __xdb_row_delete
FreeRow(t, r) ==
    /\ idx' = [idx EXCEPT ![t] = @ \ {r}]
    /\ ctrl' = [ctrl EXCEPT ![t][r] = FREE]
    /\ row' = [row EXCEPT ![t][r] = Junk]

\* xdb_trans_delrow_commit in a commit: after the new rows of the table
CommitDel(c, t, r) ==
    /\ pc[c] = "commit"
    /\ Least(t, todo[c])
    /\ toNew[c][t] = {}
    /\ Least(r, toDel[c][t])
    /\ toDel' = [toDel EXCEPT ![c][t] = @ \ {r}]
    /\ FreeRow(t, r)
    /\ UNCHANGED <<setVars, todo, toNew, again, connVars, lockVars, readers, pc, stmt>>

\* xdb_trans_delrow_commit in a rollback: of the rows the transaction added
RollbackNew(c, t, r) ==
    /\ pc[c] = "rollback"
    /\ Least(t, todo[c])
    /\ Least(r, toNew[c][t])
    /\ toNew' = [toNew EXCEPT ![c][t] = @ \ {r}]
    /\ FreeRow(t, r)
    /\ UNCHANGED <<setVars, todo, toDel, again, connVars, lockVars, readers, pc, stmt>>

\* xdb_tbltrans_init after the rows of a table: both sets are forgotten
TableDone(c, t) ==
    /\ pc[c] \in {"commit", "rollback"}
    /\ Least(t, todo[c])
    /\ toNew[c][t] = {}
    /\ pc[c] = "commit" => toDel[c][t] = {}
    /\ todo' = [todo EXCEPT ![c] = @ \ {t}]
    /\ newRows' = [newRows EXCEPT ![c][t] = {}]
    /\ delRows' = [delRows EXCEPT ![c][t] = {}]
    /\ UNCHANGED <<rowVars, tblRows, toNew, toDel, again, connVars, lockVars, readers, pc, stmt>>

MayUnlock(c) == pc[c] \in {"commit", "rollback"} /\ todo[c] = {}

\* xdb_trans_unlock
Unlock(c) ==
    /\ MayUnlock(c)
    /\ tblLock' = [t \in Tables |-> IF t \in wrLocks[c] THEN NoConn ELSE tblLock[t]]
    /\ wrLocks' = [wrLocks EXCEPT ![c] = {}]
    /\ tblRows' = [tblRows EXCEPT ![c] = {}]
    /\ inTrans' = [inTrans EXCEPT ![c] = again[c]]
    /\ autoTrans' = [autoTrans EXCEPT ![c] = FALSE]
    /\ again' = [again EXCEPT ![c] = FALSE]
    /\ pc' = [pc EXCEPT ![c] = "idle"]
    /\ UNCHANGED <<rowVars, newRows, delRows, todo, toNew, toDel, readers, stmt>>

Walk(c) ==
    \/ \E t \in Tables : \/ \E r \in Rows : \/ CommitNew(c, t, r) \/ CommitDel(c, t, r)
                                            \/ RollbackNew(c, t, r)
                         \/ TableDone(c, t)
    \/ Unlock(c)

Next == \E c \in Conns :
    \/ Begin(c) \/ Commit(c) \/ Rollback(c) \/ EndStatement(c) \/ Walk(c)
    \/ \E t \in Tables : Statement(c, t) \/ LockTable(c, t) \/ Exec(c, t)

Spec == Init /\ [][Next]_vars

\* A commit or a rollback that started keeps running: its thread runs it.
FairSpec == Spec /\ \A c \in Conns : WF_vars(Walk(c))

-------------------------------------------------------------------------------
(* Properties.                                                              *)

States == {"idle", "lock", "exec", "done", "commit", "rollback", "select"}

TypeOK ==
    /\ ctrl \in [Tables -> [Rows -> {FREE, COMMIT, TRANS}]]
    /\ row \in [Tables -> [Rows -> Records \union {Junk}]]
    /\ idx \in [Tables -> SUBSET Rows]
    /\ tblLock \in [Tables -> Conns \union {NoConn}]
    /\ readers \in [Tables -> SUBSET Conns]
    /\ inTrans \in [Conns -> BOOLEAN]
    /\ autoTrans \in [Conns -> BOOLEAN]
    /\ again \in [Conns -> BOOLEAN]
    /\ wrLocks \in [Conns -> SUBSET Tables]
    /\ tblRows \in [Conns -> SUBSET Tables]
    /\ todo \in [Conns -> SUBSET Tables]
    /\ newRows \in [Conns -> [Tables -> SUBSET Rows]]
    /\ delRows \in [Conns -> [Tables -> SUBSET Rows]]
    /\ toNew \in [Conns -> [Tables -> SUBSET Rows]]
    /\ toDel \in [Conns -> [Tables -> SUBSET Rows]]
    /\ pc \in [Conns -> States]
    /\ stmt \in [Conns -> Tables \union {NoTable}]

\* The rows of a transaction that are still to be made visible or removed.
OpenNew(c, t) == IF pc[c] \in {"commit", "rollback"} THEN toNew[c][t] ELSE newRows[c][t]
OpenDel(c, t) == IF pc[c] = "commit" THEN toDel[c][t] ELSE delRows[c][t]

\* A transaction holds a table's lock as long as it has rows of the table, and
\* tbl_wrlocks is exactly what it will unlock: xdb_trans_unlock drops no row
\* set that is not done and no lock of another connection.
LockCoversRows ==
    /\ \A c \in Conns, t \in Tables : t \in wrLocks[c] <=> tblLock[t] = c
    /\ \A c \in Conns, t \in Tables :
          newRows[c][t] \union delRows[c][t] # {} => tblLock[t] = c /\ t \in tblRows[c]

\* Every uncommitted version belongs to exactly one transaction, which will
\* commit or free it, and belongs to no second list: no version outlives its
\* transaction, none is committed twice.
VersionOwned ==
    \A t \in Tables, r \in Rows :
        /\ ctrl[t][r] = TRANS => \E c \in Conns : r \in OpenNew(c, t)
        /\ \A c \in Conns : r \in OpenNew(c, t) =>
               /\ ctrl[t][r] = TRANS
               /\ \A d \in Conns \ {c} : r \notin OpenNew(d, t)

\* A row that a commit is going to delete is still a committed row then, and
\* only one transaction has it: no block is freed twice (the free list would
\* hand it out twice), no row of a later transaction is deleted.
DeletePending ==
    \A t \in Tables, c \in Conns : \A r \in OpenDel(c, t) :
        /\ ctrl[t][r] = COMMIT
        /\ \A d \in Conns \ {c} : r \notin OpenDel(d, t)

\* The primary index holds exactly the rows that are in use, through inserts,
\* in-place and copying updates, commits and rollbacks.
IndexExact == \A t \in Tables : idx[t] = {r \in Rows : ctrl[t][r] # FREE}

DistinctKeys(t, S) == \A q, r \in S : row[t][q].key = row[t][r].key => q = r

Committed(t) == {r \in Rows : ctrl[t][r] = COMMIT}

\* The primary key is unique: in what the writer of a table sees, also while
\* it holds old and new versions of one key, and in the committed rows once
\* nobody writes the table.
KeysUnique ==
    \A t \in Tables :
        IF tblLock[t] = NoConn THEN DistinctKeys(t, Committed(t))
        ELSE DistinctKeys(t, ValidRows(tblLock[t], t))

WaitsFor(c, d) ==
    /\ pc[c] = "lock" /\ tblLock[stmt[c]] = d
    /\ ~MayLock(c, stmt[c])

\* When clients write tables in one order, xdb_wrlock_table never closes a
\* cycle: no set of connections waits only for locks of its own members.
NoDeadlock ==
    OrderedAccess =>
        \A S \in (SUBSET Conns) \ {{}} : \E c \in S : \A d \in S : ~WaitsFor(c, d)

\* A commit or rollback that started ends, and releases what it held.
CommitEnds == \A c \in Conns : pc[c] \in {"commit", "rollback"} ~> wrLocks[c] = {}

\* table t is being committed
Committing(t) == tblLock[t] # NoConn /\ pc[tblLock[t]] = "commit"

\* The committed content appears with the first step of the commit of the
\* table's writer: from then on it is what the writer sees.
Content(t, S) == {row[t][r] : r \in S}
DbOf(t) ==
    Content(t, IF Committing(t) THEN ValidRows(tblLock[t], t) ELSE Committed(t))
WorkOf(t) ==
    IF tblLock[t] # NoConn /\ pc[tblLock[t]] # "rollback"
    THEN Content(t, ValidRows(tblLock[t], t)) ELSE DbOf(t)

Abs == INSTANCE XdbTransAbs WITH
           db <- [t \in Tables |-> DbOf(t)],
           work <- [t \in Tables |-> WorkOf(t)],
           owner <- tblLock

\* The rows, sets and walks implement atomic transactions on table contents:
\* COMMIT publishes all tables at once, ROLLBACK restores every one of them,
\* statements change only the table of the transaction that holds its lock.
ImplementsTransactions == Abs!AbsSpec
===============================================================================
