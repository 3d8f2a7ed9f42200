# CrossDB in TLA+

CrossDB is an embeddable SQL database in C. These modules model the part of it
that is hard to test: the lock, the block store, the strings of rows, transactions on rows, SELECT
beside writers, hash and tree indexes, the way from a statement to its answer,
the catalog and its files, a replica that follows a table, and the log, flush and
repair that bring a disk database back after a crash. Paths below are relative to
`src/src/` of the repository (`core/xdb_trans.c` is `src/src/core/xdb_trans.c`).

## 1. The system

| Component | Code | State | Operations |
|---|---|---|---|
| Read-write lock | `lib/xdb_thread.c` | one counter | acquire and release, for reading and writing |
| Block store | `core/xdb_store.c` | header (`blk_head`, `blk_tail`, `blk_maxid`, `blk_cap`), blocks with a control byte | alloc, free, expand, init |
| Transactions | `core/xdb_trans.c/.h` | per connection: `bInTrans`, `bAutoTrans`, locked tables, and per table the sets `new_rows`, `del_rows` | begin, commit, rollback, table lock |
| Row operations | `core/xdb_crud.c`, `core/xdb_sql.c` | rows and indexes | insert, update, delete, replace, select |
| Indexes | `core/xdb_index.c`, `xdb_hash.c`, `xdb_rbtree.c` | slots, nodes and sibling lists; trees | add, remove, query, grow |
| Variable-length data | `core/xdb_vdata.c` | stores by size class, reference counts | alloc, share, free, mark and clean |
| Log | `core/xdb_wal.c` | two log files, one active, one backup | log a commit, switch, recycle, iterate, redo |
| Database, table | `core/xdb_db.c`, `xdb_table.c` | dirty marks (`lastchg_id`, `flush_id`), objects | create, open, flush, repair, TTL, drop |
| Connection | `core/xdb_conn.c`, `crossdb.c` | reference count, buffers, the background task | open, close, free a result |
| Server, publisher | `server/*` | sockets, subscribers, cached changes | accept, execute, subscribe, notify |
| Objects, bitmaps, buffers | `lib/*` | pools and bitmaps | add, find, delete, iterate |
| Parser | `parser/*` | the statement buffer of a connection, which the next statement is laid over | text to statement, choice of the index |
| System database | `core/xdb_sysdb.c` | tables that describe databases, tables, columns, indexes | add, remove, update with each DDL |
| Backup, shell | `admin/*` | none | dump, source, prompt |

How they meet. A statement (`xdb_stmt_exec`) opens a transaction if there is none, takes
the write lock of its table for the rest of the transaction, and calls the row
operations, which hold the table's *storage* lock for the length of the
statement. They allocate and free blocks of the store, keep the indexes, and
note every new or deleted row in the sets of the connection. `xdb_commit`
writes the sets to the log of the database, then walks them row by row *without*
the storage lock, and gives the table locks back at the end. A SELECT takes no
table lock, only the storage lock for reading, and decides row by row what it
sees from the control byte and its own sets. A flush (a statement, the
background thread, or the commit that finds the log large) switches the logs, writes
the tables and recycles the old log; opening a dirty database repairs the
tables and replays both logs.

The catalog lives three times: as objects in memory, as `xdb.xql` on disk, and as
rows of the system database. A DDL statement changes one after the other; opening a
database executes its `xdb.xql` as SQL. A server thread per connection runs the
statements of a client; SUBSCRIBE makes of it the sender of a snapshot, while the
row operations of everybody else append their changes to the subscriber's cache or
write them to its socket.

Where it is hard: the acquire of a lock is two steps; commits, rollbacks and
SELECTs are walks in which every row is a step others see between; the free list is
inside the blocks; two locks of different extent protect a table, and one kind
of statement takes only one of them; the log, the rows and the dirty marks are
three memories that a crash cuts at any point, also in the middle of a repair.
`PROJECT.json` lists these under "hazards", each at its line.

What makes each component correct, in one line:

- lock: one writer or many readers, the counter never drifts, no lock-out of everybody;
- store: a block has one holder; every block given back is reused once;
- transactions: a version belongs to one transaction, which publishes all or
  nothing; keys stay unique; index and rows agree;
- SELECT: nothing uncommitted, all of one's own, one content of the table;
- log, flush, repair: every commit that returned is there after a crash, the
  running one whole or not at all;
- indexes: an entry for every row in use and no other, also after a failed add;
- variable-length data: a block lives as long as one version refers to it;
- queries: the rows of an answer are those of its condition, whatever index was
  chosen, in the order and number asked for; an UPDATE changes each once;
- catalog: what was created comes back when a database is opened, under the same ids,
  and the system tables say the same;
- publisher: a subscriber that stays connected ends with the table's content.

## 2. The modules

| Module | Models | Run(s) |
|---|---|---|
| `XdbRwLockAbs` | what users expect of a read-write lock | |
| `XdbRwLock` | `lib/xdb_thread.c` | `primitives` |
| `XdbRwLockProofs` | proofs | |
| `XdbStoreAbs` | a first-in first-out allocator with repair | |
| `XdbStore` | `core/xdb_store.c`, the store part of `__xdb_repair_table` | `primitives` |
| `XdbStoreProofs` | proofs: invariants; the refinement | |
| `XdbVdata` | `core/xdb_vdata.c`, its use by row operations, commits, rollbacks and the repair of a table | `primitives` |
| `XdbVdataProofs` | proofs | |
| `XdbTransAbs` | atomic transactions on table contents | |
| `XdbTrans` | `core/xdb_trans.c`, row operations, statement dispatch | `transactions`, `trans_memory` |
| `XdbSelect` | `xdb_sql_select` beside `XdbTrans` | `transactions`, `select_snapshot` |
| `XdbSelectProofs` | proofs: transactions, their keys and refinement; SELECT | |
| `XdbRbtree` | `core/xdb_rbtree.c`, as operators on one tree | `index` |
| `XdbIndex` | `core/xdb_hash.c`, `core/xdb_index.c` and `XdbRbtree` under a transaction's row changes | `index`, `index_recover` |
| `XdbIndexProofs` | proofs about hash indexes | |
| `XdbQuery` | from the parsed statement to its answer: `parser/xdb_parser_dml.c`, `core/xdb_crud.c`, binding in `core/xdb_sql.c` | `query` |
| `XdbObjm` | `lib/xdb_objm.c`, as operators | `catalog` |
| `XdbCatalog` | `core/xdb_db.c`, `xdb_table.c`, `xdb_index.c`, `xdb_sysdb.c`: DDL, schema file, system tables | `catalog` |
| `XdbCatalogProofs` | proofs about both | |
| `XdbPubSub` | `server/xdb_pubsub.c`, the thread of a connection, the replica; rows, SELECT and commit walk of the source | `pubsub` |
| `XdbPubSubProofs` | proofs | |
| `XdbRecovery` | `core/xdb_wal.c`, flush, open, repair, on top of `XdbStore` | `recovery`, `recovery_flush`, `recovery_reuse` |
| `XdbRecoveryProofs` | proofs | |

`MC*.tla` and `*.cfg` give the constants their values. Operators named `M_...`
are mutated forms of the operation of that name: bugs the code could have had.
For each property one of them is listed in `PROJECT.json`; put in the place of
the operation it makes TLC find the property violated. They play no part in the
specifications.

### XdbRwLock

`count` is `rwl->count`, `x[t]` the local `x`. Load and compare-and-swap are
separate actions; the swap is weak and may fail although the values agree
(`CasFail`).

### XdbStore

`head`, `tail`, `maxid`, `cap` are the header; `nxt[r]` is what the first four
bytes of block `r` hold: a link when the block is free, the data of its holder
otherwise (`Data`). A repair is `RepairBegin` (`xdb_stg_init`) and one
`RepairRow` for each row; it holds the storage write lock, so nothing runs
between. The repair empties the list once more before its loop (the code
does so twice).

### XdbVdata

All strings of a row are in one block of a size class; `word[b]` is its first word: mark and
count (`use`, 8 to 15) and string while it is in use, `link` when it is free. `first`, `last`, `top` are the store of
each class, linked as in `XdbStore`; `opened` are the classes whose store is open. INSERT is one action, as is
DELETE; the UPDATE of a row is `UpdateBegin` (hold the old block), `UpdateCopy` (new version), `UpdateOld` (free the old
version if it goes at once) and `UpdateEnd` (end of the hold), since the order of the last three is what keeps the block.
`fast` is a statement of its own on a memory table. `WalkRow` frees the rows a commit deleted or a rollback
takes back. `RepairMark`, `RepairRows` and `RepairClean` (one block each) are the repair of a table, which
runs between transactions and with an empty log: the table is dirty through a transaction that was rolled back, or
its commits have been flushed. `says` is the string a row was given, for the property.

`missed` is the end of what is claimed. The store of a class is opened by the first block that is read or written;
`xdb_vdata_free` (`xdb_vdata.c:174`) and `xdb_vdat_mark` (`:207`) do not open it. After a restart, a row deleted
before that is freed through a NULL map (`Drop`, `Die`); and a repair that has not marked a store, but opens it for a committed
row, frees its free blocks again, so that the list becomes a circle. Without the exception TLC finds the first of the two in
seven steps: INSERT, COMMIT, reopen, DELETE, COMMIT.

### XdbTrans

`ctrl`, `row` and `idx` are control bytes, contents and the primary index of each table;
`tblLock` and `readers` the table lock and the readers of the storage lock;
`newRows`, `delRows`, `tblRows`, `wrLocks` the sets of a transaction;
`todo`, `toNew`, `toDel` the position of a commit or rollback in its walk.

| Action | Code |
|---|---|
| `Begin`, `Statement`, `Exec`, `EndStatement` | `xdb_begin2`, `xdb_stmt_exec` |
| `LockTable` | `xdb_wrlock_table` |
| `Insert`, `Delete`, `UpdateKey`, `UpdateVal` | `xdb_row_insert`, `xdb_row_delete`, `xdb_row_update` with `xdb_row_updDel` |
| `Commit`, `CommitNew`, `CommitDel`, `TableDone`, `Unlock` | `xdb_commit` and its callbacks |
| `Rollback`, `RollbackNew` | `xdb_rollback`, also called by `xdb_close` |

Abstractions: the row sets are sets, not bitmaps, and are walked in increasing
order as the bitmap iterator does. A statement changes one row (DELETE any
number): the storage lock is held over the whole statement, and a statement of several rows
is a sequence of such changes, since it is not undone when one fails. Any free
row may be taken: which one is the matter of `XdbStore`. A freed row holds
`Junk`, since its first bytes become a link. The locks of several tables are
given back in one step: nothing happens between two releases that could not
happen after both. Row width, conversions and non-unique indexes
are left out. `MemTables` are tables with `ENGINE=MEMORY`, on which a statement
outside a transaction (`Fast`) skips table lock and transaction.
`OrderedAccess` says that clients first write tables in increasing order.

### XdbSelect

A SELECT is `Select` (lock), `FilterRow` for each row, `CopyRow` for each row
found, `EndSelect`. `views` is a history of the contents that would have been right answers;
while a commit walks, both the content before and the one after count.

### XdbIndex

`idx[i]` is one index: `slot` is `pHashSlot`, `node[r]` the node of row `r`,
`slots`, `tops`, `rows` the counters `slot_count`, `node_count`, `row_count`.
Ids with the top bit set (`XDB_ROWID_MSB`) are negative numbers: a slot in
`prev`, the mark of a later sibling in `sibling`. `Unlink`, `Push`, `Move`,
`Rehash`, `Inserted`, `Removed`, `Query` and `Query2` follow the pointer
assignments of `xdb_hash.c`; `AddRow` is `xdb_idx_addRow` with its recovery.
The actions are the row changes of the one transaction that has the table's
lock (`Insert`, `Delete`, `Update`, `UpdateInPlace`), its commit and rollback,
and a crash with the repair of the table. Each runs as one step: nobody else
changes the index meanwhile. The readers that walk a chain while a commit
relinks it are not in this module.

An index that is declared RBTREE is a tree of `XdbRbtree`, with the node links of
`xdb_rbtree.c`: rotations, both fixups, removal with and without siblings, and the
nil node 0, whose parent the removal writes. `CreateIndex` and `DropIndex` come
between transactions and fill an index from the rows that are there.

Three things the trees do are in the model as they are in the code, and no
property is about them: the query takes the visibility of a sibling from the id of
its tree node (`xdb_rbtree.c:915`); an insertion looks for a key twice only at the row in
the tree (`xdb_rbtree.c:272`), not at its siblings, so `UniqueKeys` is about hash indexes; and the
unique check of an UPDATE (`idx_query2`) does not exist for a tree, so an UPDATE of a unique
tree's key is not among the actions.

A loop of the code over the rows or nodes is a recursive function on `0 .. MaxRow`, of which only
the value at the end is used (`Split`, the repair, `CreateIndex`).

Left out: the array of nodes, which doubles once when a row id does not fit
(a CREATE INDEX that meets a first row far beyond it would need more), and
the statistics. `UNIQUE` and `RBTREE` declarations, written contents and bounds come in `Cases`.
The store's choice of a block is the least free one, as the index never compares ids.

### XdbQuery

One connection, one table, statements as records: kind, WHERE as an OR of ANDs, order, limit,
SET list, columns or aggregates. `Parse` is what the parser makes of it: types of
the operands, the chosen index (`FindIdx`), the boxes a parameter fills. `Bind`,
`Query`, `Filter`, `UpdateRows`, `Project` and `Aggregate` are the functions of
the same purpose in `xdb_crud.c`. `Exec`, `Prepare`, `Bexec` and `CloseStmt` are the
client's calls; `CreateIndex` and `DropIndex` change the choice between them. `last`
keeps the statement and what the table was before it, for the properties; they tell
its meaning without indexes and boxes (`Wanted`, `Worth`, `Changed`).

A box is the union of the code with the type last written; a value is an integer, cut to
the width of its column (`Store`), a CHAR a number whose last bit is the case of its
letters. Hashes of different values differ and links are not shown: both are in `XdbIndex`.
Rows have no bytes, but for one purpose: `VtypeOff` is the last byte of a row of the table and `AggEnds` the places
of the aggregates, since a row of aggregates is copied as if it were a row of the table (`AggRow`); what the copy
does not reach is `Garbage`.

The code departs from that meaning in the following ways, each met by a
property or in the reading of the code before it was named in the module (`FilterDeparts`, `KeyDeparts`,
`ExpDeparts`, `AggDeparts` and the conditions of the properties). The properties claim the rest.

| Departure | Where |
|---|---|
| a filter on an unsigned column finds nothing: its value has a type `xdb_row_and_match` does not compare | `xdb_crud.c:785`, `:849` |
| a NULL is compared as the zero or old value stored under it | `xdb_crud.c:696` |
| of two filters on a field of the chosen index only the last counts | `xdb_parser_dml.c:714` |
| a negative TINYINT is hashed as its byte in the row and as 64 bits in the WHERE | `xdb_crud.c:1230`, `:1405` |
| an index compares CHARs with case, a scan without | `xdb_crud.c:249`, `:824` |
| an OR through indexes goes on with the next branch after the limit was reached | `xdb_crud.c:2361` |
| a literal is converted in its box, and again for the next row or execution | `xdb_crud.c:1009`, `:1200` |
| an unsigned or NULL operand is read through the wrong member of the union | `xdb_crud.c:1008` |
| a parameter as second operand of a SET is hidden by a field of an earlier statement | `xdb_parser_dml.c:1500` |
| aggregates are computed over the rows that LIMIT left | `xdb_crud.c:2484` |
| the row of aggregates is copied in the length of a row of the table, whose last byte is overwritten with a type: with a table of 8 bytes, COUNT has a wrong top byte, and what follows it was in the buffer before | `xdb_crud.c:2767`, `:2768`, `xdb_parser_dml.c:1296` |

### XdbObjm and XdbCatalog

`XdbObjm` has an object manager as a record: the block of memory (array and hash
heads), the chain links, ids and counters; `Add`, `Del` and `Get` are `xdb_objm_add`,
`_del` and `_get2`.

In `XdbCatalog` a statement is a function on the engine's state, built from one operator per C
function (`AddTable`, `RemIndex`, `GenSchema`, `Source`, `SysAddTable`, ...). The
function also collects every disk that existed on the way (`trail`): the process may die at
any of them, and the next one starts from it. `dm` is `s_xdb_db_list`, `live` the
tables of each open database, `disk` schema file and table files, `sys` the rows of
the system tables. `want` is what the client may expect of each table; a death in a
statement leaves several possibilities, and opening the database narrows them.

A statement that meets a departure is not followed further, and nothing is claimed after it. The
departures: an id one past the end of the array overwrites
the first hash chain (`xdb_objm.c:67`: create t0, t1, t2, drop t0, close and open,
and t1 is not found); TTL and ENGINE are dumped without the comma the parser needs, so such
a table loses its id when the schema file is executed, and `xdb.xql` is rewritten
while it is read (`xdb_table.c:392`, `xdb_parser_tbl.c:381`); a process that dies between the cut
and the writing of `xdb.xql` loses the schema (`xdb_db.c:326`); the file of an
index is created before and removed before the schema file says so, and a new index takes an
old file as it is (`xdb_index.c:155`, `:227`). One client executes the DDL.

### XdbPubSub

A source with one table and a replica. `chan[c]` are the messages under way on the
replica's connection `c`, `sub[c]` the subscriber the server made for it, `thread[c]` where its
thread is in SUBSCRIBE: `Subscribe`, `SendCreate`, the SELECT of the snapshot, `SendRow` for each row of its result,
`FlushCache`, then `CloseClient`. The SELECT is `SelectAll` (storage lock), `FilterRow` for each block, `CopyRow` for each
row found, `SelectEnd`. `blk` holds the row blocks of the table with their control bytes, `del` the `del_rows` of the writer's
transaction; its `new_rows` are the blocks that are not committed. `Insert`, `Update` (always a new version: the table has a subscriber,
`xdb_crud.c:3308`) and `Delete` are the source's statements, each of which tells its change (`Log`) and needs the storage lock. A commit
is a walk, `Commit`, `CommitNew` and `CommitDel` row by row, `CommitEnd`, and takes no lock that keeps a SELECT
off: the snapshot meets it at any row. `Connect`, `Poll`, `Reconnect` and `ShortRead` are the replica, `Break` is the network. `n` and `got`
number the changes for the properties; `clean` is false once one of these
happened, after which convergence is not claimed: a change was rolled back (nobody is told); the
subscription met an uncommitted change or a replica that had rows already; the
message of the flush held several statements, of which `xdb_exec` executes the first
(`xdb_sql.c:316`, `xdb_pubsub.c:386`); or the walk of a commit freed a row that the SELECT had found and not yet
copied, or that it would still have come to after it had passed by the uncommitted new version (`Misses`; `xdb_pubsub.c:373` beside
`xdb_trans.c:245-295`). In the last case the snapshot has a wrong row or none for a key, and the cached UPDATE changes
nothing on the replica. `crashed` is the SELECT on a connection that a failed send
has set to NULL (`xdb_pubsub.c:373`).

### XdbRecovery

One disk table and the one writer its lock admits. `tblDirty` and `dbDirty`
stand for `lastchg_id # flush_id`; `active` and `backup` are the two logs, a
sequence of commits each, an entry being counted once `commit_size` has moved over it.
A flush is three steps: begin (clear the mark, switch the logs), tables, end
(recycle, mark). A crash ends the process at any step; mapped pages are on disk
by the time the machine has booted again, which is what `xdb_create_db` takes
for a broken database. Open, repair (row by row), redo (row by row) and the
final flush are steps too, each of which a second crash can cut. A freed block
is linked as in `XdbStore`.

Deleting an own uncommitted row is left to `XdbTrans`.
A flush may begin at any time, inside a commit too: nothing in the code prevents it. A reopened
database is written again. Two history variables name the states about which less is claimed, for they are
those in which the code does not keep its promise:

- `torn`: a flush began between the log entry of the commit that runs (or was cut off) and the end of its
  walk. What opens then may have a part of that commit, and no more than that is wrong (`PartOfCommit`): every commit that
  returned is there, and no row shows anything else.
- `sound` is FALSE once a database was served again unfit to be written (`FitToWrite`): redo has left rows in use on the free
  list (`xdb_wal.c:408`), or the process died after the log entry of a commit while the database was marked clean
  (`xdb_trans.c:317` logs before `xdb_trans.c:277` marks), so that it opens without a repair (`xdb_db.c:204`) and the log
  keeps an entry whose rows nobody has; a later repair would redo it.

The first recovery, whatever happened before it and however often the repair is cut off, is never excepted by `sound`.

## 3. The runs

| Run | Bounds | Shows |
|---|---|---|
| `primitives` | 3 threads on a lock; or a store of capacity 1, 2, 4; or 3 rows with strings, 2 size classes of 2 blocks | lock: exclusion, exact counter, implements `XdbRwLockAbs`, some waiting thread enters; store: exact free list, only free blocks handed out, implements `XdbStoreAbs`; strings: exact blocks and counts |
| `transactions` | 2 connections, 2 tables, 3 rows, 2 keys, 2 values, in three uses (below) | ownership of versions and deletes, exact index, unique keys, locks cover rows, no deadlock with ordered access, walks end, implements `XdbTransAbs`; SELECT: no dirty read, exact without a commit beside it, own writes |
| `trans_memory` | 1 memory table | **violated**: a row is deleted twice |
| `select_snapshot` | 2 rows | **violated**: half of a commit in an answer |
| `index` | 4 rows in a hash index, up to 6 in a tree; unique or not; 2 slots at first; up to 3 rows changed in a transaction, 1 repair; an index dropped and created | queries find each row once, links and counters agree, unique keys (hash), trees stay red-black |
| `index_recover` | two unique indexes, 3 rows | **violated**: a refused row stays in the first index |
| `query` | three tables of 2 or 3 rows, two columns each, at most 2 indexes at a time, some 30 statements | condition, order, limit, updates and answers |
| `catalog` | one disk and one memory database, four rooms of up to 3 tables or 2 indexes | tables and indexes come back, system tables agree, no rows of dropped tables |
| `pubsub` | 2 keys, 2 values, 3 row blocks, 3 changes, 2 connections, in three uses (below) | complete stream, convergence, resubscription |
| `recovery` | 2 rows, 2 values, 2 commits in the logs, 2 crashes, of the open database or the repair | content after every crash, the log explains the rows, opening ends |
| `recovery_flush` | 2 rows, 3 commits, 1 crash | **violated**: half a transaction after a crash |
| `recovery_reuse` | 2 rows, 3 commits, 1 crash | **violated**: a committed row is overwritten |

Why the bounds are enough to mean something. Three threads give a reader, a writer and
a third whose counter changes fall between the other two. Four blocks in a store
that starts with one give two doublings and lists in every order. Three rows with strings are two rows and the new
version of one; two blocks of each class make a free list whose order matters and, with a second class, a store that is closed
while another is open. Two
connections suffice for every conflict, since a table has one writer; three rows
hold an old version, its new version and a row of another key; two keys and two values let
an update collide or not. Two tables are the fewest on which a deadlock or a partial commit
can be seen. `MCXdbTransactions` chooses for each behaviour what it uses: "writers" (one table,
three rows, no SELECT), "readers" (the same with one value, and SELECTs) or "tables" (two rows in each of two
tables); all of it at once is too large. Four rows of one key make a top node with three siblings, so that a
sibling with neighbours on both sides is removed; two of the three keys share one of the two slots and part
when a fourth row doubles them. Six tree rows with keys
of their own are enough for every path of both fixups and for a red-black violation two levels up. In `query` each of
the three tables has the columns and statements of one topic (conditions and indexes; SET, expressions and NULL;
unsigned columns and CHARs), so that each departure above occurs beside statements that do not depart. Three tables
bring an object manager through its doublings and leave holes in the ids, and two of the names share a hash chain. Of two
connections the second is made after the first failed at any point, with changes in cache, channel and
snapshot; the last one cannot break, so that there is something to converge to. `MCXdbPubSub` chooses for each behaviour a connection that
does not fail with two changes of one row or of two ("row", "rows"), or failures with three changes in one block ("breaks"). Three blocks
are an old version, the new one on either side of it and a row of another key. Two commits in the logs are one in each, or a change of a change in one of them, and a flush makes room for more;
the second crash falls on every step of the repair of the first, or on every step of what is written after it.

What `recovery` claims of a commit in which a flush began is less than all or nothing (`torn`), and
`recovery_flush` shows that all of it would be too much. `transactions` has
disk tables only; `trans_memory` shows why.

Deadlock is checked wherever the model runs for ever. `XdbRecovery` stops at
its bounds and after its last crash, `XdbPubSub` when its changes and connections are used up or the source has
crashed, so their runs switch the check off.

Fairness. `XdbRwLock`: a running thread keeps running, and a compare-and-swap
that is tried again and again succeeds at some time for some thread. This gives
progress of *some* waiting thread; a single writer can starve, as in the code.
`XdbTrans`: a commit or rollback that began goes on, since no step of it
waits. `XdbPubSub`: each thread of the server and the replica keep running; statements,
breaks and short reads are not owed. `XdbRecovery`: the thread that opens the database and a flush that began
go on. Nothing is assumed of the scheduling of clients.

## 4. Where code and documents disagree

Four violated runs quote `src/README.md`, which lists "ACID", "Reader-Writer
MVCC", "Table-level read-write locks" and "Durability: yes, WAL".

- `trans_memory`: `xdb_sql.c:81` lets an autocommit statement on a memory table
  pass by the table lock; it can free a row that is in another transaction's `del_rows`, and the
  commit frees it again.
- `select_snapshot`: a commit marks rows one by one without the storage lock.
- `recovery_flush` checks `AllOrNothing`, without the exception of `RecoveredContent`: `xdb_flush_db` clears the
  dirty mark and recycles the log entry of a commit that is still walking.
- `index_recover` quotes the comment "recover added index" in
  `xdb_index.c:33`: the loop below it uses `idx_order[i]` for `idx_order[j]` and leaves
  the freed row in the indexes that had accepted it.
- `recovery_reuse`: redo marks a row committed and leaves it on the free list
  that the repair has just built.

## 5. What is proved

The theorems hold for every value of the constants.

| Theorem | States |
|---|---|
| `RwLockInvariant` | inductive invariant: counter = readers, or -1 with one writer; loaded values passed their test |
| `RwLockTypes`, `RwLockMutualExclusion`, `RwLockCounterExact` | the invariants of the lock in `primitives` |
| `RwLockRefinement` | `LockSpec => ImplementsRwLock` |
| `StoreInvariant` | types, fresh blocks are free, and a sequence of the free blocks that the links follow |
| `StoreTypes`, `StoreFreeListExact`, `StoreHandsOutOnlyFree` | the properties of the store in `primitives` |
| `StoreRefinement` | `Spec => ImplementsAllocator` |
| `TransInvariant` | inductive invariant for disk tables |
| `TransTypes`, `TransLockCoversRows`, `TransVersionOwned`, `TransDeletePending`, `TransIndexExact` | the parts of it that `transactions` checks |
| `TransNoDeadlock` | connections that write tables in one order never wait in a circle |
| `TransKeysUnique` | keys stay unique, for the writer and for readers |
| `TransRefinement` | `Spec => ImplementsTransactions` |
| `SelectInvariant` | inductive invariant of SELECTs beside writers |
| `SelectNoDirtyRead`, `SelectReadsOwnWrites`, `SelectUndisturbed` | what `transactions` checks of SELECT |
| `RecoveryContent`, `RecoveryLog` | what `recovery` checks of every behaviour: the content after crashes, and what the log says |
| `RecoveryStore` | the free list is exact while the database serves, after recoveries too (`sound`) |
| `PubSubStream`, `PubSubConverges` | the invariants of `pubsub` |
| `VdataInvariant` | inductive invariant of the strings: mark, count and link of each block, and a list for each size class |
| `VdataBlocksExact` | the property of the strings in `primitives` |
| `IndexInvariant` | inductive invariant of hash indexes: each node in one list, each list falling in rank, counters |
| `IndexHashExact` | a query of a hash index finds the rows of its key once each, in a table with trees beside it too |
| `IndexQueriesExact`, `IndexBackLinks`, `IndexCountsExact` | the same, links and counters as `index` checks them |
| `IndexUniqueKeys` | no key twice in a unique hash index, for the transaction and for readers |
| `CatalogInvariant` | inductive invariant of managers, catalog and schema files, opened or closed |
| `CatalogIsExact` | tables and indexes come back under name and id, as `catalog` checks it |
| `CatalogOrphansEmpty` | a file with a row belongs to the table of that row |

Assumptions. Those the modules declare, which TLC evaluates on the runs: bounds are numbers, hash functions
have numbers as values, names of databases, tables and indexes are names an object manager can
hold, the system database is no client's. In addition:

- `MemTables = {}` for transactions and SELECT; `trans_memory` shows it to be needed.
- `FirstUnique` for hash indexes: a table has at most one unique index, and it is the first. `index_recover` shows
  the other tables to lose rows. `trees = {}`, no trees in the table, where the property of the run speaks of trees as
  well; `IndexHashExact` does without.
- `~missed` for strings, `~departed` for the catalog, `torn` and `sound` for recovery are in the properties themselves (section 2);
  the number of crashes is not bounded.

Arguments.

- *Lock.* `CounterExact` is not inductive: a swap writes `x + 1`, so the
  invariant adds `LoadedOK` (a value waiting to be swapped is not negative, or is zero for
  a writer). A swap happens only when the counter still has that value.
- *Store.* "The list holds exactly the free blocks" needs a witness: a
  sequence of the free blocks without repetition whose consecutive members the links connect.
  Allocation takes its first member, free appends one, a repair starts from the empty
  sequence and appends the blocks it passes. That blocks above `maxid` are free keeps a
  new block from being on the list.
- *Allocator.* The refinement mapping follows the links with a function on prefixes (`FreeQueue`). There is one
  such function (two would differ first at some prefix), and the witness of the store invariant gives it, so
  the mapped queue *is* the witness. An allocation is then `Take`, a free `GiveBack`, the begin of a repair `TakeAway`,
  and each row of it `Reclaim` or a stutter.
- *Transactions.* `IInv` has four parts. `TInv`: types, and what each program
  counter implies for locks and walks. `WInv`: what a walk has still to do is inside the
  sets of the transaction, and only tables in `tbl_rows` have any. `OInv`: versions
  and pending deletes have one owner, who holds the table's lock. `IndexExact`. The lock
  gives the step: a row operation runs only with it, so no set of another
  connection mentions the table.
- *No deadlock.* A connection that waits has only locks of tables that come before the one it waits for
  (`WaitInOrder`). In a set of connections that all wait for each other, one waits for the last table; the
  holder of that one waits for a later table, or for one it has.
- *Keys and atomicity.* `AInv` adds two parts to `IInv`. `WalkDone`: the rows a walk has passed are committed or free, as its kind
  demands. `KInv`: keys are distinct among the rows the writer of a table sees (`View`), and among its committed rows as long as
  no commit of the table walks. What a commit will leave is then the same after each visit, so a visit is a stutter of the abstract
  transactions; `LockTable` is `Acquire`, `Exec` is `Write`, the begin of a commit `Publish`, of a rollback `Discard`,
  and the release of the locks `Release`.
- *SELECT.* `SelectOK`: every row found so far was in one of the `views` when it was found, and a walk can only have freed it since;
  copied rows likewise. If no commit disturbs the table, or the reader is its writer, what is copied, found and still to be looked at
  makes up exactly the content (`Exact`). `BeforeOK` says that the history has the rows a running commit replaces. Row operations
  need the storage lock, which the reader holds: only walks move beside it.
- *Recovery.* `Explains(log)`: the last entry about a row says what the commits left of it, and a row the log is silent about is
  already so. This holds with the rows as they are at any moment, half-walked commits included, and it is what a
  crash needs: the repair keeps it, since it takes only rows nobody sees; the redo keeps it of what is left of the
  log, so that with nothing left the rows are the content. `Walking` says why the entry of the running
  commit is the last, `Leaves` what its walk leaves. If a flush begins inside it, its entry goes to the backup log (`Taken`) and then
  away (`Emptied`): from there on only `PartOfCommit` is kept, by the walk, a crash and a repair with nothing to redo (`Cut`).
  `UpFacts` are kept while the database serves, `DownFacts` from a crash until it serves again; `ServeSteps` leads back from
  one to the other if the table is fit to be written. The switch of the logs at a flush keeps their concatenation; recycling the
  old one drops entries whose rows are as they say. The store underneath is `XdbStore`; its lemmas are used through `INSTANCE`.
- *Publisher.* Each message on the connection has the changes after some number up to another, with the cache last (`Numbered`:
  a function that says how far each goes). A statement appends one with the next number, to cache or connection according to
  `bSync`; the flush moves the cache behind the messages; a poll takes the first. For convergence, another function gives the
  table of the replica after each message (`Leads`), from what it is now to what is claimed: all NULL after the schema, the rows sent so
  far during the snapshot, the writer's table after it. `OneRow`: the writer has one row with a key, and outside a commit so has everybody
  else. `Base`: what a commit has still to publish or to free is of the key of the one change in the cache. `Sent` speaks of the table
  made by what was sent and of the rows copied, found and still to be looked at: each has the value of the writer's table or one that the
  cached change settles when it comes (`Settles`), and of each key whose change would not bring a row by itself one is among
  them (`Needed`), for a walk that frees the last of them is the departure.

- *Strings.* `BlocksExact` needs what each block is counted for. `UseOK` gives the count by phase: 8 for the row that owns
  the block, 9 while an update holds it too, 15 once a repair has marked it. `ListsOK` has a sequence of the
  free blocks for each class, as in the store; while a repair runs it holds those that the repair has passed (`Spare`, without
  `Pending`). `UpdateOK`, `RefusedOK` and `TransOK` say who has the block between the steps of an update, after a refused one
  and in a walk. A block opens its class before anything reads it, except where `missed` is set.
- *Hash index.* The witness of an index (`Whole`) is a home for every node, the slot of its chain or the top node of its siblings, and
  a rank that falls along every list. `Shape` relates links and back links to them, one node at a time, so
  that an operation needs a new home for the node it moves and a rank above or below the others; `Counted` and `Placed` give the
  counters and the slot of each hash. Falling ranks make the code's walk (`Chain`) end, and a member
  it never meets would be below a least one. A rehash takes the top nodes out one by one: `Shape` has beside the rows of the index
  those that are in lists, the others wait in their old slot. An insertion that meets a key twice
  is refused by the first index (`FirstUnique`), before any other has changed. `UniqueKeys` follows from exact
  queries: the unique check sees every row of its key.
- *Object manager.* `Managed(om, S)`: array and ids are inverse on `S`, and each hash chain is a sequence (`Chains`). A doubling moves one object
  after the other to its new chain; the free slot that an addition finds is the least one.
- *Catalog.* `WorldOK` says of an open database (`OpenOK`) that its managers hold the tables and indexes that were asked for, each index
  finds the row of its table, a file with a row is a table's, and the schema file describes what is in memory; of
  a closed one (`ClosedOK`), that its files alone describe what the client may expect (`Fine`). A statement is followed through its C
  functions, each with the disks it passes (`Passes`): all of them are `Fine` for the contents before or after the
  statement, or cut in the middle of the schema file, a departure (`Trail`). So a process that dies finds files it can open.
  Opening executes the schema file entry by entry (`Sourced`): after k of them memory holds the first k tables, under their ids
  since no option before the k-th lost one (`Rewrites` is the departure), and the rows of the files have not moved (`Rowed`). A table that is
  dropped gives its file back before its id is free, so no row is left to the next table with that id.

Sequences and lists need no induction over data where the invariant carries the witness (an order of the
blocks, a home and a rank, a number or a table after each message), or where the least counterexample among
numbers is refuted (`LeastNumber`, `WalkUnique`). A loop is proved by an invariant on its counter (`UpTo`).

What stays with TLC: liveness (`SomeoneEnters`, `CommitEnds`, `RecoveryEnds`, `Resubscribes`), which the prover does not
do under fairness; trees (`TreesBalanced`, and the part of `IndexExact`, `BackLinks` and `CountsExact` that is about them), whose
rotations change subtrees as a whole; the four properties of `XdbQuery`, which compare the answers with a meaning computed by
folds over rows and conditions; and `MirrorExact`, that the system tables have a row for every table and index: it counts
rows over all the functions of a DDL statement.

## 6. The plan

Done: lock, store, strings, transactions, SELECT, hash and tree indexes, recovery, queries, catalog,
publisher.

1. SELECT through a chain or a tree that a commit relinks (`XdbSelect` over `XdbIndex`);
   REPAIR on a running database in `XdbTrans`.
2. The log of two committers, its growth, SYNC mode and power failure, reopening
   without reboot, the TTL task and its locks, on top of `XdbRecovery`.
3. The redo of strings (`XdbVdata` under `XdbRecovery`): redo copies them from four bytes before their place in the log
   (`xdb_wal.c:398`); the size classes.
4. Two clients in one DDL, a result that outlives its connection.

Theorems to come: `MirrorExact`, on top of `CatalogInvariant` (each C function changes at most one row of each
system table); trees, with a set of keys below every node as the witness; of `XdbQuery`, that a chosen index finds what a
scan finds, on top of `IndexHashExact`.

## 7. Not modelled

Tokens and grammar, formatting, the shell's commands, dump of a database, bindings, vendored code:
computation on one text or value, or pure input and output. Triggers
follow the row operations and add no protocol of their own.
Foreign keys are declared and not enforced by the code. A JOIN reads its first table and finds nothing in the
others: the query is commented out (`xdb_crud.c:2412`). JSON and binary columns,
audits, the redo of strings and the TTL task are not modelled yet, nor is a failure of memory
allocation outside the store. Range searches in a tree are left out because no statement reaches
them: the parser chooses an index only for equalities on all its fields.

Known hazards without a property are listed in `PROJECT.json`. Some that have no place in a module:
`bind_int64` accepts a parameter one past the last (`xdb_sql.c:644`); a prepared statement keeps a
pointer to an index that DROP INDEX frees (`xdb_parser_dml.c:706`); an unknown column leaves the index
object of a failed CREATE INDEX in its table (`xdb_index.c:137`); a closed database stays the current one of other
connections (`xdb_db.c:251`); two clients may both find a table's name free (`xdb_parser_tbl.c:300`);
SUBSCRIBE may move the array of a table's subscribers (`xdb_pubsub.c:470`) while a statement walks it
(`xdb_pubsub.c:591`); after the death of the process alone, without a reboot, a database is not repaired (`xdb_db.c:204`).
