----------------------------- MODULE XdbRecovery -----------------------------
(***************************************************************************)
(* Commit, flush, crash and repair of a disk database with one table:      *)
(* core/xdb_wal.c, the commit of core/xdb_trans.c, flush and repair of     *)
(* core/xdb_db.c and core/xdb_table.c.                                     *)
(*                                                                         *)
(* Rows, log and dirty marks live in mapped files and survive a crash of   *)
(* the process; transactions and walks do not.  The machine is rebooted    *)
(* after a crash, the mapped pages having reached the disk: this is when   *)
(* opening a dirty database repairs it.  A log entry appears at once, when *)
(* commit_size moves over it.                                              *)
(*                                                                         *)
(* One connection writes (the table lock admits one writer).  The free     *)
(* list is the one of XdbStore.                                            *)
(***************************************************************************)
EXTENDS Naturals, Sequences, FiniteSets

CONSTANTS
    InitCap, MaxCap, Data,   \* of the store
    Vals,                    \* contents of a row
    Junk,                    \* content of a row that is not in use
    MaxCommits,              \* bound: commits in the two logs
    MaxCrashes               \* bound: crashes, of a repair too

ASSUME RecoveryAssumption ==
    /\ InitCap \in Nat \ {0} /\ MaxCap \in Nat /\ InitCap <= MaxCap
    /\ Data \notin Nat
    /\ MaxCommits \in Nat /\ MaxCrashes \in Nat
    /\ Junk \notin Vals

VARIABLES
    head, tail, maxid, cap, nxt, ctrl, scan,   \* of the store
    row,        \* content of every row
    active,     \* pWalm: the log that takes commits
    backup,     \* pWalmBak: the log whose tables are being flushed
    tblDirty,   \* the table's lastchg_id # flush_id
    dbDirty,    \* the database's lastchg_id # flush_id
    pc,         \* the writer, or the opening of the database
    new, del,   \* new_rows and del_rows of the transaction, shrinking in walks
    flush,      \* xdb_flush_db: where it is
    switched,   \* bSwitch
    redo,       \* log entries still to redo, the first one shrinking
    crashes,
    acked,      \* history: content after the last commit that returned
    pending,    \* history: content that the running commit will leave
    torn,       \* history: a flush began in the commit that runs or was cut off
    sound       \* history: every recovery so far left rows and log fit to go on

storeVars == <<head, tail, maxid, cap, nxt, ctrl, scan>>
logVars == <<active, backup>>
dirtyVars == <<tblDirty, dbDirty>>
txVars == <<new, del>>
flushVars == <<flush, switched>>
history == <<acked, pending, torn, sound>>
vars == <<storeVars, row, logVars, dirtyVars, pc, txVars, flushVars, redo,
          crashes, history>>

Store == INSTANCE XdbStore
Rows == 1..MaxCap
FREE == "free"
COMMIT == "commit"
TRANS == "trans"
Least(x, S) == x \in S /\ \A y \in S : x <= y

\* What a reader sees: the committed rows.
Visible == {<<r, row[r]>> : r \in {q \in Rows : ctrl[q] = COMMIT}}

Init ==
    /\ Store!Init
    /\ row = [r \in Rows |-> Junk]
    /\ active = <<>> /\ backup = <<>>
    /\ tblDirty = FALSE /\ dbDirty = FALSE
    /\ pc = "idle" /\ new = {} /\ del = {}
    /\ flush = "none" /\ switched = FALSE
    /\ redo = <<>>
    /\ crashes = 0
    /\ acked = {} /\ pending = {} /\ torn = FALSE /\ sound = TRUE

-------------------------------------------------------------------------------
(* Mutants of the operations below.                                         *)

\* the log of the commits that go on is thrown away instead of the old one
M_Recycle == active' = <<>> /\ UNCHANGED backup

\* redo stops with the backup log
M_LogToRedo == backup

\* the iteration does not move on: row_len is 0
M_RestOf(log) == log

-------------------------------------------------------------------------------
(* Statements of the transaction.                                           *)

Running == pc = "idle"

\* xdb_mark_dirty: at the start of every statement and of every walk
SetDirty == tblDirty' = TRUE /\ dbDirty' = TRUE

\* INSERT of one row
InsertRow(r, v) ==
    /\ Running
    /\ \/ /\ head # 0 /\ r = head
          /\ Store!Pop(r)
          /\ UNCHANGED <<maxid, cap>>
       \/ /\ head = 0 /\ Store!Room /\ r = maxid + 1
          /\ maxid' = maxid + 1
          /\ UNCHANGED <<head, tail, cap>>
    /\ ctrl' = [ctrl EXCEPT ![r] = TRANS]
    /\ nxt' = [nxt EXCEPT ![r] = Data]
    /\ row' = [row EXCEPT ![r] = v]
    /\ new' = new \union {r}
    /\ SetDirty
    /\ UNCHANGED <<scan, logVars, pc, del, flushVars, redo, crashes, history>>

\* DELETE of a committed row
DeleteRow(r) ==
    /\ Running
    /\ ctrl[r] = COMMIT /\ r \notin del
    /\ del' = del \union {r}
    /\ SetDirty
    /\ UNCHANGED <<storeVars, row, logVars, pc, new, flushVars, redo,
                   crashes, history>>

\* xdb_stg_free, and what the freed block holds afterwards
FreeRow(r) ==
    /\ ctrl' = [ctrl EXCEPT ![r] = FREE]
    /\ Store!LinkFree(r)
    /\ row' = [row EXCEPT ![r] = Junk]
    /\ UNCHANGED <<maxid, cap>>

-------------------------------------------------------------------------------
(* Commit and rollback.                                                     *)

\* xdb_trans_db_wal: the entry counts once commit_size has moved over it
Logged(e) == Append(active, e)

Commit ==
    /\ Running /\ new \union del # {}
    /\ Len(active) + Len(backup) < MaxCommits
    /\ active' = Logged([new |-> [r \in new |-> row[r]], del |-> del])
    /\ pc' = "logged"
    /\ pending' = {p \in Visible : p[1] \notin del} \union {<<r, row[r]>> : r \in new}
    /\ UNCHANGED <<storeVars, row, backup, dirtyVars, txVars, flushVars, redo,
                   crashes, acked, torn, sound>>

Rollback ==
    /\ Running /\ new \union del # {}
    /\ pc' = "rollback"
    /\ SetDirty
    /\ del' = {}
    /\ UNCHANGED <<storeVars, row, logVars, new, flushVars, redo, crashes, history>>

\* first thing in xdb_trans_tbl_commit
MarkDirty ==
    /\ pc = "logged"
    /\ pc' = "walk"
    /\ SetDirty
    /\ UNCHANGED <<storeVars, row, logVars, txVars, flushVars, redo, crashes, history>>

CommitNew(r) ==
    /\ pc = "walk" /\ Least(r, new)
    /\ ctrl' = [ctrl EXCEPT ![r] = COMMIT]
    /\ new' = new \ {r}
    /\ UNCHANGED <<head, tail, maxid, cap, nxt, scan, row, logVars, dirtyVars, pc, del,
                   flushVars, redo, crashes, history>>

CommitDel(r) ==
    /\ pc = "walk" /\ new = {} /\ Least(r, del)
    /\ FreeRow(r)
    /\ del' = del \ {r}
    /\ UNCHANGED <<scan, logVars, dirtyVars, pc, new, flushVars, redo, crashes, history>>

RollbackNew(r) ==
    /\ pc = "rollback" /\ Least(r, new)
    /\ FreeRow(r)
    /\ new' = new \ {r}
    /\ UNCHANGED <<scan, logVars, dirtyVars, pc, del, flushVars, redo, crashes, history>>

\* xdb_commit or xdb_rollback returns
Return ==
    /\ pc \in {"walk", "rollback"} /\ new = {} /\ del = {}
    /\ pc' = "idle"
    /\ acked' = pending /\ torn' = FALSE
    /\ UNCHANGED <<storeVars, row, logVars, dirtyVars, txVars, flushVars, redo,
                   crashes, pending, sound>>

-------------------------------------------------------------------------------
(* xdb_flush_db: by a statement, by the background thread beside the        *)
(* writer, or at the end of a repair ("redone").                            *)

\* No lock keeps a flush from beginning between the log entry of a commit and
\* the end of its walk.
MayFlush == pc \in {"idle", "logged", "walk", "rollback", "redone"}

\* Nothing to do unless dirty; the mark goes first, then xdb_wal_switch.
FlushBegin ==
    /\ flush = "none" /\ dbDirty /\ MayFlush
    /\ flush' = "tables"
    /\ dbDirty' = FALSE
    /\ switched' = (backup # <<>> \/ active # <<>>)
    /\ IF backup = <<>> THEN backup' = active /\ active' = backup ELSE UNCHANGED logVars
    /\ torn' = (torn \/ pc \in {"logged", "walk"})
    /\ UNCHANGED <<storeVars, row, tblDirty, pc, txVars, redo, crashes, acked,
                   pending, sound>>

\* xdb_flush_table
FlushTable ==
    /\ flush = "tables"
    /\ flush' = "log"
    /\ tblDirty' = FALSE
    /\ UNCHANGED <<storeVars, row, logVars, dbDirty, pc, txVars, switched, redo,
                   crashes, history>>

\* __xdb_wal_flush of the backup log
Recycle == backup' = <<>> /\ UNCHANGED active

FlushEnd ==
    /\ flush = "log"
    /\ flush' = "none" /\ switched' = FALSE
    /\ IF switched THEN Recycle ELSE UNCHANGED logVars
    /\ dbDirty' = (dbDirty /\ ~(switched /\ active = <<>>))
    /\ UNCHANGED <<storeVars, row, tblDirty, pc, txVars, redo, crashes, history>>

-------------------------------------------------------------------------------
(* Crash, open, repair.                                                     *)

Crash ==
    /\ pc \notin {"down", "opened"}
    /\ crashes < MaxCrashes /\ crashes' = crashes + 1
    /\ pc' = "down"
    /\ new' = {} /\ del' = {} /\ flush' = "none" /\ switched' = FALSE
    /\ redo' = <<>> /\ scan' = 0
    /\ UNCHANGED <<head, tail, maxid, cap, nxt, ctrl, row, logVars, dirtyVars, history>>

\* xdb_wal_redo: the backup log, then the active one
LogToRedo == backup \o active

\* xdb_create_db of an existing database: repaired only when it is marked
\* dirty, and then the table only when it is.
Open ==
    /\ pc = "down"
    /\ \/ /\ ~dbDirty
          /\ pc' = "opened"
          /\ UNCHANGED <<storeVars, redo>>
       \/ /\ dbDirty /\ tblDirty /\ maxid > 0
          /\ pc' = "repair"
          /\ Store!RepairBegin
          /\ UNCHANGED redo
       \/ /\ dbDirty /\ ~(tblDirty /\ maxid > 0)
          /\ pc' = "redo"
          /\ redo' = LogToRedo
          /\ UNCHANGED storeVars
    /\ UNCHANGED <<row, logVars, dirtyVars, txVars, flushVars, crashes, history>>

\* one row of __xdb_repair_table; the redo follows the last one
RepairRow ==
    /\ pc = "repair"
    /\ Store!RepairRow
    /\ row' = [row EXCEPT ![scan] = IF ctrl[scan] = COMMIT THEN @ ELSE Junk]
    /\ IF scan = maxid THEN pc' = "redo" /\ redo' = LogToRedo ELSE UNCHANGED <<pc, redo>>
    /\ UNCHANGED <<logVars, dirtyVars, txVars, flushVars, crashes, history>>

\* xdb_wal_redo_row: an insert writes the row and its control byte and leaves
\* the free list alone.
RedoNew(r, v) ==
    /\ row' = [row EXCEPT ![r] = v]
    /\ ctrl' = [ctrl EXCEPT ![r] = COMMIT]
    /\ nxt' = [nxt EXCEPT ![r] = Data]
    /\ UNCHANGED <<head, tail, maxid, cap, scan>>

\* the next commit of the log
RestOf(log) == Tail(log)

\* ... and a delete frees the row, whatever its control byte is.
RedoRow ==
    /\ pc = "redo" /\ redo # <<>>
    /\ LET e == Head(redo) IN
       \/ \E r \in Rows :
             /\ Least(r, e.del)
             /\ redo' = [redo EXCEPT ![1].del = @ \ {r}]
             /\ FreeRow(r) /\ UNCHANGED scan
       \/ /\ e.del = {}
          /\ \E r \in Rows :
             /\ Least(r, DOMAIN e.new)
             /\ redo' = [redo EXCEPT ![1].new = [q \in DOMAIN @ \ {r} |-> @[q]]]
             /\ RedoNew(r, e.new[r])
       \/ /\ e.del = {} /\ DOMAIN e.new = {}
          /\ redo' = RestOf(redo)
          /\ UNCHANGED <<storeVars, row>>
    /\ UNCHANGED <<logVars, dirtyVars, pc, txVars, flushVars, crashes, history>>

RedoEnd ==
    /\ pc = "redo" /\ redo = <<>>
    /\ pc' = "redone"
    /\ UNCHANGED <<storeVars, row, logVars, dirtyVars, txVars, flushVars, redo,
                   crashes, history>>

\* after the flush, xdb_wal_flush of both logs
RepairEnd ==
    /\ pc = "redone" /\ flush = "none" /\ ~dbDirty
    /\ pc' = "opened"
    /\ active' = <<>> /\ backup' = <<>>
    /\ UNCHANGED <<storeVars, row, dirtyVars, txVars, flushVars, redo, crashes, history>>

\* The last entry of a log that has something to say about row r, and what the
\* rows would hold if the whole log were redone over them.
LastFor(log, r) ==
    {i \in DOMAIN log : /\ r \in log[i].del \union DOMAIN log[i].new
                        /\ \A j \in DOMAIN log : r \in log[j].del \union DOMAIN log[j].new => j <= i}
Replayed(log) ==
    {p \in Visible : LastFor(log, p[1]) = {}}
      \union UNION {{<<r, log[i].new[r]>> : i \in {k \in LastFor(log, r) : r \in DOMAIN log[k].new}}
                       : r \in Rows}

\* A reopened database can be written on as if nothing had happened: the free
\* list holds the rows not in use and no other, and redoing what is left in the
\* logs would change nothing.
FitToWrite ==
    /\ Store!TypeOK /\ Store!FreshAreFree /\ Store!FreeListExact
    /\ Replayed(LogToRedo) = Visible

\* the database serves again; what it shows now is what counts as committed
Serve ==
    /\ pc = "opened"
    /\ pc' = "idle"
    /\ acked' = Visible /\ pending' = Visible
    /\ torn' = FALSE /\ sound' = (sound /\ FitToWrite)
    /\ UNCHANGED <<storeVars, row, logVars, dirtyVars, txVars, flushVars, redo, crashes>>

-------------------------------------------------------------------------------
Walk == MarkDirty \/ Return \/ \E r \in Rows : CommitNew(r) \/ CommitDel(r) \/ RollbackNew(r)
Flush == FlushBegin \/ FlushTable \/ FlushEnd
Recover == Open \/ RepairRow \/ RedoRow \/ RedoEnd \/ RepairEnd \/ Serve

Next ==
    \/ \E r \in Rows, v \in Vals : InsertRow(r, v)
    \/ \E r \in Rows : DeleteRow(r)
    \/ Commit \/ Rollback \/ Walk \/ Flush \/ Crash \/ Recover

Spec == Init /\ [][Next]_vars

\* The thread that opens the database keeps running, and so does a flush.
FairSpec == Spec /\ WF_vars(Recover) /\ WF_vars(Flush)

-------------------------------------------------------------------------------
(* Properties.                                                              *)

\* Part of the running commit: nothing is lost that it keeps, nothing shown that
\* neither it nor the content before it has.
PartOfCommit == acked \intersect pending \subseteq Visible /\ Visible \subseteq acked \union pending

\* A database that opens after a crash shows every commit that returned, and of
\* the one that was running everything or nothing, whatever the step of the
\* commit, of a flush or of an earlier repair at which the process died; if a
\* flush began inside that commit, perhaps a part of it.  After a recovery that
\* left the table unfit to be written (xdb_wal.c:408) nothing is claimed.
RecoveredContent ==
    pc = "opened" /\ sound => IF torn THEN PartOfCommit ELSE Visible \in {acked, pending}

\* The logs explain the table: while the database is marked dirty, redoing both
\* over the rows as they are, half-walked commits and half-done repairs included,
\* gives the content after the last commit in the log, unless a flush that began
\* inside that commit has emptied them; and a database marked clean needs no redo
\* outside a walk.
LogExplains ==
    sound => IF dbDirty THEN Replayed(LogToRedo) = pending \/ (torn /\ LogToRedo = <<>>)
             ELSE pc \in {"idle", "logged", "rollback"} => Visible = acked

\* README: "ACID: Atomic: yes".  Of the commit that ran when the process died, a
\* database that opens shows everything or nothing.
AllOrNothing == pc = "opened" => Visible \in {acked, pending}

\* Opening ends: repair and redo are finite, and the database serves again.
RecoveryEnds == (pc = "down") ~> (pc = "idle")

\* README: "Durability: yes, WAL".  What a commit left stays until the next one:
\* between commits a reader sees the content of the last.
CommittedStays == pc = "idle" => Visible = acked
===============================================================================
