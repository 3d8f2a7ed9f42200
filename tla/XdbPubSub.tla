------------------------------- MODULE XdbPubSub -------------------------------
(***************************************************************************)
(* A source and one replica of one of its tables: server/xdb_pubsub.c, the *)
(* server's thread of a connection (server/xdb_server.c), the replica's    *)
(* client side (server/xdb_client.c), and of core/xdb_crud.c and           *)
(* core/xdb_trans.c what the snapshot depends on: the rows, their control  *)
(* bytes, the SELECT, and the walk of a commit, which no lock keeps off a  *)
(* SELECT.                                                                 *)
(*                                                                         *)
(* The replica connects, subscribes to the table and executes what it is   *)
(* sent.  The source's thread of that connection sends the schema, runs a  *)
(* SELECT and sends its rows while statements of the source go on: their   *)
(* changes are kept in cud_cache, which is sent as one message when the    *)
(* rows are through; later ones are sent by the statements.  When its      *)
(* connection fails the replica makes another one, and the source makes    *)
(* another subscriber of it (xdb_find_subscriber never finds one), so a    *)
(* subscriber is known here by the number of its connection.               *)
(*                                                                         *)
(* Changes are of rows found by primary key, which updates leave alone.    *)
(* The table is on disk and one writer's at a time: statements of the      *)
(* source exclude each other by its lock.  Sockets take any amount of data.*)
(***************************************************************************)
EXTENDS Naturals, SequencesExt

CONSTANTS
    Keys, Vals,
    None,       \* no row with this key
    MaxRow,     \* rows the table has room for
    MaxConn,    \* bound: connections the replica makes
    MaxLog      \* bound: row changes of the source

ASSUME PubSubAssumption ==
    None \notin Keys \union Vals /\ MaxRow \in Nat \ {0} /\ MaxConn \in Nat \ {0} /\ MaxLog \in Nat

VARIABLES
    blk,        \* what every row block holds
    del,        \* del_rows of the writer's transaction, shrinking in its commit
    trans,      \* the transaction: "none", "auto" (one statement), "open" or "commit"
    sub,        \* the subscriber of each connection
    thread,     \* where the source's thread of each connection is
    left,       \* row ids the SELECT has still to look at
    found,      \* row_set: rows it has found and not copied yet
    res,        \* copies in its result that are still to be sent
    chan,       \* messages to the replica on each connection
    up,         \* connections that still work
    poll,       \* the connection the replica reads, 0 if it has none
    rtbl,       \* the replica's table, {} until it is created
    pNxtSql,    \* the replica's own connection holds the rest of a string
    crashed     \* the source has used a connection that is NULL

VARIABLES
    n,          \* row changes of the source so far
    got,        \* the last of them the replica took from its connection
    clean       \* none of the ways of this code to lose track was taken

source == <<blk, del, trans>>
query == <<left, found, res>>
server == <<sub, thread, query, crashed>>
replica == <<poll, rtbl, pNxtSql>>
vars == <<source, server, chan, up, replica, n, got, clean>>

Conns == 1..MaxConn
NoSub == [pConn |-> FALSE, bSync |-> FALSE, cud_cache |-> <<>>]
Contents == [Keys -> Vals \union {None}]

Rows == 1..MaxRow
Row(c, k, v) == [ctrl |-> c, key |-> k, val |-> v]
Free == Row("free", None, None)
Blocks == {Free} \union {Row("commit", k, v) : k \in Keys, v \in Vals}
                \union {Row("trans", k, v) : k \in Keys, v \in Vals}
Least(r, S) == r \in S /\ \A q \in S : r <= q

\* new_rows of the writer's transaction, and the rows with a key it finds
New == {q \in Rows : blk[q].ctrl = "trans"}
Current(k) == {q \in Rows \ del : blk[q].ctrl # "free" /\ blk[q].key = k}

\* the table as its writer sees it, and whether everybody else does
tbl == [k \in Keys |->
          IF Current(k) = {} THEN None ELSE blk[CHOOSE q \in Current(k) : TRUE].val]
Committed == New = {} /\ del = {}

Init ==
    /\ blk \in [Rows -> {b \in Blocks : b.ctrl # "trans"}]
    /\ \A q, r \in Rows : blk[q] # Free /\ blk[q].key = blk[r].key => q = r
    /\ del = {} /\ trans = "none"
    /\ sub = [c \in Conns |-> NoSub]
    /\ thread = [c \in Conns |-> "none"]
    /\ left = [c \in Conns |-> {}]
    /\ found = [c \in Conns |-> {}]
    /\ res = [c \in Conns |-> <<>>]
    /\ chan = [c \in Conns |-> <<>>]
    /\ up = {} /\ poll = 0 /\ rtbl = {} /\ pNxtSql = FALSE /\ crashed = FALSE
    /\ n = 0
    /\ got = 0
    /\ clean = FALSE

\* A statement as it is sent: a change has a number, a row of the snapshot has
\* not.  The text of an INSERT ends in a semicolon and goes on with the next
\* one in the cache; the others are sent with their terminating zero.
Sql(op, k, v, i) == [op |-> op, key |-> k, val |-> v, num |-> i]
Create == Sql("CREATE", None, None, 0)

\* connections with a subscriber in the table's sub_list
Subscribed == {c \in Conns : thread[c] \notin {"none", "accepted"}}

\* what a write leaves of pConn: after a failure it is NULL, but writes to a
\* connection that has just broken may still succeed
PConnAfterWrite(c) ==
    IF ~sub[c].pConn THEN {FALSE} ELSE IF c \in up THEN {TRUE} ELSE BOOLEAN

\* Connections whose messages may still be read.  What the others are sent, or
\* have in their caches and results, is of no consequence and not kept.
Live(c) == c = poll /\ c \in up
Forget(c) ==
    /\ sub' = [sub EXCEPT ![c].cud_cache = <<>>]
    /\ left' = [left EXCEPT ![c] = {}]
    /\ found' = [found EXCEPT ![c] = {}]
    /\ res' = [res EXCEPT ![c] = <<>>]

\* the channel of c after message m was written, if it can be
ChanAfterWrite(c, m) == IF sub[c].pConn /\ Live(c) THEN Append(chan[c], m) ELSE chan[c]

-------------------------------------------------------------------------------
(* Mutants of the operations below.                                         *)

\* the subscriber counts as synchronized only if something was cached
M_Synced(c) == sub[c].cud_cache # <<>>

\* the cache is given back without being sent
M_FlushedChan(c) == chan[c]

\* a commit frees the deleted rows without waiting for the new ones
M_Published == TRUE

-------------------------------------------------------------------------------
(* The source's statements.                                                 *)

Caches(c) == ~sub[c].bSync

\* Every change is told to the subscribers inside its statement.
Log(op, k, v) ==
    LET s == Sql(op, k, v, n + 1)
    IN /\ n < MaxLog
       /\ n' = n + 1
       /\ chan' = [c \in Conns |->
            IF c \in Subscribed /\ ~Caches(c) THEN ChanAfterWrite(c, <<s>>) ELSE chan[c]]
       /\ \E p \in [Conns -> BOOLEAN] :
            /\ \A c \in Conns :
                 IF c \in Subscribed /\ ~Caches(c)
                 THEN p[c] \in PConnAfterWrite(c) ELSE p[c] = sub[c].pConn
            /\ sub' = [c \in Conns |->
                 IF c \in Subscribed /\ Caches(c)
                 THEN [sub[c] EXCEPT !.cud_cache = IF Live(c) THEN Append(@, s) ELSE @]
                 ELSE [sub[c] EXCEPT !.pConn = p[c]]]

\* The row with key k goes: a version of this transaction is freed at once, a
\* committed one waits in del.
Without(k) == [q \in Rows |-> IF q \in Current(k) \intersect New THEN Free ELSE blk[q]]

\* A statement has the storage lock, under which a SELECT reads; outside a
\* transaction it has a transaction of its own.
Write(op, k, v) ==
    /\ ~crashed /\ trans \in {"none", "open"}
    /\ \A c \in Conns : thread[c] # "scan"
    /\ Log(op, k, v)
    /\ IF op = "DELETE" THEN blk' = Without(k)
       ELSE \E r \in Rows : blk[r] = Free /\ blk' = [Without(k) EXCEPT ![r] = Row("trans", k, v)]
    /\ del' = del \union (Current(k) \ New)
    /\ trans' = IF trans = "none" THEN "auto" ELSE trans
    /\ UNCHANGED <<thread, query, crashed, up, replica, got, clean>>

\* With a subscriber an UPDATE always makes a new version of the row.
Insert(k, v) == tbl[k] = None /\ Write("INSERT", k, v)
Update(k, v) == tbl[k] \notin {None, v} /\ Write("UPDATE", k, v)
Delete(k) == tbl[k] # None /\ Write("DELETE", k, None)

Begin ==
    /\ ~crashed /\ trans = "none"
    /\ trans' = "open"
    /\ UNCHANGED <<blk, del, server, chan, up, replica, n, got, clean>>

\* A commit publishes the new rows one by one and then frees the deleted ones,
\* beside the SELECT of any snapshot.
Published == New = {}

Commit ==
    /\ ~crashed /\ trans \in {"auto", "open"}
    /\ trans' = "commit"
    /\ UNCHANGED <<blk, del, server, chan, up, replica, n, got, clean>>

CommitNew(r) ==
    /\ ~crashed /\ trans = "commit" /\ Least(r, New)
    /\ blk' = [blk EXCEPT ![r].ctrl = "commit"]
    /\ UNCHANGED <<del, trans, server, chan, up, replica, n, got, clean>>

\* The SELECT of connection c has found row o and not yet copied it, or will not
\* meet o although it has passed by the version that takes its place.
Misses(c, o) ==
    \/ o \in found[c]
    \/ o \in left[c] /\ \E q \in Rows \ (left[c] \union found[c]) :
                          blk[q].ctrl = "commit" /\ blk[q].key = blk[o].key

CommitDel(o) ==
    /\ ~crashed /\ trans = "commit" /\ Published /\ Least(o, del)
    /\ blk' = [blk EXCEPT ![o] = Free]
    /\ del' = del \ {o}
    /\ clean' = (clean /\ \A c \in Conns : poll = c => ~Misses(c, o))
    /\ UNCHANGED <<trans, server, chan, up, replica, n, got>>

CommitEnd ==
    /\ ~crashed /\ trans = "commit" /\ Committed
    /\ trans' = "none"
    /\ UNCHANGED <<blk, del, server, chan, up, replica, n, got, clean>>

\* Nobody is told.  No SELECT looks at new rows, or whether a row is in del.
Rollback ==
    /\ ~crashed /\ trans = "open"
    /\ trans' = "none"
    /\ blk' = [q \in Rows |-> IF q \in New THEN Free ELSE blk[q]]
    /\ del' = {}
    /\ clean' = (clean /\ Committed)
    /\ UNCHANGED <<server, chan, up, replica, n, got>>

-------------------------------------------------------------------------------
(* The source's thread of connection c.                                     *)

\* SUBSCRIBE: a new subscriber, in the list of the table
Subscribe(c) ==
    /\ ~crashed /\ thread[c] = "accepted"
    /\ thread' = [thread EXCEPT ![c] = "create"]
    /\ sub' = [sub EXCEPT ![c] = [NoSub EXCEPT !.pConn = TRUE]]
    /\ got' = IF poll = c THEN n ELSE got
    /\ clean' = IF poll = c THEN Committed /\ rtbl = {} ELSE clean
    /\ UNCHANGED <<source, query, crashed, chan, up, replica, n>>

\* CREATE DATABASE and CREATE TABLE, unless they exist
SendCreate(c) ==
    /\ ~crashed /\ thread[c] = "create"
    /\ thread' = [thread EXCEPT ![c] = "select"]
    /\ chan' = [chan EXCEPT ![c] = ChanAfterWrite(c, <<Create>>)]
    /\ \E p \in PConnAfterWrite(c) : sub' = [sub EXCEPT ![c].pConn = p]
    /\ UNCHANGED <<source, query, crashed, up, replica, n, got, clean>>

\* the SELECT is executed on pConn, whatever became of it
SelectAll(c) ==
    /\ ~crashed /\ thread[c] = "select"
    /\ IF sub[c].pConn
       THEN /\ thread' = [thread EXCEPT ![c] = "scan"]
            /\ left' = [left EXCEPT ![c] = IF Live(c) THEN Rows ELSE {}]
            /\ UNCHANGED crashed
       ELSE crashed' = TRUE /\ UNCHANGED <<thread, left>>
    /\ UNCHANGED <<source, found, res, sub, chan, up, replica, n, got, clean>>

\* Row r is looked at: it is in the result if it is committed.
FilterRow(c, r) ==
    /\ ~crashed /\ thread[c] = "scan" /\ Least(r, left[c])
    /\ left' = [left EXCEPT ![c] = @ \ {r}]
    /\ found' = IF blk[r].ctrl = "commit" THEN [found EXCEPT ![c] = @ \union {r}] ELSE found
    /\ UNCHANGED <<source, res, sub, thread, crashed, chan, up, replica, n, got, clean>>

\* When all have been looked at those found are copied.  The link of the free
\* list lies over the first bytes of a row that was freed in between: what is
\* copied then may be any row.
CopyRow(c, r) ==
    /\ ~crashed /\ thread[c] = "scan" /\ left[c] = {} /\ Least(r, found[c])
    /\ found' = [found EXCEPT ![c] = @ \ {r}]
    /\ \E k \in Keys, v \in Vals :
         /\ blk[r] # Free => k = blk[r].key /\ v = blk[r].val
         /\ res' = [res EXCEPT ![c] = Append(@, <<k, v>>)]
    /\ UNCHANGED <<source, left, sub, thread, crashed, chan, up, replica, n, got, clean>>

\* the storage lock is given back
SelectEnd(c) ==
    /\ ~crashed /\ thread[c] = "scan" /\ left[c] = {} /\ found[c] = {}
    /\ thread' = [thread EXCEPT ![c] = "rows"]
    /\ UNCHANGED <<source, query, sub, crashed, chan, up, replica, n, got, clean>>

\* xdb_fetch_row, and the row as an INSERT
SendRow(c) ==
    /\ ~crashed /\ thread[c] = "rows" /\ res[c] # <<>>
    /\ res' = [res EXCEPT ![c] = Tail(@)]
    /\ chan' = [chan EXCEPT ![c] =
         ChanAfterWrite(c, <<Sql("INSERT", Head(res[c])[1], Head(res[c])[2], 0)>>)]
    /\ \E p \in PConnAfterWrite(c) : sub' = [sub EXCEPT ![c].pConn = p]
    /\ UNCHANGED <<source, left, found, thread, crashed, up, replica, n, got, clean>>

FlushedChan(c) ==
    IF sub[c].cud_cache = <<>> THEN chan[c] ELSE ChanAfterWrite(c, sub[c].cud_cache)
Synced(c) == TRUE

\* Under the subscriber's lock: the cache is sent and the statements take over.
\* The replica executes the first statement of the message only.
FlushCache(c) ==
    /\ ~crashed /\ thread[c] = "rows" /\ res[c] = <<>>
    /\ thread' = [thread EXCEPT ![c] = "read"]
    /\ chan' = [chan EXCEPT ![c] = FlushedChan(c)]
    /\ \E p \in IF sub[c].cud_cache = <<>> THEN {sub[c].pConn} ELSE PConnAfterWrite(c) :
         sub' = [sub EXCEPT ![c] = [pConn |-> p, bSync |-> Synced(c), cud_cache |-> <<>>]]
    /\ clean' = (clean /\ Len(sub[c].cud_cache) <= 1)
    /\ UNCHANGED <<source, query, crashed, up, replica, n, got>>

\* the thread reads the end of the connection; the subscriber stays in the list
CloseClient(c) ==
    /\ ~crashed /\ thread[c] \in {"accepted", "read"} /\ c \notin up
    /\ thread' = [thread EXCEPT ![c] = "closed"]
    /\ sub' = [sub EXCEPT ![c].pConn = FALSE]
    /\ UNCHANGED <<source, query, crashed, chan, up, replica, n, got, clean>>

-------------------------------------------------------------------------------
(* The replica.                                                             *)

\* xdb_connect and the SUBSCRIBE it sends
Connect(c) ==
    /\ ~crashed /\ poll = 0 /\ thread[c] = "none"
    /\ \A d \in 1..(c - 1) : thread[d] # "none"
    /\ poll' = c
    /\ up' = up \union {c}
    /\ thread' = [thread EXCEPT ![c] = "accepted"]
    /\ UNCHANGED <<source, sub, query, crashed, chan, rtbl, pNxtSql, n, got, clean>>

\* what statement s makes of the replica's table
Apply(s) ==
    IF s.op = "CREATE" THEN IF rtbl = {} THEN {[k \in Keys |-> None]} ELSE rtbl
    ELSE {IF (s.op = "INSERT") = (t[s.key] = None)
          THEN [t EXCEPT ![s.key] = s.val] ELSE t : t \in rtbl}

\* A message is a string up to its first zero: INSERTs go on with the next
\* statement, the others end it.
Shown(m) == IF Len(m) > 1 /\ m[1].op = "INSERT" THEN 2 ELSE 1

\* xdb_exec executes the first statement and keeps the rest, for
\* xdb_next_result which nobody calls; with a rest kept it accepts single
\* statements only.
Exec(m) ==
    /\ rtbl' = IF pNxtSql /\ Shown(m) > 1 THEN rtbl ELSE Apply(m[1])
    /\ pNxtSql' = (pNxtSql \/ Shown(m) > 1)

Poll(c) ==
    /\ poll = c /\ chan[c] # <<>>
    /\ Exec(Head(chan[c]))
    /\ chan' = [chan EXCEPT ![c] = Tail(@)]
    /\ got' = IF Last(Head(chan[c])).num = 0 THEN got ELSE Last(Head(chan[c])).num
    /\ UNCHANGED <<source, server, up, poll, n, clean>>

\* the connection has failed: another one
Reconnect(c) ==
    /\ poll = c /\ chan[c] = <<>> /\ c \notin up
    /\ poll' = 0 /\ got' = 0 /\ clean' = FALSE
    /\ UNCHANGED <<source, server, chan, up, rtbl, pNxtSql, n>>

\* A message that comes in pieces counts as a failure; the connection is left
\* open, and the source goes on writing to it.
ShortRead(c) ==
    /\ poll = c /\ chan[c] # <<>> /\ c < MaxConn
    /\ poll' = 0 /\ got' = 0 /\ clean' = FALSE
    /\ chan' = [chan EXCEPT ![c] = <<>>]
    /\ Forget(c)
    /\ UNCHANGED <<source, thread, crashed, up, rtbl, pNxtSql, n>>

\* a connection breaks, with any of its messages lost
Break(c) ==
    /\ c \in up /\ c < MaxConn
    /\ up' = up \ {c}
    /\ \E i \in 0..Len(chan[c]) : chan' = [chan EXCEPT ![c] = SubSeq(@, 1, i)]
    /\ Forget(c)
    /\ UNCHANGED <<source, thread, crashed, replica, n, got, clean>>

-------------------------------------------------------------------------------

Thread(c) ==
    \/ Subscribe(c) \/ SendCreate(c) \/ SelectAll(c)
    \/ (\E r \in Rows : FilterRow(c, r) \/ CopyRow(c, r))
    \/ SelectEnd(c) \/ SendRow(c) \/ FlushCache(c) \/ CloseClient(c)

Replica(c) == Connect(c) \/ Poll(c) \/ Reconnect(c)

Next ==
    \/ \E k \in Keys, v \in Vals : Insert(k, v) \/ Update(k, v)
    \/ \E k \in Keys : Delete(k)
    \/ Begin \/ Commit \/ CommitEnd \/ Rollback
    \/ \E r \in Rows : CommitNew(r) \/ CommitDel(r)
    \/ \E c \in Conns : Thread(c) \/ Replica(c) \/ ShortRead(c) \/ Break(c)

\* The threads of the server and of the replica run.
Fairness ==
    /\ \A c \in Conns : WF_vars(Thread(c))
    /\ WF_vars(\E c \in Conns : Replica(c))

Spec == Init /\ [][Next]_vars /\ Fairness

-------------------------------------------------------------------------------
(* Properties.                                                              *)

\* The messages on their way to a subscriber, the cache last, and the places of
\* the changes in them.
Stream(c) == Append(chan[c], sub[c].cud_cache)
NumAt(c, p) == Stream(c)[p[1]][p[2]].num
Changes(c) ==
    {p \in (UNION {{<<i, j>> : j \in DOMAIN Stream(c)[i]} : i \in DOMAIN Stream(c)}) : NumAt(c, p) # 0}
Before(p, q) == p[1] < q[1] \/ (p[1] = q[1] /\ p[2] < q[2])

\* While a subscriber's connection works, the changes of the table that it has
\* not read are all under way, once each and in their order, whether they were
\* made before, during or after the snapshot: the statements that append to
\* cud_cache or write to the socket and the thread that flushes the cache do
\* not lose, double or overtake each other's (xdb_subscribe_send2,
\* xdb_initial_sync).
StreamComplete ==
    \A c \in Subscribed : Live(c) =>
       /\ {NumAt(c, p) : p \in Changes(c)} = (got + 1)..n
       /\ \A p, q \in Changes(c) : Before(p, q) => NumAt(c, p) < NumAt(c, q)

\* A replica that began with an empty table, whose subscription met no
\* uncommitted change and whose snapshot at most one, and since whose SUBSCRIBE
\* no change was rolled back, has the rows of the source as soon as it has read
\* everything and the source has committed everything - however the snapshot's
\* SELECT and the walk of a commit ran beside each other, but for the one case
\* that no lock keeps out: the walk freed an old row that the SELECT had found
\* and not copied, or would still have come to when it had passed by the new
\* version before that was committed (xdb_initial_sync, xdb_sql_select and
\* xdb_trans_tbl_commit).
Converges ==
    \A c \in Conns :
       (/\ Live(c) /\ clean /\ sub[c].bSync
        /\ chan[c] = <<>> /\ Committed) => rtbl = {tbl}

\* The replica subscribes again after every failure, and every snapshot comes
\* to its end: when no connection fails any more the replica reads one that is
\* synchronized, and has read it to its end - unless the source has crashed on
\* the connection that a failed send set to NULL.
Resubscribes ==
    <>[](crashed \/ (poll # 0 /\ poll \in up /\ sub[poll].bSync /\ chan[poll] = <<>>))
===============================================================================
