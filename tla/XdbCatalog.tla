------------------------------ MODULE XdbCatalog ------------------------------
(***************************************************************************)
(* The catalog: databases, tables and indexes as the statements of one     *)
(* client create, open, close and drop them (core/xdb_db.c, xdb_table.c,   *)
(* xdb_index.c), the object managers that hold them (XdbObjm), the files   *)
(* that outlive the process, among them the schema file xdb.xql from which *)
(* a database is rebuilt when it is opened, and the tables of the system   *)
(* database that describe it all (core/xdb_sysdb.c).  The process may die  *)
(* inside any statement, between two writes to the disk, and starts again. *)
(*                                                                         *)
(* A table holds at most one row; the row is the name of the table it was  *)
(* inserted into, so that a row seen in another table shows.  One client   *)
(* executes the statements; a name is looked up by the parser without any  *)
(* lock, and two clients that create the same table at once are not here.  *)
(***************************************************************************)
EXTENDS XdbObjm

CONSTANTS
    Dbs,        \* the databases, by name
    FileDbs,    \* those of them that live on disk; the others are in memory
    System,     \* the system database
    Tables,     \* the table names that each database may use
    Indexes,    \* the index names
    Rooms       \* bound: how many tables and how many indexes each database may
                \* have, and with which options (a choice of these for a behaviour)

VARIABLES
    dm,         \* s_xdb_db_list, the manager of the open databases
    live,       \* of an open database: its tables and their manager
    cur,        \* pCurDbm of the client's connection
    sys,        \* the rows of the system tables
    disk,       \* of a database on disk: its files
    want,       \* what the statements so far allow each table to be
    departed,   \* a statement met one of the departures named below
    room        \* the member of Rooms that bounds this behaviour

vars == <<dm, live, cur, sys, disk, want, departed, room>>

NoRow == "no row"
NoFile == -1
Options == {"plain", "memory", "ttl"}

ASSUME CatalogAssumption ==
    /\ Dbs \subseteq Names /\ FileDbs \subseteq Dbs /\ System \in Names \ Dbs
    /\ \A d \in Dbs : Tables[d] \subseteq Names
    /\ Indexes \subseteq Names /\ IsFiniteSet(Indexes)
    /\ NoRow \notin Names
    /\ \A r \in Rooms, d \in Dbs : r[d].options \subseteq Options

Ids == 0..(Cardinality(Indexes) - 1)

\* The files of a table: its row, and for each index id the entries in its file.
NoData == [row |-> NoRow, ix |-> [j \in Ids |-> NoFile]]

Closed == [tm |-> EmptyObjm, tab |-> <<>>]
NoDisk == [cut |-> FALSE, schema |-> <<>>, files |-> <<>>]
\* What a client sees of a table: its option, its row and the indexes that find
\* the row once.
NoTable == [opt |-> "none", row |-> NoRow, indexes |-> {}]

NothingWanted == [d \in Dbs |-> [t \in Tables[d] |-> {NoTable}]]

NoSys == [dbs |-> {}, tables |-> {}, columns |-> {}, indexes |-> {}]

\* A statement is a function on the state of the engine, W.  Beside the
\* variables it has every disk that existed while the statement ran, at any of
\* which the process may die, and whether it departed.
World == [dm |-> dm, live |-> live, cur |-> cur, sys |-> sys, disk |-> disk,
          trail |-> {disk}, dep |-> FALSE]

\* The process begins with a disk: xdb_init and xdb_sysdb_init.
Fresh(k) == [dm |-> Add(EmptyObjm, System, -1), live |-> [d \in Dbs |-> Closed],
             cur |-> NoObj, sys |-> NoSys, disk |-> k, trail |-> {k}, dep |-> FALSE]

Started == Fresh([d \in FileDbs |-> NoDisk])

Init ==
    /\ dm = Started.dm /\ live = Started.live /\ cur = Started.cur
    /\ sys = Started.sys /\ disk = Started.disk
    /\ want = NothingWanted
    /\ departed = FALSE
    /\ room \in Rooms

\* A write to the disk.
NewDisk(w, k) == [w EXCEPT !.disk = k, !.trail = @ \union {k}]
SetDisk(w, d, files) == NewDisk(w, [w.disk EXCEPT ![d] = files])

\* A statement that meets a departure is not followed to its end.
Departs(w) == [w EXCEPT !.dep = TRUE]

-------------------------------------------------------------------------------
\* The parts of W.

Tm(w, d) == w.live[d].tm
Im(w, d, t) == w.live[d].tab[t].im
Opt(w, d, t) == w.live[d].tab[t].opt

\* A table whose storage is a file, and the id its files are under.
OnDisk(w, d, t) == d \in FileDbs /\ Opt(w, d, t) # "memory"
FileId(w, d, t) == Tm(w, d).id[t]

Data(w, d, t) ==
    IF OnDisk(w, d, t) THEN w.disk[d].files[FileId(w, d, t)] ELSE w.live[d].tab[t].data

SetData(w, d, t, data) ==
    IF OnDisk(w, d, t)
    THEN SetDisk(w, d, [w.disk[d] EXCEPT
             !.files = With(@, FileId(w, d, t), data)])
    ELSE [w EXCEPT !.live[d].tab[t].data = data]

\* xdb_stg_open: a file that is there is used as it is.
OpenData(w, d, t) ==
    IF OnDisk(w, d, t) /\ FileId(w, d, t) \in DOMAIN w.disk[d].files
    THEN w ELSE SetData(w, d, t, NoData)

-------------------------------------------------------------------------------
\* The schema file.

\* xdb_dump_create_table: the indexes, with their ids, in the order of the ids.
DumpIndexes(im) == [k \in 1..Len(Listed(im)) |->
                      [name |-> Listed(im)[k], id |-> im.id[Listed(im)[k]]]]

\* xdb_dump_db_schema
Dump(w, d) ==
    LET order == Listed(Tm(w, d))
    IN  [k \in 1..Len(order) |->
           [name |-> order[k], id |-> Tm(w, d).id[order[k]], opt |-> Opt(w, d, order[k]),
            indexes |-> DumpIndexes(Im(w, d, order[k]))]]

\* xdb_gen_db_schema: the file is cut to nothing and then written.
Write(w, d, schema) == SetDisk(w, d, [w.disk[d] EXCEPT !.cut = FALSE, !.schema = schema])

GenSchema(w, d) ==
    IF d \notin FileDbs THEN w
    ELSE Write(SetDisk(w, d, [w.disk[d] EXCEPT !.cut = TRUE, !.schema = <<>>]), d, Dump(w, d))

-------------------------------------------------------------------------------
\* The system tables, written only after xdb_init (core/xdb_sysdb.c).

\* The schema column shows no ids.
Text(w, d, t) == [opt |-> Opt(w, d, t), indexes |-> Listed(Im(w, d, t))]

\* UPDATE tables SET schema
SysSchema(w, d, t) ==
    [w EXCEPT !.sys.tables = {IF r.db = d /\ r.table = t
                                THEN [r EXCEPT !.schema = Text(w, d, t)] ELSE r : r \in @}]

SysAddIndex(w, d, t, i) ==
    SysSchema([w EXCEPT !.sys.indexes = @ \union {<<d, t, i>>}], d, t)

SysDelIndex(w, d, t, i) ==
    SysSchema([w EXCEPT !.sys.indexes = @ \ {<<d, t, i>>}], d, t)

\* A row whose primary key is there is refused.
SysAddTable(w, d, t) ==
    LET known == \E r \in w.sys.tables : r.db = d /\ r.table = t
        row == [db |-> d, table |-> t, schema |-> Text(w, d, t)]
    IN  SysSchema([w EXCEPT !.sys.tables = IF known THEN @ ELSE @ \union {row},
                            !.sys.columns = @ \union {<<d, t>>},
                            !.sys.indexes = @ \union {<<d, t, i>> : i \in Range(Listed(Im(w, d, t)))}],
                  d, t)

\* Dropping a table that leaves its columns behind.
M_SysDelTable(w, d, t) ==
    [w EXCEPT !.sys.tables = {r \in @ : r.db # d \/ r.table # t}]

SysDelTable(w, d, t) ==
    [w EXCEPT !.sys.columns = @ \ {<<d, t>>},
              !.sys.tables = {r \in @ : r.db # d \/ r.table # t}]

-------------------------------------------------------------------------------
\* Indexes.

\* xdb_create_index: a new index is filled from the rows; one that comes from
\* the schema file finds its entries in its own file.
Fill(w, d, t, j, xoid, data) ==
    LET there == IF data.ix[j] = NoFile THEN 0 ELSE data.ix[j]
        rows == IF data.row = NoRow THEN 0 ELSE 1
    IN  SetData([w EXCEPT !.dep = @ \/ there # (IF xoid < 0 THEN 0 ELSE rows)], d, t,
                [data EXCEPT !.ix[j] = IF xoid < 0 THEN there + rows ELSE there])

Filled(w, d, t, i, xoid) == Fill(w, d, t, Im(w, d, t).id[i], xoid, Data(w, d, t))

AddIndex(w, d, t, i, xoid) ==
    IF Get(Im(w, d, t), i) # NoObj THEN w
    ELSE IF Overruns(Im(w, d, t), xoid) THEN Departs(w)
    ELSE Filled([w EXCEPT !.live[d].tab[t].im = Add(@, i, xoid)], d, t, i, xoid)

\* The indexes of a CREATE TABLE, one after the other.
AddIndexes(w, d, t, indexes) ==
    LET upto[k \in 0..Len(indexes)] ==
          IF k = 0 THEN w ELSE AddIndex(upto[k - 1], d, t, indexes[k].name, indexes[k].id)
    IN  upto[Len(indexes)]

\* xdb_drop_index
RemIndex(w, d, t, i) ==
    LET data == [Data(w, d, t) EXCEPT !.ix[Im(w, d, t).id[i]] = NoFile]
    IN  GenSchema(SysDelIndex([SetData(w, d, t, data) EXCEPT !.live[d].tab[t].im = Del(@, i)],
                              d, t, i), d)

-------------------------------------------------------------------------------
\* Tables.

\* xdb_create_table: the schema file is written only for a table without an id.
Saved(w, d, xoid) == IF xoid < 0 THEN GenSchema(w, d) ELSE w

AddTable(w, d, t, opt, xoid, indexes) ==
    LET x == [w EXCEPT !.live[d].tm = Add(@, t, xoid),
                       !.live[d].tab = With(@, t, [opt |-> opt, im |-> EmptyObjm, data |-> NoData])]
        y == AddIndexes(OpenData(x, d, t), d, t, indexes)
    IN  IF Overruns(Tm(w, d), xoid) THEN Departs(w)
        ELSE Saved(SysAddTable(y, d, t), d, xoid)

\* A drop that forgets the directory.
M_RemoveFiles(w, d, t) == w

\* Removing the file of the rows and the directory of the table.
RemoveFiles(w, d, t) ==
    IF OnDisk(w, d, t)
    THEN SetDisk(w, d, [w.disk[d] EXCEPT
             !.files = Without(@, FileId(w, d, t))])
    ELSE w

\* xdb_drop_table
RemIndexes(w, d, t) ==
    LET order == Listed(Im(w, d, t))
        upto[k \in 0..Len(order)] == IF k = 0 THEN w ELSE RemIndex(upto[k - 1], d, t, order[k])
    IN  upto[Len(order)]

RemTable(w, d, t) ==
    LET x == RemIndexes(SysDelTable(w, d, t), d, t)
    IN  GenSchema([RemoveFiles(x, d, t) EXCEPT !.live[d].tm = Del(@, t),
                                               !.live[d].tab = Without(@, t)], d)

\* xdb_close_table; the objects are freed with their database.
CloseTable(w, d, t) ==
    [SysDelTable(w, d, t) EXCEPT !.sys.indexes = @ \ {<<d, t, i>> : i \in Range(Listed(Im(w, d, t)))}]

-------------------------------------------------------------------------------
\* Databases.

\* The parser stops at the first option of a table that no comma follows, and
\* the dump writes none before XOID: a table with an option has lost its id.
ParsedId(e) == IF e.opt = "plain" THEN e.id ELSE -1

\* A schema file that does not survive its own execution: a table that has lost
\* its id writes the file with the tables known so far, and the ones behind it,
\* whose id was read, do not write it again; and it takes the least free id,
\* which is not the one its files are under.
Rewrites(s) ==
    \E k \in DOMAIN s :
        \/ s[k].opt # "plain" /\ \E l \in (k + 1)..Len(s) : s[l].opt = "plain"
        \/ s[k].opt = "ttl" /\ s[k].id # k - 1

\* xdb_source on the schema file: each CREATE TABLE goes to the current database
\* of the connection.
SourceTable(w, e) ==
    IF Get(Tm(w, w.cur), e.name) # NoObj THEN w
    ELSE AddTable(w, w.cur, e.name, e.opt, ParsedId(e), e.indexes)

Source(w, d) ==
    LET schema == w.disk[d].schema
        upto[k \in 0..Len(schema)] == IF k = 0 THEN w ELSE SourceTable(upto[k - 1], schema[k])
    IN  upto[Len(schema)]

\* A connection that has a current database keeps it while it sources.
M_SourceInto(w, d) == Source(w, d)

SourceInto(w, d) == [Source([w EXCEPT !.cur = d], d) EXCEPT !.cur = w.cur]

\* xdb_create_db, for CREATE DATABASE and OPEN DATABASE
Reads(w, d) ==
    IF d \notin FileDbs THEN w
    ELSE IF w.disk[d].cut \/ Rewrites(w.disk[d].schema) THEN Departs(w)
    ELSE SourceInto(w, d)

AddDb(w, d) ==
    LET x == [w EXCEPT !.dm = Add(@, d, -1), !.live[d] = Closed,
                       !.cur = IF @ = NoObj THEN d ELSE @]
    IN  [Reads(x, d) EXCEPT !.sys.dbs = @ \union {d}]

\* The end of xdb_close_db and of xdb_drop_db.
ForgetDb(w, d) ==
    [w EXCEPT !.dm = Del(@, d), !.live[d] = Closed,
              !.cur = IF @ = d THEN NoObj ELSE @, !.sys.dbs = @ \ {d}]

\* xdb_close_db
CloseTables(w, d) ==
    LET order == Listed(Tm(w, d))
        upto[k \in 0..Len(order)] == IF k = 0 THEN w ELSE CloseTable(upto[k - 1], d, order[k])
    IN  upto[Len(order)]

CloseDb(w, d) == ForgetDb(CloseTables(w, d), d)

\* xdb_drop_db: the tables, and then the directory.
RemTables(w, d) ==
    LET order == Listed(Tm(w, d))
        upto[k \in 0..Len(order)] == IF k = 0 THEN w ELSE RemTable(upto[k - 1], d, order[k])
    IN  upto[Len(order)]

RemDb(w, d) ==
    LET x == ForgetDb(RemTables(w, d), d)
    IN  IF d \in FileDbs THEN SetDisk(x, d, NoDisk) ELSE x

-------------------------------------------------------------------------------
(***************************************************************************)
(* Departures: what the code does here is not what the properties say, and *)
(* nothing is claimed of what follows.                                     *)
(*   - an id one past the end of an object manager's array (Overruns);     *)
(*   - a schema file that its own execution rewrites (Rewrites);           *)
(*   - a process that dies between the cut and the writing of xdb.xql, or  *)
(*     inside the execution of a schema file that is rewritten;            *)
(*   - an index whose file does not hold what its rows say: dropped, with  *)
(*     the process dead before the schema file says so, or created, with   *)
(*     the process dead before, and created again over the old file        *)
(*     (AddIndex).                                                         *)
(***************************************************************************)
Set(w) == dm' = w.dm /\ live' = w.live /\ cur' = w.cur /\ sys' = w.sys /\ disk' = w.disk

\* The engine becomes w and the client expects wish; after a departure the state
\* is forgotten.
Become(w, wish) ==
    /\ departed' = w.dep
    /\ Set(IF w.dep THEN Started ELSE w)
    /\ want' = IF w.dep THEN NothingWanted ELSE wish
    /\ UNCHANGED room

\* What the client is promised of a table when its memory is gone.
Forgets(d, r) == IF d \notin FileDbs THEN NoTable
                 ELSE IF r.opt = "memory" THEN [r EXCEPT !.row = NoRow]
                 ELSE r

ForgetsAll(wish) == [d \in Dbs |-> [t \in Tables[d] |-> {Forgets(d, r) : r \in wish[d][t]}]]

\* The process ends and another begins: xdb_exit and xdb_open with the disk as it
\* is, or a death at one of the disks that the statement w passed through.
Restart(w, k, wish) ==
    Become([Fresh(k) EXCEPT !.dep = w.dep \/ \E d \in FileDbs : k[d].cut], ForgetsAll(wish))

\* A statement that makes of w, and of a table of d what each wish in done says;
\* or the process dies in it and the table is as before, or done, or between.
Statement(w, d, done, between) ==
    \/ Become(w, [want EXCEPT ![d] = [t \in Tables[d] |-> {done[t]}]])
    \/ \E k \in w.trail :
          Restart(w, k, [want EXCEPT ![d] =
                           [t \in Tables[d] |-> @[t] \union {done[t]} \union between[t]]])

\* What the client expects of the tables of an open database.
Wish(d) == [t \in Tables[d] |-> CHOOSE r \in want[d][t] : TRUE]
Nothing(d) == [t \in Tables[d] |-> {}]

Opened == Known(dm) \ {System}
IndexCount(d) == FoldSet(LAMBDA t, n : n + Cardinality(Wish(d)[t].indexes), 0, Tables[d])

\* The parser finds the names.  CREATE TABLE and DROP TABLE need a current
\* database, even for a name with its database in front.
HasTable(d, t) == d \in Opened /\ Get(Tm(World, d), t) # NoObj
HasIndex(d, t, i) == HasTable(d, t) /\ Get(Im(World, d, t), i) # NoObj

CreateTable(d, t) ==
    /\ cur # NoObj /\ d \in Opened /\ Get(Tm(World, d), t) = NoObj
    /\ Cardinality(Known(Tm(World, d))) < room[d].tables
    /\ \E opt \in room[d].options, s \in {<<>>} \union {<<[name |-> i, id |-> -1]>> : i \in Indexes} :
         /\ IndexCount(d) + Len(s) <= room[d].indexes
         /\ Statement(AddTable(World, d, t, opt, -1, s), d,
                      [Wish(d) EXCEPT ![t] = [opt |-> opt, row |-> NoRow,
                                              indexes |-> {s[k].name : k \in DOMAIN s}]],
                      Nothing(d))

\* An INSERT of the one row, into the table and every index.
Insert(d, t) ==
    /\ HasTable(d, t) /\ Data(World, d, t).row = NoRow
    /\ LET im == Im(World, d, t)
           data == [row |-> t, ix |-> [j \in Ids |->
                      IF \E i \in Range(Listed(im)) : im.id[i] = j
                      THEN Data(World, d, t).ix[j] + 1 ELSE Data(World, d, t).ix[j]]]
       IN  Become(SetData(World, d, t, data),
                  [want EXCEPT ![d][t] = {[r EXCEPT !.row = t] : r \in @}])

CreateIndex(d, t, i) ==
    /\ HasTable(d, t) /\ ~HasIndex(d, t, i) /\ IndexCount(d) < room[d].indexes
    /\ LET w == SysAddIndex(GenSchema(AddIndex(World, d, t, i, -1), d), d, t, i)
       IN  Statement(w, d, [Wish(d) EXCEPT ![t].indexes = @ \union {i}], Nothing(d))

DropIndex(d, t, i) ==
    /\ HasIndex(d, t, i)
    /\ Statement(RemIndex(World, d, t, i), d, [Wish(d) EXCEPT ![t].indexes = @ \ {i}], Nothing(d))

\* A table whose drop was cut short: fewer indexes, and no row when all are gone.
Remains(r) == {[r EXCEPT !.indexes = ix] : ix \in SUBSET r.indexes}
              \union {[r EXCEPT !.indexes = {}, !.row = NoRow]}

DropTable(d, t) ==
    /\ HasTable(d, t) /\ cur # NoObj
    /\ Statement(RemTable(World, d, t), d, [Wish(d) EXCEPT ![t] = NoTable],
                 [Nothing(d) EXCEPT ![t] = Remains(Wish(d)[t])])

\* A table as the client sees it.
View(w, d, t) ==
    IF Get(Tm(w, d), t) = NoObj THEN NoTable
    ELSE LET im == Im(w, d, t)
             data == Data(w, d, t)
             entries == IF data.row = NoRow THEN 0 ELSE 1
         IN  [opt |-> Opt(w, d, t), row |-> data.row,
              indexes |-> {i \in Known(im) : data.ix[im.id[i]] = entries}]

\* What is left of a table's wishes when the client sees one of them.
Seen(w, d) == [t \in Tables[d] |->
                 IF View(w, d, t) \in want[d][t] THEN {View(w, d, t)} ELSE want[d][t]]

\* CREATE DATABASE and OPEN DATABASE of one that is not open; w is the engine
\* after it.
Opens(d, w) ==
    \/ Become(w, [want EXCEPT ![d] = Seen(w, d)])
    \/ \E k \in w.trail \ {disk} :
          Restart([w EXCEPT !.dep = @ \/ k[d].schema # disk[d].schema], k, want)

OpenDb(d) == d \notin Opened /\ room[d].tables > 0 /\ Opens(d, AddDb(World, d))

CloseDatabase(d) ==
    /\ d \in Opened
    /\ Become(CloseDb(World, d), [want EXCEPT ![d] = ForgetsAll(want)[d]])

DropDb(d) ==
    /\ d \in Opened
    /\ Statement(RemDb(World, d), d, [t \in Tables[d] |-> NoTable],
                 [t \in Tables[d] |-> Remains(Wish(d)[t])])

\* USE, and CREATE DATABASE IF NOT EXISTS of an open one by a connection that
\* has none.
UseDb(d) ==
    /\ d \in Opened
    /\ Become([World EXCEPT !.cur = d], want)

\* The last connection closes (xdb_exit), and the program opens another.
Exit == Restart(World, disk, want)

\* Nothing is claimed after a departure, and no statement follows.
Departed == departed /\ UNCHANGED vars

Next ==
    \/ /\ ~departed
       /\ \/ \E d \in Dbs : OpenDb(d) \/ CloseDatabase(d) \/ DropDb(d) \/ UseDb(d)
          \/ \E d \in Dbs : \E t \in Tables[d] : CreateTable(d, t) \/ Insert(d, t) \/ DropTable(d, t)
          \/ \E d \in Dbs : \E t \in Tables[d], i \in Indexes : CreateIndex(d, t, i) \/ DropIndex(d, t, i)
          \/ Exit
    \/ Departed

Spec == Init /\ [][Next]_vars

-------------------------------------------------------------------------------
\* Every table of an open database is found by its name, is what the statements
\* made of it, with its option, its own row and its indexes, which find the row
\* once, and is listed once by its manager; also after the database was closed,
\* or the process ended or died in a statement, and the schema file was executed.
CatalogExact ==
    ~departed =>
        \A d \in Opened :
            /\ \A t \in Tables[d] : want[d][t] = {View(World, d, t)}
            /\ Range(Listed(Tm(World, d))) = Known(Tm(World, d))
            /\ IsInjective(Listed(Tm(World, d)))

\* The system tables show the open databases, their tables with their schema,
\* their columns and their indexes, and nothing that is gone.
MirrorExact ==
    LET tables == {x \in Dbs \X Names : x[1] \in Opened /\ x[2] \in Tables[x[1]]
                                       /\ Wish(x[1])[x[2]] # NoTable}
        row(x) == Wish(x[1])[x[2]]
    IN  ~departed =>
            /\ sys.dbs = Opened
            /\ sys.columns = tables
            /\ sys.indexes = UNION {{<<x[1], x[2], i>> : i \in row(x).indexes} : x \in tables}
            /\ {<<r.db, r.table, r.schema.opt, Range(r.schema.indexes)>> : r \in sys.tables}
                 = {<<x[1], x[2], row(x).opt, row(x).indexes>> : x \in tables}
            /\ Cardinality(sys.tables) = Cardinality(tables)

\* A file that holds a row belongs to the table of that row, under the id that
\* its database, or its schema file when it is closed, knows the table by: no
\* dropped table leaves rows to the table that takes its id next.
OrphansEmpty ==
    ~departed =>
        \A d \in FileDbs : \A f \in DOMAIN disk[d].files :
            disk[d].files[f].row # NoRow =>
                \E e \in Range(IF d \in Opened THEN Dump(World, d) ELSE disk[d].schema) :
                    e.id = f /\ e.name = disk[d].files[f].row
===============================================================================
