------------------------------- MODULE XdbVdata -------------------------------
(***************************************************************************)
(* The strings of rows: core/xdb_vdata.c and its use by the row operations *)
(* of core/xdb_crud.c, by commits and rollbacks and by the repair of a     *)
(* table.  All variable-length fields of a row share one block, of a size  *)
(* class that fits; a class has a store of its own, opened when a block of *)
(* it is first asked for.  The first word of a block in use is a mark, a   *)
(* count of references and the length; that of a free block is the link of *)
(* the free list.                                                          *)
(*                                                                         *)
(* One transaction runs at a time, as the table lock has it, or single     *)
(* statements on a memory table.  A repair meets an empty log: what a redo *)
(* adds is in XdbRecovery.                                                 *)
(***************************************************************************)
EXTENDS Naturals, Sequences, FiniteSets

CONSTANTS
    MaxRows,     \* bound: rows of the table
    MaxBlocks,   \* bound: blocks of a size class
    Texts,       \* strings, all fields of a row together
    ClassOf,     \* xdb_vdat_type: the size class of a string
    NoText       \* all fields of the row are NULL

ASSUME VdataAssumption ==
    /\ MaxRows \in Nat /\ MaxBlocks \in Nat
    /\ NoText \notin Texts /\ ClassOf \in [Texts -> Nat]

VARIABLES
    memory,           \* bMemory of the table
    rows,             \* control byte, block and (history) string of every row
    word,             \* first word of every block, and its string
    first, last, top, \* blk_head, blk_tail, blk_maxid of every class
    opened,           \* classes whose store is open
    new, del,         \* new_rows and del_rows of the transaction
    dirty, logged,    \* the table is marked dirty; the log holds commits
    stage,            \* where an UPDATE or a repair is
    upd,              \* the UPDATE of a row
    missed            \* history: a repair or a free met a closed store

storeVars == <<word, first, last, top, opened>>
txVars == <<new, del>>
markVars == <<dirty, logged>>
vdataVars == <<memory, rows, storeVars, txVars, markVars, stage, upd, missed>>

RowIds == 1..MaxRows
Classes == {ClassOf[t] : t \in Texts}
VBlocks == Classes \X (1..MaxBlocks)
NoBlock == <<>>
FreeSlot == [ctrl |-> "free", block |-> NoBlock, says |-> NoText]
NoUpdate == [row |-> 0, block |-> NoBlock, gone |-> FALSE]

VdataInit ==
    /\ memory \in BOOLEAN
    /\ rows = [r \in RowIds |-> FreeSlot]
    /\ word = [b \in VBlocks |-> [use |-> 0, link |-> 0, text |-> NoText]]
    /\ first = [c \in Classes |-> 0] /\ last = first /\ top = first
    /\ opened = {}
    /\ new = {} /\ del = {}
    /\ dirty = FALSE /\ logged = FALSE
    /\ stage = <<"idle">> /\ upd = NoUpdate
    /\ missed = FALSE

-------------------------------------------------------------------------------
(* Mutants of the operations below.                                         *)

\* an UPDATE does not hold the block of the old version
M_Held(w, b) == w

-------------------------------------------------------------------------------
(* The stores, as functions of the first words; the list is that of XdbStore. *)

\* xdb_vdata_alloc of block b for text t, which marks it: b1000
Take(t, b) ==
    /\ b[1] = ClassOf[t]
    /\ LET c == b[1] IN
       \/ /\ first[c] # 0 /\ b[2] = first[c]
          /\ first' = [first EXCEPT ![c] = word[b].link]
          /\ last' = [last EXCEPT ![c] = IF @ = b[2] THEN 0 ELSE @]
          /\ UNCHANGED top
       \/ /\ first[c] = 0 /\ b[2] = top[c] + 1
          /\ top' = [top EXCEPT ![c] = b[2]]
          /\ UNCHANGED <<first, last>>
    /\ word' = [word EXCEPT ![b] = [use |-> 8, link |-> 0, text |-> t]]
    /\ opened' = opened \union {b[1]}

\* xdb_stg_free of block b
Release(b) ==
    /\ word' = [[word EXCEPT ![b] = [use |-> 0, link |-> 0, text |-> NoText]]
                  EXCEPT ![<<b[1], IF last[b[1]] = 0 THEN b[2] ELSE last[b[1]]>>].link =
                         IF last[b[1]] = 0 THEN 0 ELSE b[2]]
    /\ first' = [first EXCEPT ![b[1]] = IF last[b[1]] = 0 THEN b[2] ELSE @]
    /\ last' = [last EXCEPT ![b[1]] = b[2]]
    /\ UNCHANGED <<top, opened>>

\* xdb_vdata_free: the last reference frees the block.  It does not open the
\* store as xdb_vdata_get does: in one that is closed it follows a NULL map.
Drop(b) ==
    /\ missed' = (b # NoBlock /\ b[1] \notin opened)
    /\ \/ /\ b = NoBlock \/ missed'
          /\ UNCHANGED storeVars
       \/ /\ b # NoBlock /\ ~missed' /\ word[b].use <= 8
          /\ Release(b)
       \/ /\ b # NoBlock /\ ~missed' /\ word[b].use > 8
          /\ word' = [word EXCEPT ![b].use = @ - 1]
          /\ UNCHANGED <<first, last, top, opened>>

\* xdb_vdata_ref
Held(w, b) == IF b = NoBlock THEN w ELSE [w EXCEPT ![b].use = @ + 1]

-------------------------------------------------------------------------------
(* Statements on one row.                                                   *)

Running == stage = <<"idle">> /\ ~missed
Touch == dirty' = ~memory /\ UNCHANGED logged

\* bMemory and bAutoTrans: no transaction, the row is committed at once
Alone == memory /\ new \union del = {}

\* The rows a statement of the transaction finds.
Live == {r \in RowIds : rows[r].ctrl # "free"} \ del

\* xdb_row_insert of a row that no index refuses
PutRow(r, t, fast) ==
    /\ rows[r] = FreeSlot
    /\ \/ t = NoText /\ UNCHANGED storeVars
          /\ rows' = [rows EXCEPT ![r].ctrl = IF fast THEN "commit" ELSE "trans"]
       \/ t # NoText /\ \E b \in VBlocks :
          /\ Take(t, b)
          /\ rows' = [rows EXCEPT ![r] = [ctrl |-> IF fast THEN "commit" ELSE "trans",
                                          block |-> b, says |-> t]]

InsertRow(r, t, fast) ==
    /\ Running /\ (fast => Alone)
    /\ PutRow(r, t, fast)
    /\ new' = IF fast THEN new ELSE new \union {r}
    /\ Touch
    /\ UNCHANGED <<memory, del, stage, upd, missed>>

\* An index refuses the row: it has the key of another one.  The block goes with
\* the row, except on the fast path, which forgets it.
RefuseRow(t, fast) ==
    /\ Running /\ (fast => Alone) /\ Live # {} /\ t # NoText
    /\ \E b \in VBlocks :
          /\ Take(t, b)
          /\ stage' = IF fast THEN <<"idle">> ELSE <<"refused", b>>
    /\ Touch
    /\ UNCHANGED <<memory, rows, txVars, upd, missed>>

EndRefused ==
    /\ stage[1] = "refused"
    /\ Drop(stage[2])
    /\ stage' = <<"idle">>
    /\ UNCHANGED <<memory, rows, txVars, markVars, upd>>

\* __xdb_row_delete
FreeRow(r) ==
    /\ Drop(rows[r].block)
    /\ rows' = [rows EXCEPT ![r] = FreeSlot]

\* xdb_row_delete: at once on the fast path or if the transaction inserted it
DeleteRow(r, fast) ==
    /\ Running /\ (fast => Alone) /\ r \in Live
    /\ \/ /\ fast \/ rows[r].ctrl = "trans"
          /\ FreeRow(r)
          /\ new' = new \ {r} /\ UNCHANGED del
       \/ /\ ~fast /\ rows[r].ctrl = "commit"
          /\ del' = del \union {r}
          /\ UNCHANGED <<rows, storeVars, new, missed>>
    /\ Touch
    /\ UNCHANGED <<memory, stage, upd>>

\* xdb_row_update: the new version points into the block of the old one until
\* xdb_row_insert has copied it, so the block is held ...
UpdateBegin(r, fast) ==
    /\ Running /\ (fast => Alone) /\ r \in Live
    /\ \E q \in RowIds : rows[q] = FreeSlot
    /\ word' = Held(word, rows[r].block)
    /\ upd' = [row |-> r, block |-> rows[r].block, gone |-> fast \/ rows[r].ctrl = "trans"]
    /\ stage' = <<"copy", fast>>
    /\ opened' = IF upd'.block = NoBlock THEN opened ELSE opened \union {upd'.block[1]}
    /\ Touch
    /\ UNCHANGED <<memory, rows, first, last, top, txVars, missed>>

\* ... xdb_row_updDel takes the old version out, and the new one gets a block ...
UpdateCopy(r, t) ==
    /\ stage[1] = "copy"
    /\ PutRow(r, t, stage[2])
    /\ new' = (new \ {upd.row}) \union (IF stage[2] THEN {} ELSE {r})
    /\ del' = IF upd.gone THEN del ELSE del \union {upd.row}
    /\ stage' = <<"old">>
    /\ UNCHANGED <<memory, markVars, upd, missed>>

\* ... the old version goes now or with the commit ...
UpdateOld ==
    /\ stage[1] = "old"
    /\ IF upd.gone THEN FreeRow(upd.row) ELSE UNCHANGED <<rows, storeVars, missed>>
    /\ stage' = <<"held">>
    /\ UNCHANGED <<memory, txVars, markVars, upd>>

\* ... and the hold ends.
UpdateEnd ==
    /\ stage[1] = "held"
    /\ Drop(upd.block)
    /\ stage' = <<"idle">> /\ upd' = NoUpdate
    /\ UNCHANGED <<memory, rows, txVars, markVars>>

-------------------------------------------------------------------------------
(* Ends of a transaction, flush, close and open.                            *)

\* xdb_commit logs the transaction; then xdb_trans_tbl_commit walks the rows
Commit ==
    /\ Running /\ new \union del # {}
    /\ stage' = <<"walk">>
    /\ rows' = [r \in RowIds |-> IF r \in new THEN [rows[r] EXCEPT !.ctrl = "commit"] ELSE rows[r]]
    /\ new' = {}
    /\ dirty' = ~memory /\ logged' = ~memory
    /\ UNCHANGED <<memory, storeVars, del, upd, missed>>

\* xdb_trans_tbl_rollback: the new rows are walked as deleted ones
Rollback ==
    /\ Running /\ new \union del # {}
    /\ stage' = <<"walk">>
    /\ del' = new /\ new' = {}
    /\ Touch
    /\ UNCHANGED <<memory, rows, storeVars, upd, missed>>

\* xdb_trans_delrow_commit of the next row, in the order of ids
WalkRow(r) ==
    /\ stage[1] = "walk" /\ ~missed /\ r \in del /\ \A q \in del : r <= q
    /\ FreeRow(r)
    /\ del' = del \ {r}
    /\ UNCHANGED <<memory, new, markVars, stage, upd>>

WalkEnd ==
    /\ stage[1] = "walk" /\ ~missed /\ del = {}
    /\ stage' = <<"idle">>
    /\ UNCHANGED <<memory, rows, storeVars, txVars, markVars, upd, missed>>

\* the process that followed a NULL map ends, and with it the transaction
Die ==
    /\ stage[1] = "walk" /\ missed
    /\ new' = {} /\ del' = {} /\ opened' = {}
    /\ stage' = <<"idle">>
    /\ UNCHANGED <<memory, rows, word, first, last, top, markVars, upd, missed>>

\* xdb_flush_db
Flush ==
    /\ Running /\ dirty
    /\ dirty' = FALSE /\ logged' = FALSE
    /\ UNCHANGED <<memory, rows, storeVars, txVars, stage, upd, missed>>

\* The database is closed, which flushes it, and opened again: its stores are
\* closed until xdb_vdata_get or xdb_vdata_alloc wants one.
Reopen ==
    /\ stage = <<"idle">> /\ ~memory /\ new \union del = {}
    /\ opened' = {}
    /\ dirty' = FALSE /\ logged' = FALSE
    /\ UNCHANGED <<memory, rows, word, first, last, top, txVars, stage, upd, missed>>

\* xdb_vdata_get: a SELECT that shows a string of row r
Read(r) ==
    /\ Running /\ r \in Live /\ rows[r].block # NoBlock
    /\ opened' = opened \union {rows[r].block[1]}
    /\ UNCHANGED <<memory, rows, word, first, last, top, txVars, markVars, stage, upd, missed>>

-------------------------------------------------------------------------------
(* REPAIR DATABASE between transactions, the log being empty.               *)

\* xdb_vdat_mark: b1111 in every block that has the mark, the lists forgotten;
\* a store that is not open is passed by.
RepairMark ==
    /\ Running /\ dirty /\ ~logged /\ new \union del = {}
    /\ first' = [c \in Classes |-> IF c \in opened THEN 0 ELSE first[c]]
    /\ last' = [c \in Classes |-> IF c \in opened THEN 0 ELSE last[c]]
    /\ word' = [b \in VBlocks |->
                  IF b[1] \in opened /\ b[2] <= top[b[1]] /\ word[b].use >= 8
                  THEN [word[b] EXCEPT !.use = 15] ELSE word[b]]
    /\ missed' = \E c \in Classes : c \notin opened /\ top[c] > 0
    /\ stage' = <<"rows">>
    /\ UNCHANGED <<memory, rows, top, opened, txVars, markVars, upd>>

\* the blocks of committed rows: b1000
Wanted == {rows[r].block : r \in {q \in RowIds : rows[q].ctrl = "commit"}} \ {NoBlock}

RepairRows ==
    /\ stage[1] = "rows"
    /\ word' = [b \in VBlocks |-> IF b \in Wanted THEN [word[b] EXCEPT !.use = 8] ELSE word[b]]
    /\ opened' = opened \union {b[1] : b \in Wanted}
    /\ stage' = <<"clean", VBlocks>>
    /\ UNCHANGED <<memory, rows, first, last, top, txVars, markVars, upd, missed>>

\* the blocks a repair gives back
Unwanted(b) == b[1] \in opened /\ b[2] <= top[b[1]] /\ word[b].use # 8

\* xdb_vdat_clean, class by class in the order of ids
RepairClean ==
    /\ stage[1] = "clean" /\ stage[2] # {}
    /\ \E b \in stage[2] :
          /\ \A a \in stage[2] : b[1] < a[1] \/ (b[1] = a[1] /\ b[2] <= a[2])
          /\ stage' = <<"clean", stage[2] \ {b}>>
          /\ IF Unwanted(b) THEN Release(b) ELSE UNCHANGED storeVars
    /\ UNCHANGED <<memory, rows, txVars, markVars, upd, missed>>

\* the flush that ends the repair
RepairEnd ==
    /\ stage = <<"clean", {}>>
    /\ stage' = <<"idle">>
    /\ dirty' = FALSE
    /\ UNCHANGED <<memory, rows, storeVars, txVars, logged, upd, missed>>

Repair == RepairMark \/ RepairRows \/ RepairClean \/ RepairEnd

-------------------------------------------------------------------------------
Update == \/ \E r \in RowIds, t \in Texts \union {NoText} : UpdateCopy(r, t)
          \/ UpdateOld \/ UpdateEnd

VdataNext ==
    \/ \E fast \in BOOLEAN :
          \/ \E r \in RowIds, t \in Texts \union {NoText} : InsertRow(r, t, fast)
          \/ \E t \in Texts : RefuseRow(t, fast)
          \/ \E r \in RowIds : DeleteRow(r, fast) \/ UpdateBegin(r, fast)
    \/ EndRefused \/ Update
    \/ Commit \/ Rollback \/ WalkEnd \/ Die \/ Flush \/ Reopen
    \/ \E r \in RowIds : WalkRow(r) \/ Read(r)
    \/ Repair

VdataSpec == VdataInit /\ [][VdataNext]_vdataVars

-------------------------------------------------------------------------------
(* Properties.                                                              *)

\* Who needs block b: rows, and the UPDATE that holds it.
Needs(b) == {r \in RowIds : rows[r].block = b} \union {0 : h \in {upd.block} \cap {b}}

\* The blocks on the list of class c, from blk_head on; longer than the class
\* when the links run in a circle.
ListOf(c) ==
    LET walk[n \in 0..(MaxBlocks + 1)] ==
          IF n = 0 THEN <<>>
          ELSE LET s == walk[n - 1]
                   i == IF n = 1 THEN first[c]
                        ELSE IF Len(s) < n - 1 THEN 0 ELSE word[<<c, s[n - 1]>>].link
               IN  IF i = 0 THEN s ELSE Append(s, i)
    IN  walk[MaxBlocks + 1]

\* The block of a row holds the string last written to the row, counts exactly
\* those that need it, and belongs to no other row: across UPDATEs that share
\* it, deletes put off to the commit, rollbacks, reopening and repairs.  A block
\* nobody needs is on the free list, once; only the refused row of a statement
\* alone on a memory table loses its block (xdb_crud.c:3132).  Excepted is what
\* follows the use of a closed store: xdb_vdata_free in one ends the process, and
\* a repair that passes one by frees blocks that are on its list already, and
\* links them in a circle.
BlocksExact ==
    ~missed /\ stage[1] \notin {"rows", "clean"} =>
        \A b \in VBlocks :
            LET free == {i \in DOMAIN ListOf(b[1]) : ListOf(b[1])[i] = b[2]}
            IN  /\ Cardinality({r \in Needs(b) : r # 0}) <= 1
                /\ Needs(b) # {} => /\ word[b].use = 7 + Cardinality(Needs(b))
                                    /\ free = {}
                /\ \A r \in Needs(b) \ {0} : word[b].text = rows[r].says
                /\ Needs(b) = {} /\ ~memory /\ b[2] <= top[b[1]] /\ stage # <<"refused", b>>
                      => Cardinality(free) = 1
                /\ Cardinality(free) <= 1
===============================================================================
