------------------------------ MODULE XdbQuery ------------------------------
(***************************************************************************)
(* What happens between the text of a SELECT, UPDATE or DELETE of one table *)
(* and its result: the parser chooses an index, types the values and notes  *)
(* which boxes a parameter fills (xdb_parser_dml.c), xdb_sql_filter walks   *)
(* the index or the rows, sorts, cuts and aggregates, and xdb_sql_select,   *)
(* xdb_sql_update and xdb_sql_delete project, change or remove the rows     *)
(* found (xdb_crud.c).  One connection runs literal, bound and prepared     *)
(* statements while indexes are created and dropped between them.           *)
(*                                                                          *)
(* A value is an integer; a CHAR n has the letters of n \div 2 and the case *)
(* of n % 2.  A box (xdb_value_t) keeps the union of the code: "as" says    *)
(* whether the bits were last written as integer or as double.  Hashes of   *)
(* different values differ and links are not shown: XdbIndex has both.      *)
(***************************************************************************)
EXTENDS Integers, SequencesExt, FiniteSetsExt

CONSTANTS Byte, Word, \* 2 ^ width of a TINYINT and of an INT
          MaxRows,    \* XDB_MAX_ROWS, the limit of a statement without LIMIT
          MaxDouble,  \* bound: a table with a larger value is only emptied
          MaxIndexes, \* bound: indexes of a table at a time
          Layouts     \* name -> table: columns, rows to insert, indexes, statements,
                      \* and its bounds: blocks, UPDATEs and DELETEs

VARIABLES layout,     \* the name of the table of this behaviour
          rows,       \* block -> row, or None
          idxs,       \* the indexes in the order of pTblm->idx_order
          prepared,   \* a prepared statement the client keeps, or None
          writes,     \* UPDATEs and DELETEs executed, counted for the bound alone
          stale,      \* op_val[1].pField left in the statement buffer of the connection
          last        \* the statement just executed and its result, or None

vars == <<layout, rows, idxs, prepared, writes, stale, last>>

None == [none |-> TRUE]
NoField == "no field"
Garbage == "garbage"  \* what a buffer held before, where nothing was written over it
Huge == 1000          \* the bits of a double, read as an integer, are far from it

Tab     == Layouts[layout]
Type(f) == Tab.column[f]
Fields  == DOMAIN Tab.column
RowIds  == 1 .. Tab.blocks
Live    == {r \in RowIds : rows[r] # None}

-----------------------------------------------------------------------------
(* Values                                                                   *)

\* pField->sup_type, set with the column
Sup(t) == CASE t \in {"TINYINT", "INT", "UINT"} -> "BIGINT"
            [] t = "DOUBLE" -> "DOUBLE"
            [] t = "CHAR" -> "CHAR"

\* the type a value of the column has once it is read from a row or typed in a WHERE
ReadType(t) == IF t = "UINT" THEN "UBIGINT" ELSE Sup(t)

Signed(n, m) == ((n + m \div 2) % m) - m \div 2
Store(t, n) == CASE t = "TINYINT" -> Signed(n, Byte)
                 [] t = "INT" -> Signed(n, Word)
                 [] t = "UINT" -> n % Word
                 [] OTHER -> n

AsInt(b)    == IF b.as = "int" \/ b.n = 0 THEN b.n ELSE Huge + b.n
AsDouble(b) == CASE b.as = "double" -> b.n
                 [] b.n > Huge \div 2 -> b.n - Huge
                 [] OTHER -> 0

\* xdb_convert_val writes the union and leaves sup_type as it was
ConvertVal(b, sup) == CASE sup = "BIGINT" -> [b EXCEPT !.as = "int", !.n = AsDouble(b)]
                        [] sup = "DOUBLE" -> [b EXCEPT !.as = "double", !.n = AsInt(b)]
                        [] OTHER -> b

Abs(x) == IF x < 0 THEN -x ELSE x
Quot(x, y) == IF (x < 0) = (y < 0) THEN Abs(x) \div Abs(y) ELSE -(Abs(x) \div Abs(y))
Arith(op, x, y) == CASE op = "+" -> x + y
                     [] op = "-" -> x - y
                     [] op = "*" -> x * y
                     [] op = "/" -> IF y = 0 THEN 0 ELSE Quot(x, y)

\* xdb_row_getVal: at a NULL the box keeps the value it held, 0 for one not used yet
GetVal(b, row) == CASE b.fld = NoField -> b
                    [] b.fld \in row.nul -> [b EXCEPT !.sup = "NULL"]
                    [] OTHER -> [b EXCEPT !.sup = ReadType(Type(b.fld)), !.n = row.v[b.fld],
                                          !.as = IF Type(b.fld) = "DOUBLE" THEN "double" ELSE "int"]

Converted(val, sup) == IF val.sup = sup THEN val ELSE ConvertVal(val, sup)

\* The value of an expression, and the expression with the boxes it converted.
Operated(e, l, r) ==
  LET int == l.sup = "BIGINT"
  IN IF e.op = "none" THEN [val |-> l, exp |-> [e EXCEPT !.l = l]]
     ELSE [val |-> [l EXCEPT !.as = IF int THEN "int" ELSE "double",
                             !.n = IF int THEN Arith(e.op, AsInt(l), AsInt(r))
                                          ELSE Arith(e.op, AsDouble(l), AsDouble(r))],
           exp |-> [e EXCEPT !.l = l, !.r = r]]
ExpEval(e, row) ==
  Operated(e, GetVal(e.l, row), Converted(GetVal(e.r, row), GetVal(e.l, row).sup))

-----------------------------------------------------------------------------
(* The parsed statement                                                     *)

\* xdb_parse_val, and the branch for "?": the second operand of a SET keeps the
\* field pointer that was in the buffer.
Box(o, sup, left) ==
  [sup |-> CASE o.is = "int" -> "BIGINT" [] o.is = "double" -> "DOUBLE" [] OTHER -> sup,
   as |-> IF o.is = "double" \/ (o.is = "bind" /\ sup = "DOUBLE") THEN "double" ELSE "int",
   fld |-> CASE o.is = "field" -> o.fld [] o.is = "bind" -> left [] OTHER -> NoField,
   null |-> o.is = "null", n |-> o.n, k |-> o.k]

ParseSetcol(c, left) ==
  [f |-> c.f, exp |-> [op |-> c.op, l |-> Box(c.l, Sup(Type(c.f)), NoField),
                                    r |-> Box(c.r, Sup(Type(c.f)), left)]]

\* the type of an expression column: the wider operand, DOUBLE for a division
OperandType(o) == CASE o.is = "field" -> Sup(Type(o.fld)) [] o.is = "double" -> "DOUBLE" [] OTHER -> "BIGINT"
ColType(c) == CASE c.op = "none" /\ c.l.is = "field" -> Type(c.l.fld)
                [] c.op = "/" \/ "DOUBLE" \in {OperandType(c.l), OperandType(c.r)} -> "DOUBLE"
                [] OTHER -> "BIGINT"
ParseCol(c) == [f |-> ColType(c), exp |-> [op |-> c.op, l |-> Box(c.l, "BIGINT", NoField),
                                                        r |-> Box(c.r, "BIGINT", NoField)]]

\* xdb_parse_where types a literal by its column, a parameter by sup_type
ParseFilter(w) == [f |-> w.f, op |-> w.op, n |-> w.n, k |-> w.k,
                   type |-> IF w.k > 0 THEN Sup(Type(w.f)) ELSE ReadType(Type(w.f))]

\* xdb_find_idx: the first index all of whose fields have an equality.  Then every
\* filter on a field of the index, whatever its operator, becomes the key of the field.
FindIdx(conj) ==
  LET usable == {i \in DOMAIN idxs :
                   \A f \in Range(idxs[i].fields) :
                      \E j \in DOMAIN conj : conj[j].f = f /\ conj[j].op = "="}
      ix == idxs[Min(usable)]
  IN IF usable = {} THEN None
     ELSE [ix |-> ix,
           key |-> [f \in Range(ix.fields) |-> Max({j \in DOMAIN conj : conj[j].f = f})],
           rest |-> {j \in DOMAIN conj : conj[j].f \notin Range(ix.fields)}]

\* LIMIT n, LIMIT n OFFSET m, LIMIT m, n
ParseLimit(l) == CASE l = <<>> -> [limit |-> MaxRows, offset |-> 0]
                   [] l # <<>> /\ Len(l) = 1 -> [limit |-> l[1], offset |-> 0]
                   [] OTHER -> IF l[2] = "," THEN [limit |-> l[3], offset |-> l[1]]
                                             ELSE [limit |-> l[1], offset |-> l[3]]

\* xdb_init_where_stmt: no condition, no order, every row
InitWhereStmt(kind) ==
  [kind |-> kind, where |-> <<>>, plans |-> <<>>, useIdx |-> FALSE, order |-> <<>>,
   cut |-> [limit |-> MaxRows, offset |-> 0], aggs |-> <<>>, cols |-> <<>>, set |-> <<>>]

\* xdb_parse_where; the statement goes through indexes when every branch of the OR does
ParseConj(conj) == [j \in DOMAIN conj |-> ParseFilter(conj[j])]
UseIdx(plans) == plans # <<>> /\ \A i \in DOMAIN plans : plans[i] # None
ParseWhere(p, where) ==
  LET parsed == [i \in DOMAIN where |-> ParseConj(where[i])]
      plans  == [i \in DOMAIN where |-> FindIdx(parsed[i])]
  IN [p EXCEPT !.where = parsed, !.plans = plans, !.useIdx = UseIdx(plans)]

ParseSelect(s) ==
  [ParseWhere(InitWhereStmt("select"), s.where) EXCEPT
     !.cols = [i \in DOMAIN s.cols |-> ParseCol(s.cols[i])], !.aggs = s.aggs,
     !.order = s.order, !.cut = ParseLimit(s.limit)]
ParseUpdate(s, left) ==
  [ParseWhere(InitWhereStmt("update"), s.where) EXCEPT
     !.set = [i \in DOMAIN s.set |-> ParseSetcol(s.set[i], left)], !.cut = ParseLimit(s.limit)]
ParseDelete(s) == [ParseWhere(InitWhereStmt("delete"), s.where) EXCEPT !.cut = ParseLimit(s.limit)]
Parse(s, left) == CASE s.kind = "select" -> ParseSelect(s)
                    [] s.kind = "update" -> ParseUpdate(s, left)
                    [] s.kind = "delete" -> ParseDelete(s)

\* xdb_stmt_vbexec2 fills the boxes in the order the parser met the parameters
BindVal(w, args) == IF w.k = 0 THEN w ELSE [w EXCEPT !.n = args[w.k]]
BindBox(b, args) == IF b.k = 0 THEN b
                    ELSE [b EXCEPT !.n = args[b.k], !.as = IF b.sup = "DOUBLE" THEN "double" ELSE "int"]
Bind(p, args) ==
  [p EXCEPT !.where = [i \in DOMAIN @ |-> [j \in DOMAIN @[i] |-> BindVal(@[i][j], args)]],
            !.set = [i \in DOMAIN @ |-> [@[i] EXCEPT !.exp.l = BindBox(@, args),
                                                     !.exp.r = BindBox(@, args)]]]

-----------------------------------------------------------------------------
(* The search                                                               *)

Letters(t, n) == IF t = "CHAR" THEN n \div 2 ELSE n
Holds(op, x, y) == CASE op = "=" -> x = y   [] op = "!=" -> x # y
                     [] op = "<" -> x < y   [] op = ">"  -> x > y
                     [] op = "<=" -> x <= y [] op = ">=" -> x >= y

\* xdb_row_and_match compares only values of the same type, CHARs without case
Match(row, w) == /\ ReadType(Type(w.f)) = w.type
                 /\ w.type \in {"BIGINT", "DOUBLE", "CHAR"}
                 /\ Holds(w.op, Letters(Type(w.f), row.v[w.f]), Letters(Type(w.f), w.n))
AndMatch(row, conj, js) == \A j \in js : Match(row, conj[j])

\* xdb_row_hash takes the stored bytes, xdb_val_hash the value in 64 bits, both cut
RowHash(t, n) == CASE t = "TINYINT" -> n % Byte [] t = "CHAR" -> Word + n [] OTHER -> n % Word
ValHash(w) == CASE w.type = "CHAR" -> Word + w.n [] w.type = "UBIGINT" -> 0 [] OTHER -> w.n % Word
\* xdb_row_isequal reads every integer as signed
Equal(row, w) == w.n = IF Type(w.f) = "UINT" THEN Signed(row.v[w.f], Word) ELSE row.v[w.f]

\* (a mutant: the filters on the other columns are forgotten)
M_Found(conj, plan) ==
  {r \in Live : \A f \in DOMAIN plan.key : rows[r].v[f] = conj[plan.key[f]].n}

Found(conj, plan) ==
  {r \in Live : /\ \A f \in DOMAIN plan.key :
                     LET w == conj[plan.key[f]]
                     IN IF plan.ix.kind = "hash"
                        THEN RowHash(Type(f), rows[r].v[f]) = ValHash(w) /\ Equal(rows[r], w)
                        ELSE rows[r].v[f] = w.n
                /\ AndMatch(rows[r], conj, plan.rest)}

\* xdb_rowset_add: seen only for an OR through indexes, offset counted before the limit
RowsetAdd(acc, r, dedupe, cut) ==
  CASE dedupe /\ r \in acc.seen -> acc
    [] cut.offset > 0 /\ acc.seq < cut.offset ->
         [acc EXCEPT !.seq = @ + 1, !.seen = @ \union {r}]
    [] OTHER -> [acc EXCEPT !.list = Append(@, r), !.seen = @ \union {r},
                            !.full = Len(acc.list) + 1 >= cut.limit]
Walk(acc, order, dedupe, cut) ==
  FoldLeft(LAMBDA a, r : IF a.full THEN a ELSE RowsetAdd(a, r, dedupe, cut),
           [acc EXCEPT !.full = FALSE], order)

Empty == [list |-> <<>>, seen |-> {}, seq |-> 0, full |-> FALSE]

\* The orders in which the branches may deliver: a chain or a sibling list has any.
Walks(p) ==
  IF ~p.useIdx THEN {<<SetToSortSeq({r \in Live : p.where = <<>> \/ \E i \in DOMAIN p.where :
                          AndMatch(rows[r], p.where[i], DOMAIN p.where[i])}, <)>>}
  ELSE LET found == [i \in DOMAIN p.where |-> SetToSeqs(Found(p.where[i], p.plans[i]))]
       IN {w \in [DOMAIN found -> UNION Range(found)] : \A i \in DOMAIN found : w[i] \in found[i]}

\* xdb_sql_query: each branch of an OR is walked even when the one before was cut
Query(p, cut) ==
  {FoldLeft(LAMBDA a, order : Walk(a, order, Len(p.where) > 1 /\ p.useIdx, cut), Empty, w).list :
     w \in Walks(p)}

\* xdb_sort_cmp: the first column that differs decides, in its own direction
Before(order, x, y) ==
  \E i \in DOMAIN order :
     /\ \A j \in 1 .. i - 1 : x.v[order[j].f] = y.v[order[j].f]
     /\ IF order[i].desc THEN x.v[order[i].f] > y.v[order[i].f] ELSE x.v[order[i].f] < y.v[order[i].f]
Sorts(order, list) ==
  {s \in SetToSeqs(Range(list)) :
     \A i, j \in DOMAIN s : i < j => ~Before(order, rows[s[j]], rows[s[i]])}

\* (a mutant: the limit counts from the first row and not from the offset)
M_SqlLimit(list, cut) == SubSeq(list, cut.offset + 1, Min({Len(list), cut.limit}))

SqlLimit(list, cut) == SubSeq(list, cut.offset + 1, Min({Len(list), cut.offset + cut.limit}))

\* xdb_sql_filter up to the aggregates: the lists of rows it may leave
Filter(p) ==
  CASE p.cut.limit <= 0 -> {<<>>}
    [] p.cut.limit > 0 /\ p.order = <<>> -> Query(p, p.cut)
    [] OTHER -> {SqlLimit(s, p.cut) : s \in UNION {Sorts(p.order, q) :
                                       q \in Query(p, [limit |-> MaxRows, offset |-> 0])}}

\* (a mutant: every aggregate starts at zero)
M_Aggregate(a, list) ==
  LET val(r) == rows[r].v[a.f]
      larger(x, r) == IF val(r) > x THEN val(r) ELSE x
      plus(x, r) == x + val(r)
  IN CASE a.fn = "COUNT" -> Len(list)
       [] a.fn = "MAX" -> FoldLeft(larger, 0, list)
       [] a.fn = "AVG" -> <<FoldLeft(plus, 0, list), Len(list)>>
       [] OTHER -> FoldLeft(plus, 0, list)

\* The aggregates: the first row is taken by itself, the others follow.  AVG is kept
\* as its sum and its count.
Aggregate(a, list) ==
  LET val(r) == rows[r].v[a.f]
      start == IF list = <<>> THEN 0 ELSE val(list[1])
      fold(F(_, _)) == FoldLeft(F, start, [i \in 1 .. Len(list) - 1 |-> val(list[i + 1])])
      plus(x, y) == x + y
      larger(x, y) == IF y > x THEN y ELSE x
      smaller(x, y) == IF y < x THEN y ELSE x
  IN CASE a.fn = "COUNT" -> Len(list)
       [] a.fn = "SUM" -> fold(plus)
       [] a.fn = "AVG" -> <<fold(plus), IF list = <<>> THEN 1 ELSE Len(list)>>
       [] a.fn = "MAX" -> fold(larger)
       [] a.fn = "MIN" -> fold(smaller)

-----------------------------------------------------------------------------
(* The statements                                                           *)

\* The expression after its value went to a column: a lone operand was converted in its box
Kept(exp, val) == IF exp.op = "none" THEN [exp EXCEPT !.l = val] ELSE exp

\* One column of one row of the answer, and the column after it was evaluated
Shown(c, ev, t) ==
  LET v == Converted(ev.val, t)
  IN [out |-> CASE ev.val.sup = "NULL" -> "null"
                [] t = "DOUBLE" -> AsDouble(v)
                [] OTHER -> Store(c.f, AsInt(v)),
      c |-> [c EXCEPT !.exp = Kept(ev.exp, v)]]
SelectCol(c, row) ==
  Shown(c, ExpEval(c.exp, row), IF c.f = "BIGINT" THEN "BIGINT" ELSE ReadType(c.f))

\* xdb_col_set
ColSet(f, row, val) == [row.v EXCEPT ![f] = Store(Type(f), IF Sup(Type(f)) = "DOUBLE" THEN AsDouble(val) ELSE AsInt(val))]

\* (a mutant: a column that was NULL stays NULL)
M_Assigned(c, row, exp, v) ==
  IF c.exp.l.null THEN [row |-> [row EXCEPT !.nul = @ \union {c.f}], c |-> c]
  ELSE [row |-> [row EXCEPT !.v = ColSet(c.f, row, v)], c |-> [c EXCEPT !.exp = Kept(exp, v)]]

\* xdb_row_set of one column
Assigned(c, row, exp, v) ==
  IF c.exp.l.null THEN [row |-> [row EXCEPT !.nul = @ \union {c.f}], c |-> c]
  ELSE [row |-> [v |-> ColSet(c.f, row, v), nul |-> row.nul \ {c.f}],
        c |-> [c EXCEPT !.exp = Kept(exp, v)]]
SetCol(c, row) ==
  LET set(ev) == Assigned(c, row, ev.exp, Converted(ev.val, Sup(Type(c.f))))
  IN set(ExpEval(c.exp, row))

\* A row after the SET list, and the list with its boxes
RowSet(set, row) ==
  LET next(a, i, s) == [row |-> s.row, set |-> [a.set EXCEPT ![i] = s.c]]
  IN FoldLeft(LAMBDA a, i : next(a, i, SetCol(a.set[i], a.row)),
              [row |-> row, set |-> set], [i \in DOMAIN set |-> i])

\* xdb_sql_update: the rows are collected first and changed one after the other
UpdateRows(p, list) ==
  LET next(a, r, u) == [rows |-> [a.rows EXCEPT ![r] = u.row], set |-> u.set]
  IN FoldLeft(LAMBDA a, r : next(a, r, RowSet(a.set, a.rows[r])),
              [rows |-> rows, set |-> p.set], list)

\* xdb_sql_select: whole rows, or the expression columns row by row
ProjectRow(cols, row) ==
  LET next(a, i, s) == [out |-> Append(a.out, s.out), cols |-> [a.cols EXCEPT ![i] = s.c]]
  IN FoldLeft(LAMBDA a, i : next(a, i, SelectCol(a.cols[i], row)),
              [out |-> <<>>, cols |-> cols], [i \in DOMAIN cols |-> i])
Project(p, list) ==
  LET next(a, s) == [out |-> Append(a.out, s.out), cols |-> s.cols]
  IN FoldLeft(LAMBDA a, r : next(a, ProjectRow(a.cols, rows[r])), [out |-> <<>>, cols |-> p.cols], list)

\* Bytes of a column.  A row of the table ends with a byte of NULL bits, the control byte
\* and, after the padding, the byte of the type of its strings.
Bytes(t) == CASE t = "TINYINT" -> 1 [] t = "DOUBLE" -> 8 [] OTHER -> 4
Align4(n) == 4 * ((n + 3) \div 4)
VtypeOff == Align4(MapThenSumSet(LAMBDA f : Bytes(Type(f)), Fields) + 3) - 1

\* Where each aggregate ends in the row of aggregates; the NULL bits follow the last one.
AggBytes(a) == IF a.fn \in {"MAX", "MIN"} THEN Bytes(Type(a.f)) ELSE 8
AggEnds(aggs) ==
  FoldLeft(LAMBDA e, a : Append(e, Align4(IF e = <<>> THEN 0 ELSE Last(e)) + AggBytes(a)), <<>>, aggs)

\* That row is copied in the length of a row of the table, with a type written over the
\* table's last byte.  What lies there or behind is whatever was in the buffer of the result.
AggRow(aggs, list) ==
  [v |-> [i \in DOMAIN aggs |-> IF AggEnds(aggs)[i] <= VtypeOff THEN Aggregate(aggs[i], list) ELSE Garbage],
   nul |-> IF Last(AggEnds(aggs)) < VtypeOff THEN {} ELSE Garbage]

\* What the client gets; pRowList[0] becomes the aggregate row, unless LIMIT 0 returned before
Answer(p, list, out) ==
  CASE p.aggs = <<>> -> out
    [] p.aggs # <<>> /\ p.cut.limit <= 0 -> <<>>
    [] OTHER -> <<AggRow(p.aggs, list)>>

\* The rows, the statement and the answer after it was executed
Executed(p, list) ==
  LET select(r) == [rows |-> rows, p |-> [p EXCEPT !.cols = r.cols], answer |-> Answer(p, list, r.out)]
      update(u) == [rows |-> u.rows, p |-> [p EXCEPT !.set = u.set], answer |-> Len(list)]
  IN CASE p.kind = "select" -> select(Project(p, list))
       [] p.kind = "update" -> update(UpdateRows(p, list))
       [] p.kind = "delete" -> [rows |-> [r \in RowIds |-> IF r \in Range(list) THEN None ELSE rows[r]],
                                p |-> p, answer |-> Len(list)]

Bounded == \A r \in Live : \A f \in Fields : Abs(rows[r].v[f]) <= MaxDouble

\* The statement with its parameters replaced: what the client means
Meant(s, args) ==
  LET box(o) == IF o.k > 0 THEN [o EXCEPT !.is = "value", !.n = args[o.k]] ELSE o
  IN [s EXCEPT !.where = [i \in DOMAIN @ |-> [j \in DOMAIN @[i] |-> BindVal(@[i][j], args)]],
               !.set = [i \in DOMAIN @ |-> [@[i] EXCEPT !.l = box(@), !.r = box(@)]]]

\* xdb_stmt_exec of a parsed statement; a prepared one keeps the boxes it converted
Ends(s, args, kept, list, done) ==
  /\ writes' = IF s.kind = "select" THEN writes ELSE writes + 1
  /\ rows' = done.rows
  /\ last' = [stmt |-> Meant(s, args), before |-> rows, list |-> list,
              via |-> CASE ~kept -> "exec" [] prepared.again -> "again" [] OTHER -> "first",
              answer |-> done.answer]
  /\ prepared' = IF kept THEN [prepared EXCEPT !.p = Bind(done.p, [k \in 1 .. Len(args) |-> 0]), !.again = TRUE]
                 ELSE prepared
Run(p, s, args, kept) ==
  /\ s.kind # "select" => writes < Tab.writes
  /\ \E list \in Filter(p) : Ends(s, args, kept, list, Executed(p, list))

\* What the parser leaves of the second operand in the buffer of the connection; the
\* columns of a SELECT list are laid out over it.
Leaves(s) ==
  CASE s.kind = "select" /\ s.cols \o s.aggs # <<>> -> Garbage
    [] s.kind = "update" /\ s.set[1].op # "none" /\ s.set[1].r.is = "field" -> s.set[1].r.fld
    [] s.kind = "update" /\ s.set[1].op # "none" /\ s.set[1].r.is # "bind" -> NoField
    [] OTHER -> stale
Reads(s, left) == s.kind = "update" /\ left = Garbage /\ s.set[1].op # "none" /\ s.set[1].r.is = "bind"

\* xdb_exec and xdb_bexec: parse into the buffer of the connection, bind, execute.
\* A pointer to garbage is not followed here: that process ends.
Exec(s, args) ==
  /\ last = None /\ ~Reads(s, stale)
  /\ Bounded \/ s.kind = "delete"
  /\ Run(Bind(Parse(s, stale), args), s, args, FALSE)
  /\ stale' = Leaves(s)
  /\ UNCHANGED <<layout, idxs>>

\* xdb_stmt_prepare: a buffer of its own, which malloc may have given out before
Prepare(s) ==
  /\ last = None /\ prepared = None
  /\ \E left \in {NoField, Garbage} :
       /\ ~Reads(s, left)
       /\ prepared' = [stmt |-> s, p |-> Parse(s, left), again |-> FALSE]
  /\ UNCHANGED <<layout, rows, idxs, writes, stale, last>>

\* xdb_stmt_bexec
Bexec(args) ==
  /\ last = None /\ prepared # None /\ Bounded
  /\ Run(Bind(prepared.p, args), prepared.stmt, args, TRUE)
  /\ UNCHANGED <<layout, idxs, stale>>

\* xdb_stmt_close
CloseStmt ==
  /\ last = None /\ prepared # None
  /\ prepared' = None
  /\ UNCHANGED <<layout, rows, idxs, writes, stale, last>>

\* INSERT of one row: the values wrap to the width of their columns, missing ones are
\* NULL over a zero.  Its block is any free one (XdbStore).
Insert(new) ==
  /\ last = None /\ writes = 0
  /\ \E r \in RowIds \ Live :
       rows' = [rows EXCEPT ![r] = [new EXCEPT !.v = [f \in Fields |-> Store(Type(f), new.v[f])]]]
  /\ UNCHANGED <<layout, idxs, prepared, writes, stale, last>>

\* CREATE INDEX and DROP INDEX; the client closes the statements that use an index
\* before it drops the index.
CreateIndex(ix) ==
  /\ last = None /\ ix \notin Range(idxs) /\ Len(idxs) < MaxIndexes
  /\ idxs' = Append(idxs, ix)
  /\ UNCHANGED <<layout, rows, prepared, writes, stale, last>>
DropIndex(ix) ==
  /\ last = None /\ ix \in Range(idxs) /\ prepared = None
  /\ idxs' = SelectSeq(idxs, LAMBDA i : i # ix)
  /\ UNCHANGED <<layout, rows, prepared, writes, stale, last>>

\* xdb_fetch_row to the end and xdb_free_result
FreeResult ==
  /\ last # None
  /\ last' = None
  /\ UNCHANGED <<layout, rows, idxs, prepared, writes, stale>>

Init == /\ layout \in DOMAIN Layouts
        /\ rows = [r \in RowIds |-> None]
        /\ idxs = <<>> /\ prepared = None /\ writes = 0 /\ stale = NoField /\ last = None

Next == \/ \E c \in Tab.stmts : \E args \in c.args : Exec(c.stmt, args)
        \/ \E c \in Tab.prepares : Prepare(c.stmt)
        \/ \E c \in Tab.prepares : prepared # None /\ prepared.stmt = c.stmt
                                      /\ \E args \in c.args : Bexec(args)
        \/ CloseStmt
        \/ \E new \in Tab.inserts : Insert(new)
        \/ \E ix \in Tab.indexes : CreateIndex(ix) \/ DropIndex(ix)
        \/ FreeResult

Spec == Init /\ [][Next]_vars

-----------------------------------------------------------------------------
(* What a statement means, told without indexes, boxes or the order of rows *)

Content(r) == last.before[r]
Alive == {r \in RowIds : last.before[r] # None}
Answered == Range(last.list)
Filters == UNION {Range(conj) : conj \in Range(last.stmt.where)}
Wanted == {r \in Alive : \/ last.stmt.where = <<>>
                         \/ \E conj \in Range(last.stmt.where) : \A w \in Range(conj) :
                               w.f \notin Content(r).nul /\ Holds(w.op, Letters(Type(w.f), Content(r).v[w.f]), Letters(Type(w.f), w.n))}
Cut == ParseLimit(last.stmt.limit)
Uncut == Cut.limit = MaxRows /\ Cut.offset = 0

Num(o, row) == IF o.is = "field" THEN row.v[o.fld] ELSE o.n
Worth(e, row) == IF e.op = "none" THEN Num(e.l, row) ELSE Arith(e.op, Num(e.l, row), Num(e.r, row))
Changed(row) ==
  FoldLeft(LAMBDA a, c : IF c.l.is = "null" THEN [a EXCEPT !.nul = @ \union {c.f}]
                         ELSE [v |-> [a.v EXCEPT ![c.f] = Store(Type(c.f), Worth(c, a))],
                               nul |-> a.nul \ {c.f}],
           row, last.stmt.set)

(* Where the code departs from that meaning *)

\* A scan never finds a value of an unsigned column, and compares what is stored under a NULL.
FilterDeparts == \E w \in Filters : Type(w.f) = "UINT" \/ \E r \in Alive : w.f \in Content(r).nul
\* An index keeps one filter for each of its fields, misses a negative TINYINT and tells
\* the case of letters.
KeyDeparts ==
  /\ idxs # <<>>
  /\ \E conj \in Range(last.stmt.where) :
       \/ \E i, j \in DOMAIN conj : i # j /\ conj[i].f = conj[j].f
       \/ \E w \in Range(conj) :
            \/ Type(w.f) = "TINYINT" /\ w.n < 0
            \/ Type(w.f) = "CHAR" /\ \E r \in Alive : /\ Content(r).v[w.f] # w.n
                                                      /\ Content(r).v[w.f] \div 2 = w.n \div 2
OperandSup(o, t) == CASE o.is = "field" -> Sup(Type(o.fld)) [] o.is = "value" -> Sup(t)
                      [] o.is = "double" -> "DOUBLE" [] OTHER -> "BIGINT"
\* An expression converts a literal in its box, and converts it again for the next row; it
\* reads unsigned and NULL operands as doubles, and a parameter may be hidden by a field.
ExpDeparts(c, t) ==
  \/ /\ Len(last.list) > 1 \/ last.via = "again"
     /\ \/ c.op = "none" /\ c.l.is # "field" /\ OperandSup(c.l, t) # Sup(t)
        \/ c.op # "none" /\ c.r.is # "field" /\ OperandSup(c.r, t) # OperandSup(c.l, t)
  \/ \E o \in {c.l, c.r} : o.is = "field" /\ \/ Type(o.fld) = "UINT"
                                             \/ (c.op # "none" \/ last.stmt.kind = "update")
                                                /\ \E r \in Answered : o.fld \in Content(r).nul
  \/ last.via = "exec" /\ stale # NoField /\ c.op # "none" /\ c.r.is = "value"

\* Aggregate j does not fit in a row of the table, together with those before it.
AggDeparts(j) == AggEnds(last.stmt.aggs)[j] > VtypeOff

-----------------------------------------------------------------------------
(* Properties                                                               *)

\* WHERE: whatever index was chosen, when it was created and however the statement was
\* prepared, exactly the rows that satisfy the condition are found, each once.
WhereExact ==
  last # None => /\ IsInjective(last.list)
                 /\ Uncut /\ ~FilterDeparts /\ ~KeyDeparts => Answered = Wanted

\* ORDER BY, LIMIT, OFFSET: row i of the answer is one that may stand at place offset + i
\* of the rows in order, and as many are answered as there are up to the limit.
LimitExact ==
  last # None /\ ~FilterDeparts /\ ~KeyDeparts
    /\ ~(Len(last.stmt.where) > 1 /\ idxs # <<>> /\ last.stmt.order = <<>> /\ ~Uncut) =>
    LET precedes(x, y) == Before(last.stmt.order, Content(x), Content(y))
        rest == Cardinality(Wanted) - Cut.offset
    IN /\ Answered \subseteq Wanted
       /\ Len(last.list) = Max({0, Min({Cut.limit, rest})})
       /\ \A i \in DOMAIN last.list :
            /\ Cardinality({r \in Wanted : precedes(r, last.list[i])}) < Cut.offset + i
            /\ Cardinality({r \in Wanted : ~precedes(last.list[i], r)}) >= Cut.offset + i

\* UPDATE and DELETE: every row found is changed once, by the values it had before, no
\* other row is touched, and the client is told how many.
UpdatesExact ==
  last # None /\ ~(\E i \in DOMAIN last.stmt.set : ExpDeparts(last.stmt.set[i], Type(last.stmt.set[i].f))) =>
    /\ last.stmt.kind # "select" => last.answer = Cardinality(Answered)
    /\ \A r \in RowIds :
         rows[r] = CASE r \notin Answered \/ last.stmt.kind = "select" -> Content(r)
                     [] last.stmt.kind = "update" -> Changed(Content(r))
                     [] OTHER -> None

\* The answer of a SELECT: each column of each row is the value of its expression, and an
\* aggregate is over all the rows that satisfy the condition, as far as the row of
\* aggregates fits in a row of the table.
AnswersExact ==
  last # None /\ last.stmt.kind = "select" =>
    /\ last.stmt.aggs = <<>> =>
         \A i \in DOMAIN last.list : \A j \in DOMAIN last.stmt.cols :
            LET c == last.stmt.cols[j]
                row == Content(last.list[i])
                t == IF ColType(c) = "BIGINT" THEN "INT" ELSE ColType(c)
            IN \/ ExpDeparts(c, t)
               \/ last.answer[i][j] = IF c.op = "none" /\ c.l.is = "field" /\ c.l.fld \in row.nul THEN "null"
                                      ELSE Store(ColType(c), Worth(c, row))
    /\ last.stmt.aggs # <<>> /\ Uncut /\ ~FilterDeparts /\ ~KeyDeparts =>
         \A j \in DOMAIN last.stmt.aggs :
            LET a == last.stmt.aggs[j]
                val(r) == Content(r).v[a.f]
                sum == MapThenSumSet(val, Wanted)
                n == Cardinality(Wanted)
            IN \/ a.fn # "COUNT" /\ \E r \in Wanted : a.f \in Content(r).nul
               \/ AggDeparts(j)
               \/ /\ last.answer[1].v[j] = CASE a.fn = "COUNT" -> n
                                             [] a.fn = "SUM" -> sum
                                             [] a.fn = "AVG" -> <<sum, Max({1, n})>>
                                             [] Wanted = {} -> 0
                                             [] a.fn = "MAX" -> Max({val(r) : r \in Wanted})
                                             [] a.fn = "MIN" -> Min({val(r) : r \in Wanted})
                  /\ AggDeparts(Len(last.stmt.aggs)) \/ last.answer[1].nul = {}
=============================================================================
