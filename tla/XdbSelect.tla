------------------------------ MODULE XdbSelect ------------------------------
(***************************************************************************)
(* SELECT beside writers: xdb_sql_select of core/xdb_crud.c.               *)
(*                                                                         *)
(* A SELECT takes no table lock.  It holds the storage read lock, which    *)
(* keeps statements out of the table but not the walk of a commit or       *)
(* rollback: it first collects the ids of the rows it finds valid, one by  *)
(* one, then copies them, one by one.                                      *)
(*                                                                         *)
(* views is a history variable: every content of the table that was a      *)
(* right answer at some moment of the SELECT.  While a commit walks, both  *)
(* the content before it and the one it publishes are.                     *)
(***************************************************************************)
EXTENDS XdbTrans

VARIABLES
    scan,       \* rows the filter has still to look at
    rowset,     \* row_set: valid rows found, not yet copied
    out,        \* rows in the result
    views,      \* contents of the table during the SELECT
    before,     \* content of every table before the commit that walks it
    disturbed   \* whether a commit of the table ran during the SELECT

selVars == <<scan, rowset, out>>
ghostVars == <<views, before, disturbed>>

SelInit ==
    /\ Init
    /\ scan = [c \in Conns |-> {}]
    /\ rowset = [c \in Conns |-> {}]
    /\ out = [c \in Conns |-> {}]
    /\ views = [c \in Conns |-> {}]
    /\ before = [t \in Tables |-> {}]
    /\ disturbed = [c \in Conns |-> FALSE]

\* What a SELECT of c on t may answer now: the content it works on when it is
\* the table's writer, else the committed one.
ViewsOf(c, t) == IF tblLock[t] = c THEN {WorkOf(t)} ELSE {DbOf(t), before[t]}

-------------------------------------------------------------------------------
(* Mutants of the operations below.                                         *)

\* rows are taken whatever their control byte says, unless free
M_Visible(c, t, r) == ctrl[t][r] # FREE

\* a row that any transaction is about to delete is gone
M_VisibleAll(c, t, r) == Valid(c, t, r) /\ \A d \in Conns : r \notin delRows[d][t]

\* rows of the own transaction are not copied
M_CopyRow(c, r) ==
    /\ pc[c] = "select" /\ scan[c] = {}
    /\ Least(r, rowset[c])
    /\ rowset' = [rowset EXCEPT ![c] = @ \ {r}]
    /\ out' = [out EXCEPT ![c] =
                 IF ctrl[stmt[c]][r] = TRANS THEN @ ELSE @ \union {row[stmt[c]][r]}]
    /\ UNCHANGED <<vars, scan>>

-------------------------------------------------------------------------------

Select(c, t) ==
    /\ pc[c] = "idle"
    /\ pc' = [pc EXCEPT ![c] = "select"]
    /\ stmt' = [stmt EXCEPT ![c] = t]
    /\ readers' = [readers EXCEPT ![t] = @ \union {c}]
    /\ scan' = [scan EXCEPT ![c] = Rows]
    /\ out' = [out EXCEPT ![c] = {}]
    /\ UNCHANGED <<rowVars, setVars, walkVars, connVars, lockVars, rowset>>

\* the test of xdb_sql_filter
Visible(c, t, r) == Valid(c, t, r)

FilterRow(c, r) ==
    /\ pc[c] = "select"
    /\ Least(r, scan[c])
    /\ scan' = [scan EXCEPT ![c] = @ \ {r}]
    /\ rowset' = [rowset EXCEPT ![c] =
                    IF Visible(c, stmt[c], r) THEN @ \union {r} ELSE @]
    /\ UNCHANGED <<vars, out>>

CopyRow(c, r) ==
    /\ pc[c] = "select" /\ scan[c] = {}
    /\ Least(r, rowset[c])
    /\ rowset' = [rowset EXCEPT ![c] = @ \ {r}]
    /\ out' = [out EXCEPT ![c] = @ \union {row[stmt[c]][r]}]
    /\ UNCHANGED <<vars, scan>>

Answered(c) == pc[c] = "select" /\ scan[c] = {} /\ rowset[c] = {}

EndSelect(c) ==
    /\ Answered(c)
    /\ pc' = [pc EXCEPT ![c] = "idle"]
    /\ stmt' = [stmt EXCEPT ![c] = NoTable]
    /\ readers' = [readers EXCEPT ![stmt[c]] = @ \ {c}]
    /\ out' = [out EXCEPT ![c] = {}]
    /\ UNCHANGED <<rowVars, setVars, walkVars, connVars, lockVars, scan, rowset>>

\* The history: it takes no part in the steps above.
Record ==
    /\ before' = [t \in Tables |-> IF Committing(t)' THEN before[t] ELSE DbOf(t)']
    /\ views' = [c \in Conns |->
                   IF pc'[c] # "select" THEN {}
                   ELSE views[c] \union ViewsOf(c, stmt[c])']
    /\ disturbed' = [c \in Conns |->
                       /\ pc'[c] = "select"
                       /\ disturbed[c] \/ Committing(stmt[c])']

SelNext ==
    /\ \/ Next /\ UNCHANGED selVars
       \/ \E c \in Conns : \/ \E t \in Tables : Select(c, t)
                           \/ \E r \in Rows : FilterRow(c, r) \/ CopyRow(c, r)
                           \/ EndSelect(c)
    /\ Record

SelSpec == SelInit /\ [][SelNext]_<<vars, selVars, ghostVars>>

-------------------------------------------------------------------------------
(* Properties.                                                              *)

\* No dirty reads: whatever the interleaving with statements, commits and
\* rollbacks, a row in a result was in the table's content at some moment of
\* the SELECT, or is the overwritten block of a row that a commit freed.
NoDirtyRead == \A c \in Conns : out[c] \subseteq (UNION views[c]) \union {Junk}

\* A SELECT with no commit of its table beside it is exact, also when other
\* transactions write the table or roll back meanwhile: it answers a content
\* the table had during the SELECT.
SnapshotUndisturbed ==
    \A c \in Conns : Answered(c) /\ ~disturbed[c] => out[c] \in views[c]

\* A transaction reads its own writes, all of them.
ReadsOwnWrites ==
    \A c \in Conns :
        Answered(c) /\ tblLock[stmt[c]] = c
          => out[c] = Content(stmt[c], ValidRows(c, stmt[c]))

\* README: "Reader-Writer MVCC", transactions are "ACID": a SELECT answers one
\* content of the table.
SelectSnapshot == \A c \in Conns : Answered(c) => out[c] \in views[c]
===============================================================================
