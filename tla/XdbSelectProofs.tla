---------------------------- MODULE XdbSelectProofs ----------------------------
(***************************************************************************)
(* Proofs about transactions, and about SELECT beside them, for any number *)
(* of connections, tables, rows, keys and values, when every table is on   *)
(* disk (MemTables = {}): no statement goes past the table lock.  The      *)
(* theorems about transactions are of the specification Spec of XdbTrans,  *)
(* the last ones of SelSpec.                                               *)
(***************************************************************************)
EXTENDS XdbSelect, FiniteSetTheorems, WellFoundedInduction, TLAPS

\* A row in use holds a record; only the head of a free one is overwritten.
RowsFilled ==
    \A t \in Tables, r \in Rows : ctrl[t][r] # FREE => row[t][r] \in Records

TInv == TypeOK /\ RowsFilled

\* What a statement that changes rows does: it replaces rows it sees by at most
\* one new version, whose key no other row it sees has.
Change(c, t, gone, used, rec) ==
    /\ gone \subseteq ValidRows(c, t)
    /\ used \subseteq FreeRows(t)
    /\ used # {} => /\ rec \in Records
                    /\ \E q \in Rows : used = {q}
                    /\ ~Taken(c, t, gone, rec.key)
    /\ Apply(c, t, gone, used, rec)

\* The other thing it may do: set columns of an own version in place.
InPlace(c, t) ==
    \E r \in ValidRows(c, t), v \in Vals :
        /\ ctrl[t][r] = TRANS
        /\ row' = [row EXCEPT ![t][r].val = v]
        /\ UNCHANGED <<ctrl, idx, setVars>>

\* A statement on a disk table is one of the two, or changes nothing.
LEMMA ExecCases ==
    ASSUME MemTables = {}, TInv, NEW c \in Conns, NEW t \in Tables, Exec(c, t)
    PROVE  \/ \E gone, used, rec : Change(c, t, gone, used, rec)
           \/ InPlace(c, t)
           \/ NoChange(c, t)
<1>0. ~Fast(c, t)
  BY DEF Fast
<1>1. CASE Insert(c, t)
  <2>1. PICK rec \in Records, q \in FreeRows(t) :
           ~Taken(c, t, {}, rec.key) /\ Apply(c, t, {}, {q}, rec)
    BY <1>1 DEF Insert
  <2>2. q \in Rows
    BY DEF FreeRows
  <2>3. Change(c, t, {}, {q}, rec)
    BY <2>1, <2>2 DEF Change
  <2> QED
    BY <2>3
<1>2. CASE Delete(c, t)
  <2>1. PICK S \in SUBSET ValidRows(c, t) : Apply(c, t, S, {}, Junk)
    BY <1>2 DEF Delete
  <2>2. Change(c, t, S, {}, Junk)
    BY <2>1 DEF Change
  <2> QED
    BY <2>2
<1>3. ASSUME NEW r \in ValidRows(c, t), NEW rec \in Records, Replace(c, t, r, rec)
      PROVE  \E gone, used, any : Change(c, t, gone, used, any)
  <2>1. CASE ~Taken(c, t, {r}, rec.key) /\ \E q \in FreeRows(t) : Apply(c, t, {r}, {q}, rec)
    <3>1. PICK q \in FreeRows(t) : Apply(c, t, {r}, {q}, rec)
      BY <2>1
    <3>2. q \in Rows
      BY DEF FreeRows
    <3>3. Change(c, t, {r}, {q}, rec)
      BY <2>1, <3>1, <3>2 DEF Change
    <3> QED
      BY <3>3
  <2>2. CASE Apply(c, t, {r}, {}, Junk)
    <3>1. Change(c, t, {r}, {}, Junk)
      BY <2>2 DEF Change
    <3> QED
      BY <3>1
  <2> QED
    BY <1>3, <2>1, <2>2 DEF Replace
<1>4. CASE UpdateKey(c, t)
  BY <1>3, <1>4 DEF UpdateKey
<1>5. CASE UpdateVal(c, t)
  <2>1. PICK r \in ValidRows(c, t), v \in Vals :
           \/ /\ ctrl[t][r] = TRANS
              /\ row' = [row EXCEPT ![t][r].val = v]
              /\ UNCHANGED <<ctrl, idx, setVars>>
           \/ Replace(c, t, r, [key |-> row[t][r].key, val |-> v])
    BY <1>0, <1>5 DEF UpdateVal
  <2>2. row[t][r] \in Records
    BY DEF ValidRows, Valid, TInv, RowsFilled, COMMIT, TRANS, FREE
  <2>3. [key |-> row[t][r].key, val |-> v] \in Records
    BY <2>2 DEF Records
  <2> QED
    BY <1>3, <2>1, <2>3 DEF InPlace
<1> QED
  BY <1>1, <1>2, <1>4, <1>5 DEF Exec

\* Its effect on the variables it touches: now are the own versions it frees.
Effect(c, t, gone, used, rec, now) ==
    /\ gone \subseteq Rows /\ used \subseteq Rows /\ now \subseteq gone
    /\ \A r \in gone \ now : ctrl[t][r] = COMMIT
    /\ \A r \in now : ctrl[t][r] = TRANS /\ r \in newRows[c][t]
    /\ \A r \in used : ctrl[t][r] = FREE
    /\ used \intersect gone = {}
    /\ ctrl' = [ctrl EXCEPT ![t] = [r \in Rows |->
          IF r \in used THEN TRANS ELSE IF r \in now THEN FREE ELSE ctrl[t][r]]]
    /\ row' = [row EXCEPT ![t] = [r \in Rows |->
          IF r \in used THEN rec ELSE IF r \in now THEN Junk ELSE row[t][r]]]
    /\ idx' = [idx EXCEPT ![t] = (idx[t] \ now) \union used]
    /\ newRows' = [newRows EXCEPT ![c][t] = (newRows[c][t] \ now) \union used]
    /\ delRows' = [delRows EXCEPT ![c][t] = delRows[c][t] \union (gone \ now)]
    /\ tblRows' = [tblRows EXCEPT ![c] =
          IF used # {} \/ gone # now THEN tblRows[c] \union {t} ELSE tblRows[c]]

\* Every change of rows of a disk table has this effect.
LEMMA ChangeEffect ==
    ASSUME MemTables = {}, NEW c \in Conns, NEW t \in Tables,
           NEW gone, NEW used, NEW rec, Change(c, t, gone, used, rec)
    PROVE  \E now : Effect(c, t, gone, used, rec, now)
<1>0. ~Fast(c, t)
  BY DEF Fast
<1>1. PICK now : now = {r \in gone : Fast(c, t) \/ ctrl[t][r] = TRANS}
  OBVIOUS
<1>2. /\ gone \subseteq ValidRows(c, t) /\ used \subseteq FreeRows(t)
      /\ Apply(c, t, gone, used, rec)
  BY DEF Change
<1>3. /\ gone \subseteq Rows /\ used \subseteq Rows /\ now \subseteq gone
      /\ \A r \in gone \ now : ctrl[t][r] = COMMIT
      /\ \A r \in now : ctrl[t][r] = TRANS /\ r \in newRows[c][t]
      /\ \A r \in used : ctrl[t][r] = FREE
      /\ used \intersect gone = {}
  BY <1>0, <1>1, <1>2 DEF ValidRows, Valid, FreeRows, COMMIT, TRANS, FREE
<1>4. Effect(c, t, gone, used, rec, now)
  BY <1>0, <1>1, <1>2, <1>3 DEF Apply, Effect
<1> QED
  BY <1>4

-------------------------------------------------------------------------------
(* Types.                                                                   *)

\* Updating a function at one point keeps its type; so does leaving it alone.
LEMMA UpdateType ==
    ASSUME NEW S, NEW T, NEW f \in [S -> T], NEW x \in S, NEW v \in T, NEW g,
           g = f \/ g = [f EXCEPT ![x] = v]
    PROVE  g \in [S -> T]
OBVIOUS

LEMMA InitTypes == Init => TInv
BY DEF Init, TInv, TypeOK, RowsFilled, Empty, States

\* Every step keeps the types, and no row in use is left without a record.
LEMMA StepTypes ==
    ASSUME MemTables = {}, TInv, VersionOwned, [Next]_vars
    PROVE  TInv'
<1> USE DEF TInv
<1>1. ASSUME NEW c \in Conns, Begin(c) PROVE TInv'
  <2>1. /\ pc' = pc \/ pc' = [pc EXCEPT ![c] = "commit"]
        /\ \/ UNCHANGED connVars
           \/ /\ inTrans' = [inTrans EXCEPT ![c] = TRUE]
              /\ autoTrans' = [autoTrans EXCEPT ![c] = FALSE]
        /\ again' = again \/ again' = [again EXCEPT ![c] = TRUE]
        /\ todo' = todo \/ todo' = [todo EXCEPT ![c] = tblRows[c]]
        /\ toNew' = toNew \/ toNew' = [toNew EXCEPT ![c] = newRows[c]]
        /\ toDel' = toDel \/ toDel' = [toDel EXCEPT ![c] = delRows[c]]
        /\ UNCHANGED <<rowVars, setVars, lockVars, readers, stmt>>
    BY <1>1 DEF Begin, walkVars
  <2>2. UNCHANGED <<ctrl, row, idx, tblRows, newRows, delRows, tblLock, wrLocks>>
    BY <2>1 DEF rowVars, setVars, lockVars
  <2>3. inTrans' \in [Conns -> BOOLEAN] /\ autoTrans' \in [Conns -> BOOLEAN]
    BY <2>1 DEF TypeOK, connVars
  <2>4. pc' \in [Conns -> States] /\ again' \in [Conns -> BOOLEAN]
    <3>1. pc \in [Conns -> States] /\ again \in [Conns -> BOOLEAN] /\ "commit" \in States
      BY DEF TypeOK, States
    <3> QED
      BY <2>1, <3>1, UpdateType
  <2>5. /\ todo' \in [Conns -> SUBSET Tables]
        /\ toNew' \in [Conns -> [Tables -> SUBSET Rows]]
        /\ toDel' \in [Conns -> [Tables -> SUBSET Rows]]
    <3>1. /\ todo \in [Conns -> SUBSET Tables] /\ tblRows[c] \in SUBSET Tables
          /\ toNew \in [Conns -> [Tables -> SUBSET Rows]]
          /\ toDel \in [Conns -> [Tables -> SUBSET Rows]]
          /\ newRows[c] \in [Tables -> SUBSET Rows]
          /\ delRows[c] \in [Tables -> SUBSET Rows]
      BY DEF TypeOK
    <3>2. todo' \in [Conns -> SUBSET Tables]
      <4>1. todo' = todo \/ todo' = [todo EXCEPT ![c] = tblRows[c]]
        BY <2>1
      <4> QED
        BY ONLY <3>1, <4>1, UpdateType
    <3>3. toNew' \in [Conns -> [Tables -> SUBSET Rows]]
      <4>1. toNew' = toNew \/ toNew' = [toNew EXCEPT ![c] = newRows[c]]
        BY <2>1
      <4> QED
        BY ONLY <3>1, <4>1, UpdateType
    <3>4. toDel' \in [Conns -> [Tables -> SUBSET Rows]]
      <4>1. toDel' = toDel \/ toDel' = [toDel EXCEPT ![c] = delRows[c]]
        BY <2>1
      <4> QED
        BY ONLY <3>1, <4>1, UpdateType
    <3> QED
      BY <3>2, <3>3, <3>4
  <2> QED
    BY <2>1, <2>2, <2>3, <2>4, <2>5 DEF TypeOK, RowsFilled
<1>2. ASSUME NEW c \in Conns, NEW t \in Tables, Statement(c, t) PROVE TInv'
  BY <1>2 DEF Statement, TypeOK, RowsFilled, States, rowVars, setVars, lockVars, walkVars
<1>3. ASSUME NEW c \in Conns, NEW t \in Tables, LockTable(c, t) PROVE TInv'
  <2>1. /\ tblLock' = tblLock \/ tblLock' = [tblLock EXCEPT ![t] = c]
        /\ wrLocks' = wrLocks \/ wrLocks' = [wrLocks EXCEPT ![c] = wrLocks[c] \union {t}]
        /\ pc' = [pc EXCEPT ![c] = "exec"]
    BY <1>3 DEF LockTable, MayLock, lockVars
  <2>2. /\ tblLock' \in [Tables -> Conns \union {NoConn}]
        /\ wrLocks' \in [Conns -> SUBSET Tables]
        /\ pc' \in [Conns -> States]
    <3>1. /\ pc \in [Conns -> States] /\ "exec" \in States
          /\ tblLock \in [Tables -> Conns \union {NoConn}]
          /\ wrLocks \in [Conns -> SUBSET Tables]
          /\ wrLocks[c] \union {t} \in SUBSET Tables
      BY DEF TypeOK, States
    <3> QED
      BY <2>1, <3>1, UpdateType
  <2> QED
    BY <1>3, <2>2 DEF LockTable, TypeOK, RowsFilled, rowVars, setVars, connVars, walkVars
<1>4. ASSUME NEW c \in Conns, NEW t \in Tables, Exec(c, t) PROVE TInv'
  <2>1. /\ pc' = [pc EXCEPT ![c] = "done"]
        /\ UNCHANGED <<walkVars, connVars, lockVars, readers, stmt>>
    BY <1>4 DEF Exec
  <2>2. ASSUME NEW gone, NEW used, NEW rec, Change(c, t, gone, used, rec)
        PROVE  TInv'
    <3>1. PICK now : Effect(c, t, gone, used, rec, now)
      BY <2>2, ChangeEffect
    <3>2. used # {} => rec \in Records
      BY <2>2 DEF Change
    <3>3. ctrl' \in [Tables -> [Rows -> {FREE, COMMIT, TRANS}]]
      BY <3>1 DEF Effect, TypeOK
    <3>4. row' \in [Tables -> [Rows -> Records \union {Junk}]]
      BY <3>1, <3>2 DEF Effect, TypeOK
    <3>5. idx' \in [Tables -> SUBSET Rows] /\ tblRows' \in [Conns -> SUBSET Tables]
      BY <3>1 DEF Effect, TypeOK
    <3>6. /\ newRows' \in [Conns -> [Tables -> SUBSET Rows]]
          /\ delRows' \in [Conns -> [Tables -> SUBSET Rows]]
      BY <3>1 DEF Effect, TypeOK
    <3>7. RowsFilled'
      BY <3>1, <3>2, <3>3, <3>4 DEF Effect, TypeOK, RowsFilled
    <3> QED
      BY <2>1, <3>3, <3>4, <3>5, <3>6, <3>7 DEF TypeOK, States, walkVars, connVars, lockVars
  <2>3. ASSUME InPlace(c, t) PROVE TInv'
    <3>1. PICK r \in ValidRows(c, t), v \in Vals :
             /\ row' = [row EXCEPT ![t][r].val = v]
             /\ UNCHANGED <<ctrl, idx, setVars>>
      BY <2>3 DEF InPlace
    <3>2. r \in Rows /\ row[t][r] \in Records
      BY DEF ValidRows, Valid, RowsFilled, FREE, COMMIT, TRANS
    <3>3. [row[t][r] EXCEPT !.val = v] \in Records
      BY <3>2 DEF Records
    <3>4. row' = [row EXCEPT ![t] = [row[t] EXCEPT ![r] = [row[t][r] EXCEPT !.val = v]]]
      BY <3>1
    <3>5. [row[t] EXCEPT ![r] = [row[t][r] EXCEPT !.val = v]]
             \in [Rows -> Records \union {Junk}]
      BY <3>2, <3>3 DEF TypeOK
    <3>6. row' \in [Tables -> [Rows -> Records \union {Junk}]]
      BY <3>4, <3>5 DEF TypeOK
    <3>7. ASSUME NEW u \in Tables, NEW q \in Rows, row[u][q] \in Records
          PROVE  row'[u][q] \in Records
      BY <3>2, <3>3, <3>4, <3>7 DEF TypeOK
    <3>8. RowsFilled'
      BY <3>1, <3>7 DEF RowsFilled
    <3> QED
      BY <2>1, <3>1, <3>6, <3>8 DEF TypeOK, States, walkVars, connVars, lockVars, setVars
  <2>4. CASE NoChange(c, t)
    BY <2>1, <2>4 DEF NoChange, TypeOK, RowsFilled, States, walkVars, connVars, lockVars, setVars, rowVars
  <2> QED
    BY <1>4, <2>2, <2>3, <2>4, ExecCases
<1>5. ASSUME NEW c \in Conns, EndStatement(c) PROVE TInv'
  <2>1. /\ stmt' = [stmt EXCEPT ![c] = NoTable]
        /\ \E l \in {"idle", "commit"} : pc' = [pc EXCEPT ![c] = l]
        /\ inTrans' = inTrans \/ inTrans' = [inTrans EXCEPT ![c] = FALSE]
        /\ autoTrans' = autoTrans \/ autoTrans' = [autoTrans EXCEPT ![c] = FALSE]
        /\ again' = again
        /\ todo' = todo \/ todo' = [todo EXCEPT ![c] = tblRows[c]]
        /\ toNew' = toNew \/ toNew' = [toNew EXCEPT ![c] = newRows[c]]
        /\ toDel' = toDel \/ toDel' = [toDel EXCEPT ![c] = delRows[c]]
        /\ UNCHANGED <<rowVars, setVars, lockVars, readers>>
    BY <1>5 DEF EndStatement, StartCommit, walkVars, connVars
  <2>2. UNCHANGED <<ctrl, row, idx, tblRows, newRows, delRows, tblLock, wrLocks>>
    BY <2>1 DEF rowVars, setVars, lockVars
  <2>3. inTrans' \in [Conns -> BOOLEAN] /\ autoTrans' \in [Conns -> BOOLEAN]
    BY <2>1 DEF TypeOK
  <2>4. pc' \in [Conns -> States] /\ stmt' \in [Conns -> Tables \union {NoTable}]
    BY <2>1 DEF TypeOK, States
  <2>5. /\ todo' \in [Conns -> SUBSET Tables]
        /\ toNew' \in [Conns -> [Tables -> SUBSET Rows]]
        /\ toDel' \in [Conns -> [Tables -> SUBSET Rows]]
    <3>1. /\ todo \in [Conns -> SUBSET Tables] /\ tblRows[c] \in SUBSET Tables
          /\ toNew \in [Conns -> [Tables -> SUBSET Rows]]
          /\ toDel \in [Conns -> [Tables -> SUBSET Rows]]
          /\ newRows[c] \in [Tables -> SUBSET Rows]
          /\ delRows[c] \in [Tables -> SUBSET Rows]
      BY DEF TypeOK
    <3>2. todo' \in [Conns -> SUBSET Tables]
      <4>1. todo' = todo \/ todo' = [todo EXCEPT ![c] = tblRows[c]]
        BY <2>1
      <4> QED
        BY ONLY <3>1, <4>1, UpdateType
    <3>3. toNew' \in [Conns -> [Tables -> SUBSET Rows]]
      <4>1. toNew' = toNew \/ toNew' = [toNew EXCEPT ![c] = newRows[c]]
        BY <2>1
      <4> QED
        BY ONLY <3>1, <4>1, UpdateType
    <3>4. toDel' \in [Conns -> [Tables -> SUBSET Rows]]
      <4>1. toDel' = toDel \/ toDel' = [toDel EXCEPT ![c] = delRows[c]]
        BY <2>1
      <4> QED
        BY ONLY <3>1, <4>1, UpdateType
    <3> QED
      BY <3>2, <3>3, <3>4
  <2> QED
    BY <2>1, <2>2, <2>3, <2>4, <2>5 DEF TypeOK, RowsFilled
<1>6. ASSUME NEW c \in Conns, Commit(c) PROVE TInv'
  BY <1>6 DEF Commit, StartCommit, TypeOK, RowsFilled, States, rowVars, setVars, lockVars, connVars
<1>7. ASSUME NEW c \in Conns, Rollback(c) PROVE TInv'
  BY <1>7 DEF Rollback, TypeOK, RowsFilled, States, rowVars, setVars, lockVars, connVars
<1>8. ASSUME NEW c \in Conns, NEW t \in Tables, NEW r \in Rows, CommitNew(c, t, r) PROVE TInv'
  <2>1. r \in OpenNew(c, t)
    BY <1>8 DEF CommitNew, OpenNew, Least
  <2>2. row[t][r] \in Records
    BY <2>1 DEF VersionOwned, RowsFilled, FREE, TRANS
  <2>3. ctrl' \in [Tables -> [Rows -> {FREE, COMMIT, TRANS}]] /\ RowsFilled'
    BY <1>8, <2>2 DEF CommitNew, TypeOK, RowsFilled
  <2> QED
    BY <1>8, <2>3 DEF CommitNew, TypeOK, setVars, lockVars, connVars
<1>9. ASSUME NEW t \in Tables, NEW r \in Rows, FreeRow(t, r)
      PROVE  /\ ctrl' \in [Tables -> [Rows -> {FREE, COMMIT, TRANS}]]
             /\ row' \in [Tables -> [Rows -> Records \union {Junk}]]
             /\ idx' \in [Tables -> SUBSET Rows]
             /\ RowsFilled'
  BY <1>9 DEF FreeRow, TypeOK, RowsFilled
<1>10. ASSUME NEW c \in Conns, NEW t \in Tables, NEW r \in Rows, CommitDel(c, t, r) PROVE TInv'
  BY <1>9, <1>10 DEF CommitDel, TypeOK, States, setVars, lockVars, connVars
<1>11. ASSUME NEW c \in Conns, NEW t \in Tables, NEW r \in Rows, RollbackNew(c, t, r) PROVE TInv'
  BY <1>9, <1>11 DEF RollbackNew, TypeOK, States, setVars, lockVars, connVars
<1>12. ASSUME NEW c \in Conns, NEW t \in Tables, TableDone(c, t) PROVE TInv'
  BY <1>12 DEF TableDone, TypeOK, RowsFilled, States, rowVars, lockVars, connVars
<1>13. ASSUME NEW c \in Conns, Unlock(c) PROVE TInv'
  BY <1>13 DEF Unlock, TypeOK, RowsFilled, States, rowVars
<1>14. ASSUME UNCHANGED vars PROVE TInv'
  BY <1>14 DEF vars, TypeOK, RowsFilled, rowVars, setVars, lockVars, connVars, walkVars
<1> QED
  BY <1>1, <1>2, <1>3, <1>4, <1>5, <1>6, <1>7, <1>8, <1>10, <1>11, <1>12, <1>13, <1>14
  DEF Next, Walk

-------------------------------------------------------------------------------
(* Locks, row sets and the walk.                                            *)

\* A statement runs under the lock of its table.
ExecLocked == \A c \in Conns : pc[c] = "exec" => stmt[c] \in wrLocks[c]

\* While a commit or rollback walks, what it has to do is part of its sets, and
\* the sets of tables it does not have on its list are empty.
WalkOK ==
    \A c \in Conns, t \in Tables : pc[c] \in {"commit", "rollback"} =>
        /\ toNew[c][t] \subseteq newRows[c][t]
        /\ pc[c] = "commit" => toDel[c][t] \subseteq delRows[c][t]
        /\ t \notin todo[c] => newRows[c][t] = {} /\ delRows[c][t] = {}

WInv == LockCoversRows /\ ExecLocked /\ WalkOK

\* A walk that takes one row leaves a subset everywhere.
LEMMA VisitRow ==
    ASSUME NEW f \in [Conns -> [Tables -> SUBSET Rows]], NEW g,
           NEW c \in Conns, NEW t \in Tables, NEW r,
           g = f \/ g = [f EXCEPT ![c][t] = f[c][t] \ {r}],
           NEW d \in Conns, NEW u \in Tables
    PROVE  g[d][u] \subseteq f[d][u]
<1>1. CASE g = f
  BY <1>1
<1>2. CASE g = [f EXCEPT ![c][t] = f[c][t] \ {r}]
  <2>1. g[d][u] = IF d = c /\ u = t THEN f[d][u] \ {r} ELSE f[d][u]
    BY <1>2
  <2> QED
    BY <2>1
<1> QED
  BY <1>1, <1>2

LEMMA InitWalk == Init => WInv
BY TransAssumption
DEF Init, WInv, LockCoversRows, ExecLocked, WalkOK, Empty

\* No step lets go of a lock that covers rows, nor of rows it has to do.
LEMMA StepWalk ==
    ASSUME MemTables = {}, TInv, WInv, [Next]_vars
    PROVE  WInv'
<1> USE DEF WInv
<1>0. TypeOK
  BY DEF TInv
\* A connection that starts to commit has all its sets before it.
<1>s. ASSUME NEW c \in Conns, StartCommit(c), UNCHANGED <<setVars, lockVars>>,
             stmt' = stmt \/ stmt' = [stmt EXCEPT ![c] = NoTable]
      PROVE  WInv'
  <2>1. LockCoversRows'
    BY <1>s DEF LockCoversRows, setVars, lockVars
  <2>2. ExecLocked'
    BY <1>0, <1>s DEF ExecLocked, StartCommit, TypeOK, lockVars
  <2>3. WalkOK'
    BY <1>0, <1>s DEF WalkOK, LockCoversRows, StartCommit, TypeOK, setVars
  <2> QED
    BY <2>1, <2>2, <2>3
\* A connection that goes elsewhere without touching locks or sets.
<1>q. ASSUME NEW c \in Conns, NEW l, l \notin {"exec", "commit", "rollback"},
             pc' = [pc EXCEPT ![c] = l], UNCHANGED <<setVars, lockVars, toNew, toDel, todo>>,
             NEW s, stmt' = stmt \/ stmt' = [stmt EXCEPT ![c] = s]
      PROVE  WInv'
  BY <1>0, <1>q DEF LockCoversRows, ExecLocked, WalkOK, TypeOK, setVars, lockVars
<1>1. ASSUME NEW c \in Conns, Begin(c) PROVE WInv'
  <2>1. CASE pc' = pc /\ UNCHANGED walkVars
    BY <1>1, <2>1 DEF Begin, LockCoversRows, ExecLocked, WalkOK, setVars, lockVars, walkVars
  <2>2. CASE /\ pc' = [pc EXCEPT ![c] = "commit"]
             /\ todo' = [todo EXCEPT ![c] = tblRows[c]]
             /\ toNew' = [toNew EXCEPT ![c] = newRows[c]]
             /\ toDel' = [toDel EXCEPT ![c] = delRows[c]]
    <3>1. LockCoversRows'
      BY <1>1 DEF Begin, LockCoversRows, setVars, lockVars
    <3>2. ExecLocked'
      BY <1>0, <1>1, <2>2 DEF Begin, ExecLocked, TypeOK, lockVars
    <3>3. WalkOK'
      BY <1>0, <1>1, <2>2 DEF Begin, WalkOK, LockCoversRows, TypeOK, setVars
    <3> QED
      BY <3>1, <3>2, <3>3
  <2> QED
    BY <1>1, <2>1, <2>2 DEF Begin
<1>2. ASSUME NEW c \in Conns, NEW t \in Tables, Statement(c, t) PROVE WInv'
  <2>1. pc' = [pc EXCEPT ![c] = "lock"]
    BY <1>2 DEF Statement
  <2> QED
    BY <1>2, <1>q, <2>1 DEF Statement, walkVars
<1>3. ASSUME NEW c \in Conns, NEW t \in Tables, LockTable(c, t) PROVE WInv'
  <2>1. LockCoversRows'
    <3>1. CASE UNCHANGED lockVars
      BY <1>3, <3>1 DEF LockTable, LockCoversRows, setVars, lockVars
    <3>2. CASE /\ tblLock[t] = NoConn
               /\ tblLock' = [tblLock EXCEPT ![t] = c]
               /\ wrLocks' = [wrLocks EXCEPT ![c] = wrLocks[c] \union {t}]
      <4>1. UNCHANGED <<tblRows, newRows, delRows>>
        BY <1>3 DEF LockTable, setVars
      <4>2. ASSUME NEW d \in Conns, NEW u \in Tables
            PROVE  /\ u \in wrLocks'[d] <=> u \in wrLocks[d] \/ (d = c /\ u = t)
                   /\ tblLock'[u] = IF u = t THEN c ELSE tblLock[u]
        BY <1>0, <3>2 DEF TypeOK
      <4> QED
        BY <3>2, <4>1, <4>2, TransAssumption DEF LockCoversRows
    <3> QED
      BY <1>3, <3>1, <3>2 DEF LockTable, MayLock
  <2>2. ExecLocked'
    BY <1>0, <1>3 DEF LockTable, ExecLocked, TypeOK, lockVars
  <2>3. WalkOK'
    BY <1>0, <1>3 DEF LockTable, WalkOK, TypeOK, setVars, walkVars
  <2> QED
    BY <2>1, <2>2, <2>3
<1>4. ASSUME NEW c \in Conns, NEW t \in Tables, Exec(c, t) PROVE WInv'
  <2>0. /\ pc' = [pc EXCEPT ![c] = "done"] /\ pc[c] = "exec"
        /\ UNCHANGED <<tblLock, wrLocks, stmt, toNew, toDel, todo>>
    BY <1>4 DEF Exec, lockVars, walkVars
  <2>1. ExecLocked' /\ tblLock[t] = c
    BY <1>0, <1>4, <2>0 DEF Exec, ExecLocked, LockCoversRows, TypeOK
  <2>2. CASE UNCHANGED setVars
    BY <1>0, <1>q, <2>0, <2>2 DEF lockVars
  <2>3. ASSUME NEW gone, NEW used, NEW rec, Change(c, t, gone, used, rec)
        PROVE  WInv'
    <3>1. PICK now : Effect(c, t, gone, used, rec, now)
      BY <2>3, ChangeEffect
    <3>2. LockCoversRows'
      BY <1>0, <2>0, <2>1, <3>1 DEF Effect, LockCoversRows, TypeOK
    <3>3. WalkOK'
      BY <1>0, <2>0, <3>1 DEF Effect, WalkOK, TypeOK
    <3> QED
      BY <2>1, <3>2, <3>3
  <2> QED
    BY <1>4, <2>2, <2>3, ExecCases DEF InPlace, NoChange
<1>5. ASSUME NEW c \in Conns, EndStatement(c) PROVE WInv'
  <2>1. CASE StartCommit(c)
    BY <1>5, <1>s, <2>1 DEF EndStatement
  <2>2. CASE pc' = [pc EXCEPT ![c] = "idle"] /\ UNCHANGED walkVars
    BY <1>5, <1>q, <2>2 DEF EndStatement, walkVars
  <2> QED
    BY <1>5, <2>1, <2>2 DEF EndStatement
<1>6. ASSUME NEW c \in Conns, Commit(c) PROVE WInv'
  BY <1>6, <1>s DEF Commit
<1>7. ASSUME NEW c \in Conns, Rollback(c) PROVE WInv'
  <2>1. LockCoversRows'
    BY <1>7 DEF Rollback, LockCoversRows, setVars, lockVars
  <2>2. ExecLocked'
    BY <1>0, <1>7 DEF Rollback, ExecLocked, TypeOK, lockVars
  <2>3. WalkOK'
    BY <1>0, <1>7 DEF Rollback, WalkOK, LockCoversRows, TypeOK, setVars
  <2> QED
    BY <2>1, <2>2, <2>3
\* A visit of a row takes it from toNew or toDel and touches no set.
<1>8. ASSUME NEW c \in Conns, NEW t \in Tables, NEW r \in Rows,
             \/ CommitNew(c, t, r) \/ CommitDel(c, t, r) \/ RollbackNew(c, t, r)
      PROVE  WInv'
  <2>1. /\ UNCHANGED <<tblLock, wrLocks, tblRows, newRows, delRows, todo, pc, stmt>>
        /\ toNew' = toNew \/ toNew' = [toNew EXCEPT ![c][t] = toNew[c][t] \ {r}]
        /\ toDel' = toDel \/ toDel' = [toDel EXCEPT ![c][t] = toDel[c][t] \ {r}]
    BY <1>8 DEF CommitNew, CommitDel, RollbackNew, setVars, lockVars
  <2>2. LockCoversRows' /\ ExecLocked'
    BY <2>1 DEF LockCoversRows, ExecLocked
  <2>3. ASSUME NEW d \in Conns, NEW u \in Tables PROVE toNew'[d][u] \subseteq toNew[d][u]
    BY <1>0, <2>1, VisitRow DEF TypeOK
  <2>4. ASSUME NEW d \in Conns, NEW u \in Tables PROVE toDel'[d][u] \subseteq toDel[d][u]
    BY <1>0, <2>1, VisitRow DEF TypeOK
  <2>5. WalkOK'
    BY <2>1, <2>3, <2>4 DEF WalkOK
  <2> QED
    BY <2>2, <2>5
<1>12. ASSUME NEW c \in Conns, NEW t \in Tables, TableDone(c, t) PROVE WInv'
  <2>1. LockCoversRows'
    BY <1>0, <1>12 DEF TableDone, LockCoversRows, TypeOK, lockVars
  <2>2. ExecLocked'
    BY <1>12 DEF TableDone, ExecLocked, lockVars
  <2>3. WalkOK'
    BY <1>0, <1>12 DEF TableDone, WalkOK, TypeOK
  <2> QED
    BY <2>1, <2>2, <2>3
<1>13. ASSUME NEW c \in Conns, Unlock(c) PROVE WInv'
  <2>1. \A t \in Tables : newRows[c][t] = {} /\ delRows[c][t] = {}
    BY <1>13 DEF Unlock, MayUnlock, WalkOK
  <2>2. LockCoversRows'
    BY <1>0, <1>13, <2>1, TransAssumption DEF Unlock, LockCoversRows, TypeOK
  <2>3. ExecLocked'
    BY <1>0, <1>13 DEF Unlock, ExecLocked, TypeOK
  <2>4. WalkOK'
    BY <1>0, <1>13 DEF Unlock, WalkOK, TypeOK
  <2> QED
    BY <2>2, <2>3, <2>4
<1>14. ASSUME UNCHANGED vars PROVE WInv'
  BY <1>14 DEF vars, LockCoversRows, ExecLocked, WalkOK, setVars, lockVars, walkVars
<1> QED
  BY <1>1, <1>2, <1>3, <1>4, <1>5, <1>6, <1>7, <1>8, <1>12, <1>13, <1>14
  DEF Next, Walk

-------------------------------------------------------------------------------
(* Who owns an uncommitted version, and a committed row that will go.       *)

OInv == VersionOwned /\ DeletePending

LEMMA InitOwner == Init => OInv /\ IndexExact
BY DEF Init, OInv, VersionOwned, DeletePending, IndexExact, OpenNew, OpenDel, Empty,
       FREE, COMMIT, TRANS

\* Ownership only changes with control bytes or with what a walk has to do.
LEMMA SameOpen ==
    ASSUME OInv, ctrl' = ctrl,
           \A d \in Conns, u \in Tables : /\ OpenNew(d, u)' = OpenNew(d, u)
                                          /\ OpenDel(d, u)' \subseteq OpenDel(d, u)
    PROVE  OInv'
<1>1. VersionOwned'
  BY DEF OInv, VersionOwned
<1>2. DeletePending'
  BY DEF OInv, DeletePending
<1> QED
  BY <1>1, <1>2 DEF OInv

\* A step of c that starts a walk has to do what its sets say.
LEMMA StartOpen ==
    ASSUME TypeOK, NEW c \in Conns, UNCHANGED setVars,
           pc[c] \notin {"commit", "rollback"},
           NEW l, pc' = [pc EXCEPT ![c] = l],
           l \in {"commit", "rollback"} => toNew' = [toNew EXCEPT ![c] = newRows[c]],
           l = "commit" => toDel' = [toDel EXCEPT ![c] = delRows[c]],
           toNew' = toNew \/ toNew' = [toNew EXCEPT ![c] = newRows[c]],
           toDel' = toDel \/ toDel' = [toDel EXCEPT ![c] = delRows[c]]
    PROVE  \A d \in Conns, u \in Tables : /\ OpenNew(d, u)' = OpenNew(d, u)
                                          /\ OpenDel(d, u)' \subseteq OpenDel(d, u)
<1>1. ASSUME NEW d \in Conns \ {c}, NEW u \in Tables
      PROVE  OpenNew(d, u)' = OpenNew(d, u) /\ OpenDel(d, u)' = OpenDel(d, u)
  <2>1. toNew'[d] = toNew[d] /\ toDel'[d] = toDel[d] /\ pc'[d] = pc[d]
    BY DEF TypeOK
  <2> QED
    BY <2>1 DEF OpenNew, OpenDel, setVars
<1>2. ASSUME NEW u \in Tables
      PROVE  OpenNew(c, u)' = OpenNew(c, u) /\ OpenDel(c, u)' = OpenDel(c, u)
  <2>1. pc'[c] = l
    BY DEF TypeOK
  <2>2. /\ l \in {"commit", "rollback"} => toNew'[c] = newRows[c]
        /\ l = "commit" => toDel'[c] = delRows[c]
    BY DEF TypeOK
  <2> QED
    BY <2>1, <2>2 DEF OpenNew, OpenDel, setVars
<1> QED
  BY <1>1, <1>2

\* Every step keeps ownership exact.
LEMMA StepOwner ==
    ASSUME MemTables = {}, TInv, WInv, OInv, [Next]_vars
    PROVE  OInv'
<1>0. TypeOK
  BY DEF TInv
<1>1. ASSUME NEW c \in Conns, Begin(c) PROVE OInv'
  <2>1. CASE pc' = pc /\ UNCHANGED walkVars
    BY <1>1, <2>1, SameOpen DEF Begin, OpenNew, OpenDel, rowVars, setVars, walkVars
  <2>2. CASE /\ pc' = [pc EXCEPT ![c] = "commit"]
             /\ toNew' = [toNew EXCEPT ![c] = newRows[c]]
             /\ toDel' = [toDel EXCEPT ![c] = delRows[c]]
    <3>1. UNCHANGED setVars /\ ctrl' = ctrl /\ pc[c] = "idle"
      BY <1>1 DEF Begin, rowVars
    <3> QED
      BY <1>0, <2>2, <3>1, StartOpen, SameOpen
  <2> QED
    BY <1>1, <2>1, <2>2 DEF Begin
<1>2. ASSUME NEW c \in Conns, NEW t \in Tables, Statement(c, t) PROVE OInv'
  <2>1. /\ UNCHANGED setVars /\ ctrl' = ctrl /\ pc[c] = "idle"
        /\ pc' = [pc EXCEPT ![c] = "lock"] /\ toNew' = toNew /\ toDel' = toDel
    BY <1>2 DEF Statement, rowVars, walkVars
  <2> QED
    BY <1>0, <2>1, StartOpen, SameOpen
<1>3. ASSUME NEW c \in Conns, NEW t \in Tables, LockTable(c, t) PROVE OInv'
  <2>1. /\ UNCHANGED setVars /\ ctrl' = ctrl /\ pc[c] = "lock"
        /\ pc' = [pc EXCEPT ![c] = "exec"] /\ toNew' = toNew /\ toDel' = toDel
    BY <1>3 DEF LockTable, rowVars, walkVars
  <2> QED
    BY <1>0, <2>1, StartOpen, SameOpen
<1>4. ASSUME NEW c \in Conns, NEW t \in Tables, Exec(c, t) PROVE OInv'
  <2>0. /\ pc' = [pc EXCEPT ![c] = "done"] /\ pc[c] = "exec"
        /\ UNCHANGED <<toNew, toDel>>
    BY <1>4 DEF Exec, walkVars
  <2>1. tblLock[t] = c
    BY <1>4 DEF Exec, WInv, ExecLocked, LockCoversRows
  <2>2. CASE UNCHANGED setVars /\ ctrl' = ctrl
    BY <1>0, <2>0, <2>2, StartOpen, SameOpen
  <2>3. ASSUME NEW gone, NEW used, NEW rec, Change(c, t, gone, used, rec)
        PROVE  OInv'
    <3>1. PICK now : Effect(c, t, gone, used, rec, now)
      BY <2>3, ChangeEffect
    <3>2. ASSUME NEW d \in Conns, NEW u \in Tables, <<d, u>> # <<c, t>>
          PROVE  OpenNew(d, u)' = OpenNew(d, u) /\ OpenDel(d, u)' = OpenDel(d, u)
      <4>1. newRows'[d][u] = newRows[d][u] /\ delRows'[d][u] = delRows[d][u]
        BY <1>0, <3>1, <3>2 DEF Effect, TypeOK
      <4>2. pc'[d] = pc[d] \/ (pc[d] = "exec" /\ pc'[d] = "done")
        BY <1>0, <2>0 DEF TypeOK
      <4> QED
        BY <2>0, <4>1, <4>2 DEF OpenNew, OpenDel
    <3>3. /\ OpenNew(c, t) = newRows[c][t] /\ OpenDel(c, t) = delRows[c][t]
          /\ OpenNew(c, t)' = (newRows[c][t] \ now) \union used
          /\ OpenDel(c, t)' = delRows[c][t] \union (gone \ now)
      BY <1>0, <2>0, <3>1 DEF Effect, TypeOK, OpenNew, OpenDel
    <3>4. ASSUME NEW u \in Tables, NEW r \in Rows
          PROVE  ctrl'[u][r] = IF u = t /\ r \in used THEN TRANS
                               ELSE IF u = t /\ r \in now THEN FREE ELSE ctrl[u][r]
      BY <1>0, <3>1 DEF Effect, TypeOK
    <3>5. ASSUME NEW d \in Conns \ {c} PROVE OpenNew(d, t) = {} /\ OpenDel(d, t) = {}
      <4>1. newRows[d][t] = {} /\ delRows[d][t] = {}
        BY <2>1 DEF WInv, LockCoversRows
      <4> QED
        BY <4>1 DEF WInv, WalkOK, OpenNew, OpenDel
    <3>6. VersionOwned'
      BY <3>1, <3>2, <3>3, <3>4, <3>5 DEF Effect, OInv, VersionOwned, FREE, TRANS
    <3>7. DeletePending'
      <4>1. ASSUME NEW r \in OpenDel(c, t)' PROVE ctrl'[t][r] = COMMIT
        <5>1. r \in Rows /\ ctrl[t][r] = COMMIT
          BY <1>0, <3>1, <3>3, <4>1 DEF Effect, OInv, DeletePending, TypeOK
        <5>2. r \notin used /\ r \notin now
          BY <3>1, <5>1 DEF Effect, FREE, COMMIT, TRANS
        <5> QED
          BY <3>4, <5>1, <5>2
      <4>2. ASSUME NEW u \in Tables \ {t}, NEW d \in Conns, NEW r \in OpenDel(d, u)'
            PROVE  ctrl'[u][r] = COMMIT
        <5>1. r \in OpenDel(d, u)
          BY <3>2, <4>2
        <5>2. ctrl'[u] = ctrl[u]
          BY <1>0, <3>1 DEF Effect, TypeOK
        <5> QED
          BY <5>1, <5>2 DEF OInv, DeletePending
      <4>3. ASSUME NEW u \in Tables, NEW d \in Conns, NEW e \in Conns \ {d},
                   NEW r \in OpenDel(d, u)'
            PROVE  r \notin OpenDel(e, u)'
        BY <3>2, <3>5, <4>3 DEF OInv, DeletePending
      <4> QED
        BY <3>2, <3>5, <4>1, <4>2, <4>3 DEF DeletePending
    <3> QED
      BY <3>6, <3>7 DEF OInv
  <2> QED
    BY <1>4, <2>2, <2>3, ExecCases DEF InPlace, NoChange, rowVars
<1>5. ASSUME NEW c \in Conns, EndStatement(c) PROVE OInv'
  <2>1. /\ UNCHANGED setVars /\ ctrl' = ctrl /\ pc[c] = "done"
        /\ \/ StartCommit(c)
           \/ pc' = [pc EXCEPT ![c] = "idle"] /\ toNew' = toNew /\ toDel' = toDel
    BY <1>5 DEF EndStatement, rowVars, walkVars
  <2>2. CASE StartCommit(c)
    BY <1>0, <2>1, <2>2, StartOpen, SameOpen DEF StartCommit
  <2>3. CASE pc' = [pc EXCEPT ![c] = "idle"] /\ toNew' = toNew /\ toDel' = toDel
    BY <1>0, <2>1, <2>3, StartOpen, SameOpen
  <2> QED
    BY <2>1, <2>2, <2>3
<1>6. ASSUME NEW c \in Conns, Commit(c) PROVE OInv'
  <2>1. UNCHANGED setVars /\ ctrl' = ctrl /\ pc[c] = "idle" /\ StartCommit(c)
    BY <1>6 DEF Commit, rowVars
  <2> QED
    BY <1>0, <2>1, StartOpen, SameOpen DEF StartCommit
<1>7. ASSUME NEW c \in Conns, Rollback(c) PROVE OInv'
  <2>1. /\ UNCHANGED setVars /\ ctrl' = ctrl /\ pc[c] = "idle" /\ toDel' = toDel
        /\ pc' = [pc EXCEPT ![c] = "rollback"]
        /\ toNew' = [toNew EXCEPT ![c] = newRows[c]]
    BY <1>7 DEF Rollback, rowVars
  <2> QED
    BY <1>0, <2>1, StartOpen, SameOpen
<1>8. ASSUME NEW c \in Conns, NEW t \in Tables, NEW r \in Rows, CommitNew(c, t, r) PROVE OInv'
  <2>1. /\ ctrl' = [ctrl EXCEPT ![t][r] = COMMIT]
        /\ toNew' = [toNew EXCEPT ![c][t] = toNew[c][t] \ {r}]
        /\ UNCHANGED <<newRows, delRows, toDel, pc>>
        /\ pc[c] = "commit" /\ r \in toNew[c][t]
    BY <1>8 DEF CommitNew, Least, setVars
  <2>2. ASSUME NEW d \in Conns, NEW u \in Tables
        PROVE  /\ OpenNew(d, u)' = IF d = c /\ u = t THEN OpenNew(c, t) \ {r} ELSE OpenNew(d, u)
               /\ OpenDel(d, u)' = OpenDel(d, u)
    BY <1>0, <2>1 DEF TypeOK, OpenNew, OpenDel
  <2>3. r \in OpenNew(c, t) /\ ctrl[t][r] = TRANS
    BY <2>1 DEF OpenNew, OInv, VersionOwned
  <2>4. ASSUME NEW u \in Tables, NEW q
        PROVE  q \in Rows => ctrl'[u][q] = IF u = t /\ q = r THEN COMMIT ELSE ctrl[u][q]
    BY <1>0, <2>1 DEF TypeOK
  <2>5. VersionOwned'
    BY <2>2, <2>3, <2>4 DEF OInv, VersionOwned, COMMIT, TRANS
  <2>6. \A d \in Conns, u \in Tables : OpenDel(d, u) \subseteq Rows
    BY <1>0 DEF OpenDel, TypeOK
  <2>7. DeletePending'
    BY <2>2, <2>4, <2>6 DEF OInv, DeletePending
  <2> QED
    BY <2>5, <2>7 DEF OInv
\* A row that is freed is not among what others have to do.
<1>9. ASSUME NEW c \in Conns, NEW t \in Tables, NEW r \in Rows,
             CommitDel(c, t, r) \/ RollbackNew(c, t, r)
      PROVE  OInv'
  <2>1. /\ ctrl' = [ctrl EXCEPT ![t][r] = FREE]
        /\ UNCHANGED <<newRows, delRows, pc>>
        /\ \/ /\ pc[c] = "commit" /\ r \in toDel[c][t]
              /\ toDel' = [toDel EXCEPT ![c][t] = toDel[c][t] \ {r}] /\ toNew' = toNew
           \/ /\ pc[c] = "rollback" /\ r \in toNew[c][t]
              /\ toNew' = [toNew EXCEPT ![c][t] = toNew[c][t] \ {r}] /\ toDel' = toDel
    BY <1>9 DEF CommitDel, RollbackNew, FreeRow, Least, setVars
  <2>2. ASSUME NEW u \in Tables, NEW q
        PROVE  q \in Rows => ctrl'[u][q] = IF u = t /\ q = r THEN FREE ELSE ctrl[u][q]
    BY <1>0, <2>1 DEF TypeOK
  <2>3. \A d \in Conns, u \in Tables : OpenDel(d, u) \subseteq Rows
    BY <1>0 DEF OpenDel, TypeOK
  <2>4. CASE pc[c] = "commit"
    <3>0. /\ toDel' = [toDel EXCEPT ![c][t] = toDel[c][t] \ {r}] /\ toNew' = toNew
          /\ UNCHANGED <<newRows, delRows, pc>>
      BY <2>1, <2>4
    <3>1. ASSUME NEW d \in Conns, NEW u \in Tables
          PROVE  /\ OpenDel(d, u)' = IF d = c /\ u = t THEN OpenDel(c, t) \ {r} ELSE OpenDel(d, u)
                 /\ OpenNew(d, u)' = OpenNew(d, u)
      BY <1>0, <2>4, <3>0 DEF TypeOK, OpenNew, OpenDel
    <3>2. r \in OpenDel(c, t) /\ ctrl[t][r] = COMMIT
      BY <2>1, <2>4 DEF OpenDel, OInv, DeletePending
    <3>3. VersionOwned'
      BY <2>2, <3>1, <3>2 DEF OInv, VersionOwned, FREE, COMMIT, TRANS
    <3>4. DeletePending'
      BY <2>2, <2>3, <3>1, <3>2 DEF OInv, DeletePending
    <3> QED
      BY <3>3, <3>4 DEF OInv
  <2>5. CASE pc[c] = "rollback"
    <3>0. /\ toNew' = [toNew EXCEPT ![c][t] = toNew[c][t] \ {r}] /\ toDel' = toDel
          /\ UNCHANGED <<newRows, delRows, pc>>
      BY <2>1, <2>5
    <3>1. ASSUME NEW d \in Conns, NEW u \in Tables
          PROVE  /\ OpenNew(d, u)' = IF d = c /\ u = t THEN OpenNew(c, t) \ {r} ELSE OpenNew(d, u)
                 /\ OpenDel(d, u)' = OpenDel(d, u)
      BY <1>0, <2>5, <3>0 DEF TypeOK, OpenNew, OpenDel
    <3>2. r \in OpenNew(c, t) /\ ctrl[t][r] = TRANS
      BY <2>1, <2>5 DEF OpenNew, OInv, VersionOwned
    <3>3. VersionOwned'
      BY <2>2, <3>1, <3>2 DEF OInv, VersionOwned, FREE, TRANS
    <3>4. DeletePending'
      BY <2>2, <2>3, <3>1, <3>2 DEF OInv, DeletePending, COMMIT, TRANS
    <3> QED
      BY <3>3, <3>4 DEF OInv
  <2> QED
    BY <2>1, <2>4, <2>5
<1>12. ASSUME NEW c \in Conns, NEW t \in Tables, TableDone(c, t) PROVE OInv'
  <2>1. /\ UNCHANGED <<ctrl, toNew, toDel, pc>> /\ pc[c] \in {"commit", "rollback"}
        /\ newRows' = [newRows EXCEPT ![c][t] = {}]
        /\ delRows' = [delRows EXCEPT ![c][t] = {}]
    BY <1>12 DEF TableDone, rowVars
  <2>2. ASSUME NEW d \in Conns, NEW u \in Tables
        PROVE  OpenNew(d, u)' = OpenNew(d, u) /\ OpenDel(d, u)' \subseteq OpenDel(d, u)
    BY <1>0, <2>1 DEF TypeOK, OpenNew, OpenDel
  <2> QED
    BY <2>1, <2>2, SameOpen
<1>13. ASSUME NEW c \in Conns, Unlock(c) PROVE OInv'
  <2>1. /\ UNCHANGED <<ctrl, toNew, toDel, newRows, delRows>>
        /\ pc' = [pc EXCEPT ![c] = "idle"]
        /\ \A t \in Tables : newRows[c][t] = {} /\ delRows[c][t] = {}
        /\ \A t \in Tables : toNew[c][t] = {}
    BY <1>13 DEF Unlock, MayUnlock, WInv, WalkOK, rowVars
  <2>2. ASSUME NEW d \in Conns, NEW u \in Tables
        PROVE  OpenNew(d, u)' = OpenNew(d, u) /\ OpenDel(d, u)' \subseteq OpenDel(d, u)
    BY <1>0, <2>1 DEF TypeOK, OpenNew, OpenDel
  <2> QED
    BY <2>1, <2>2, SameOpen
<1>14. ASSUME UNCHANGED vars PROVE OInv'
  BY <1>14, SameOpen DEF vars, rowVars, setVars, walkVars, OpenNew, OpenDel
<1> QED
  BY <1>1, <1>2, <1>3, <1>4, <1>5, <1>6, <1>7, <1>8, <1>9, <1>12, <1>13, <1>14
  DEF Next, Walk

-------------------------------------------------------------------------------
(* The primary index.                                                       *)

\* Rows enter and leave the index with the control byte, in every step.
LEMMA StepIndex ==
    ASSUME MemTables = {}, TInv, OInv, IndexExact, [Next]_vars
    PROVE  IndexExact'
<1>0. TypeOK
  BY DEF TInv
<1>u. ASSUME UNCHANGED <<ctrl, idx>> PROVE IndexExact'
  BY <1>u DEF IndexExact
<1>1. ASSUME NEW c \in Conns, NEW t \in Tables, Exec(c, t) PROVE IndexExact'
  <2>1. ASSUME NEW gone, NEW used, NEW rec, Change(c, t, gone, used, rec)
        PROVE  IndexExact'
    <3>1. PICK now : Effect(c, t, gone, used, rec, now)
      BY <2>1, ChangeEffect
    <3>2. ASSUME NEW u \in Tables, NEW r \in Rows
          PROVE  ctrl'[u][r] = IF u = t /\ r \in used THEN TRANS
                               ELSE IF u = t /\ r \in now THEN FREE ELSE ctrl[u][r]
      BY <1>0, <3>1 DEF Effect, TypeOK
    <3>3. ASSUME NEW u \in Tables
          PROVE  idx'[u] = IF u = t THEN (idx[t] \ now) \union used ELSE idx[u]
      BY <1>0, <3>1 DEF Effect, TypeOK
    <3>4. used \subseteq Rows /\ used \intersect now = {}
      BY <3>1 DEF Effect
    <3> QED
      BY <3>2, <3>3, <3>4 DEF IndexExact, FREE, TRANS
  <2> QED
    BY <1>1, <1>u, <2>1, ExecCases DEF InPlace, NoChange, rowVars
<1>2. ASSUME NEW c \in Conns, NEW t \in Tables, NEW r \in Rows, CommitNew(c, t, r)
      PROVE  IndexExact'
  <2>1. ctrl' = [ctrl EXCEPT ![t][r] = COMMIT] /\ idx' = idx /\ r \in OpenNew(c, t)
    BY <1>2 DEF CommitNew, Least, OpenNew
  <2>2. ctrl[t][r] # FREE
    BY <2>1 DEF OInv, VersionOwned, FREE, TRANS
  <2>3. ASSUME NEW u \in Tables, NEW q \in Rows
        PROVE  ctrl'[u][q] = IF u = t /\ q = r THEN COMMIT ELSE ctrl[u][q]
    BY <1>0, <2>1 DEF TypeOK
  <2> QED
    BY <2>1, <2>2, <2>3 DEF IndexExact, FREE, COMMIT
<1>3. ASSUME NEW c \in Conns, NEW t \in Tables, NEW r \in Rows,
             CommitDel(c, t, r) \/ RollbackNew(c, t, r)
      PROVE  IndexExact'
  <2>1. FreeRow(t, r)
    BY <1>3 DEF CommitDel, RollbackNew
  <2>2. ASSUME NEW u \in Tables, NEW q \in Rows
        PROVE  ctrl'[u][q] = IF u = t /\ q = r THEN FREE ELSE ctrl[u][q]
    BY <1>0, <2>1 DEF FreeRow, TypeOK
  <2>3. ASSUME NEW u \in Tables PROVE idx'[u] = IF u = t THEN idx[t] \ {r} ELSE idx[u]
    BY <1>0, <2>1 DEF FreeRow, TypeOK
  <2> QED
    BY <2>2, <2>3 DEF IndexExact
<1>4. ASSUME NEW c \in Conns,
             \/ Begin(c) \/ Commit(c) \/ Rollback(c) \/ EndStatement(c) \/ Unlock(c)
             \/ \E t \in Tables : Statement(c, t) \/ LockTable(c, t) \/ TableDone(c, t)
      PROVE  UNCHANGED <<ctrl, idx>>
  BY <1>4 DEF Begin, Commit, Rollback, EndStatement, Unlock, Statement, LockTable,
              TableDone, rowVars
<1>5. ASSUME UNCHANGED vars PROVE UNCHANGED <<ctrl, idx>>
  BY <1>5 DEF vars, rowVars
<1> QED
  BY <1>1, <1>2, <1>3, <1>4, <1>5, <1>u DEF Next, Walk

-------------------------------------------------------------------------------
(* The theorems.                                                            *)

\* The inductive invariant.  None of its parts is inductive alone: ownership
\* needs the table locks (two writers would own one row), the locks need the
\* walk (an unlock must come after the last row), the types need ownership (a
\* row made visible must hold a record).
IInv == TInv /\ WInv /\ OInv /\ IndexExact

\* Every step keeps it.
LEMMA StepIInv ==
    ASSUME MemTables = {}, IInv, [Next]_vars
    PROVE  IInv'
<1>1. TInv'
  BY StepTypes DEF IInv, OInv
<1>2. WInv' /\ OInv' /\ IndexExact'
  BY StepWalk, StepOwner, StepIndex DEF IInv
<1> QED
  BY <1>1, <1>2 DEF IInv

\* Every reachable state of a database of disk tables satisfies the invariant.
THEOREM TransInvariant ==
    ASSUME MemTables = {}
    PROVE  Spec => []IInv
<1>1. Init => IInv
  BY InitTypes, InitWalk, InitOwner DEF IInv
<1>2. IInv /\ [Next]_vars => IInv'
  BY StepIInv
<1> QED
  BY <1>1, <1>2, PTL DEF Spec

\* Types: of all variables of the transaction machinery.
THEOREM TransTypes ==
    ASSUME MemTables = {}
    PROVE  Spec => []TypeOK
<1>1. IInv => TypeOK
  BY DEF IInv, TInv
<1> QED
  BY TransInvariant, <1>1, PTL

\* The table lock covers the row sets: xdb_trans_unlock never drops rows that
\* are not committed or rolled back.
THEOREM TransLockCoversRows ==
    ASSUME MemTables = {}
    PROVE  Spec => []LockCoversRows
<1>1. IInv => LockCoversRows
  BY DEF IInv, WInv
<1> QED
  BY TransInvariant, <1>1, PTL

\* Every uncommitted version has one owner, which still has to decide about it.
THEOREM TransVersionOwned ==
    ASSUME MemTables = {}
    PROVE  Spec => []VersionOwned
<1>1. IInv => VersionOwned
  BY DEF IInv, OInv
<1> QED
  BY TransInvariant, <1>1, PTL

\* No block is freed twice: what a commit is going to delete is a committed
\* row that no other transaction deletes.
THEOREM TransDeletePending ==
    ASSUME MemTables = {}
    PROVE  Spec => []DeletePending
<1>1. IInv => DeletePending
  BY DEF IInv, OInv
<1> QED
  BY TransInvariant, <1>1, PTL

\* The primary index holds exactly the rows in use.
THEOREM TransIndexExact ==
    ASSUME MemTables = {}
    PROVE  Spec => []IndexExact
<1>1. IInv => IndexExact
  BY DEF IInv
<1> QED
  BY TransInvariant, <1>1, PTL

-------------------------------------------------------------------------------
(* Waiting for locks.                                                       *)

\* Clients that write tables in one order wait for a table that comes after all
\* the tables they have locked.
WaitInOrder ==
    OrderedAccess =>
        \A c \in Conns : pc[c] = "lock" =>
            stmt[c] \in Tables /\ \A u \in wrLocks[c] : u <= stmt[c]

LEMMA StepOrder ==
    ASSUME TypeOK, WaitInOrder, [Next]_vars
    PROVE  WaitInOrder'
<1> SUFFICES ASSUME OrderedAccess, NEW c \in Conns, pc'[c] = "lock"
             PROVE  stmt'[c] \in Tables /\ \A u \in wrLocks'[c] : u <= stmt'[c]
  BY DEF WaitInOrder
<1>1. CASE \E t \in Tables : Statement(c, t)
  BY <1>1 DEF Statement, lockVars, TypeOK
<1>2. ASSUME pc[c] = "lock", stmt'[c] = stmt[c], wrLocks'[c] = wrLocks[c]
      PROVE  stmt'[c] \in Tables /\ \A u \in wrLocks'[c] : u <= stmt'[c]
  BY <1>2 DEF WaitInOrder
\* No other step takes a connection there, or gives one that waits a lock.
<1> DEFINE Stays == pc[c] = "lock" /\ stmt'[c] = stmt[c] /\ wrLocks'[c] = wrLocks[c]
<1>3. ASSUME NEW d \in Conns,
             Begin(d) \/ Commit(d) \/ Rollback(d) \/ EndStatement(d) \/ Unlock(d)
      PROVE  Stays
  BY <1>3 DEF Begin, Commit, StartCommit, Rollback, EndStatement, Unlock, MayUnlock, TypeOK, lockVars
<1>4. ASSUME NEW d \in Conns, NEW t \in Tables,
             LockTable(d, t) \/ Exec(d, t) \/ TableDone(d, t) \/ (d # c /\ Statement(d, t))
      PROVE  Stays
  <2>1. CASE LockTable(d, t)
    <3>1. /\ pc' = [pc EXCEPT ![d] = "exec"] /\ stmt' = stmt
          /\ wrLocks' = wrLocks \/ wrLocks' = [wrLocks EXCEPT ![d] = wrLocks[d] \union {t}]
      BY <2>1 DEF LockTable, lockVars
    <3>2. pc \in [Conns -> States] /\ DOMAIN wrLocks = Conns
      BY DEF TypeOK
    <3>3. c # d
      BY <3>1, <3>2
    <3> QED
      BY <3>1, <3>2, <3>3
  <2>2. CASE Exec(d, t)
    <3>1. pc' = [pc EXCEPT ![d] = "done"] /\ stmt' = stmt /\ wrLocks' = wrLocks
      BY <2>2 DEF Exec, lockVars
    <3>2. pc \in [Conns -> States]
      BY DEF TypeOK
    <3> QED
      BY <3>1, <3>2
  <2>3. CASE TableDone(d, t)
    BY <1>4, <2>3 DEF TableDone, lockVars
  <2>4. CASE d # c /\ Statement(d, t)
    BY <1>4, <2>4 DEF Statement, TypeOK, lockVars
  <2> QED
    BY <1>4, <2>1, <2>2, <2>3, <2>4
<1>5. ASSUME NEW d \in Conns, NEW t \in Tables, NEW r \in Rows,
             CommitNew(d, t, r) \/ CommitDel(d, t, r) \/ RollbackNew(d, t, r)
      PROVE  Stays
  BY <1>5 DEF CommitNew, CommitDel, RollbackNew, lockVars
<1>6. ASSUME UNCHANGED vars PROVE Stays
  BY <1>6 DEF vars, lockVars
<1> QED
  BY <1>1, <1>2, <1>3, <1>4, <1>5, <1>6 DEF Next, Walk

\* The tables after t: fewer, the later t is.
After(t) == {u \in Tables : t < u}

LEMMA AfterLess ==
    ASSUME NEW t \in Tables, NEW u \in Tables, t < u
    PROVE  After(u) \subseteq After(t) /\ u \in After(t) /\ u \notin After(u)
<1>1. Tables \subseteq Nat
  BY TransAssumption
<1>2. t \in Nat /\ u \in Nat /\ \A v \in Tables : v \in Nat
  BY <1>1
<1>3. ASSUME NEW v \in After(u) PROVE v \in After(t)
  BY <1>2, <1>3 DEF After
<1>4. u \in After(t)
  BY DEF After
<1>5. ~(u < u)
  BY <1>2
<1>6. u \notin After(u)
  BY <1>5 DEF After
<1> QED
  BY <1>3, <1>4, <1>6

\* A set of connections that wait has one that waits for the last table.
LEMMA LastWaits ==
    ASSUME NEW S, S # {}, \A c \in S : stmt[c] \in Tables
    PROVE  \E c \in S : \A d \in S : ~(stmt[c] < stmt[d])
<1> DEFINE R == StrictSubsetOrdering(Tables)
           T == {After(stmt[c]) : c \in S}
<1>0. \A c \in S : stmt[c] \in Nat /\ After(stmt[c]) \in SUBSET Tables
  BY TransAssumption DEF After
<1>1. IsWellFoundedOn(R, FiniteSubsetsOf(Tables))
  BY FS_StrictSubsetOrderingWellFounded
<1>2. T \subseteq FiniteSubsetsOf(Tables) /\ T # {}
  <2>1. FiniteSubsetsOf(Tables) = SUBSET Tables
    BY TransAssumption, FS_FiniteSubsetsOfFinite
  <2>2. PICK c \in S : TRUE
    OBVIOUS
  <2>3. After(stmt[c]) \in T
    BY <2>2
  <2> QED
    BY <1>0, <2>1, <2>3
<1>3. PICK x \in T : \A y \in T : <<y, x>> \notin R
  <2> HIDE DEF R, T
  <2> QED
    BY <1>1, <1>2, WFMin
<1>4. PICK c \in S : x = After(stmt[c])
  OBVIOUS
<1>5. ASSUME NEW d \in S, stmt[c] < stmt[d] PROVE FALSE
  <2>1. /\ After(stmt[d]) \subseteq After(stmt[c])
        /\ stmt[d] \in After(stmt[c]) /\ stmt[d] \notin After(stmt[d])
    BY <1>5, AfterLess
  <2>2. <<After(stmt[d]), After(stmt[c])>> \in R
    BY <1>0, <2>1 DEF StrictSubsetOrdering
  <2> QED
    BY <1>3, <1>4, <2>2
<1> QED
  BY <1>5

\* Connections that write tables in one order never wait for each other in a
\* circle: however many there are, the one that waits for the last table waits
\* for a connection that does not wait.
THEOREM TransNoDeadlock ==
    ASSUME MemTables = {}
    PROVE  Spec => []NoDeadlock
<1>1. Init => WaitInOrder
  BY DEF Init, WaitInOrder
<1>2. IInv /\ WaitInOrder /\ [Next]_vars => WaitInOrder'
  BY StepOrder DEF IInv, TInv
<1>3. IInv /\ WaitInOrder => NoDeadlock
  <2> SUFFICES ASSUME IInv, WaitInOrder, OrderedAccess, NEW S \in (SUBSET Conns) \ {{}},
                      \A c \in S : \E d \in S : WaitsFor(c, d)
               PROVE  FALSE
    BY DEF NoDeadlock
  <2>1. ASSUME NEW c \in S
        PROVE  /\ pc[c] = "lock" /\ stmt[c] \in Tables
               /\ \A u \in wrLocks[c] : u <= stmt[c]
               /\ stmt[c] \notin wrLocks[c]
               /\ tblLock[stmt[c]] \in S
    BY DEF WaitInOrder, WaitsFor, MayLock
  <2>2. PICK c \in S : \A d \in S : ~(stmt[c] < stmt[d])
    BY <2>1, LastWaits
  <2>3. PICK d \in S : d = tblLock[stmt[c]]
    BY <2>1
  <2>4. stmt[c] \in wrLocks[d]
    BY <2>1, <2>3 DEF IInv, WInv, LockCoversRows
  <2>5. stmt[c] <= stmt[d] /\ stmt[c] # stmt[d]
    BY <2>1, <2>4
  <2>6. stmt[c] \in Nat /\ stmt[d] \in Nat
    BY <2>1, TransAssumption
  <2> QED
    BY <2>2, <2>5, <2>6
<1> QED
  BY <1>1, <1>2, <1>3, TransInvariant, PTL DEF Spec

-------------------------------------------------------------------------------
(* Keys, and the refinement: disk tables keep their primary keys unique and *)
(* implement the atomic transactions of XdbTransAbs.                        *)

\* What a walk leaves behind: a transaction never deletes its own version, the
\* rows a commit has visited are committed or free, those of a rollback free.
WalkDone ==
    \A c \in Conns, t \in Tables :
        /\ newRows[c][t] \intersect delRows[c][t] = {}
        /\ pc[c] = "commit" => /\ \A r \in newRows[c][t] \ toNew[c][t] : ctrl[t][r] = COMMIT
                               /\ \A r \in delRows[c][t] \ toDel[c][t] : ctrl[t][r] = FREE
        /\ pc[c] = "rollback" => \A r \in newRows[c][t] \ toNew[c][t] : ctrl[t][r] = FREE

LEMMA InitDone == Init => WalkDone
BY DEF Init, WalkDone, Empty

\* A transaction alone has rows of a table, the one that holds its lock.
LEMMA OnlyHolder ==
    ASSUME IInv, NEW c \in Conns, NEW t \in Tables,
           tblLock[t] = c \/ newRows[c][t] \union delRows[c][t] # {},
           NEW d \in Conns \ {c}
    PROVE  /\ tblLock[t] = c
           /\ newRows[d][t] = {} /\ delRows[d][t] = {}
           /\ OpenNew(d, t) = {} /\ OpenDel(d, t) = {}
<1>1. tblLock[t] = c
  BY DEF IInv, WInv, LockCoversRows
<1>2. newRows[d][t] = {} /\ delRows[d][t] = {}
  BY <1>1 DEF IInv, WInv, LockCoversRows
<1>3. OpenNew(d, t) = {} /\ OpenDel(d, t) = {}
  BY <1>2 DEF IInv, WInv, WalkOK, OpenNew, OpenDel
<1> QED
  BY <1>1, <1>2, <1>3

\* What a walk visits is one of its rows, in the state its owner left it.
LEMMA Visited ==
    ASSUME IInv, WalkDone, NEW c \in Conns, NEW t \in Tables, NEW r \in Rows
    PROVE  /\ CommitDel(c, t, r) =>
                  /\ tblLock[t] = c /\ ctrl[t][r] = COMMIT
                  /\ r \in delRows[c][t] /\ r \notin newRows[c][t]
           /\ CommitNew(c, t, r) \/ RollbackNew(c, t, r) =>
                  /\ tblLock[t] = c /\ ctrl[t][r] = TRANS
                  /\ r \in newRows[c][t] /\ r \notin delRows[c][t]
<1>1. ASSUME CommitDel(c, t, r)
      PROVE  /\ tblLock[t] = c /\ ctrl[t][r] = COMMIT
             /\ r \in delRows[c][t] /\ r \notin newRows[c][t]
  <2>1. r \in OpenDel(c, t) /\ r \in delRows[c][t]
    BY <1>1 DEF CommitDel, Least, OpenDel, IInv, WInv, WalkOK
  <2>2. ctrl[t][r] = COMMIT
    BY <2>1 DEF IInv, OInv, DeletePending
  <2>3. tblLock[t] = c
    BY <2>1 DEF IInv, WInv, LockCoversRows
  <2> QED
    BY <2>1, <2>2, <2>3 DEF WalkDone
<1>2. ASSUME CommitNew(c, t, r) \/ RollbackNew(c, t, r)
      PROVE  /\ tblLock[t] = c /\ ctrl[t][r] = TRANS
             /\ r \in newRows[c][t] /\ r \notin delRows[c][t]
  <2>1. r \in OpenNew(c, t) /\ r \in newRows[c][t]
    BY <1>2 DEF CommitNew, RollbackNew, Least, OpenNew, IInv, WInv, WalkOK
  <2>2. ctrl[t][r] = TRANS
    BY <2>1 DEF IInv, OInv, VersionOwned
  <2>3. tblLock[t] = c
    BY <2>1 DEF IInv, WInv, LockCoversRows
  <2> QED
    BY <2>1, <2>2, <2>3 DEF WalkDone
<1> QED
  BY <1>1, <1>2

\* The effect of a visit: one row of the table changes its control byte, and
\* one that is freed its content.
Visit(c, t, r, to) ==
    /\ \A u \in Tables, q \in Rows :
          ctrl'[u][q] = IF u = t /\ q = r THEN to ELSE ctrl[u][q]
    /\ \A u \in Tables, q \in Rows :
          u # t \/ q # r \/ to = COMMIT => row'[u][q] = row[u][q]
    /\ \A d \in Conns, u \in Tables :
          /\ toNew'[d][u] = IF d = c /\ u = t /\ ctrl[t][r] = TRANS
                            THEN toNew[d][u] \ {r} ELSE toNew[d][u]
          /\ toDel'[d][u] = IF d = c /\ u = t /\ ctrl[t][r] = COMMIT
                            THEN toDel[d][u] \ {r} ELSE toDel[d][u]
    /\ UNCHANGED <<newRows, delRows, tblLock, wrLocks, pc, stmt>>

LEMMA Freed ==
    ASSUME TypeOK, NEW t \in Tables, NEW r \in Rows, FreeRow(t, r)
    PROVE  \A u \in Tables, q \in Rows :
              /\ ctrl'[u][q] = IF u = t /\ q = r THEN FREE ELSE ctrl[u][q]
              /\ u # t \/ q # r => row'[u][q] = row[u][q]
<1>1. ctrl \in [Tables -> [Rows -> {FREE, COMMIT, TRANS}]] /\ row \in [Tables -> [Rows -> Records \union {Junk}]]
  BY DEF TypeOK
<1>2. ctrl' = [ctrl EXCEPT ![t][r] = FREE] /\ row' = [row EXCEPT ![t][r] = Junk]
  BY DEF FreeRow
<1>3. \A u \in Tables, q \in Rows : ctrl'[u][q] = IF u = t /\ q = r THEN FREE ELSE ctrl[u][q]
  BY ONLY <1>1, <1>2
<1>4. \A u \in Tables, q \in Rows : u # t \/ q # r => row'[u][q] = row[u][q]
  BY ONLY <1>1, <1>2
<1> QED
  BY ONLY <1>3, <1>4

LEMMA VisitEffect ==
    ASSUME IInv, WalkDone, NEW c \in Conns, NEW t \in Tables, NEW r \in Rows
    PROVE  /\ CommitNew(c, t, r) => Visit(c, t, r, COMMIT) /\ pc[c] = "commit"
           /\ CommitDel(c, t, r) => Visit(c, t, r, FREE) /\ pc[c] = "commit"
           /\ RollbackNew(c, t, r) => Visit(c, t, r, FREE) /\ pc[c] = "rollback"
<1>0. TypeOK
  BY DEF IInv, TInv
<1>1. ASSUME CommitNew(c, t, r) PROVE Visit(c, t, r, COMMIT) /\ pc[c] = "commit"
  <2>0. ctrl[t][r] = TRANS
    BY <1>1, Visited
  <2>1. /\ ctrl' = [ctrl EXCEPT ![t][r] = COMMIT] /\ row' = row
        /\ toNew' = [toNew EXCEPT ![c][t] = toNew[c][t] \ {r}] /\ toDel' = toDel
        /\ UNCHANGED <<newRows, delRows, tblLock, wrLocks, pc, stmt>> /\ pc[c] = "commit"
    BY <1>1 DEF CommitNew, setVars, lockVars
  <2>2. \A u \in Tables, q \in Rows :
           ctrl'[u][q] = IF u = t /\ q = r THEN COMMIT ELSE ctrl[u][q]
    BY <1>0, <2>1 DEF TypeOK
  <2>3. \A d \in Conns, u \in Tables :
           toNew'[d][u] = IF d = c /\ u = t THEN toNew[d][u] \ {r} ELSE toNew[d][u]
    BY <1>0, <2>1 DEF TypeOK
  <2>4. ctrl[t][r] # COMMIT /\ \A u \in Tables, q \in Rows : row'[u][q] = row[u][q]
    BY <2>0, <2>1 DEF COMMIT, TRANS
  <2>5. \A d \in Conns, u \in Tables : toDel'[d][u] = toDel[d][u]
    BY <2>1
  <2> QED
    BY <2>0, <2>1, <2>2, <2>3, <2>4, <2>5 DEF Visit
<1>2. ASSUME CommitDel(c, t, r) PROVE Visit(c, t, r, FREE) /\ pc[c] = "commit"
  <2>0. ctrl[t][r] = COMMIT
    BY <1>2, Visited
  <2>1. /\ FreeRow(t, r)
        /\ toDel' = [toDel EXCEPT ![c][t] = toDel[c][t] \ {r}] /\ toNew' = toNew
        /\ UNCHANGED <<newRows, delRows, tblLock, wrLocks, pc, stmt>> /\ pc[c] = "commit"
    BY <1>2 DEF CommitDel, setVars, lockVars
  <2>2. \A u \in Tables, q \in Rows :
           /\ ctrl'[u][q] = IF u = t /\ q = r THEN FREE ELSE ctrl[u][q]
           /\ u # t \/ q # r => row'[u][q] = row[u][q]
    BY <1>0, <2>1, Freed
  <2>3. \A d \in Conns, u \in Tables :
           toDel'[d][u] = IF d = c /\ u = t THEN toDel[d][u] \ {r} ELSE toDel[d][u]
    BY <1>0, <2>1 DEF TypeOK
  <2>4. ctrl[t][r] # TRANS /\ FREE # COMMIT
    BY <2>0 DEF FREE, COMMIT, TRANS
  <2>5. \A d \in Conns, u \in Tables : toNew'[d][u] = toNew[d][u]
    BY <2>1
  <2> QED
    BY <2>0, <2>1, <2>2, <2>3, <2>4, <2>5 DEF Visit
<1>3. ASSUME RollbackNew(c, t, r) PROVE Visit(c, t, r, FREE) /\ pc[c] = "rollback"
  <2>0. ctrl[t][r] = TRANS
    BY <1>3, Visited
  <2>1. /\ FreeRow(t, r)
        /\ toNew' = [toNew EXCEPT ![c][t] = toNew[c][t] \ {r}] /\ toDel' = toDel
        /\ UNCHANGED <<newRows, delRows, tblLock, wrLocks, pc, stmt>> /\ pc[c] = "rollback"
    BY <1>3 DEF RollbackNew, setVars, lockVars
  <2>2. \A u \in Tables, q \in Rows :
           /\ ctrl'[u][q] = IF u = t /\ q = r THEN FREE ELSE ctrl[u][q]
           /\ u # t \/ q # r => row'[u][q] = row[u][q]
    BY <1>0, <2>1, Freed
  <2>3. \A d \in Conns, u \in Tables :
           toNew'[d][u] = IF d = c /\ u = t THEN toNew[d][u] \ {r} ELSE toNew[d][u]
    BY <1>0, <2>1 DEF TypeOK
  <2>4. ctrl[t][r] # COMMIT /\ FREE # COMMIT
    BY <2>0 DEF FREE, COMMIT, TRANS
  <2>5. \A d \in Conns, u \in Tables : toDel'[d][u] = toDel[d][u]
    BY <2>1
  <2> QED
    BY <2>0, <2>1, <2>2, <2>3, <2>4, <2>5 DEF Visit
<1> QED
  BY <1>1, <1>2, <1>3
\* Steps other than of a statement and of a walk: what they leave alone, and that
\* a walk begins with all the rows of the transaction before it.
Calm(c) ==
    /\ UNCHANGED <<ctrl, row, newRows, delRows>>
    /\ \A d \in Conns \ {c} : pc'[d] = pc[d] /\ toNew'[d] = toNew[d] /\ toDel'[d] = toDel[d]
    /\ pc[c] \notin {"commit", "rollback"} \/ pc'[c] = "idle"
    /\ pc'[c] \in {"commit", "rollback"} => toNew'[c] = newRows[c]
    /\ pc'[c] = "commit" => toDel'[c] = delRows[c]

LEMMA CalmSteps ==
    ASSUME TypeOK, NEW c \in Conns,
           \/ Begin(c) \/ Commit(c) \/ Rollback(c) \/ EndStatement(c) \/ Unlock(c)
           \/ \E t \in Tables : Statement(c, t) \/ LockTable(c, t)
    PROVE  Calm(c)
<1>1. CASE Begin(c)
  BY <1>1 DEF Begin, Calm, TypeOK, walkVars, rowVars, setVars
<1>2. CASE Commit(c)
  BY <1>2 DEF Commit, StartCommit, Calm, TypeOK, rowVars, setVars
<1>3. CASE Rollback(c)
  BY <1>3 DEF Rollback, Calm, TypeOK, rowVars, setVars
<1>4. CASE EndStatement(c)
  BY <1>4 DEF EndStatement, StartCommit, Calm, TypeOK, walkVars, rowVars, setVars
<1>5. CASE Unlock(c)
  BY <1>5 DEF Unlock, MayUnlock, Calm, TypeOK, rowVars
<1>6. ASSUME NEW t \in Tables, Statement(c, t) PROVE Calm(c)
  BY <1>6 DEF Statement, Calm, TypeOK, walkVars, rowVars, setVars
<1>7. ASSUME NEW t \in Tables, LockTable(c, t) PROVE Calm(c)
  BY <1>7 DEF LockTable, Calm, TypeOK, walkVars, rowVars, setVars
<1> QED
  BY <1>1, <1>2, <1>3, <1>4, <1>5, <1>6, <1>7

LEMMA StepDone ==
    ASSUME MemTables = {}, IInv, WalkDone, [Next]_vars
    PROVE  WalkDone'
<1>0. TypeOK
  BY DEF IInv, TInv
<1>1. ASSUME NEW c \in Conns, Calm(c) PROVE WalkDone'
  BY <1>1 DEF Calm, WalkDone
<1>2. ASSUME NEW c \in Conns, NEW t \in Tables, Exec(c, t) PROVE WalkDone'
  <2>0. /\ pc' = [pc EXCEPT ![c] = "done"] /\ pc[c] = "exec"
        /\ UNCHANGED <<toNew, toDel>>
    BY <1>2 DEF Exec, walkVars
  <2>1. \A d \in Conns : pc'[d] \in {"commit", "rollback"} => pc'[d] = pc[d] /\ d # c
    BY <1>0, <2>0 DEF TypeOK
  <2>2. tblLock[t] = c
    BY <1>2 DEF Exec, IInv, WInv, ExecLocked, LockCoversRows
  <2>3. CASE UNCHANGED <<ctrl, setVars>>
    BY <2>0, <2>1, <2>3 DEF WalkDone, setVars
  <2>4. ASSUME NEW gone, NEW used, NEW rec, Change(c, t, gone, used, rec)
        PROVE  WalkDone'
    <3>1. PICK now : Effect(c, t, gone, used, rec, now)
      BY <2>4, ChangeEffect
    <3>2. ASSUME NEW d \in Conns, NEW u \in Tables, d # c \/ u # t
          PROVE  newRows'[d][u] = newRows[d][u] /\ delRows'[d][u] = delRows[d][u]
      BY <1>0, <3>1, <3>2 DEF Effect, TypeOK
    <3>3. /\ newRows'[c][t] = (newRows[c][t] \ now) \union used
          /\ delRows'[c][t] = delRows[c][t] \union (gone \ now)
          /\ newRows[c][t] \subseteq Rows /\ delRows[c][t] \subseteq Rows
      BY <1>0, <3>1 DEF Effect, TypeOK
    <3>4. \A u \in Tables \ {t} : ctrl'[u] = ctrl[u]
      BY <1>0, <3>1 DEF Effect, TypeOK
    <3>5. newRows[c][t] = OpenNew(c, t) /\ delRows[c][t] = OpenDel(c, t)
      BY <2>0 DEF OpenNew, OpenDel
    <3>6. /\ \A r \in newRows[c][t] : ctrl[t][r] = TRANS
          /\ \A r \in delRows[c][t] : ctrl[t][r] = COMMIT
      BY <3>3, <3>5 DEF IInv, OInv, VersionOwned, DeletePending
    <3>7. newRows'[c][t] \intersect delRows'[c][t] = {}
      BY <3>1, <3>3, <3>6 DEF Effect, FREE, COMMIT, TRANS
    <3>8. ASSUME NEW d \in Conns \ {c} PROVE newRows[d][t] = {} /\ delRows[d][t] = {}
      BY <2>2, OnlyHolder
    <3> QED
      BY <2>0, <2>1, <3>2, <3>4, <3>7, <3>8 DEF WalkDone
  <2> QED
    BY <1>2, <2>3, <2>4, ExecCases DEF InPlace, NoChange, rowVars, IInv
\* A visited row is none that the walk has done; no other walk has it.
<1>3. ASSUME NEW c \in Conns, NEW t \in Tables, NEW r \in Rows,
             CommitNew(c, t, r) \/ CommitDel(c, t, r) \/ RollbackNew(c, t, r)
      PROVE  WalkDone'
  <2>0. \A d \in Conns, u \in Tables : newRows[d][u] \subseteq Rows /\ delRows[d][u] \subseteq Rows
    BY <1>0 DEF TypeOK
  <2>1. \A d \in Conns \ {c} : newRows[d][t] = {} /\ delRows[d][t] = {}
    <3>1. tblLock[t] = c
      BY <1>3, Visited
    <3> QED
      BY <3>1, OnlyHolder
  <2>2. PICK to : /\ Visit(c, t, r, to)
                  /\ \/ CommitNew(c, t, r) /\ to = COMMIT /\ pc[c] = "commit"
                     \/ CommitDel(c, t, r) /\ to = FREE /\ pc[c] = "commit"
                     \/ RollbackNew(c, t, r) /\ to = FREE /\ pc[c] = "rollback"
    BY <1>3, VisitEffect
  <2>3. /\ CommitNew(c, t, r) => ctrl[t][r] = TRANS /\ r \notin delRows[c][t]
        /\ CommitDel(c, t, r) => ctrl[t][r] = COMMIT /\ r \notin newRows[c][t]
        /\ RollbackNew(c, t, r) => ctrl[t][r] = TRANS
    BY Visited
  <2>4. ASSUME NEW d \in Conns, NEW u \in Tables, d # c \/ u # t
        PROVE  /\ pc'[d] = pc[d] /\ newRows'[d][u] = newRows[d][u] /\ delRows'[d][u] = delRows[d][u]
               /\ toNew'[d][u] = toNew[d][u] /\ toDel'[d][u] = toDel[d][u]
               /\ \A q \in newRows[d][u] \union delRows[d][u] : ctrl'[u][q] = ctrl[u][q]
    <3>1. /\ pc'[d] = pc[d] /\ newRows'[d][u] = newRows[d][u] /\ delRows'[d][u] = delRows[d][u]
          /\ toNew'[d][u] = toNew[d][u] /\ toDel'[d][u] = toDel[d][u]
      BY <2>2, <2>4 DEF Visit
    <3>2. \A q \in Rows : u # t => ctrl'[u][q] = ctrl[u][q]
      BY <2>2 DEF Visit
    <3>3. u = t => newRows[d][u] \union delRows[d][u] = {}
      BY <2>1, <2>4
    <3> QED
      BY <2>0, <3>1, <3>2, <3>3
  <2>5. /\ pc'[c] = pc[c] /\ newRows'[c][t] = newRows[c][t] /\ delRows'[c][t] = delRows[c][t]
        /\ toNew'[c][t] = IF ctrl[t][r] = TRANS THEN toNew[c][t] \ {r} ELSE toNew[c][t]
        /\ toDel'[c][t] = IF ctrl[t][r] = COMMIT THEN toDel[c][t] \ {r} ELSE toDel[c][t]
        /\ \A q \in newRows[c][t] \union delRows[c][t] :
              ctrl'[t][q] = IF q = r THEN to ELSE ctrl[t][q]
    BY <2>0, <2>2 DEF Visit
  <2>6. ASSUME NEW d \in Conns, NEW u \in Tables, d # c \/ u # t
        PROVE  /\ newRows'[d][u] \intersect delRows'[d][u] = {}
               /\ pc'[d] = "commit" => /\ \A q \in newRows'[d][u] \ toNew'[d][u] : ctrl'[u][q] = COMMIT
                                       /\ \A q \in delRows'[d][u] \ toDel'[d][u] : ctrl'[u][q] = FREE
               /\ pc'[d] = "rollback" => \A q \in newRows'[d][u] \ toNew'[d][u] : ctrl'[u][q] = FREE
    BY <2>4, <2>6 DEF WalkDone
  <2>7. /\ newRows'[c][t] \intersect delRows'[c][t] = {}
        /\ pc'[c] = "commit" => /\ \A q \in newRows'[c][t] \ toNew'[c][t] : ctrl'[t][q] = COMMIT
                                /\ \A q \in delRows'[c][t] \ toDel'[c][t] : ctrl'[t][q] = FREE
        /\ pc'[c] = "rollback" => \A q \in newRows'[c][t] \ toNew'[c][t] : ctrl'[t][q] = FREE
    BY <2>2, <2>3, <2>5 DEF WalkDone, FREE, COMMIT, TRANS
  <2> QED
    BY <2>6, <2>7 DEF WalkDone
<1>4. ASSUME NEW c \in Conns, NEW t \in Tables, TableDone(c, t) PROVE WalkDone'
  <2>1. /\ UNCHANGED <<ctrl, toNew, toDel, pc>>
        /\ newRows' = [newRows EXCEPT ![c][t] = {}]
        /\ delRows' = [delRows EXCEPT ![c][t] = {}]
    BY <1>4 DEF TableDone, rowVars
  <2>2. ASSUME NEW d \in Conns, NEW u \in Tables
        PROVE  newRows'[d][u] \subseteq newRows[d][u] /\ delRows'[d][u] \subseteq delRows[d][u]
    BY <1>0, <2>1 DEF TypeOK
  <2> QED
    BY <2>1, <2>2 DEF WalkDone
<1>5. ASSUME UNCHANGED vars PROVE WalkDone'
  BY <1>5 DEF vars, WalkDone, rowVars, setVars, walkVars
<1> QED
  BY <1>0, <1>1, <1>2, <1>3, <1>4, <1>5, CalmSteps DEF Next, Walk

-------------------------------------------------------------------------------
(* What each step does to the content of a table.                           *)

\* The rows that the table's writer sees, or everybody when it has none.
View(t) == IF tblLock[t] = NoConn THEN Committed(t) ELSE ValidRows(tblLock[t], t)

\* The rows in S keep their content.
SameRows(t, S) == \A r \in S : row'[t][r] = row[t][r]

\* A lock that comes or goes changes no view: who gets it has no rows of the
\* table yet, and who gives it back has none left.
LEMMA CalmViews ==
    ASSUME IInv, IInv', UNCHANGED <<ctrl, row, newRows, delRows>>, NEW t \in Tables,
           tblLock'[t] = tblLock[t] \/ tblLock[t] = NoConn \/ tblLock'[t] = NoConn
    PROVE  View(t)' = View(t) /\ Committed(t)' = Committed(t)
<1>0. Committed(t)' = Committed(t) /\ \A c : ValidRows(c, t)' = ValidRows(c, t)
  BY DEF Committed, ValidRows, Valid
<1>1. ASSUME NEW c \in Conns, newRows[c][t] = {}, delRows[c][t] = {}
      PROVE  ValidRows(c, t) = Committed(t)
  BY <1>1 DEF ValidRows, Valid, Committed
<1>2. CASE tblLock'[t] = tblLock[t]
  BY <1>0, <1>2 DEF View
<1>3. CASE tblLock[t] = NoConn /\ tblLock'[t] # NoConn
  <2>1. tblLock'[t] \in Conns
    BY <1>3 DEF IInv, TInv, TypeOK
  <2>2. newRows[tblLock'[t]][t] = {} /\ delRows[tblLock'[t]][t] = {}
    BY <1>3, <2>1 DEF IInv, WInv, LockCoversRows
  <2>3. ValidRows(tblLock'[t], t) = Committed(t)
    BY <1>1, <2>1, <2>2
  <2> QED
    BY <1>0, <1>3, <2>3 DEF View
<1>4. CASE tblLock[t] # NoConn /\ tblLock'[t] = NoConn
  <2>1. tblLock[t] \in Conns
    BY <1>4 DEF IInv, TInv, TypeOK
  <2>2. newRows[tblLock[t]][t] = {} /\ delRows[tblLock[t]][t] = {}
    BY <1>4, <2>1 DEF IInv, WInv, LockCoversRows
  <2>3. ValidRows(tblLock[t], t) = Committed(t)
    BY <1>1, <2>1, <2>2
  <2> QED
    BY <1>0, <1>4, <2>3 DEF View
<1> QED
  BY <1>2, <1>3, <1>4

\* A statement changes what its connection sees of its table, and keeps the
\* keys of that distinct: the unique check looks at every row it sees, or the
\* new version has the key of the one it replaces.
LEMMA ExecViews ==
    ASSUME MemTables = {}, IInv, NEW c \in Conns, NEW t \in Tables, Exec(c, t)
    PROVE  /\ tblLock[t] = c /\ tblLock' = tblLock
           /\ \A u \in Tables : Committed(u)' = Committed(u) /\ SameRows(u, Committed(u))
           /\ \A u \in Tables \ {t} : View(u)' = View(u) /\ SameRows(u, View(u))
           /\ DistinctKeys(t, View(t)) => DistinctKeys(t, View(t))'
<1>0. TypeOK
  BY DEF IInv, TInv
<1>1. tblLock[t] = c /\ tblLock' = tblLock
  BY DEF Exec, lockVars, IInv, WInv, ExecLocked, LockCoversRows
<1>2. View(t) = ValidRows(c, t) /\ View(t)' = ValidRows(c, t)'
  BY <1>1, TransAssumption DEF View
<1>3. ASSUME UNCHANGED <<ctrl, newRows, delRows>>
      PROVE  \A u \in Tables : Committed(u)' = Committed(u) /\ View(u)' = View(u)
  BY <1>1, <1>3 DEF Committed, View, ValidRows, Valid
<1>4. CASE NoChange(c, t)
  BY <1>1, <1>3, <1>4 DEF NoChange, rowVars, setVars, DistinctKeys, SameRows
<1>5. CASE InPlace(c, t)
  <2>1. PICK r \in ValidRows(c, t), v \in Vals :
           /\ ctrl[t][r] = TRANS
           /\ row' = [row EXCEPT ![t][r].val = v]
           /\ UNCHANGED <<ctrl, idx, setVars>>
    BY <1>5 DEF InPlace
  <2>2. r \in Rows /\ r \notin Committed(t) /\ row[t][r] \in Records
    BY <2>1 DEF ValidRows, Committed, COMMIT, TRANS, FREE, IInv, TInv, RowsFilled
  <2>3. \A u \in Tables, q \in Rows :
           /\ u # t \/ q # r => row'[u][q] = row[u][q]
           /\ row'[t][r] = [row[t][r] EXCEPT !.val = v]
    BY <1>0, <2>1, <2>2 DEF TypeOK
  <2>4. row'[t][r].key = row[t][r].key
    BY <2>2, <2>3 DEF Records
  <2>5. \A q \in Rows : row'[t][q].key = row[t][q].key
    BY <2>3, <2>4
  <2>6. \A u \in Tables : Committed(u)' = Committed(u) /\ View(u)' = View(u)
    BY <1>3, <2>1 DEF setVars
  <2>7. \A u \in Tables : Committed(u) \subseteq Rows /\ View(u) \subseteq Rows
    BY DEF Committed, View, ValidRows
  <2> QED
    BY <1>1, <2>2, <2>3, <2>5, <2>6, <2>7 DEF DistinctKeys, SameRows
<1>6. ASSUME NEW gone, NEW used, NEW rec, Change(c, t, gone, used, rec)
      PROVE  /\ \A u \in Tables : Committed(u)' = Committed(u) /\ SameRows(u, Committed(u))
             /\ \A u \in Tables \ {t} : View(u)' = View(u) /\ SameRows(u, View(u))
             /\ DistinctKeys(t, View(t)) => DistinctKeys(t, View(t))'
  <2>1. PICK now : Effect(c, t, gone, used, rec, now)
    BY <1>6, ChangeEffect
  <2>2. ASSUME NEW u \in Tables, NEW r \in Rows
        PROVE  /\ ctrl'[u][r] = IF u = t /\ r \in used THEN TRANS
                                ELSE IF u = t /\ r \in now THEN FREE ELSE ctrl[u][r]
               /\ row'[u][r] = IF u = t /\ r \in used THEN rec
                               ELSE IF u = t /\ r \in now THEN Junk ELSE row[u][r]
    BY <1>0, <2>1 DEF Effect, TypeOK
  <2>3. ASSUME NEW d \in Conns, NEW u \in Tables, d # c \/ u # t
        PROVE  newRows'[d][u] = newRows[d][u] /\ delRows'[d][u] = delRows[d][u]
    BY <1>0, <2>1, <2>3 DEF Effect, TypeOK
  <2>4. /\ newRows'[c][t] = (newRows[c][t] \ now) \union used
        /\ delRows'[c][t] = delRows[c][t] \union (gone \ now)
    BY <1>0, <2>1 DEF Effect, TypeOK
  <2>5. ASSUME NEW u \in Tables
        PROVE  Committed(u)' = Committed(u) /\ SameRows(u, Committed(u))
    BY <2>1, <2>2 DEF Effect, Committed, SameRows, FREE, COMMIT, TRANS
  <2>6. ASSUME NEW u \in Tables \ {t}
        PROVE  View(u)' = View(u) /\ SameRows(u, View(u))
    <3>1. ctrl'[u] = ctrl[u] /\ row'[u] = row[u]
      BY <1>0, <2>1 DEF Effect, TypeOK
    <3>2. tblLock[u] = NoConn \/ tblLock[u] \in Conns
      BY <1>0 DEF TypeOK
    <3> QED
      <4>1. Committed(u)' = Committed(u)
        BY <3>1 DEF Committed
      <4>2. \A d \in Conns : ValidRows(d, u)' = ValidRows(d, u)
        BY <2>3, <3>1 DEF ValidRows, Valid
      <4>3. \A S : SameRows(u, S)
        BY <3>1 DEF SameRows
      <4> QED
        BY <1>1, <3>2, <4>1, <4>2, <4>3 DEF View
  <2>7. /\ ValidRows(c, t)' = (ValidRows(c, t) \ gone) \union used
        /\ used \intersect ValidRows(c, t) = {}
    <3>1. \A r \in Rows : Valid(c, t, r)' <=> (Valid(c, t, r) /\ r \notin gone) \/ r \in used
      BY <2>1, <2>2, <2>4 DEF Effect, Valid, FREE, COMMIT, TRANS
    <3>2. used \subseteq Rows
      BY <2>1 DEF Effect
    <3> QED
      BY <2>1, <3>1, <3>2 DEF ValidRows, Valid, Effect, FREE, COMMIT, TRANS
  <2>8. ASSUME NEW r \in ValidRows(c, t) \ gone
        PROVE  /\ row'[t][r] = row[t][r]
               /\ used # {} => row[t][r].key # rec.key
    <3>1. r \in Rows /\ Valid(c, t, r) /\ r \in idx[t]
      BY DEF ValidRows, Valid, IInv, IndexExact, FREE, COMMIT, TRANS
    <3>2. r \notin now /\ r \notin used
      BY <2>1, <2>7 DEF Effect
    <3>3. used # {} => ~Taken(c, t, gone, rec.key)
      BY <1>6 DEF Change
    <3> QED
      BY <2>2, <3>1, <3>2, <3>3 DEF Taken
  <2>9. \A q, r \in used : q = r
    BY <1>6 DEF Change
  <2>10. \A r \in used : row'[t][r] = rec
    BY <2>1, <2>2 DEF Effect
  <2>11. ASSUME DistinctKeys(t, View(t)) PROVE DistinctKeys(t, View(t))'
    <3>1. ASSUME NEW q \in ValidRows(c, t)', NEW r \in ValidRows(c, t)',
                 row'[t][q].key = row'[t][r].key
          PROVE  q = r
      BY <1>2, <2>7, <2>8, <2>9, <2>10, <2>11, <3>1 DEF DistinctKeys
    <3> QED
      BY <1>2, <3>1 DEF DistinctKeys
  <2> QED
    BY <2>5, <2>6, <2>11
<1> QED
  BY <1>1, <1>4, <1>5, <1>6, ExecCases DEF IInv

\* A visit of a commit changes nothing in what its connection sees: a version it
\* saw as its own it now sees as committed, a row it had deleted is gone.  A visit
\* of a rollback takes the version it frees from there, and no committed row.
LEMMA VisitViews ==
    ASSUME IInv, WalkDone, NEW c \in Conns, NEW t \in Tables, NEW r \in Rows,
           CommitNew(c, t, r) \/ CommitDel(c, t, r) \/ RollbackNew(c, t, r)
    PROVE  /\ tblLock[t] = c /\ UNCHANGED <<tblLock, pc>>
           /\ \A u \in Tables \ {t} : /\ View(u)' = View(u) /\ Committed(u)' = Committed(u)
                                      /\ SameRows(u, Rows)
           /\ pc[c] = "commit" => View(t)' = View(t) /\ SameRows(t, View(t))
           /\ pc[c] = "rollback" =>
                  /\ View(t)' \subseteq View(t) /\ SameRows(t, View(t)')
                  /\ Committed(t)' = Committed(t) /\ SameRows(t, Committed(t))
           /\ pc[c] \in {"commit", "rollback"}
<1>1. PICK to : /\ Visit(c, t, r, to)
                /\ \/ CommitNew(c, t, r) /\ to = COMMIT /\ pc[c] = "commit"
                   \/ CommitDel(c, t, r) /\ to = FREE /\ pc[c] = "commit"
                   \/ RollbackNew(c, t, r) /\ to = FREE /\ pc[c] = "rollback"
  BY VisitEffect
<1>2. /\ tblLock[t] = c
      /\ CommitNew(c, t, r) => ctrl[t][r] = TRANS /\ r \in newRows[c][t] /\ r \notin delRows[c][t]
      /\ CommitDel(c, t, r) => ctrl[t][r] = COMMIT /\ r \in delRows[c][t] /\ r \notin newRows[c][t]
      /\ RollbackNew(c, t, r) => ctrl[t][r] = TRANS /\ r \in newRows[c][t] /\ r \notin delRows[c][t]
  BY Visited
<1>3. /\ UNCHANGED <<newRows, delRows, tblLock, pc>>
      /\ \A u \in Tables, q \in Rows :
            /\ ctrl'[u][q] = IF u = t /\ q = r THEN to ELSE ctrl[u][q]
            /\ u # t \/ q # r \/ to = COMMIT => row'[u][q] = row[u][q]
  BY <1>1 DEF Visit
<1>4. View(t) = ValidRows(c, t) /\ View(t)' = ValidRows(c, t)'
  BY <1>2, <1>3, TransAssumption DEF View
<1>5. ASSUME NEW u \in Tables \ {t}
      PROVE  View(u)' = View(u) /\ Committed(u)' = Committed(u) /\ SameRows(u, Rows)
  <2>1. \A q \in Rows : ctrl'[u][q] = ctrl[u][q] /\ row'[u][q] = row[u][q]
    BY <1>3
  <2> QED
    <3>1. Committed(u)' = Committed(u)
      BY <2>1 DEF Committed
    <3>2. \A d : ValidRows(d, u)' = ValidRows(d, u)
      BY <1>3, <2>1 DEF ValidRows, Valid
    <3> QED
      BY <1>3, <2>1, <3>1, <3>2 DEF View, SameRows
<1>6. ASSUME pc[c] = "commit" PROVE View(t)' = View(t) /\ SameRows(t, View(t))
  <2>1. \A q \in Rows : Valid(c, t, q)' <=> Valid(c, t, q)
    BY <1>1, <1>2, <1>3, <1>6 DEF Valid, FREE, COMMIT, TRANS
  <2>2. CASE to = COMMIT
    BY <1>3, <1>4, <2>1, <2>2 DEF ValidRows, SameRows
  <2>3. CASE to = FREE
    <3>1. ~Valid(c, t, r)
      BY <1>1, <1>2, <1>6, <2>3 DEF Valid, FREE, COMMIT, TRANS
    <3> QED
      BY <1>3, <1>4, <2>1, <3>1 DEF ValidRows, SameRows
  <2> QED
    BY <1>1, <2>2, <2>3
<1>7. ASSUME pc[c] = "rollback"
      PROVE  /\ View(t)' \subseteq View(t) /\ SameRows(t, View(t)')
             /\ Committed(t)' = Committed(t) /\ SameRows(t, Committed(t))
  <2>1. to = FREE /\ ctrl[t][r] = TRANS
    BY <1>1, <1>2, <1>7
  <2>2. \A q \in Rows : Valid(c, t, q)' <=> Valid(c, t, q) /\ q # r
    BY <1>3, <2>1 DEF Valid, FREE, COMMIT, TRANS
  <2>3. \A q \in Rows : q # r => row'[t][q] = row[t][q]
    BY <1>3
  <2>4. View(t)' \subseteq View(t) /\ SameRows(t, View(t)')
    BY <1>4, <2>2, <2>3 DEF ValidRows, SameRows
  <2>5. Committed(t)' = Committed(t) /\ SameRows(t, Committed(t))
    BY <1>3, <2>1, <2>3 DEF Committed, SameRows, FREE, COMMIT, TRANS
  <2> QED
    BY <2>4, <2>5
<1> QED
  BY <1>1, <1>2, <1>3, <1>5, <1>6, <1>7

\* When a walk is done with a table nothing is left that only its connection sees,
\* or does not see any more: its view of the table is the committed rows.
LEMMA DoneViews ==
    ASSUME IInv, WalkDone, NEW c \in Conns, NEW t \in Tables, TableDone(c, t)
    PROVE  /\ UNCHANGED <<ctrl, row, tblLock, pc>>
           /\ \A u \in Tables : Committed(u)' = Committed(u)
           /\ \A u \in Tables : View(u)' = View(u) \/ (u = t /\ View(t)' = Committed(t))
           /\ \A u \in Tables : tblLock[u] # NoConn /\ pc[tblLock[u]] # "rollback"
                                   => View(u)' = View(u)
<1>0. TypeOK
  BY DEF IInv, TInv
<1>1. /\ UNCHANGED <<ctrl, row, tblLock, pc>>
      /\ newRows' = [newRows EXCEPT ![c][t] = {}]
      /\ delRows' = [delRows EXCEPT ![c][t] = {}]
      /\ toNew[c][t] = {} /\ pc[c] \in {"commit", "rollback"}
      /\ pc[c] = "commit" => toDel[c][t] = {}
  BY DEF TableDone, rowVars, lockVars
<1>2. \A u \in Tables : Committed(u)' = Committed(u)
  BY <1>1 DEF Committed
<1>3. \A d \in Conns, u \in Tables :
         /\ newRows'[d][u] = IF d = c /\ u = t THEN {} ELSE newRows[d][u]
         /\ delRows'[d][u] = IF d = c /\ u = t THEN {} ELSE delRows[d][u]
  BY <1>0, <1>1 DEF TypeOK
<1>4. ASSUME NEW u \in Tables, u # t \/ tblLock[u] # c PROVE View(u)' = View(u)
  <2>1. tblLock[u] = NoConn \/ tblLock[u] \in Conns
    BY <1>0 DEF TypeOK
  <2>2. CASE tblLock[u] = NoConn
    BY <1>1, <1>2, <2>2 DEF View
  <2>3. CASE tblLock[u] \in Conns
    <3>1. ValidRows(tblLock[u], u)' = ValidRows(tblLock[u], u)
      BY <1>1, <1>3, <1>4, <2>3 DEF ValidRows, Valid
    <3> QED
      BY <1>1, <1>2, <3>1 DEF View
  <2> QED
    BY <2>1, <2>2, <2>3
<1>5. CASE tblLock[t] = c
  <2>1. View(t) = ValidRows(c, t) /\ View(t)' = ValidRows(c, t)'
    BY <1>1, <1>5, TransAssumption DEF View
  <2>2. ValidRows(c, t)' = Committed(t)
    BY <1>1, <1>3 DEF ValidRows, Valid, Committed
  <2>3. ASSUME pc[c] = "commit" PROVE ValidRows(c, t) = Committed(t)
    <3>1. /\ \A r \in newRows[c][t] : ctrl[t][r] = COMMIT
          /\ \A r \in delRows[c][t] : ctrl[t][r] = FREE
      BY <1>1, <2>3 DEF WalkDone
    <3> QED
      BY <3>1 DEF ValidRows, Valid, Committed, FREE, COMMIT, TRANS
  <2> QED
    BY <1>1, <1>2, <1>4, <1>5, <2>1, <2>2, <2>3
<1> QED
  BY <1>1, <1>2, <1>4, <1>5

-------------------------------------------------------------------------------
(* Unique keys.                                                             *)

\* The keys are distinct in the view of every table, and in its committed rows
\* as long as no commit of the table walks.  (While one does, a committed row and
\* the one that replaces it may both be there.)
KInv ==
    \A t \in Tables :
        /\ DistinctKeys(t, View(t))
        /\ ~Committing(t) => DistinctKeys(t, Committed(t))

\* What such a step does with table locks: one comes before a statement, and all of
\* the connection go at the end of its walk.
LEMMA CalmKinds ==
    ASSUME IInv, NEW c \in Conns,
           \/ Begin(c) \/ Commit(c) \/ Rollback(c) \/ EndStatement(c) \/ Unlock(c)
           \/ \E u \in Tables : Statement(c, u) \/ LockTable(c, u)
    PROVE  \/ /\ pc[c] \notin {"commit", "rollback"} /\ tblLock' = tblLock
           \/ /\ pc[c] \notin {"commit", "rollback"} /\ pc'[c] = "exec"
              /\ \E t \in Tables : tblLock[t] = NoConn /\ tblLock' = [tblLock EXCEPT ![t] = c]
           \/ /\ pc[c] \in {"commit", "rollback"} /\ pc'[c] = "idle"
              /\ tblLock' = [t \in Tables |-> IF tblLock[t] = c THEN NoConn ELSE tblLock[t]]
<1>0. TypeOK
  BY DEF IInv, TInv
<1>1. CASE Begin(c) \/ Commit(c) \/ Rollback(c) \/ EndStatement(c)
  BY <1>1 DEF Begin, Commit, Rollback, EndStatement, lockVars
<1>2. CASE Unlock(c)
  <2>1. \A t \in Tables : t \in wrLocks[c] <=> tblLock[t] = c
    BY DEF IInv, WInv, LockCoversRows
  <2> QED
    BY <1>0, <1>2, <2>1 DEF Unlock, MayUnlock, TypeOK
<1>3. ASSUME NEW u \in Tables, Statement(c, u) PROVE UNCHANGED tblLock /\ pc[c] = "idle"
  BY <1>3 DEF Statement, lockVars
<1>4. ASSUME NEW u \in Tables, LockTable(c, u)
      PROVE  \/ tblLock' = tblLock /\ pc[c] = "lock"
             \/ /\ tblLock[u] = NoConn /\ tblLock' = [tblLock EXCEPT ![u] = c]
                /\ pc[c] = "lock" /\ pc'[c] = "exec"
  BY <1>0, <1>4 DEF LockTable, MayLock, lockVars, TypeOK
<1> QED
  BY <1>1, <1>2, <1>3, <1>4

LEMMA InitKeys == Init => KInv
BY DEF Init, KInv, View, Committed, ValidRows, Valid, DistinctKeys, Empty, FREE, COMMIT, TRANS

LEMMA StepKeys ==
    ASSUME MemTables = {}, IInv, IInv', WalkDone, KInv, [Next]_vars
    PROVE  KInv'
<1>0. TypeOK
  BY DEF IInv, TInv
\* A table whose view and committed rows are what they were.
<1>k. ASSUME NEW t \in Tables, View(t)' \subseteq View(t), SameRows(t, View(t)'),
             \/ Committing(t)'
             \/ /\ ~Committing(t) /\ Committed(t)' = Committed(t)
                /\ SameRows(t, Committed(t))
             \/ Committed(t)' = View(t)'
      PROVE  /\ DistinctKeys(t, View(t))'
             /\ ~Committing(t)' => DistinctKeys(t, Committed(t))'
  <2>1. DistinctKeys(t, View(t))'
    BY <1>k DEF KInv, DistinctKeys, SameRows
  <2>2. ASSUME ~Committing(t), Committed(t)' = Committed(t), SameRows(t, Committed(t))
        PROVE  DistinctKeys(t, Committed(t))'
    <3>1. DistinctKeys(t, Committed(t))
      BY <2>2 DEF KInv
    <3> QED
      BY <2>2, <3>1 DEF DistinctKeys, SameRows
  <2>3. ASSUME Committed(t)' = View(t)' PROVE DistinctKeys(t, Committed(t))'
    BY <2>1, <2>3 DEF DistinctKeys
  <2> QED
    BY <1>k, <2>1, <2>2, <2>3
<1>1. ASSUME NEW c \in Conns,
             \/ Begin(c) \/ Commit(c) \/ Rollback(c) \/ EndStatement(c) \/ Unlock(c)
             \/ \E t \in Tables : Statement(c, t) \/ LockTable(c, t)
      PROVE  KInv'
  <2>1. Calm(c)
    BY <1>0, <1>1, CalmSteps
  <2>2. ASSUME NEW t \in Tables
        PROVE  \/ /\ tblLock'[t] = tblLock[t]
                  /\ tblLock[t] = c => pc[c] \notin {"commit", "rollback"}
               \/ tblLock[t] = NoConn /\ tblLock'[t] = c /\ pc'[c] = "exec"
               \/ tblLock[t] = c /\ tblLock'[t] = NoConn
    <3>1. CASE tblLock' = tblLock /\ pc[c] \notin {"commit", "rollback"}
      BY <3>1
    <3>2. CASE /\ pc[c] \notin {"commit", "rollback"} /\ pc'[c] = "exec"
               /\ \E u \in Tables : tblLock[u] = NoConn /\ tblLock' = [tblLock EXCEPT ![u] = c]
      BY <1>0, <3>2 DEF TypeOK
    <3>3. CASE tblLock' = [u \in Tables |-> IF tblLock[u] = c THEN NoConn ELSE tblLock[u]]
      BY <3>3
    <3> QED
      BY <1>1, <3>1, <3>2, <3>3, CalmKinds
  <2>3. ASSUME NEW t \in Tables
        PROVE  /\ DistinctKeys(t, View(t))'
               /\ ~Committing(t)' => DistinctKeys(t, Committed(t))'
    <3>1. View(t)' = View(t) /\ Committed(t)' = Committed(t)
      BY <2>1, <2>2, CalmViews DEF Calm
    <3>2. SameRows(t, View(t)) /\ SameRows(t, Committed(t))
      BY <2>1 DEF Calm, SameRows
    <3>3. Committing(t)' \/ ~Committing(t) \/ tblLock'[t] = NoConn
      BY <1>0, <2>1, <2>2 DEF Calm, Committing, TypeOK
    <3>4. tblLock'[t] = NoConn => Committed(t)' = View(t)'
      BY DEF View
    <3> QED
      BY <1>k, <3>1, <3>2, <3>3, <3>4
  <2> QED
    BY <2>3 DEF KInv
<1>2. ASSUME NEW c \in Conns, NEW t \in Tables, Exec(c, t) PROVE KInv'
  <2>1. /\ tblLock[t] = c /\ tblLock' = tblLock
        /\ \A u \in Tables : Committed(u)' = Committed(u) /\ SameRows(u, Committed(u))
        /\ \A u \in Tables \ {t} : View(u)' = View(u) /\ SameRows(u, View(u))
        /\ DistinctKeys(t, View(t)) => DistinctKeys(t, View(t))'
    BY <1>2, ExecViews
  <2>2. pc[c] = "exec" /\ pc' = [pc EXCEPT ![c] = "done"]
    BY <1>2 DEF Exec
  <2>3. \A u \in Tables : Committing(u)' = Committing(u)
    BY <1>0, <2>1, <2>2, TransAssumption DEF Committing, TypeOK
  <2>4. ASSUME NEW u \in Tables PROVE ~Committing(u)' => DistinctKeys(u, Committed(u))'
    <3>1. ~Committing(u)' => DistinctKeys(u, Committed(u))
      BY <2>3 DEF KInv
    <3>2. Committed(u)' = Committed(u) /\ SameRows(u, Committed(u))
      BY <2>1
    <3> QED
      BY <3>1, <3>2 DEF DistinctKeys, SameRows
  <2>5. ASSUME NEW u \in Tables \ {t} PROVE DistinctKeys(u, View(u))'
    <3>1. DistinctKeys(u, View(u)) /\ View(u)' = View(u) /\ SameRows(u, View(u))
      BY <2>1 DEF KInv
    <3> QED
      BY <3>1 DEF DistinctKeys, SameRows
  <2>6. DistinctKeys(t, View(t))'
    BY <2>1 DEF KInv
  <2> QED
    BY <2>4, <2>5, <2>6 DEF KInv
<1>3. ASSUME NEW c \in Conns, NEW t \in Tables, NEW r \in Rows,
             CommitNew(c, t, r) \/ CommitDel(c, t, r) \/ RollbackNew(c, t, r)
      PROVE  KInv'
  <2>1. /\ tblLock[t] = c /\ UNCHANGED <<tblLock, pc>>
        /\ \A u \in Tables \ {t} : /\ View(u)' = View(u) /\ Committed(u)' = Committed(u)
                                   /\ SameRows(u, Rows)
        /\ pc[c] = "commit" => View(t)' = View(t) /\ SameRows(t, View(t))
        /\ pc[c] = "rollback" =>
               /\ View(t)' \subseteq View(t) /\ SameRows(t, View(t)')
               /\ Committed(t)' = Committed(t) /\ SameRows(t, Committed(t))
        /\ pc[c] \in {"commit", "rollback"}
    BY <1>3, VisitViews
  <2>2. \A u \in Tables : Committing(u)' = Committing(u)
    BY <2>1 DEF Committing
  <2>3. Committing(t) <=> pc[c] = "commit"
    BY <2>1, TransAssumption DEF Committing
  <2>4. ASSUME NEW u \in Tables \ {t}
        PROVE  /\ DistinctKeys(u, View(u))'
               /\ ~Committing(u)' => DistinctKeys(u, Committed(u))'
    <3>1. View(u) \subseteq Rows /\ Committed(u) \subseteq Rows
      BY DEF View, Committed, ValidRows
    <3> QED
      BY <1>k, <2>1, <2>2, <3>1 DEF SameRows
  <2>5. /\ DistinctKeys(t, View(t))'
        /\ ~Committing(t)' => DistinctKeys(t, Committed(t))'
    BY <1>k, <2>1, <2>2, <2>3
  <2> QED
    BY <2>4, <2>5 DEF KInv
<1>4. ASSUME NEW c \in Conns, NEW t \in Tables, TableDone(c, t) PROVE KInv'
  <2>1. /\ UNCHANGED <<ctrl, row, tblLock, pc>>
        /\ \A u \in Tables : Committed(u)' = Committed(u)
        /\ \A u \in Tables : View(u)' = View(u) \/ (u = t /\ View(t)' = Committed(t))
        /\ \A u \in Tables : tblLock[u] # NoConn /\ pc[tblLock[u]] # "rollback"
                                => View(u)' = View(u)
    BY <1>4, DoneViews
  <2>2. ASSUME NEW u \in Tables
        PROVE  /\ DistinctKeys(u, View(u))'
               /\ ~Committing(u)' => DistinctKeys(u, Committed(u))'
    <3>1. Committing(u)' = Committing(u) /\ SameRows(u, View(u)) /\ SameRows(u, Committed(u))
      BY <2>1 DEF Committing, SameRows
    <3>2. CASE View(u)' = View(u)
      BY <1>k, <2>1, <3>1, <3>2
    <3>3. CASE View(u)' = Committed(u) /\ ~Committing(u)
      <4>1. DistinctKeys(u, Committed(u))
        BY <3>3 DEF KInv
      <4> QED
        BY <2>1, <3>1, <3>3, <4>1 DEF DistinctKeys, SameRows
    <3> QED
      BY <2>1, <3>2, <3>3 DEF Committing
  <2> QED
    BY <2>2 DEF KInv
<1>5. ASSUME UNCHANGED vars PROVE KInv'
  BY <1>5 DEF vars, rowVars, setVars, lockVars, KInv, View, Committed, ValidRows, Valid,
              Committing, DistinctKeys
<1> QED
  BY <1>0, <1>1, <1>2, <1>3, <1>4, <1>5 DEF Next, Walk

\* The whole inductive invariant.
AInv == IInv /\ WalkDone /\ KInv

LEMMA InitAInv == Init => AInv
BY InitTypes, InitWalk, InitOwner, InitDone, InitKeys DEF AInv, IInv

LEMMA StepAInv ==
    ASSUME MemTables = {}, AInv, [Next]_vars
    PROVE  AInv'
<1>1. IInv'
  BY StepIInv DEF AInv
<1>2. WalkDone' /\ KInv'
  BY <1>1, StepDone, StepKeys DEF AInv
<1> QED
  BY <1>1, <1>2 DEF AInv

\* No sequence of statements, commits and rollbacks brings a primary key into the
\* table twice: not for the writer, which has old and new versions of one key
\* beside each other, and not for readers after its commit or rollback.
THEOREM TransKeysUnique ==
    ASSUME MemTables = {}
    PROVE  Spec => []KeysUnique
<1>1. Init => AInv
  BY InitAInv
<1>2. AInv /\ [Next]_vars => AInv'
  BY StepAInv
<1>3. AInv => KeysUnique
  <2>1. ASSUME AInv, NEW t \in Tables
        PROVE  IF tblLock[t] = NoConn THEN DistinctKeys(t, Committed(t))
               ELSE DistinctKeys(t, ValidRows(tblLock[t], t))
    <3>1. DistinctKeys(t, View(t))
      BY <2>1 DEF AInv, KInv
    <3> QED
      BY <3>1 DEF View
  <2> QED
    BY <2>1 DEF KeysUnique
<1> QED
  BY <1>1, <1>2, <1>3, PTL DEF Spec

-------------------------------------------------------------------------------
(* Atomic transactions.                                                     *)

RollingBack(t) == tblLock[t] # NoConn /\ pc[tblLock[t]] = "rollback"

\* The abstract contents in terms of the two sets of rows.
LEMMA DbWork ==
    ASSUME NEW t \in Tables
    PROVE  /\ DbOf(t) = Content(t, IF Committing(t) THEN View(t) ELSE Committed(t))
           /\ WorkOf(t) = Content(t, IF RollingBack(t) THEN Committed(t) ELSE View(t))
           /\ DbOf(t)' = Content(t, IF Committing(t) THEN View(t) ELSE Committed(t))'
           /\ WorkOf(t)' = Content(t, IF RollingBack(t) THEN Committed(t) ELSE View(t))'
<1>1. /\ DbOf(t) = Content(t, IF Committing(t) THEN View(t) ELSE Committed(t))
      /\ WorkOf(t) = Content(t, IF RollingBack(t) THEN Committed(t) ELSE View(t))
  BY DEF DbOf, WorkOf, View, Committing, RollingBack
<1>2. /\ DbOf(t)' = Content(t, IF Committing(t) THEN View(t) ELSE Committed(t))'
      /\ WorkOf(t)' = Content(t, IF RollingBack(t) THEN Committed(t) ELSE View(t))'
  BY DEF DbOf, WorkOf, View, Committing, RollingBack
<1> QED
  BY <1>1, <1>2

LEMMA StepRefines ==
    ASSUME MemTables = {}, AInv, AInv', [Next]_vars
    PROVE  [Abs!AbsNext]_(Abs!absVars)
<1> USE DEF AInv
<1>0. TypeOK
  BY DEF IInv, TInv
<1>n. NoConn \notin Conns
  BY TransAssumption
\* A step of the rows that no content shows.
<1>s. ASSUME \A t \in Tables : DbOf(t)' = DbOf(t) /\ WorkOf(t)' = WorkOf(t),
             tblLock' = tblLock
      PROVE  UNCHANGED Abs!absVars
  BY <1>s DEF Abs!absVars
<1>1. ASSUME NEW c \in Conns,
             \/ Begin(c) \/ Commit(c) \/ Rollback(c) \/ EndStatement(c) \/ Unlock(c)
             \/ \E t \in Tables : Statement(c, t) \/ LockTable(c, t)
      PROVE  [Abs!AbsNext]_(Abs!absVars)
  <2>1. Calm(c)
    BY <1>0, <1>1, CalmSteps
  <2>2. \/ /\ pc[c] \notin {"commit", "rollback"} /\ tblLock' = tblLock
        \/ /\ pc[c] \notin {"commit", "rollback"} /\ pc'[c] = "exec"
           /\ \E t \in Tables : tblLock[t] = NoConn /\ tblLock' = [tblLock EXCEPT ![t] = c]
        \/ /\ pc[c] \in {"commit", "rollback"} /\ pc'[c] = "idle"
           /\ tblLock' = [t \in Tables |-> IF tblLock[t] = c THEN NoConn ELSE tblLock[t]]
    BY <1>1, CalmKinds
  <2>3. ASSUME NEW t \in Tables
        PROVE  View(t)' = View(t) /\ Committed(t)' = Committed(t)
    <3>1. tblLock'[t] = tblLock[t] \/ tblLock[t] = NoConn \/ tblLock'[t] = NoConn
      BY <1>0, <2>2 DEF TypeOK
    <3> QED
      BY <2>1, <3>1, CalmViews DEF Calm
  <2>4. ASSUME NEW t \in Tables
        PROVE  /\ DbOf(t) = Content(t, IF Committing(t) THEN View(t) ELSE Committed(t))
               /\ WorkOf(t) = Content(t, IF RollingBack(t) THEN Committed(t) ELSE View(t))
               /\ DbOf(t)' = Content(t, IF Committing(t)' THEN View(t) ELSE Committed(t))
               /\ WorkOf(t)' = Content(t, IF RollingBack(t)' THEN Committed(t) ELSE View(t))
    BY <2>1, <2>3, DbWork DEF Calm, Content
  <2>5. /\ \A d \in Conns \ {c} : pc'[d] = pc[d]
        /\ \A t \in Tables : tblLock[t] # NoConn => tblLock[t] \in Conns
        /\ pc[c] \notin {"commit", "rollback"} \/ pc'[c] = "idle"
    BY <1>0, <2>1 DEF Calm, TypeOK
\* A table that another connection has locked, or none.
  <2>6. ASSUME NEW t \in Tables, tblLock[t] # c, tblLock'[t] = tblLock[t]
        PROVE  DbOf(t)' = DbOf(t) /\ WorkOf(t)' = WorkOf(t)
    <3>1. Committing(t)' = Committing(t) /\ RollingBack(t)' = RollingBack(t)
      BY <2>5, <2>6 DEF Committing, RollingBack
    <3> QED
      BY <2>4, <3>1
\* A table of this connection, before and after the step.
  <2>7. ASSUME NEW t \in Tables, tblLock[t] = c
        PROVE  /\ DbOf(t) = Content(t, IF pc[c] = "commit" THEN View(t) ELSE Committed(t))
               /\ WorkOf(t) = Content(t, IF pc[c] = "rollback" THEN Committed(t) ELSE View(t))
    BY <1>n, <2>4, <2>7 DEF Committing, RollingBack
  <2>8. ASSUME NEW t \in Tables, tblLock'[t] = c
        PROVE  /\ DbOf(t)' = Content(t, IF pc'[c] = "commit" THEN View(t) ELSE Committed(t))
               /\ WorkOf(t)' = Content(t, IF pc'[c] = "rollback" THEN Committed(t) ELSE View(t))
    BY <1>n, <2>4, <2>8 DEF Committing, RollingBack
\* A table nobody has locked.
  <2>9. /\ \A t \in Tables : tblLock[t] = NoConn =>
              DbOf(t) = Content(t, Committed(t)) /\ WorkOf(t) = Content(t, View(t))
        /\ \A t \in Tables : tblLock'[t] = NoConn =>
              DbOf(t)' = Content(t, Committed(t)) /\ WorkOf(t)' = Content(t, View(t))
    BY <2>4 DEF Committing, RollingBack
  <2>10. CASE /\ pc[c] \notin {"commit", "rollback"} /\ pc'[c] \notin {"commit", "rollback"}
              /\ tblLock' = tblLock
    <3>1. \A t \in Tables : DbOf(t)' = DbOf(t) /\ WorkOf(t)' = WorkOf(t)
      BY <2>6, <2>7, <2>8, <2>10
    <3> QED
      BY <1>s, <2>10, <3>1
  <2>11. CASE /\ pc[c] \notin {"commit", "rollback"} /\ pc'[c] = "commit"
              /\ tblLock' = tblLock
    <3>1. \A t \in Tables : /\ DbOf(t)' = IF tblLock[t] = c THEN WorkOf(t) ELSE DbOf(t)
                            /\ WorkOf(t)' = WorkOf(t)
      BY <2>6, <2>7, <2>8, <2>11
    <3>2. Abs!Publish(c)
      BY <2>11, <3>1 DEF Abs!Publish
    <3> QED
      BY <3>2 DEF Abs!AbsNext
  <2>12. CASE /\ pc[c] \notin {"commit", "rollback"} /\ pc'[c] = "rollback"
              /\ tblLock' = tblLock
    <3>1. \A t \in Tables : /\ DbOf(t)' = DbOf(t)
                            /\ WorkOf(t)' = IF tblLock[t] = c THEN DbOf(t) ELSE WorkOf(t)
      BY <2>6, <2>7, <2>8, <2>12
    <3>2. Abs!Discard(c)
      BY <2>12, <3>1 DEF Abs!Discard
    <3> QED
      BY <3>2 DEF Abs!AbsNext
  <2>13. ASSUME NEW t \in Tables, pc[c] \notin {"commit", "rollback"}, pc'[c] = "exec",
                tblLock[t] = NoConn, tblLock' = [tblLock EXCEPT ![t] = c]
         PROVE  Abs!AbsNext
    <3>1. ASSUME NEW u \in Tables PROVE tblLock'[u] = IF u = t THEN c ELSE tblLock[u]
      BY <1>0, <2>13 DEF TypeOK
    <3>2. ASSUME NEW u \in Tables PROVE DbOf(u)' = DbOf(u) /\ WorkOf(u)' = WorkOf(u)
      <4>1. CASE u = t
        BY <2>8, <2>9, <2>13, <3>1, <4>1
      <4>2. CASE u # t /\ tblLock[u] = c
        BY <2>7, <2>8, <2>13, <3>1, <4>2
      <4>3. CASE u # t /\ tblLock[u] # c
        BY <2>6, <3>1, <4>3
      <4> QED
        BY <4>1, <4>2, <4>3
    <3>3. Abs!Acquire(c, t)
      BY <2>13, <3>2 DEF Abs!Acquire
    <3> QED
      BY <3>3 DEF Abs!AbsNext
  <2>14. CASE /\ pc[c] \in {"commit", "rollback"}
              /\ tblLock' = [t \in Tables |-> IF tblLock[t] = c THEN NoConn ELSE tblLock[t]]
    <3>1. ASSUME NEW t \in Tables, tblLock[t] = c PROVE View(t) = Committed(t)
      <4>1. tblLock'[t] = NoConn
        BY <2>14, <3>1
      <4>2. View(t)' = Committed(t)'
        BY <4>1 DEF View
      <4> QED
        BY <2>3, <4>2
    <3>2. ASSUME NEW t \in Tables
          PROVE  /\ DbOf(t)' = DbOf(t) /\ WorkOf(t)' = WorkOf(t)
                 /\ tblLock[t] = c => WorkOf(t) = DbOf(t)
      <4>1. CASE tblLock[t] = c
        <5>1. tblLock'[t] = NoConn
          BY <2>14, <4>1
        <5> QED
          BY <2>7, <2>9, <3>1, <4>1, <5>1
      <4>2. CASE tblLock[t] # c
        BY <2>6, <2>14, <4>2
      <4> QED
        BY <4>1, <4>2
    <3>3. Abs!Release(c)
      BY <2>14, <3>2 DEF Abs!Release
    <3> QED
      BY <3>3 DEF Abs!AbsNext
  <2> QED
    BY <2>2, <2>10, <2>11, <2>12, <2>13, <2>14
<1>2. ASSUME NEW c \in Conns, NEW t \in Tables, Exec(c, t) PROVE Abs!Write(c, t)
  <2>1. /\ tblLock[t] = c /\ tblLock' = tblLock
        /\ \A u \in Tables : Committed(u)' = Committed(u) /\ SameRows(u, Committed(u))
        /\ \A u \in Tables \ {t} : View(u)' = View(u) /\ SameRows(u, View(u))
    BY <1>2, ExecViews
  <2>2. pc[c] = "exec" /\ pc' = [pc EXCEPT ![c] = "done"]
    BY <1>2 DEF Exec
  <2>3. ASSUME NEW u \in Tables
        PROVE  /\ Committing(u)' = Committing(u) /\ RollingBack(u)' = RollingBack(u)
               /\ u = t => ~Committing(u) /\ ~RollingBack(u)
    BY <1>0, <1>n, <2>1, <2>2 DEF Committing, RollingBack, TypeOK
  <2>4. ASSUME NEW u \in Tables
        PROVE  DbOf(u)' = DbOf(u) /\ (u # t => WorkOf(u)' = WorkOf(u))
    <3>1. /\ Content(u, Committed(u))' = Content(u, Committed(u))
          /\ u # t => Content(u, View(u))' = Content(u, View(u))
      BY <2>1 DEF Content, SameRows
    <3> QED
      BY <2>3, <3>1, DbWork
  <2>5. WorkOf(t)' = Content(t, View(t))'
    BY <2>3, DbWork
  <2>6. WorkOf(t)' \in SUBSET Records
    <3>1. \A r \in View(t)' : row'[t][r] \in Records
      BY DEF View, Committed, ValidRows, Valid, IInv, TInv, RowsFilled, FREE, COMMIT, TRANS
    <3> QED
      BY <2>5, <3>1 DEF Content
  <2>7. Abs!UniqueKeys(WorkOf(t)')
    <3>1. DistinctKeys(t, View(t))'
      BY DEF KInv
    <3> QED
      BY <2>5, <3>1 DEF Abs!UniqueKeys, Content, DistinctKeys
  <2> QED
    BY <2>1, <2>4, <2>6, <2>7 DEF Abs!Write
<1>3. ASSUME NEW c \in Conns, NEW t \in Tables, NEW r \in Rows,
             CommitNew(c, t, r) \/ CommitDel(c, t, r) \/ RollbackNew(c, t, r)
      PROVE  UNCHANGED Abs!absVars
  <2>1. /\ tblLock[t] = c /\ UNCHANGED <<tblLock, pc>>
        /\ \A u \in Tables \ {t} : /\ View(u)' = View(u) /\ Committed(u)' = Committed(u)
                                   /\ SameRows(u, Rows)
        /\ pc[c] = "commit" => View(t)' = View(t) /\ SameRows(t, View(t))
        /\ pc[c] = "rollback" => Committed(t)' = Committed(t) /\ SameRows(t, Committed(t))
        /\ pc[c] \in {"commit", "rollback"}
    BY <1>3, VisitViews
  <2>2. ASSUME NEW u \in Tables
        PROVE  Committing(u)' = Committing(u) /\ RollingBack(u)' = RollingBack(u)
    BY <2>1 DEF Committing, RollingBack
  <2>3. ASSUME NEW u \in Tables \ {t}
        PROVE  DbOf(u)' = DbOf(u) /\ WorkOf(u)' = WorkOf(u)
    <3>1. View(u) \subseteq Rows /\ Committed(u) \subseteq Rows
      BY DEF View, Committed, ValidRows
    <3>2. /\ Content(u, Committed(u))' = Content(u, Committed(u))
          /\ Content(u, View(u))' = Content(u, View(u))
      BY <2>1, <3>1 DEF Content, SameRows
    <3> QED
      BY <2>2, <3>2, DbWork
  <2>4. DbOf(t)' = DbOf(t) /\ WorkOf(t)' = WorkOf(t)
    <3>1. /\ Committing(t) <=> pc[c] = "commit"
          /\ RollingBack(t) <=> pc[c] = "rollback"
      BY <1>n, <2>1 DEF Committing, RollingBack
    <3>2. CASE pc[c] = "commit"
      <4>1. Content(t, View(t))' = Content(t, View(t))
        BY <2>1, <3>2 DEF Content, SameRows
      <4> QED
        BY <2>2, <3>1, <3>2, <4>1, DbWork
    <3>3. CASE pc[c] = "rollback"
      <4>1. Content(t, Committed(t))' = Content(t, Committed(t))
        BY <2>1, <3>3 DEF Content, SameRows
      <4> QED
        BY <2>2, <3>1, <3>3, <4>1, DbWork
    <3> QED
      BY <2>1, <3>2, <3>3
  <2> QED
    BY <1>s, <2>1, <2>3, <2>4
<1>4. ASSUME NEW c \in Conns, NEW t \in Tables, TableDone(c, t)
      PROVE  UNCHANGED Abs!absVars
  <2>1. /\ UNCHANGED <<ctrl, row, tblLock, pc>>
        /\ \A u \in Tables : Committed(u)' = Committed(u)
        /\ \A u \in Tables : tblLock[u] # NoConn /\ pc[tblLock[u]] # "rollback"
                                => View(u)' = View(u)
    BY <1>4, DoneViews
  <2>2. ASSUME NEW u \in Tables PROVE DbOf(u)' = DbOf(u) /\ WorkOf(u)' = WorkOf(u)
    <3>1. Committing(u)' = Committing(u) /\ RollingBack(u)' = RollingBack(u)
      BY <2>1 DEF Committing, RollingBack
    <3>2. CASE RollingBack(u)
      <4>1. Content(u, Committed(u))' = Content(u, Committed(u)) /\ ~Committing(u)
        BY <2>1, <3>2 DEF Content, Committing, RollingBack
      <4> QED
        BY <3>1, <3>2, <4>1, DbWork
    <3>3. CASE ~RollingBack(u)
      <4>1. View(u)' = View(u)
        BY <2>1, <3>3 DEF View, RollingBack
      <4>2. /\ Content(u, View(u))' = Content(u, View(u))
            /\ Content(u, Committed(u))' = Content(u, Committed(u))
        BY <2>1, <4>1 DEF Content
      <4> QED
        BY <3>1, <3>3, <4>2, DbWork
    <3> QED
      BY <3>2, <3>3
  <2> QED
    BY <1>s, <2>1, <2>2
<1>5. ASSUME UNCHANGED vars PROVE UNCHANGED Abs!absVars
  <2>1. /\ UNCHANGED <<ctrl, row, newRows, delRows, tblLock, pc>>
    BY <1>5 DEF vars, rowVars, setVars, lockVars
  <2> QED
    BY <1>s, <2>1 DEF DbOf, WorkOf, Content, Committing, Committed, ValidRows, Valid
<1> QED
  <2> HIDE DEF AInv
  <2> QED
    BY <1>1, <1>2, <1>3, <1>4, <1>5 DEF Next, Walk, Abs!AbsNext

\* A new database is empty in the abstract too.
LEMMA InitRefines == Init => Abs!AbsInit
BY DEF Init, Abs!AbsInit, DbOf, WorkOf, Content, Committing, Committed, FREE, COMMIT

\* Disk tables implement atomic transactions: readers that look at the abstract
\* content see a commit at once, in all its tables, and never a part of a
\* rollback, however the walks over the rows interleave.
THEOREM TransRefinement ==
    ASSUME MemTables = {}
    PROVE  Spec => ImplementsTransactions
<1>1. Init => AInv /\ Abs!AbsInit
  BY InitAInv, InitRefines
<1>2. AInv /\ [Next]_vars => AInv'
  BY StepAInv
<1>3. AInv /\ AInv' /\ [Next]_vars => [Abs!AbsNext]_(Abs!absVars)
  BY StepRefines
<1> QED
  BY <1>1, <1>2, <1>3, PTL DEF Spec, ImplementsTransactions, Abs!AbsSpec

-------------------------------------------------------------------------------
(* SELECT.                                                                  *)

SelVars == <<vars, selVars, ghostVars>>

\* The steps of a SELECT of c.
Reads(c) ==
    \/ \E t \in Tables : Select(c, t)
    \/ \E r \in Rows : FilterRow(c, r) \/ CopyRow(c, r)
    \/ EndSelect(c)

-------------------------------------------------------------------------------
(* What a SELECT leaves alone, and what goes on beside one.                 *)

\* A SELECT changes nothing that a transaction looks at.
LEMMA ReadSteps ==
    ASSUME TypeOK, NEW c \in Conns, Reads(c)
    PROVE  /\ UNCHANGED <<rowVars, setVars, walkVars, connVars, lockVars>>
           /\ \A d \in Conns \ {c} : pc'[d] = pc[d] /\ stmt'[d] = stmt[d]
           /\ {pc[c], pc'[c]} \subseteq {"idle", "select"}
<1>1. ASSUME NEW t \in Tables, Select(c, t)
      PROVE  /\ UNCHANGED <<rowVars, setVars, walkVars, connVars, lockVars>>
             /\ \A d \in Conns \ {c} : pc'[d] = pc[d] /\ stmt'[d] = stmt[d]
             /\ {pc[c], pc'[c]} \subseteq {"idle", "select"}
  BY <1>1 DEF Select, TypeOK
<1>2. ASSUME NEW r \in Rows, FilterRow(c, r) \/ CopyRow(c, r)
      PROVE  /\ UNCHANGED <<rowVars, setVars, walkVars, connVars, lockVars>>
             /\ \A d \in Conns \ {c} : pc'[d] = pc[d] /\ stmt'[d] = stmt[d]
             /\ {pc[c], pc'[c]} \subseteq {"idle", "select"}
  BY <1>2 DEF FilterRow, CopyRow, vars
<1>3. CASE EndSelect(c)
  BY <1>3 DEF EndSelect, Answered, TypeOK
<1> QED
  BY <1>1, <1>2, <1>3 DEF Reads

LEMMA ReadTypes ==
    ASSUME TypeOK, NEW c \in Conns, Reads(c)
    PROVE  TypeOK'
<1>1. ASSUME NEW t \in Tables, Select(c, t)
      PROVE  /\ pc' \in [Conns -> States] /\ stmt' \in [Conns -> Tables \union {NoTable}]
             /\ readers' \in [Tables -> SUBSET Conns]
  BY <1>1 DEF Select, TypeOK, States
<1>2. ASSUME NEW r \in Rows, FilterRow(c, r) \/ CopyRow(c, r)
      PROVE  /\ pc' \in [Conns -> States] /\ stmt' \in [Conns -> Tables \union {NoTable}]
             /\ readers' \in [Tables -> SUBSET Conns]
  BY <1>2 DEF FilterRow, CopyRow, vars, TypeOK
<1>3. CASE EndSelect(c)
  <2>1. pc' \in [Conns -> States] /\ stmt' \in [Conns -> Tables \union {NoTable}]
    BY <1>3 DEF EndSelect, TypeOK, States
  <2>2. readers' \in [Tables -> SUBSET Conns]
    BY <1>3 DEF EndSelect, TypeOK
  <2> QED
    BY <1>3, <2>1, <2>2, ReadSteps DEF TypeOK, rowVars, setVars, walkVars, connVars, lockVars
<1>4. UNCHANGED <<rowVars, setVars, walkVars, connVars, lockVars>>
  BY ReadSteps
<1> QED
  BY <1>1, <1>2, <1>3, <1>4 DEF Reads, TypeOK, rowVars, setVars, walkVars, connVars, lockVars

LEMMA ReadAInv ==
    ASSUME AInv, NEW c \in Conns, Reads(c)
    PROVE  AInv'
<1>0. TypeOK
  BY DEF AInv, IInv, TInv
<1>1. /\ UNCHANGED <<ctrl, row, idx, tblRows, newRows, delRows, todo, toNew, toDel,
                     tblLock, wrLocks>>
      /\ \A d \in Conns : /\ pc'[d] \in {"exec", "commit", "rollback"} => d # c
                          /\ pc[d] \in {"exec", "commit", "rollback"} => d # c
                          /\ d # c => pc'[d] = pc[d] /\ stmt'[d] = stmt[d]
  BY <1>0, ReadSteps DEF rowVars, setVars, walkVars, lockVars
<1>2. TInv'
  BY <1>0, <1>1, ReadTypes DEF AInv, IInv, TInv, RowsFilled
<1>3. WInv'
  BY <1>1 DEF AInv, IInv, WInv, LockCoversRows, ExecLocked, WalkOK
<1>4. OInv'
  <2>1. ASSUME NEW d \in Conns, NEW t \in Tables
        PROVE  OpenNew(d, t)' = OpenNew(d, t) /\ OpenDel(d, t)' \subseteq OpenDel(d, t)
    BY <1>1 DEF OpenNew, OpenDel
  <2> QED
    BY <1>1, <2>1, SameOpen DEF AInv, IInv
<1>5. IndexExact' /\ WalkDone'
  BY <1>1 DEF AInv, IInv, IndexExact, WalkDone
<1>6. KInv'
  <2>1. ASSUME NEW t \in Tables PROVE Committing(t)' = Committing(t)
    BY <1>0, <1>1 DEF Committing, TypeOK
  <2>2. ASSUME NEW t \in Tables
        PROVE  /\ DistinctKeys(t, View(t))' <=> DistinctKeys(t, View(t))
               /\ DistinctKeys(t, Committed(t))' <=> DistinctKeys(t, Committed(t))
    BY <1>1 DEF DistinctKeys, View, Committed, ValidRows, Valid
  <2> QED
    BY <2>1, <2>2 DEF AInv, KInv
<1> QED
  BY <1>2, <1>3, <1>4, <1>5, <1>6 DEF AInv, IInv

\* The other steps begin and end no SELECT, and leave those in progress alone.
LEMMA Bystander ==
    ASSUME TypeOK, Next, NEW c \in Conns
    PROVE  /\ pc'[c] = "select" <=> pc[c] = "select"
           /\ pc[c] = "select" => stmt'[c] = stmt[c]
           /\ readers' = readers
<1> DEFINE Goal == /\ pc'[c] = "select" <=> pc[c] = "select"
                   /\ pc[c] = "select" => stmt'[c] = stmt[c]
                   /\ readers' = readers
<1>1. ASSUME NEW d \in Conns,
             Begin(d) \/ Commit(d) \/ Rollback(d) \/ EndStatement(d) \/ Unlock(d)
      PROVE  Goal
  BY <1>1 DEF Begin, Commit, StartCommit, Rollback, EndStatement, Unlock, MayUnlock, TypeOK
<1>2. ASSUME NEW d \in Conns, NEW t \in Tables, Statement(d, t) \/ LockTable(d, t) \/ Exec(d, t)
      PROVE  Goal
  BY <1>2 DEF Statement, LockTable, Exec, TypeOK
<1>3. ASSUME NEW d \in Conns, NEW t \in Tables, NEW r \in Rows,
             CommitNew(d, t, r) \/ CommitDel(d, t, r) \/ RollbackNew(d, t, r)
      PROVE  Goal
  BY <1>3 DEF CommitNew, CommitDel, RollbackNew
<1>4. ASSUME NEW d \in Conns, NEW t \in Tables, TableDone(d, t) PROVE Goal
  BY <1>4 DEF TableDone
<1> QED
  BY <1>1, <1>2, <1>3, <1>4 DEF Next, Walk

\* What the others do to the rows of its table: the storage read lock keeps
\* statements out, so that a row changes only when a walk frees it; and nothing
\* happens to the rows it sees when it has the table locked itself, or as long as
\* no commit of the table walks.
LEMMA Beside ==
    ASSUME MemTables = {}, AInv, AInv', Next, NEW c \in Conns, NEW t \in Tables,
           pc[c] = "select", stmt[c] = t, c \in readers[t]
    PROVE  /\ tblLock'[t] = c <=> tblLock[t] = c
           /\ \A r \in Rows : row'[t][r] \in {row[t][r], Junk}
           /\ tblLock[t] = c \/ (~Committing(t) /\ ~Committing(t)') =>
                  ValidRows(c, t)' = ValidRows(c, t) /\ SameRows(t, ValidRows(c, t))
<1> USE DEF AInv
<1>0. TypeOK
  BY DEF IInv, TInv
<1>1. tblLock[t] = c => View(t) = ValidRows(c, t)
  BY TransAssumption DEF View
<1>2. tblLock'[t] = c => View(t)' = ValidRows(c, t)'
  BY TransAssumption DEF View
<1>3. tblLock[t] # c => ValidRows(c, t) = Committed(t)
  <2>1. tblLock[t] # c => newRows[c][t] = {} /\ delRows[c][t] = {}
    BY DEF IInv, WInv, LockCoversRows
  <2> QED
    BY <2>1 DEF ValidRows, Valid, Committed
<1>4. tblLock'[t] # c => ValidRows(c, t)' = Committed(t)'
  <2>1. tblLock'[t] # c => newRows'[c][t] = {} /\ delRows'[c][t] = {}
    BY DEF IInv, WInv, LockCoversRows
  <2> QED
    BY <2>1 DEF ValidRows, Valid, Committed
\* What has to be shown, in terms of views and committed rows.
<1>5. ASSUME tblLock'[t] = c <=> tblLock[t] = c,
             \A r \in Rows : row'[t][r] \in {row[t][r], Junk},
             tblLock[t] = c => View(t)' = View(t) /\ SameRows(t, View(t)),
             tblLock[t] # c /\ ~Committing(t) /\ ~Committing(t)' =>
                Committed(t)' = Committed(t) /\ SameRows(t, Committed(t))
      PROVE  /\ tblLock'[t] = c <=> tblLock[t] = c
             /\ \A r \in Rows : row'[t][r] \in {row[t][r], Junk}
             /\ tblLock[t] = c \/ (~Committing(t) /\ ~Committing(t)') =>
                    ValidRows(c, t)' = ValidRows(c, t) /\ SameRows(t, ValidRows(c, t))
  BY <1>1, <1>2, <1>3, <1>4, <1>5
<1> HIDE DEF AInv
<1> DEFINE Goal == /\ tblLock'[t] = c <=> tblLock[t] = c
                   /\ \A r \in Rows : row'[t][r] \in {row[t][r], Junk}
                   /\ tblLock[t] = c => View(t)' = View(t) /\ SameRows(t, View(t))
                   /\ tblLock[t] # c /\ ~Committing(t) /\ ~Committing(t)' =>
                         Committed(t)' = Committed(t) /\ SameRows(t, Committed(t))
<1>6. ASSUME NEW d \in Conns,
             \/ Begin(d) \/ Commit(d) \/ Rollback(d) \/ EndStatement(d) \/ Unlock(d)
             \/ \E u \in Tables : Statement(d, u) \/ LockTable(d, u)
      PROVE  Goal
  <2>1. d # c
    BY <1>6 DEF Begin, Commit, Rollback, EndStatement, Unlock, MayUnlock, Statement, LockTable
  <2>2. /\ UNCHANGED <<ctrl, row, newRows, delRows>>
        /\ \/ tblLock' = tblLock
           \/ \E u \in Tables : tblLock[u] = NoConn /\ tblLock' = [tblLock EXCEPT ![u] = d]
           \/ tblLock' = [u \in Tables |-> IF tblLock[u] = d THEN NoConn ELSE tblLock[u]]
    BY <1>0, <1>6, CalmSteps, CalmKinds DEF Calm, AInv
  <2>3. /\ tblLock'[t] = c <=> tblLock[t] = c
        /\ tblLock'[t] = tblLock[t] \/ tblLock[t] = NoConn \/ tblLock'[t] = NoConn
    BY <1>0, <2>1, <2>2, TransAssumption DEF TypeOK
  <2>4. View(t)' = View(t) /\ Committed(t)' = Committed(t)
    BY <2>2, <2>3, CalmViews DEF AInv
  <2> QED
    BY <2>2, <2>3, <2>4 DEF SameRows
<1>7. ASSUME NEW d \in Conns, NEW u \in Tables, Exec(d, u) PROVE Goal
  <2>1. u # t
    BY <1>7 DEF Exec
  <2>2. /\ tblLock' = tblLock
        /\ Committed(t)' = Committed(t) /\ SameRows(t, Committed(t))
        /\ View(t)' = View(t) /\ SameRows(t, View(t))
    BY <1>7, <2>1, ExecViews DEF AInv
  <2>3. row'[t] = row[t]
    <3>1. ASSUME NEW gone, NEW used, NEW rec, Change(d, u, gone, used, rec)
          PROVE  row'[t] = row[t]
      <4>1. PICK now : Effect(d, u, gone, used, rec, now)
        BY <3>1, ChangeEffect
      <4> QED
        BY <1>0, <2>1, <4>1 DEF Effect, TypeOK
    <3>2. ASSUME InPlace(d, u) PROVE row'[t] = row[t]
      BY <1>0, <2>1, <3>2 DEF InPlace, TypeOK
    <3> QED
      BY <1>7, <3>1, <3>2, ExecCases DEF AInv, IInv, NoChange, rowVars
  <2> QED
    BY <2>2, <2>3
<1>8. ASSUME NEW d \in Conns, NEW u \in Tables, NEW r \in Rows,
             CommitNew(d, u, r) \/ CommitDel(d, u, r) \/ RollbackNew(d, u, r)
      PROVE  Goal
  <2>1. /\ tblLock[u] = d /\ UNCHANGED <<tblLock, pc>>
        /\ t # u => /\ View(t)' = View(t) /\ Committed(t)' = Committed(t)
                    /\ SameRows(t, Rows)
        /\ pc[d] = "rollback" => Committed(u)' = Committed(u) /\ SameRows(u, Committed(u))
        /\ pc[d] \in {"commit", "rollback"}
    BY <1>8, VisitViews DEF AInv
  <2>2. \A q \in Rows : row'[t][q] \in {row[t][q], Junk}
    BY <1>0, <1>8 DEF CommitNew, CommitDel, RollbackNew, FreeRow, TypeOK
  <2>3. t = u => tblLock[t] # c /\ (Committing(t) \/ pc[d] = "rollback")
    BY <2>1, TransAssumption DEF Committing
  <2>4. View(t) \subseteq Rows /\ Committed(t) \subseteq Rows
    BY DEF View, Committed, ValidRows
  <2> QED
    BY <2>1, <2>2, <2>3, <2>4 DEF SameRows
<1>9. ASSUME NEW d \in Conns, NEW u \in Tables, TableDone(d, u) PROVE Goal
  <2>1. /\ UNCHANGED <<ctrl, row, tblLock, pc>>
        /\ Committed(t)' = Committed(t)
        /\ tblLock[t] # NoConn /\ pc[tblLock[t]] # "rollback" => View(t)' = View(t)
    BY <1>9, DoneViews DEF AInv
  <2> QED
    BY <2>1, TransAssumption DEF SameRows
<1>10. Goal
  BY <1>6, <1>7, <1>8, <1>9 DEF Next, Walk
<1> QED
  BY <1>5, <1>10

\* The committed rows that the transaction replaces or deletes, while its commit
\* walks: none comes to them, and those that stay keep their content.
Replaced(t) == Committed(t) \intersect delRows[tblLock[t]][t]

LEMMA WalkReplaces ==
    ASSUME MemTables = {}, AInv, AInv', Next, NEW t \in Tables,
           Committing(t), Committing(t)'
    PROVE  \A r \in Replaced(t)' : r \in Replaced(t) /\ row'[t][r] = row[t][r]
<1>0. TypeOK
  BY DEF AInv, IInv, TInv
<1>c. tblLock[t] \in Conns /\ pc[tblLock[t]] = "commit"
  BY <1>0 DEF Committing, TypeOK
<1>1. ASSUME NEW d \in Conns,
             \/ Begin(d) \/ Commit(d) \/ Rollback(d) \/ EndStatement(d) \/ Unlock(d)
             \/ \E u \in Tables : Statement(d, u) \/ LockTable(d, u)
      PROVE  \A r \in Replaced(t)' : r \in Replaced(t) /\ row'[t][r] = row[t][r]
  <2>1. /\ UNCHANGED <<ctrl, row, newRows, delRows>>
        /\ \/ tblLock' = tblLock
           \/ \E u \in Tables : tblLock[u] = NoConn /\ tblLock' = [tblLock EXCEPT ![u] = d]
           \/ tblLock' = [u \in Tables |-> IF tblLock[u] = d THEN NoConn ELSE tblLock[u]]
    BY <1>0, <1>1, CalmSteps, CalmKinds DEF Calm, AInv
  <2>2. tblLock'[t] # NoConn /\ tblLock[t] # NoConn
    BY DEF Committing
  <2>3. tblLock'[t] = tblLock[t]
    BY <1>0, <2>1, <2>2 DEF TypeOK
  <2> QED
    BY <2>1, <2>3 DEF Replaced, Committed
<1>2. ASSUME NEW d \in Conns, NEW u \in Tables, Exec(d, u)
      PROVE  \A r \in Replaced(t)' : r \in Replaced(t) /\ row'[t][r] = row[t][r]
  <2>1. /\ tblLock' = tblLock
        /\ Committed(t)' = Committed(t) /\ SameRows(t, Committed(t))
    BY <1>2, ExecViews DEF AInv
  <2>2. tblLock[t] # d
    BY <1>2, <1>c DEF Exec
  <2>3. delRows'[tblLock[t]][t] = delRows[tblLock[t]][t]
    <3>1. ASSUME NEW gone, NEW used, NEW rec, Change(d, u, gone, used, rec)
          PROVE  delRows'[tblLock[t]] = delRows[tblLock[t]]
      <4>1. PICK now : Effect(d, u, gone, used, rec, now)
        BY <3>1, ChangeEffect
      <4> QED
        BY <1>0, <1>c, <2>2, <4>1 DEF Effect, TypeOK
    <3> QED
      BY <1>2, <3>1, ExecCases DEF AInv, IInv, NoChange, InPlace, setVars
  <2> QED
    BY <2>1, <2>3 DEF Replaced, SameRows
<1>3. ASSUME NEW d \in Conns, NEW u \in Tables, NEW r \in Rows,
             CommitNew(d, u, r) \/ CommitDel(d, u, r) \/ RollbackNew(d, u, r)
      PROVE  \A q \in Replaced(t)' : q \in Replaced(t) /\ row'[t][q] = row[t][q]
  <2>1. PICK to : /\ Visit(d, u, r, to)
                  /\ \/ CommitNew(d, u, r) /\ to = COMMIT
                     \/ CommitDel(d, u, r) /\ to = FREE
                     \/ RollbackNew(d, u, r) /\ to = FREE
    BY <1>3, VisitEffect DEF AInv
  <2>2. tblLock[u] = d /\ (CommitNew(d, u, r) => r \notin delRows[d][u])
    BY <1>3, Visited DEF AInv
  <2>3. /\ UNCHANGED <<delRows, tblLock>>
        /\ \A q \in Rows : /\ ctrl'[t][q] = IF t = u /\ q = r THEN to ELSE ctrl[t][q]
                           /\ t # u \/ q # r => row'[t][q] = row[t][q]
    BY <2>1 DEF Visit
  <2>4. t = u => r \notin Replaced(t)'
    BY <2>1, <2>2, <2>3 DEF Replaced, Committed, FREE, COMMIT
  <2> QED
    BY <2>3, <2>4 DEF Replaced, Committed
<1>4. ASSUME NEW d \in Conns, NEW u \in Tables, TableDone(d, u)
      PROVE  \A r \in Replaced(t)' : r \in Replaced(t) /\ row'[t][r] = row[t][r]
  <2>1. /\ UNCHANGED <<ctrl, row, tblLock>> /\ delRows' = [delRows EXCEPT ![d][u] = {}]
    BY <1>4 DEF TableDone, rowVars, lockVars
  <2>2. delRows'[tblLock[t]][t] \subseteq delRows[tblLock[t]][t]
    BY <1>0, <1>c, <2>1 DEF TypeOK
  <2> QED
    BY <2>1, <2>2 DEF Replaced, Committed
<1> QED
  BY <1>1, <1>2, <1>3, <1>4 DEF Next, Walk

\* A commit that starts finds the content before it in the committed rows.
LEMMA WalkStarts ==
    ASSUME MemTables = {}, AInv, Next, NEW t \in Tables,
           ~Committing(t), Committing(t)'
    PROVE  \A r \in Committed(t)' : r \in Committed(t) /\ row'[t][r] = row[t][r]
<1>0. TypeOK
  BY DEF AInv, IInv, TInv
<1>1. ASSUME NEW d \in Conns,
             \/ Begin(d) \/ Commit(d) \/ Rollback(d) \/ EndStatement(d) \/ Unlock(d)
             \/ \E u \in Tables : Statement(d, u) \/ LockTable(d, u)
      PROVE  UNCHANGED <<ctrl, row>>
  BY <1>0, <1>1, CalmSteps DEF Calm
<1>2. ASSUME NEW d \in Conns, NEW u \in Tables, Exec(d, u)
      PROVE  \A r \in Committed(t)' : r \in Committed(t) /\ row'[t][r] = row[t][r]
  BY <1>2, ExecViews DEF AInv, SameRows
<1>3. ASSUME NEW d \in Conns, NEW u \in Tables, NEW r \in Rows,
             CommitNew(d, u, r) \/ CommitDel(d, u, r) \/ RollbackNew(d, u, r)
      PROVE  FALSE
  BY <1>3, VisitViews DEF AInv, Committing
<1>4. ASSUME NEW d \in Conns, NEW u \in Tables, TableDone(d, u)
      PROVE  UNCHANGED <<ctrl, row>>
  BY <1>4 DEF TableDone, rowVars
<1> QED
  BY <1>1, <1>2, <1>3, <1>4 DEF Next, Walk, Committed

-------------------------------------------------------------------------------
(* The invariant of SELECT.                                                 *)

SelTypes ==
    /\ scan \in [Conns -> SUBSET Rows]
    /\ rowset \in [Conns -> SUBSET Rows]
    /\ out \in [Conns -> SUBSET (Records \union {Junk})]

\* The history has the content before a commit: of the rows that it replaces while
\* it walks, of all of them otherwise.
BeforeOK ==
    \A t \in Tables : IF Committing(t) THEN \A r \in Replaced(t) : row[t][r] \in before[t]
                      ELSE before[t] = DbOf(t)

Seen(c) == (UNION views[c]) \union {Junk}

\* What c sees does not change under its SELECT.
Steady(c) == tblLock[stmt[c]] = c \/ ~disturbed[c]

\* Then what is copied, found or still to be looked at makes up the content.
Exact(c, t) ==
    /\ rowset[c] \subseteq ValidRows(c, t)
    /\ Content(t, ValidRows(c, t)) =
          out[c] \union Content(t, rowset[c] \union (scan[c] \intersect ValidRows(c, t)))

\* A SELECT in progress: a row in row_set was in a content of the table when it
\* was found, and a walk can only have freed it since.
SelectOK(c) ==
    /\ stmt[c] \in Tables /\ c \in readers[stmt[c]]
    /\ ViewsOf(c, stmt[c]) \subseteq views[c]
    /\ \A r \in rowset[c] : row[stmt[c]][r] \in Seen(c)
    /\ out[c] \subseteq Seen(c)
    /\ Committing(stmt[c]) => disturbed[c]
    /\ Steady(c) => Exact(c, stmt[c])

SelectsOK ==
    \A c \in Conns : IF pc[c] = "select" THEN SelectOK(c) ELSE rowset[c] = {} /\ out[c] = {}

SelInv == AInv /\ SelTypes /\ BeforeOK /\ SelectsOK

\* A row that passes the filter is in a content that is a right answer then.
LEMMA ValidSeen ==
    ASSUME SelInv, NEW c \in Conns, pc[c] = "select", NEW r \in ValidRows(c, stmt[c])
    PROVE  row[stmt[c]][r] \in Seen(c)
<1> DEFINE t == stmt[c]
<1>0. t \in Tables /\ ViewsOf(c, t) \subseteq views[c] /\ r \in Rows
  BY DEF SelInv, SelectsOK, SelectOK, ValidRows
<1>1. CASE tblLock[t] = c
  <2>1. WorkOf(t) = Content(t, ValidRows(c, t))
    BY <1>1, TransAssumption DEF WorkOf
  <2>2. WorkOf(t) \in views[c]
    BY <1>0, <1>1 DEF ViewsOf
  <2> QED
    BY <2>1, <2>2 DEF Content, Seen
<1>2. CASE tblLock[t] # c
  <2>1. newRows[c][t] = {} /\ delRows[c][t] = {}
    BY <1>0, <1>2 DEF SelInv, AInv, IInv, WInv, LockCoversRows
  <2>2. r \in Committed(t)
    BY <2>1 DEF ValidRows, Valid, Committed
  <2>3. DbOf(t) \in views[c] /\ before[t] \in views[c]
    BY <1>0, <1>2 DEF ViewsOf
  <2>4. CASE ~Committing(t)
    <3>1. row[t][r] \in DbOf(t)
      BY <2>2, <2>4 DEF DbOf, Content
    <3> QED
      BY <2>3, <3>1 DEF Seen
  <2>5. CASE Committing(t) /\ r \in Replaced(t)
    <3>1. row[t][r] \in before[t]
      BY <1>0, <2>5 DEF SelInv, BeforeOK
    <3> QED
      BY <2>3, <3>1 DEF Seen
  <2>6. CASE Committing(t) /\ r \notin Replaced(t)
    <3>1. r \in ValidRows(tblLock[t], t)
      BY <1>0, <2>2, <2>6 DEF Replaced, Committed, ValidRows, Valid
    <3>2. row[t][r] \in DbOf(t)
      BY <2>6, <3>1 DEF DbOf, Content
    <3> QED
      BY <2>3, <3>2 DEF Seen
  <2> QED
    BY <2>4, <2>5, <2>6
<1> QED
  BY <1>1, <1>2

LEMMA InitSel == SelInit => SelInv
<1> SUFFICES ASSUME SelInit PROVE SelInv
  OBVIOUS
<1>1. AInv
  BY InitAInv DEF SelInit
<1>2. SelTypes
  BY DEF SelInit, SelTypes
<1>3. \A t \in Tables : ~Committing(t) /\ DbOf(t) = {}
  BY DEF SelInit, Init, Committing, DbOf, Content, Committed, FREE, COMMIT
<1>4. BeforeOK
  BY <1>3 DEF SelInit, BeforeOK
<1>5. SelectsOK
  BY DEF SelInit, Init, SelectsOK
<1> QED
  BY <1>1, <1>2, <1>4, <1>5 DEF SelInv

\* Every step of a transaction keeps it.
LEMMA StepBeside ==
    ASSUME MemTables = {}, SelInv, Next, UNCHANGED selVars, Record
    PROVE  SelInv'
<1>0. TypeOK
  BY DEF SelInv, AInv, IInv, TInv
<1>1. AInv'
  BY StepAInv DEF SelInv
<1>2. SelTypes'
  BY DEF SelInv, SelTypes, selVars
<1>3. BeforeOK'
  <2>1. ASSUME NEW t \in Tables, ~Committing(t)' PROVE before'[t] = DbOf(t)'
    BY <2>1 DEF Record
  <2>2. ASSUME NEW t \in Tables, Committing(t)', NEW r \in Replaced(t)'
        PROVE  row'[t][r] \in before'[t]
    <3>1. before'[t] = before[t]
      BY <2>2 DEF Record
    <3>2. CASE Committing(t)
      <4>1. r \in Replaced(t) /\ row'[t][r] = row[t][r]
        BY <1>1, <2>2, <3>2, WalkReplaces DEF SelInv
      <4> QED
        BY <3>1, <3>2, <4>1 DEF SelInv, BeforeOK
    <3>3. CASE ~Committing(t)
      <4>1. r \in Committed(t)'
        BY DEF Replaced
      <4>2. r \in Committed(t) /\ row'[t][r] = row[t][r]
        BY <2>2, <3>3, <4>1, WalkStarts DEF SelInv
      <4>3. before[t] = Content(t, Committed(t))
        BY <3>3 DEF SelInv, BeforeOK, DbOf
      <4> QED
        BY <3>1, <4>2, <4>3 DEF Content
    <3> QED
      BY <3>2, <3>3
  <2> QED
    BY <2>1, <2>2 DEF BeforeOK
<1>4. ASSUME NEW c \in Conns, pc'[c] # "select" PROVE rowset'[c] = {} /\ out'[c] = {}
  <2>1. pc[c] # "select"
    BY <1>0, <1>4, Bystander
  <2> QED
    BY <2>1 DEF SelInv, SelectsOK, selVars
<1>5. ASSUME NEW c \in Conns, pc'[c] = "select"
      PROVE  /\ stmt'[c] \in Tables /\ c \in readers'[stmt'[c]]
             /\ ViewsOf(c, stmt[c])' \subseteq views'[c]
             /\ \A r \in rowset'[c] : row'[stmt'[c]][r] \in Seen(c)'
             /\ out'[c] \subseteq Seen(c)'
             /\ Committing(stmt[c])' => disturbed'[c]
             /\ Steady(c)' => Exact(c, stmt[c])'
  <2>0. PICK t : t = stmt[c]
    OBVIOUS
  <2>1. pc[c] = "select" /\ stmt'[c] = t /\ readers' = readers
    BY <1>0, <1>5, <2>0, Bystander
  <2>2. t \in Tables /\ c \in readers[t]
    BY <2>0, <2>1 DEF SelInv, SelectsOK, SelectOK
  <2>3. /\ views'[c] = views[c] \union ViewsOf(c, stmt[c])'
        /\ disturbed'[c] <=> disturbed[c] \/ Committing(stmt[c])'
    BY <1>5 DEF Record
  <2>4. UNCHANGED <<scan, rowset, out>>
    BY DEF selVars
  <2>5. /\ tblLock'[t] = c <=> tblLock[t] = c
        /\ \A r \in Rows : row'[t][r] \in {row[t][r], Junk}
        /\ tblLock[t] = c \/ (~Committing(t) /\ ~Committing(t)') =>
               ValidRows(c, t)' = ValidRows(c, t) /\ SameRows(t, ValidRows(c, t))
    BY <1>1, <2>0, <2>1, <2>2, Beside DEF SelInv
  <2>6. Seen(c) \subseteq Seen(c)'
    BY <2>3 DEF Seen
  <2>7. /\ \A r \in rowset[c] : row[t][r] \in Seen(c) /\ r \in Rows
        /\ out[c] \subseteq Seen(c)
        /\ Committing(t) => disturbed[c]
    BY <2>0, <2>1 DEF SelInv, SelectsOK, SelectOK, SelTypes
  <2>8. \A r \in rowset'[c] : row'[t][r] \in Seen(c)'
    <3>1. Junk \in Seen(c)'
      BY DEF Seen
    <3>2. rowset'[c] = rowset[c]
      BY <2>4
    <3> QED
      BY <2>5, <2>6, <2>7, <3>1, <3>2
  <2>9. ASSUME Steady(c)' PROVE Exact(c, stmt[c])'
    <3>1. Steady(c) /\ (tblLock[t] = c \/ (~Committing(t) /\ ~Committing(t)'))
      BY <2>0, <2>1, <2>3, <2>5, <2>7, <2>9 DEF Steady
    <3>2. Exact(c, t)
      BY <2>0, <2>1, <3>1 DEF SelInv, SelectsOK, SelectOK
    <3>3. ValidRows(c, t)' = ValidRows(c, t) /\ SameRows(t, ValidRows(c, t))
      BY <2>5, <3>1
    <3>4. \A S \in SUBSET ValidRows(c, t) : {row'[t][r] : r \in S} = Content(t, S)
      BY <3>3 DEF Content, SameRows
    <3>5. /\ rowset[c] \subseteq ValidRows(c, t)
          /\ Content(t, ValidRows(c, t)) = out[c] \union
                Content(t, rowset[c] \union (scan[c] \intersect ValidRows(c, t)))
      BY <3>2 DEF Exact
    <3>6. Exact(c, t)'
      BY <2>4, <3>3, <3>4, <3>5 DEF Exact, Content
    <3> QED
      BY <2>1, <3>6
  <2> QED
    BY <2>1, <2>2, <2>3, <2>4, <2>6, <2>7, <2>8, <2>9
<1> QED
  BY <1>1, <1>2, <1>3, <1>4, <1>5 DEF SelInv, SelectsOK, SelectOK

\* What the steps of one SELECT do to another.
LEMMA OtherReads ==
    ASSUME SelInv, NEW d \in Conns, Reads(d), NEW c \in Conns, c # d
    PROVE  /\ pc'[c] = pc[c] /\ stmt'[c] = stmt[c]
           /\ scan'[c] = scan[c] /\ rowset'[c] = rowset[c] /\ out'[c] = out[c]
           /\ \A t \in Tables : c \in readers[t] => c \in readers'[t]
<1>0. TypeOK /\ SelTypes
  BY DEF SelInv, AInv, IInv, TInv
<1>1. ASSUME NEW t \in Tables, Select(d, t)
      PROVE  /\ scan'[c] = scan[c] /\ rowset'[c] = rowset[c] /\ out'[c] = out[c]
             /\ \A u \in Tables : c \in readers[u] => c \in readers'[u]
  BY <1>0, <1>1 DEF Select, TypeOK, SelTypes
<1>2. ASSUME NEW r \in Rows, FilterRow(d, r) \/ CopyRow(d, r)
      PROVE  /\ scan'[c] = scan[c] /\ rowset'[c] = rowset[c] /\ out'[c] = out[c]
             /\ \A u \in Tables : c \in readers[u] => c \in readers'[u]
  BY <1>0, <1>2 DEF FilterRow, CopyRow, vars, SelTypes
<1>3. ASSUME EndSelect(d)
      PROVE  /\ scan'[c] = scan[c] /\ rowset'[c] = rowset[c] /\ out'[c] = out[c]
             /\ \A u \in Tables : c \in readers[u] => c \in readers'[u]
  BY <1>0, <1>3 DEF EndSelect, TypeOK, SelTypes
<1> QED
  BY <1>0, <1>1, <1>2, <1>3, ReadSteps DEF Reads

\* The history grows only; Record itself gives two parts of the invariant.
LEMMA Recorded ==
    ASSUME Record, NEW c \in Conns, pc'[c] = "select"
    PROVE  /\ Seen(c) \subseteq Seen(c)' /\ Junk \in Seen(c)'
           /\ ViewsOf(c, stmt[c])' \subseteq views'[c]
           /\ Committing(stmt[c])' => disturbed'[c]
           /\ disturbed[c] => disturbed'[c]
BY DEF Record, Seen

\* Nor do the steps of a SELECT break it.
LEMMA StepReads ==
    ASSUME MemTables = {}, SelInv, NEW d \in Conns, Reads(d), Record
    PROVE  SelInv'
<1>0. TypeOK /\ SelTypes /\ AInv
  BY DEF SelInv, AInv, IInv, TInv
<1>1. AInv'
  BY <1>0, ReadAInv
<1>2. SelTypes'
  <2>1. ASSUME NEW t \in Tables, Select(d, t) PROVE SelTypes'
    BY <1>0, <2>1 DEF Select, SelTypes
  <2>2. ASSUME NEW r \in Rows, FilterRow(d, r) PROVE SelTypes'
    BY <1>0, <2>2 DEF FilterRow, SelTypes
  <2>3. ASSUME NEW r \in Rows, CopyRow(d, r) PROVE SelTypes'
    <3>1. row[stmt[d]][r] \in Records \union {Junk}
      BY <1>0, <2>3 DEF CopyRow, SelInv, SelectsOK, SelectOK, TypeOK
    <3> QED
      BY <1>0, <2>3, <3>1 DEF CopyRow, SelTypes
  <2>4. ASSUME EndSelect(d) PROVE SelTypes'
    BY <1>0, <2>4 DEF EndSelect, SelTypes
  <2> QED
    BY <2>1, <2>2, <2>3, <2>4 DEF Reads
<1>3. /\ UNCHANGED <<ctrl, row, newRows, delRows, tblLock>>
      /\ \A c \in Conns \ {d} : pc'[c] = pc[c] /\ stmt'[c] = stmt[c]
      /\ {pc[d], pc'[d]} \subseteq {"idle", "select"}
  BY <1>0, ReadSteps DEF rowVars, setVars, lockVars
<1>4. ASSUME NEW t \in Tables
      PROVE  /\ Committing(t)' = Committing(t) /\ Replaced(t)' = Replaced(t)
             /\ DbOf(t)' = DbOf(t)
  <2>1. Committing(t)' = Committing(t)
    BY <1>0, <1>3 DEF Committing, TypeOK
  <2> QED
    BY <1>3, <2>1 DEF Replaced, DbOf, Content, Committed, ValidRows, Valid
<1>5. BeforeOK'
  <2>1. \A t \in Tables : before'[t] = IF Committing(t)' THEN before[t] ELSE DbOf(t)'
    BY DEF Record
  <2> QED
    BY <1>3, <1>4, <2>1 DEF SelInv, BeforeOK
<1>6. ASSUME NEW c \in Conns \ {d}
      PROVE  IF pc'[c] = "select" THEN SelectOK(c)' ELSE rowset'[c] = {} /\ out'[c] = {}
  <2>1. /\ pc'[c] = pc[c] /\ stmt'[c] = stmt[c]
        /\ scan'[c] = scan[c] /\ rowset'[c] = rowset[c] /\ out'[c] = out[c]
        /\ \A t \in Tables : c \in readers[t] => c \in readers'[t]
    BY OtherReads
  <2>2. CASE pc[c] # "select"
    BY <2>1, <2>2 DEF SelInv, SelectsOK
  <2>3. CASE pc[c] = "select"
    <3>1. SelectOK(c)
      BY <2>3 DEF SelInv, SelectsOK
    <3>2. /\ Seen(c) \subseteq Seen(c)' /\ Junk \in Seen(c)'
          /\ ViewsOf(c, stmt[c])' \subseteq views'[c]
          /\ Committing(stmt[c])' => disturbed'[c]
          /\ disturbed[c] => disturbed'[c]
      BY <2>1, <2>3, Recorded
    <3>3. Steady(c)' => Steady(c)
      BY <1>3, <2>1, <3>2 DEF Steady
    <3>4. Exact(c, stmt[c]) => Exact(c, stmt[c])'
      BY <1>3, <2>1 DEF Exact, Content, ValidRows, Valid
    <3> QED
      BY <1>3, <2>1, <2>3, <3>1, <3>2, <3>3, <3>4 DEF SelectOK
  <2> QED
    BY <2>2, <2>3
<1>7. IF pc'[d] = "select" THEN SelectOK(d)' ELSE rowset'[d] = {} /\ out'[d] = {}
  <2>0. UNCHANGED <<row, ctrl, newRows, delRows, tblLock>>
    BY <1>3
  <2>r. pc'[d] = "select" =>
           /\ Seen(d) \subseteq Seen(d)' /\ Junk \in Seen(d)'
           /\ ViewsOf(d, stmt[d])' \subseteq views'[d]
           /\ Committing(stmt[d])' => disturbed'[d]
           /\ disturbed[d] => disturbed'[d]
    BY Recorded
  <2>1. ASSUME NEW t \in Tables, Select(d, t) PROVE pc'[d] = "select" /\ SelectOK(d)'
    <3>1. /\ pc'[d] = "select" /\ stmt'[d] = t /\ d \in readers'[t]
          /\ scan'[d] = Rows /\ out'[d] = {} /\ rowset'[d] = {}
      BY <1>0, <2>1 DEF Select, TypeOK, SelTypes, SelInv, SelectsOK
    <3>2. ValidRows(d, t)' \subseteq Rows
      BY DEF ValidRows
    <3>3. Exact(d, t)'
      BY <3>1, <3>2 DEF Exact, Content
    <3> QED
      BY <2>r, <3>1, <3>3 DEF SelectOK
  <2>2. ASSUME pc[d] = "select", UNCHANGED vars,
               \A r \in rowset'[d] : row[stmt[d]][r] \in Seen(d),
               out'[d] \subseteq Seen(d),
               Exact(d, stmt[d]) => Exact(d, stmt[d])'
        PROVE  pc'[d] = "select" /\ SelectOK(d)'
    <3>1. SelectOK(d)
      BY <2>2 DEF SelInv, SelectsOK
    <3>2. UNCHANGED <<pc, stmt, readers, row, tblLock>>
      BY <2>2 DEF vars, rowVars, lockVars
    <3>3. Steady(d)' => Steady(d)
      BY <2>r, <2>2, <3>2 DEF Steady
    <3> QED
      BY <2>r, <2>2, <3>1, <3>2, <3>3 DEF SelectOK
  <2>3. ASSUME NEW r \in Rows, FilterRow(d, r) PROVE pc'[d] = "select" /\ SelectOK(d)'
    <3>0. PICK t : t = stmt[d]
      OBVIOUS
    <3>1. /\ pc[d] = "select" /\ UNCHANGED vars /\ UNCHANGED stmt /\ out' = out
          /\ scan'[d] = scan[d] \ {r} /\ r \in scan[d]
          /\ rowset'[d] = IF r \in ValidRows(d, t) THEN rowset[d] \union {r} ELSE rowset[d]
      BY <1>0, <2>3, <3>0 DEF FilterRow, Least, Visible, ValidRows, SelTypes, vars
    <3>2. r \in ValidRows(d, t) => row[t][r] \in Seen(d)
      BY <3>0, <3>1, ValidSeen
    <3>3. SelectOK(d)
      BY <3>1 DEF SelInv, SelectsOK
    <3>4. ValidRows(d, t)' = ValidRows(d, t) /\ \A S : Content(t, S)' = {row[t][q] : q \in S'}
      BY <2>0 DEF ValidRows, Valid, Content
    <3>5. Exact(d, t) => Exact(d, t)'
      <4>1. rowset'[d] \union (scan'[d] \intersect ValidRows(d, t))
               = rowset[d] \union (scan[d] \intersect ValidRows(d, t))
        BY <3>1
      <4> QED
        BY <2>0, <3>1, <3>4, <4>1 DEF Exact, Content
    <3> QED
      BY <2>2, <3>0, <3>1, <3>2, <3>3, <3>5 DEF SelectOK
  <2>4. ASSUME NEW r \in Rows, CopyRow(d, r) PROVE pc'[d] = "select" /\ SelectOK(d)'
    <3>0. PICK t : t = stmt[d]
      OBVIOUS
    <3>1. /\ pc[d] = "select" /\ UNCHANGED vars /\ UNCHANGED stmt
          /\ scan[d] = {} /\ scan' = scan
          /\ r \in rowset[d] /\ rowset'[d] = rowset[d] \ {r}
          /\ out'[d] = out[d] \union {row[t][r]}
      BY <1>0, <2>4, <3>0 DEF CopyRow, Least, SelTypes, vars
    <3>2. SelectOK(d)
      BY <3>1 DEF SelInv, SelectsOK
    <3>3. ValidRows(d, t)' = ValidRows(d, t)
      BY <2>0 DEF ValidRows, Valid
    <3>4. Exact(d, t) => Exact(d, t)'
      BY <2>0, <3>1, <3>3 DEF Exact, Content
    <3> QED
      BY <2>2, <3>0, <3>1, <3>2, <3>4 DEF SelectOK
  <2>5. ASSUME EndSelect(d) PROVE pc'[d] # "select" /\ rowset'[d] = {} /\ out'[d] = {}
    BY <1>0, <2>5 DEF EndSelect, Answered, TypeOK, SelTypes
  <2> QED
    BY <2>1, <2>3, <2>4, <2>5 DEF Reads
<1> QED
  BY <1>1, <1>2, <1>5, <1>6, <1>7 DEF SelInv, SelectsOK

-------------------------------------------------------------------------------
(* The theorems.                                                            *)

\* Every reachable state of connections that read and write disk tables beside
\* each other satisfies the invariant.
THEOREM SelectInvariant ==
    ASSUME MemTables = {}
    PROVE  SelSpec => []SelInv
<1>1. SelInit => SelInv
  BY InitSel
<1>2. SelInv /\ [SelNext]_SelVars => SelInv'
  <2> SUFFICES ASSUME SelInv, [SelNext]_SelVars PROVE SelInv'
    OBVIOUS
  <2>1. CASE Next /\ UNCHANGED selVars /\ Record
    BY <2>1, StepBeside
  <2>2. ASSUME NEW c \in Conns, Reads(c), Record PROVE SelInv'
    BY <2>2, StepReads
  <2>3. CASE UNCHANGED SelVars
    <3>1. /\ UNCHANGED <<ctrl, row, idx, tblLock, readers, inTrans, autoTrans, wrLocks, tblRows,
                         newRows, delRows, pc, stmt, todo, toNew, toDel, again,
                         scan, rowset, out, views, before, disturbed>>
      BY <2>3 DEF SelVars, vars, rowVars, setVars, walkVars, connVars, lockVars, selVars, ghostVars
    <3>2. AInv'
      <4>1. UNCHANGED vars
        BY <2>3 DEF SelVars
      <4> QED
        BY <4>1, StepAInv DEF SelInv
    <3>3. SelTypes' /\ BeforeOK'
      BY <3>1 DEF SelInv, SelTypes, BeforeOK, Replaced, Committing, DbOf, Content, Committed,
                  ValidRows, Valid
    <3>4. SelectsOK'
      <4>1. ASSUME NEW c \in Conns
            PROVE  /\ ViewsOf(c, stmt[c])' = ViewsOf(c, stmt[c]) /\ Seen(c)' = Seen(c)
                   /\ Committing(stmt[c])' = Committing(stmt[c])
                   /\ Steady(c)' = Steady(c) /\ Exact(c, stmt[c])' = Exact(c, stmt[c])
        BY <3>1 DEF ViewsOf, Seen, Steady, Exact, WorkOf, DbOf, Content, Committing, Committed,
                    ValidRows, Valid
      <4> QED
        BY <3>1, <4>1 DEF SelInv, SelectsOK, SelectOK
    <3> QED
      BY <3>2, <3>3, <3>4 DEF SelInv
  <2> QED
    BY <2>1, <2>2, <2>3 DEF SelNext, Reads
<1> QED
  BY <1>1, <1>2, PTL DEF SelSpec, SelVars

\* No dirty reads: a row in a result was in the committed content of its table, or
\* in the content the reader itself works on, at some moment of the SELECT, or is
\* the overwritten block of a row that a commit freed.
THEOREM SelectNoDirtyRead ==
    ASSUME MemTables = {}
    PROVE  SelSpec => []NoDirtyRead
<1>1. SelInv => NoDirtyRead
  <2>1. ASSUME SelInv, NEW c \in Conns PROVE out[c] \subseteq Seen(c)
    BY <2>1 DEF SelInv, SelectsOK, SelectOK
  <2> QED
    BY <2>1 DEF NoDirtyRead, Seen
<1> QED
  BY SelectInvariant, <1>1, PTL

\* A transaction reads its own writes, all of them and nothing else.
THEOREM SelectReadsOwnWrites ==
    ASSUME MemTables = {}
    PROVE  SelSpec => []ReadsOwnWrites
<1>1. SelInv => ReadsOwnWrites
  <2>1. ASSUME SelInv, NEW c \in Conns, Answered(c), Steady(c)
        PROVE  out[c] = Content(stmt[c], ValidRows(c, stmt[c]))
    <3>1. Exact(c, stmt[c])
      BY <2>1 DEF SelInv, SelectsOK, SelectOK, Answered
    <3> QED
      BY <2>1, <3>1 DEF Exact, Answered, Content
  <2> QED
    BY <2>1 DEF ReadsOwnWrites, Steady
<1> QED
  BY SelectInvariant, <1>1, PTL

\* A SELECT with no commit of its table beside it answers one content of the table.
THEOREM SelectUndisturbed ==
    ASSUME MemTables = {}
    PROVE  SelSpec => []SnapshotUndisturbed
<1>1. SelInv => SnapshotUndisturbed
  <2>1. ASSUME SelInv, NEW c \in Conns, Answered(c), ~disturbed[c]
        PROVE  out[c] \in views[c]
    <3> DEFINE t == stmt[c]
    <3>1. SelectOK(c) /\ t \in Tables
      BY <2>1 DEF SelInv, SelectsOK, SelectOK, Answered
    <3>2. out[c] = Content(t, ValidRows(c, t))
      BY <2>1, <3>1 DEF SelectOK, Steady, Exact, Answered, Content
    <3>3. CASE tblLock[t] = c
      <4>1. WorkOf(t) = Content(t, ValidRows(c, t))
        BY <2>1, <3>3, TransAssumption DEF WorkOf, Answered
      <4> QED
        BY <3>1, <3>2, <3>3, <4>1 DEF SelectOK, ViewsOf
    <3>4. CASE tblLock[t] # c
      <4>1. newRows[c][t] = {} /\ delRows[c][t] = {}
        BY <2>1, <3>1, <3>4 DEF SelInv, AInv, IInv, WInv, LockCoversRows
      <4>2. ValidRows(c, t) = Committed(t)
        BY <4>1 DEF ValidRows, Valid, Committed
      <4>3. DbOf(t) = Content(t, Committed(t))
        BY <2>1, <3>1 DEF SelectOK, DbOf
      <4> QED
        BY <3>1, <3>2, <3>4, <4>2, <4>3 DEF SelectOK, ViewsOf
    <3> QED
      BY <3>3, <3>4
  <2> QED
    BY <2>1 DEF SnapshotUndisturbed
<1> QED
  BY SelectInvariant, <1>1, PTL
===============================================================================
