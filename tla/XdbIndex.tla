------------------------------- MODULE XdbIndex -------------------------------
(***************************************************************************)
(* The indexes of one table: core/xdb_index.c and core/xdb_hash.c, under   *)
(* the row changes of the transaction that has the table's lock.  Indexes  *)
(* declared RBTREE are the trees of XdbRbtree, the others hash indexes.    *)
(*                                                                         *)
(* Every row has a node in every index, at the row's own id.  A slot leads *)
(* to a chain of top nodes, one for each key; further rows with the key of *)
(* a top node hang below it as its siblings.  The three links of a node    *)
(* say where it is:                                                        *)
(*                      next           prev               sibling          *)
(*   top node           next top       previous top,      first sibling,   *)
(*                                     or its slot        or 0             *)
(*   first sibling      next sibling   0                  its top node     *)
(*   later sibling      next sibling   previous sibling   the mark         *)
(* A slot in prev, and the mark, carry the top bit (XDB_ROWID_MSB): here   *)
(* they are the negative numbers.  A node with three zeros is in no chain; *)
(* its hash_val is of no use, and 0 here.                                  *)
(***************************************************************************)
EXTENDS XdbRbtree, SequencesExt

CONSTANTS
    Indexes,        \* index ids
    Records,        \* contents of a row: its key in each index
    Cases,          \* tables: indexes declared UNIQUE (uniq) and RBTREE (trees),
                    \* those of CREATE TABLE (first) and those dropped and created
                    \* later (ddl), what clients write into each row (put); bounds:
                    \* rows a transaction adds and deletes (changes), crashes (crashes)
    Free,           \* content of a row that is not in use
    Hash,           \* hash_val of a key
    FirstCap        \* number of slots of a new index (8 in the code)

ASSUME IndexAssumption ==
    /\ MaxRow \in Nat
    /\ Indexes \subseteq Nat \ {0} /\ IsFiniteSet(Indexes)
    /\ \A c \in Cases :
           /\ c.uniq \union c.trees \union c.first \union c.ddl \subseteq Indexes
           /\ DOMAIN c.put \subseteq Rows
           /\ \A r \in DOMAIN c.put : \A rec \in c.put[r] :
                  rec \in Records /\ c.first \union c.ddl \subseteq DOMAIN rec
           /\ c.changes \in Nat /\ c.crashes \in Nat
    /\ \A rec \in Records : \A i \in DOMAIN rec : Hash[rec[i]] \in Nat
    /\ Free \notin Records
    /\ FirstCap \in Nat \ {0}

VARIABLES
    table,      \* the case
    live,       \* the indexes the table has: idx_objm, in the order of idx_order
    row,        \* content of every row, or Free
    idx,        \* every index: its nodes and counters
    own,        \* new_rows of the transaction: TRANS versions
    gone,       \* del_rows of the transaction: committed rows it deletes
    walk,       \* whether the transaction commits or rolls back: its walk
    repairs     \* how often the table was repaired

vars == <<table, live, row, idx, own, gone, walk, repairs>>

uniq == table.uniq
trees == table.trees

SlotMark(s) == -1 - s           \* XDB_ROWID_MSB | s
SlotOf(prev) == -1 - prev       \* prev & XDB_ROWID_MASK
SibMark == SlotMark(0)          \* XDB_ROWID_MSB alone

Nowhere == [next |-> 0, prev |-> 0, sibling |-> 0, hash |-> 0]
NewHash == [slot |-> [s \in 0 .. FirstCap - 1 |-> 0], node |-> [r \in DOMAIN table.put |-> Nowhere],
            slots |-> 0, tops |-> 0, rows |-> 0]
NewIndex(i) == IF i \in trees THEN NewTree ELSE NewHash

Init ==
    /\ table \in Cases /\ live = table.first
    /\ row = [r \in DOMAIN table.put |-> Free]
    /\ idx = [i \in Indexes |-> NewIndex(i)]
    /\ own = {} /\ gone = {} /\ walk = "none" /\ repairs = 0

Used == {r \in DOMAIN row : row[r] # Free}
Valid(r) == r \in Used \ gone       \* xdb_row_valid for the transaction
MayChange == walk = "none" /\ Cardinality(own \union gone) < table.changes
Least(x, S) == x \in S /\ \A y \in S : x <= y

-------------------------------------------------------------------------------
(* Chains.  x is an index, a record like NewIndex.                          *)

Cap(x) == Cardinality(DOMAIN x.slot)

\* The nodes that next leads to from node r on, in order.  A chain that does
\* not end is cut off when it is longer than there are rows.
Chain(x, r) ==
    LET N == Cardinality(DOMAIN row) + 1
        after(q) == IF q = 0 THEN 0 ELSE x.node[q].next
        nth[n \in 1 .. N] == IF n = 1 THEN r ELSE after(nth[n - 1])
    IN  [m \in 1 .. Cardinality({n \in 1 .. N : nth[n] # 0}) |-> nth[m]]

\* The first element of the sequence that is in S, or 0
FirstOf(seq, S) ==
    LET at == {n \in DOMAIN seq : seq[n] \in S} IN IF at = {} THEN 0 ELSE seq[Min(at)]

-------------------------------------------------------------------------------
(* The chain of a slot.                                                     *)

\* Take node r out of the list it is in: a top node out of its slot, or a later
\* sibling out of the siblings.
Unlink(x, r) ==
    LET n == x.node[r]
        y == IF n.next = 0 THEN x ELSE [x EXCEPT !.node[n.next].prev = n.prev]
    IN  IF n.prev > 0 THEN [y EXCEPT !.node[n.prev].next = n.next]
        ELSE IF n.prev < 0
        THEN [y EXCEPT !.slot[SlotOf(n.prev)] = n.next,
                       !.slots = IF n.next = 0 THEN @ - 1 ELSE @]
        ELSE y

\* Make r the first top node of slot s.
Push(x, s, r) ==
    LET first == x.slot[s]
        y == [x EXCEPT !.slot[s] = r, !.node[r].next = first, !.node[r].prev = SlotMark(s)]
    IN  IF first = 0 THEN [y EXCEPT !.slots = @ + 1]
        ELSE [y EXCEPT !.node[first].prev = r]

-------------------------------------------------------------------------------
(* xdb_hash_rehash: the slots are doubled and each old one is split.        *)

\* Top node r of slot s goes to the slot its hash now has.
Move(s, x, r) ==
    LET t == x.node[r].hash % Cap(x)
    IN  IF t = s THEN x ELSE Push(Unlink(x, r), t, r)

\* The top nodes of slot s, in their order.
Split(x, s) ==
    LET tops == Chain(x, x.slot[s])
        moved[n \in 0 .. Len(tops)] == IF n = 0 THEN x ELSE Move(s, moved[n - 1], tops[n])
    IN  moved[Len(tops)]

Rehash(x) ==
    LET wide == [x EXCEPT !.slot =
                    [s \in 0 .. 2 * Cap(x) - 1 |-> IF s < Cap(x) THEN @[s] ELSE 0]]
        split[s \in 0 .. Cap(x)] ==
            IF s = 0 THEN wide ELSE Split(split[s - 1], s - 1)
    IN  split[Cap(x)]

-------------------------------------------------------------------------------
(* xdb_hash_add.                                                            *)

\* A row that was freed has lost its key.
KeyOf(i, r) == IF row[r] = Free THEN Free ELSE row[r][i]

SlotFor(x, key) == x.slot[Hash[key] % Cap(x)]

\* The top node of a key, or 0
TopOf(x, i, key) ==
    FirstOf(Chain(x, SlotFor(x, key)),
            {q \in DOMAIN row : x.node[q].hash = Hash[key] /\ KeyOf(i, q) = key})

Siblings(x, top) == Chain(x, x.node[top].sibling)

\* All nodes of a key, the top node first: what xdb_hash_query visits, and
\* xdb_rbtree_query for a value of every column of the index
Query(x, i, key) ==
    LET keys == [r \in Nodes |-> IF r \in Used THEN row[r][i] ELSE Free]
        top == IF i \in trees THEN TreeTop(x, keys, key) ELSE TopOf(x, i, key)
    IN  IF top = 0 THEN <<>>
        ELSE <<top>> \o IF i \in trees THEN TreeSiblings(x, top) ELSE Siblings(x, top)

\* What every insertion does first, also one that is refused
Prepared(i, x) == IF i \notin trees /\ Cap(x) \div 2 < x.slots THEN Rehash(x) ELSE x

\* mutant: siblings are not looked at
M_Refuses(x, i, key, V) == i \in uniq /\ Query(x, i, key) # <<>> /\ Head(Query(x, i, key)) \in V

\* A unique hash index has a row of V with the key; of a unique tree, only the
\* row that is in the tree is looked at, not its siblings.
Refuses(x, i, key, V) ==
    LET meets(q) == IF i \in trees THEN q # <<>> /\ Head(q) \in V ELSE ToSet(q) \cap V # {}
    IN  i \in uniq /\ meets(Query(x, i, key))

\* mutant: the sibling that was first does not become a later one
M_AddSibling(x, top, r) ==
    LET first == x.node[top].sibling
        y == [x EXCEPT !.node[top].sibling = r,
                       !.node[r] = [next |-> first, prev |-> 0, sibling |-> top,
                                    hash |-> x.node[top].hash]]
    IN  IF first = 0 THEN y ELSE [y EXCEPT !.node[first].prev = r]

\* r becomes the first sibling of a top node with its key ...
AddSibling(x, top, r) ==
    LET first == x.node[top].sibling
        y == [x EXCEPT !.node[top].sibling = r,
                       !.node[r] = [next |-> first, prev |-> 0, sibling |-> top,
                                    hash |-> x.node[top].hash]]
    IN  IF first = 0 THEN y
        ELSE [y EXCEPT !.node[first] = [@ EXCEPT !.prev = r, !.sibling = SibMark]]

\* ... or a top node of its own.
AddTop(x, key, r) ==
    LET y == [x EXCEPT !.node[r] = [@ EXCEPT !.hash = Hash[key], !.sibling = 0], !.tops = @ + 1]
    IN  Push(y, Hash[key] % Cap(x), r)

HashInserted(x, i, r, key) ==
    LET top == TopOf(x, i, key)
        y == IF top = 0 THEN AddTop(x, key, r) ELSE AddSibling(x, top, r)
    IN  [y EXCEPT !.rows = @ + 1]

\* idx_add of a row that is not refused
Inserted(i, x, r, key) ==
    IF i \in trees
    THEN TreeInserted(x, [q \in Nodes |-> IF q = r THEN key ELSE IF q \in Used THEN row[q][i] ELSE Free], r)
    ELSE HashInserted(x, i, r, key)

-------------------------------------------------------------------------------
(* xdb_hash_rem.                                                            *)

\* mutant: the counter of the top nodes also counts siblings down
M_RemPlain(x, r) == [Unlink(x, r) EXCEPT !.tops = @ - 1]

\* mutant: the promoted sibling leaves the others behind
M_RemTop(x, r) ==
    LET n == x.node[r]
        up == n.sibling
        y == [x EXCEPT !.node[up] = [@ EXCEPT !.sibling = 0, !.next = n.next, !.prev = n.prev]]
        z == IF n.next = 0 THEN y ELSE [y EXCEPT !.node[n.next].prev = up]
    IN  IF n.prev < 0 THEN [z EXCEPT !.slot[SlotOf(n.prev)] = up]
        ELSE [z EXCEPT !.node[n.prev].next = up]

\* A top node without siblings, or a later sibling
RemPlain(x, r) ==
    [Unlink(x, r) EXCEPT !.tops = IF x.node[r].sibling = 0 THEN @ - 1 ELSE @]

\* The first sibling: the next one takes its place.
RemFirstSibling(x, r) ==
    LET n == x.node[r]
        y == [x EXCEPT !.node[n.sibling].sibling = n.next]
    IN  IF n.next = 0 THEN y
        ELSE [y EXCEPT !.node[n.next] = [@ EXCEPT !.prev = 0, !.sibling = n.sibling]]

\* A top node with siblings: the first one takes its place in the slot, and the
\* second one becomes the first.
RemTop(x, r) ==
    LET n == x.node[r]
        up == n.sibling
        second == x.node[up].next
        w == IF second = 0 THEN x
             ELSE [x EXCEPT !.node[second] = [@ EXCEPT !.sibling = up, !.prev = 0]]
        y == [w EXCEPT !.node[up] =
                 [@ EXCEPT !.sibling = second, !.next = n.next, !.prev = n.prev]]
        z == IF n.next = 0 THEN y ELSE [y EXCEPT !.node[n.next].prev = up]
    IN  IF n.prev < 0 THEN [z EXCEPT !.slot[SlotOf(n.prev)] = up]
        ELSE [z EXCEPT !.node[n.prev].next = up]

HashRemoved(x, r) ==
    LET n == x.node[r]
        y == IF n.sibling <= 0 THEN RemPlain(x, r)
             ELSE IF n.prev = 0 THEN RemFirstSibling(x, r)
             ELSE RemTop(x, r)
    IN  IF n.next = 0 /\ n.prev = 0 /\ n.sibling = 0 THEN x
        ELSE [y EXCEPT !.node[r] = Nowhere, !.rows = @ - 1]

\* idx_rem
Removed(i, x, r) == IF i \in trees THEN TreeRemoved(x, r) ELSE HashRemoved(x, r)

-------------------------------------------------------------------------------
(* xdb_index.c: a row in all its indexes.                                   *)

RemRow(ix, A, r) == [i \in Indexes |-> IF i \in A THEN Removed(i, ix[i], r) ELSE ix[i]]

\* The first index, in order, that refuses the row; V are the valid rows, none
\* when the table is repaired.
Refusing(ix, r, rec, V) ==
    LET first(bad) == {i \in bad : Least(i, bad)}
    IN  first({i \in live : Refuses(Prepared(i, ix[i]), i, rec[i], V)})

\* xdb_idx_addRow, f being the index that refuses.  The loop that should take the
\* row out of the indexes before f removes it from f, once for each of them.
AddRefused(ix, A, r, rec, f) ==
    LET refused(i, ready) == IF i \in trees THEN TreeRefused(ix[i], r) ELSE ready
        taken(i, x) == IF \E j \in live : j < i THEN Removed(i, x, r) ELSE x
    IN  [i \in Indexes |->
            IF i \notin A \/ \E g \in f : g < i THEN ix[i]
            ELSE IF i \notin f THEN Inserted(i, Prepared(i, ix[i]), r, rec[i])
            ELSE taken(i, refused(i, Prepared(i, ix[i])))]

AddRow(ix, A, r, rec, V) == AddRefused(ix, A, r, rec, Refusing(ix, r, rec, V))

-------------------------------------------------------------------------------
(* The row changes of a transaction.                                        *)

\* The block a new row gets is the store's choice (XdbStore); here it is the least
\* of the free ones that clients write alike, for the index does not compare ids.
NewBlock(r) ==
    r \in DOMAIN table.put /\ Least(r, {q \in DOMAIN table.put \ Used : table.put[q] = table.put[r]})

\* xdb_row_insert of rec into block r: a refused row is freed again.
InsertUnless(f, ix, r, rec, rowNow, ownNow) ==
    /\ idx' = AddRefused(ix, live, r, rec, f)
    /\ row' = IF f = {} THEN [rowNow EXCEPT ![r] = rec] ELSE rowNow
    /\ own' = IF f = {} THEN ownNow \union {r} ELSE ownNow

InsertInto(ix, r, rec, V, rowNow, ownNow) ==
    InsertUnless(Refusing(ix, r, rec, V), ix, r, rec, rowNow, ownNow)

Insert(r, rec) ==
    /\ MayChange /\ NewBlock(r) /\ rec \in table.put[r]
    /\ InsertInto(idx, r, rec, Used \ gone, row, own)
    /\ UNCHANGED <<table, live, repairs, gone, walk>>

\* xdb_row_delete: an own version goes at once, a committed row at the commit.
Delete(r) ==
    /\ Valid(r)
    /\ \/ /\ r \in own /\ walk = "none"
          /\ idx' = RemRow(idx, live, r)
          /\ row' = [row EXCEPT ![r] = Free]
          /\ own' = own \ {r}
          /\ UNCHANGED gone
       \/ /\ r \notin own /\ MayChange
          /\ gone' = gone \union {r}
          /\ UNCHANGED <<row, idx, own>>
    /\ UNCHANGED <<table, live, repairs, walk>>

\* xdb_hash_query2: the first node with the hash decides; if it has another key
\* or is not valid, any valid sibling of it is the answer.
Query2(x, i, key) ==
    LET at == FirstOf(Chain(x, SlotFor(x, key)), {q \in DOMAIN row : x.node[q].hash = Hash[key]})
    IN  IF at = 0 THEN 0
        ELSE IF KeyOf(i, at) = key /\ Valid(at) THEN at
        ELSE FirstOf(Siblings(x, at), Used \ gone)

\* xdb_row_update through a new version in block q: unique check, then
\* xdb_row_updDel of the old version and xdb_row_insert of the new one.  The
\* operations of a tree have no idx_query2: with a unique one the call fails.
Update(r, q, rec) ==
    /\ MayChange /\ Valid(r) /\ NewBlock(q) /\ rec \in table.put[q]
    /\ uniq \cap trees = {}
    /\ \A i \in uniq : Query2(idx[i], i, rec[i]) \in {0, r}
    /\ LET V == Used \ (gone \union {r})
       IN  \/ /\ r \in own
              /\ InsertInto(RemRow(idx, live, r), q, rec, V, [row EXCEPT ![r] = Free], own \ {r})
              /\ UNCHANGED gone
           \/ /\ r \notin own
              /\ InsertInto(idx, q, rec, V, row, own)
              /\ gone' = gone \union {r}
    /\ UNCHANGED <<table, live, repairs, walk>>

\* ... in place, an own version of a table without unique indexes: the row
\* leaves the indexes of the columns that are set, A, and comes back.
UpdateInPlace(r, A, rec) ==
    /\ walk = "none" /\ uniq = {} /\ r \in own /\ rec \in table.put[r]
    /\ \A i \in live \ A : rec[i] = row[r][i]
    /\ idx' = AddRow(RemRow(idx, A, r), A, r, rec, {})
    /\ row' = [row EXCEPT ![r] = rec]
    /\ UNCHANGED <<table, live, repairs, own, gone, walk>>

-------------------------------------------------------------------------------
(* Its end: commit and rollback walk their rows one by one.                 *)

StartCommit ==
    /\ walk = "none" /\ own \union gone # {}
    /\ walk' = "commit"
    /\ own' = {}
    /\ UNCHANGED <<table, live, repairs, row, idx, gone>>

StartRollback ==
    /\ walk = "none" /\ own \union gone # {}
    /\ walk' = "rollback"
    /\ UNCHANGED <<table, live, repairs, row, idx, own, gone>>

CommitDel(r) ==
    /\ walk = "commit" /\ Least(r, gone)
    /\ idx' = RemRow(idx, live, r)
    /\ row' = [row EXCEPT ![r] = Free]
    /\ gone' = gone \ {r}
    /\ UNCHANGED <<table, live, repairs, own, walk>>

RollbackNew(r) ==
    /\ walk = "rollback" /\ Least(r, own)
    /\ idx' = RemRow(idx, live, r)
    /\ row' = [row EXCEPT ![r] = Free]
    /\ own' = own \ {r}
    /\ UNCHANGED <<table, live, repairs, gone, walk>>

Ended ==
    /\ \/ walk = "commit" /\ gone = {}
       \/ walk = "rollback" /\ own = {}
    /\ gone' = {}
    /\ walk' = "none"
    /\ UNCHANGED <<table, live, repairs, row, idx, own>>

\* idx_init; xdb_hash_init: the nodes keep what they hold.
Cleared(i, x) ==
    IF i \in trees THEN TreeCleared(x)
    ELSE [x EXCEPT !.slot = [s \in DOMAIN @ |-> 0], !.slots = 0, !.tops = 0, !.rows = 0]

\* A crash, also within a change, and the repair of the table when it is
\* opened: the uncommitted rows are freed, the others go back into empty
\* indexes.  (After a crash within a commit the WAL completes it: XdbRecovery.)
CrashAndRepair ==
    /\ walk # "commit" /\ repairs < table.crashes
    /\ repairs' = repairs + 1
    /\ LET kept == Used \ own
           cleared == [i \in Indexes |-> IF i \in live THEN Cleared(i, idx[i]) ELSE idx[i]]
           upto[r \in Nodes] ==
               IF r = 0 THEN cleared
               ELSE IF r \in kept THEN AddRow(upto[r - 1], live, r, row[r], {}) ELSE upto[r - 1]
       IN  /\ idx' = upto[MaxRow]
           /\ row' = [r \in DOMAIN row |-> IF r \in kept THEN row[r] ELSE Free]
    /\ own' = {} /\ gone' = {} /\ walk' = "none"
    /\ UNCHANGED <<table, live>>

-------------------------------------------------------------------------------
(* CREATE INDEX and DROP INDEX on a table with rows.                        *)

Quiet == walk = "none" /\ own = {} /\ gone = {}

\* xdb_create_index adds the rows its connection sees, in their order.  It takes
\* no lock and does not fail when a unique index refuses a row: clients have to
\* see to it that no transaction has changed the table, and that the keys of a
\* unique index differ.
CreateIndex(i) ==
    /\ Quiet /\ i \in table.ddl \ live
    /\ i \in uniq => \A q, r \in Used : row[q][i] = row[r][i] => q = r
    /\ live' = live \union {i}
    /\ LET upto[r \in Nodes] ==
               IF r = 0 THEN NewIndex(i)
               ELSE IF r \in Used THEN Inserted(i, Prepared(i, upto[r - 1]), r, row[r][i])
               ELSE upto[r - 1]
       IN  idx' = [idx EXCEPT ![i] = upto[MaxRow]]
    /\ UNCHANGED <<table, row, own, gone, walk, repairs>>

DropIndex(i) ==
    /\ Quiet /\ i \in table.ddl \cap live
    /\ live' = live \ {i}
    /\ idx' = [idx EXCEPT ![i] = NewIndex(i)]
    /\ UNCHANGED <<table, row, own, gone, walk, repairs>>

Next ==
    \/ \E r \in Rows :
          \/ Delete(r) \/ CommitDel(r) \/ RollbackNew(r)
          \/ \E rec \in Records :
                \/ Insert(r, rec)
                \/ \E q \in Rows : Update(r, q, rec)
                \/ \E A \in SUBSET live : UpdateInPlace(r, A, rec)
    \/ StartCommit \/ StartRollback \/ Ended
    \/ CrashAndRepair
    \/ \E i \in Indexes : CreateIndex(i) \/ DropIndex(i)

Spec == Init /\ [][Next]_vars

-------------------------------------------------------------------------------
(* Properties.                                                              *)

Keys(i) == {rec[i] : rec \in UNION {table.put[r] : r \in DOMAIN row}}

\* Whatever rehashes, promotions and repairs came before, a query for a key
\* visits each row that has it exactly once and no other row.
IndexExact ==
    \A i \in live : \A k \in Keys(i) :
        LET q == Query(idx[i], i, k)
        IN  IsInjective(q) /\ ToSet(q) = {r \in Used : row[r][i] = k}

HashLinks(x) ==
    \A s \in DOMAIN x.slot :
        LET tops == Chain(x, x.slot[s])
        IN  \A n \in DOMAIN tops :
                LET top == x.node[tops[n]]
                    sib == Siblings(x, tops[n])
                IN  /\ top.prev = IF n = 1 THEN SlotMark(s) ELSE tops[n - 1]
                    /\ \A m \in DOMAIN sib :
                           /\ x.node[sib[m]].prev = IF m = 1 THEN 0 ELSE sib[m - 1]
                           /\ x.node[sib[m]].sibling = IF m = 1 THEN tops[n] ELSE SibMark

TreeLinks(x) ==
    /\ x.root # 0 => x.parent[x.root] = 0
    /\ \A r \in Below(x, x.root) :
           /\ \A d \in {"left", "right"} : x.kid[d][r] # 0 => x.parent[x.kid[d][r]] = r
           /\ LET sib == TreeSiblings(x, r)
              IN  \A m \in DOMAIN sib :
                     /\ x.kid["left"][sib[m]] = IF m = 1 THEN 0 ELSE sib[m - 1]
                     /\ x.parent[sib[m]] = IF m = 1 THEN -1 - r ELSE -1

\* The links that a removal relies on are the reverse of the ones that a query
\* follows, for the top nodes of each slot, the nodes of a tree, and the
\* siblings of each of them.
BackLinks == \A i \in live : IF i \in trees THEN TreeLinks(idx[i]) ELSE HashLinks(idx[i])

\* Trees stay red-black trees, whatever was inserted and removed and although a
\* removed node may hand its place to a sibling: no search is longer than twice
\* the shortest way down.
TreesBalanced == \A i \in live \cap trees : RedBlack(idx[i])

\* The counters, one of which decides when to rehash, agree with the chains:
\* slots in use, different keys, rows.
CountsExact ==
    \A i \in live :
        LET x == idx[i]
            keys == Cardinality({row[r][i] : r \in Used})
        IN  /\ x.rows = Cardinality(Used)
            /\ IF i \in trees THEN x.nodes = keys
               ELSE x.tops = keys /\ x.slots = Cardinality({s \in DOMAIN x.slot : x.slot[s] # 0})

\* A unique hash index never holds two rows with one key that the transaction
\* sees, although it may hold deleted ones beside them, nor two committed ones.
\* A unique tree can: a row that is inserted beside a deleted one with its key
\* is a sibling, which the next insertion does not look at (xdb_rbtree.c:272).
UniqueKeys ==
    \A i \in (uniq \cap live) \ trees : \A q, r \in Used :
        q # r /\ row[q][i] = row[r][i]
          => ~(Valid(q) /\ Valid(r)) /\ ({q, r} \cap own # {} \/ walk = "commit")

\* xdb_index.c:33, "recover added index": after a refused row no index holds a
\* row that is not in use.
NoDangling ==
    \A i \in live \ trees : \A s \in DOMAIN idx[i].slot :
        \A top \in ToSet(Chain(idx[i], idx[i].slot[s])) :
            {top} \union ToSet(Siblings(idx[i], top)) \subseteq Used
===============================================================================
